SPECIFICATION Spec
CONSTANTS
  BlkSiz = 2
  ExtMin = 2
  MaxExt = 4
  Share = 2
  Files <- MCFiles
  Dirs <- MCDirs
  Bytes <- MCBytes
  Jobs <- MCJobs
  Budget = 2
INVARIANTS
  VolumesWhole
  RoundTrip
  UpToDate
  ArchiveKept
