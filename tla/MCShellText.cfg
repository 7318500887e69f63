SPECIFICATION Spec
CONSTANTS
  Ascii <- MCAscii
  Outputs <- MCOutputs
  Dirs <- MCDirs
  Inputs <- MCInputs
  BufLen = 3
  BufNum = 3
  SegSize = 16
  PtrSize = 4
INVARIANTS
    ParsesBack
    NothingLost
    ArgumentsMean
    StoreSound
