SPECIFICATION Spec
CONSTANTS
  Procs = {"p", "q"}
  Inodes <- MCInodes
  FileNames <- MCNames
  Tree <- MCTree
  Kind <- MCKind
  Data <- MCData
  Scenarios <- MCScenarios
INVARIANTS
    FilesKept
    TreeSound
    CommandsTrue
