CONSTANTS
  Fds <- MCFds
  Texts <- MCTexts
  Programs <- MCPrograms
  Missing <- MCMissing
  Scenarios <- MCScenarios
SPECIFICATION Spec
INVARIANTS
  RunsAsWritten
  FdsKept
  ReaderSeesEnd
