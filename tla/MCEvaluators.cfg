CONSTANTS
  Bits <- MCBits
  Words <- MCWords
  FileIs <- MCFileIs
  Tokens <- MCTokens
  Newest <- MCNewest
  IntBytes = 4
  MaxNumber = 327670
  Inputs <- MCInputs
SPECIFICATION Spec
INVARIANTS
    ArgsMean
    FindRight
    DdRight
