SPECIFICATION FairSpec
CONSTANTS
    p1 = p1
    p2 = p2
    p3 = p3
    NoJob = NoJob
    NoName = NoName
    Procs = {p1, p2}
    NFiles <- MCNFiles
    Pri <- MCPri
    Letters <- MCLetters
    NSlots = 3
    Stdin = {p2}
    Rflg = {p1}
    Blocks = 2
    FaultKinds = {}
    MaxFaults = 0
    MaxCrashes = 0
PROPERTY QueueEmptied
CHECK_DEADLOCK FALSE
