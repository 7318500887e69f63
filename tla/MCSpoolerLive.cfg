SPECIFICATION FairSpec
CONSTANTS
    p1 = p1
    p2 = p2
    p3 = p3
    NoJob = NoJob
    NoName = NoName
    Procs = {p1, p2}
    NFiles <- MCNFiles
    Pri <- MCPri
    Letters <- MCOneLetter
    NSlots = 3
    Stdin = {p2}
    Rflg = {p1}
    Blocks = 2
    FaultKinds = {"put", "copy", "freopen", "write", "unpre", "exec", "chdir",
                  "fork", "opendir", "openent", "device", "print", "unlink"}
    MaxFaults = 2
    MaxCrashes = 0
PROPERTIES
    Terminates
    ScanServed
CHECK_DEADLOCK FALSE
