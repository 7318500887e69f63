SPECIFICATION Spec
CONSTANTS
    p1 = p1
    p2 = p2
    p3 = p3
    NoJob = NoJob
    NoName = NoName
    Procs = {p1, p2, p3}
    NFiles <- MCNFiles
    Pri <- MCPri
    Letters <- MCLetters
    NSlots = 2
    Stdin = {p2}
    Rflg = {p1}
    Blocks = 2
    FaultKinds = {"put", "device", "exec", "chdir", "fork", "openent", "freopen", "write"}
    MaxFaults = 1
    MaxCrashes = 2
CONSTRAINT Explored
CHECK_DEADLOCK FALSE
INVARIANTS
    TypeOK
    OneDaemon
    TextsReachable
    PriorityRespected
    

    
