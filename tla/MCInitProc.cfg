SPECIFICATION FairSpec
CONSTANTS
    ta = ta
    tb = tb
    NoTty = NoTty
    TtyLines = {ta, tb}
    Comns = {1, 2}
    Files <- MCFiles
    NSlots = 2
    Pids <- MCPids
    MaxSignals = 2
    MaxEvents = 1
    MaxEdits = 2
    MaxChanges = 2
CHECK_DEADLOCK FALSE
INVARIANTS
    TypeOK
    TerminalsServed
PROPERTIES
    RdttysSound
    StopHonoured
