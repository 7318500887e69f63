SPECIFICATION Spec
CONSTANTS
    p1 = p1
    p2 = p2
    p3 = p3
    p4 = p4
    u1 = u1
    u2 = u2
    u3 = u3
    u4 = u4
    NoFile = NoFile
    NoLine = NoLine
    Procs = {p1, p2, p3, p4}
    Cmd <- MCCmd
    User <- MCUser
    NewPw <- MCNewPw
    OldUsers = {u1, u2, u4}
    Prefix <- MCPrefix
    Inodes <- MCInodes
    Uids <- MCUids
    Serial = TRUE
    FaultKinds = {"creat", "link", "copy", "append", "mkdir", "chown", "unlink"}
    Killable = {p1, p3}
    MaxFaults = 1
    MaxCrashes = 1
CHECK_DEADLOCK FALSE
INVARIANTS
    TypeOK
    UsersSafe
    FilesSound
PROPERTIES
    StepsSound
