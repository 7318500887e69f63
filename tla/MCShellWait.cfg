SPECIFICATION FairSpec
CONSTANTS
    MaxKids = 2
    MaxSignals = 2
\* the end of the shell
CHECK_DEADLOCK FALSE
INVARIANTS
    TypeOK
    WaitSound
PROPERTIES
    InterruptWaits
    ShellGoesOn
