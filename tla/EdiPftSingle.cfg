\* Fragmentation of packets that fit one fragment, nothing lost.
CONSTANTS
    PseqMod = 16
    Fcount = 1
    RxMin = 1
    MaxDelay = 3
    Keep = 3
    Window = 3
    MaxFaults = 0
    MaxRestarts = 0
SPECIFICATION FairSpec
INVARIANT ResumesSoon
CHECK_DEADLOCK FALSE
