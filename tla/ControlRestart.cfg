\* A telnet remote control that may meet an error.
CONSTANTS
    Servers = {"telnet", "zmq"}
    Failing = {"telnet"}
    RcPeriod = 4
    MgmtPeriod = 2
    InTime = TRUE
SPECIFICATION FairSpec
INVARIANTS NeverTerminates
