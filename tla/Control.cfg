\* The three servers, of which the ZeroMQ remote control may meet errors.
CONSTANTS
    Servers = {"mgmt", "telnet", "zmq"}
    Failing = {"zmq"}
    RcPeriod = 4
    MgmtPeriod = 2
    InTime = TRUE
SPECIFICATION FairSpec
INVARIANTS NeverTerminates OnlyTheDeadAreRestarted
PROPERTIES FaultIsRepaired NobodyWaitsForEver
