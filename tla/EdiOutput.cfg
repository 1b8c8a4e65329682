\* Two clients, a preroll of one packet and queues of one packet.
CONSTANTS
    Fcount = 2
    Clients = {c1, c2}
    MaxPending = 2
    MaxQueue = 1
    Preroll = 1
    WireMod = 5
    ListenerFails = TRUE
    MaxClientQueue = 2
    MaxWrites = 5
SPECIFICATION OutputSpec
INVARIANTS AllQueuesBounded AllContiguous
PROPERTIES NothingHangs
CHECK_DEADLOCK FALSE
