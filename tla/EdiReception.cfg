\* Fragments: packets of two, one of which may be repaired.  Stream: three packets of two pieces.
CONSTANTS
    PseqMod = 16
    Fcount = 2
    RxMin = 1
    MaxDelay = 3
    Keep = 3
    Window = 3
    MaxFaults = 2
    MaxRestarts = 1
    Contents <- MCContents
    PacketPieces = 2
    MaxPackets = 3
    MaxConnections = 2
    MaxFlight = 2
    MaxMessages = 2
    MaxTimeouts = 1
    MaxInterrupts = 1
    Alignments = {0, 8, 16}
    FirstDlfcs = {249, 4999}
    FirstSeqs = {65535}
    Ticks = 16384
    Delays = {0, 500, 3999}
    Sizes = {49, 415, 1401, 3000}
    ChunkLens = {100, 207}
    Fecs = {0, 1, 2, 5, 9}
    MaxPayload = 1400
    MaxLost = 9
    MaxWritten = 2
SPECIFICATION InputSpec
INVARIANTS ResumesSoon FrameOfOnePacket ReadsBack
PROPERTIES InOrder LateIsNotLost LagDrains
CHECK_DEADLOCK FALSE
