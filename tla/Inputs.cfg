SPECIFICATION FairSpec
CONSTANTS
    Kinds = {"zmq", "datagram", "file", "edi", "stat"}
    Formats = {"AAC", "MPEG"}
    Messages = 4
    HighWater = 2
    Buffers = {3, 6, 8}
    Prebufferings = {2, 11}
    MaxRcCommands = 2
    SizeModulus = 1048576
    Protocols = {"udp", "rtp"}
    Datagrams = 3
    MaxArrivals = 5
    SocketSize = 3
    RawLengths = {4, 6, 7}
    Packets <- MCPackets
    MpegLength = 5
    FrameSize = 4
    PipeSize = 5
    SourceFrames = 4
    FrameKinds <- MostFrames
    Phase = 0
    TistDelays <- MCTistDelays
    EdiBuffers = {2}
    EdiPrebufferings = {1, 4}
    Managements = {"prebuffering", "timestamped"}
    Configurations <- MCConfigurations
    MaxEdiCommands = 1
    Threshold = 3
    ResetTime = 2
    BufferKeep = 1
    PeakKeep = 2
    ShortWindow = 1
    SilenceCount = 1
    Saturation = 3
    PollPeriod = 1
    MaxBad = 4
INVARIANTS
    BuffersInRange
    FileContinues
PROPERTIES
    ImplementsFrameSource
    NoGapWhileLocked
    InputGoesOn
    AnswersAreTrue
CHECK_DEADLOCK FALSE
