SPECIFICATION FairSpec
CONSTANTS
    Kinds = {"edi"}
    Formats = {"AAC", "MPEG"}
    Messages = 4
    HighWater = 2
    Buffers = {3, 6, 8}
    Prebufferings = {2, 11}
    MaxRcCommands = 2
    SizeModulus = 1048576
    Protocols = {"udp", "rtp"}
    Datagrams = 3
    MaxArrivals = 5
    SocketSize = 3
    RawLengths = {4, 6, 7}
    Packets <- MCPackets
    MpegLength = 5
    FrameSize = 4
    PipeSize = 5
    SourceFrames = 4
    FrameKinds <- GoodFrames
    Phase = 0
    TistDelays = {0}
    EdiBuffers = {1, 3}
    EdiPrebufferings = {1, 3}
    Managements = {"prebuffering"}
    Configurations <- RaisedConfigurations
    MaxEdiCommands = 2
    Threshold = 3
    ResetTime = 2
    BufferKeep = 1
    PeakKeep = 2
    ShortWindow = 1
    SilenceCount = 1
    Saturation = 3
    PollPeriod = 1
    MaxBad = 4
PROPERTY
    RoomIsSeen
CHECK_DEADLOCK FALSE
