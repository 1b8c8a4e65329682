CONSTANTS
    Kinds = {"timestamps"}
    StartTimes = {7000, 7011, 7012, 7500, 7995}
    TistAtFct0 = 768
    TistOffset = 480
    RcOffsets = {960}
    MaxFrames = 600
    MaxRcCommands = 1
    RcFrames = 12
    Bulletins <- MCBulletins
    Overrides = {40}
    Hosts = 2
    TenYears = 20
    IntMax = 100
    MaxTime = 9
    MaxRestarts = 1
    Configs <- MCConfigs
    Counters = {0, 4998}
    MaxEtiFrames = 9
    MaxFailures = 1
SPECIFICATION MainSpec
INVARIANT
    StampNearWall
CHECK_DEADLOCK FALSE
