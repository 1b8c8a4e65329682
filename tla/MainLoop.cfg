\* Timestamps: startup just below, inside and just above the rounding of a
\* second; 600 frames pass every FCT twice and fourteen seconds; the remote
\* control may set tist_offset once, up or down by more than a second, or less,
\* between any two steps of the first twelve frames, which hold every phase.
\* Clock: ten hours, with a leap second, two bulletins that expire and one
\* without entries, one restart and two commands.
\* Outputs: two ZeroMQ messages and a frame, one failure.
CONSTANTS
    Kinds = {"timestamps", "clock", "outputs"}
    StartTimes = {7000, 7011, 7012, 7500, 7995}
    TistAtFct0 = 768
    TistOffset = 480
    RcOffsets = {0, 1485}
    MaxFrames = 600
    MaxRcCommands = 1
    RcFrames = 12
    Bulletins <- MCBulletins
    Overrides = {40}
    Hosts = 2
    TenYears = 20
    IntMax = 100
    MaxTime = 9
    MaxRestarts = 1
    Configs <- MCConfigs
    Counters = {0, 4998}
    MaxEtiFrames = 9
    MaxFailures = 1
SPECIFICATION MainSpec
INVARIANTS
    TistAtFct0Kept
    MnscFollowsEdi
    StampIsWallPlusOffset
    RefreshNeverFails
    WrongForTwoHours
    OutputsReadBack
\* The bounds are used up, and a multiplexer ends.
CHECK_DEADLOCK FALSE
