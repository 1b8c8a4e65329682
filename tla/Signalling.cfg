CONSTANTS
    N = 4
    MaxAnnounced = 6
    Known = {"c1", "c2"}
    Delays = {0, 1}
    Rooms = {6, 30}
    Timeout = 2
    MaxTime = 4
    MaxRcCommands = 3
    Spaces = {6, 14, 30}
    MaxReloads = 2
SPECIFICATION SignallingSpec
INVARIANTS AnnouncedBeforeLabelsFinish LabelAfterAnnouncement
PROPERTIES ClustersAreHeard ReloadIsSignalled LabelsGoOn
\* All the time and all commands of the bounds may be used up.
CHECK_DEADLOCK FALSE
