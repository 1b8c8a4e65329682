\* All FIGs but 0/6 and 1/1, lists of up to three entries, whole FIBs and what is left of them.
CONSTANTS
    Figs = {"0/0", "0/1", "0/2", "0/3", "0/5", "0/7", "0/8", "0/8 programme", "0/8 data",
            "0/9", "0/10", "0/13", "0/14", "0/17", "0/18", "0/19", "0/20", "0/21", "0/24",
            "1/0", "1/4", "1/5", "2/0", "2/1", "2/4", "2/5"}
    Kinds <- MCKinds
    MaxItems <- MCMaxItems
    Spaces = {5, 12, 22, 30}
    MaxChanges = 2
    Generals <- MCGenerals
    ServiceEntries <- MCServiceEntries
    SubchannelEntries <- MCSubchannelEntries
    ComponentEntries <- MCComponentEntries
    LinkingFiles <- MCLinkingFiles
    Labels <- MCLabels
    Offsets <- MCOffsets
    MpegBitrate = 384
    FirstServiceId = 50
    MaxIds = 64
    Capacity = 864
    LabelLength = 4
    ShortLength = 2
    FrameBuffer = 6144
    MaxServices = 2
    MaxSubchannels = 2
    MaxComponents = 2
    MaxRcCommands = 1
SPECIFICATION EnsembleSpec
INVARIANTS MultiplexFits ReferencesResolve LinkingIsOfOneFile LabelAsAsked CycleIsExact
PROPERTY EveryCycleEnds
\* A configuration may be refused, and the commands of the bound used up.
CHECK_DEADLOCK FALSE
