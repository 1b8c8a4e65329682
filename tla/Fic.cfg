CONSTANTS
    a = a  b = b  c = c  d = d
    FIG0_0 = FIG0_0  FIG0_7 = FIG0_7
    FIGs <- MCFIGs
    Prio <- MCPrio
    Rate <- MCRate
    SingleFill = {c}
    Contents <- MCContents
    FibSize = 8
    FibCount = 2
    NumPriorities = 5
    PollReset <- MCPollReset
    MaxLate = 3
    Bound = 2
SPECIFICATION FicSpec
INVARIANT LatenessBounded
PROPERTIES NoFigPassedOver EveryFigCompletes
