SPECIFICATION Spec
CONSTANTS
    Groups <- MCGroups
    TooNear = 1
    Costs = {600, 1500}
    MaxCheap = 4
    Limits <- MCLimits
    Defaults <- MCDefaults
    Settings <- MCSettings
INVARIANTS
    KeepsEnds
    ExactIsShortest
    HeuristicNoWorse
    SegmentsStayInOrder
    SegmentedIsShortest
    LegsReachTheirStops
    ScheduleFits
    ArrivalInsideInterval
CHECK_DEADLOCK FALSE
