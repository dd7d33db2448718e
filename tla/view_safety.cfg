SPECIFICATION FairSpec
CONSTANTS
    NRuns = 2
    MaxScans = 2
    NCells = 3
    NSlots = 2
    LoopN = 2
    MaxFails = 1
INVARIANTS
    PinnedRunOnScreen
    SlotsDistinctUnlessWrapped
PROPERTIES
    FollowsNewScans
CHECK_DEADLOCK FALSE
