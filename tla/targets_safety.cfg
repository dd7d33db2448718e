SPECIFICATION Spec
CONSTANTS
    Uids = {1, 2}
    MaxTime = 3
    Margin = 1
    MaxObs = 2
    Score <- MCScore
    Contents <- MCContents
    MaxFails = 1
INVARIANTS
    EngineIsReplay
    WindowOpen
    
CHECK_DEADLOCK FALSE
