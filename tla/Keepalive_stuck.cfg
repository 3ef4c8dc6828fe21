SPECIFICATION Spec
CONSTANTS
    TickTime = 500
    CycleTime = 1000
    MaxAge = 24
    Scenarios <- StuckScenarios
INVARIANT AlwaysTalksInTime
