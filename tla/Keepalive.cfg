SPECIFICATION Spec
CONSTANTS
    TickTime = 500
    CycleTime = 1000
    MaxAge = 24
    Scenarios <- TimelyScenarios
INVARIANT TypeOK
INVARIANT TalksInTime
INVARIANT NoFalseAlarm
INVARIANT NoticesDeadServer
