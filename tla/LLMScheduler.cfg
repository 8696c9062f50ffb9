SPECIFICATION SchedulerFairSpec
CONSTANTS
    NumCallers = 3
    Gap = 2
CHECK_DEADLOCK FALSE
INVARIANTS
    OvertakenAtMostOnce
    NobodyStranded
PROPERTIES
    CallsAnswered
