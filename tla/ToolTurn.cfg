SPECIFICATION GoalSpec
CONSTANTS
    MaxCalls = 3
    MaxTools = 2
    MaxRetries = 1
    ProtectLast = 2
    MaxBatch = 2
    MaxTurns = 2
    MaxFaults = 1
    GoalTurns = 2
INVARIANTS OnlyTornBatchesUnanswered MemoryIsTheStore TurnBudget
PROPERTIES TurnEnds GoalEnds
CHECK_DEADLOCK FALSE
