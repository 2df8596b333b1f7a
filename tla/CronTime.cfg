SPECIFICATION TimeSpec
CONSTANTS
    Hour = 6
    Day = 4
    Week = 3
    Month = 4
    Year = 2
    FirstWeekday = 1
    Scene <- Scenes
    CatchUp = 2
    MaxStagger = 1
    MaxDelay = 2
    Horizon = 24
    None = none
INVARIANTS RunsOnlyOwed OwedIsRun ListedIsOwed AcceptedIsLoaded
CHECK_DEADLOCK FALSE
