SPECIFICATION SearchSpec
CONSTANTS
    Files = 2
    Run = {r1, r2}
    Unreadable = {3}
    MaxEdits = 3
    MaxRuns = 3
    MaxKills = 1
    MaxClears = 1
INVARIANT SearchIsFresh
SYMMETRY Symmetry
CHECK_DEADLOCK FALSE
