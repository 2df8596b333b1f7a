SPECIFICATION Spec
CONSTANTS
    Process = {p1, p2}
    None = none
    Missing = missing
    Empty = empty
    Garbled = garbled
    NoWrite = nowrite
    SimmerDays = 1
    MaxItems = 2
    Word = {1, 2}
    SeenDays = 0
    ReadingDays = 0
    Scene <- Scenes
    Start <- Starts
    Operation <- Operations
    MaxOps = 3
    MaxDay = 1
    MaxVersion = 3
    MaxKills = 1
INVARIANTS PromotedReachedTarget VerbatimOnlyVouched
PROPERTY FilesChangeAtomically
CHECK_DEADLOCK FALSE
