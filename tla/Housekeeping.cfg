SPECIFICATION Spec
CONSTANTS
    Beginnings <- MCBeginnings
    Key = {k1, k2}
    Exported = {k2}
    NoKey = nokey
    NoModel = nomodel
    MaxSnapshots = 2
    MaxCommands = 2
    MaxKills = 1
    MaxWrites = 1
    MaxUpgrades = 1
INVARIANTS ReplacedIsRecoverable RestoredIsTheArchive ConfigIsBacked ReadyStarts
PROPERTY LocalEditsKept
CHECK_DEADLOCK FALSE
