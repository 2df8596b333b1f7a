SPECIFICATION Spec
CONSTANTS
    tg = tg
    dc = dc
    room = room
    Main = Main
    Cron = Cron
    Nobody = Nobody
    NoKey = NoKey
    Loop = {tg, dc}
    Key = {Main, room}
    Exchange = {2}
    MaxTurn = 3
    MaxSession = 2
    MaxMessage = 3
    MaxOutside = 1
SYMMETRY Symmetry
INVARIANTS TurnsDoNotInterleave TurnStaysTogether StaleCopyIsSignalled
PROPERTY RotationWaitsForTurn
CHECK_DEADLOCK FALSE
