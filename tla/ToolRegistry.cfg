SPECIFICATION FairSpec
CONSTANTS
    chat = chat
    daemon = daemon
    c1 = c1
    c2 = c2
    d1 = d1
    old = old
    new = new
    Absent = absent
    Dir = dir
    None = none
    Path <- Paths
    Content = {old, new}
    Protected <- JobTable
    Operator = {}
    Misplaced = {}
    Registry = {chat, daemon}
    Asks = {chat}
    Thread = {c1, c2, d1}
    Owner <- Owners
    Call <- Calls
    Permission <- Permissions
    Ttl = 1
    Margin = 1
    MaxDumps = 2
    MaxCalls = 3
    MaxOdd = 1
PROPERTIES ProtectedUntouched ApprovalStillHolds LostOnlyAfterSlowAnswer OwnOutputKept TurnGoesOn
