SPECIFICATION NoteSpec
CONSTANTS
    ProtectLast = 2
    MaxCheckpoints = 2
    MaxBlob = 1
    MaxMessages = 6
    MaxCompactions = 3
    MaxForeign = 2
    MaxNotes = 2
INVARIANT NothingPassedUnheard
PROPERTIES LeavesSaved SwapKeepsUnread MarkedStays
CHECK_DEADLOCK FALSE
