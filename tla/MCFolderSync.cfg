SPECIFICATION ApartSpec
CONSTANTS
    Absent = Absent
    NoBaseline = NoBaseline
    MaxSaves = 2
    MaxRemovals = 1
    MaxPeerEdits = 2
    MaxPeerRemovals = 1
    MaxCrashes = 1
INVARIANTS
    FolderTypeOK
    LinesLastOtherwise
    OnlyTheUsersEdits
PROPERTIES
    FolderCatchesUp
CHECK_DEADLOCK FALSE
