SPECIFICATION FolderSpec
CONSTANTS
    Absent = Absent
    NoBaseline = NoBaseline
    MaxSaves = 1
    MaxRemovals = 0
    MaxPeerEdits = 1
    MaxPeerRemovals = 0
    MaxCrashes = 0
INVARIANTS
    NeverOverwritesUnseen
CHECK_DEADLOCK FALSE
