SPECIFICATION ApartSpec
CONSTANTS
    Device = {d1, d2}
    NoDevice = NoDevice
    Item = {a, t}
    TargetItem = t
    MaxEdits = 1
    MaxOutside = 1
    MaxRebases = 1
    MaxGeneration = 2
    MaxFaults = 1
INVARIANTS
    BranchTypeOK
    MarkIsHonest
    RecordIsOnTheBranch
    SavedIsOnTheBranch
PROPERTIES
    BranchKeepsWork
    RebaseMergedOnce
    KeepsPromise
SYMMETRY DeviceSymmetry
CHECK_DEADLOCK FALSE
