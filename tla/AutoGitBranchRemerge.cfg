SPECIFICATION BranchSpec
CONSTANTS
    Device = {d1}
    NoDevice = NoDevice
    Item = {a, t}
    TargetItem = t
    MaxEdits = 2
    MaxOutside = 0
    MaxRebases = 0
    MaxGeneration = 1
    MaxFaults = 1
PROPERTY EditsStay
CHECK_DEADLOCK FALSE
