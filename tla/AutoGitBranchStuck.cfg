SPECIFICATION InsistentBranchSpec
CONSTANTS
    Device = {d1}
    NoDevice = NoDevice
    Item = {a, t}
    TargetItem = t
    MaxEdits = 0
    MaxOutside = 1
    MaxRebases = 1
    MaxGeneration = 1
    MaxFaults = 0
PROPERTY SaveAgainBuilds
CHECK_DEADLOCK FALSE
