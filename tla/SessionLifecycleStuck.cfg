SPECIFICATION FairLifecycleSpec
CONSTANTS
    Principal = {m1, m2}
    ProjectManager = {m1, m2}
    NoFence = NoFence
    NoCommit = NoCommit
    NoReceipt = NoReceipt
    NoReply = NoReply
    MaxHead = 0
    MaxFences = 1
    MaxForced = 0
    MaxDepartures = 1
PROPERTIES
    CommitResolves
CHECK_DEADLOCK FALSE
