SPECIFICATION ApartSpec
CONSTANTS
    Principal = {m1, m2}
    ProjectManager = {m1}
    NoFence = NoFence
    NoCommit = NoCommit
    NoReceipt = NoReceipt
    NoReply = NoReply
    MaxHead = 1
    MaxFences = 2
    MaxForced = 1
    MaxDepartures = 1
INVARIANTS
    LifecycleTypeOK
    CommittedFrontier
    PendingFinalizationIsFenced
    DoneMeansApplied
PROPERTIES
    FinalizedOnce
    CloseKeepsPausedFrontier
    ActsAsOneStore
    ResolvesWithFixedMembers
CHECK_DEADLOCK FALSE
