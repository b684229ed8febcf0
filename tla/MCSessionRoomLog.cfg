SPECIFICATION Spec
CONSTANTS
    Batch = {b1, b2, b3}
    SystemBatch = {s1}
    Client = {c1, c2}
    NoClient = NoClient
    NoBatch = NoBatch
    NoIntegration = NoIntegration
    BufferLimit = 2
    CompactPage = 2
    MaxGeneration = 2
    MaxBarriers = 2
SYMMETRY Symmetric
INVARIANTS
    TypeOK
    ExactlyOnceHistory
    ReplayableTail
    CompactionComplete
    FrozenFrontier
    IntegrationIsolated
PROPERTIES
    SystemBatchFollowsBasis
    ArrivalOrderKept
    ImplementsHistory
CHECK_DEADLOCK FALSE
