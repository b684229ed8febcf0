SPECIFICATION SyncSpec
CONSTANTS
    b2 = b2
    c1 = c1
    c2 = c2
    Batch = {b1, b2}
    SystemBatch = {}
    Client = {c1, c2, k}
    Member = {c1, c2}
    Author <- AuthorOf
    NoClient = NoClient
    NoBatch = NoBatch
    NoIntegration = NoIntegration
    BufferLimit = 1
    CompactPage = 1
    MaxGeneration = 1
    MaxBarriers = 1
    ReplayPage = 1
    MaxFaults = 1
    MaxTogether = 2
INVARIANTS
    SyncTypeOK
    WatermarkIsContent
    SnapshotIsExact
    NoEditLost
    NoEditStranded
CHECK_DEADLOCK FALSE
