SPECIFICATION FairLeaseSpec
CONSTANTS
    Client = {1, 2}
    NoClient = NoClient
    Socket <- MCSocket
    NoSocket = NoSocket
    Overlap = 2
    MaxChanges = 1
    MaxChecks = 2
INVARIANTS
    LeaseTypeOK
    EligibilityAgrees
    OnlyTheHolderIsCurrent
PROPERTIES
    HeardDeviceLeads
CHECK_DEADLOCK FALSE
