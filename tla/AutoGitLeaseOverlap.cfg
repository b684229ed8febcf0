SPECIFICATION FairLeaseSpec
CONSTANTS
    Client = {1}
    NoClient = NoClient
    Socket <- OneSocket
    NoSocket = NoSocket
    Overlap = 2
    MaxChanges = 1
    MaxChecks = 2
PROPERTIES
    AbleDeviceLeads
CHECK_DEADLOCK FALSE
