SPECIFICATION FairSpec
CONSTANTS
    Subscribers = {acpBridge}
    PageSize = 2
    MaxEvents = 4
    MaxLost = 1
    MaxFaults = 2
INVARIANT TypeOK
PROPERTIES
    ImplementsEventFeed
    StreamDelivers
