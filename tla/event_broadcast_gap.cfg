SPECIFICATION Spec
CONSTANTS
    acpBridge = acpBridge
    library = library
    replay1 = replay1
    replay2 = replay2
    Subscribers <- MCSubscribers
    Requests <- MCRequests
    PageSize = 1
    MaxEvents = 2
    MaxFaults = 0
SYMMETRY MCSymmetry
INVARIANT SubscriberMissesNothing
