SPECIFICATION Spec
CONSTANTS
    acpBridge = acpBridge
    library = library
    replay1 = replay1
    replay2 = replay2
    Subscribers <- MCSubscribers
    Requests <- MCRequests
    PageSize = 2
    MaxEvents = 3
    MaxFaults = 1
SYMMETRY MCSymmetry
INVARIANTS
    TypeOK
    HandedOverOnceInOrder
    RequestIsCovered
