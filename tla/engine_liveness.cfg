SPECIFICATION FairSpec
CONSTANTS
    p1 = p1
    p2 = p2
    s1 = s1
    r1 = r1
    m1 = m1
    FreshId = FreshId
    SharedId = SharedId
    OtherId = OtherId
    Projects = {p1, p2}
    Sessions = {s1}
    Roots = {r1}
    NoRoot = NoRoot
    MaxMessages = 2
    MaxCheckpoints = 2
    Commands <- MCCommands
    Batches <- MCBatches
    EventsOf <- MCEventsOf
    Uuid = FreshId
    Accepts <- MCAccepts
    Project <- MCProject
    EmptyState <- MCEmptyState
    Faults <- AllFaults
    PageSize = 2
    MaxCalls = 2
    MaxFaults = 2
    MaxCrashes = 1
INVARIANT PublishedIsDurable
PROPERTIES
    CallsSettle
    ShutdownEnds
