SPECIFICATION Spec
CONSTANTS
    p1 = p1
    p2 = p2
    s1 = s1
    r1 = r1
    m1 = m1
    FreshId = FreshId
    SharedId = SharedId
    OtherId = OtherId
    Projects = {p1, p2}
    Sessions = {s1}
    Roots = {r1}
    NoRoot = NoRoot
    MaxMessages = 2
    MaxCheckpoints = 2
    Commands <- MCCommands
    Batches <- MCBatches
    EventsOf <- MCEventsOf
    Uuid = FreshId
    Accepts <- MCAccepts
    Project <- MCProject
    EmptyState <- MCEmptyState
    Faults <- NoReconcileFault
    PageSize = 2
    MaxCalls = 3
    MaxFaults = 1
    MaxCrashes = 1
INVARIANTS
    TypeOK
    ExactlyOnce
    AnswersMatchStore
    ReadModelIsReplay
    PublishedIsLog
    AnswersAgree
    NoCallForgotten
PROPERTY ImplementsCommandLog
