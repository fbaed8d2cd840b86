SPECIFICATION FairSpec
CONSTANTS
    Full = full
    Sessions = {full, bare}
    Keys = {m1, r1}
    Replies = {r1}
    Settings = {mode}
    Settable <- OnlyFull
    Answerable = {full}
    Values = {plan, edit}
    Default = default
    Retries = 1
    MaxLog = 4
    MaxCrashes = 1
    MaxFaults = 1
CHECK_DEADLOCK FALSE
INVARIANTS
    TypeOK
    NoWorkTwice
    AgentRunsWithChosenSettings
    RemovedStaysStopped
    CommandsAccountedFor
    FailuresRecordedOnceAnId
PROPERTY EveryEventConsidered
