SPECIFICATION FairSpec
CONSTANTS
    sessions = sessions
    Projectors <- OneProjector
    Imported <- OneProjector
    PageSize = 1
    MaxEvents = 3
    MaxFailures = 2
    MaxRebuilds = 1
    MaxImports = 1
INVARIANTS
    TypeOK
    TablesHoldLog
    NothingMissedLive
    NeverQuiet
    ImportIsComplete
PROPERTIES
    CatchesUp
    Recovers
