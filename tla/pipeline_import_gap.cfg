SPECIFICATION Spec
CONSTANTS
    sessions = sessions
    Projectors <- OneProjector
    Imported <- OneProjector
    PageSize = 2
    MaxEvents = 3
    MaxFailures = 0
    MaxRebuilds = 0
    MaxImports = 1
INVARIANT RestartSameTables
