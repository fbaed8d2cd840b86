SPECIFICATION FairSpec
CONSTANTS
    Requests = {r1}
    Modes = {default, plan}
    DefaultMode = default
    MaxPrompts = 2
    MaxDisturbances = 2
CHECK_DEADLOCK FALSE
INVARIANTS
    TypeOK
    SessionSurvivesRestart
    NoAbandonedPermission
    NoStaleApproval
    ModeIsKept
PROPERTIES
    StalledTurnsEnd
