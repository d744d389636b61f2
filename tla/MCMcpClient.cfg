SPECIFICATION McpFairSpec
CONSTANTS
    Callers = {a, b}
    Nobody = Nobody
    Tools <- MCWrites
    RequestLimit = 2
    SearchLimit = 1
    Window = 2
    Attempts = 2
    MaxSessions = 2
INVARIANTS
    InitializedHasSession
    RepeatsOnlyAfterLoss
    WindowHolds
    SessionsShared
PROPERTY
    CallsEnd
CHECK_DEADLOCK FALSE
