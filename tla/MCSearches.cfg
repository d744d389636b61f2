SPECIFICATION McpSpec
CONSTANTS
    Callers = {a}
    Nobody = Nobody
    Tools <- MCSearches
    RequestLimit = 3
    SearchLimit = 2
    Window = 2
    Attempts = 2
    MaxSessions = 2
INVARIANT
    SearchesWithinLimit
CHECK_DEADLOCK FALSE
