SPECIFICATION IntegrationsSpec
CONSTANTS
    Secrets = {"token", "secret"}
    Values = {"e", "v"}
    Empty = ""
    Mask = "****"
    Env <- MCEnv
    Admins = {a, b}
    MaxKey = 2
    Walks = {x, y}
    Offers <- MCOffers
    MaxSubs = 3
    Profiles <- MCProfiles
INVARIANTS
    TypedInUse
PROPERTIES
    SecretsKept
    DispatchKeepsPromise
    DispatchesEnd
CHECK_DEADLOCK FALSE
