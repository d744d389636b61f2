SPECIFICATION Spec
CONSTANTS
    TaskIds = {t1, t2}
    Servers = {w1, w2}
    Bodies <- MCBodies
    Secured = {"prometheus"}
    MutedWords = {"disk"}
    MaxRetries = 1
    MaxFaults = 1
    Clients = {k1, k2, k3}
    Messages = {m1, m2}
    MaxDrops = 2
    DocIds = {d1, d2}
    Learners = {l1, l2}
    MaxObjects = 2
    MaxVersion = 2
    MaxMishaps = 1
    Emails = {"ann", "bob"}
    Handlers = {h1, h2}
    Profiles <- MCProfiles
    Calls = {c1, c2}
    AccessLife = 1
    MaxClock = 2
    MaxOutages = 1
    Outages = {"i1", "i2"}
    Severe = {"i1"}
    Setups <- MCSetups
    General = general
    SlackBounds <- MCSlackBounds
    ListLimit = 1
    Reviewers = {r1, r2}
    Causes = {"i", "j"}
    ItemLists <- MCItems
    MaxRefusals = 2
    BlameWindow = 3
    DeployPage = 2
    MaxMinutes = 6
    Jobs = {j1}
    Probes = {p1}
    MaxChanges = 1
SYMMETRY Symmetry
INVARIANTS
    RedeliverySafe
    BroadcastReaches
    KnowledgeKept
    AuthSound
    CollaborationSound
    ProcessSound
CHECK_DEADLOCK FALSE
