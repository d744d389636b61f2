SPECIFICATION FairSpec
CONSTANTS
  s1 = s1
  s2 = s2
  r1 = r1
  loop = loop
  sync = sync
  Slots = {s1}
  Requests = {r1}
  Pollers = {loop}
  Loop = loop
  Channels = {"api", "slack"}
  Severities = {"P0", "P2"}
  HumanStatuses = {"Resolved", "Closed"}
  HumanKinds = {"status", "severity", "rootCause", "escalate"}
  MaxEdits = 1
  MaxPipelines = 1
  MaxRequests = 1
  MaxFaults = 1
INVARIANTS
  SyncTypeOK
  RerunOwned
PROPERTIES
  NoAgentReopen
  HumanEditAdopted
  ResolutionReviewed
  WatcherReturns
CHECK_DEADLOCK FALSE
