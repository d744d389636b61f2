SPECIFICATION Spec
CONSTANTS
  s1 = s1
  s2 = s2
  r1 = r1
  loop = loop
  sync = sync
  Slots = {s1}
  Requests = {r1}
  Pollers = {loop}
  Loop = loop
  Channels = {"api"}
  Severities = {"P0", "P2"}
  HumanStatuses = {"Mitigated"}
  HumanKinds = {"status"}
  MaxEdits = 0
  MaxPipelines = 1
  MaxRequests = 2
  MaxFaults = 0
PROPERTIES
  OverridesAreHuman
CHECK_DEADLOCK FALSE
