SPECIFICATION MCSpec
CONSTANTS
  h1 = h1
  h2 = h2
  unknown = unknown
  empty = empty
  Handlers = {h1, h2}
  Unknown = unknown
  Empty = empty
  Severities = {"P1", "P2"}
  Alerts <- Two
  DedupWindow = 1
  PageLimit = 2
  MaxTries = 2
  Times = {0, 3}
  MaxArrivals = 3
  MaxFaults = 2
SYMMETRY Symmetry
INVARIANTS
  CacheBacked
  IdsUnique
  PagesKnown
  RepeatsJoin
PROPERTIES
  StoreIsFresh
CHECK_DEADLOCK FALSE
