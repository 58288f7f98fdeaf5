SPECIFICATION MachinesSpec
CONSTANTS
  c1 = c1
  c2 = c2
  r1 = r1
  r2 = r2
  s1 = s1
  s2 = s2
  Captures = {c1, c2}
  Runners = {r1}
  Statements = {s1, s2}
  Text <- MCText
  Ineligible = {c2}
  Unreadable = {}
  Unpackable = {}
  LocallyKept = {}
  Citable = {c1}
  Local <- MCLocal
  Extractions <- MCExtractions
  Networks = {TRUE}
  Materialises = {TRUE}
  Limit = 2
  RunCalls = 2
  DayCalls = 2
  MaxFaults = 2
  own1 = own1
  other1 = other1
  claim1 = claim1
  sup1 = sup1
  era1 = era1
  Units = {claim1, sup1}
  OwnUnits = {claim1}
  Erasures = {era1}
  Shape <- MCShape
  Target <- MCTarget
  b1 = b1
  Rebuilders = {b1, b2}
  Timers = {b1}
  Readers = {q1}
  IncludeHeld = FALSE
  Cycles = {y1, y2, y3}
  Jobs = {j1}
  Workers = {w1, w2}
  MaxAttempts = 2
  MaxGrants = 4
  e1 = e1
  k1 = k1
  Chunks = {k1, k2}
  Embedders = {e1, e2}
  LeaseLimit = 2
  MaxStalls = 1
  Evidence = {v1}
  Reviewing = {p1, p2, p3}
  n1 = n1
  n2 = n2
  n3 = n3
  n4 = n4
  GraphNodes = {n1, n2, n3, n4}
  Root = n1
  Pairs <- MCPairs
  Depths = {1, 2}
  Sizes = {2, 3, 4}
  d1 = d1
  d2 = d2
  None = None
  Devices = {d1, d2}
  Events = {f1, o1}
  Keys = {f1, o1}
  Captured = {f1}
  Pushers = {u1}
  Slots = {h1}
  Pullers = {v2}
  SyncAttempts = 3
  SyncFaults = 1
CHECK_DEADLOCK FALSE
INVARIANTS
  OperationsTypeOK
  CycleExclusion
  DeadIsExhausted
  ActiveAsDecided
  VisibleIsCurrent
  WalkHonest
PROPERTIES
  FeedDrains
  IndexConverges
  EmbedsProjected
  EventuallyEverywhere
