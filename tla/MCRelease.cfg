SPECIFICATION ReleaseSpec
CONSTANTS
  c1 = c1
  c2 = c2
  r1 = r1
  r2 = r2
  s1 = s1
  s2 = s2
  Captures = {c1, c2}
  Runners = {r1, r2}
  Statements = {s1, s2}
  Text <- MCText
  Ineligible = {c2}
  Unreadable = {}
  Unpackable = {}
  LocallyKept = {c1}
  Citable = {c1}
  Local <- MCLocal
  Extractions <- MCExtractions
  Networks = {TRUE}
  Materialises = {TRUE}
  Limit = 1
  RunCalls = 2
  DayCalls = 1
  MaxFaults = 1
  Suites = {1, 2, 3}
  Foreign = {3}
  PageSize = 1
  MaxChecks = 2
  MaxUpdates = 1
  p1 = p1
  p2 = p2
  Candidates = {c1, c2}
  t1 = t1
  t2 = t2
  Releases = {t1, t2}
  Packs = {p1, p2}
  w1 = w1
  w2 = w2
  Workflows = {w1, w2}
  Target = t1
  Current = w1
  Missing = Missing
  Torn = Torn
  MaxWrites = 2
  MaxTime = 1
  Versions = {1, 2}
  Sources = {1, 2}
  Elsewhere <- MCElsewhere
  MaxHistory = 3
  MaxActs = 2
  NoFile = NoFile
SYMMETRY MCSymmetry
CHECK_DEADLOCK FALSE
INVARIANTS
  ObservedAsGated
  DayWithinBilled
  EvidenceIsTrue
  ReadyIsOne
  CutStands
PROPERTIES
  FeedOutcomeFinal
  StrongSkippedEmptyHanded
