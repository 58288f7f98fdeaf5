SPECIFICATION AgenticSpec
CONSTANTS
  c1 = c1
  c2 = c2
  r1 = r1
  r2 = r2
  s1 = s1
  s2 = s2
  Captures = {c1, c2}
  Runners = {r1}
  Statements = {s1, s2}
  Text <- MCText
  Ineligible = {}
  Unreadable = {}
  Unpackable = {}
  LocallyKept = {c1}
  Citable = {c1}
  Local <- MCLocal
  Extractions <- MCExtractions
  Networks = {TRUE, FALSE}
  Materialises = {TRUE, FALSE}
  Limit = 2
  RunCalls = 2
  DayCalls = 2
  MaxFaults = 1
CHECK_DEADLOCK FALSE
INVARIANT RetryReplays
