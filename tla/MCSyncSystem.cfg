SPECIFICATION SystemSpec
CONSTANTS
  d1 = d1
  d2 = d2
  e1 = e1
  e2 = e2
  o1 = o1
  c1 = c1
  ke = ke
  ko = ko
  kc = kc
  p1 = p1
  p2 = p2
  q1 = q1
  q2 = q2
  h1 = h1
  h2 = h2
  None = None
  Devices = {d1, d2}
  Events = {e1, o1}
  Keys = {ke, ko}
  KeyOf <- MCKeyOf
  Evidence = {e1}
  ActiveUnits = {}
  MaxAttempts = 3
  CapturedOn <- RetryCapturedOn
  Pushers = {p1, p2}
  DeviceOf <- RetryDeviceOf
  Policies = {"full_log"}
  MaxRows = 2
  Slots = {h1, h2}
  Foreign = {o1}
  Pullers = {q1}
  PullsFor <- RetryPullsFor
  PullLimit = 1
  MaxFaults = 1
SYMMETRY RetrySymmetry
INVARIANTS
  SystemTypeOK
  PagesApply
PROPERTY ImplementsZoneLog
