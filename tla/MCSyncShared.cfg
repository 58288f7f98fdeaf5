SPECIFICATION SystemSpec
CONSTANTS
  d1 = d1
  d2 = d2
  e1 = e1
  e2 = e2
  o1 = o1
  c1 = c1
  ke = ke
  ko = ko
  kc = kc
  p1 = p1
  p2 = p2
  q1 = q1
  q2 = q2
  h1 = h1
  h2 = h2
  None = None
  Devices = {d1, d2}
  Events = {e1, e2, c1}
  Keys = {ke, kc}
  KeyOf <- SharedKeyOf
  Evidence = {e1, e2}
  ActiveUnits = {c1}
  MaxAttempts = 3
  CapturedOn <- SharedCapturedOn
  Pushers = {p1, p2}
  DeviceOf <- SharedDeviceOf
  Policies = {"full_log"}
  MaxRows = 2
  Slots = {h1}
  Foreign = {}
  Pullers = {q1, q2}
  PullsFor <- SharedPullsFor
  PullLimit = 1
  MaxFaults = 1
SYMMETRY SharedSymmetry
INVARIANTS
  DeliveredIsLogged
  CursorCovered
