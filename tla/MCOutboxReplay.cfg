SPECIFICATION OutboxSpec
CONSTANTS
  d1 = d1
  e1 = e1
  o1 = o1
  c1 = c1
  ke = ke
  ko = ko
  kc = kc
  p1 = p1
  p2 = p2
  None = None
  Devices = {d1}
  Events = {e1, o1, c1}
  Keys = {ke, ko, kc}
  KeyOf <- MCKeyOf
  Evidence = {e1}
  ActiveUnits = {o1}
  MaxAttempts = 3
  CapturedOn <- MCCapturedOn
  Pushers = {p1, p2}
  DeviceOf <- MCDeviceOf
  Policies = {"thin", "full_log"}
  MaxRows = 4
SYMMETRY MCSymmetry
INVARIANT ReplayFindsRow
