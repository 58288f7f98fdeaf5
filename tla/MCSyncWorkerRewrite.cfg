SPECIFICATION WorkerSpec
CONSTANTS
  d1 = d1
  d2 = d2
  e1 = e1
  o1 = o1
  o2 = o2
  k1 = k1
  k2 = k2
  h1 = h1
  h2 = h2
  None = None
  Devices = {d1, d2}
  Events = {e1, o1, o2}
  Keys = {k1, k2}
  KeyOf <- MCKeyOf
  Evidence = {e1}
  ActiveUnits = {o1, o2}
  MaxAttempts = 2
  Slots = {h1, h2}
SYMMETRY MCSymmetry
PROPERTY ObjectNeverRewritten
