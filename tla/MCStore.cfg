SPECIFICATION StoreSpec
CONSTANTS
  d1 = d1
  e1 = e1
  o1 = o1
  c1 = c1
  ke = ke
  ko = ko
  kc = kc
  p1 = p1
  p2 = p2
  None = None
  Devices = {d1}
  Events = {e1, o1, c1}
  Keys = {ke, ko, kc}
  KeyOf <- MCKeyOf
  Evidence = {e1}
  ActiveUnits = {o1}
  MaxAttempts = 3
  CapturedOn <- MCCapturedOn
  Pushers = {p1, p2}
  DeviceOf <- MCDeviceOf
  Policies = {"thin", "full_log"}
  MaxRows = 4
  g1 = g1
  g2 = g2
  Sources = {g1, g2}
  Verdicts <- MCVerdicts
  Done = {g2}
  PlanLimit = 2
  ScanLimit = 4
  MaxSups = 2
  MaxPulled = 1
  Arrows <- MCArrows
  u1 = u1
  u2 = u2
  b1 = b1
  b2 = b2
  Bare = Bare
  Absent = Absent
  Torn = Torn
  UserHooks = {u1, u2}
  Bins = {b1, b2}
  HandFiles <- MCHandFiles
  MaxEdits = 2
  ev = ev
  oh = oh
  cl = cl
  ac = ac
  sp = sp
  Index = Index
  NoManifest = NoManifest
  BadManifest = BadManifest
  Records = {ev, oh, cl, ac, sp}
  TypeOf <- MCTypeOf
  RefsOf <- MCRefsOf
  HeldRecords = {oh}
  Acceptances = {ac}
  Rejections = {}
  DecidedAt <- MCDecidedAt
  PathOrder <- MCPathOrder
  MaxExports = 3
  MaxErasures = 1
  MaxVisits = 1
  Claims = {cl}
  Supports = {oh}
  SupportOf <- MCSupportOf
  Deciders = {ann, bob}
  Times = {1, 2}
  MaxDecisions = 3
  MaxErased = 1
  here = here
  there = there
  Homes = {here, there}
  Sayings = {t1, t2}
  Importers = {p1, p2}
  ImportsAt <- MCImportsAt
  NoBundle = NoBundle
  TornBundle = TornBundle
  MaxLearnt = 1
  MaxBundles = 2
  MaxImports = 2
  MaxBusy = 1
CHECK_DEADLOCK FALSE
SYMMETRY MCSymmetry
INVARIANTS
  ActiveUnitsStayQueued
  StoreTypeOK
  PlanSettles
  SettingsRecoverable
  HooksAsAsked
  FolderSettles
  ReadersPartOnDrafts
  ImportSettles
PROPERTIES
  DeliveredIsFinal
  RunningLeaseRespected
  UnmanagedPreserved
