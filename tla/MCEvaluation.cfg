SPECIFICATION JudgedSpec
CONSTANTS
  d1 = d1
  d2 = d2
  e1 = e1
  o1 = o1
  o2 = o2
  k1 = k1
  k2 = k2
  h1 = h1
  h2 = h2
  None = None
  Devices = {d1, d2}
  Events = {e1, o1, o2}
  Keys = {k1, k2}
  KeyOf <- MCKeyOf
  Evidence = {e1}
  ActiveUnits = {o1, o2}
  MaxAttempts = 2
  Slots = {h1, h2}
  a1 = a1
  a2 = a2
  a3 = a3
  v1 = v1
  v2 = v2
  Commits = {a1, a2, a3}
  Surface = {a1, a2}
  Evaluators = {v1, v2}
  Inputs <- MCInputs
  Nothing = Nothing
  Forged = Forged
  MaxCommits = 3
  MaxMoves = 1
SYMMETRY MCSymmetry
INVARIANTS
  WorkerTypeOK
  SequenceIntegrity
  AnswersAreTrue
  LoggedValueStored
  LinkedRowLogged
  TrustedRanStill
PROPERTY AppendsAbove
