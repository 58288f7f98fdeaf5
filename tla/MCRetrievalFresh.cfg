SPECIFICATION RetrievalSpec
CONSTANTS
  own1 = own1
  other1 = other1
  claim1 = claim1
  sup1 = sup1
  era1 = era1
  Units = {own1, other1}
  OwnUnits = {own1}
  Erasures = {}
  Shape <- MCShape
  Target <- MCTarget
  Rebuilders = {b1}
  Timers = {b1}
  Readers = {q1}
  IncludeHeld = FALSE
CHECK_DEADLOCK FALSE
INVARIANT RebuiltIsFresh
