SPECIFICATION FactsSpec
CONSTANTS
  cl = cl
  oh = oh
  Claims = {cl}
  Supports = {oh}
  SupportOf <- MCSupportOf
  Deciders = {ann}
  Times = {1}
  MaxDecisions = 1
  MaxErased = 0
INVARIANT AcceptedIsFact
