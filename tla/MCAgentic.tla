----------------------------- MODULE MCAgentic -----------------------------
(***************************************************************************)
(* Two captures and two runner processes for TLC.                          *)
(***************************************************************************)
EXTENDS AgenticRunner

CONSTANTS c1, c2, r1, r2, s1, s2

Promoted(k, s) == [kind |-> k, statement |-> s, gate |-> "promote"]
HeldFact(s) == [kind |-> "fact_candidate", statement |-> s, gate |-> "hold"]

\* The local extractor finds one decision in the first capture, and Flash may find a
\* fact next to it.  The second one has the same statement in prose too short for the
\* local rules to be asked.
MCText == [c \in Captures |-> IF c = c1 THEN "strong" ELSE "prose"]
MCLocal == [c \in Captures |->
  IF c = c1 THEN <<Promoted("decision", s1)>> ELSE <<Promoted("constraint", s1)>>]
MCExtractions == [c \in Captures |->
  IF c = c1 THEN {<<Promoted("decision", s1), HeldFact(s2)>>}
            ELSE {<<Promoted("constraint", s1)>>}]
MCSymmetry == Permutations(Runners)
=============================================================================
