----------------------------- MODULE MCRelease -----------------------------
(***************************************************************************)
(* The agentic runner, and the scripts of a release, side by side for TLC: *)
(* they share no state, so each behaviour runs one and the others stand    *)
(* still.  The names of the captures also serve for candidates.            *)
(***************************************************************************)
EXTENDS MCAgentic, CheckEvidence, ReleaseGate, ReleaseCut

CONSTANTS p1, p2, t1, t2, w1, w2

VARIABLE machine  \* the operation this behaviour is about

\* A pack that is the tree of no commit, and one that may be.
MCElsewhere == {[version |-> v, sections |-> {v}, source |-> 2] : v \in Versions}

releaseVars == <<machine, agenticVars, evidenceVars, gateVars, cutVars>>
otherThanAgentic == <<machine, evidenceVars, gateVars, cutVars>>
otherThanEvidence == <<machine, agenticVars, gateVars, cutVars>>
otherThanGate == <<machine, agenticVars, evidenceVars, cutVars>>
otherThanCut == <<machine, agenticVars, evidenceVars, gateVars>>

GateMachines == {"promotion", "receipts", "authority", "ruleset"}

\* The receipts of a candidate that is ready, with what this machine is about not there yet.
Complete ==
  [kind \in Documents |->
     CASE kind = "ownership" -> [good |-> TRUE]
       [] kind \in {"ancestry", "releaseDiff"} -> [c |-> c1, r |-> Target, good |-> TRUE]
       [] kind \in {"tagIdentity", "approval"} -> [r |-> Target, good |-> TRUE]
       [] kind \in {"manifest", "tarball", "installSmoke"} -> [r |-> Target, pack |-> p1, good |-> TRUE]
       [] kind = "ruleset" -> IF machine = "ruleset" THEN Missing ELSE Ruleset("activated", "none")
       [] kind = "authority" -> IF machine = "authority" THEN Missing ELSE Authority(Current, TRUE, MaxTime + 1)
       [] OTHER -> IF machine # "receipts" THEN Missing
                   ELSE IF kind = "evaluator" THEN Evaluated(c1) ELSE Ledger(c1, TRUE)]

\* The gates start with what earlier steps have left; the others from their own Init.
GateStarts ==
  IF machine = "promotion" THEN
    /\ states = [c \in Candidates |-> "none"] /\ live = "with" /\ projection = "without"
    /\ folder = Complete /\ time = 0 /\ writes = 0
    /\ gate = [at |-> "reading", read |-> <<>>, observed |-> TRUE]
  ELSE IF machine \in GateMachines THEN
    /\ states = [c \in Candidates |-> IF c = c1 THEN "bc-preflip" ELSE "pending_evidence"]
    /\ live \in {"without", "with", "foreign"} /\ projection = Missing
    /\ machine = "ruleset" \/ live = "with"
    /\ folder = Complete /\ time = 0 /\ writes = 0
    /\ gate = [at |-> "reading", read |-> <<>>, observed |-> machine = "receipts"]
  ELSE GateInit /\ live = "without"

ReleaseInit ==
  /\ machine \in {"agentic", "evidence", "cut"} \union GateMachines
  /\ AgenticInit /\ EvidenceInit /\ GateStarts /\ CutInit
  /\ machine = "cut" \/ (tree.source = 1 /\ tags[1] = 1)

PromotionNext ==
  \E c \in Candidates :
    \/ CreateState(c) \/ LeaveResult(c)
    \/ \E intent \in BOOLEAN : ClassifyState(c, intent)
    \/ \E other \in Candidates : PromoteState(c, other) \/ BuildLedger(c, other)

RulesetNext ==
  \/ ProjectFixedContext
  \/ \E image \in Rulesets : RulesetChanges(image) \/ PrepareRollback(image)
  \/ \E lost \in BOOLEAN : ReconcileRulesetResponse(lost)
  \/ LeaveResult(c1) \/ BuildLedger(c1, c1)
  \/ \E kind \in {"ownership", "ruleset"} : \E doc \in FromOutside(kind) : OutsideJob(kind, doc)

\* Once the gate has read the authority's receipt, what comes after it is of no interest.
AuthorityNext ==
  \/ TimePasses \/ LeaveResult(c1) \/ BuildLedger(c1, c1)
  \/ gate.read = <<>> /\ \E w \in Workflows : AuthorityJob(w)

ReceiptsNext == \E kind \in Documents : \E doc \in FromOutside(kind) : OutsideJob(kind, doc)

GateReads == ReadReceipt \/ \E yes \in BOOLEAN : Decide(yes)

ReleaseNext ==
  \/ machine = "agentic" /\ AgenticNext /\ UNCHANGED otherThanAgentic
  \/ machine = "evidence" /\ EvidenceNext /\ UNCHANGED otherThanEvidence
  \/ machine = "cut" /\ CutNext /\ UNCHANGED otherThanCut
  \/ machine = "promotion" /\ PromotionNext /\ UNCHANGED otherThanGate
  \/ machine = "ruleset" /\ RulesetNext /\ UNCHANGED otherThanGate
  \/ machine = "authority" /\ AuthorityNext /\ UNCHANGED otherThanGate
  \/ machine = "receipts" /\ ReceiptsNext /\ UNCHANGED otherThanGate
  \/ machine \in GateMachines \ {"ruleset"} /\ GateReads /\ UNCHANGED otherThanGate

ReleaseSpec == ReleaseInit /\ [][ReleaseNext]_releaseVars
=============================================================================
