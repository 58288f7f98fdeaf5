---------------------------- MODULE ReleaseGate ----------------------------
(***************************************************************************)
(* The gate that says whether a commit R may be released, and the jobs     *)
(* whose receipts it reads: the state of a candidate C, which a person     *)
(* promotes, the ledger of its promotion, the ruleset's change, the        *)
(* release authority.  The receipts are files of one folder, replaced at   *)
(* any time, for other candidates and other releases too, while the gate   *)
(* reads one after the other.                                              *)
(*                                                                         *)
(* A candidate stands for its commit and its tree, a release for its       *)
(* commit, its tag and its version, and a pack for the bytes of a tarball. *)
(* A receipt is what it names; one whose fields or digest do not fit is    *)
(* there with good = FALSE.                                                *)
(***************************************************************************)
EXTENDS Naturals, Sequences, FiniteSets, SequencesExt

CONSTANTS
  Candidates,
  Releases,
  Packs,
  Workflows,   \* commits of the release workflow and its verifier
  Target,      \* the release the gate is run for
  Current,     \* the workflow it is run with
  Missing,     \* no file
  Torn,        \* a file that cannot be parsed, as one cut in its write
  MaxWrites,   \* receipts that jobs outside this code replace
  MaxTime      \* the time passes from 0 up to it

VARIABLES
  states,      \* [candidate -> its state]
  live,        \* the ruleset at GitHub
  projection,  \* the ruleset's change that is prepared: Missing or the ruleset it was made for
  folder,      \* [kind -> Missing, Torn or a receipt]
  time,        \* what expiries are compared with
  writes,      \* receipts replaced from outside
  gate         \* [at, read, observed]

gateVars == <<states, live, projection, folder, time, writes, gate>>

-----------------------------------------------------------------------------
(* The receipts. *)

\* readReleaseReceiptBundle and, after it, the artifact, in the order they are read.
ReadingOrder ==
  <<"authority", "ownership", "ruleset", "evaluator", "promotion", "installSmoke", "ancestry",
    "releaseDiff", "tagIdentity", "approval", "manifest", "tarball">>
Documents == ToSet(ReadingOrder)

Evaluated(c) == [c |-> c, state |-> states[c], good |-> TRUE]
Ledger(c, good) == [c |-> c, good |-> good]
Ruleset(status, loss) == [status |-> status, loss |-> loss]
Authority(w, good, until) == [w |-> w, good |-> good, until |-> until]

\* What a job outside may leave under a kind, for whatever it worked on.
FromOutside(kind) ==
  {Torn, Missing} \union
  CASE kind = "ownership" -> [good : BOOLEAN]
    [] kind \in {"ancestry", "releaseDiff"} -> [c : Candidates, r : Releases, good : BOOLEAN]
    [] kind \in {"tagIdentity", "approval"} -> [r : Releases, good : BOOLEAN]
    [] kind \in {"manifest", "tarball", "installSmoke"} -> [r : Releases, pack : Packs, good : BOOLEAN]
    [] kind = "ruleset" -> {Ruleset("activated", "none")}
    [] OTHER -> {}

There(doc) == doc \notin {Missing, Torn}

-----------------------------------------------------------------------------
(* The state of a candidate. *)

Becomes(c, state) ==
  /\ states' = [states EXCEPT ![c] = state]
  /\ UNCHANGED <<live, projection, folder, time, writes, gate>>

CreateState(c) == states[c] = "none" /\ Becomes(c, "classification_pending")

\* Once, by the base.
ClassifyState(c, intent) ==
  /\ states[c] = "classification_pending"
  /\ Becomes(c, IF intent THEN "pending_evidence" ELSE "not_applicable")

\* The evidence is of C and its tree.
EvidenceBinds(c, tuple) == tuple = c

\* By a person, with an approval, and evidence of this very candidate.
PromoteState(c, tuple) ==
  /\ states[c] = "pending_evidence" /\ EvidenceBinds(c, tuple)
  /\ Becomes(c, "bc-preflip")

-----------------------------------------------------------------------------
(* The change of the ruleset. *)

Leave(kind, doc) ==
  /\ folder' = [folder EXCEPT ![kind] = doc]
  /\ UNCHANGED <<states, live, time, writes, gate>>

\* The ruleset without the context, with it and nothing else changed, with it as another
\* App's, with it and something else changed.
Rulesets == {"without", "with", "foreign", "drifted"}
PostImage == "with"

OwnershipVerified(doc) == There(doc) /\ doc.good

\* One that already has the context is refused.
ProjectFixedContext ==
  /\ There(folder["ownership"])
  /\ IF OwnershipVerified(folder["ownership"])
     THEN /\ live = "without"
          /\ Leave("ruleset", Ruleset("dry_run", "none")) /\ projection' = live
     ELSE Leave("ruleset", Ruleset("blocked", "none")) /\ UNCHANGED projection

\* Somebody makes the change, or another one.
RulesetChanges(image) ==
  /\ live' = image
  /\ UNCHANGED <<states, projection, folder, time, writes, gate>>

\* What came back has the context and is otherwise what it was made from.
SemanticProjection(image) == image = PostImage

ReconcileRulesetResponse(lost) ==
  /\ projection # Missing
  /\ lost \/ SemanticProjection(live)
  /\ Leave("ruleset", Ruleset("blocked", IF lost THEN "blocked_indeterminate" ELSE "reconciled"))
  /\ UNCHANGED projection

PrepareRollback(current) ==
  /\ projection # Missing
  /\ current = PostImage /\ current = live
  /\ Leave("ruleset", Ruleset("blocked", "none")) /\ UNCHANGED projection

-----------------------------------------------------------------------------
(* The ledger. *)

\* What is left to be done, read off the documents the ledger is made from.
NothingBlocks(c) ==
  /\ states[c] = "bc-preflip"
  /\ OwnershipVerified(folder["ownership"])
  /\ folder["ruleset"].status = "activated"

\* All documents that name a candidate name this one.
SameIdentity(c, evaluated, apiEvidence) == evaluated.c = c /\ apiEvidence = c

BuildLedger(c, apiEvidence) ==
  /\ \A kind \in {"evaluator", "ownership", "ruleset"} : There(folder[kind])
  /\ states[c] # "none" /\ SameIdentity(c, folder["evaluator"], apiEvidence)
  /\ Leave("promotion", Ledger(c, NothingBlocks(c))) /\ UNCHANGED projection

\* The evaluator's result with the state the candidate has by then.
LeaveResult(c) ==
  /\ states[c] # "none"
  /\ Leave("evaluator", Evaluated(c)) /\ UNCHANGED projection

-----------------------------------------------------------------------------
(* The release authority. *)

Methods == {"self_asserted_digest", "independent_verifier_callback", "protected_controller_receipt"}

\* Evidence names a workflow's commit and the time it expires at; it fits when all else in
\* it is bound to the receipt and its own parts.
AuthorityEvidence == [method : Methods, w : Workflows, fits : BOOLEAN, until : 1..(MaxTime + 1)]

\* buildReleaseAuthorityEvidence.
SelfAsserted(w, until) == [method |-> "self_asserted_digest", w |-> w, fits |-> TRUE, until |-> until]

\* collectAuthorityEvidenceErrors is empty for a receipt that says it is verified.
EvidenceHolds(evidence, w, supplied) ==
  /\ evidence # Missing
  /\ evidence.fits /\ evidence.w = w
  /\ evidence.until > time
  /\ evidence.method # "self_asserted_digest"
  /\ evidence.method = "independent_verifier_callback" => supplied

\* The verifier's evidence; Missing without a verifier or without any from it, Torn when it
\* throws.
Independent == {Missing, Torn} \union AuthorityEvidence

\* The evidence handed in, or the verifier's instead, or what is made of a controller's
\* receipt when there is no other.
Supplied(handed, verifier, controller) ==
  LET own == CASE verifier = Missing -> handed [] verifier = Torn -> Missing [] OTHER -> verifier
  IN IF own = Missing THEN controller ELSE own

\* A receipt that says it is verified is kept as such with evidence that holds, and every
\* role of it verified (it throws when one is not); else it is left blocked.
BuildAuthority(w, complete, handed, verifier, controller) ==
  LET evidence == Supplied(handed, verifier, controller)
      holds == EvidenceHolds(evidence, w, There(verifier))
  IN /\ holds => complete
     /\ Leave("authority", Authority(w, holds, IF holds THEN evidence.until ELSE 0))
     /\ UNCHANGED projection

\* The rehearsal of a bypass was observed, denied, and is the one the evidence is about.
BypassDenied == gate.observed

\* assertReleaseAuthorityReceipt, once more at the time of the gate.
AuthorityStands(doc) == doc.good => doc.until > time

AuthorityReady(doc) == AuthorityStands(doc) /\ doc.good /\ BypassDenied

-----------------------------------------------------------------------------
(* The gate. *)

GateInit ==
  /\ states = [c \in Candidates |-> "none"]
  /\ live \in {"without", "with", "foreign"} /\ projection = Missing
  /\ folder = [kind \in Documents |-> Missing]
  /\ time = 0 /\ writes = 0
  /\ gate = [at |-> "reading", read |-> <<>>, observed |-> FALSE]

TimePasses ==
  /\ time < MaxTime /\ time' = time + 1
  /\ UNCHANGED <<states, live, projection, folder, writes, gate>>

OutsideJob(kind, doc) ==
  /\ writes < MaxWrites /\ folder[kind] # doc
  /\ writes' = writes + 1
  /\ folder' = [folder EXCEPT ![kind] = doc]
  /\ UNCHANGED <<states, live, projection, time, gate>>

\* The next file; one that cannot be parsed ends the command, except among the artifact's.
ReadReceipt ==
  /\ gate.at = "reading" /\ Len(gate.read) < Len(ReadingOrder)
  /\ LET kind == ReadingOrder[Len(gate.read) + 1]
         doc == folder[kind]
     IN gate' = [gate EXCEPT !.read = Append(@, doc),
                   !.at = IF doc = Torn /\ kind \notin {"manifest", "tarball"} THEN "failed" ELSE @]
  /\ UNCHANGED <<states, live, projection, folder, time, writes>>

Doc(kind) == gate.read[CHOOSE i \in DOMAIN ReadingOrder : ReadingOrder[i] = kind]
TheCandidate == Doc("evaluator").c

\* A bug: the ledger's candidate is not compared with the evaluator's.
LedgerOpen(doc) == doc.good

\* It is bound to the workflow, not to the commit that is released.
AuthorityBinds(doc) == doc.w = Current /\ AuthorityReady(doc)
RulesetActive(doc) == doc.status = "activated" /\ doc.loss = "none"
EvaluatorTrusts(doc) == doc.good /\ doc.state = "bc-preflip"
LedgerBinds(doc) == doc.good /\ doc.c = TheCandidate
SmokeBinds(doc) == doc.good /\ doc.r = Doc("manifest").r /\ doc.pack = Doc("manifest").pack
AncestryBinds(doc) == doc.good /\ doc.c = TheCandidate /\ doc.r = Target
DiffBinds(doc) == doc.good /\ doc.c = TheCandidate /\ doc.r = Target
TagBinds(doc) == doc.good /\ doc.r = Target
ApprovalBinds(doc) == doc.good /\ doc.r = Target

\* assertArtifact: the manifest is this release's and the tarball is the one it describes.
ArtifactBinds(manifest, tarball) ==
  /\ manifest.good /\ manifest.r = Target
  /\ tarball.r = manifest.r /\ tarball.pack = manifest.pack

\* verifyReleaseGates leaves no blocker.
NoBlockers ==
  /\ \A kind \in Documents : There(Doc(kind))
  /\ AuthorityBinds(Doc("authority")) /\ OwnershipVerified(Doc("ownership")) /\ RulesetActive(Doc("ruleset"))
  /\ EvaluatorTrusts(Doc("evaluator")) /\ LedgerBinds(Doc("promotion"))
  /\ ArtifactBinds(Doc("manifest"), Doc("tarball")) /\ SmokeBinds(Doc("installSmoke"))
  /\ AncestryBinds(Doc("ancestry")) /\ DiffBinds(Doc("releaseDiff"))
  /\ TagBinds(Doc("tagIdentity")) /\ ApprovalBinds(Doc("approval"))

\* The command has no observations of a bypass to hand over; a caller of the function may.
Decide(observed) ==
  /\ gate.at = "reading" /\ Len(gate.read) = Len(ReadingOrder)
  /\ \/ gate.observed = observed /\ gate' = [gate EXCEPT !.at = IF NoBlockers THEN "ready" ELSE "defer"]
     \/ observed /\ ~gate.observed /\ gate' = [gate EXCEPT !.observed = TRUE]
  /\ UNCHANGED <<states, live, projection, folder, time, writes>>

\* Evidence of each source, with those it goes before.
AuthorityJob(w) ==
  \E evidence \in AuthorityEvidence, complete \in BOOLEAN :
    \/ BuildAuthority(w, complete, evidence, Missing, evidence)
    \/ BuildAuthority(w, complete, SelfAsserted(w, 1), evidence, Missing)
    \/ /\ evidence.method = "protected_controller_receipt"
       /\ \E verifier \in {Missing, Torn} : BuildAuthority(w, complete, Missing, verifier, evidence)

GateNext ==
  \/ \E c \in Candidates :
       \/ CreateState(c) \/ LeaveResult(c)
       \/ \E intent \in BOOLEAN : ClassifyState(c, intent)
       \/ \E other \in Candidates : PromoteState(c, other) \/ BuildLedger(c, other)
  \/ ProjectFixedContext \/ (\E image \in Rulesets : RulesetChanges(image) \/ PrepareRollback(image))
  \/ \E yes \in BOOLEAN : ReconcileRulesetResponse(yes) \/ Decide(yes)
  \/ \E w \in Workflows : AuthorityJob(w)
  \/ \E kind \in Documents : \E doc \in FromOutside(kind) : OutsideJob(kind, doc)
  \/ ReadReceipt \/ TimePasses

GateSpec == GateInit /\ [][GateNext]_gateVars

-----------------------------------------------------------------------------
(* Properties *)

\* However the files change while they are read, the gate is only ready on receipts of one
\* candidate, whom a person has promoted, of this release throughout, and of one pack.
ReadyIsOne ==
  gate.at = "ready" =>
    /\ states[TheCandidate] = "bc-preflip"
    /\ {Doc(kind).c : kind \in {"evaluator", "promotion", "ancestry", "releaseDiff"}} = {TheCandidate}
    /\ {Doc(kind).r : kind \in {"ancestry", "releaseDiff", "tagIdentity", "approval",
                                "manifest", "tarball", "installSmoke"}} = {Target}
    /\ Cardinality({Doc(kind).pack : kind \in {"manifest", "tarball", "installSmoke"}}) = 1
=============================================================================
