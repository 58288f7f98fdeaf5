---------------------------- MODULE HeldReview ----------------------------
(***************************************************************************)
(* Dispositions and their reviews in the local store, under one policy:    *)
(* adjudication of evidence writes a disposition and an Observation for    *)
(* it, a person promotes or rejects what was held, and several processes   *)
(* do so at once.                                                          *)
(*                                                                         *)
(* Every write is a transaction or a statement of its own and any process  *)
(* may die between two of them.  Both ways of proposing an Observation     *)
(* give it the evidence's own valid time, so proposing again replays.      *)
(* Dispositions the agentic runner writes are in AgenticRunner.            *)
(***************************************************************************)
EXTENDS Naturals, FiniteSets

CONSTANTS
  Evidence,  \* evidence events
  Reviewing  \* processes

Dispositions == {"promote", "hold", "reject"}
Decisions == {"promote", "reject"}
\* by: which idempotency key the Observation has, the policy's or the review's.
StoredObservation == [of : Evidence, by : {"policy", "review"}, lifecycle : {"active", "draft"}]

VARIABLES
  dispositions,  \* knowledge_dispositions: [Evidence -> row or none]
  reviews,       \* knowledge_disposition_reviews: [Evidence -> row or none]
  observations,  \* Observations among the canonical events
  clerk,         \* [Reviewing -> what the process is doing]
  answers        \* what reviewers were told: evidence and decision carried out

heldVars == <<dispositions, reviews, observations, clerk, answers>>

Clerk == [pc : {"free", "insert", "observe", "review", "recheck", "promote"},
          on : SUBSET Evidence, says : {"none"} \cup Dispositions]
FreeClerk == [pc |-> "free", on |-> {}, says |-> "none"]

HeldInit ==
  /\ dispositions = [v \in Evidence |-> "none"]
  /\ reviews = [v \in Evidence |-> "none"]
  /\ observations = {}
  /\ clerk = [p \in Reviewing |-> FreeClerk]
  /\ answers = {}

ClerkAt(p, pc, v) == clerk[p].pc = pc /\ clerk[p].on = {v}
ClerkTo(p, pc, v, says) == clerk' = [clerk EXCEPT ![p] = [pc |-> pc, on |-> {v}, says |-> says]]
ClerkFree(p) == clerk' = [clerk EXCEPT ![p] = FreeClerk]

\* proposeObservationDraft: an insert, or a replay of the Observation under the key.
Observing(v, by, lifecycle) ==
  observations' =
    IF \E o \in observations : o.of = v /\ o.by = by
      THEN observations
      ELSE observations \cup {[of |-> v, by |-> by, lifecycle |-> lifecycle]}

-----------------------------------------------------------------------------
(* adjudicateEvidenceArtifact.  Processes may adjudicate under different policy *)
(* overrides, so their own verdicts on one event may differ. *)

\* A stored disposition is followed, not the verdict.
Adjudicate(p, v, verdict) ==
  /\ clerk[p].pc = "free"
  /\ IF dispositions[v] = "none" THEN ClerkTo(p, "insert", v, verdict)
     ELSE IF dispositions[v] = "reject" THEN ClerkFree(p)
     ELSE ClerkTo(p, "observe", v, dispositions[v])
  /\ UNCHANGED <<dispositions, reviews, observations, answers>>

\* The primary key refuses a second row, and the adjudication throws.
InsertDisposition(p, v) ==
  /\ ClerkAt(p, "insert", v)
  /\ LET says == clerk[p].says IN
     IF dispositions[v] # "none"
       THEN ClerkFree(p) /\ UNCHANGED dispositions
       ELSE /\ dispositions' = [dispositions EXCEPT ![v] = says]
            /\ IF says = "reject" THEN ClerkFree(p) ELSE ClerkTo(p, "observe", v, says)
  /\ UNCHANGED <<reviews, observations, answers>>

ObserveByPolicy(p, v) ==
  /\ ClerkAt(p, "observe", v)
  /\ Observing(v, "policy", IF clerk[p].says = "promote" THEN "active" ELSE "draft")
  /\ ClerkFree(p)
  /\ UNCHANGED <<dispositions, reviews, answers>>

-----------------------------------------------------------------------------
(* reviewHeldDisposition *)

\* Mutant: the decision is carried out whatever the stored review says.
MeetsAnyway(p, v, decision, review) ==
  IF decision = "reject"
    THEN ClerkFree(p) /\ answers' = answers \cup {[of |-> v, decision |-> "reject"]}
    ELSE ClerkTo(p, "promote", v, decision) /\ UNCHANGED answers

\* The reviewer's decision met a review of the event: carried out, or refused.
Meets(p, v, decision, review) ==
  IF review # decision THEN ClerkFree(p) /\ UNCHANGED answers
  ELSE IF decision = "reject"
    THEN ClerkFree(p) /\ answers' = answers \cup {[of |-> v, decision |-> "reject"]}
    ELSE ClerkTo(p, "promote", v, decision) /\ UNCHANGED answers

Review(p, v, decision) ==
  /\ clerk[p].pc = "free"
  /\ dispositions[v] = "hold"
  /\ IF reviews[v] = "none" THEN ClerkTo(p, "review", v, decision) /\ UNCHANGED answers
     ELSE Meets(p, v, decision, reviews[v])
  /\ UNCHANGED <<dispositions, reviews, observations>>

\* One review per event; whether the insert succeeds or not, the row is read again.
InsertReview(p, v) ==
  /\ ClerkAt(p, "review", v)
  /\ reviews' = IF reviews[v] = "none" THEN [reviews EXCEPT ![v] = clerk[p].says] ELSE reviews
  /\ ClerkTo(p, "recheck", v, clerk[p].says)
  /\ UNCHANGED <<dispositions, observations, answers>>

RecheckReview(p, v) ==
  /\ ClerkAt(p, "recheck", v)
  /\ Meets(p, v, clerk[p].says, reviews[v])
  /\ UNCHANGED <<dispositions, reviews, observations>>

\* materializeHeldPromotion, under the review's own key: an active Observation of the
\* disposition's statement next to the draft.
PromoteHeld(p, v) ==
  /\ ClerkAt(p, "promote", v)
  /\ Observing(v, "review", "active")
  /\ ClerkFree(p)
  /\ answers' = answers \cup {[of |-> v, decision |-> "promote"]}
  /\ UNCHANGED <<dispositions, reviews>>

\* The process dies, or the store throws.  A review without its Observation is no longer
\* listed as held: promote-held has to be repeated by its id.
ClerkStops(p) ==
  /\ clerk[p].pc # "free"
  /\ ClerkFree(p)
  /\ UNCHANGED <<dispositions, reviews, observations, answers>>

ClerkStep(p, v) ==
  \/ \E verdict \in Dispositions : Adjudicate(p, v, verdict)
  \/ InsertDisposition(p, v) \/ ObserveByPolicy(p, v)
  \/ \E decision \in Decisions : Review(p, v, decision)
  \/ InsertReview(p, v) \/ RecheckReview(p, v) \/ PromoteHeld(p, v)

HeldNext ==
  \/ \E p \in Reviewing, v \in Evidence : ClerkStep(p, v)
  \/ \E p \in Reviewing : ClerkStops(p)

HeldSpec == HeldInit /\ [][HeldNext]_heldVars

-----------------------------------------------------------------------------
(* Properties *)

HeldTypeOK ==
  /\ dispositions \in [Evidence -> {"none"} \cup Dispositions]
  /\ reviews \in [Evidence -> {"none"} \cup Decisions]
  /\ observations \subseteq StoredObservation
  /\ clerk \in [Reviewing -> Clerk]
  /\ answers \subseteq [of : Evidence, decision : Decisions]

\* Evidence becomes active knowledge only as the stored decisions have it: by policy if
\* its disposition is a promote, by a person if it was held and the one review says
\* promote.  Of two processes that decide differently at once, the loser writes nothing;
\* and what a reviewer was told stays true: no later review turns the decision, a promoted
\* hold has its active Observation and a rejected one has none.
ActiveAsDecided ==
  /\ \A o \in observations : o.lifecycle = "active" =>
       IF o.by = "policy" THEN dispositions[o.of] = "promote"
       ELSE dispositions[o.of] = "hold" /\ reviews[o.of] = "promote"
  /\ \A a \in answers :
       /\ reviews[a.of] = a.decision
       /\ a.decision = "promote" <=>
            \E o \in observations : o.of = a.of /\ o.by = "review" /\ o.lifecycle = "active"
=============================================================================
