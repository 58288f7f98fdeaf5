--------------------------- MODULE AcceptedFacts ---------------------------
(***************************************************************************)
(* Claims and what people decide about them in one store, and what its     *)
(* three readers make of it: the context pack of the MCP server, the       *)
(* Obsidian notes and the OKF export.  Each reader derives what is         *)
(* accepted from the same immutable events with rules of its own.          *)
(*                                                                         *)
(* Events are made here or pulled, in any order.  Protected values are     *)
(* readable, nothing is unverified, a Claim's provenance is its support,   *)
(* which is never against it, and the times of decisions are those of the  *)
(* machines that took them.                                                *)
(*                                                                         *)
(* A Claim of this code stays a draft whatever is decided about it.  The   *)
(* pack and the notes have no drafts among the accepted facts: for them    *)
(* only a Claim of another writer of the zone becomes one.  The export     *)
(* does not look at the lifecycle: it publishes an accepted draft too.     *)
(***************************************************************************)
EXTENDS Naturals, FiniteSets

CONSTANTS
  Claims,
  Supports,      \* Observations
  SupportOf,     \* [Claims -> what a Claim names as its support]
  Deciders,      \* people, with their reasons
  Times,
  MaxDecisions,  \* decisions there may be
  MaxErased      \* erasures there may be

ASSUME FactsAssumption ==
  /\ SupportOf \in [Claims -> SUBSET Supports]
  /\ Times \subseteq Nat /\ MaxDecisions \in Nat /\ MaxErased \in Nat

\* AcceptanceDecision and Supersession events.
Decision == [of : Claims, says : {"accepted", "rejected", "needs_review"}, by : Deciders, at : Times]
Withdrawal == [withdraws : Claims \cup Supports]

\* Claims, Observations, decisions and Supersessions are events of different types.
ASSUME KindsAssumption ==
  LET Withdrawals == [withdraws : Claims \cup Supports \cup Decision]
  IN  (Claims \cup Supports) \cap (Decision \cup Withdrawals) = {}

VARIABLES
  filed,   \* events the store has, its own and those of the inbox
  drafts,  \* the Claims that are drafts
  effaced  \* events an erasure names

factVars == <<filed, drafts, effaced>>

FactsInit == filed = {} /\ drafts = {} /\ effaced = {}

Decisions == filed \cap Decision
DecisionsOf(c, says) == {d \in Decisions : d.of = c /\ d.says = says}

-----------------------------------------------------------------------------
ObserveSupport(s) ==
  /\ filed' = filed \cup {s}
  /\ UNCHANGED <<drafts, effaced>>

\* proposeClaimDraft: a Claim of this repository is a draft and names support the store
\* has; nothing makes it anything else afterwards.
ProposeClaim(c) ==
  /\ c \notin filed /\ SupportOf[c] \subseteq filed
  /\ filed' = filed \cup {c} /\ drafts' = drafts \cup {c}
  /\ UNCHANGED effaced

\* A Claim of another writer of the zone; its support may follow, or never come.
PullClaim(c, isDraft) ==
  /\ c \notin filed
  /\ filed' = filed \cup {c}
  /\ drafts' = IF isDraft THEN drafts \cup {c} ELSE drafts
  /\ UNCHANGED effaced

\* recordHumanAcceptanceDecision, here or on another machine.  Who decided what, and
\* why, is the idempotency key: saying the same again is a replay, also after saying otherwise.
DecideClaim(d) ==
  /\ d.of \in filed
  /\ \A known \in DecisionsOf(d.of, d.says) : known.by # d.by
  /\ Cardinality(Decisions) < MaxDecisions
  /\ filed' = filed \cup {d}
  /\ UNCHANGED <<drafts, effaced>>

\* recordHumanSupersession: only Observations and Claims are retracted.
RetractFact(x) ==
  /\ x \in filed
  /\ filed' = filed \cup {[withdraws |-> x]}
  /\ UNCHANGED <<drafts, effaced>>

\* An erasure of the zone is pulled.
PullErasure(event) ==
  /\ Cardinality(effaced) < MaxErased
  /\ effaced' = effaced \cup {event}
  /\ UNCHANGED <<filed, drafts>>

FactsNext ==
  \/ \E s \in Supports : ObserveSupport(s)
  \/ \E c \in Claims : ProposeClaim(c) \/ \E isDraft \in BOOLEAN : PullClaim(c, isDraft)
  \/ \E d \in Decision : DecideClaim(d)
  \/ \E x \in Claims \cup Supports : RetractFact(x)
  \/ \E event \in filed : PullErasure(event)

FactsSpec == FactsInit /\ [][FactsNext]_factVars

-----------------------------------------------------------------------------
(* The context pack: classifyContext *)

\* eventEligible.  An erased Supersession still supersedes.
PackEligible(event) == event \in filed \ effaced /\ [withdraws |-> event] \notin filed

\* decisionsByClaim: the first decision of a kind stands for all of them.
FirstDecision(c, says) ==
  CHOOSE d \in DecisionsOf(c, says) : \A other \in DecisionsOf(c, says) : d.at <= other.at

\* Mutant: the support is not looked at.
PackFactUnsupported(c) ==
  /\ c \notin drafts /\ PackEligible(c)
  /\ DecisionsOf(c, "accepted") # {} /\ PackEligible(FirstDecision(c, "accepted"))
  /\ DecisionsOf(c, "rejected") # {} => ~PackEligible(FirstDecision(c, "rejected"))

\* acceptedFactEligible.  Support the store does not have does not count against a Claim.
PackFact(c) ==
  /\ c \notin drafts /\ PackEligible(c)
  /\ DecisionsOf(c, "accepted") # {} /\ PackEligible(FirstDecision(c, "accepted"))
  /\ DecisionsOf(c, "rejected") # {} => ~PackEligible(FirstDecision(c, "rejected"))
  /\ \A s \in SupportOf[c] \cap filed : PackEligible(s)

PackSection(c) ==
  IF PackFact(c) THEN "accepted"
  ELSE IF DecisionsOf(c, "rejected") # {} THEN "rejected"
  ELSE IF c \in drafts THEN "draft" ELSE "none"

-----------------------------------------------------------------------------
(* The notes: renderClaim *)

NoteSuperseded(event) == [withdraws |-> event] \in filed \ effaced

\* hasEligibleSupport
NoteSupported(c) ==
  \A s \in SupportOf[c] : s \in filed \ effaced /\ ~NoteSuperseded(s)

\* mapEligibleDecisionsByClaimId
NoteDecisions(c) == IF NoteSupported(c) THEN {d \in Decisions \ effaced : d.of = c} ELSE {}

NoteOf(c) ==
  LET says(word) == \E d \in NoteDecisions(c) : d.says = word
  IN IF c \in effaced \/ NoteSuperseded(c) THEN "none"
     ELSE IF NoteDecisions(c) # {d \in Decisions : d.of = c} \/ (says("accepted") /\ says("rejected"))
       THEN "conflict"
     ELSE IF says("rejected") THEN "rejected_claim"
     ELSE IF ~NoteSupported(c) THEN "conflict"
     ELSE IF says("accepted") /\ c \notin drafts THEN "accepted_fact"
     ELSE "proposed_claim"

-----------------------------------------------------------------------------
(* The export: mapEventsToOkf.  What else is exported is in OkfExport. *)

ExportedAs(c) ==
  IF c \in effaced \/ DecisionsOf(c, "accepted") \subseteq effaced
       \/ ~(DecisionsOf(c, "rejected") \subseteq effaced)
    THEN "none"
  ELSE IF [withdraws |-> c] \in filed \ effaced THEN "deprecated" ELSE "stable"

-----------------------------------------------------------------------------
(* Properties *)

\* Events of the types there are; only Claims are drafts.
FactsTypeOK ==
  /\ filed \subseteq Claims \cup Supports \cup Decision \cup Withdrawal
  /\ drafts \subseteq Claims \cap filed /\ effaced \subseteq filed

\* What a reader looks at for a Claim.
BearingOn(c) ==
  {c} \cup SupportOf[c] \cup {d \in Decisions : d.of = c}
    \cup [withdraws : {c} \cup SupportOf[c]]

\* Decided for: accepted by someone, rejected by nobody, neither the Claim nor its support
\* retracted.
DecidedFor(c) ==
  /\ DecisionsOf(c, "accepted") # {} /\ DecisionsOf(c, "rejected") = {}
  /\ \A x \in {c} \cup SupportOf[c] : [withdraws |-> x] \notin filed

\* The three readers, written apart, part on drafts and on nothing else that is decided for.
\* A Claim with a note as accepted fact is exported as a stable decision, whatever was erased.
\* Where nothing that bears on a Claim was erased, an accepted fact of the pack is one of the
\* export; and with its support there, one that is decided for is an accepted fact of all
\* three if it is no draft, one that is not is an accepted fact of neither pack nor notes, and
\* a draft, as every Claim this repository writes, is published as a stable decision by the
\* export while the pack still calls it a draft and the notes a proposed Claim.
ReadersPartOnDrafts ==
  \A c \in Claims \cap filed :
    /\ NoteOf(c) = "accepted_fact" => ExportedAs(c) = "stable"
    /\ BearingOn(c) \cap effaced = {} =>
         /\ PackSection(c) = "accepted" => ExportedAs(c) = "stable"
         /\ SupportOf[c] \subseteq filed =>
              /\ PackSection(c) = "accepted" <=> DecidedFor(c) /\ c \notin drafts
              /\ NoteOf(c) = "accepted_fact" <=> DecidedFor(c) /\ c \notin drafts
              /\ DecidedFor(c) /\ c \in drafts =>
                   /\ ExportedAs(c) = "stable"
                   /\ PackSection(c) = "draft" /\ NoteOf(c) = "proposed_claim"

\* What the README draws (Claim draft, AcceptanceDecision, accepted fact derived at query
\* time): a Claim that is decided for, with its support there and nothing that bears on it
\* erased, is an accepted fact for whoever reads it.  The code does not do this: see the run.
AcceptedIsFact ==
  \A c \in Claims \cap filed :
    DecidedFor(c) /\ SupportOf[c] \subseteq filed /\ BearingOn(c) \cap effaced = {} =>
      /\ PackSection(c) = "accepted" /\ NoteOf(c) = "accepted_fact"
      /\ ExportedAs(c) = "stable"
=============================================================================
