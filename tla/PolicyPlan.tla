----------------------------- MODULE PolicyPlan -----------------------------
(***************************************************************************)
(* The preview of a policy reconciliation on one device: which             *)
(* Observations of an older policy the newer one would replace or          *)
(* invalidate, and whether the plan as a whole may be followed.  The       *)
(* preview writes nothing; a person carries entries out as Supersessions.  *)
(*                                                                         *)
(* adj_v1 and adj_v2 have one Observation key between them, later policies *)
(* have their own.  One trust zone; rows and events are well formed, and   *)
(* an Observation has its evidence's subject.                              *)
(***************************************************************************)
EXTENDS Naturals, FiniteSets

CONSTANTS
  Sources,    \* evidence events
  Verdicts,   \* [Sources -> the dispositions a policy may give it]
  Done,       \* sources both policies promoted and materialised before
  PlanLimit,  \* --limit
  ScanLimit,  \* Supersessions, and inbox events, that a preview reads
  MaxSups,    \* Supersessions there may be
  MaxPulled,  \* events of this evidence in the inbox there may be
  Arrows      \* targets and replacements people name: <<unit, set of at most one unit>>

PlanPolicies == {"from", "to"}

\* An Observation of a source, by its idempotency key: a policy's or its review's.
Unit == [of : Sources, policy : PlanPolicies, key : {"ordinary", "held"}]

ASSUME PlanAssumption ==
  /\ IsFiniteSet(Sources) /\ Done \subseteq Sources
  /\ Verdicts \in [Sources -> SUBSET {"promote", "hold", "reject"}]
  /\ PlanLimit \in Nat \ {0} /\ ScanLimit \in Nat \ {0} /\ {MaxSups, MaxPulled} \subseteq Nat
  /\ \A a \in Arrows : a \in Unit \X SUBSET Unit /\ Cardinality(a[2]) <= 1

\* Recorded on this device or pulled into the inbox; n tells apart Supersessions that
\* differ in their reason only.
SupersessionRow == [of : Unit, by : SUBSET Unit, origin : {"local", "inbox"}, n : {1, 2}]

VARIABLES
  sharedKey,     \* whether the two policies are adj_v1 and adj_v2
  decided,       \* knowledge_dispositions: [Sources -> [PlanPolicies -> row or none]]
  reviewed,      \* knowledge_disposition_reviews, likewise
  units,         \* Observations among the canonical events: [Unit -> lifecycle or none]
  inbox,         \* sources and units in sync_inbox_events
  supersessions  \* Supersessions, among the canonical events and in the inbox

planVars == <<sharedKey, decided, reviewed, units, inbox, supersessions>>

\* The Observation under observationIdempotencyForPolicy, or under
\* heldReviewObservationIdempotencyKey.
UnitOf(s, policy, key) ==
  [of |-> s, policy |-> IF sharedKey /\ key = "ordinary" THEN "from" ELSE policy, key |-> key]

\* Evidence comes from this device or from another one.
PlanInit ==
  /\ sharedKey \in BOOLEAN
  /\ decided = [s \in Sources |-> [p \in PlanPolicies |-> IF s \in Done THEN "promote" ELSE "none"]]
  /\ reviewed = [s \in Sources |-> [p \in PlanPolicies |-> "none"]]
  /\ units = [u \in Unit |->
       IF u.of \in Done /\ u.key = "ordinary" /\ u = UnitOf(u.of, u.policy, u.key)
         THEN "active" ELSE "none"]
  /\ inbox \in SUBSET (Sources \ Done)
  /\ supersessions = {}

-----------------------------------------------------------------------------
(* The steps that write what the preview reads *)

\* proposeObservationDraft: an Observation that is under the key stays as it is.
Materialise(u, lifecycle) ==
  units' = [units EXCEPT ![u] = IF @ = "none" THEN lifecycle ELSE @]

Decide(s, policy, verdict) ==
  /\ decided[s][policy] = "none"
  /\ decided' = [decided EXCEPT ![s][policy] = verdict]
  /\ UNCHANGED <<sharedKey, reviewed, units, inbox, supersessions>>

ObserveDecided(s, policy) ==
  /\ decided[s][policy] \in {"promote", "hold"}
  /\ Materialise(UnitOf(s, policy, "ordinary"),
                 IF decided[s][policy] = "promote" THEN "active" ELSE "draft")
  /\ UNCHANGED <<sharedKey, decided, reviewed, inbox, supersessions>>

ReviewDecided(s, policy, decision) ==
  /\ decided[s][policy] = "hold" /\ reviewed[s][policy] = "none"
  /\ reviewed' = [reviewed EXCEPT ![s][policy] = decision]
  /\ UNCHANGED <<sharedKey, decided, units, inbox, supersessions>>

ObserveReviewed(s, policy) ==
  /\ reviewed[s][policy] = "promote"
  /\ Materialise(UnitOf(s, policy, "held"), "active")
  /\ UNCHANGED <<sharedKey, decided, reviewed, inbox, supersessions>>

\* Another device observed the evidence first, under the same key and so with the same id.
PullUnit(u) ==
  /\ u = UnitOf(u.of, u.policy, u.key)
  /\ units[u] = "none" /\ u \notin inbox /\ Cardinality(inbox) < MaxPulled
  /\ inbox' = inbox \cup {u}
  /\ UNCHANGED <<sharedKey, decided, reviewed, units, supersessions>>

\* recordHumanSupersession looks at the Observation only, and not at Supersessions there are.
Retract(u, by, n) ==
  /\ units[u] # "none" /\ Cardinality(supersessions) < MaxSups
  /\ supersessions' = supersessions \cup {[of |-> u, by |-> by, origin |-> "local", n |-> n]}
  /\ UNCHANGED <<sharedKey, decided, reviewed, units, inbox>>

PullSupersession(u, by) ==
  /\ units[u] # "none" /\ Cardinality(supersessions) < MaxSups
  /\ supersessions' = supersessions \cup {[of |-> u, by |-> by, origin |-> "inbox", n |-> 1]}
  /\ UNCHANGED <<sharedKey, decided, reviewed, units, inbox>>

PlanNext ==
  \/ \E s \in Sources, p \in PlanPolicies :
       \/ \E verdict \in Verdicts[s] : Decide(s, p, verdict)
       \/ ObserveDecided(s, p) \/ ObserveReviewed(s, p)
       \/ \E decision \in {"promote", "reject"} : ReviewDecided(s, p, decision)
  \/ \E u \in Unit : PullUnit(u)
  \/ \E a \in Arrows :
       PullSupersession(a[1], a[2]) \/ \E n \in {1, 2} : Retract(a[1], a[2], n)

PlanSpec == PlanInit /\ [][PlanNext]_planVars

-----------------------------------------------------------------------------
(* previewPolicyReconciliation, for a set of Supersessions *)

\* Where an arrow of edges leads from a vertex, the vertex included.
ReachedFrom(edges, start) ==
  LET step[i \in 0..Cardinality(edges)] ==
        IF i = 0 THEN {start}
        ELSE LET before == step[i - 1]
             IN  before \cup {e[2] : e \in {d \in edges : d[1] \in before}}
  IN  step[Cardinality(edges)]

Replacements(sups) == {<<r.of, CHOOSE w \in r.by : TRUE>> : r \in {x \in sups : x.by # {}}}

\* materializationAuthority
Authority(s, policy) ==
  IF decided[s][policy] = "promote" /\ reviewed[s][policy] = "none" THEN "ordinary"
  ELSE IF decided[s][policy] = "hold" /\ reviewed[s][policy] = "promote" THEN "held"
  ELSE "none"

\* relevantObservations and selectAuthorized.
Observed(s, policy) ==
  {u \in {UnitOf(s, policy, k) : k \in {"ordinary", "held"}} : units[u] = "active"}
Authorized(s, policy) == {u \in Observed(s, policy) : u.key = Authority(s, policy)}

Entry(reason, target, replacement) ==
  [reason |-> reason, target |-> target, replacement |-> replacement]

\* The intended Supersession against those of its target: have are the equal ones.
Intent(target, replacement, sups, fresh) ==
  LET ofTarget == {r \in sups : r.of \in target}
      have == {r \in ofTarget : r.by = replacement}
      imported == \E r \in have : r.origin = "inbox"
      conflicting == have # ofTarget
      cyclic == \E u \in target, w \in replacement : u \in ReachedFrom(Replacements(sups), w)
  IN  Entry(IF replacement = {} /\ conflicting THEN "conflicting_intent_unsafe"
            ELSE IF imported THEN "imported_unsafe"
            ELSE IF cyclic THEN "cycle_unsafe"
            ELSE IF conflicting THEN "conflicting_intent_unsafe"
            ELSE IF Cardinality(have) > 1 THEN "ambiguous_unsafe"
            ELSE IF have # {} THEN "already_applied" ELSE fresh,
            target, replacement)

\* The outcome of the newer policy's disposition and review.
Effective(s) ==
  CASE decided[s]["to"] \in {"promote", "reject"} /\ reviewed[s]["to"] = "none" -> decided[s]["to"]
    [] Authority(s, "to") = "held" -> "promote"
    [] OTHER -> "none"

Candidates == {s \in Sources : decided[s]["from"] # "none"}

\* One candidate's reason, target and replacement, in the order of the checks.
EntryOf(s, sups) ==
  LET old == Authorized(s, "from")
      new == Authorized(s, "to")
  IN  IF s \in inbox THEN Entry("imported_unsafe", {}, {})
      ELSE IF \E p \in PlanPolicies : Observed(s, p) # Authorized(s, p) THEN Entry("ambiguous_unsafe", {}, {})
      ELSE IF (old \cup new) \cap inbox # {} THEN Entry("imported_unsafe", old \cap inbox, new \cap inbox)
      ELSE IF decided[s]["to"] = "none" THEN Entry("missing_unsafe", {}, {})
      ELSE IF Effective(s) = "none"
        THEN Entry(IF reviewed[s]["to"] = "none" THEN "missing_unsafe" ELSE "ambiguous_unsafe", {}, {})
      ELSE IF old = {} THEN Entry("missing_unsafe", {}, {})
      ELSE IF Effective(s) = "reject" THEN Intent(old, {}, sups, "invalidate")
      ELSE IF new = {} THEN Entry("missing_unsafe", old, {})
      ELSE Intent(old, new, sups, "replace")

WriteReasons == {"replace", "invalidate"}
EligibleReasons == WriteReasons \cup {"already_applied"}

\* partitionReconciliationComponents: the candidates that hang together by their
\* Observations, their evidence or Supersessions.
Linked(s, sups) ==
  LET lineage(v) == IF v \in inbox THEN {} ELSE Observed(v, "from") \cup Observed(v, "to")
      links == Replacements(sups) \cup UNION {{<<v, u>> : u \in lineage(v)} : v \in Candidates}
  IN  ReachedFrom(links \cup {<<e[2], e[1]>> : e \in links}, s) \cap Candidates

\* Mutant: the writes of the plan itself are left out of the search for a cycle.
EdgesWithoutPlanned(plan, sups) == Replacements(sups)

\* The Supersessions there are and those the plan would write.
PlannedEdges(plan, sups) ==
  Replacements(sups) \cup
    UNION {plan[s].target \X plan[s].replacement :
             s \in {v \in Candidates : plan[v].reason \in WriteReasons}}

\* buildPolicyReconciliationPlanV2
PlanOf(sups) == [s \in Candidates |-> EntryOf(s, sups)]

Admissible(sups) ==
  LET plan == PlanOf(sups)
      eligible == {s \in Candidates : plan[s].reason \in EligibleReasons}
      edges == PlannedEdges(plan, sups)
  IN  /\ Cardinality(Candidates) <= PlanLimit
      /\ Cardinality({r \in sups : r.origin = "local"}) < ScanLimit
      /\ Cardinality(inbox \cup {r \in sups : r.origin = "inbox"}) < ScanLimit
      /\ \A s \in eligible :
           /\ Linked(s, sups) \subseteq eligible
           /\ \A u \in plan[s].target, w \in plan[s].replacement : u \notin ReachedFrom(edges, w)
      /\ \A s, v \in eligible :
           s # v /\ plan[s].reason \in WriteReasons /\ plan[v].reason \in WriteReasons
             => plan[s].target # plan[v].target

-----------------------------------------------------------------------------
(* Properties *)

PlanTypeOK ==
  /\ sharedKey \in BOOLEAN
  /\ decided \in [Sources -> [PlanPolicies -> {"none", "promote", "hold", "reject"}]]
  /\ reviewed \in [Sources -> [PlanPolicies -> {"none", "promote", "reject"}]]
  /\ units \in [Unit -> {"none", "active", "draft"}]
  /\ inbox \subseteq Sources \cup Unit
  /\ supersessions \subseteq SupersessionRow

\* The Supersessions a person has recorded who carried out every write of the plan.
CarriedOut(sups) ==
  LET written == {entry \in {EntryOf(s, sups) : s \in Candidates} : entry.reason \in WriteReasons}
  IN  sups \cup {[of |-> CHOOSE u \in w.target : TRUE, by |-> w.replacement,
                  origin |-> "local", n |-> 1] : w \in written}

\* A plan that is admissible can be carried out as it stands: afterwards the preview is
\* admissible again and has nothing left to write, what is eligible has one Supersession
\* per target and no replacement that leads back to it, unless the preview can no
\* longer read all the Supersessions.
PlanSettles ==
  Admissible(supersessions) =>
    LET after == CarriedOut(supersessions)
        plan == PlanOf(supersessions)
        settled == PlanOf(after)
    IN  Cardinality({r \in after : r.origin = "local"}) < ScanLimit =>
          /\ Admissible(after)
          /\ \A s \in Candidates : plan[s].reason \in EligibleReasons =>
               /\ settled[s] = [plan[s] EXCEPT !.reason = "already_applied"]
               /\ \A u \in plan[s].target :
                    /\ Cardinality({r \in after : r.of = u}) = 1
                    /\ \A w \in plan[s].replacement :
                         u \notin ReachedFrom(Replacements(after), w)
=============================================================================
