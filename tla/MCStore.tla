------------------------------ MODULE MCStore ------------------------------
(***************************************************************************)
(* What one machine keeps, side by side for TLC: the store's outbox, the   *)
(* preview of a policy reconciliation, the settings of a host that setup   *)
(* merges the capture hook into, a folder the store is exported to, the    *)
(* Claims its readers judge, and the bundles it exchanges with another     *)
(* machine.                                                                *)
(***************************************************************************)
EXTENDS MCOutbox, PolicyPlan, HookSetup, OkfExport, AcceptedFacts, KnowledgeBundle

CONSTANTS g1, g2, u1, u2, b1, b2, ev, oh, cl, ac, sp, here, there

VARIABLE machine  \* the operation this behaviour is about

MCVerdicts == [s \in Sources |-> IF s = g1 THEN {"promote", "hold", "reject"} ELSE {"promote"}]
PlanUnit(s, policy, key) == [of |-> s, policy |-> policy, key |-> key]
MCArrows ==
  {<<PlanUnit(g1, "from", "ordinary"), {}>>,
   <<PlanUnit(g1, "from", "ordinary"), {PlanUnit(g1, "to", "ordinary")}>>,
   <<PlanUnit(g1, "to", "ordinary"), {PlanUnit(g2, "from", "ordinary")}>>,
   <<PlanUnit(g1, "to", "held"), {PlanUnit(g2, "from", "ordinary")}>>,
   <<PlanUnit(g2, "to", "ordinary"), {PlanUnit(g1, "from", "ordinary")}>>,
   <<PlanUnit(g2, "to", "ordinary"), {}>>}

\* Settings as people have them: none, their own hooks, the documentation's PATH-based
\* command beside them, leftovers of another install in several groups.
MCHandFiles ==
  [json |->
     {Absent, <<>>, <<<<u1>>, <<>>, <<u2>>>>, <<<<u1, CarpeOS(b2), u2>>>>,
      <<<<u1, CarpeOS(Bare)>>, <<CarpeOS(b2)>>, <<u2, CarpeOS(b2)>>>>},
   ts |-> {Absent, <<<<u1>>>>, <<<<u1, CarpeOS(b2)>>>>}]

\* A held Observation of an evidence event, a Claim that rests on it and is accepted, and
\* a Supersession of the Claim.
MCTypeOf ==
  (ev :> "EvidenceArtifact") @@ (oh :> "Observation") @@ (cl :> "Claim")
    @@ (ac :> "AcceptanceDecision") @@ (sp :> "Supersession")
MCRefsOf == (ev :> {}) @@ (oh :> {ev}) @@ (cl :> {oh}) @@ (ac :> {cl}) @@ (sp :> {cl})
MCDecidedAt == [r \in Records |-> 0]
MCPathOrder == <<cl, oh, ev, Index, sp, ac>>

\* The Claim names the held Observation.
MCSupportOf == [c \in Claims |-> {oh}]

\* Bundles of two machines are imported into one of them, so that its own come back too.
MCImportsAt == [p \in Importers |-> here]

otherThanOutbox == <<machine, planVars, setupVars, okfVars, factVars, bundleVars>>
otherThanPlan == <<machine, outboxVars, setupVars, okfVars, factVars, bundleVars>>
otherThanSetup == <<machine, outboxVars, planVars, okfVars, factVars, bundleVars>>
otherThanOkf == <<machine, outboxVars, planVars, setupVars, factVars, bundleVars>>
otherThanFacts == <<machine, outboxVars, planVars, setupVars, okfVars, bundleVars>>
otherThanBundle == <<machine, outboxVars, planVars, setupVars, okfVars, factVars>>
storeVars == <<machine, outboxVars, planVars, setupVars, okfVars, factVars, bundleVars>>

StoreInit ==
  /\ machine \in {"outbox", "plan", "setup", "okf", "facts", "bundle"}
  /\ OutboxInit /\ PlanInit /\ SetupInit /\ OkfInit /\ FactsInit /\ BundleInit
  /\ machine # "plan" => inbox = {} /\ sharedKey
  /\ known = IF machine = "okf" THEN {ev, oh, cl} ELSE {}
  /\ machine # "setup" => hostKind = "json" /\ hostFile = Absent

StoreOpsNext ==
  \/ machine = "outbox" /\ OutboxNext /\ UNCHANGED otherThanOutbox
  \/ machine = "plan" /\ PlanNext /\ UNCHANGED otherThanPlan
  \/ machine = "setup" /\ SetupNext /\ UNCHANGED otherThanSetup
  \/ machine = "okf" /\ OkfNext /\ UNCHANGED otherThanOkf
  \/ machine = "facts" /\ FactsNext /\ UNCHANGED otherThanFacts
  \/ machine = "bundle" /\ BundleNext /\ UNCHANGED otherThanBundle

StoreSpec == StoreInit /\ [][StoreOpsNext]_storeVars

\* The type invariants of the operations that are here for TLC only, and the outbox's.
StoreTypeOK ==
  OutboxTypeOK /\ PlanTypeOK /\ SetupTypeOK /\ OkfTypeOK /\ FactsTypeOK /\ BundleTypeOK
=============================================================================
