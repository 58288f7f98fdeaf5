--------------------------- MODULE AgenticRunner ---------------------------
(***************************************************************************)
(* The agentic runner: captures enter the feed of the store, runner        *)
(* processes claim feed rows under a lease, let the pipeline propose       *)
(* knowledge (with Flash when the network is allowed, from local rules     *)
(* otherwise), and materialise the proposals as dispositions, Observations *)
(* and draft Claims.  Proposals and the day's spend live in agentic.db,    *)
(* feed, dispositions and events in the store, so no transaction spans     *)
(* both, and two timers may run the same code at once.                     *)
(*                                                                         *)
(* One action is one statement or transaction of a database, or one call   *)
(* to Flash.  The job rows of agentic.db are left to AgenticJobs: a runner *)
(* writes them but nothing it does depends on them, not even whether it    *)
(* got the job's lease.                                                    *)
(***************************************************************************)
EXTENDS Naturals, FiniteSets, Sequences, SequencesExt

CONSTANTS
  Captures,     \* captured lifecycle hook events
  Runners,      \* runner processes: timers and commands
  Statements,   \* normalised statements
  Text,         \* what the text of a capture is; "strong" is hasLoadBearingDecisionSignal
  Ineligible,   \* captures whose hook the feed policy no longer admits
  Unreadable,   \* captures whose protected value can no longer be read
  Unpackable,   \* captures the redaction refuses to pack
  LocallyKept,  \* captures the local triage keeps, and does not drop or want context for
  Citable,      \* captures with text the extraction falls back to local rules for
  Local,        \* the candidates the local extractor finds in a capture
  Extractions,  \* the candidate lists Flash's extraction may give for it
  Networks,     \* the network settings runs are started with
  Materialises, \* the materialise settings runs are started with
  Limit,        \* useful rows a run may process
  RunCalls,     \* AGENTIC_RUN_MAX_CALLS
  DayCalls,     \* AGENTIC_DAY_MAX_CALLS
  MaxFaults     \* bound on crashes, throwing stores and failing Flash calls

Kinds == {"decision", "constraint", "fact_candidate"}
Gates == {"promote", "hold", "reject"}

\* An extracted candidate that passed the quality filter, with the decision the
\* gate takes of it before duplicates are looked at.
Candidate == [kind : Kinds, statement : Statements, gate : Gates]

ASSUME AgenticAssumption ==
  /\ IsFiniteSet(Captures)
  /\ Text \in [Captures -> {"empty", "noise", "prose", "strong"}]
  /\ Ineligible \subseteq Captures /\ Unreadable \subseteq Captures
  /\ Unpackable \subseteq Captures /\ Citable \subseteq Captures
  /\ LocallyKept \subseteq {c \in Captures : Text[c] = "strong"}
  /\ Local \in [Captures -> Seq(Candidate)]
  /\ \A c \in Captures : Extractions[c] \subseteq Seq(Candidate)
  /\ Networks \subseteq BOOLEAN /\ Materialises \subseteq BOOLEAN
  /\ Limit \in Nat \ {0} /\ RunCalls \in Nat /\ DayCalls \in Nat /\ MaxFaults \in Nat

\* Proposal ids are digests of the capture, the candidate and its ordinal.
Ids == [source : Captures, cand : Candidate, ord : Nat]
\* What putAgenticProposal returns: the row as it was read or written.
Snapshot == [id : Ids, gate : Gates, marked : BOOLEAN]

VARIABLES
  feed,       \* [Captures -> state of the row of agentic_capture_feed]
  proposals,  \* agentic_proposals: a set of rows, one per id
  disp,       \* knowledge_dispositions under the agentic policy
  obs,        \* the stored Observations: [id, lifecycle]
  claims,     \* the ids of the proposals whose draft Claim is stored
  day,        \* agentic_day_spend.calls
  billed,     \* calls Flash answered and bills
  run,        \* [Runners -> run in progress]
  faults      \* the faults so far

dbVars == <<feed, proposals, disp, obs, claims>>
spendVars == <<day, billed>>
agenticVars == <<dbVars, spendVars, run, faults>>

-----------------------------------------------------------------------------
FeedStates == {"unfed", "pending", "leased", "expired", "done", "skipped"}
Pcs == {"idle", "claim", "triage", "extract", "recent", "put", "insert",
        "requeue", "skip", "finish", "dispose", "observe", "draft", "mark",
        "caught", "drain", "bill", "persist"}

\* rows: claimed and not yet processed; key set `known` are the statements promoted
\* by recent rows or by this pack; why: what the catch block has caught.
Idle == [pc |-> "idle", net |-> FALSE, mat |-> FALSE, rows |-> {}, seen |-> {},
         useful |-> 0, calls |-> 0, row |-> {}, triaged |-> "none", cands |-> <<>>,
         at |-> 1, known |-> {}, todo |-> <<>>, draining |-> FALSE, why |-> "none",
         prev |-> 0]

AgenticInit ==
  /\ feed = [c \in Captures |-> "unfed"]
  /\ proposals = {} /\ obs = {} /\ claims = {}
  /\ disp = [c \in Captures |-> "none"]
  /\ day = 0 /\ billed = 0
  /\ run = [r \in Runners |-> Idle]
  /\ faults = 0

At(r, pc) == run[r].pc = pc
Put(r, rec) == run' = [run EXCEPT ![r] = rec]
Goto(r, pc) == Put(r, [run[r] EXCEPT !.pc = pc])
Fault == faults < MaxFaults /\ faults' = faults + 1
\* A fault with f, none without.
Costs(f) == IF f THEN Fault ELSE UNCHANGED faults

\* The row a runner works on, a singleton.
Row(r) == CHOOSE c \in run[r].row : TRUE

-----------------------------------------------------------------------------
(* The feed *)

\* captureHook commits the event first and inserts the feed row afterwards, outside the
\* transaction; after a crash in between it is the operator's backfill that does.  A row
\* the front drops is inserted as skipped.
Dropped(c) == Text[c] \in {"empty", "noise"}

FeedInsert(c) ==
  /\ feed[c] = "unfed"
  /\ feed' = [feed EXCEPT ![c] = IF Dropped(c) THEN "skipped" ELSE "pending"]
  /\ UNCHANGED <<proposals, disp, obs, claims, spendVars, run, faults>>

\* lease_expires_at passes.  A run that passes over a row it has seen before comes back
\* to claim at once, well within the 120 seconds of the lease it has just given the row.
LeaseRunsOut(c) ==
  /\ feed[c] = "leased"
  /\ \A r \in Runners : ~(At(r, "claim") /\ c \in run[r].seen)
  /\ feed' = [feed EXCEPT ![c] = "expired"]
  /\ UNCHANGED <<proposals, disp, obs, claims, spendVars, run, faults>>

\* skip-ineligible, which every run and flush begins with.
SkipIneligible ==
  /\ \E c \in Ineligible : feed[c] \in {"pending", "leased", "expired"}
  /\ feed' = [c \in Captures |->
       IF c \in Ineligible /\ feed[c] \in {"pending", "leased", "expired"}
         THEN "skipped" ELSE feed[c]]
  /\ UNCHANGED <<proposals, disp, obs, claims, spendVars, run, faults>>

\* Mutant: a lease that ran out is not taken over.
ClaimableOnlyPending(c) == feed[c] = "pending"

Claimable(c) == feed[c] \in {"pending", "expired"}
\* finishAgenticCaptureFeed and requeueAgenticCaptureFeed go by id and state; the
\* lease is not compared.
Finishable(c) == feed[c] \in {"pending", "leased", "expired"}

\* Mutant: the row is requeued whatever its state.
RequeueableAlways(c) == TRUE

Requeueable(c) == feed[c] \in {"leased", "expired"}

Finished(c, state) == IF Finishable(c) THEN [feed EXCEPT ![c] = state] ELSE feed
Requeued(c) == IF Requeueable(c) THEN [feed EXCEPT ![c] = "pending"] ELSE feed

-----------------------------------------------------------------------------
(* processAgenticOnce: begin, claim, open, call Flash *)

\* The text is read and admitted; text that cannot be read is taken for empty.
Admitted(c) == c \notin Unreadable /\ ~Dropped(c)

\* Admitted text is packed, which fails closed on what the redaction refuses.
Packed(c) == Admitted(c) /\ c \notin Unpackable

\* triageFake and extractFake.  The local triage knows fewer words than
\* hasLoadBearingDecisionSignal: load-bearing text may be dropped by it.
FoundLocally(c) == IF c \in LocallyKept THEN Local[c] ELSE <<>>

\* Without the network, or over the day's cap, the local pipeline decides at once.
Opened(rec, c) ==
  LET found == IF Packed(c) /\ ~rec.net THEN FoundLocally(c) ELSE <<>>
  IN [rec EXCEPT !.rows = @ \ {c}, !.seen = @ \cup {c}, !.row = {c}, !.cands = found,
        !.pc = IF Packed(c) /\ rec.net THEN "triage"
               ELSE IF found = <<>> THEN "skip" ELSE "recent"]

\* On to one of the claimed rows, or to the next claim.
Onward(r, rec) ==
  IF rec.rows = {} THEN Put(r, [rec EXCEPT !.pc = "claim"])
                   ELSE \E c \in rec.rows : Put(r, Opened(rec, c))

\* The day's cap is looked at once, before the first row.
Start(r) ==
  /\ At(r, "idle")
  /\ \E net \in Networks, mat \in Materialises :
       Put(r, [Idle EXCEPT !.pc = "claim", !.net = net /\ day < DayCalls,
                           !.mat = mat, !.useful = Limit])
  /\ UNCHANGED <<dbVars, spendVars, faults>>

\* The rows of one claim all get the same lease, as many as the run may still process.
\* Rows this run has seen before are passed over, and stay leased.
Due == {c \in Captures : Claimable(c)}

Batches(n) == kSubset(IF Cardinality(Due) < n THEN Cardinality(Due) ELSE n, Due)

Claim(r) ==
  /\ At(r, "claim")
  /\ IF run[r].useful = 0 \/ Due = {}
       THEN /\ Put(r, [Idle EXCEPT !.calls = run[r].calls,
                          !.pc = IF run[r].mat THEN "drain" ELSE "bill"])
            /\ UNCHANGED feed
       ELSE \E cs \in Batches(run[r].useful) :
              /\ feed' = [c \in Captures |-> IF c \in cs THEN "leased" ELSE feed[c]]
              /\ Onward(r, [run[r] EXCEPT !.rows = cs \ run[r].seen])
  /\ UNCHANGED <<proposals, disp, obs, claims, spendVars, faults>>

\* A call either answers, which is billed and counted, or fails; over the run's cap
\* it fails without being made.
Answer(r, more) ==
  /\ run[r].calls < RunCalls
  /\ billed' = billed + 1
  /\ Put(r, [more EXCEPT !.calls = run[r].calls + 1])
  /\ UNCHANGED faults

NoAnswer(r, more) ==
  /\ Costs(run[r].calls < RunCalls)
  /\ Put(r, more)
  /\ UNCHANGED billed

\* Mutant: no local override of what Flash says.
KeptByFlash(c, answer) == answer = "keep"

\* runTriageStage with Flash's text: load-bearing text is kept whatever Flash says,
\* other text is kept only if Flash keeps it, and not extracted without an answer.
Kept(c, answer) == answer = "keep" \/ Text[c] = "strong"

\* Failures that are worth a retry, and failures that are not (http_error).
Triage(r) ==
  /\ At(r, "triage")
  /\ LET c == Row(r) IN
     \/ \E a \in {"keep", "drop", "need_context", "garbled"} :
          Answer(r, [run[r] EXCEPT !.triaged = "text",
                       !.pc = IF Kept(c, a) THEN "extract" ELSE "skip"])
     \/ \E f \in {"transient", "refused"} :
          /\ run[r].calls >= RunCalls => f = "transient"
          /\ NoAnswer(r, [run[r] EXCEPT !.triaged = f,
                 !.pc = IF Kept(c, "missing") THEN "extract"
                        ELSE IF f = "transient" THEN "requeue" ELSE "skip"])
  /\ UNCHANGED <<dbVars, day>>

\* hasExtractFallbackSignal
Fallback(c) == IF c \in Citable THEN Local[c] ELSE <<>>

\* runExtractStage: without a usable answer the local extractor steps in, if there is
\* text to cite.  Only when neither call gave text and one failed in passing is the row
\* retried.
Extracted(r, cands) ==
  [run[r] EXCEPT !.cands = cands, !.triaged = "none",
                 !.pc = IF cands = <<>> THEN "skip" ELSE "recent"]

Extract(r) ==
  /\ At(r, "extract")
  /\ LET c == Row(r) IN
     \/ \E cands \in Extractions[c] \cup {Fallback(c)} : Answer(r, Extracted(r, cands))
     \/ \E f \in {"transient", "refused"} :
          /\ run[r].calls >= RunCalls => f = "transient"
          /\ NoAnswer(r,
               IF run[r].triaged # "text" /\ "transient" \in {f, run[r].triaged}
                 THEN [run[r] EXCEPT !.pc = "requeue"]
                 ELSE Extracted(r, Fallback(c)))
  /\ UNCHANGED <<dbVars, day>>

-----------------------------------------------------------------------------
(* runAgenticProposalPipeline: the gate, duplicates, and the proposal rows *)

RowOf(id) == CHOOSE p \in proposals : p.id = id
Stored(id) == \E p \in proposals : p.id = id

\* The statements of recent promotes are read once, before the first candidate.
ReadRecent(r) ==
  /\ At(r, "recent")
  /\ Put(r, [run[r] EXCEPT !.pc = "put", !.todo = <<>>,
               !.known = {p.id.cand.statement : p \in {q \in proposals : q.gate = "promote"}}])
  /\ UNCHANGED <<dbVars, spendVars, faults>>

Here(r) == run[r].cands[run[r].at]
IdHere(r) == [source |-> Row(r), cand |-> Here(r), ord |-> run[r].at]
\* A statement promotes once per pack, and not again while it is among the recent ones.
GateHere(r) ==
  IF Here(r).gate = "promote" /\ Here(r).statement \in run[r].known THEN "hold" ELSE Here(r).gate

\* Mutant: the runner goes on with its own gate decision instead of the stored row.
AdvancedOwnGate(r, snap) ==
  LET more == [run[r] EXCEPT !.todo = Append(@, [snap EXCEPT !.gate = GateHere(r)])] IN
  IF run[r].at < Len(run[r].cands)
    THEN [more EXCEPT !.pc = "put", !.at = @ + 1,
            !.known = @ \cup (IF GateHere(r) = "promote" THEN {Here(r).statement} ELSE {})]
    ELSE [more EXCEPT !.pc = IF run[r].mat THEN "dispose" ELSE "finish",
            !.at = 1, !.cands = <<>>, !.known = {}]

\* On to the next candidate with what putAgenticProposal returned, or out of the pipeline.
Advanced(r, snap) ==
  LET more == [run[r] EXCEPT !.todo = Append(@, snap)] IN
  IF run[r].at < Len(run[r].cands)
    THEN [more EXCEPT !.pc = "put", !.at = @ + 1,
            !.known = @ \cup (IF GateHere(r) = "promote" THEN {Here(r).statement} ELSE {})]
    ELSE [more EXCEPT !.pc = IF run[r].mat THEN "dispose" ELSE "finish",
            !.at = 1, !.cands = <<>>, !.known = {}]

\* putAgenticProposal returns the stored row of the id, or inserts one.
PutRead(r) ==
  /\ At(r, "put")
  /\ IF Stored(IdHere(r)) THEN Put(r, Advanced(r, RowOf(IdHere(r)))) ELSE Goto(r, "insert")
  /\ UNCHANGED <<dbVars, spendVars, faults>>

\* The primary key refuses a second insert; nothing catches that, and the run ends.
PutInsert(r) ==
  /\ At(r, "insert")
  /\ LET new == [id |-> IdHere(r), gate |-> GateHere(r), marked |-> FALSE] IN
     IF Stored(new.id)
       THEN Put(r, Idle) /\ UNCHANGED proposals
       ELSE Put(r, Advanced(r, new)) /\ proposals' = proposals \cup {new}
  /\ UNCHANGED <<feed, disp, obs, claims, spendVars, faults>>

-----------------------------------------------------------------------------
(* The row's end: requeue, skip, or materialise and finish *)

\* One row less; the scan goes on with the rest of the claim.
RowDone(r, useful) ==
  Onward(r, [run[r] EXCEPT !.useful = useful, !.row = {}, !.todo = <<>>, !.triaged = "none"])

Requeue(r) ==
  /\ At(r, "requeue")
  /\ feed' = Requeued(Row(r))
  /\ RowDone(r, run[r].useful - 1)
  /\ UNCHANGED <<proposals, disp, obs, claims, spendVars, faults>>

\* Rows with an empty signal do not count as useful ones.
Skip(r) ==
  /\ At(r, "skip")
  /\ feed' = Finished(Row(r), "skipped")
  /\ RowDone(r, IF Admitted(Row(r)) THEN run[r].useful - 1 ELSE run[r].useful)
  /\ UNCHANGED <<proposals, disp, obs, claims, spendVars, faults>>

Finish(r) ==
  /\ At(r, "finish")
  /\ feed' = Finished(Row(r), "done")
  /\ RowDone(r, run[r].useful - 1)
  /\ UNCHANGED <<proposals, disp, obs, claims, spendVars, faults>>

-----------------------------------------------------------------------------
(* materializeAgenticProposal *)

Now(r) == Head(run[r].todo)
\* materializeTargetsForKind
Observes(p) == p.id.cand.kind # "fact_candidate"
Drafts(p) == p.id.cand.kind \in {"fact_candidate", "decision"}

\* The next proposal, or the end of the row or of the drain.
Popped(r) ==
  [run[r] EXCEPT !.todo = Tail(@), !.why = "none",
     !.pc = IF Len(run[r].todo) > 1 THEN "dispose"
            ELSE IF run[r].draining THEN "bill" ELSE "finish"]

Caught(r, why) == Put(r, [run[r] EXCEPT !.pc = "caught", !.why = why])

\* recordKnowledgeDisposition: one row per capture and policy, the first one stays.
\* A rejected proposal gets nothing else, a marked one is done already.
Dispose(r) ==
  /\ At(r, "dispose")
  /\ LET p == Now(r) c == p.id.source IN
     IF p.marked
       THEN Put(r, Popped(r)) /\ UNCHANGED disp
       ELSE /\ disp' = IF disp[c] = "none" THEN [disp EXCEPT ![c] = p.gate] ELSE disp
            /\ IF p.gate = "reject" THEN Put(r, Popped(r))
               ELSE Goto(r, IF Observes(p) THEN "observe" ELSE "draft")
  /\ UNCHANGED <<feed, proposals, obs, claims, spendVars, faults>>

\* The fingerprint of a proposed Observation or Claim covers its valid time, which is
\* the clock's unless given: the same proposal fingerprints alike only within one
\* instant, and otherwise conflicts with what is stored under its key.
SameInstant(r) == \E q \in Runners \ {r} : run[q].todo # <<>> /\ Now(q).id = Now(r).id

Again(r, next) ==
  \/ SameInstant(r) /\ Goto(r, next)
  \/ Caught(r, "conflict")

\* proposeObservationDraft: active for a promote, draft for a hold.
AfterObserve(p) == IF Drafts(p) THEN "draft" ELSE "mark"

Observe(r) ==
  /\ At(r, "observe")
  /\ LET p == Now(r) IN
     IF \E o \in obs : o.id = p.id
       THEN Again(r, AfterObserve(p)) /\ UNCHANGED obs
       ELSE /\ obs' = obs \cup
                 {[id |-> p.id, lifecycle |-> IF p.gate = "promote" THEN "active" ELSE "draft"]}
            /\ Goto(r, AfterObserve(p))
  /\ UNCHANGED <<feed, proposals, disp, claims, spendVars, faults>>

\* proposeClaimDraft
Draft(r) ==
  /\ At(r, "draft")
  /\ LET p == Now(r) IN
     IF p.id \in claims
       THEN Again(r, "mark") /\ UNCHANGED claims
       ELSE claims' = claims \cup {p.id} /\ Goto(r, "mark")
  /\ UNCHANGED <<feed, proposals, disp, obs, spendVars, faults>>

\* The store can throw in any of the three writes; the catch block reports it.
StoreThrows(r) ==
  /\ run[r].pc \in {"dispose", "observe", "draft"}
  /\ ~Now(r).marked
  /\ Fault
  /\ Caught(r, "store")
  /\ UNCHANGED <<dbVars, spendVars>>

\* Back in the caller, which ignores the failure.
GiveUp(r) ==
  /\ At(r, "caught")
  /\ Put(r, Popped(r))
  /\ UNCHANGED <<dbVars, spendVars, faults>>

\* markProposalMaterialized, in the other database.
Marked(id) == {IF p.id = id THEN [p EXCEPT !.marked = TRUE] ELSE p : p \in proposals}

Mark(r) ==
  /\ At(r, "mark")
  /\ proposals' = Marked(Now(r).id)
  /\ Put(r, Popped(r))
  /\ UNCHANGED <<feed, disp, obs, claims, spendVars, faults>>

-----------------------------------------------------------------------------
(* The end of a run: the backlog of promotes, and the day's spend *)

Backlog == {p \in proposals : p.gate = "promote" /\ ~p.marked}

Drain(r) ==
  /\ At(r, "drain")
  /\ Put(r, [run[r] EXCEPT !.todo = SetToSeq(Backlog), !.draining = TRUE,
               !.pc = IF Backlog = {} THEN "bill" ELSE "dispose"])
  /\ UNCHANGED <<dbVars, spendVars, faults>>

\* addDaySpend reads the row and writes the sum, in two statements.
Bill(r) ==
  /\ At(r, "bill")
  /\ IF run[r].calls = 0 THEN Put(r, Idle)
     ELSE Put(r, [run[r] EXCEPT !.pc = "persist", !.prev = day])
  /\ UNCHANGED <<dbVars, spendVars, faults>>

\* Mutant: the run's spend starts at the day's and is added to it.
DayTotalSeeded(prev, calls) == prev + (prev + calls)

DayTotal(prev, calls) == prev + calls

Persist(r) ==
  /\ At(r, "persist")
  /\ day' = DayTotal(run[r].prev, run[r].calls)
  /\ Put(r, Idle)
  /\ UNCHANGED <<dbVars, billed, faults>>

\* The process dies, or the laptop sleeps for good.
Crash(r) ==
  /\ ~At(r, "idle")
  /\ Fault
  /\ Put(r, Idle)
  /\ UNCHANGED <<dbVars, spendVars>>

-----------------------------------------------------------------------------
Materialise(r) == Dispose(r) \/ Observe(r) \/ Draft(r) \/ GiveUp(r) \/ Mark(r)
Propose(r) == ReadRecent(r) \/ PutRead(r) \/ PutInsert(r)
CallFlash(r) == Triage(r) \/ Extract(r)
EndRow(r) == Requeue(r) \/ Skip(r) \/ Finish(r)
EndRun(r) == Drain(r) \/ Bill(r) \/ Persist(r)

RunStep(r) == Start(r) \/ Claim(r) \/ CallFlash(r) \/ Propose(r)
                \/ Materialise(r) \/ EndRow(r) \/ EndRun(r)

AgenticNext ==
  \/ \E c \in Captures : FeedInsert(c) \/ LeaseRunsOut(c)
  \/ SkipIneligible
  \/ \E r \in Runners : RunStep(r) \/ StoreThrows(r) \/ Crash(r)

AgenticSpec == AgenticInit /\ [][AgenticNext]_agenticVars

\* Timers keep starting runs, a started run goes on, and time passes; captures,
\* backfills, crashes and faults need not happen.
FairAgenticSpec ==
  /\ AgenticSpec
  /\ \A r \in Runners : WF_agenticVars(RunStep(r))
  /\ \A c \in Captures : WF_agenticVars(LeaseRunsOut(c))

-----------------------------------------------------------------------------
(* Properties *)

RunType ==
  [pc : Pcs, net : BOOLEAN, mat : BOOLEAN, rows : SUBSET Captures, seen : SUBSET Captures,
   useful : 0..Limit, calls : 0..RunCalls, row : SUBSET Captures,
   triaged : {"none", "text", "transient", "refused"}, cands : Seq(Candidate), at : Nat,
   known : SUBSET Statements, todo : Seq(Snapshot), draining : BOOLEAN,
   why : {"none", "conflict", "store"}, prev : Nat]

\* Every table and every run keeps its shape.
AgenticTypeOK ==
  /\ feed \in [Captures -> FeedStates]
  /\ proposals \subseteq Snapshot
  /\ disp \in [Captures -> {"none"} \cup Gates]
  /\ obs \subseteq [id : Ids, lifecycle : {"active", "draft"}]
  /\ claims \subseteq Ids
  /\ day \in Nat /\ billed \in Nat /\ faults \in 0..MaxFaults
  /\ run \in [Runners -> RunType]

\* What the store holds of a proposal is what the table says.  An Observation is active
\* exactly if the stored proposal was promoted, one per proposal, although a second runner
\* may gate the same candidate differently (its statement is among the recent ones by
\* then) and materialises what the table returns.  And a proposal is marked only after the
\* store holds everything it stands for: no crash, throwing store or second runner leaves
\* a mark without its Observation and its draft Claim.
ObservedAsGated ==
  /\ \A o \in obs :
       /\ \E p \in proposals : p.id = o.id /\ (o.lifecycle = "active" <=> p.gate = "promote")
       /\ \A q \in obs : q.id = o.id => q = o
  /\ \A p \in proposals : p.marked =>
       /\ Observes(p) => \E o \in obs : o.id = p.id
       /\ Drafts(p) => p.id \in claims

\* A feed row that is done or skipped stays that way: a runner whose lease ran out
\* finishes or requeues by id, after another one has finished the row.
FeedOutcomeFinal ==
  [][\A c \in Captures : feed[c] \in {"done", "skipped"} => feed'[c] = feed[c]]_agenticVars

\* What the pipeline may make of a capture, asking Flash or not.
Extracts(c, net) == IF net THEN Extractions[c] \cup {Fallback(c)} ELSE {FoundLocally(c)}

\* A capture with load-bearing text that the feed policy admits, and that can be read and
\* packed, is given up for good only by a run whose extraction may come up empty.  A run
\* that asks Flash never gives it up for Flash's triage verdict, nor for calls that fail:
\* what failed in passing is requeued, anything else falls back to the local extractor.
\* A run that does not ask, offline or because concurrent runs have used up the day's
\* calls, gives up what the narrower local triage drops, and nobody asks Flash later.
StrongSkippedEmptyHanded ==
  [][\A c \in Captures \ (Ineligible \cup Unreadable \cup Unpackable) :
       Text[c] = "strong" /\ feed[c] # "skipped" /\ feed'[c] = "skipped" =>
         \E r \in Runners : At(r, "skip") /\ run[r].row = {c} /\ <<>> \in Extracts(c, run[r].net)
    ]_agenticVars

\* The day's count never exceeds what Flash has billed: runs that share it add what
\* they used themselves, once.
DayWithinBilled == day <= billed

Observed(p) == \E o \in obs : o.id = p.id /\ o.lifecycle = "active"

\* Timers work the feed off: again and again no row waits for a run or holds a lease.  And
\* a promoted candidate gets its active Observation in the end, from the run that proposed
\* it or from a later run's backlog, whatever fails in between.
FeedDrains ==
  /\ []<>(\A c \in Captures : feed[c] \in {"unfed", "done", "skipped"})
  /\ []<>(\A p \in proposals : p.gate = "promote" => Observed(p))

\* "effects once" (ADR 0017 D8, jobs.ts:384): materialising again a proposal whose
\* Observation or Claim is stored, after a crash or by a second runner, replays it.
RetryReplays == \A r \in Runners : run[r].why # "conflict"
=============================================================================
