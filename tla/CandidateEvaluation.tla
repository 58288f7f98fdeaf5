------------------------ MODULE CandidateEvaluation ------------------------
(***************************************************************************)
(* The release scripts that judge a candidate commit C: a sandbox job      *)
(* leaves a receipt, an evaluator binds everything to C, classifies it     *)
(* once per runtime home, seeds the fixture, replays a read-only command   *)
(* twice between three observations of the store, and writes one verdict,  *)
(* which the publisher consumes as data.                                   *)
(*                                                                         *)
(* A commit, its tree and the documents that name it are one value; a      *)
(* document is the candidate it names, or Forged when a field or its       *)
(* digest does not fit.  Evaluators may share a home, which any process    *)
(* may write to while they work.                                           *)
(***************************************************************************)
EXTENDS Naturals, Sequences, SequencesExt

CONSTANTS
  Evaluators,
  Commits,     \* the candidate commits
  Surface,     \* the commits whose change from the base touches candidate paths
  Inputs,      \* what a job may hand to an evaluator, in InputSpace
  Nothing,        \* nothing there
  Forged,      \* a document that does not fit its digest, or a file cut in its write
  MaxCommits,  \* commits to the store there may be before another process stops writing
  MaxMoves     \* times a checkout may be moved

VARIABLES
  checkout,    \* [evaluator -> the commit its candidate checkout stands at]
  sandboxProbe, \* [evaluator -> what was measured in its sandbox: Nothing or of a commit]
  receipt,     \* [evaluator -> the receipt that seals it: Nothing, Forged, or of a commit]
  intentFile,  \* candidate-intent.json of the home: Nothing, Forged, or a commit
  store,       \* [table -> its content]
  dataVersion, \* commits to the store so far
  moves,       \* checkouts moved so far
  evaluation,  \* [evaluator -> how far it is]
  verdictFile, \* the result: Nothing or the commit it finds trusted
  publication  \* what the publisher consumed: Nothing or a commit

evaluationVars == <<checkout, sandboxProbe, receipt, intentFile, store, dataVersion, moves,
                    evaluation, verdictFile, publication>>
outsideVars == <<checkout, sandboxProbe, receipt, moves, publication>>

-----------------------------------------------------------------------------
(* What is compared. *)

\* The tables of the zero-write probe, in the order they are read (the four that stay
\* empty are one), and the one that is seeded with them and not probed.
Probed == <<"events", "reviews">>
Tables == ToSet(Probed) \union {"values"}

\* Contents: no row; the fixture's; the fixture's with a changed column; one row more.
Contents(table) ==
  IF table = "reviews" THEN {"none", "grown"} ELSE {"none", "seed", "edited", "grown"}

\* The fixture, whose file's digest is frozen.
Seeded == [table \in Tables |-> IF table = "reviews" THEN "none" ELSE "seed"]

RowCount(content) == CASE content = "none" -> 0 [] content = "grown" -> 2 [] OTHER -> 1

\* Counts and greatest ids; the changed columns of a row do not show in them.
HighWater(tables) == [i \in DOMAIN Probed |-> RowCount(tables[Probed[i]])]

\* What the receipts of the base's own modules were taken of, by the predicate they are for.
ApiPredicates == {"exact_c_api", "duplicate_refusal", "lost_response_reconciliation"}
ProtocolPredicates == ApiPredicates \union {"migration_read_oracle", "six_command_loop", "negative_cases"}

InputSpace ==
  [commit : Commits, report : Commits \union {Forged},
   protocol : {Nothing} \union [ProtocolPredicates -> Commits \union {Forged}],
   credentials : BOOLEAN]

ASSUME EvaluationAssumption ==
  /\ Nothing \notin Commits /\ Forged \notin Commits /\ Nothing # Forged
  /\ Inputs \subseteq InputSpace

OracleReady(protocol) == protocol["migration_read_oracle"] # Forged
LoopComplete(protocol) == protocol["six_command_loop"] # Forged
ApiVerified(protocol, c) == \A p \in ApiPredicates : protocol[p] = c
NegativesRefuse(protocol, c) == protocol["negative_cases"] = c

\* buildBaseOwnedProtocolEvidence.  The receipts of the API carry the identity of a
\* commit; the oracle's and the loop's carry none and are stamped with C's.
ProtocolHolds(protocol, c) ==
  /\ protocol # Nothing
  /\ OracleReady(protocol) /\ LoopComplete(protocol)
  /\ ApiVerified(protocol, c) /\ NegativesRefuse(protocol, c)

\* What an observation finds: the rows of each table, the high water, the data version.
Observed == Len(Probed) + 2
Finds(i) ==
  CASE i <= Len(Probed) -> store[Probed[i]]
    [] i = Len(Probed) + 1 -> HighWater(store)
    [] OTHER -> dataVersion

\* A bug: the data version is not compared.
UnmovedRows(before, later) == SubSeq(before, 1, Observed - 1) = SubSeq(later, 1, Observed - 1)

\* mutationProbeBetween: every row, every count and the data version are as they were.
Unmoved(before, later) == before = later

\* The plan that C's command prints must have the fixture's high water and no entry, which
\* an event with a changed column may give it or not.
PlanMayFit(tables) == HighWater(tables) = HighWater(Seeded)
PlanMustFit(tables) == PlanMayFit(tables) /\ tables["events"] = "seed"

HoldsSeed == store = Seeded

-----------------------------------------------------------------------------
(* The job that measures the sandbox. *)

Fresh == [at |-> "idle", input |-> Nothing, before |-> <<>>, between |-> <<>>, after |-> <<>>,
          ran |-> <<>>]

EvaluationInit ==
  /\ checkout \in [Evaluators -> Commits]
  /\ sandboxProbe = [e \in Evaluators |-> Nothing]
  /\ receipt \in [Evaluators -> {Nothing, Forged}]
  /\ intentFile \in {Nothing, Forged}
  /\ store \in {[table \in Tables |-> "none"], Seeded}
  /\ dataVersion = 0 /\ moves = 0
  /\ evaluation = [e \in Evaluators |-> Fresh]
  /\ verdictFile = Nothing /\ publication = Nothing

\* Measured from inside, for the commit it is told; where a control is not observed it
\* throws and writes nothing.
SandboxProbe(e, c) ==
  /\ sandboxProbe[e] = Nothing
  /\ sandboxProbe' = [sandboxProbe EXCEPT ![e] = c]
  /\ UNCHANGED <<checkout, receipt, intentFile, store, dataVersion, moves, evaluation, verdictFile, publication>>

ProbeBinds(e, c) == sandboxProbe[e] = c

SealReceipt(e, c) ==
  /\ receipt[e] = Nothing /\ ProbeBinds(e, c)
  /\ receipt' = [receipt EXCEPT ![e] = c]
  /\ UNCHANGED <<checkout, sandboxProbe, intentFile, store, dataVersion, moves, evaluation, verdictFile, publication>>

-----------------------------------------------------------------------------
(* The steps of an evaluator, in the order of                              *)
(* evaluateRawCandidateFromBaseOwnedEvidence.                              *)

C(e) == evaluation[e].input.commit
Stands(e, stage) == evaluation[e].at = stage
Goes(e, stage) == evaluation' = [evaluation EXCEPT ![e].at = stage]
GoesIf(e, passes, stage) == Goes(e, IF passes THEN stage ELSE "refused")

\* The provider is asked before anything else; the one there is by default has no
\* receipts and always throws.
StartEvaluation(e, input) ==
  /\ Stands(e, "idle")
  /\ evaluation' = [evaluation EXCEPT ![e].input = input,
       ![e].at = IF ProtocolHolds(input.protocol, input.commit) THEN "bind" ELSE "refused"]
  /\ UNCHANGED <<outsideVars, intentFile, store, dataVersion, verdictFile>>

\* A report that names C may still tell of another replay.
ReportBinds(e) == evaluation[e].input.report \in {C(e), Forged}
RootsBound(e) == checkout[e] = C(e)
ReceiptBinds(e) == receipt[e] = C(e)
Unprivileged(e) == ~evaluation[e].input.credentials

BindEvaluation(e) ==
  /\ Stands(e, "bind")
  /\ GoesIf(e, ReportBinds(e) /\ RootsBound(e) /\ ReceiptBinds(e) /\ Unprivileged(e), "look")
  /\ UNCHANGED <<outsideVars, intentFile, store, dataVersion, verdictFile>>

\* The envelope that is written, and the one that may be there: it is of C and its tree.
Intent(e) == C(e)
SameIntent(e) == intentFile = Intent(e)

\* classifyImmutableCandidateScope: a commit that touches no candidate path is refused,
\* but not before its intent is on file.
Classified(e) == C(e) \in Surface

LookIntent(e) ==
  /\ Stands(e, "look")
  /\ IF checkout[e] = C(e) /\ intentFile = Nothing
     THEN Goes(e, "create")
     ELSE GoesIf(e, checkout[e] = C(e) /\ SameIntent(e) /\ Classified(e), "seed")
  /\ UNCHANGED <<outsideVars, intentFile, store, dataVersion, verdictFile>>

\* The file is created exclusively, and is empty until it is filled; one that has
\* appeared since is read in its place.
CreateIntent(e) ==
  /\ Stands(e, "create")
  /\ IF intentFile = Nothing
     THEN intentFile' = Forged /\ Goes(e, "fill")
     ELSE GoesIf(e, SameIntent(e) /\ Classified(e), "seed") /\ UNCHANGED intentFile
  /\ UNCHANGED <<outsideVars, store, dataVersion, verdictFile>>

FillIntent(e) ==
  /\ Stands(e, "fill")
  /\ intentFile' = Intent(e)
  /\ GoesIf(e, Classified(e), "seed")
  /\ UNCHANGED <<outsideVars, store, dataVersion, verdictFile>>

\* seedDisposableFixture: a store that holds the fixture is taken as it is, an empty one
\* is seeded, any other is refused.
LookSeed(e) ==
  /\ Stands(e, "seed")
  /\ IF \A table \in Tables : store[table] = "none"
     THEN Goes(e, "insert")
     ELSE GoesIf(e, HoldsSeed, "before")
  /\ UNCHANGED <<outsideVars, intentFile, store, dataVersion, verdictFile>>

\* One transaction; the fixture's rows are unique.
InsertSeed(e) ==
  /\ Stands(e, "insert")
  /\ IF store["values"] = "none" /\ store["events"] \in {"none", "grown"}
     THEN /\ store' = [store EXCEPT !["values"] = "seed",
                         !["events"] = IF @ = "none" THEN "seed" ELSE "grown"]
          /\ dataVersion' = dataVersion + 1
          /\ Goes(e, "inserted")
     ELSE Goes(e, "refused") /\ UNCHANGED <<store, dataVersion>>
  /\ UNCHANGED <<outsideVars, intentFile, verdictFile>>

CheckSeed(e) ==
  /\ Stands(e, "inserted")
  /\ GoesIf(e, HoldsSeed, "before")
  /\ UNCHANGED <<outsideVars, intentFile, store, dataVersion, verdictFile>>

AfterObservation == [before |-> "runA", between |-> "runB", after |-> "probe"]

\* readStoreObservation: one statement after the other, with no transaction around them.
Observe(e) ==
  \E phase \in DOMAIN AfterObservation :
    /\ Stands(e, phase)
    /\ LET found == Append(evaluation[e][phase], Finds(Len(evaluation[e][phase]) + 1))
       IN evaluation' = [evaluation EXCEPT ![e][phase] = found,
            ![e].at = IF Len(found) = Observed THEN AfterObservation[phase] ELSE @]
    /\ UNCHANGED <<outsideVars, intentFile, store, dataVersion, verdictFile>>

\* runOnce: the command of C in the sandbox.
Run(e, fits) ==
  /\ evaluation[e].at \in {"runA", "runB"}
  /\ IF fits THEN PlanMayFit(store) ELSE ~PlanMustFit(store)
  /\ evaluation' = [evaluation EXCEPT ![e].ran = Append(@, [tables |-> store, version |-> dataVersion]),
       ![e].at = IF ~fits THEN "refused" ELSE IF @ = "runA" THEN "between" ELSE "after"]
  /\ UNCHANGED <<outsideVars, intentFile, store, dataVersion, verdictFile>>

\* buildP02Receipt: the runs agree, and the store was not written to around them.
ReplayHolds(e) ==
  /\ Unmoved(evaluation[e].before, evaluation[e].between)
  /\ Unmoved(evaluation[e].before, evaluation[e].after)

ProbeMutation(e) ==
  /\ Stands(e, "probe")
  /\ GoesIf(e, ReplayHolds(e), "judge")
  /\ UNCHANGED <<outsideVars, intentFile, store, dataVersion, verdictFile>>

\* The replay is the one the untrusted report tells of.
ReplayIsReported(e) == evaluation[e].input.report = C(e)

PredicatesHold(e) ==
  ReplayHolds(e) /\ Unprivileged(e) /\ ProtocolHolds(evaluation[e].input.protocol, C(e))

\* Identity, report and observations are of one commit.
Sealed(e) == ReportBinds(e) /\ ReplayIsReported(e)

\* evaluateCandidateEvidence: only what was sealed is attested, and only with every
\* predicate holding.
Attested(e) == Sealed(e) /\ PredicatesHold(e)

\* The intent on file and the checkout are read once more before the evidence is sealed.
Judge(e) ==
  /\ Stands(e, "judge")
  /\ GoesIf(e, SameIntent(e) /\ checkout[e] = C(e) /\ ReplayIsReported(e) /\ Attested(e), "trusted")
  /\ UNCHANGED <<outsideVars, intentFile, store, dataVersion, verdictFile>>

Verdict(e) == C(e)

\* writeEvaluatorResult: a new file, or none.
WriteVerdict(e) ==
  /\ Stands(e, "trusted")
  /\ IF verdictFile = Nothing
     THEN verdictFile' = Verdict(e) /\ Goes(e, "written")
     ELSE Goes(e, "unwritten") /\ UNCHANGED verdictFile
  /\ UNCHANGED <<outsideVars, intentFile, store, dataVersion>>

\* The verdict is of the commit whose run triggered the publisher.
PublisherInput(c) == verdictFile = c

\* Nothing leaves the machine; the attestation is consumed as data.
Publish(c) ==
  /\ PublisherInput(c) /\ publication = Nothing
  /\ publication' = c
  /\ UNCHANGED <<checkout, sandboxProbe, receipt, intentFile, store, dataVersion, moves, evaluation, verdictFile>>

-----------------------------------------------------------------------------
(* The others. *)

\* Another process commits a change to the home's store, or takes one back.
OtherCommits ==
  /\ dataVersion < MaxCommits
  /\ \E table \in Tables : \E content \in Contents(table) \ {store[table]} :
       store' = [store EXCEPT ![table] = content]
  /\ dataVersion' = dataVersion + 1
  /\ UNCHANGED <<outsideVars, intentFile, evaluation, verdictFile>>

CheckoutMoves(e) ==
  /\ moves < MaxMoves
  /\ moves' = moves + 1
  /\ \E c \in Commits \ {checkout[e]} : checkout' = [checkout EXCEPT ![e] = c]
  /\ UNCHANGED <<sandboxProbe, receipt, intentFile, store, dataVersion, evaluation, verdictFile, publication>>

UsesStore == {"seed", "insert", "inserted", "before", "runA", "between", "runB", "after", "probe"}

EvaluatorWorks(e) ==
  \/ BindEvaluation(e) \/ LookIntent(e) \/ CreateIntent(e) \/ FillIntent(e)
  \/ LookSeed(e) \/ InsertSeed(e) \/ CheckSeed(e)
  \/ Observe(e) \/ (\E fits \in BOOLEAN : Run(e, fits)) \/ ProbeMutation(e) \/ Judge(e) \/ WriteVerdict(e)

EvaluatorStep(e) == EvaluatorWorks(e) \/ \E input \in Inputs : StartEvaluation(e, input)

EvaluationNext ==
  \/ \E c \in Commits : Publish(c) \/ \E e \in Evaluators : SandboxProbe(e, c) \/ SealReceipt(e, c)
  \/ \E e \in Evaluators : EvaluatorStep(e) \/ CheckoutMoves(e)
  \/ OtherCommits

EvaluationSpec == EvaluationInit /\ [][EvaluationNext]_evaluationVars

-----------------------------------------------------------------------------
(* Properties *)

EvaluationTypeOK ==
  /\ checkout \in [Evaluators -> Commits]
  /\ sandboxProbe \in [Evaluators -> Commits \union {Nothing}]
  /\ receipt \in [Evaluators -> Commits \union {Nothing, Forged}]
  /\ intentFile \in Commits \union {Nothing, Forged}
  /\ {verdictFile, publication} \subseteq Commits \union {Nothing}
  /\ \A table \in Tables : store[table] \in Contents(table)
  /\ dataVersion \in 0..(MaxCommits + 1) /\ moves \in 0..MaxMoves
  /\ \A e \in Evaluators :
       evaluation[e].at \in UsesStore \union
         {"idle", "bind", "look", "create", "fill", "judge", "trusted", "written", "unwritten", "refused"}

Trusted(e) == evaluation[e].at \in {"trusted", "written", "unwritten"}

\* What a trusted verdict stands on.  Both replays ran on one store that nobody had written
\* to in between, also where a write was taken back before anybody looked, or went to a
\* table the observations do not read; and what they ran on is what the first observation
\* found, table by table, while others may have been writing.  And the evaluators of one
\* home never find two candidates trusted, however their looks at the intent file and its
\* creation interleave.
TrustedRanStill ==
  \A e \in Evaluators : Trusted(e) =>
    LET before == evaluation[e].before  ran == evaluation[e].ran
    IN /\ Len(ran) = 2 /\ ran[1] = ran[2]
       /\ before[Observed] = ran[1].version
       /\ \A i \in DOMAIN Probed : before[i] = ran[1].tables[Probed[i]]
       /\ \A d \in Evaluators : Trusted(d) => C(d) = C(e)
=============================================================================
