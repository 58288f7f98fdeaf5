----------------------------- MODULE MCEvaluation -----------------------------
(***************************************************************************)
(* The Worker, and the release scripts that judge the commit it would be   *)
(* deployed from, side by side for TLC: each behaviour runs one of them,   *)
(* and the others stand still.                                             *)
(***************************************************************************)
EXTENDS MCSyncWorker, CandidateEvaluation

CONSTANTS a1, a2, a3, v1, v2

VARIABLE machine  \* the operation this behaviour is about

\* What the base's jobs hand over for a commit when nothing is wrong, and with one thing wrong.
Sound(c) ==
  [commit |-> c, report |-> c, protocol |-> [p \in ProtocolPredicates |-> c], credentials |-> FALSE]
MCInputs ==
  {Sound(c) : c \in Commits} \union
  {[Sound(a1) EXCEPT !.report = Forged], [Sound(a1) EXCEPT !.report = a2],
   [Sound(a1) EXCEPT !.protocol = Nothing], [Sound(a1) EXCEPT !.credentials = TRUE],
   [Sound(a1) EXCEPT !.protocol["exact_c_api"] = a2],
   [Sound(a1) EXCEPT !.protocol["six_command_loop"] = Forged]}

otherThanWorker == <<machine, evaluationVars>>
otherThanEvaluation == <<machine, workerVars>>
judgedVars == <<machine, workerVars, evaluationVars>>

JudgedInit ==
  /\ machine \in {"worker", "replay", "judges"}
  /\ WorkerInit /\ EvaluationInit
  /\ receipt[v2] = Nothing /\ checkout[v2] = a2
  /\ machine = "judges" \/ (receipt[v1] = Nothing /\ intentFile = Nothing /\ checkout[v1] = a1)
  /\ machine # "worker" \/ store = Seeded

\* One evaluator with sound evidence; the store changes while it works on it.
ReplayNext ==
  \/ SandboxProbe(v1, a1) \/ SealReceipt(v1, a1)
  \/ StartEvaluation(v1, Sound(a1)) \/ EvaluatorWorks(v1)
  \/ evaluation[v1].at \in UsesStore /\ OtherCommits

\* Two evaluators of one home, the second with sound evidence of one commit; only they
\* write to the store.
JudgesNext ==
  /\ EvaluationNext
  /\ store' # store => \E e \in Evaluators : evaluation[e].at = "insert" /\ evaluation'[e].at = "inserted"
  /\ sandboxProbe'[v2] \in {Nothing, a2} /\ checkout'[v2] = a2
  /\ evaluation'[v2].input \in {Nothing, Sound(a2)}

JudgedNext ==
  \/ machine = "worker" /\ WorkerNext /\ UNCHANGED otherThanWorker
  \/ machine = "replay" /\ ReplayNext /\ UNCHANGED otherThanEvaluation
  \/ machine = "judges" /\ JudgesNext /\ UNCHANGED otherThanEvaluation
  \/ machine # "worker" /\ UNCHANGED judgedVars

JudgedSpec == JudgedInit /\ [][JudgedNext]_judgedVars
=============================================================================
