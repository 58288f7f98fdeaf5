---------------------------- MODULE AgenticJobs ----------------------------
(***************************************************************************)
(* The jobs of agentic.db: processes enqueue the admit job of a capture,   *)
(* lease it by id, work, and complete or fail it; every run first reclaims *)
(* what expired.                                                           *)
(*                                                                         *)
(* Leases and the reclaim are transactions that look at the row again.     *)
(* Enqueue, complete and fail read the row in one statement and upsert a   *)
(* whole row in another, so another process, or the end of the lease, may  *)
(* come between them.  Jobs blocked for the operator and the lease of many *)
(* jobs at once are left out: no caller asks for them.                     *)
(***************************************************************************)
EXTENDS Naturals

CONSTANTS
  Jobs,         \* job ids
  Workers,      \* processes
  MaxAttempts,  \* max_attempts of a job
  MaxGrants     \* bound on the leases granted for a job

ASSUME JobsAssumption == MaxAttempts \in Nat \ {0} /\ MaxGrants \in Nat

\* lease: the number of the grant, 0 for none; due: available_at has passed;
\* expired: lease_expires_at has.
JobRow == [state : {"pending", "leased", "succeeded", "dead"}, attempt : Nat, lease : Nat,
           due : BOOLEAN, expired : BOOLEAN]

VARIABLES
  job,     \* agentic_jobs: [Jobs -> at most one row, as a set]
  worker,  \* [Workers -> what the process is doing, with the row it read]
  grants   \* [Jobs -> leases granted so far]

jobVars == <<job, worker, grants>>

FreshJob == [state |-> "pending", attempt |-> 0, lease |-> 0, due |-> TRUE, expired |-> FALSE]
Resting == [pc |-> "rest", on |-> {}, lease |-> 0, copy |-> FreshJob]

JobsInit ==
  /\ job = [j \in Jobs |-> {}]
  /\ worker = [w \in Workers |-> Resting]
  /\ grants = [j \in Jobs |-> 0]

Works(w, pc, j) == worker[w].pc = pc /\ worker[w].on = {j}
Turns(w, rec) == worker' = [worker EXCEPT ![w] = rec]
Writes(j, row) == job' = [job EXCEPT ![j] = {row}]

Freed(row, state, due) ==
  [state |-> state, attempt |-> row.attempt, lease |-> 0, due |-> due, expired |-> FALSE]

-----------------------------------------------------------------------------
(* enqueueAgenticJob *)

EnqueueRead(w, j) ==
  /\ worker[w].pc = "rest"
  /\ Turns(w, [pc |-> IF job[j] = {} THEN "enqueue" ELSE "lease",
               on |-> {j}, lease |-> 0, copy |-> FreshJob])
  /\ UNCHANGED <<job, grants>>

\* The upsert takes the place of a row another process has written since.
EnqueueWrite(w, j) ==
  /\ Works(w, "enqueue", j)
  /\ Writes(j, FreshJob)
  /\ Turns(w, [pc |-> "lease", on |-> {j}, lease |-> 0, copy |-> FreshJob])
  /\ UNCHANGED grants

-----------------------------------------------------------------------------
(* leaseAgenticJobById and reclaimExpiredAgenticJobs: one transaction each *)

Leaseable(row) ==
  row.due /\ (row.state = "pending" \/ (row.state = "leased" /\ row.expired))

\* Mutant: the lease that is to be granted is counted already.
ExhaustedEarly(row) == row.attempt + 1 >= MaxAttempts

Exhausted(row) == row.attempt >= MaxAttempts

\* No lease: the runner processes the capture all the same and leaves the job alone.
LeaseRefused(w, j) ==
  /\ Works(w, "lease", j)
  /\ \A row \in job[j] : ~Leaseable(row)
  /\ Turns(w, Resting)
  /\ UNCHANGED <<job, grants>>

LeaseExhausted(w, j) ==
  /\ Works(w, "lease", j)
  /\ \E row \in job[j] :
       /\ Leaseable(row) /\ Exhausted(row)
       /\ Writes(j, Freed(row, "dead", row.due))
  /\ Turns(w, Resting)
  /\ UNCHANGED grants

LeaseGranted(w, j) ==
  /\ Works(w, "lease", j)
  /\ grants[j] < MaxGrants
  /\ \E row \in job[j] :
       /\ Leaseable(row) /\ ~Exhausted(row)
       /\ Writes(j, [state |-> "leased", attempt |-> row.attempt + 1, lease |-> grants[j] + 1,
                     due |-> row.due, expired |-> FALSE])
  /\ grants' = [grants EXCEPT ![j] = @ + 1]
  /\ Turns(w, [pc |-> "work", on |-> {j}, lease |-> grants[j] + 1, copy |-> FreshJob])

\* The scan before the transaction is bounded: any of the rows that qualify.
Reclaimable(row) ==
  (row.state = "leased" /\ row.expired) \/ (row.state = "pending" /\ Exhausted(row))

Reclaimed(row) == IF Exhausted(row) THEN Freed(row, "dead", row.due) ELSE Freed(row, "pending", TRUE)

Reclaim ==
  \E js \in SUBSET {j \in Jobs : \E row \in job[j] : Reclaimable(row)} :
    /\ js # {}
    /\ job' = [j \in Jobs |-> IF j \in js THEN {Reclaimed(row) : row \in job[j]} ELSE job[j]]
    /\ UNCHANGED <<worker, grants>>

-----------------------------------------------------------------------------
(* completeAgenticJob and failAgenticJob *)

\* Whoever still finds its lease on the row goes on, also after it ran out.
OutcomeRead(w, j) ==
  /\ Works(w, "work", j)
  /\ \E row \in job[j] :
       Turns(w, IF row.state = "leased" /\ row.lease = worker[w].lease
                  THEN [pc |-> "outcome", on |-> {j}, lease |-> row.lease, copy |-> row]
                  ELSE Resting)
  /\ UNCHANGED <<job, grants>>

Complete(w, j) ==
  /\ Works(w, "outcome", j)
  /\ Writes(j, Freed(worker[w].copy, "succeeded", TRUE))
  /\ Turns(w, Resting)
  /\ UNCHANGED grants

\* Back with a delay, or dead.
FailJob(w, j) ==
  /\ Works(w, "outcome", j)
  /\ Writes(j, IF Exhausted(worker[w].copy) THEN Freed(worker[w].copy, "dead", TRUE)
                                           ELSE Freed(worker[w].copy, "pending", FALSE))
  /\ Turns(w, Resting)
  /\ UNCHANGED grants

-----------------------------------------------------------------------------
\* The clock: a lease runs out, a delay ends.
Passes(j) ==
  \E row \in job[j] :
    \/ row.state = "leased" /\ ~row.expired /\ Writes(j, [row EXCEPT !.expired = TRUE])
    \/ ~row.due /\ Writes(j, [row EXCEPT !.due = TRUE])

TimePasses(j) == Passes(j) /\ UNCHANGED <<worker, grants>>

WorkerDies(w) ==
  /\ worker[w].pc # "rest"
  /\ Turns(w, Resting)
  /\ UNCHANGED <<job, grants>>

WorkerStep(w, j) ==
  \/ EnqueueRead(w, j) \/ EnqueueWrite(w, j)
  \/ LeaseRefused(w, j) \/ LeaseExhausted(w, j) \/ LeaseGranted(w, j)
  \/ OutcomeRead(w, j) \/ Complete(w, j) \/ FailJob(w, j)

JobsNext ==
  \/ \E w \in Workers, j \in Jobs : WorkerStep(w, j)
  \/ \E w \in Workers : WorkerDies(w)
  \/ \E j \in Jobs : TimePasses(j)
  \/ Reclaim

JobsSpec == JobsInit /\ [][JobsNext]_jobVars

-----------------------------------------------------------------------------
(* Properties *)

WorkerState == [pc : {"rest", "enqueue", "lease", "work", "outcome"}, on : SUBSET Jobs,
                lease : Nat, copy : JobRow]

JobsTypeOK ==
  /\ job \in [Jobs -> SUBSET JobRow]
  /\ worker \in [Workers -> WorkerState]
  /\ grants \in [Jobs -> Nat]

\* A job is given up only after it was leased max_attempts times: late outcomes of an
\* expired lease, overlapping enqueues and reclaims may set its count back, never ahead.
DeadIsExhausted ==
  \A j \in Jobs : \A row \in job[j] : row.state = "dead" => grants[j] >= MaxAttempts
=============================================================================
