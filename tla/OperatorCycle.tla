--------------------------- MODULE OperatorCycle ---------------------------
(***************************************************************************)
(* The operator cycle (sync cycle): runs of the command exclude each other *)
(* by a lock file under <home>/cycles, sync once, rebuild the retrieval    *)
(* index, and record the outcome in health.json.                           *)
(*                                                                         *)
(* One action is one call that changes the file system or one phase of the *)
(* cycle.  Every call may fail, and the process may die anywhere.  Nobody  *)
(* removes a lock that was left behind: the command does not look at its   *)
(* age or its owner.                                                       *)
(***************************************************************************)
EXTENDS Naturals, FiniteSets

CONSTANT Cycles  \* runs of the command

Failures == {"config_invalid", "lock_busy", "manifest_failed", "sync_failed",
             "retrieval_failed", "lock_release_failed", "health_failed"}
Outcomes == Failures \cup {"success"}

VARIABLES
  lockFile,  \* who created cycle.lock: a cycle, or nobody
  health,    \* health.json: the last cycle that wrote it and what it wrote
  cycle      \* [Cycles -> run of the command]

cycleVars == <<lockFile, health, cycle>>

\* acquired: the local lockAcquired; outcome: the health record of the run, and in the
\* end what the command reports.
CycleRun == [pc : {"preflight", "probe", "create", "stamp", "manifest", "sync", "rebuild",
                   "health", "release", "rewrite", "ended", "crashed"},
             acquired : BOOLEAN,
             outcome : Outcomes]

CycleInit ==
  /\ lockFile = {}
  /\ health = {}
  /\ cycle = [c \in Cycles |-> [pc |-> "preflight", acquired |-> FALSE, outcome |-> "success"]]

CycleAt(c, pc) == cycle[c].pc = pc
CycleTo(c, pc) == cycle' = [cycle EXCEPT ![c].pc = pc]
\* The catch block: whatever failed, health is written next.
CycleFails(c, outcome) == cycle' = [cycle EXCEPT ![c].pc = "health", ![c].outcome = outcome]
Ends(c, outcome) == cycle' = [cycle EXCEPT ![c].pc = "ended", ![c].outcome = outcome]

-----------------------------------------------------------------------------
\* ensureCycleDirs and the preflight.
Preflight(c) ==
  /\ CycleAt(c, "preflight")
  /\ CycleTo(c, "probe") \/ CycleFails(c, "config_invalid")
  /\ UNCHANGED <<lockFile, health>>

\* acquireLock: existsSync, then an exclusive create, then the lock's text and mode.
ProbeLock(c) ==
  /\ CycleAt(c, "probe")
  /\ IF lockFile = {} THEN CycleTo(c, "create") ELSE CycleFails(c, "lock_busy")
  /\ UNCHANGED <<lockFile, health>>

\* Mutant: the file is opened for writing, not created exclusively.
CreateLockShared(c) ==
  /\ CycleAt(c, "create")
  /\ \/ lockFile' = {c} /\ CycleTo(c, "stamp")
     \/ CycleFails(c, "lock_busy") /\ UNCHANGED lockFile
  /\ UNCHANGED health

CreateLock(c) ==
  /\ CycleAt(c, "create")
  /\ \/ lockFile = {} /\ lockFile' = {c} /\ CycleTo(c, "stamp")
     \/ CycleFails(c, "lock_busy") /\ UNCHANGED lockFile
  /\ UNCHANGED health

\* If writing fails the file stays, and the cycle does not know that it holds it.
StampLock(c) ==
  /\ CycleAt(c, "stamp")
  /\ \/ cycle' = [cycle EXCEPT ![c].pc = "manifest", ![c].acquired = TRUE]
     \/ CycleFails(c, "lock_busy")
  /\ UNCHANGED <<lockFile, health>>

WriteManifest(c) ==
  /\ CycleAt(c, "manifest")
  /\ CycleTo(c, "sync") \/ CycleFails(c, "manifest_failed")
  /\ UNCHANGED <<lockFile, health>>

SyncOnce(c) ==
  /\ CycleAt(c, "sync")
  /\ CycleTo(c, "rebuild") \/ CycleFails(c, "sync_failed")
  /\ UNCHANGED <<lockFile, health>>

RebuildRetrieval(c) ==
  /\ CycleAt(c, "rebuild")
  /\ CycleTo(c, "health") \/ CycleFails(c, "retrieval_failed")
  /\ UNCHANGED <<lockFile, health>>

\* Written whether or not the lock is held, by a rename.  A failure returns at once,
\* before the release.
WriteHealth(c) ==
  /\ CycleAt(c, "health")
  /\ \/ /\ health' = {[of |-> c, outcome |-> cycle[c].outcome]}
        /\ IF cycle[c].acquired THEN CycleTo(c, "release") ELSE Ends(c, cycle[c].outcome)
     \/ Ends(c, "health_failed") /\ UNCHANGED health
  /\ UNCHANGED lockFile

\* unlinkSync of the path, whoever created it.
ReleaseLock(c) ==
  /\ CycleAt(c, "release")
  /\ \/ lockFile' = {} /\ Ends(c, cycle[c].outcome)
     \/ /\ cycle' = [cycle EXCEPT ![c].pc = "rewrite", ![c].outcome = "lock_release_failed"]
        /\ UNCHANGED lockFile
  /\ UNCHANGED health

RewriteHealth(c) ==
  /\ CycleAt(c, "rewrite")
  /\ \/ /\ health' = {[of |-> c, outcome |-> cycle[c].outcome]}
        /\ Ends(c, cycle[c].outcome)
     \/ Ends(c, "health_failed") /\ UNCHANGED health
  /\ UNCHANGED lockFile

CycleDies(c) ==
  /\ cycle[c].pc \notin {"ended", "crashed"}
  /\ CycleTo(c, "crashed")
  /\ UNCHANGED <<lockFile, health>>

CycleNext ==
  \E c \in Cycles :
    \/ Preflight(c) \/ ProbeLock(c) \/ CreateLock(c) \/ StampLock(c)
    \/ WriteManifest(c) \/ SyncOnce(c) \/ RebuildRetrieval(c)
    \/ WriteHealth(c) \/ ReleaseLock(c) \/ RewriteHealth(c)
    \/ CycleDies(c)

CycleSpec == CycleInit /\ [][CycleNext]_cycleVars

-----------------------------------------------------------------------------
(* Properties *)

CycleTypeOK ==
  /\ lockFile \subseteq Cycles /\ Cardinality(lockFile) <= 1
  /\ health \subseteq [of : Cycles, outcome : Outcomes]
  /\ cycle \in [Cycles -> CycleRun]

\* From the creation of the lock to the decision about its removal.
Guarded == {"stamp", "manifest", "sync", "rebuild", "release", "rewrite"}
Holding(c) == cycle[c].pc \in Guarded \/ (CycleAt(c, "health") /\ cycle[c].acquired)

\* At most one run is between taking and giving back the lock, it is the one that
\* created the file, and so no run removes the lock of another: not after a crash, nor
\* after any write or removal failed.  And a lock that stays behind and makes every later
\* cycle fail was left by a run that died or reported a failure, never by a success.
CycleExclusion ==
  /\ \A c \in Cycles : Holding(c) => lockFile = {c}
  /\ \A c \in lockFile : CycleAt(c, "ended") => cycle[c].outcome # "success"
=============================================================================
