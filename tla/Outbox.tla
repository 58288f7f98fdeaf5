------------------------------- MODULE Outbox -------------------------------
(***************************************************************************)
(* The local store of every enrolled device as far as sync is concerned:   *)
(* its canonical events and its outbox (packages/local-store), with the    *)
(* remote-admission policy of packages/capture/src/sync-admission.ts.      *)
(*                                                                         *)
(* A store is shared by several processes: capture hooks, sync commands    *)
(* (the pushers) and the operator's outbox commands.  Every write runs in  *)
(* one BEGIN IMMEDIATE transaction, or is one statement, and is therefore  *)
(* one action; what a process read before that is in its own variables.    *)
(*                                                                         *)
(* Time enters as one bit per row.  due says that the row's waiting time   *)
(* is over: available_at of a pending row has come, or lease_expires_at of *)
(* a leased row has passed.                                                *)
(***************************************************************************)
EXTENDS ZoneData

CONSTANTS
  CapturedOn,  \* the devices on which each event is captured
  Pushers,     \* sync processes
  DeviceOf,    \* the device each pusher runs on
  Policies,    \* the admission policies the commands are run with
  MaxRows      \* bound on the outbox ids a device hands out

ASSUME OutboxAssumption ==
  /\ CapturedOn \in [Events -> SUBSET Devices]
  /\ DeviceOf \in [Pushers -> Devices]
  /\ Policies \subseteq {"thin", "full_log", "off"}
  /\ MaxRows \in Nat

VARIABLES
  local,       \* [Devices -> [Events -> origin or None]]: canonical_events
  promoted,    \* [Devices -> SUBSET Events]: the draft units whose latest disposition is promote
  outbox,      \* [Devices -> [Events -> row or None]]
  lastRow,     \* [Devices -> Nat]: the AUTOINCREMENT counter of outbox_id
  lastAttempt, \* the attempts taken so far; the next lease gets the next number
  held,        \* [Pushers -> item or None]: the leased item a pusher is working on
  sweep        \* [Devices -> SUBSET Nat]: the row ids an operator command decided to drop

outboxVars == <<local, promoted, outbox, lastRow, lastAttempt, held, sweep>>

-----------------------------------------------------------------------------
Row == [state : {"pending", "leased", "delivered"}, id : 1 .. MaxRows,
        lease : Attempts \cup {None}, due : BOOLEAN]

Item == [event : Events, lease : Attempts]

ASSUME RowAssumption == None \notin Row

\* The keys a device already holds a canonical event for.
KnownKeys(d) == {KeyOf[e] : e \in {x \in Events : local[d][x] # None}}

\* Mutant: the disposition decides for active units too.
AdmitsByDisposition(policy, d, e) ==
  \/ policy = "full_log"
  \/ policy = "thin" /\ e \in promoted[d] \ Evidence

\* evaluateSyncAdmission.  Under the thin policy raw evidence stays home, and a unit
\* leaves if it is active or its evidence's latest disposition promotes it.
Admits(policy, d, e) ==
  \/ policy = "full_log"
  \/ policy = "thin" /\ (e \in ActiveUnits \/ e \in promoted[d] \ Evidence)

\* Mutant: the row takes the id of the row before it.
NewRowOldId(d) == [state |-> "pending", id |-> lastRow[d], lease |-> None, due |-> TRUE]

\* A fresh outbox row, available at once.
NewRow(d) == [state |-> "pending", id |-> lastRow[d] + 1, lease |-> None, due |-> TRUE]

\* Mutant: a leased row never comes back to the scan.
LeasableOnlyPending(d) ==
  {e \in Events : outbox[d][e] # None /\ outbox[d][e].state = "pending" /\ outbox[d][e].due}

\* The rows the head-of-queue scan of leaseOutbox selects: pending ones whose time has
\* come, and leased ones whose lease has run out.
Leasable(d) ==
  {e \in Events : outbox[d][e] # None /\ outbox[d][e].state \in {"pending", "leased"}
                    /\ outbox[d][e].due}

\* Mutant: the row is found by its id and state, whoever leases it now.
HoldsLeaseOfAnyone(p) ==
  LET row == outbox[DeviceOf[p]][held[p].event] IN row # None /\ row.state = "leased"

\* Mutant: the row is found by its id alone.
HoldsLeaseOnce(p) == outbox[DeviceOf[p]][held[p].event] # None

\* The WHERE clause of ackOutbox and retryOutbox.
HoldsLease(p) ==
  LET row == outbox[DeviceOf[p]][held[p].event] IN
  row # None /\ row.state = "leased" /\ row.lease = held[p].lease

-----------------------------------------------------------------------------
OutboxInit ==
  /\ local = [d \in Devices |-> [e \in Events |-> None]]
  /\ promoted = [d \in Devices |-> {}]
  /\ outbox = [d \in Devices |-> [e \in Events |-> None]]
  /\ lastRow = [d \in Devices |-> 0]
  /\ lastAttempt = 0
  /\ held = [p \in Pushers |-> None]
  /\ sweep = [d \in Devices |-> {}]

\* A new key appends the canonical event and its outbox row in one transaction.  A
\* known key changes nothing: it is a replay, or an IdempotencyConflictError.
AppendEvent(d, e) ==
  /\ d \in CapturedOn[e]
  /\ KeyOf[e] \notin KnownKeys(d)
  /\ lastRow[d] < MaxRows
  /\ local' = [local EXCEPT ![d][e] = d]
  /\ outbox' = [outbox EXCEPT ![d][e] = NewRow(d)]
  /\ lastRow' = [lastRow EXCEPT ![d] = @ + 1]
  /\ UNCHANGED <<promoted, lastAttempt, held, sweep>>

\* captureHookWrite: a hook captures an evidence artifact.
Capture(d, e) == e \in Evidence /\ AppendEvent(d, e)

\* proposeObservationDraft and, through its support, proposeClaimDraft: a unit is
\* proposed for evidence that stands in the store, captured here or pulled.
Propose(d, e) ==
  /\ e \notin Evidence
  /\ \E x \in Evidence : local[d][x] # None
  /\ AppendEvent(d, e)

\* A later disposition of the unit's evidence (adjudication or human review) promotes
\* it, or no longer does.
Dispose(d, e) ==
  /\ e \notin Evidence \cup ActiveUnits
  /\ local[d][e] # None
  /\ promoted' = [promoted EXCEPT ![d] = IF e \in @ THEN @ \ {e} ELSE @ \cup {e}]
  /\ UNCHANGED <<local, outbox, lastRow, lastAttempt, held, sweep>>

\* leaseOutbox(1): scan the leasable rows in outbox_id order, drop those the policy
\* does not admit, lease the first one it does.
Lease(p, policy) ==
  LET d        == DeviceOf[p]
      scanned  == Leasable(d)
      admitted == {e \in scanned : Admits(policy, d, e)}
      heads    == {e \in admitted : \A x \in admitted : outbox[d][e].id <= outbox[d][x].id}
      dropped  == {e \in scanned \ admitted :
                     \A x \in heads : outbox[d][e].id < outbox[d][x].id}
      attempt  == lastAttempt + 1
  IN
  /\ held[p] = None
  /\ scanned # {}
  /\ attempt <= MaxAttempts
  /\ outbox' = [outbox EXCEPT ![d] = [e \in Events |->
       IF e \in dropped THEN None
       ELSE IF e \in heads
         THEN [@[e] EXCEPT !.state = "leased", !.lease = attempt, !.due = FALSE]
         ELSE @[e]]]
  /\ IF heads = {}
       THEN UNCHANGED <<lastAttempt, held>>
       ELSE /\ lastAttempt' = attempt
            /\ held' = [held EXCEPT ![p] =
                 [event |-> CHOOSE e \in heads : TRUE, lease |-> attempt]]
  /\ UNCHANGED <<local, promoted, lastRow, sweep>>

\* ackOutbox: delivered, if the lease is still ours; the coordinator ignores the result.
Ack(p) ==
  LET d == DeviceOf[p]
      e == held[p].event
  IN
  /\ held[p] # None
  /\ outbox' = IF HoldsLease(p)
       THEN [outbox EXCEPT ![d][e] =
              [@ EXCEPT !.state = "delivered", !.lease = None, !.due = FALSE]]
       ELSE outbox
  /\ held' = [held EXCEPT ![p] = None]
  /\ UNCHANGED <<local, promoted, lastRow, lastAttempt, sweep>>

\* retryOutbox: back to pending, if the lease is still ours; available again after
\* the retry delay, or at once when the coordinator blocks the item (delay 0).
Return(p, atOnce) ==
  LET d == DeviceOf[p]
      e == held[p].event
  IN
  /\ held[p] # None
  /\ outbox' = IF HoldsLease(p)
       THEN [outbox EXCEPT ![d][e] =
              [@ EXCEPT !.state = "pending", !.lease = None, !.due = atOnce]]
       ELSE outbox
  /\ held' = [held EXCEPT ![p] = None]
  /\ UNCHANGED <<local, promoted, lastRow, lastAttempt, sweep>>

\* The pushing process dies, and leaves the row leased.
PusherCrash(p) ==
  /\ held[p] # None
  /\ held' = [held EXCEPT ![p] = None]
  /\ UNCHANGED <<local, promoted, outbox, lastRow, lastAttempt, sweep>>

\* The waiting time of a row ends: the retry delay, or the lease.
Elapse(d, e) ==
  /\ outbox[d][e] # None
  /\ outbox[d][e].state \in {"pending", "leased"}
  /\ ~outbox[d][e].due
  /\ outbox' = [outbox EXCEPT ![d][e].due = TRUE]
  /\ UNCHANGED <<local, promoted, lastRow, lastAttempt, held, sweep>>

-----------------------------------------------------------------------------
(* The operator's commands: outbox skip-non-admitted and requeue-admitted *)

StillPending(d, e) == outbox[d][e] # None /\ outbox[d][e].state = "pending"

\* skipNonAdmittedOutboxPending decides outside a transaction ...
SweepScan(d, policy) ==
  LET chosen == {e \in Events : StillPending(d, e) /\ ~Admits(policy, d, e)} IN
  /\ sweep[d] = {}
  /\ chosen # {}
  /\ sweep' = [sweep EXCEPT ![d] = {outbox[d][e].id : e \in chosen}]
  /\ UNCHANGED <<local, promoted, outbox, lastRow, lastAttempt, held>>

\* ... and deletes, in one, the chosen rows that are still pending.
SweepDelete(d) ==
  /\ sweep[d] # {}
  /\ outbox' = [outbox EXCEPT ![d] = [e \in Events |->
       IF StillPending(d, e) /\ @[e].id \in sweep[d] THEN None ELSE @[e]]]
  /\ sweep' = [sweep EXCEPT ![d] = {}]
  /\ UNCHANGED <<local, promoted, lastRow, lastAttempt, held>>

\* requeueAdmittedOutboxUnits, one unit: an admitted Observation or Claim of
\* canonical_events without a row gets a new one.
Requeue(d, e, policy) ==
  /\ e \notin Evidence
  /\ local[d][e] # None
  /\ outbox[d][e] = None
  /\ Admits(policy, d, e)
  /\ lastRow[d] < MaxRows
  /\ outbox' = [outbox EXCEPT ![d][e] = NewRow(d)]
  /\ lastRow' = [lastRow EXCEPT ![d] = @ + 1]
  /\ UNCHANGED <<local, promoted, lastAttempt, held, sweep>>

\* What happens in the store without the coordinator.
StoreNext ==
  \/ \E d \in Devices, e \in Events :
       Capture(d, e) \/ Propose(d, e) \/ Dispose(d, e) \/ Elapse(d, e)
  \/ \E d \in Devices, policy \in Policies :
       SweepScan(d, policy) \/ \E e \in Events : Requeue(d, e, policy)
  \/ \E d \in Devices : SweepDelete(d)

OutboxNext ==
  \/ StoreNext
  \/ \E p \in Pushers :
       \/ \E policy \in Policies : Lease(p, policy)
       \/ Ack(p)
       \/ \E atOnce \in BOOLEAN : Return(p, atOnce)
       \/ PusherCrash(p)

OutboxSpec == OutboxInit /\ [][OutboxNext]_outboxVars

-----------------------------------------------------------------------------
(* Properties *)

\* The shape of the store's tables and of what its processes remember.
OutboxTypeOK ==
  /\ local \in [Devices -> [Events -> Devices \cup {None}]]
  /\ promoted \in [Devices -> SUBSET Events]
  /\ outbox \in [Devices -> [Events -> Row \cup {None}]]
  /\ lastRow \in [Devices -> 0 .. MaxRows]
  /\ lastAttempt \in 0 .. MaxAttempts
  /\ held \in [Pushers -> Item \cup {None}]
  /\ sweep \in [Devices -> SUBSET (1 .. MaxRows)]

\* Once a row is delivered it stays so: no late retry of a pusher whose lease was
\* taken over, no sweep and no lease scan sends it out again or drops it
\* (retryOutbox, skipNonAdmittedOutboxPending, leaseOutbox).
DeliveredIsFinal ==
  [][ \A d \in Devices, e \in Events :
        outbox[d][e] # None /\ outbox[d][e].state = "delivered" =>
          outbox'[d][e] = outbox[d][e] ]_outboxVars

\* While a lease runs, its row belongs to the pusher that took it: the row changes
\* only by that pusher's own ack or retry, or by the lease running out.  Other
\* pushers, late answers of earlier leases and sweeps leave it alone.
RunningLeaseRespected ==
  [][ \A d \in Devices, e \in Events :
        LET row == outbox[d][e] IN
        row # None /\ row.state = "leased" /\ ~row.due /\ outbox'[d][e] # row =>
          \/ outbox'[d][e] = [row EXCEPT !.due = TRUE]
          \/ \E p \in Pushers : DeviceOf[p] = d /\ held'[p] = None
               /\ held[p] = [event |-> e, lease |-> row.lease] ]_outboxVars

\* Under the default policy an active unit is never lost to the queue: from capture
\* on it has its row, pending, leased or delivered, whatever is dropped around it
\* by the lease scan and the operator's sweep.
ActiveUnitsStayQueued ==
  \A d \in Devices, e \in ActiveUnits : local[d][e] = d => outbox[d][e] # None

\* ADR 0005, "Replaying the same fingerprint returns the existing event and outbox
\* row": the capture of an event this device has captured before finds a row to
\* return (findOutboxIdForEvent throws when there is none).
ReplayFindsRow ==
  \A d \in Devices, e \in Events : local[d][e] = d => outbox[d][e] # None
=============================================================================
