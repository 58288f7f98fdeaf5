---------------------------- MODULE Outbox_proofs ----------------------------
(***************************************************************************)
(* What the outbox guarantees for any number of devices, events, pushers   *)
(* and policies.                                                           *)
(*                                                                         *)
(* The action properties are inductive but for one fact: a capture of an   *)
(* event that has a row would overwrite it, and only the unique key of     *)
(* canonical_events keeps it out.  RowHasEvent, the outbox's foreign key,  *)
(* carries that fact.                                                      *)
(***************************************************************************)
EXTENDS Outbox, TLAPS

\* The foreign key of outbox: a row belongs to an event of canonical_events.
RowHasEvent == \A d \in Devices, e \in Events : outbox[d][e] # None => local[d][e] # None

OutboxInv == OutboxTypeOK /\ RowHasEvent

-----------------------------------------------------------------------------
(* How rows change *)

\* How the coordinator parts with an item.
Settle(p) == Ack(p) \/ \E atOnce \in BOOLEAN : Return(p, atOnce)

\* The steps, one by one.
LEMMA OutboxSteps ==
  ASSUME OutboxNext
  PROVE  \/ \E d \in Devices, e \in Events :
              \/ AppendEvent(d, e) \/ Dispose(d, e) \/ Elapse(d, e)
              \/ \E policy \in Policies : Requeue(d, e, policy)
         \/ \E d \in Devices : SweepDelete(d) \/ \E policy \in Policies : SweepScan(d, policy)
         \/ \E p \in Pushers :
              \/ \E policy \in Policies : Lease(p, policy)
              \/ Settle(p) \/ PusherCrash(p)
BY DEF OutboxNext, StoreNext, Capture, Propose, Settle

\* A new row is well formed.
LEMMA NewRowTyped ==
  ASSUME OutboxTypeOK, NEW d \in Devices, lastRow[d] < MaxRows
  PROVE  NewRow(d) \in Row /\ lastRow[d] + 1 \in 0 .. MaxRows
BY OutboxAssumption DEF OutboxTypeOK, NewRow, Row

\* A lease takes the next attempt, within the bound.
LEMMA LeaseAttempt ==
  ASSUME OutboxTypeOK, NEW p \in Pushers, NEW policy \in Policies, Lease(p, policy)
  PROVE  lastAttempt + 1 \in Attempts
<1>1. lastAttempt + 1 <= MaxAttempts
  BY Zenon DEF Lease
<1>2. lastAttempt \in 0 .. MaxAttempts
  BY DEF OutboxTypeOK
<1>3. QED
  BY <1>1, <1>2, ZoneDataAssumption DEF Attempts

\* The row a lease leaves.
LeasedRow(d, e) ==
  [outbox[d][e] EXCEPT !.state = "leased", !.lease = lastAttempt + 1, !.due = FALSE]

\* The lease scan touches leasable rows only: it drops those the policy does not
\* admit, and leases the first one it does.
LEMMA LeaseRows ==
  ASSUME OutboxTypeOK, NEW p \in Pushers, NEW policy \in Policies, Lease(p, policy),
         NEW d \in Devices, NEW e \in Events
  PROVE  \/ outbox'[d][e] = outbox[d][e]
         \/ /\ e \in Leasable(d)
            /\ \/ outbox'[d][e] = None /\ ~Admits(policy, d, e)
               \/ outbox'[d][e] = LeasedRow(d, e)
<1> DEFINE c        == DeviceOf[p]
           admitted == {x \in Leasable(c) : Admits(policy, c, x)}
           heads    == {x \in admitted : \A y \in admitted : outbox[c][x].id <= outbox[c][y].id}
           dropped  == {x \in Leasable(c) \ admitted :
                          \A y \in heads : outbox[c][x].id < outbox[c][y].id}
<1>1. outbox' = [outbox EXCEPT ![c] = [x \in Events |->
        IF x \in dropped THEN None
        ELSE IF x \in heads
          THEN [@[x] EXCEPT !.state = "leased", !.lease = lastAttempt + 1, !.due = FALSE]
          ELSE @[x]]]
  BY DEF Lease
<1>2. c \in Devices
  BY OutboxAssumption
<1>3. CASE d # c
  BY <1>1, <1>3 DEF OutboxTypeOK
<1>4. CASE d = c
  <2>1. outbox'[c][e] = IF e \in dropped THEN None
          ELSE IF e \in heads
            THEN [outbox[c][e] EXCEPT !.state = "leased", !.lease = lastAttempt + 1,
                                      !.due = FALSE]
            ELSE outbox[c][e]
    BY <1>1, <1>2 DEF OutboxTypeOK
  <2>2. e \in heads => e \in Leasable(c)
    OBVIOUS
  <2>3. e \in dropped => e \in Leasable(c) /\ ~Admits(policy, c, e)
    OBVIOUS
  <2>4. QED
    BY <1>4, <2>1, <2>2, <2>3 DEF LeasedRow
<1>5. QED
  BY <1>3, <1>4

\* An ack or a retry touches the row of the item held, and only under its lease.
LEMMA HeldRow ==
  ASSUME OutboxTypeOK, NEW p \in Pushers, Settle(p),
         NEW d \in Devices, NEW e \in Events, outbox'[d][e] # outbox[d][e]
  PROVE  /\ d = DeviceOf[p] /\ held[p] \in Item /\ held[p].event = e
         /\ outbox[d][e] \in Row /\ outbox[d][e] # None
         /\ outbox[d][e].state = "leased" /\ outbox[d][e].lease = held[p].lease
         /\ held'[p] = None
         /\ \E state \in {"pending", "delivered"}, due \in BOOLEAN :
              outbox'[d][e] = [state |-> state, id |-> outbox[d][e].id, lease |-> None, due |-> due]
<1>1. PICK state \in {"pending", "delivered"}, due \in BOOLEAN :
        /\ held[p] # None
        /\ outbox' = IF HoldsLease(p)
             THEN [outbox EXCEPT ![DeviceOf[p]][held[p].event] =
                    [@ EXCEPT !.state = state, !.lease = None, !.due = due]]
             ELSE outbox
        /\ held' = [held EXCEPT ![p] = None]
  <2>1. CASE Ack(p)
    BY <2>1 DEF Ack
  <2>2. CASE \E atOnce \in BOOLEAN : Return(p, atOnce)
    BY <2>2 DEF Return
  <2>3. QED
    BY <2>1, <2>2 DEF Settle
<1>2. held[p] \in Item /\ held'[p] = None /\ DeviceOf[p] \in Devices
  BY <1>1, OutboxAssumption DEF OutboxTypeOK
<1>3. held[p].event \in Events
  BY <1>2 DEF Item
<1>4. HoldsLease(p)
  BY <1>1
<1>5. d = DeviceOf[p] /\ e = held[p].event
  BY <1>1, <1>2, <1>3, <1>4 DEF OutboxTypeOK
<1>6. outbox'[d][e] = [outbox[d][e] EXCEPT !.state = state, !.lease = None, !.due = due]
  BY <1>1, <1>4, <1>5 DEF OutboxTypeOK
<1>7. outbox[d][e] \in Row /\ outbox[d][e] # None
  BY <1>4, <1>5 DEF HoldsLease, OutboxTypeOK
<1>8. outbox[d][e].state = "leased" /\ outbox[d][e].lease = held[p].lease
  BY <1>4, <1>5 DEF HoldsLease
<1>9. outbox'[d][e] = [state |-> state, id |-> outbox[d][e].id, lease |-> None, due |-> due]
  BY <1>6, <1>7 DEF Row
<1>10. QED
  BY <1>1, <1>2, <1>5, <1>7, <1>8, <1>9

\* Whatever an ack or a retry makes of a row is a row.
LEMMA SettledRow ==
  ASSUME OutboxTypeOK, NEW p \in Pushers, Settle(p),
         NEW d \in Devices, NEW e \in Events, outbox'[d][e] # outbox[d][e]
  PROVE  outbox'[d][e] \in Row
<1>1. outbox[d][e] \in Row
  BY HeldRow
<1>2. PICK state \in {"pending", "delivered"}, due \in BOOLEAN :
        outbox'[d][e] = [state |-> state, id |-> outbox[d][e].id, lease |-> None, due |-> due]
  BY HeldRow
<1>3. QED
  BY <1>1, <1>2 DEF Row

\* A lease scan leaves a row, or none where the policy does not admit the event.
LEMMA LeaseLeaves ==
  ASSUME OutboxTypeOK, NEW p \in Pushers, NEW policy \in Policies, Lease(p, policy),
         NEW d \in Devices, NEW e \in Events, outbox'[d][e] # outbox[d][e]
  PROVE  \/ outbox'[d][e] \in Row
         \/ outbox'[d][e] = None /\ ~Admits(policy, d, e)
<1>1. CASE outbox'[d][e] = None /\ ~Admits(policy, d, e)
  BY <1>1
<1>2. CASE /\ e \in Leasable(d)
           /\ outbox'[d][e] = LeasedRow(d, e)
  <2>1. outbox[d][e] \in Row
    BY <1>2 DEF Leasable, OutboxTypeOK
  <2>2. lastAttempt + 1 \in Attempts
    BY LeaseAttempt
  <2>3. QED
    BY <1>2, <2>1, <2>2 DEF Row, LeasedRow
<1>3. QED
  BY <1>1, <1>2, LeaseRows

\* Every way a row can change.
LEMMA RowChange ==
  ASSUME OutboxInv, OutboxNext, NEW d \in Devices, NEW e \in Events,
         outbox'[d][e] # outbox[d][e]
  PROVE  \/ /\ outbox[d][e] = None /\ outbox'[d][e] = NewRow(d) /\ lastRow[d] < MaxRows
            /\ local'[d][e] # None
         \/ /\ outbox[d][e] # None /\ outbox[d][e].state \in {"pending", "leased"}
            /\ ~outbox[d][e].due
            /\ outbox'[d][e] = [outbox[d][e] EXCEPT !.due = TRUE]
         \/ /\ StillPending(d, e) /\ outbox'[d][e] = None /\ SweepDelete(d)
         \/ \E p \in Pushers : Settle(p)
         \/ \E p \in Pushers, policy \in Policies : Lease(p, policy)
<1> USE DEF OutboxInv
<1>1. ASSUME NEW c \in Devices, NEW x \in Events, AppendEvent(c, x)
      PROVE  /\ outbox[d][e] = None /\ outbox'[d][e] = NewRow(d) /\ lastRow[d] < MaxRows
             /\ local'[d][e] # None
  <2>1. d = c /\ e = x /\ outbox'[d][e] = NewRow(d)
    BY <1>1 DEF AppendEvent, OutboxTypeOK
  <2>2. local[d][e] = None
    BY <1>1, <2>1 DEF AppendEvent, KnownKeys
  <2>3. local'[d][e] = d
    BY <1>1, <2>1 DEF AppendEvent, OutboxTypeOK
  <2>4. QED
    BY <1>1, <2>1, <2>2, <2>3, ZoneDataAssumption DEF AppendEvent, RowHasEvent
<1>2. ASSUME NEW c \in Devices, NEW x \in Events, NEW policy \in Policies, Requeue(c, x, policy)
      PROVE  /\ outbox[d][e] = None /\ outbox'[d][e] = NewRow(d) /\ lastRow[d] < MaxRows
             /\ local'[d][e] # None
  <2>1. d = c /\ e = x /\ outbox'[d][e] = NewRow(d)
    BY <1>2 DEF Requeue, OutboxTypeOK
  <2>2. QED
    BY <1>2, <2>1 DEF Requeue
<1>3. ASSUME NEW c \in Devices, NEW x \in Events, Elapse(c, x)
      PROVE  /\ outbox[d][e] # None /\ outbox[d][e].state \in {"pending", "leased"}
             /\ ~outbox[d][e].due
             /\ outbox'[d][e] = [outbox[d][e] EXCEPT !.due = TRUE]
  <2>1. d = c /\ e = x
    BY <1>3 DEF Elapse, OutboxTypeOK
  <2>2. QED
    BY <1>3, <2>1 DEF Elapse, OutboxTypeOK
<1>4. ASSUME NEW c \in Devices, SweepDelete(c)
      PROVE  StillPending(d, e) /\ outbox'[d][e] = None /\ SweepDelete(d)
  <2>1. d = c
    BY <1>4 DEF SweepDelete, OutboxTypeOK
  <2>2. QED
    BY <1>4, <2>1 DEF SweepDelete, OutboxTypeOK
<1>5. ASSUME NEW c \in Devices, NEW x \in Events, Dispose(c, x)
      PROVE  FALSE
  BY <1>5 DEF Dispose
<1>6. ASSUME NEW c \in Devices, NEW policy \in Policies, SweepScan(c, policy)
      PROVE  FALSE
  BY <1>6 DEF SweepScan
<1>7. ASSUME NEW p \in Pushers, PusherCrash(p)
      PROVE  FALSE
  BY <1>7 DEF PusherCrash
<1>8. QED
  BY <1>1, <1>2, <1>3, <1>4, <1>5, <1>6, <1>7, OutboxSteps

-----------------------------------------------------------------------------
(* Type correctness *)

\* Every row a step leaves is well formed.
LEMMA RowsTyped ==
  ASSUME OutboxInv, OutboxNext, NEW d \in Devices, NEW e \in Events
  PROVE  outbox'[d][e] \in Row \cup {None}
<1> USE DEF OutboxInv
<1>1. outbox[d][e] \in Row \cup {None}
  BY DEF OutboxTypeOK
<1>2. CASE outbox'[d][e] = outbox[d][e]
  BY <1>1, <1>2
<1>3. CASE outbox'[d][e] = NewRow(d) /\ lastRow[d] < MaxRows
  BY <1>3, NewRowTyped
<1>4. CASE outbox[d][e] # None /\ outbox'[d][e] = [outbox[d][e] EXCEPT !.due = TRUE]
  BY <1>1, <1>4 DEF Row
<1>5. CASE outbox'[d][e] = None
  BY <1>5
<1>6. ASSUME NEW p \in Pushers, Settle(p), outbox'[d][e] # outbox[d][e]
      PROVE  outbox'[d][e] \in Row
  BY <1>6, SettledRow
<1>7. ASSUME NEW p \in Pushers, NEW policy \in Policies, Lease(p, policy),
             outbox'[d][e] # outbox[d][e]
      PROVE  outbox'[d][e] \in Row \cup {None}
  BY <1>7, LeaseLeaves
<1>8. QED
  BY <1>2, <1>3, <1>4, <1>5, <1>6, <1>7, RowChange


\* Writing one cell keeps the table a table.
LEMMA CellWrite ==
  ASSUME OutboxTypeOK, NEW d \in Devices, NEW e \in Events, NEW row,
         outbox' = [outbox EXCEPT ![d][e] = row]
  PROVE  outbox' = [c \in Devices |-> [x \in Events |-> outbox'[c][x]]]
BY DEF OutboxTypeOK

\* So does writing the whole queue of a device.
LEMMA QueueWrite ==
  ASSUME OutboxTypeOK, NEW d \in Devices, NEW queue,
         queue = [x \in Events |-> queue[x]], outbox' = [outbox EXCEPT ![d] = queue]
  PROVE  outbox' = [c \in Devices |-> [x \in Events |-> outbox'[c][x]]]
BY DEF OutboxTypeOK

\* The lease scan writes the queue of its device.
LEMMA LeaseWrite ==
  ASSUME OutboxTypeOK, NEW p \in Pushers, NEW policy \in Policies, Lease(p, policy)
  PROVE  outbox' = [c \in Devices |-> [x \in Events |-> outbox'[c][x]]]
<1> DEFINE c        == DeviceOf[p]
           admitted == {x \in Leasable(c) : Admits(policy, c, x)}
           heads    == {x \in admitted : \A y \in admitted : outbox[c][x].id <= outbox[c][y].id}
           dropped  == {x \in Leasable(c) \ admitted :
                          \A y \in heads : outbox[c][x].id < outbox[c][y].id}
           queue    == [x \in Events |->
             IF x \in dropped THEN None
             ELSE IF x \in heads
               THEN [outbox[c][x] EXCEPT !.state = "leased", !.lease = lastAttempt + 1,
                                         !.due = FALSE]
               ELSE outbox[c][x]]
<1>1. outbox' = [outbox EXCEPT ![c] = queue]
  BY DEF Lease
<1>2. queue = [x \in Events |-> queue[x]]
  OBVIOUS
<1>3. c \in Devices
  BY OutboxAssumption
<1> HIDE DEF c, queue
<1>4. QED
  BY <1>1, <1>2, <1>3, QueueWrite

\* Every step leaves a table of well-formed rows.
LEMMA TableTyped ==
  ASSUME OutboxInv, OutboxNext
  PROVE  outbox' \in [Devices -> [Events -> Row \cup {None}]]
<1> DEFINE Table(o) == o = [c \in Devices |-> [x \in Events |-> o[c][x]]]
<1> USE DEF OutboxInv
<1>0. Table(outbox)
  BY DEF OutboxTypeOK
<1>1. ASSUME NEW d \in Devices, NEW e \in Events, AppendEvent(d, e)
      PROVE  Table(outbox')
  BY <1>1, CellWrite DEF AppendEvent
<1>2. ASSUME NEW d \in Devices, NEW e \in Events, NEW policy \in Policies, Requeue(d, e, policy)
      PROVE  Table(outbox')
  BY <1>2, CellWrite DEF Requeue
<1>3. ASSUME NEW d \in Devices, NEW e \in Events, Elapse(d, e)
      PROVE  Table(outbox')
  BY <1>3 DEF Elapse, OutboxTypeOK
<1>4. ASSUME NEW d \in Devices, SweepDelete(d)
      PROVE  Table(outbox')
  BY <1>4 DEF SweepDelete, OutboxTypeOK
<1>5. ASSUME NEW p \in Pushers, Settle(p)
      PROVE  Table(outbox')
  <2>1. held[p] # None
    BY <1>5 DEF Settle, Ack, Return
  <2>2. DeviceOf[p] \in Devices /\ held[p].event \in Events
    BY <2>1, OutboxAssumption DEF OutboxTypeOK, Item
  <2>3. CASE Ack(p)
    BY <2>2, <2>3 DEF Ack, OutboxTypeOK
  <2>4. ASSUME NEW atOnce \in BOOLEAN, Return(p, atOnce)
        PROVE  Table(outbox')
    BY <2>2, <2>4 DEF Return, OutboxTypeOK
  <2>5. QED
    BY <1>5, <2>3, <2>4 DEF Settle
<1>6. ASSUME NEW p \in Pushers, NEW policy \in Policies, Lease(p, policy)
      PROVE  Table(outbox')
  BY <1>6, LeaseWrite
<1>7. ASSUME UNCHANGED outbox
      PROVE  Table(outbox')
  BY <1>0, <1>7
<1>8. Table(outbox')
  BY <1>1, <1>2, <1>3, <1>4, <1>5, <1>6, <1>7, OutboxSteps DEF Dispose, SweepScan, PusherCrash
<1>9. QED
  BY <1>8, RowsTyped

\* A lease is held for an event of its queue.
LEMMA LeaseHeld ==
  ASSUME OutboxTypeOK, NEW p \in Pushers, NEW policy \in Policies, Lease(p, policy)
  PROVE  /\ lastAttempt' \in {lastAttempt, lastAttempt + 1}
         /\ held' \in [Pushers -> Item \cup {None}]
<1> DEFINE c        == DeviceOf[p]
           admitted == {x \in Leasable(c) : Admits(policy, c, x)}
           heads    == {x \in admitted : \A y \in admitted : outbox[c][x].id <= outbox[c][y].id}
           item     == [event |-> CHOOSE x \in heads : TRUE, lease |-> lastAttempt + 1]
<1>1. IF heads = {}
        THEN UNCHANGED <<lastAttempt, held>>
        ELSE lastAttempt' = lastAttempt + 1 /\ held' = [held EXCEPT ![p] = item]
  BY DEF Lease
<1>2. heads # {} => item \in Item
  <2>1. lastAttempt + 1 \in Attempts
    BY LeaseAttempt
  <2>2. heads \subseteq Events
    BY DEF Leasable
  <2>3. heads # {} => (CHOOSE x \in heads : TRUE) \in heads
    OBVIOUS
  <2>4. QED
    BY <2>1, <2>2, <2>3 DEF Item
<1> HIDE DEF item, heads
<1>3. QED
  BY <1>1, <1>2 DEF OutboxTypeOK

\* Every step keeps the shape of the store's tables.
LEMMA OutboxTypeStep ==
  ASSUME OutboxInv, [OutboxNext]_outboxVars
  PROVE  OutboxTypeOK'
<1> USE DEF OutboxInv
<1>1. CASE UNCHANGED outboxVars
  BY <1>1 DEF outboxVars, OutboxTypeOK
<1>2. CASE OutboxNext
  <2>1. ASSUME outbox' \in [Devices -> [Events -> Row \cup {None}]],
               NEW d \in Devices, NEW e \in Events, AppendEvent(d, e)
        PROVE  OutboxTypeOK'
    <3>1. lastRow[d] + 1 \in 0 .. MaxRows
      BY <2>1, NewRowTyped DEF AppendEvent
    <3>2. QED
      BY <2>1, <3>1 DEF AppendEvent, OutboxTypeOK
  <2>2. ASSUME outbox' \in [Devices -> [Events -> Row \cup {None}]],
               NEW d \in Devices, NEW e \in Events, NEW policy \in Policies, Requeue(d, e, policy)
        PROVE  OutboxTypeOK'
    <3>1. lastRow[d] + 1 \in 0 .. MaxRows
      BY <2>2, NewRowTyped DEF Requeue
    <3>2. QED
      BY <2>2, <3>1 DEF Requeue, OutboxTypeOK
  <2>3. ASSUME outbox' \in [Devices -> [Events -> Row \cup {None}]],
               NEW d \in Devices, NEW e \in Events, Dispose(d, e) \/ Elapse(d, e)
        PROVE  OutboxTypeOK'
    <3>1. CASE Dispose(d, e)
      BY <2>3, <3>1 DEF Dispose, OutboxTypeOK
    <3>2. CASE Elapse(d, e)
      BY <2>3, <3>2 DEF Elapse, OutboxTypeOK
    <3>3. QED
      BY <2>3, <3>1, <3>2
  <2>4. ASSUME outbox' \in [Devices -> [Events -> Row \cup {None}]],
               NEW d \in Devices, SweepDelete(d)
        PROVE  OutboxTypeOK'
    BY <2>4 DEF SweepDelete, OutboxTypeOK
  <2>5. ASSUME outbox' \in [Devices -> [Events -> Row \cup {None}]],
               NEW d \in Devices, NEW policy \in Policies, SweepScan(d, policy)
        PROVE  OutboxTypeOK'
    <3> DEFINE chosen == {x \in Events : StillPending(d, x) /\ ~Admits(policy, d, x)}
    <3>1. {outbox[d][x].id : x \in chosen} \subseteq 1 .. MaxRows
      BY DEF StillPending, OutboxTypeOK, Row
    <3>2. sweep' = [sweep EXCEPT ![d] = {outbox[d][x].id : x \in chosen}]
      BY <2>5 DEF SweepScan
    <3> HIDE DEF chosen
    <3>3. sweep' \in [Devices -> SUBSET (1 .. MaxRows)]
      BY <3>1, <3>2 DEF OutboxTypeOK
    <3>4. QED
      BY <2>5, <3>3 DEF SweepScan, OutboxTypeOK
  <2>6. ASSUME outbox' \in [Devices -> [Events -> Row \cup {None}]],
               NEW p \in Pushers, Settle(p) \/ PusherCrash(p)
        PROVE  OutboxTypeOK'
    <3>1. /\ held' = [held EXCEPT ![p] = None]
          /\ UNCHANGED <<local, promoted, lastRow, lastAttempt, sweep>>
      BY <2>6 DEF Settle, Ack, Return, PusherCrash
    <3>2. QED
      BY <2>6, <3>1 DEF OutboxTypeOK
  <2>7. ASSUME outbox' \in [Devices -> [Events -> Row \cup {None}]],
               NEW p \in Pushers, NEW policy \in Policies, Lease(p, policy)
        PROVE  OutboxTypeOK'
    <3>1. lastAttempt' \in 0 .. MaxAttempts
      BY <2>7, LeaseHeld, LeaseAttempt, ZoneDataAssumption DEF OutboxTypeOK, Attempts
    <3>2. UNCHANGED <<local, promoted, lastRow, sweep>>
      BY <2>7 DEF Lease
    <3>3. QED
      BY <2>7, <3>1, <3>2, LeaseHeld DEF OutboxTypeOK
  <2>8. QED
    BY <1>2, <2>1, <2>2, <2>3, <2>4, <2>5, <2>6, <2>7, TableTyped, OutboxSteps
<1>3. QED
  BY <1>1, <1>2

-----------------------------------------------------------------------------
(* Rows have events *)

\* Canonical events are append-only.
LEMMA LocalGrows ==
  ASSUME OutboxTypeOK, OutboxNext, NEW d \in Devices, NEW e \in Events, local[d][e] # None
  PROVE  local'[d][e] # None
<1>1. ASSUME NEW c \in Devices, NEW x \in Events, AppendEvent(c, x)
      PROVE  local'[d][e] # None
  BY <1>1, ZoneDataAssumption DEF AppendEvent, OutboxTypeOK
<1>2. CASE UNCHANGED local
  BY <1>2
<1>3. QED
  BY <1>1, <1>2, OutboxSteps
     DEF Dispose, Elapse, Requeue, SweepDelete, SweepScan, Lease, Settle, Ack, Return, PusherCrash

\* No step leaves a row without its event.
LEMMA RowHasEventStep ==
  ASSUME OutboxInv, [OutboxNext]_outboxVars
  PROVE  RowHasEvent'
<1>1. CASE UNCHANGED outboxVars
  BY <1>1 DEF outboxVars, OutboxInv, RowHasEvent
<1>2. ASSUME OutboxNext, NEW d \in Devices, NEW e \in Events, outbox'[d][e] # None
      PROVE  local'[d][e] # None
  <2>1. CASE outbox[d][e] # None
    BY <1>2, <2>1, LocalGrows DEF OutboxInv, RowHasEvent
  <2>2. CASE outbox[d][e] = None
    <3>1. ASSUME NEW p \in Pushers, NEW policy \in Policies, Lease(p, policy)
          PROVE  FALSE
      BY <1>2, <2>2, <3>1, LeaseRows DEF OutboxInv, Leasable
    <3>2. ASSUME NEW p \in Pushers, Settle(p)
          PROVE  FALSE
      BY <1>2, <2>2, <3>2, HeldRow DEF OutboxInv
    <3>3. QED
      BY <1>2, <2>2, <3>1, <3>2, RowChange
  <2>3. QED
    BY <2>1, <2>2
<1>3. QED
  BY <1>1, <1>2 DEF RowHasEvent

\* The invariant holds at first ...
LEMMA OutboxInvInit == OutboxInit => OutboxInv
BY OutboxAssumption, ZoneDataAssumption
   DEF OutboxInit, OutboxInv, OutboxTypeOK, RowHasEvent

\* ... and every step keeps it.
LEMMA OutboxInvStep == OutboxInv /\ [OutboxNext]_outboxVars => OutboxInv'
BY OutboxTypeStep, RowHasEventStep DEF OutboxInv

\* The inductive invariant of the outbox.
THEOREM OutboxInvariant == OutboxSpec => []OutboxInv
BY OutboxInvInit, OutboxInvStep, PTL DEF OutboxSpec

\* The store's tables, and what its processes remember, keep their shape
\* (the outbox table of migrate, leaseOutbox).
THEOREM OutboxTypeCorrect == OutboxSpec => []OutboxTypeOK
<1>1. OutboxInv => OutboxTypeOK
  BY DEF OutboxInv
<1>2. QED
  BY <1>1, OutboxInvariant, PTL

-----------------------------------------------------------------------------
(* Delivery and leases *)

\* A delivered row is neither leased, nor acked or retried again, nor dropped.
LEMMA DeliveredStays ==
  ASSUME OutboxInv, OutboxNext, NEW d \in Devices, NEW e \in Events,
         outbox[d][e] # None, outbox[d][e].state = "delivered"
  PROVE  outbox'[d][e] = outbox[d][e]
<1> SUFFICES ASSUME outbox'[d][e] # outbox[d][e]
             PROVE  FALSE
  OBVIOUS
<1>1. ASSUME NEW p \in Pushers, NEW policy \in Policies, Lease(p, policy)
      PROVE  FALSE
  BY <1>1, LeaseRows DEF OutboxInv, Leasable
<1>2. ASSUME NEW p \in Pushers, Settle(p)
      PROVE  FALSE
  BY <1>2, HeldRow DEF OutboxInv
<1>3. CASE StillPending(d, e)
  BY <1>3 DEF StillPending
<1>4. QED
  BY <1>1, <1>2, <1>3, RowChange

\* Delivery is final: no late retry, sweep or lease scan touches a delivered row
\* (retryOutbox, skipNonAdmittedOutboxPending, leaseOutbox).
THEOREM DeliveryFinal == OutboxSpec => DeliveredIsFinal
<1>1. OutboxInv /\ [OutboxNext]_outboxVars =>
        [ \A d \in Devices, e \in Events :
            outbox[d][e] # None /\ outbox[d][e].state = "delivered" =>
              outbox'[d][e] = outbox[d][e] ]_outboxVars
  BY DeliveredStays
<1>2. QED
  BY <1>1, OutboxInvariant, PTL DEF OutboxSpec, DeliveredIsFinal

\* A row under a running lease is left alone but by its holder.
LEMMA RunningLeaseStays ==
  ASSUME OutboxInv, OutboxNext, NEW d \in Devices, NEW e \in Events,
         outbox[d][e] # None, outbox[d][e].state = "leased", ~outbox[d][e].due,
         outbox'[d][e] # outbox[d][e]
  PROVE  \/ outbox'[d][e] = [outbox[d][e] EXCEPT !.due = TRUE]
         \/ \E p \in Pushers : DeviceOf[p] = d /\ held'[p] = None
              /\ held[p] = [event |-> e, lease |-> outbox[d][e].lease]
<1>1. ASSUME NEW p \in Pushers, NEW policy \in Policies, Lease(p, policy)
      PROVE  FALSE
  BY <1>1, LeaseRows DEF OutboxInv, Leasable
<1>2. ASSUME NEW p \in Pushers, Settle(p)
      PROVE  /\ DeviceOf[p] = d /\ held'[p] = None
             /\ held[p] = [event |-> e, lease |-> outbox[d][e].lease]
  <2>1. /\ DeviceOf[p] = d /\ held'[p] = None /\ held[p] \in Item /\ held[p].event = e
        /\ held[p].lease = outbox[d][e].lease
    BY <1>2, HeldRow DEF OutboxInv
  <2>2. QED
    BY <2>1 DEF Item
<1>3. ~StillPending(d, e)
  BY DEF StillPending
<1>4. QED
  BY <1>1, <1>2, <1>3, RowChange

\* While a lease runs, its row is its holder's (ackOutbox and retryOutbox compare the
\* lease, leaseOutbox its expiry, and the sweep the state).
THEOREM LeasesExclude == OutboxSpec => RunningLeaseRespected
<1>1. OutboxInv /\ [OutboxNext]_outboxVars =>
        [ \A d \in Devices, e \in Events :
            LET row == outbox[d][e] IN
            row # None /\ row.state = "leased" /\ ~row.due /\ outbox'[d][e] # row =>
              \/ outbox'[d][e] = [row EXCEPT !.due = TRUE]
              \/ \E p \in Pushers : DeviceOf[p] = d /\ held'[p] = None
                   /\ held[p] = [event |-> e, lease |-> row.lease] ]_outboxVars
  BY RunningLeaseStays
<1>2. QED
  BY <1>1, OutboxInvariant, PTL DEF OutboxSpec, RunningLeaseRespected

-----------------------------------------------------------------------------
(* Active units *)

\* outbox_id is AUTOINCREMENT: no id is given twice, and a sweep remembers only ids
\* already given, so it can never mean a row created after its scan.
IdsGiven ==
  /\ \A d \in Devices, e \in Events : outbox[d][e] # None => outbox[d][e].id <= lastRow[d]
  /\ \A d \in Devices, e \in Events, x \in Events :
       outbox[d][e] # None /\ outbox[d][x] # None /\ outbox[d][e].id = outbox[d][x].id => e = x
  /\ \A d \in Devices : \A i \in sweep[d] : i <= lastRow[d]

\* No sweep has an active unit's row in mind.
SweepSparesActive ==
  \A d \in Devices, e \in ActiveUnits : outbox[d][e] # None => outbox[d][e].id \notin sweep[d]

ActiveInv == OutboxInv /\ IdsGiven /\ SweepSparesActive /\ ActiveUnitsStayQueued

\* An active unit passes every policy that sends anything.
LEMMA ActiveAdmitted ==
  ASSUME "off" \notin Policies, NEW policy \in Policies, NEW d \in Devices, NEW e \in ActiveUnits
  PROVE  Admits(policy, d, e)
BY OutboxAssumption DEF Admits

\* A row that survives a step keeps its id; one that appears takes the next.
LEMMA IdKept ==
  ASSUME OutboxInv, OutboxNext, NEW d \in Devices, NEW e \in Events, outbox'[d][e] # None
  PROVE  \/ outbox[d][e] # None /\ outbox'[d][e].id = outbox[d][e].id
         \/ /\ outbox[d][e] = None /\ outbox'[d][e].id = lastRow[d] + 1
            /\ lastRow' = [lastRow EXCEPT ![d] = @ + 1]
            /\ UNCHANGED sweep
            /\ \A x \in Events \ {e} : outbox'[d][x] = outbox[d][x]
<1> USE DEF OutboxInv
<1>1. outbox[d][e] \in Row \cup {None}
  BY DEF OutboxTypeOK
<1>2. ASSUME NEW c \in Devices, NEW x \in Events,
             \/ AppendEvent(c, x)
             \/ \E policy \in Policies : Requeue(c, x, policy)
      PROVE  \/ outbox[d][e] # None /\ outbox'[d][e].id = outbox[d][e].id
             \/ /\ outbox[d][e] = None /\ outbox'[d][e].id = lastRow[d] + 1
                /\ lastRow' = [lastRow EXCEPT ![d] = @ + 1]
                /\ UNCHANGED sweep
                /\ \A y \in Events \ {e} : outbox'[d][y] = outbox[d][y]
  <2>1. /\ outbox' = [outbox EXCEPT ![c][x] = NewRow(c)]
        /\ lastRow' = [lastRow EXCEPT ![c] = @ + 1] /\ UNCHANGED sweep
    BY <1>2 DEF AppendEvent, Requeue
  <2>2. CASE d = c /\ e = x
    <3>1. outbox[d][e] = None
      BY <1>2, <2>2 DEF AppendEvent, Requeue, KnownKeys, RowHasEvent
    <3>2. outbox'[d][e] = NewRow(d)
      BY <2>1, <2>2 DEF OutboxTypeOK
    <3>3. outbox'[d][e].id = lastRow[d] + 1
      BY <3>2 DEF NewRow
    <3>4. QED
      BY <2>1, <2>2, <3>1, <3>3 DEF OutboxTypeOK
  <2>3. CASE ~(d = c /\ e = x)
    BY <2>1, <2>3 DEF OutboxTypeOK
  <2>4. QED
    BY <2>2, <2>3
<1>3. CASE outbox'[d][e] = outbox[d][e]
  BY <1>3
<1>4. ASSUME NEW x \in Events, Elapse(d, x), outbox'[d][e] # outbox[d][e]
      PROVE  outbox[d][e] # None /\ outbox'[d][e].id = outbox[d][e].id
  <2>1. outbox[d][e] \in Row /\ outbox[d][e] # None
    BY <1>1, <1>4 DEF Elapse, OutboxTypeOK
  <2>2. outbox'[d][e] = [outbox[d][e] EXCEPT !.due = TRUE]
    BY <1>4 DEF Elapse, OutboxTypeOK
  <2>3. QED
    BY <2>1, <2>2 DEF Row
<1>5. ASSUME NEW p \in Pushers, Settle(p), outbox'[d][e] # outbox[d][e]
      PROVE  outbox[d][e] # None /\ outbox'[d][e].id = outbox[d][e].id
  <2>1. PICK state \in {"pending", "delivered"}, due \in BOOLEAN :
          outbox'[d][e] = [state |-> state, id |-> outbox[d][e].id, lease |-> None, due |-> due]
    BY <1>5, HeldRow
  <2>2. outbox[d][e] # None
    BY <1>5, HeldRow
  <2>3. QED
    BY <2>1, <2>2
<1>6. ASSUME NEW p \in Pushers, NEW policy \in Policies, Lease(p, policy),
             outbox'[d][e] # outbox[d][e]
      PROVE  outbox[d][e] # None /\ outbox'[d][e].id = outbox[d][e].id
  <2>1. outbox[d][e] \in Row /\ outbox[d][e] # None
    BY <1>1, <1>6, LeaseRows DEF Leasable
  <2>2. outbox'[d][e] = LeasedRow(d, e)
    BY <1>6, LeaseRows
  <2>3. QED
    BY <2>1, <2>2 DEF Row, LeasedRow
<1>7. ASSUME NEW c \in Devices, SweepDelete(c)
      PROVE  outbox'[d][e] = outbox[d][e]
  BY <1>7 DEF SweepDelete, OutboxTypeOK
<1>8. ASSUME NEW c \in Devices, NEW x \in Events, Elapse(c, x), c # d
      PROVE  outbox'[d][e] = outbox[d][e]
  BY <1>8 DEF Elapse, OutboxTypeOK
<1>9. CASE UNCHANGED outbox
  BY <1>9, <1>3
<1>10. QED
  BY <1>2, <1>3, <1>4, <1>5, <1>6, <1>7, <1>8, <1>9, OutboxSteps
     DEF Dispose, SweepScan, PusherCrash

\* A sweep forgets its ids, or takes up those of the rows it does not admit.
LEMMA SweepChange ==
  ASSUME OutboxTypeOK, OutboxNext, NEW d \in Devices
  PROVE  \/ sweep'[d] \subseteq sweep[d]
         \/ /\ UNCHANGED <<outbox, lastRow>>
            /\ \E policy \in Policies : \A i \in sweep'[d] : \E e \in Events :
                 outbox[d][e] # None /\ ~Admits(policy, d, e) /\ i = outbox[d][e].id
<1>1. ASSUME NEW c \in Devices, NEW policy \in Policies, SweepScan(c, policy), c = d
      PROVE  /\ UNCHANGED <<outbox, lastRow>>
             /\ \A i \in sweep'[d] : \E e \in Events :
                  outbox[d][e] # None /\ ~Admits(policy, d, e) /\ i = outbox[d][e].id
  BY <1>1 DEF SweepScan, StillPending, OutboxTypeOK
<1>2. ASSUME NEW c \in Devices, NEW policy \in Policies, SweepScan(c, policy), c # d
      PROVE  sweep'[d] \subseteq sweep[d]
  BY <1>2 DEF SweepScan, OutboxTypeOK
<1>3. ASSUME NEW c \in Devices, SweepDelete(c)
      PROVE  sweep'[d] \subseteq sweep[d]
  BY <1>3 DEF SweepDelete, OutboxTypeOK
<1>4. CASE UNCHANGED sweep
  BY <1>4
<1>5. QED
  BY <1>1, <1>2, <1>3, <1>4, OutboxSteps
     DEF AppendEvent, Dispose, Elapse, Requeue, Lease, Settle, Ack, Return, PusherCrash

\* Ids are handed out upwards.
LEMMA RowCounterGrows ==
  ASSUME OutboxTypeOK, OutboxNext, NEW d \in Devices
  PROVE  lastRow'[d] \in Nat /\ lastRow[d] \in Nat /\ lastRow[d] <= lastRow'[d]
<1>0. lastRow[d] \in Nat
  BY OutboxAssumption DEF OutboxTypeOK
<1>1. ASSUME NEW c \in Devices, lastRow' = [lastRow EXCEPT ![c] = @ + 1]
      PROVE  lastRow'[d] \in Nat /\ lastRow[d] <= lastRow'[d]
  BY <1>0, <1>1 DEF OutboxTypeOK
<1>2. CASE UNCHANGED lastRow
  BY <1>0, <1>2
<1>3. QED
  BY <1>0, <1>1, <1>2, OutboxSteps
     DEF AppendEvent, Dispose, Elapse, Requeue, SweepDelete, SweepScan, Lease, Settle, Ack,
         Return, PusherCrash

\* No step gives an id twice, nor lets a sweep foresee one.
LEMMA IdsGivenStep ==
  ASSUME OutboxInv, IdsGiven, [OutboxNext]_outboxVars
  PROVE  IdsGiven'
<1>1. CASE UNCHANGED outboxVars
  BY <1>1 DEF outboxVars, IdsGiven
<1>2. CASE OutboxNext
  <2> USE <1>2 DEF OutboxInv
  <2>0. \A d \in Devices, e \in Events : outbox[d][e] # None => outbox[d][e].id \in Nat
    BY DEF OutboxTypeOK, Row
  <2>1. ASSUME NEW d \in Devices, NEW e \in Events, outbox'[d][e] # None
        PROVE  outbox'[d][e].id <= lastRow'[d]
    <3>1. CASE outbox[d][e] # None /\ outbox'[d][e].id = outbox[d][e].id
      BY <2>0, <3>1, RowCounterGrows DEF IdsGiven
    <3>2. CASE outbox'[d][e].id = lastRow[d] + 1 /\ lastRow' = [lastRow EXCEPT ![d] = @ + 1]
      BY <3>2, RowCounterGrows DEF OutboxTypeOK
    <3>3. QED
      BY <2>1, <3>1, <3>2, IdKept
  <2>2. ASSUME NEW d \in Devices, NEW e \in Events, NEW x \in Events,
               outbox'[d][e] # None, outbox'[d][x] # None,
               outbox'[d][e].id = outbox'[d][x].id
        PROVE  e = x
    <3>1. CASE outbox[d][e] # None /\ outbox'[d][e].id = outbox[d][e].id
      <4>1. CASE outbox[d][x] # None /\ outbox'[d][x].id = outbox[d][x].id
        BY <2>2, <3>1, <4>1 DEF IdsGiven
      <4>2. CASE outbox'[d][x].id = lastRow[d] + 1
        <5>1. outbox[d][e].id = lastRow[d] + 1
          BY <2>2, <3>1, <4>2
        <5>2. outbox[d][e].id <= lastRow[d] /\ lastRow[d] \in Nat
          BY <3>1, RowCounterGrows DEF IdsGiven
        <5>3. QED
          BY <5>1, <5>2
      <4>3. QED
        BY <2>2, <4>1, <4>2, IdKept
    <3>2. CASE /\ outbox[d][e] = None /\ outbox'[d][e].id = lastRow[d] + 1
               /\ \A y \in Events \ {e} : outbox'[d][y] = outbox[d][y]
      <4>1. SUFFICES ASSUME e # x
                     PROVE  FALSE
        OBVIOUS
      <4>2. outbox[d][x] # None /\ outbox[d][x].id = lastRow[d] + 1
        BY <2>2, <3>2, <4>1
      <4>3. QED
        BY <2>0, <4>2, RowCounterGrows DEF IdsGiven
    <3>3. QED
      BY <2>2, <3>1, <3>2, IdKept
  <2>3. ASSUME NEW d \in Devices, NEW i \in sweep'[d]
        PROVE  i <= lastRow'[d]
    <3>1. CASE i \in sweep[d]
      <4>1. i \in Nat /\ i <= lastRow[d]
        BY <3>1 DEF OutboxTypeOK, IdsGiven
      <4>2. QED
        BY <4>1, RowCounterGrows
    <3>2. CASE UNCHANGED lastRow /\ \E e \in Events : outbox[d][e] # None /\ i = outbox[d][e].id
      BY <3>2 DEF IdsGiven
    <3>3. QED
      BY <2>3, <3>1, <3>2, SweepChange
  <2>4. QED
    BY <2>1, <2>2, <2>3 DEF IdsGiven
<1>3. QED
  BY <1>1, <1>2

\* A row disappears only for a reason: a lease scan whose policy does not admit it, or
\* a sweep that had decided so.
LEMMA RowDropped ==
  ASSUME OutboxInv, OutboxNext, NEW d \in Devices, NEW e \in Events,
         outbox[d][e] # None, outbox'[d][e] = None
  PROVE  \/ \E policy \in Policies : ~Admits(policy, d, e)
         \/ outbox[d][e].id \in sweep[d]
<1>0. outbox'[d][e] # outbox[d][e]
  OBVIOUS
<1>1. outbox[d][e] \in Row
  BY DEF OutboxInv, OutboxTypeOK
<1>2. outbox'[d][e] # [outbox[d][e] EXCEPT !.due = TRUE]
  <2>1. [outbox[d][e] EXCEPT !.due = TRUE] \in Row
    BY <1>1 DEF Row
  <2>2. QED
    BY <2>1, RowAssumption
<1>3. ASSUME SweepDelete(d)
      PROVE  outbox[d][e].id \in sweep[d]
  BY <1>3 DEF SweepDelete, OutboxInv, OutboxTypeOK
<1>4. ASSUME NEW p \in Pushers, Settle(p)
      PROVE  FALSE
  <2>1. outbox'[d][e] \in Row
    BY <1>0, <1>4, SettledRow DEF OutboxInv
  <2>2. QED
    BY <2>1, RowAssumption
<1>5. ASSUME NEW p \in Pushers, NEW policy \in Policies, Lease(p, policy)
      PROVE  ~Admits(policy, d, e)
  BY <1>0, <1>5, LeaseLeaves, RowAssumption DEF OutboxInv
<1>6. QED
  BY <1>2, <1>3, <1>4, <1>5, RowChange

\* No step puts an active unit's row in a sweep's mind.
LEMMA SweepSparesActiveStep ==
  ASSUME "off" \notin Policies, ActiveInv, [OutboxNext]_outboxVars
  PROVE  SweepSparesActive'
<1> USE DEF ActiveInv
<1>1. CASE UNCHANGED outboxVars
  BY <1>1 DEF outboxVars, SweepSparesActive
<1>2. ASSUME OutboxNext, NEW d \in Devices, NEW e \in ActiveUnits, outbox'[d][e] # None,
             outbox'[d][e].id \in sweep'[d]
      PROVE  FALSE
  <2>0. e \in Events
    BY ZoneDataAssumption
  <2>1. CASE outbox'[d][e].id \in sweep[d]
    <3>1. CASE outbox[d][e] # None /\ outbox'[d][e].id = outbox[d][e].id
      BY <2>1, <3>1 DEF SweepSparesActive
    <3>2. CASE outbox'[d][e].id = lastRow[d] + 1
      <4>1. lastRow[d] + 1 <= lastRow[d] /\ lastRow[d] \in Nat
        BY <1>2, <2>1, <3>2, RowCounterGrows DEF IdsGiven, OutboxInv
      <4>2. QED
        BY <4>1
    <3>3. QED
      BY <1>2, <2>0, <3>1, <3>2, IdKept
  <2>2. ASSUME UNCHANGED outbox, NEW policy \in Policies, NEW x \in Events, outbox[d][x] # None,
               ~Admits(policy, d, x), outbox'[d][e].id = outbox[d][x].id
        PROVE  FALSE
    <3>1. x = e
      BY <1>2, <2>0, <2>2 DEF IdsGiven
    <3>2. QED
      BY <2>2, <3>1, ActiveAdmitted
  <2>3. QED
    BY <1>2, <2>1, <2>2, SweepChange DEF OutboxInv
<1>3. QED
  BY <1>1, <1>2 DEF SweepSparesActive

\* No step takes an active unit out of the queue.
LEMMA ActiveQueuedStep ==
  ASSUME "off" \notin Policies, ActiveInv, [OutboxNext]_outboxVars
  PROVE  ActiveUnitsStayQueued'
<1> USE DEF ActiveInv
<1>1. CASE UNCHANGED outboxVars
  BY <1>1 DEF outboxVars, ActiveUnitsStayQueued
<1>2. ASSUME OutboxNext, NEW d \in Devices, NEW e \in ActiveUnits, local'[d][e] = d
      PROVE  outbox'[d][e] # None
  <2>0. e \in Events
    BY ZoneDataAssumption
  <2>1. CASE outbox[d][e] # None
    <3>1. \A policy \in Policies : Admits(policy, d, e)
      BY ActiveAdmitted
    <3>2. outbox[d][e].id \notin sweep[d]
      BY <2>1 DEF SweepSparesActive
    <3>3. QED
      BY <1>2, <2>0, <2>1, <3>1, <3>2, RowDropped
  <2>2. CASE outbox[d][e] = None
    <3>1. local[d][e] # d
      BY <2>2 DEF ActiveUnitsStayQueued
    <3>2. ASSUME NEW c \in Devices, NEW x \in Events, AppendEvent(c, x)
          PROVE  outbox'[d][e] = NewRow(d) /\ lastRow[d] < MaxRows
      <4>1. c = d /\ x = e
        BY <1>2, <2>0, <3>1, <3>2 DEF AppendEvent, OutboxInv, OutboxTypeOK
      <4>2. QED
        BY <3>2, <4>1 DEF AppendEvent, OutboxInv, OutboxTypeOK
    <3>3. local' # local
      BY <1>2, <3>1
    <3>4. \E c \in Devices, x \in Events : AppendEvent(c, x)
      BY <1>2, <3>3, OutboxSteps
         DEF Dispose, Elapse, Requeue, SweepDelete, SweepScan, Lease, Settle, Ack, Return,
             PusherCrash
    <3>5. QED
      BY <3>2, <3>4, NewRowTyped, RowAssumption DEF OutboxInv
  <2>3. QED
    BY <2>1, <2>2
<1>3. QED
  BY <1>1, <1>2 DEF ActiveUnitsStayQueued

\* The invariant of the active units holds at first ...
LEMMA ActiveInvInit == OutboxInit => ActiveInv
<1>1. OutboxInit => IdsGiven /\ SweepSparesActive
  BY ZoneDataAssumption DEF OutboxInit, IdsGiven, SweepSparesActive
<1>2. OutboxInit => ActiveUnitsStayQueued
  BY ZoneDataAssumption DEF OutboxInit, ActiveUnitsStayQueued
<1>3. QED
  BY <1>1, <1>2, OutboxInvInit DEF ActiveInv

\* ... and every step keeps it.
LEMMA ActiveInvStep ==
  ASSUME "off" \notin Policies
  PROVE  ActiveInv /\ [OutboxNext]_outboxVars => ActiveInv'
BY OutboxInvStep, IdsGivenStep, SweepSparesActiveStep, ActiveQueuedStep DEF ActiveInv

\* As long as sync is run with a policy that sends units at all, an active unit
\* captured on a device keeps its row there (evaluateSyncAdmission, leaseOutbox,
\* skipNonAdmittedOutboxPending).
THEOREM ActiveUnitsSafe ==
  ASSUME "off" \notin Policies
  PROVE  OutboxSpec => []ActiveUnitsStayQueued
<1>1. OutboxInit => ActiveInv
  BY ActiveInvInit
<1>2. ActiveInv /\ [OutboxNext]_outboxVars => ActiveInv'
  BY ActiveInvStep
<1>3. ActiveInv => ActiveUnitsStayQueued
  BY DEF ActiveInv
<1>4. QED
  BY <1>1, <1>2, <1>3, PTL DEF OutboxSpec
=============================================================================
