-------------------------- MODULE SyncSystem_proofs --------------------------
(***************************************************************************)
(* Sync end to end, for any number of devices, events, pushers, pullers    *)
(* and concurrent requests, and without a bound on faults: what the client *)
(* tells the operator is true of the log, no pull skips a row, and every   *)
(* step implements a step of ZoneLog or none.                              *)
(*                                                                         *)
(* The system's steps are, for the Worker, steps of SyncWorker or the      *)
(* arrival of a request, and, for the store, steps of Outbox or the import *)
(* of a row.  So the invariants of the two parts carry over, and what is   *)
(* added says how they fit together: ConnInv what a pusher may rely on     *)
(* while it waits for an answer, OwnInv that every body anywhere was       *)
(* captured by the device it names, and PullInv what a half-imported page  *)
(* and the cursor cover.                                                   *)
(***************************************************************************)
EXTENDS SyncSystem, SyncWorker_proofs, Outbox_proofs, SequenceTheorems

\* The shape of the client's state.
ClientTypeOK ==
  /\ conn \in [Pushers -> Slots \cup {None}]
  /\ inbox \in [Devices -> [Events -> Devices \cup {None}]]
  /\ cursor \in [Devices -> Nat]
  /\ pull \in [Pullers -> Pulling \cup {None}]
  /\ faults \in 0 .. MaxFaults

\* A pusher that waits for an answer still holds its item, and the handler it waits
\* for, nobody else's, works on that item.
ConnInv ==
  /\ \A p \in Pushers : conn[p] # None =>
       /\ held[p] # None
       /\ job[conn[p]] # None
       /\ job[conn[p]].event = held[p].event
       /\ job[conn[p]].origin = DeviceOf[p]
  /\ \A p1, p2 \in Pushers : conn[p1] = conn[p2] /\ conn[p1] # None => p1 = p2

\* Device d captured event e itself.
Captured(d, e) == local[d][e] = d

\* Every body, wherever it is, was captured by the device it names.
OwnInv ==
  /\ \A d \in Devices, e \in Events : Captured(d, e) => d \in CapturedOn[e]
  /\ \A d \in Devices, e \in Events : local[d][e] # None => Captured(local[d][e], e)
  /\ \A d \in Devices, e \in Events : inbox[d][e] # None => Captured(inbox[d][e], e)
  /\ \A d \in Devices, e \in Events \ Evidence : local[d][e] # None => Captured(d, e)
  /\ \A d \in Devices, e \in Events : outbox[d][e] # None => Captured(d, e)
  /\ \A p \in Pushers : held[p] # None => Captured(DeviceOf[p], held[p].event)
  /\ \A h \in Slots : job[h] # None => Captured(job[h].origin, job[h].event)
  /\ \A e \in Events, d \in Devices : objects[e][d] # None => Captured(d, e)
  /\ \A row \in canonical : Captured(row.origin, row.event)

\* Device d holds the body of a row.
Holds(d, row) == row.origin \in {local[d][row.event], inbox[d][row.event]}

OnPage(page, row) == \E i \in DOMAIN page : page[i] = row

\* The rows at or below a cursor are held; those of a page in the middle of its import
\* are held or still to come.
PullOK(q) ==
  pull[q] # None =>
    /\ pull[q].next <= zoneCounter
    /\ pull[q].at = "ask" => pull[q].page = <<>>
    /\ \A i \in DOMAIN pull[q].page : pull[q].page[i] \in canonical
    /\ \A row \in canonical : row.seq <= pull[q].next =>
         Holds(PullsFor[q], row) \/ OnPage(pull[q].page, row)

PullInv ==
  /\ \A d \in Devices : cursor[d] <= zoneCounter
  /\ CursorCovered
  /\ \A q \in Pullers : PullOK(q)

SystemInv ==
  /\ WorkerInv
  /\ OutboxInv
  /\ ClientTypeOK
  /\ ConnInv
  /\ OwnInv
  /\ PullInv
  /\ DeliveredIsLogged

-----------------------------------------------------------------------------
(* What a step is for the Worker and for the stores *)

\* The steps, one by one.
LEMMA SystemSteps ==
  ASSUME SystemNext
  PROVE  \/ StoreStep
         \/ \E p \in Pushers :
              \/ LeaseOne(p) \/ BlockForeign(p) \/ \E h \in Slots : SendHead(p, h)
              \/ SendPut(p) \/ SendPush(p) \/ Delivered(p) \/ Blocked(p) \/ Retried(p)
              \/ ConnectionLost(p) \/ PushCrash(p)
         \/ \E h \in Slots : ServeStep(h) \/ Unheard(h) \/ ServerFault(h)
         \/ \E q \in Pullers :
              \/ PullAsk(q) \/ PullServe(q) \/ PullImport(q) \/ PullAbort(q)
              \/ PullCommit(q) \/ PullCrash(q)
BY DEF SystemNext, PushStep, PullStep

\* A pusher's request, for a body its device captured, reaches the Worker.
RequestSent(h) ==
  /\ \E op \in {"put", "read", "push"}, e \in Events, d \in Devices,
        w \in Attempts \cup {None}, r \in BOOLEAN :
       /\ op = "put" => w \in Attempts
       /\ Captured(d, e)
       /\ job' = [job EXCEPT ![h] = Request(op, e, d, w, r)]
  /\ UNCHANGED <<syncRequests, zoneCounter, canonical, uploads, links, objects>>

\* The next request of a pusher that waits names the body it holds.
LEMMA NextRequest ==
  ASSUME ConnInv, OwnInv, ClientTypeOK, OutboxTypeOK, NEW p \in Pushers, conn[p] # None,
         NEW op \in {"put", "push"}, NEW w \in Attempts \cup {None}, NEW r \in BOOLEAN,
         op = "put" => w \in Attempts,
         SendNext(p, Request(op, job[conn[p]].event, job[conn[p]].origin, w, r))
  PROVE  conn[p] \in Slots /\ RequestSent(conn[p])
<1>1. conn[p] \in Slots
  BY DEF ClientTypeOK
<1>2. held[p] # None /\ job[conn[p]].event = held[p].event
      /\ job[conn[p]].origin = DeviceOf[p]
  BY DEF ConnInv
<1>3. job[conn[p]].event \in Events /\ job[conn[p]].origin \in Devices
  BY <1>2, OutboxAssumption DEF Item, OutboxTypeOK
<1>4. Captured(job[conn[p]].origin, job[conn[p]].event)
  BY <1>2 DEF OwnInv
<1>5. QED
  BY <1>1, <1>3, <1>4 DEF SendNext, RequestSent

\* A pusher that hangs up releases the handler that has answered it.
LEMMA HangUpReleases ==
  ASSUME ClientTypeOK, NEW p \in Pushers, conn[p] # None,
         job[conn[p]] # None, job[conn[p]].at = "done", HangUp(p)
  PROVE  conn[p] \in Slots /\ Release(conn[p])
BY DEF ClientTypeOK, HangUp, Release

\* For the Worker a step of the system is a handler's step or a pusher's request.
LEMMA WorkerView ==
  ASSUME SystemInv, [SystemNext]_systemVars
  PROVE  \/ UNCHANGED workerVars
         \/ \E h \in Slots : Serve(h) \/ Fail(h) \/ Release(h) \/ RequestSent(h)
<1> USE DEF SystemInv
<1>1. ASSUME NEW p \in Pushers, NEW h \in Slots, SendHead(p, h)
      PROVE  RequestSent(h)
  <2>1. held[p].event \in Events /\ DeviceOf[p] \in Devices
    BY <1>1, OutboxAssumption DEF SendHead, OutboxInv, OutboxTypeOK, Item
  <2>2. Captured(DeviceOf[p], held[p].event)
    BY <1>1 DEF SendHead, OwnInv
  <2>3. QED
    BY <1>1, <2>1, <2>2 DEF SendHead, Receive, RequestSent
<1>2. ASSUME NEW p \in Pushers, SendPut(p)
      PROVE  \E h \in Slots : RequestSent(h)
  <2>1. conn[p] # None /\ SendNext(p, Request("put", job[conn[p]].event, job[conn[p]].origin,
                                            held[p].lease, FALSE))
    BY <1>2 DEF SendPut, Answered
  <2>2. held[p].lease \in Attempts
    BY <2>1 DEF ConnInv, OutboxInv, OutboxTypeOK, Item
  <2>3. QED
    BY <2>1, <2>2, NextRequest DEF OutboxInv
<1>3. ASSUME NEW p \in Pushers, SendPush(p)
      PROVE  \E h \in Slots : RequestSent(h)
  <2>1. conn[p] # None /\ SendNext(p, Request("push", job[conn[p]].event, job[conn[p]].origin,
                                            None, TRUE))
    BY <1>3 DEF SendPush, Answered
  <2>2. QED
    BY <2>1, NextRequest DEF OutboxInv
<1>4. ASSUME NEW p \in Pushers, Delivered(p) \/ Blocked(p) \/ Retried(p)
      PROVE  \E h \in Slots : Release(h)
  <2>1. HangUp(p) /\ conn[p] # None /\ job[conn[p]] # None /\ job[conn[p]].at = "done"
    BY <1>4 DEF Delivered, Blocked, Retried, Answered, At
  <2>2. QED
    BY <2>1, HangUpReleases
<1>5. ASSUME NEW h \in Slots, ServeStep(h) \/ Unheard(h) \/ ServerFault(h)
      PROVE  Serve(h) \/ Fail(h) \/ Release(h)
  BY <1>5 DEF ServeStep, Unheard, ServerFault
<1>6. ASSUME \/ StoreStep
             \/ \E p \in Pushers :
                  LeaseOne(p) \/ BlockForeign(p) \/ ConnectionLost(p) \/ PushCrash(p)
             \/ \E q \in Pullers :
                  \/ PullAsk(q) \/ PullServe(q) \/ PullImport(q) \/ PullAbort(q)
                  \/ PullCommit(q) \/ PullCrash(q)
      PROVE  UNCHANGED workerVars
  BY <1>6 DEF StoreStep, LeaseOne, BlockForeign, ConnectionLost, PushCrash, PullAsk,
     PullServe, PullImport, PullAbort, PullCommit, PullCrash
<1>7. CASE UNCHANGED systemVars
  BY <1>7 DEF systemVars
<1>8. CASE SystemNext
  BY <1>1, <1>2, <1>3, <1>4, <1>5, <1>6, <1>8, SystemSteps
<1>9. QED
  BY <1>7, <1>8

\* The import of a row by device d: it becomes an event of the device if it is evidence
\* that the device does not hold yet.
Imports(d, row) ==
  /\ local' = IF Known(d, row.event) = None /\ row.event \in Evidence
                THEN [local EXCEPT ![d][row.event] = row.origin] ELSE local
  /\ UNCHANGED <<promoted, outbox, lastRow, lastAttempt, held, sweep>>

\* For the stores it is a step of theirs or the import of a row of the log.
LEMMA StoreView ==
  ASSUME SystemInv, [SystemNext]_systemVars
  PROVE  \/ [OutboxNext]_outboxVars
         \/ \E d \in Devices, row \in canonical : Imports(d, row)
<1> USE DEF SystemInv
<1>1. ASSUME NEW q \in Pullers, PullImport(q)
      PROVE  \E d \in Devices, row \in canonical : Imports(d, row)
  <2>1. pull[q].page \in Seq(LogRow) /\ pull[q].page # <<>>
    BY <1>1 DEF PullImport, ClientTypeOK, Pulling
  <2>2. Head(pull[q].page) = pull[q].page[1] /\ 1 \in DOMAIN pull[q].page
    BY <2>1
  <2>3. Head(pull[q].page) \in canonical
    BY <1>1, <2>2 DEF PullImport, PullInv, PullOK
  <2>4. PullsFor[q] \in Devices
    BY SyncSystemAssumption
  <2>5. Imports(PullsFor[q], Head(pull[q].page))
    BY <1>1 DEF PullImport, Imports
  <2>6. QED
    BY <2>3, <2>4, <2>5
<1>2. ASSUME StoreStep
      PROVE  OutboxNext
  BY <1>2 DEF StoreStep, OutboxNext
<1>3. ASSUME NEW p \in Pushers,
             LeaseOne(p) \/ BlockForeign(p) \/ Delivered(p) \/ Blocked(p) \/ Retried(p)
               \/ ConnectionLost(p) \/ PushCrash(p)
      PROVE  OutboxNext
  BY <1>3 DEF LeaseOne, BlockForeign, Delivered, Blocked, Retried, ConnectionLost, PushCrash,
     OutboxNext
<1>4. ASSUME \/ \E p \in Pushers :
                  SendPut(p) \/ SendPush(p) \/ \E h \in Slots : SendHead(p, h)
             \/ \E h \in Slots : ServeStep(h) \/ Unheard(h) \/ ServerFault(h)
             \/ \E q \in Pullers :
                  PullAsk(q) \/ PullServe(q) \/ PullAbort(q) \/ PullCommit(q) \/ PullCrash(q)
      PROVE  UNCHANGED outboxVars
  BY <1>4 DEF SendPut, SendPush, SendNext, SendHead, ServeStep, Unheard, ServerFault, PullAsk,
     PullServe, PullAbort, PullCommit, PullCrash
<1>5. CASE UNCHANGED systemVars
  BY <1>5 DEF systemVars
<1>6. CASE SystemNext
  BY <1>1, <1>2, <1>3, <1>4, <1>6, SystemSteps
<1>7. QED
  BY <1>5, <1>6

-----------------------------------------------------------------------------
(* The invariants of the two parts carry over *)

\* A request that arrives disturbs nothing the Worker guarantees.
LEMMA RequestKeeps ==
  ASSUME WorkerInv, NEW h \in Slots, RequestSent(h)
  PROVE  WorkerInv'
<1> USE DEF WorkerInv
<1>1. PICK op \in {"put", "read", "push"}, e \in Events, d \in Devices,
           w \in Attempts \cup {None}, r \in BOOLEAN :
        /\ op = "put" => w \in Attempts
        /\ job' = [job EXCEPT ![h] = Request(op, e, d, w, r)]
  BY DEF RequestSent
<1>2. UNCHANGED <<syncRequests, zoneCounter, canonical, uploads, links, objects>>
  BY DEF RequestSent
<1>3. Request(op, e, d, w, r) \in Job
  BY RequestTyped
<1>4. WorkerTypeOK'
  BY <1>1, <1>2, <1>3 DEF WorkerTypeOK
<1>5. /\ \A g \in Slots \ {h} : job'[g] = job[g]
      /\ job'[h] = Request(op, e, d, w, r)
  BY <1>1 DEF WorkerTypeOK
<1>6. /\ job'[h].op = op /\ job'[h].wrap = w
      /\ job'[h].at \in {"head", "row", "lookup"}
      /\ op = "push" => job'[h].at = "lookup"
  BY <1>5 DEF Request, FirstStage
<1>7. HandlerOK(h)'
  BY <1>1, <1>6 DEF HandlerOK
<1>8. HandlerInv'
  BY <1>2, <1>5, <1>7 DEF HandlerInv, HandlerOK
<1>9. AnswersAreTrue'
  <2>1. job'[h].at # "done"
    BY <1>6
  <2>2. QED
    BY <1>2, <1>5, <2>1 DEF AnswersAreTrue
<1>10. QED
  BY <1>2, <1>4, <1>8, <1>9
     DEF RowStored, SequenceIntegrity, LoggedValueStored, LinkedRowLogged

\* Nor does the import of a row what the stores guarantee.
LEMMA ImportKeeps ==
  ASSUME OutboxInv, NEW d \in Devices, NEW row \in LogRow, Imports(d, row)
  PROVE  OutboxInv'
<1> USE DEF OutboxInv
<1>1. row.event \in Events /\ row.origin \in Devices
  BY DEF LogRow
<1>2. CASE local' = local
  BY <1>2 DEF Imports, OutboxTypeOK, RowHasEvent
<1>3. CASE local' = [local EXCEPT ![d][row.event] = row.origin]
  <2>1. OutboxTypeOK'
    BY <1>1, <1>3 DEF Imports, OutboxTypeOK
  <2>2. RowHasEvent'
    BY <1>1, <1>3, ZoneDataAssumption DEF Imports, OutboxTypeOK, RowHasEvent
  <2>3. QED
    BY <2>1, <2>2
<1>4. QED
  BY <1>2, <1>3 DEF Imports

\* So they hold throughout.
LEMMA PartsStep ==
  ASSUME SystemInv, [SystemNext]_systemVars
  PROVE  WorkerInv' /\ OutboxInv'
<1>1. WorkerInv'
  BY WorkerView, WorkerInvStep, RequestKeeps DEF SystemInv, WorkerNext
<1>2. canonical \subseteq LogRow
  BY DEF SystemInv, WorkerInv, WorkerTypeOK
<1>3. OutboxInv'
  BY <1>2, StoreView, OutboxInvStep, ImportKeeps DEF SystemInv
<1>4. QED
  BY <1>1, <1>3

\* The log changes only by the acceptance of a push: a handler's event gets the next
\* number, if its key is free.
LEMMA LogStep ==
  ASSUME SystemInv, [SystemNext]_systemVars
  PROVE  \/ UNCHANGED <<syncRequests, zoneCounter, canonical>>
         \/ \E h \in Slots :
              /\ job[h] # None
              /\ syncRequests[KeyOf[job[h].event]] = None
              /\ zoneCounter' = zoneCounter + 1
              /\ canonical' = canonical \cup
                   {[seq |-> zoneCounter + 1, event |-> job[h].event, origin |-> job[h].origin]}
<1>1. CASE \E h \in Slots : PushAccept(h)
  BY <1>1, Zenon DEF PushAccept, At, KeyTaken, NextSequence
<1>2. CASE \E h \in Slots : RequestSent(h)
  BY <1>2 DEF RequestSent
<1>3. CASE \E h \in Slots :
             \/ PutHead(h) \/ PutStored(h) \/ PutObject(h) \/ PutUpsert(h)
             \/ ReadRow(h) \/ ReadObject(h) \/ ReadHeal(h)
             \/ PushLookup(h) \/ PushReceipt(h) \/ PushHead(h)
             \/ Fail(h) \/ Release(h)
  BY <1>3 DEF PutHead, PutStored, PutObject, PutUpsert, ReadRow, ReadObject,
     ReadHeal, PushLookup, PushReceipt, PushHead, Fail, Release
<1>4. CASE UNCHANGED workerVars
  BY <1>4 DEF workerVars
<1>5. QED
  BY <1>1, <1>2, <1>3, <1>4, WorkerView DEF Serve

\* It never loses a row.
LEMMA LogKeeps ==
  ASSUME SystemInv, [SystemNext]_systemVars
  PROVE  canonical \subseteq canonical'
BY LogStep

-----------------------------------------------------------------------------
(* Where bodies come from *)

\* A store gains an event by its capture or by the import of a row.
LEMMA LocalChange ==
  ASSUME SystemInv, [SystemNext]_systemVars
  PROVE  \/ local' = local
         \/ \E d \in Devices, e \in Events :
              /\ d \in CapturedOn[e] /\ local[d][e] = None
              /\ local' = [local EXCEPT ![d][e] = d]
         \/ \E d \in Devices, row \in canonical :
              /\ Known(d, row.event) = None /\ row.event \in Evidence
              /\ local' = [local EXCEPT ![d][row.event] = row.origin]
<1>1. CASE \E d \in Devices, row \in canonical : Imports(d, row)
  BY <1>1 DEF Imports
<1>2. CASE UNCHANGED outboxVars
  BY <1>2 DEF outboxVars
<1>3. CASE OutboxNext
  <2>1. ASSUME NEW d \in Devices, NEW e \in Events, AppendEvent(d, e)
        PROVE  /\ d \in CapturedOn[e] /\ local[d][e] = None
               /\ local' = [local EXCEPT ![d][e] = d]
    BY <2>1 DEF AppendEvent, KnownKeys
  <2>2. CASE UNCHANGED local
    BY <2>2
  <2>3. QED
    BY <1>3, <2>1, <2>2, OutboxSteps
       DEF Dispose, Elapse, Requeue, SweepDelete, SweepScan, Lease, Settle, Ack, Return,
           PusherCrash
<1>4. QED
  BY <1>1, <1>2, <1>3, StoreView

\* What a store holds of an event stays.
LEMMA LocalStays ==
  ASSUME SystemInv, [SystemNext]_systemVars, NEW d \in Devices, NEW e \in Events,
         local[d][e] # None
  PROVE  local'[d][e] = local[d][e]
<1>1. local \in [Devices -> [Events -> Devices \cup {None}]]
  BY DEF SystemInv, OutboxInv, OutboxTypeOK
<1>2. ASSUME NEW c \in Devices, NEW x \in Events, NEW o, local[c][x] = None,
             local' = [local EXCEPT ![c][x] = o]
      PROVE  local'[d][e] = local[d][e]
  BY <1>1, <1>2
<1>3. ASSUME NEW c \in Devices, NEW row \in canonical, Known(c, row.event) = None
      PROVE  local[c][row.event] = None /\ row.event \in Events
  BY <1>3 DEF Known, SystemInv, WorkerInv, WorkerTypeOK, LogRow
<1>4. CASE \E c \in Devices, x \in Events :
             local[c][x] = None /\ local' = [local EXCEPT ![c][x] = c]
  BY <1>2, <1>4
<1>5. CASE \E c \in Devices, row \in canonical :
             /\ Known(c, row.event) = None
             /\ local' = [local EXCEPT ![c][row.event] = row.origin]
  <2>1. PICK c \in Devices, row \in canonical :
          /\ Known(c, row.event) = None
          /\ local' = [local EXCEPT ![c][row.event] = row.origin]
    BY <1>5
  <2>2. local[c][row.event] = None /\ row.event \in Events
    BY <1>3, <2>1
  <2>3. QED
    BY <1>2, <2>1, <2>2
<1>6. QED
  BY <1>4, <1>5, LocalChange

\* So does what its inbox holds; it gains a body by the import of a row.
LEMMA InboxChange ==
  ASSUME SystemInv, [SystemNext]_systemVars
  PROVE  \/ inbox' = inbox
         \/ \E d \in Devices, row \in canonical :
              /\ Known(d, row.event) = None
              /\ inbox' = [inbox EXCEPT ![d][row.event] = row.origin]
<1>1. ASSUME NEW q \in Pullers, PullImport(q), inbox' # inbox
      PROVE  \E d \in Devices, row \in canonical :
               /\ Known(d, row.event) = None
               /\ inbox' = [inbox EXCEPT ![d][row.event] = row.origin]
  <2>1. pull[q].page \in Seq(LogRow) /\ pull[q].page # <<>>
    BY <1>1 DEF PullImport, SystemInv, ClientTypeOK, Pulling
  <2>2. Head(pull[q].page) = pull[q].page[1] /\ 1 \in DOMAIN pull[q].page
    BY <2>1
  <2>3. Head(pull[q].page) \in canonical
    BY <1>1, <2>2 DEF PullImport, SystemInv, PullInv, PullOK
  <2>4. QED
    BY <1>1, <2>3, SyncSystemAssumption DEF PullImport
<1>2. ASSUME \/ UNCHANGED systemVars \/ StoreStep
             \/ \E p \in Pushers :
                  \/ LeaseOne(p) \/ BlockForeign(p) \/ \E h \in Slots : SendHead(p, h)
                  \/ SendPut(p) \/ SendPush(p) \/ Delivered(p) \/ Blocked(p) \/ Retried(p)
                  \/ ConnectionLost(p) \/ PushCrash(p)
             \/ \E h \in Slots : ServeStep(h) \/ Unheard(h) \/ ServerFault(h)
             \/ \E q \in Pullers :
                  PullAsk(q) \/ PullServe(q) \/ PullAbort(q) \/ PullCommit(q) \/ PullCrash(q)
      PROVE  inbox' = inbox
  BY <1>2 DEF systemVars, clientVars, StoreStep, LeaseOne, BlockForeign, SendHead, SendPut,
     SendPush, SendNext, Delivered, Blocked, Retried, HangUp, ConnectionLost, PushCrash,
     ServeStep, Unheard, ServerFault, PullAsk, PullServe, PullAbort, PullCommit, PullCrash
<1>3. QED
  BY <1>1, <1>2, SystemSteps

LEMMA InboxStays ==
  ASSUME SystemInv, [SystemNext]_systemVars, NEW d \in Devices, NEW e \in Events,
         inbox[d][e] # None
  PROVE  inbox'[d][e] = inbox[d][e]
<1>1. inbox \in [Devices -> [Events -> Devices \cup {None}]]
  BY DEF SystemInv, ClientTypeOK
<1>2. ASSUME NEW c \in Devices, NEW row \in canonical, Known(c, row.event) = None,
             inbox' = [inbox EXCEPT ![c][row.event] = row.origin]
      PROVE  inbox'[d][e] = inbox[d][e]
  <2>1. inbox[c][row.event] = None /\ row.event \in Events
    BY <1>2 DEF Known, SystemInv, WorkerInv, WorkerTypeOK, LogRow
  <2>2. QED
    BY <1>1, <1>2, <2>1
<1>3. QED
  BY <1>2, InboxChange

\* What a device has captured it has captured for good.
LEMMA CapturedStays ==
  ASSUME SystemInv, [SystemNext]_systemVars, NEW d \in Devices, NEW e \in Events,
         Captured(d, e)
  PROVE  Captured(d, e)'
BY LocalStays, ZoneDataAssumption DEF Captured

\* A row appears in the outbox for a fresh capture or for a unit of the store.
LEMMA RowAppears ==
  ASSUME OutboxInv, OutboxNext, NEW d \in Devices, NEW e \in Events,
         outbox[d][e] = None, outbox'[d][e] # None
  PROVE  \/ local'[d][e] = d
         \/ e \notin Evidence /\ local[d][e] # None
<1> USE DEF OutboxInv
<1>1. ASSUME NEW c \in Devices, NEW x \in Events, AppendEvent(c, x)
      PROVE  local'[d][e] = d
  <2>1. d = c /\ e = x
    BY <1>1 DEF AppendEvent, OutboxTypeOK
  <2>2. QED
    BY <1>1, <2>1 DEF AppendEvent, OutboxTypeOK
<1>2. ASSUME NEW c \in Devices, NEW x \in Events, NEW policy \in Policies,
             Requeue(c, x, policy)
      PROVE  e \notin Evidence /\ local[d][e] # None
  <2>1. d = c /\ e = x
    BY <1>2 DEF Requeue, OutboxTypeOK
  <2>2. QED
    BY <1>2, <2>1 DEF Requeue
<1>3. ASSUME NEW c \in Devices, NEW x \in Events, Elapse(c, x)
      PROVE  FALSE
  BY <1>3 DEF Elapse, OutboxTypeOK
<1>4. ASSUME NEW c \in Devices, SweepDelete(c)
      PROVE  FALSE
  BY <1>4 DEF SweepDelete, OutboxTypeOK
<1>5. ASSUME NEW p \in Pushers, NEW policy \in Policies, Lease(p, policy)
      PROVE  FALSE
  BY <1>5, LeaseRows DEF Leasable
<1>6. ASSUME NEW p \in Pushers, Settle(p)
      PROVE  FALSE
  BY <1>6, HeldRow
<1>7. QED
  BY <1>1, <1>2, <1>3, <1>4, <1>5, <1>6, OutboxSteps DEF Dispose, SweepScan, PusherCrash

\* The store on its own leaves the items alone.
LEMMA StoreKeepsHeld == StoreNext => held' = held
BY DEF StoreNext, Capture, Propose, AppendEvent, Dispose, Elapse, SweepScan, Requeue,
   SweepDelete

\* A pusher takes an item only of its device's queue.
LEMMA ItemAppears ==
  ASSUME OutboxInv, OutboxNext, NEW p \in Pushers, held'[p] # None, held'[p] # held[p]
  PROVE  held'[p].event \in Events /\ outbox[DeviceOf[p]][held'[p].event] # None
<1>1. ASSUME NEW o \in Pushers, NEW policy \in Policies, Lease(o, policy)
      PROVE  held'[p].event \in Events /\ outbox[DeviceOf[p]][held'[p].event] # None
  <2> DEFINE c        == DeviceOf[o]
             admitted == {x \in Leasable(c) : Admits(policy, c, x)}
             heads    == {x \in admitted : \A y \in admitted :
                            outbox[c][x].id <= outbox[c][y].id}
             item     == [event |-> CHOOSE x \in heads : TRUE, lease |-> lastAttempt + 1]
  <2>1. IF heads = {} THEN held' = held ELSE held' = [held EXCEPT ![o] = item]
    BY <1>1 DEF Lease
  <2>2. heads \subseteq Leasable(c)
    OBVIOUS
  <2>3. heads # {} => item.event \in heads
    OBVIOUS
  <2> HIDE DEF heads, item
  <2>4. p = o /\ held'[p] = item /\ heads # {}
    BY <2>1 DEF OutboxInv, OutboxTypeOK
  <2>5. QED
    BY <2>2, <2>3, <2>4 DEF Leasable
<1>2. ASSUME NEW o \in Pushers, Settle(o) \/ PusherCrash(o)
      PROVE  FALSE
  BY <1>2 DEF Settle, Ack, Return, PusherCrash, OutboxInv, OutboxTypeOK
<1>3. QED
  BY <1>1, <1>2, StoreKeepsHeld DEF OutboxNext, Settle

-----------------------------------------------------------------------------
(* Pages *)

\* The rows a pull is about to see.
Above(after) == {r \in canonical : r.seq > after}

\* Pages are what handlePull says: there is a first page of the rows above a cursor,
\* because the zone's numbers have no gaps, and PageAfter is one.
LEMMA PageTaken ==
  ASSUME WorkerInv, NEW after \in Nat
  PROVE  /\ PageAfter(after) \in Seq(Above(after))
         /\ IsPage(PageAfter(after), Above(after))
<1> DEFINE left  == IF zoneCounter <= after THEN 0 ELSE zoneCounter - after
           n     == IF left < PullLimit THEN left ELSE PullLimit
           first == [i \in 1 .. n |-> CHOOSE r \in canonical : r.seq = after + i]
           pages == UNION {[1 .. k -> Above(after)] : k \in 0 .. PullLimit}
<1>1. zoneCounter \in Nat /\ PullLimit \in Nat /\ canonical \subseteq LogRow
  BY SyncSystemAssumption DEF WorkerInv, WorkerTypeOK
<1>2. n \in 0 .. PullLimit /\ (n # 0 => after + n <= zoneCounter)
      /\ (n # PullLimit => n = left)
  BY <1>1
<1>3. /\ \A k \in 1 .. zoneCounter : \E r \in canonical : r.seq = k
      /\ \A r \in canonical : r.seq \in 1 .. zoneCounter
      /\ \A r1, r2 \in canonical : r1.seq = r2.seq => r1 = r2
  BY DEF WorkerInv, SequenceIntegrity
<1>4. ASSUME NEW i \in 1 .. n
      PROVE  first[i] \in canonical /\ first[i].seq = after + i
  <2>1. after + i \in 1 .. zoneCounter
    BY <1>1, <1>2
  <2>2. \E r \in canonical : r.seq = after + i
    BY <1>3, <2>1
  <2>3. QED
    BY <2>2
<1>5. n \in Nat
  BY <1>1, <1>2
<1>6. DOMAIN first = 1 .. n
  OBVIOUS
<1> HIDE DEF first, n
<1>7. first \in [1 .. n -> Above(after)]
  <2>1. \A i \in 1 .. n : first[i] \in Above(after)
    BY <1>4, <1>5 DEF Above
  <2>2. first = [i \in 1 .. n |-> first[i]]
    BY DEF first
  <2>3. QED
    BY <2>1, <2>2
<1>8. first \in pages
  BY <1>2, <1>7
<1>9. \A i, j \in DOMAIN first : i < j => first[i].seq < first[j].seq
  BY <1>4, <1>5, <1>6
<1>10. first \in Seq(Above(after)) /\ Len(first) = n
  BY <1>5, <1>7, SeqDef
<1>11. ASSUME NEW r \in Above(after) \ {first[i] : i \in DOMAIN first}
       PROVE  Len(first) = PullLimit /\ \A i \in DOMAIN first : first[i].seq < r.seq
  <2>1. r \in canonical /\ r.seq \in 1 .. zoneCounter /\ r.seq > after
    BY <1>3 DEF Above
  <2>2. r.seq > after + n
    <3>1. SUFFICES ASSUME r.seq <= after + n PROVE FALSE
      BY <1>5, <2>1
    <3>2. r.seq - after \in 1 .. n
      BY <1>1, <1>5, <2>1, <3>1
    <3>3. first[r.seq - after] \in canonical /\ first[r.seq - after].seq = r.seq
      BY <1>1, <1>4, <2>1, <3>2
    <3>4. QED
      BY <1>3, <1>6, <2>1, <3>2, <3>3
  <2>3. n = PullLimit
    BY <1>1, <1>2, <1>5, <2>1, <2>2
  <2>4. QED
    BY <1>1, <1>4, <1>5, <1>6, <1>10, <2>1, <2>2, <2>3
<1>12. IsPage(first, Above(after))
  BY <1>9, <1>11 DEF IsPage
<1>13. PageAfter(after) \in pages /\ IsPage(PageAfter(after), Above(after))
  <2>1. PageAfter(after) = CHOOSE page \in pages : IsPage(page, Above(after))
    BY DEF PageAfter, Above
  <2> HIDE DEF pages
  <2>2. QED
    BY <1>8, <1>12, <2>1
<1>14. \A k \in 0 .. PullLimit : [1 .. k -> Above(after)] \subseteq Seq(Above(after))
  BY <1>1, SeqDef
<1>15. QED
  BY <1>13, <1>14

\* The rest of a page: what is not its head is on its tail, and the other way round.
LEMMA TailOfPage ==
  ASSUME NEW S, NEW page \in Seq(S), page # <<>>
  PROVE  /\ Head(page) = page[1] /\ 1 \in DOMAIN page
         /\ \A i \in DOMAIN Tail(page) : i + 1 \in DOMAIN page /\ Tail(page)[i] = page[i + 1]
         /\ \A row : OnPage(page, row) => row = Head(page) \/ OnPage(Tail(page), row)
<1>1. /\ Tail(page) \in Seq(S) /\ Len(Tail(page)) = Len(page) - 1
      /\ \A i \in 1 .. Len(Tail(page)) : Tail(page)[i] = page[i + 1]
  BY HeadTailProperties
<1>2. DOMAIN Tail(page) = 1 .. Len(Tail(page)) /\ DOMAIN page = 1 .. Len(page)
      /\ Len(page) \in Nat \ {0}
  BY <1>1, LenProperties, EmptySeq
<1>3. Head(page) = page[1]
  OBVIOUS
<1>4. ASSUME NEW i \in DOMAIN page, i # 1
      PROVE  i - 1 \in DOMAIN Tail(page) /\ Tail(page)[i - 1] = page[i]
  BY <1>1, <1>2, <1>4
<1>5. QED
  BY <1>1, <1>2, <1>3, <1>4 DEF OnPage

-----------------------------------------------------------------------------
(* The client's own state *)

\* The client's tables keep their shape.
LEMMA ClientTypeStep ==
  ASSUME SystemInv, [SystemNext]_systemVars
  PROVE  ClientTypeOK'
<1> USE DEF ClientTypeOK
<1>0. ClientTypeOK /\ canonical \subseteq LogRow /\ zoneCounter \in Nat
  BY DEF SystemInv, WorkerInv, WorkerTypeOK
<1>1. ASSUME NEW p \in Pushers, NEW h \in Slots, SendHead(p, h)
      PROVE  ClientTypeOK'
  BY <1>0, <1>1 DEF SendHead
<1>2. ASSUME NEW p \in Pushers, Delivered(p) \/ Blocked(p) \/ Retried(p)
      PROVE  ClientTypeOK'
  BY <1>0, <1>2 DEF Delivered, Blocked, Retried, HangUp
<1>3. ASSUME NEW p \in Pushers, ConnectionLost(p) \/ PushCrash(p)
      PROVE  ClientTypeOK'
  <2>1. faults' \in 0 .. MaxFaults
    <3>1. Fault
      BY <1>3 DEF ConnectionLost, PushCrash
    <3>2. QED
      BY <1>0, <3>1, SyncSystemAssumption DEF Fault
  <2>2. conn' = [conn EXCEPT ![p] = None] /\ UNCHANGED <<inbox, cursor, pull>>
    BY <1>3 DEF ConnectionLost, PushCrash
  <2>3. QED
    BY <1>0, <2>1, <2>2
<1>4. ASSUME NEW h \in Slots, ServerFault(h)
      PROVE  ClientTypeOK'
  BY <1>0, <1>4, SyncSystemAssumption DEF ServerFault, Fault
<1>5. ASSUME NEW q \in Pullers, PullAsk(q)
      PROVE  ClientTypeOK'
  <2>1. [at |-> "ask", next |-> cursor[PullsFor[q]], page |-> <<>>] \in Pulling
    BY <1>0, SyncSystemAssumption DEF Pulling
  <2>2. QED
    BY <1>0, <1>5, <2>1 DEF PullAsk
<1>6. ASSUME NEW q \in Pullers, PullServe(q)
      PROVE  ClientTypeOK'
  <2> DEFINE page == PageAfter(pull[q].next)
             next == IF page = <<>> THEN pull[q].next ELSE page[Len(page)].seq
  <2>1. pull[q] \in Pulling
    BY <1>0, <1>6 DEF PullServe
  <2>2. page \in Seq(Above(pull[q].next))
    BY <2>1, PageTaken DEF Pulling, SystemInv
  <2>3. page \in Seq(LogRow)
    BY <1>0, <2>2, SeqMonotonic DEF Above
  <2>4. next \in Nat
    <3>1. CASE page = <<>>
      BY <2>1, <3>1 DEF Pulling
    <3>2. CASE page # <<>>
      <4>1. Len(page) \in 1 .. Len(page)
        BY <2>3, <3>2, EmptySeq
      <4>2. page[Len(page)] \in LogRow
        BY <2>3, <4>1, ElementOfSeq
      <4>3. QED
        BY <3>2, <4>2 DEF LogRow
    <3>3. QED
      BY <3>1, <3>2
  <2>5. pull' = [pull EXCEPT ![q] = [at |-> "page", next |-> next, page |-> page]]
    BY <1>6, <2>1 DEF PullServe, Pulling
  <2> HIDE DEF next, page
  <2>6. [at |-> "page", next |-> next, page |-> page] \in Pulling
    BY <2>3, <2>4 DEF Pulling
  <2>7. QED
    BY <1>0, <1>6, <2>5, <2>6 DEF PullServe
<1>7. ASSUME NEW q \in Pullers, PullImport(q)
      PROVE  ClientTypeOK'
  <2>1. pull[q] \in Pulling /\ pull[q].page \in Seq(LogRow) /\ pull[q].page # <<>>
    BY <1>0, <1>7 DEF PullImport, Pulling
  <2>2. Head(pull[q].page) \in LogRow /\ Tail(pull[q].page) \in Seq(LogRow)
    BY <2>1, HeadTailProperties
  <2>3. pull' = [pull EXCEPT ![q] =
          [at |-> pull[q].at, next |-> pull[q].next, page |-> Tail(pull[q].page)]]
    <3>1. pull' = [pull EXCEPT ![q] = [pull[q] EXCEPT !.page = Tail(pull[q].page)]]
      BY <1>7, Zenon DEF PullImport
    <3> DEFINE rest == Tail(pull[q].page)
    <3> HIDE DEF rest
    <3>2. [pull[q] EXCEPT !.page = rest] =
            [at |-> pull[q].at, next |-> pull[q].next, page |-> rest]
      BY <2>1 DEF Pulling
    <3>3. QED
      BY <3>1, <3>2 DEF rest
  <2>4. pull' \in [Pullers -> Pulling \cup {None}]
    BY <1>0, <2>1, <2>2, <2>3 DEF Pulling
  <2>5. inbox' \in [Devices -> [Events -> Devices \cup {None}]]
    BY <1>0, <1>7, <2>2, SyncSystemAssumption DEF PullImport, LogRow
  <2>6. QED
    BY <1>0, <1>7, <2>4, <2>5 DEF PullImport
<1>8. ASSUME NEW q \in Pullers, PullAbort(q) \/ PullCrash(q)
      PROVE  ClientTypeOK'
  <2>1. faults' \in 0 .. MaxFaults
    BY <1>0, <1>8, SyncSystemAssumption DEF PullAbort, PullCrash, Fault
  <2>2. pull' = [pull EXCEPT ![q] = None] /\ UNCHANGED <<conn, inbox, cursor>>
    BY <1>8 DEF PullAbort, PullCrash
  <2>3. QED
    BY <1>0, <2>1, <2>2
<1>9. ASSUME NEW q \in Pullers, PullCommit(q)
      PROVE  ClientTypeOK'
  <2>1. pull[q].next \in Nat /\ PullsFor[q] \in Devices
    BY <1>0, <1>9, SyncSystemAssumption DEF PullCommit, Pulling
  <2>2. QED
    BY <1>0, <1>9, <2>1 DEF PullCommit
<1>10. ASSUME \/ UNCHANGED systemVars \/ StoreStep
              \/ \E p \in Pushers :
                   LeaseOne(p) \/ BlockForeign(p) \/ SendPut(p) \/ SendPush(p)
              \/ \E h \in Slots : ServeStep(h) \/ Unheard(h)
       PROVE  ClientTypeOK'
  <2>1. UNCHANGED clientVars
    BY <1>10 DEF systemVars, StoreStep, LeaseOne, BlockForeign, SendPut, SendPush, SendNext,
       ServeStep, Unheard
  <2>2. QED
    BY <1>0, <2>1 DEF clientVars
<1>11. QED
  BY <1>1, <1>2, <1>3, <1>4, <1>5, <1>6, <1>7, <1>8, <1>9, <1>10, SystemSteps

\* A handler works on the body it was asked about until it is released.
LEMMA HandlerKeepsBody ==
  ASSUME WorkerInv, NEW h \in Slots, Serve(h) \/ Fail(h)
  PROVE  /\ job[h] # None /\ job'[h] # None
         /\ job'[h].event = job[h].event /\ job'[h].origin = job[h].origin
         /\ \A g \in Slots \ {h} : job'[g] = job[g]
<1> DEFINE Kept == /\ job'[h] \in Job
                   /\ job'[h].event = job[h].event /\ job'[h].origin = job[h].origin
                   /\ \A g \in Slots \ {h} : job'[g] = job[g]
<1>0. job \in [Slots -> Job \cup {None}] /\ uploads \in [Events -> UploadRow \cup {None}]
      /\ objects \in [Events -> [Devices -> Attempts \cup {None}]]
  BY DEF WorkerInv, WorkerTypeOK
<1>1. job[h] # None
  BY DEF Serve, Fail, PutHead, PutStored, PutObject, PutUpsert, ReadRow, ReadObject, ReadHeal,
     PushLookup, PushReceipt, PushHead, PushAccept, At
<1>2. job[h] \in Job /\ job[h].event \in Events /\ job[h].origin \in Devices
  BY <1>0, <1>1 DEF Job
<1>3. ASSUME NEW stage \in {"object", "stored", "upsert", "receipt", "accept"}, Step(h, stage)
      PROVE  Kept
  BY <1>0, <1>2, <1>3 DEF Step, Job
<1>4. ASSUME NEW answer \in Answers, Reply(h, answer)
      PROVE  Kept
  <2>1. CASE job[h].op = "read"
    BY <1>0, <1>2, <1>4, <2>1 DEF Reply, Job
  <2>2. CASE job[h].op # "read"
    BY <1>0, <1>2, <1>4, <2>2 DEF Reply, Job
  <2>3. QED
    BY <2>1, <2>2
<1>5. \A a \in {"mismatch", "receipt", "missing", "found", "replay", "conflict", "rejected",
                "accepted", "error"} : a \in Answers
  BY DEF Answers
<1>6. CASE PutHead(h) \/ PutStored(h) \/ PutObject(h) \/ PutUpsert(h)
  BY <1>3, <1>4, <1>5, <1>6, JobAssumption, <1>1
     DEF PutHead, PutStored, PutObject, PutUpsert
<1>7. CASE ReadRow(h)
  <2>1. Kept
    BY <1>0, <1>2, <1>7 DEF ReadRow, Job
  <2>2. QED
    BY <1>1, <2>1, JobAssumption
<1>8. CASE ReadObject(h)
  <2> DEFINE origin == IF job[h].row = None THEN job[h].origin ELSE job[h].row.origin
             wrap   == objects[job[h].event][origin]
  <2>1. CASE wrap # None /\ job' = [job EXCEPT ![h].at = "heal", ![h].wrap = wrap]
    <3>1. origin \in Devices
      BY <1>2 DEF Job, UploadRow
    <3>2. wrap \in Attempts
      BY <1>0, <1>2, <2>1, <3>1
    <3> HIDE DEF wrap
    <3>3. Kept
      BY <1>0, <1>2, <2>1, <3>2 DEF Job
    <3>4. QED
      BY <1>1, <3>3, JobAssumption
  <2>2. CASE Reply(h, "missing") \/ Reply(h, "found")
    BY <1>1, <1>4, <1>5, <2>2, JobAssumption
  <2>3. QED
    BY <1>8, <2>1, <2>2 DEF ReadObject
<1>9. CASE ReadHeal(h)
  <2>1. job[h].wrap \in Attempts
    BY <1>1, <1>9 DEF ReadHeal, At, WorkerInv, HandlerInv, HandlerOK
  <2> DEFINE row == Upserted(uploads[job[h].event], job[h].origin, job[h].wrap)
  <2>2. row \in UploadRow
    BY <1>0, <1>2, <2>1, UpsertedTyped
  <2> HIDE DEF row
  <2>3. [row EXCEPT !.linked = FALSE] \in UploadRow
    BY <2>2 DEF UploadRow
  <2>4. job' = [job EXCEPT ![h].at = "done", ![h].answer = "found",
                        ![h].wrap = None, ![h].row = [row EXCEPT !.linked = FALSE]]
    BY <1>9 DEF ReadHeal, row
  <2>5. Kept
    BY <1>0, <1>2, <1>5, <2>3, <2>4 DEF Job
  <2>6. QED
    BY <1>1, <2>5, JobAssumption
<1>10. CASE PushLookup(h)
  BY <1>1, <1>3, <1>4, <1>5, <1>10, JobAssumption DEF PushLookup, ReplayOrConflict
<1>11. CASE PushReceipt(h)
  <2>1. ASSUME job' = [job EXCEPT ![h].at = "head", ![h].row = uploads[job[h].event]]
        PROVE  Kept
    BY <1>0, <1>2, <2>1 DEF Job
  <2>2. QED
    BY <1>1, <1>4, <1>5, <1>11, <2>1, JobAssumption DEF PushReceipt
<1>12. CASE PushHead(h)
  BY <1>1, <1>3, <1>4, <1>5, <1>12, JobAssumption DEF PushHead
<1>13. CASE PushAccept(h)
  BY <1>1, <1>4, <1>5, <1>13, JobAssumption DEF PushAccept, ReplayOrConflict
<1>14. CASE Fail(h)
  BY <1>1, <1>4, <1>5, <1>14, JobAssumption DEF Fail
<1>15. QED
  BY <1>6, <1>7, <1>8, <1>9, <1>10, <1>11, <1>12, <1>13, <1>14 DEF Serve

\* A pusher's item is its own business.
LEMMA HeldByOne ==
  ASSUME OutboxTypeOK, NEW p \in Pushers,
         \/ \E policy \in Policies : Lease(p, policy)
         \/ Settle(p) \/ PusherCrash(p)
  PROVE  \A o \in Pushers \ {p} : held'[o] = held[o]
<1>1. ASSUME NEW policy \in Policies, Lease(p, policy)
      PROVE  held' = held \/ \E item : held' = [held EXCEPT ![p] = item]
  BY <1>1, Zenon DEF Lease
<1>2. CASE Settle(p) \/ PusherCrash(p)
  BY <1>2 DEF Settle, Ack, Return, PusherCrash, OutboxTypeOK
<1>3. QED
  BY <1>1, <1>2 DEF OutboxTypeOK

\* What a pusher may rely on while it waits survives every step.
LEMMA ConnStep ==
  ASSUME SystemInv, [SystemNext]_systemVars
  PROVE  ConnInv'
<1>0. /\ job \in [Slots -> Job \cup {None}]
      /\ conn \in [Pushers -> Slots \cup {None}]
      /\ held \in [Pushers -> Item \cup {None}]
      /\ ConnInv /\ WorkerInv /\ OutboxTypeOK
  BY DEF SystemInv, WorkerInv, WorkerTypeOK, OutboxInv, OutboxTypeOK, ClientTypeOK
<1>1. ASSUME UNCHANGED <<conn, held>>, UNCHANGED job
      PROVE  ConnInv'
  BY <1>0, <1>1 DEF ConnInv
<1>2. ASSUME NEW h \in Slots, ServeStep(h) \/ ServerFault(h)
      PROVE  ConnInv'
  <2>1. UNCHANGED <<conn, held>> /\ (Serve(h) \/ Fail(h))
    BY <1>2 DEF ServeStep, ServerFault, clientVars, outboxVars
  <2>2. /\ job[h] # None /\ job'[h] # None
        /\ job'[h].event = job[h].event /\ job'[h].origin = job[h].origin
        /\ \A g \in Slots \ {h} : job'[g] = job[g]
    BY <1>0, <2>1, HandlerKeepsBody
  <2>3. QED
    BY <1>0, <2>1, <2>2 DEF ConnInv
<1>3. ASSUME NEW h \in Slots, Unheard(h)
      PROVE  ConnInv'
  <2>1. UNCHANGED <<conn, held>> /\ \A p \in Pushers : conn[p] # h
    BY <1>3 DEF Unheard, clientVars, outboxVars
  <2>2. job' = [job EXCEPT ![h] = None]
    BY <1>3 DEF Unheard, Release
  <2>3. QED
    BY <1>0, <2>1, <2>2 DEF ConnInv
<1>4. ASSUME NEW p \in Pushers, LeaseOne(p) \/ BlockForeign(p)
      PROVE  ConnInv'
  <2>1. UNCHANGED <<conn, job>> /\ conn[p] = None
    BY <1>4 DEF LeaseOne, BlockForeign, clientVars, workerVars
  <2>2. \A o \in Pushers \ {p} : held'[o] = held[o]
    BY <1>0, <1>4, HeldByOne DEF LeaseOne, BlockForeign, Settle
  <2>3. QED
    BY <1>0, <2>1, <2>2 DEF ConnInv
<1>5. ASSUME NEW p \in Pushers,
             \/ ConnectionLost(p) \/ PushCrash(p)
             \/ Delivered(p) \/ Blocked(p) \/ Retried(p)
      PROVE  ConnInv'
  <2>1. conn' = [conn EXCEPT ![p] = None]
    BY <1>5 DEF ConnectionLost, PushCrash, Delivered, Blocked, Retried, HangUp
  <2>2. \A o \in Pushers \ {p} : held'[o] = held[o]
    BY <1>0, <1>5, HeldByOne
       DEF ConnectionLost, PushCrash, Delivered, Blocked, Retried, Settle
  <2>3. \/ job' = job
        \/ conn[p] # None /\ job' = [job EXCEPT ![conn[p]] = None]
    BY <1>5 DEF ConnectionLost, PushCrash, Delivered, Blocked, Retried, HangUp, Answered,
       workerVars
  <2>4. \A o \in Pushers \ {p} : conn[o] # None => job'[conn[o]] = job[conn[o]]
    BY <1>0, <2>3 DEF ConnInv
  <2>5. QED
    BY <1>0, <2>1, <2>2, <2>4 DEF ConnInv
<1>6. ASSUME NEW p \in Pushers, NEW h \in Slots, SendHead(p, h)
      PROVE  ConnInv'
  <2> DEFINE request == Request("read", held[p].event, DeviceOf[p], None, FALSE)
  <2>1. /\ held' = held /\ held[p] # None
        /\ conn' = [conn EXCEPT ![p] = h]
        /\ job[h] = None /\ job' = [job EXCEPT ![h] = request]
    BY <1>6 DEF SendHead, Receive, outboxVars
  <2>2. held[p].event \in Events /\ DeviceOf[p] \in Devices
    <3>1. held[p] \in Item
      BY <1>0, <2>1
    <3>2. QED
      BY <3>1, OutboxAssumption DEF Item
  <2>3. request \in Job /\ request.event = held[p].event /\ request.origin = DeviceOf[p]
    <3>1. request \in Job
      BY <2>2, RequestTyped
    <3>2. QED
      BY <3>1 DEF Request
  <2> HIDE DEF request
  <2>4. \A o \in Pushers \ {p} : conn[o] # None => conn[o] # h
    BY <1>0, <2>1 DEF ConnInv
  <2>5. QED
    BY <1>0, <2>1, <2>3, <2>4, JobAssumption DEF ConnInv
<1>7. ASSUME NEW p \in Pushers, SendPut(p) \/ SendPush(p)
      PROVE  ConnInv'
  <2> DEFINE j == job[conn[p]]
  <2>1. conn[p] # None /\ UNCHANGED <<conn, held>>
    BY <1>7 DEF SendPut, SendPush, SendNext, Answered, clientVars, outboxVars
  <2>2. conn[p] \in Slots /\ j.event \in Events /\ j.origin \in Devices
        /\ held[p].lease \in Attempts
    BY <1>0, <2>1, OutboxAssumption DEF ConnInv, Item
  <2>3. PICK op \in {"put", "push"}, w \in Attempts \cup {None}, r \in BOOLEAN :
          job' = [job EXCEPT ![conn[p]] = Request(op, j.event, j.origin, w, r)]
    BY <1>7, <2>2 DEF SendPut, SendPush, SendNext
  <2> DEFINE request == Request(op, j.event, j.origin, w, r)
  <2>4. request \in Job /\ request.event = j.event /\ request.origin = j.origin
    <3>1. request \in Job
      BY <2>2, RequestTyped
    <3>2. QED
      BY <3>1 DEF Request
  <2> HIDE DEF request
  <2>5. job' = [job EXCEPT ![conn[p]] = request]
    BY <2>3 DEF request
  <2>6. QED
    BY <1>0, <2>1, <2>2, <2>4, <2>5, JobAssumption DEF ConnInv
<1>8. ASSUME \/ UNCHANGED systemVars \/ StoreStep
             \/ \E q \in Pullers :
                  \/ PullAsk(q) \/ PullServe(q) \/ PullImport(q) \/ PullAbort(q)
                  \/ PullCommit(q) \/ PullCrash(q)
      PROVE  UNCHANGED <<conn, held>> /\ UNCHANGED job
  BY <1>8, StoreKeepsHeld
     DEF StoreStep, PullAsk, PullServe, PullImport, PullAbort, PullCommit, PullCrash,
         systemVars, outboxVars, workerVars, clientVars
<1>9. QED
  BY <1>1, <1>2, <1>3, <1>4, <1>5, <1>6, <1>7, <1>8, SystemSteps

-----------------------------------------------------------------------------
(* Nothing appears from nowhere *)

\* Every body still names the device that captured it.
LEMMA OwnStep ==
  ASSUME SystemInv, [SystemNext]_systemVars
  PROVE  OwnInv'
<1>0. /\ local \in [Devices -> [Events -> Devices \cup {None}]]
      /\ inbox \in [Devices -> [Events -> Devices \cup {None}]]
      /\ job \in [Slots -> Job \cup {None}]
      /\ objects \in [Events -> [Devices -> Attempts \cup {None}]]
      /\ held \in [Pushers -> Item \cup {None}]
      /\ canonical \subseteq LogRow
      /\ OwnInv /\ WorkerInv /\ OutboxInv
  BY DEF SystemInv, WorkerInv, WorkerTypeOK, OutboxInv, OutboxTypeOK, ClientTypeOK
<1>1. \A row \in canonical :
        row.event \in Events /\ row.origin \in Devices /\ Captured(row.origin, row.event)
  BY <1>0 DEF OwnInv, LogRow
<1>2. \A d \in Devices, e \in Events : Captured(d, e) => Captured(d, e)'
  BY CapturedStays
<1>3. \A d \in Devices, e \in Events : Captured(d, e) => local'[d][e] = d
  BY <1>2 DEF Captured
<1>4. \A row \in canonical, d \in Devices :
        Known(d, row.event) = None => local[d][row.event] = None
  BY DEF Known
\* What a store holds newly: its own capture, or the evidence of a row.
<1>5. ASSUME NEW d \in Devices, NEW e \in Events, local'[d][e] # local[d][e]
      PROVE  \/ local'[d][e] = d /\ d \in CapturedOn[e]
             \/ /\ e \in Evidence /\ local'[d][e] \in Devices
                /\ Captured(local'[d][e], e) /\ local[d][e] = None
  <2>1. ASSUME NEW c \in Devices, NEW x \in Events, c \in CapturedOn[x],
               local' = [local EXCEPT ![c][x] = c]
        PROVE  local'[d][e] = d /\ d \in CapturedOn[e]
    BY <1>0, <1>5, <2>1
  <2>2. ASSUME NEW c \in Devices, NEW row \in canonical, Known(c, row.event) = None,
               row.event \in Evidence, local' = [local EXCEPT ![c][row.event] = row.origin]
        PROVE  /\ e \in Evidence /\ local'[d][e] \in Devices
               /\ Captured(local'[d][e], e) /\ local[d][e] = None
    <3>1. d = c /\ e = row.event /\ local'[d][e] = row.origin
      BY <1>0, <1>1, <1>5, <2>2
    <3>2. QED
      BY <1>1, <1>4, <2>2, <3>1
  <2>3. QED
    BY <1>5, <2>1, <2>2, LocalChange
<1>6. \A d \in Devices, e \in Events : Captured(d, e)' => d \in CapturedOn[e]
  <2> SUFFICES ASSUME NEW d \in Devices, NEW e \in Events, local'[d][e] = d
               PROVE  d \in CapturedOn[e]
    BY DEF Captured
  <2>1. CASE local'[d][e] = local[d][e]
    BY <1>0, <2>1 DEF OwnInv, Captured
  <2>2. CASE local'[d][e] # local[d][e]
    BY <1>0, <1>5, <2>2 DEF OwnInv
  <2>3. QED
    BY <2>1, <2>2
<1>7. ASSUME NEW d \in Devices, NEW e \in Events, local'[d][e] # None
      PROVE  /\ local'[local'[d][e]][e] = local'[d][e]
             /\ e \notin Evidence => Captured(d, e)'
  <2>1. CASE local'[d][e] = local[d][e]
    <3>1. local[d][e] \in Devices /\ Captured(local[d][e], e)
      BY <1>0, <1>7, <2>1 DEF OwnInv
    <3>2. local'[local[d][e]][e] = local[d][e]
      BY <1>3, <3>1
    <3>3. e \notin Evidence => Captured(d, e)
      BY <1>0, <1>7, <2>1 DEF OwnInv
    <3>4. QED
      BY <1>2, <2>1, <3>2, <3>3 DEF Captured
  <2>2. CASE local'[d][e] # local[d][e]
    <3>1. CASE local'[d][e] = d
      BY <3>1 DEF Captured
    <3>2. CASE e \in Evidence /\ local'[d][e] \in Devices /\ Captured(local'[d][e], e)
      BY <1>3, <3>2
    <3>3. QED
      BY <1>5, <2>2, <3>1, <3>2
  <2>3. QED
    BY <2>1, <2>2
<1>8. ASSUME NEW d \in Devices, NEW e \in Events, inbox'[d][e] # None
      PROVE  local'[inbox'[d][e]][e] = inbox'[d][e]
  <2>1. inbox'[d][e] \in Devices /\ Captured(inbox'[d][e], e)
    <3>1. CASE inbox'[d][e] = inbox[d][e]
      BY <1>0, <1>8, <3>1 DEF OwnInv
    <3>2. ASSUME NEW c \in Devices, NEW row \in canonical, inbox'[d][e] # inbox[d][e],
                 inbox' = [inbox EXCEPT ![c][row.event] = row.origin]
          PROVE  inbox'[d][e] \in Devices /\ Captured(inbox'[d][e], e)
      <4>1. e = row.event /\ inbox'[d][e] = row.origin
        BY <1>0, <1>1, <3>2
      <4>2. QED
        BY <1>1, <4>1
    <3>3. QED
      BY <3>1, <3>2, InboxChange
  <2>2. QED
    BY <1>3, <2>1
<1>9. ASSUME NEW d \in Devices, NEW e \in Events, outbox'[d][e] # None
      PROVE  Captured(d, e)'
  <2>1. CASE outbox[d][e] # None
    BY <1>0, <1>2, <2>1 DEF OwnInv
  <2>2. CASE outbox[d][e] = None
    <3>1. OutboxNext
      BY <1>9, <2>2, StoreView DEF outboxVars, Imports
    <3>2. CASE local'[d][e] = d
      BY <3>2 DEF Captured
    <3>3. CASE e \notin Evidence /\ local[d][e] # None
      BY <1>0, <1>2, <3>3 DEF OwnInv
    <3>4. QED
      BY <1>0, <1>9, <2>2, <3>1, <3>2, <3>3, RowAppears
  <2>3. QED
    BY <2>1, <2>2
<1>10. ASSUME NEW p \in Pushers, held'[p] # None
      PROVE  local'[DeviceOf[p]][held'[p].event] = DeviceOf[p]
  <2>1. DeviceOf[p] \in Devices
    BY OutboxAssumption
  <2>2. CASE held'[p] = held[p]
    <3>1. held[p].event \in Events /\ Captured(DeviceOf[p], held[p].event)
      BY <1>0, <1>10, <2>2 DEF OwnInv, Item
    <3>2. local'[DeviceOf[p]][held[p].event] = DeviceOf[p]
      BY <1>3, <2>1, <3>1
    <3>3. QED
      BY <2>2, <3>2 DEF Captured
  <2>3. CASE held'[p] # held[p]
    <3>1. OutboxNext
      BY <2>3, StoreView DEF outboxVars, Imports
    <3>2. held'[p].event \in Events /\ outbox[DeviceOf[p]][held'[p].event] # None
      BY <1>0, <1>10, <2>3, <3>1, ItemAppears
    <3>3. Captured(DeviceOf[p], held'[p].event)
      BY <1>0, <2>1, <3>2 DEF OwnInv
    <3>4. QED
      BY <1>3, <2>1, <3>2, <3>3
  <2>4. QED
    BY <2>2, <2>3
<1>11. ASSUME NEW g \in Slots, job'[g] # None
       PROVE  local'[job'[g].origin][job'[g].event] = job'[g].origin
  <2>1. ASSUME job[g] # None, job'[g].event = job[g].event, job'[g].origin = job[g].origin
        PROVE  local'[job'[g].origin][job'[g].event] = job'[g].origin
    <3>1. job[g].event \in Events /\ job[g].origin \in Devices
          /\ Captured(job[g].origin, job[g].event)
      BY <1>0, <2>1 DEF OwnInv, Job
    <3>2. QED
      BY <1>3, <2>1, <3>1
  <2>2. CASE UNCHANGED workerVars
    BY <1>11, <2>1, <2>2 DEF workerVars
  <2>3. ASSUME NEW h \in Slots, Serve(h) \/ Fail(h)
        PROVE  local'[job'[g].origin][job'[g].event] = job'[g].origin
    <3>1. job[g] # None /\ job'[g].event = job[g].event /\ job'[g].origin = job[g].origin
      BY <1>0, <1>11, <2>3, HandlerKeepsBody
    <3>2. QED
      BY <2>1, <3>1
  <2>4. ASSUME NEW h \in Slots, Release(h)
        PROVE  local'[job'[g].origin][job'[g].event] = job'[g].origin
    <3>1. job[g] # None /\ job'[g] = job[g]
      BY <1>0, <1>11, <2>4 DEF Release
    <3>2. QED
      BY <2>1, <3>1
  <2>5. ASSUME NEW h \in Slots, RequestSent(h)
        PROVE  local'[job'[g].origin][job'[g].event] = job'[g].origin
    <3>1. PICK op \in {"put", "read", "push"}, e \in Events, d \in Devices,
               w \in Attempts \cup {None}, r \in BOOLEAN :
            /\ Captured(d, e)
            /\ job' = [job EXCEPT ![h] = Request(op, e, d, w, r)]
      BY <2>5 DEF RequestSent
    <3>2. CASE g = h
      <4>1. job'[g] = Request(op, e, d, w, r)
        BY <1>0, <3>1, <3>2
      <4>2. job'[g].event = e /\ job'[g].origin = d
        BY <4>1 DEF Request
      <4>3. QED
        BY <1>3, <3>1, <4>2
    <3>3. CASE g # h
      <4>1. job'[g] = job[g]
        BY <1>0, <3>1, <3>3
      <4>2. QED
        BY <1>11, <2>1, <4>1
    <3>4. QED
      BY <3>2, <3>3
  <2>6. QED
    BY <2>2, <2>3, <2>4, <2>5, WorkerView
<1>12. ASSUME NEW e \in Events, NEW d \in Devices, objects'[e][d] # None
       PROVE  Captured(d, e)'
  <2>1. CASE objects'[e][d] = objects[e][d]
    BY <1>0, <1>2, <1>12, <2>1 DEF OwnInv
  <2>2. CASE objects'[e][d] # objects[e][d]
    <3>1. PICK h \in Slots : PutObject(h)
      BY <2>2, WorkerView
         DEF workerVars, Serve, RequestSent, PutHead, PutStored, PutUpsert, ReadRow, ReadObject,
             ReadHeal, PushLookup, PushReceipt, PushHead, PushAccept, Fail, Release
    <3>2. job[h] # None /\ job[h].event \in Events /\ job[h].origin \in Devices
      BY <1>0, <3>1 DEF PutObject, At, Job
    <3>3. e = job[h].event /\ d = job[h].origin
      BY <1>0, <2>2, <3>1, <3>2 DEF PutObject
    <3>4. QED
      BY <1>0, <1>2, <3>2, <3>3 DEF OwnInv
  <2>3. QED
    BY <2>1, <2>2
<1>13. ASSUME NEW row \in canonical'
       PROVE  Captured(row.origin, row.event)'
  <2>1. CASE row \in canonical
    BY <1>1, <1>2, <2>1
  <2>2. CASE row \notin canonical
    <3>1. PICK h \in Slots :
            /\ job[h] # None
            /\ row = [seq |-> zoneCounter + 1, event |-> job[h].event,
                      origin |-> job[h].origin]
      BY <1>13, <2>2, LogStep
    <3>2. job[h].event \in Events /\ job[h].origin \in Devices
          /\ Captured(job[h].origin, job[h].event)
      BY <1>0, <3>1 DEF OwnInv, Job
    <3>3. QED
      BY <1>2, <3>1, <3>2
  <2>3. QED
    BY <2>1, <2>2
<1>14. QED
  BY <1>6, <1>7, <1>8, <1>9, <1>10, <1>11, <1>12, <1>13 DEF OwnInv, Captured

-----------------------------------------------------------------------------
(* Delivered rows are logged *)

\* A row is delivered only by a pusher that was told "accepted" or "replay".
LEMMA DeliveryAnswered ==
  ASSUME SystemInv, [SystemNext]_systemVars, NEW d \in Devices, NEW e \in Events,
         outbox'[d][e] # None, outbox'[d][e].state = "delivered",
         outbox'[d][e] # outbox[d][e]
  PROVE  Logged(e)
<1>0. /\ WorkerInv /\ OutboxInv /\ OutboxTypeOK /\ ConnInv
      /\ outbox \in [Devices -> [Events -> Row \cup {None}]]
      /\ conn \in [Pushers -> Slots \cup {None}]
  BY DEF SystemInv, OutboxInv, OutboxTypeOK, ClientTypeOK
<1>1. ASSUME NEW p \in Pushers, NEW policy \in Policies, Lease(p, policy)
      PROVE  FALSE
  <2>1. e \in Leasable(d) /\ outbox'[d][e] = LeasedRow(d, e)
    BY <1>0, <1>1, LeaseRows
  <2>2. outbox[d][e] \in Row
    BY <1>0, <2>1 DEF Leasable
  <2>3. QED
    BY <2>1, <2>2 DEF LeasedRow, Row
<1>2. ASSUME NEW p \in Pushers, NEW atOnce \in BOOLEAN, Return(p, atOnce)
      PROVE  FALSE
  <2>1. /\ d = DeviceOf[p] /\ held[p].event = e /\ outbox[d][e] \in Row
    BY <1>0, <1>2, HeldRow DEF Settle
  <2>2. outbox' = [outbox EXCEPT ![d][e] =
                    [@ EXCEPT !.state = "pending", !.lease = None, !.due = atOnce]]
    BY <1>2, <2>1 DEF Return
  <2>3. QED
    BY <1>0, <2>1, <2>2 DEF Row
<1>3. CASE StoreStep
  <2>1. StoreNext /\ OutboxNext /\ held' = held
    BY <1>3, StoreKeepsHeld DEF StoreStep, OutboxNext
  <2>2. ASSUME NEW p \in Pushers, Settle(p)
        PROVE  FALSE
    BY <1>0, <2>1, <2>2 DEF Settle, Ack, Return, OutboxTypeOK
  <2>3. outbox'[d][e] # NewRow(d)
    BY DEF NewRow
  <2>4. ASSUME outbox[d][e] # None, outbox[d][e].state \in {"pending", "leased"},
               outbox'[d][e] = [outbox[d][e] EXCEPT !.due = TRUE]
        PROVE  FALSE
    BY <1>0, <2>4 DEF Row
  <2>5. QED
    BY <1>0, <1>1, <2>1, <2>2, <2>3, <2>4, RowChange
<1>4. ASSUME NEW p \in Pushers, Delivered(p)
      PROVE  Logged(e)
  <2>1. d = DeviceOf[p] /\ held[p].event = e
    BY <1>0, <1>4, HeldRow DEF Delivered, Settle
  <2>2. /\ conn[p] # None /\ job[conn[p]] # None
        /\ job[conn[p]].op = "push" /\ job[conn[p]].at = "done"
        /\ job[conn[p]].answer \in {"accepted", "replay"}
    BY <1>4 DEF Delivered, Answered, At, DeliveryAnswers
  <2>3. conn[p] \in Slots /\ job[conn[p]].event = e
    BY <1>0, <2>1, <2>2 DEF ConnInv
  <2>4. QED
    BY <1>0, <2>2, <2>3 DEF WorkerInv, AnswersAreTrue, Logged
<1>5. ASSUME NEW p \in Pushers,
             LeaseOne(p) \/ BlockForeign(p) \/ Blocked(p) \/ Retried(p) \/ ConnectionLost(p)
      PROVE  FALSE
  BY <1>1, <1>2, <1>5 DEF LeaseOne, BlockForeign, Blocked, Retried, ConnectionLost
<1>6. ASSUME \/ UNCHANGED systemVars
             \/ \E p \in Pushers :
                  \/ \E h \in Slots : SendHead(p, h)
                  \/ SendPut(p) \/ SendPush(p) \/ PushCrash(p)
             \/ \E h \in Slots : ServeStep(h) \/ Unheard(h) \/ ServerFault(h)
             \/ \E q \in Pullers :
                  \/ PullAsk(q) \/ PullServe(q) \/ PullImport(q) \/ PullAbort(q)
                  \/ PullCommit(q) \/ PullCrash(q)
      PROVE  outbox' = outbox
  BY <1>6 DEF systemVars, outboxVars, SendHead, SendPut, SendPush, SendNext, PushCrash,
     PusherCrash, ServeStep, Unheard, ServerFault, PullAsk, PullServe, PullImport, PullAbort,
     PullCommit, PullCrash
<1>7. QED
  BY <1>3, <1>4, <1>5, <1>6, SystemSteps

LEMMA DeliveredStep ==
  ASSUME SystemInv, [SystemNext]_systemVars
  PROVE  DeliveredIsLogged'
<1> SUFFICES ASSUME NEW d \in Devices, NEW e \in Events,
                    outbox'[d][e] # None, outbox'[d][e].state = "delivered"
             PROVE  \E row \in canonical' : row.event = e
  BY DEF DeliveredIsLogged
<1>1. \E row \in canonical : row.event = e
  BY DeliveryAnswered DEF SystemInv, DeliveredIsLogged, Logged
<1>2. QED
  BY <1>1, LogKeeps

-----------------------------------------------------------------------------
(* No row is skipped *)

\* A body once held is held for good.
LEMMA HoldsStays ==
  ASSUME SystemInv, [SystemNext]_systemVars, NEW d \in Devices, NEW row \in canonical,
         Holds(d, row)
  PROVE  Holds(d, row)'
<1>1. row.event \in Events /\ row.origin \in Devices
  BY DEF SystemInv, WorkerInv, WorkerTypeOK, LogRow
<1>2. QED
  BY <1>1, LocalStays, InboxStays, ZoneDataAssumption DEF Holds

\* Rows that are new have numbers above all that were given out.
LEMMA NewRowsAbove ==
  ASSUME SystemInv, [SystemNext]_systemVars
  PROVE  /\ zoneCounter \in Nat /\ zoneCounter' \in Nat /\ zoneCounter <= zoneCounter'
         /\ \A row \in canonical' \ canonical : row.seq > zoneCounter
<1>1. zoneCounter \in Nat
  BY DEF SystemInv, WorkerInv, WorkerTypeOK
<1>2. QED
  BY <1>1, LogStep

\* The import of a row leaves it held.
LEMMA ImportedHeld ==
  ASSUME SystemInv, NEW q \in Pullers, PullImport(q), NEW row, row = Head(pull[q].page)
  PROVE  row \in canonical /\ Holds(PullsFor[q], row)'
<1> DEFINE d == PullsFor[q]
<1>1. pull[q].page \in Seq(LogRow) /\ pull[q].page # <<>>
  BY DEF PullImport, SystemInv, ClientTypeOK, Pulling
<1>2. row = pull[q].page[1] /\ 1 \in DOMAIN pull[q].page
  BY <1>1
<1>3. row \in canonical
  BY <1>2 DEF PullImport, SystemInv, PullInv, PullOK
<1>4. d \in Devices /\ row.event \in Events /\ row.origin \in Devices
  BY <1>3, SyncSystemAssumption DEF SystemInv, WorkerInv, WorkerTypeOK, LogRow
<1>5. inbox \in [Devices -> [Events -> Devices \cup {None}]]
  BY DEF SystemInv, ClientTypeOK
<1>6. CASE Known(d, row.event) = None
  <2>1. inbox' = [inbox EXCEPT ![d][row.event] = row.origin]
    BY <1>6 DEF PullImport
  <2>2. inbox'[d][row.event] = row.origin
    BY <1>4, <1>5, <2>1
  <2>3. QED
    BY <1>3, <2>2 DEF Holds
<1>7. CASE Known(d, row.event) # None
  <2>1. Known(d, row.event) = row.origin /\ UNCHANGED <<local, inbox>>
    BY <1>7 DEF PullImport, ImportThrows, ReplayCompatible
  <2>2. QED
    BY <1>3, <2>1 DEF Holds, Known
<1>8. QED
  BY <1>6, <1>7

\* A pull that takes no step is none the worse for the steps of others.
LEMMA PullUndisturbed ==
  ASSUME SystemInv, [SystemNext]_systemVars, NEW q \in Pullers, pull'[q] = pull[q]
  PROVE  PullOK(q)'
<1> SUFFICES ASSUME pull[q] # None PROVE PullOK(q)'
  BY DEF PullOK
<1>1. /\ pull[q].next <= zoneCounter
      /\ pull[q].at = "ask" => pull[q].page = <<>>
      /\ \A i \in DOMAIN pull[q].page : pull[q].page[i] \in canonical
      /\ \A row \in canonical : row.seq <= pull[q].next =>
           Holds(PullsFor[q], row) \/ OnPage(pull[q].page, row)
  BY DEF SystemInv, PullInv, PullOK
<1>2. pull[q].next \in Nat /\ PullsFor[q] \in Devices
  BY SyncSystemAssumption DEF SystemInv, ClientTypeOK, Pulling
<1>3. \A row \in canonical' : row.seq \in Nat
  BY PartsStep DEF WorkerInv, WorkerTypeOK, LogRow
<1>4. \A row \in canonical : Holds(PullsFor[q], row) => Holds(PullsFor[q], row)'
  BY <1>2, HoldsStays
<1>5. pull[q].next <= zoneCounter'
  BY <1>1, <1>2, NewRowsAbove
<1>6. ASSUME NEW row \in canonical', row.seq <= pull[q].next
      PROVE  Holds(PullsFor[q], row)' \/ OnPage(pull[q].page, row)
  <2>1. row \in canonical
    BY <1>1, <1>2, <1>3, <1>6, NewRowsAbove
  <2>2. QED
    BY <1>1, <1>4, <1>6, <2>1
<1>7. QED
  BY <1>1, <1>5, <1>6, LogKeeps DEF PullOK, OnPage

\* Neither is a cursor that does not move.
LEMMA CursorUndisturbed ==
  ASSUME SystemInv, [SystemNext]_systemVars, NEW d \in Devices, cursor'[d] = cursor[d]
  PROVE  /\ cursor'[d] <= zoneCounter'
         /\ \A row \in canonical' : row.seq <= cursor'[d] => Holds(d, row)'
<1>1. cursor[d] \in Nat /\ cursor[d] <= zoneCounter
  BY DEF SystemInv, ClientTypeOK, PullInv
<1>2. \A row \in canonical' : row.seq \in Nat
  BY PartsStep DEF WorkerInv, WorkerTypeOK, LogRow
<1>3. \A row \in canonical : row.seq <= cursor[d] => Holds(d, row)
  BY DEF SystemInv, PullInv, CursorCovered, Holds
<1>4. \A row \in canonical' : row.seq <= cursor[d] => row \in canonical
  BY <1>1, <1>2, NewRowsAbove
<1>5. QED
  BY <1>1, <1>3, <1>4, HoldsStays, NewRowsAbove

\* The page that is served continues where the cursor stands.
LEMMA ServedOK ==
  ASSUME SystemInv, [SystemNext]_systemVars, NEW q \in Pullers, PullServe(q)
  PROVE  PullOK(q)'
<1> DEFINE ask  == pull[q].next
           page == PageAfter(ask)
           next == IF page = <<>> THEN ask ELSE page[Len(page)].seq
<1>1. pull[q] \in Pulling /\ pull[q] # None
  BY DEF PullServe, SystemInv, ClientTypeOK
<1>2. ask \in Nat /\ ask <= zoneCounter /\ zoneCounter \in Nat
  BY <1>1 DEF Pulling, SystemInv, PullInv, PullOK, WorkerInv, WorkerTypeOK
<1>3. \A row \in canonical : row.seq <= ask => Holds(PullsFor[q], row)
  <2>1. pull[q].page = <<>>
    BY <1>1 DEF PullServe, SystemInv, PullInv, PullOK
  <2>2. QED
    BY <1>1, <2>1 DEF SystemInv, PullInv, PullOK, OnPage
<1>4. page \in Seq(Above(ask)) /\ IsPage(page, Above(ask))
  BY <1>2, PageTaken DEF SystemInv
<1>5. \A r \in canonical : r.seq \in Nat /\ r.seq <= zoneCounter
  BY DEF SystemInv, WorkerInv, WorkerTypeOK, SequenceIntegrity, LogRow
<1>6. UNCHANGED <<canonical, zoneCounter, local, inbox>>
  BY DEF PullServe, workerVars, outboxVars
<1>7. pull'[q] = [at |-> "page", page |-> page, next |-> next]
  BY DEF PullServe, SystemInv, ClientTypeOK
<1> HIDE DEF page
<1>8. /\ DOMAIN page = 1 .. Len(page) /\ Len(page) \in Nat
      /\ \A i \in DOMAIN page : page[i] \in canonical /\ page[i].seq > ask
  BY <1>4, LenProperties, ElementOfSeq DEF Above
<1>9. next <= zoneCounter
  <2>1. CASE page = <<>>
    BY <1>2, <2>1
  <2>2. CASE page # <<>>
    <3>1. Len(page) \in DOMAIN page
      BY <1>4, <1>8, <2>2, EmptySeq
    <3>2. QED
      BY <1>5, <1>8, <2>2, <3>1
  <2>3. QED
    BY <2>1, <2>2
<1>10. ASSUME NEW row \in canonical, row.seq <= next, row.seq > ask
       PROVE  OnPage(page, row)
  <2>1. page # <<>>
    BY <1>2, <1>5, <1>10
  <2>2. Len(page) \in DOMAIN page /\ next = page[Len(page)].seq
    BY <1>4, <1>8, <2>1, EmptySeq
  <2>3. SUFFICES ASSUME row \notin {page[i] : i \in DOMAIN page} PROVE FALSE
    BY DEF OnPage
  <2>4. row \in Above(ask)
    BY <1>10 DEF Above
  <2>5. page[Len(page)].seq < row.seq
    BY <1>4, <2>2, <2>3, <2>4 DEF IsPage
  <2>6. page[Len(page)].seq \in Nat /\ row.seq \in Nat
    BY <1>5, <1>8, <2>2
  <2>7. QED
    BY <1>10, <2>2, <2>5, <2>6
<1>11. \A row \in canonical : row.seq <= next => Holds(PullsFor[q], row) \/ OnPage(page, row)
  BY <1>2, <1>3, <1>5, <1>10
<1> HIDE DEF next
<1>12. QED
  BY <1>6, <1>7, <1>8, <1>9, <1>11 DEF PullOK, Holds, OnPage

\* What is imported is held, and the rest of the page is still to come.
LEMMA ImportOK ==
  ASSUME SystemInv, [SystemNext]_systemVars, NEW q \in Pullers, PullImport(q)
  PROVE  PullOK(q)'
<1> DEFINE page == pull[q].page
<1>1. /\ pull[q] \in Pulling /\ pull[q] # None /\ pull[q].at = "page"
      /\ page \in Seq(LogRow) /\ page # <<>>
  BY DEF PullImport, SystemInv, ClientTypeOK, Pulling
<1>2. UNCHANGED <<canonical, zoneCounter>>
  BY DEF PullImport, workerVars
<1>3. pull'[q] = [at |-> "page", next |-> pull[q].next, page |-> Tail(page)]
  <2>1. pull' = [pull EXCEPT ![q] = [pull[q] EXCEPT !.page = Tail(pull[q].page)]]
    BY Zenon DEF PullImport
  <2>2. pull'[q] = [pull[q] EXCEPT !.page = Tail(page)]
    BY <2>1 DEF SystemInv, ClientTypeOK
  <2> DEFINE rest == Tail(page)
  <2> HIDE DEF rest
  <2>3. [pull[q] EXCEPT !.page = rest] =
          [at |-> "page", next |-> pull[q].next, page |-> rest]
    BY <1>1 DEF Pulling
  <2>4. QED
    BY <2>2, <2>3 DEF rest
<1>4. /\ \A i \in DOMAIN Tail(page) : i + 1 \in DOMAIN page /\ Tail(page)[i] = page[i + 1]
      /\ \A row : OnPage(page, row) => row = Head(page) \/ OnPage(Tail(page), row)
  BY <1>1, TailOfPage
<1>5. /\ pull[q].next <= zoneCounter
      /\ \A i \in DOMAIN page : page[i] \in canonical
      /\ \A row \in canonical : row.seq <= pull[q].next =>
           Holds(PullsFor[q], row) \/ OnPage(page, row)
  BY <1>1 DEF SystemInv, PullInv, PullOK
<1>6. \A i \in DOMAIN Tail(page) : Tail(page)[i] \in canonical
  BY <1>4, <1>5
<1>7. ASSUME NEW row \in canonical, row.seq <= pull[q].next
      PROVE  Holds(PullsFor[q], row)' \/ OnPage(Tail(page), row)
  <2>1. CASE Holds(PullsFor[q], row)
    BY <2>1, HoldsStays, SyncSystemAssumption
  <2>2. CASE row = Head(page)
    BY <2>2, ImportedHeld
  <2>3. QED
    BY <1>4, <1>5, <1>7, <2>1, <2>2
<1> DEFINE rest == Tail(page)
<1>8. /\ pull'[q] = [at |-> "page", next |-> pull[q].next, page |-> rest]
      /\ \A i \in DOMAIN rest : rest[i] \in canonical
      /\ \A row \in canonical : row.seq <= pull[q].next =>
           Holds(PullsFor[q], row)' \/ OnPage(rest, row)
  BY <1>3, <1>6, <1>7
<1> HIDE DEF rest
<1>9. QED
  BY <1>2, <1>5, <1>8 DEF PullOK, OnPage

\* Pages and cursors stay in step.
LEMMA PullInvStep ==
  ASSUME SystemInv, [SystemNext]_systemVars
  PROVE  PullInv'
<1>0. /\ pull \in [Pullers -> Pulling \cup {None}]
      /\ cursor \in [Devices -> Nat]
      /\ PullsFor \in [Pullers -> Devices]
  BY SyncSystemAssumption DEF SystemInv, ClientTypeOK
\* The step of one puller leaves the other pulls alone.
<1>1. ASSUME NEW q \in Pullers, PullOK(q)', \A o \in Pullers \ {q} : pull'[o] = pull[o]
      PROVE  \A o \in Pullers : PullOK(o)'
  <2> SUFFICES ASSUME NEW o \in Pullers PROVE PullOK(o)'
    OBVIOUS
  <2>1. CASE o = q
    BY <1>1, <2>1
  <2>2. CASE o # q
    BY <1>1, <2>2, PullUndisturbed
  <2>3. QED
    BY <2>1, <2>2
<1>2. ASSUME NEW q \in Pullers, PullAsk(q)
      PROVE  \A o \in Pullers : PullOK(o)'
  <2>1. /\ pull'[q] = [at |-> "ask", next |-> cursor[PullsFor[q]], page |-> <<>>]
        /\ \A o \in Pullers \ {q} : pull'[o] = pull[o]
        /\ UNCHANGED <<canonical, zoneCounter, local, inbox>>
    BY <1>0, <1>2 DEF PullAsk, workerVars, outboxVars
  <2>2. /\ cursor[PullsFor[q]] <= zoneCounter
        /\ \A row \in canonical : row.seq <= cursor[PullsFor[q]] => Holds(PullsFor[q], row)
    BY <1>0 DEF SystemInv, PullInv, CursorCovered, Holds
  <2>3. PullOK(q)'
    BY <2>1, <2>2 DEF PullOK, Holds
  <2>4. QED
    BY <1>1, <2>1, <2>3
<1>3. ASSUME NEW q \in Pullers, PullServe(q) \/ PullImport(q)
      PROVE  \A o \in Pullers : PullOK(o)'
  <2>1. \A o \in Pullers \ {q} : pull'[o] = pull[o]
    BY <1>0, <1>3 DEF PullServe, PullImport
  <2>2. PullOK(q)'
    BY <1>3, ServedOK, ImportOK
  <2>3. QED
    BY <1>1, <2>1, <2>2
<1>4. ASSUME NEW q \in Pullers, PullAbort(q) \/ PullCommit(q) \/ PullCrash(q)
      PROVE  \A o \in Pullers : PullOK(o)'
  <2>1. pull' = [pull EXCEPT ![q] = None]
    BY <1>4 DEF PullAbort, PullCommit, PullCrash
  <2>2. pull'[q] = None /\ \A o \in Pullers \ {q} : pull'[o] = pull[o]
    BY <1>0, <2>1
  <2>3. PullOK(q)'
    BY <2>2 DEF PullOK
  <2>4. QED
    BY <1>1, <2>2, <2>3
<1>5. ASSUME \/ UNCHANGED systemVars \/ StoreStep
             \/ \E p \in Pushers :
                  \/ LeaseOne(p) \/ BlockForeign(p) \/ \E h \in Slots : SendHead(p, h)
                  \/ SendPut(p) \/ SendPush(p) \/ Delivered(p) \/ Blocked(p) \/ Retried(p)
                  \/ ConnectionLost(p) \/ PushCrash(p)
             \/ \E h \in Slots : ServeStep(h) \/ Unheard(h) \/ ServerFault(h)
      PROVE  UNCHANGED <<pull, cursor>>
  BY <1>5 DEF systemVars, clientVars, StoreStep, LeaseOne, BlockForeign, SendHead, SendPut,
     SendPush, SendNext, Delivered, Blocked, Retried, HangUp, ConnectionLost, PushCrash,
     ServeStep, Unheard, ServerFault
<1>6. \A o \in Pullers : PullOK(o)'
  BY <1>2, <1>3, <1>4, <1>5, PullUndisturbed, SystemSteps
<1>7. ASSUME NEW d \in Devices
      PROVE  /\ cursor'[d] <= zoneCounter'
             /\ \A row \in canonical' : row.seq <= cursor'[d] => Holds(d, row)'
  <2>1. CASE cursor'[d] = cursor[d]
    BY <2>1, CursorUndisturbed
  <2>2. CASE cursor'[d] # cursor[d]
    <3>1. PICK q \in Pullers : PullCommit(q)
      BY <1>5, <2>2, SystemSteps DEF PullAsk, PullServe, PullImport, PullAbort, PullCrash
    <3>2. d = PullsFor[q] /\ cursor'[d] = pull[q].next
      BY <1>0, <2>2, <3>1 DEF PullCommit
    <3>3. /\ pull[q] # None /\ pull[q].page = <<>>
          /\ UNCHANGED <<canonical, zoneCounter, local, inbox>>
      BY <3>1 DEF PullCommit, PageApplied, workerVars, outboxVars
    <3>4. /\ pull[q].next <= zoneCounter
          /\ \A row \in canonical : row.seq <= pull[q].next => Holds(d, row)
      BY <3>2, <3>3 DEF SystemInv, PullInv, PullOK, OnPage
    <3>5. QED
      BY <3>2, <3>3, <3>4 DEF Holds
  <2>3. QED
    BY <2>1, <2>2
<1>8. QED
  BY <1>6, <1>7 DEF PullInv, CursorCovered, Holds

-----------------------------------------------------------------------------
(* The invariant, and what follows from it *)

\* The invariant holds at first ...
LEMMA SystemInvInit == SystemInit => SystemInv
<1> SUFFICES ASSUME SystemInit PROVE SystemInv
  OBVIOUS
<1>1. WorkerInv /\ OutboxInv
  BY WorkerInvInit, OutboxInvInit DEF SystemInit
<1>2. ClientTypeOK
  BY SyncSystemAssumption DEF SystemInit, ClientTypeOK
<1>3. ConnInv
  BY DEF SystemInit, ConnInv
<1>4. OwnInv
  BY ZoneDataAssumption DEF SystemInit, OutboxInit, WorkerInit, OwnInv, Captured
<1>5. PullInv
  BY DEF SystemInit, WorkerInit, PullInv, PullOK, CursorCovered
<1>6. DeliveredIsLogged
  BY DEF SystemInit, OutboxInit, DeliveredIsLogged
<1>7. QED
  BY <1>1, <1>2, <1>3, <1>4, <1>5, <1>6 DEF SystemInv

\* ... and every step keeps it.
LEMMA SystemInvStep == SystemInv /\ [SystemNext]_systemVars => SystemInv'
BY PartsStep, ClientTypeStep, ConnStep, OwnStep, PullInvStep, DeliveredStep DEF SystemInv

\* The inductive invariant of sync end to end; it carries every invariant of the
\* Worker and of the stores over to the composition.
THEOREM SystemInvariant == SystemSpec => []SystemInv
BY SystemInvInit, SystemInvStep, PTL DEF SystemSpec

\* Tables, requests, pages and cursors keep their shape in the whole system.
THEOREM SystemTypeCorrect == SystemSpec => []SystemTypeOK
<1>1. SystemInv => SystemTypeOK
  BY DEF SystemInv, WorkerInv, OutboxInv, ClientTypeOK, SystemTypeOK
<1>2. QED
  BY <1>1, SystemInvariant, PTL

\* A row is acknowledged only after remote acceptance or replay, although the client
\* acks whatever lease the row is under by then (pushOne, ackOutbox).
THEOREM DeliverySound == SystemSpec => []DeliveredIsLogged
<1>1. SystemInv => DeliveredIsLogged
  BY DEF SystemInv
<1>2. QED
  BY <1>1, SystemInvariant, PTL

\* No pull skips a row, however pages, pulls, crashes and pushes interleave and
\* although a slower pull may move the cursor back (pullPage, persistSyncCursor).
THEOREM NoRowSkipped == SystemSpec => []CursorCovered
<1>1. SystemInv => CursorCovered
  BY DEF SystemInv, PullInv
<1>2. QED
  BY <1>1, SystemInvariant, PTL

\* An event is captured on one device only ...
OneCapturer == \A e \in Events : \A d1, d2 \in CapturedOn[e] : d1 = d2

\* ... and no two events have a key in common.
KeysDistinct == \A e1, e2 \in Events : KeyOf[e1] = KeyOf[e2] => e1 = e2

\* Then every page that is served can be applied, also by the device that pulls its own
\* pushes back (importPulledProtectedValue, assertPullReplayCompatible).
THEOREM PagesAlwaysApply ==
  ASSUME OneCapturer, KeysDistinct
  PROVE  SystemSpec => []PagesApply
<1>1. ASSUME SystemInv, NEW q \in Pullers, pull[q] # None, NEW i \in DOMAIN pull[q].page
      PROVE  ~ImportThrows(PullsFor[q], pull[q].page[i])
  <2> DEFINE row == pull[q].page[i]
             d   == PullsFor[q]
             e   == row.event
  <2>1. row \in canonical
    BY <1>1 DEF SystemInv, PullInv, PullOK
  <2>2. e \in Events /\ row.origin \in Devices /\ d \in Devices
    BY <1>1, <2>1, SyncSystemAssumption DEF SystemInv, WorkerInv, WorkerTypeOK, LogRow
  <2> HIDE DEF row, d
  <2>3. \A o \in Devices : Captured(o, e) => o = row.origin
    <3>1. Captured(row.origin, e)
      BY <1>1, <2>1 DEF SystemInv, OwnInv
    <3>2. QED
      BY <1>1, <2>2, <3>1, OneCapturer DEF SystemInv, OwnInv, OneCapturer
  <2>4. uploads[e] # None => uploads[e].origin = row.origin
    <3>1. SUFFICES ASSUME uploads[e] # None PROVE uploads[e].origin = row.origin
      OBVIOUS
    <3>2. uploads[e].origin \in Devices /\ objects[e][uploads[e].origin] # None
      BY <1>1, <2>2, <3>1 DEF SystemInv, WorkerInv, WorkerTypeOK, UploadRow, RowStored
    <3>3. Captured(uploads[e].origin, e)
      BY <1>1, <2>2, <3>2 DEF SystemInv, OwnInv
    <3>4. QED
      BY <2>3, <3>2, <3>3
  <2>5. local[d][e] \in {None, row.origin} /\ inbox[d][e] \in {None, row.origin}
    <3>1. local[d][e] \in Devices \cup {None} /\ inbox[d][e] \in Devices \cup {None}
      BY <1>1, <2>2 DEF SystemInv, OutboxInv, OutboxTypeOK, ClientTypeOK
    <3>2. QED
      BY <1>1, <2>2, <2>3, <3>1 DEF SystemInv, OwnInv
  <2>6. ReplayCompatible(d, row)
    BY <2>5 DEF ReplayCompatible, Known
  <2>7. Known(d, e) = None => KeyOf[e] \notin KnownKeys(d)
    BY <2>2, KeysDistinct DEF Known, KnownKeys, KeysDistinct
  <2>8. ~ImportThrows(d, row)
    BY <2>4, <2>6, <2>7 DEF ImportThrows
  <2>9. QED
    BY <2>8 DEF row, d
<1>2. SystemInv => PagesApply
  BY <1>1 DEF PagesApply
<1>3. QED
  BY <1>2, SystemInvariant, PTL

-----------------------------------------------------------------------------
(* The zone log *)

\* The body a row publishes, and the log of a set of n rows.
BodyOf(row) == [event |-> row.event, origin |-> row.origin]

LogOf(rows, n) == [i \in 1 .. n |-> BodyOf(CHOOSE r \in rows : r.seq = i)]

\* Rows that carry the numbers 1 .. n, each once.
Numbered(rows, n) ==
  /\ rows \subseteq LogRow
  /\ {r.seq : r \in rows} = 1 .. n
  /\ \A r1, r2 \in rows : r1.seq = r2.seq => r1 = r2

\* The log of numbered rows shows each row's body at the row's number.
LEMMA LogOfRows ==
  ASSUME NEW rows, NEW n \in Nat, Numbered(rows, n)
  PROVE  /\ LogOf(rows, n) \in Seq(ZL!Body) /\ Len(LogOf(rows, n)) = n
         /\ \A r \in rows : r.seq \in 1 .. n /\ LogOf(rows, n)[r.seq] = BodyOf(r)
         /\ \A i \in 1 .. n : \E r \in rows : r.seq = i
<1>1. \A i \in 1 .. n : \E r \in rows : r.seq = i
  BY DEF Numbered
<1>2. \A r \in rows : r.seq \in 1 .. n
  BY DEF Numbered
<1>3. ASSUME NEW r \in rows
      PROVE  (CHOOSE x \in rows : x.seq = r.seq) = r
  <2>1. \E x \in rows : x.seq = r.seq
    OBVIOUS
  <2>2. (CHOOSE x \in rows : x.seq = r.seq) \in rows
        /\ (CHOOSE x \in rows : x.seq = r.seq).seq = r.seq
    BY <2>1
  <2>3. QED
    BY <2>2 DEF Numbered
<1>4. ASSUME NEW r \in rows
      PROVE  LogOf(rows, n)[r.seq] = BodyOf(r)
  BY <1>2, <1>3 DEF LogOf
<1>5. ASSUME NEW r \in rows
      PROVE  BodyOf(r) \in ZL!Body
  BY DEF Numbered, LogRow, BodyOf, ZL!Body
<1>6. \A i \in 1 .. n : LogOf(rows, n)[i] \in ZL!Body
  BY <1>1, <1>4, <1>5
<1>7. LogOf(rows, n) \in [1 .. n -> ZL!Body]
  <2>1. LogOf(rows, n) = [i \in 1 .. n |-> LogOf(rows, n)[i]]
    BY DEF LogOf
  <2>2. QED
    BY <1>6, <2>1
<1>8. LogOf(rows, n) \in Seq(ZL!Body)
  BY <1>7, SeqDef
<1>9. Len(LogOf(rows, n)) = n
  BY <1>7, <1>8, LenProperties
<1>10. QED
  BY <1>1, <1>2, <1>4, <1>8, <1>9

\* A row with the next number is appended.
LEMMA LogOfAppend ==
  ASSUME NEW rows, NEW n \in Nat, Numbered(rows, n),
         NEW row \in LogRow, row.seq = n + 1, Numbered(rows \cup {row}, n + 1)
  PROVE  LogOf(rows \cup {row}, n + 1) = Append(LogOf(rows, n), BodyOf(row))
<1> DEFINE old == LogOf(rows, n)
           new == LogOf(rows \cup {row}, n + 1)
<1>1. /\ old \in Seq(ZL!Body) /\ Len(old) = n
      /\ \A r \in rows : r.seq \in 1 .. n /\ old[r.seq] = BodyOf(r)
      /\ \A i \in 1 .. n : \E r \in rows : r.seq = i
  BY LogOfRows
<1>2. /\ new \in Seq(ZL!Body) /\ Len(new) = n + 1
      /\ \A r \in rows \cup {row} : new[r.seq] = BodyOf(r)
  <2>1. n + 1 \in Nat
    OBVIOUS
  <2>2. QED
    BY <2>1, LogOfRows, Zenon
<1>3. BodyOf(row) \in ZL!Body
  BY DEF LogRow, BodyOf, ZL!Body
<1> HIDE DEF old, new
<1>4. /\ Append(old, BodyOf(row)) \in Seq(ZL!Body)
      /\ Len(Append(old, BodyOf(row))) = n + 1
      /\ \A i \in 1 .. n : Append(old, BodyOf(row))[i] = old[i]
      /\ Append(old, BodyOf(row))[n + 1] = BodyOf(row)
  BY <1>1, <1>3, AppendProperties
<1>5. ASSUME NEW i \in 1 .. (n + 1)
      PROVE  new[i] = Append(old, BodyOf(row))[i]
  <2>1. CASE i = n + 1
    <3>1. new[row.seq] = BodyOf(row)
      BY <1>2
    <3>2. QED
      BY <1>4, <2>1, <3>1
  <2>2. CASE i \in 1 .. n
    <3>1. PICK r \in rows : r.seq = i
      BY <1>1, <2>2
    <3>2. new[r.seq] = BodyOf(r) /\ old[r.seq] = BodyOf(r)
      BY <1>1, <1>2
    <3>3. Append(old, BodyOf(row))[i] = old[i]
      BY <1>4, <2>2
    <3>4. QED
      BY <3>1, <3>2, <3>3
  <2>3. i = n + 1 \/ i \in 1 .. n
    OBVIOUS
  <2>4. QED
    BY <2>1, <2>2, <2>3
<1>6. new = Append(old, BodyOf(row))
  BY <1>2, <1>4, <1>5, SeqEqual
<1>7. QED
  BY <1>6 DEF old, new

\* What a device holds, from what its store and its inbox hold of each event.
BodiesOf(store, box) ==
  {[event |-> e, origin |-> store[e]] : e \in {x \in Events : store[x] # None}}
    \cup {[event |-> e, origin |-> box[e]] : e \in {x \in Events : box[x] # None}}

LEMMA BodiesHeld ==
  ASSUME NEW store \in [Events -> Devices \cup {None}],
         NEW box \in [Events -> Devices \cup {None}]
  PROVE  \A b : b \in BodiesOf(store, box) <=>
           b \in ZL!Body /\ b.origin \in {store[b.event], box[b.event]}
<1> SUFFICES ASSUME NEW b
             PROVE  b \in BodiesOf(store, box) <=>
                      b \in ZL!Body /\ b.origin \in {store[b.event], box[b.event]}
  OBVIOUS
<1>1. ASSUME b \in BodiesOf(store, box)
      PROVE  b \in ZL!Body /\ b.origin \in {store[b.event], box[b.event]}
  <2>1. CASE \E e \in Events : store[e] # None /\ b = [event |-> e, origin |-> store[e]]
    BY <2>1 DEF ZL!Body
  <2>2. CASE \E e \in Events : box[e] # None /\ b = [event |-> e, origin |-> box[e]]
    BY <2>2 DEF ZL!Body
  <2>3. QED
    BY <1>1, <2>1, <2>2 DEF BodiesOf
<1>2. ASSUME b \in ZL!Body, b.origin \in {store[b.event], box[b.event]}
      PROVE  b \in BodiesOf(store, box)
  <2>1. b.event \in Events /\ b.origin # None /\ b = [event |-> b.event, origin |-> b.origin]
    BY <1>2, ZoneDataAssumption DEF ZL!Body
  <2>2. QED
    BY <1>2, <2>1 DEF BodiesOf
<1>3. QED
  BY <1>1, <1>2

\* A store and an inbox gain event e from device o: every other event is as it
\* was, and what either held of e stays or becomes o's.
Gains(store, box, store2, box2, e, o) ==
  /\ {store, box, store2, box2} \subseteq [Events -> Devices \cup {None}]
  /\ e \in Events /\ o \in Devices
  /\ \A x \in Events \ {e} : store2[x] = store[x] /\ box2[x] = box[x]
  /\ o \in {store2[e], box2[e]}
  /\ store2[e] \in {store[e], o} /\ box2[e] \in {box[e], o}
  /\ {store[e], box[e]} \ {None} \subseteq {store2[e], box2[e]}

\* One more body, of an event the device holds none of.
LEMMA BodiesGain ==
  ASSUME NEW store, NEW box, NEW store2, NEW box2, NEW e, NEW o,
         Gains(store, box, store2, box2, e, o)
  PROVE  BodiesOf(store2, box2) = BodiesOf(store, box) \cup {[event |-> e, origin |-> o]}
<1> USE DEF Gains
<1>1. [event |-> e, origin |-> o] \in ZL!Body
  BY DEF ZL!Body
<1>2. ASSUME NEW b
      PROVE  b \in BodiesOf(store2, box2) <=>
               b \in BodiesOf(store, box) \/ b = [event |-> e, origin |-> o]
  <2>1. CASE b \notin ZL!Body
    BY <1>1, <2>1, BodiesHeld
  <2>2. CASE b \in ZL!Body
    <3>1. b.event \in Events /\ b.origin # None /\ b = [event |-> b.event, origin |-> b.origin]
      BY <2>2, ZoneDataAssumption DEF ZL!Body
    <3>2. b \in BodiesOf(store2, box2) <=> b.origin \in {store2[b.event], box2[b.event]}
      BY <2>2, BodiesHeld
    <3>3. b \in BodiesOf(store, box) <=> b.origin \in {store[b.event], box[b.event]}
      BY <2>2, BodiesHeld
    <3>4. CASE b.event # e
      <4>1. b # [event |-> e, origin |-> o]
        BY <3>4
      <4>2. QED
        BY <3>1, <3>2, <3>3, <3>4, <4>1
    <3>5. CASE b.event = e
      <4>1. b = [event |-> e, origin |-> o] <=> b.origin = o
        BY <3>1, <3>5
      <4>2. QED
        BY <3>1, <3>2, <3>3, <3>5, <4>1
    <3>6. QED
      BY <3>4, <3>5
  <2>3. QED
    BY <2>1, <2>2
<1>3. QED
  BY <1>2

\* The log and the bodies of the system, in these terms.
LEMMA MappedState ==
  /\ LogSequence = LogOf(canonical, zoneCounter)
  /\ \A d \in Devices : Bodies(d) = BodiesOf(local[d], inbox[d])
BY DEF LogSequence, LogOf, BodyOf, Bodies, BodiesOf

\* The acceptance of a push publishes a body that its device holds.
LEMMA PublishStep ==
  ASSUME SystemInv, [SystemNext]_systemVars, UNCHANGED <<local, inbox>>
  PROVE  [ZL!ZoneLogNext]_<<LogSequence, [d \in Devices |-> Bodies(d)]>>
<1> DEFINE has == [d \in Devices |-> Bodies(d)]
<1>1. has' = has
  BY DEF Bodies
<1>2. CASE UNCHANGED <<syncRequests, zoneCounter, canonical>>
  BY <1>1, <1>2 DEF LogSequence
<1>3. CASE \E h \in Slots :
             /\ job[h] # None
             /\ syncRequests[KeyOf[job[h].event]] = None
             /\ zoneCounter' = zoneCounter + 1
             /\ canonical' = canonical \cup
                  {[seq |-> zoneCounter + 1, event |-> job[h].event, origin |-> job[h].origin]}
  <2>1. PICK h \in Slots :
          /\ job[h] # None
          /\ syncRequests[KeyOf[job[h].event]] = None
          /\ zoneCounter' = zoneCounter + 1
          /\ canonical' = canonical \cup
               {[seq |-> zoneCounter + 1, event |-> job[h].event, origin |-> job[h].origin]}
    BY <1>3
  <2> DEFINE e   == job[h].event
             d   == job[h].origin
             row == [seq |-> zoneCounter + 1, event |-> e, origin |-> d]
  <2>2. e \in Events /\ d \in Devices /\ Captured(d, e)
    BY <2>1 DEF SystemInv, WorkerInv, WorkerTypeOK, Job, OwnInv
  <2>3. zoneCounter \in Nat /\ Numbered(canonical, zoneCounter)
    BY DEF SystemInv, WorkerInv, WorkerTypeOK, SequenceIntegrity, Numbered
  <2>4. Numbered(canonical', zoneCounter')
    BY PartsStep DEF WorkerInv, WorkerTypeOK, SequenceIntegrity, Numbered
  <2>5. row \in LogRow /\ row.seq = zoneCounter + 1 /\ BodyOf(row) = [event |-> e, origin |-> d]
    BY <2>2, <2>3 DEF LogRow, BodyOf
  <2> DEFINE body == [event |-> e, origin |-> d]
  <2>6. LogSequence' = Append(LogSequence, body)
    <3>1. LogOf(canonical', zoneCounter') = Append(LogOf(canonical, zoneCounter), BodyOf(row))
      <4>1. canonical' = canonical \cup {row} /\ zoneCounter' = zoneCounter + 1
        BY <2>1
      <4> HIDE DEF row
      <4>2. QED
        BY <2>3, <2>4, <2>5, <4>1, LogOfAppend
    <3>2. LogSequence' = LogOf(canonical', zoneCounter')
      BY DEF LogSequence, LogOf, BodyOf
    <3>3. QED
      BY <2>5, <3>1, <3>2, MappedState
  <2>7. body \in ZL!Body /\ body \in has[body.origin]
    <3>1. local[d][e] = d /\ d # None
      BY <2>2, ZoneDataAssumption DEF Captured
    <3>2. body \in Bodies(d)
      BY <2>2, <3>1 DEF Bodies
    <3>3. QED
      BY <2>2, <3>2 DEF ZL!Body
  <2>8. \A i \in DOMAIN LogSequence : KeyOf[LogSequence[i].event] # KeyOf[body.event]
    <3> SUFFICES ASSUME NEW i \in 1 .. zoneCounter
                 PROVE  KeyOf[LogSequence[i].event] # KeyOf[e]
      BY DEF LogSequence
    <3>1. PICK r \in canonical : r.seq = i
      BY <2>3, LogOfRows
    <3>2. LogSequence[i] = BodyOf(r)
      BY <2>3, <3>1, LogOfRows, MappedState
    <3>3. r.event \in Events /\ KeyOf[e] \in Keys
      BY <2>2, ZoneDataAssumption DEF SystemInv, WorkerInv, WorkerTypeOK, LogRow
    <3>4. KeyOf[r.event] = KeyOf[e] => syncRequests[KeyOf[e]] = r.event
      BY <3>3 DEF SystemInv, WorkerInv, SequenceIntegrity
    <3>5. KeyOf[r.event] # KeyOf[e]
      BY <2>1, <3>3, <3>4, ZoneDataAssumption
    <3>6. QED
      BY <3>2, <3>5 DEF BodyOf
  <2>9. ZL!Publish(body)
    BY <1>1, <2>6, <2>7, <2>8 DEF ZL!Publish
  <2>10. QED
    BY <2>7, <2>9 DEF ZL!ZoneLogNext
<1>4. QED
  BY <1>2, <1>3, LogStep

\* The capture of an event gives its device a body.
LEMMA CaptureStep ==
  ASSUME SystemInv, UNCHANGED <<canonical, zoneCounter, inbox>>,
         NEW d \in Devices, NEW e \in Events, AppendEvent(d, e)
  PROVE  ZL!CaptureBody(d, e)
<1>0. /\ local \in [Devices -> [Events -> Devices \cup {None}]]
      /\ inbox \in [Devices -> [Events -> Devices \cup {None}]]
  BY DEF SystemInv, OutboxInv, OutboxTypeOK, ClientTypeOK
<1>1. local[d][e] = None /\ local' = [local EXCEPT ![d][e] = d]
  BY DEF AppendEvent, KnownKeys
<1>2. /\ local'[d] \in [Events -> Devices \cup {None}] /\ local'[d][e] = d
      /\ \A x \in Events \ {e} : local'[d][x] = local[d][x]
      /\ \A c \in Devices \ {d} : local'[c] = local[c]
  BY <1>0, <1>1
<1>3. BodiesOf(local'[d], inbox[d]) = BodiesOf(local[d], inbox[d]) \cup
        {[event |-> e, origin |-> d]}
  <2>1. inbox'[d] = inbox[d]
    OBVIOUS
  <2>2. Gains(local[d], inbox[d], local'[d], inbox[d], e, d)
    BY <1>0, <1>1, <1>2, ZoneDataAssumption DEF Gains
  <2>3. QED
    BY <2>2, BodiesGain
<1>4. \A c \in Devices : Bodies(c)' = BodiesOf(local'[c], inbox[c])
  BY DEF Bodies, BodiesOf
<1>5. Bodies(d)' = Bodies(d) \cup {[event |-> e, origin |-> d]}
      /\ \A c \in Devices \ {d} : Bodies(c)' = Bodies(c)
  BY <1>2, <1>3, <1>4, MappedState
<1>6. [c \in Devices |-> Bodies(c)]' =
        [[c \in Devices |-> Bodies(c)] EXCEPT ![d] = @ \cup {[event |-> e, origin |-> d]}]
  BY <1>5
<1>7. LogSequence' = LogSequence
  BY DEF LogSequence
<1>8. QED
  BY <1>6, <1>7 DEF ZL!CaptureBody

\* The import of a row gives its device a published body, if it did not hold it.
LEMMA ReceiveStep ==
  ASSUME SystemInv, NEW q \in Pullers, PullImport(q)
  PROVE  [ZL!ZoneLogNext]_<<LogSequence, [d \in Devices |-> Bodies(d)]>>
<1> DEFINE d   == PullsFor[q]
           row == Head(pull[q].page)
           e   == row.event
           has == [c \in Devices |-> Bodies(c)]
<1>0. /\ local \in [Devices -> [Events -> Devices \cup {None}]]
      /\ inbox \in [Devices -> [Events -> Devices \cup {None}]]
  BY DEF SystemInv, OutboxInv, OutboxTypeOK, ClientTypeOK
<1>1. row \in canonical
  BY ImportedHeld
<1>2. d \in Devices /\ e \in Events /\ row.origin \in Devices
  BY <1>1, SyncSystemAssumption DEF SystemInv, WorkerInv, WorkerTypeOK, LogRow
<1>3. LogSequence' = LogSequence
  BY DEF PullImport, workerVars, LogSequence
<1>4. CASE Known(d, e) # None
  <2>1. UNCHANGED <<local, inbox>>
    BY <1>4 DEF PullImport
  <2>2. has' = has
    BY <2>1 DEF Bodies
  <2>3. QED
    BY <1>3, <2>2
<1>5. CASE Known(d, e) = None
  <2>1. /\ inbox' = [inbox EXCEPT ![d][e] = row.origin]
        /\ local' = IF e \in Evidence THEN [local EXCEPT ![d][e] = row.origin] ELSE local
    BY <1>5 DEF PullImport
  <2>2. local[d][e] = None /\ inbox[d][e] = None
    BY <1>5 DEF Known
  <2> HIDE DEF d, row
  <2>3. /\ inbox'[d] \in [Events -> Devices \cup {None}] /\ inbox'[d][e] = row.origin
        /\ \A x \in Events \ {e} : inbox'[d][x] = inbox[d][x]
        /\ \A c \in Devices \ {d} : inbox'[c] = inbox[c]
    BY <1>0, <1>2, <2>1
  <2>4. /\ local'[d] \in [Events -> Devices \cup {None}]
        /\ local'[d][e] \in {local[d][e], row.origin}
        /\ \A x \in Events \ {e} : local'[d][x] = local[d][x]
        /\ \A c \in Devices \ {d} : local'[c] = local[c]
    BY <1>0, <1>2, <2>1
  <2>5. BodiesOf(local'[d], inbox'[d]) = BodiesOf(local[d], inbox[d]) \cup
          {[event |-> e, origin |-> row.origin]}
    <3>1. Gains(local[d], inbox[d], local'[d], inbox'[d], e, row.origin)
      BY <1>0, <1>2, <2>2, <2>3, <2>4, ZoneDataAssumption DEF Gains
    <3>2. QED
      BY <3>1, BodiesGain
  <2>6. \A c \in Devices : Bodies(c)' = BodiesOf(local'[c], inbox'[c])
    BY DEF Bodies, BodiesOf
  <2>7. Bodies(d)' = Bodies(d) \cup {BodyOf(row)}
        /\ \A c \in Devices \ {d} : Bodies(c)' = Bodies(c)
    BY <1>2, <2>3, <2>4, <2>5, <2>6, MappedState DEF BodyOf
  <2>8. zoneCounter \in Nat /\ Numbered(canonical, zoneCounter)
    BY DEF SystemInv, WorkerInv, WorkerTypeOK, SequenceIntegrity, Numbered
  <2>9. row.seq \in DOMAIN LogSequence /\ LogSequence[row.seq] = BodyOf(row)
    <3>1. DOMAIN LogSequence = 1 .. zoneCounter
      BY DEF LogSequence
    <3>2. QED
      BY <1>1, <2>8, <3>1, LogOfRows, MappedState
  <2>10. has' = [has EXCEPT ![d] = @ \cup {LogSequence[row.seq]}]
    BY <1>2, <2>7, <2>9
  <2>11. ZL!ReceiveBody(d, row.seq)
    BY <1>3, <2>10 DEF ZL!ReceiveBody
  <2>12. QED
    BY <1>2, <2>9, <2>11 DEF ZL!ZoneLogNext
<1>6. QED
  BY <1>4, <1>5

\* Every step of the system is a step of the zone log or none.
LEMMA ZoneLogStep ==
  ASSUME SystemInv, [SystemNext]_systemVars
  PROVE  [ZL!ZoneLogNext]_<<LogSequence, [d \in Devices |-> Bodies(d)]>>
<1>1. CASE StoreStep
  <2>1. UNCHANGED <<canonical, zoneCounter, inbox>> /\ StoreNext
    BY <1>1 DEF StoreStep, workerVars, clientVars
  <2>2. CASE \E d \in Devices, e \in Events : AppendEvent(d, e)
    BY <2>1, <2>2, CaptureStep DEF ZL!ZoneLogNext
  <2>3. CASE local' = local
    BY <2>1, <2>3, PublishStep
  <2>4. QED
    BY <2>1, <2>2, <2>3
       DEF StoreNext, Capture, Propose, Dispose, Elapse, SweepScan, Requeue, SweepDelete
<1>2. CASE \E q \in Pullers : PullImport(q)
  BY <1>2, ReceiveStep
<1>3. ASSUME \/ UNCHANGED systemVars
             \/ \E p \in Pushers :
                  \/ LeaseOne(p) \/ BlockForeign(p) \/ \E h \in Slots : SendHead(p, h)
                  \/ SendPut(p) \/ SendPush(p) \/ Delivered(p) \/ Blocked(p) \/ Retried(p)
                  \/ ConnectionLost(p) \/ PushCrash(p)
             \/ \E h \in Slots : ServeStep(h) \/ Unheard(h) \/ ServerFault(h)
             \/ \E q \in Pullers :
                  PullAsk(q) \/ PullServe(q) \/ PullAbort(q) \/ PullCommit(q) \/ PullCrash(q)
      PROVE  UNCHANGED <<local, inbox>>
  BY <1>3 DEF systemVars, clientVars, outboxVars, LeaseOne, Lease, BlockForeign, Return, Ack,
     SendHead, SendPut, SendPush, SendNext, Delivered, Blocked, Retried, HangUp,
     ConnectionLost, PushCrash, PusherCrash, ServeStep, Unheard, ServerFault, PullAsk,
     PullServe, PullAbort, PullCommit, PullCrash
<1>4. QED
  BY <1>1, <1>2, <1>3, PublishStep, SystemSteps

\* At first nothing is published or held.
LEMMA ZoneLogStart == SystemInit => ZL!ZoneLogInit
<1> SUFFICES ASSUME SystemInit PROVE ZL!ZoneLogInit
  OBVIOUS
<1>1. LogSequence = <<>>
  BY DEF SystemInit, WorkerInit, LogSequence
<1>2. \A d \in Devices : Bodies(d) = {}
  BY DEF SystemInit, OutboxInit, Bodies
<1>3. QED
  BY <1>1, <1>2 DEF ZL!ZoneLogInit

\* The stores, the coordinator and the Worker together implement the zone log: what
\* users see of sync is captures, publications under fresh keys and receipts, whatever
\* is retried, lost, leased or crashed underneath (ADR 0003, ADR 0006).
THEOREM SyncImplementsZoneLog == SystemSpec => ImplementsZoneLog
<1>1. SystemInit => ZL!ZoneLogInit
  BY ZoneLogStart
<1>2. SystemInv /\ [SystemNext]_systemVars =>
        [ZL!ZoneLogNext]_<<LogSequence, [d \in Devices |-> Bodies(d)]>>
  BY ZoneLogStep
<1>3. QED
  BY <1>1, <1>2, SystemInvariant, PTL DEF SystemSpec, ImplementsZoneLog, ZL!ZoneLogSpec
=============================================================================
