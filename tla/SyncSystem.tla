----------------------------- MODULE SyncSystem -----------------------------
(***************************************************************************)
(* Sync end to end: the stores of Outbox, the Worker of SyncWorker, and    *)
(* between them the OutboxSyncCoordinator of packages/sync-client, run by  *)
(* the sync commands of the CLI.                                           *)
(*                                                                         *)
(* A pusher leases one item and talks to the Worker: HEAD, PUT if the blob *)
(* is not there, push, and then ack, retry or block.  A puller reads the   *)
(* cursor, asks for a page, imports its rows one by one and then moves the *)
(* cursor.  Requests can fail in the Worker, answers can get lost while    *)
(* the handler goes on, and the processes can die at any point.            *)
(***************************************************************************)
EXTENDS Outbox, SyncWorker, Sequences

CONSTANTS
  Foreign,      \* events whose push request names another trust zone than the store
  Pullers,      \* pulling processes
  PullsFor,     \* the device each puller runs on
  PullLimit,    \* rows per page
  MaxFaults     \* bound on the faults of a behaviour

ASSUME SyncSystemAssumption ==
  /\ Foreign \subseteq Events
  /\ PullsFor \in [Pullers -> Devices]
  /\ PullLimit \in Nat \ {0}
  /\ MaxFaults \in Nat

VARIABLES
  conn,     \* [Pushers -> Slots or None]: the request a pusher waits for
  inbox,    \* [Devices -> [Events -> origin or None]]: sync_inbox_events
  cursor,   \* [Devices -> Nat]: sync_cursors.after_sequence
  pull,     \* [Pullers -> pull in progress or None]
  faults    \* the faults so far

clientVars == <<conn, inbox, cursor, pull, faults>>
systemVars == <<outboxVars, workerVars, clientVars>>

-----------------------------------------------------------------------------
Pulling == [at : {"ask", "page"}, next : Nat, page : Seq(LogRow)]

\* getEvent: the body a device holds of an event, its own or a pulled one.
Known(d, e) == IF local[d][e] # None THEN local[d][e] ELSE inbox[d][e]

SystemInit ==
  /\ OutboxInit
  /\ WorkerInit
  /\ conn = [p \in Pushers |-> None]
  /\ inbox = [d \in Devices |-> [e \in Events |-> None]]
  /\ cursor = [d \in Devices |-> 0]
  /\ pull = [q \in Pullers |-> None]
  /\ faults = 0

\* One more fault, within the bound.
Fault == faults < MaxFaults /\ faults' = faults + 1

\* The store on its own: captures, the passing of time, dispositions and the
\* operator's commands.
StoreStep == StoreNext /\ UNCHANGED <<workerVars, clientVars>>

-----------------------------------------------------------------------------
(* OutboxSyncCoordinator.pushOne *)

LeaseOne(p) ==
  /\ conn[p] = None
  /\ \E policy \in Policies : Lease(p, policy)
  /\ UNCHANGED <<workerVars, clientVars>>

\* The item's trust zone is not the store's: the item is blocked.
BlockForeign(p) ==
  /\ held[p] # None
  /\ conn[p] = None
  /\ held[p].event \in Foreign
  /\ Return(p, TRUE)
  /\ UNCHANGED <<workerVars, clientVars>>

\* Ask whether the protected value is there.
SendHead(p, h) ==
  /\ held[p] # None
  /\ conn[p] = None
  /\ held[p].event \notin Foreign
  /\ Receive(h, Request("read", held[p].event, DeviceOf[p], None, FALSE))
  /\ conn' = [conn EXCEPT ![p] = h]
  /\ UNCHANGED <<outboxVars, inbox, cursor, pull, faults>>

\* The Worker has answered p's request of kind op with one of the answers.
Answered(p, op, answers) ==
  /\ conn[p] # None
  /\ At(conn[p], op, "done")
  /\ job[conn[p]].answer \in answers

\* p takes the answer and sends its next request.
SendNext(p, request) ==
  /\ job' = [job EXCEPT ![conn[p]] = request]
  /\ UNCHANGED <<outboxVars, syncRequests, zoneCounter, canonical, uploads, links,
                 objects, clientVars>>

\* p takes the answer and is done with the Worker.
HangUp(p) ==
  /\ job' = [job EXCEPT ![conn[p]] = None]
  /\ conn' = [conn EXCEPT ![p] = None]
  /\ UNCHANGED <<syncRequests, zoneCounter, canonical, uploads, links, objects,
                 inbox, cursor, pull, faults>>

\* The stored value is the very ciphertext of this device.
BlobPresent(p) ==
  LET j == job[conn[p]] IN j.answer = "found" /\ j.row.origin = j.origin

SendPut(p) ==
  /\ Answered(p, "read", {"found", "missing"})
  /\ ~BlobPresent(p)
  /\ LET j == job[conn[p]] IN
     SendNext(p, Request("put", j.event, j.origin, held[p].lease, FALSE))

SendPush(p) ==
  /\ \/ Answered(p, "read", {"found"}) /\ BlobPresent(p)
     \/ Answered(p, "put", {"receipt"})
  /\ LET j == job[conn[p]] IN
     SendNext(p, Request("push", j.event, j.origin, None, TRUE))

DeliveryAnswers == {"accepted", "replay"}

Delivered(p) ==
  /\ Answered(p, "push", DeliveryAnswers)
  /\ Ack(p)
  /\ HangUp(p)

\* A 4xx answer: the item returns to the queue at once.
Blocked(p) ==
  /\ \/ Answered(p, "put", {"mismatch"})
     \/ Answered(p, "push", {"conflict", "rejected"} \ DeliveryAnswers)
  /\ Return(p, TRUE)
  /\ HangUp(p)

\* A 5xx answer: the item returns to the queue after the retry delay.
Retried(p) ==
  /\ \E op \in {"read", "put", "push"} : Answered(p, op, {"error"})
  /\ Return(p, FALSE)
  /\ HangUp(p)

\* The connection breaks: the client retries later, the handler goes on unheard.
ConnectionLost(p) ==
  /\ conn[p] # None
  /\ Return(p, FALSE)
  /\ conn' = [conn EXCEPT ![p] = None]
  /\ Fault
  /\ UNCHANGED <<workerVars, inbox, cursor, pull>>

\* The sync command dies between any two steps.
PushCrash(p) ==
  /\ PusherCrash(p)
  /\ conn' = [conn EXCEPT ![p] = None]
  /\ Fault
  /\ UNCHANGED <<workerVars, inbox, cursor, pull>>

PushStep(p) ==
  \/ LeaseOne(p) \/ BlockForeign(p) \/ (\E h \in Slots : SendHead(p, h))
  \/ SendPut(p) \/ SendPush(p) \/ Delivered(p) \/ Blocked(p) \/ Retried(p)

-----------------------------------------------------------------------------
(* The Worker's own steps *)

ServeStep(h) == Serve(h) /\ UNCHANGED <<outboxVars, clientVars>>

\* The answer to a client that is gone is lost.
Unheard(h) ==
  /\ \A p \in Pushers : conn[p] # h
  /\ Release(h)
  /\ UNCHANGED <<outboxVars, clientVars>>

ServerFault(h) ==
  /\ Fail(h)
  /\ Fault
  /\ UNCHANGED <<outboxVars, conn, inbox, cursor, pull>>

-----------------------------------------------------------------------------
(* OutboxSyncCoordinator.pullPage *)

\* getSyncCursor, and the request is on its way.
PullAsk(q) ==
  /\ pull[q] = None
  /\ pull' = [pull EXCEPT ![q] =
       [at |-> "ask", next |-> cursor[PullsFor[q]], page |-> <<>>]]
  /\ UNCHANGED <<outboxVars, workerVars, conn, inbox, cursor, faults>>

\* The first rows of above in sequence order: the page is full if a row is left out,
\* and what is left out comes later.
IsPage(page, above) ==
  /\ \A i, j \in DOMAIN page : i < j => page[i].seq < page[j].seq
  /\ \A r \in above \ {page[i] : i \in DOMAIN page} :
       Len(page) = PullLimit /\ \A i \in DOMAIN page : page[i].seq < r.seq

\* handlePull: the first rows above the cursor, at most PullLimit of them.
PageAfter(after) ==
  LET above == {r \in canonical : r.seq > after}
  IN CHOOSE page \in UNION {[1 .. n -> above] : n \in 0 .. PullLimit} : IsPage(page, above)

PullServe(q) ==
  /\ pull[q] # None
  /\ pull[q].at = "ask"
  /\ LET page == PageAfter(pull[q].next) IN
     pull' = [pull EXCEPT ![q] =
       [at |-> "page", page |-> page,
        next |-> IF page = <<>> THEN @.next ELSE page[Len(page)].seq]]
  /\ UNCHANGED <<outboxVars, workerVars, conn, inbox, cursor, faults>>

\* Mutant: a device's own capture, which has no zone_sequence yet, diverges from the
\* pulled row that has one.
ReplayCompatibleStrict(d, row) ==
  \/ Known(d, row.event) = None
  \/ Known(d, row.event) = row.origin /\ row.origin # d

\* assertPullReplayCompatible: the body pulled is the one the device holds, if any; a
\* missing zone_sequence on the device's own capture is no difference.
ReplayCompatible(d, row) == Known(d, row.event) \in {None, row.origin}

\* The import of a row throws: the protected value the Worker serves is not the one
\* the event refers to, the device holds another body of the event, or another event
\* of the same key stands in canonical_events.
ImportThrows(d, row) ==
  \/ /\ row.event \in Evidence
     /\ uploads[row.event] # None
     /\ uploads[row.event].origin # row.origin
  \/ ~ReplayCompatible(d, row)
  \/ row.event \in Evidence /\ Known(d, row.event) = None /\ KeyOf[row.event] \in KnownKeys(d)

\* importPulledProtectedValue and importPulledEvent: evidence becomes a canonical
\* event of the device, anything else only reaches its inbox; an event the device
\* already holds is a replay.
PullImport(q) ==
  LET d   == PullsFor[q]
      row == Head(pull[q].page)
      new == Known(d, row.event) = None
  IN
  /\ pull[q] # None
  /\ pull[q].at = "page"
  /\ pull[q].page # <<>>
  /\ ~ImportThrows(d, row)
  /\ inbox' = IF new THEN [inbox EXCEPT ![d][row.event] = row.origin] ELSE inbox
  /\ local' = IF new /\ row.event \in Evidence
                THEN [local EXCEPT ![d][row.event] = row.origin] ELSE local
  /\ pull' = [pull EXCEPT ![q].page = Tail(@)]
  /\ UNCHANGED <<promoted, outbox, lastRow, lastAttempt, held, sweep, workerVars,
                 conn, cursor, faults>>

\* The exception leaves the cursor where it was.
PullAbort(q) ==
  /\ pull[q] # None
  /\ pull[q].at = "page"
  /\ pull[q].page # <<>>
  /\ ImportThrows(PullsFor[q], Head(pull[q].page))
  /\ pull' = [pull EXCEPT ![q] = None]
  /\ UNCHANGED <<outboxVars, workerVars, conn, inbox, cursor, faults>>

\* Mutant: the cursor may move before the page is applied.
PageAppliedNever(q) == pull[q].at = "page"

PageApplied(q) == pull[q].at = "page" /\ pull[q].page = <<>>

\* persistSyncCursor: the last sequence of the page, or the cursor the pull started
\* from when the page was empty; whatever is stored by now is overwritten.
PullCommit(q) ==
  /\ pull[q] # None
  /\ PageApplied(q)
  /\ cursor' = [cursor EXCEPT ![PullsFor[q]] = pull[q].next]
  /\ pull' = [pull EXCEPT ![q] = None]
  /\ UNCHANGED <<outboxVars, workerVars, conn, inbox, faults>>

\* The pull fails in transport, or its process dies.
PullCrash(q) ==
  /\ pull[q] # None
  /\ pull' = [pull EXCEPT ![q] = None]
  /\ Fault
  /\ UNCHANGED <<outboxVars, workerVars, conn, inbox, cursor>>

PullStep(q) == PullAsk(q) \/ PullServe(q) \/ PullImport(q) \/ PullAbort(q) \/ PullCommit(q)

-----------------------------------------------------------------------------
SystemNext ==
  \/ StoreStep
  \/ \E p \in Pushers : PushStep(p) \/ ConnectionLost(p) \/ PushCrash(p)
  \/ \E h \in Slots : ServeStep(h) \/ Unheard(h) \/ ServerFault(h)
  \/ \E q \in Pullers : PullStep(q) \/ PullCrash(q)

SystemSpec == SystemInit /\ [][SystemNext]_systemVars

\* Scheduling.  Sync commands are started again and again by the operator or a
\* timer, so processes keep stepping; the Worker runs what it accepted to the end;
\* clocks advance.  Nothing is assumed of captures, dispositions, operator commands
\* or faults.
SystemFairness ==
  /\ \A d \in Devices, e \in Events :
       WF_systemVars(Elapse(d, e) /\ UNCHANGED <<workerVars, clientVars>>)
  /\ \A p \in Pushers : WF_systemVars(PushStep(p))
  /\ \A h \in Slots : WF_systemVars(ServeStep(h)) /\ WF_systemVars(Unheard(h))
  /\ \A q \in Pullers : WF_systemVars(PullStep(q))

FairSystemSpec == SystemSpec /\ SystemFairness

-----------------------------------------------------------------------------
(* Properties *)

\* The shape of the client's state; the rest is OutboxTypeOK and WorkerTypeOK.
SystemTypeOK ==
  /\ OutboxTypeOK
  /\ WorkerTypeOK
  /\ conn \in [Pushers -> Slots \cup {None}]
  /\ inbox \in [Devices -> [Events -> Devices \cup {None}]]
  /\ cursor \in [Devices -> Nat]
  /\ pull \in [Pullers -> Pulling \cup {None}]
  /\ faults \in 0 .. MaxFaults

\* "`sync push` ... ACKs it only after remote acceptance or replay"
\* (docs/guides/cloudflare-sync.md): a delivered row's event is in the zone's log,
\* although acks are unconditional on the client and leases change hands.
DeliveredIsLogged ==
  \A d \in Devices, e \in Events :
    outbox[d][e] # None /\ outbox[d][e].state = "delivered" =>
      \E row \in canonical : row.event = e

\* No record is ever skipped: a device holds the logged body of every row at or
\* below its cursor, however pages, pulls of several processes, crashes in the
\* middle of a page and new pushes interleave, and although the cursor itself may
\* move back (pullPage, persistSyncCursor).
CursorCovered ==
  \A d \in Devices : \A row \in canonical :
    row.seq <= cursor[d] => row.origin \in {local[d][row.event], inbox[d][row.event]}

\* Where every event is captured on one device and keys are not reused, a page that
\* the Worker serves can be applied, also by the device that pulls its own pushes
\* back: no upload retried, raced or repeated makes a pull throw and so stop at its
\* cursor for good (importPulledProtectedValue, upsertProtectedValueReceipt,
\* assertPullReplayCompatible).
PagesApply ==
  \A q \in Pullers : pull[q] # None =>
    \A i \in DOMAIN pull[q].page : ~ImportThrows(PullsFor[q], pull[q].page[i])

\* The zone as its users see it: one log, and the bodies each device holds.
LogSequence ==
  [i \in 1 .. zoneCounter |->
     LET row == CHOOSE r \in canonical : r.seq = i
     IN [event |-> row.event, origin |-> row.origin]]

Bodies(d) ==
  {[event |-> e, origin |-> local[d][e]] : e \in {x \in Events : local[d][x] # None}}
    \cup {[event |-> e, origin |-> inbox[d][e]] : e \in {x \in Events : inbox[d][x] # None}}

ZL == INSTANCE ZoneLog WITH log <- LogSequence, has <- [d \in Devices |-> Bodies(d)]

\* The whole machinery implements the zone log: every step is a capture, the
\* publication of one captured body under a fresh key, the receipt of a published
\* body by one device, or nothing the users can see.
ImplementsZoneLog == ZL!ZoneLogSpec

\* Every event captured for this zone, if its policy admits it, reaches every device
\* in the end, once faults stop: no lease, lost answer, half-finished upload or
\* interrupted page keeps it away for good.  What a device has captured or knows it keeps,
\* so that this says the same as a leads-to for every event and pair of devices.
EventuallyEverywhere ==
  []<>(\A e \in Events \ Foreign : \A d1, d2 \in Devices :
         local[d1][e] = d1 => Known(d2, e) = d1)
=============================================================================
