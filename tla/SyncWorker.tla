----------------------------- MODULE SyncWorker -----------------------------
(***************************************************************************)
(* The remote side of sync for one trust zone: the Cloudflare Worker of    *)
(* apps/carpeos-sync-worker, its D1 tables and its R2 bucket.              *)
(*                                                                         *)
(* The Worker is stateless and serves requests concurrently.  Each request *)
(* occupies a slot of job, and every await between two D1 or R2 calls is a *)
(* point where other requests run, so each handler is cut into one action  *)
(* per storage call.  The acceptance of an event is one D1 batch and hence *)
(* one action.                                                             *)
(***************************************************************************)
EXTENDS ZoneData

CONSTANT Slots          \* requests the Worker serves at a time

VARIABLES
  syncRequests,   \* [Keys -> Events or None]: the request accepted under each key
  zoneCounter,    \* zone_counters.last_sequence, 0 before the first row
  canonical,      \* the rows of canonical_events and erasure_ledger
  uploads,        \* [Events -> row or None]: protected_value_uploads
  links,          \* the events with a row in protected_value_links
  objects,        \* R2: the attempt that wrote the object of a body, or None
  job             \* [Slots -> the request being served, or None]

workerVars == <<syncRequests, zoneCounter, canonical, uploads, links, objects, job>>

-----------------------------------------------------------------------------
(* Rows and requests *)

\* protected_value_uploads is keyed by the protected value alone; object_key
\* contains the digest, hence the origin.
UploadRow == [origin : Devices, wrap : Attempts, linked : BOOLEAN]

LogRow == [seq : Nat \ {0}, event : Events, origin : Devices]

\* A handler is at the storage call it is about to make, and done once it has answered.
FirstStage == [put |-> "head", read |-> "row", push |-> "lookup"]

Answers == {None, "receipt", "found", "missing", "accepted", "replay",
           "conflict", "mismatch", "rejected", "error"}

Job == [op : {"put", "read", "push"},
        at : {"head", "object", "stored", "upsert", "row", "heal",
              "lookup", "receipt", "accept", "done"},
        event : Events, origin : Devices,
        wrap : Attempts \cup {None},    \* the wrapped device key of the upload intent
        receipt : BOOLEAN,              \* the push carries a receipt matching its body
        row : UploadRow \cup {None},    \* the upload row this handler has read
        answer : Answers]

ASSUME JobAssumption == None \notin Job

Request(op, e, d, w, receipt) ==
  [op |-> op, at |-> FirstStage[op], event |-> e, origin |-> d, wrap |-> w,
   receipt |-> receipt, row |-> None, answer |-> None]

At(h, op, stage) == job[h] # None /\ job[h].op = op /\ job[h].at = stage

\* The handler moves on to the storage call stage, or answers its client.
Step(h, stage) == job' = [job EXCEPT ![h].at = stage]
Reply(h, answer) ==
  job' = [job EXCEPT ![h].at = "done", ![h].answer = answer,
                     ![h].wrap = None, ![h].receipt = FALSE,
                     ![h].row = IF job[h].op = "read" THEN @ ELSE None]

\* Mutant: a linked row stays linked whatever object it comes to name.
UpsertedStayingLinked(row, origin, wrap) ==
  [origin |-> origin, wrap |-> wrap, linked |-> row # None /\ row.linked]

\* upsertProtectedValueReceipt: the conflict clause overwrites the row of the
\* protected value, whoever wrote it; the row stays linked only if it already
\* named the same object.
Upserted(row, origin, wrap) ==
  [origin |-> origin, wrap |-> wrap,
   linked |-> row # None /\ row.linked /\ row.origin = origin]

-----------------------------------------------------------------------------
WorkerInit ==
  /\ syncRequests = [k \in Keys |-> None]
  /\ zoneCounter = 0
  /\ canonical = {}
  /\ uploads = [e \in Events |-> None]
  /\ links = {}
  /\ objects = [e \in Events |-> [d \in Devices |-> None]]
  /\ job = [h \in Slots |-> None]

\* An authorised, well-formed request arrives and takes a free slot.
Receive(h, request) ==
  /\ job[h] = None
  /\ job' = [job EXCEPT ![h] = request]
  /\ UNCHANGED <<syncRequests, zoneCounter, canonical, uploads, links, objects>>

-----------------------------------------------------------------------------
(* PUT /v1/protected-values/:id *)

\* R2 head of the object the intent names.
PutHead(h) ==
  LET present == objects[job[h].event][job[h].origin] IN
  /\ At(h, "put", "head")
  /\ \/ present = None /\ Step(h, "object")
     \/ present # None /\ present = job[h].wrap /\ Step(h, "stored")
     \/ present # None /\ present # job[h].wrap /\ Reply(h, "mismatch")
  /\ UNCHANGED <<syncRequests, zoneCounter, canonical, uploads, links, objects>>

\* The object exists: the stored receipt, if any, has to match the intent too.
PutStored(h) ==
  LET row == uploads[job[h].event] IN
  /\ At(h, "put", "stored")
  /\ IF row # None /\ <<row.origin, row.wrap>> # <<job[h].origin, job[h].wrap>>
       THEN Reply(h, "mismatch")
       ELSE Step(h, "upsert")
  /\ UNCHANGED <<syncRequests, zoneCounter, canonical, uploads, links, objects>>

\* R2 put.  It is unconditional: the head that found nothing may be long past.
PutObject(h) ==
  /\ At(h, "put", "object")
  /\ objects' = [objects EXCEPT ![job[h].event][job[h].origin] = job[h].wrap]
  /\ Step(h, "upsert")
  /\ UNCHANGED <<syncRequests, zoneCounter, canonical, uploads, links>>

PutUpsert(h) ==
  LET e == job[h].event IN
  /\ At(h, "put", "upsert")
  /\ uploads' = [uploads EXCEPT ![e] = Upserted(uploads[e], job[h].origin, job[h].wrap)]
  /\ Reply(h, "receipt")
  /\ UNCHANGED <<syncRequests, zoneCounter, canonical, links, objects>>

-----------------------------------------------------------------------------
(* HEAD and GET /v1/protected-values/:id *)

ReadRow(h) ==
  /\ At(h, "read", "row")
  /\ job' = [job EXCEPT ![h].at = "object", ![h].row = uploads[job[h].event]]
  /\ UNCHANGED <<syncRequests, zoneCounter, canonical, uploads, links, objects>>

\* The object read is the one the stored row names, and only without a row the
\* one the request's own digest names.
ReadObject(h) ==
  LET row    == job[h].row
      origin == IF row = None THEN job[h].origin ELSE row.origin
      wrap   == objects[job[h].event][origin]
  IN
  /\ At(h, "read", "object")
  /\ \/ wrap = None /\ Reply(h, "missing")
     \/ wrap # None /\ row # None /\ Reply(h, "found")
     \/ wrap # None /\ row = None
        /\ job' = [job EXCEPT ![h].at = "heal", ![h].wrap = wrap]
  /\ UNCHANGED <<syncRequests, zoneCounter, canonical, uploads, links, objects>>

\* An object without a row: its receipt is recreated from the R2 metadata.
ReadHeal(h) ==
  LET e   == job[h].event
      row == Upserted(uploads[e], job[h].origin, job[h].wrap)
  IN
  /\ At(h, "read", "heal")
  /\ uploads' = [uploads EXCEPT ![e] = row]
  /\ job' = [job EXCEPT ![h].at = "done", ![h].answer = "found",
                        ![h].wrap = None, ![h].row = [row EXCEPT !.linked = FALSE]]
  /\ UNCHANGED <<syncRequests, zoneCounter, canonical, links, objects>>

-----------------------------------------------------------------------------
(* POST /v1/sync/push *)

\* Mutant: the request fingerprint is not compared.
ReplayWithoutFingerprint(accepted, e) == "replay"

\* replayOrConflict: same fingerprint, hence same event, is a replay.
ReplayOrConflict(accepted, e) == IF accepted = e THEN "replay" ELSE "conflict"

PushLookup(h) ==
  LET e == job[h].event
      accepted == syncRequests[KeyOf[e]]
  IN
  /\ At(h, "push", "lookup")
  /\ \/ accepted # None /\ Reply(h, ReplayOrConflict(accepted, e))
     \/ accepted = None /\ e \in Evidence /\ Step(h, "receipt")
     \/ accepted = None /\ e \notin Evidence /\ Step(h, "accept")
  /\ UNCHANGED <<syncRequests, zoneCounter, canonical, uploads, links, objects>>

\* Mutant: any stored receipt of the protected value will do.
ReceiptOfAnyBody(carried, row, origin) == carried /\ row # None

\* validateProtectedReceipt: the receipt the push carries, and the stored one, have
\* to match the body.
ReceiptMatches(carried, row, origin) == carried /\ row # None /\ row.origin = origin

PushReceipt(h) ==
  LET row == uploads[job[h].event] IN
  /\ At(h, "push", "receipt")
  /\ IF ReceiptMatches(job[h].receipt, row, job[h].origin)
       THEN job' = [job EXCEPT ![h].at = "head", ![h].row = row]
       ELSE Reply(h, "rejected")
  /\ UNCHANGED <<syncRequests, zoneCounter, canonical, uploads, links, objects>>

\* The object the stored receipt names has to exist with the same metadata.
PushHead(h) ==
  LET row == job[h].row IN
  /\ At(h, "push", "head")
  /\ IF objects[job[h].event][row.origin] = row.wrap
       THEN Step(h, "accept")
       ELSE Reply(h, "rejected")
  /\ UNCHANGED <<syncRequests, zoneCounter, canonical, uploads, links, objects>>

\* Mutant: nothing makes the idempotency key unique.
KeyTakenNever(k) == FALSE

\* The primary key of sync_requests.
KeyTaken(k) == syncRequests[k] # None

\* Mutant: the row takes the counter's value from before the increment.
NextSequenceStale == IF zoneCounter = 0 THEN 1 ELSE zoneCounter

\* Mutant: numbering starts at the counter's initial value.
NextSequenceFromZero == zoneCounter

\* The counter's upsert: 1 for the first row of the zone, one more after that.
NextSequence == zoneCounter + 1

\* acceptEvent (and acceptErasure, for what carries no protected value): one D1 batch.
\* If the key is already taken, the insert into sync_requests fails, the batch rolls
\* back, and the handler answers from the row it then reads.  It reads the row also
\* when the batch went through but reported an error, and then says "replay".
PushAccept(h) ==
  LET e == job[h].event
      d == job[h].origin
      k == KeyOf[e]
  IN
  /\ At(h, "push", "accept")
  /\ \/ /\ syncRequests[k] # None
        /\ Reply(h, ReplayOrConflict(syncRequests[k], e))
        /\ UNCHANGED <<syncRequests, zoneCounter, canonical, uploads, links>>
     \/ /\ ~KeyTaken(k)
        /\ syncRequests' = [syncRequests EXCEPT ![k] = e]
        /\ zoneCounter' = zoneCounter + 1
        /\ canonical' = canonical \cup {[seq |-> NextSequence, event |-> e, origin |-> d]}
        /\ uploads' = IF e \in Evidence /\ uploads[e] # None /\ uploads[e].origin = d
                        THEN [uploads EXCEPT ![e].linked = TRUE]
                        ELSE uploads
        /\ links' = IF e \in Evidence THEN links \cup {e} ELSE links
        /\ Reply(h, "accepted") \/ Reply(h, "replay")
  /\ UNCHANGED objects

-----------------------------------------------------------------------------
\* A storage call throws, or the Worker is evicted: the client sees a 5xx.
Fail(h) ==
  /\ job[h] # None
  /\ job[h].at # "done"
  /\ Reply(h, "error")
  /\ UNCHANGED <<syncRequests, zoneCounter, canonical, uploads, links, objects>>

\* The answer leaves the Worker.
Release(h) ==
  /\ job[h] # None
  /\ job[h].at = "done"
  /\ job' = [job EXCEPT ![h] = None]
  /\ UNCHANGED <<syncRequests, zoneCounter, canonical, uploads, links, objects>>

\* A handler's own next storage call.
Serve(h) ==
  \/ PutHead(h) \/ PutStored(h) \/ PutObject(h) \/ PutUpsert(h)
  \/ ReadRow(h) \/ ReadObject(h) \/ ReadHeal(h)
  \/ PushLookup(h) \/ PushReceipt(h) \/ PushHead(h) \/ PushAccept(h)

\* What clients may send: any body of any event, an upload under any wrapping.  The
\* protected value of an Observation or Claim is uploaded just the same, but the
\* Worker never consults it, so only those of evidence are enumerated here.
Arrive(h) ==
  \E d \in Devices :
    \/ \E e \in Evidence, w \in Attempts : Receive(h, Request("put", e, d, w, FALSE))
    \/ \E e \in Evidence : Receive(h, Request("read", e, d, None, FALSE))
    \/ \E e \in Events, r \in BOOLEAN : Receive(h, Request("push", e, d, None, r))

WorkerNext ==
  \E h \in Slots :
    \/ Arrive(h)
    \/ Serve(h)
    \/ Fail(h)
    \/ Release(h)

WorkerSpec == WorkerInit /\ [][WorkerNext]_workerVars

-----------------------------------------------------------------------------
(* Properties *)

\* The shape of the Worker's tables and of the requests it is serving.
WorkerTypeOK ==
  /\ syncRequests \in [Keys -> Events \cup {None}]
  /\ zoneCounter \in Nat
  /\ canonical \subseteq LogRow
  /\ uploads \in [Events -> UploadRow \cup {None}]
  /\ links \subseteq Events
  /\ objects \in [Events -> [Devices -> Attempts \cup {None}]]
  /\ job \in [Slots -> Job \cup {None}]

\* However pushes interleave, the zone's rows carry the sequence numbers
\* 1 .. zoneCounter, each once, and no idempotency key is accepted twice: two
\* pushes of one key that both found it free cannot both get a number
\* (acceptEvent's batch).
SequenceIntegrity ==
  /\ {row.seq : row \in canonical} = 1 .. zoneCounter
  /\ \A r1, r2 \in canonical :
        r1.seq = r2.seq \/ KeyOf[r1.event] = KeyOf[r2.event] => r1 = r2
  /\ \A k \in Keys : \A e \in Events :
        syncRequests[k] = e <=> KeyOf[e] = k /\ \E row \in canonical : row.event = e

\* What a push is answered is true of the log: "accepted" and "replay" are said of
\* an event that has its row, "conflict" of one whose key went to another event
\* (handlePush and replayOrConflict, also on the path that lost the race).
AnswersAreTrue ==
  \A h \in Slots : job[h] # None /\ job[h].op = "push" /\ job[h].at = "done" =>
    LET e == job[h].event
        logged(x) == \E row \in canonical : row.event = x
    IN
    /\ job[h].answer \in {"accepted", "replay"} => logged(e)
    /\ job[h].answer = "conflict" =>
         ~logged(e) /\ \E x \in Events : KeyOf[x] = KeyOf[e] /\ logged(x)

\* A canonical evidence row never refers to ciphertext that is not in R2: the body
\* it was accepted with was uploaded first (validateProtectedReceipt), although
\* other uploads of the same protected value go on between the check and the
\* batch.
LoggedValueStored ==
  \A row \in canonical : row.event \in Evidence => objects[row.event][row.origin] # None

\* An upload row says "linked" only of the very object an accepted event refers to
\* (acceptEvent's guarded update, upsertProtectedValueReceipt's conflict clause).
LinkedRowLogged ==
  \A e \in Events : uploads[e] # None /\ uploads[e].linked =>
    \E row \in canonical : row.event = e /\ row.origin = uploads[e].origin

\* The log only grows, and only above every number already handed out, so a page
\* that a client has pulled never gains a row (the cursor of handlePull).
AppendsAbove ==
  [][ /\ canonical \subseteq canonical'
      /\ \A row \in canonical' \ canonical : row.seq > zoneCounter ]_workerVars

\* The test "uploads, reads, and idempotently reuses protected ciphertext without
\* rewriting": once an object is in R2, its bytes and metadata stay as they are.
ObjectNeverRewritten ==
  [][ \A e \in Events, d \in Devices :
        objects[e][d] # None => objects'[e][d] = objects[e][d] ]_workerVars

\* "Local SQLite store lost but keys remain: reinitialize local runtime and pull from
\* the private sync service" (docs/guides/cross-mac-bootstrap-recovery.md).  A pull
\* reads the value of an evidence event through its upload row, so the row has to
\* name the object with the event's own digest, from acceptance on (handlePush,
\* handleProtectedValueRead).
CanonicalRefResolves ==
  \A row \in canonical : row.event \in Evidence =>
    uploads[row.event] # None /\ uploads[row.event].origin = row.origin
=============================================================================
