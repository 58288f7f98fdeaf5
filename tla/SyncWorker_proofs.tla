-------------------------- MODULE SyncWorker_proofs --------------------------
(***************************************************************************)
(* What the Worker guarantees for any number of devices, events, keys and  *)
(* concurrent requests.                                                    *)
(*                                                                         *)
(* Neither type correctness nor the properties are inductive: a handler    *)
(* relies on what it found at an earlier storage call.  HandlerInv says    *)
(* what each stage may still rely on although other handlers ran in        *)
(* between, and RowStored that an upload row always has its object, which  *)
(* is what carries the check of a push over to its batch.                  *)
(***************************************************************************)
EXTENDS SyncWorker, TLAPS

\* What the handler in h knows at each stage.
HandlerOK(h) ==
  LET j == job[h] IN
  j # None =>
    /\ j.op = "put" /\ j.at # "done" => j.wrap \in Attempts
    /\ j.at \in {"stored", "upsert", "heal"} => objects[j.event][j.origin] # None
    /\ j.at = "heal" => j.wrap \in Attempts
    /\ j.at = "head" /\ j.op = "push" => j.row # None /\ j.row.origin = j.origin
    /\ j.at = "accept" /\ j.event \in Evidence => objects[j.event][j.origin] # None

HandlerInv == \A h \in Slots : HandlerOK(h)

\* Every upload row names an object that exists.
RowStored == \A e \in Events : uploads[e] # None => objects[e][uploads[e].origin] # None

Logged(e) == \E row \in canonical : row.event = e

WorkerInv ==
  /\ WorkerTypeOK
  /\ HandlerInv
  /\ RowStored
  /\ SequenceIntegrity
  /\ LoggedValueStored
  /\ LinkedRowLogged
  /\ AnswersAreTrue

-----------------------------------------------------------------------------
(* How a handler moves *)

\* A handler that moves to another stage changes nothing else.
LEMMA StepMoves ==
  ASSUME job \in [Slots -> Job \cup {None}],
         NEW h \in Slots, job[h] # None,
         NEW stage \in {"head", "object", "stored", "upsert", "row", "heal",
                        "lookup", "receipt", "accept", "done"},
         Step(h, stage)
  PROVE  /\ job' \in [Slots -> Job \cup {None}]
         /\ job'[h].at = stage
         /\ job'[h].op = job[h].op /\ job'[h].event = job[h].event
         /\ job'[h].origin = job[h].origin /\ job'[h].wrap = job[h].wrap
         /\ \A g \in Slots \ {h} : job'[g] = job[g]
BY DEF Step, Job

\* A handler that answers is done and forgets its upload.
LEMMA ReplyMoves ==
  ASSUME job \in [Slots -> Job \cup {None}],
         NEW h \in Slots, job[h] # None,
         NEW answer \in Answers,
         Reply(h, answer)
  PROVE  /\ job' \in [Slots -> Job \cup {None}]
         /\ job'[h].at = "done" /\ job'[h].answer = answer
         /\ job'[h].op = job[h].op /\ job'[h].event = job[h].event
         /\ \A g \in Slots \ {h} : job'[g] = job[g]
<1>1. job[h] \in Job
  OBVIOUS
<1>2. CASE job[h].op = "read"
  BY <1>1, <1>2 DEF Reply, Job
<1>3. CASE job[h].op # "read"
  BY <1>1, <1>3 DEF Reply, Job
<1>4. QED
  BY <1>2, <1>3

\* The steps, handler by handler.
LEMMA WorkerSteps ==
  ASSUME WorkerNext
  PROVE  \E h \in Slots :
           \/ Arrive(h)
           \/ PutHead(h) \/ PutStored(h) \/ PutObject(h) \/ PutUpsert(h)
           \/ ReadRow(h) \/ ReadObject(h) \/ ReadHeal(h)
           \/ PushLookup(h) \/ PushReceipt(h) \/ PushHead(h) \/ PushAccept(h)
           \/ Fail(h) \/ Release(h)
BY DEF WorkerNext, Serve

-----------------------------------------------------------------------------
(* Type correctness *)

\* A request is a well-formed job.
LEMMA RequestTyped ==
  ASSUME NEW op \in {"put", "read", "push"}, NEW e \in Events, NEW d \in Devices,
         NEW w \in Attempts \cup {None}, NEW r \in BOOLEAN
  PROVE  Request(op, e, d, w, r) \in Job
<1>1. FirstStage[op] \in {"head", "row", "lookup"}
  BY DEF FirstStage
<1>2. QED
  BY <1>1 DEF Request, Job, Answers

\* What arrives is a request at its first stage.
LEMMA ArriveReceives ==
  ASSUME NEW h \in Slots, Arrive(h)
  PROVE  \E op \in {"put", "read", "push"}, e \in Events, d \in Devices,
            w \in Attempts \cup {None}, r \in BOOLEAN :
           /\ Receive(h, Request(op, e, d, w, r))
           /\ op = "put" => w \in Attempts
<1> PICK d \in Devices :
    \/ \E e \in Evidence, w \in Attempts : Receive(h, Request("put", e, d, w, FALSE))
    \/ \E e \in Evidence : Receive(h, Request("read", e, d, None, FALSE))
    \/ \E e \in Events, r \in BOOLEAN : Receive(h, Request("push", e, d, None, r))
  BY DEF Arrive
<1>1. CASE \E e \in Evidence, w \in Attempts : Receive(h, Request("put", e, d, w, FALSE))
  BY <1>1, ZoneDataAssumption
<1>2. CASE \E e \in Evidence : Receive(h, Request("read", e, d, None, FALSE))
  BY <1>2, ZoneDataAssumption
<1>3. CASE \E e \in Events, r \in BOOLEAN : Receive(h, Request("push", e, d, None, r))
  BY <1>3
<1>4. QED
  BY <1>1, <1>2, <1>3

\* The receipt upsert writes a well-formed row.
LEMMA UpsertedTyped ==
  ASSUME NEW row \in UploadRow \cup {None}, NEW origin \in Devices, NEW wrap \in Attempts
  PROVE  Upserted(row, origin, wrap) \in UploadRow
<1>1. CASE row = None
  BY <1>1 DEF Upserted, UploadRow
<1>2. CASE row \in UploadRow
  BY <1>2 DEF Upserted, UploadRow
<1>3. QED
  BY <1>1, <1>2

\* Every step keeps the shape of the tables and of the handlers.
LEMMA TypeStep ==
  ASSUME WorkerTypeOK, HandlerInv, [WorkerNext]_workerVars
  PROVE  WorkerTypeOK'
<1> USE DEF WorkerTypeOK
<1>1. CASE UNCHANGED workerVars
  BY <1>1 DEF workerVars
<1>2. CASE WorkerNext
  <2> PICK h \in Slots :
           \/ Arrive(h)
           \/ PutHead(h) \/ PutStored(h) \/ PutObject(h) \/ PutUpsert(h)
           \/ ReadRow(h) \/ ReadObject(h) \/ ReadHeal(h)
           \/ PushLookup(h) \/ PushReceipt(h) \/ PushHead(h) \/ PushAccept(h)
           \/ Fail(h) \/ Release(h)
    BY <1>2, WorkerSteps
  <2>0. job[h] # None => job[h] \in Job
    OBVIOUS
  <2>1. CASE Arrive(h)
    <3>1. PICK request \in Job : Receive(h, request)
      BY <2>1, ArriveReceives, RequestTyped
    <3>2. QED
      BY <3>1 DEF Receive
  <2>2. CASE PutHead(h)
    BY <2>2, StepMoves, ReplyMoves DEF PutHead, At, Answers
  <2>3. CASE PutStored(h)
    BY <2>3, StepMoves, ReplyMoves DEF PutStored, At, Answers
  <2>4. CASE PutObject(h)
    <3>1. job[h].wrap \in Attempts /\ job[h].event \in Events /\ job[h].origin \in Devices
      BY <2>0, <2>4 DEF PutObject, At, HandlerInv, HandlerOK, Job
    <3>2. objects' \in [Events -> [Devices -> Attempts \cup {None}]]
      BY <2>4, <3>1 DEF PutObject
    <3>3. QED
      BY <2>4, <3>2, StepMoves DEF PutObject, At
  <2>5. CASE PutUpsert(h)
    <3>1. job[h].wrap \in Attempts /\ job[h].event \in Events /\ job[h].origin \in Devices
      BY <2>0, <2>5 DEF PutUpsert, At, HandlerInv, HandlerOK, Job
    <3>2. uploads' \in [Events -> UploadRow \cup {None}]
      BY <2>5, <3>1, UpsertedTyped DEF PutUpsert
    <3>3. QED
      BY <2>5, <3>2, ReplyMoves DEF PutUpsert, At, Answers
  <2>6. CASE ReadRow(h)
    BY <2>0, <2>6 DEF ReadRow, At, Job
  <2>7. CASE ReadObject(h)
    <3>0. job[h] \in Job
      BY <2>0, <2>7 DEF ReadObject, At
    <3> DEFINE origin == IF job[h].row = None THEN job[h].origin ELSE job[h].row.origin
    <3> DEFINE wrap == objects[job[h].event][origin]
    <3>1. origin \in Devices /\ job[h].event \in Events
      BY <3>0 DEF Job, UploadRow
    <3>2. wrap \in Attempts \cup {None}
      BY <3>1
    <3>3. CASE \E answer \in {"missing", "found"} : Reply(h, answer)
      BY <2>7, <3>3, ReplyMoves DEF ReadObject, At, Answers
    <3>4. CASE job' = [job EXCEPT ![h].at = "heal", ![h].wrap = wrap]
      <4> HIDE DEF wrap
      <4>1. job' \in [Slots -> Job \cup {None}]
        BY <3>0, <3>2, <3>4 DEF Job
      <4>2. QED
        BY <2>7, <4>1 DEF ReadObject
    <3>5. QED
      BY <2>7, <3>3, <3>4 DEF ReadObject
  <2>8. CASE ReadHeal(h)
    <3>0. job[h] \in Job /\ job[h].wrap \in Attempts
      BY <2>0, <2>8 DEF ReadHeal, At, HandlerInv, HandlerOK
    <3> DEFINE row == Upserted(uploads[job[h].event], job[h].origin, job[h].wrap)
    <3>1. row \in UploadRow
      BY <3>0, UpsertedTyped DEF Job
    <3>2. uploads' \in [Events -> UploadRow \cup {None}]
      BY <2>8, <3>1 DEF ReadHeal
    <3>3. [row EXCEPT !.linked = FALSE] \in UploadRow
      BY <3>1 DEF UploadRow
    <3>4. job' \in [Slots -> Job \cup {None}]
      <4> DEFINE healed == [row EXCEPT !.linked = FALSE]
      <4>1. job' = [job EXCEPT ![h].at = "done", ![h].answer = "found",
                               ![h].wrap = None, ![h].row = healed]
        BY <2>8 DEF ReadHeal
      <4>2. healed \in UploadRow
        BY <3>3
      <4> HIDE DEF healed
      <4>3. QED
        BY <3>0, <4>1, <4>2 DEF Job, Answers
    <3>5. QED
      BY <2>8, <3>2, <3>4 DEF ReadHeal
  <2>9. CASE PushLookup(h)
    BY <2>9, StepMoves, ReplyMoves DEF PushLookup, At, Answers, ReplayOrConflict
  <2>10. CASE PushReceipt(h)
    <3>0. job[h] \in Job
      BY <2>0, <2>10 DEF PushReceipt, At
    <3>1. CASE Reply(h, "rejected")
      BY <2>10, <3>1, ReplyMoves DEF PushReceipt, At, Answers
    <3>2. CASE job' = [job EXCEPT ![h].at = "head", ![h].row = uploads[job[h].event]]
      BY <2>10, <3>0, <3>2 DEF PushReceipt, Job
    <3>3. QED
      BY <2>10, <3>1, <3>2 DEF PushReceipt
  <2>11. CASE PushHead(h)
    BY <2>11, StepMoves, ReplyMoves DEF PushHead, At, Answers
  <2>12. CASE PushAccept(h)
    <3>0. job[h] \in Job
      BY <2>0, <2>12 DEF PushAccept, At
    <3> DEFINE e == job[h].event
    <3> DEFINE d == job[h].origin
    <3>1. e \in Events /\ d \in Devices /\ KeyOf[e] \in Keys
      BY <3>0, ZoneDataAssumption DEF Job
    <3>2. job' \in [Slots -> Job \cup {None}]
      <4>1. \E answer \in Answers : Reply(h, answer)
        BY <2>12 DEF PushAccept, ReplayOrConflict, Answers
      <4>2. QED
        BY <2>12, <4>1, ReplyMoves DEF PushAccept, At
    <3>3. CASE UNCHANGED <<syncRequests, zoneCounter, canonical, uploads, links>>
      BY <2>12, <3>2, <3>3 DEF PushAccept
    <3>4. CASE ~UNCHANGED <<syncRequests, zoneCounter, canonical, uploads, links>>
      <4>1. /\ syncRequests' = [syncRequests EXCEPT ![KeyOf[e]] = e]
            /\ zoneCounter' = zoneCounter + 1
            /\ canonical' = canonical \cup
                 {[seq |-> NextSequence, event |-> e, origin |-> d]}
            /\ uploads' = IF e \in Evidence /\ uploads[e] # None /\ uploads[e].origin = d
                            THEN [uploads EXCEPT ![e].linked = TRUE]
                            ELSE uploads
            /\ links' = IF e \in Evidence THEN links \cup {e} ELSE links
            /\ objects' = objects
        BY <2>12, <3>4 DEF PushAccept
      <4>2. canonical' \subseteq LogRow
        BY <3>1, <4>1 DEF LogRow, NextSequence
      <4>3. uploads' \in [Events -> UploadRow \cup {None}]
        BY <3>1, <4>1 DEF UploadRow
      <4>4. QED
        BY <3>1, <3>2, <4>1, <4>2, <4>3
    <3>5. QED
      BY <3>3, <3>4
  <2>13. CASE Fail(h)
    BY <2>13, ReplyMoves DEF Fail, Answers
  <2>14. CASE Release(h)
    BY <2>14 DEF Release
  <2>15. QED
    BY <2>1, <2>2, <2>3, <2>4, <2>5, <2>6, <2>7, <2>8, <2>9, <2>10, <2>11, <2>12,
       <2>13, <2>14
<1>3. QED
  BY <1>1, <1>2

-----------------------------------------------------------------------------
(* What the stages rely on *)

\* R2 objects are overwritten but never removed.
LEMMA ObjectsStay ==
  ASSUME WorkerTypeOK, HandlerInv, [WorkerNext]_workerVars
  PROVE  \A e \in Events, d \in Devices : objects[e][d] # None => objects'[e][d] # None
<1>1. CASE \E h \in Slots : PutObject(h)
  <2> PICK h \in Slots : PutObject(h)
    BY <1>1
  <2>1. job[h] \in Job /\ job[h].wrap \in Attempts /\ job[h].wrap # None
    BY ZoneDataAssumption DEF PutObject, At, WorkerTypeOK, HandlerInv, HandlerOK
  <2>2. job[h].event \in Events /\ job[h].origin \in Devices
    BY <2>1 DEF Job
  <2>3. QED
    BY <2>1, <2>2 DEF PutObject, WorkerTypeOK
<1>2. CASE objects' = objects
  BY <1>2
<1>3. QED
  BY <1>1, <1>2, WorkerSteps
  DEF workerVars, Arrive, Receive, PutHead, PutStored, PutUpsert, ReadRow, ReadObject,
      ReadHeal, PushLookup, PushReceipt, PushHead, PushAccept, Fail, Release

\* So what one handler knows is not disturbed by the step of another.
LEMMA OthersUndisturbed ==
  ASSUME WorkerTypeOK, HandlerInv, [WorkerNext]_workerVars,
         NEW h \in Slots, \A g \in Slots \ {h} : job'[g] = job[g], HandlerOK(h)'
  PROVE  HandlerInv'
<1> SUFFICES ASSUME NEW g \in Slots, g # h PROVE HandlerOK(g)'
  BY DEF HandlerInv
<1>1. job'[g] = job[g] /\ HandlerOK(g)
  BY DEF HandlerInv
<1>2. job[g] # None => job[g].event \in Events /\ job[g].origin \in Devices
  BY DEF WorkerTypeOK, Job
<1>3. QED
  BY <1>1, <1>2, ObjectsStay DEF HandlerOK

\* A handler that has answered relies on nothing.
LEMMA DoneRelies ==
  ASSUME NEW h \in Slots, job'[h].at = "done"
  PROVE  HandlerOK(h)'
BY DEF HandlerOK

\* What the handlers rely on survives every step, their own and those of others.
LEMMA HandlerStep ==
  ASSUME WorkerTypeOK, HandlerInv, RowStored, [WorkerNext]_workerVars
  PROVE  HandlerInv'
<1>1. CASE UNCHANGED workerVars
  BY <1>1 DEF workerVars, HandlerInv, HandlerOK
<1>2. CASE WorkerNext
  <2> PICK h \in Slots :
           \/ Arrive(h)
           \/ PutHead(h) \/ PutStored(h) \/ PutObject(h) \/ PutUpsert(h)
           \/ ReadRow(h) \/ ReadObject(h) \/ ReadHeal(h)
           \/ PushLookup(h) \/ PushReceipt(h) \/ PushHead(h) \/ PushAccept(h)
           \/ Fail(h) \/ Release(h)
    BY <1>2, WorkerSteps
  <2> SUFFICES (\A g \in Slots \ {h} : job'[g] = job[g]) /\ HandlerOK(h)'
    BY OthersUndisturbed
  <2> USE DEF WorkerTypeOK
  <2>0. HandlerOK(h) /\ (job[h] # None => job[h] \in Job)
    BY DEF HandlerInv
  <2>1. CASE Arrive(h)
    <3>1. PICK op \in {"put", "read", "push"}, e \in Events, d \in Devices,
               w \in Attempts \cup {None}, r \in BOOLEAN :
             /\ Receive(h, Request(op, e, d, w, r))
             /\ op = "put" => w \in Attempts
      BY <2>1, ArriveReceives
    <3>2. job'[h] = Request(op, e, d, w, r) /\ \A g \in Slots \ {h} : job'[g] = job[g]
      BY <3>1 DEF Receive
    <3>3. Request(op, e, d, w, r).at \in {"head", "row", "lookup"}
          /\ (op = "push" => Request(op, e, d, w, r).at = "lookup")
      BY DEF Request, FirstStage
    <3>4. Request(op, e, d, w, r).op = op /\ Request(op, e, d, w, r).wrap = w
      BY DEF Request
    <3>5. QED
      BY <3>1, <3>2, <3>3, <3>4 DEF HandlerOK
  <2>2. CASE PutHead(h)
    <3>1. CASE \E answer \in Answers : Reply(h, answer)
      BY <2>2, <3>1, ReplyMoves, DoneRelies DEF PutHead, At
    <3>2. CASE Step(h, "object")
      BY <2>0, <2>2, <3>2, StepMoves DEF PutHead, At, HandlerOK
    <3>3. CASE objects[job[h].event][job[h].origin] # None /\ Step(h, "stored")
      BY <2>0, <2>2, <3>3, StepMoves DEF PutHead, At, HandlerOK
    <3>4. QED
      BY <2>2, <3>1, <3>2, <3>3 DEF PutHead, Answers
  <2>3. CASE PutStored(h)
    <3>1. CASE \E answer \in Answers : Reply(h, answer)
      BY <2>3, <3>1, ReplyMoves, DoneRelies DEF PutStored, At
    <3>2. CASE Step(h, "upsert")
      BY <2>0, <2>3, <3>2, StepMoves DEF PutStored, At, HandlerOK
    <3>3. QED
      BY <2>3, <3>1, <3>2 DEF PutStored, Answers
  <2>4. CASE PutObject(h)
    <3>1. job[h].wrap \in Attempts /\ job[h].wrap # None
      BY <2>0, <2>4, ZoneDataAssumption DEF PutObject, At, HandlerOK
    <3>2. job[h].event \in Events /\ job[h].origin \in Devices
      BY <2>0, <2>4 DEF PutObject, At, Job
    <3>3. objects'[job[h].event][job[h].origin] = job[h].wrap
      BY <2>4, <3>2 DEF PutObject
    <3>4. Step(h, "upsert") /\ job[h] # None /\ job[h].op = "put"
      BY <2>4 DEF PutObject, At
    <3>5. QED
      BY <2>0, <3>1, <3>3, <3>4, StepMoves DEF HandlerOK
  <2>5. CASE PutUpsert(h)
    BY <2>5, ReplyMoves, DoneRelies DEF PutUpsert, At, Answers
  <2>6. CASE ReadRow(h)
    BY <2>0, <2>6 DEF ReadRow, At, HandlerOK, Job
  <2>7. CASE ReadObject(h)
    <3>1. CASE \E answer \in Answers : Reply(h, answer)
      BY <2>7, <3>1, ReplyMoves, DoneRelies DEF ReadObject, At
    <3>2. CASE ~ \E answer \in Answers : Reply(h, answer)
      <4> DEFINE wrap == objects[job[h].event][job[h].origin]
      <4>1. job[h] # None /\ job[h] \in Job /\ job[h].op = "read"
        BY <2>0, <2>7 DEF ReadObject, At
      <4>2. wrap # None /\ job' = [job EXCEPT ![h].at = "heal", ![h].wrap = wrap]
        BY <2>7, <3>2 DEF ReadObject, Answers
      <4>3. objects' = objects /\ wrap \in Attempts
        BY <2>7, <4>1, <4>2 DEF ReadObject, Job
      <4>4. /\ job'[h].at = "heal" /\ job'[h].op = "read" /\ job'[h].wrap = wrap
            /\ job'[h].event = job[h].event /\ job'[h].origin = job[h].origin
            /\ \A g \in Slots \ {h} : job'[g] = job[g]
        BY <4>1, <4>2 DEF Job
      <4>5. QED
        BY <4>2, <4>3, <4>4 DEF HandlerOK
    <3>3. QED
      BY <3>1, <3>2
  <2>8. CASE ReadHeal(h)
    <3>1. job'[h].at = "done" /\ \A g \in Slots \ {h} : job'[g] = job[g]
      BY <2>0, <2>8 DEF ReadHeal, At, Job
    <3>2. QED
      BY <3>1, DoneRelies
  <2>9. CASE PushLookup(h)
    <3>1. CASE \E answer \in Answers : Reply(h, answer)
      BY <2>9, <3>1, ReplyMoves, DoneRelies DEF PushLookup, At
    <3>2. CASE Step(h, "receipt")
      BY <2>0, <2>9, <3>2, StepMoves DEF PushLookup, At, HandlerOK
    <3>3. CASE job[h].event \notin Evidence /\ Step(h, "accept")
      BY <2>0, <2>9, <3>3, StepMoves DEF PushLookup, At, HandlerOK
    <3>4. QED
      BY <2>9, <3>1, <3>2, <3>3 DEF PushLookup, ReplayOrConflict, Answers
  <2>10. CASE PushReceipt(h)
    <3>1. CASE \E answer \in Answers : Reply(h, answer)
      BY <2>10, <3>1, ReplyMoves, DoneRelies DEF PushReceipt, At
    <3>2. CASE ~ \E answer \in Answers : Reply(h, answer)
      <4> DEFINE row == uploads[job[h].event]
      <4>1. job[h] # None /\ job[h] \in Job /\ job[h].op = "push"
        BY <2>0, <2>10 DEF PushReceipt, At
      <4>2. row # None /\ row.origin = job[h].origin
            /\ job' = [job EXCEPT ![h].at = "head", ![h].row = row]
        BY <2>10, <3>2 DEF PushReceipt, ReceiptMatches, Answers
      <4>3. /\ job'[h].at = "head" /\ job'[h].op = "push" /\ job'[h].row = row
            /\ job'[h].origin = job[h].origin
            /\ \A g \in Slots \ {h} : job'[g] = job[g]
        BY <4>1, <4>2 DEF Job
      <4>4. QED
        BY <4>2, <4>3 DEF HandlerOK
    <3>3. QED
      BY <3>1, <3>2
  <2>11. CASE PushHead(h)
    <3>1. CASE \E answer \in Answers : Reply(h, answer)
      BY <2>11, <3>1, ReplyMoves, DoneRelies DEF PushHead, At
    <3>2. CASE ~ \E answer \in Answers : Reply(h, answer)
      <4>1. job[h] # None /\ job[h] \in Job /\ job[h].op = "push"
        BY <2>0, <2>11 DEF PushHead, At
      <4>2. job[h].row # None /\ job[h].row.origin = job[h].origin
        BY <2>0, <2>11 DEF PushHead, At, HandlerOK
      <4>3. job[h].row.wrap # None
        BY <4>1, <4>2, ZoneDataAssumption DEF Job, UploadRow
      <4>4. objects[job[h].event][job[h].origin] # None /\ Step(h, "accept") /\ objects' = objects
        BY <2>11, <3>2, <4>2, <4>3 DEF PushHead, Answers
      <4>5. QED
        BY <4>1, <4>4, StepMoves DEF HandlerOK
    <3>3. QED
      BY <3>1, <3>2
  <2>12. CASE PushAccept(h)
    <3>1. \E answer \in Answers : Reply(h, answer)
      BY <2>12 DEF PushAccept, ReplayOrConflict, Answers
    <3>2. QED
      BY <2>12, <3>1, ReplyMoves, DoneRelies DEF PushAccept, At
  <2>13. CASE Fail(h)
    BY <2>13, ReplyMoves, DoneRelies DEF Fail, Answers
  <2>14. CASE Release(h)
    BY <2>14 DEF Release, HandlerOK
  <2>15. QED
    BY <2>1, <2>2, <2>3, <2>4, <2>5, <2>6, <2>7, <2>8, <2>9, <2>10, <2>11, <2>12,
       <2>13, <2>14
<1>3. QED
  BY <1>1, <1>2

-----------------------------------------------------------------------------
(* The upload rows *)

\* How a step changes the upload rows: it writes the row of one protected value whose
\* object exists, or marks one linked that an accepted event refers to.
LEMMA UploadChange ==
  ASSUME WorkerTypeOK, HandlerInv, [WorkerNext]_workerVars
  PROVE  \/ uploads' = uploads
         \/ \E e \in Events, d \in Devices, w \in Attempts :
              /\ objects[e][d] # None
              /\ uploads' = [uploads EXCEPT ![e] = Upserted(uploads[e], d, w)]
         \/ \E e \in Events :
              /\ uploads[e] # None
              /\ uploads' = [uploads EXCEPT ![e].linked = TRUE]
              /\ [seq |-> NextSequence, event |-> e, origin |-> uploads[e].origin] \in canonical'
<1> USE DEF WorkerTypeOK
<1>1. CASE \E h \in Slots : PutUpsert(h)
  <2> PICK h \in Slots : PutUpsert(h)
    BY <1>1
  <2>1. job[h] \in Job /\ job[h].wrap \in Attempts /\ objects[job[h].event][job[h].origin] # None
    BY DEF PutUpsert, At, HandlerInv, HandlerOK
  <2>2. job[h].event \in Events /\ job[h].origin \in Devices
    BY <2>1 DEF Job
  <2>3. QED
    BY <2>1, <2>2 DEF PutUpsert
<1>2. CASE \E h \in Slots : ReadHeal(h)
  <2> PICK h \in Slots : ReadHeal(h)
    BY <1>2
  <2>1. job[h] \in Job /\ job[h].wrap \in Attempts /\ objects[job[h].event][job[h].origin] # None
    BY DEF ReadHeal, At, HandlerInv, HandlerOK
  <2>2. job[h].event \in Events /\ job[h].origin \in Devices
    BY <2>1 DEF Job
  <2>3. QED
    BY <2>1, <2>2 DEF ReadHeal
<1>3. CASE \E h \in Slots : PushAccept(h)
  <2> PICK h \in Slots : PushAccept(h)
    BY <1>3
  <2>1. job[h] \in Job
    BY DEF PushAccept, At
  <2>2. job[h].event \in Events
    BY <2>1 DEF Job
  <2>3. QED
    BY <2>2 DEF PushAccept
<1>4. CASE uploads' = uploads
  BY <1>4
<1>5. QED
  BY <1>1, <1>2, <1>3, <1>4, WorkerSteps
  DEF workerVars, Arrive, Receive, PutHead, PutStored, PutObject, ReadRow, ReadObject,
      PushLookup, PushReceipt, PushHead, Fail, Release

\* Every step leaves the upload rows with their objects.
LEMMA RowStoredStep ==
  ASSUME WorkerTypeOK, HandlerInv, RowStored, [WorkerNext]_workerVars
  PROVE  RowStored'
<1> USE DEF WorkerTypeOK
<1>1. \A e \in Events : uploads[e] # None => uploads[e].origin \in Devices
  BY DEF UploadRow
<1>2. CASE uploads' = uploads
  BY <1>1, <1>2, ObjectsStay DEF RowStored
<1>3. CASE \E e \in Events, d \in Devices, w \in Attempts :
             /\ objects[e][d] # None
             /\ uploads' = [uploads EXCEPT ![e] = Upserted(uploads[e], d, w)]
  <2> PICK e \in Events, d \in Devices, w \in Attempts :
             /\ objects[e][d] # None
             /\ uploads' = [uploads EXCEPT ![e] = Upserted(uploads[e], d, w)]
    BY <1>3
  <2>1. uploads'[e].origin = d /\ \A x \in Events \ {e} : uploads'[x] = uploads[x]
    BY DEF Upserted
  <2>2. QED
    BY <1>1, <2>1, ObjectsStay DEF RowStored
<1>4. CASE \E e \in Events :
             uploads[e] # None /\ uploads' = [uploads EXCEPT ![e].linked = TRUE]
  <2> PICK e \in Events :
             uploads[e] # None /\ uploads' = [uploads EXCEPT ![e].linked = TRUE]
    BY <1>4
  <2>1. uploads'[e].origin = uploads[e].origin /\ \A x \in Events \ {e} : uploads'[x] = uploads[x]
    BY DEF UploadRow
  <2>2. QED
    BY <1>1, <2>1, ObjectsStay DEF RowStored
<1>5. QED
  BY <1>2, <1>3, <1>4, UploadChange

-----------------------------------------------------------------------------
(* The log *)

\* How a step changes the log: not at all, or by one accepted event whose key was
\* free and whose ciphertext is stored.
LEMMA LogChange ==
  ASSUME WorkerTypeOK, HandlerInv, [WorkerNext]_workerVars
  PROVE  \/ UNCHANGED <<syncRequests, zoneCounter, canonical>>
         \/ \E e \in Events, d \in Devices :
              /\ syncRequests[KeyOf[e]] = None
              /\ syncRequests' = [syncRequests EXCEPT ![KeyOf[e]] = e]
              /\ zoneCounter' = zoneCounter + 1
              /\ canonical' = canonical \cup
                   {[seq |-> zoneCounter + 1, event |-> e, origin |-> d]}
              /\ e \in Evidence => objects[e][d] # None
<1>1. CASE \E h \in Slots : PushAccept(h)
  <2> PICK h \in Slots : PushAccept(h)
    BY <1>1
  <2>1. job[h] \in Job /\ HandlerOK(h) /\ job[h].at = "accept"
    BY DEF PushAccept, At, WorkerTypeOK, HandlerInv
  <2>2. job[h].event \in Events /\ job[h].origin \in Devices
    BY <2>1 DEF Job
  <2>3. job[h].event \in Evidence => objects[job[h].event][job[h].origin] # None
    BY <2>1 DEF HandlerOK, PushAccept, At
  <2>4. QED
    BY <2>2, <2>3 DEF PushAccept, KeyTaken, NextSequence
<1>2. CASE UNCHANGED <<syncRequests, zoneCounter, canonical>>
  BY <1>2
<1>3. QED
  BY <1>1, <1>2, WorkerSteps
  DEF workerVars, Arrive, Receive, PutHead, PutStored, PutObject, PutUpsert, ReadRow,
      ReadObject, ReadHeal, PushLookup, PushReceipt, PushHead, Fail, Release

\* Every step keeps the sequence gapless and the keys unique.
LEMMA SequenceStep ==
  ASSUME WorkerTypeOK, HandlerInv, SequenceIntegrity, [WorkerNext]_workerVars
  PROVE  SequenceIntegrity'
<1>1. CASE UNCHANGED <<syncRequests, zoneCounter, canonical>>
  BY <1>1 DEF SequenceIntegrity
<1>2. CASE ~UNCHANGED <<syncRequests, zoneCounter, canonical>>
  <2> PICK e \in Events, d \in Devices :
         /\ syncRequests[KeyOf[e]] = None
         /\ syncRequests' = [syncRequests EXCEPT ![KeyOf[e]] = e]
         /\ zoneCounter' = zoneCounter + 1
         /\ canonical' = canonical \cup
              {[seq |-> zoneCounter + 1, event |-> e, origin |-> d]}
    BY <1>2, LogChange
  <2> DEFINE new == [seq |-> zoneCounter + 1, event |-> e, origin |-> d]
  <2>1. zoneCounter \in Nat /\ KeyOf[e] \in Keys /\ canonical \subseteq LogRow
    BY ZoneDataAssumption DEF WorkerTypeOK
  <2>2. \A row \in canonical : row.event \in Events /\ row.seq \in 1 .. zoneCounter
    BY <2>1 DEF SequenceIntegrity, LogRow
  <2>3. \A row \in canonical : KeyOf[row.event] # KeyOf[e]
    <3> SUFFICES ASSUME NEW row \in canonical, KeyOf[row.event] = KeyOf[e] PROVE FALSE
      OBVIOUS
    <3>1. syncRequests[KeyOf[e]] = row.event
      BY <2>1, <2>2 DEF SequenceIntegrity
    <3>2. QED
      BY <2>2, <3>1, ZoneDataAssumption
  <2>4. {row.seq : row \in canonical'} = 1 .. zoneCounter'
    <3>1. {row.seq : row \in canonical'} = {row.seq : row \in canonical} \cup {zoneCounter + 1}
      <4>1. new.seq = zoneCounter + 1 /\ canonical' = canonical \cup {new}
        OBVIOUS
      <4> HIDE DEF new
      <4>2. QED
        BY <4>1
    <3>2. 1 .. (zoneCounter + 1) = (1 .. zoneCounter) \cup {zoneCounter + 1}
      BY <2>1
    <3>3. QED
      BY <3>1, <3>2 DEF SequenceIntegrity
  <2>5. \A r1, r2 \in canonical' :
          r1.seq = r2.seq \/ KeyOf[r1.event] = KeyOf[r2.event] => r1 = r2
    <3>1. \A row \in canonical : row.seq # new.seq /\ KeyOf[row.event] # KeyOf[new.event]
      BY <2>1, <2>2, <2>3
    <3>2. canonical' = canonical \cup {new}
      OBVIOUS
    <3> HIDE DEF new
    <3>3. QED
      BY <3>1, <3>2 DEF SequenceIntegrity
  <2>6. \A k \in Keys : \A x \in Events :
          syncRequests'[k] = x <=> KeyOf[x] = k /\ \E row \in canonical' : row.event = x
    <3> TAKE k \in Keys
    <3> TAKE x \in Events
    <3>0. (\E row \in canonical' : row.event = x) <=> x = e \/ \E row \in canonical : row.event = x
      <4>1. new.event = e /\ canonical' = canonical \cup {new}
        OBVIOUS
      <4> HIDE DEF new
      <4>2. QED
        BY <4>1
    <3>1. CASE k = KeyOf[e]
      <4>1. syncRequests'[k] = e
        BY <2>1, <3>1 DEF WorkerTypeOK
      <4>2. KeyOf[x] = k /\ (\E row \in canonical : row.event = x) => FALSE
        BY <2>3, <3>1
      <4>3. QED
        BY <3>0, <3>1, <4>1, <4>2
    <3>2. CASE k # KeyOf[e]
      <4>1. syncRequests'[k] = syncRequests[k]
        BY <3>2 DEF WorkerTypeOK
      <4>2. QED
        BY <3>0, <3>2, <4>1 DEF SequenceIntegrity
    <3>3. QED
      BY <3>1, <3>2
  <2>7. QED
    BY <2>4, <2>5, <2>6 DEF SequenceIntegrity
<1>3. QED
  BY <1>1, <1>2

\* Every step keeps the ciphertext of the logged evidence.
LEMMA LoggedValueStep ==
  ASSUME WorkerTypeOK, HandlerInv, LoggedValueStored, [WorkerNext]_workerVars
  PROVE  LoggedValueStored'
<1>1. \A row \in canonical : row.event \in Events /\ row.origin \in Devices
  BY DEF WorkerTypeOK, LogRow
<1>2. CASE canonical' = canonical
  BY <1>1, <1>2, ObjectsStay DEF LoggedValueStored
<1>3. CASE canonical' # canonical
  BY <1>1, <1>3, LogChange, ObjectsStay DEF LoggedValueStored
<1>4. QED
  BY <1>2, <1>3

\* The log keeps its rows.
LEMMA LogGrows ==
  ASSUME WorkerTypeOK, HandlerInv, [WorkerNext]_workerVars
  PROVE  /\ canonical \subseteq canonical'
         /\ \A e \in Events : Logged(e) => Logged(e)'
<1>1. canonical \subseteq canonical'
  BY LogChange
<1>2. QED
  BY <1>1 DEF Logged

\* Every step keeps "linked" rows to what the log refers to.
LEMMA LinkedStep ==
  ASSUME WorkerTypeOK, HandlerInv, LinkedRowLogged, [WorkerNext]_workerVars
  PROVE  LinkedRowLogged'
<1> USE DEF WorkerTypeOK
<1>0. canonical \subseteq canonical'
  BY LogGrows
<1>1. CASE uploads' = uploads
  BY <1>0, <1>1 DEF LinkedRowLogged
<1>2. CASE \E e \in Events, d \in Devices, w \in Attempts :
             uploads' = [uploads EXCEPT ![e] = Upserted(uploads[e], d, w)]
  <2> PICK e \in Events, d \in Devices, w \in Attempts :
             uploads' = [uploads EXCEPT ![e] = Upserted(uploads[e], d, w)]
    BY <1>2
  <2>1. /\ uploads'[e].origin = d
        /\ uploads'[e].linked => uploads[e] # None /\ uploads[e].linked /\ uploads[e].origin = d
        /\ \A x \in Events \ {e} : uploads'[x] = uploads[x]
    BY DEF Upserted
  <2>2. QED
    BY <1>0, <2>1 DEF LinkedRowLogged
<1>3. CASE \E e \in Events :
             /\ uploads[e] # None
             /\ uploads' = [uploads EXCEPT ![e].linked = TRUE]
             /\ [seq |-> NextSequence, event |-> e, origin |-> uploads[e].origin] \in canonical'
  <2> PICK e \in Events :
             /\ uploads[e] # None
             /\ uploads' = [uploads EXCEPT ![e].linked = TRUE]
             /\ [seq |-> NextSequence, event |-> e, origin |-> uploads[e].origin] \in canonical'
    BY <1>3
  <2>1. /\ uploads'[e].origin = uploads[e].origin
        /\ \A x \in Events \ {e} : uploads'[x] = uploads[x]
    BY DEF UploadRow
  <2>2. \E row \in canonical' : row.event = e /\ row.origin = uploads'[e].origin
    BY <2>1
  <2>3. QED
    BY <1>0, <2>1, <2>2 DEF LinkedRowLogged
<1>4. QED
  BY <1>1, <1>2, <1>3, UploadChange

-----------------------------------------------------------------------------
(* The answers *)

\* Another event holds the key of e.
KeyLost(e) == ~Logged(e) /\ \E x \in Events : KeyOf[x] = KeyOf[e] /\ Logged(x)

AnswerTrue(h) ==
  job[h] # None /\ job[h].op = "push" /\ job[h].at = "done" =>
    /\ job[h].answer \in {"accepted", "replay"} => Logged(job[h].event)
    /\ job[h].answer = "conflict" => KeyLost(job[h].event)

\* AnswersAreTrue, one handler at a time.
LEMMA AnswersSplit ==
  /\ AnswersAreTrue => \A h \in Slots : AnswerTrue(h)
  /\ (\A h \in Slots : AnswerTrue(h)') => AnswersAreTrue'
BY DEF AnswersAreTrue, AnswerTrue, KeyLost, Logged

\* A key that is lost stays lost.
LEMMA KeyStaysLost ==
  ASSUME WorkerTypeOK, HandlerInv, [WorkerNext]_workerVars, SequenceIntegrity', WorkerTypeOK',
         NEW e \in Events, KeyLost(e)
  PROVE  KeyLost(e)'
<1>1. PICK x \in Events : KeyOf[x] = KeyOf[e] /\ Logged(x) /\ x # e
  BY DEF KeyLost
<1>2. Logged(x)'
  BY <1>1, LogGrows
<1>3. ASSUME Logged(e)' PROVE FALSE
  <2>1. \A r1, r2 \in canonical' : KeyOf[r1.event] = KeyOf[r2.event] => r1 = r2
    BY DEF SequenceIntegrity
  <2>2. PICK r1 \in canonical' : r1.event = x
    BY <1>2 DEF Logged
  <2>3. PICK r2 \in canonical' : r2.event = e
    BY <1>3 DEF Logged
  <2>4. QED
    BY <1>1, <2>1, <2>2, <2>3
<1>4. QED
  BY <1>1, <1>2, <1>3 DEF KeyLost

\* The answer about an accepted key tells the truth.
LEMMA LookupTrue ==
  ASSUME WorkerTypeOK, SequenceIntegrity, NEW e \in Events, syncRequests[KeyOf[e]] # None
  PROVE  /\ ReplayOrConflict(syncRequests[KeyOf[e]], e) = "replay" => Logged(e)
         /\ ReplayOrConflict(syncRequests[KeyOf[e]], e) = "conflict" => KeyLost(e)
<1> DEFINE accepted == syncRequests[KeyOf[e]]
<1>1. KeyOf[e] \in Keys /\ accepted \in Events
  BY ZoneDataAssumption DEF WorkerTypeOK
<1>2. \A x \in Events : accepted = x <=> KeyOf[x] = KeyOf[e] /\ Logged(x)
  BY <1>1 DEF SequenceIntegrity, Logged
<1>3. KeyOf[accepted] = KeyOf[e] /\ Logged(accepted)
  BY <1>1, <1>2
<1>4. accepted # e => ~Logged(e)
  BY <1>2
<1>5. QED
  BY <1>1, <1>3, <1>4 DEF ReplayOrConflict, KeyLost

\* No step makes an answer false, its own or one given before.
LEMMA AnswerStep ==
  ASSUME WorkerTypeOK, WorkerTypeOK', HandlerInv, SequenceIntegrity, SequenceIntegrity',
         AnswersAreTrue, [WorkerNext]_workerVars
  PROVE  AnswersAreTrue'
<1> USE DEF WorkerTypeOK
\* An answer already given stays true.
<1>0. ASSUME NEW g \in Slots, job'[g] = job[g] PROVE AnswerTrue(g)'
  <2>1. AnswerTrue(g) /\ (job[g] # None => job[g].event \in Events)
    BY AnswersSplit DEF Job
  <2>2. QED
    BY <1>0, <2>1, LogGrows, KeyStaysLost DEF AnswerTrue
<1>1. CASE UNCHANGED workerVars
  BY <1>1 DEF workerVars, AnswersAreTrue
<1>2. CASE WorkerNext
  <2> PICK h \in Slots :
           \/ Arrive(h)
           \/ PutHead(h) \/ PutStored(h) \/ PutObject(h) \/ PutUpsert(h)
           \/ ReadRow(h) \/ ReadObject(h) \/ ReadHeal(h)
           \/ PushLookup(h) \/ PushReceipt(h) \/ PushHead(h) \/ PushAccept(h)
           \/ Fail(h) \/ Release(h)
    BY <1>2, WorkerSteps
  <2>1. \A g \in Slots \ {h} : job'[g] = job[g]
    <3>1. CASE \E stage : Step(h, stage)
      BY <3>1 DEF Step
    <3>2. CASE \E answer : Reply(h, answer)
      BY <3>2 DEF Reply
    <3>3. CASE Arrive(h)
      BY <3>3 DEF Arrive, Receive
    <3>4. CASE ReadRow(h) \/ ReadHeal(h) \/ Release(h)
      BY <3>4 DEF ReadRow, ReadHeal, Release
    <3>5. CASE ReadObject(h) /\ ~ \E answer : Reply(h, answer)
      BY <3>5 DEF ReadObject
    <3>6. CASE PushReceipt(h) /\ ~ \E answer : Reply(h, answer)
      BY <3>6 DEF PushReceipt
    <3>7. CASE PutHead(h) \/ PutStored(h) \/ PutObject(h) \/ PutUpsert(h)
      BY <3>1, <3>2, <3>7 DEF PutHead, PutStored, PutObject, PutUpsert
    <3>8. CASE PushLookup(h) \/ PushHead(h) \/ PushAccept(h) \/ Fail(h)
      BY <3>1, <3>2, <3>8 DEF PushLookup, PushHead, PushAccept, Fail
    <3>9. QED
      BY <3>3, <3>4, <3>5, <3>2, <3>6, <3>7, <3>8
  <2> SUFFICES AnswerTrue(h)'
    BY <1>0, <2>1, AnswersSplit
  <2>2. job[h] # None => job[h] \in Job
    OBVIOUS
  \* Whatever is not an answer to a push, or refuses it, claims nothing.
  <2>3. CASE job[h] # None /\ \E answer \in Answers \ {"accepted", "replay", "conflict"} :
               Reply(h, answer)
    BY <2>3, ReplyMoves DEF AnswerTrue
  <2>4. CASE job[h] # None /\ \E stage \in {"object", "stored", "upsert", "receipt", "accept"} :
               Step(h, stage)
    BY <2>4, StepMoves DEF AnswerTrue
  <2>5. CASE job[h] # None /\ syncRequests[KeyOf[job[h].event]] # None
               /\ Reply(h, ReplayOrConflict(syncRequests[KeyOf[job[h].event]], job[h].event))
    <3> DEFINE e == job[h].event
    <3> DEFINE answer == ReplayOrConflict(syncRequests[KeyOf[e]], e)
    <3>1. e \in Events /\ answer \in Answers
      BY <2>2, <2>5 DEF Job, ReplayOrConflict, Answers
    <3>2. job'[h].event = e /\ job'[h].answer = answer
      BY <2>5, <3>1, ReplyMoves
    <3>3. answer # "accepted" /\ (answer = "replay" => Logged(e)) /\ (answer = "conflict" => KeyLost(e))
      BY <2>5, <3>1, LookupTrue DEF ReplayOrConflict
    <3> HIDE DEF answer
    <3>4. QED
      BY <3>1, <3>2, <3>3, LogGrows, KeyStaysLost DEF AnswerTrue
  <2>6. CASE job[h] # None /\ (Reply(h, "accepted") \/ Reply(h, "replay"))
               /\ \E row \in canonical' : row.event = job[h].event
    <3>1. job'[h].event = job[h].event /\ job'[h].answer \in {"accepted", "replay"}
      BY <2>6, ReplyMoves DEF Answers
    <3>2. QED
      BY <2>6, <3>1 DEF AnswerTrue, Logged
  <2>7. CASE Arrive(h)
    <3>1. PICK op \in {"put", "read", "push"}, e \in Events, d \in Devices,
               w \in Attempts \cup {None}, r \in BOOLEAN :
             Receive(h, Request(op, e, d, w, r))
      BY <2>7, ArriveReceives
    <3>2. job'[h] = Request(op, e, d, w, r)
      BY <3>1 DEF Receive
    <3>3. Request(op, e, d, w, r).at # "done"
      BY DEF Request, FirstStage
    <3>4. QED
      BY <3>2, <3>3 DEF AnswerTrue
  <2>8. CASE ReadRow(h) \/ ReadObject(h) \/ ReadHeal(h)
    <3>1. job[h] # None /\ job[h].op = "read"
      BY <2>8 DEF ReadRow, ReadObject, ReadHeal, At
    <3>2. CASE ReadRow(h)
      BY <2>2, <3>1, <3>2 DEF ReadRow, AnswerTrue, Job
    <3>3. CASE ReadObject(h) /\ (Reply(h, "missing") \/ Reply(h, "found"))
      BY <2>3, <3>1, <3>3 DEF Answers
    <3>4. CASE ReadObject(h) /\ ~(Reply(h, "missing") \/ Reply(h, "found"))
      <4>1. PICK w : job' = [job EXCEPT ![h].at = "heal", ![h].wrap = w]
        BY <3>4 DEF ReadObject
      <4>2. job'[h].at = "heal"
        BY <2>2, <3>1, <4>1 DEF Job
      <4>3. QED
        BY <4>2 DEF AnswerTrue
    <3>5. CASE ReadHeal(h)
      <4>1. PICK row : job' = [job EXCEPT ![h].at = "done", ![h].answer = "found",
                                          ![h].wrap = None, ![h].row = row]
        BY <3>5 DEF ReadHeal
      <4>2. job'[h].op = "read"
        BY <2>2, <3>1, <4>1 DEF Job
      <4>3. QED
        BY <4>2 DEF AnswerTrue
    <3>6. QED
      BY <2>8, <3>2, <3>3, <3>4, <3>5
  <2>9. CASE PushReceipt(h) /\ ~Reply(h, "rejected")
    <3>1. job[h] # None /\ job' = [job EXCEPT ![h].at = "head", ![h].row = uploads[job[h].event]]
      BY <2>9 DEF PushReceipt, At
    <3>2. job'[h].at = "head"
      BY <2>2, <3>1 DEF Job
    <3>3. QED
      BY <3>2 DEF AnswerTrue
  <2>10. CASE Release(h)
    BY <2>10 DEF Release, AnswerTrue
  <2>11. CASE PushAccept(h)
    <3>1. job[h] # None
      BY <2>11 DEF PushAccept, At
    <3>2. \/ /\ syncRequests[KeyOf[job[h].event]] # None
             /\ Reply(h, ReplayOrConflict(syncRequests[KeyOf[job[h].event]], job[h].event))
          \/ /\ Reply(h, "accepted") \/ Reply(h, "replay")
             /\ [seq |-> NextSequence, event |-> job[h].event, origin |-> job[h].origin] \in canonical'
      BY <2>11 DEF PushAccept
    <3>3. CASE (Reply(h, "accepted") \/ Reply(h, "replay"))
             /\ [seq |-> NextSequence, event |-> job[h].event, origin |-> job[h].origin] \in canonical'
      <4>1. \E row \in canonical' : row.event = job[h].event
        BY <3>3
      <4>2. QED
        BY <2>6, <3>1, <3>3, <4>1
    <3>4. QED
      BY <2>5, <3>1, <3>2, <3>3
  <2>12. QED
    BY <2>3, <2>4, <2>5, <2>7, <2>8, <2>9, <2>10, <2>11
    DEF PutHead, PutStored, PutObject, PutUpsert, PushLookup, PushReceipt, PushHead, Fail,
        At, Answers
<1>3. QED
  BY <1>1, <1>2

-----------------------------------------------------------------------------
(* The theorems *)

\* The empty zone satisfies the invariant.
LEMMA WorkerInvInit == WorkerInit => WorkerInv
<1> SUFFICES ASSUME WorkerInit PROVE WorkerInv
  OBVIOUS
<1>1. WorkerTypeOK
  BY DEF WorkerInit, WorkerTypeOK
<1>2. SequenceIntegrity
  BY ZoneDataAssumption DEF WorkerInit, SequenceIntegrity
<1>3. QED
  BY <1>1, <1>2 DEF WorkerInit, WorkerInv, HandlerInv, HandlerOK, RowStored,
     LoggedValueStored, LinkedRowLogged, AnswersAreTrue

\* The invariant is inductive.
LEMMA WorkerInvStep == WorkerInv /\ [WorkerNext]_workerVars => WorkerInv'
BY TypeStep, HandlerStep, RowStoredStep, SequenceStep, LoggedValueStep, LinkedStep,
   AnswerStep DEF WorkerInv

\* The Worker's tables and handlers keep their shape, and its inductive invariant
\* holds, in every behaviour.
THEOREM WorkerInvariant == WorkerSpec => []WorkerInv
BY WorkerInvInit, WorkerInvStep, PTL DEF WorkerSpec

\* The tables of D1, the bucket and the requests in service keep their shape.
THEOREM WorkerTypeCorrect == WorkerSpec => []WorkerTypeOK
<1>1. WorkerInv => WorkerTypeOK
  BY DEF WorkerInv
<1>2. QED
  BY <1>1, WorkerInvariant, PTL

\* The zone's sequence is gapless and every key is accepted at most once, however many
\* pushes race (acceptEvent).
THEOREM SequencesSound == WorkerSpec => []SequenceIntegrity
<1>1. WorkerInv => SequenceIntegrity
  BY DEF WorkerInv
<1>2. QED
  BY <1>1, WorkerInvariant, PTL

\* Pushes are answered truthfully, also the one that lost a race for its key
\* (replayOrConflict).
THEOREM AnswersSound == WorkerSpec => []AnswersAreTrue
<1>1. WorkerInv => AnswersAreTrue
  BY DEF WorkerInv
<1>2. QED
  BY <1>1, WorkerInvariant, PTL

\* Accepted evidence has its ciphertext in R2 (validateProtectedReceipt before
\* acceptEvent).
THEOREM EvidenceStored == WorkerSpec => []LoggedValueStored
<1>1. WorkerInv => LoggedValueStored
  BY DEF WorkerInv
<1>2. QED
  BY <1>1, WorkerInvariant, PTL

\* "linked" is only said of the object an accepted event refers to
\* (upsertProtectedValueReceipt).
THEOREM LinksSound == WorkerSpec => []LinkedRowLogged
<1>1. WorkerInv => LinkedRowLogged
  BY DEF WorkerInv
<1>2. QED
  BY <1>1, WorkerInvariant, PTL

\* The log is append-only and appended above every number handed out, so a page a
\* client has read is final (handlePull).
THEOREM AppendOnly == WorkerSpec => AppendsAbove
<1>1. WorkerInv /\ [WorkerNext]_workerVars =>
        [ /\ canonical \subseteq canonical'
          /\ \A row \in canonical' \ canonical : row.seq > zoneCounter ]_workerVars
  <2> SUFFICES ASSUME WorkerInv, [WorkerNext]_workerVars
               PROVE  /\ canonical \subseteq canonical'
                      /\ \A row \in canonical' \ canonical : row.seq > zoneCounter
    OBVIOUS
  <2>1. zoneCounter \in Nat
    BY DEF WorkerInv, WorkerTypeOK
  <2>2. QED
    BY <2>1, LogChange DEF WorkerInv
<1>2. QED
  BY <1>1, WorkerInvariant, PTL DEF WorkerSpec, AppendsAbove
=============================================================================
