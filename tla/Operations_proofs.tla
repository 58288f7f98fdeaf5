------------------------- MODULE Operations_proofs -------------------------
(***************************************************************************)
(* The operations that share no state, each for any number of processes    *)
(* and of whatever it works on.  In each, a process acts on what it found  *)
(* before, and the inductive invariant says what of that still holds.      *)
(*                                                                         *)
(* A search of Retrieval shows no text that was superseded or erased when  *)
(* it began (VisibleIsCurrent): the index is not trusted for it, since     *)
(* what is shown was rechecked on readings at least as new as the store    *)
(* was when the search began.  A walk of GraphWalk returns what is near    *)
(* and no more, or says that it left nodes out (WalkHonest).  Operator     *)
(* cycles exclude each other, agentic jobs die exhausted only, held        *)
(* evidence is as it was decided, and the embedding runs record a chunk    *)
(* only where its vector is stored.                                        *)
(***************************************************************************)
EXTENDS MCOperations, AgenticRunner_proofs, Lists_proofs

-----------------------------------------------------------------------------
(* Retrieval *)

Reader == [pc : {"idle", "events", "erasures", "verdict"}, chunk : SUBSET Chunk, of : Reading,
           since : Reading, shown : SUBSET Chunk]

Rebuild == [pc : {"idle", "events", "erasures", "existing", "write"}, of : Reading, existing : SUBSET Chunk]

StoreShape ==
  /\ captured \in Seq(OwnUnits) /\ zoneLog \in Seq(Units \cup Erasures)
  /\ pulled \in Nat /\ pulled <= Len(zoneLog)

\* A reading is of the store as it is or was.
ReadSoFar(r) == r.own <= Len(captured) /\ r.events <= pulled /\ r.erasures <= pulled

\* Nothing in a reading supersedes or erases a source of the chunk.
StandsIn(c, r) ==
  /\ \A s \in EventsIn(r) : Shape[s].type = "Supersession" => Shape[s].refs \cap c.sources = {}
  /\ \A x \in ErasuresIn(r) : Target[x] \notin c.sources

\* What has been reread is at least as new as the store when the search began.
SearchOK(s) ==
  /\ ReadSoFar(s.of) /\ ReadSoFar(s.since)
  /\ s.pc # "idle" => s.since.own = s.of.own
  /\ s.pc \in {"erasures", "verdict"} => s.since.events <= s.of.events
  /\ s.pc = "verdict" => s.since.erasures <= s.of.erasures
  /\ s.pc = "idle" => \A c \in s.shown : StandsIn(c, s.since)

SearchInv ==
  /\ StoreShape
  /\ DOMAIN rows \subseteq Chunk
  /\ rebuild \in [Rebuilders -> Rebuild]
  /\ \A b \in Rebuilders : ReadSoFar(rebuild[b].of)
  /\ reader \in [Readers -> Reader]
  /\ \A q \in Readers : SearchOK(reader[q])

LEMMA SearchInvInit == RetrievalInit => SearchInv
<1> SUFFICES ASSUME RetrievalInit PROVE SearchInv
  OBVIOUS
<1>1. captured = <<>> /\ zoneLog = <<>> /\ pulled = 0 /\ Len(captured) = 0 /\ Len(zoneLog) = 0
  BY DEF RetrievalInit
<1>2. StoreShape
  BY <1>1, EmptySeq DEF StoreShape
<1>3. Nothing \in Reading /\ ReadSoFar(Nothing)
  BY <1>1 DEF Nothing, Reading, ReadSoFar
<1>4. PICK none \in SUBSET Chunk : none = {}
  OBVIOUS
<1>5. PICK idle \in Reader : idle = [pc |-> "idle", chunk |-> none, of |-> Nothing, since |-> Nothing, shown |-> none]
  BY <1>3 DEF Reader
<1>6. reader = [q \in Readers |-> idle]
  BY <1>4, <1>5 DEF RetrievalInit
<1>7. SearchOK(idle)
  BY <1>3, <1>4, <1>5 DEF SearchOK
<1>8. DOMAIN rows \subseteq Chunk
  BY DEF RetrievalInit
<1>9. PICK waiting \in Rebuild : waiting = [pc |-> "idle", of |-> Nothing, existing |-> none]
  BY <1>3 DEF Rebuild
<1>10. rebuild = [b \in Rebuilders |-> waiting] /\ waiting.of = Nothing
  BY <1>4, <1>9 DEF RetrievalInit
<1>11. QED
  BY <1>2, <1>3, <1>6, <1>7, <1>8, <1>10 DEF SearchInv

\* The store only grows, so what was read stays what it was.
LEMMA ReadStays ==
  ASSUME StoreShape,
         \/ UNCHANGED captured
         \/ \E e \in OwnUnits : captured' = Append(captured, e),
         \/ UNCHANGED zoneLog
         \/ \E x \in Units \cup Erasures : zoneLog' = Append(zoneLog, x),
         pulled' \in Nat, pulled <= pulled', pulled' <= Len(zoneLog),
         NEW r \in Reading, ReadSoFar(r)
  PROVE  /\ ReadSoFar(r)' /\ StoreShape'
         /\ EventsIn(r)' = EventsIn(r) /\ ErasuresIn(r)' = ErasuresIn(r)
         /\ \A c \in Chunk : StandsIn(c, r)' <=> StandsIn(c, r)
<1>1. /\ r.own \in Nat /\ r.events \in Nat /\ r.erasures \in Nat /\ Len(captured) \in Nat /\ Len(zoneLog) \in Nat
  BY DEF Reading, StoreShape
<1>2. /\ captured' \in Seq(OwnUnits) /\ Len(captured') \in Nat /\ Len(captured) <= Len(captured')
      /\ \A i \in 1 .. Len(captured) : captured'[i] = captured[i]
  <2>1. CASE UNCHANGED captured
    BY <1>1, <2>1 DEF StoreShape
  <2>2. ASSUME NEW e \in OwnUnits, captured' = Append(captured, e) PROVE <1>2
    BY <1>1, <2>2, AppendProperties DEF StoreShape
  <2>3. QED
    BY <2>1, <2>2
<1>3. /\ zoneLog' \in Seq(Units \cup Erasures) /\ Len(zoneLog') \in Nat /\ Len(zoneLog) <= Len(zoneLog')
      /\ \A i \in 1 .. Len(zoneLog) : zoneLog'[i] = zoneLog[i]
  <2>1. CASE UNCHANGED zoneLog
    BY <1>1, <2>1 DEF StoreShape
  <2>2. ASSUME NEW x \in Units \cup Erasures, zoneLog' = Append(zoneLog, x) PROVE <1>3
    BY <1>1, <2>2, AppendProperties DEF StoreShape
  <2>3. QED
    BY <2>1, <2>2
<1>4. ReadSoFar(r)' /\ StoreShape'
  BY <1>1, <1>2, <1>3 DEF ReadSoFar, StoreShape
<1>5. /\ \A i \in 1 .. r.own : captured'[i] = captured[i]
      /\ \A i \in 1 .. r.events : zoneLog'[i] = zoneLog[i]
      /\ \A i \in 1 .. r.erasures : zoneLog'[i] = zoneLog[i]
  <2>1. \A i \in 1 .. r.own : i \in 1 .. Len(captured)
    BY <1>1 DEF ReadSoFar
  <2>2. pulled \in Nat /\ pulled <= Len(zoneLog) /\ r.events <= Len(zoneLog) /\ r.erasures <= Len(zoneLog)
    BY <1>1 DEF ReadSoFar, StoreShape
  <2>3. /\ \A i \in 1 .. r.events : i \in 1 .. Len(zoneLog)
        /\ \A i \in 1 .. r.erasures : i \in 1 .. Len(zoneLog)
    BY <1>1, <2>2
  <2>4. QED
    BY <1>2, <1>3, <2>1, <2>3
<1>6. EventsIn(r)' = EventsIn(r) /\ ErasuresIn(r)' = ErasuresIn(r)
  BY <1>5 DEF EventsIn, ErasuresIn
<1>7. \A c \in Chunk : StandsIn(c, r)' <=> StandsIn(c, r)
  BY <1>6 DEF StandsIn
<1>8. QED
  BY <1>4, <1>6, <1>7

\* A newer reading contains an older one.
LEMMA NewerContains ==
  ASSUME NEW r \in Reading, NEW s \in Reading, r.own = s.own, r.events <= s.events, r.erasures <= s.erasures
  PROVE  EventsIn(r) \subseteq EventsIn(s) /\ ErasuresIn(r) \subseteq ErasuresIn(s)
<1>1. /\ r.own \in Nat /\ r.events \in Nat /\ r.erasures \in Nat /\ s.events \in Nat /\ s.erasures \in Nat
  BY DEF Reading
<1>2. 1 .. r.events \subseteq 1 .. s.events /\ 1 .. r.erasures \subseteq 1 .. s.erasures
  BY <1>1
<1>3. QED
  BY <1>2 DEF EventsIn, ErasuresIn

LEMMA StoreGrowsKeeps ==
  ASSUME SearchInv, UNCHANGED <<rebuild, reader, rows>>,
         \/ UNCHANGED captured
         \/ \E e \in OwnUnits : captured' = Append(captured, e),
         \/ UNCHANGED zoneLog
         \/ \E x \in Units \cup Erasures : zoneLog' = Append(zoneLog, x),
         pulled' \in Nat, pulled <= pulled', pulled' <= Len(zoneLog)
  PROVE  SearchInv'
<1>1. StoreShape'
  <2>1. Nothing \in Reading /\ ReadSoFar(Nothing)
    BY DEF SearchInv, StoreShape, Nothing, Reading, ReadSoFar
  <2>2. QED
    BY <2>1, ReadStays DEF SearchInv
<1>2. ASSUME NEW q \in Readers PROVE SearchOK(reader[q])'
  <2>1. PICK s \in Reader : s = reader[q]
    BY DEF SearchInv
  <2>2. SearchOK(s) /\ s.of \in Reading /\ s.since \in Reading /\ s.shown \subseteq Chunk
    BY <2>1 DEF SearchInv, Reader
  <2>3. ReadSoFar(s.of)' /\ ReadSoFar(s.since)' /\ \A c \in Chunk : StandsIn(c, s.since)' <=> StandsIn(c, s.since)
    <3>1. PICK r \in Reading : r = s.of
      BY <2>2
    <3>2. PICK t \in Reading : t = s.since
      BY <2>2
    <3>3. ReadSoFar(r) /\ ReadSoFar(t)
      BY <2>2, <3>1, <3>2 DEF SearchOK
    <3>4. ReadSoFar(r)'
      BY <3>3, ReadStays DEF SearchInv
    <3>5. ReadSoFar(t)' /\ \A c \in Chunk : StandsIn(c, t)' <=> StandsIn(c, t)
      BY <3>3, ReadStays DEF SearchInv
    <3>6. QED
      BY <3>1, <3>2, <3>4, <3>5
  <2>4. SearchOK(s)'
    BY <2>2, <2>3 DEF SearchOK
  <2>5. QED
    BY <2>1, <2>4
<1>3. ASSUME NEW b \in Rebuilders PROVE ReadSoFar(rebuild[b].of)'
  <2>1. PICK r \in Reading : r = rebuild[b].of
    BY DEF SearchInv, Rebuild
  <2>2. ReadSoFar(r)'
    BY <2>1, ReadStays DEF SearchInv
  <2>3. QED
    BY <2>1, <2>2
<1>4. QED
  BY <1>1, <1>2, <1>3 DEF SearchInv

LEMMA StoreKeeps == ASSUME SearchInv, StoreGrows PROVE SearchInv'
<1>1. pulled \in Nat /\ pulled <= Len(zoneLog) /\ Len(zoneLog) \in Nat
  BY DEF SearchInv, StoreShape
<1>2. ASSUME NEW e \in OwnUnits, CaptureUnit(e) PROVE SearchInv'
  BY <1>1, <1>2, StoreGrowsKeeps DEF CaptureUnit, indexVars
<1>3. ASSUME NEW e \in OwnUnits, PushUnit(e) PROVE SearchInv'
  BY <1>1, <1>3, StoreGrowsKeeps, RetrievalAssumption DEF PushUnit, indexVars
<1>4. ASSUME NEW x \in Units \cup Erasures, OtherDevice(x) PROVE SearchInv'
  BY <1>1, <1>4, StoreGrowsKeeps DEF OtherDevice, indexVars
<1>5. CASE Import
  BY <1>1, <1>5, StoreGrowsKeeps DEF Import, indexVars
<1>6. CASE CommitCursor
  BY <1>1, <1>6, StoreGrowsKeeps DEF CommitCursor, indexVars
<1>7. QED
  BY <1>2, <1>3, <1>4, <1>5, <1>6 DEF StoreGrows

\* A rebuild only adds chunks to the table.
LEMMA ChunksAre == ASSUME SearchInv, NEW r \in Reading, ReadSoFar(r) PROVE ChunksOf(r) \subseteq Chunk
<1>1. EventsIn(r) \subseteq Units
  <2>1. r.own \in Nat /\ \A i \in 1 .. r.own : i \in 1 .. Len(captured)
    BY DEF ReadSoFar, Reading, SearchInv, StoreShape
  <2>2. \A i \in 1 .. r.own : captured[i] \in Units
    BY <2>1, RetrievalAssumption DEF SearchInv, StoreShape
  <2>3. QED
    BY <2>2 DEF EventsIn
<1> SUFFICES ASSUME NEW c \in ChunksOf(r) PROVE c \in Chunk
  OBVIOUS
<1>2. PICK e \in EventsIn(r) : c = [primary |-> e, sources |-> SourcesOf(e, r)]
  BY DEF ChunksOf
<1>3. SourcesOf(e, r) \subseteq Units \cup Erasures
  BY <1>1 DEF SourcesOf, Related, ErasuresIn
<1>4. QED
  BY <1>1, <1>2, <1>3 DEF Chunk

LEMMA FirstReading ==
  ASSUME SearchInv
  PROVE  \E of \in Reading : of = [Nothing EXCEPT !.own = Len(captured)] /\ of.own = Len(captured) /\ ReadSoFar(of)
<1>1. Len(captured) \in Nat /\ pulled \in Nat
  BY DEF SearchInv, StoreShape
<1>2. PICK n \in Nat : n = Len(captured)
  BY <1>1
<1>3. PICK zero \in Nat : zero = 0
  OBVIOUS
<1>4. PICK none \in Reading : none = Nothing
  BY DEF Nothing, Reading
<1>5. none.own = 0 /\ none.events = 0 /\ none.erasures = 0
  BY <1>4 DEF Nothing
<1>6. PICK of \in Reading : of = [none EXCEPT !.own = n]
  BY DEF Reading
<1>7. of.own = n /\ of.events = 0 /\ of.erasures = 0
  BY <1>5, <1>6 DEF Reading
<1>8. ReadSoFar(of)
  BY <1>1, <1>2, <1>7 DEF ReadSoFar
<1>9. QED
  BY <1>2, <1>4, <1>6, <1>7, <1>8

\* A rebuild changes nothing that is being searched but the table, which it adds chunks to.
LEMMA RebuildKeeps == ASSUME SearchInv, NEW b \in Rebuilders, RebuildStep(b) PROVE SearchInv'
<1>1. UNCHANGED <<captured, zoneLog, pulled, reader>>
  BY DEF RebuildStep, ReadOwnEvents, ReadInboxEvents, ReadErasures, ReadExisting, WriteIndex, storeVars
<1>2. StoreShape' /\ reader' \in [Readers -> Reader] /\ \A q \in Readers : SearchOK(reader[q])'
  BY <1>1 DEF SearchInv, StoreShape, SearchOK, ReadSoFar, StandsIn, EventsIn, ErasuresIn
<1>3. PICK w \in Rebuild : w = rebuild[b]
  BY DEF SearchInv
<1>4. /\ w.of \in Reading /\ ReadSoFar(w.of) /\ w.existing \subseteq Chunk
      /\ w.of.own \in Nat /\ w.of.events \in Nat /\ w.of.erasures \in Nat
      /\ Len(captured) \in Nat /\ pulled \in Nat
  BY <1>3 DEF SearchInv, Rebuild, Reading, StoreShape
<1>5. ASSUME NEW now \in Rebuild, rebuild' = [rebuild EXCEPT ![b] = now], ReadSoFar(now.of), DOMAIN rows' \subseteq Chunk
      PROVE  SearchInv'
  <2>1. \A d \in Rebuilders : ReadSoFar(rebuild[d].of)'
    BY <1>1, <1>5 DEF SearchInv, ReadSoFar
  <2>2. QED
    BY <1>2, <1>5, <2>1 DEF SearchInv
<1>6. CASE ReadOwnEvents(b)
  <2>1. PICK of \in Reading : of = [Nothing EXCEPT !.own = Len(captured)] /\ ReadSoFar(of)
    BY <1>4, FirstReading
  <2>2. PICK now : now = [w EXCEPT !.pc = "events", !.of = of]
    OBVIOUS
  <2>3. now \in Rebuild /\ now.of = of
    BY <2>2 DEF Rebuild
  <2>4. rebuild' = [rebuild EXCEPT ![b] = now] /\ UNCHANGED rows
    BY <1>3, <1>6, <2>1, <2>2 DEF ReadOwnEvents, RebuildAt, indexVars
  <2>5. QED
    BY <1>5, <2>1, <2>3, <2>4 DEF SearchInv
<1>7. CASE ReadInboxEvents(b)
  <2>1. PICK of \in Reading : of = [w.of EXCEPT !.events = pulled]
    BY <1>4 DEF Reading
  <2>2. ReadSoFar(of)
    BY <1>4, <2>1 DEF ReadSoFar, Reading
  <2>3. PICK now : now = [w EXCEPT !.pc = "erasures", !.of = of]
    OBVIOUS
  <2>4. now \in Rebuild /\ now.of = of
    BY <2>3 DEF Rebuild
  <2>5. rebuild' = [rebuild EXCEPT ![b] = now] /\ UNCHANGED rows
    BY <1>3, <1>7, <2>1, <2>3 DEF ReadInboxEvents, RebuildAt, indexVars, Rebuild
  <2>6. QED
    BY <1>5, <2>2, <2>4, <2>5 DEF SearchInv
<1>8. CASE ReadErasures(b)
  <2>1. PICK of \in Reading : of = [w.of EXCEPT !.erasures = pulled]
    BY <1>4 DEF Reading
  <2>2. ReadSoFar(of)
    BY <1>4, <2>1 DEF ReadSoFar, Reading
  <2>3. PICK now : now = [w EXCEPT !.pc = "existing", !.of = of]
    OBVIOUS
  <2>4. now \in Rebuild /\ now.of = of
    BY <2>3 DEF Rebuild
  <2>5. rebuild' = [rebuild EXCEPT ![b] = now] /\ UNCHANGED rows
    BY <1>3, <1>8, <2>1, <2>3 DEF ReadErasures, RebuildAt, indexVars, Rebuild
  <2>6. QED
    BY <1>5, <2>2, <2>4, <2>5 DEF SearchInv
<1>9. CASE ReadExisting(b)
  <2>1. PICK existing \in SUBSET Chunk : existing = DOMAIN rows
    BY DEF SearchInv
  <2>2. PICK now : now = [w EXCEPT !.pc = "write", !.existing = existing]
    OBVIOUS
  <2>3. now \in Rebuild /\ now.of = w.of
    BY <2>2 DEF Rebuild
  <2>4. rebuild' = [rebuild EXCEPT ![b] = now] /\ UNCHANGED rows
    BY <1>3, <1>9, <2>1, <2>2 DEF ReadExisting, RebuildAt, indexVars
  <2>5. QED
    BY <1>4, <1>5, <2>3, <2>4 DEF SearchInv
<1>10. CASE WriteIndex(b)
  <2>1. PICK none \in SUBSET Chunk : none = {}
    OBVIOUS
  <2>2. PICK now \in Rebuild : now = [pc |-> "idle", of |-> Nothing, existing |-> none]
    BY DEF Rebuild, Nothing, Reading
  <2>3. now.of = Nothing /\ ReadSoFar(Nothing)
    BY <1>4, <2>2 DEF Nothing, ReadSoFar
  <2>4. rebuild' = [rebuild EXCEPT ![b] = now]
    BY <1>10, <2>1, <2>2 DEF WriteIndex, RebuildAt
  <2>5. DOMAIN rows' = DOMAIN rows \cup ChunksOf(w.of)
    BY <1>3, <1>10 DEF WriteIndex, RowsAfter
  <2>6. DOMAIN rows' \subseteq Chunk
    BY <1>4, <2>5, ChunksAre DEF SearchInv
  <2>7. QED
    BY <1>5, <2>3, <2>4, <2>6
<1>11. QED
  BY <1>6, <1>7, <1>8, <1>9, <1>10 DEF RebuildStep

\* A search reads in order, and shows a chunk only if nothing in its last readings is against it.
LEMMA ReaderKeeps == ASSUME SearchInv, NEW q \in Readers, ReaderStep(q) PROVE SearchInv'
<1>1. UNCHANGED <<captured, zoneLog, pulled, rows, rebuild>>
  BY DEF ReaderStep, PickChunk, RecheckEvents, RecheckErasures, GiveVerdict, storeVars, indexVars
<1>2. /\ StoreShape' /\ DOMAIN rows' \subseteq Chunk /\ rebuild' \in [Rebuilders -> Rebuild]
      /\ \A b \in Rebuilders : ReadSoFar(rebuild[b].of)'
  BY <1>1 DEF SearchInv, StoreShape, ReadSoFar
<1>3. PICK s \in Reader : s = reader[q]
  BY DEF SearchInv
<1>4. /\ SearchOK(s) /\ s.of \in Reading /\ s.since \in Reading /\ s.chunk \subseteq Chunk
      /\ Len(captured) \in Nat /\ pulled \in Nat
  BY <1>3 DEF SearchInv, Reader, StoreShape
<1>5. /\ s.of.own \in Nat /\ s.of.events \in Nat /\ s.of.erasures \in Nat
      /\ s.since.own \in Nat /\ s.since.events \in Nat /\ s.since.erasures \in Nat
  BY <1>4 DEF Reading
<1>6. ASSUME NEW now \in Reader, reader' = [reader EXCEPT ![q] = now], SearchOK(now) PROVE SearchInv'
  <2>1. reader' \in [Readers -> Reader] /\ \A p \in Readers : SearchOK(reader'[p])
    BY <1>6 DEF SearchInv
  <2>2. ASSUME NEW p \in Readers PROVE SearchOK(reader[p])'
    BY <1>1, <2>1 DEF SearchOK, ReadSoFar, StandsIn, EventsIn, ErasuresIn
  <2>3. QED
    BY <1>2, <2>1, <2>2 DEF SearchInv
<1>7. ASSUME NEW c \in DOMAIN rows, PickChunk(q, c) PROVE SearchInv'
  <2>1. PICK of \in Reading : of = [Nothing EXCEPT !.own = Len(captured)] /\ of.own = Len(captured) /\ ReadSoFar(of)
    BY FirstReading
  <2>2. PICK since \in Reading : since = Everything
    BY <1>4 DEF Everything, Reading
  <2>3. since.own = Len(captured) /\ ReadSoFar(since)
    BY <1>4, <2>2 DEF Everything, ReadSoFar
  <2>4. PICK chunk \in SUBSET Chunk : chunk = {c}
    BY DEF SearchInv
  <2>5. PICK none \in SUBSET Chunk : none = {}
    OBVIOUS
  <2>6. PICK now : now = [s EXCEPT !.pc = "events", !.chunk = chunk, !.shown = none, !.since = since, !.of = of]
    OBVIOUS
  <2>7. now \in Reader /\ now.pc = "events" /\ now.of = of /\ now.since = since
    BY <2>6 DEF Reader
  <2>8. SearchOK(now)
    BY <2>1, <2>3, <2>7 DEF SearchOK
  <2>9. reader' = [reader EXCEPT ![q] = now]
    BY <1>3, <1>7, <2>1, <2>2, <2>4, <2>5, <2>6 DEF PickChunk, ReaderAt
  <2>10. QED
    BY <1>6, <2>7, <2>8, <2>9
<1>8. CASE RecheckEvents(q)
  <2>1. PICK of \in Reading : of = [s.of EXCEPT !.events = pulled]
    BY <1>4 DEF Reading
  <2>2. of.own = s.of.own /\ of.events = pulled /\ of.erasures = s.of.erasures
    BY <1>4, <2>1 DEF Reading
  <2>3. PICK now : now = [s EXCEPT !.pc = "erasures", !.of = of]
    OBVIOUS
  <2>4. now \in Reader /\ now.pc = "erasures" /\ now.of = of /\ now.since = s.since
    BY <2>3 DEF Reader
  <2>5. s.pc = "events"
    BY <1>3, <1>8 DEF RecheckEvents, ReaderAt
  <2>6. SearchOK(now)
    BY <1>4, <1>5, <2>2, <2>4, <2>5 DEF SearchOK, ReadSoFar
  <2>7. reader' = [reader EXCEPT ![q] = now]
    BY <1>3, <1>8, <2>1, <2>3 DEF RecheckEvents, ReaderAt, Reader
  <2>8. QED
    BY <1>6, <2>4, <2>6, <2>7
<1>9. CASE RecheckErasures(q)
  <2>1. PICK of \in Reading : of = [s.of EXCEPT !.erasures = pulled]
    BY <1>4 DEF Reading
  <2>2. of.own = s.of.own /\ of.events = s.of.events /\ of.erasures = pulled
    BY <1>4, <2>1 DEF Reading
  <2>3. PICK now : now = [s EXCEPT !.pc = "verdict", !.of = of]
    OBVIOUS
  <2>4. now \in Reader /\ now.pc = "verdict" /\ now.of = of /\ now.since = s.since
    BY <2>3 DEF Reader
  <2>5. s.pc = "erasures"
    BY <1>3, <1>9 DEF RecheckErasures, ReaderAt
  <2>6. SearchOK(now)
    BY <1>4, <1>5, <2>2, <2>4, <2>5 DEF SearchOK, ReadSoFar
  <2>7. reader' = [reader EXCEPT ![q] = now]
    BY <1>3, <1>9, <2>1, <2>3 DEF RecheckErasures, ReaderAt, Reader
  <2>8. QED
    BY <1>6, <2>4, <2>6, <2>7
<1>10. CASE GiveVerdict(q)
  <2>1. PICK shown \in SUBSET Chunk : shown = {c \in s.chunk : Visible(c, s.of)}
    BY <1>4
  <2>2. PICK nothing \in Reading : nothing = Nothing
    BY DEF Nothing, Reading
  <2>3. ReadSoFar(nothing)
    BY <1>4, <2>2 DEF Nothing, ReadSoFar
  <2>4. PICK since \in Reading : since = IF shown = {} THEN nothing ELSE s.since
    BY <1>4
  <2>5. PICK none \in SUBSET Chunk : none = {}
    OBVIOUS
  <2>6. PICK now : now = [s EXCEPT !.pc = "idle", !.chunk = none, !.of = nothing, !.since = since, !.shown = shown]
    OBVIOUS
  <2>7. now \in Reader /\ now.pc = "idle" /\ now.of = nothing /\ now.since = since /\ now.shown = shown
    BY <2>6 DEF Reader
  <2>8. s.pc = "verdict" /\ reader' = [reader EXCEPT ![q] = now]
    BY <1>3, <1>10, <2>1, <2>2, <2>4, <2>5, <2>6 DEF GiveVerdict, ReaderAt
  <2>9. s.since.own = s.of.own /\ s.since.events <= s.of.events /\ s.since.erasures <= s.of.erasures
    BY <1>4, <2>8 DEF SearchOK
  <2>10. EventsIn(s.since) \subseteq EventsIn(s.of) /\ ErasuresIn(s.since) \subseteq ErasuresIn(s.of)
    BY <1>4, <2>9, NewerContains
  <2>11. ASSUME NEW c \in shown PROVE StandsIn(c, since)
    <3>1. since = s.since
      BY <2>4
    <3>2. ~Superseded(c, s.of) /\ ~Erased(c, s.of)
      BY <2>1 DEF Visible
    <3>3. QED
      BY <2>10, <3>1, <3>2 DEF StandsIn, Superseded, Erased
  <2>12. SearchOK(now)
    BY <1>4, <2>3, <2>4, <2>7, <2>11 DEF SearchOK
  <2>13. QED
    BY <1>6, <2>7, <2>8, <2>12
<1>11. QED
  BY <1>7, <1>8, <1>9, <1>10 DEF ReaderStep

LEMMA SearchInvStep == SearchInv /\ [RetrievalNext]_retrievalVars => SearchInv'
<1> SUFFICES ASSUME SearchInv, [RetrievalNext]_retrievalVars PROVE SearchInv'
  OBVIOUS
<1>1. CASE StoreGrows
  BY <1>1, StoreKeeps
<1>2. ASSUME NEW b \in Rebuilders, RebuildStep(b) PROVE SearchInv'
  BY <1>2, RebuildKeeps
<1>3. ASSUME NEW q \in Readers, ReaderStep(q) PROVE SearchInv'
  BY <1>3, ReaderKeeps
<1>4. CASE UNCHANGED retrievalVars
  BY <1>4 DEF retrievalVars, storeVars, indexVars, SearchInv, StoreShape, SearchOK, ReadSoFar, StandsIn,
     EventsIn, ErasuresIn
<1>5. QED
  BY <1>1, <1>2, <1>3, <1>4 DEF RetrievalNext

\* A search never rereads less than the store held when it began, and what it shows is
\* neither superseded nor erased in that store, whatever captures, pulls and rebuilds do
\* between its four reads (searchLocalRetrievalIndex, recheckCandidate).
THEOREM SearchInvariant == RetrievalSpec => []SearchInv
<1>1. RetrievalInit => SearchInv
  BY SearchInvInit
<1>2. SearchInv /\ [RetrievalNext]_retrievalVars => SearchInv'
  BY SearchInvStep
<1>3. QED
  BY <1>1, <1>2, PTL DEF RetrievalSpec

\* "Every result is rechecked against canonical state": text is shown only of chunks none
\* of whose sources was superseded or erased in the store when the search began.
THEOREM ShownIsCurrent == RetrievalSpec => []VisibleIsCurrent
<1>1. SearchInv => VisibleIsCurrent
  BY DEF SearchInv, SearchOK, StandsIn, VisibleIsCurrent
<1>2. QED
  BY <1>1, SearchInvariant, PTL

-----------------------------------------------------------------------------
(* The bounded walk *)

OpenEdge(g, m, n) == {m, n} \in Pairs /\ g.edges[{m, n}] = "open"
SeenNode(g, n) == n = Root \/ g.nodes[n] = "seen"

IsPath(g, path, k) ==
  /\ path \in [0 .. k -> GraphNodes] /\ path[0] = Root
  /\ \A i \in 1 .. k : SeenNode(g, path[i]) /\ OpenEdge(g, path[i - 1], path[i])

\* Within(g, d) is where the paths of at most d open edges over visible nodes end.
LEMMA WithinIs ==
  ASSUME NEW g, NEW d \in Nat, NEW n
  PROVE  n \in Within(g, d) <=> \E k \in 0 .. d : \E path : IsPath(g, path, k) /\ path[k] = n
<1> DEFINE Ps(k) ==
      {p \in [0 .. k -> GraphNodes] :
          /\ p[0] = Root
          /\ \A i \in 1 .. k :
               /\ p[i] = Root \/ g.nodes[p[i]] = "seen"
               /\ {p[i - 1], p[i]} \in Pairs /\ g.edges[{p[i - 1], p[i]}] = "open"}
<1>1. \A k, path : path \in Ps(k) <=> IsPath(g, path, k)
  BY DEF IsPath, SeenNode, OpenEdge
<1>2. Within(g, d) = UNION {{path[k] : path \in Ps(k)} : k \in 0 .. d}
  BY DEF Within
<1> HIDE DEF Ps
<1>3. n \in Within(g, d) <=> \E k \in 0 .. d : \E path \in Ps(k) : path[k] = n
  BY <1>2
<1>4. QED
  BY <1>1, <1>3

\* What is within a distance is within a greater one, and one step further is one more.
LEMMA WithinGrows ==
  ASSUME NEW g, NEW d \in Nat, NEW m \in Within(g, d)
  PROVE  /\ m \in GraphNodes
         /\ \A f \in Nat : d <= f => m \in Within(g, f)
         /\ \A n \in GraphNodes : SeenNode(g, n) /\ OpenEdge(g, m, n) => n \in Within(g, d + 1)
<1>0. PICK k \in 0 .. d : \E p : IsPath(g, p, k) /\ p[k] = m
  BY WithinIs
<1>1. PICK path : IsPath(g, path, k) /\ path[k] = m
  BY <1>0
<1>2. m \in GraphNodes
  BY <1>1 DEF IsPath
<1>3. ASSUME NEW f \in Nat, d <= f PROVE m \in Within(g, f)
  <2>1. k \in 0 .. f
    BY <1>3
  <2>2. QED
    BY <1>1, <2>1, WithinIs
<1>4. ASSUME NEW n \in GraphNodes, SeenNode(g, n), OpenEdge(g, m, n) PROVE n \in Within(g, d + 1)
  <2> DEFINE longer == [i \in 0 .. k + 1 |-> IF i = k + 1 THEN n ELSE path[i]]
  <2>1. longer \in [0 .. k + 1 -> GraphNodes] /\ longer[0] = Root /\ longer[k + 1] = n
    BY <1>1 DEF IsPath
  <2>2. ASSUME NEW i \in 1 .. k + 1 PROVE SeenNode(g, longer[i]) /\ OpenEdge(g, longer[i - 1], longer[i])
    <3>1. CASE i = k + 1
      BY <3>1, <1>1, <1>4
    <3>2. CASE i # k + 1
      <4>1. i \in 1 .. k /\ i - 1 \in 0 .. k /\ longer[i] = path[i] /\ longer[i - 1] = path[i - 1]
        BY <3>2
      <4>2. QED
        BY <4>1, <1>1 DEF IsPath
    <3>3. QED
      BY <3>1, <3>2
  <2>3. IsPath(g, longer, k + 1) /\ k + 1 \in 0 .. d + 1
    BY <2>1, <2>2 DEF IsPath
  <2> HIDE DEF longer
  <2>4. d + 1 \in Nat
    OBVIOUS
  <2>5. QED
    BY <2>1, <2>3, <2>4, WithinIs
<1>5. QED
  BY <1>2, <1>3, <1>4

\* What is within a distance is the root, or one step from what is nearer, or nearer itself.
LEMMA WithinBack ==
  ASSUME NEW g, NEW d \in Nat, NEW n \in Within(g, d), Root \in GraphNodes
  PROVE  /\ SeenNode(g, n)
         /\ d = 0 => n = Root
         /\ d # 0 => n \in Within(g, d - 1) \/ \E m \in Within(g, d - 1) : OpenEdge(g, m, n)
<1>0. PICK k \in 0 .. d : \E p : IsPath(g, p, k) /\ p[k] = n
  BY WithinIs
<1>1. PICK path : IsPath(g, path, k) /\ path[k] = n
  BY <1>0
<1>2. SeenNode(g, n)
  <2>1. CASE k = 0
    BY <1>1, <2>1 DEF IsPath, SeenNode
  <2>2. CASE k # 0
    <3>1. k \in 1 .. k
      BY <2>2
    <3>2. QED
      BY <1>1, <3>1 DEF IsPath
  <2>3. QED
    BY <2>1, <2>2
<1>3. d = 0 => n = Root
  BY <1>1 DEF IsPath
<1>4. ASSUME d # 0 PROVE n \in Within(g, d - 1) \/ \E m \in Within(g, d - 1) : OpenEdge(g, m, n)
  <2>1. d - 1 \in Nat
    BY <1>4
  <2>2. CASE k <= d - 1
    <3>1. k \in 0 .. d - 1
      BY <2>2
    <3>2. QED
      BY <1>1, <2>1, <3>1, WithinIs
  <2>3. CASE k = d
    <3> DEFINE shorter == [i \in 0 .. d - 1 |-> path[i]]
    <3>1. IsPath(g, shorter, d - 1) /\ shorter[d - 1] = path[d - 1]
      BY <1>1, <2>1, <2>3 DEF IsPath
    <3> HIDE DEF shorter
    <3>2. path[d - 1] \in Within(g, d - 1)
      <4>1. d - 1 \in 0 .. d - 1
        BY <2>1
      <4>2. QED
        BY <2>1, <3>1, <4>1, WithinIs
    <3>3. OpenEdge(g, path[d - 1], n)
      BY <1>1, <1>4, <2>3 DEF IsPath
    <3>4. QED
      BY <3>2, <3>3
  <2>4. QED
    BY <2>2, <2>3
<1>5. QED
  BY <1>2, <1>3, <1>4

\* The root is near itself.
LEMMA RootWithin == ASSUME NEW g, NEW d \in Nat, Root \in GraphNodes PROVE Root \in Within(g, d)
<1>1. IsPath(g, [i \in 0 .. 0 |-> Root], 0)
  BY DEF IsPath
<1>2. QED
  BY <1>1, WithinIs

EdgesAt(g, m) == {p \in Pairs : m \in p /\ g.edges[p] # "none"}

Entry == [id : GraphNodes, depth : Nat]
NoneLeft(w) == "max_nodes" \notin w.omitted
Nearest(g, n, d) == \A x \in Nat : x < d => n \notin Within(g, x)

WalkShape(w) ==
  /\ w = [queue |-> w.queue, visited |-> w.visited, at |-> w.at, left |-> w.left,
          omitted |-> w.omitted, over |-> w.over]
  /\ w.queue \in Seq(Entry) /\ w.visited \subseteq GraphNodes /\ IsFiniteSet(w.visited)
  /\ w.left \subseteq Pairs /\ (w.left = {} <=> w.at = {})
  /\ w.at # {} => \E h \in Entry : w.at = {h}
  /\ w.over \in BOOLEAN /\ (w.over => w.queue = <<>> /\ w.at = {})

\* What is queued is as far away as its entry says, or nearer; the node whose edges are
\* followed is exactly so far away, unless nodes were left out.
EntriesOK(g, w) ==
  /\ \A i \in DOMAIN w.queue :
       /\ w.queue[i].depth <= g.depth
       /\ SeenNode(g, w.queue[i].id) => w.queue[i].id \in Within(g, w.queue[i].depth)
  /\ \A h \in w.at :
       /\ h.depth < g.depth /\ h.id \in w.visited /\ h.id \in Within(g, h.depth)
       /\ w.left \subseteq EdgesAt(g, h.id)
       /\ NoneLeft(w) => Nearest(g, h.id, h.depth)

\* The queue is in the order of the depths, which differ by one at most.
InOrder(w) ==
  /\ \A i, j \in DOMAIN w.queue :
       /\ i <= j => w.queue[i].depth <= w.queue[j].depth
       /\ w.queue[j].depth <= w.queue[i].depth + 1
  /\ \A h \in w.at : \A i \in DOMAIN w.queue :
       h.depth <= w.queue[i].depth /\ w.queue[i].depth <= h.depth + 1

RootFirst(w) ==
  \/ Root \in w.visited
  \/ w.queue = <<[id |-> Root, depth |-> 0]>> /\ w.at = {} /\ w.visited = {}

VisitedOK(g, w) == w.visited \subseteq Within(g, g.depth) /\ Cardinality(w.visited) <= g.size

\* Node n is visited, or queued for its distance from m, or among the edges of m to come.
Ahead(w, m, n, d) ==
  \/ n \in w.visited
  \/ \E i \in DOMAIN w.queue : w.queue[i].id = n /\ w.queue[i].depth <= d + 1
  \/ \E h \in w.at : h.id = m /\ {m, n} \in w.left

Expanded(g, w) ==
  NoneLeft(w) => \A m \in w.visited : \A n \in GraphNodes : \A d \in Nat :
    d < g.depth /\ m \in Within(g, d) /\ SeenNode(g, n) /\ OpenEdge(g, m, n) => Ahead(w, m, n, d)

DepthTold(g, w) ==
  NoneLeft(w) => \A m \in w.visited :
    \/ \A n \in GraphNodes : ~OpenEdge(g, m, n)
    \/ "max_depth" \in w.omitted
    \/ \E d \in Nat : d < g.depth /\ m \in Within(g, d)

WalkOK(g, w) ==
  /\ WalkShape(w) /\ EntriesOK(g, w) /\ InOrder(w) /\ RootFirst(w)
  /\ VisitedOK(g, w) /\ Expanded(g, w) /\ DepthTold(g, w)

WalkInv ==
  \/ graph = {} /\ walk = Unasked
  \/ \E g \in Graph : graph = {g} /\ WalkOK(g, walk)

\* The fields of a queued entry.
LEMMA EntryIs ==
  ASSUME NEW q \in Seq(Entry), NEW i \in DOMAIN q
  PROVE  q[i] \in Entry /\ q[i].depth \in Nat /\ q[i].id \in GraphNodes /\ i \in Nat
<1>1. q[i] \in Entry /\ i \in Nat
  OBVIOUS
<1>2. QED
  BY <1>1 DEF Entry

\* While no edges are followed, what is near and not visited keeps a nearer entry in the queue.
LEMMA Frontier ==
  ASSUME NEW g \in Graph, NEW w, WalkOK(g, w), w.at = {}, NoneLeft(w),
         NEW d \in Nat, d <= g.depth, NEW n \in Within(g, d), n \notin w.visited
  PROVE  \E i \in DOMAIN w.queue : w.queue[i].depth <= d
<1> DEFINE S == {x \in Nat : \E y \in Within(g, x) : y \notin w.visited}
<1>0. g.depth \in Nat /\ Root \in GraphNodes
  BY WalkAssumption DEF Graph
<1>1. PICK t \in S : \A u \in S : t <= u
  BY LeastOf
<1>2. t \in Nat /\ t <= d
  BY <1>1
<1>3. PICK y \in Within(g, t) : y \notin w.visited
  BY <1>1
<1>4. CASE t = 0
  <2>1. Root \notin w.visited
    BY <1>0, <1>3, <1>4, WithinBack
  <2>2. w.queue = <<[id |-> Root, depth |-> 0]>>
    BY <2>1 DEF WalkOK, RootFirst
  <2>3. 1 \in DOMAIN w.queue /\ w.queue[1].depth = 0
    BY <2>2
  <2>4. QED
    BY <2>3
<1>5. CASE t # 0
  <2>1. t - 1 \in Nat /\ t - 1 < g.depth /\ t - 1 \notin S
    BY <1>0, <1>1, <1>2, <1>5
  <2>2. \A m \in Within(g, t - 1) : m \in w.visited
    BY <2>1
  <2> HIDE DEF S
  <2>3. PICK m \in Within(g, t - 1) : OpenEdge(g, m, y)
    BY <1>0, <1>2, <1>3, <1>5, <2>2, WithinBack
  <2>4. m \in w.visited /\ SeenNode(g, y) /\ y \in GraphNodes
    BY <1>0, <1>2, <1>3, <2>2, WithinBack, WithinGrows
  <2>5. Ahead(w, m, y, t - 1)
    BY <2>1, <2>3, <2>4 DEF WalkOK, Expanded
  <2>6. PICK i \in DOMAIN w.queue : w.queue[i].depth <= (t - 1) + 1
    BY <2>5, <1>3 DEF Ahead
  <2>7. w.queue[i].depth \in Nat
    BY EntryIs DEF WalkOK, WalkShape
  <2>8. QED
    BY <2>6, <2>7, <1>2
<1>6. QED
  BY <1>4, <1>5

\* What shifting the queue leaves.
LEMMA TailIs ==
  ASSUME NEW S, NEW q \in Seq(S), q # <<>>
  PROVE  /\ Tail(q) \in Seq(S) /\ Head(q) = q[1] /\ Head(q) \in S /\ 1 \in DOMAIN q
         /\ \A i \in DOMAIN Tail(q) : i + 1 \in DOMAIN q /\ Tail(q)[i] = q[i + 1]
         /\ \A i \in DOMAIN q : i = 1 \/ (i - 1 \in DOMAIN Tail(q) /\ Tail(q)[i - 1] = q[i])
<1>1. Len(q) \in Nat \ {0} /\ DOMAIN q = 1 .. Len(q)
  BY EmptySeq
<1>2. Tail(q) \in Seq(S) /\ Len(Tail(q)) = Len(q) - 1 /\ \A i \in 1 .. Len(q) - 1 : Tail(q)[i] = q[i + 1]
  BY <1>1, HeadTailProperties
<1>3. DOMAIN Tail(q) = 1 .. Len(q) - 1
  BY <1>2, LenProperties
<1>4. QED
  BY <1>1, <1>2, <1>3, HeadTailProperties

\* A popped entry that changes nothing but what is reported as left out.
LEMMA PoppedKeeps ==
  ASSUME NEW g \in Graph, NEW w, WalkOK(g, w), w.at = {}, w.queue # <<>>, Root \in w.visited,
         NEW x, WalkShape(x), x.queue = Tail(w.queue), x.visited = w.visited, x.at = {},
         w.omitted \subseteq x.omitted,
         Head(w.queue).id \in w.visited \/ ~SeenNode(g, Head(w.queue).id) \/ ~NoneLeft(x)
  PROVE  WalkOK(g, x)
<1>1. PICK q \in Seq(Entry) : q = w.queue
  BY DEF WalkOK, WalkShape
<1>2. PICK r \in Seq(Entry) : r = x.queue
  BY DEF WalkShape
<1>3. /\ Head(q) = q[1] /\ 1 \in DOMAIN q
      /\ \A i \in DOMAIN r : i + 1 \in DOMAIN q /\ r[i] = q[i + 1]
      /\ \A i \in DOMAIN q : i = 1 \/ (i - 1 \in DOMAIN r /\ r[i - 1] = q[i])
  BY <1>1, <1>2, TailIs
<1>4. NoneLeft(x) => NoneLeft(w)
  BY DEF NoneLeft
<1>5. EntriesOK(g, x)
  BY <1>1, <1>2, <1>3 DEF WalkOK, EntriesOK
<1>6. InOrder(x)
  <2>1. \A i, j \in DOMAIN q : (i <= j => q[i].depth <= q[j].depth) /\ q[j].depth <= q[i].depth + 1
    BY <1>1 DEF WalkOK, InOrder
  <2>2. \A i \in DOMAIN r : i \in Nat
    BY EntryIs
  <2>3. \A i, j \in DOMAIN r : (i <= j => r[i].depth <= r[j].depth) /\ r[j].depth <= r[i].depth + 1
    BY <1>3, <2>1, <2>2
  <2>4. QED
    BY <1>2, <2>3 DEF InOrder
<1>7. RootFirst(x) /\ VisitedOK(g, x)
  BY DEF WalkOK, RootFirst, VisitedOK
<1>8. Expanded(g, x)
  <2> SUFFICES ASSUME NoneLeft(x), NEW m \in x.visited, NEW n \in GraphNodes, NEW d \in Nat,
                      d < g.depth, m \in Within(g, d), SeenNode(g, n), OpenEdge(g, m, n),
                      n \notin x.visited
               PROVE  Ahead(x, m, n, d)
    BY DEF Expanded, Ahead
  <2>1. Ahead(w, m, n, d)
    BY <1>4 DEF WalkOK, Expanded
  <2>2. PICK i \in DOMAIN q : q[i].id = n /\ q[i].depth <= d + 1
    BY <1>1, <2>1 DEF Ahead
  <2>3. i # 1
    BY <1>1, <1>3, <2>2
  <2>4. i - 1 \in DOMAIN r /\ r[i - 1] = q[i]
    BY <1>3, <2>3
  <2>5. QED
    BY <1>2, <2>2, <2>4 DEF Ahead
<1>9. DepthTold(g, x)
  BY <1>4 DEF WalkOK, DepthTold
<1>10. QED
  BY <1>5, <1>6, <1>7, <1>8, <1>9 DEF WalkOK

\* The edge to a neighbour is among the node's edges.
LEMMA OpenIsIncident ==
  ASSUME NEW g, NEW m, NEW n, OpenEdge(g, m, n)
  PROVE  {m, n} \in EdgesAt(g, m)
BY DEF OpenEdge, EdgesAt

\* A popped node that is visited, and the first look at its edges.
LEMMA VisitedKeeps ==
  ASSUME NEW g \in Graph, NEW w, WalkOK(g, w), w.at = {}, w.queue # <<>>,
         NEW e, e = Head(w.queue), SeenNode(g, e.id), e.id \notin w.visited,
         Cardinality(w.visited) < g.size,
         NEW x, WalkShape(x), x.queue = Tail(w.queue), x.visited = w.visited \cup {e.id},
         w.omitted \subseteq x.omitted,
         \/ e.depth < g.depth /\ x.left = EdgesAt(g, e.id) /\ x.at = IF x.left = {} THEN {} ELSE {e}
         \/ e.depth >= g.depth /\ x.at = {} /\ (EdgesAt(g, e.id) = {} \/ "max_depth" \in x.omitted)
  PROVE  WalkOK(g, x)
<1>0. g.depth \in Nat /\ g.size \in Nat /\ Root \in GraphNodes
  BY WalkAssumption DEF Graph
<1>1. PICK q \in Seq(Entry) : q = w.queue
  BY DEF WalkOK, WalkShape
<1>2. PICK r \in Seq(Entry) : r = x.queue
  BY DEF WalkShape
<1>3. /\ e = q[1] /\ 1 \in DOMAIN q
      /\ \A i \in DOMAIN r : i + 1 \in DOMAIN q /\ r[i] = q[i + 1]
      /\ \A i \in DOMAIN q : i = 1 \/ (i - 1 \in DOMAIN r /\ r[i - 1] = q[i])
  BY <1>1, <1>2, TailIs
<1>4. NoneLeft(x) => NoneLeft(w)
  BY DEF NoneLeft
<1>5. e \in Entry /\ e.id \in GraphNodes /\ e.depth \in Nat
  BY <1>1, <1>3, EntryIs
<1>6. e.depth <= g.depth /\ e.id \in Within(g, e.depth)
  BY <1>1, <1>3 DEF WalkOK, EntriesOK
<1>7. \A i, j \in DOMAIN q : (i <= j => q[i].depth <= q[j].depth) /\ q[j].depth <= q[i].depth + 1
  BY <1>1 DEF WalkOK, InOrder
<1>8. ASSUME NoneLeft(x), NEW d \in Nat, d < e.depth, e.id \in Within(g, d) PROVE FALSE
  <2>1. d <= g.depth
    BY <1>0, <1>5, <1>6, <1>8
  <2>2. PICK i \in DOMAIN q : q[i].depth <= d
    BY <1>1, <1>4, <1>8, <2>1, Frontier
  <2>3. q[1].depth <= q[i].depth /\ q[i].depth \in Nat
    BY <1>3, <1>7, EntryIs
  <2>4. QED
    BY <1>3, <1>5, <1>8, <2>2, <2>3
<1>9. \A h \in x.at : h = e /\ e.depth < g.depth /\ x.left = EdgesAt(g, e.id)
  OBVIOUS
<1>10. EntriesOK(g, x)
  <2>1. \A i \in DOMAIN r : r[i].depth <= g.depth /\ (SeenNode(g, r[i].id) => r[i].id \in Within(g, r[i].depth))
    <3>1. \A i \in DOMAIN q : q[i].depth <= g.depth /\ (SeenNode(g, q[i].id) => q[i].id \in Within(g, q[i].depth))
      BY <1>1 DEF WalkOK, EntriesOK
    <3>2. QED
      BY <1>3, <3>1
  <2>2. \A h \in x.at : x.left \subseteq EdgesAt(g, h.id)
    BY <1>9
  <2>3. \A h \in x.at : NoneLeft(x) => Nearest(g, h.id, h.depth)
    BY <1>8, <1>9 DEF Nearest
  <2>4. QED
    BY <1>2, <1>6, <1>9, <2>1, <2>2, <2>3 DEF EntriesOK
<1>11. InOrder(x)
  <2>1. \A i \in DOMAIN r : i \in Nat
    BY EntryIs
  <2>2. \A i, j \in DOMAIN r : (i <= j => r[i].depth <= r[j].depth) /\ r[j].depth <= r[i].depth + 1
    BY <1>3, <1>7, <2>1
  <2>3. \A i \in DOMAIN q : i \in Nat /\ i # 0
    OBVIOUS
  <2>4. \A i \in DOMAIN r : e.depth <= r[i].depth /\ r[i].depth <= e.depth + 1
    BY <1>3, <1>7, <2>3
  <2>5. QED
    BY <1>2, <1>9, <2>2, <2>4 DEF InOrder
<1>12. RootFirst(x)
  <2>1. CASE Root \in w.visited
    BY <2>1 DEF RootFirst
  <2>2. CASE w.queue = <<[id |-> Root, depth |-> 0]>>
    BY <2>2 DEF RootFirst
  <2>3. QED
    BY <2>1, <2>2 DEF WalkOK, RootFirst
<1>13. VisitedOK(g, x)
  <2>1. e.id \in Within(g, g.depth)
    BY <1>0, <1>5, <1>6, WithinGrows
  <2>2. IsFiniteSet(w.visited)
    BY DEF WalkOK, WalkShape
  <2>3. Cardinality(x.visited) = Cardinality(w.visited) + 1 /\ Cardinality(w.visited) \in Nat
    BY <2>2, FS_AddElement, FS_CardinalityType
  <2>4. QED
    BY <1>0, <2>1, <2>3 DEF WalkOK, VisitedOK
<1>14. Expanded(g, x)
  <2> SUFFICES ASSUME NoneLeft(x), NEW m \in x.visited, NEW n \in GraphNodes, NEW d \in Nat,
                      d < g.depth, m \in Within(g, d), SeenNode(g, n), OpenEdge(g, m, n),
                      n \notin x.visited
               PROVE  Ahead(x, m, n, d)
    BY DEF Expanded, Ahead
  <2>1. CASE m \in w.visited
    <3>1. Ahead(w, m, n, d)
      BY <1>4, <2>1 DEF WalkOK, Expanded
    <3>2. PICK i \in DOMAIN q : q[i].id = n /\ q[i].depth <= d + 1
      BY <1>1, <3>1 DEF Ahead
    <3>3. i # 1
      BY <1>3, <3>2
    <3>4. i - 1 \in DOMAIN r /\ r[i - 1] = q[i]
      BY <1>3, <3>3
    <3>5. QED
      BY <1>2, <3>2, <3>4 DEF Ahead
  <2>2. CASE m = e.id
    <3>1. {m, n} \in EdgesAt(g, e.id)
      BY <2>2, OpenIsIncident
    <3>2. e.depth < g.depth
      BY <1>0, <1>5, <1>8, <2>2
    <3>3. x.at = {e} /\ {m, n} \in x.left
      BY <3>1, <3>2, <1>0, <1>5
    <3>4. QED
      BY <2>2, <3>3 DEF Ahead
  <2>3. QED
    BY <2>1, <2>2
<1>15. DepthTold(g, x)
  <2> SUFFICES ASSUME NoneLeft(x), NEW m \in x.visited
               PROVE  \/ \A n \in GraphNodes : ~OpenEdge(g, m, n)
                      \/ "max_depth" \in x.omitted
                      \/ \E d \in Nat : d < g.depth /\ m \in Within(g, d)
    BY DEF DepthTold
  <2>1. CASE m \in w.visited
    BY <1>4, <2>1 DEF WalkOK, DepthTold
  <2>2. CASE m = e.id
    BY <1>5, <1>6, <2>2, OpenIsIncident
  <2>3. QED
    BY <2>1, <2>2
<1>16. QED
  BY <1>10, <1>11, <1>12, <1>13, <1>14, <1>15 DEF WalkOK

\* One edge followed, and the node at its other end queued or not.
LEMMA FollowedKeeps ==
  ASSUME NEW g \in Graph, NEW w, WalkOK(g, w), NEW h \in w.at, NEW n \in GraphNodes,
         NEW p \in w.left, p = {h.id, n},
         NEW x, WalkShape(x), x.visited = w.visited, x.left = w.left \ {p}, x.at \subseteq w.at,
         w.omitted \subseteq x.omitted,
         \/ x.queue = w.queue /\ (~OpenEdge(g, h.id, n) \/ n \in w.visited \/ ~NoneLeft(x))
         \/ OpenEdge(g, h.id, n) /\ x.queue = Append(w.queue, [id |-> n, depth |-> h.depth + 1])
  PROVE  WalkOK(g, x)
<1>0. g.depth \in Nat /\ Root \in GraphNodes
  BY WalkAssumption DEF Graph
<1>1. PICK q \in Seq(Entry) : q = w.queue
  BY DEF WalkOK, WalkShape
<1>2. PICK r \in Seq(Entry) : r = x.queue
  BY DEF WalkShape
<1>3. NoneLeft(x) => NoneLeft(w)
  BY DEF NoneLeft
<1>4. w.at = {h} /\ h \in Entry /\ h.id \in GraphNodes /\ h.depth \in Nat
  BY DEF WalkOK, WalkShape, Entry
<1>5. /\ h.depth < g.depth /\ h.id \in w.visited /\ h.id \in Within(g, h.depth)
      /\ w.left \subseteq EdgesAt(g, h.id) /\ (NoneLeft(w) => Nearest(g, h.id, h.depth))
  BY DEF WalkOK, EntriesOK
<1>6. \A i \in DOMAIN q : i \in DOMAIN r /\ r[i] = q[i]
  <2>1. CASE r = q
    BY <2>1
  <2>2. CASE r = Append(q, [id |-> n, depth |-> h.depth + 1])
    <3>1. [id |-> n, depth |-> h.depth + 1] \in Entry
      BY <1>4 DEF Entry
    <3>2. /\ Len(r) = Len(q) + 1 /\ \A i \in 1 .. Len(q) : r[i] = q[i]
          /\ DOMAIN r = 1 .. Len(r) /\ DOMAIN q = 1 .. Len(q) /\ Len(q) \in Nat
      BY <2>2, <3>1, AppendProperties, LenProperties
    <3>3. QED
      BY <3>2
  <2>3. QED
    BY <1>1, <1>2, <2>1, <2>2
<1>7. ASSUME NEW i \in DOMAIN r, i \notin DOMAIN q
      PROVE  /\ OpenEdge(g, h.id, n) /\ r[i] = [id |-> n, depth |-> h.depth + 1]
             /\ \A j \in DOMAIN r : j = i \/ j \in DOMAIN q
             /\ \A j \in DOMAIN q : j < i
  <2>1. OpenEdge(g, h.id, n) /\ r = Append(q, [id |-> n, depth |-> h.depth + 1])
    BY <1>1, <1>2, <1>7
  <2>2. [id |-> n, depth |-> h.depth + 1] \in Entry
    BY <1>4 DEF Entry
  <2>3. /\ Len(r) = Len(q) + 1 /\ r[Len(q) + 1] = [id |-> n, depth |-> h.depth + 1]
        /\ DOMAIN r = 1 .. Len(r) /\ DOMAIN q = 1 .. Len(q) /\ Len(q) \in Nat
    BY <2>1, <2>2, AppendProperties, LenProperties
  <2>4. QED
    BY <1>7, <2>1, <2>3
<1>8. \A i, j \in DOMAIN q : (i <= j => q[i].depth <= q[j].depth) /\ q[j].depth <= q[i].depth + 1
  BY <1>1 DEF WalkOK, InOrder
<1>9. \A i \in DOMAIN q : h.depth <= q[i].depth /\ q[i].depth <= h.depth + 1 /\ q[i].depth \in Nat /\ i \in Nat
  BY <1>1, EntryIs DEF WalkOK, InOrder
<1>10. EntriesOK(g, x)
  <2>1. ASSUME NEW i \in DOMAIN r
        PROVE  r[i].depth <= g.depth /\ (SeenNode(g, r[i].id) => r[i].id \in Within(g, r[i].depth))
    <3>1. CASE i \in DOMAIN q
      BY <1>1, <1>6, <3>1 DEF WalkOK, EntriesOK
    <3>2. CASE i \notin DOMAIN q
      BY <1>0, <1>4, <1>5, <1>7, <3>2, WithinGrows
    <3>3. QED
      BY <3>1, <3>2
  <2>2. QED
    BY <1>2, <1>3, <1>4, <1>5, <2>1 DEF EntriesOK
<1>11. InOrder(x)
  <2>1. ASSUME NEW i \in DOMAIN r, NEW j \in DOMAIN r
        PROVE  (i <= j => r[i].depth <= r[j].depth) /\ r[j].depth <= r[i].depth + 1
    <3>1. CASE i \in DOMAIN q /\ j \in DOMAIN q
      BY <1>6, <1>8, <3>1
    <3>2. CASE i \notin DOMAIN q /\ j \in DOMAIN q
      <4>1. j < i /\ r[i].depth = h.depth + 1 /\ r[j] = q[j] /\ i \in Nat /\ j \in Nat
        BY <1>6, <1>7, <1>9, <3>2, EntryIs
      <4>2. QED
        BY <1>4, <1>9, <3>2, <4>1
    <3>3. CASE i \in DOMAIN q /\ j \notin DOMAIN q
      BY <1>4, <1>6, <1>7, <1>9, <3>3
    <3>4. CASE i \notin DOMAIN q /\ j \notin DOMAIN q
      BY <1>4, <1>7, <3>4
    <3>5. QED
      BY <3>1, <3>2, <3>3, <3>4
  <2>2. ASSUME NEW i \in DOMAIN r PROVE h.depth <= r[i].depth /\ r[i].depth <= h.depth + 1
    BY <1>4, <1>6, <1>7, <1>9
  <2>3. QED
    BY <1>2, <1>4, <2>1, <2>2 DEF InOrder
<1>12. RootFirst(x)
  BY DEF WalkOK, RootFirst
<1>13. VisitedOK(g, x)
  BY DEF WalkOK, VisitedOK
<1>14. Expanded(g, x)
  <2> SUFFICES ASSUME NoneLeft(x), NEW m \in x.visited, NEW y \in GraphNodes, NEW d \in Nat,
                      d < g.depth, m \in Within(g, d), SeenNode(g, y), OpenEdge(g, m, y),
                      y \notin x.visited
               PROVE  Ahead(x, m, y, d)
    BY DEF Expanded, Ahead
  <2>1. Ahead(w, m, y, d)
    BY <1>3 DEF WalkOK, Expanded
  <2>2. CASE \E i \in DOMAIN q : q[i].id = y /\ q[i].depth <= d + 1
    BY <1>2, <1>6, <2>2 DEF Ahead
  <2>3. CASE h.id = m /\ {m, y} \in w.left /\ {m, y} # p
    <3>1. x.left # {} /\ x.at = {h}
      BY <1>4, <2>3 DEF WalkShape
    <3>2. QED
      BY <2>3, <3>1 DEF Ahead
  <2>4. CASE h.id = m /\ {m, y} = p
    <3>1. y = n \/ (y = h.id)
      BY <2>4
    <3>2. y = n
      BY <3>1, <1>5
    <3>3. r = Append(q, [id |-> n, depth |-> h.depth + 1])
      BY <1>1, <1>2, <2>4, <3>2
    <3>4. [id |-> n, depth |-> h.depth + 1] \in Entry
      BY <1>4 DEF Entry
    <3>5. PICK i : i = Len(q) + 1
      OBVIOUS
    <3>6. i \in DOMAIN r /\ r[i] = [id |-> n, depth |-> h.depth + 1]
      BY <3>3, <3>4, <3>5, AppendProperties, LenProperties
    <3>7. ~(d < h.depth)
      BY <1>3, <1>5, <2>4 DEF Nearest
    <3>8. r[i].id = y /\ r[i].depth <= d + 1
      BY <1>4, <3>2, <3>6, <3>7
    <3>9. QED
      BY <1>2, <3>6, <3>8 DEF Ahead
  <2>5. QED
    BY <1>1, <1>4, <2>1, <2>2, <2>3, <2>4 DEF Ahead
<1>15. DepthTold(g, x)
  BY <1>3 DEF WalkOK, DepthTold
<1>16. QED
  BY <1>10, <1>11, <1>12, <1>13, <1>14, <1>15 DEF WalkOK

\* No walk is asked for at first.
LEMMA WalkInvInit == WalkInit => WalkInv
BY DEF WalkInit, WalkInv

\* A walk starts with its root in the queue.
LEMMA AskKeeps == ASSUME Ask PROVE WalkInv'
<1>1. PICK g \in Graph : graph' = {g}
  BY DEF Ask
<1>2. PICK e : e = [id |-> Root, depth |-> 0]
  OBVIOUS
<1>3. PICK x : x = walk'
  OBVIOUS
<1>4. x = [queue |-> <<e>>, visited |-> {}, at |-> {}, left |-> {}, omitted |-> {}, over |-> FALSE]
  BY <1>2, <1>3 DEF Ask, Unasked
<1>5. e \in Entry /\ g.depth \in Nat /\ g.size \in Nat /\ Root \in GraphNodes
  BY <1>2, WalkAssumption DEF Entry, Graph
<1>6. <<e>> \in Seq(Entry) /\ \A i \in DOMAIN <<e>> : i = 1 /\ <<e>>[i] = e
  BY <1>5
<1>7. WalkShape(x)
  BY <1>4, <1>6, FS_EmptySet DEF WalkShape
<1>8. EntriesOK(g, x) /\ InOrder(x)
  BY <1>2, <1>4, <1>5, <1>6, RootWithin DEF EntriesOK, InOrder
<1>9. RootFirst(x) /\ VisitedOK(g, x) /\ Expanded(g, x) /\ DepthTold(g, x)
  BY <1>2, <1>4, <1>5, FS_EmptySet DEF RootFirst, VisitedOK, Expanded, DepthTold
<1>10. QED
  BY <1>1, <1>3, <1>7, <1>8, <1>9 DEF WalkInv, WalkOK

\* The operators of the walk are those of the graph it was asked for.
LEMMA GraphIs ==
  ASSUME NEW g \in Graph, graph = {g}
  PROVE  /\ Asked = g
         /\ \A n \in GraphNodes : NodeState(n) \in {"seen", "foreign", "missing"}
                                  /\ (NodeState(n) = "seen" <=> SeenNode(g, n))
         /\ \A n : Incident(n) = EdgesAt(g, n)
<1>1. Asked = g
  BY DEF Asked
<1>2. QED
  BY <1>1 DEF NodeState, SeenNode, Incident, EdgesAt, Graph

\* The node at the other end of an edge.
LEMMA PairIs ==
  ASSUME NEW p \in Pairs, NEW m \in p
  PROVE  Across(m, p) \in GraphNodes /\ p = {m, Across(m, p)}
<1>1. PICK a \in GraphNodes, b \in GraphNodes : a # b /\ p = {a, b}
  BY WalkAssumption
<1>2. PICK n \in GraphNodes : n # m /\ p = {m, n}
  BY <1>1
<1>3. \A o \in p : o # m <=> o = n
  BY <1>2
<1>4. Across(m, p) = n
  BY <1>2, <1>3 DEF Across
<1>5. QED
  BY <1>2, <1>4

\* The walk's variables, and what follows for them from their values.
WalkOf(q, v, a, l, o, b) ==
  [queue |-> q, visited |-> v, at |-> a, left |-> l, omitted |-> o, over |-> b]

LEMMA ShapeIs ==
  ASSUME NEW q \in Seq(Entry), NEW v, v \subseteq GraphNodes, IsFiniteSet(v), NEW a, NEW l, NEW o,
         NEW b \in BOOLEAN, l \subseteq Pairs, l = {} <=> a = {}, a # {} => \E h \in Entry : a = {h},
         b => q = <<>> /\ a = {}, NEW x, x = WalkOf(q, v, a, l, o, b)
  PROVE  WalkShape(x)
<1>1. x.queue = q /\ x.visited = v /\ x.at = a /\ x.left = l /\ x.omitted = o /\ x.over = b
  BY DEF WalkOf
<1>2. x = [queue |-> x.queue, visited |-> x.visited, at |-> x.at, left |-> x.left,
           omitted |-> x.omitted, over |-> x.over]
  BY <1>1 DEF WalkOf
<1> HIDE DEF WalkOf
<1>3. QED
  BY <1>1, <1>2 DEF WalkShape

LEMMA FieldsOf ==
  ASSUME NEW q, NEW v, NEW a, NEW l, NEW o, NEW b
  PROVE  /\ WalkOf(q, v, a, l, o, b).queue = q /\ WalkOf(q, v, a, l, o, b).visited = v
         /\ WalkOf(q, v, a, l, o, b).at = a /\ WalkOf(q, v, a, l, o, b).left = l
         /\ WalkOf(q, v, a, l, o, b).omitted = o /\ WalkOf(q, v, a, l, o, b).over = b
BY DEF WalkOf

\* One turn of the outer loop.
LEMMA PopKeeps == ASSUME NEW g \in Graph, graph = {g}, WalkOK(g, walk), Pop PROVE WalkOK(g, walk')
<1>1. PICK w : w = walk
  OBVIOUS
<1>2. PICK x : x = walk'
  OBVIOUS
<1>3. PICK e : e = Head(w.queue)
  OBVIOUS
<1>4. WalkOK(g, w) /\ WalkShape(w) /\ w.at = {} /\ w.left = {} /\ w.queue # <<>> /\ ~w.over
  BY <1>1 DEF Pop, WalkOK, WalkShape
<1>5. PICK q \in Seq(Entry) : q = w.queue /\ q # <<>>
  BY <1>4 DEF WalkShape
<1>6. Tail(q) \in Seq(Entry) /\ e \in Entry /\ e = q[1] /\ 1 \in DOMAIN q
  BY <1>3, <1>5, TailIs
<1>7. e.id \in GraphNodes /\ e.depth \in Nat /\ g.depth \in Nat /\ g.size \in Nat \ {0}
  BY <1>6, WalkAssumption DEF Entry, Graph
<1>8. IsFiniteSet(w.visited) /\ Cardinality(w.visited) \in Nat /\ w.visited \subseteq GraphNodes
  BY <1>4, FS_CardinalityType DEF WalkShape
<1>9. /\ Asked = g /\ NodeState(e.id) \in {"seen", "foreign", "missing"}
      /\ NodeState(e.id) = "seen" <=> SeenNode(g, e.id)
      /\ Incident(e.id) = EdgesAt(g, e.id)
  BY <1>7, GraphIs
<1>10. NextEntry = e /\ Rest = [w EXCEPT !.queue = Tail(@)]
  BY <1>1, <1>3 DEF NextEntry, Rest
<1>11. w = [queue |-> w.queue, visited |-> w.visited, at |-> w.at, left |-> w.left,
            omitted |-> w.omitted, over |-> w.over]
  BY <1>4 DEF WalkShape
<1>12. Root \notin w.visited => e.id = Root /\ w.visited = {}
  BY <1>3, <1>4 DEF WalkOK, RootFirst
<1>13. PICK rest : rest = Rest
  OBVIOUS
<1>14. rest = WalkOf(Tail(q), w.visited, {}, {}, w.omitted, FALSE)
  <2>1. w.over = FALSE
    BY <1>4 DEF WalkShape
  <2>2. QED
    BY <1>4, <1>5, <1>10, <1>11, <1>13, <2>1 DEF WalkOf
<1>15. PICK z, v, o, no : z = Tail(q) /\ v = w.visited /\ o = w.omitted /\ no = FALSE
  OBVIOUS
<1>16. PICK told, at, left, seen :
         /\ told = o \cup (IF EdgesAt(g, e.id) = {} THEN {} ELSE {"max_depth"})
         /\ left = EdgesAt(g, e.id) /\ at = (IF left = {} THEN {} ELSE {e})
         /\ seen = v \cup {e.id}
  OBVIOUS
<1>17. rest = WalkOf(z, v, {}, {}, o, no)
  BY <1>14, <1>15
<1>18. rest.visited = v /\ rest.omitted = o
  BY <1>17, FieldsOf
<1>19. \/ e.id \in v /\ x = rest
       \/ Cardinality(v) >= g.size /\ x = [rest EXCEPT !.omitted = @ \cup {"max_nodes"}]
       \/ ~SeenNode(g, e.id) /\ (x = rest \/ x = [rest EXCEPT !.omitted = @ \cup {"trust_zone"}])
       \/ /\ SeenNode(g, e.id) /\ e.id \notin v /\ ~(Cardinality(v) >= g.size)
          /\ \/ /\ e.depth >= g.depth
                /\ x = [rest EXCEPT !.visited = @ \cup {e.id},
                          !.omitted = @ \cup (IF EdgesAt(g, e.id) = {} THEN {} ELSE {"max_depth"})]
             \/ /\ ~(e.depth >= g.depth)
                /\ x = [rest EXCEPT !.visited = @ \cup {e.id}, !.left = EdgesAt(g, e.id),
                          !.at = IF EdgesAt(g, e.id) = {} THEN {} ELSE {e}]
  BY <1>1, <1>2, <1>9, <1>10, <1>13, <1>15 DEF Pop, Walks
<1>20. \/ e.id \in v /\ x = rest
       \/ Cardinality(v) >= g.size /\ x = [rest EXCEPT !.omitted = o \cup {"max_nodes"}]
       \/ ~SeenNode(g, e.id) /\ (x = rest \/ x = [rest EXCEPT !.omitted = o \cup {"trust_zone"}])
       \/ /\ SeenNode(g, e.id) /\ e.id \notin v /\ ~(Cardinality(v) >= g.size)
          /\ \/ e.depth >= g.depth /\ x = [rest EXCEPT !.visited = seen, !.omitted = told]
             \/ ~(e.depth >= g.depth) /\ x = [rest EXCEPT !.visited = seen, !.left = left, !.at = at]
  BY <1>16, <1>18, <1>19, Zenon
<1>21. /\ [rest EXCEPT !.omitted = o \cup {"max_nodes"}] = WalkOf(z, v, {}, {}, o \cup {"max_nodes"}, no)
       /\ [rest EXCEPT !.omitted = o \cup {"trust_zone"}] = WalkOf(z, v, {}, {}, o \cup {"trust_zone"}, no)
  <2>1. ASSUME NEW more PROVE [rest EXCEPT !.omitted = more] = WalkOf(z, v, {}, {}, more, no)
    <3>1. PICK none : none = {}
      OBVIOUS
    <3>2. rest = WalkOf(z, v, none, none, o, no)
      BY <1>17, <3>1
    <3>3. [rest EXCEPT !.omitted = more] = WalkOf(z, v, none, none, more, no)
      BY <3>2 DEF WalkOf
    <3>4. QED
      BY <3>1, <3>3
  <2>2. QED
    BY <2>1, Zenon
<1>22. [rest EXCEPT !.visited = seen, !.omitted = told] = WalkOf(z, seen, {}, {}, told, no)
  <2>1. PICK y : y = [rest EXCEPT !.visited = seen]
    OBVIOUS
  <2>2. y = WalkOf(z, seen, {}, {}, o, no)
    BY <1>17, <2>1 DEF WalkOf
  <2>3. [y EXCEPT !.omitted = told] = WalkOf(z, seen, {}, {}, told, no)
    <3>1. PICK none : none = {}
      OBVIOUS
    <3>2. y = WalkOf(z, seen, none, none, o, no)
      BY <2>2, <3>1
    <3>3. [y EXCEPT !.omitted = told] = WalkOf(z, seen, none, none, told, no)
      BY <3>2 DEF WalkOf
    <3>4. QED
      BY <3>1, <3>3
  <2>4. [rest EXCEPT !.visited = seen, !.omitted = told] = [y EXCEPT !.omitted = told]
    BY <2>1
  <2>5. QED
    BY <2>3, <2>4
<1>23. [rest EXCEPT !.visited = seen, !.left = left, !.at = at] = WalkOf(z, seen, at, left, o, no)
  <2>1. PICK y : y = [rest EXCEPT !.visited = seen]
    OBVIOUS
  <2>2. y = WalkOf(z, seen, {}, {}, o, no)
    BY <1>17, <2>1 DEF WalkOf
  <2>3. PICK u : u = [y EXCEPT !.left = left]
    OBVIOUS
  <2>4. u = WalkOf(z, seen, {}, left, o, no)
    BY <2>2, <2>3 DEF WalkOf
  <2>5. [u EXCEPT !.at = at] = WalkOf(z, seen, at, left, o, no)
    BY <2>4 DEF WalkOf
  <2>6. [rest EXCEPT !.visited = seen, !.left = left, !.at = at] = [u EXCEPT !.at = at]
    BY <2>1, <2>3
  <2>7. QED
    BY <2>5, <2>6
<1>24. \/ e.id \in v /\ x = WalkOf(z, v, {}, {}, o, no)
       \/ Cardinality(v) >= g.size /\ x = WalkOf(z, v, {}, {}, o \cup {"max_nodes"}, no)
       \/ /\ ~SeenNode(g, e.id)
          /\ \/ x = WalkOf(z, v, {}, {}, o, no)
             \/ x = WalkOf(z, v, {}, {}, o \cup {"trust_zone"}, no)
       \/ /\ SeenNode(g, e.id) /\ e.id \notin v /\ ~(Cardinality(v) >= g.size)
          /\ \/ e.depth >= g.depth /\ x = WalkOf(z, seen, {}, {}, told, no)
             \/ ~(e.depth >= g.depth) /\ x = WalkOf(z, seen, at, left, o, no)
  BY <1>17, <1>20, <1>21, <1>22, <1>23, Zenon
<1>25. z \in Seq(Entry) /\ v \subseteq GraphNodes /\ IsFiniteSet(v) /\ Cardinality(v) \in Nat
  BY <1>6, <1>8, <1>15
<1>26. CASE ~(SeenNode(g, e.id) /\ e.id \notin v /\ ~(Cardinality(v) >= g.size))
  <2>1. PICK more : /\ x = WalkOf(z, v, {}, {}, more, no) /\ o \subseteq more
                    /\ \/ e.id \in v \/ ~SeenNode(g, e.id)
                       \/ Cardinality(v) >= g.size /\ "max_nodes" \in more
    BY <1>24, <1>26
  <2>2. WalkShape(x)
    BY <1>15, <1>25, <2>1, ShapeIs
  <2>3. x.queue = z /\ x.visited = v /\ x.at = {} /\ x.omitted = more
    BY <2>1, FieldsOf
  <2>4. Root \in v
    <3>1. CASE v = {}
      <4>1. Cardinality(v) = 0
        BY <3>1, FS_EmptySet
      <4>2. g.size > 0 /\ e.id \notin v
        BY <1>7, <3>1
      <4>3. e.id = Root
        BY <1>12, <1>15, <3>1
      <4>4. QED
        BY <1>7, <1>26, <4>1, <4>2, <4>3 DEF SeenNode
    <3>2. QED
      BY <1>12, <1>15, <3>1
  <2>5. Head(w.queue).id \in w.visited \/ ~SeenNode(g, Head(w.queue).id) \/ ~NoneLeft(x)
    BY <1>3, <1>15, <2>1, <2>3 DEF NoneLeft
  <2>6. x.queue = Tail(w.queue) /\ x.visited = w.visited /\ w.omitted \subseteq x.omitted /\ Root \in w.visited
    BY <1>5, <1>15, <2>1, <2>3, <2>4
  <2>7. QED
    BY <1>2, <1>4, <2>2, <2>3, <2>5, <2>6, PoppedKeeps
<1>27. CASE SeenNode(g, e.id) /\ e.id \notin v /\ ~(Cardinality(v) >= g.size)
  <2>1. ~(e.depth >= g.depth) => e.depth < g.depth
    BY <1>7
  <2>2. PICK a, l, more :
          /\ x = WalkOf(z, seen, a, l, more, no) /\ o \subseteq more
          /\ \/ e.depth < g.depth /\ l = left /\ a = at
             \/ e.depth >= g.depth /\ l = {} /\ a = {} /\ told = more
    <3>1. o \subseteq told /\ o \subseteq o
      BY <1>16
    <3>2. QED
      BY <1>24, <1>27, <2>1, <3>1, Zenon
  <2>3. l \subseteq Pairs /\ (l = {} <=> a = {}) /\ (a # {} => a = {e})
    BY <1>16, <2>2 DEF EdgesAt
  <2>4. IsFiniteSet(seen) /\ seen \subseteq GraphNodes
    BY <1>7, <1>16, <1>25, FS_AddElement
  <2>5. WalkShape(x)
    BY <1>6, <1>15, <1>25, <2>2, <2>3, <2>4, ShapeIs
  <2>6. Cardinality(w.visited) < g.size /\ e.id \notin w.visited
    BY <1>7, <1>15, <1>25, <1>27
  <2>7. x.queue = z /\ x.visited = seen /\ x.at = a /\ x.left = l /\ x.omitted = more
    BY <2>2, FieldsOf
  <2>8. \/ e.depth < g.depth /\ x.left = EdgesAt(g, e.id) /\ x.at = IF x.left = {} THEN {} ELSE {e}
        \/ e.depth >= g.depth /\ x.at = {} /\ (EdgesAt(g, e.id) = {} \/ "max_depth" \in x.omitted)
    BY <1>16, <2>2, <2>7
  <2>9. w.omitted \subseteq x.omitted /\ x.queue = Tail(w.queue) /\ x.visited = w.visited \cup {e.id}
    BY <1>5, <1>15, <1>16, <2>2, <2>7
  <2>10. QED
    BY <1>2, <1>3, <1>4, <1>27, <2>5, <2>6, <2>8, <2>9, VisitedKeeps
<1>28. QED
  BY <1>26, <1>27

\* One turn of the inner loop.
LEMMA FollowKeeps ==
  ASSUME NEW g \in Graph, graph = {g}, WalkOK(g, walk), NEW p \in Pairs, Follow(p)
  PROVE  WalkOK(g, walk')
<1>1. PICK w : w = walk
  OBVIOUS
<1>2. PICK x : x = walk'
  OBVIOUS
<1>3. WalkOK(g, w) /\ WalkShape(w) /\ p \in w.left
  BY <1>1 DEF Follow, WalkOK
<1>4. PICK h \in Entry : w.at = {h}
  BY <1>3 DEF WalkShape
<1>5. ~w.over /\ h.id \in GraphNodes /\ h.depth \in Nat
  BY <1>3, <1>4 DEF WalkShape, Entry
<1>6. p \in EdgesAt(g, h.id)
  BY <1>3, <1>4 DEF WalkOK, EntriesOK
<1>7. PICK n \in GraphNodes : n = Across(h.id, p) /\ p = {h.id, n}
  BY <1>6, PairIs DEF EdgesAt
<1>8. Asked = g
  BY GraphIs
<1>9. (CHOOSE e \in walk.at : TRUE) = h
  BY <1>1, <1>4
<1>10. OpenEdge(g, h.id, n) <=> g.edges[p] # "closed"
  BY <1>6, <1>7 DEF OpenEdge, EdgesAt, Graph
<1>11. w = [queue |-> w.queue, visited |-> w.visited, at |-> w.at, left |-> w.left,
            omitted |-> w.omitted, over |-> w.over]
  BY <1>3 DEF WalkShape
<1>12. PICK on : on = [walk EXCEPT !.left = @ \ {p}, !.at = IF walk.left = {p} THEN {} ELSE @]
  OBVIOUS
<1>13. PICK a : a = IF w.left = {p} THEN {} ELSE w.at
  OBVIOUS
<1>14. on = WalkOf(w.queue, w.visited, a, w.left \ {p}, w.omitted, w.over)
  BY <1>1, <1>11, <1>12, <1>13 DEF WalkOf
<1>15. PICK more, l, v : /\ more = Append(w.queue, [id |-> n, depth |-> h.depth + 1])
                         /\ l = w.left \ {p} /\ v = w.visited
  OBVIOUS
<1>16. Queued([id |-> Across(h.id, p), depth |-> h.depth + 1]) = more
  BY <1>1, <1>7, <1>15 DEF Queued
<1>17. on = WalkOf(w.queue, v, a, l, w.omitted, w.over)
  BY <1>14, <1>15
<1>18. on.omitted = w.omitted
  BY <1>17, FieldsOf
<1>19. PICK q, o :
         /\ x = WalkOf(q, v, a, l, o, w.over) /\ w.omitted \subseteq o
         /\ \/ q = w.queue /\ (~OpenEdge(g, h.id, n) \/ n \in w.visited \/ "max_nodes" \in o)
            \/ OpenEdge(g, h.id, n) /\ q = more
  <2>1. \/ g.edges[p] = "closed" /\ x = [on EXCEPT !.omitted = @ \cup {"closed"}]
        \/ n \in w.visited /\ x = on
        \/ x = [on EXCEPT !.omitted = @ \cup {"max_nodes"}]
        \/ g.edges[p] # "closed" /\ x = [on EXCEPT !.queue = more]
    <3>1. CASE g.edges[p] = "closed"
      BY <1>1, <1>2, <1>8, <1>12, <3>1 DEF Follow, Walks
    <3>2. CASE g.edges[p] # "closed" /\ n \in w.visited
      BY <1>1, <1>2, <1>7, <1>8, <1>9, <1>12, <3>2 DEF Follow, Walks
    <3>3. CASE g.edges[p] # "closed" /\ n \notin w.visited
      BY <1>1, <1>2, <1>7, <1>8, <1>9, <1>12, <1>16, <3>3 DEF Follow, Walks
    <3>4. QED
      BY <3>1, <3>2, <3>3
  <2>2. CASE g.edges[p] = "closed" /\ x = [on EXCEPT !.omitted = @ \cup {"closed"}]
    <3>1. x = [on EXCEPT !.omitted = w.omitted \cup {"closed"}]
      BY <1>18, <2>2, Zenon
    <3>2. x = WalkOf(w.queue, v, a, l, w.omitted \cup {"closed"}, w.over)
      BY <1>17, <3>1 DEF WalkOf
    <3>3. w.omitted \subseteq w.omitted \cup {"closed"}
      OBVIOUS
    <3>4. QED
      BY <1>10, <2>2, <3>2, <3>3, Zenon
  <2>3. CASE n \in w.visited /\ x = on
    BY <1>17, <2>3, Zenon
  <2>4. CASE x = [on EXCEPT !.omitted = @ \cup {"max_nodes"}]
    <3>1. x = [on EXCEPT !.omitted = w.omitted \cup {"max_nodes"}]
      BY <1>18, <2>4, Zenon
    <3>2. x = WalkOf(w.queue, v, a, l, w.omitted \cup {"max_nodes"}, w.over)
      BY <1>17, <3>1 DEF WalkOf
    <3>3. w.omitted \subseteq w.omitted \cup {"max_nodes"} /\ "max_nodes" \in w.omitted \cup {"max_nodes"}
      OBVIOUS
    <3>4. QED
      BY <3>2, <3>3, Zenon
  <2>5. CASE g.edges[p] # "closed" /\ x = [on EXCEPT !.queue = more]
    <3>1. x = WalkOf(more, v, a, l, w.omitted, w.over)
      BY <1>17, <2>5 DEF WalkOf
    <3>2. QED
      BY <1>10, <2>5, <3>1, Zenon
  <2>6. QED
    BY <2>1, <2>2, <2>3, <2>4, <2>5
<1>20. q \in Seq(Entry)
  <2>1. [id |-> n, depth |-> h.depth + 1] \in Entry /\ w.queue \in Seq(Entry)
    BY <1>3, <1>5 DEF Entry, WalkShape
  <2>2. more \in Seq(Entry)
    BY <1>15, <2>1, AppendProperties
  <2>3. QED
    BY <1>19, <2>1, <2>2
<1>21. /\ x.queue = q /\ x.visited = w.visited /\ x.at = a /\ x.left = w.left \ {p}
       /\ x.omitted = o
  <2>1. x.queue = q /\ x.visited = v /\ x.at = a /\ x.left = l /\ x.omitted = o
    BY <1>19, FieldsOf
  <2>2. QED
    BY <1>15, <2>1
<1>22. a \subseteq w.at /\ (w.left \ {p} = {} <=> a = {})
  <2>1. w.left \ {p} = {} <=> w.left = {p}
    BY <1>3
  <2>2. QED
    BY <1>4, <1>13, <2>1
<1>23. WalkShape(x)
  <2>1. /\ w.over \in BOOLEAN /\ w.visited \subseteq GraphNodes /\ IsFiniteSet(w.visited)
        /\ w.left \ {p} \subseteq Pairs
    BY <1>3 DEF WalkShape
  <2>2. a # {} => a = {h}
    BY <1>4, <1>22
  <2>3. QED
    BY <1>4, <1>5, <1>15, <1>19, <1>20, <1>22, <2>1, <2>2, ShapeIs
<1>24. \/ x.queue = w.queue /\ (~OpenEdge(g, h.id, n) \/ n \in w.visited \/ ~NoneLeft(x))
       \/ OpenEdge(g, h.id, n) /\ x.queue = Append(w.queue, [id |-> n, depth |-> h.depth + 1])
  BY <1>15, <1>19, <1>21 DEF NoneLeft
<1>25. QED
  <2>1. h \in w.at /\ p \in w.left /\ p = {h.id, n} /\ x.at \subseteq w.at /\ w.omitted \subseteq x.omitted
    BY <1>3, <1>4, <1>7, <1>19, <1>21, <1>22
  <2>2. WalkOK(g, x)
    BY <1>3, <1>21, <1>23, <1>24, <2>1, FollowedKeeps
  <2>3. QED
    BY <1>2, <2>2

\* Every step keeps the invariant.
LEMMA WalkInvStep == WalkInv /\ [WalkNext]_walkVars => WalkInv'
<1> SUFFICES ASSUME WalkInv, [WalkNext]_walkVars PROVE WalkInv'
  OBVIOUS
<1>1. CASE UNCHANGED walkVars
  BY <1>1 DEF walkVars, WalkInv
<1>2. CASE Ask
  BY <1>2, AskKeeps
<1>3. CASE Pop \/ (\E p \in Pairs : Follow(p)) \/ Return
  <2>1. graph # {}
    <3>1. CASE Pop
      BY <3>1 DEF WalkInv, Unasked, Pop
    <3>2. ASSUME NEW p \in Pairs, Follow(p) PROVE graph # {}
      <4>1. walk.left # {}
        BY <3>2 DEF Follow
      <4>2. QED
        BY <4>1 DEF WalkInv, Unasked
    <3>3. QED
      BY <1>3, <3>1, <3>2 DEF Return
  <2>2. PICK g \in Graph : graph = {g} /\ WalkOK(g, walk)
    BY <2>1 DEF WalkInv
  <2>3. graph' = graph
    BY <1>3 DEF Pop, Follow, Return, Walks
  <2>4. CASE Pop
    BY <2>2, <2>3, <2>4, PopKeeps DEF WalkInv
  <2>5. CASE \E p \in Pairs : Follow(p)
    BY <2>2, <2>3, <2>5, FollowKeeps DEF WalkInv
  <2>6. CASE Return
    <3>1. PICK w, x : w = walk /\ x = walk'
      OBVIOUS
    <3>2. WalkShape(w) /\ x = [w EXCEPT !.over = TRUE] /\ w.queue = <<>> /\ w.at = {}
      BY <2>2, <2>6, <3>1 DEF Return, Walks, WalkOK
    <3>3. x = [queue |-> w.queue, visited |-> w.visited, at |-> w.at, left |-> w.left,
               omitted |-> w.omitted, over |-> TRUE]
      BY <3>2 DEF WalkShape
    <3>4. WalkShape(x)
      BY <3>2, <3>3 DEF WalkShape
    <3>5. EntriesOK(g, x) /\ InOrder(x) /\ RootFirst(x) /\ VisitedOK(g, x)
      BY <2>2, <3>1, <3>3 DEF WalkOK, EntriesOK, InOrder, RootFirst, VisitedOK, NoneLeft
    <3>6. Expanded(g, x) /\ DepthTold(g, x)
      BY <2>2, <3>1, <3>3 DEF WalkOK, Expanded, Ahead, DepthTold, NoneLeft
    <3>7. QED
      BY <2>2, <2>3, <3>1, <3>4, <3>5, <3>6 DEF WalkInv, WalkOK
  <2>7. QED
    BY <1>3, <2>4, <2>5, <2>6
<1>4. QED
  BY <1>1, <1>2, <1>3 DEF WalkNext

\* A walk visits the nodes in the order of their distance: unless nodes were left out for
\* the budget, what is near and not visited is still in the queue for its distance, and no
\* node is reached by a longer way first (walkGraphNeighborhood).
THEOREM WalkInvariant == WalkSpec => []WalkInv
BY WalkInvInit, WalkInvStep, PTL DEF WalkSpec

\* "Reports omissions when depth/node budgets cut the walk short": a walk that returns has
\* found what is within the depth over visible nodes and open edges and no more, or says
\* that nodes were left out; and it says so where more could be reached one step further.
THEOREM WalksHonestly == WalkSpec => []WalkHonest
<1>1. ASSUME WalkInv, walk.over PROVE WalkHonest
  <2>1. PICK g \in Graph : graph = {g} /\ WalkOK(g, walk)
    BY <1>1 DEF WalkInv, Unasked
  <2>2. PICK w : w = walk
    OBVIOUS
  <2>3. Asked = g /\ WalkOK(g, w) /\ w.over /\ w.queue = <<>> /\ w.at = {}
    BY <1>1, <2>1, <2>2, GraphIs DEF WalkOK, WalkShape
  <2>4. g.depth \in Nat /\ g.depth + 1 \in Nat /\ Root \in GraphNodes
    <3>1. g.depth \in Nat
      BY WalkAssumption DEF Graph
    <3>2. QED
      BY <3>1, WalkAssumption
  <2>5. w.visited \subseteq Within(g, g.depth) /\ Cardinality(w.visited) <= g.size
    BY <2>3 DEF WalkOK, VisitedOK
  <2>6. ASSUME NoneLeft(w) PROVE w.visited = Within(g, g.depth)
    <3>1. \A n \in Within(g, g.depth) : n \in w.visited
      <4>1. DOMAIN w.queue = {}
        BY <2>3
      <4>2. QED
        BY <2>3, <2>4, <2>6, <4>1, Frontier
    <3>2. QED
      BY <2>5, <3>1
  <2>7. ASSUME NoneLeft(w), Within(g, g.depth + 1) # w.visited PROVE "max_depth" \in w.omitted
    <3>1. w.visited \subseteq Within(g, g.depth + 1)
      BY <2>4, <2>5, WithinGrows
    <3>2. PICK n \in Within(g, g.depth + 1) : n \notin w.visited
      BY <2>7, <3>1
    <3>3. (g.depth + 1) - 1 = g.depth /\ g.depth + 1 # 0
      BY <2>4
    <3>4. PICK m \in Within(g, g.depth) : OpenEdge(g, m, n)
      BY <2>4, <2>6, <2>7, <3>2, <3>3, WithinBack
    <3>5. m \in w.visited /\ n \in GraphNodes /\ SeenNode(g, n)
      BY <2>4, <2>6, <2>7, <3>2, <3>4, WithinBack, WithinGrows
    <3>6. ASSUME NEW d \in Nat, d < g.depth, m \in Within(g, d) PROVE FALSE
      <4>1. n \in Within(g, d + 1)
        BY <3>4, <3>5, <3>6, WithinGrows
      <4>2. d + 1 \in Nat /\ d + 1 <= g.depth
        BY <2>4, <3>6
      <4>3. n \in Within(g, g.depth)
        BY <2>4, <4>1, <4>2, WithinGrows
      <4>4. QED
        BY <2>6, <2>7, <3>2, <4>3
    <3>7. QED
      BY <2>3, <2>7, <3>4, <3>5, <3>6 DEF WalkOK, DepthTold
  <2>8. QED
    BY <2>2, <2>3, <2>5, <2>6, <2>7 DEF WalkHonest, NoneLeft
<1>2. WalkInv => WalkHonest
  BY <1>1 DEF WalkHonest
<1>3. QED
  BY <1>2, WalkInvariant, PTL

-----------------------------------------------------------------------------
(* The operator cycle *)

\* A run that is past the stamp knows that it holds the lock, and one that only fails
\* to learn it reports a failure.
RunOK(c) ==
  /\ cycle[c].pc \in {"preflight", "probe", "create", "stamp"} => ~cycle[c].acquired
  /\ cycle[c].pc \in {"manifest", "sync", "rebuild", "release", "rewrite"} => cycle[c].acquired
  /\ cycle[c].pc = "health" /\ ~cycle[c].acquired => cycle[c].outcome # "success"
  /\ cycle[c].pc = "rewrite" => cycle[c].outcome # "success"

CycleShape ==
  /\ lockFile = {} \/ \E c \in Cycles : lockFile = {c}
  /\ health \subseteq [of : Cycles, outcome : Outcomes]
  /\ cycle \in [Cycles -> CycleRun]

CycleInv == CycleShape /\ CycleExclusion /\ \A c \in Cycles : RunOK(c)

RunPcs == {"preflight", "probe", "create", "stamp", "manifest", "sync", "rebuild",
           "health", "release", "rewrite", "ended", "crashed"}

Run(pc, acquired, outcome) == [pc |-> pc, acquired |-> acquired, outcome |-> outcome]

\* The next record of run c is this one, and that is all that changes of the runs.
Becomes(c, rec) == rec \in CycleRun /\ cycle' = [cycle EXCEPT ![c] = rec] /\ cycle'[c] = rec

\* A run's record with two of its fields replaced.
WithOutcome(rec, pc, outcome) == [rec EXCEPT !.pc = pc, !.outcome = outcome]
WithLock(rec, pc, acquired) == [rec EXCEPT !.pc = pc, !.acquired = acquired]

LEMMA FieldsReplaced ==
  ASSUME NEW rec \in CycleRun, NEW pc, NEW outcome, NEW acquired
  PROVE  /\ WithOutcome(rec, pc, outcome) = Run(pc, rec.acquired, outcome)
         /\ WithLock(rec, pc, acquired) = Run(pc, acquired, rec.outcome)
<1> DEFINE moved == Run(pc, rec.acquired, rec.outcome)
<1>1. [rec EXCEPT !.pc = pc] = moved
  BY DEF Run, CycleRun
<1>2. /\ moved \in [pc : {pc}, acquired : {rec.acquired}, outcome : {rec.outcome}]
      /\ moved.pc = pc /\ moved.acquired = rec.acquired /\ moved.outcome = rec.outcome
  BY DEF Run
<1> HIDE DEF moved
<1>3. WithOutcome(rec, pc, outcome) = Run(pc, rec.acquired, outcome)
  <2>1. WithOutcome(rec, pc, outcome) = [[rec EXCEPT !.pc = pc] EXCEPT !.outcome = outcome]
    BY DEF WithOutcome
  <2>2. [moved EXCEPT !.outcome = outcome] = Run(moved.pc, moved.acquired, outcome)
    BY <1>2 DEF Run
  <2>3. QED
    BY <1>1, <1>2, <2>1, <2>2
<1>4. WithLock(rec, pc, acquired) = Run(pc, acquired, rec.outcome)
  <2>1. WithLock(rec, pc, acquired) = [[rec EXCEPT !.pc = pc] EXCEPT !.acquired = acquired]
    BY DEF WithLock
  <2>2. [moved EXCEPT !.acquired = acquired] = Run(moved.pc, acquired, moved.outcome)
    BY <1>2 DEF Run
  <2>3. QED
    BY <1>1, <1>2, <2>1, <2>2
<1>5. QED
  BY <1>3, <1>4

\* The three ways a run moves, in one form.
LEMMA CycleMoves ==
  ASSUME cycle \in [Cycles -> CycleRun], NEW c \in Cycles
  PROVE  /\ \A pc \in RunPcs :
              CycleTo(c, pc) => Becomes(c, Run(pc, cycle[c].acquired, cycle[c].outcome))
         /\ \A outcome \in Failures :
              CycleFails(c, outcome) => Becomes(c, Run("health", cycle[c].acquired, outcome))
         /\ \A outcome \in Outcomes :
              Ends(c, outcome) => Becomes(c, Run("ended", cycle[c].acquired, outcome))
<1>0. cycle[c] \in CycleRun
  OBVIOUS
<1>1. ASSUME NEW pc \in RunPcs, CycleTo(c, pc)
      PROVE  Becomes(c, Run(pc, cycle[c].acquired, cycle[c].outcome))
  <2>1. cycle' = [cycle EXCEPT ![c] = [cycle[c] EXCEPT !.pc = pc]]
    BY <1>1 DEF CycleTo
  <2>2. [cycle[c] EXCEPT !.pc = pc] = Run(pc, cycle[c].acquired, cycle[c].outcome)
    BY <1>0 DEF Run, CycleRun
  <2>3. QED
    BY <1>0, <2>1, <2>2 DEF Becomes, Run, CycleRun, RunPcs
<1>2. ASSUME NEW outcome \in Failures, CycleFails(c, outcome)
      PROVE  Becomes(c, Run("health", cycle[c].acquired, outcome))
  <2>1. cycle' = [cycle EXCEPT ![c] = WithOutcome(cycle[c], "health", outcome)]
    BY <1>2 DEF CycleFails, WithOutcome
  <2>2. WithOutcome(cycle[c], "health", outcome) = Run("health", cycle[c].acquired, outcome)
    BY <1>0, FieldsReplaced
  <2>3. QED
    BY <1>0, <2>1, <2>2 DEF Becomes, Run, CycleRun, Outcomes
<1>3. ASSUME NEW outcome \in Outcomes, Ends(c, outcome)
      PROVE  Becomes(c, Run("ended", cycle[c].acquired, outcome))
  <2>1. cycle' = [cycle EXCEPT ![c] = WithOutcome(cycle[c], "ended", outcome)]
    BY <1>3 DEF Ends, WithOutcome
  <2>2. WithOutcome(cycle[c], "ended", outcome) = Run("ended", cycle[c].acquired, outcome)
    BY <1>0, FieldsReplaced
  <2>3. QED
    BY <1>0, <2>1, <2>2 DEF Becomes, Run, CycleRun
<1>4. QED
  BY <1>1, <1>2, <1>3

LEMMA CycleInvInit == CycleInit => CycleInv
<1> SUFFICES ASSUME CycleInit PROVE CycleInv
  OBVIOUS
<1>1. CycleShape
  BY DEF CycleInit, CycleShape, CycleRun, Outcomes
<1>2. CycleExclusion
  BY DEF CycleInit, CycleExclusion, Holding, CycleAt, Guarded
<1>3. \A c \in Cycles : RunOK(c)
  BY DEF CycleInit, RunOK
<1>4. QED
  BY <1>1, <1>2, <1>3 DEF CycleInv

\* A run keeps the invariant if its new record is in order, it takes the lock only when
\* nobody has it and gives it back only if it holds it, and it stops holding it only when
\* it gives it back or reports a failure.
LEMMA CycleKeeps ==
  ASSUME CycleInv, NEW c \in Cycles, NEW rec, Becomes(c, rec),
         health' \subseteq [of : Cycles, outcome : Outcomes],
         RunOK(c)',
         \/ lockFile' = lockFile /\ (Holding(c)' => Holding(c))
         \/ lockFile = {} /\ lockFile' = {c}
         \/ lockFile' = {} /\ Holding(c) /\ ~Holding(c)',
         c \in lockFile' /\ rec.pc = "ended" => rec.outcome # "success"
  PROVE  CycleInv'
<1>1. /\ cycle' \in [Cycles -> CycleRun] /\ cycle'[c] = rec
      /\ \A d \in Cycles \ {c} : cycle'[d] = cycle[d]
  BY DEF CycleInv, CycleShape, Becomes
<1>2. CycleShape'
  BY <1>1 DEF CycleInv, CycleShape
<1>3. \A d \in Cycles \ {c} : (Holding(d)' <=> Holding(d)) /\ (RunOK(d)' <=> RunOK(d))
  BY <1>1 DEF Holding, RunOK, CycleAt
<1>4. \A d \in Cycles : RunOK(d)'
  BY <1>3 DEF CycleInv
<1>5. \A d \in Cycles : Holding(d)' => lockFile' = {d}
  BY <1>3 DEF CycleInv, CycleExclusion
<1>6. \A d \in lockFile' : CycleAt(d, "ended")' => cycle'[d].outcome # "success"
  BY <1>1, <1>2 DEF CycleInv, CycleExclusion, CycleShape, CycleAt
<1>7. QED
  BY <1>2, <1>4, <1>5, <1>6 DEF CycleInv, CycleExclusion

LEMMA CycleInvStep == CycleInv /\ [CycleNext]_cycleVars => CycleInv'
<1> SUFFICES ASSUME CycleInv, [CycleNext]_cycleVars PROVE CycleInv'
  OBVIOUS
<1>1. CASE UNCHANGED cycleVars
  BY <1>1 DEF cycleVars, CycleInv, CycleShape, CycleExclusion, Holding, CycleAt, RunOK
<1>2. ASSUME NEW c \in Cycles,
             \/ Preflight(c) \/ ProbeLock(c) \/ CreateLock(c) \/ StampLock(c)
             \/ WriteManifest(c) \/ SyncOnce(c) \/ RebuildRetrieval(c)
             \/ WriteHealth(c) \/ ReleaseLock(c) \/ RewriteHealth(c)
             \/ CycleDies(c)
      PROVE  CycleInv'
  <2>0. /\ cycle \in [Cycles -> CycleRun] /\ cycle[c] \in CycleRun
        /\ health \subseteq [of : Cycles, outcome : Outcomes]
        /\ RunOK(c) /\ (Holding(c) => lockFile = {c})
    BY DEF CycleInv, CycleShape, CycleExclusion
  <2>1. /\ \A pc \in RunPcs :
             CycleTo(c, pc) => Becomes(c, Run(pc, cycle[c].acquired, cycle[c].outcome))
        /\ \A outcome \in Failures :
             CycleFails(c, outcome) => Becomes(c, Run("health", cycle[c].acquired, outcome))
        /\ \A outcome \in Outcomes :
             Ends(c, outcome) => Becomes(c, Run("ended", cycle[c].acquired, outcome))
    BY <2>0, CycleMoves
  \* Before the lock is created, and after it is known to be held.
  <2> DEFINE Early == {"preflight", "probe", "create"}
             Late  == {"manifest", "sync", "rebuild", "health"}
  <2>2. ASSUME NEW pc \in Early \cup Late,
               CycleTo(c, pc), UNCHANGED <<lockFile, health>>,
               \/ cycle[c].pc \in Early /\ pc \in Early
               \/ cycle[c].pc \in Late \ {"health"} /\ pc \in Late
        PROVE  CycleInv'
    <3>1. Becomes(c, Run(pc, cycle[c].acquired, cycle[c].outcome))
      BY <2>1, <2>2 DEF RunPcs
    <3>2. RunOK(c)' /\ (Holding(c)' => Holding(c))
      BY <2>0, <2>2, <3>1 DEF RunOK, Holding, CycleAt, Guarded, Becomes, Run
    <3>3. QED
      BY <2>0, <2>2, <3>1, <3>2, CycleKeeps DEF Run
  \* The catch block.
  <2>3. ASSUME NEW outcome \in Failures,
               CycleFails(c, outcome), UNCHANGED <<lockFile, health>>,
               cycle[c].pc \in Early \cup (Late \ {"health"}) \cup {"stamp"}
        PROVE  CycleInv'
    <3>1. Becomes(c, Run("health", cycle[c].acquired, outcome))
      BY <2>1, <2>3
    <3>2. RunOK(c)' /\ (Holding(c)' => Holding(c))
      BY <2>0, <2>3, <3>1 DEF RunOK, Holding, CycleAt, Guarded, Becomes, Run, Failures
    <3>3. QED
      BY <2>0, <2>3, <3>1, <3>2, CycleKeeps DEF Run
  \* The end of the run, with the lock as it is.
  <2>4. ASSUME NEW outcome \in Outcomes,
               Ends(c, outcome), UNCHANGED lockFile,
               health' \subseteq [of : Cycles, outcome : Outcomes],
               cycle[c].pc \in {"health", "rewrite"}, outcome # "success"
        PROVE  CycleInv'
    <3>1. Becomes(c, Run("ended", cycle[c].acquired, outcome))
      BY <2>1, <2>4
    <3>2. RunOK(c)' /\ (Holding(c)' => Holding(c))
      BY <2>0, <2>4, <3>1 DEF RunOK, Holding, CycleAt, Guarded, Becomes, Run
    <3>3. QED
      BY <2>0, <2>4, <3>1, <3>2, CycleKeeps DEF Run
  <2>5. CASE Preflight(c)
    <3>1. cycle[c].pc = "preflight" /\ UNCHANGED <<lockFile, health>>
      BY <2>5 DEF Preflight, CycleAt
    <3>2. CycleTo(c, "probe") \/ CycleFails(c, "config_invalid")
      BY <2>5 DEF Preflight
    <3>3. QED
      BY <2>2, <2>3, <3>1, <3>2 DEF Failures
  <2>6. CASE ProbeLock(c)
    <3>1. cycle[c].pc = "probe" /\ UNCHANGED <<lockFile, health>>
      BY <2>6 DEF ProbeLock, CycleAt
    <3>2. CycleTo(c, "create") \/ CycleFails(c, "lock_busy")
      BY <2>6 DEF ProbeLock
    <3>3. QED
      BY <2>2, <2>3, <3>1, <3>2 DEF Failures
  <2>7. CASE CreateLock(c)
    <3>1. cycle[c].pc = "create" /\ UNCHANGED health
      BY <2>7 DEF CreateLock, CycleAt
    <3>2. CASE CycleFails(c, "lock_busy") /\ UNCHANGED lockFile
      BY <2>3, <3>1, <3>2 DEF Failures
    <3>3. CASE lockFile = {} /\ lockFile' = {c} /\ CycleTo(c, "stamp")
      <4>1. Becomes(c, Run("stamp", cycle[c].acquired, cycle[c].outcome))
        BY <2>1, <3>3 DEF RunPcs
      <4>2. RunOK(c)'
        BY <2>0, <3>1, <4>1 DEF RunOK, Becomes, Run
      <4>3. QED
        BY <2>0, <3>1, <3>3, <4>1, <4>2, CycleKeeps DEF Run
    <3>4. QED
      BY <2>7, <3>2, <3>3 DEF CreateLock
  <2>8. CASE StampLock(c)
    <3>1. cycle[c].pc = "stamp" /\ UNCHANGED <<lockFile, health>>
      BY <2>8 DEF StampLock, CycleAt
    <3>2. CASE CycleFails(c, "lock_busy")
      BY <2>3, <3>1, <3>2 DEF Failures
    <3>3. CASE cycle' = [cycle EXCEPT ![c].pc = "manifest", ![c].acquired = TRUE]
      <4>1. cycle' = [cycle EXCEPT ![c] = WithLock(cycle[c], "manifest", TRUE)]
        BY <3>3 DEF WithLock
      <4>2. Becomes(c, Run("manifest", TRUE, cycle[c].outcome))
        <5>1. WithLock(cycle[c], "manifest", TRUE) = Run("manifest", TRUE, cycle[c].outcome)
          BY <2>0, FieldsReplaced
        <5>2. QED
          BY <2>0, <4>1, <5>1 DEF Becomes, Run, CycleRun
      <4>3. RunOK(c)' /\ (Holding(c)' => Holding(c))
        BY <2>0, <3>1, <4>2 DEF RunOK, Holding, CycleAt, Guarded, Becomes, Run
      <4>4. QED
        BY <2>0, <3>1, <4>2, <4>3, CycleKeeps DEF Run
    <3>4. QED
      BY <2>8, <3>2, <3>3 DEF StampLock
  <2>9. CASE WriteManifest(c)
    <3>1. cycle[c].pc = "manifest" /\ UNCHANGED <<lockFile, health>>
      BY <2>9 DEF WriteManifest, CycleAt
    <3>2. CycleTo(c, "sync") \/ CycleFails(c, "manifest_failed")
      BY <2>9 DEF WriteManifest
    <3>3. QED
      BY <2>2, <2>3, <3>1, <3>2 DEF Failures
  <2>10. CASE SyncOnce(c)
    <3>1. cycle[c].pc = "sync" /\ UNCHANGED <<lockFile, health>>
      BY <2>10 DEF SyncOnce, CycleAt
    <3>2. CycleTo(c, "rebuild") \/ CycleFails(c, "sync_failed")
      BY <2>10 DEF SyncOnce
    <3>3. QED
      BY <2>2, <2>3, <3>1, <3>2 DEF Failures
  <2>11. CASE RebuildRetrieval(c)
    <3>1. cycle[c].pc = "rebuild" /\ UNCHANGED <<lockFile, health>>
      BY <2>11 DEF RebuildRetrieval, CycleAt
    <3>2. CycleTo(c, "health") \/ CycleFails(c, "retrieval_failed")
      BY <2>11 DEF RebuildRetrieval
    <3>3. QED
      BY <2>2, <2>3, <3>1, <3>2 DEF Failures
  <2>12. CASE WriteHealth(c)
    <3>1. /\ cycle[c].pc = "health" /\ UNCHANGED lockFile
          /\ health' \subseteq [of : Cycles, outcome : Outcomes]
      <4>1. cycle[c].outcome \in Outcomes
        BY <2>0 DEF CycleRun
      <4>2. QED
        BY <2>0, <2>12, <4>1 DEF WriteHealth, CycleAt
    <3>2. \/ Ends(c, "health_failed")
          \/ ~cycle[c].acquired /\ Ends(c, cycle[c].outcome)
          \/ cycle[c].acquired /\ CycleTo(c, "release")
      BY <2>12 DEF WriteHealth
    <3>3. CASE Ends(c, "health_failed")
      BY <2>4, <3>1, <3>3 DEF Failures, Outcomes
    <3>4. CASE ~cycle[c].acquired /\ Ends(c, cycle[c].outcome)
      BY <2>0, <2>4, <3>1, <3>4 DEF CycleRun, RunOK
    <3>5. CASE cycle[c].acquired /\ CycleTo(c, "release")
      <4>1. Becomes(c, Run("release", cycle[c].acquired, cycle[c].outcome))
        BY <2>1, <3>5 DEF RunPcs
      <4>2. RunOK(c)' /\ (Holding(c)' => Holding(c))
        BY <2>0, <3>1, <3>5, <4>1 DEF RunOK, Holding, CycleAt, Guarded, Becomes, Run
      <4>3. QED
        BY <2>0, <3>1, <4>1, <4>2, CycleKeeps DEF Run
    <3>6. QED
      BY <3>2, <3>3, <3>4, <3>5
  <2>13. CASE ReleaseLock(c)
    <3>1. cycle[c].pc = "release" /\ UNCHANGED health
      BY <2>13 DEF ReleaseLock, CycleAt
    <3>2. CASE lockFile' = {} /\ Ends(c, cycle[c].outcome)
      <4>1. Becomes(c, Run("ended", cycle[c].acquired, cycle[c].outcome))
        BY <2>0, <2>1, <3>2 DEF CycleRun
      <4>2. RunOK(c)' /\ Holding(c) /\ ~Holding(c)'
        BY <2>0, <3>1, <4>1 DEF RunOK, Holding, CycleAt, Guarded, Becomes, Run
      <4>3. QED
        BY <2>0, <3>1, <3>2, <4>1, <4>2, CycleKeeps
    <3>3. CASE /\ cycle' = [cycle EXCEPT ![c].pc = "rewrite", ![c].outcome = "lock_release_failed"]
               /\ UNCHANGED lockFile
      <4>1. cycle' = [cycle EXCEPT ![c] = WithOutcome(cycle[c], "rewrite", "lock_release_failed")]
        BY <3>3 DEF WithOutcome
      <4>2. Becomes(c, Run("rewrite", cycle[c].acquired, "lock_release_failed"))
        <5>1. WithOutcome(cycle[c], "rewrite", "lock_release_failed") =
                Run("rewrite", cycle[c].acquired, "lock_release_failed")
          BY <2>0, FieldsReplaced
        <5>2. QED
          BY <2>0, <4>1, <5>1 DEF Becomes, Run, CycleRun, Outcomes, Failures
      <4>3. RunOK(c)' /\ (Holding(c)' => Holding(c))
        BY <2>0, <3>1, <4>2 DEF RunOK, Holding, CycleAt, Guarded, Becomes, Run
      <4>4. QED
        BY <2>0, <3>1, <3>3, <4>2, <4>3, CycleKeeps DEF Run
    <3>4. QED
      BY <2>13, <3>2, <3>3 DEF ReleaseLock
  <2>14. CASE RewriteHealth(c)
    <3>1. /\ cycle[c].pc = "rewrite" /\ UNCHANGED lockFile
          /\ health' \subseteq [of : Cycles, outcome : Outcomes]
      <4>1. cycle[c].outcome \in Outcomes
        BY <2>0 DEF CycleRun
      <4>2. QED
        BY <2>0, <2>14, <4>1 DEF RewriteHealth, CycleAt
    <3>2. Ends(c, cycle[c].outcome) \/ Ends(c, "health_failed")
      BY <2>14 DEF RewriteHealth
    <3>3. cycle[c].outcome \in Outcomes /\ cycle[c].outcome # "success"
      BY <2>0, <3>1 DEF CycleRun, RunOK
    <3>4. QED
      BY <2>4, <3>1, <3>2, <3>3 DEF Failures, Outcomes
  <2>15. CASE CycleDies(c)
    <3>1. CycleTo(c, "crashed") /\ UNCHANGED <<lockFile, health>>
      BY <2>15 DEF CycleDies
    <3>2. Becomes(c, Run("crashed", cycle[c].acquired, cycle[c].outcome))
      BY <2>1, <3>1 DEF RunPcs
    <3>3. RunOK(c)' /\ (Holding(c)' => Holding(c))
      BY <3>2 DEF RunOK, Holding, CycleAt, Guarded, Becomes, Run
    <3>4. QED
      BY <2>0, <3>1, <3>2, <3>3, CycleKeeps DEF Run
  <2>16. QED
    BY <1>2, <2>5, <2>6, <2>7, <2>8, <2>9, <2>10, <2>11, <2>12, <2>13, <2>14, <2>15
<1>3. QED
  BY <1>1, <1>2 DEF CycleNext

\* What the runs exclude each other by is inductive only together with what each run
\* knows of its lock.
THEOREM CycleInvariant == CycleSpec => []CycleInv
BY CycleInvInit, CycleInvStep, PTL DEF CycleSpec

LEMMA CycleTypes == CycleInv => CycleTypeOK
<1> SUFFICES ASSUME CycleInv PROVE CycleTypeOK
  OBVIOUS
<1>1. Cardinality(lockFile) <= 1 /\ lockFile \subseteq Cycles
  <2>1. ASSUME lockFile = {} PROVE Cardinality(lockFile) <= 1
    <3>1. Cardinality(lockFile) = 0
      BY <2>1, FS_EmptySet
    <3>2. QED
      BY <3>1
  <2>2. ASSUME lockFile # {} PROVE Cardinality(lockFile) <= 1
    <3>1. PICK c \in Cycles : lockFile = {c}
      BY <2>2 DEF CycleInv, CycleShape
    <3>2. Cardinality(lockFile) = 1
      BY <3>1, FS_Singleton
    <3>3. QED
      BY <3>2
  <2>3. lockFile \subseteq Cycles
    BY DEF CycleInv, CycleShape
  <2>4. QED
    BY <2>1, <2>2, <2>3
<1>2. QED
  BY <1>1 DEF CycleInv, CycleShape, CycleTypeOK

\* The lock, the health record and the runs keep their shape.
THEOREM CycleTypeCorrect == CycleSpec => []CycleTypeOK
BY CycleTypes, CycleInvariant, PTL

\* Runs of the operator cycle exclude each other, whatever fails and wherever a run dies,
\* and a lock that stays was not left by a success (acquireLock, releaseLock).
THEOREM CyclesExclude == CycleSpec => []CycleExclusion
<1>1. CycleInv => CycleExclusion
  BY DEF CycleInv
<1>2. QED
  BY <1>1, CycleInvariant, PTL
-----------------------------------------------------------------------------
(* The agentic jobs *)

\* Nobody counts more attempts than leases were granted: not a row, and not the copy of
\* a row that a worker is about to write back.
AttemptsGranted ==
  /\ \A j \in Jobs : \A row \in job[j] :
       row.attempt <= grants[j] /\ (row.state = "dead" => row.attempt >= MaxAttempts)
  /\ \A w \in Workers, j \in Jobs : Works(w, "outcome", j) => worker[w].copy.attempt <= grants[j]

JobsInv == JobsTypeOK /\ AttemptsGranted

LEMMA JobsInvInit == JobsInit => JobsInv
<1> SUFFICES ASSUME JobsInit PROVE JobsInv
  OBVIOUS
<1>1. Resting \in WorkerState
  BY DEF Resting, WorkerState, FreshJob, JobRow
<1>2. JobsTypeOK
  BY <1>1 DEF JobsInit, JobsTypeOK
<1>3. AttemptsGranted
  BY DEF JobsInit, AttemptsGranted, Works, Resting
<1>4. QED
  BY <1>2, <1>3 DEF JobsInv

\* A worker that goes on to anything but an outcome relies on no copy.
LEMMA TurnKeeps ==
  ASSUME JobsInv, NEW w \in Workers, NEW rec \in WorkerState, rec.pc # "outcome",
         Turns(w, rec), NEW j0 \in Jobs, grants' \in [Jobs -> Nat],
         \A j \in Jobs : grants[j] <= grants'[j],
         \A j \in Jobs \ {j0} : job'[j] = job[j],
         job' \in [Jobs -> SUBSET JobRow],
         \A row \in job'[j0] :
           row.attempt <= grants'[j0] /\ (row.state = "dead" => row.attempt >= MaxAttempts)
  PROVE  JobsInv'
<1>0. /\ worker \in [Workers -> WorkerState] /\ grants \in [Jobs -> Nat]
      /\ job \in [Jobs -> SUBSET JobRow]
  BY DEF JobsInv, JobsTypeOK
<1>1. /\ worker' \in [Workers -> WorkerState] /\ worker'[w] = rec
      /\ \A x \in Workers \ {w} : worker'[x] = worker[x]
  BY <1>0 DEF Turns
<1>2. JobsTypeOK'
  BY <1>1 DEF JobsTypeOK
<1>3. ASSUME NEW j \in Jobs, NEW row \in job'[j]
      PROVE  row.attempt <= grants'[j] /\ (row.state = "dead" => row.attempt >= MaxAttempts)
  <2>1. CASE j = j0
    BY <1>3, <2>1
  <2>2. CASE j # j0
    <3>1. row \in job[j] /\ row \in JobRow
      BY <1>0, <1>3, <2>2
    <3>2. row.attempt <= grants[j] /\ (row.state = "dead" => row.attempt >= MaxAttempts)
      BY <3>1 DEF JobsInv, AttemptsGranted
    <3>3. row.attempt \in Nat /\ grants[j] \in Nat /\ grants'[j] \in Nat /\ grants[j] <= grants'[j]
      BY <1>0, <3>1 DEF JobRow
    <3>4. QED
      BY <3>2, <3>3
  <2>3. QED
    BY <2>1, <2>2
<1>4. ASSUME NEW x \in Workers, NEW j \in Jobs, worker'[x].pc = "outcome", worker'[x].on = {j}
      PROVE  worker'[x].copy.attempt <= grants'[j]
  <2>1. worker'[x] = worker[x]
    BY <1>1, <1>4
  <2>2. worker[x].copy.attempt <= grants[j]
    BY <1>4, <2>1 DEF JobsInv, AttemptsGranted, Works
  <2>3. worker[x].copy.attempt \in Nat /\ grants[j] \in Nat /\ grants'[j] \in Nat /\ grants[j] <= grants'[j]
    BY <1>0 DEF WorkerState, JobRow
  <2>4. QED
    BY <2>1, <2>2, <2>3
<1>5. QED
  BY <1>2, <1>3, <1>4 DEF JobsInv, AttemptsGranted, Works

\* A row that keeps its attempts, under another state.
LEMMA FreedRow ==
  ASSUME NEW row \in JobRow, NEW state \in {"pending", "leased", "succeeded", "dead"},
         NEW due \in BOOLEAN
  PROVE  /\ Freed(row, state, due) \in JobRow
         /\ Freed(row, state, due).attempt = row.attempt
         /\ Freed(row, state, due).state = state
BY DEF Freed, JobRow

LEMMA JobsInvStep == JobsInv /\ [JobsNext]_jobVars => JobsInv'
<1> SUFFICES ASSUME JobsInv, [JobsNext]_jobVars PROVE JobsInv'
  OBVIOUS
<1>0. /\ worker \in [Workers -> WorkerState] /\ grants \in [Jobs -> Nat]
      /\ job \in [Jobs -> SUBSET JobRow]
      /\ \A j \in Jobs : \A row \in job[j] :
           /\ row \in JobRow /\ row.attempt <= grants[j]
           /\ row.state = "dead" => row.attempt >= MaxAttempts
      /\ FreshJob \in JobRow /\ FreshJob.attempt = 0 /\ FreshJob.state = "pending"
      /\ MaxAttempts \in Nat
  BY JobsAssumption DEF JobsInv, JobsTypeOK, AttemptsGranted, FreshJob, JobRow
<1>00. Resting \in WorkerState /\ Resting.pc = "rest"
  BY <1>0 DEF Resting, WorkerState
<1>1. CASE UNCHANGED jobVars
  BY <1>1 DEF jobVars, JobsInv, JobsTypeOK, AttemptsGranted, Works
<1>2. ASSUME NEW w \in Workers, NEW j \in Jobs, WorkerStep(w, j) PROVE JobsInv'
  \* A worker writes one row, with attempts that were granted, and goes on.
  <2>1. ASSUME NEW row \in JobRow, Writes(j, row), UNCHANGED grants,
               row.attempt <= grants[j], row.state = "dead" => row.attempt >= MaxAttempts,
               NEW rec \in WorkerState, Turns(w, rec), rec.pc # "outcome"
        PROVE  JobsInv'
    <3>1. /\ job' \in [Jobs -> SUBSET JobRow] /\ job'[j] = {row}
          /\ \A i \in Jobs \ {j} : job'[i] = job[i]
      BY <1>0, <2>1 DEF Writes
    <3>2. \A i \in Jobs : grants[i] <= grants'[i]
      BY <1>0, <2>1
    <3>3. QED
      BY <1>0, <2>1, <3>1, <3>2, TurnKeeps
  <2>2. ASSUME UNCHANGED <<job, grants>>, NEW rec \in WorkerState, Turns(w, rec), rec.pc # "outcome"
        PROVE  JobsInv'
    <3>1. \A i \in Jobs : grants[i] <= grants'[i]
      BY <1>0, <2>2
    <3>2. QED
      BY <1>0, <2>2, <3>1, TurnKeeps
  <2>3. ASSUME NEW pc \in {"enqueue", "lease", "work"}, NEW lease \in Nat
        PROVE  /\ [pc |-> pc, on |-> {j}, lease |-> lease, copy |-> FreshJob] \in WorkerState
               /\ [pc |-> pc, on |-> {j}, lease |-> lease, copy |-> FreshJob].pc # "outcome"
    BY <1>0, <2>3 DEF WorkerState
  <2>4. CASE EnqueueRead(w, j)
    <3>1. PICK pc \in {"enqueue", "lease"} :
            Turns(w, [pc |-> pc, on |-> {j}, lease |-> 0, copy |-> FreshJob])
      BY <2>4 DEF EnqueueRead
    <3>2. QED
      BY <2>2, <2>3, <2>4, <3>1 DEF EnqueueRead
  <2>5. CASE EnqueueWrite(w, j)
    <3>1. FreshJob.attempt <= grants[j]
      BY <1>0
    <3>2. QED
      BY <1>0, <2>1, <2>3, <2>5, <3>1 DEF EnqueueWrite
  <2>6. CASE LeaseRefused(w, j)
    BY <1>00, <2>2, <2>6 DEF LeaseRefused
  <2>7. CASE LeaseExhausted(w, j)
    <3>1. PICK row \in job[j] : Exhausted(row) /\ Writes(j, Freed(row, "dead", row.due))
      BY <2>7 DEF LeaseExhausted
    <3>2. row \in JobRow /\ row.due \in BOOLEAN /\ row.attempt <= grants[j]
      BY <1>0, <3>1 DEF JobRow
    <3>3. /\ Freed(row, "dead", row.due) \in JobRow
          /\ Freed(row, "dead", row.due).attempt <= grants[j]
          /\ Freed(row, "dead", row.due).attempt >= MaxAttempts
      BY <3>1, <3>2, FreedRow DEF Exhausted
    <3>4. QED
      BY <1>00, <2>1, <2>7, <3>1, <3>3 DEF LeaseExhausted
  <2>8. CASE LeaseGranted(w, j)
    <3>1. PICK row \in job[j] :
            Writes(j, [state |-> "leased", attempt |-> row.attempt + 1, lease |-> grants[j] + 1,
                       due |-> row.due, expired |-> FALSE])
      BY <2>8 DEF LeaseGranted
    <3> DEFINE granted == [state |-> "leased", attempt |-> row.attempt + 1, lease |-> grants[j] + 1,
                           due |-> row.due, expired |-> FALSE]
               rec     == [pc |-> "work", on |-> {j}, lease |-> grants[j] + 1, copy |-> FreshJob]
    <3>2. row.attempt \in Nat /\ row.due \in BOOLEAN /\ grants[j] \in Nat /\ row.attempt <= grants[j]
      BY <1>0, <3>1 DEF JobRow
    <3>3. granted \in JobRow /\ granted.attempt <= grants[j] + 1 /\ granted.state # "dead"
      BY <3>2 DEF JobRow
    <3>4. /\ job' \in [Jobs -> SUBSET JobRow] /\ job'[j] = {granted}
          /\ \A i \in Jobs \ {j} : job'[i] = job[i]
      BY <1>0, <3>1, <3>3 DEF Writes
    <3>5. /\ grants' \in [Jobs -> Nat] /\ grants'[j] = grants[j] + 1
          /\ \A i \in Jobs : grants[i] <= grants'[i]
      BY <1>0, <2>8 DEF LeaseGranted
    <3>6. rec \in WorkerState /\ rec.pc # "outcome" /\ Turns(w, rec)
      BY <2>3, <2>8, <3>2 DEF LeaseGranted
    <3> HIDE DEF granted, rec
    <3>7. QED
      BY <3>3, <3>4, <3>5, <3>6, TurnKeeps
  <2>9. CASE OutcomeRead(w, j)
    <3>0. UNCHANGED <<job, grants>>
      BY <2>9 DEF OutcomeRead
    <3>1. PICK row \in job[j] :
            \/ Turns(w, [pc |-> "outcome", on |-> {j}, lease |-> row.lease, copy |-> row])
            \/ Turns(w, Resting)
      BY <2>9 DEF OutcomeRead
    <3>2. CASE Turns(w, Resting)
      BY <1>00, <2>2, <3>0, <3>2
    <3>3. CASE Turns(w, [pc |-> "outcome", on |-> {j}, lease |-> row.lease, copy |-> row])
      <4> DEFINE rec == [pc |-> "outcome", on |-> {j}, lease |-> row.lease, copy |-> row]
      <4>1. rec \in WorkerState /\ rec.on = {j} /\ rec.copy = row
        BY <1>0, <3>1 DEF WorkerState, JobRow
      <4> HIDE DEF rec
      <4>2. worker' = [worker EXCEPT ![w] = rec]
        BY <3>3 DEF Turns, rec
      <4>3. /\ worker' \in [Workers -> WorkerState] /\ worker'[w] = rec
            /\ \A x \in Workers \ {w} : worker'[x] = worker[x]
        BY <1>0, <4>1, <4>2
      <4>4. JobsTypeOK'
        BY <1>0, <3>0, <4>3 DEF JobsTypeOK
      <4>5. ASSUME NEW x \in Workers, NEW i \in Jobs, worker'[x].pc = "outcome", worker'[x].on = {i}
            PROVE  worker'[x].copy.attempt <= grants[i]
        <5>1. CASE x = w
          BY <1>0, <3>1, <4>1, <4>3, <4>5, <5>1
        <5>2. CASE x # w
          BY <4>3, <4>5, <5>2 DEF JobsInv, AttemptsGranted, Works
        <5>3. QED
          BY <5>1, <5>2
      <4>6. QED
        BY <1>0, <3>0, <4>4, <4>5 DEF JobsInv, AttemptsGranted, Works
    <3>4. QED
      BY <3>1, <3>2, <3>3
  <2>10. ASSUME Works(w, "outcome", j)
         PROVE  worker[w].copy \in JobRow /\ worker[w].copy.attempt <= grants[j]
    BY <1>0, <2>10 DEF JobsInv, AttemptsGranted, WorkerState
  <2>11. CASE Complete(w, j)
    <3>1. /\ Freed(worker[w].copy, "succeeded", TRUE) \in JobRow
          /\ Freed(worker[w].copy, "succeeded", TRUE).attempt <= grants[j]
          /\ Freed(worker[w].copy, "succeeded", TRUE).state # "dead"
      BY <2>10, <2>11, FreedRow DEF Complete
    <3>2. QED
      BY <1>00, <2>1, <2>11, <3>1 DEF Complete
  <2>12. CASE FailJob(w, j)
    <3>1. /\ Freed(worker[w].copy, "dead", TRUE) \in JobRow
          /\ Freed(worker[w].copy, "dead", TRUE).attempt <= grants[j]
          /\ Exhausted(worker[w].copy) => Freed(worker[w].copy, "dead", TRUE).attempt >= MaxAttempts
      BY <2>10, <2>12, FreedRow DEF FailJob, Exhausted
    <3>2. /\ Freed(worker[w].copy, "pending", FALSE) \in JobRow
          /\ Freed(worker[w].copy, "pending", FALSE).attempt <= grants[j]
          /\ Freed(worker[w].copy, "pending", FALSE).state # "dead"
      BY <2>10, <2>12, FreedRow DEF FailJob
    <3>3. CASE Exhausted(worker[w].copy)
      BY <1>00, <2>1, <2>12, <3>1, <3>3 DEF FailJob
    <3>4. CASE ~Exhausted(worker[w].copy)
      BY <1>00, <2>1, <2>12, <3>2, <3>4 DEF FailJob
    <3>5. QED
      BY <3>3, <3>4
  <2>13. QED
    BY <1>2, <2>4, <2>5, <2>6, <2>7, <2>8, <2>9, <2>11, <2>12 DEF WorkerStep
<1>3. ASSUME NEW w \in Workers, WorkerDies(w) PROVE JobsInv'
  <2>1. worker' \in [Workers -> WorkerState] /\ UNCHANGED <<job, grants>>
        /\ \A x \in Workers : worker'[x] = worker[x] \/ worker'[x].pc = "rest"
    BY <1>0, <1>00, <1>3 DEF WorkerDies, Turns
  <2>2. QED
    BY <2>1 DEF JobsInv, JobsTypeOK, AttemptsGranted, Works
\* The clock and the reclaim change rows, and no attempts.
<1>4. ASSUME UNCHANGED <<worker, grants>>, job' \in [Jobs -> SUBSET JobRow],
             \A j \in Jobs : \A row \in job'[j] : \E old \in job[j] :
               /\ row.attempt = old.attempt
               /\ row.state = "dead" => old.state = "dead" \/ Exhausted(old)
      PROVE  JobsInv'
  <2>1. JobsTypeOK'
    BY <1>0, <1>4 DEF JobsTypeOK
  <2>2. \A j \in Jobs : \A row \in job'[j] :
          row.attempt <= grants[j] /\ (row.state = "dead" => row.attempt >= MaxAttempts)
    BY <1>0, <1>4 DEF Exhausted
  <2>3. QED
    BY <1>4, <2>1, <2>2 DEF JobsInv, AttemptsGranted, Works
<1>5. ASSUME NEW j \in Jobs, TimePasses(j) PROVE JobsInv'
  <2>1. PICK row \in job[j], new \in JobRow :
          /\ job' = [job EXCEPT ![j] = {new}]
          /\ new.attempt = row.attempt /\ new.state = row.state
    <3>1. PICK row \in job[j] : \/ Writes(j, [row EXCEPT !.expired = TRUE])
                               \/ Writes(j, [row EXCEPT !.due = TRUE])
      BY <1>5 DEF TimePasses, Passes
    <3>2. row \in JobRow
      BY <1>0
    <3>3. /\ [row EXCEPT !.expired = TRUE] \in JobRow /\ [row EXCEPT !.due = TRUE] \in JobRow
          /\ [row EXCEPT !.expired = TRUE].attempt = row.attempt
          /\ [row EXCEPT !.expired = TRUE].state = row.state
          /\ [row EXCEPT !.due = TRUE].attempt = row.attempt
          /\ [row EXCEPT !.due = TRUE].state = row.state
      BY <3>2 DEF JobRow
    <3>4. QED
      BY <3>1, <3>3 DEF Writes
  <2>2. /\ job' \in [Jobs -> SUBSET JobRow] /\ job'[j] = {new}
        /\ \A i \in Jobs \ {j} : job'[i] = job[i]
    BY <1>0, <2>1
  <2>3. QED
    BY <1>4, <1>5, <2>1, <2>2 DEF TimePasses
<1>6. ASSUME Reclaim PROVE JobsInv'
  <2>1. PICK js \in SUBSET Jobs :
          job' = [j \in Jobs |-> IF j \in js THEN {Reclaimed(row) : row \in job[j]} ELSE job[j]]
    BY <1>6 DEF Reclaim
  <2>2. ASSUME NEW row \in JobRow
        PROVE  /\ Reclaimed(row) \in JobRow /\ Reclaimed(row).attempt = row.attempt
               /\ Reclaimed(row).state = "dead" => Exhausted(row)
    <3>1. row.due \in BOOLEAN
      BY DEF JobRow
    <3>2. QED
      BY <3>1, FreedRow DEF Reclaimed
  <2>3. \A j \in Jobs : \A row \in job'[j] : \E old \in job[j] :
          /\ row \in JobRow /\ row.attempt = old.attempt
          /\ row.state = "dead" => old.state = "dead" \/ Exhausted(old)
    <3> SUFFICES ASSUME NEW j \in Jobs, NEW row \in job'[j]
                 PROVE  \E old \in job[j] :
                          /\ row \in JobRow /\ row.attempt = old.attempt
                          /\ row.state = "dead" => old.state = "dead" \/ Exhausted(old)
      OBVIOUS
    <3>1. CASE j \in js
      <4>1. PICK old \in job[j] : row = Reclaimed(old)
        BY <2>1, <3>1
      <4>2. QED
        BY <1>0, <2>2, <4>1
    <3>2. CASE j \notin js
      BY <1>0, <2>1, <3>2
    <3>3. QED
      BY <3>1, <3>2
  <2>4. job' \in [Jobs -> SUBSET JobRow]
    <3>1. DOMAIN job' = Jobs /\ job' = [j \in Jobs |-> job'[j]]
      BY <2>1
    <3>2. QED
      BY <2>3, <3>1
  <2>5. UNCHANGED <<worker, grants>>
    BY <1>6 DEF Reclaim
  <2>6. QED
    BY <1>4, <2>3, <2>4, <2>5
<1>7. QED
  BY <1>1, <1>2, <1>3, <1>5, <1>6 DEF JobsNext

\* The invariant of the jobs: attempts are bounded by grants, copies included.
THEOREM JobsInvariant == JobsSpec => []JobsInv
BY JobsInvInit, JobsInvStep, PTL DEF JobsSpec

\* Jobs and workers keep their shape.
THEOREM JobsTypeCorrect == JobsSpec => []JobsTypeOK
<1>1. JobsInv => JobsTypeOK
  BY DEF JobsInv
<1>2. QED
  BY <1>1, JobsInvariant, PTL

\* A job is given up only after it was leased max_attempts times, whatever outcomes come
\* late and however enqueues and reclaims overlap (agentic/jobs.ts).
THEOREM JobsDieExhausted == JobsSpec => []DeadIsExhausted
<1>1. ASSUME JobsInv PROVE DeadIsExhausted
  <2> SUFFICES ASSUME NEW j \in Jobs, NEW row \in job[j], row.state = "dead"
               PROVE  grants[j] >= MaxAttempts
    BY DEF DeadIsExhausted
  <2>1. row.attempt \in Nat /\ grants[j] \in Nat /\ MaxAttempts \in Nat
    BY <1>1, JobsAssumption DEF JobsInv, JobsTypeOK, JobRow
  <2>2. row.attempt <= grants[j] /\ row.attempt >= MaxAttempts
    BY <1>1 DEF JobsInv, AttemptsGranted
  <2>3. QED
    BY <2>1, <2>2
<1>2. QED
  BY <1>1, JobsInvariant, PTL
-----------------------------------------------------------------------------
(* The review of held evidence *)

\* What a process may still rely on although others ran in between: a disposition and a
\* review are written once, so what it read of them, or wrote itself, is still there.
ClerkOK(p) ==
  \A v \in Evidence :
    /\ ClerkAt(p, "insert", v)  => clerk[p].says \in Dispositions
    /\ ClerkAt(p, "observe", v) => clerk[p].says # "none" /\ dispositions[v] = clerk[p].says
    /\ ClerkAt(p, "review", v)  => clerk[p].says \in Decisions /\ dispositions[v] = "hold"
    /\ ClerkAt(p, "recheck", v) => clerk[p].says \in Decisions /\ reviews[v] # "none"
    /\ ClerkAt(p, "promote", v) => clerk[p].says = "promote" /\ reviews[v] = "promote"

\* Only what is held is reviewed, and what a review observes is active.
ReviewsOfHeld ==
  /\ \A v \in Evidence : reviews[v] # "none" => dispositions[v] = "hold"
  /\ \A o \in observations : o.by = "review" => o.lifecycle = "active"

HeldInv ==
  /\ HeldTypeOK
  /\ \A p \in Reviewing : ClerkOK(p)
  /\ ReviewsOfHeld
  /\ ActiveAsDecided

LEMMA HeldInvInit == HeldInit => HeldInv
<1> SUFFICES ASSUME HeldInit PROVE HeldInv
  OBVIOUS
<1>1. HeldTypeOK
  BY DEF HeldInit, HeldTypeOK, FreeClerk, Clerk
<1>2. \A p \in Reviewing : ClerkOK(p)
  BY DEF HeldInit, ClerkOK, ClerkAt, FreeClerk
<1>3. ReviewsOfHeld /\ ActiveAsDecided
  BY DEF HeldInit, ReviewsOfHeld, ActiveAsDecided
<1>4. QED
  BY <1>1, <1>2, <1>3 DEF HeldInv

\* The tables only grow: decisions stay, and so do Observations.
HeldGrows ==
  /\ \A v \in Evidence : dispositions[v] # "none" => dispositions'[v] = dispositions[v]
  /\ \A v \in Evidence : reviews[v] # "none" => reviews'[v] = reviews[v]
  /\ observations \subseteq observations'

\* While the tables only grow, what the other processes rely on stays.
LEMMA ClerksKeep ==
  ASSUME HeldInv, HeldGrows, HeldTypeOK', NEW p \in Reviewing, ClerkOK(p)',
         \A q \in Reviewing \ {p} : clerk'[q] = clerk[q]
  PROVE  \A q \in Reviewing : ClerkOK(q)'
<1> SUFFICES ASSUME NEW q \in Reviewing, q # p PROVE ClerkOK(q)'
  OBVIOUS
<1>1. clerk'[q] = clerk[q] /\ ClerkOK(q)
  BY DEF HeldInv
<1>2. QED
  BY <1>1 DEF ClerkOK, ClerkAt, HeldGrows, Dispositions, Decisions

\* Where a process can go.
LEMMA ClerkGoes ==
  ASSUME HeldInv, NEW p \in Reviewing, NEW v \in Evidence
  PROVE  /\ ClerkFree(p) =>
              /\ clerk' \in [Reviewing -> Clerk] /\ clerk'[p].pc = "free"
              /\ \A q \in Reviewing \ {p} : clerk'[q] = clerk[q]
         /\ \A pc \in {"insert", "observe", "review", "recheck", "promote"},
              says \in Dispositions :
              ClerkTo(p, pc, v, says) =>
                /\ clerk' \in [Reviewing -> Clerk]
                /\ clerk'[p] = [pc |-> pc, on |-> {v}, says |-> says]
                /\ \A q \in Reviewing \ {p} : clerk'[q] = clerk[q]
<1>0. clerk \in [Reviewing -> Clerk] /\ FreeClerk \in Clerk /\ FreeClerk.pc = "free"
  BY DEF HeldInv, HeldTypeOK, FreeClerk, Clerk
<1>1. ASSUME ClerkFree(p)
      PROVE  /\ clerk' \in [Reviewing -> Clerk] /\ clerk'[p].pc = "free"
             /\ \A q \in Reviewing \ {p} : clerk'[q] = clerk[q]
  BY <1>0, <1>1 DEF ClerkFree
<1>2. ASSUME NEW pc \in {"insert", "observe", "review", "recheck", "promote"},
             NEW says \in Dispositions, ClerkTo(p, pc, v, says)
      PROVE  /\ clerk' \in [Reviewing -> Clerk]
             /\ clerk'[p] = [pc |-> pc, on |-> {v}, says |-> says]
             /\ \A q \in Reviewing \ {p} : clerk'[q] = clerk[q]
  <2>1. [pc |-> pc, on |-> {v}, says |-> says] \in Clerk
    BY DEF Clerk
  <2>2. QED
    BY <1>0, <1>2, <2>1 DEF ClerkTo
<1>3. QED
  BY <1>1, <1>2

LEMMA HeldInvStep == HeldInv /\ [HeldNext]_heldVars => HeldInv'
<1> SUFFICES ASSUME HeldInv, [HeldNext]_heldVars PROVE HeldInv'
  OBVIOUS
<1>0. /\ dispositions \in [Evidence -> {"none"} \cup Dispositions]
      /\ reviews \in [Evidence -> {"none"} \cup Decisions]
      /\ observations \subseteq StoredObservation
      /\ clerk \in [Reviewing -> Clerk]
      /\ answers \subseteq [of : Evidence, decision : Decisions]
  BY DEF HeldInv, HeldTypeOK
<1>1. CASE UNCHANGED heldVars
  BY <1>1 DEF heldVars, HeldInv, HeldTypeOK, ClerkOK, ClerkAt, ReviewsOfHeld, ActiveAsDecided
\* A step of one process that changes no table.
<1>2. ASSUME NEW p \in Reviewing, UNCHANGED <<dispositions, reviews, observations, answers>>,
             clerk' \in [Reviewing -> Clerk], ClerkOK(p)',
             \A q \in Reviewing \ {p} : clerk'[q] = clerk[q]
      PROVE  HeldInv'
  <2>1. HeldTypeOK' /\ HeldGrows
    BY <1>0, <1>2 DEF HeldTypeOK, HeldGrows
  <2>2. \A q \in Reviewing : ClerkOK(q)'
    BY <1>2, <2>1, ClerksKeep
  <2>3. ReviewsOfHeld' /\ ActiveAsDecided'
    BY <1>2 DEF HeldInv, ReviewsOfHeld, ActiveAsDecided
  <2>4. QED
    BY <2>1, <2>2, <2>3 DEF HeldInv
<1>3. ASSUME NEW p \in Reviewing, ClerkStops(p) PROVE HeldInv'
  <2>1. /\ clerk' \in [Reviewing -> Clerk] /\ clerk'[p].pc = "free"
        /\ \A q \in Reviewing \ {p} : clerk'[q] = clerk[q]
    <3>1. FreeClerk \in Clerk /\ FreeClerk.pc = "free"
      BY DEF FreeClerk, Clerk
    <3>2. QED
      BY <1>0, <1>3, <3>1 DEF ClerkStops, ClerkFree
  <2>2. ClerkOK(p)'
    BY <2>1 DEF ClerkOK, ClerkAt
  <2>3. QED
    BY <1>2, <1>3, <2>1, <2>2 DEF ClerkStops
<1>4. ASSUME NEW p \in Reviewing, NEW v \in Evidence, ClerkStep(p, v) PROVE HeldInv'
  <2>0. ClerkOK(p) /\ clerk[p] \in Clerk
    BY <1>0 DEF HeldInv
  <2>1. ASSUME NEW verdict \in Dispositions, Adjudicate(p, v, verdict) PROVE HeldInv'
    <3>0. UNCHANGED <<dispositions, reviews, observations, answers>>
      BY <2>1 DEF Adjudicate
    <3>1. dispositions[v] \in {"none"} \cup Dispositions
      BY <1>0
    <3>2. CASE ClerkFree(p)
      <4>1. clerk'[p].pc = "free" /\ clerk' \in [Reviewing -> Clerk]
            /\ \A q \in Reviewing \ {p} : clerk'[q] = clerk[q]
        BY <3>2, ClerkGoes
      <4>2. ClerkOK(p)'
        BY <4>1 DEF ClerkOK, ClerkAt
      <4>3. QED
        BY <1>2, <3>0, <4>1, <4>2
    <3>3. CASE ClerkTo(p, "insert", v, verdict)
      <4>1. /\ clerk'[p] = [pc |-> "insert", on |-> {v}, says |-> verdict]
            /\ clerk' \in [Reviewing -> Clerk]
            /\ \A q \in Reviewing \ {p} : clerk'[q] = clerk[q]
        BY <3>3, ClerkGoes
      <4>2. ClerkOK(p)'
        BY <4>1 DEF ClerkOK, ClerkAt
      <4>3. QED
        BY <1>2, <3>0, <4>1, <4>2
    <3>4. CASE dispositions[v] \in Dispositions /\ ClerkTo(p, "observe", v, dispositions[v])
      <4>1. /\ clerk'[p] = [pc |-> "observe", on |-> {v}, says |-> dispositions[v]]
            /\ clerk' \in [Reviewing -> Clerk]
            /\ \A q \in Reviewing \ {p} : clerk'[q] = clerk[q]
        BY <3>4, ClerkGoes
      <4>2. ClerkOK(p)'
        BY <3>0, <3>4, <4>1 DEF ClerkOK, ClerkAt, Dispositions
      <4>3. QED
        BY <1>2, <3>0, <4>1, <4>2
    <3>5. QED
      BY <2>1, <3>1, <3>2, <3>3, <3>4 DEF Adjudicate
  <2>2. CASE InsertDisposition(p, v)
    <3> DEFINE says == clerk[p].says
    <3>0. says \in Dispositions /\ UNCHANGED <<reviews, observations, answers>>
      BY <2>0, <2>2 DEF InsertDisposition, ClerkOK
    <3>1. CASE dispositions[v] # "none"
      <4>1. ClerkFree(p) /\ UNCHANGED dispositions
        BY <2>2, <3>1 DEF InsertDisposition
      <4>2. clerk'[p].pc = "free" /\ clerk' \in [Reviewing -> Clerk]
            /\ \A q \in Reviewing \ {p} : clerk'[q] = clerk[q]
        BY <4>1, ClerkGoes
      <4>3. ClerkOK(p)'
        BY <4>2 DEF ClerkOK, ClerkAt
      <4>4. QED
        BY <1>2, <3>0, <4>1, <4>2, <4>3
    <3>2. CASE dispositions[v] = "none"
      <4>1. /\ dispositions' = [dispositions EXCEPT ![v] = says]
            /\ ClerkFree(p) \/ ClerkTo(p, "observe", v, says)
        BY <2>2, <3>2 DEF InsertDisposition
      <4>2. /\ dispositions' \in [Evidence -> {"none"} \cup Dispositions]
            /\ dispositions'[v] = says /\ says # "none"
            /\ \A x \in Evidence \ {v} : dispositions'[x] = dispositions[x]
        BY <1>0, <3>0, <4>1 DEF Dispositions
      <4>3. /\ clerk' \in [Reviewing -> Clerk]
            /\ \A q \in Reviewing \ {p} : clerk'[q] = clerk[q]
            /\ clerk'[p].pc = "free" \/ clerk'[p] = [pc |-> "observe", on |-> {v}, says |-> says]
        BY <3>0, <4>1, ClerkGoes
      <4>4. ClerkOK(p)'
        BY <4>2, <4>3 DEF ClerkOK, ClerkAt
      <4>5. HeldTypeOK' /\ HeldGrows
        BY <1>0, <3>0, <3>2, <4>2, <4>3 DEF HeldTypeOK, HeldGrows
      <4>6. \A q \in Reviewing : ClerkOK(q)'
        BY <4>3, <4>4, <4>5, ClerksKeep
      <4>7. reviews[v] = "none"
        BY <3>2 DEF HeldInv, ReviewsOfHeld
      <4>8. ReviewsOfHeld'
        BY <3>0, <4>2, <4>7 DEF HeldInv, ReviewsOfHeld
      <4>9. \A o \in observations : o.of \in Evidence
        BY <1>0 DEF StoredObservation
      <4>10. ActiveAsDecided'
        BY <3>0, <3>2, <4>2, <4>9 DEF HeldInv, ActiveAsDecided
      <4>11. QED
        BY <4>5, <4>6, <4>8, <4>10 DEF HeldInv
    <3>3. QED
      BY <3>1, <3>2
  <2>3. CASE ObserveByPolicy(p, v)
    <3> DEFINE new == [of |-> v, by |-> "policy",
                       lifecycle |-> IF clerk[p].says = "promote" THEN "active" ELSE "draft"]
    <3>0. UNCHANGED <<dispositions, reviews, answers>> /\ dispositions[v] = clerk[p].says
      BY <2>0, <2>3 DEF ObserveByPolicy, ClerkOK
    <3>1. observations' = observations \/ observations' = observations \cup {new}
      BY <2>3 DEF ObserveByPolicy, Observing
    <3>2. clerk'[p].pc = "free" /\ clerk' \in [Reviewing -> Clerk]
          /\ \A q \in Reviewing \ {p} : clerk'[q] = clerk[q]
      BY <2>3, ClerkGoes DEF ObserveByPolicy
    <3>3. /\ new \in StoredObservation /\ new.by = "policy" /\ new.of = v
          /\ new.lifecycle = "active" => dispositions[v] = "promote"
      BY <3>0 DEF StoredObservation
    <3> HIDE DEF new
    <3>4. HeldTypeOK' /\ HeldGrows
      BY <1>0, <3>0, <3>1, <3>2, <3>3 DEF HeldTypeOK, HeldGrows
    <3>5. ClerkOK(p)'
      BY <3>2 DEF ClerkOK, ClerkAt
    <3>6. \A q \in Reviewing : ClerkOK(q)'
      BY <3>2, <3>4, <3>5, ClerksKeep
    <3>7. ReviewsOfHeld' /\ ActiveAsDecided'
      BY <3>0, <3>1, <3>3 DEF HeldInv, ReviewsOfHeld, ActiveAsDecided
    <3>8. QED
      BY <3>4, <3>6, <3>7 DEF HeldInv
  \* A decision meets a review.
  <2>4. ASSUME NEW decision \in Decisions, Meets(p, v, decision, reviews[v]),
               UNCHANGED <<dispositions, reviews, observations>>, reviews[v] # "none"
        PROVE  HeldInv'
    <3>0. decision \in Dispositions
      BY DEF Decisions, Dispositions
    <3>1. CASE ClerkFree(p) /\ UNCHANGED answers
      <4>1. clerk'[p].pc = "free" /\ clerk' \in [Reviewing -> Clerk]
            /\ \A q \in Reviewing \ {p} : clerk'[q] = clerk[q]
        BY <3>1, ClerkGoes
      <4>2. ClerkOK(p)'
        BY <4>1 DEF ClerkOK, ClerkAt
      <4>3. QED
        BY <1>2, <2>4, <3>1, <4>1, <4>2
    <3>2. CASE /\ reviews[v] = "reject" /\ ClerkFree(p)
               /\ answers' = answers \cup {[of |-> v, decision |-> "reject"]}
      <4>1. clerk'[p].pc = "free" /\ clerk' \in [Reviewing -> Clerk]
            /\ \A q \in Reviewing \ {p} : clerk'[q] = clerk[q]
        BY <3>2, ClerkGoes
      <4>2. ClerkOK(p)'
        BY <4>1 DEF ClerkOK, ClerkAt
      <4>3. HeldTypeOK' /\ HeldGrows
        BY <1>0, <2>4, <3>2, <4>1 DEF HeldTypeOK, HeldGrows, Decisions
      <4>4. \A q \in Reviewing : ClerkOK(q)'
        BY <4>1, <4>2, <4>3, ClerksKeep
      <4>5. ReviewsOfHeld'
        BY <2>4 DEF HeldInv, ReviewsOfHeld
      <4>6. ASSUME NEW o \in observations, o.of = v, o.by = "review", o.lifecycle = "active"
            PROVE  FALSE
        BY <3>2, <4>6 DEF HeldInv, ActiveAsDecided
      <4>7. ActiveAsDecided'
        BY <2>4, <3>2, <4>6 DEF HeldInv, ActiveAsDecided
      <4>8. QED
        BY <4>3, <4>4, <4>5, <4>7 DEF HeldInv
    <3>3. CASE /\ reviews[v] = "promote" /\ decision = "promote"
               /\ ClerkTo(p, "promote", v, decision) /\ UNCHANGED answers
      <4>1. /\ clerk'[p] = [pc |-> "promote", on |-> {v}, says |-> decision]
            /\ clerk' \in [Reviewing -> Clerk]
            /\ \A q \in Reviewing \ {p} : clerk'[q] = clerk[q]
        <5>1. ClerkTo(p, "promote", v, decision)
          BY <3>3
        <5>2. QED
          BY <3>0, <5>1, ClerkGoes
      <4>2. ClerkOK(p)'
        BY <2>4, <3>3, <4>1 DEF ClerkOK, ClerkAt
      <4>3. QED
        BY <1>2, <2>4, <3>3, <4>1, <4>2
    <3>4. QED
      BY <2>4, <3>1, <3>2, <3>3 DEF Meets, Decisions
  <2>5. ASSUME NEW decision \in Decisions, Review(p, v, decision) PROVE HeldInv'
    <3>0. UNCHANGED <<dispositions, reviews, observations>> /\ dispositions[v] = "hold"
          /\ decision \in Dispositions
      BY <2>5 DEF Review, Decisions, Dispositions
    <3>1. CASE reviews[v] = "none"
      <4>1. ClerkTo(p, "review", v, decision) /\ UNCHANGED answers
        BY <2>5, <3>1 DEF Review
      <4>2. /\ clerk'[p] = [pc |-> "review", on |-> {v}, says |-> decision]
            /\ clerk' \in [Reviewing -> Clerk]
            /\ \A q \in Reviewing \ {p} : clerk'[q] = clerk[q]
        BY <3>0, <4>1, ClerkGoes
      <4>3. ClerkOK(p)'
        BY <3>0, <4>2 DEF ClerkOK, ClerkAt
      <4>4. QED
        BY <1>2, <3>0, <4>1, <4>2, <4>3
    <3>2. CASE reviews[v] # "none"
      BY <2>4, <2>5, <3>0, <3>2 DEF Review
    <3>3. QED
      BY <3>1, <3>2
  <2>6. CASE InsertReview(p, v)
    <3> DEFINE says == clerk[p].says
    <3>0. /\ says \in Decisions /\ says \in Dispositions /\ dispositions[v] = "hold"
          /\ UNCHANGED <<dispositions, observations, answers>>
      BY <2>0, <2>6 DEF InsertReview, ClerkOK, Decisions, Dispositions
    <3>1. reviews' = IF reviews[v] = "none" THEN [reviews EXCEPT ![v] = says] ELSE reviews
      BY <2>6 DEF InsertReview
    <3>2. /\ clerk'[p] = [pc |-> "recheck", on |-> {v}, says |-> says]
          /\ clerk' \in [Reviewing -> Clerk]
          /\ \A q \in Reviewing \ {p} : clerk'[q] = clerk[q]
      BY <2>6, <3>0, ClerkGoes DEF InsertReview
    <3> HIDE DEF says
    <3>3. /\ reviews' \in [Evidence -> {"none"} \cup Decisions] /\ reviews'[v] # "none"
          /\ \A x \in Evidence : reviews[x] # "none" => reviews'[x] = reviews[x]
          /\ \A x \in Evidence \ {v} : reviews'[x] = reviews[x]
      BY <1>0, <3>0, <3>1 DEF Decisions
    <3>4. HeldTypeOK' /\ HeldGrows
      BY <1>0, <3>0, <3>2, <3>3 DEF HeldTypeOK, HeldGrows
    <3>5. ClerkOK(p)'
      BY <3>0, <3>2, <3>3 DEF ClerkOK, ClerkAt
    <3>6. \A q \in Reviewing : ClerkOK(q)'
      BY <3>2, <3>4, <3>5, ClerksKeep
    <3>7. ReviewsOfHeld'
      BY <3>0, <3>3 DEF HeldInv, ReviewsOfHeld
    <3>8. \A o \in observations : o.of \in Evidence /\ o.by \in {"policy", "review"}
      BY <1>0 DEF StoredObservation
    <3>9. \A a \in answers : a.of \in Evidence /\ a.decision # "none"
      BY <1>0 DEF Decisions
    <3>10. ActiveAsDecided'
      BY <3>0, <3>3, <3>8, <3>9 DEF HeldInv, ActiveAsDecided
    <3>11. QED
      BY <3>4, <3>6, <3>7, <3>10 DEF HeldInv
  <2>7. CASE RecheckReview(p, v)
    <3>1. clerk[p].says \in Decisions /\ reviews[v] # "none"
      BY <2>0, <2>7 DEF RecheckReview, ClerkOK
    <3>2. QED
      BY <2>4, <2>7, <3>1 DEF RecheckReview
  <2>8. CASE PromoteHeld(p, v)
    <3> DEFINE new == [of |-> v, by |-> "review", lifecycle |-> "active"]
               ans == [of |-> v, decision |-> "promote"]
    <3>0. /\ UNCHANGED <<dispositions, reviews>> /\ answers' = answers \cup {ans}
          /\ reviews[v] = "promote" /\ dispositions[v] = "hold"
      BY <2>0, <2>8 DEF PromoteHeld, ClerkOK, HeldInv, ReviewsOfHeld
    <3>1. /\ observations \subseteq observations' /\ observations' \subseteq observations \cup {new}
          /\ \E o \in observations' : o.of = v /\ o.by = "review"
      <4>1. CASE \E o \in observations : o.of = v /\ o.by = "review"
        BY <2>8, <4>1 DEF PromoteHeld, Observing
      <4>2. CASE ~ \E o \in observations : o.of = v /\ o.by = "review"
        <5>1. observations' = observations \cup {new}
          BY <2>8, <4>2 DEF PromoteHeld, Observing
        <5>2. new \in observations' /\ new.of = v /\ new.by = "review"
          BY <5>1
        <5>3. QED
          BY <5>1, <5>2
      <4>3. QED
        BY <4>1, <4>2
    <3>2. clerk'[p].pc = "free" /\ clerk' \in [Reviewing -> Clerk]
          /\ \A q \in Reviewing \ {p} : clerk'[q] = clerk[q]
      BY <2>8, ClerkGoes DEF PromoteHeld
    <3>3. /\ new \in StoredObservation /\ new.by = "review" /\ new.of = v /\ new.lifecycle = "active"
          /\ ans \in [of : Evidence, decision : Decisions] /\ ans.of = v /\ ans.decision = "promote"
      BY DEF StoredObservation, Decisions
    <3> HIDE DEF new, ans
    <3>4. HeldTypeOK' /\ HeldGrows
      BY <1>0, <3>0, <3>1, <3>2, <3>3 DEF HeldTypeOK, HeldGrows
    <3>5. ClerkOK(p)'
      BY <3>2 DEF ClerkOK, ClerkAt
    <3>6. \A q \in Reviewing : ClerkOK(q)'
      BY <3>2, <3>4, <3>5, ClerksKeep
    <3>7. ReviewsOfHeld'
      BY <3>0, <3>1, <3>3 DEF HeldInv, ReviewsOfHeld
    <3>8. \E o \in observations' : o.of = v /\ o.by = "review" /\ o.lifecycle = "active"
      BY <3>1, <3>7 DEF ReviewsOfHeld
    <3>9. \A o \in observations' : o.lifecycle = "active" =>
            IF o.by = "policy" THEN dispositions[o.of] = "promote"
            ELSE dispositions[o.of] = "hold" /\ reviews[o.of] = "promote"
      BY <3>0, <3>1, <3>3 DEF HeldInv, ActiveAsDecided
    <3>10. ASSUME NEW a \in answers'
           PROVE  /\ reviews[a.of] = a.decision
                  /\ a.decision = "promote" <=>
                       \E o \in observations' : o.of = a.of /\ o.by = "review" /\ o.lifecycle = "active"
      <4>1. CASE a.of = v
        <5>1. a.decision = "promote"
          BY <3>0, <3>3, <3>10, <4>1 DEF HeldInv, ActiveAsDecided
        <5>2. QED
          BY <3>0, <3>8, <4>1, <5>1
      <4>2. CASE a.of # v
        <5>1. a \in answers
          BY <3>0, <3>3, <3>10, <4>2
        <5>2. QED
          BY <3>1, <3>3, <4>2, <5>1 DEF HeldInv, ActiveAsDecided
      <4>3. QED
        BY <4>1, <4>2
    <3>11. ActiveAsDecided'
      BY <3>0, <3>9, <3>10 DEF ActiveAsDecided
    <3>12. QED
      BY <3>4, <3>6, <3>7, <3>11 DEF HeldInv
  <2>9. QED
    BY <1>4, <2>1, <2>2, <2>3, <2>5, <2>6, <2>7, <2>8 DEF ClerkStep
<1>5. QED
  BY <1>1, <1>3, <1>4 DEF HeldNext

\* The invariant of the reviews, with what each process relies on.
THEOREM HeldInvariant == HeldSpec => []HeldInv
BY HeldInvInit, HeldInvStep, PTL DEF HeldSpec

\* Dispositions, reviews, Observations and processes keep their shape.
THEOREM HeldTypeCorrect == HeldSpec => []HeldTypeOK
<1>1. HeldInv => HeldTypeOK
  BY DEF HeldInv
<1>2. QED
  BY <1>1, HeldInvariant, PTL

\* Evidence becomes active knowledge only as the stored decisions have it, and what a
\* reviewer was told stays true, for any number of processes that adjudicate and review at
\* once and stop anywhere (reviewHeldDisposition, adjudicateEvidenceArtifact).
THEOREM HeldActiveAsDecided == HeldSpec => []ActiveAsDecided
<1>1. HeldInv => ActiveAsDecided
  BY DEF HeldInv
<1>2. QED
  BY <1>1, HeldInvariant, PTL

-----------------------------------------------------------------------------
(* The embedding jobs *)

EmbedPcs == {"idle", "ensure", "create", "scan", "lease", "embed", "look", "ack"}
EmbedRun == [pc : EmbedPcs, rebuilt : SUBSET Chunks, todo : Seq(Chunks)]

\* A run that treats chunks or jobs has one to treat, and acknowledges one only after its
\* vector is stored.
EmbedRunOK(rec, stored) ==
  /\ rec.pc \in {"ensure", "create", "lease", "embed", "look", "ack"} => rec.todo # <<>>
  /\ rec.pc \in {"look", "ack"} => Head(rec.todo) \in stored

JobRowsOK(table) ==
  table \in [Chunks -> SUBSET EmbeddingRow] /\ \A k \in Chunks : Cardinality(table[k]) <= 1

EmbedTablesOK ==
  /\ projected \in [Chunks -> {"no", "active", "gone"}]
  /\ JobRowsOK(embedJobs) /\ jobOrder \in Seq(Chunks)
  /\ records \subseteq vectors /\ vectors \subseteq Chunks
  /\ stalls \in 0 .. MaxStalls

EmbedInv ==
  /\ EmbedTablesOK
  /\ embedder \in [Embedders -> EmbedRun]
  /\ \A e \in Embedders : EmbedRunOK(embedder[e], vectors)

\* A run goes on with another record, and the others keep theirs.
EmbedGoes(e, rec) == rec \in EmbedRun /\ EmbedRunOK(rec, vectors') /\ EmbedTo(e, rec)

LEMMA UnstartedIs == Unstarted \in EmbedRun /\ \A stored : EmbedRunOK(Unstarted, stored)
<1>1. PICK pc \in EmbedPcs, todo \in Seq(Chunks) : pc = "idle" /\ todo = <<>>
  BY EmptySeq DEF EmbedPcs
<1>2. Unstarted = [pc |-> pc, rebuilt |-> {}, todo |-> todo]
  BY <1>1 DEF Unstarted
<1>3. QED
  BY <1>1, <1>2 DEF EmbedRun, EmbedRunOK

LEMMA EmbedInvInit == EmbedAssumption /\ EmbedInit => EmbedInv
<1> SUFFICES ASSUME EmbedAssumption, EmbedInit PROVE EmbedInv
  OBVIOUS
<1>1. EmbedTablesOK
  BY FS_EmptySet, EmptySeq DEF EmbedTablesOK, JobRowsOK, EmbedInit, EmbedAssumption
<1>2. QED
  BY <1>1, UnstartedIs DEF EmbedInv, EmbedInit

LEMMA EmbedRunsKeep ==
  ASSUME EmbedInv, NEW e \in Embedders, NEW rec, EmbedGoes(e, rec), vectors \subseteq vectors'
  PROVE  /\ embedder' \in [Embedders -> EmbedRun]
         /\ \A e2 \in Embedders : EmbedRunOK(embedder'[e2], vectors')
<1>1. embedder' = [embedder EXCEPT ![e] = rec] /\ rec \in EmbedRun
  BY DEF EmbedGoes, EmbedTo
<1>2. ASSUME NEW e2 \in Embedders PROVE EmbedRunOK(embedder'[e2], vectors')
  <2>1. CASE e2 = e
    BY <1>1, <2>1 DEF EmbedInv, EmbedGoes
  <2>2. CASE e2 # e
    BY <1>1, <2>2 DEF EmbedInv, EmbedRunOK
  <2>3. QED
    BY <2>1, <2>2
<1>3. QED
  BY <1>1, <1>2 DEF EmbedInv

LEMMA GoingIs ==
  ASSUME EmbedInv, NEW e \in Embedders, NEW pc \in EmbedPcs, NEW todo \in Seq(Chunks)
  PROVE  /\ Going(e, pc, todo) \in EmbedRun
         /\ Going(e, pc, todo).pc = pc /\ Going(e, pc, todo).todo = todo
BY DEF EmbedInv, EmbedRun, Going

\* The jobs of a run that has some.
LEMMA TodoIs ==
  ASSUME EmbedInv, NEW e \in Embedders, embedder[e].pc \notin {"idle", "scan"}
  PROVE  /\ embedder[e].todo \in Seq(Chunks) /\ embedder[e].todo # <<>>
         /\ Next1(e) \in Chunks /\ Tail(embedder[e].todo) \in Seq(Chunks)
         /\ Len(embedder[e].todo) > 1 => Tail(embedder[e].todo) # <<>>
<1>1. PICK todo : todo = embedder[e].todo
  OBVIOUS
<1>2. todo \in Seq(Chunks) /\ todo # <<>>
  BY <1>1 DEF EmbedInv, EmbedRun, EmbedRunOK, EmbedPcs
<1>3. Head(todo) \in Chunks /\ Tail(todo) \in Seq(Chunks) /\ Len(Tail(todo)) = Len(todo) - 1
  BY <1>2, HeadTailProperties
<1>4. Len(todo) > 1 => Tail(todo) # <<>>
  BY <1>2, <1>3, LenProperties, EmptySeq
<1>5. QED
  BY <1>1, <1>2, <1>3, <1>4 DEF Next1

LEMMA EnsuredIs ==
  ASSUME EmbedInv, NEW e \in Embedders, embedder[e].pc \notin {"idle", "scan"}
  PROVE  Ensured(e) \in EmbedRun /\ \A stored : EmbedRunOK(Ensured(e), stored)
<1>1. PICK pc \in EmbedPcs, todo \in Seq(Chunks) :
        /\ pc = (IF Len(embedder[e].todo) > 1 THEN "ensure" ELSE "scan")
        /\ todo = Tail(embedder[e].todo)
  BY TodoIs DEF EmbedPcs
<1>2. Ensured(e) = Going(e, pc, todo)
  BY <1>1 DEF Ensured
<1>3. Ensured(e) \in EmbedRun /\ Ensured(e).pc = pc /\ Ensured(e).todo = todo
  BY <1>2, GoingIs
<1>4. pc \notin {"create", "lease", "embed", "look", "ack"} /\ (pc = "ensure" => todo # <<>>)
  BY <1>1, TodoIs
<1>5. QED
  BY <1>3, <1>4 DEF EmbedRunOK

LEMMA TreatedIs ==
  ASSUME EmbedInv, NEW e \in Embedders, embedder[e].pc \notin {"idle", "scan"}
  PROVE  Treated(e) \in EmbedRun /\ \A stored : EmbedRunOK(Treated(e), stored)
<1>1. CASE Len(embedder[e].todo) > 1
  <2>1. PICK pc \in EmbedPcs, todo \in Seq(Chunks) : pc = "embed" /\ todo = Tail(embedder[e].todo)
    BY TodoIs DEF EmbedPcs
  <2>2. Treated(e) = Going(e, pc, todo)
    BY <1>1, <2>1 DEF Treated
  <2>3. Treated(e) \in EmbedRun /\ Treated(e).pc = pc /\ Treated(e).todo = todo
    BY <2>2, GoingIs
  <2>4. todo # <<>>
    BY <1>1, <2>1, TodoIs
  <2>5. QED
    BY <2>1, <2>3, <2>4 DEF EmbedRunOK
<1>2. CASE ~(Len(embedder[e].todo) > 1)
  BY <1>2, UnstartedIs DEF Treated
<1>3. QED
  BY <1>1, <1>2

\* A run that stays with its chunk or job.
LEMMA StaysWithIt ==
  ASSUME EmbedInv, NEW e \in Embedders, embedder[e].pc \notin {"idle", "scan"}, NEW pc \in EmbedPcs,
         NEW stored, pc \in {"look", "ack"} => Next1(e) \in stored
  PROVE  /\ Going(e, pc, embedder[e].todo) \in EmbedRun
         /\ EmbedRunOK(Going(e, pc, embedder[e].todo), stored)
<1>1. PICK todo : todo = embedder[e].todo
  OBVIOUS
<1>2. todo \in Seq(Chunks) /\ todo # <<>>
  BY <1>1, TodoIs
<1>3. PICK rec : rec = Going(e, pc, todo)
  OBVIOUS
<1>4. rec \in EmbedRun /\ rec.pc = pc /\ rec.todo = todo
  BY <1>2, <1>3, GoingIs
<1>5. EmbedRunOK(rec, stored)
  BY <1>1, <1>2, <1>4 DEF EmbedRunOK, Next1
<1>6. QED
  BY <1>1, <1>3, <1>4, <1>5

LEMMA OneRowEach ==
  ASSUME JobRowsOK(embedJobs), NEW k \in Chunks, NEW row \in EmbeddingRow,
         embedJobs' = [embedJobs EXCEPT ![k] = {row}]
  PROVE  JobRowsOK(embedJobs')
<1>1. Cardinality({row}) = 1
  BY FS_Singleton
<1>2. QED
  BY <1>1 DEF JobRowsOK

LEMMA EmbedMoves ==
  ASSUME EmbedInv, NEW e \in Embedders, NEW rec, EmbedGoes(e, rec), vectors \subseteq vectors',
         EmbedTablesOK'
  PROVE  EmbedInv'
BY EmbedRunsKeep DEF EmbedInv

\* A step that leaves the tables as they are.
LEMMA EmbedQuiet ==
  ASSUME EmbedInv, NEW e \in Embedders, NEW rec, EmbedTo(e, rec), rec \in EmbedRun,
         EmbedRunOK(rec, vectors), UNCHANGED <<projected, embedTables, stalls>>
  PROVE  EmbedInv'
<1>1. EmbedTablesOK' /\ vectors' = vectors
  BY DEF EmbedInv, EmbedTablesOK, JobRowsOK, embedTables
<1>2. EmbedGoes(e, rec)
  BY <1>1 DEF EmbedGoes
<1>3. QED
  BY <1>1, <1>2, EmbedMoves

LEMMA BeginKeeps == ASSUME EmbedAssumption, EmbedInv, NEW e \in Embedders, BeginEmbed(e) PROVE EmbedInv'
<1>1. Active \in SUBSET Chunks /\ IsFiniteSet(Active)
  BY FS_Subset DEF Active, EmbedAssumption
<1>2. PICK pc \in EmbedPcs, todo \in Seq(Chunks) :
        /\ pc = (IF Active = {} THEN "scan" ELSE "ensure") /\ todo = SetToSeq(Active)
        /\ (todo = <<>> <=> Active = {})
  BY <1>1, SetToSeqOf DEF EmbedPcs
<1>3. PICK rec : rec = [pc |-> pc, rebuilt |-> Active, todo |-> todo]
  OBVIOUS
<1>4. rec \in EmbedRun /\ EmbedRunOK(rec, vectors)
  BY <1>1, <1>2, <1>3 DEF EmbedRun, EmbedRunOK
<1>5. EmbedTo(e, rec) /\ UNCHANGED <<projected, embedTables, stalls>>
  BY <1>2, <1>3 DEF BeginEmbed
<1>6. QED
  BY <1>4, <1>5, EmbedQuiet

LEMMA LookKeeps == ASSUME EmbedInv, NEW e \in Embedders, EnsureLook(e) PROVE EmbedInv'
<1>1. embedder[e].pc = "ensure" /\ UNCHANGED <<projected, embedTables, stalls>>
  BY DEF EnsureLook, Embeds
<1>2. CASE embedJobs[Next1(e)] = {}
  <2>1. EmbedTo(e, Going(e, "create", embedder[e].todo))
    BY <1>2 DEF EnsureLook
  <2>2. PICK pc \in EmbedPcs : pc = "create"
    BY DEF EmbedPcs
  <2>3. /\ Going(e, pc, embedder[e].todo) \in EmbedRun
        /\ EmbedRunOK(Going(e, pc, embedder[e].todo), vectors)
    BY <1>1, <2>2, StaysWithIt
  <2>4. QED
    BY <1>1, <2>1, <2>2, <2>3, EmbedQuiet
<1>3. CASE embedJobs[Next1(e)] # {}
  <2>1. EmbedTo(e, Ensured(e))
    BY <1>3 DEF EnsureLook
  <2>2. QED
    BY <1>1, <2>1, EnsuredIs, EmbedQuiet
<1>4. QED
  BY <1>2, <1>3

LEMMA CreateKeeps == ASSUME EmbedInv, NEW e \in Embedders, EnsureCreate(e) PROVE EmbedInv'
<1>1. embedder[e].pc = "create" /\ UNCHANGED <<projected, vectors, records, stalls>>
  BY DEF EnsureCreate, Embeds
<1>2. PICK k \in Chunks : k = Next1(e)
  BY <1>1, TodoIs
<1>3. JobRowsOK(embedJobs')
  <2>1. PICK row \in EmbeddingRow : row = PendingRow
    BY DEF PendingRow, EmbeddingRow
  <2>2. embedJobs' = [embedJobs EXCEPT ![k] = {row}]
    BY <1>2, <2>1 DEF EnsureCreate
  <2>3. QED
    BY <2>2, OneRowEach DEF EmbedInv, EmbedTablesOK
<1>4. jobOrder' \in Seq(Chunks)
  <2>1. PICK others \in Seq(Chunks) : others = Filtered(jobOrder, Chunks \ {k})
    BY FilteredTyped DEF EmbedInv, EmbedTablesOK
  <2>2. jobOrder' = Append(others, k)
    BY <1>2, <2>1 DEF EnsureCreate
  <2>3. QED
    BY <2>2, AppendProperties
<1>5. EmbedTablesOK'
  BY <1>1, <1>3, <1>4 DEF EmbedInv, EmbedTablesOK
<1>6. EmbedGoes(e, Ensured(e))
  BY <1>1, EnsuredIs DEF EmbedGoes, EnsureCreate
<1>7. QED
  BY <1>1, <1>5, <1>6, EmbedMoves

LEMMA ScanKeeps == ASSUME EmbedAssumption, EmbedInv, NEW e \in Embedders, LeaseScanned(e) PROVE EmbedInv'
<1>1. PICK due \in Seq(Chunks) : due = Filtered(jobOrder, DueJobs)
  BY FilteredTyped DEF EmbedInv, EmbedTablesOK
<1>2. PICK n : n = IF Len(due) < LeaseLimit THEN Len(due) ELSE LeaseLimit
  OBVIOUS
<1>3. n \in Nat /\ n <= Len(due)
  BY <1>2, LenProperties DEF EmbedAssumption
<1>4. PICK first : first = SubSeq(due, 1, n)
  OBVIOUS
<1>5. first \in Seq(Chunks)
  BY <1>3, <1>4, SubSeqProperties
<1>6. /\ EmbedTo(e, IF first = <<>> THEN Unstarted ELSE Going(e, "lease", first))
      /\ UNCHANGED <<projected, embedTables, stalls>>
  BY <1>1, <1>2, <1>4 DEF LeaseScanned
<1>7. CASE first = <<>>
  <2>1. EmbedTo(e, Unstarted)
    BY <1>6, <1>7
  <2>2. QED
    BY <1>6, <2>1, UnstartedIs, EmbedQuiet
<1>8. CASE first # <<>>
  <2>1. PICK pc \in EmbedPcs : pc = "lease"
    BY DEF EmbedPcs
  <2>2. PICK rec : rec = Going(e, pc, first)
    OBVIOUS
  <2>3. rec \in EmbedRun /\ rec.pc = pc /\ rec.todo = first
    BY <1>5, <2>2, GoingIs
  <2>4. EmbedRunOK(rec, vectors)
    BY <1>8, <2>1, <2>3 DEF EmbedRunOK
  <2>5. EmbedTo(e, rec)
    BY <1>6, <1>8, <2>1, <2>2
  <2>6. QED
    BY <1>6, <2>3, <2>4, <2>5, EmbedQuiet
<1>9. QED
  BY <1>7, <1>8

LEMMA LeaseKeeps == ASSUME EmbedInv, NEW e \in Embedders, LeaseDue(e) PROVE EmbedInv'
<1>1. embedder[e].pc = "lease" /\ UNCHANGED <<projected, jobOrder, vectors, records, stalls>>
  BY DEF LeaseDue, Embeds
<1>2. PICK got \in Seq(Chunks) : got = Filtered(embedder[e].todo, DueJobs)
  BY <1>1, TodoIs, FilteredTyped
<1>3. PICK row \in EmbeddingRow : row = [state |-> "leased", holder |-> {e}, expired |-> FALSE]
  BY DEF EmbeddingRow
<1>4. /\ embedJobs' = [k \in Chunks |-> IF k \in Range(got) THEN {row} ELSE embedJobs[k]]
      /\ EmbedTo(e, IF got = <<>> THEN Unstarted ELSE Going(e, "embed", got))
  BY <1>2, <1>3 DEF LeaseDue
<1>5. JobRowsOK(embedJobs')
  <2>1. Cardinality({row}) = 1
    BY FS_Singleton
  <2>2. QED
    BY <1>4, <2>1 DEF JobRowsOK, EmbedInv, EmbedTablesOK
<1>6. EmbedTablesOK'
  BY <1>1, <1>5 DEF EmbedInv, EmbedTablesOK
<1>7. CASE got = <<>>
  <2>1. EmbedGoes(e, Unstarted)
    BY <1>4, <1>7, UnstartedIs DEF EmbedGoes
  <2>2. QED
    BY <1>1, <1>6, <2>1, EmbedMoves
<1>8. CASE got # <<>>
  <2>1. PICK pc \in EmbedPcs : pc = "embed"
    BY DEF EmbedPcs
  <2>2. PICK rec : rec = Going(e, pc, got)
    OBVIOUS
  <2>3. rec \in EmbedRun /\ rec.pc = pc /\ rec.todo = got
    BY <2>2, GoingIs
  <2>4. EmbedGoes(e, rec)
    BY <1>4, <1>8, <2>1, <2>2, <2>3 DEF EmbedGoes, EmbedRunOK
  <2>5. QED
    BY <1>1, <1>6, <2>4, EmbedMoves
<1>9. QED
  BY <1>7, <1>8

LEMMA PassKeeps == ASSUME EmbedInv, NEW e \in Embedders, PassOver(e) PROVE EmbedInv'
<1>1. embedder[e].pc = "embed" /\ EmbedTo(e, Treated(e)) /\ UNCHANGED <<projected, embedTables, stalls>>
  BY DEF PassOver, Embeds
<1>2. QED
  BY <1>1, TreatedIs, EmbedQuiet

LEMMA VectorKeeps == ASSUME EmbedInv, NEW e \in Embedders, StoreVector(e) PROVE EmbedInv'
<1>1. /\ embedder[e].pc = "embed" /\ vectors' = vectors \cup {Next1(e)}
      /\ EmbedTo(e, Going(e, "look", embedder[e].todo))
      /\ UNCHANGED <<projected, embedJobs, jobOrder, records, stalls>>
  BY DEF StoreVector, Embeds
<1>2. Next1(e) \in Chunks
  BY <1>1, TodoIs
<1>3. EmbedTablesOK'
  BY <1>1, <1>2 DEF EmbedInv, EmbedTablesOK, JobRowsOK
<1>4. PICK pc \in EmbedPcs : pc = "look"
  BY DEF EmbedPcs
<1>5. PICK stored : stored = vectors'
  OBVIOUS
<1>6. /\ Going(e, pc, embedder[e].todo) \in EmbedRun
      /\ EmbedRunOK(Going(e, pc, embedder[e].todo), stored)
  BY <1>1, <1>5, StaysWithIt
<1>7. EmbedGoes(e, Going(e, pc, embedder[e].todo))
  BY <1>1, <1>4, <1>5, <1>6 DEF EmbedGoes
<1>8. QED
  BY <1>1, <1>3, <1>7, EmbedMoves

LEMMA AckLookKeeps == ASSUME EmbedInv, NEW e \in Embedders, AckLook(e) PROVE EmbedInv'
<1>1. embedder[e].pc = "look" /\ UNCHANGED <<projected, embedTables, stalls>>
  BY DEF AckLook, Embeds
<1>2. Next1(e) \in vectors
  BY <1>1 DEF EmbedInv, EmbedRunOK, Next1
<1>3. CASE \E row \in embedJobs[Next1(e)] : row.state = "leased" /\ row.holder = {e}
  <2>1. PICK pc \in EmbedPcs : pc = "ack"
    BY DEF EmbedPcs
  <2>2. EmbedTo(e, Going(e, pc, embedder[e].todo))
    BY <1>3, <2>1 DEF AckLook
  <2>3. /\ Going(e, pc, embedder[e].todo) \in EmbedRun
        /\ EmbedRunOK(Going(e, pc, embedder[e].todo), vectors)
    BY <1>1, <1>2, StaysWithIt
  <2>4. QED
    BY <1>1, <2>2, <2>3, EmbedQuiet
<1>4. CASE ~\E row \in embedJobs[Next1(e)] : row.state = "leased" /\ row.holder = {e}
  <2>1. EmbedTo(e, Treated(e))
    BY <1>4 DEF AckLook
  <2>2. QED
    BY <1>1, <2>1, TreatedIs, EmbedQuiet
<1>5. QED
  BY <1>3, <1>4

LEMMA AckKeeps == ASSUME EmbedInv, NEW e \in Embedders, AckEmbedded(e) PROVE EmbedInv'
<1>1. /\ embedder[e].pc = "ack" /\ records' = records \cup {Next1(e)}
      /\ EmbedTo(e, Treated(e)) /\ UNCHANGED <<projected, jobOrder, vectors, stalls>>
  BY DEF AckEmbedded, Embeds
<1>2. PICK k \in Chunks : k = Next1(e) /\ k \in vectors
  BY <1>1, TodoIs DEF EmbedInv, EmbedRunOK, Next1
<1>3. JobRowsOK(embedJobs')
  <2>1. PICK row \in EmbeddingRow : row = [state |-> "embedded", holder |-> {}, expired |-> FALSE]
    BY DEF EmbeddingRow
  <2>2. embedJobs' = [embedJobs EXCEPT ![k] = {row}]
    BY <1>2, <2>1 DEF AckEmbedded
  <2>3. QED
    BY <2>2, OneRowEach DEF EmbedInv, EmbedTablesOK
<1>4. EmbedTablesOK'
  BY <1>1, <1>2, <1>3 DEF EmbedInv, EmbedTablesOK
<1>5. EmbedGoes(e, Treated(e))
  BY <1>1, TreatedIs DEF EmbedGoes
<1>6. QED
  BY <1>1, <1>4, <1>5, EmbedMoves

LEMMA StallCounted ==
  ASSUME EmbedAssumption, EmbedInv, Stalls PROVE stalls' \in 0 .. MaxStalls
BY DEF EmbedInv, EmbedTablesOK, Stalls, EmbedAssumption

LEMMA EmbedderDeathKeeps ==
  ASSUME EmbedAssumption, EmbedInv, NEW e \in Embedders, EmbedderDies(e) PROVE EmbedInv'
<1>1. EmbedTo(e, Unstarted) /\ Stalls /\ UNCHANGED <<projected, embedTables>>
  BY DEF EmbedderDies
<1>2. EmbedTablesOK' /\ vectors' = vectors
  BY <1>1, StallCounted DEF EmbedInv, EmbedTablesOK, JobRowsOK, embedTables
<1>3. EmbedGoes(e, Unstarted)
  BY <1>1, UnstartedIs DEF EmbedGoes
<1>4. QED
  BY <1>2, <1>3, EmbedMoves

\* Time and the store go by without the runs.
LEMMA ReprojectKeeps == ASSUME EmbedInv, NEW k \in Chunks, Reproject(k) PROVE EmbedInv'
BY DEF EmbedInv, EmbedTablesOK, JobRowsOK, Reproject, embedTables

LEMMA LeaseEndKeeps ==
  ASSUME EmbedInv, NEW k \in Chunks, LeaseEnds(k), stalls' \in 0 .. MaxStalls PROVE EmbedInv'
<1>1. PICK row \in embedJobs[k] : embedJobs' = [embedJobs EXCEPT ![k] = {[row EXCEPT !.expired = TRUE]}]
  BY DEF LeaseEnds
<1>2. row \in EmbeddingRow
  BY DEF EmbedInv, EmbedTablesOK, JobRowsOK
<1>3. PICK expired \in BOOLEAN : expired = TRUE
  OBVIOUS
<1>4. PICK late : late = [row EXCEPT !.expired = expired]
  OBVIOUS
<1>5. late \in EmbeddingRow
  BY <1>2, <1>4 DEF EmbeddingRow
<1>6. embedJobs' = [embedJobs EXCEPT ![k] = {late}]
  BY <1>1, <1>3, <1>4
<1>7. JobRowsOK(embedJobs')
  BY <1>5, <1>6, OneRowEach DEF EmbedInv, EmbedTablesOK
<1>8. QED
  BY <1>7 DEF LeaseEnds, EmbedInv, EmbedTablesOK

LEMMA EmbedInvStep == EmbedAssumption /\ EmbedInv /\ [EmbedNext]_embedVars => EmbedInv'
<1> SUFFICES ASSUME EmbedAssumption, EmbedInv, [EmbedNext]_embedVars PROVE EmbedInv'
  OBVIOUS
<1>1. CASE UNCHANGED embedVars
  BY <1>1 DEF embedVars, embedTables, EmbedInv, EmbedTablesOK, JobRowsOK
<1>2. ASSUME NEW k \in Chunks, Reproject(k) \/ LeaseEndsIdle(k) \/ LeaseEndsHeld(k) PROVE EmbedInv'
  <2>1. CASE Reproject(k)
    BY <2>1, ReprojectKeeps
  <2>2. CASE LeaseEndsIdle(k)
    <3>1. LeaseEnds(k) /\ stalls' \in 0 .. MaxStalls
      BY <2>2 DEF LeaseEndsIdle, EmbedInv, EmbedTablesOK
    <3>2. QED
      BY <3>1, LeaseEndKeeps
  <2>3. CASE LeaseEndsHeld(k)
    <3>1. LeaseEnds(k) /\ stalls' \in 0 .. MaxStalls
      BY <2>3, StallCounted DEF LeaseEndsHeld
    <3>2. QED
      BY <3>1, LeaseEndKeeps
  <2>4. QED
    BY <1>2, <2>1, <2>2, <2>3
<1>3. ASSUME NEW e \in Embedders, EmbedStep(e) \/ EmbedderDies(e) PROVE EmbedInv'
  <2>1. CASE EmbedderDies(e)
    BY <2>1, EmbedderDeathKeeps
  <2>2. CASE EmbedStep(e)
    BY <2>2, BeginKeeps, LookKeeps, CreateKeeps, ScanKeeps, LeaseKeeps, PassKeeps, VectorKeeps,
       AckLookKeeps, AckKeeps DEF EmbedStep
  <2>3. QED
    BY <1>3, <2>1, <2>2
<1>4. QED
  BY <1>1, <1>2, <1>3 DEF EmbedNext

LEMMA EmbedTypes == EmbedInv => EmbedTypeOK
BY DEF EmbedInv, EmbedTablesOK, JobRowsOK, EmbedTypeOK, EmbedRun, EmbedPcs

\* A run acknowledges a job only after it has stored the vector, so that no record stands
\* for a chunk without one, and a job has one row, however runs overlap, die and lose
\* their leases (leaseEmbeddingJobs, ackEmbeddingJob).
THEOREM EmbedInvariant == EmbedSpec => []EmbedInv
<1>1. EmbedInit => EmbedInv
  BY EmbedAssumption, EmbedInvInit
<1>2. EmbedInv /\ [EmbedNext]_embedVars => EmbedInv'
  BY EmbedAssumption, EmbedInvStep
<1>3. QED
  BY <1>1, <1>2, PTL DEF EmbedSpec

\* Tables and runs keep their shape, and records have vectors.
THEOREM EmbedTyped == EmbedSpec => []EmbedTypeOK
BY EmbedTypes, EmbedInvariant, PTL

-----------------------------------------------------------------------------
(* Retrieval, the shape of the index *)

\* What searches and rebuilds hold of the table stays in it: no rebuild drops a row.
SearchTyping ==
  /\ cursor \in Nat /\ cursor <= pulled
  /\ \A c \in DOMAIN rows : rows[c] \in {"active", "projection_deleted", "stale"}
  /\ fts \subseteq DOMAIN rows
  /\ freshness \in [stale : BOOLEAN, of : Reading, after : Nat]
  /\ \A b \in Rebuilders : rebuild[b].existing \subseteq DOMAIN rows
  /\ \A q \in Readers : reader[q].chunk \cup reader[q].shown \subseteq DOMAIN rows

\* What was read has a sequence, so that there is a last one.
LEMMA GreatestIs ==
  ASSUME NEW S, S \subseteq Nat, S # {}, NEW m \in Nat, \A x \in S : x <= m PROVE Max(S) \in S
<1> DEFINE Above == {n \in Nat : \A x \in S : x <= n}
<1>1. PICK t \in Above : \A u \in Above : t <= u
  <2>1. Above \subseteq Nat /\ Above # {}
    OBVIOUS
  <2> HIDE DEF Above
  <2>2. QED
    BY <2>1, LeastOf
<1>2. t \in Nat /\ \A x \in S : x <= t
  BY <1>1
<1>3. t \in S
  <2>1. SUFFICES ASSUME t \notin S PROVE FALSE
    OBVIOUS
  <2>2. \A x \in S : x <= t - 1 /\ x \in Nat
    BY <1>2, <2>1
  <2>3. t - 1 \in Nat
    <3>1. PICK x \in S : x \in Nat
      OBVIOUS
    <3>2. QED
      BY <1>2, <2>2, <3>1
  <2>4. t - 1 \in Above
    BY <2>2, <2>3
  <2>5. QED
    BY <1>1, <1>2, <2>4
<1>4. \A y \in S : t >= y
  BY <1>2
<1>5. QED
  BY <1>3, <1>4 DEF Max

LEMMA LastIndexedIs ==
  ASSUME SearchInv, NEW r \in Reading, ReadSoFar(r) PROVE LastIndexed(r) \in Nat
<1>1. PICK n, m : n = Len(captured) /\ m = Len(zoneLog)
  OBVIOUS
<1>2. /\ n \in Nat /\ m \in Nat /\ DOMAIN captured = 1 .. n /\ DOMAIN zoneLog = 1 .. m
      /\ \A i \in 1 .. n : captured[i] \in OwnUnits
      /\ r.own \in 0 .. n /\ r.events \in 0 .. m /\ r.erasures \in 0 .. m
  BY <1>1 DEF SearchInv, StoreShape, ReadSoFar, Reading
<1>3. ASSUME NEW x \in EventsIn(r) \cup ErasuresIn(r) PROVE SequenceOf(x) \in 1 .. n \cup 1 .. m
  <2>1. CASE x \in OwnUnits
    <3>1. \E i \in DOMAIN captured : captured[i] = x
      BY <1>2, <1>3, <2>1, RetrievalAssumption DEF EventsIn, ErasuresIn
    <3>2. PositionIn(captured, x) \in 1 .. n
      BY <1>2, <3>1 DEF PositionIn
    <3>3. QED
      BY <2>1, <3>2 DEF SequenceOf
  <2>2. CASE x \notin OwnUnits
    <3>1. \E i \in DOMAIN zoneLog : zoneLog[i] = x
      BY <1>2, <1>3, <2>2 DEF EventsIn, ErasuresIn
    <3>2. PositionIn(zoneLog, x) \in 1 .. m
      BY <1>2, <3>1 DEF PositionIn
    <3>3. QED
      BY <2>2, <3>2 DEF SequenceOf
  <2>3. QED
    BY <2>1, <2>2
<1>4. PICK X : X = EventsIn(r) \cup UNION {c.sources : c \in ChunksOf(r)}
  OBVIOUS
<1>5. X \subseteq EventsIn(r) \cup ErasuresIn(r)
  <2>1. ASSUME NEW c \in ChunksOf(r) PROVE c.sources \subseteq EventsIn(r) \cup ErasuresIn(r)
    <3>1. PICK e \in EventsIn(r) : c = [primary |-> e, sources |-> SourcesOf(e, r)]
      BY DEF ChunksOf
    <3>2. SourcesOf(e, r) \subseteq EventsIn(r) \cup ErasuresIn(r)
      BY DEF SourcesOf, Related
    <3>3. QED
      BY <3>1, <3>2
  <2>2. QED
    BY <1>4, <2>1
<1>6. PICK S : S = {0} \cup {SequenceOf(x) : x \in X}
  OBVIOUS
<1>7. S \subseteq Nat /\ S # {} /\ n + m \in Nat /\ \A x \in S : x <= n + m
  BY <1>2, <1>3, <1>5, <1>6
<1>8. Max(S) \in S
  BY <1>7, GreatestIs
<1>9. QED
  BY <1>4, <1>6, <1>7, <1>8 DEF LastIndexed

LEMMA SearchTypingInit == RetrievalInit => SearchTyping
<1> SUFFICES ASSUME RetrievalInit PROVE SearchTyping
  OBVIOUS
<1>1. DOMAIN rows = {} /\ fts = {} /\ cursor = 0 /\ pulled = 0
  BY DEF RetrievalInit
<1>2. freshness \in [stale : BOOLEAN, of : Reading, after : Nat]
  <2>1. PICK stale \in BOOLEAN, of \in Reading : stale = FALSE /\ of = Nothing
    BY DEF Nothing, Reading
  <2>2. freshness = [stale |-> stale, of |-> of, after |-> 0]
    BY <2>1 DEF RetrievalInit
  <2>3. QED
    BY <2>2
<1>3. /\ \A b \in Rebuilders : rebuild[b].existing = {}
      /\ \A q \in Readers : reader[q].chunk = {} /\ reader[q].shown = {}
  BY DEF RetrievalInit
<1>4. QED
  BY <1>1, <1>2, <1>3 DEF SearchTyping

LEMMA StoreStaysTyped == ASSUME SearchInv, SearchTyping, StoreGrows PROVE SearchTyping'
<1>1. UNCHANGED <<rows, fts, freshness, rebuild, reader>>
  BY DEF StoreGrows, CaptureUnit, PushUnit, OtherDevice, Import, CommitCursor, indexVars
<1>2. cursor' \in Nat /\ cursor' <= pulled'
  BY DEF StoreGrows, CaptureUnit, PushUnit, OtherDevice, Import, CommitCursor, SearchInv, StoreShape, SearchTyping
<1>3. QED
  BY <1>1, <1>2 DEF SearchTyping

LEMMA RebuildStaysTyped ==
  ASSUME SearchInv, SearchTyping, NEW b \in Rebuilders, RebuildStep(b) PROVE SearchTyping'
<1>1. UNCHANGED <<cursor, pulled, reader>>
  BY DEF RebuildStep, ReadOwnEvents, ReadInboxEvents, ReadErasures, ReadExisting, WriteIndex, storeVars
<1>2. PICK w \in Rebuild : w = rebuild[b]
  BY DEF SearchInv
<1>3. rebuild \in [Rebuilders -> Rebuild]
  BY DEF SearchInv
<1>4. ASSUME NEW now, rebuild' = [rebuild EXCEPT ![b] = now], now.existing \subseteq DOMAIN rows',
             DOMAIN rows \subseteq DOMAIN rows',
             \A c \in DOMAIN rows' : rows'[c] \in {"active", "projection_deleted", "stale"},
             fts' \subseteq DOMAIN rows',
             freshness' \in [stale : BOOLEAN, of : Reading, after : Nat]
      PROVE  SearchTyping'
  <2>1. \A d \in Rebuilders : rebuild'[d].existing \subseteq DOMAIN rows'
    BY <1>3, <1>4 DEF SearchTyping
  <2>2. \A q \in Readers : reader'[q].chunk \cup reader'[q].shown \subseteq DOMAIN rows'
    BY <1>1, <1>4 DEF SearchTyping
  <2>3. QED
    BY <1>1, <1>4, <2>1, <2>2 DEF SearchTyping
<1>5. CASE ReadOwnEvents(b) \/ ReadInboxEvents(b) \/ ReadErasures(b) \/ ReadExisting(b)
  <2>1. UNCHANGED <<rows, fts, freshness>>
    BY <1>5 DEF ReadOwnEvents, ReadInboxEvents, ReadErasures, ReadExisting, indexVars
  <2>2. PICK now : /\ rebuild' = [rebuild EXCEPT ![b] = now]
                   /\ now.existing = w.existing \/ now.existing = DOMAIN rows
    <3>1. CASE ReadOwnEvents(b)
      <4>1. PICK now, of : now = [w EXCEPT !.pc = "events", !.of = of] /\ rebuild' = [rebuild EXCEPT ![b] = now]
        BY <1>2, <3>1 DEF ReadOwnEvents, RebuildAt
      <4>2. now.existing = w.existing
        BY <4>1 DEF Rebuild
      <4>3. QED
        BY <4>1, <4>2
    <3>2. CASE ReadInboxEvents(b)
      <4>1. PICK now : now = [w EXCEPT !.pc = "erasures", !.of.events = pulled] /\ rebuild' = [rebuild EXCEPT ![b] = now]
        BY <1>2, <3>2 DEF ReadInboxEvents, RebuildAt
      <4>2. now.existing = w.existing
        BY <4>1 DEF Rebuild
      <4>3. QED
        BY <4>1, <4>2
    <3>3. CASE ReadErasures(b)
      <4>1. PICK now : now = [w EXCEPT !.pc = "existing", !.of.erasures = pulled] /\ rebuild' = [rebuild EXCEPT ![b] = now]
        BY <1>2, <3>3 DEF ReadErasures, RebuildAt
      <4>2. now.existing = w.existing
        BY <4>1 DEF Rebuild
      <4>3. QED
        BY <4>1, <4>2
    <3>4. CASE ReadExisting(b)
      <4>1. PICK now : now = [w EXCEPT !.pc = "write", !.existing = DOMAIN rows] /\ rebuild' = [rebuild EXCEPT ![b] = now]
        BY <1>2, <3>4 DEF ReadExisting, RebuildAt
      <4>2. now.existing = DOMAIN rows
        BY <4>1 DEF Rebuild
      <4>3. QED
        BY <4>1, <4>2
    <3>5. QED
      BY <1>5, <3>1, <3>2, <3>3, <3>4
  <2>3. now.existing \subseteq DOMAIN rows
    BY <1>2, <2>2 DEF SearchTyping
  <2>4. QED
    BY <1>4, <2>1, <2>2, <2>3 DEF SearchTyping
<1>6. CASE WriteIndex(b)
  <2>1. PICK new : new = ChunksOf(w.of)
    OBVIOUS
  <2>2. /\ rows' = RowsAfter(new, w.existing)
        /\ fts' = {c \in new : StatusOf(c) = "active"}
        /\ freshness' = [stale |-> LastIndexed(w.of) < cursor, of |-> w.of, after |-> cursor]
        /\ rebuild' = [rebuild EXCEPT ![b] = [pc |-> "idle", of |-> Nothing, existing |-> {}]]
    BY <1>2, <1>6, <2>1 DEF WriteIndex, RebuildAt
  <2>3. DOMAIN rows' = DOMAIN rows \cup new
    BY <2>2 DEF RowsAfter
  <2>4. \A c \in DOMAIN rows' : rows'[c] \in {"active", "projection_deleted", "stale"}
    BY <2>2, <2>3 DEF RowsAfter, StatusOf, SearchTyping
  <2>5. fts' \subseteq DOMAIN rows'
    BY <2>2, <2>3
  <2>6. PICK stale, of, after : /\ freshness' = [stale |-> stale, of |-> of, after |-> after]
                                /\ stale \in BOOLEAN /\ of = w.of /\ after = cursor
    <3>1. w.of \in Reading /\ ReadSoFar(w.of)
      BY <1>2 DEF SearchInv, Rebuild
    <3>2. PICK last \in Nat : last = LastIndexed(w.of)
      BY <3>1, LastIndexedIs
    <3>3. PICK end \in Nat : end = cursor
      BY DEF SearchTyping
    <3>4. PICK stale \in BOOLEAN : stale = (last < end)
      <4>1. (last < end) = TRUE \/ (last < end) = FALSE
        BY <3>2, <3>3
      <4>2. CASE (last < end) = TRUE
        BY <4>2, Zenon
      <4>3. CASE (last < end) = FALSE
        BY <4>3, Zenon
      <4>4. QED
        BY <4>1, <4>2, <4>3
    <3>5. freshness' = [stale |-> stale, of |-> w.of, after |-> cursor]
      BY <2>2, <3>2, <3>3, <3>4, Zenon
    <3>6. QED
      BY <3>5
  <2>7. freshness' \in [stale : BOOLEAN, of : Reading, after : Nat]
    BY <2>2, <2>6 DEF SearchTyping, Rebuild
  <2>8. PICK now : now.existing = {} /\ rebuild' = [rebuild EXCEPT ![b] = now]
    <3>1. PICK now : now = [pc |-> "idle", of |-> Nothing, existing |-> {}]
      OBVIOUS
    <3>2. rebuild' = [rebuild EXCEPT ![b] = now] /\ now.existing = {}
      BY <2>2, <3>1
    <3>3. QED
      BY <3>2
  <2>9. DOMAIN rows \subseteq DOMAIN rows' /\ now.existing \subseteq DOMAIN rows'
    BY <2>3, <2>8
  <2>10. QED
    BY <1>4, <2>4, <2>5, <2>7, <2>8, <2>9
<1>7. QED
  BY <1>5, <1>6 DEF RebuildStep

LEMMA ReaderStaysTyped ==
  ASSUME SearchInv, SearchTyping, NEW q \in Readers, ReaderStep(q) PROVE SearchTyping'
<1>1. UNCHANGED <<cursor, pulled, rows, fts, freshness, rebuild>>
  BY DEF ReaderStep, PickChunk, RecheckEvents, RecheckErasures, GiveVerdict, storeVars, indexVars
<1>2. PICK s \in Reader : s = reader[q]
  BY DEF SearchInv
<1>3. reader \in [Readers -> Reader] /\ s.chunk \subseteq DOMAIN rows /\ s.shown \subseteq DOMAIN rows
  BY <1>2 DEF SearchInv, SearchTyping
<1>4. ASSUME NEW now, reader' = [reader EXCEPT ![q] = now],
             now.chunk \subseteq DOMAIN rows, now.shown \subseteq DOMAIN rows
      PROVE  SearchTyping'
  <2>1. \A p \in Readers : reader'[p].chunk \cup reader'[p].shown \subseteq DOMAIN rows
    BY <1>3, <1>4 DEF SearchTyping
  <2>2. QED
    BY <1>1, <2>1 DEF SearchTyping
<1>5. ASSUME NEW c \in DOMAIN rows, PickChunk(q, c) PROVE SearchTyping'
  <2>1. PICK now, of, since :
          /\ now = [s EXCEPT !.pc = "events", !.chunk = {c}, !.shown = {}, !.since = since, !.of = of]
          /\ reader' = [reader EXCEPT ![q] = now]
    BY <1>2, <1>5 DEF PickChunk, ReaderAt
  <2>2. now.chunk = {c} /\ now.shown = {}
    BY <2>1 DEF Reader
  <2>3. QED
    BY <1>4, <2>1, <2>2
<1>6. CASE RecheckEvents(q)
  <2>1. PICK now : now = [s EXCEPT !.pc = "erasures", !.of.events = pulled] /\ reader' = [reader EXCEPT ![q] = now]
    BY <1>2, <1>6 DEF RecheckEvents, ReaderAt
  <2>2. now.chunk = s.chunk /\ now.shown = s.shown
    BY <2>1 DEF Reader
  <2>3. QED
    BY <1>3, <1>4, <2>1, <2>2
<1>7. CASE RecheckErasures(q)
  <2>1. PICK now : now = [s EXCEPT !.pc = "verdict", !.of.erasures = pulled] /\ reader' = [reader EXCEPT ![q] = now]
    BY <1>2, <1>7 DEF RecheckErasures, ReaderAt
  <2>2. now.chunk = s.chunk /\ now.shown = s.shown
    BY <2>1 DEF Reader
  <2>3. QED
    BY <1>3, <1>4, <2>1, <2>2
<1>8. CASE GiveVerdict(q)
  <2>1. PICK shown : shown = {c \in s.chunk : Visible(c, s.of)}
    OBVIOUS
  <2>2. PICK now, since :
          /\ now = [s EXCEPT !.pc = "idle", !.chunk = {}, !.of = Nothing, !.since = since, !.shown = shown]
          /\ reader' = [reader EXCEPT ![q] = now]
    BY <1>2, <1>8, <2>1 DEF GiveVerdict, ReaderAt
  <2>3. now.chunk = {} /\ now.shown = shown
    BY <2>2 DEF Reader
  <2>4. QED
    BY <1>3, <1>4, <2>1, <2>2, <2>3
<1>9. QED
  BY <1>5, <1>6, <1>7, <1>8 DEF ReaderStep

LEMMA SearchTypingStep == SearchInv /\ SearchTyping /\ [RetrievalNext]_retrievalVars => SearchTyping'
<1> SUFFICES ASSUME SearchInv, SearchTyping, [RetrievalNext]_retrievalVars PROVE SearchTyping'
  OBVIOUS
<1>1. CASE UNCHANGED retrievalVars
  BY <1>1 DEF retrievalVars, storeVars, indexVars, SearchTyping
<1>2. CASE RetrievalNext
  BY <1>2, StoreStaysTyped, RebuildStaysTyped, ReaderStaysTyped DEF RetrievalNext
<1>3. QED
  BY <1>1, <1>2

LEMMA SearchTypes == SearchInv /\ SearchTyping => RetrievalTypeOK
<1> SUFFICES ASSUME SearchInv, SearchTyping PROVE RetrievalTypeOK
  OBVIOUS
<1>1. Len(zoneLog) \in Nat /\ pulled \in 0 .. Len(zoneLog) /\ cursor \in 0 .. pulled
  BY DEF SearchInv, StoreShape, SearchTyping
<1>2. QED
  BY <1>1 DEF SearchInv, StoreShape, SearchTyping, RetrievalTypeOK, Reader, Rebuild

\* The full-text table indexes rows of the table, and a search or a rebuild that goes on
\* across other rebuilds still holds rows of it: a rebuild marks rows stale and drops none.
THEOREM RetrievalTyped == RetrievalSpec => []RetrievalTypeOK
<1>1. RetrievalInit => SearchInv /\ SearchTyping
  BY SearchInvInit, SearchTypingInit
<1>2. SearchInv /\ SearchTyping /\ [RetrievalNext]_retrievalVars => SearchInv' /\ SearchTyping'
  BY SearchInvStep, SearchTypingStep
<1>3. QED
  BY <1>1, <1>2, SearchTypes, PTL DEF RetrievalSpec

-----------------------------------------------------------------------------
(* The walk, what it reports *)

Reported == walk.omitted \subseteq {"max_nodes", "max_depth", "trust_zone", "closed"}

LEMMA ReportedInit == WalkInit => Reported
BY DEF WalkInit, Unasked, Reported

LEMMA ReportedStep == WalkInv /\ Reported /\ [WalkNext]_walkVars => Reported'
<1> SUFFICES ASSUME WalkInv, Reported, [WalkNext]_walkVars PROVE Reported'
  OBVIOUS
<1>1. PICK w, x, reports : w = walk /\ x = walk' /\ reports = {"max_nodes", "max_depth", "trust_zone", "closed"}
  OBVIOUS
<1>2. w = [queue |-> w.queue, visited |-> w.visited, at |-> w.at, left |-> w.left,
           omitted |-> w.omitted, over |-> w.over]
  BY <1>1 DEF WalkInv, Unasked, WalkOK, WalkShape
<1>3. ASSUME x.omitted \subseteq w.omitted \cup reports PROVE Reported'
  BY <1>1, <1>3 DEF Reported
<1>4. CASE UNCHANGED walkVars
  BY <1>4 DEF walkVars, Reported
<1>5. CASE Ask
  BY <1>5 DEF Ask, Unasked, Reported
<1>6. CASE Pop
  <2>1. PICK rest : rest = Rest
    OBVIOUS
  <2>2. rest = [queue |-> Tail(w.queue), visited |-> w.visited, at |-> w.at, left |-> w.left,
                omitted |-> w.omitted, over |-> w.over]
    BY <1>1, <1>2, <2>1 DEF Rest
  <2>3. PICK n : n = NextEntry.id
    OBVIOUS
  <2>4. \/ x = rest \/ x = [rest EXCEPT !.omitted = @ \cup {"max_nodes"}]
        \/ x = [rest EXCEPT !.omitted = @ \cup {"trust_zone"}]
        \/ x = [rest EXCEPT !.visited = @ \cup {n},
                  !.omitted = @ \cup (IF Incident(n) = {} THEN {} ELSE {"max_depth"})]
        \/ x = [rest EXCEPT !.visited = @ \cup {n}, !.left = Incident(n),
                  !.at = IF Incident(n) = {} THEN {} ELSE {NextEntry}]
    BY <1>1, <1>6, <2>1, <2>3 DEF Pop, Walks
  <2>5. PICK told, left, at, seen :
          /\ told = rest.omitted \cup (IF Incident(n) = {} THEN {} ELSE {"max_depth"})
          /\ left = Incident(n) /\ at = (IF left = {} THEN {} ELSE {NextEntry})
          /\ seen = rest.visited \cup {n}
    OBVIOUS
  <2>6. \/ x = rest \/ x = [rest EXCEPT !.omitted = @ \cup {"max_nodes"}]
        \/ x = [rest EXCEPT !.omitted = @ \cup {"trust_zone"}]
        \/ x = [rest EXCEPT !.visited = seen, !.omitted = told]
        \/ x = [rest EXCEPT !.visited = seen, !.left = left, !.at = at]
    BY <2>4, <2>5, Zenon
  <2>7. x.omitted \subseteq w.omitted \cup reports
    <3>1. CASE x = rest
      BY <2>2, <3>1
    <3>2. CASE x = [rest EXCEPT !.omitted = @ \cup {"max_nodes"}]
      BY <1>1, <2>2, <3>2
    <3>3. CASE x = [rest EXCEPT !.omitted = @ \cup {"trust_zone"}]
      BY <1>1, <2>2, <3>3
    <3>4. CASE x = [rest EXCEPT !.visited = seen, !.omitted = told]
      <4>1. x.omitted = told
        BY <2>2, <3>4
      <4>2. QED
        BY <1>1, <2>2, <2>5, <4>1
    <3>5. CASE x = [rest EXCEPT !.visited = seen, !.left = left, !.at = at]
      BY <2>2, <3>5
    <3>6. QED
      BY <2>6, <3>1, <3>2, <3>3, <3>4, <3>5
  <2>8. QED
    BY <1>3, <2>7
<1>7. ASSUME NEW p \in Pairs, Follow(p) PROVE Reported'
  <2>1. PICK left, at : left = w.left \ {p} /\ at = IF w.left = {p} THEN {} ELSE w.at
    OBVIOUS
  <2>2. PICK on : on = [walk EXCEPT !.left = @ \ {p}, !.at = IF walk.left = {p} THEN {} ELSE @]
    OBVIOUS
  <2>3. on = [queue |-> w.queue, visited |-> w.visited, at |-> at, left |-> left,
              omitted |-> w.omitted, over |-> w.over]
    BY <1>1, <1>2, <2>1, <2>2
  <2>4. \/ x = on \/ x = [on EXCEPT !.omitted = @ \cup {"closed"}]
        \/ x = [on EXCEPT !.omitted = @ \cup {"max_nodes"}] \/ \E queue : x = [on EXCEPT !.queue = queue]
    BY <1>1, <1>7, <2>2 DEF Follow, Walks
  <2>5. x.omitted \subseteq w.omitted \cup reports
    BY <1>1, <2>3, <2>4
  <2>6. QED
    BY <1>3, <2>5
<1>8. CASE Return
  BY <1>1, <1>2, <1>8 DEF Return, Walks, Reported
<1>9. QED
  BY <1>4, <1>5, <1>6, <1>7, <1>8 DEF WalkNext

LEMMA WalkTypes == WalkInv /\ Reported => WalkTypeOK
<1> SUFFICES ASSUME WalkInv, Reported PROVE WalkTypeOK
  OBVIOUS
<1>1. CASE graph = {} /\ walk = Unasked
  <2>1. walk.queue = <<>> /\ walk.visited = {} /\ walk.left = {} /\ walk.over = FALSE
    BY <1>1 DEF Unasked
  <2>2. QED
    BY <1>1, <2>1, EmptySeq DEF Reported, WalkTypeOK
<1>2. CASE \E g \in Graph : graph = {g} /\ WalkOK(g, walk)
  BY <1>2 DEF WalkOK, WalkShape, Entry, Reported, WalkTypeOK
<1>3. QED
  BY <1>1, <1>2 DEF WalkInv

\* The walk's variables keep their shape.
THEOREM WalkTyped == WalkSpec => []WalkTypeOK
<1>1. WalkInit => WalkInv /\ Reported
  BY WalkInvInit, ReportedInit
<1>2. WalkInv /\ Reported /\ [WalkNext]_walkVars => WalkInv' /\ Reported'
  BY WalkInvStep, ReportedStep
<1>3. QED
  BY <1>1, <1>2, WalkTypes, PTL DEF WalkSpec

-----------------------------------------------------------------------------
(* The operations side by side *)

OperationsInv ==
  /\ AgenticInv /\ SearchInv /\ SearchTyping /\ CycleInv /\ JobsInv
  /\ EmbedInv /\ HeldInv /\ WalkInv /\ Reported

\* Every step is a step, or none, of each of the operations.
LEMMA PartsOfOperations ==
  OperationsAssumption /\ [OperationsNext]_operationsVars =>
    /\ [AgenticNext]_agenticVars /\ [RetrievalNext]_retrievalVars /\ [CycleNext]_cycleVars
    /\ [JobsNext]_jobVars /\ [EmbedNext]_embedVars /\ [HeldNext]_heldVars /\ [WalkNext]_walkVars
<1> SUFFICES ASSUME OperationsAssumption, [OperationsNext]_operationsVars
             PROVE  /\ [AgenticNext]_agenticVars /\ [RetrievalNext]_retrievalVars /\ [CycleNext]_cycleVars
                    /\ [JobsNext]_jobVars /\ [EmbedNext]_embedVars /\ [HeldNext]_heldVars
                    /\ [WalkNext]_walkVars
  OBVIOUS
<1>1. CASE UNCHANGED operationsVars
  BY <1>1 DEF operationsVars
<1>2. SearchNext \/ OverlapNext => RetrievalNext
  BY DEF SearchNext, OverlapNext, RetrievalNext, OperationsAssumption
<1>3. EmbedOneNext \/ LeftoversNext => EmbedNext
  BY DEF EmbedOneNext, LeftoversNext, EmbedNext, OperationsAssumption
<1>4. CASE OperationsNext
  BY <1>2, <1>3, <1>4 DEF OperationsNext, otherThanAgentic, otherThanRetrieval, otherThanCycle, otherThanJobs,
     otherThanEmbed, otherThanHeld, otherThanWalk
<1>5. QED
  BY <1>1, <1>4

\* Every operation keeps the shape of its tables, queues and processes, also side by side.
THEOREM OperationsTyped == OperationsSpec => []OperationsTypeOK
<1>1. EmbedAssumption /\ OperationsInit => OperationsInv
  BY AgenticInvInit, SearchInvInit, SearchTypingInit, CycleInvInit, JobsInvInit, EmbedInvInit, HeldInvInit,
     WalkInvInit, ReportedInit
     DEF OperationsInit, OperationsStart, OperationsInv
<1>2. EmbedAssumption /\ OperationsAssumption /\ OperationsInv /\ [OperationsNext]_operationsVars => OperationsInv'
  BY PartsOfOperations, AgenticInvStep, SearchInvStep, SearchTypingStep, CycleInvStep, JobsInvStep, EmbedInvStep,
     HeldInvStep, WalkInvStep, ReportedStep
     DEF OperationsInv
<1>3. OperationsInv => OperationsTypeOK
  BY SearchTypes, CycleTypes, EmbedTypes, WalkTypes DEF OperationsInv, OperationsTypeOK, AgenticInv, JobsInv, HeldInv
<1>4. QED
  BY <1>1, <1>2, <1>3, EmbedAssumption, OperationsAssumption, PTL DEF OperationsSpec
=============================================================================
