----------------------------- MODULE Retrieval -----------------------------
(***************************************************************************)
(* The retrieval index of one device and one trust zone: rebuilds project  *)
(* the store's events into chunks while captures, pushes and pulls go on,  *)
(* two rebuilds may overlap (the timer's cycle and a command), and readers *)
(* look chunks up and recheck them against the store.                      *)
(*                                                                         *)
(* A rebuild reads the store in four statements before its transaction     *)
(* begins, a reader in four statements without one: each is an action.     *)
(* What a reader matches by full text, vectors or the graph is abstracted  *)
(* to any chunk of the table; zones and projects other than the store's,   *)
(* epistemic authorities and ranking are left out.  A chunk is its primary *)
(* event and its sources.  Its position among the chunks, which its id     *)
(* covers too, is left out: a chunk that only moves becomes another row,   *)
(* as one whose sources grow does here.                                    *)
(***************************************************************************)
EXTENDS Naturals, FiniteSets, Sequences, SequencesExt

CONSTANTS
  Units,       \* events of the zone
  OwnUnits,    \* those this device captures or derives
  Erasures,    \* erasure records of the zone that name events (not projection_delete's)
  Shape,       \* type and references of an event
  Target,      \* the event an erasure names
  Rebuilders,  \* processes that rebuild the index
  Timers,      \* those among them that keep doing it
  Readers,     \* processes that search it
  IncludeHeld  \* whether readers ask for drafts too

Types == {"EvidenceArtifact", "Observation", "Claim", "AcceptanceDecision", "Supersession"}
\* refs: the Observations a Claim is supported by, the Claims a decision is about, the
\* event a Supersession supersedes; replacement: the event it names instead.
UnitShape == [type : Types, refs : SUBSET Units, replacement : SUBSET Units, draft : BOOLEAN]

\* No device pushes raw evidence under the thin policy.
ASSUME RetrievalAssumption ==
  /\ OwnUnits \subseteq Units /\ Units \cap Erasures = {}
  /\ Shape \in [Units -> UnitShape]
  /\ Target \in [Erasures -> Units]
  /\ \A e \in Units \ OwnUnits : Shape[e].type # "EvidenceArtifact"
  /\ Timers \subseteq Rebuilders
  /\ IncludeHeld \in BOOLEAN
  /\ IsFiniteSet(Units) /\ IsFiniteSet(Erasures)

Chunk == [primary : Units, sources : SUBSET (Units \cup Erasures)]
\* What was read of the store: a prefix of its own rows, and two prefixes of what it
\* pulled, for events and for erasures.
Reading == [own : Nat, events : Nat, erasures : Nat]

VARIABLES
  captured,   \* canonical_events in order of local_sequence
  zoneLog,    \* the zone's records in order of zone_sequence, at the Worker
  pulled,     \* how far the zone has been imported
  cursor,     \* sync_cursors.after_sequence
  rows,       \* retrieval_chunks: status by chunk
  fts,        \* retrieval_chunks_fts
  freshness,  \* projection_freshness of the zone
  rebuild,    \* [Rebuilders -> rebuild in progress]
  reader      \* [Readers -> search in progress, and what the last one showed]

storeVars == <<captured, zoneLog, pulled, cursor>>
indexVars == <<rows, fts, freshness>>
retrievalVars == <<storeVars, indexVars, rebuild, reader>>

-----------------------------------------------------------------------------
(* What a reading contains *)

Nothing == [own |-> 0, events |-> 0, erasures |-> 0]
Everything == [own |-> Len(captured), events |-> pulled, erasures |-> pulled]

\* An event pulled back by the device that captured it is a replay, and stays in
\* canonical_events only; other events and erasures are in the inbox tables.
EventsIn(r) ==
  {captured[i] : i \in 1..r.own} \cup ({zoneLog[i] : i \in 1..r.events} \cap (Units \ OwnUnits))
ErasuresIn(r) == {zoneLog[i] : i \in 1..r.erasures} \cap Erasures

PositionIn(s, x) == CHOOSE i \in DOMAIN s : s[i] = x
\* The sequence of an event for the projection: own events have no zone_sequence, and
\* the row's local_sequence is taken instead.
SequenceOf(x) == IF x \in OwnUnits THEN PositionIn(captured, x) ELSE PositionIn(zoneLog, x)

\* relatedEventsForClaim
Related(claim, known) ==
  {e \in known :
    \/ e = claim
    \/ Shape[e].type = "Observation" /\ e \in Shape[claim].refs
    \/ Shape[e].type = "AcceptanceDecision" /\ claim \in Shape[e].refs
    \/ Shape[e].type = "Supersession" /\ claim \in Shape[e].refs \cup Shape[e].replacement}

SourcesOf(e, r) ==
  IF Shape[e].type = "Claim"
    THEN LET related == Related(e, EventsIn(r)) IN
         related \cup {x \in ErasuresIn(r) : Target[x] \in related}
    ELSE {e}

\* buildMeaningfulChunks: a chunk for every event but Supersessions.
ChunksOf(r) ==
  {[primary |-> e, sources |-> SourcesOf(e, r)] :
     e \in {x \in EventsIn(r) : Shape[x].type # "Supersession"}}

StatusOf(c) == IF c.sources \cap Erasures = {} THEN "active" ELSE "projection_deleted"

LastIndexed(r) ==
  Max({0} \cup {SequenceOf(x) : x \in EventsIn(r) \cup UNION {c.sources : c \in ChunksOf(r)}})

-----------------------------------------------------------------------------
RetrievalInit ==
  /\ captured = <<>> /\ zoneLog = <<>> /\ pulled = 0 /\ cursor = 0
  /\ rows = <<>> /\ fts = {}
  /\ freshness = [stale |-> FALSE, of |-> Nothing, after |-> 0]
  /\ rebuild = [b \in Rebuilders |-> [pc |-> "idle", of |-> Nothing, existing |-> {}]]
  /\ reader = [q \in Readers |-> [pc |-> "idle", chunk |-> {}, of |-> Nothing,
                                  since |-> Nothing, shown |-> {}]]

-----------------------------------------------------------------------------
(* The store: captures, pushes and pulls, which SyncSystem models in detail *)

CaptureUnit(e) ==
  /\ e \in OwnUnits \ Range(captured)
  /\ Shape[e].refs \subseteq EventsIn(Everything)
  /\ captured' = Append(captured, e)
  /\ UNCHANGED <<zoneLog, pulled, cursor, indexVars, rebuild, reader>>

\* The thin policy keeps raw evidence and drafts on the device.
PushUnit(e) ==
  /\ e \in Range(captured) \ Range(zoneLog)
  /\ Shape[e].type # "EvidenceArtifact" /\ ~Shape[e].draft
  /\ zoneLog' = Append(zoneLog, e)
  /\ UNCHANGED <<captured, pulled, cursor, indexVars, rebuild, reader>>

\* Another device of the zone.
OtherDevice(x) ==
  /\ x \in (Units \ OwnUnits) \cup Erasures
  /\ x \notin Range(zoneLog)
  /\ (IF x \in Erasures THEN {Target[x]} ELSE Shape[x].refs) \subseteq Range(zoneLog)
  /\ zoneLog' = Append(zoneLog, x)
  /\ UNCHANGED <<captured, pulled, cursor, indexVars, rebuild, reader>>

Import ==
  /\ pulled < Len(zoneLog)
  /\ pulled' = pulled + 1
  /\ UNCHANGED <<captured, zoneLog, cursor, indexVars, rebuild, reader>>

\* persistSyncCursor, when the page is imported.
CommitCursor ==
  /\ cursor < pulled
  /\ cursor' = pulled
  /\ UNCHANGED <<captured, zoneLog, pulled, indexVars, rebuild, reader>>

-----------------------------------------------------------------------------
(* rebuildLocalRetrievalIndex *)

RebuildAt(b, pc, rec) ==
  /\ rebuild[b].pc = pc
  /\ rebuild' = [rebuild EXCEPT ![b] = rec]

ReadOwnEvents(b) ==
  /\ RebuildAt(b, "idle",
       [rebuild[b] EXCEPT !.pc = "events", !.of = [Nothing EXCEPT !.own = Len(captured)]])
  /\ UNCHANGED <<storeVars, indexVars, reader>>

ReadInboxEvents(b) ==
  /\ RebuildAt(b, "events", [rebuild[b] EXCEPT !.pc = "erasures", !.of.events = pulled])
  /\ UNCHANGED <<storeVars, indexVars, reader>>

ReadErasures(b) ==
  /\ RebuildAt(b, "erasures", [rebuild[b] EXCEPT !.pc = "existing", !.of.erasures = pulled])
  /\ UNCHANGED <<storeVars, indexVars, reader>>

\* The origins of captures are read here too; they only carry facets.
ReadExisting(b) ==
  /\ RebuildAt(b, "existing", [rebuild[b] EXCEPT !.pc = "write", !.existing = DOMAIN rows])
  /\ UNCHANGED <<storeVars, indexVars, reader>>

\* Mutant: rows that are no longer projected are forgotten.
RowsAfterForgetting(new, existing) == [c \in new |-> StatusOf(c)]

\* Mutant: rows that are no longer projected keep their status.
RowsAfterKeeping(new, existing) ==
  [c \in DOMAIN rows \cup new |-> IF c \in new THEN StatusOf(c) ELSE rows[c]]

RowsAfter(new, existing) ==
  [c \in DOMAIN rows \cup new |->
     IF c \in new THEN StatusOf(c) ELSE IF c \in existing THEN "stale" ELSE rows[c]]

\* One transaction; the graph projection is replaced in it as well.
WriteIndex(b) ==
  /\ RebuildAt(b, "write", [pc |-> "idle", of |-> Nothing, existing |-> {}])
  /\ LET r == rebuild[b].of
         new == ChunksOf(r) IN
     /\ rows' = RowsAfter(new, rebuild[b].existing)
     /\ fts' = {c \in new : StatusOf(c) = "active"}
     /\ freshness' = [stale |-> LastIndexed(r) < cursor, of |-> r, after |-> cursor]
  /\ UNCHANGED <<storeVars, reader>>

-----------------------------------------------------------------------------
(* searchLocalRetrievalIndex and memory get: candidates, canonical recheck *)

ReaderAt(q, pc, rec) ==
  /\ reader[q].pc = pc
  /\ reader' = [reader EXCEPT ![q] = rec]

\* Any row: lookups by id take stale rows too.
PickChunk(q, c) ==
  /\ c \in DOMAIN rows
  /\ ReaderAt(q, "idle", [reader[q] EXCEPT !.pc = "events", !.chunk = {c}, !.shown = {},
                            !.since = Everything, !.of = [Nothing EXCEPT !.own = Len(captured)]])
  /\ UNCHANGED <<storeVars, indexVars, rebuild>>

RecheckEvents(q) ==
  /\ ReaderAt(q, "events", [reader[q] EXCEPT !.pc = "erasures", !.of.events = pulled])
  /\ UNCHANGED <<storeVars, indexVars, rebuild>>

RecheckErasures(q) ==
  /\ ReaderAt(q, "erasures", [reader[q] EXCEPT !.pc = "verdict", !.of.erasures = pulled])
  /\ UNCHANGED <<storeVars, indexVars, rebuild>>

\* Mutant: supersessions are looked for among the chunk's own sources.
SupersededBySources(c, r) ==
  \E s \in c.sources \ Erasures : Shape[s].type = "Supersession" /\ Shape[s].refs \cap c.sources # {}

Superseded(c, r) ==
  \E s \in EventsIn(r) : Shape[s].type = "Supersession" /\ Shape[s].refs \cap c.sources # {}

Erased(c, r) == \E x \in ErasuresIn(r) : x \in c.sources \/ Target[x] \in c.sources

\* recheckCandidate.  The sequence and fingerprint of a stored event never change, so a
\* source is either missing or matches.
Visible(c, r) ==
  /\ c.sources \subseteq EventsIn(r) \cup ErasuresIn(r)
  /\ ~freshness.stale
  /\ IncludeHeld \/ \A e \in c.sources \ Erasures : ~Shape[e].draft
  /\ ~Superseded(c, r)
  /\ ~Erased(c, r)

\* The freshness row is the last thing read.
GiveVerdict(q) ==
  LET shown == {c \in reader[q].chunk : Visible(c, reader[q].of)} IN
  /\ ReaderAt(q, "verdict", [reader[q] EXCEPT !.pc = "idle", !.chunk = {}, !.of = Nothing,
         !.since = IF shown = {} THEN Nothing ELSE reader[q].since, !.shown = shown])
  /\ UNCHANGED <<storeVars, indexVars, rebuild>>

-----------------------------------------------------------------------------
StoreGrows ==
  \/ \E e \in OwnUnits : CaptureUnit(e) \/ PushUnit(e)
  \/ \E x \in Units \cup Erasures : OtherDevice(x)
  \/ Import
  \/ CommitCursor

RebuildStep(b) ==
  \/ ReadOwnEvents(b) \/ ReadInboxEvents(b) \/ ReadErasures(b) \/ ReadExisting(b)
  \/ WriteIndex(b)

ReaderStep(q) ==
  \/ \E c \in DOMAIN rows : PickChunk(q, c)
  \/ RecheckEvents(q) \/ RecheckErasures(q) \/ GiveVerdict(q)

RetrievalNext ==
  \/ StoreGrows
  \/ \E b \in Rebuilders : RebuildStep(b)
  \/ \E q \in Readers : ReaderStep(q)

RetrievalSpec == RetrievalInit /\ [][RetrievalNext]_retrievalVars

\* A cycle's timer rebuilds again and again.  Other rebuilds may stop anywhere, which is
\* what a crash before the commit is, or go on after any delay.
FairRetrievalSpec == RetrievalSpec /\ \A b \in Timers : WF_retrievalVars(RebuildStep(b))

-----------------------------------------------------------------------------
(* Properties *)

\* Tables and processes keep their shape; the full-text table indexes rows.
RetrievalTypeOK ==
  /\ captured \in Seq(OwnUnits) /\ zoneLog \in Seq(Units \cup Erasures)
  /\ pulled \in 0..Len(zoneLog) /\ cursor \in 0..pulled
  /\ DOMAIN rows \subseteq Chunk
  /\ \A c \in DOMAIN rows : rows[c] \in {"active", "projection_deleted", "stale"}
  /\ fts \subseteq DOMAIN rows
  /\ freshness \in [stale : BOOLEAN, of : Reading, after : Nat]
  /\ \A b \in Rebuilders :
       /\ rebuild[b].pc \in {"idle", "events", "erasures", "existing", "write"}
       /\ rebuild[b].of \in Reading /\ rebuild[b].existing \subseteq DOMAIN rows
  /\ \A q \in Readers :
       /\ reader[q].pc \in {"idle", "events", "erasures", "verdict"}
       /\ reader[q].of \in Reading /\ reader[q].since \in Reading
       /\ reader[q].chunk \cup reader[q].shown \subseteq DOMAIN rows

\* "Every result is rechecked against canonical state": text is shown only of chunks
\* none of whose sources was superseded or erased in the store when the search began,
\* however old the index is and whatever rebuilds and pulls do in the meantime.
VisibleIsCurrent ==
  \A q \in Readers : \A c \in reader[q].shown : reader[q].pc = "idle" =>
    /\ \A s \in EventsIn(reader[q].since) :
         Shape[s].type = "Supersession" => Shape[s].refs \cap c.sources = {}
    /\ \A x \in ErasuresIn(reader[q].since) : Target[x] \notin c.sources

\* When the store has stopped changing, rebuilds settle the index on the store's
\* chunks: leftovers of overlapping rebuilds and of older readings go stale.
IndexConverges ==
  <>[](LET new == ChunksOf(Everything) IN
       /\ {c \in DOMAIN rows : rows[c] # "stale"} = new
       /\ fts = {c \in new : StatusOf(c) = "active"})

\* The freshness row says the index is behind the cursor only if some record at or
\* below the cursor was not read ("Freshness advances by max scanned event sequence for
\* the zone", local-index.ts:158).
RebuiltIsFresh ==
  freshness.stale =>
    \E i \in 1..freshness.after :
      zoneLog[i] \notin EventsIn(freshness.of) \cup ErasuresIn(freshness.of)
=============================================================================
