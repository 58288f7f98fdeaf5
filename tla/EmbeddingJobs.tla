--------------------------- MODULE EmbeddingJobs ---------------------------
(***************************************************************************)
(* Embedding the chunks of the retrieval index (retrieval embed): a run of *)
(* the command rebuilds the index, ensures a job for every active chunk,   *)
(* leases jobs, stores their vectors and acknowledges them.  Two runs may  *)
(* overlap, and the index changes between them.                            *)
(*                                                                         *)
(* A lease is known by the run that holds it, since no run holds two at a  *)
(* time.  Retries and blocks of jobs are left out, no command asks for     *)
(* them; the number of attempts is left out, nothing looks at it.          *)
(***************************************************************************)
EXTENDS Naturals, FiniteSets, Sequences, SequencesExt, Lists

CONSTANTS
  Chunks,     \* ids of chunks
  Embedders,  \* processes that run the command again and again
  LeaseLimit, \* --limit
  MaxStalls   \* bound on deaths, and on runs suspended for longer than their lease

ASSUME EmbedAssumption ==
  LeaseLimit \in Nat \ {0} /\ MaxStalls \in Nat /\ IsFiniteSet(Chunks)

EmbeddingRow == [state : {"pending", "leased", "embedded"}, holder : SUBSET Embedders,
                 expired : BOOLEAN]

VARIABLES
  projected,  \* [Chunks -> whether the store projects the chunk: its id is never reused]
  embedJobs,  \* embedding_jobs: [Chunks -> at most one row, as a set]
  jobOrder,   \* the jobs by available_at
  vectors,    \* chunks with a local vector
  records,    \* embedding_records
  embedder,   \* [Embedders -> run of the command]
  stalls      \* the faults so far

embedTables == <<embedJobs, jobOrder, vectors, records>>
embedVars == <<projected, embedTables, embedder, stalls>>

\* rebuilt: the active chunks of the run's own rebuild; todo: those still to ensure, then
\* the jobs scanned, and then the leased ones.
Unstarted == [pc |-> "idle", rebuilt |-> {}, todo |-> <<>>]

EmbedInit ==
  /\ projected = [k \in Chunks |-> "no"]
  /\ embedJobs = [k \in Chunks |-> {}]
  /\ jobOrder = <<>> /\ vectors = {} /\ records = {}
  /\ embedder = [e \in Embedders |-> Unstarted]
  /\ stalls = 0

Embeds(e, pc) == embedder[e].pc = pc
EmbedTo(e, rec) == embedder' = [embedder EXCEPT ![e] = rec]
Next1(e) == Head(embedder[e].todo)
Stalls == stalls < MaxStalls /\ stalls' = stalls + 1

Going(e, pc, todo) == [embedder[e] EXCEPT !.pc = pc, !.todo = todo]

\* On to the next chunk to ensure, or to the scan; on to the next job, or the end.
Ensured(e) ==
  Going(e, IF Len(embedder[e].todo) > 1 THEN "ensure" ELSE "scan", Tail(embedder[e].todo))
Treated(e) ==
  IF Len(embedder[e].todo) > 1 THEN Going(e, "embed", Tail(embedder[e].todo)) ELSE Unstarted

PendingRow == [state |-> "pending", holder |-> {}, expired |-> FALSE]

-----------------------------------------------------------------------------
\* The store changes, and with it the chunks a rebuild projects.
Reproject(k) ==
  /\ \/ projected[k] = "no" /\ projected' = [projected EXCEPT ![k] = "active"]
     \/ projected[k] = "active" /\ projected' = [projected EXCEPT ![k] = "gone"]
  /\ UNCHANGED <<embedTables, embedder, stalls>>

Active == {k \in Chunks : projected[k] = "active"}

\* rebuildLocalRetrievalIndex, which Retrieval models in detail.
BeginEmbed(e) ==
  /\ Embeds(e, "idle")
  /\ EmbedTo(e, [pc |-> IF Active = {} THEN "scan" ELSE "ensure",
                 rebuilt |-> Active, todo |-> SetToSeq(Active)])
  /\ UNCHANGED <<projected, embedTables, stalls>>

\* ensureEmbeddingJob: a look, and an upsert if there was nothing.
EnsureLook(e) ==
  /\ Embeds(e, "ensure")
  /\ EmbedTo(e, IF embedJobs[Next1(e)] = {} THEN Going(e, "create", embedder[e].todo)
                                             ELSE Ensured(e))
  /\ UNCHANGED <<projected, embedTables, stalls>>

EnsureCreate(e) ==
  /\ Embeds(e, "create")
  /\ LET k == Next1(e) IN
     /\ embedJobs' = [embedJobs EXCEPT ![k] = {PendingRow}]
     /\ jobOrder' = Append(Filtered(jobOrder, Chunks \ {k}), k)
  /\ EmbedTo(e, Ensured(e))
  /\ UNCHANGED <<projected, vectors, records, stalls>>

\* Mutant: a lease that ran out is not taken over.
DueOnlyPending(k) == \E row \in embedJobs[k] : row.state = "pending"

DueJob(k) ==
  \E row \in embedJobs[k] : row.state = "pending" \/ (row.state = "leased" /\ row.expired)
DueJobs == {k \in Chunks : DueJob(k)}

\* leaseEmbeddingJobs: the oldest due jobs, whether or not their chunk is still
\* projected, and another look at each in the transaction.
LeaseScanned(e) ==
  /\ Embeds(e, "scan")
  /\ LET due == Filtered(jobOrder, DueJobs)
         first == SubSeq(due, 1, IF Len(due) < LeaseLimit THEN Len(due) ELSE LeaseLimit) IN
     EmbedTo(e, IF first = <<>> THEN Unstarted ELSE Going(e, "lease", first))
  /\ UNCHANGED <<projected, embedTables, stalls>>

LeaseDue(e) ==
  /\ Embeds(e, "lease")
  /\ LET got == Filtered(embedder[e].todo, DueJobs)
         row == [state |-> "leased", holder |-> {e}, expired |-> FALSE] IN
     /\ embedJobs' = [k \in Chunks |-> IF k \in Range(got) THEN {row} ELSE embedJobs[k]]
     /\ EmbedTo(e, IF got = <<>> THEN Unstarted ELSE Going(e, "embed", got))
  /\ UNCHANGED <<projected, jobOrder, vectors, records, stalls>>

\* A job whose chunk is no longer projected is passed over, and stays leased.
PassOver(e) ==
  /\ Embeds(e, "embed") /\ Next1(e) \notin embedder[e].rebuilt
  /\ EmbedTo(e, Treated(e))
  /\ UNCHANGED <<projected, embedTables, stalls>>

StoreVector(e) ==
  /\ Embeds(e, "embed") /\ Next1(e) \in embedder[e].rebuilt
  /\ vectors' = vectors \cup {Next1(e)}
  /\ EmbedTo(e, Going(e, "look", embedder[e].todo))
  /\ UNCHANGED <<projected, embedJobs, jobOrder, records, stalls>>

\* ackEmbeddingJob: the lease is compared, and the record and the whole row are
\* written in a transaction that does not compare it again.
AckLook(e) ==
  /\ Embeds(e, "look")
  /\ EmbedTo(e,
       IF \E row \in embedJobs[Next1(e)] : row.state = "leased" /\ row.holder = {e}
         THEN Going(e, "ack", embedder[e].todo)
         ELSE Treated(e))
  /\ UNCHANGED <<projected, embedTables, stalls>>

AckEmbedded(e) ==
  /\ Embeds(e, "ack")
  /\ records' = records \cup {Next1(e)}
  /\ embedJobs' = [embedJobs EXCEPT
       ![Next1(e)] = {[state |-> "embedded", holder |-> {}, expired |-> FALSE]}]
  /\ EmbedTo(e, Treated(e))
  /\ UNCHANGED <<projected, jobOrder, vectors, stalls>>

EmbedderDies(e) ==
  /\ ~Embeds(e, "idle") /\ Stalls
  /\ EmbedTo(e, Unstarted)
  /\ UNCHANGED <<projected, embedTables>>

-----------------------------------------------------------------------------
(* Time *)

StillHeld(k) ==
  \E e \in Embedders : k \in Range(embedder[e].todo) /\ embedder[e].pc \in {"embed", "look", "ack"}

LeaseEnds(k) ==
  /\ \E row \in embedJobs[k] :
       /\ row.state = "leased" /\ ~row.expired
       /\ embedJobs' = [embedJobs EXCEPT ![k] = {[row EXCEPT !.expired = TRUE]}]
  /\ UNCHANGED <<projected, jobOrder, vectors, records, embedder>>

\* A run works its leases off well within their 30 seconds, unless it is suspended.
LeaseEndsIdle(k) == ~StillHeld(k) /\ LeaseEnds(k) /\ UNCHANGED stalls
LeaseEndsHeld(k) == StillHeld(k) /\ LeaseEnds(k) /\ Stalls

EmbedStep(e) ==
  \/ BeginEmbed(e) \/ EnsureLook(e) \/ EnsureCreate(e) \/ LeaseScanned(e) \/ LeaseDue(e)
  \/ PassOver(e) \/ StoreVector(e) \/ AckLook(e) \/ AckEmbedded(e)

EmbedNext ==
  \/ \E k \in Chunks : Reproject(k) \/ LeaseEndsIdle(k) \/ LeaseEndsHeld(k)
  \/ \E e \in Embedders : EmbedStep(e) \/ EmbedderDies(e)

EmbedSpec == EmbedInit /\ [][EmbedNext]_embedVars

\* The command is run again and again and goes on once started, and time passes.
FairEmbedSpec ==
  /\ EmbedSpec
  /\ \A e \in Embedders : WF_embedVars(EmbedStep(e))
  /\ \A k \in Chunks : WF_embedVars(LeaseEndsIdle(k))

-----------------------------------------------------------------------------
(* Properties *)

EmbedTypeOK ==
  /\ projected \in [Chunks -> {"no", "active", "gone"}]
  /\ embedJobs \in [Chunks -> SUBSET EmbeddingRow]
  /\ \A k \in Chunks : Cardinality(embedJobs[k]) <= 1
  /\ jobOrder \in Seq(Chunks)
  /\ records \subseteq vectors /\ vectors \subseteq Chunks
  /\ embedder \in [Embedders ->
       [pc : {"idle", "ensure", "create", "scan", "lease", "embed", "look", "ack"},
        rebuilt : SUBSET Chunks, todo : Seq(Chunks)]]
  /\ stalls \in 0..MaxStalls

\* Every chunk that stays projected is embedded in the end, with its record: deaths,
\* leases that run out under a suspended run, overlapping creations of one job and late
\* acknowledgements delay it only, as long as the leftovers of chunks that are gone are
\* fewer than a lease takes.
EmbedsProjected ==
  []<>(\A k \in Active : k \in records /\ \A row \in embedJobs[k] : row.state = "embedded")
=============================================================================
