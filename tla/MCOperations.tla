---------------------------- MODULE MCOperations ----------------------------
(***************************************************************************)
(* The operations that share no state, side by side for TLC: each          *)
(* behaviour runs one of them, and the others stand still.                 *)
(***************************************************************************)
EXTENDS MCAgentic, MCRetrieval, OperatorCycle, AgenticJobs, EmbeddingJobs, HeldReview, GraphWalk

CONSTANTS b1, e1, k1, n1, n2, n3, n4

\* The one rebuild that runs beside searches, and the one run that finds leftovers.
ASSUME OperationsAssumption == b1 \in Rebuilders /\ e1 \in Embedders

VARIABLE machine  \* the operation this behaviour is about

MCPairs == {{n1, n2}, {n1, n3}, {n2, n3}, {n3, n4}}

otherThanAgentic == <<machine, retrievalVars, cycleVars, jobVars, embedVars, heldVars, walkVars>>
otherThanRetrieval == <<machine, agenticVars, cycleVars, jobVars, embedVars, heldVars, walkVars>>
otherThanCycle == <<machine, agenticVars, retrievalVars, jobVars, embedVars, heldVars, walkVars>>
otherThanJobs == <<machine, agenticVars, retrievalVars, cycleVars, embedVars, heldVars, walkVars>>
otherThanEmbed == <<machine, agenticVars, retrievalVars, cycleVars, jobVars, heldVars, walkVars>>
otherThanHeld == <<machine, agenticVars, retrievalVars, cycleVars, jobVars, embedVars, walkVars>>
otherThanWalk == <<machine, agenticVars, retrievalVars, cycleVars, jobVars, embedVars, heldVars>>
operationsVars == <<machine, agenticVars, retrievalVars, cycleVars, jobVars, embedVars, heldVars, walkVars>>

OperationsStart ==
  AgenticInit /\ RetrievalInit /\ CycleInit /\ JobsInit /\ EmbedInit /\ HeldInit /\ WalkInit

OperationsInit ==
  /\ machine \in {"runner", "search", "overlap", "cycle", "jobs", "embed", "leftovers",
                  "review", "walk"}
  /\ OperationsStart

\* Searches while one timer rebuilds.
SearchNext == StoreGrows \/ RebuildStep(b1) \/ (\E q \in Readers : ReaderStep(q))

\* Two rebuilds at once, of a store without Supersessions.
OverlapNext ==
  /\ StoreGrows \/ (\E b \in Rebuilders : RebuildStep(b))
  /\ sup1 \notin Range(zoneLog')

\* Two processes embed one chunk.
EmbedOneNext == EmbedNext /\ \A k \in Chunks \ {k1} : projected'[k] = "no"

\* One process embeds several chunks, and some are no longer projected.
LeftoversNext ==
  \/ EmbedStep(e1) \/ EmbedderDies(e1)
  \/ \E k \in Chunks : Reproject(k) \/ LeaseEndsIdle(k) \/ LeaseEndsHeld(k)

OperationsNext ==
  \/ machine = "runner" /\ AgenticNext /\ UNCHANGED otherThanAgentic
  \/ machine = "search" /\ SearchNext /\ UNCHANGED otherThanRetrieval
  \/ machine = "overlap" /\ OverlapNext /\ UNCHANGED otherThanRetrieval
  \/ machine = "cycle" /\ CycleNext /\ UNCHANGED otherThanCycle
  \/ machine = "jobs" /\ JobsNext /\ UNCHANGED otherThanJobs
  \/ machine = "embed" /\ EmbedOneNext /\ UNCHANGED otherThanEmbed
  \/ machine = "leftovers" /\ LeftoversNext /\ UNCHANGED otherThanEmbed
  \/ machine = "review" /\ HeldNext /\ UNCHANGED otherThanHeld
  \/ machine = "walk" /\ WalkNext /\ UNCHANGED otherThanWalk

\* The fairness of FairAgenticSpec, FairRetrievalSpec and FairEmbedSpec, each for the
\* behaviours of its operation.
OperationsFairness ==
  /\ \A r \in Runners : WF_agenticVars(machine = "runner" /\ RunStep(r))
  /\ \A c \in Captures : WF_agenticVars(machine = "runner" /\ LeaseRunsOut(c))
  /\ \A b \in Timers : WF_retrievalVars(machine \in {"search", "overlap"} /\ RebuildStep(b))
  /\ WF_embedVars(machine = "leftovers" /\ EmbedStep(e1))
  /\ \A e \in Embedders : WF_embedVars(machine = "embed" /\ EmbedStep(e))
  /\ \A k \in Chunks : WF_embedVars(machine \in {"embed", "leftovers"} /\ LeaseEndsIdle(k))

OperationsSpec == OperationsInit /\ [][OperationsNext]_operationsVars /\ OperationsFairness

OperationsTypeOK ==
  /\ AgenticTypeOK /\ RetrievalTypeOK /\ CycleTypeOK /\ JobsTypeOK
  /\ EmbedTypeOK /\ HeldTypeOK /\ WalkTypeOK
=============================================================================
