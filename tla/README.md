# CarpeOS in TLA+

CarpeOS captures the work of coding agents into a local SQLite store, derives knowledge
units from it, and synchronises a trust zone's records between enrolled machines through a
private Cloudflare Worker. This directory models that system in TLA+, checks it with TLC on
small instances, and proves what matters most with TLAPS. Line numbers in `PROJECT.json`
(`map`, `hazards`, `findings`) refer to the repository as checked out under `src/`.

## 1. Inventory

### The parts

| part | state it keeps | operations | what makes it correct | here |
|---|---|---|---|---|
| **Sync Worker** `apps/carpeos-sync-worker` | D1: `sync_requests`, `zone_counters`, `canonical_events`, `erasure_ledger`, `protected_value_uploads`, `protected_value_links`; R2: ciphertext objects | PUT, HEAD and GET of a protected value, push, pull | gapless unique sequence per zone, one acceptance per key, truthful answers, no accepted evidence without ciphertext | `SyncWorker` |
| **Local store: outbox** `packages/local-store/src/store.ts`, **admission** `packages/capture/src/sync-admission.ts` | `canonical_events`, `outbox`, dispositions | capture, lease, ack, retry, skip-non-admitted, requeue-admitted | leases exclude each other, delivery is final, admitted units are not lost | `Outbox` |
| **Local store: pulled records** | `sync_inbox_events`, `sync_cursors`, imported `canonical_events` | import, cursor read and write | no record skipped, a replayed page is harmless | `SyncSystem` |
| **Sync client** `packages/sync-client`, **sync commands** `apps/carpeos-cli` | none that persists | `pushOne`, `pullPage`, `runBoundedSyncOnce` | an item is acked only after acceptance; every event gets everywhere | `SyncSystem`, `ZoneLog` |
| **Agentic feed and runner** `packages/agentic` | `agentic_capture_feed` in the store; proposals and daily spend in `agentic.db` | feed, claim, triage, extract, gate, propose, materialise, finish, requeue, bill | marks follow their writes, nothing load-bearing is lost to Flash, the feed drains | `AgenticRunner` |
| **Agentic jobs** `packages/agentic/src/jobs.ts` | `agentic_jobs` | enqueue, lease, complete, fail, reclaim | a job dies only after its attempts | `AgenticJobs` |
| **Store: dispositions and reviews** | `knowledge_dispositions`, `knowledge_disposition_reviews`, Observations | adjudicate, promote-held, reject-held | what is active was decided so, answers stay true | `HeldReview` |
| **Store: policy reconciliation** `packages/local-store/src/policy-reconciliation.ts` | none of its own; Supersessions | preview; a person retracts | an admissible plan can be followed as it stands | `PolicyPlan` |
| **Operator cycle** `apps/carpeos-cli/src/cycle.ts` | lock file, run manifest, `health.json` | one bounded cycle | one cycle at a time; a lock left behind is reported | `OperatorCycle` |
| **Retrieval index and search** `packages/retrieval` | chunks, full-text rows, freshness | rebuild, search, canonical recheck | nothing superseded or erased is shown, rebuilds settle | `Retrieval` |
| **Retrieval graph** `graph-projection.ts` | none | bounded walk | omissions are reported | `GraphWalk` |
| **Embedding** `embedding-jobs.ts`, `retrieval embed` | jobs, vectors, records | ensure, lease, store, ack | every projected chunk is embedded | `EmbeddingJobs` |
| **OKF export** `packages/okf-projection`, `okf export` | a folder of files and its manifest | plan, preflight, delete, write, manifest | an export that ends leaves what it planned, other people's files stay | `OkfExport` |
| **Knowledge bundles** `knowledge export`, `knowledge import` | a file of statements; Observations | export, import | repeated and circular imports settle | `KnowledgeBundle` |
| **Claims and their readers**: MCP context pack, Obsidian notes, OKF | Claims, acceptance decisions, Supersessions, erasures | propose, decide, retract; three readings | where the readers agree on what is accepted, and where not | `AcceptedFacts` |
| **Capture hooks of the hosts** `scripts/lib/install-hooks.mjs` | a host's settings file, its backup | install, uninstall, doctor | settings survive what the best-effort backup allows, a command does what was asked | `HookSetup` |
| **Candidate evaluation** `scripts/product4` | a receipt, an intent file per home, the fixture's store, verdicts | probe, bind, seed, replay, observe, judge, publish | trust stands on a store that stood still, and on one commit | `CandidateEvaluation` |
| **Check runs on GitHub** `scripts/product4/github-evidence-*.mjs` | check runs of a commit (external) | create, complete, reconcile; list page by page | a receipt is for the one successful run | `CheckEvidence` |
| **Release gate** `scripts/product4/release-*.mjs` | a folder of receipts, the candidates' states, the ruleset | classify, promote, ledger, reconcile, authority, decide | ready only if all receipts are of one release | `ReleaseGate` |
| **Cut and pack** `scripts/release.mjs`, `scripts/pack-once.mjs` | working tree, commits, tags, output folder | cut a version, pack, verify the registry | tags and manifests say what is so | `ReleaseCut` |
| Capture `packages/capture` | run ledger | envelope validation, fingerprint, deterministic front, adjudication | determinism of identity, total decisions | identity in `ZoneData` |
| v5 evaluation, the product projection, schema, the MCP server's other tools, Worker embeddings, the other scripts | see section 7 | | | not modelled |

### How they interact

A hook captures an event: one transaction inserts the canonical event, its request and an
outbox row. Later, and outside that transaction, the event enters the agentic feed; the
runner turns it into proposals, and these into dispositions, Observations and draft Claims,
which again are captured with outbox rows. Evidence can also be adjudicated directly, and
what is held waits for a person's review. A sync command leases one outbox item, asks the
Worker for the item's protected value (HEAD), uploads it if needed (PUT), pushes the event,
and acks, retries or blocks the item. The same command pulls pages: it reads the cursor,
asks for the rows above it, imports them one by one, and writes the cursor. The operator
cycle runs one sync and one rebuild of the retrieval index under a lock. Searches read the
index, which is a projection, and recheck every hit against the store. Exports write folders
from the store. The release scripts touch none of this: they work on the repository, a
folder of receipts and GitHub, and hand each other files.

Everything is shared by processes that know nothing of each other: several sync commands,
runners, cycles and embedders on one store, hooks and operator commands beside them, and in
the Worker any number of requests, which interleave at every `await`. Transactions never
span two databases, or a database and a file.

### What is hard

`PROJECT.json` lists the hazards with their lines and the properties that cover them. They
are of five kinds.

- *Two writers and one row*: two pushes of one key, overlapping uploads of one body, two
  runners gating one proposal, two reviewers of one hold, two rebuilds of one index.
- *Leases that run out* under a holder that goes on: outbox items, feed rows (finish and
  requeue compare no lease), agentic jobs and embedding jobs (both judge a row they read
  before).
- *Crashes between two writes* that no transaction joins: lease and ack, R2 and D1, the rows
  of a page and the cursor, Observation and mark, review and Observation, lock and health,
  files and manifest, settings and backup.
- *Old readings*: a search over an old index, a sweep that decides before it deletes, an
  export over a manifest that no longer fits the folder, a sequence number of another kind.
- *Sequences of commands* nobody wrote a test for: replays after a dropped outbox row,
  retractions around a policy plan, installs over other installs, a cut that died and the
  next one, receipts of two candidates in one folder.

## 2. The modules

```
ZoneData ── SyncWorker ─┬─ SyncSystem ─┬─ MCSyncSystem
   │            │       │       │      └─ SyncSystem_proofs
   │            │       │       └─ INSTANCE ZoneLog   (the abstract specification)
   │            ├─ MCSyncWorker ──┐
   │            │  CandidateEvaluation ── MCEvaluation
   │            └─ SyncWorker_proofs
   └────── Outbox ──────┘
              ├─ Outbox_proofs
              └─ MCOutbox ──┐
PolicyPlan, HookSetup, OkfExport, AcceptedFacts, KnowledgeBundle ── MCStore
               └─ Lists ── EmbeddingJobs

AgenticRunner ── MCAgentic ──┬──────────────────────────────┐
Retrieval ── MCRetrieval ────┤      CheckEvidence, ReleaseGate, ReleaseCut ── MCRelease
OperatorCycle, AgenticJobs, EmbeddingJobs, HeldReview, GraphWalk ── MCOperations
SyncSystem (by INSTANCE) ─────────────────────────────────── MCOperations ── MCMachines
AcceptedFacts ── MCFacts

proofs: SyncWorker_proofs, Outbox_proofs, SyncSystem_proofs (on both), AgenticRunner_proofs
        Lists_proofs       sequences, least elements: for the next two
        Operations_proofs  Retrieval, GraphWalk, OperatorCycle, AgenticJobs, HeldReview,
                           EmbeddingJobs; MCOperations (with AgenticRunner_proofs)
        Store_proofs       PolicyPlan, HookSetup, OkfExport, AcceptedFacts, KnowledgeBundle;
                           MCStore (with Outbox_proofs)
        Release_proofs     ReleaseCut, ReleaseGate, CandidateEvaluation, CheckEvidence
```

**`ZoneData`** holds the constants of sync. An element of `Events` is a canonical event id.
The code hashes it from trust zone, idempotency key and request fingerprint, so in a zone an
event is its key `KeyOf[e]` together with its content. Two events of one key are the
conflict case; the same event twice is a replay. The ciphertext is not determined by the
event: every device encrypts under its own key, so a body is named by its origin device, and
every export wraps the device key with a fresh nonce, so an upload is named by the attempt
that made it.

**`SyncWorker`** has one variable per table, the R2 bucket `objects`, and `job`, the
requests being served. A handler is cut at every D1 and R2 call:

| handler | actions |
|---|---|
| `handleProtectedValuePut` | `PutHead`, `PutStored`, `PutObject`, `PutUpsert` |
| `handleProtectedValueRead` | `ReadRow`, `ReadObject`, `ReadHeal` |
| `handlePush` | `PushLookup`, `PushReceipt`, `PushHead`, `PushAccept` |
| any, at any call | `Fail` (the 500 of `worker.fetch`), `Release` (the answer leaves) |

`acceptEvent` is one D1 batch, hence one action. Its failing branch is the lost race: the
primary key of `sync_requests` rejects the insert and the handler answers from the row it
then reads. Authentication and schema validation are the guard of `Receive`: only
well-formed, authorised requests are enumerated. Erasures run through the same action as
events that carry no protected value, which is all that sync sees of the difference. The
Worker sees one trust zone: zones share no rows, except that an upload row of another zone
can be rebound, which is not modelled.

**`Outbox`** is the store of each device. Each write of the store is a `BEGIN IMMEDIATE`
transaction or a single statement, hence an action: `Capture` (an evidence hook), `Propose`
(a unit, for evidence the store holds), `Dispose`, `Lease`, `Ack`, `Return` (retry and
block), `PusherCrash`, `Requeue`. `skipNonAdmittedOutboxPending` decides outside its
transaction, so it is two actions, `SweepScan` and `SweepDelete`. Time is one bit per row:
`due` says that `available_at` or `lease_expires_at` has passed, and `Elapse` sets it. A
pusher keeps the item it leased in `held` and may act on it long after the lease has
expired.

**`SyncSystem`** puts the two together with `OutboxSyncCoordinator`. `PushStep` is `pushOne`
cut at each request and answer, `PullStep` is `pullPage` cut at the request, every imported
row and the cursor write. Faults, bounded by `MaxFaults`, are a broken connection whose
handler goes on unheard, a 5xx at any storage call, and a crash of the sync command or of a
pull at any point. `ImportThrows` collects the reasons an import throws; the pull then ends
with its cursor where it was.

**`ZoneLog`** is what users are promised: devices hold bodies, a captured body may be
published in one ordered log under a fresh key, and devices receive published bodies.
`SyncSystem` maps `canonical` to the log by sequence number, and `local` and `inbox` to what
a device holds.

**`AgenticRunner`** is one `processAgenticOnce` per runner process, one action per
statement, transaction or call to Flash:

| code | actions |
|---|---|
| feed insert after a capture, expiry, skip-ineligible | `FeedInsert`, `LeaseRunsOut`, `SkipIneligible` |
| start, claim of a batch | `Start`, `Claim` |
| triage and extraction, with Flash or by local rules | `Triage`, `Extract` |
| gate and `putAgenticProposal` (read, then insert or ignore) | `ReadRecent`, `PutRead`, `PutInsert` |
| `materializeAgenticProposal` | `Dispose`, `Observe`, `Draft`, `Mark`; `GiveUp` is its catch block |
| the row's end | `Requeue`, `Skip`, `Finish` |
| backlog of unmaterialised promotes, spend | `Drain`, `Bill`, `Persist` |
| faults | `StoreThrows`, `Crash`, and failing calls inside `Triage` and `Extract` |

A capture is what its text is (`empty`, `noise`, `prose`, or `strong`, which is
`hasLoadBearingDecisionSignal`), whether it can be read and packed (`Unreadable`,
`Unpackable`: a pack that fails is skipped for good), whether the narrower local triage keeps
it (`LocallyKept`, `triageFake`: the dropped and those it wants context for end alike), and
what extraction may find in it. A run without the network decides by `FoundLocally`, in one
step with the row's opening (`Opened`); a run that asks Flash falls back to `Fallback`, which
asks `hasExtractFallbackSignal` (`Citable`) instead of the triage. The feed row's lease is its state: `leased`, or `expired`
once `LeaseRunsOut` has passed. `Observe` without a replay is the code's
`proposeObservationDraft`: it replays only within the same clock reading (`SameInstant`),
because the valid time it is given is the clock's (finding 4). Left out: the debug order
that takes holds first, the scan budget, the batch cap of 8, the window of 200 recent
promotes and backlog pages, the reconcile report, and the job rows, on which nothing a
runner does depends.

**`AgenticJobs`** is the job table those runs write. Leases and `Reclaim` are transactions;
enqueue, complete and fail read a row (`EnqueueRead`, `OutcomeRead`) and upsert a whole row
later (`EnqueueWrite`, `Complete`, `FailJob`). `TimePasses` ends a lease or a back-off;
`grants` counts, for the property only, how often a job was leased.

**`HeldReview`** has a clerk per process. `Adjudicate`, `InsertDisposition`,
`ObserveByPolicy` are `adjudicateCapture`; `Review`, `InsertReview`, `RecheckReview`,
`PromoteHeld` are promote-held and reject-held, whose insert ignores a row that is there and
whose re-read decides. `ClerkStops` is a crash or a throwing store at any point.

**`PolicyPlan`** has the store's rows as variables and the preview as operators: `EntryOf`
gives one source its entry (`Authority`, `Observed`, `Effective`, `Intent` are the code's
steps), `Linked` and `PlannedEdges` search the whole plan for cycles, and `Admissible` says
the `plan_admissible` of the answer. Actions are what changes the rows in the meantime:
decisions, reviews, Observations, pulls and retractions. `sharedKey` is the pair adj_v1 and
adj_v2, which have one Observation key between them. The preview writes nothing (ADR 0015);
`CarriedOut` is a person who runs `agentic retract` for each entry.

**`OperatorCycle`** cuts `runSyncCycle` at every file system call and phase: `Preflight`,
`ProbeLock`, `CreateLock`, `StampLock`, `WriteManifest`, `SyncOnce`, `RebuildRetrieval`,
`WriteHealth`, `ReleaseLock`, `RewriteHealth`, each of which may fail, and `CycleDies`.

**`Retrieval`** follows one zone's log as one device sees it: `CaptureUnit`, `PushUnit`,
`OtherDevice`, `Import`, `CommitCursor` change the store; a rebuild reads in
`ReadOwnEvents`, `ReadInboxEvents`, `ReadErasures`, `ReadExisting` and commits in
`WriteIndex`; a search takes any chunk (`PickChunk`) and rechecks it in `RecheckEvents`,
`RecheckErasures`, `GiveVerdict`. A reading is three positions, one for each statement. An erasure names an
event; one by `projection_delete` names a chunk or a projection version (`query.ts:361`) and
is not modelled.
`SequenceOf` gives the device's own events their local sequence (finding 5).

**`EmbeddingJobs`** cuts `retrieval embed` the same way: `BeginEmbed` (rebuild),
`EnsureLook`, `EnsureCreate`, `LeaseScanned`, `LeaseDue`, `PassOver`, `StoreVector`, `AckLook`,
`AckEmbedded`. **`GraphWalk`** is the breadth-first walk: `Ask`, `Pop`, `Follow` one edge,
`Return`.

**`HookSetup`** works on the hook groups of one lifecycle event in one settings file.
`InstallRead` and `UninstallRead` read; `InstallBackup`, `InstallRename`, `InstallInPlace`
(a `ts` host's only write, the fallback of the others) and `UninstallWrite` write;
`BackupFails` is a `copyFile` that throws, which the install swallows before it goes on; `SetupCut` is a crash, which tears a file that is
written in place; `EditByHand` is the host or its user. `Merged` and `Removed` are the list
transformations, `Probe` is the doctor. They select with `Filtered` of **`Lists`**, which is
`SelectSeq` written as a fold, since a proof can take a fold apart.

**`OkfExport`** has the folder, file by file, and the manifest. `Plan` is `mapEventsToOkf`
with content reduced to what a file is about and its status; `StartExport` is the preflight,
which throws (no step) on a corrupt manifest or a path nobody owns; `ExportFile` does the
first step left of `todo` (the deletions, then the files, each in the order of the names:
`Before`), `WriteManifest` comes last, `ExportCut` is a crash. `Visit` is a person in the
folder. Temporary files a crash leaves beside a path are not modelled, nor that people
remove files while an export runs.

**`AcceptedFacts`** has the events that bear on a Claim and the three readings of them as
operators: `PackSection` (`classifyContext` of the MCP server), `NoteOf` (`renderClaim`),
`ExportedAs` (`mapEventsToOkf`). Actions file what a reader may find, made here or pulled,
in any order. `DecideClaim` replays a decision that has the same words and reason.

**`KnowledgeBundle`** carries statements between stores: `Export`, which may leave a torn
file, and an import of one transaction a unit, `StartImport` (with its anchor),
`ImportUnit`, `UnitRefused`, `EndImport`, `ImportDies`. The file's units stand at the local
positions of the Observations they came from, and are imported newest first (`IsNext`). The
key of an imported unit is its statement's, the fingerprint that of the import's anchor, so
a repetition conflicts.

The four modules of a release share no state with the rest nor with each other; documents
are what they name, and `Forged` or `good = FALSE` is one whose fields or digest do not fit.

**`CandidateEvaluation`** judges a commit. A sandbox job measures and seals (`SandboxProbe`,
`SealReceipt`); an evaluator takes its input (`StartEvaluation`), binds it to its checkout
(`BindEvaluation`), claims the home for its commit (`LookIntent`, `CreateIntent`,
`FillIntent`: the file is created exclusively and filled afterwards), seeds the fixture
(`LookSeed`, `InsertSeed`, `CheckSeed`), observes the store table by table before, between
and after two runs of the command (`Observe`, `Run`), probes that a mutation is noticed
(`ProbeMutation`), and gives its verdict (`Judge`, `WriteVerdict`), which the publisher
reads (`Publish`). `OtherCommits` is any process that writes to the same home,
`CheckoutMoves` a person in the checkout.

**`CheckEvidence`** has a publisher (`SendPost`, `SendPatch`, and what it does when the
answer is lost: `AnswerLost`, `ReconcileLostPost`, `ReconcileLostPatch`) and a reader
(`ReadRuns`, `ReadSuites`, `BuildReceipt`). A request arrives when it likes (`PostArrives`,
`PatchArrives`), after the publisher has given up too. `OtherCreates` and `OtherUpdates` are
anyone else with access. How GitHub lists runs is external.

**`ReleaseGate`** has the folder of receipts and a gate that reads one after the other
(`ReadReceipt`) and decides (`Decide`). The jobs that fill the folder are `CreateState`,
`ClassifyState`, `PromoteState` (a person's), `LeaveResult`, `BuildLedger`,
`ProjectFixedContext`, `ReconcileRulesetResponse`, `PrepareRollback`, `AuthorityJob`;
`OutsideJob` replaces a receipt that code outside this repository makes, for any candidate
and release. `RulesetChanges` is GitHub, `TimePasses` lets an authority expire.

**`ReleaseCut`** is `StartCut`, `WriteVersion`, `WriteChangelog`, `CommitCut`, `TagCut` of
`release.mjs`, `StartPack`, `PackTarball`, `WriteManifest` and `VerifyRegistry` of
`pack-once.mjs`, `CutDies` and `PackDies` between any two of them, `PublishArtifact`, and
what a maintainer does in between (`MaintainerEdits` and its like).

## 3. Runs

Bounds are named in the configurations. `MaxAttempts` bounds the leases of a behaviour (each
lease is an upload attempt), `MaxRows` the outbox ids, `MaxFaults` the faults.

| run | instance | what it shows |
|---|---|---|
| `worker` | *worker*: 2 requests at a time, 2 devices, an evidence event, a unit under the same key and one under another, 2 wrappings | `SequenceIntegrity`, `AnswersAreTrue`, `LoggedValueStored`, `LinkedRowLogged`, `AppendsAbove`, under every interleaving of storage calls. Two slots give every race of two handlers; each slot is used again and again, so sequences of any length of requests occur. *judges*: `TrustedRanStill`, two evaluators of one home and three commits. |
| `worker_resolve` | the worker of `worker` | violated: `CanonicalRefResolves`, finding 1 |
| `worker_rewrite` | the worker of `worker` | violated: `ObjectNeverRewritten`, finding 2 |
| `store` | see below | outbox: `DeliveredIsFinal`, `RunningLeaseRespected`, `ActiveUnitsStayQueued`; plan: `PlanSettles`; setup: `SettingsRecoverable`, `HooksAsAsked`; export: `FolderSettles`, `UnmanagedPreserved`; facts: `ReadersPartOnDrafts`; bundle: `ImportSettles` |
| `outbox_replay` | the outbox of `store` | violated: `ReplayFindsRow`, finding 3 |
| `system` | 2 pushers and 1 puller on one device, 2 slots, 3 leases, 1 fault, 1 foreign event | `PagesApply`, and `ImplementsZoneLog`, the refinement. An expired lease overlaps two uploads of one item; the fault can hit any step. |
| `shared` | 2 devices that capture the same evidence or other evidence under its key, and a unit, 2 pullers of one store, 1 fault | `CursorCovered` and `DeliveredIsLogged` where pushes are refused and imports throw. |
| `agentic` | *agentic*: 2 runners of one useful row each, 2 captures of which one becomes ineligible, 1 fault; the release machines see below | `ObservedAsGated`, `StrongSkippedEmptyHanded`, `DayWithinBilled`, `FeedOutcomeFinal` under every interleaving of two runs over one feed; `EvidenceIsTrue`, `ReadyIsOne`, `CutStands` of the release |
| `agentic_retry` | 1 runner, every setting, 1 fault | violated: `RetryReplays`, finding 4 |
| `ops` | see below | the safety and liveness of the operations one by one, and `EventuallyEverywhere` of the sync |
| `accepted_draft` | a Claim of this repository, its support, 1 decision | violated: `AcceptedIsFact`, finding 6 |
| `retrieval_fresh` | 1 own and 1 foreign unit, 1 rebuilder | violated: `RebuiltIsFresh`, finding 5 |

**`worker`, `store`, `agentic` and `ops` put machines side by side** that share no state:
the variable `machine` says which of them a behaviour is about, the others stand still, so
each state space is the sum and not the product of its parts. What the machines have in
common in the code is the SQLite file or the home directory, no row that both write; the
machines of `worker` and `agentic` have nothing in common and share the run only.

`store`: *outbox*, 1 store, 2 pushers, an evidence event, an active and a draft unit,
policies thin and full_log, 3 leases (one can expire, be taken over, and be taken back), 4
rows (one unit dropped and requeued beside the others). *plan*, 2 sources, one of them
settled before, `PlanLimit` 2, `MaxSups` 2, `MaxPulled` 1, and the arrows a person may draw
(`MCArrows`): enough for a cycle through a planned write. `ScanLimit` 4 leaves room for the
plan to be carried out. *setup*, both kinds of file, two wrappers, the hand files
`MCHandFiles` (users' hooks with documented and foreign CarpeOS entries in one or several
groups) and 2 edits. *okf*, evidence, a held Observation, a Claim, its acceptance and a
Supersession; the first three are there, the rest is learnt in any order, 3 exports (the
first complete, the second cut, the third on what is left), 1 erasure, 1 visit, with and
without `--include-held`, both path policies. *facts*, a Claim with one support, 2 deciders,
2 times, 3 decisions (two of a kind and one against them), 1 erasure. *bundle*, 2 machines,
2 statements, 2 concurrent importers into one of them, 2 exports (one carries the other's
imports back), 2 imports, 1 busy refusal.

`worker`, *replay* and *judges*: 2 evaluators, 3 commits of which 2 touch candidate paths,
documents that fit, that name another commit or that are forged (`MCInputs`), 3 commits to
the store by others, 1 move of a checkout. *replay* has one evaluator whose store is written
to at every point, *judges* two that share a home.

`agentic`, *agentic*: the local triage keeps the load-bearing capture, so that a run over the
day's cap and one that asks Flash may propose the same; in *runner* of `ops` it drops it, and
such a run skips the row. All captures can be read and packed: a third one, which could not,
is beyond a run's time, and left to the theorem.

`agentic`, the release: *evidence*, 3 suites of which one is another App's, one entry a page, 2 runs, 1
change by others: enough for two runs, for a listing that grows while it is read, and for an
answer lost before and after its request arrived. *promotion*, *receipts*, *authority* and
*ruleset* are one gate in four situations, each with the receipts it is not about in place
(`Complete`): 2 candidates, 2 releases, 2 packs, 2 workflow commits, 2 receipts replaced
while the gate works, 1 tick. *cut*, 2 versions, 2 states of the other files, 3 commits, 2
acts by hand, each script dying anywhere.

`ops`: *runner*, 1 runner, 2 faults, for liveness. *search* and *overlap*, a Claim of the
device, another device's Supersession and erasure of it; one searcher with one rebuilding
timer, and two rebuilds at once. *cycle*, 3 runs of the command: one that holds the lock,
one that is refused, one that comes later. *jobs*, 2 workers on 1 job of 2 attempts, at most
4 grants. *embed*, 2 processes on 1 chunk; *leftovers*, 1 process, 2 chunks, lease limit 2,
1 stall. *review*, 3 processes on 1 held event: promote, reject, and a late one. *walk*,
every graph on four nodes and the pairs `MCPairs` (a triangle and a tail) with every
visibility, depth 1 and 2, size 2 to 4. *sync*, 1 pusher, a puller on another device, 1 slot,
3 leases, 1 fault: the liveness of `SyncSystem`, whose safety is the business of `system` and
`shared`.

The type invariants of machines that run side by side are checked as one, `StoreTypeOK`
(with `OutboxTypeOK` in it) and `OperationsTypeOK`. Symmetry is used for processes, slots
and, in the Worker alone, devices, which the specifications treat alike; runs with liveness
use none. `store`, `agentic`, `ops`, `agentic_retry` and `retrieval_fresh` set the deadlock
check aside: a plan with all its decisions taken, a settings file nobody edits, a cycle that
ended, a walk that returned, a feed that is empty, a gate that has refused really have
nothing left to do. `system` and `shared` keep it.

### Fairness

`FairSystemSpec`, and `SyncFairness` of `ops` with it, assumes weak fairness of `Elapse` (clocks advance), of each pusher and
puller (sync commands are bounded, and an operator or a timer starts them again), and of the
Worker's slots (it runs an accepted request to its end or to a fault). Nothing is assumed of
captures, dispositions, operator commands or faults. The *sync* of `ops` serves one push-side
request at a time and leaves the shared captures out, because in both other cases the code
really can stop: overlapping uploads can leave metadata that no later push accepts (finding
2), and a body that differs under one key stops a pull at that row (listed under the
hazards). `MaxAttempts = 3` is enough for two events and one fault: each fault costs at most
one lease.

In `ops`, `FeedDrains` assumes that a timer keeps starting runs, that a started run goes on,
and that leases run out; faults are bounded by 2. Of two runners at once it is not claimed.
One timing assumption is a guard: `LeaseRunsOut` does not end a lease that a run has given
itself a moment ago and is about to claim again, which takes milliseconds of 120 seconds;
without it a run could go round in that loop forever. `IndexConverges` assumes that one
timer rebuilds again and again; the other rebuilder may stop anywhere, which is a crash
before its commit. `EmbedsProjected` assumes that the command is run again and again and
that leases nobody works under run out (`LeaseEndsIdle`); a lease that ends under a
suspended holder is a fault (`LeaseEndsHeld`, bounded by `MaxStalls`), since embedding a
batch takes far less than the lease. It is checked with fewer leftovers than the lease
limit; with as many it fails, because leftovers are the oldest due jobs each time (section
5).

## 4. Proofs

`SyncWorker_proofs` proves, for every set of devices, events, keys and slots under
`ZoneDataAssumption`, that `WorkerSpec` keeps `WorkerTypeOK`, `SequenceIntegrity`,
`AnswersAreTrue`, `LoggedValueStored`, `LinkedRowLogged`, and that it satisfies
`AppendsAbove`. Any number of concurrent requests is the point: TLC covers two.

None of these is inductive alone, because a handler relies on what it read at an earlier
call. `WorkerInv` adds

- `HandlerInv`: what each stage may still rely on. An upload past its head, and a push past
  its check of the receipt, has its object in R2; a push past the receipt check holds a row
  of its own origin;
- `RowStored`: every upload row names an object that exists. It carries the R2 check of a
  push to its batch, and holds because objects are never deleted.

The proof shows `WorkerInit => WorkerInv` (`WorkerInvInit`) and that each step keeps each
conjunct. `TypeStep` does the types; `ObjectsStay`, `OthersUndisturbed` and `HandlerStep`
show that what other handlers rely on is stable; `UploadChange` and `LogChange` summarise
how the tables can change, so that the remaining conjuncts need few cases; `AnswerStep` is
the race of two pushes for one key. `WorkerInvStep` joins them, and the theorems follow from
`WorkerInvariant`. `AppendOnly` needs `SequenceIntegrity` and `LogChange`.

`Outbox_proofs` proves, for any number of stores, events, pushers and leases, that
`OutboxSpec` keeps `OutboxTypeOK` and satisfies `DeliveredIsFinal` and
`RunningLeaseRespected`. `RowChange` lists every way a row can change; each action property
is then a case split over it, on `LeaseRows` (the scan touches leasable rows only) and
`HeldRow` (an ack or retry touches the held row only, under its lease). What makes the
properties more than a reading of the `WHERE` clauses is a capture: it writes a row whatever
stood there, and only the unique key of `canonical_events` keeps it from an event that has a
row. `OutboxInv` therefore carries `RowHasEvent`, the foreign key from a row to its event.

`ActiveUnitsSafe` proves `ActiveUnitsStayQueued`, as long as nobody runs sync with the
policy `off`. The sweep is the hard part, because it decides on row ids outside its
transaction and deletes later. `ActiveInv` adds `IdsGiven` (`outbox_id` is AUTOINCREMENT:
ids are unique and a sweep remembers only ids already given, so it cannot hit a row created
after its scan) and `SweepSparesActive` (no sweep has an active unit's row in mind). Both
are needed: without unique ids a sweep aimed at a draft could hit an active unit.

The assumptions (`ZoneDataAssumption`, `OutboxAssumption`, `RowAssumption`): `KeyOf` maps
events to keys, evidence and active units are disjoint sets of events, `None` is no device,
event, attempt or row, and every pusher runs on a device.

### Sync end to end

`SyncSystem_proofs` reuses both. `WorkerView` and `StoreView` show that every step of the
system is, for the Worker's variables, a step of `SyncWorker` or the arrival of a request,
and for the store's variables a step of `Outbox` or the import of a row; so `WorkerInv` and
`OutboxInv` carry over (`PartsStep`). `SystemInv` adds how the parts fit together:

- `ConnInv`: a pusher that waits for an answer still holds its item, and the handler it
  waits for, nobody else's, works on that item. Hence what it hears is about its item
  (`DeliverySound`: `DeliveredIsLogged`), although a broken connection leaves handlers
  behind that go on for a pusher that has moved on;
- `OwnInv`: every body anywhere (store, inbox, object, log) was captured by the device it
  names;
- `PullInv`: a row at or below a cursor is held, one of a half-imported page is held or
  still to come. Rows are only appended above the counter, which is what makes a cursor
  final (`NoRowSkipped`: `CursorCovered`).

`PagesAlwaysApply` proves `PagesApply` under two hypotheses, that every event is captured on
one device and that keys are distinct. They are those of the `system` run; without them a
pull really stops (section 5), which is what `shared` is about. `SyncImplementsZoneLog` is
the refinement: `CaptureStep`, `PublishStep` (the batch of `acceptEvent`) and `ReceiveStep`
(an imported row) are steps of `ZoneLog`, everything else is a stutter.

### Operations

`Operations_proofs` has an inductive invariant for each operation that shares no state with
the others, for any number of runs, jobs, workers, held events and processes. `CycleInv`:
the lock file is one run's, and `RunOK` says which phases know that it is theirs. `JobsInv`:
`AttemptsGranted`, the attempts of a row and of every copy a worker carries are at most what
was granted; the upserts of whole rows copy old counts over new ones, never higher ones.
`HeldInv`: `ClerkOK` says what a process that stands between two statements may rely on
(dispositions and reviews are written once), `ReviewsOfHeld` that only what is held is
reviewed. `HeldActiveAsDecided` then covers any number of reviewers, where TLC has three.
`EmbedInv`: a run that goes on to acknowledge a job has stored its vector (`EmbedRunOK`), so
records are only made where vectors are, whoever took the lease over meanwhile; and a job
has at most one row and one place in the order.

`OperationsTyped` joins the type invariants of all six and of the agentic runner. For that
of `Retrieval`, `SearchTyping` adds that a rebuild marks rows and drops none, so that what
another rebuild or a search holds stays a row, and `LastIndexedIs` that the sequence which
freshness compares exists: it is a greatest element of a finite set. Assumed is that units
and erasures are different events, that chunks are finitely many (`EmbedAssumption`), and
that the rebuild and the run singled out for TLC are among those there are
(`OperationsAssumption`).

### The agentic runner

`AgenticInv` says of each run, stage by stage, what its copies of rows, candidates and
proposals still mean after others ran (`RecOK`), and of the tables what the copies rest on
(`TablesOK`). The tables only grow (`Grows`), and that alone keeps a copy true (`RecStays`),
so each action needs an argument about its own run only. `ObservedAsGated`,
`StrongSkippedEmptyHanded` and `FeedOutcomeFinal` follow: `SkipJustified` is what a run that
is about to skip a row knows of it, whatever it could read, pack, or ask. `DayWithinBilled` is not inductive in
any form over the state alone, because runs lose each other's additions: `BillInv` says
there is a way to give each call Flash answered to at most one run that has not written it
yet or to the calls written, so that the day counts no more than those written. Assumed are
finitely many captures, sequences of candidates as answers, and numeric limits
(`AgenticAssumption`).

### Retrieval

`ShownIsCurrent` proves `VisibleIsCurrent`, for any events, rebuilders and readers.
`SearchInv` says that what a reader has reread is at least as new as the store was when its
search began, and that what it shows stands in that reading. The index occurs in it only
with its shape: it may be old or torn between overlapping rebuilds, and the theorem shows
that the recheck makes up for it.

`WalksHonestly` proves `WalkHonest`, for any graph, root and budgets. `WalkInv` says that the
queue is in the order of the depths, which differ by one at most (`InOrder`), and that
unless nodes were left out every open neighbour of a visited node is visited, queued for its
distance, or among the edges still to follow (`Expanded`). From both follows `Frontier`:
what is near and not visited keeps an entry at least as near in the queue. Its argument is
an induction, by the least distance at which such a node is found (`LeastOf`). So a node is
first taken at its distance, no way is cut short by a longer one, and an empty queue means
that nothing is missing. What is near is defined by paths, not by iteration (`Within`), so
that its two laws (`WithinGrows`, `WithinBack`) can be proved. Assumed is that the pairs are
of two different nodes and that a walk may return one node at least (`WalkAssumption`).

### One machine's store

`Store_proofs`. `PlanSettled` proves `PlanSettles`: the model's search for cycles follows
arrows for as many rounds as there are arrows, and what it finds is shown to be the least set
that holds the start and is closed under the arrows (`ReachedIsLeast`). A round that finds
nothing new is the last, and each other round finds the head of another arrow, so there are
rounds enough. After that the proof needs closed sets only. A source has one intent
(`IntendsOnce`), so the writes of a plan give each target the one Supersession meant for it
(`FineAfter`) and make nothing eligible that was not (`UnfitAfter`). The replacements
afterwards are the arrows the preview searched for cycles (`EdgesAfter`), and each write lies
within a component, so that the components stay as they were (`LinkedAfter`).

`HooksDoneAsAsked` proves `HooksAsAsked` for settings of any length. What `Merged` and
`Removed` leave is described by prefixes, of the groups and of the entries in a group: by
induction over the length, the user's hooks of what is left are those of what was found, in
their order, and of the command's own entries there is one, or none.

`SettingsSurvive`: an install has the settings it found in the file until they are in the
backup, and only then writes, or it remembers that they never got there (`Rescued`,
`unsaved`); in that case the theorem says what the file can have become. `FolderSettled` and `PeopleKeepTheirs`:
`HalfExported` says of every planned file that it is written or still to be written, and of
every other file that it is people's, was nobody's when the export began, or is still to be
deleted. `ReadersDoPart`: the three readings are compared as functions of the same events,
with `DecidedFor` between them (`ReadersDecide`);
a first decision exists because a set of naturals has a least element (`LeastOf` of
`Lists_proofs`). `ImportsSettle`: one Observation per key on a shelf (`ShelfOK`), and what
an undisturbed import has gone through is there (`ImportOK`).

`StoreTyped` joins the type invariants of the five and of the outbox, each of which needs
part of the invariants above (`PlanTyped`, `SetupTyped`, `FolderTyped`, `FactsTyped`,
`BundleTyped`). Assumed is what the modules state of their constants, above all that events
of different types are different events (`KindsAssumption`), that an export's index file is
no record and what it sorts is what it may write (`OkfAssumption`), that a plan reads
finitely many sources and an arrow has one head at most (`PlanAssumption`), and that an
absent or torn file is not one with settings (`SetupAssumption`).

### The release

`Release_proofs`, for any number of commits, versions, candidates, evaluators and check
runs. `CutInv` says what a script has done by each stage (`ScriptsOK`) and that tags and
manifests name what they say (`TagsOK`, `ManifestsOK`); people change the tree only while no
script works, which is the modelled assumption on them. `GateInv`: each receipt is read
once, so what the gate compares are its copies; the one thing that must also be true later
is that the candidate is promoted, which never changes back (`ResultStands`).
`EvaluationInv`: as long as SQLite's data version is the one of the first observation, all
that was recorded since is of the store as it is, and two later observations that end with
that version enclose runs on one store (`StillOK`); one evaluator at most fills a home's
intent file (`IntentOK`). `EvidenceInv`: ids on a page are at most the count the page gives,
and the pages of a listing that ended give one count, so a receipt that saw one entry and
count 1 saw the first run alone. The pages hold at least one entry (`EvidenceAssumption`).

### Only model-checked

- Liveness under fairness (`EventuallyEverywhere`, `FeedDrains`, `IndexConverges`,
  `EmbedsProjected`) is beyond the prover.
- Statements about an operator for every input cannot be had from the library's induction
  theorems, which take an operator as a parameter. Where the proofs need induction they go
  through sets: a set of naturals that holds 0 and with each number its successor holds all
  (`Inductive`), and one that is not empty has a least element (`LeastOf`). The folds of the
  community modules are reached that way, over prefixes of the sequence.

## 5. Findings

1. **An accepted event's value can become unreadable** (`worker_resolve`,
   `apps/carpeos-sync-worker/src/index.ts:988`). Two devices that capture the same event
   encrypt it differently but share one upload row. A later upload of the second device
   makes the row name its own object, although the log refers to the first. Pulls then fail
   the digest check everywhere, including the recovery by pull that
   `docs/guides/cross-mac-bootstrap-recovery.md:63` describes.
2. **An upload can be rewritten** (`worker_rewrite`, `index.ts:382`). The existence check
   and the put are two calls, so a retry that overlaps its first attempt rewrites the
   object, contrary to `test/sync-worker.test.ts:61`. When the two receipts are written in
   the other order, row and object metadata differ for good and the event is refused.
3. **A replayed capture can throw** (`outbox_replay`, `store.ts:5735`). The thin policy
   deletes outbox rows; replaying that capture looks for the row and throws, contrary to
   `docs/adr/0005-local-capture-outbox.md:55`. Adjudicating held evidence again after its
   Observation's row was dropped throws for the same reason.
4. **A proposal can be stuck half materialised** (`agentic_retry`,
   `packages/agentic/src/materialize.ts:241`). Observation and Claim are proposed with the
   clock's valid time, so a retry has another fingerprint under its key and is refused as a
   conflict, although ADR 0017 D8 and `jobs.ts:384` promise effects once. The proposal is
   never marked and every later backlog fails on it; its knowledge is there, which is why
   `FeedDrains` holds: it asks for the Observation, not the mark.
5. **A fresh index is marked as stale** (`retrieval_fresh`,
   `packages/retrieval/src/local-index.ts:412`). A device's own events keep their local
   sequence, which is compared with the zone's cursor. If the last records up to the cursor
   are its own, every rebuild says `behind_sync_cursor`, against `local-index.ts:158`.
6. **An accepted Claim is no accepted fact, except in the export** (`accepted_draft`,
   `packages/local-store/src/store.ts:1144`). Every Claim of this repository is a draft for
   good, and drafts are no accepted facts of the context pack (`tools.ts:1036`) nor of the
   notes, whatever a person decides; the OKF export does not look at the lifecycle and
   publishes the same Claim as a stable "Accepted Decision". `README.md:149-151` and
   `spec/v1/capture-and-mcp.md:216` have the decision make the fact;
   `spec/v1/query-semantics.md:52` and a test of the Worker
   (`test/g008-local-e2e.test.ts:440`) want drafts kept out. The repository is at odds with
   itself, and no reader follows both. `ReadersPartOnDrafts` says what holds: on every other
   Claim that is decided for the three agree.

### Differences that no run states

Noted while modelling. The models follow the code in each case.

- *Agentic.* The first disposition of a capture and policy stays (`store.ts:3005`), while
  ADR 0018 D4 has one for each proposal. Two runs that add their spend to the day can lose
  an increment (`spend.ts:57`); `DayWithinBilled` bounds the count from above only. A reader
  of a capture's text swallows every error and sees no text, and a pack the redaction refuses
  is skipped for good like it. `docs/architecture/agentic-layer.md:199` has the day's cap skip
  the network; a run over the cap also decides by `triageFake`, whose words are fewer than
  those of `hasLoadBearingDecisionSignal`, and what it drops is skipped for good, so that a
  load-bearing capture nobody asked Flash about can be lost. `flush` returns early on an
  empty feed and then leaves the backlog. `enqueueAgenticJob` finds and upserts in two
  statements, so it can reset a job that has ended meanwhile, against `jobs.ts:60`.
- *Cycle.* A run that finds the lock taken writes `health.json` without it, over the result
  of the run that holds it; `docs/guides/cloudflare-sync.md:241` describes health as
  replaced under the lock. A lock left by a crash stays until a person removes it.
- *Embedding.* With `--limit` or more leftovers (jobs whose chunk is no longer projected) no
  new chunk is ever embedded.
- *Knowledge.* Supersessions are recorded with a push request that lacks the trust zone and
  further fields (`store.ts:1417`). `recordHumanSupersession` asks neither for earlier
  Supersessions of its target nor whether the replacement exists, differs from the target or
  was itself retracted, and the preview does not flag a retracted replacement.
- *Accepted facts.* Beside finding 6 the readers differ where something is missing or erased:
  the pack ignores missing supports, counts erased Supersessions and only the first decision
  of a kind, the notes take a missing support for a conflict, OKF looks neither at supports
  nor at superseded decisions. Accepting, rejecting and accepting again with the same reason
  replays the first decision.
- *Bundles.* The export looks at neither Supersessions nor erasures: a retracted Observation
  is exported as active and comes back under a new id, also into its own store. A unit that
  was imported before counts as `import_unit_failed`; `--as-draft` after an active import
  changes nothing.
- *Thin policy.* Supersessions and acceptance decisions are not sent, so other machines do
  not learn of a retraction.
- *Exports.* A first OKF export that was cut leaves files no manifest lists, and every later
  one refuses the folder, as `docs/guides/okf-export.md` has it; the files of a record
  erased since then stay. Two exports at once can orphan each other's files. The Obsidian
  rebuild has the same strays.
- *Setup.* The JSON merge always reports a change, so the no-op the code tests for
  (`install-hooks.mjs:333`) does not occur and a reinstall replaces the backup. The backup is
  best effort (`install-hooks.mjs:639`, `705`): where `copyFile` throws the install goes on
  without it, for gjc straight into an in-place write, for a JSON file into one where the
  rename throws too, and a cut there leaves the user's settings in neither file.
  `SettingsRecoverable` allows exactly this and nothing else. Uninstall
  writes in place without a backup, and removes groups a user left empty. A save by the host
  between the command's read and its rename is lost. If registering the MCP server fails
  after the old entry was removed, the host is left without one.
- *Release.* `--force-tag` of `release.mjs` has no effect, and a cut that died between its
  commit and its tag cannot be finished by running it again. The gate's command passes no
  observations of a bypass, so its own decision there is always `defer`; the default
  evidence provider always throws, so trust needs one that is passed in. The authority's
  receipt is bound to the workflow and the verifier only, not to a release; the ledger's and
  the approval's attestation digests are not compared with other receipts, nor is the
  freshness bound of a receipt. After its first observation an evaluation notices neither
  that its checkout moved away and back nor an edit of the fixture before that observation.

## 6. Plan

Modelled and checked: the modules of section 2. Proved: every invariant and every safety
property of the runs that pass, and that `SyncSystem` implements `ZoneLog`. What is left:

1. **The agentic feed's start**: the row of a capture is inserted after the capture's
   transaction, and nothing repairs a crash between the two; a property of it needs the
   outbox and the runner in one module.
2. **Lineage queries** of the store, as operators over the tables of `AcceptedFacts`.
3. **Head-of-queue blocking**: how long one item the Worker refuses delays the others is a
   question of time, which the models leave out.

## 7. Not modelled

- Hashing, encryption, JSON and schema validation: identity and body are abstract, and the
  models enumerate well-formed records only.
- The cap of 200 rows of the lease scan, leases of several items (the coordinator leases
  one), and the admission policy `off`, which is a parameter no run uses.
- Imported erasures of the sync system, which only fill an inbox table there, and the
  rebinding of an upload row from one trust zone to another.
- Capture's deterministic front and adjudication, and the agentic gate: pure decision
  functions over text. Where a machine depends on them, every result they can give is
  enumerated.
- Lineage queries of the store; building the graph; ranking, which is arithmetic over scores
  without state.
- `retryEmbeddingJob` and `blockEmbeddingJob`, agentic jobs blocked for the operator: no
  command calls them.
- The v5 evaluation pipeline: its attempt ledger lives in a side file that each process
  creates anew, so no two processes share it. The Obsidian rebuild, which no command calls,
  and the product projection, which no package imports.
- The MCP server's tools other than the context pack (read-only), the Worker's embeddings
  and Vectorize (external services), the schema package.
- Erasures by `projection_delete`, which name a chunk and not an event; the commit that the
  registry's attestation or `gitHead` names (`pack-once.mjs:258`, `323`), which `Provenance`
  leaves to the registry.
- The rest of `install-local` (build, wrappers, init, MCP registration through the hosts'
  own commands), one pass from top to bottom whose copies are best effort.
- Of the release: the two reads of the fixture's set-up, which are one step each; an intent
  that is passed in instead of read, and the evaluator's unit mode; the verifier a caller
  passes in, which is only required to be there; looking up a run whose POST was lost, one
  step; GitHub's own behaviour, which is external; that a result says "promoted", which the
  scripts never write: a person assembles it (`LeaveResult`); an activated ruleset, which
  only GitHub's side can report.
- The other scripts: builders of documents that nothing else reads, and the study, license
  and migration tools.
