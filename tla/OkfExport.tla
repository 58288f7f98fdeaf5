----------------------------- MODULE OkfExport -----------------------------
(***************************************************************************)
(* The OKF export of one store into a folder: which records become files,  *)
(* and how the folder is brought from one export to the next, file by      *)
(* file, with a manifest of what the export owns.  The export may be cut   *)
(* anywhere; the store grows, records are erased, and people keep files of *)
(* their own in the same folder.                                           *)
(*                                                                         *)
(* A file's path is the record it is about; index.md and log.md are one    *)
(* file.  Single files are replaced by a rename and never torn.            *)
(***************************************************************************)
EXTENDS Naturals, Sequences, SequencesExt, FiniteSets

CONSTANTS
  Records,       \* canonical events that can reach the store
  TypeOf,        \* [Records -> "Claim" | "Observation" | ...]
  RefsOf,        \* [Records -> the records it rests on, decides or supersedes]
  HeldRecords,   \* Observations whose lifecycle is draft
  Acceptances,   \* AcceptanceDecisions that accept, and
  Rejections,    \*   those that reject the Claims they name
  DecidedAt,     \* [Records -> Nat], the time of a decision
  Index,         \* index.md and log.md
  NoManifest, BadManifest,
  PathOrder,     \* the paths in the order of their names
  MaxExports,    \* exports there may be
  MaxErasures,   \* erasures there may be
  MaxVisits      \* changes people make to the folder

ASSUME OkfAssumption ==
  /\ Index \notin Records
  /\ RefsOf \in [Records -> SUBSET Records]
  /\ DecidedAt \in [Records -> Nat]
  /\ ToSet(PathOrder) = Records \union {Index}
  /\ {MaxExports, MaxVisits} \subseteq Nat

VARIABLES
  known,     \* canonical events of the visible trust zone
  erased,    \* those of them an erasure names
  folder,    \* files: path -> content
  manifest,  \* NoManifest, BadManifest, or the set of paths it lists
  export,    \* the export that runs, or ran last
  exports, visits

okfVars == <<known, erased, folder, manifest, export, exports, visits>>

Files == Records \union {Index}
People == [by |-> "people"]
Tombstone == [by |-> "tombstone"]
NoFiles == [path \in {} |-> People]

WithFile(files, path, content) ==
  [p \in DOMAIN files \union {path} |-> IF p = path THEN content ELSE files[p]]
WithoutFile(files, path) == [p \in DOMAIN files \ {path} |-> files[p]]

NoExport == [stage |-> "idle", files |-> NoFiles, todo |-> {}, strays |-> {}]

OkfInit ==
  /\ known \in SUBSET Records /\ erased = {}
  /\ folder = NoFiles /\ manifest = NoManifest
  /\ export = NoExport
  /\ exports = 0 /\ visits = 0

-----------------------------------------------------------------------------
(* mapEventsToOkf *)

Of(type) == {r \in known \ erased : TypeOf[r] = type}

Deciding(claim, decisions) ==
  {d \in Of("AcceptanceDecision") \intersect decisions : claim \in RefsOf[d]}

AcceptedClaims ==
  {c \in Of("Claim") : Deciding(c, Rejections) = {} /\ Deciding(c, Acceptances) # {}}

\* The latest of the decisions that accept a Claim.
Acceptance(claim) ==
  CHOOSE d \in Deciding(claim, Acceptances) :
    \A other \in Deciding(claim, Acceptances) : DecidedAt[d] >= DecidedAt[other]

Observations(held) == {o \in Of("Observation") : o \notin HeldRecords \/ held}

\* The evidence named by what is exported, through the Observations a Claim rests on also
\* where these are not exported.
Referenced(held) ==
  UNION {RefsOf[r] : r \in Observations(held) \union AcceptedClaims
                           \union (Of("Observation") \intersect UNION {RefsOf[c] : c \in AcceptedClaims})}

Shown(held) ==
  AcceptedClaims \union Observations(held) \union (Of("EvidenceArtifact") \intersect Referenced(held))

\* Supersessions of what is exported, or of the decision an exported Claim stands on.
Lineage(held) ==
  {s \in Of("Supersession") :
     RefsOf[s] \intersect (Shown(held) \union {Acceptance(c) : c \in AcceptedClaims}) # {}}

Status(r) ==
  IF r \in HeldRecords THEN "draft"
  ELSE IF TypeOf[r] \in {"Claim", "Observation"} /\ \E s \in Of("Supersession") : r \in RefsOf[s]
       THEN "deprecated" ELSE "stable"

\* The planned files.  The log carries the time, so the index is never the same twice.
Plan(held) ==
  LET concepts == Shown(held) \union Lineage(held)
  IN [path \in concepts \union {Index} |->
        IF path = Index THEN [by |-> "index", lists |-> concepts]
        ELSE [by |-> "concept", of |-> path, status |-> Status(path)]]

-----------------------------------------------------------------------------
(* rebuildOkfProjection *)

Owned == IF manifest \in {NoManifest, BadManifest} THEN {} ELSE manifest

\* Mutant: what an earlier export wrote and this one does not is left in the folder.
NoneMissing(plan) == {}

Missing(plan) == Owned \ DOMAIN plan

\* Mutant: only a missing manifest makes a collision.
CollidesUnlisted(files) == manifest = NoManifest /\ DOMAIN files \intersect DOMAIN folder # {}

\* A planned path that holds a file the manifest does not list.
Collides(files) == (DOMAIN files \intersect DOMAIN folder) \ Owned # {}

Steps(op, paths) == [op : {op}, path : paths]

PlaceOf(path) == CHOOSE i \in DOMAIN PathOrder : PathOrder[i] = path

\* Deletions come first, and each kind goes by the names of its paths.
Before(step, other) ==
  IF step.op = other.op THEN PlaceOf(step.path) < PlaceOf(other.path) ELSE step.op = "delete"

\* Plan and preflight; where the manifest is corrupt or a path collides, the command
\* throws and has changed nothing.
StartExport(held, policy) ==
  LET plan == Plan(held)
      gone == Missing(plan)
      files == IF policy = "delete_missing" THEN plan
               ELSE [path \in DOMAIN plan \union gone |->
                       IF path \in gone THEN Tombstone ELSE plan[path]]
  IN /\ export.stage \in {"idle", "done"}
     /\ exports < MaxExports
     /\ manifest # BadManifest /\ ~Collides(files)
     /\ export' = [stage |-> "running", files |-> files,
                   todo |-> Steps("delete", IF policy = "delete_missing" THEN gone ELSE {})
                              \union Steps("write", DOMAIN files),
                   strays |-> DOMAIN folder \ Owned]
     /\ exports' = exports + 1
     /\ UNCHANGED <<known, erased, folder, manifest, visits>>

ExportFile ==
  \E step \in export.todo :
     /\ export.stage = "running"
     /\ \A other \in export.todo \ {step} : Before(step, other)
     /\ folder' =
          IF step.op = "write"
          THEN WithFile(folder, step.path, export.files[step.path])
          ELSE WithoutFile(folder, step.path)
     /\ export' = [export EXCEPT !.todo = @ \ {step}]
     /\ UNCHANGED <<known, erased, manifest, exports, visits>>

WriteManifest ==
  /\ export.stage = "running" /\ export.todo = {}
  /\ manifest' = DOMAIN export.files
  /\ export' = [export EXCEPT !.stage = "done"]
  /\ UNCHANGED <<known, erased, folder, exports, visits>>

ExportCut ==
  /\ export.stage = "running"
  /\ export' = NoExport
  /\ UNCHANGED <<known, erased, folder, manifest, exports, visits>>

\* The store grows, by its own work and by pulls, in any order.  An export reads it when
\* it plans, so what the store learns during an export is as if learnt after it.
StoreLearns(r) ==
  /\ export.stage # "running" /\ r \notin known
  /\ known' = known \union {r} /\ export' = NoExport
  /\ UNCHANGED <<erased, folder, manifest, exports, visits>>

StoreErases(r) ==
  /\ export.stage # "running" /\ r \notin erased /\ Cardinality(erased) < MaxErasures
  /\ erased' = erased \union {r} /\ export' = NoExport
  /\ UNCHANGED <<known, folder, manifest, exports, visits>>

\* Somebody adds a file at a path that holds none, removes one, or spoils the manifest.
Visit ==
  /\ visits < MaxVisits
  /\ visits' = visits + 1
  /\ \/ \E path \in Files \ DOMAIN folder :
          folder' = WithFile(folder, path, People) /\ UNCHANGED manifest
     \/ /\ export.stage # "running"
        /\ \/ \E path \in DOMAIN folder :
                folder' = WithoutFile(folder, path) /\ UNCHANGED manifest
           \/ manifest' \in {NoManifest, BadManifest} /\ UNCHANGED folder
  /\ export' = IF export.stage = "running" THEN export ELSE NoExport
  /\ UNCHANGED <<known, erased, exports>>

OkfNext ==
  \/ \E held \in BOOLEAN, policy \in {"delete_missing", "tombstone_missing"} : StartExport(held, policy)
  \/ ExportFile \/ WriteManifest \/ ExportCut
  \/ \E r \in Records : StoreLearns(r) \/ StoreErases(r)
  \/ Visit

OkfSpec == OkfInit /\ [][OkfNext]_okfVars

-----------------------------------------------------------------------------
(* Properties *)

Contents ==
  {People, Tombstone}
    \union [by : {"index"}, lists : SUBSET Records]
    \union [by : {"concept"}, of : Records, status : {"stable", "deprecated", "draft"}]

PartialFolder(f) == DOMAIN f \subseteq Files /\ \A path \in DOMAIN f : f[path] \in Contents

\* The folder holds files of known content, and the manifest is one or a set of paths.
OkfTypeOK ==
  /\ known \subseteq Records /\ erased \subseteq Records
  /\ PartialFolder(folder) /\ PartialFolder(export.files)
  /\ manifest \in {NoManifest, BadManifest} \/ manifest \subseteq Files
  /\ export.stage \in {"idle", "running", "done"} /\ export.strays \subseteq Files
  /\ export.todo \subseteq [op : {"delete", "write"}, path : Files]
  /\ exports \in 0..MaxExports /\ visits \in 0..MaxVisits

\* An export that came to its end leaves what it planned, listed in the manifest, and of
\* earlier exports nothing but what no manifest listed when it began: records that were
\* erased, superseded, rejected or are no longer shown do not stay behind from an export
\* that ended, whatever happened to the store, to later exports and to the folder.
FolderSettles ==
  export.stage = "done" =>
    /\ manifest = DOMAIN export.files
    /\ \A path \in DOMAIN export.files : folder[path] = export.files[path]
    /\ \A path \in DOMAIN folder \ DOMAIN export.files :
         folder[path] = People \/ path \in export.strays

\* A file of somebody else that no manifest lists is neither overwritten nor deleted by
\* an export that found it there, also after exports that were cut.
UnmanagedPreserved ==
  [][\A path \in DOMAIN folder :
       /\ folder[path] = People /\ path \notin Owned
       /\ export.stage = "running" /\ path \in export.strays /\ visits' = visits
       => path \in DOMAIN folder' /\ folder'[path] = People]_okfVars
=============================================================================
