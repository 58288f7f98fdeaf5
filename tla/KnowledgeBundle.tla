-------------------------- MODULE KnowledgeBundle --------------------------
(***************************************************************************)
(* Knowledge carried between machines that do not sync, as a file of       *)
(* statements: knowledge export writes the active Observations of a store  *)
(* to the file, knowledge import proposes each of its units to another     *)
(* store, one transaction a unit, anchored to a capture of its own.        *)
(* Imports are repeated, cut, run at once, and go round in a circle.       *)
(*                                                                         *)
(* Statements are those the export lets pass: long enough, and no          *)
(* restatement of a capture.  Claims are drafts and never exported.        *)
(***************************************************************************)
EXTENDS Naturals, Sequences

CONSTANTS
  Homes,       \* machines, a store each
  Sayings,     \* statements
  Importers,   \* knowledge import --apply processes
  ImportsAt,   \* [Importers -> Homes]
  NoBundle, TornBundle,
  MaxLearnt,   \* Observations a store makes of its own evidence
  MaxBundles, MaxImports,
  MaxBusy      \* units a store refuses because it is busy

ASSUME BundleAssumption ==
  /\ ImportsAt \in [Importers -> Homes]
  /\ {MaxLearnt, MaxBundles, MaxImports, MaxBusy} \subseteq Nat

\* The idempotency keys: that of the evidence, or that of an imported statement.
OwnKey(s) == [from |-> "evidence", of |-> s]
Shelved == [says : Sayings, key : [from : {"evidence", "bundle"}, of : Sayings], active : BOOLEAN]

\* A unit of the file: the statement and the event it was exported from.
Carried == [says : Sayings, source : [at : Homes, key : [from : {"evidence", "bundle"}, of : Sayings]]]

VARIABLES
  shelf,     \* [Homes -> the Observations among the canonical events, in their local order]
  bundle,    \* knowledge-bundle-v1.json
  importer,  \* [Importers -> the import that runs there, or ran last]
  carried    \* how many exports, imports and refusals there were

bundleVars == <<shelf, bundle, importer, carried>>

IdleImporter ==
  [pc |-> "idle", file |-> <<>>, todo |-> {}, anchored |-> FALSE, active |-> TRUE, spared |-> TRUE]

BundleInit ==
  /\ shelf = [h \in Homes |-> <<>>]
  /\ bundle = NoBundle
  /\ importer = [p \in Importers |-> IdleImporter]
  /\ carried = [exports |-> 0, imports |-> 0, busy |-> 0]

HoldsKey(h, key) == \E i \in DOMAIN shelf[h] : shelf[h][i].key = key

-----------------------------------------------------------------------------
\* An Observation of the machine's own, active or held.
Learn(h, s, active) ==
  /\ ~HoldsKey(h, OwnKey(s))
  /\ Len(SelectSeq(shelf[h], LAMBDA o : o.key.from = "evidence")) < MaxLearnt
  /\ shelf' = [shelf EXCEPT ![h] = Append(@, [says |-> s, key |-> OwnKey(s), active |-> active])]
  /\ UNCHANGED <<bundle, importer, carried>>

\* exportKnowledgeBundle: the active Observations, newest first, here each at its local
\* sequence.  Neither Supersessions nor erasures are looked at.
Portable(h) ==
  [i \in {j \in DOMAIN shelf[h] : shelf[h][j].active} |->
     [says |-> shelf[h][i].says, source |-> [at |-> h, key |-> shelf[h][i].key]]]

\* The file is written in place; a crash, or a reader in between, finds a part of it.
Export(h) ==
  /\ carried.exports < MaxBundles
  /\ carried' = [carried EXCEPT !.exports = @ + 1]
  /\ bundle' \in {Portable(h), TornBundle}
  /\ UNCHANGED <<shelf, importer>>

-----------------------------------------------------------------------------
(* importKnowledgeBundle *)

\* A missing or torn file, and a bundle without units, leave the store as it was.  The
\* anchor is a capture of this instant; where it is refused, or replays that of an import
\* in the same instant, every unit is skipped.
StartImport(p, active) ==
  /\ importer[p].pc # "running"
  /\ carried.imports < MaxImports
  /\ bundle \notin {NoBundle, TornBundle} /\ DOMAIN bundle # {}
  /\ \E anchored \in BOOLEAN :
       importer' = [importer EXCEPT ![p] =
         [pc |-> "running", file |-> bundle, todo |-> DOMAIN bundle, anchored |-> anchored,
          active |-> active, spared |-> TRUE]]
  /\ carried' = [carried EXCEPT !.imports = @ + 1]
  /\ UNCHANGED <<shelf, bundle>>

\* Mutant: one unit for every event a bundle was exported from.
ImportKeyBySource(unit) == [from |-> "bundle", of |-> unit.source]

ImportKey(unit) == [from |-> "bundle", of |-> unit.says]

\* The file is gone through from its newest unit to the oldest.
IsNext(p, i) ==
  /\ importer[p].pc = "running"
  /\ i \in importer[p].todo /\ \A j \in importer[p].todo : j <= i

\* The key is the statement's, the fingerprint that of this import's anchor: a statement
\* that was imported before conflicts, and the unit is skipped.
ImportUnit(p, i) ==
  LET h == ImportsAt[p]
      unit == importer[p].file[i]
      key == ImportKey(unit)
  IN /\ IsNext(p, i)
     /\ importer' = [importer EXCEPT ![p].todo = @ \ {i}]
     /\ shelf' =
          IF importer[p].anchored /\ ~HoldsKey(h, key)
          THEN [shelf EXCEPT ![h] =
                  Append(@, [says |-> unit.says, key |-> key, active |-> importer[p].active])]
          ELSE shelf
     /\ UNCHANGED <<bundle, carried>>

\* The store throws; the unit is skipped like one that conflicts.
UnitRefused(p, i) ==
  /\ IsNext(p, i)
  /\ carried.busy < MaxBusy
  /\ carried' = [carried EXCEPT !.busy = @ + 1]
  /\ importer' = [importer EXCEPT ![p].todo = @ \ {i}, ![p].spared = FALSE]
  /\ UNCHANGED <<shelf, bundle>>

EndImport(p) ==
  /\ importer[p].pc = "running" /\ importer[p].todo = {}
  /\ importer' = [importer EXCEPT ![p].pc = "done"]
  /\ UNCHANGED <<shelf, bundle, carried>>

ImportDies(p) ==
  /\ importer[p].pc = "running"
  /\ importer' = [importer EXCEPT ![p] = IdleImporter]
  /\ UNCHANGED <<shelf, bundle, carried>>

BundleNext ==
  \/ \E h \in Homes : Export(h) \/ \E s \in Sayings, active \in BOOLEAN : Learn(h, s, active)
  \/ \E p \in Importers :
       \/ \E i \in importer[p].todo : ImportUnit(p, i) \/ UnitRefused(p, i)
       \/ EndImport(p) \/ ImportDies(p)
       \/ \E active \in BOOLEAN : StartImport(p, active)

BundleSpec == BundleInit /\ [][BundleNext]_bundleVars

-----------------------------------------------------------------------------
(* Properties *)

\* Observations, units and imports are what they are declared to be.
BundleTypeOK ==
  /\ \A h \in Homes : shelf[h] \in Seq(Shelved)
  /\ \/ bundle \in {NoBundle, TornBundle}
     \/ DOMAIN bundle \subseteq Nat /\ \A i \in DOMAIN bundle : bundle[i] \in Carried
  /\ \A p \in Importers :
       /\ importer[p].pc \in {"idle", "running", "done"}
       /\ \A i \in DOMAIN importer[p].file : i \in Nat /\ importer[p].file[i] \in Carried
       /\ importer[p].todo \subseteq DOMAIN importer[p].file
  /\ carried \in [exports : 0..MaxBundles, imports : 0..MaxImports, busy : 0..MaxBusy]

ImportedCopies(h, s) ==
  {i \in DOMAIN shelf[h] : shelf[h][i].says = s /\ shelf[h][i].key.from = "bundle"}

\* However often bundles are exported, imported again after a crash, imported by two
\* processes at once, or carried back to where they came from, a store has at most one
\* imported Observation of a statement; and an import that came to its end with its
\* anchor, and of which the store refused nothing, leaves one of every unit of its file.
ImportSettles ==
  /\ \A h \in Homes, s \in Sayings : \A i, j \in ImportedCopies(h, s) : i = j
  /\ \A p \in Importers :
       importer[p].pc = "done" /\ importer[p].anchored /\ importer[p].spared =>
         \A i \in DOMAIN importer[p].file :
           ImportedCopies(ImportsAt[p], importer[p].file[i].says) # {}
=============================================================================
