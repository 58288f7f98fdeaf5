----------------------------- MODULE ReleaseCut -----------------------------
(***************************************************************************)
(* From a commit to a published package: scripts/release.mjs cuts a        *)
(* version (package.json, changelog, commit, annotated tag), pack-once.mjs *)
(* packs the tagged commit and writes a manifest, and after it has been    *)
(* published asks the registry for it.  Either may die between two of its  *)
(* steps.  Between them a maintainer edits, commits, checks out, discards, *)
(* deletes a tag or clears the output; not while one of them works.        *)
(*                                                                         *)
(* A tree is what its files say; the bytes of a tarball stand for the tree *)
(* they were packed from.                                                  *)
(***************************************************************************)
EXTENDS Naturals, Sequences, FiniteSets

CONSTANTS
  Versions,   \* numbers, the first one 1
  Sources,    \* what all other files may say
  Elsewhere,  \* trees of packs that come from elsewhere
  MaxHistory, \* commits there may be
  MaxActs,    \* what people do by hand
  NoFile

VARIABLES
  tree,      \* the working tree: [version, sections, source]
  history,   \* the trees of the commits
  head,      \* the commit that is checked out
  tags,      \* [version -> its commit, 0 when there is no tag]
  cutter,    \* [at, next]
  packer,    \* [at, version]
  output,    \* the output directory: [there, tarball, manifest]
  registry,  \* [version -> what is published, NoFile before]
  verified,  \* the manifest the registry was last asked about with success
  acts       \* how much has been done by hand

cutVars == <<tree, history, head, tags, cutter, packer, output, registry, verified, acts>>

Trees == [version : Versions, sections : SUBSET Versions, source : Sources]
ASSUME CutAssumption ==
  1 \in Versions /\ Elsewhere \subseteq Trees /\ NoFile \notin Trees

Empty == [there |-> FALSE, tarball |-> NoFile, manifest |-> NoFile]

\* A bug: only the version is looked at, not git's status.
CleanEnough == tree.version = history[head].version

Clean == tree = history[head]

CutInit ==
  /\ tree \in [version : {1}, sections : {{}, {1}}, source : Sources]
  /\ history = <<tree>> /\ head = 1
  /\ tags \in {[v \in Versions |-> 0], [v \in Versions |-> IF v = 1 /\ 1 \in tree.sections THEN 1 ELSE 0]}
  /\ cutter = [at |-> "idle", next |-> 1] /\ packer = [at |-> "idle", version |-> 1]
  /\ output = Empty
  /\ registry = [v \in Versions |-> NoFile] /\ verified = NoFile /\ acts = 0

Untouched == cutter.at = "idle" /\ packer.at = "idle"

-----------------------------------------------------------------------------
(* scripts/release.mjs *)

CutGoes(stage) == cutter' = [cutter EXCEPT !.at = stage]

\* A version given, or a bump, which is always above the one there is; --force-tag changes
\* nothing of it.
Bumped(next, given) == given \/ next > tree.version

\* One that is there already is not written again.
StartCut(next, given) ==
  /\ Untouched /\ Clean /\ Bumped(next, given)
  /\ tags[next] = 0
  /\ cutter' = [at |-> IF next = tree.version THEN "changelog" ELSE "version", next |-> next]
  /\ UNCHANGED <<tree, history, head, tags, packer, output, registry, verified, acts>>

WriteVersion ==
  /\ cutter.at = "version"
  /\ tree' = [tree EXCEPT !.version = cutter.next] /\ CutGoes("changelog")
  /\ UNCHANGED <<history, head, tags, packer, output, registry, verified, acts>>

WriteChangelog ==
  /\ cutter.at = "changelog"
  /\ tree' = [tree EXCEPT !.sections = @ \union {cutter.next}] /\ CutGoes("commit")
  /\ UNCHANGED <<history, head, tags, packer, output, registry, verified, acts>>

\* git commit fails when nothing has changed.
CommitCut ==
  /\ cutter.at = "commit"
  /\ \/ Clean /\ CutGoes("idle") /\ UNCHANGED <<history, head>>
     \/ /\ ~Clean /\ Len(history) < MaxHistory /\ CutGoes("tag")
        /\ history' = Append(history, [history[head] EXCEPT !.version = tree.version, !.sections = tree.sections])
        /\ head' = Len(history')
  /\ UNCHANGED <<tree, tags, packer, output, registry, verified, acts>>

TagCut ==
  /\ cutter.at = "tag"
  /\ tags' = [tags EXCEPT ![cutter.next] = head] /\ CutGoes("idle")
  /\ UNCHANGED <<tree, history, head, packer, output, registry, verified, acts>>

CutDies ==
  /\ cutter.at # "idle" /\ CutGoes("idle")
  /\ UNCHANGED <<tree, history, head, tags, packer, output, registry, verified, acts>>

-----------------------------------------------------------------------------
(* scripts/pack-once.mjs *)

PackGoes(stage) == packer' = [packer EXCEPT !.at = stage]

\* assertReleaseState for the commit and the tag the workflow was started with.
ReleaseState(commit, version) ==
  /\ Clean /\ head = commit
  /\ tags[version] = commit
  /\ tree.version = version

StartPack(commit, version) ==
  /\ Untouched /\ ReleaseState(commit, version) /\ ~output.there
  /\ output' = [Empty EXCEPT !.there = TRUE]
  /\ packer' = [at |-> "pack", version |-> version]
  /\ UNCHANGED <<tree, history, head, tags, cutter, registry, verified, acts>>

PackTarball ==
  /\ packer.at = "pack"
  /\ output' = [output EXCEPT !.tarball = tree] /\ PackGoes("manifest")
  /\ UNCHANGED <<tree, history, head, tags, cutter, registry, verified, acts>>

\* createManifest's end: what is in the tarball has the approved version.
WriteManifest ==
  /\ packer.at = "manifest"
  /\ output.tarball.version = packer.version
  /\ output' = [output EXCEPT !.manifest = [commit |-> head, version |-> packer.version, bytes |-> output.tarball]]
  /\ PackGoes("idle")
  /\ UNCHANGED <<tree, history, head, tags, cutter, registry, verified, acts>>

PackDies ==
  /\ packer.at # "idle" /\ PackGoes("idle")
  /\ UNCHANGED <<tree, history, head, tags, cutter, output, registry, verified, acts>>

\* assertArtifact: the tarball is the one the manifest describes.
ArtifactFits ==
  /\ output.manifest # NoFile /\ output.tarball # NoFile
  /\ output.tarball = output.manifest.bytes /\ output.tarball.version = output.manifest.version

\* The workflow publishes the artifact it has asserted; a version is published once.
PublishArtifact ==
  /\ packer.at = "idle" /\ ArtifactFits
  /\ registry[output.manifest.version] = NoFile
  /\ registry' = [registry EXCEPT ![output.manifest.version] = output.tarball]
  /\ UNCHANGED <<tree, history, head, tags, cutter, packer, output, verified, acts>>

\* verifyProvenance: the attestation is of the published bytes.  The commit it names, or the
\* registry's gitHead, is whatever the registry says and is not modelled.
Provenance(manifest) == registry[manifest.version] = manifest.bytes

VerifyRegistry ==
  /\ packer.at = "idle" /\ output.manifest # NoFile
  /\ registry[output.manifest.version] = output.manifest.bytes /\ Provenance(output.manifest)
  /\ verified' = output.manifest
  /\ UNCHANGED <<tree, history, head, tags, cutter, packer, output, registry, acts>>

-----------------------------------------------------------------------------
(* The maintainer. *)

ByHand == acts < MaxActs /\ acts' = acts + 1

MaintainerEdits(edited) ==
  /\ ByHand /\ Untouched /\ tree' = edited
  /\ UNCHANGED <<history, head, tags, cutter, packer, output, registry, verified>>

MaintainerCommits ==
  /\ ByHand /\ Untouched /\ ~Clean /\ Len(history) < MaxHistory
  /\ history' = Append(history, tree) /\ head' = Len(history')
  /\ UNCHANGED <<tree, tags, cutter, packer, output, registry, verified>>

\* git checkout, of the same commit as well, which discards.
MaintainerChecksOut(commit) ==
  /\ ByHand /\ Untouched /\ head' = commit /\ tree' = history[commit]
  /\ UNCHANGED <<history, tags, cutter, packer, output, registry, verified>>

MaintainerDeletesTag(version) ==
  /\ ByHand /\ Untouched /\ tags[version] # 0 /\ tags' = [tags EXCEPT ![version] = 0]
  /\ UNCHANGED <<tree, history, head, cutter, packer, output, registry, verified>>

\* The directory goes, or the tarball in it is another run's.
MaintainerReplaces(tarball) ==
  /\ ByHand /\ Untouched /\ output.there
  /\ output' = IF tarball = NoFile THEN Empty ELSE [output EXCEPT !.tarball = tarball]
  /\ UNCHANGED <<tree, history, head, tags, cutter, packer, registry, verified>>

\* Somebody publishes a version that is not this workflow's.
PublishedElsewhere(other) ==
  /\ ByHand
  /\ registry[other.version] = NoFile
  /\ registry' = [registry EXCEPT ![other.version] = other]
  /\ UNCHANGED <<tree, history, head, tags, cutter, packer, output, verified>>

CutNext ==
  \/ WriteVersion \/ WriteChangelog \/ CommitCut \/ TagCut \/ CutDies
  \/ PackTarball \/ WriteManifest \/ PackDies \/ PublishArtifact \/ VerifyRegistry
  \/ MaintainerCommits
  \/ \E edited \in Trees : MaintainerEdits(edited)
  \/ \E other \in Elsewhere : PublishedElsewhere(other) \/ MaintainerReplaces(other)
  \/ MaintainerReplaces(NoFile)
  \/ \E v \in Versions :
       \/ MaintainerDeletesTag(v)
       \/ \E given \in BOOLEAN : StartCut(v, given)
       \/ \E commit \in DOMAIN history : StartPack(commit, v)
  \/ \E commit \in DOMAIN history : MaintainerChecksOut(commit)

CutSpec == CutInit /\ [][CutNext]_cutVars

-----------------------------------------------------------------------------
(* Properties *)

\* A tag is on a commit that says its version and has its section, wherever earlier cuts
\* died; and what the registry was found to hold is the tree of the manifest's commit, of
\* that version, although people edit, move tags and publish in between.
CutStands ==
  /\ \A v \in Versions : tags[v] # 0 => history[tags[v]].version = v /\ v \in history[tags[v]].sections
  /\ verified # NoFile =>
       /\ registry[verified.version] = history[verified.commit]
       /\ history[verified.commit].version = verified.version
=============================================================================
