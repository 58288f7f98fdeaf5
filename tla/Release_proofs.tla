--------------------------- MODULE Release_proofs ---------------------------
(***************************************************************************)
(* The release scripts keep what the rest of a release relies on, for any  *)
(* number of commits, versions, check runs, evaluators and candidates, any *)
(* size of a page and any number of writes by others: CutStands of         *)
(* ReleaseCut, ReadyIsOne of ReleaseGate, TrustedRanStill of               *)
(* CandidateEvaluation and EvidenceIsTrue of CheckEvidence.  The four      *)
(* machines share no state; each has its own inductive invariant.          *)
(***************************************************************************)
EXTENDS ReleaseCut, ReleaseGate, CheckEvidence, CandidateEvaluation, FiniteSetTheorems, SequenceTheorems, TLAPS

Manifests == [commit : Nat, version : Versions, bytes : Trees]

CutTypeOK ==
  /\ tree \in Trees /\ history \in Seq(Trees) /\ head \in 1 .. Len(history)
  /\ tags \in [Versions -> Nat]
  /\ cutter \in [at : {"idle", "version", "changelog", "commit", "tag"}, next : Versions]
  /\ packer \in [at : {"idle", "pack", "manifest"}, version : Versions]
  /\ output \in [there : BOOLEAN, tarball : Trees \cup {NoFile}, manifest : Manifests \cup {NoFile}]
  /\ registry \in [Versions -> Trees \cup {NoFile}]
  /\ verified \in Manifests \cup {NoFile}

\* Only one of the scripts works, and what it has done so far is there.
ScriptsOK ==
  /\ cutter.at = "idle" \/ packer.at = "idle"
  /\ cutter.at \in {"changelog", "commit"} => tree.version = cutter.next
  /\ cutter.at = "commit" => cutter.next \in tree.sections
  /\ cutter.at = "tag" => history[head].version = cutter.next /\ cutter.next \in history[head].sections
  /\ packer.at # "idle" => Clean /\ tree.version = packer.version
  /\ packer.at = "manifest" => output.tarball = tree

TagsOK == \A v \in Versions : tags[v] # 0 =>
  tags[v] \in 1 .. Len(history) /\ history[tags[v]].version = v /\ v \in history[tags[v]].sections

\* The manifest is about the tree of its commit.
ManifestTrue(m) == m.commit \in 1 .. Len(history) /\ m.bytes = history[m.commit] /\ m.bytes.version = m.version

ManifestsOK ==
  /\ output.manifest # NoFile => ManifestTrue(output.manifest)
  /\ verified # NoFile => ManifestTrue(verified) /\ registry[verified.version] = verified.bytes

CutInv == CutTypeOK /\ ScriptsOK /\ TagsOK /\ ManifestsOK

LEMMA CutInvInit == CutInit => CutInv
<1> SUFFICES ASSUME CutInit PROVE CutInv
  OBVIOUS
<1>1. tree \in Trees /\ history = <<tree>> /\ history[1] = tree /\ Len(history) = 1 /\ history \in Seq(Trees)
  BY CutAssumption DEF CutInit, Trees
<1>2. Empty \in [there : BOOLEAN, tarball : Trees \cup {NoFile}, manifest : Manifests \cup {NoFile}]
      /\ Empty.manifest = NoFile
  BY DEF Empty
<1>3. CutTypeOK
  BY <1>1, <1>2, CutAssumption DEF CutInit, CutTypeOK
<1>4. ScriptsOK /\ ManifestsOK
  BY <1>2 DEF CutInit, ScriptsOK, ManifestsOK
<1>5. TagsOK
  BY <1>1 DEF CutInit, TagsOK
<1>6. QED
  BY <1>3, <1>4, <1>5 DEF CutInv

\* A commit more changes nothing of those there are.
LEMMA CommitsStay ==
  ASSUME CutInv, NEW t \in Trees, history' = Append(history, t)
  PROVE  /\ history' \in Seq(Trees) /\ Len(history') = Len(history) + 1 /\ history'[Len(history) + 1] = t
         /\ Len(history) \in Nat /\ 1 .. Len(history) \subseteq 1 .. Len(history')
         /\ \A i \in 1 .. Len(history) : history'[i] = history[i]
<1>1. history \in Seq(Trees)
  BY DEF CutInv, CutTypeOK
<1>2. QED
  BY <1>1, AppendProperties, LenProperties

\* Tags and manifests keep what they say when a commit is added.
LEMMA TagsManifestsStay ==
  ASSUME CutInv, (\E t \in Trees : history' = Append(history, t)) \/ UNCHANGED history,
         tags' = tags, output'.manifest = output.manifest, UNCHANGED <<registry, verified>>
  PROVE  TagsOK' /\ ManifestsOK'
<1>1. /\ 1 .. Len(history) \subseteq 1 .. Len(history')
      /\ \A i \in 1 .. Len(history) : history'[i] = history[i]
  BY CommitsStay
<1>2. TagsOK'
  BY <1>1 DEF CutInv, TagsOK
<1>3. ManifestsOK'
  BY <1>1 DEF CutInv, ManifestsOK, ManifestTrue
<1>4. QED
  BY <1>2, <1>3

LEMMA CutInvStep == ASSUME CutInv, [CutNext]_cutVars PROVE CutInv'
<1>0. /\ tree \in Trees /\ history \in Seq(Trees) /\ head \in 1 .. Len(history) /\ Len(history) \in Nat
      /\ history[head] \in Trees
  BY LenProperties, ElementOfSeq DEF CutInv, CutTypeOK
<1>1. CASE UNCHANGED cutVars
  BY <1>1 DEF cutVars, CutInv, CutTypeOK, ScriptsOK, TagsOK, ManifestsOK, ManifestTrue, Clean
<1>2. ASSUME NEW next \in Versions, NEW given \in BOOLEAN, StartCut(next, given) PROVE CutInv'
  BY <1>2, TagsManifestsStay DEF StartCut, CutInv, CutTypeOK, ScriptsOK, Clean, Untouched
<1>3. CASE WriteVersion
  BY <1>0, <1>3, TagsManifestsStay DEF WriteVersion, CutGoes, CutInv, CutTypeOK, ScriptsOK, Clean, Trees
<1>4. CASE WriteChangelog
  BY <1>0, <1>4, TagsManifestsStay DEF WriteChangelog, CutGoes, CutInv, CutTypeOK, ScriptsOK, Clean, Trees
<1>5. CASE CommitCut
  <2>1. CASE Clean /\ CutGoes("idle") /\ UNCHANGED <<history, head>>
    BY <1>0, <1>5, <2>1, TagsManifestsStay DEF CommitCut, CutGoes, CutInv, CutTypeOK, ScriptsOK, Clean
  <2>2. CASE CutGoes("tag") /\ head' = Len(history')
             /\ history' = Append(history, [history[head] EXCEPT !.version = tree.version, !.sections = tree.sections])
    <3>1. PICK base \in Trees : base = history[head]
      BY <1>0
    <3>2. PICK t : t = [base EXCEPT !.version = tree.version, !.sections = tree.sections]
      OBVIOUS
    <3>3. t \in Trees /\ t.version = tree.version /\ t.sections = tree.sections
      BY <1>0, <3>2 DEF Trees
    <3>4. history' = Append(history, t)
      BY <2>2, <3>1, <3>2
    <3>5. /\ history' \in Seq(Trees) /\ Len(history') = Len(history) + 1 /\ history'[head'] = t
          /\ head' \in 1 .. Len(history')
      BY <1>0, <2>2, <3>3, <3>4, CommitsStay
    <3>6. CutTypeOK'
      BY <1>5, <2>2, <3>5 DEF CommitCut, CutGoes, CutInv, CutTypeOK
    <3>7. ScriptsOK'
      BY <1>5, <2>2, <3>3, <3>5 DEF CommitCut, CutGoes, CutInv, CutTypeOK, ScriptsOK
    <3>8. QED
      BY <1>5, <3>3, <3>4, <3>6, <3>7, TagsManifestsStay DEF CommitCut, CutInv
  <2>3. QED
    BY <1>5, <2>1, <2>2 DEF CommitCut
<1>6. CASE TagCut
  <2>0. head \in Nat
    BY <1>0
  <2>1. CutTypeOK'
    BY <1>6, <2>0 DEF TagCut, CutGoes, CutInv, CutTypeOK
  <2>2. ScriptsOK' /\ ManifestsOK'
    BY <1>6 DEF TagCut, CutGoes, CutInv, CutTypeOK, ScriptsOK, Clean, ManifestsOK, ManifestTrue
  <2>3. history[head].version = cutter.next /\ cutter.next \in history[head].sections
    BY <1>6 DEF TagCut, CutInv, ScriptsOK
  <2>4. tags \in [Versions -> Nat] /\ cutter.next \in Versions
    BY DEF CutInv, CutTypeOK
  <2>5. TagsOK'
    BY <1>0, <1>6, <2>3, <2>4 DEF TagCut, CutInv, TagsOK
  <2>6. QED
    BY <2>1, <2>2, <2>5 DEF CutInv
<1>7. CASE CutDies
  BY <1>0, <1>7, TagsManifestsStay DEF CutDies, CutGoes, CutInv, CutTypeOK, ScriptsOK, Clean
<1>8. ASSUME NEW commit, NEW v \in Versions, StartPack(commit, v) PROVE CutInv'
  BY <1>0, <1>8, TagsManifestsStay DEF StartPack, ReleaseState, Untouched, Empty, CutInv, CutTypeOK, ScriptsOK, Clean, ManifestsOK, ManifestTrue, TagsOK
<1>9. CASE PackTarball
  BY <1>0, <1>9, TagsManifestsStay DEF PackTarball, PackGoes, CutInv, CutTypeOK, ScriptsOK, Clean
<1>10. CASE WriteManifest
  <2>1. PICK m : m = [commit |-> head, version |-> packer.version, bytes |-> output.tarball]
    OBVIOUS
  <2>2. output' = [output EXCEPT !.manifest = m]
    BY <1>10, <2>1 DEF WriteManifest
  <2>3. output.tarball = tree /\ tree = history[head] /\ tree.version = packer.version
    BY <1>10 DEF WriteManifest, CutInv, ScriptsOK, Clean
  <2>4. m \in Manifests
    BY <1>0, <2>1, <2>3 DEF Manifests, CutInv, CutTypeOK
  <2>5. output'.manifest = m /\ output'.tarball = output.tarball
    BY <2>2 DEF CutInv, CutTypeOK
  <2>6. CutTypeOK'
    BY <1>10, <2>2, <2>4 DEF WriteManifest, PackGoes, CutInv, CutTypeOK
  <2>7. ScriptsOK' /\ TagsOK'
    BY <1>10 DEF WriteManifest, PackGoes, CutInv, CutTypeOK, ScriptsOK, Clean, TagsOK
  <2>8. ManifestsOK'
    BY <1>0, <1>10, <2>1, <2>3, <2>5 DEF WriteManifest, CutInv, ManifestsOK, ManifestTrue
  <2>9. QED
    BY <2>6, <2>7, <2>8 DEF CutInv
<1>11. CASE PackDies
  BY <1>0, <1>11, TagsManifestsStay DEF PackDies, PackGoes, CutInv, CutTypeOK, ScriptsOK, Clean
<1>12. CASE PublishArtifact
  BY <1>0, <1>12, CutAssumption DEF PublishArtifact, ArtifactFits, CutInv, CutTypeOK, ScriptsOK, Clean, ManifestsOK, ManifestTrue, TagsOK, Manifests
<1>13. CASE VerifyRegistry
  BY <1>0, <1>13 DEF VerifyRegistry, Provenance, CutInv, CutTypeOK, ScriptsOK, Clean, ManifestsOK, ManifestTrue, TagsOK
<1>14. ASSUME NEW edited \in Trees, MaintainerEdits(edited) PROVE CutInv'
  BY <1>0, <1>14, TagsManifestsStay DEF MaintainerEdits, Untouched, CutInv, CutTypeOK, ScriptsOK
<1>15. CASE MaintainerCommits
  BY <1>0, <1>15, CommitsStay, TagsManifestsStay DEF MaintainerCommits, Untouched, CutInv, CutTypeOK, ScriptsOK
<1>16. ASSUME NEW commit \in DOMAIN history, MaintainerChecksOut(commit) PROVE CutInv'
  BY <1>0, <1>16, ElementOfSeq, TagsManifestsStay DEF MaintainerChecksOut, Untouched, CutInv, CutTypeOK, ScriptsOK
<1>17. ASSUME NEW v \in Versions, MaintainerDeletesTag(v) PROVE CutInv'
  BY <1>0, <1>17 DEF MaintainerDeletesTag, Untouched, CutInv, CutTypeOK, ScriptsOK, TagsOK, ManifestsOK, ManifestTrue
<1>18. ASSUME NEW t \in Elsewhere \cup {NoFile}, MaintainerReplaces(t) PROVE CutInv'
  BY <1>0, <1>18, CutAssumption DEF MaintainerReplaces, Untouched, Empty, CutInv, CutTypeOK, ScriptsOK, TagsOK, ManifestsOK, ManifestTrue
<1>19. ASSUME NEW other \in Elsewhere, PublishedElsewhere(other) PROVE CutInv'
  BY <1>0, <1>19, CutAssumption DEF PublishedElsewhere, CutInv, CutTypeOK, ScriptsOK, Clean, TagsOK, ManifestsOK, ManifestTrue, Manifests, Trees
<1>20. QED
  BY <1>1, <1>2, <1>3, <1>4, <1>5, <1>6, <1>7, <1>8, <1>9, <1>10, <1>11, <1>12, <1>13, <1>14, <1>15, <1>16, <1>17, <1>18, <1>19 DEF CutNext

\* Only one of the scripts works at a time on a tree that is clean, and what a tag, a manifest
\* or the registry's check says holds of the commit it names (scripts/release.mjs,
\* scripts/pack-once.mjs).
THEOREM CutInvariant == CutSpec => []CutInv
BY CutInvInit, CutInvStep, PTL DEF CutSpec

\* A tag is on a commit that says its version and has its section, wherever earlier cuts
\* died, and what the registry was found to hold is the tree of the manifest's commit
\* (scripts/release.mjs, scripts/pack-once.mjs).
THEOREM CutsStand == CutSpec => []CutStands
<1>1. CutInv => CutStands
  BY DEF CutInv, TagsOK, ManifestsOK, ManifestTrue, CutStands
<1>2. QED
  BY <1>1, CutInvariant, PTL

-----------------------------------------------------------------------------
(* The gate *)

\* A result that says its candidate is promoted says so for good.
ResultStands(doc) ==
  There(doc) /\ doc.state = "bc-preflip" => doc.c \in Candidates /\ states[doc.c] = "bc-preflip"

States == {"none", "classification_pending", "not_applicable", "pending_evidence", "bc-preflip"}

\* What the receipts of a ready gate agree in.
ReadyAgrees ==
  gate.at = "ready" =>
    /\ TheCandidate \in Candidates /\ states[TheCandidate] = "bc-preflip"
    /\ \A kind \in {"evaluator", "promotion", "ancestry", "releaseDiff"} : Doc(kind).c = TheCandidate
    /\ \A kind \in {"ancestry", "releaseDiff", "tagIdentity", "approval", "manifest", "tarball", "installSmoke"} :
         Doc(kind).r = Target
    /\ \A kind \in {"manifest", "tarball", "installSmoke"} : Doc(kind).pack = Doc("manifest").pack

GateInv ==
  /\ states \in [Candidates -> States]
  /\ folder = [kind \in Documents |-> folder[kind]]
  /\ ResultStands(folder["evaluator"])
  /\ \E docs : gate.read \in Seq(docs)
  /\ gate = [at |-> gate.at, read |-> gate.read, observed |-> gate.observed]
  /\ \A i \in DOMAIN gate.read : ReadingOrder[i] = "evaluator" => ResultStands(gate.read[i])
  /\ ReadyAgrees

LEMMA GateInvInit == GateInit => GateInv
<1> SUFFICES ASSUME GateInit PROVE GateInv
  OBVIOUS
<1>1. ResultStands(folder["evaluator"])
  BY DEF GateInit, ResultStands, There, Documents, ReadingOrder, ToSet
<1>2. QED
  BY <1>1, EmptySeq DEF GateInit, GateInv, ReadyAgrees, States

\* Jobs that leave the gate alone.
LEMMA JobKeeps ==
  ASSUME GateInv, UNCHANGED gate, states' \in [Candidates -> States],
         \A c \in Candidates : states[c] = "bc-preflip" => states'[c] = "bc-preflip",
         folder' = [kind \in Documents |-> folder'[kind]],
         ResultStands(folder["evaluator"])'
  PROVE  GateInv'
<1>1. \A i \in DOMAIN gate.read : ReadingOrder[i] = "evaluator" => ResultStands(gate.read[i])'
  BY DEF GateInv, ResultStands
<1>2. ReadyAgrees'
  <2>1. \A kind : Doc(kind)' = Doc(kind)
    BY DEF Doc
  <2>2. TheCandidate' = TheCandidate
    BY <2>1 DEF TheCandidate
  <2>3. QED
    BY <2>1, <2>2 DEF GateInv, ReadyAgrees
<1>3. QED
  BY <1>1, <1>2 DEF GateInv

\* The result stays as it is, or is taken of the state there is.
LEMMA ResultStaysOrIsTaken ==
  ASSUME GateInv, NEW kind \in Documents, NEW doc, folder' = [folder EXCEPT ![kind] = doc],
         UNCHANGED states, kind = "evaluator" => ResultStands(doc)
  PROVE  folder' = [k \in Documents |-> folder'[k]] /\ ResultStands(folder["evaluator"])'
BY DEF GateInv, ResultStands

LEMMA DecideKeeps ==
  ASSUME GateInv, NEW observed \in BOOLEAN, Decide(observed)
  PROVE  GateInv'
<1>0. /\ gate.at = "reading" /\ Len(gate.read) = Len(ReadingOrder)
      /\ UNCHANGED <<states, live, projection, folder, time, writes>>
  BY DEF Decide
<1>1. gate'.read = gate.read /\ gate' = [at |-> gate'.at, read |-> gate'.read, observed |-> gate'.observed]
      /\ (gate'.at = "ready" => NoBlockers)
  BY <1>0 DEF Decide, GateInv
<1>2. \A kind : Doc(kind)' = Doc(kind)
  BY <1>1 DEF Doc
<1>3. TheCandidate' = TheCandidate
  BY <1>2 DEF TheCandidate
<1>4. ASSUME gate'.at = "ready"
      PROVE  /\ TheCandidate \in Candidates /\ states[TheCandidate] = "bc-preflip"
             /\ \A kind \in {"evaluator", "promotion", "ancestry", "releaseDiff"} : Doc(kind).c = TheCandidate
             /\ \A kind \in {"ancestry", "releaseDiff", "tagIdentity", "approval", "manifest", "tarball", "installSmoke"} :
                  Doc(kind).r = Target
             /\ \A kind \in {"manifest", "tarball", "installSmoke"} : Doc(kind).pack = Doc("manifest").pack
  <2>1. NoBlockers
    BY <1>1, <1>4
  <2>2. ResultStands(Doc("evaluator"))
    <3>1. \E i \in DOMAIN ReadingOrder : ReadingOrder[i] = "evaluator"
      BY DEF ReadingOrder
    <3>2. PICK i \in DOMAIN ReadingOrder : ReadingOrder[i] = "evaluator" /\ Doc("evaluator") = gate.read[i]
      BY <3>1 DEF Doc
    <3>3. i \in DOMAIN gate.read
      BY <1>0, <3>2 DEF GateInv, ReadingOrder
    <3>4. QED
      BY <3>2, <3>3 DEF GateInv
  <2>3. There(Doc("evaluator")) /\ EvaluatorTrusts(Doc("evaluator"))
    BY <2>1 DEF NoBlockers, Documents, ReadingOrder, ToSet
  <2>4. TheCandidate \in Candidates /\ states[TheCandidate] = "bc-preflip"
    BY <2>2, <2>3 DEF ResultStands, EvaluatorTrusts, TheCandidate
  <2>5. /\ Doc("promotion").c = TheCandidate /\ Doc("ancestry").c = TheCandidate
        /\ Doc("releaseDiff").c = TheCandidate
    BY <2>1 DEF NoBlockers, LedgerBinds, AncestryBinds, DiffBinds
  <2>6. /\ Doc("ancestry").r = Target /\ Doc("releaseDiff").r = Target /\ Doc("tagIdentity").r = Target
        /\ Doc("approval").r = Target /\ Doc("manifest").r = Target /\ Doc("tarball").r = Target
        /\ Doc("installSmoke").r = Target
    BY <2>1 DEF NoBlockers, AncestryBinds, DiffBinds, TagBinds, ApprovalBinds, ArtifactBinds, SmokeBinds
  <2>7. Doc("tarball").pack = Doc("manifest").pack /\ Doc("installSmoke").pack = Doc("manifest").pack
    BY <2>1 DEF NoBlockers, ArtifactBinds, SmokeBinds
  <2>8. Doc("evaluator").c = TheCandidate
    BY DEF TheCandidate
  <2>9. QED
    BY <2>4, <2>5, <2>6, <2>7, <2>8
<1>5. ReadyAgrees'
  BY <1>0, <1>2, <1>3, <1>4 DEF ReadyAgrees
<1>6. QED
  BY <1>0, <1>1, <1>5 DEF GateInv, ResultStands

LEMMA ReadKeeps ==
  ASSUME GateInv, ReadReceipt
  PROVE  GateInv'
<1>1. PICK i, doc : /\ i = Len(gate.read) + 1 /\ doc = folder[ReadingOrder[i]]
                    /\ gate'.read = Append(gate.read, doc) /\ gate'.at \in {"reading", "failed"}
                    /\ gate' = [at |-> gate'.at, read |-> gate'.read, observed |-> gate'.observed]
  BY DEF ReadReceipt, GateInv
<1>2. PICK docs : gate.read \in Seq(docs)
  BY DEF GateInv
<1>3. gate.read \in Seq(docs \cup {doc})
  BY <1>2
<1>4. /\ gate'.read \in Seq(docs \cup {doc}) /\ DOMAIN gate'.read = 1 .. i /\ gate'.read[i] = doc
      /\ \A j \in DOMAIN gate.read : gate'.read[j] = gate.read[j]
      /\ DOMAIN gate.read = 1 .. (i - 1) /\ i \in Nat
  BY <1>1, <1>3, AppendProperties, LenProperties
<1>5. UNCHANGED <<states, folder>>
  BY DEF ReadReceipt
<1>6. ASSUME NEW j \in DOMAIN gate'.read, ReadingOrder[j] = "evaluator"
      PROVE  ResultStands(gate'.read[j])
  <2>1. CASE j \in DOMAIN gate.read
    BY <1>4, <1>6, <2>1 DEF GateInv
  <2>2. CASE j = i
    BY <1>1, <1>4, <1>6, <2>2 DEF GateInv
  <2>3. QED
    BY <1>4, <2>1, <2>2
<1>7. QED
  BY <1>1, <1>4, <1>5, <1>6 DEF GateInv, ResultStands, ReadyAgrees

LEMMA GateInvStep == ASSUME GateInv, [GateNext]_gateVars PROVE GateInv'
<1>1. CASE UNCHANGED gateVars
  BY <1>1, JobKeeps DEF gateVars, GateInv, ResultStands
<1>2. ASSUME NEW c \in Candidates, NEW state \in States, Becomes(c, state), states[c] # "bc-preflip"
      PROVE  GateInv'
  BY <1>2, JobKeeps DEF Becomes, GateInv, ResultStands
<1>3. ASSUME NEW c \in Candidates,
             CreateState(c) \/ (\E intent \in BOOLEAN : ClassifyState(c, intent)) \/ \E other : PromoteState(c, other)
      PROVE  GateInv'
  <2>1. PICK state \in States : Becomes(c, state) /\ states[c] # "bc-preflip"
    BY <1>3 DEF CreateState, ClassifyState, PromoteState, States
  <2>2. QED
    BY <1>2, <2>1
<1>4. ASSUME NEW kind \in Documents, NEW doc, Leave(kind, doc), kind = "evaluator" => ResultStands(doc)
      PROVE  GateInv'
  BY <1>4, ResultStaysOrIsTaken, JobKeeps DEF Leave, GateInv
<1>5. {"evaluator", "promotion", "ruleset", "authority"} \subseteq Documents
  BY DEF Documents, ReadingOrder, ToSet
<1>6. ASSUME NEW c \in Candidates, LeaveResult(c) PROVE GateInv'
  <2>1. ResultStands(Evaluated(c))
    BY <1>6 DEF ResultStands, Evaluated
  <2>2. QED
    BY <1>4, <1>5, <1>6, <2>1 DEF LeaveResult
<1>7. ASSUME NEW c \in Candidates, NEW other, BuildLedger(c, other) PROVE GateInv'
  BY <1>4, <1>5, <1>7 DEF BuildLedger
<1>8. CASE ProjectFixedContext \/ (\E image \in Rulesets : PrepareRollback(image)) \/ (\E lost \in BOOLEAN : ReconcileRulesetResponse(lost))
  BY <1>4, <1>5, <1>8 DEF ProjectFixedContext, PrepareRollback, ReconcileRulesetResponse
<1>9. ASSUME NEW w \in Workflows, AuthorityJob(w) PROVE GateInv'
  <2>1. PICK doc : Leave("authority", doc)
    BY <1>9 DEF AuthorityJob, BuildAuthority
  <2>2. QED
    BY <1>4, <1>5, <2>1
<1>10. ASSUME NEW image, RulesetChanges(image) PROVE GateInv'
  BY <1>10, JobKeeps DEF RulesetChanges, GateInv, ResultStands
<1>11. CASE TimePasses
  BY <1>11, JobKeeps DEF TimePasses, GateInv, ResultStands
<1>12. ASSUME NEW kind \in Documents, NEW doc \in FromOutside(kind), OutsideJob(kind, doc) PROVE GateInv'
  <2>1. kind = "evaluator" => ResultStands(doc)
    BY <1>12 DEF FromOutside, ResultStands, There
  <2>2. QED
    BY <1>12, <2>1, ResultStaysOrIsTaken, JobKeeps DEF OutsideJob, GateInv
<1>13. QED
  BY <1>1, <1>3, <1>6, <1>7, <1>8, <1>9, <1>10, <1>11, <1>12, DecideKeeps, ReadKeeps DEF GateNext

\* What the gate has read so far agrees with the results and receipts that never change
\* again, whatever others replace meanwhile (scripts/verify-4.0-gates.mjs).
THEOREM GateInvariant == GateSpec => []GateInv
BY GateInvInit, GateInvStep, PTL DEF GateSpec

\* The gate is only ready on receipts of one promoted candidate, of this release and of one
\* pack, whatever is replaced while it reads (scripts/verify-4.0-gates.mjs).
THEOREM ReadyForOne == GateSpec => []ReadyIsOne
<1>1. GateInv => ReadyIsOne
  <2> SUFFICES ASSUME GateInv, gate.at = "ready" PROVE ReadyIsOne
    BY DEF ReadyIsOne
  <2>1. {Doc(kind).c : kind \in {"evaluator", "promotion", "ancestry", "releaseDiff"}} = {TheCandidate}
    BY DEF GateInv, ReadyAgrees
  <2>2. {Doc(kind).r : kind \in {"ancestry", "releaseDiff", "tagIdentity", "approval",
                                 "manifest", "tarball", "installSmoke"}} = {Target}
    BY DEF GateInv, ReadyAgrees
  <2>3. {Doc(kind).pack : kind \in {"manifest", "tarball", "installSmoke"}} = {Doc("manifest").pack}
    BY DEF GateInv, ReadyAgrees
  <2>4. Cardinality({Doc(kind).pack : kind \in {"manifest", "tarball", "installSmoke"}}) = 1
    BY <2>3, FS_Singleton
  <2>5. QED
    BY <2>1, <2>2, <2>4 DEF GateInv, ReadyAgrees, ReadyIsOne
<1>2. QED
  BY <1>1, GateInvariant, PTL

-----------------------------------------------------------------------------
(* The evaluation of a candidate *)

Early == {"idle", "bind", "look", "create", "fill", "seed", "insert", "inserted"}
Done == {"judge", "trusted", "written", "unwritten"}
Stages == Early \cup {"before", "runA", "between", "runB", "after", "probe"} \cup Done \cup {"refused"}
Stored == {"none", "seed", "edited", "grown"}

\* What an observation or a run may record.
Findings == Stored \cup Nat \cup Seq(Nat)
Replay == [tables : [Tables -> Stored], version : Nat]
EvaluationType ==
  [at : Stages, input : InputSpace \cup {Nothing}, before : Seq(Findings), between : Seq(Findings),
   after : Seq(Findings), ran : Seq(Replay)]

\* What an evaluation has recorded by the stage it is at.
RecordsOK(s) ==
  /\ s.at \in Early => s.before = <<>>
  /\ s.at \in Early \cup {"before", "runA"} => s.between = <<>> /\ s.after = <<>> /\ s.ran = <<>>
  /\ s.at = "before" => Len(s.before) < Observed
  /\ s.at = "between" => Len(s.ran) = 1 /\ Len(s.between) < Observed /\ s.after = <<>>
  /\ s.at = "runB" => Len(s.ran) = 1 /\ Len(s.between) = Observed /\ s.after = <<>>
  /\ s.at = "after" => Len(s.ran) = 2 /\ Len(s.between) = Observed /\ Len(s.after) < Observed
  /\ s.at \in {"probe"} \cup Done => Len(s.ran) = 2 /\ Len(s.between) = Observed /\ Len(s.after) = Observed
  /\ s.at \in Done => s.between = s.before /\ s.after = s.before

\* While the data version is the one the first observation ended with, nobody has written:
\* all that was recorded since is of the store as it is.  And what two later observations
\* that end with that version enclose is of one store.
StillOK(s) ==
  /\ s.at \in {"runA", "between", "runB", "after", "probe"} \cup Done =>
       /\ Len(s.before) = Observed /\ s.before[Observed] \in Nat /\ s.before[Observed] <= dataVersion
       /\ s.before[Observed] = dataVersion =>
            /\ \A k \in 1 .. Len(s.ran) : s.ran[k].tables = store /\ s.ran[k].version = dataVersion
            /\ \A i \in 1 .. Len(s.between) : s.between[i] = Finds(i)
  /\ s.at \in {"runB", "after", "probe"} \cup Done /\ s.between[Observed] = s.before[Observed] =>
       /\ s.ran[1].version = s.before[Observed]
       /\ \A i \in DOMAIN Probed : s.between[i] = s.ran[1].tables[Probed[i]]
  /\ s.at \in {"probe"} \cup Done /\ s.after[Observed] = s.before[Observed] => s.ran[1] = s.ran[2]

\* One evaluator at most fills the intent file, and it is the trusted ones' from then on.
IntentOK ==
  /\ \A e \in Evaluators : evaluation[e].at # "idle" => C(e) \in Commits
  /\ \A e \in Evaluators : Stands(e, "fill") => intentFile = Forged
  /\ \A d, e \in Evaluators : Stands(d, "fill") /\ Stands(e, "fill") => d = e
  /\ \A e \in Evaluators : Trusted(e) => intentFile = C(e)

EvaluationInv ==
  /\ store \in [Tables -> Stored] /\ dataVersion \in Nat
  /\ evaluation \in [Evaluators -> EvaluationType]
  /\ \A e \in Evaluators : RecordsOK(evaluation[e]) /\ StillOK(evaluation[e])
  /\ IntentOK

LEMMA ProbedIs == Len(Probed) = 2 /\ Observed = 4 /\ DOMAIN Probed = {1, 2} /\ \A i \in {1, 2} : Probed[i] \in Tables
BY DEF Probed, Observed, Tables, ToSet

LEMMA FindsType ==
  ASSUME store \in [Tables -> Stored], dataVersion \in Nat, NEW i \in 1 .. Observed
  PROVE  Finds(i) \in Findings /\ (i \in DOMAIN Probed => Finds(i) = store[Probed[i]]) /\ (i = Observed => Finds(i) = dataVersion)
<1>1. HighWater(store) \in Seq(Nat)
  BY DEF HighWater, RowCount, Probed
<1>2. QED
  BY <1>1, ProbedIs DEF Finds, Findings

LEMMA EvaluationInvInit == EvaluationInit => EvaluationInv
<1> SUFFICES ASSUME EvaluationInit PROVE EvaluationInv
  OBVIOUS
<1>1. store \in [Tables -> Stored] /\ dataVersion \in Nat
  <2>1. [table \in Tables |-> "none"] \in [Tables -> Stored]
    BY DEF Stored
  <2>2. Seeded \in [Tables -> Stored]
    BY DEF Seeded, Stored
  <2>3. store = [table \in Tables |-> "none"] \/ store = Seeded
    BY DEF EvaluationInit
  <2>4. dataVersion = 0
    BY DEF EvaluationInit
  <2>5. QED
    BY <2>1, <2>2, <2>3, <2>4
<1>2. Fresh \in EvaluationType /\ Fresh.at = "idle"
  <2>1. PICK none \in Seq(Findings) : none = <<>>
    <3>1. <<>> \in Seq(Findings)
      BY EmptySeq
    <3>2. QED
      BY <3>1
  <2>2. PICK noRun \in Seq(Replay) : noRun = <<>>
    <3>1. <<>> \in Seq(Replay)
      BY EmptySeq
    <3>2. QED
      BY <3>1
  <2>3. PICK idle \in Stages : idle = "idle"
    BY DEF Stages, Early
  <2>4. PICK input \in InputSpace \cup {Nothing} : input = Nothing
    OBVIOUS
  <2>5. [at |-> idle, input |-> input, before |-> none, between |-> none, after |-> none, ran |-> noRun] \in EvaluationType
    BY DEF EvaluationType
  <2>6. QED
    BY <2>1, <2>2, <2>3, <2>4, <2>5 DEF Fresh
<1>3. RecordsOK(Fresh) /\ StillOK(Fresh)
  BY DEF Fresh, RecordsOK, StillOK, Early, Done
<1>4. IntentOK
  BY <1>2 DEF EvaluationInit, IntentOK, Stands, Trusted
<1>5. QED
  BY <1>1, <1>2, <1>3, <1>4 DEF EvaluationInit, EvaluationInv

\* A write of the store counts up, and makes what StillOK says of the present one void.
LEMMA StillStays ==
  ASSUME NEW s \in EvaluationType, StillOK(s), store' \in [Tables -> Stored], dataVersion \in Nat,
         UNCHANGED <<store, dataVersion>> \/ dataVersion' = dataVersion + 1
  PROVE  StillOK(s)'
<1>1. CASE UNCHANGED <<store, dataVersion>>
  BY <1>1 DEF StillOK, Finds
<1>2. CASE dataVersion' = dataVersion + 1
  BY <1>2 DEF StillOK, Finds
<1>3. QED
  BY <1>1, <1>2

\* What is left to show of a step of one evaluator.
LEMMA EvaluatorKeeps ==
  ASSUME EvaluationInv, NEW e \in Evaluators, NEW s \in EvaluationType,
         evaluation' = [evaluation EXCEPT ![e] = s],
         store' \in [Tables -> Stored], UNCHANGED <<store, dataVersion>> \/ dataVersion' = dataVersion + 1,
         RecordsOK(s), StillOK(s)', IntentOK'
  PROVE  EvaluationInv'
<1>1. /\ evaluation' \in [Evaluators -> EvaluationType] /\ evaluation'[e] = s
      /\ \A d \in Evaluators \ {e} : evaluation'[d] = evaluation[d]
  BY DEF EvaluationInv
<1>2. ASSUME NEW d \in Evaluators PROVE RecordsOK(evaluation[d])' /\ StillOK(evaluation[d])'
  <2>1. CASE d = e
    BY <1>1, <2>1 DEF RecordsOK
  <2>2. CASE d # e
    <3>1. PICK x \in EvaluationType : x = evaluation[d]
      BY DEF EvaluationInv
    <3>2. StillOK(x)' /\ RecordsOK(x)
      BY <3>1, StillStays DEF EvaluationInv
    <3>3. QED
      BY <1>1, <2>2, <3>1, <3>2 DEF RecordsOK
  <2>3. QED
    BY <2>1, <2>2
<1>3. dataVersion' \in Nat
  BY DEF EvaluationInv
<1>4. QED
  BY <1>1, <1>2, <1>3 DEF EvaluationInv

\* The intent file stays, and this evaluator neither starts to fill it nor is trusted against it.
LEMMA IntentStays ==
  ASSUME EvaluationInv, NEW e \in Evaluators, NEW s \in EvaluationType,
         evaluation' = [evaluation EXCEPT ![e] = s], UNCHANGED intentFile,
         s.input.commit \in Commits, s.at # "fill",
         s.at \in {"trusted", "written", "unwritten"} => intentFile = s.input.commit
  PROVE  IntentOK'
<1>1. /\ evaluation'[e] = s /\ \A d \in Evaluators \ {e} : evaluation'[d] = evaluation[d]
  BY DEF EvaluationInv
<1>2. QED
  BY <1>1 DEF EvaluationInv, IntentOK, Stands, Trusted, C

\* How an evaluator goes on that records nothing.
LEMMA GoesKeeps ==
  ASSUME EvaluationInv, NEW e \in Evaluators, NEW stage \in Stages, Goes(e, stage), IntentOK',
         store' \in [Tables -> Stored], UNCHANGED <<store, dataVersion>> \/ dataVersion' = dataVersion + 1,
         \/ stage = "refused"
         \/ evaluation[e].at \in Early /\ stage \in Early \cup {"before"}
         \/ UNCHANGED <<store, dataVersion>> /\ Stands(e, "probe") /\ stage = "judge" /\ ReplayHolds(e)
         \/ evaluation[e].at \in Done /\ stage \in Done
  PROVE  EvaluationInv'
<1>1. PICK x \in EvaluationType : x = evaluation[e]
  BY DEF EvaluationInv
<1>2. RecordsOK(x) /\ StillOK(x)
  BY <1>1 DEF EvaluationInv
<1>3. PICK s : s = [x EXCEPT !.at = stage]
  OBVIOUS
<1>4. /\ s \in EvaluationType /\ s.at = stage /\ s.input = x.input /\ s.before = x.before
      /\ s.between = x.between /\ s.after = x.after /\ s.ran = x.ran
  BY <1>3 DEF EvaluationType
<1>5. evaluation' = [evaluation EXCEPT ![e] = s]
  BY <1>1, <1>3 DEF Goes
<1>6. StillOK(x)'
  BY <1>2, StillStays DEF EvaluationInv
<1>7. RecordsOK(s) /\ StillOK(s)'
  <2>1. CASE stage = "refused"
    BY <1>4, <2>1 DEF RecordsOK, StillOK, Early, Done
  <2>2. CASE evaluation[e].at \in Early /\ stage \in Early \cup {"before"}
    <3>1. s.before = <<>> /\ s.between = <<>> /\ s.after = <<>> /\ s.ran = <<>>
      BY <1>1, <1>2, <1>4, <2>2 DEF RecordsOK
    <3>2. Len(s.before) < Observed
      BY <3>1, ProbedIs
    <3>3. RecordsOK(s)
      BY <1>4, <2>2, <3>1, <3>2 DEF RecordsOK, Early, Done
    <3>4. StillOK(s)'
      BY <1>4, <2>2 DEF StillOK, Early, Done
    <3>5. QED
      BY <3>3, <3>4
  <2>3. CASE Stands(e, "probe") /\ stage = "judge" /\ ReplayHolds(e)
    <3>1. x.before = x.between /\ x.before = x.after
      BY <1>1, <2>3 DEF ReplayHolds, Unmoved
    <3>2. x.at = "probe"
      BY <1>1, <2>3 DEF Stands
    <3>3. RecordsOK(s)
      BY <1>2, <1>4, <2>3, <3>1, <3>2 DEF RecordsOK, Early, Done
    <3>4. StillOK(s)'
      BY <1>4, <1>6, <2>3, <3>2 DEF StillOK, Done
    <3>5. QED
      BY <3>3, <3>4
  <2>4. CASE evaluation[e].at \in Done /\ stage \in Done
    <3>1. x.at \in Done
      BY <1>1, <2>4
    <3>2. RecordsOK(s)
      BY <1>2, <1>4, <2>4, <3>1 DEF RecordsOK, Early, Done
    <3>3. StillOK(s)'
      BY <1>4, <1>6, <2>4, <3>1 DEF StillOK, Done
    <3>4. QED
      BY <3>2, <3>3
  <2>5. QED
    BY <2>1, <2>2, <2>3, <2>4
<1>8. QED
  BY <1>4, <1>5, <1>7, EvaluatorKeeps

\* One statement of an observation.
LEMMA ObserveKeeps == ASSUME EvaluationInv, NEW e \in Evaluators, Observe(e) PROVE EvaluationInv'
<1>1. PICK x \in EvaluationType : x = evaluation[e]
  BY DEF EvaluationInv
<1>2. RecordsOK(x) /\ StillOK(x)
  BY <1>1 DEF EvaluationInv
<1>3. /\ x.at \in Stages /\ x.before \in Seq(Findings) /\ x.between \in Seq(Findings) /\ x.after \in Seq(Findings)
      /\ x.ran \in Seq(Replay)
  BY DEF EvaluationType
<1>4. PICK phase \in {"before", "between", "after"} :
        /\ x.at = phase
        /\ evaluation' = [evaluation EXCEPT ![e][phase] = Append(x[phase], Finds(Len(x[phase]) + 1)),
             ![e].at = IF Len(Append(x[phase], Finds(Len(x[phase]) + 1))) = Observed THEN AfterObservation[phase] ELSE @]
        /\ UNCHANGED <<intentFile, store, dataVersion>>
  BY <1>1 DEF Observe, AfterObservation, Stands
<1>5. PICK seen : seen = x[phase]
  OBVIOUS
<1>6. seen \in Seq(Findings) /\ Len(seen) \in Nat /\ Len(seen) < Observed
  BY <1>2, <1>3, <1>4, <1>5 DEF RecordsOK
<1>7. Len(seen) + 1 \in 1 .. Observed /\ Finds(Len(seen) + 1) \in Findings
      /\ (Len(seen) + 1 = Observed => Finds(Len(seen) + 1) = dataVersion)
  BY <1>6, FindsType, ProbedIs DEF EvaluationInv
<1>8. PICK found : found = Append(seen, Finds(Len(seen) + 1))
  OBVIOUS
<1>9. /\ found \in Seq(Findings) /\ Len(found) = Len(seen) + 1 /\ Len(found) <= Observed
      /\ found[Len(found)] = Finds(Len(found)) /\ \A i \in 1 .. Len(seen) : found[i] = seen[i]
      /\ (Len(found) = Observed => found[Observed] = dataVersion)
  BY <1>6, <1>7, <1>8, AppendProperties, ProbedIs
<1>10. PICK stage \in Stages : stage = IF Len(found) = Observed THEN AfterObservation[phase] ELSE phase
  BY DEF AfterObservation, Stages
<1>11. dataVersion \in Nat /\ store \in [Tables -> Stored]
  BY DEF EvaluationInv
<1>12. StillOK(x)' /\ \A i \in 1 .. Observed : Finds(i)' = Finds(i)
  BY <1>2, <1>4, <1>11, StillStays DEF Finds
<1>13. PICK s : s = [x EXCEPT ![phase] = found, !.at = stage]
  OBVIOUS
<1>14. /\ s \in EvaluationType /\ s.at = stage /\ s.input = x.input /\ s.ran = x.ran
       /\ s.before = IF phase = "before" THEN found ELSE x.before
       /\ s.between = IF phase = "between" THEN found ELSE x.between
       /\ s.after = IF phase = "after" THEN found ELSE x.after
  <2>1. CASE phase = "before"
    BY <1>9, <1>13, <2>1 DEF EvaluationType
  <2>2. CASE phase = "between"
    BY <1>9, <1>13, <2>2 DEF EvaluationType
  <2>3. CASE phase = "after"
    BY <1>9, <1>13, <2>3 DEF EvaluationType
  <2>4. QED
    BY <2>1, <2>2, <2>3
<1>15. evaluation' = [evaluation EXCEPT ![e] = s]
  <2>1. CASE phase = "before"
    BY <1>1, <1>4, <1>5, <1>8, <1>10, <1>13, <2>1 DEF EvaluationInv, EvaluationType
  <2>2. CASE phase = "between"
    BY <1>1, <1>4, <1>5, <1>8, <1>10, <1>13, <2>2 DEF EvaluationInv, EvaluationType
  <2>3. CASE phase = "after"
    BY <1>1, <1>4, <1>5, <1>8, <1>10, <1>13, <2>3 DEF EvaluationInv, EvaluationType
  <2>4. QED
    BY <2>1, <2>2, <2>3
<1>16. IntentOK'
  <2>1. s.input.commit \in Commits /\ s.at # "fill" /\ s.at \notin {"trusted", "written", "unwritten"}
    BY <1>1, <1>4, <1>10, <1>14 DEF EvaluationInv, IntentOK, C, AfterObservation
  <2>2. QED
    BY <1>4, <1>14, <1>15, <2>1, IntentStays
<1>17. CASE phase = "before"
  <2>1. /\ x.between = <<>> /\ x.after = <<>> /\ x.ran = <<>> /\ s.before = found
        /\ stage = IF Len(found) = Observed THEN "runA" ELSE "before"
    BY <1>2, <1>4, <1>10, <1>14, <1>17 DEF RecordsOK, AfterObservation
  <2>2. RecordsOK(s)
    BY <1>9, <1>14, <1>17, <2>1, ProbedIs DEF RecordsOK, Early, Done
  <2>3. Len(s.ran) = 0 /\ Len(s.between) = 0
    BY <1>14, <1>17, <2>1
  <2>4. StillOK(s)'
    BY <1>4, <1>9, <1>11, <1>14, <2>1, <2>3 DEF StillOK, Done
  <2>5. QED
    BY <1>4, <1>11, <1>14, <1>15, <1>16, <2>2, <2>4, EvaluatorKeeps
<1>18. CASE phase = "between"
  <2>1. /\ x.after = <<>> /\ Len(x.ran) = 1 /\ s.between = found /\ s.before = x.before /\ s.after = x.after
        /\ stage = IF Len(found) = Observed THEN "runB" ELSE "between"
    BY <1>2, <1>4, <1>10, <1>14, <1>18 DEF RecordsOK, AfterObservation
  <2>2. RecordsOK(s)
    <3>1. CASE Len(found) = Observed
      BY <1>14, <2>1, <3>1 DEF RecordsOK, Early, Done
    <3>2. CASE Len(found) # Observed
      <4>1. Len(found) < Observed
        BY <1>6, <1>9, <3>2, ProbedIs
      <4>2. QED
        BY <1>14, <2>1, <3>2, <4>1 DEF RecordsOK, Early, Done
    <3>3. QED
      BY <3>1, <3>2
  <2>3. /\ Len(x.before) = Observed /\ x.before[Observed] \in Nat /\ x.before[Observed] <= dataVersion
    BY <1>2, <1>4, <1>18 DEF StillOK
  <2>4. ASSUME x.before[Observed] = dataVersion
        PROVE  /\ x.ran[1].tables = store /\ x.ran[1].version = dataVersion
               /\ \A i \in 1 .. Len(found) : found[i] = Finds(i)
    <3>1. /\ x.ran[1].tables = store /\ x.ran[1].version = dataVersion
          /\ \A i \in 1 .. Len(seen) : seen[i] = Finds(i)
      BY <1>2, <1>4, <1>5, <1>18, <2>1, <2>4 DEF StillOK
    <3>2. QED
      BY <1>6, <1>9, <3>1
  <2>5. ASSUME x.before[Observed] = dataVersion, Len(found) = Observed
        PROVE  \A i \in DOMAIN Probed : found[i] = x.ran[1].tables[Probed[i]]
    <3>1. ASSUME NEW i \in DOMAIN Probed PROVE found[i] = store[Probed[i]]
      BY <1>11, <2>4, <2>5, ProbedIs, FindsType
    <3>2. QED
      BY <2>4, <2>5, <3>1
  <2>6. StillOK(s)'
    BY <1>4, <1>9, <1>12, <1>14, <2>1, <2>3, <2>4, <2>5 DEF StillOK, Done
  <2>7. QED
    BY <1>4, <1>11, <1>14, <1>15, <1>16, <2>2, <2>6, EvaluatorKeeps
<1>19. CASE phase = "after"
  <2>1. /\ Len(x.ran) = 2 /\ Len(x.between) = Observed /\ s.after = found /\ s.before = x.before /\ s.between = x.between
        /\ stage = IF Len(found) = Observed THEN "probe" ELSE "after"
    BY <1>2, <1>4, <1>10, <1>14, <1>19 DEF RecordsOK, AfterObservation
  <2>2. RecordsOK(s)
    <3>1. CASE Len(found) = Observed
      BY <1>14, <2>1, <3>1 DEF RecordsOK, Early, Done
    <3>2. CASE Len(found) # Observed
      <4>1. Len(found) < Observed
        BY <1>6, <1>9, <3>2, ProbedIs
      <4>2. QED
        BY <1>14, <2>1, <3>2, <4>1 DEF RecordsOK, Early, Done
    <3>3. QED
      BY <3>1, <3>2
  <2>3. ASSUME x.before[Observed] = dataVersion
        PROVE  x.ran[1] = x.ran[2]
    <3>1. /\ x.ran[1].tables = x.ran[2].tables /\ x.ran[1].version = x.ran[2].version
      BY <1>2, <1>4, <1>19, <2>1, <2>3 DEF StillOK
    <3>2. x.ran[1] \in Replay /\ x.ran[2] \in Replay
      BY <1>3, <2>1
    <3>3. QED
      BY <3>1, <3>2 DEF Replay
  <2>4. x.at = "after" /\ x.at \in {"runA", "between", "runB", "after", "probe"} /\ x.at \in {"runB", "after", "probe"}
    BY <1>4, <1>19
  <2>5. StillOK(s)'
    BY <1>4, <1>9, <1>12, <1>14, <2>1, <2>3, <2>4 DEF StillOK, Done
  <2>6. QED
    BY <1>4, <1>11, <1>14, <1>15, <1>16, <2>2, <2>5, EvaluatorKeeps
<1>20. QED
  BY <1>17, <1>18, <1>19

\* A replay of the command.
LEMMA RunKeeps == ASSUME EvaluationInv, NEW e \in Evaluators, NEW fits \in BOOLEAN, Run(e, fits) PROVE EvaluationInv'
<1>1. PICK x \in EvaluationType : x = evaluation[e]
  BY DEF EvaluationInv
<1>2. RecordsOK(x) /\ StillOK(x)
  BY <1>1 DEF EvaluationInv
<1>3. /\ x.at \in {"runA", "runB"} /\ x.ran \in Seq(Replay) /\ store \in [Tables -> Stored] /\ dataVersion \in Nat
      /\ UNCHANGED <<intentFile, store, dataVersion>>
  BY <1>1 DEF Run, EvaluationType, EvaluationInv
<1>4. PICK replay \in Replay : replay = [tables |-> store, version |-> dataVersion]
  BY <1>3 DEF Replay
<1>5. replay.tables = store /\ replay.version = dataVersion
  BY <1>4
<1>6. PICK ran \in Seq(Replay) : ran = Append(x.ran, replay)
  BY <1>3, AppendProperties
<1>7. Len(x.ran) \in Nat /\ Len(ran) = Len(x.ran) + 1 /\ ran[Len(ran)] = replay /\ \A k \in 1 .. Len(x.ran) : ran[k] = x.ran[k]
  BY <1>3, <1>6, AppendProperties
<1>8. PICK stage \in {"refused", "between", "after"} :
        stage = IF ~fits THEN "refused" ELSE IF x.at = "runA" THEN "between" ELSE "after"
  OBVIOUS
<1>9. PICK s : s = [x EXCEPT !.ran = ran, !.at = stage]
  OBVIOUS
<1>10. /\ s \in EvaluationType /\ s.at = stage /\ s.input = x.input /\ s.before = x.before
       /\ s.between = x.between /\ s.after = x.after /\ s.ran = ran
  BY <1>8, <1>9 DEF EvaluationType, Stages
<1>11. evaluation' = [evaluation EXCEPT ![e] = s]
  BY <1>1, <1>4, <1>6, <1>8, <1>9 DEF Run, EvaluationInv, EvaluationType
<1>12. IntentOK'
  <2>1. s.input.commit \in Commits /\ s.at # "fill" /\ s.at \notin {"trusted", "written", "unwritten"}
    BY <1>1, <1>3, <1>8, <1>10 DEF EvaluationInv, IntentOK, C
  <2>2. QED
    BY <1>3, <1>10, <1>11, <2>1, IntentStays
<1>13. StillOK(x)' /\ \A i \in 1 .. Observed : Finds(i)' = Finds(i)
  BY <1>2, <1>3, StillStays DEF Finds
<1>14. RecordsOK(s) /\ StillOK(s)'
  <2>1. CASE stage = "refused"
    BY <1>10, <2>1 DEF RecordsOK, StillOK, Early, Done
  <2>2. CASE stage = "between"
    <3>1. x.at = "runA"
      BY <1>3, <1>8, <2>2
    <3>2. x.between = <<>> /\ x.after = <<>> /\ x.ran = <<>>
      BY <1>2, <3>1 DEF RecordsOK
    <3>3. Len(x.ran) = 0 /\ Len(ran) = 1 /\ Len(x.between) = 0 /\ ran[1] = replay
      BY <1>7, <3>2
    <3>4. RecordsOK(s)
      BY <1>10, <2>2, <3>2, <3>3, ProbedIs DEF RecordsOK, Early, Done
    <3>5. Len(x.before) = Observed /\ x.before[Observed] \in Nat /\ x.before[Observed] <= dataVersion
      BY <1>2, <3>1 DEF StillOK
    <3>6. StillOK(s)'
      BY <1>3, <1>5, <1>10, <2>2, <3>3, <3>5 DEF StillOK, Done
    <3>7. QED
      BY <3>4, <3>6
  <2>3. CASE stage = "after"
    <3>1. x.at = "runB"
      BY <1>3, <1>8, <2>3
    <3>2. Len(x.ran) = 1 /\ Len(x.between) = Observed /\ x.after = <<>>
      BY <1>2, <3>1 DEF RecordsOK
    <3>3. Len(ran) = 2 /\ Len(x.after) = 0 /\ ran[2] = replay /\ ran[1] = x.ran[1]
      BY <1>7, <3>2
    <3>4. RecordsOK(s)
      BY <1>10, <2>3, <3>2, <3>3, ProbedIs DEF RecordsOK, Early, Done
    <3>5. Len(x.before) = Observed /\ x.before[Observed] \in Nat /\ x.before[Observed] <= dataVersion
      BY <1>2, <3>1 DEF StillOK
    <3>6. ASSUME x.before[Observed] = dataVersion
          PROVE  \A k \in 1 .. Len(ran) : ran[k].tables = store /\ ran[k].version = dataVersion
      <4>1. x.ran[1].tables = store /\ x.ran[1].version = dataVersion
        BY <1>2, <3>1, <3>2, <3>6 DEF StillOK
      <4>2. QED
        BY <1>5, <3>3, <4>1
    <3>7. StillOK(s)'
      BY <1>3, <1>10, <1>13, <2>3, <3>1, <3>3, <3>5, <3>6 DEF StillOK, Done
    <3>8. QED
      BY <3>4, <3>7
  <2>4. QED
    BY <1>8, <2>1, <2>2, <2>3
<1>15. QED
  BY <1>3, <1>10, <1>11, <1>12, <1>14, EvaluatorKeeps

\* No step of the others touches an evaluation or the intent file.
LEMMA OthersKeep ==
  ASSUME EvaluationInv, UNCHANGED <<evaluation, intentFile>>, store' \in [Tables -> Stored],
         UNCHANGED <<store, dataVersion>> \/ dataVersion' = dataVersion + 1
  PROVE  EvaluationInv'
<1>1. ASSUME NEW d \in Evaluators PROVE RecordsOK(evaluation[d])' /\ StillOK(evaluation[d])'
  <2>1. PICK x \in EvaluationType : x = evaluation[d]
    BY DEF EvaluationInv
  <2>2. StillOK(x)' /\ RecordsOK(x)
    BY <2>1, StillStays DEF EvaluationInv
  <2>3. QED
    BY <2>1, <2>2 DEF RecordsOK
<1>2. IntentOK'
  BY DEF EvaluationInv, IntentOK, Stands, Trusted, C
<1>3. QED
  BY <1>1, <1>2 DEF EvaluationInv

\* An evaluator that only goes on, against the intent file as it is.
LEMMA GoesOnKeeps ==
  ASSUME EvaluationInv, NEW e \in Evaluators, NEW stage \in Stages \ {"fill"}, Goes(e, stage),
         store' \in [Tables -> Stored], UNCHANGED <<store, dataVersion>> \/ dataVersion' = dataVersion + 1,
         UNCHANGED intentFile, ~Stands(e, "idle"),
         stage \in {"trusted", "written", "unwritten"} => intentFile = C(e),
         \/ stage = "refused"
         \/ evaluation[e].at \in Early /\ stage \in Early \cup {"before"}
         \/ UNCHANGED <<store, dataVersion>> /\ Stands(e, "probe") /\ stage = "judge" /\ ReplayHolds(e)
         \/ evaluation[e].at \in Done /\ stage \in Done
  PROVE  EvaluationInv'
<1>1. PICK x \in EvaluationType : x = evaluation[e]
  BY DEF EvaluationInv
<1>2. PICK s : s = [x EXCEPT !.at = stage]
  OBVIOUS
<1>3. s \in EvaluationType /\ s.at = stage /\ s.input = x.input
  BY <1>2 DEF EvaluationType
<1>4. evaluation' = [evaluation EXCEPT ![e] = s]
  BY <1>1, <1>2 DEF Goes
<1>5. x.input.commit \in Commits
  BY <1>1 DEF EvaluationInv, IntentOK, C, Stands
<1>6. IntentOK'
  BY <1>1, <1>3, <1>4, <1>5, IntentStays DEF C
<1>7. QED
  BY <1>6, GoesKeeps

\* The steps on the intent file.
LEMMA CreateIntentKeeps == ASSUME EvaluationInv, NEW e \in Evaluators, CreateIntent(e) PROVE EvaluationInv'
<1>1. /\ Stands(e, "create") /\ UNCHANGED <<store, dataVersion>> /\ store' \in [Tables -> Stored]
      /\ evaluation[e].at \in Early
  BY DEF CreateIntent, EvaluationInv, Stands, Early
<1>2. CASE intentFile = Nothing
  <2>1. intentFile' = Forged /\ Goes(e, "fill")
    BY <1>2 DEF CreateIntent
  <2>2. PICK fill \in Stages : fill = "fill"
    BY DEF Stages, Early
  <2>3. PICK x \in EvaluationType : x = evaluation[e]
    BY DEF EvaluationInv
  <2>4. PICK s : s = [x EXCEPT !.at = fill]
    OBVIOUS
  <2>5. s \in EvaluationType /\ s.at = fill /\ s.input = x.input
    BY <2>4 DEF EvaluationType
  <2>6. /\ evaluation'[e] = s /\ \A d \in Evaluators \ {e} : evaluation'[d] = evaluation[d]
    BY <2>1, <2>2, <2>3, <2>4 DEF Goes, EvaluationInv
  <2>7. \A d \in Evaluators : ~Stands(d, "fill") /\ ~Trusted(d)
    <3>1. ASSUME NEW d \in Evaluators, Trusted(d) PROVE C(d) \in Commits
      BY <3>1 DEF EvaluationInv, IntentOK, Trusted
    <3>2. QED
      BY <1>2, <3>1, EvaluationAssumption DEF EvaluationInv, IntentOK
  <2>8. IntentOK'
    <3>1. \A d \in Evaluators : evaluation'[d].at # "idle" => C(d)' \in Commits
      BY <1>1, <2>3, <2>5, <2>6 DEF EvaluationInv, IntentOK, C, Stands
    <3>2. \A d \in Evaluators : ~Trusted(d)'
      BY <2>2, <2>5, <2>6, <2>7 DEF Trusted
    <3>3. \A d \in Evaluators : Stands(d, "fill")' => d = e
      BY <2>6, <2>7 DEF Stands
    <3>4. QED
      BY <2>1, <3>1, <3>2, <3>3 DEF IntentOK
  <2>9. fill \in Early
    BY <2>2 DEF Early
  <2>10. QED
    BY <1>1, <2>1, <2>2, <2>8, <2>9, GoesKeeps
<1>3. CASE intentFile # Nothing
  <2>1. PICK stage \in {"seed", "refused"} : Goes(e, stage) /\ UNCHANGED intentFile
    BY <1>3 DEF CreateIntent, GoesIf
  <2>2. stage \in Stages \ {"fill"} /\ ~Stands(e, "idle") /\ stage \notin {"trusted", "written", "unwritten"}
    BY <1>1, <2>1 DEF Stages, Early, Stands
  <2>3. stage = "refused" \/ stage \in Early \cup {"before"}
    BY <2>1 DEF Early
  <2>4. QED
    BY <1>1, <2>1, <2>2, <2>3, GoesOnKeeps
<1>4. QED
  BY <1>2, <1>3

LEMMA FillIntentKeeps == ASSUME EvaluationInv, NEW e \in Evaluators, FillIntent(e) PROVE EvaluationInv'
<1>1. /\ Stands(e, "fill") /\ UNCHANGED <<store, dataVersion>> /\ store' \in [Tables -> Stored]
      /\ evaluation[e].at \in Early /\ intentFile' = C(e)
  BY DEF FillIntent, Intent, EvaluationInv, Stands, Early
<1>2. PICK stage \in {"seed", "refused"} : Goes(e, stage)
  BY DEF FillIntent, GoesIf
<1>3. stage \in Stages /\ (stage = "refused" \/ stage \in Early \cup {"before"})
  BY <1>2 DEF Stages, Early
<1>4. PICK x \in EvaluationType : x = evaluation[e]
  BY DEF EvaluationInv
<1>5. PICK s : s = [x EXCEPT !.at = stage]
  OBVIOUS
<1>6. s \in EvaluationType /\ s.at = stage /\ s.input = x.input
  BY <1>3, <1>5 DEF EvaluationType
<1>7. /\ evaluation'[e] = s /\ \A d \in Evaluators \ {e} : evaluation'[d] = evaluation[d]
  BY <1>2, <1>4, <1>5 DEF Goes, EvaluationInv
<1>8. intentFile = Forged
  BY <1>1 DEF EvaluationInv, IntentOK
<1>9. \A d \in Evaluators : ~Trusted(d)
  <2>1. ASSUME NEW d \in Evaluators, Trusted(d) PROVE C(d) \in Commits
    BY <2>1 DEF EvaluationInv, IntentOK, Trusted
  <2>2. QED
    BY <1>8, <2>1, EvaluationAssumption DEF EvaluationInv, IntentOK
<1>10. \A d \in Evaluators : Stands(d, "fill") => d = e
  BY <1>1 DEF EvaluationInv, IntentOK
<1>11. IntentOK'
  <2>1. \A d \in Evaluators : evaluation'[d].at # "idle" => C(d)' \in Commits
    BY <1>1, <1>4, <1>6, <1>7 DEF EvaluationInv, IntentOK, C, Stands
  <2>2. \A d \in Evaluators : ~Trusted(d)' /\ ~Stands(d, "fill")'
    BY <1>2, <1>6, <1>7, <1>9, <1>10 DEF Trusted, Stands
  <2>3. QED
    BY <2>1, <2>2 DEF IntentOK
<1>12. QED
  BY <1>1, <1>2, <1>3, <1>11, GoesKeeps

\* The provider is asked.
LEMMA StartEvaluationKeeps ==
  ASSUME EvaluationInv, NEW e \in Evaluators, NEW input \in Inputs, StartEvaluation(e, input) PROVE EvaluationInv'
<1>1. /\ Stands(e, "idle") /\ UNCHANGED <<store, dataVersion, intentFile>> /\ store' \in [Tables -> Stored]
  BY DEF StartEvaluation, EvaluationInv
<1>2. input \in InputSpace
  BY EvaluationAssumption
<1>3. PICK x \in EvaluationType : x = evaluation[e]
  BY DEF EvaluationInv
<1>4. RecordsOK(x)
  BY <1>3 DEF EvaluationInv
<1>5. PICK stage \in {"bind", "refused"} : stage = IF ProtocolHolds(input.protocol, input.commit) THEN "bind" ELSE "refused"
  OBVIOUS
<1>6. PICK s : s = [x EXCEPT !.input = input, !.at = stage]
  OBVIOUS
<1>7. /\ s \in EvaluationType /\ s.at = stage /\ s.input = input /\ s.before = x.before
      /\ s.between = x.between /\ s.after = x.after /\ s.ran = x.ran
  BY <1>2, <1>5, <1>6 DEF EvaluationType, Stages, Early
<1>8. evaluation' = [evaluation EXCEPT ![e] = s]
  BY <1>3, <1>5, <1>6 DEF StartEvaluation, EvaluationInv, EvaluationType
<1>9. IntentOK'
  <2>1. s.input.commit \in Commits /\ s.at # "fill" /\ s.at \notin {"trusted", "written", "unwritten"}
    BY <1>2, <1>5, <1>7 DEF InputSpace
  <2>2. QED
    BY <1>1, <1>7, <1>8, <2>1, IntentStays
<1>10. RecordsOK(s)
  <2>1. x.before = <<>> /\ x.between = <<>> /\ x.after = <<>> /\ x.ran = <<>>
    BY <1>1, <1>3, <1>4 DEF RecordsOK, Stands, Early
  <2>2. QED
    BY <1>5, <1>7, <2>1 DEF RecordsOK, Early, Done
<1>11. StillOK(s)'
  BY <1>5, <1>7 DEF StillOK, Done
<1>12. QED
  BY <1>1, <1>7, <1>8, <1>9, <1>10, <1>11, EvaluatorKeeps

\* The steps that only go on, and the transaction that seeds the fixture.
LEMMA WorksOnKeeps ==
  ASSUME EvaluationInv, NEW e \in Evaluators,
         \/ BindEvaluation(e) \/ LookIntent(e) \/ LookSeed(e) \/ InsertSeed(e) \/ CheckSeed(e)
         \/ ProbeMutation(e) \/ Judge(e) \/ WriteVerdict(e)
  PROVE  EvaluationInv'
<1>1. store \in [Tables -> Stored] /\ dataVersion \in Nat
  BY DEF EvaluationInv
<1>2. CASE BindEvaluation(e)
  <2>1. /\ Stands(e, "bind") /\ UNCHANGED <<store, dataVersion, intentFile>>
    BY <1>2 DEF BindEvaluation
  <2>2. PICK stage \in {"look", "refused"} : Goes(e, stage)
    BY <1>2 DEF BindEvaluation, GoesIf
  <2>3. stage \in Stages \ {"fill"} /\ stage \notin {"trusted", "written", "unwritten"} /\ stage \in Early \cup {"refused"}
    BY <2>2 DEF Stages, Early
  <2>4. evaluation[e].at \in Early /\ ~Stands(e, "idle")
    BY <2>1 DEF Stands, Early
  <2>5. QED
    BY <1>1, <2>1, <2>2, <2>3, <2>4, GoesOnKeeps
<1>3. CASE LookIntent(e)
  <2>1. /\ Stands(e, "look") /\ UNCHANGED <<store, dataVersion, intentFile>>
    BY <1>3 DEF LookIntent
  <2>2. PICK stage \in {"create", "seed", "refused"} : Goes(e, stage)
    BY <1>3 DEF LookIntent, GoesIf
  <2>3. stage \in Stages \ {"fill"} /\ stage \notin {"trusted", "written", "unwritten"} /\ stage \in Early \cup {"refused"}
    BY <2>2 DEF Stages, Early
  <2>4. evaluation[e].at \in Early /\ ~Stands(e, "idle")
    BY <2>1 DEF Stands, Early
  <2>5. QED
    BY <1>1, <2>1, <2>2, <2>3, <2>4, GoesOnKeeps
<1>4. CASE LookSeed(e) \/ CheckSeed(e)
  <2>1. /\ evaluation[e].at \in {"seed", "inserted"} /\ UNCHANGED <<store, dataVersion, intentFile>>
    BY <1>4 DEF LookSeed, CheckSeed, Stands
  <2>2. PICK stage \in {"insert", "before", "refused"} : Goes(e, stage)
    BY <1>4 DEF LookSeed, CheckSeed, GoesIf
  <2>3. stage \in Stages \ {"fill"} /\ stage \notin {"trusted", "written", "unwritten"} /\ stage \in Early \cup {"before", "refused"}
    BY <2>2 DEF Stages, Early
  <2>4. evaluation[e].at \in Early /\ ~Stands(e, "idle")
    BY <2>1 DEF Stands, Early
  <2>5. QED
    BY <1>1, <2>1, <2>2, <2>3, <2>4, GoesOnKeeps
<1>5. CASE InsertSeed(e)
  <2>1. /\ Stands(e, "insert") /\ UNCHANGED intentFile
    BY <1>5 DEF InsertSeed
  <2>2. store' \in [Tables -> Stored] /\ (UNCHANGED <<store, dataVersion>> \/ dataVersion' = dataVersion + 1)
    <3>1. CASE UNCHANGED <<store, dataVersion>>
      BY <1>1, <3>1
    <3>2. CASE /\ store' = [store EXCEPT !["values"] = "seed", !["events"] = IF @ = "none" THEN "seed" ELSE "grown"]
               /\ dataVersion' = dataVersion + 1
      BY <1>1, <3>2 DEF Stored
    <3>3. QED
      BY <1>5, <3>1, <3>2 DEF InsertSeed
  <2>3. PICK stage \in {"inserted", "refused"} : Goes(e, stage)
    BY <1>5 DEF InsertSeed
  <2>4. stage \in Stages \ {"fill"} /\ stage \notin {"trusted", "written", "unwritten"} /\ stage \in Early \cup {"refused"}
    BY <2>3 DEF Stages, Early
  <2>5. evaluation[e].at \in Early /\ ~Stands(e, "idle")
    BY <2>1 DEF Stands, Early
  <2>6. QED
    BY <2>1, <2>2, <2>3, <2>4, <2>5, GoesOnKeeps
<1>6. CASE ProbeMutation(e)
  <2>1. /\ Stands(e, "probe") /\ UNCHANGED <<store, dataVersion, intentFile>> /\ ~Stands(e, "idle")
    BY <1>6 DEF ProbeMutation, Stands
  <2>2. PICK stage \in {"judge", "refused"} : Goes(e, stage) /\ (stage = "refused" \/ ReplayHolds(e))
    BY <1>6 DEF ProbeMutation, GoesIf
  <2>3. stage \in Stages \ {"fill"} /\ stage \notin {"trusted", "written", "unwritten"}
    BY <2>2 DEF Stages, Early, Done
  <2>4. QED
    BY <1>1, <2>1, <2>2, <2>3, GoesOnKeeps
<1>7. CASE Judge(e)
  <2>1. /\ Stands(e, "judge") /\ UNCHANGED <<store, dataVersion, intentFile>>
    BY <1>7 DEF Judge
  <2>2. PICK stage \in {"trusted", "refused"} : Goes(e, stage) /\ (stage = "refused" \/ SameIntent(e))
    BY <1>7 DEF Judge, GoesIf
  <2>3. stage \in Stages \ {"fill"} /\ stage \in Done \cup {"refused"}
    BY <2>2 DEF Stages, Early, Done
  <2>4. evaluation[e].at \in Done /\ ~Stands(e, "idle")
    BY <2>1 DEF Stands, Done
  <2>5. stage \in {"trusted", "written", "unwritten"} => intentFile = C(e)
    BY <2>2 DEF SameIntent, Intent
  <2>6. QED
    BY <1>1, <2>1, <2>2, <2>3, <2>4, <2>5, GoesOnKeeps
<1>8. CASE WriteVerdict(e)
  <2>1. /\ Stands(e, "trusted") /\ UNCHANGED <<store, dataVersion, intentFile>> /\ intentFile = C(e)
    BY <1>8 DEF WriteVerdict, EvaluationInv, IntentOK, Trusted, Stands
  <2>2. PICK stage \in {"written", "unwritten"} : Goes(e, stage)
    BY <1>8 DEF WriteVerdict
  <2>3. stage \in Stages \ {"fill"} /\ stage \in Done
    BY <2>2 DEF Stages, Early, Done
  <2>4. evaluation[e].at \in Done /\ ~Stands(e, "idle")
    BY <2>1 DEF Stands, Done
  <2>5. QED
    BY <1>1, <2>1, <2>2, <2>3, <2>4, GoesOnKeeps
<1>9. QED
  BY <1>2, <1>3, <1>4, <1>5, <1>6, <1>7, <1>8

LEMMA EvaluationInvStep == ASSUME EvaluationInv, [EvaluationNext]_evaluationVars PROVE EvaluationInv'
<1>1. store \in [Tables -> Stored] /\ dataVersion \in Nat
  BY DEF EvaluationInv
<1>2. CASE UNCHANGED <<evaluation, intentFile, store, dataVersion>>
  BY <1>1, <1>2, OthersKeep
<1>3. ASSUME NEW c \in Commits, NEW e \in Evaluators,
             SandboxProbe(e, c) \/ SealReceipt(e, c)
      PROVE  EvaluationInv'
  BY <1>2, <1>3 DEF SandboxProbe, SealReceipt
<1>4. ASSUME NEW c \in Commits, Publish(c) PROVE EvaluationInv'
  BY <1>2, <1>4 DEF Publish
<1>5. ASSUME NEW e \in Evaluators, CheckoutMoves(e) PROVE EvaluationInv'
  BY <1>2, <1>5 DEF CheckoutMoves
<1>6. CASE OtherCommits
  <2>1. PICK table \in Tables : \E content \in Contents(table) \ {store[table]} : store' = [store EXCEPT ![table] = content]
    BY <1>6 DEF OtherCommits
  <2>2. Contents(table) \subseteq Stored
    BY DEF Contents, Stored
  <2>3. store' \in [Tables -> Stored]
    BY <1>1, <2>1, <2>2
  <2>4. QED
    BY <1>6, <2>3, OthersKeep DEF OtherCommits
<1>7. ASSUME NEW e \in Evaluators, EvaluatorStep(e) PROVE EvaluationInv'
  <2>1. CASE \E input \in Inputs : StartEvaluation(e, input)
    BY <2>1, StartEvaluationKeeps
  <2>2. CASE EvaluatorWorks(e)
    BY <2>2, CreateIntentKeeps, FillIntentKeeps, ObserveKeeps, RunKeeps, WorksOnKeeps DEF EvaluatorWorks
  <2>3. QED
    BY <1>7, <2>1, <2>2 DEF EvaluatorStep
<1>8. QED
  BY <1>2, <1>3, <1>4, <1>5, <1>6, <1>7 DEF EvaluationNext, evaluationVars

\* Whatever is committed to the store and however the evaluators of a home interleave, what an
\* evaluation has recorded fits the stage it is at and the data versions it was recorded at, and
\* one evaluator at most fills the intent file (scripts/product4/evaluator-runner.mjs).
THEOREM EvaluationInvariant == EvaluationSpec => []EvaluationInv
<1>1. EvaluationInv /\ [EvaluationNext]_evaluationVars => EvaluationInv'
  BY EvaluationInvStep
<1>2. QED
  BY <1>1, EvaluationInvInit, PTL DEF EvaluationSpec

\* A verdict of trust stands on two replays of one store that nobody wrote to in between, the
\* store its first observation found; and the trusted evaluators of a home judge one commit.
THEOREM TrustStandsStill == EvaluationSpec => []TrustedRanStill
<1>1. EvaluationInv => TrustedRanStill
  <2> SUFFICES ASSUME EvaluationInv, NEW e \in Evaluators, Trusted(e)
               PROVE  LET before == evaluation[e].before  ran == evaluation[e].ran
                      IN /\ Len(ran) = 2 /\ ran[1] = ran[2]
                         /\ before[Observed] = ran[1].version
                         /\ \A i \in DOMAIN Probed : before[i] = ran[1].tables[Probed[i]]
                         /\ \A d \in Evaluators : Trusted(d) => C(d) = C(e)
    BY DEF TrustedRanStill
  <2>1. PICK x \in EvaluationType : x = evaluation[e]
    BY DEF EvaluationInv
  <2>2. RecordsOK(x) /\ StillOK(x) /\ x.at \in Done
    BY <2>1 DEF EvaluationInv, Trusted, Done
  <2>3. Len(x.ran) = 2 /\ x.between = x.before /\ x.after = x.before
    BY <2>2 DEF RecordsOK
  <2>4. /\ x.ran[1].version = x.before[Observed] /\ x.ran[1] = x.ran[2]
        /\ \A i \in DOMAIN Probed : x.before[i] = x.ran[1].tables[Probed[i]]
    BY <2>2, <2>3 DEF StillOK
  <2>5. ASSUME NEW d \in Evaluators, Trusted(d) PROVE C(d) = C(e)
    BY <2>5 DEF EvaluationInv, IntentOK
  <2>6. QED
    BY <2>1, <2>3, <2>4, <2>5
<1>2. QED
  BY <1>1, EvaluationInvariant, PTL

-----------------------------------------------------------------------------
(* The evidence on GitHub *)

Shown == Pending \cup Completed
Check == [suite : Suites, status : Shown, output : {"none", "verdict", "other"}]
Item == [id : Nat, status : Shown, suite : [id : Suites, status : Shown]]
Page == [items : Seq(Item), total : Nat, next : BOOLEAN]

PublisherType ==
  [at : {"idle", "posting", "lookup", "created", "patching", "fresh", "done", "refused", "human"},
   id : Nat, seen : Check \cup {{}}, retries : Nat]

\* The run a publisher is at is there, and what it saw of it was one.
PublisherOK ==
  /\ publisher \in PublisherType
  /\ publisher.at \in {"created", "patching", "fresh", "done"} \/ flight.patch > 0 => publisher.id \in DOMAIN checks
  /\ publisher.at \in {"created", "patching", "fresh", "done"} => publisher.seen \in Check
  /\ publisher.at = "done" => publisher.seen.status = "success" /\ publisher.seen.output = "verdict"

\* An entry of a page is one of those the page counts, and a listing that ended is one of
\* pages of one count.
PageTrue(page) == \A i \in DOMAIN page.items : page.items[i].id \in 1 .. page.total
OneCount(pages) == \A n \in DOMAIN pages : pages[n].total = pages[1].total
ReaderOK ==
  /\ DOMAIN reader = {"at", "runPages", "suitePages", "verified"}
  /\ reader = [k \in {"at", "runPages", "suitePages", "verified"} |-> reader[k]]
  /\ reader.runPages \in Seq(Page)
  /\ \A n \in DOMAIN reader.runPages : PageTrue(reader.runPages[n])
  /\ reader.at \in {"suites", "build"} => OneCount(reader.runPages)
  /\ reader.verified \in {0, 1}

EvidenceInv ==
  /\ checks \in Seq(Check) /\ flight \in [post : Nat, patch : Nat]
  /\ PublisherOK /\ ReaderOK

LEMMA StatusShown == ASSUME NEW s PROVE StatusOf(s) \in Shown
BY DEF StatusOf, Shown, Pending, Completed

\* The listing is of the runs there are.
LEMMA RunListingIs ==
  ASSUME checks \in Seq(Check)
  PROVE  /\ RunListing \in Seq(Item) /\ Len(RunListing) = Len(checks)
         /\ \A i \in 1 .. Len(checks) : RunListing[i].id \in 1 .. Len(checks)
<1> DEFINE oldest == [i \in DOMAIN checks |-> [id |-> i, status |-> checks[i].status,
                        suite |-> [id |-> checks[i].suite, status |-> StatusOf(checks[i].suite)]]]
<1>1. Len(checks) \in Nat /\ DOMAIN checks = 1 .. Len(checks) /\ \A i \in 1 .. Len(checks) : checks[i] \in Check
  OBVIOUS
<1>2. \A i \in DOMAIN checks : oldest[i] \in Item /\ oldest[i].id = i
  BY <1>1, StatusShown DEF Check, Item
<1>3. oldest \in Seq(Item) /\ Len(oldest) = Len(checks)
  <2>1. oldest \in [1 .. Len(checks) -> Item]
    BY <1>1, <1>2
  <2>2. QED
    BY <1>1, <2>1, LenProperties
<1> HIDE DEF oldest
<1>4. \A i \in 1 .. Len(checks) : Len(checks) - i + 1 \in 1 .. Len(checks)
  BY <1>1
<1>5. Reverse(oldest) \in [1 .. Len(checks) -> Item] /\ \A i \in 1 .. Len(checks) : Reverse(oldest)[i] = oldest[Len(checks) - i + 1]
  BY <1>1, <1>3, <1>4 DEF Reverse
<1>6. Reverse(oldest) \in Seq(Item) /\ Len(Reverse(oldest)) = Len(checks)
  BY <1>1, <1>5, LenProperties
<1>7. RunListing = Reverse(oldest)
  BY DEF RunListing, oldest
<1>8. QED
  BY <1>1, <1>2, <1>4, <1>5, <1>6, <1>7

LEMMA PageOfIs ==
  ASSUME NEW listing \in Seq(Item), NEW n \in Nat \ {0}, NEW linked \in BOOLEAN
  PROVE  /\ PageOf(listing, n, linked) \in Page /\ PageOf(listing, n, linked).total = Len(listing)
         /\ \A i \in DOMAIN PageOf(listing, n, linked).items :
              \E j \in 1 .. Len(listing) : PageOf(listing, n, linked).items[i] = listing[j]
<1>1. PICK size \in Nat \ {0} : size = PageSize
  BY EvidenceAssumption
<1>2. PICK skipped \in Nat : skipped = (n - 1) * size
  <2>1. \A a \in Nat, b \in Nat : a * b \in Nat
    OBVIOUS
  <2>2. QED
    BY <2>1
<1>3. PICK full \in Nat : full = n * size
  <2>1. \A a \in Nat, b \in Nat : a * b \in Nat
    OBVIOUS
  <2>2. QED
    BY <2>1
<1>4. PICK first \in Nat : first = skipped + 1
  OBVIOUS
<1>5. Len(listing) \in Nat /\ \A i \in 1 .. Len(listing) : listing[i] \in Item
  OBVIOUS
<1>6. PICK last \in Nat : last = IF full < Len(listing) THEN full ELSE Len(listing)
  BY <1>5
<1>7. first >= 1 /\ last <= Len(listing)
  BY <1>4, <1>5, <1>6
<1>8. \A i \in first .. last : i \in 1 .. Len(listing) /\ listing[i] \in Item
  BY <1>5, <1>7
<1>9. PICK items \in Seq(Item) : items = SubSeq(listing, first, last)
  <2>1. SubSeq(listing, first, last) \in Seq(Item)
    BY <1>8, SubSeqProperties
  <2>2. QED
    BY <2>1
<1>10. \A i \in DOMAIN items : items[i] = listing[first + i - 1] /\ first + i - 1 \in 1 .. Len(listing)
  <2>1. /\ Len(items) = IF first <= last THEN last - first + 1 ELSE 0
        /\ \A i \in 1 .. last - first + 1 : items[i] = listing[first + i - 1]
    BY <1>8, <1>9, SubSeqProperties
  <2>2. DOMAIN items = 1 .. Len(items)
    OBVIOUS
  <2>3. QED
    BY <1>5, <1>7, <2>1, <2>2
<1>11. PageOf(listing, n, linked) = [items |-> items, total |-> Len(listing), next |-> linked /\ last < Len(listing)]
  BY <1>1, <1>2, <1>3, <1>4, <1>6, <1>9 DEF PageOf
<1>12. QED
  BY <1>5, <1>10, <1>11 DEF Page

\* One page more, of the listing of the runs.
LEMMA CollectKeeps ==
  ASSUME EvidenceInv, NEW linked \in BOOLEAN, ReadRuns(linked)
  PROVE  ReaderOK'
<1>1. /\ reader.at = "runs" /\ reader.runPages \in Seq(Page) /\ Len(reader.runPages) + 1 \in Nat \ {0}
      /\ reader.verified \in {0, 1}
  BY DEF ReadRuns, EvidenceInv, ReaderOK
<1>2. PICK page : page = PageOf(RunListing, Len(reader.runPages) + 1, linked)
  OBVIOUS
<1>3. page \in Page /\ PageTrue(page)
  <2>1. /\ RunListing \in Seq(Item) /\ Len(RunListing) = Len(checks)
        /\ \A i \in 1 .. Len(checks) : RunListing[i].id \in 1 .. Len(checks)
    BY RunListingIs DEF EvidenceInv
  <2>2. /\ page \in Page /\ page.total = Len(RunListing)
        /\ \A i \in DOMAIN page.items : \E j \in 1 .. Len(RunListing) : page.items[i] = RunListing[j]
    BY <1>1, <1>2, <2>1, PageOfIs
  <2>3. QED
    BY <2>1, <2>2 DEF PageTrue
<1>4. PICK now \in Seq(Page) : now = Append(reader.runPages, page)
  BY <1>1, <1>3, AppendProperties
<1>5. \A n \in DOMAIN now : PageTrue(now[n])
  <2>1. /\ Len(now) = Len(reader.runPages) + 1 /\ now[Len(now)] = page
        /\ \A n \in 1 .. Len(reader.runPages) : now[n] = reader.runPages[n]
    BY <1>1, <1>3, <1>4, AppendProperties
  <2>2. DOMAIN now = 1 .. Len(now) /\ DOMAIN reader.runPages = 1 .. Len(reader.runPages) /\ Len(reader.runPages) \in Nat
    BY <1>1
  <2>3. QED
    BY <1>3, <2>1, <2>2 DEF EvidenceInv, ReaderOK
<1>6. PICK at \in {"runs", "suites", "refused"} :
        reader' = [reader EXCEPT !.runPages = now, !.at = at] /\ (at = "suites" => OneCount(now))
  <2>1. PICK foreign : foreign = \E item \in ToSet(page.items) : FromForeign(item)
    OBVIOUS
  <2>2. PICK read : read = Collect(reader.runPages, page, foreign, "suites")
    OBVIOUS
  <2>3. PICK fits : fits = (~foreign /\ Contiguous(now) /\ (page.next \/ Enumerated(now)))
    OBVIOUS
  <2>4. PICK at : at = CASE ~fits -> "refused" [] page.next -> reader.at [] OTHER -> "suites"
    OBVIOUS
  <2>5. at \in {"runs", "suites", "refused"} /\ (at = "suites" => OneCount(now))
    BY <1>1, <1>3, <2>3, <2>4 DEF Page, Contiguous, OneCount
  <2>6. Collect(reader.runPages, page, foreign, "suites") = [pages |-> now, at |-> at]
    BY <1>4, <2>3, <2>4 DEF Collect
  <2>7. read.pages = now /\ read.at = at
    BY <2>2, <2>6
  <2>8. reader' = [reader EXCEPT !.runPages = read.pages, !.at = read.at]
    BY <1>2, <2>1, <2>2 DEF ReadRuns
  <2>9. QED
    BY <2>5, <2>7, <2>8
<1>7. PICK read : read = [reader EXCEPT !.runPages = now, !.at = at]
  OBVIOUS
<1>8. /\ DOMAIN read = {"at", "runPages", "suitePages", "verified"}
      /\ read = [k \in {"at", "runPages", "suitePages", "verified"} |-> read[k]]
      /\ read.runPages = now /\ read.at = at /\ read.verified = reader.verified
  BY <1>7 DEF EvidenceInv, ReaderOK
<1>9. reader' = read
  BY <1>6, <1>7
<1>10. QED
  BY <1>1, <1>5, <1>6, <1>8, <1>9 DEF ReaderOK, OneCount, PageTrue

LEMMA BuildKeeps == ASSUME EvidenceInv, BuildReceipt PROVE ReaderOK'
<1>1. /\ reader.at = "build" /\ reader.runPages \in Seq(Page) /\ OneCount(reader.runPages)
      /\ \A n \in DOMAIN reader.runPages : PageTrue(reader.runPages[n])
  BY DEF BuildReceipt, EvidenceInv, ReaderOK
<1>2. PICK at \in {"verified", "refused"}, known \in {0, 1} :
        reader' = [reader EXCEPT !.at = at, !.verified = known]
  <2> DEFINE runs == Places(reader.runPages)
             first == CHOOSE place \in runs : TRUE
             run == EntryAt(reader.runPages, first)
             suites == {EntryAt(reader.suitePages, place) : place \in Places(reader.suitePages)}
             holds == /\ Enumerated(reader.runPages) /\ Enumerated(reader.suitePages)
                      /\ runs # {} /\ runs = {first}
                      /\ run.status = "success"
                      /\ SuitesAgree(suites \union {run.suite})
                      /\ \E s \in suites : s.id = run.suite.id /\ s.status = "success"
  <2>1. ASSUME holds PROVE run.id = 1
    <3> HIDE DEF first
    <3>1. PICK n \in DOMAIN reader.runPages : \E i \in DOMAIN reader.runPages[n].items : first = <<n, i>>
      BY <2>1 DEF Places
    <3>2. PICK i \in DOMAIN reader.runPages[n].items : first = <<n, i>>
      BY <3>1
    <3>3. run = reader.runPages[n].items[i]
      BY <3>2 DEF EntryAt
    <3>4. Listed(reader.runPages) = {run.id}
      <4>1. ASSUME NEW m \in DOMAIN reader.runPages, NEW j \in DOMAIN reader.runPages[m].items
            PROVE  m = n /\ j = i
        <5>1. <<m, j>> \in runs
          BY DEF Places
        <5>2. QED
          BY <2>1, <3>2, <5>1
      <4>2. ASSUME NEW k \in Listed(reader.runPages) PROVE k = run.id
        <5>1. PICK m \in DOMAIN reader.runPages : k \in {item.id : item \in ToSet(reader.runPages[m].items)}
          BY DEF Listed
        <5>2. PICK item \in ToSet(reader.runPages[m].items) : k = item.id
          BY <5>1
        <5>3. PICK j \in DOMAIN reader.runPages[m].items : item = reader.runPages[m].items[j]
          BY <5>2 DEF ToSet
        <5>4. QED
          BY <3>3, <4>1, <5>2, <5>3
      <4>3. run.id \in Listed(reader.runPages)
        <5>1. run \in ToSet(reader.runPages[n].items)
          BY <3>2, <3>3 DEF ToSet
        <5>2. QED
          BY <5>1 DEF Listed
      <4>4. QED
        BY <4>2, <4>3
    <3>5. Cardinality(Listed(reader.runPages)) = 1
      BY <3>4, FS_Singleton
    <3>6. Last(reader.runPages).total = 1
      BY <2>1, <3>5 DEF Enumerated
    <3>7. DOMAIN reader.runPages = 1 .. Len(reader.runPages) /\ Len(reader.runPages) \in Nat
      BY <1>1
    <3>8. Len(reader.runPages) \in DOMAIN reader.runPages
      BY <3>1, <3>7
    <3>9. reader.runPages[n].total = 1
      BY <1>1, <3>1, <3>6, <3>8 DEF OneCount, Last
    <3>10. run.id \in 1 .. 1
      BY <1>1, <3>1, <3>2, <3>3, <3>9 DEF PageTrue
    <3>11. QED
      BY <3>10
  <2>2. reader' = [reader EXCEPT !.at = IF holds THEN "verified" ELSE "refused", !.verified = IF holds THEN run.id ELSE 0]
    BY DEF BuildReceipt
  <2> HIDE DEF holds, run
  <2>3. QED
    BY <2>1, <2>2
<1>3. PICK read : read = [reader EXCEPT !.at = at, !.verified = known]
  OBVIOUS
<1>4. /\ DOMAIN read = {"at", "runPages", "suitePages", "verified"}
      /\ read = [k \in {"at", "runPages", "suitePages", "verified"} |-> read[k]]
      /\ read.runPages = reader.runPages /\ read.at = at /\ read.verified = known
  BY <1>3 DEF EvidenceInv, ReaderOK
<1>5. reader' = read
  BY <1>2, <1>3
<1>6. QED
  BY <1>1, <1>2, <1>4, <1>5 DEF ReaderOK

LEMMA EvidenceInvInit == EvidenceInit => EvidenceInv
<1> SUFFICES ASSUME EvidenceInit PROVE EvidenceInv
  OBVIOUS
<1>1. checks \in Seq(Check)
  BY EmptySeq DEF EvidenceInit
<1>2. flight \in [post : Nat, patch : Nat] /\ flight.patch = 0
  BY DEF EvidenceInit
<1>3. publisher \in PublisherType /\ publisher.at = "idle"
  BY DEF EvidenceInit, PublisherType
<1>4. /\ DOMAIN reader = {"at", "runPages", "suitePages", "verified"}
      /\ reader = [k \in {"at", "runPages", "suitePages", "verified"} |-> reader[k]]
      /\ reader.runPages = <<>> /\ reader.at = "runs" /\ reader.verified = 0
  BY DEF EvidenceInit
<1>5. reader.runPages \in Seq(Page) /\ \A n \in DOMAIN reader.runPages : PageTrue(reader.runPages[n])
  <2>1. <<>> \in Seq(Page) /\ DOMAIN reader.runPages = {}
    BY <1>4, EmptySeq
  <2>2. QED
    BY <1>4, <2>1
<1>6. QED
  BY <1>1, <1>2, <1>3, <1>4, <1>5 DEF EvidenceInv, PublisherOK, ReaderOK

LEMMA AttemptedIs ==
  ASSUME NEW check \in Check
  PROVE  Attempted(check) \in Check /\ Attempted(check).status = "success" /\ Attempted(check).output = "verdict"
BY DEF Attempted, Check, Shown, Completed, Pending

\* A step of the publisher, or of GitHub towards it: the runs are not fewer, and what it
\* says of the publisher is left to show.
LEMMA RequestsKeep ==
  ASSUME EvidenceInv, checks' \in Seq(Check), flight' \in [post : Nat, patch : Nat], PublisherOK', UNCHANGED reader
  PROVE  EvidenceInv'
BY DEF EvidenceInv, ReaderOK, OneCount, PageTrue

LEMMA CreatedKeeps ==
  ASSUME EvidenceInv, NEW s \in Suites, checks' = Append(checks, [suite |-> s, status |-> "queued", output |-> "none"])
  PROVE  /\ checks' \in Seq(Check) /\ Len(checks') \in Nat /\ Len(checks') \in DOMAIN checks' /\ DOMAIN checks \subseteq DOMAIN checks'
         /\ checks'[Len(checks')] \in Check
<1>1. PICK check \in Check : check = [suite |-> s, status |-> "queued", output |-> "none"]
  BY DEF Check, Shown, Pending
<1>2. /\ checks \in Seq(Check) /\ Len(checks) \in Nat /\ DOMAIN checks = 1 .. Len(checks)
  BY DEF EvidenceInv
<1>3. /\ checks' \in Seq(Check) /\ Len(checks') = Len(checks) + 1 /\ checks'[Len(checks')] = check
  BY <1>1, <1>2, AppendProperties
<1>4. DOMAIN checks' = 1 .. Len(checks')
  BY <1>3
<1>5. QED
  BY <1>2, <1>3, <1>4

LEMMA PostArrivesKeeps ==
  ASSUME EvidenceInv, NEW s \in Suites, NEW answered \in BOOLEAN, PostArrives(s, answered)
  PROVE  EvidenceInv'
<1>1. /\ checks' \in Seq(Check) /\ Len(checks') \in Nat /\ Len(checks') \in DOMAIN checks' /\ DOMAIN checks \subseteq DOMAIN checks'
      /\ checks'[Len(checks')] \in Check
  BY CreatedKeeps DEF PostArrives
<1>2. flight' \in [post : Nat, patch : Nat] /\ flight'.patch = flight.patch /\ UNCHANGED reader
  <2>1. flight \in [post : Nat, patch : Nat] /\ flight.post > 0 /\ flight' = [flight EXCEPT !.post = flight.post - 1]
    BY DEF PostArrives, EvidenceInv
  <2>2. flight.post - 1 \in Nat
    BY <2>1
  <2>3. QED
    BY <2>1, <2>2 DEF PostArrives
<1>3. CASE answered /\ publisher.at = "posting"
  <2>1. PICK id \in Nat, seen \in Check : id = Len(checks') /\ seen = checks'[Len(checks')]
    BY <1>1
  <2>2. publisher' = [publisher EXCEPT !.at = "created", !.id = id, !.seen = seen]
    BY <1>3, <2>1 DEF PostArrives
  <2>3. publisher' \in PublisherType /\ publisher'.at = "created" /\ publisher'.id = id /\ publisher'.seen = seen
    BY <2>2 DEF EvidenceInv, PublisherOK, PublisherType
  <2>4. PublisherOK'
    BY <1>1, <2>1, <2>3 DEF PublisherOK
  <2>5. QED
    BY <1>1, <1>2, <2>4, RequestsKeep
<1>4. CASE UNCHANGED publisher
  BY <1>1, <1>2, <1>4, RequestsKeep DEF EvidenceInv, PublisherOK
<1>5. QED
  BY <1>3, <1>4 DEF PostArrives

LEMMA PatchArrivesKeeps ==
  ASSUME EvidenceInv, NEW answered \in BOOLEAN, PatchArrives(answered)
  PROVE  EvidenceInv'
<1>1. /\ publisher \in PublisherType /\ publisher.id \in DOMAIN checks /\ checks \in Seq(Check)
      /\ checks[publisher.id] \in Check
  BY DEF PatchArrives, EvidenceInv, PublisherOK
<1>2. PICK done \in Check : done = Attempted(checks[publisher.id])
  BY <1>1, AttemptedIs
<1>3. done.status = "success" /\ done.output = "verdict"
  BY <1>1, <1>2, AttemptedIs
<1>4. checks' = [checks EXCEPT ![publisher.id] = done]
  BY <1>2 DEF PatchArrives
<1>5. checks' \in Seq(Check) /\ DOMAIN checks' = DOMAIN checks /\ checks'[publisher.id] = done
  BY <1>1, <1>4, ExceptSeq
<1>6. flight' \in [post : Nat, patch : Nat] /\ flight.patch > 0 /\ UNCHANGED reader
  BY DEF PatchArrives, EvidenceInv
<1>7. CASE answered /\ publisher.at = "patching"
  <2>1. publisher' = [publisher EXCEPT !.at = "done", !.seen = done]
    BY <1>5, <1>7 DEF PatchArrives
  <2>2. publisher' \in PublisherType /\ publisher'.at = "done" /\ publisher'.id = publisher.id /\ publisher'.seen = done
    BY <1>1, <2>1 DEF PublisherType
  <2>3. PublisherOK'
    BY <1>1, <1>3, <1>5, <2>2 DEF PublisherOK
  <2>4. QED
    BY <1>5, <1>6, <2>3, RequestsKeep
<1>8. CASE UNCHANGED publisher
  <2>1. PublisherOK'
    BY <1>1, <1>5, <1>8 DEF EvidenceInv, PublisherOK
  <2>2. QED
    BY <1>5, <1>6, <2>1, RequestsKeep
<1>9. QED
  BY <1>7, <1>8 DEF PatchArrives

\* The publisher sends, waits in vain, or stops.
LEMMA PublisherKeeps ==
  ASSUME EvidenceInv, SendPost \/ SendPatch \/ AnswerLost \/ ReconcileLostPost \/ \E yes \in BOOLEAN : ReconcileLostPatch(yes)
  PROVE  EvidenceInv'
<1>1. publisher \in PublisherType /\ checks \in Seq(Check) /\ flight \in [post : Nat, patch : Nat]
  BY DEF EvidenceInv, PublisherOK
<1>2. checks' \in Seq(Check) /\ UNCHANGED <<checks, reader>>
  BY <1>1 DEF SendPost, SendPatch, AnswerLost, ReconcileLostPost, ReconcileLostPatch
<1>3. ASSUME NEW stage \in {"posting", "lookup", "refused", "human"}, PublisherGoes(stage),
             flight' \in [post : Nat, patch : Nat], flight'.patch = flight.patch
      PROVE  EvidenceInv'
  <2>1. publisher' = [publisher EXCEPT !.at = stage]
    BY <1>3 DEF PublisherGoes
  <2>2. publisher' \in PublisherType /\ publisher'.at = stage /\ publisher'.id = publisher.id
    BY <1>1, <2>1 DEF PublisherType
  <2>3. PublisherOK'
    BY <1>2, <1>3, <2>2 DEF EvidenceInv, PublisherOK
  <2>4. QED
    BY <1>2, <1>3, <2>3, RequestsKeep
<1>4. ASSUME NEW stage \in {"patching", "fresh"}, NEW again \in Nat,
             publisher' = [publisher EXCEPT !.at = stage, !.retries = again],
             publisher.at \in {"created", "patching", "fresh"}, flight' \in [post : Nat, patch : Nat]
      PROVE  EvidenceInv'
  <2>1. publisher' \in PublisherType /\ publisher'.at = stage /\ publisher'.id = publisher.id /\ publisher'.seen = publisher.seen
    BY <1>1, <1>4 DEF PublisherType
  <2>2. PublisherOK'
    BY <1>2, <1>4, <2>1 DEF EvidenceInv, PublisherOK
  <2>3. QED
    BY <1>2, <1>4, <2>2, RequestsKeep
<1>5. CASE SendPost
  <2>1. flight' \in [post : Nat, patch : Nat] /\ flight'.patch = flight.patch
    BY <1>1, <1>5 DEF SendPost
  <2>2. QED
    BY <1>3, <1>5, <2>1 DEF SendPost
<1>6. CASE SendPatch
  <2>1. flight' \in [post : Nat, patch : Nat]
    BY <1>1, <1>6 DEF SendPatch
  <2>2. PICK retries \in Nat : publisher' = [publisher EXCEPT !.at = "patching", !.retries = retries]
    <3>1. publisher' = [publisher EXCEPT !.at = "patching", !.retries = publisher.retries]
      BY <1>1, <1>6 DEF SendPatch, PublisherGoes, PublisherType
    <3>2. publisher.retries \in Nat
      BY <1>1 DEF PublisherType
    <3>3. QED
      BY <3>1, <3>2
  <2>3. QED
    BY <1>4, <1>6, <2>1, <2>2 DEF SendPatch, PublisherAt
<1>7. CASE AnswerLost
  <2>1. CASE PublisherAt("posting") /\ PublisherGoes("lookup")
    BY <1>1, <1>3, <1>7, <2>1 DEF AnswerLost
  <2>2. CASE PublisherAt("patching") /\ PublisherGoes("fresh")
    <3>1. publisher' = [publisher EXCEPT !.at = "fresh", !.retries = publisher.retries] /\ publisher.retries \in Nat
      BY <1>1, <2>2 DEF PublisherGoes, PublisherType
    <3>2. QED
      BY <1>1, <1>4, <1>7, <2>2, <3>1 DEF AnswerLost, PublisherAt
  <2>3. QED
    BY <1>7, <2>1, <2>2 DEF AnswerLost
<1>8. CASE ReconcileLostPost
  <2>1. flight' \in [post : Nat, patch : Nat] /\ flight'.patch = flight.patch
    BY <1>1, <1>8 DEF ReconcileLostPost
  <2>2. CASE PublisherGoes("refused") \/ PublisherGoes("human")
    BY <1>3, <2>1, <2>2
  <2>3. CASE /\ ToSet(RunListing) # {}
             /\ publisher' = [publisher EXCEPT !.at = "created", !.id = 1, !.seen = checks[1]]
    <3>1. /\ Len(RunListing) = Len(checks) /\ DOMAIN RunListing = 1 .. Len(RunListing) /\ Len(checks) \in Nat
          /\ DOMAIN checks = 1 .. Len(checks)
      BY <1>1, RunListingIs
    <3>2. DOMAIN RunListing # {}
      BY <2>3 DEF ToSet
    <3>3. 1 \in DOMAIN checks
      BY <3>1, <3>2
    <3>4. PICK id \in Nat, seen \in Check : id = 1 /\ seen = checks[1]
      BY <1>1, <3>3
    <3>5. publisher' = [publisher EXCEPT !.at = "created", !.id = id, !.seen = seen]
      BY <2>3, <3>4
    <3>6. publisher' \in PublisherType /\ publisher'.at = "created" /\ publisher'.id = id /\ publisher'.seen = seen
      BY <1>1, <3>5 DEF PublisherType
    <3>7. PublisherOK'
      BY <1>2, <3>3, <3>4, <3>6 DEF PublisherOK
    <3>8. QED
      BY <1>2, <2>1, <3>7, RequestsKeep
  <2>4. QED
    BY <1>8, <2>2, <2>3 DEF ReconcileLostPost
<1>9. ASSUME NEW yes \in BOOLEAN, ReconcileLostPatch(yes) PROVE EvidenceInv'
  <2>1. /\ publisher.at = "fresh" /\ publisher.id \in DOMAIN checks /\ checks[publisher.id] \in Check
        /\ publisher.seen \in Check
    BY <1>1, <1>9 DEF ReconcileLostPatch, PublisherAt, EvidenceInv, PublisherOK
  <2>2. CASE PublisherGoes("human") /\ UNCHANGED flight
    BY <1>1, <1>3, <2>2
  <2>3. CASE /\ publisher' = [publisher EXCEPT !.at = "patching", !.retries = 1]
             /\ flight' = [flight EXCEPT !.patch = @ + 1]
    <3>1. flight' \in [post : Nat, patch : Nat]
      BY <1>1, <2>3
    <3>2. PICK again \in Nat : again = 1
      OBVIOUS
    <3>3. publisher' = [publisher EXCEPT !.at = "patching", !.retries = again]
      BY <2>3, <3>2
    <3>4. QED
      BY <1>4, <2>1, <3>1, <3>3
  <2>4. CASE /\ MatchesAttempted(checks[publisher.id]) /\ UNCHANGED flight
             /\ publisher' = [publisher EXCEPT !.at = "done", !.seen = checks[publisher.id]]
    <3>1. PICK done \in Check : done = checks[publisher.id]
      BY <2>1
    <3>2. done.status = "success" /\ done.output = "verdict"
      BY <2>1, <2>4, <3>1, AttemptedIs DEF MatchesAttempted
    <3>3. publisher' = [publisher EXCEPT !.at = "done", !.seen = done]
      BY <2>4, <3>1
    <3>4. publisher' \in PublisherType /\ publisher'.at = "done" /\ publisher'.id = publisher.id /\ publisher'.seen = done
      BY <1>1, <3>3 DEF PublisherType
    <3>5. PublisherOK'
      BY <1>2, <2>1, <3>1, <3>2, <3>4 DEF PublisherOK
    <3>6. flight' \in [post : Nat, patch : Nat]
      BY <1>1, <2>4
    <3>7. QED
      BY <1>2, <3>5, <3>6, RequestsKeep
  <2>5. QED
    BY <1>9, <2>2, <2>3, <2>4 DEF ReconcileLostPatch, PublisherGoes
<1>10. QED
  BY <1>5, <1>6, <1>7, <1>8, <1>9

LEMMA EvidenceInvStep == ASSUME EvidenceInv, [EvidenceNext]_evidenceVars PROVE EvidenceInv'
<1>1. ASSUME checks' \in Seq(Check), DOMAIN checks \subseteq DOMAIN checks', UNCHANGED <<flight, publisher, reader>>
      PROVE  EvidenceInv'
  <2>1. PublisherOK'
    BY <1>1 DEF EvidenceInv, PublisherOK
  <2>2. flight' \in [post : Nat, patch : Nat]
    BY <1>1 DEF EvidenceInv
  <2>3. QED
    BY <1>1, <2>1, <2>2, RequestsKeep
<1>2. CASE UNCHANGED evidenceVars
  BY <1>1, <1>2 DEF evidenceVars, EvidenceInv
<1>3. ASSUME NEW s \in Suites, OtherCreates(s) PROVE EvidenceInv'
  BY <1>1, <1>3, CreatedKeeps DEF OtherCreates
<1>4. ASSUME NEW i \in DOMAIN checks, NEW status \in Shown, OtherUpdates(i, status) PROVE EvidenceInv'
  <2>1. PICK was \in Check : was = checks[i]
    BY DEF EvidenceInv
  <2>2. PICK now : now = [was EXCEPT !.status = status, !.output = IF status = "queued" THEN was.output ELSE "other"]
    OBVIOUS
  <2>3. now \in Check
    BY <2>2 DEF Check
  <2>4. checks' = [checks EXCEPT ![i] = now]
    BY <1>4, <2>1, <2>2 DEF OtherUpdates, EvidenceInv, Check
  <2>5. checks' \in Seq(Check) /\ DOMAIN checks' = DOMAIN checks
    BY <2>3, <2>4, ExceptSeq DEF EvidenceInv
  <2>6. QED
    BY <1>1, <1>4, <2>5 DEF OtherUpdates
<1>5. ASSUME ReaderOK', UNCHANGED <<checks, flight, publisher>> PROVE EvidenceInv'
  BY <1>5 DEF EvidenceInv, PublisherOK
<1>6. ASSUME NEW linked \in BOOLEAN, ReadRuns(linked) PROVE EvidenceInv'
  BY <1>5, <1>6, CollectKeeps DEF ReadRuns
<1>7. CASE BuildReceipt
  BY <1>5, <1>7, BuildKeeps DEF BuildReceipt
<1>8. ASSUME NEW linked \in BOOLEAN, ReadSuites(linked) PROVE EvidenceInv'
  <2>1. PICK pages, at : reader' = [reader EXCEPT !.suitePages = pages, !.at = at] /\ reader.at = "suites"
    BY <1>8 DEF ReadSuites
  <2>2. PICK read : read = [reader EXCEPT !.suitePages = pages, !.at = at]
    OBVIOUS
  <2>3. /\ DOMAIN read = {"at", "runPages", "suitePages", "verified"}
        /\ read = [k \in {"at", "runPages", "suitePages", "verified"} |-> read[k]]
        /\ read.runPages = reader.runPages /\ read.verified = reader.verified
    BY <2>2 DEF EvidenceInv, ReaderOK
  <2>4. reader' = read
    BY <2>1, <2>2
  <2>5. ReaderOK'
    BY <2>1, <2>3, <2>4 DEF EvidenceInv, ReaderOK, OneCount, PageTrue
  <2>6. QED
    BY <1>5, <1>8, <2>5 DEF ReadSuites
<1>9. QED
  BY <1>2, <1>3, <1>4, <1>6, <1>7, <1>8, PublisherKeeps, PatchArrivesKeeps, PostArrivesKeeps DEF EvidenceNext, Shown

\* However requests and their answers are lost, others write to the runs and pages are read
\* between: a publisher is at a run that is there, and a reader's entries are among those
\* their page counts, in pages of one count once it has a whole listing.
THEOREM EvidenceInvariant == EvidenceSpec => []EvidenceInv
<1>1. EvidenceInv /\ [EvidenceNext]_evidenceVars => EvidenceInv'
  BY EvidenceInvStep
<1>2. QED
  BY <1>1, EvidenceInvInit, PTL DEF EvidenceSpec

\* What is said of a run was so: a receipt is only given for the run that was there first,
\* and alone; and a publisher that is done has seen the run with its verdict.
THEOREM EvidenceStands == EvidenceSpec => []EvidenceIsTrue
<1>1. EvidenceInv => EvidenceIsTrue
  <2> SUFFICES ASSUME EvidenceInv PROVE EvidenceIsTrue
    OBVIOUS
  <2>1. DOMAIN checks = 1 .. Len(checks) /\ Len(checks) \in Nat
    BY DEF EvidenceInv
  <2>2. QED
    BY <2>1 DEF EvidenceInv, PublisherOK, ReaderOK, EvidenceIsTrue
<1>2. QED
  BY <1>1, EvidenceInvariant, PTL
=============================================================================
