----------------------------- MODULE HookSetup -----------------------------
(***************************************************************************)
(* The setup commands that put CarpeOS's capture hook into the settings    *)
(* file of a host (a coding agent) and take it out again, while the host   *)
(* and its user edit the same file, and a crash may cut any write.         *)
(*                                                                         *)
(* A settings file is the list of hook groups of one lifecycle event: the  *)
(* events of a template are merged one by one, all alike.  A host of kind  *)
(* "ts" has a file that is CarpeOS's alone.  One setup command at a time.  *)
(***************************************************************************)
EXTENDS Naturals, Sequences, SequencesExt, FiniteSets, Lists

CONSTANTS
  UserHooks,  \* hook entries of the user
  Bins,       \* directories the carpeos wrapper is installed to
  Bare,       \* the PATH-based command of the documentation, no member of Bins
  Absent,     \* no file
  Torn,       \* a file whose write was cut; it does not parse
  HandFiles,  \* [kind -> what the user or the host may leave in the file]
  MaxEdits    \* edits there may be

CarpeOS(bin) == [bin |-> bin]

\* The entries that isCarpeosCaptureCommand knows, wherever the wrapper is.
Ours == {CarpeOS(bin) : bin \in Bins \union {Bare}}
SettingsFile == {Absent, Torn} \union Seq(Seq(UserHooks \union Ours))

ASSUME SetupAssumption ==
  /\ UserHooks \intersect Ours = {} /\ Bare \notin Bins
  /\ Absent # Torn /\ {Absent, Torn} \intersect Seq(Seq(UserHooks \union Ours)) = {}
  /\ \A kind \in {"json", "ts"} : HandFiles[kind] \subseteq SettingsFile
  /\ MaxEdits \in Nat

VARIABLES
  hostKind,   \* "json" | "ts"
  hostFile,   \* the settings: Absent, Torn, or a sequence of groups of entries
  backup,     \* the .carpeos-bak beside it
  command,    \* the setup command that runs, or ran last
  edits       \* edits so far

setupVars == <<hostKind, hostFile, backup, command, edits>>

Whole(file) == file \notin {Absent, Torn}
Groups(file) == IF Whole(file) THEN file ELSE <<>>
Entries(file) == FlattenSeq(Groups(file))
UsersIn(group) == Filtered(group, UserHooks)
OursIn(group) == Filtered(group, Ours)

\* A bug: the placeholder in the text is left as it is.
PluginUnsubstituted(bin) == <<<<[bin |-> "__CARPEOS_BIN__"]>>>>

\* The file of a "ts" host: CarpeOS's own text with the wrapper's path in it.
PluginText(bin) == <<<<CarpeOS(bin)>>>>

SetupInit ==
  /\ hostKind \in {"json", "ts"}
  /\ hostFile \in HandFiles[hostKind]
  /\ backup = Absent /\ edits = 0
  /\ command = [stage |-> "idle", kind |-> "none", bin |-> Bare, seen |-> Absent, edited |-> FALSE,
                 unsaved |-> FALSE]

-----------------------------------------------------------------------------
(* What the commands write. *)

\* A bug: a group that holds CarpeOS's entry is taken to be CarpeOS's alone.
MergedOverGroup(groups, bin) ==
  LET ours == {i \in DOMAIN groups : OursIn(groups[i]) # <<>>}
  IN IF ours = {} THEN Append(groups, <<CarpeOS(bin)>>)
     ELSE [i \in DOMAIN groups |-> IF i \in ours THEN <<CarpeOS(bin)>> ELSE groups[i]]

\* mergeHostHooks: the first group with a CarpeOS entry gets the new one in place of its
\* old ones, other groups lose theirs, and what is left empty by that is dropped.
Merged(groups, bin) ==
  LET had(i) == OursIn(groups[i]) # <<>>
      first(i) == had(i) /\ \A j \in 1..(i - 1) : ~had(j)
      After(i) ==
        IF first(i) THEN <<Append(UsersIn(groups[i]), CarpeOS(bin))>>
        ELSE IF had(i) /\ UsersIn(groups[i]) = <<>> THEN <<>>
        ELSE <<UsersIn(groups[i])>>
  IN IF \E i \in DOMAIN groups : had(i)
     THEN FlattenSeq([i \in DOMAIN groups |-> After(i)])
     ELSE Append(groups, <<CarpeOS(bin)>>)

\* uninstallHostHooks: every CarpeOS entry goes, and every group without hooks, the
\* user's own empty ones too.
Removed(groups) ==
  FlattenSeq([i \in DOMAIN groups |->
    IF UsersIn(groups[i]) = <<>> THEN <<>> ELSE <<UsersIn(groups[i])>>])

Installed ==
  IF hostKind = "ts" THEN PluginText(command.bin) ELSE Merged(Groups(command.seen), command.bin)

Reads(kind, bin, next) ==
  /\ command.stage \in {"idle", "cut"}
  /\ command' = [stage |-> next, kind |-> kind, bin |-> bin, seen |-> hostFile, edited |-> FALSE,
                 unsaved |-> FALSE]
  /\ UNCHANGED <<hostKind, hostFile, backup, edits>>

Then(stage) == command' = [command EXCEPT !.stage = stage]

-----------------------------------------------------------------------------
(* setup hooks install.  A JSON file that does not parse is reported and   *)
(* left alone.  The merge always finds something to change, also where the *)
(* hook is in place.                                                       *)

InstallRead(bin) ==
  /\ hostKind = "json" => hostFile # Torn
  /\ Reads("install", bin,
       IF hostKind = "ts" /\ hostFile = PluginText(bin) THEN "idle" ELSE "backup")

\* A bug: the backup is made only once.
BackupOnce == IF backup = Absent THEN hostFile ELSE backup

Backup == IF hostFile = Absent THEN backup ELSE hostFile

WriteStage == IF hostKind = "ts" THEN "inplace" ELSE "rename"

InstallBackup ==
  /\ command.stage = "backup"
  /\ backup' = Backup
  /\ Then(WriteStage)
  /\ UNCHANGED <<hostKind, hostFile, edits>>

\* The backup is best effort: a copy that throws is forgotten, and the install goes on
\* with the old backup or a piece of the new one.
BackupFails ==
  /\ command.stage = "backup" /\ hostFile # Absent
  /\ backup' \in {backup, Torn}
  /\ command' = [command EXCEPT !.stage = WriteStage, !.unsaved = TRUE]
  /\ UNCHANGED <<hostKind, hostFile, edits>>

\* The merged settings are written beside the file and renamed over it; where the rename
\* throws they are written in place.
InstallRename ==
  /\ command.stage = "rename"
  /\ \/ hostFile' = Installed /\ Then("idle")
     \/ Then("inplace") /\ UNCHANGED hostFile
  /\ UNCHANGED <<hostKind, backup, edits>>

InstallInPlace ==
  /\ command.stage = "inplace"
  /\ hostFile' = Installed
  /\ Then("idle")
  /\ UNCHANGED <<hostKind, backup, edits>>

(* setup hooks uninstall: in place, without a backup. *)

UninstallRead(bin) ==
  /\ hostFile \notin {Absent, Torn}
  /\ Reads("uninstall", bin, IF OursIn(Entries(hostFile)) = <<>> THEN "idle" ELSE "remove")

UninstallWrite ==
  /\ command.stage = "remove"
  /\ hostFile' = IF hostKind = "ts" THEN Absent ELSE Removed(command.seen)
  /\ Then("idle")
  /\ UNCHANGED <<hostKind, backup, edits>>

\* The command dies, in the middle of whatever it writes.
SetupCut ==
  /\ command.stage \notin {"idle", "cut"}
  /\ \/ UNCHANGED <<hostFile, backup>>
     \/ command.stage = "backup" /\ hostFile # Absent /\ backup' = Torn /\ UNCHANGED hostFile
     \/ command.stage = "inplace" /\ hostFile' = Torn /\ UNCHANGED backup
     \/ command.stage = "remove" /\ hostKind = "json" /\ hostFile' = Torn /\ UNCHANGED backup
  /\ Then("cut")
  /\ UNCHANGED <<hostKind, edits>>

\* The user or the host saves the settings.
EditByHand ==
  /\ edits < MaxEdits
  /\ \E file \in HandFiles[hostKind] \ {hostFile} : hostFile' = file
  /\ edits' = edits + 1
  /\ command' = [command EXCEPT !.edited = TRUE]
  /\ UNCHANGED <<hostKind, backup>>

SetupNext ==
  \/ \E bin \in Bins : InstallRead(bin) \/ UninstallRead(bin)
  \/ InstallBackup \/ BackupFails \/ InstallRename \/ InstallInPlace
  \/ UninstallWrite
  \/ SetupCut
  \/ EditByHand

SetupSpec == SetupInit /\ [][SetupNext]_setupVars

-----------------------------------------------------------------------------
(* setup hooks doctor, probeHostHooks. *)

Probe(bin) ==
  LET ours == ToSet(OursIn(Entries(hostFile)))
      absolute == CarpeOS(bin) \in ours
      bare == CarpeOS(Bare) \in ours
  IN CASE hostFile = Absent \/ (hostKind = "ts" /\ hostFile = Torn) -> "not_installed"
       [] hostFile = Torn -> "error"
       [] OTHER ->
            IF ours = {} THEN "not_installed"
            ELSE IF hostKind = "ts" THEN (IF absolute THEN "ok" ELSE "stale_path")
            ELSE IF absolute /\ ~bare THEN "installed"
            ELSE IF bare /\ ~absolute THEN "stale_path"
            ELSE "partial"

-----------------------------------------------------------------------------
(* Properties *)

\* Files are absent, torn or hook groups; a command stands at a stage of its kind.
SetupTypeOK ==
  /\ hostKind \in {"json", "ts"} /\ edits \in 0..MaxEdits
  /\ {hostFile, backup, command.seen} \subseteq SettingsFile
  /\ command.kind \in {"none", "install", "uninstall"} /\ command.bin \in Bins \union {Bare}
  /\ {command.edited, command.unsaved} \subseteq BOOLEAN
  /\ command.stage \in {"idle", "cut"}
       \union (IF command.kind = "install" THEN {"backup", "rename", "inplace"} ELSE {})
       \union (IF command.kind = "uninstall" THEN {"remove"} ELSE {})

\* What an install can cost the user: wherever it stands or was cut, the user's hooks as
\* it found them are whole in the file or in its backup, unless somebody else has saved
\* the file meanwhile.  The one way to lose them is a backup that could not be made
\* followed by a write in place: of a "ts" host always, of a JSON file only where the
\* rename throws too and the write is cut.
SettingsRecoverable ==
  command.kind = "install" /\ ~command.edited /\ Whole(command.seen) =>
    \/ \E file \in {hostFile, backup} :
         Whole(file) /\ UsersIn(Entries(file)) = UsersIn(Entries(command.seen))
    \/ /\ command.unsaved
       /\ hostFile \in IF hostKind = "ts" THEN {Torn, Installed} ELSE {Torn}

\* A command that came to its end has done what was asked, whatever groups, old
\* wrappers, PATH-based commands and duplicates it found: one CarpeOS entry, of its
\* wrapper, or none, with the user's hooks untouched and in their order; and the doctor
\* says so.
HooksAsAsked ==
  command.stage = "idle" /\ command.kind # "none" /\ ~command.edited =>
    /\ OursIn(Entries(hostFile)) =
         IF command.kind = "install" THEN <<CarpeOS(command.bin)>> ELSE <<>>
    /\ hostKind = "json" => UsersIn(Entries(hostFile)) = UsersIn(Entries(command.seen))
    /\ Probe(command.bin) =
         IF command.kind = "uninstall" THEN "not_installed"
         ELSE IF hostKind = "ts" THEN "ok" ELSE "installed"
=============================================================================
