----------------------------- MODULE WaveLanding -----------------------------
(***************************************************************************)
(* executeWaveLanding and recoverLandingManifest: the paths of one         *)
(* transaction are renamed into place one after the other, each with a     *)
(* backup, a temp file and a phase in a signed manifest; a failure rolls   *)
(* back in the reverse order, and after a crash a later process recovers   *)
(* from the manifest.  A step ends with one change of a file or of the     *)
(* manifest.  The user edits the same files with an editor of his own.     *)
(***************************************************************************)
EXTENDS Naturals

CONSTANTS N,            \* number of paths, landed in the order 1..N
          Op,           \* what the landing does to each path
          LinkTo,       \* the path an original symlink points to, 0 for a file
          MaxEdits, MaxCrashes, MaxFaults

Paths == 1..N

ASSUME LandingPaths == N \in Nat
ASSUME LandingOps ==
  /\ Op \in [Paths -> {"add", "modify", "delete"}]
  /\ LinkTo \in [Paths -> 0..N]
  /\ {MaxEdits, MaxCrashes, MaxFaults} \subseteq Nat

VARIABLES dest,        \* content of each destination
          backup,      \* content of each backup file
          temps,       \* paths whose temp file exists
          state,       \* state of the manifest
          phase,       \* phase of each path in the manifest
          wasAbsent,   \* paths the manifest found absent
          pc,          \* where the process is, "idle" when none runs
          at,          \* the path its loop is at
          journal,     \* paths the running transaction has to undo
          manual,      \* has this recovery met a path it cannot decide
          touched,     \* paths the user has edited
          raced,       \* paths edited between an inspection and its rename
          discarded,   \* paths whose original the user has replaced
          edits, crashes, faults

files    == <<dest, backup, temps>>
manifest == <<state, phase, wasAbsent>>
process  == <<pc, at, journal, manual>>
user     == <<touched, raced, discarded, edits>>
limits   == <<crashes, faults>>
vars     == <<files, manifest, process, user, limits>>

Contents == {"none", "base", "result", "user"}

Original == [p \in Paths |-> IF Op[p] = "add" THEN "none" ELSE "base"]
Result   == [p \in Paths |-> IF Op[p] = "delete" THEN "none" ELSE "result"]

TypeOK ==
  /\ dest \in [Paths -> Contents] /\ backup \in [Paths -> Contents]
  /\ temps \subseteq Paths
  /\ state \in {"absent", "in_progress", "completed", "rolled_back", "recovery_required"}
  /\ phase \in [Paths -> {"planned", "backup_created", "replacement_installed", "rolled_back"}]
  /\ wasAbsent \subseteq Paths /\ journal \subseteq Paths
  /\ pc \in {"idle", "staged", "check", "backup", "markBackup", "install", "markInstalled",
             "clean", "undo", "restore", "markUndone", "undoFailed",
             "recover", "recRename", "recMark"}
  /\ at \in 0..(N + 1)
  /\ manual \in BOOLEAN
  /\ touched \subseteq Paths /\ raced \subseteq touched /\ discarded \subseteq touched
  /\ edits \in 0..MaxEdits /\ crashes \in 0..MaxCrashes /\ faults \in 0..MaxFaults

Init ==
  /\ dest = Original /\ backup = [p \in Paths |-> "none"] /\ temps = {}
  /\ state = "absent" /\ phase = [p \in Paths |-> "planned"] /\ wasAbsent = {}
  /\ pc = "idle" /\ at = 0 /\ journal = {} /\ manual = FALSE
  /\ touched = {} /\ raced = {} /\ discarded = {} /\ edits = 0
  /\ crashes = 0 /\ faults = 0

(* Renaming, unlinking and the phase of one path in the manifest. *)
BackUp(p)  == dest' = [dest EXCEPT ![p] = "none"] /\ backup' = [backup EXCEPT ![p] = dest[p]] /\ UNCHANGED temps
PutBack(p) == dest' = [dest EXCEPT ![p] = backup[p]] /\ backup' = [backup EXCEPT ![p] = "none"] /\ UNCHANGED temps
Remove(p)  == dest' = [dest EXCEPT ![p] = "none"] /\ UNCHANGED <<backup, temps>>
Discard(p) == backup' = [backup EXCEPT ![p] = "none"] /\ UNCHANGED <<dest, temps>>
Untemp(p)  == temps' = temps \ {p} /\ UNCHANGED <<dest, backup>>
Mark(p, f) == phase' = [phase EXCEPT ![p] = f] /\ UNCHANGED <<state, wasAbsent>>

(* Mutant of Finish: the landing's own status in place of the manifest's. *)
MutFinishLanded(s) == state' = (IF s = "completed" THEN "landed" ELSE s) /\ UNCHANGED <<phase, wasAbsent>>

Finish(s) == state' = s /\ UNCHANGED <<phase, wasAbsent>>

Go(c)      == pc' = c /\ UNCHANGED <<at, journal, manual>>
GoAt(c, i) == pc' = c /\ at' = i /\ UNCHANGED <<journal, manual>>

(***************************************************************************)
(* Applying.                                                               *)
(***************************************************************************)
Stage ==
  /\ pc = "idle" /\ state = "absent" /\ temps = {}
  /\ dest = Original
  /\ temps' = {p \in Paths : Op[p] # "delete"}
  /\ Go("staged")
  /\ UNCHANGED <<dest, backup, manifest, user, limits>>

WriteManifest ==
  /\ pc = "staged"
  /\ state' = "in_progress"
  /\ wasAbsent' = {p \in Paths : Op[p] # "delete" /\ dest[p] = "none"}
  /\ GoAt("check", 1)
  /\ UNCHANGED <<files, phase, user, limits>>

Done(p)      == Op[p] # "modify" /\ dest[p] = Result[p]
Untouched(p) == dest[p] = Original[p]

SkipDone ==
  /\ pc = "check" /\ at \in Paths
  /\ Done(at)
  /\ GoAt("check", at + 1)
  /\ UNCHANGED <<files, manifest, user, limits>>

(* An addition enters the journal here; a path with a backup, with it.     *)
CheckPath ==
  /\ pc = "check" /\ at \in Paths
  /\ ~Done(at) /\ Untouched(at)
  /\ pc' = IF Op[at] = "add" THEN "install" ELSE "backup"
  /\ journal' = IF Op[at] = "add" THEN journal \union {at} ELSE journal
  /\ UNCHANGED <<at, manual, files, manifest, user, limits>>

Drifted ==
  /\ pc = "check" /\ at \in Paths
  /\ ~Done(at) /\ ~Untouched(at)
  /\ GoAt("undo", N)
  /\ UNCHANGED <<files, manifest, user, limits>>

BackupPath ==
  /\ pc = "backup"
  /\ dest[at] # "none"
  /\ BackUp(at)
  /\ journal' = journal \union {at}
  /\ pc' = "markBackup"
  /\ UNCHANGED <<at, manual, manifest, user, limits>>

(* The destination went away after its inspection: the rename fails. *)
BackupGone ==
  /\ pc = "backup"
  /\ dest[at] = "none"
  /\ GoAt("undo", N)
  /\ UNCHANGED <<files, manifest, user, limits>>

MarkBackup ==
  /\ pc = "markBackup"
  /\ Mark(at, "backup_created")
  /\ IF Op[at] = "delete" THEN GoAt("check", at + 1) ELSE Go("install")
  /\ UNCHANGED <<files, user, limits>>

Install ==
  /\ pc = "install"
  /\ dest' = [dest EXCEPT ![at] = "result"]
  /\ temps' = temps \ {at}
  /\ Go("markInstalled")
  /\ UNCHANGED <<backup, manifest, user, limits>>

MarkInstalled ==
  /\ pc = "markInstalled"
  /\ Mark(at, "replacement_installed")
  /\ GoAt("check", at + 1)
  /\ UNCHANGED <<files, user, limits>>

Complete ==
  /\ pc = "check" /\ at = N + 1
  /\ Finish("completed")
  /\ Go("clean")
  /\ UNCHANGED <<files, user, limits>>

(* Backups, then the temp files of skipped paths; a failure ends it early. *)
Clean(p) ==
  /\ pc = "clean"
  /\ \/ p \in journal /\ backup[p] # "none" /\ Discard(p)
     \/ p \in temps /\ (\A q \in journal : backup[q] = "none") /\ Untemp(p)
  /\ UNCHANGED <<manifest, process, user, limits>>

CleanEnds ==
  /\ pc = "clean"
  /\ pc' = "idle" /\ journal' = {}
  /\ UNCHANGED <<at, manual, files, manifest, user, limits>>

(***************************************************************************)
(* Rolling back in the process that failed or was aborted.                 *)
(***************************************************************************)
ApplyFails ==
  /\ pc \in {"check", "backup", "markBackup", "install", "markInstalled"}
  /\ faults < MaxFaults /\ faults' = faults + 1
  /\ GoAt("undo", N)
  /\ UNCHANGED <<files, manifest, user, crashes>>

(* Blob materialization or the first manifest write fails: nothing to undo. *)
StageFails ==
  /\ pc = "staged"
  /\ faults < MaxFaults /\ faults' = faults + 1
  /\ temps' = {}
  /\ Go("idle")
  /\ UNCHANGED <<dest, backup, manifest, user, crashes>>

(* The destination holds what the transaction did not put there. *)
Foreign(p) == dest[p] \notin {"none", Result[p]}

UndoSkip ==
  /\ pc = "undo" /\ at \in Paths
  /\ at \notin journal
  /\ GoAt("undo", at - 1)
  /\ UNCHANGED <<files, manifest, user, limits>>

(* Destination absent: the backup goes back, an addition stays absent. *)
UndoPath ==
  /\ pc = "undo" /\ at \in journal
  /\ dest[at] = "none"
  /\ IF Op[at] = "add" THEN UNCHANGED files ELSE PutBack(at)
  /\ Go("markUndone")
  /\ UNCHANGED <<manifest, user, limits>>

UndoInstalled ==
  /\ pc = "undo" /\ at \in journal
  /\ dest[at] # "none" /\ ~Foreign(at)
  /\ Remove(at)
  /\ Go(IF Op[at] = "add" THEN "markUndone" ELSE "restore")
  /\ UNCHANGED <<manifest, user, limits>>

Restore ==
  /\ pc = "restore"
  /\ PutBack(at)
  /\ Go("markUndone")
  /\ UNCHANGED <<manifest, user, limits>>

MarkUndone ==
  /\ pc = "markUndone"
  /\ Mark(at, "rolled_back")
  /\ GoAt("undo", at - 1)
  /\ UNCHANGED <<files, user, limits>>

UndoBlocked ==
  /\ pc = "undo" /\ at \in journal
  /\ Foreign(at)
  /\ Go("undoFailed")
  /\ UNCHANGED <<files, manifest, user, limits>>

UndoTemp(p) ==
  /\ pc = "undo" /\ at = 0
  /\ p \in temps /\ Untemp(p)
  /\ UNCHANGED <<manifest, process, user, limits>>

UndoDone ==
  /\ pc = "undo" /\ at = 0
  /\ temps = {}
  /\ Finish("rolled_back")
  /\ pc' = "idle" /\ journal' = {}
  /\ UNCHANGED <<at, manual, files, user, limits>>

UndoFails ==
  /\ pc \in {"undo", "restore", "markUndone"}
  /\ faults < MaxFaults /\ faults' = faults + 1
  /\ Go("undoFailed")
  /\ UNCHANGED <<files, manifest, user, crashes>>

(* Marking the manifest is a last attempt whose own failure is ignored. *)
GiveUp ==
  /\ pc = "undoFailed"
  /\ pc' = "idle" /\ journal' = {}
  /\ \/ Finish("recovery_required") /\ UNCHANGED faults
     \/ faults < MaxFaults /\ faults' = faults + 1 /\ UNCHANGED manifest
  /\ UNCHANGED <<at, manual, files, user, crashes>>

(* The process dies; files and manifest stay. *)
Crash ==
  /\ pc # "idle"
  /\ crashes < MaxCrashes /\ crashes' = crashes + 1
  /\ pc' = "idle" /\ journal' = {}
  /\ UNCHANGED <<at, manual, files, manifest, user, faults>>

(***************************************************************************)
(* Recovery from the manifest, last path first.                            *)
(***************************************************************************)
(* fs.stat follows a symlink, so the backup of a link is seen only while   *)
(* its target is there; the manifest names no backup for an absent file.   *)
BackupSeen(p) ==
  /\ backup[p] # "none" /\ p \notin wasAbsent
  /\ LinkTo[p] # 0 => dest[LinkTo[p]] # "none"

Recover ==
  /\ pc = "idle" /\ state \in {"in_progress", "recovery_required"}
  /\ pc' = "recover" /\ at' = N /\ manual' = FALSE
  /\ UNCHANGED <<journal, files, manifest, user, limits>>

Recovering(p) == pc = "recover" /\ at = p /\ p \in Paths

(* Mutant of RestorableAbsent: recovery trusts the phase alone. *)
MutRestorableAbsentMarked(p) == dest[p] = "none" /\ BackupSeen(p) /\ phase[p] # "planned"

(* Mutant of OursInstalled: any content of a marked path is taken for ours. *)
MutOursInstalledByPhase(p) ==
  /\ Op[p] # "delete" /\ dest[p] # "none"
  /\ \/ phase[p] = "replacement_installed"
     \/ phase[p] = "backup_created" /\ BackupSeen(p) /\ dest[p] = "result"

RestorableAbsent(p) == dest[p] = "none" /\ BackupSeen(p)

(* What the transaction installed and no one has changed. *)
OursInstalled(p) ==
  /\ Op[p] # "delete" /\ dest[p] = "result"
  /\ \/ phase[p] = "replacement_installed"
     \/ phase[p] = "backup_created" /\ BackupSeen(p)

(* Mutant of StaleBackup: the destination is not compared with the base. *)
MutStaleBackupUnlooked(p) ==
  /\ BackupSeen(p)
  /\ Op[p] = "delete" \/ phase[p] = "backup_created"

(* A backup beside a destination that is the original again. *)
StaleBackup(p) ==
  /\ dest[p] = "base" /\ BackupSeen(p)
  /\ Op[p] = "delete" \/ phase[p] = "backup_created"

(* Mutant of Conflicting: an install whose phase was not written is foreign. *)
MutConflictingUnmarked(p) ==
  /\ dest[p] # "none"
  /\ \/ Op[p] = "delete" /\ BackupSeen(p) /\ dest[p] # "base"
     \/ Op[p] # "delete" /\ phase[p] = "replacement_installed" /\ dest[p] # "result"
     \/ Op[p] # "delete" /\ phase[p] = "backup_created" /\ BackupSeen(p) /\ dest[p] # "base"

(* Changed since the transaction: kept, with its backup, for the user.     *)
Conflicting(p) ==
  /\ dest[p] # "none"
  /\ \/ Op[p] = "delete" /\ BackupSeen(p) /\ dest[p] # "base"
     \/ Op[p] # "delete" /\ phase[p] = "replacement_installed" /\ dest[p] # "result"
     \/ Op[p] # "delete" /\ phase[p] = "backup_created" /\ BackupSeen(p)
        /\ dest[p] \notin {"base", "result"}

(* The last branch: planned, or rolled back by an earlier attempt. *)
Unstarted(p) ==
  /\ Op[p] # "delete" /\ ~RestorableAbsent(p)
  /\ phase[p] \in {"planned", "rolled_back"}

OwnAddition(p) ==
  Unstarted(p) /\ p \notin temps /\ ~BackupSeen(p)
  /\ Op[p] = "add" /\ p \in wasAbsent /\ dest[p] = "result"

RecRestore(p) ==
  /\ Recovering(p) /\ RestorableAbsent(p)
  /\ PutBack(p)
  /\ Go("recMark")
  /\ UNCHANGED <<manifest, user, limits>>

RecUninstall(p) ==
  /\ Recovering(p) /\ OursInstalled(p)
  /\ Remove(p)
  /\ Go(IF BackupSeen(p) THEN "recRename" ELSE "recMark")
  /\ UNCHANGED <<manifest, user, limits>>

RecRename ==
  /\ pc = "recRename"
  /\ PutBack(at)
  /\ Go("recMark")
  /\ UNCHANGED <<manifest, user, limits>>

RecMark ==
  /\ pc = "recMark"
  /\ Mark(at, "rolled_back")
  /\ GoAt("recover", at - 1)
  /\ UNCHANGED <<files, user, limits>>

RecClean(p) ==
  /\ Recovering(p)
  /\ \/ StaleBackup(p) /\ Discard(p)
     \/ Unstarted(p) /\ p \in temps /\ Untemp(p)
     \/ OwnAddition(p) /\ Remove(p)
  /\ GoAt("recover", p - 1)
  /\ UNCHANGED <<manifest, user, limits>>

RecPreserve(p) ==
  /\ Recovering(p) /\ Conflicting(p)
  /\ manual' = TRUE
  /\ at' = p - 1
  /\ UNCHANGED <<pc, journal, files, manifest, user, limits>>

RecSkip(p) ==
  /\ Recovering(p)
  /\ ~RestorableAbsent(p) /\ ~OursInstalled(p) /\ ~StaleBackup(p) /\ ~Conflicting(p)
  /\ ~(Unstarted(p) /\ p \in temps) /\ ~OwnAddition(p)
  /\ GoAt("recover", p - 1)
  /\ UNCHANGED <<files, manifest, user, limits>>

(* A rename or a manifest write throws: the path is left to the user. *)
RecFails ==
  /\ pc \in {"recover", "recRename", "recMark"} /\ at \in Paths
  /\ faults < MaxFaults /\ faults' = faults + 1
  /\ pc' = "recover" /\ manual' = TRUE /\ at' = at - 1
  /\ UNCHANGED <<journal, files, manifest, user, crashes>>

RecTemp(p) ==
  /\ pc = "recover" /\ at = 0 /\ ~manual
  /\ p \in temps /\ Untemp(p)
  /\ UNCHANGED <<manifest, process, user, limits>>

RecEnds ==
  /\ pc = "recover" /\ at = 0
  /\ manual \/ temps = {}
  /\ \/ Finish(IF manual THEN "recovery_required" ELSE "rolled_back") /\ UNCHANGED faults
     \/ faults < MaxFaults /\ faults' = faults + 1 /\ UNCHANGED manifest
  /\ Go("idle")
  /\ UNCHANGED <<files, user, crashes>>

(* Recovery called on a terminal manifest removes leftovers, file by file. *)
CleanTerminal(p) ==
  /\ pc = "idle"
  /\ \/ state = "completed" /\ backup[p] # "none" /\ p \notin wasAbsent /\ Discard(p)
     \/ state \in {"completed", "rolled_back"} /\ p \in temps /\ Untemp(p)
  /\ UNCHANGED <<manifest, process, user, limits>>

(***************************************************************************)
(* The user.                                                               *)
(***************************************************************************)
(* The process has inspected p and will rename over it without looking.    *)
(* Rollback and recovery are given no window before their first rename.    *)
Window(p) ==
  at = p /\ pc \in {"backup", "markBackup", "install", "restore", "recRename"}

Edit(p, c) ==
  /\ edits < MaxEdits /\ edits' = edits + 1
  /\ c # dest[p]
  /\ dest' = [dest EXCEPT ![p] = c]
  /\ touched' = touched \union {p}
  /\ raced' = IF Window(p) THEN raced \union {p} ELSE raced
  /\ discarded' = IF dest[p] = "base" THEN discarded \union {p} ELSE discarded
  /\ UNCHANGED <<backup, temps, manifest, process, limits>>

Apply ==
  \/ Stage \/ WriteManifest \/ StageFails
  \/ SkipDone \/ CheckPath \/ Drifted \/ BackupPath \/ BackupGone \/ MarkBackup
  \/ Install \/ MarkInstalled \/ Complete \/ CleanEnds \/ ApplyFails
  \/ \E p \in Paths : Clean(p)

Rollback ==
  \/ UndoSkip \/ UndoPath \/ UndoInstalled \/ Restore \/ MarkUndone \/ UndoBlocked
  \/ UndoDone \/ UndoFails \/ GiveUp
  \/ \E p \in Paths : UndoTemp(p)

Recovery ==
  \/ Recover \/ RecRename \/ RecMark \/ RecFails \/ RecEnds
  \/ \E p \in Paths : RecRestore(p) \/ RecUninstall(p) \/ RecClean(p) \/ RecPreserve(p)
                      \/ RecSkip(p) \/ RecTemp(p) \/ CleanTerminal(p)

Next ==
  \/ Apply \/ Rollback \/ Recovery \/ Crash
  \/ \E p \in Paths, c \in Contents : Edit(p, c)

Spec == Init /\ [][Next]_vars

(***************************************************************************)
(* Properties.                                                             *)
(***************************************************************************)
(* What a landing stopped here leaves of each path once it is recovered.   *)
Surviving ==
  [p \in Paths |->
     IF state = "completed" \/ dest[p] = "user" THEN dest[p]
     ELSE IF backup[p] # "none" THEN backup[p]
     ELSE IF Op[p] = "add" /\ dest[p] = "result" THEN "none"
     ELSE dest[p]]

Outcome == CASE state = "completed" -> "landed" [] state = "rolled_back" -> "undone" [] OTHER -> "open"

Contract == INSTANCE LandingContract
  WITH Own <- "user", tree <- Surviving, outcome <- Outcome

(* A landing is one step of the source tree, whatever fails, crashes or is *)
(* edited meanwhile: all its untouched paths become their result together, *)
(* or they keep their original; the user's own content stays, except where *)
(* he wrote it between an inspection and the rename that relies on it.     *)
ImplementsContract == Contract!ContractSpec

(* Until the landing is complete, the original of a path is on disk under  *)
(* its name or in its backup, unless the user himself replaced it there.   *)
OriginalKept ==
  state # "completed" =>
    \A p \in Paths : Op[p] # "add" /\ p \notin discarded => "base" \in {dest[p], backup[p]}

(* A transaction recorded as rolled back has put every untouched file back *)
(* in its place and left no backup of it behind.                           *)
UndoneIsRestored ==
  state = "rolled_back" =>
    \A p \in Paths \ touched :
       LinkTo[p] = 0 => dest[p] = Original[p] /\ backup[p] = "none"

(* The user is called in only for an edit, a failing operation or a second *)
(* crash: one crash, at any point, is recovered without him.               *)
ManualIsJustified ==
  state = "recovery_required" => touched # {} \/ faults > 0 \/ crashes > 1

(* docs/recovery.md: a recovery that reports "recovered" has restored all  *)
(* paths: no file the user left alone is missing from its place.           *)
RecoveredRestoresAll ==
  state = "rolled_back" => \A p \in Paths \ touched : dest[p] = Original[p]
=============================================================================
