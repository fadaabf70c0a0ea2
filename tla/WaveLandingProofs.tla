-------------------------- MODULE WaveLandingProofs --------------------------
(***************************************************************************)
(* Theorems about WaveLanding, for any number of paths, any operations,    *)
(* links, edits, crashes and failures: the original of every path stays on *)
(* disk until the landing is complete, and the landing implements          *)
(* LandingContract.                                                        *)
(***************************************************************************)
EXTENDS WaveLanding, TLAPS

Applying   == {"check", "backup", "markBackup", "install", "markInstalled"}
Undoing    == {"undo", "restore", "markUndone", "undoFailed"}
Recoveries == {"recover", "recRename", "recMark"}

(* Where the loop is, and the manifest it runs under. *)
Placed ==
  /\ pc \in (Applying \ {"check"}) \union {"restore", "markUndone", "recRename", "recMark"} =>
       at \in Paths
  /\ pc = "check" => at \in 1..(N + 1)
  /\ pc \in {"undo", "recover"} => at \in 0..N
  /\ pc \in Applying => state = "in_progress"
  /\ pc \in Undoing \union Recoveries => state \in {"in_progress", "recovery_required"}
  /\ pc = "clean" => state = "completed"
  /\ pc = "staged" => state = "absent"

TypeInv == TypeOK /\ Placed

(* What is on disk of one path, whatever the loop does. *)
PathKept(p) ==
  /\ Op[p] = "add" => backup[p] = "none"
  /\ backup[p] = "user" => p \in raced
  /\ p \notin touched => backup[p] \in {"none", "base"} /\ dest[p] \in {"none", Original[p], Result[p]}
  /\ state # "completed" /\ Op[p] # "add" /\ p \notin discarded => "base" \in {dest[p], backup[p]}

Replaceable(p) == dest[p] = "none" \/ p \in raced
BackedUp(p)    == Op[p] = "add" \/ backup[p] = "base" \/ p \in discarded

(* What the step about to be taken relies on. *)
AtHand ==
  /\ pc = "backup" => Op[at] # "add" /\ (dest[at] = "base" \/ at \in raced \intersect discarded)
  /\ pc = "markBackup" => Op[at] # "add"
  /\ pc \in {"install", "markInstalled"} => Op[at] # "delete"
  /\ pc \in {"markBackup", "install", "restore", "recRename"} => Replaceable(at) /\ BackedUp(at)
  /\ pc = "markInstalled" /\ at \notin touched => dest[at] = "result"

(* The paths behind the loop have their result, unless they were edited. *)
Applied ==
  pc \in Applying => \A p \in Paths \ touched : p < at => dest[p] = Result[p]

PathsKept == \A p \in Paths : PathKept(p)

LandingInv == PathsKept /\ AtHand /\ Applied

(***************************************************************************)
(* Types and the place of the loop.                                        *)
(***************************************************************************)
LEMMA Bounds ==
  /\ N \in Nat /\ Op \in [Paths -> {"add", "modify", "delete"}]
  /\ MaxEdits \in Nat /\ MaxCrashes \in Nat /\ MaxFaults \in Nat
BY LandingPaths, LandingOps

LEMMA TypeInit == Init => TypeInv
<1> SUFFICES ASSUME Init PROVE TypeInv
  OBVIOUS
<1>1. TypeOK
  <2>1. dest \in [Paths -> Contents] /\ backup \in [Paths -> Contents]
    BY Bounds DEF Init, Original, Contents
  <2>2. edits \in 0..MaxEdits /\ crashes \in 0..MaxCrashes /\ faults \in 0..MaxFaults /\ at \in 0..(N + 1)
    BY Bounds DEF Init
  <2> QED BY <2>1, <2>2 DEF Init, TypeOK
<1>2. Placed
  BY DEF Init, Placed, Applying, Undoing, Recoveries
<1> QED BY <1>1, <1>2 DEF TypeInv

LEMMA ApplyTypes ==
  ASSUME TypeInv, Apply
  PROVE  TypeInv'
<1> USE Bounds DEF TypeInv, TypeOK, Placed, Applying, Undoing, Recoveries,
        Contents, Go, GoAt, files, manifest, user, limits, process, Paths
<1>1. CASE Stage
  BY <1>1 DEF Stage
<1>2. CASE WriteManifest
  BY <1>2 DEF WriteManifest
<1>3. CASE StageFails
  BY <1>3 DEF StageFails
<1>4. CASE SkipDone
  BY <1>4 DEF SkipDone
<1>5. CASE CheckPath
  BY <1>5 DEF CheckPath
<1>6. CASE Drifted
  BY <1>6 DEF Drifted
<1>7. CASE BackupPath
  BY <1>7 DEF BackupPath, BackUp
<1>8. CASE BackupGone
  BY <1>8 DEF BackupGone
<1>9. CASE MarkBackup
  <2>1. TypeOK'
    <3>1. at' \in 0..(N + 1)
      BY <1>9 DEF MarkBackup, Mark
    <3>4. manual' \in BOOLEAN
      BY <1>9 DEF MarkBackup, Mark
    <3>5. journal' \subseteq Paths
      BY <1>9 DEF MarkBackup, Mark
    <3>2. phase' \in [Paths -> {"planned", "backup_created", "replacement_installed", "rolled_back"}]
      BY <1>9 DEF MarkBackup, Mark
    <3>3. edits' \in 0..MaxEdits /\ crashes' \in 0..MaxCrashes /\ faults' \in 0..MaxFaults
      BY <1>9 DEF MarkBackup, Mark
    <3> QED BY <1>9, <3>1, <3>2, <3>3, <3>4, <3>5 DEF MarkBackup, Mark
  <2>2. Placed'
    BY <1>9 DEF MarkBackup, Mark
  <2> QED BY <2>1, <2>2 DEF TypeInv
<1>10. CASE Install
  BY <1>10 DEF Install
<1>11. CASE MarkInstalled
  BY <1>11 DEF MarkInstalled, Mark
<1>12. CASE Complete
  BY <1>12 DEF Complete, Finish
<1>13. CASE CleanEnds
  BY <1>13 DEF CleanEnds
<1>14. CASE ApplyFails
  BY <1>14 DEF ApplyFails
<1>15. ASSUME NEW p \in Paths, Clean(p) PROVE TypeInv'
  BY <1>15 DEF Clean, Discard, Untemp
<1> QED BY <1>1, <1>2, <1>3, <1>4, <1>5, <1>6, <1>7, <1>8, <1>9, <1>10, <1>11, <1>12, <1>13,
       <1>14, <1>15 DEF Apply

LEMMA RollbackTypes ==
  ASSUME TypeInv, Rollback
  PROVE  TypeInv'
<1> USE Bounds DEF TypeInv, TypeOK, Placed, Applying, Undoing, Recoveries,
        Contents, Go, GoAt, files, manifest, user, limits, process, Paths
<1>1. CASE UndoSkip
  BY <1>1 DEF UndoSkip
<1>2. CASE UndoPath
  BY <1>2 DEF UndoPath, PutBack
<1>3. CASE UndoInstalled
  BY <1>3 DEF UndoInstalled, Remove
<1>4. CASE Restore
  BY <1>4 DEF Restore, PutBack
<1>5. CASE MarkUndone
  BY <1>5 DEF MarkUndone, Mark
<1>6. CASE UndoBlocked
  BY <1>6 DEF UndoBlocked
<1>7. CASE UndoDone
  BY <1>7 DEF UndoDone, Finish
<1>8. CASE UndoFails
  BY <1>8 DEF UndoFails
<1>9. CASE GiveUp
  <2>1. TypeOK'
    <3>1. at' \in 0..(N + 1)
      BY <1>9 DEF GiveUp, Finish
    <3>4. manual' \in BOOLEAN
      BY <1>9 DEF GiveUp, Finish
    <3>5. journal' \subseteq Paths
      BY <1>9 DEF GiveUp, Finish
    <3>2. phase' \in [Paths -> {"planned", "backup_created", "replacement_installed", "rolled_back"}]
      BY <1>9 DEF GiveUp, Finish
    <3>3. edits' \in 0..MaxEdits /\ crashes' \in 0..MaxCrashes /\ faults' \in 0..MaxFaults
      BY <1>9 DEF GiveUp, Finish
    <3> QED BY <1>9, <3>1, <3>2, <3>3, <3>4, <3>5 DEF GiveUp, Finish
  <2>2. Placed'
    BY <1>9 DEF GiveUp, Finish
  <2> QED BY <2>1, <2>2 DEF TypeInv
<1>10. ASSUME NEW p \in Paths, UndoTemp(p) PROVE TypeInv'
  BY <1>10 DEF UndoTemp, Untemp
<1> QED BY <1>1, <1>2, <1>3, <1>4, <1>5, <1>6, <1>7, <1>8, <1>9, <1>10 DEF Rollback

LEMMA RecoveryTypes ==
  ASSUME TypeInv, Recovery
  PROVE  TypeInv'
<1> USE Bounds DEF TypeInv, TypeOK, Placed, Applying, Undoing, Recoveries,
        Contents, Go, GoAt, files, manifest, user, limits, process, Paths
<1>1. CASE Recover
  <2>1. TypeOK'
    <3>1. at' \in 0..(N + 1)
      BY <1>1 DEF Recover
    <3>4. manual' \in BOOLEAN
      BY <1>1 DEF Recover
    <3>5. journal' \subseteq Paths
      BY <1>1 DEF Recover
    <3>2. phase' \in [Paths -> {"planned", "backup_created", "replacement_installed", "rolled_back"}]
      BY <1>1 DEF Recover
    <3>3. edits' \in 0..MaxEdits /\ crashes' \in 0..MaxCrashes /\ faults' \in 0..MaxFaults
      BY <1>1 DEF Recover
    <3> QED BY <1>1, <3>1, <3>2, <3>3, <3>4, <3>5 DEF Recover
  <2>2. Placed'
    BY <1>1 DEF Recover
  <2> QED BY <2>1, <2>2 DEF TypeInv
<1>2. CASE RecRename
  BY <1>2 DEF RecRename, PutBack
<1>3. CASE RecMark
  BY <1>3 DEF RecMark, Mark
<1>4. CASE RecFails
  BY <1>4 DEF RecFails
<1>5. CASE RecEnds
  <2>1. TypeOK'
    <3>1. at' \in 0..(N + 1)
      BY <1>5 DEF RecEnds, Finish
    <3>4. manual' \in BOOLEAN
      BY <1>5 DEF RecEnds, Finish
    <3>5. journal' \subseteq Paths
      BY <1>5 DEF RecEnds, Finish
    <3>2. phase' \in [Paths -> {"planned", "backup_created", "replacement_installed", "rolled_back"}]
      BY <1>5 DEF RecEnds, Finish
    <3>3. edits' \in 0..MaxEdits /\ crashes' \in 0..MaxCrashes /\ faults' \in 0..MaxFaults
      BY <1>5 DEF RecEnds, Finish
    <3> QED BY <1>5, <3>1, <3>2, <3>3, <3>4, <3>5 DEF RecEnds, Finish
  <2>2. Placed'
    BY <1>5 DEF RecEnds, Finish
  <2> QED BY <2>1, <2>2 DEF TypeInv
<1>6. ASSUME NEW p \in Paths, RecRestore(p) PROVE TypeInv'
  BY <1>6 DEF RecRestore, PutBack, Recovering
<1>7. ASSUME NEW p \in Paths, RecUninstall(p) PROVE TypeInv'
  BY <1>7 DEF RecUninstall, Remove, Recovering
<1>8. ASSUME NEW p \in Paths, RecClean(p) PROVE TypeInv'
  <2>1. CASE Discard(p)
    BY <1>8, <2>1 DEF RecClean, Discard, Recovering
  <2>2. CASE Untemp(p)
    BY <1>8, <2>2 DEF RecClean, Untemp, Recovering
  <2>3. CASE Remove(p)
    BY <1>8, <2>3 DEF RecClean, Remove, Recovering
  <2> QED BY <1>8, <2>1, <2>2, <2>3 DEF RecClean
<1>9. ASSUME NEW p \in Paths, RecPreserve(p) PROVE TypeInv'
  BY <1>9 DEF RecPreserve, Recovering
<1>10. ASSUME NEW p \in Paths, RecSkip(p) PROVE TypeInv'
  BY <1>10 DEF RecSkip, Recovering
<1>11. ASSUME NEW p \in Paths, RecTemp(p) PROVE TypeInv'
  BY <1>11 DEF RecTemp, Untemp
<1>12. ASSUME NEW p \in Paths, CleanTerminal(p) PROVE TypeInv'
  BY <1>12 DEF CleanTerminal, Discard, Untemp
<1> QED BY <1>1, <1>2, <1>3, <1>4, <1>5, <1>6, <1>7, <1>8, <1>9, <1>10, <1>11, <1>12 DEF Recovery

LEMMA TypeStep == TypeInv /\ [Next]_vars => TypeInv'
<1> SUFFICES ASSUME TypeInv, [Next]_vars PROVE TypeInv'
  OBVIOUS
<1> USE DEF files, manifest, process, user, limits
<1>1. CASE Crash
  <2>1. TypeOK'
    BY <1>1, Bounds DEF Crash, TypeInv, TypeOK, Placed, Applying, Undoing, Recoveries
  <2>2. Placed'
    BY <1>1, Bounds DEF Crash, TypeInv, TypeOK, Placed, Applying, Undoing, Recoveries
  <2> QED BY <2>1, <2>2 DEF TypeInv
<1>2. ASSUME NEW p \in Paths, NEW c \in Contents, Edit(p, c) PROVE TypeInv'
  BY <1>2, LandingOps DEF Edit, TypeInv, TypeOK, Placed, Contents
<1>3. CASE UNCHANGED vars
  BY <1>3 DEF vars, TypeInv, TypeOK, Placed
<1> QED BY <1>1, <1>2, <1>3, ApplyTypes, RollbackTypes, RecoveryTypes DEF Next

(* Every variable keeps its type, and the loop its place. *)
THEOREM TypeCorrect == Spec => []TypeOK
<1>1. TypeInv => TypeOK
  BY DEF TypeInv
<1> QED BY <1>1, TypeInit, TypeStep, PTL DEF Spec

(***************************************************************************)
(* What the moves of files do to the paths: BackUp, PutBack, Remove,       *)
(* Discard and the install keep them, where they are called.               *)
(***************************************************************************)
LEMMA StayKeeps ==
  ASSUME PathsKept, UNCHANGED <<dest, backup, user>>,
         state' = "completed" \/ state # "completed" \/ UNCHANGED state
  PROVE  PathsKept'
BY DEF PathsKept, PathKept, user

LEMMA BackUpKeeps ==
  ASSUME TypeInv, PathsKept, NEW p \in Paths, BackUp(p), UNCHANGED <<state, user>>,
         Op[p] # "add", dest[p] = "base" \/ p \in raced \intersect discarded
  PROVE  PathsKept'
<1> SUFFICES ASSUME NEW q \in Paths PROVE PathKept(q)'
  BY DEF PathsKept
<1> USE Bounds DEF TypeInv, TypeOK, BackUp, user
<1>1. PathKept(q)
  BY DEF PathsKept
<1>2. CASE q = p
  BY <1>1, <1>2 DEF PathKept
<1>3. CASE q # p
  BY <1>1, <1>3 DEF PathKept
<1> QED BY <1>2, <1>3

LEMMA PutBackKeeps ==
  ASSUME TypeInv, PathsKept, NEW p \in Paths, PutBack(p), UNCHANGED <<state, user>>,
         Replaceable(p), BackedUp(p)
  PROVE  PathsKept'
<1> SUFFICES ASSUME NEW q \in Paths PROVE PathKept(q)'
  BY DEF PathsKept
<1> USE Bounds DEF TypeInv, TypeOK, PutBack, user
<1>1. PathKept(q)
  BY DEF PathsKept
<1>2. CASE q = p
  BY <1>1, <1>2 DEF PathKept, Replaceable, BackedUp, Original
<1>3. CASE q # p
  BY <1>1, <1>3 DEF PathKept
<1> QED BY <1>2, <1>3

LEMMA RemoveKeeps ==
  ASSUME TypeInv, PathsKept, NEW p \in Paths, Remove(p), UNCHANGED <<state, user>>,
         dest[p] = "result"
  PROVE  PathsKept'
<1> SUFFICES ASSUME NEW q \in Paths PROVE PathKept(q)'
  BY DEF PathsKept
<1> USE Bounds DEF TypeInv, TypeOK, Remove, user
<1>1. PathKept(q)
  BY DEF PathsKept
<1>2. CASE q = p
  BY <1>1, <1>2 DEF PathKept
<1>3. CASE q # p
  BY <1>1, <1>3 DEF PathKept
<1> QED BY <1>2, <1>3

LEMMA DiscardKeeps ==
  ASSUME TypeInv, PathsKept, NEW p \in Paths, Discard(p), UNCHANGED <<state, user>>,
         state = "completed" \/ dest[p] = "base"
  PROVE  PathsKept'
<1> SUFFICES ASSUME NEW q \in Paths PROVE PathKept(q)'
  BY DEF PathsKept
<1> USE Bounds DEF TypeInv, TypeOK, Discard, user
<1>1. PathKept(q)
  BY DEF PathsKept
<1>2. CASE q = p
  BY <1>1, <1>2 DEF PathKept
<1>3. CASE q # p
  BY <1>1, <1>3 DEF PathKept
<1> QED BY <1>2, <1>3

LEMMA InstallKeeps ==
  ASSUME TypeInv, PathsKept, AtHand, Install
  PROVE  PathsKept'
<1> SUFFICES ASSUME NEW q \in Paths PROVE PathKept(q)'
  BY DEF PathsKept
<1> USE Bounds DEF TypeInv, TypeOK, Placed, Applying, Install, manifest, user
<1>1. PathKept(q)
  BY DEF PathsKept
<1>2. Op[at] # "delete" /\ BackedUp(at) /\ at \in Paths
  BY DEF AtHand
<1>3. CASE q = at
  BY <1>1, <1>2, <1>3 DEF PathKept, BackedUp, Result
<1>4. CASE q # at
  BY <1>1, <1>2, <1>4 DEF PathKept
<1> QED BY <1>3, <1>4

LEMMA EditKeeps ==
  ASSUME TypeInv, PathsKept, NEW p \in Paths, NEW c \in Contents, Edit(p, c)
  PROVE  PathsKept'
<1> SUFFICES ASSUME NEW q \in Paths PROVE PathKept(q)'
  BY DEF PathsKept
<1> USE Bounds DEF TypeInv, TypeOK, Edit, manifest
<1>1. PathKept(q)
  BY DEF PathsKept
<1>2. CASE q = p
  BY <1>1, <1>2 DEF PathKept
<1>3. CASE q # p
  BY <1>1, <1>3 DEF PathKept
<1> QED BY <1>2, <1>3

(***************************************************************************)
(* The steps of the loops.                                                 *)
(***************************************************************************)
LEMMA InvInit == Init => LandingInv
<1> SUFFICES ASSUME Init PROVE LandingInv
  OBVIOUS
<1>1. PathsKept
  BY Bounds DEF Init, PathsKept, PathKept, Original
<1>2. AtHand /\ Applied
  BY DEF Init, AtHand, Applied, Applying
<1> QED BY <1>1, <1>2 DEF LandingInv

(* Outside the loop of the landing nothing is at hand. *)
LEMMA OutsideLoop ==
  ASSUME PathsKept',
         pc' \in {"idle", "staged", "clean", "undo", "markUndone", "undoFailed", "recover", "recMark"}
  PROVE  LandingInv'
BY DEF LandingInv, AtHand, Applied, Applying

LEMMA ApplyKeeps ==
  ASSUME TypeInv, LandingInv, Apply
  PROVE  LandingInv'
<1> USE DEF TypeInv, Placed, LandingInv, Undoing, Recoveries, Go, GoAt, files, manifest, user, limits, process
<1>1. CASE Stage
  BY <1>1, StayKeeps, OutsideLoop DEF Stage
<1>2. CASE StageFails
  BY <1>2, StayKeeps, OutsideLoop DEF StageFails
<1>3. CASE Drifted
  BY <1>3, StayKeeps, OutsideLoop DEF Drifted
<1>4. CASE BackupGone
  BY <1>4, StayKeeps, OutsideLoop DEF BackupGone
<1>5. CASE Complete
  BY <1>5, StayKeeps, OutsideLoop DEF Complete, Finish
<1>6. CASE CleanEnds
  BY <1>6, StayKeeps, OutsideLoop DEF CleanEnds
<1>7. CASE ApplyFails
  BY <1>7, StayKeeps, OutsideLoop DEF ApplyFails
<1>8. CASE WriteManifest
  <2>1. PathsKept'
    BY <1>8, StayKeeps DEF WriteManifest
  <2>2. AtHand' /\ Applied'
    BY <1>8, Bounds DEF WriteManifest, AtHand, Applied, Paths
  <2> QED BY <2>1, <2>2
<1>9. CASE SkipDone
  <2>1. PathsKept'
    BY <1>9, StayKeeps DEF SkipDone
  <2>2. AtHand'
    BY <1>9 DEF SkipDone, AtHand
  <2>3. Applied'
    BY <1>9 DEF SkipDone, Done, Applied, Applying, Paths
  <2> QED BY <2>1, <2>2, <2>3
<1>10. CASE CheckPath
  <2>1. PathsKept'
    BY <1>10, StayKeeps DEF CheckPath
  <2>2. AtHand'
    <3>1. PathKept(at)
      BY <1>10 DEF CheckPath, PathsKept
    <3>2. CASE Op[at] = "add"
      BY <1>10, <3>2 DEF CheckPath, AtHand, Untouched, Original, Replaceable, BackedUp
    <3>3. CASE Op[at] # "add"
      BY <1>10, <3>3 DEF CheckPath, AtHand, Untouched, Original
    <3> QED BY <3>2, <3>3
  <2>3. Applied'
    BY <1>10 DEF CheckPath, Applied, Applying
  <2> QED BY <2>1, <2>2, <2>3
<1>11. CASE BackupPath
  <2>1. at \in Paths /\ Op[at] # "add" /\ (dest[at] = "base" \/ at \in raced \intersect discarded)
    BY <1>11 DEF BackupPath, AtHand, Applying
  <2>2. PathsKept'
    BY <1>11, <2>1, BackUpKeeps DEF BackupPath
  <2>3. AtHand'
    BY <1>11, <2>1 DEF BackupPath, BackUp, TypeOK, AtHand, Replaceable, BackedUp
  <2>4. Applied'
    BY <1>11, <2>1, Bounds DEF BackupPath, BackUp, TypeOK, Applied, Applying, Paths
  <2> QED BY <2>2, <2>3, <2>4
<1>12. CASE MarkBackup
  <2>1. PathsKept'
    BY <1>12, StayKeeps DEF MarkBackup, Mark
  <2>2. AtHand'
    BY <1>12 DEF MarkBackup, Mark, AtHand, Replaceable, BackedUp
  <2>3. CASE Op[at] = "delete"
    <3>1. at \notin touched => dest[at] = Result[at]
      BY <1>12, <2>3 DEF MarkBackup, AtHand, Applying, Replaceable, TypeOK, Result
    <3> QED BY <1>12, <2>1, <2>2, <2>3, <3>1, Bounds DEF MarkBackup, Mark, Applied, Applying, Paths
  <2>4. CASE Op[at] # "delete"
    BY <1>12, <2>1, <2>2, <2>4 DEF MarkBackup, Mark, Applied, Applying
  <2> QED BY <2>3, <2>4
<1>13. CASE Install
  <2>1. PathsKept'
    BY <1>13, InstallKeeps
  <2>2. at \in Paths /\ Op[at] # "delete"
    BY <1>13 DEF Install, AtHand, Applying
  <2>3. AtHand'
    BY <1>13, <2>2 DEF Install, TypeOK, AtHand
  <2>4. Applied'
    BY <1>13, <2>2, Bounds DEF Install, TypeOK, Applied, Applying, Paths
  <2> QED BY <2>1, <2>3, <2>4
<1>14. CASE MarkInstalled
  <2>1. PathsKept'
    BY <1>14, StayKeeps DEF MarkInstalled, Mark
  <2>2. AtHand'
    BY <1>14 DEF MarkInstalled, Mark, AtHand
  <2>3. at \notin touched => dest[at] = Result[at]
    BY <1>14 DEF MarkInstalled, AtHand, Applying, Result
  <2>4. Applied'
    BY <1>14, <2>3, Bounds DEF MarkInstalled, Mark, Applied, Applying, Paths
  <2> QED BY <2>1, <2>2, <2>4
<1>15. ASSUME NEW p \in Paths, Clean(p) PROVE LandingInv'
  <2>1. CASE Discard(p)
    BY <1>15, <2>1, DiscardKeeps, OutsideLoop DEF Clean
  <2>2. CASE Untemp(p)
    BY <1>15, <2>2, StayKeeps, OutsideLoop DEF Clean, Untemp
  <2> QED BY <1>15, <2>1, <2>2 DEF Clean
<1> QED BY <1>1, <1>2, <1>3, <1>4, <1>5, <1>6, <1>7, <1>8, <1>9, <1>10, <1>11, <1>12, <1>13,
       <1>14, <1>15 DEF Apply

LEMMA RollbackKeeps ==
  ASSUME TypeInv, LandingInv, Rollback
  PROVE  LandingInv'
<1> USE DEF TypeInv, Placed, LandingInv, Undoing, Recoveries, Go, GoAt, files, manifest, user, limits, process
<1>1. CASE UndoSkip
  BY <1>1, StayKeeps, OutsideLoop DEF UndoSkip
<1>2. CASE MarkUndone
  BY <1>2, StayKeeps, OutsideLoop DEF MarkUndone, Mark
<1>3. CASE UndoBlocked
  BY <1>3, StayKeeps, OutsideLoop DEF UndoBlocked
<1>4. CASE UndoDone
  BY <1>4, StayKeeps, OutsideLoop DEF UndoDone, Finish
<1>5. CASE UndoFails
  BY <1>5, StayKeeps, OutsideLoop DEF UndoFails
<1>6. CASE GiveUp
  BY <1>6, StayKeeps, OutsideLoop DEF GiveUp, Finish
<1>7. ASSUME NEW p \in Paths, UndoTemp(p) PROVE LandingInv'
  BY <1>7, StayKeeps, OutsideLoop DEF UndoTemp, Untemp
<1>8. CASE UndoPath
  <2>1. at \in Paths /\ PathKept(at) /\ state # "completed" /\ dest[at] = "none" /\ UNCHANGED user
    BY <1>8 DEF UndoPath, TypeOK, PathsKept
  <2>2. PathsKept'
    <3>1. CASE Op[at] = "add"
      BY <1>8, <3>1, StayKeeps DEF UndoPath
    <3>2. CASE Op[at] # "add"
      <4>1. Replaceable(at) /\ BackedUp(at)
        BY <2>1 DEF PathKept, Replaceable, BackedUp
      <4> QED BY <1>8, <2>1, <3>2, <4>1, PutBackKeeps DEF UndoPath
    <3> QED BY <3>1, <3>2
  <2> QED BY <1>8, <2>2, OutsideLoop DEF UndoPath
<1>9. CASE UndoInstalled
  <2>1. at \in Paths /\ PathKept(at) /\ state # "completed" /\ dest[at] = "result"
    BY <1>9 DEF UndoInstalled, Foreign, Result, TypeOK, PathsKept
  <2>2. PathsKept'
    BY <1>9, <2>1, RemoveKeeps DEF UndoInstalled
  <2>3. BackedUp(at) /\ dest'[at] = "none"
    BY <1>9, <2>1 DEF UndoInstalled, Remove, TypeOK, PathKept, BackedUp
  <2>4. AtHand'
    BY <1>9, <2>3 DEF UndoInstalled, Remove, AtHand, Replaceable, BackedUp
  <2>5. Applied'
    BY <1>9 DEF UndoInstalled, Applied, Applying
  <2> QED BY <2>2, <2>4, <2>5
<1>10. CASE Restore
  BY <1>10, PutBackKeeps, OutsideLoop DEF Restore, AtHand
<1> QED BY <1>1, <1>2, <1>3, <1>4, <1>5, <1>6, <1>7, <1>8, <1>9, <1>10 DEF Rollback

LEMMA RecoveryKeeps ==
  ASSUME TypeInv, LandingInv, Recovery
  PROVE  LandingInv'
<1> USE DEF TypeInv, Placed, LandingInv, Undoing, Recoveries, Go, GoAt, files, manifest, user, limits, process
<1>1. CASE Recover
  BY <1>1, StayKeeps, OutsideLoop DEF Recover
<1>2. CASE RecMark
  BY <1>2, StayKeeps, OutsideLoop DEF RecMark, Mark
<1>3. CASE RecFails
  BY <1>3, StayKeeps, OutsideLoop DEF RecFails
<1>4. CASE RecEnds
  BY <1>4, StayKeeps, OutsideLoop DEF RecEnds, Finish
<1>5. ASSUME NEW p \in Paths, RecPreserve(p) PROVE LandingInv'
  BY <1>5, StayKeeps, OutsideLoop DEF RecPreserve, Recovering
<1>6. ASSUME NEW p \in Paths, RecSkip(p) PROVE LandingInv'
  BY <1>6, StayKeeps, OutsideLoop DEF RecSkip, Recovering
<1>7. ASSUME NEW p \in Paths, RecTemp(p) PROVE LandingInv'
  BY <1>7, StayKeeps, OutsideLoop DEF RecTemp, Untemp
<1>8. CASE RecRename
  BY <1>8, PutBackKeeps, OutsideLoop DEF RecRename, AtHand
<1>9. ASSUME NEW p \in Paths, RecRestore(p) PROVE LandingInv'
  <2>1. Replaceable(p) /\ BackedUp(p)
    BY <1>9 DEF RecRestore, Recovering, RestorableAbsent, Replaceable, BackedUp, PathsKept, PathKept
  <2> QED BY <1>9, <2>1, PutBackKeeps, OutsideLoop DEF RecRestore
<1>10. ASSUME NEW p \in Paths, RecUninstall(p) PROVE LandingInv'
  <2>1. p = at /\ PathKept(p) /\ state # "completed" /\ dest[p] = "result"
    BY <1>10 DEF RecUninstall, Recovering, OursInstalled, PathsKept
  <2>2. PathsKept'
    BY <1>10, <2>1, RemoveKeeps DEF RecUninstall
  <2>3. BackedUp(p) /\ dest'[p] = "none"
    BY <1>10, <2>1 DEF RecUninstall, Remove, TypeOK, PathKept, BackedUp
  <2>4. AtHand'
    BY <1>10, <2>1, <2>3 DEF RecUninstall, Remove, AtHand, Replaceable, BackedUp
  <2>5. Applied'
    BY <1>10 DEF RecUninstall, Applied, Applying
  <2> QED BY <2>2, <2>4, <2>5
<1>11. ASSUME NEW p \in Paths, RecClean(p) PROVE LandingInv'
  <2>1. CASE StaleBackup(p) /\ Discard(p)
    BY <1>11, <2>1, DiscardKeeps, OutsideLoop DEF RecClean, Recovering, StaleBackup
  <2>2. CASE Untemp(p)
    BY <1>11, <2>2, StayKeeps, OutsideLoop DEF RecClean, Recovering, Untemp
  <2>3. CASE OwnAddition(p) /\ Remove(p)
    BY <1>11, <2>3, RemoveKeeps, OutsideLoop DEF RecClean, Recovering, OwnAddition
  <2> QED BY <1>11, <2>1, <2>2, <2>3 DEF RecClean
<1>12. ASSUME NEW p \in Paths, CleanTerminal(p) PROVE LandingInv'
  <2>1. CASE state = "completed" /\ Discard(p)
    BY <1>12, <2>1, DiscardKeeps, OutsideLoop DEF CleanTerminal
  <2>2. CASE Untemp(p)
    BY <1>12, <2>2, StayKeeps, OutsideLoop DEF CleanTerminal, Untemp
  <2> QED BY <1>12, <2>1, <2>2 DEF CleanTerminal
<1> QED BY <1>1, <1>2, <1>3, <1>4, <1>5, <1>6, <1>7, <1>8, <1>9, <1>10, <1>11, <1>12 DEF Recovery


LEMMA EditStep ==
  ASSUME TypeInv, LandingInv, NEW p \in Paths, NEW c \in Contents, Edit(p, c)
  PROVE  LandingInv'
<1> USE DEF TypeInv, TypeOK, Edit, manifest, process
<1>1. PathsKept'
  BY EditKeeps DEF LandingInv
<1>2. AtHand'
  <2>1. CASE p = at
    BY <2>1 DEF LandingInv, AtHand, Replaceable, BackedUp, Window
  <2>2. CASE p # at
    BY <2>2 DEF LandingInv, AtHand, Replaceable, BackedUp, Placed, Applying
  <2> QED BY <2>1, <2>2
<1>3. Applied'
  BY DEF LandingInv, Applied
<1> QED BY <1>1, <1>2, <1>3 DEF LandingInv

LEMMA InvStep == TypeInv /\ LandingInv /\ [Next]_vars => LandingInv'
<1> SUFFICES ASSUME TypeInv, LandingInv, [Next]_vars PROVE LandingInv'
  OBVIOUS
<1>1. CASE Crash
  BY <1>1, StayKeeps, OutsideLoop DEF Crash, LandingInv, files, manifest
<1>2. CASE UNCHANGED vars
  BY <1>2 DEF vars, files, manifest, process, user, LandingInv, PathsKept, PathKept, AtHand,
     Applied, Replaceable, BackedUp
<1> QED BY <1>1, <1>2, ApplyKeeps, RollbackKeeps, RecoveryKeeps, EditStep DEF Next

(* What is on disk of every path, and what the next step relies on. *)
THEOREM InvCorrect == Spec => [](TypeInv /\ LandingInv)
BY TypeInit, InvInit, TypeStep, InvStep, PTL DEF Spec

(* Until the landing is complete the original of a path is on disk.        *)
THEOREM OriginalAlwaysKept == Spec => []OriginalKept
<1>1. LandingInv => OriginalKept
  BY DEF LandingInv, PathsKept, PathKept, OriginalKept
<1> QED BY <1>1, InvCorrect, PTL

(***************************************************************************)
(* The refinement.                                                         *)
(***************************************************************************)
OpenStates == {"absent", "in_progress", "recovery_required"}

(* What no step of the program does to content of the user's, and what it  *)
(* may do to the state of the manifest.                                    *)
OwnRemains == \A p \in Paths \ raced : dest[p] = "user" => dest'[p] = "user"

StateMoves ==
  \/ state' = state /\ (state = "completed" => UNCHANGED dest)
  \/ state \in OpenStates /\ state' \in OpenStates
  \/ Complete
  \/ state \in OpenStates /\ state' = "rolled_back" /\ UNCHANGED <<dest, backup>>

Move == UNCHANGED user /\ OwnRemains /\ StateMoves

LEMMA ApplyMoves ==
  ASSUME TypeInv, LandingInv, Apply
  PROVE  Move
<1> USE DEF TypeInv, TypeOK, Placed, LandingInv, Applying, Undoing, Recoveries, files, manifest,
        user, Move, OwnRemains, StateMoves, OpenStates
<1>1. CASE Stage
  BY <1>1 DEF Stage
<1>2. CASE WriteManifest
  BY <1>2 DEF WriteManifest
<1>3. CASE StageFails
  BY <1>3 DEF StageFails
<1>4. CASE SkipDone
  BY <1>4 DEF SkipDone
<1>5. CASE CheckPath
  BY <1>5 DEF CheckPath
<1>6. CASE Drifted
  BY <1>6 DEF Drifted
<1>7. CASE BackupPath
  BY <1>7 DEF BackupPath, BackUp, AtHand
<1>8. CASE BackupGone
  BY <1>8 DEF BackupGone
<1>9. CASE MarkBackup
  BY <1>9 DEF MarkBackup, Mark
<1>10. CASE Install
  BY <1>10 DEF Install, AtHand, Replaceable
<1>11. CASE MarkInstalled
  BY <1>11 DEF MarkInstalled, Mark
<1>12. CASE Complete
  BY <1>12 DEF Complete, Finish
<1>13. CASE CleanEnds
  BY <1>13 DEF CleanEnds
<1>14. CASE ApplyFails
  BY <1>14 DEF ApplyFails
<1>15. ASSUME NEW p \in Paths, Clean(p) PROVE Move
  BY <1>15 DEF Clean, Discard, Untemp
<1> QED BY <1>1, <1>2, <1>3, <1>4, <1>5, <1>6, <1>7, <1>8, <1>9, <1>10, <1>11, <1>12, <1>13,
       <1>14, <1>15 DEF Apply

LEMMA RollbackMoves ==
  ASSUME TypeInv, LandingInv, Rollback
  PROVE  Move
<1> USE DEF TypeInv, TypeOK, Placed, LandingInv, Applying, Undoing, Recoveries, files, manifest,
        user, Move, OwnRemains, StateMoves, OpenStates
<1>1. CASE UndoSkip
  BY <1>1 DEF UndoSkip
<1>2. CASE UndoPath
  BY <1>2 DEF UndoPath, PutBack
<1>3. CASE UndoInstalled
  BY <1>3 DEF UndoInstalled, Remove, Foreign, Result
<1>4. CASE Restore
  BY <1>4 DEF Restore, PutBack, AtHand, Replaceable
<1>5. CASE MarkUndone
  BY <1>5 DEF MarkUndone, Mark
<1>6. CASE UndoBlocked
  BY <1>6 DEF UndoBlocked
<1>7. CASE UndoDone
  BY <1>7 DEF UndoDone, Finish
<1>8. CASE UndoFails
  BY <1>8 DEF UndoFails
<1>9. CASE GiveUp
  BY <1>9 DEF GiveUp, Finish
<1>10. ASSUME NEW p \in Paths, UndoTemp(p) PROVE Move
  BY <1>10 DEF UndoTemp, Untemp
<1> QED BY <1>1, <1>2, <1>3, <1>4, <1>5, <1>6, <1>7, <1>8, <1>9, <1>10 DEF Rollback

LEMMA RecoveryMoves ==
  ASSUME TypeInv, LandingInv, Recovery
  PROVE  Move
<1> USE DEF TypeInv, TypeOK, Placed, LandingInv, Applying, Undoing, Recoveries, files, manifest,
        user, Move, OwnRemains, StateMoves, OpenStates
<1>1. CASE Recover
  BY <1>1 DEF Recover
<1>2. CASE RecRename
  BY <1>2 DEF RecRename, PutBack, AtHand, Replaceable
<1>3. CASE RecMark
  BY <1>3 DEF RecMark, Mark
<1>4. CASE RecFails
  BY <1>4 DEF RecFails
<1>5. CASE RecEnds
  BY <1>5 DEF RecEnds, Finish
<1>6. ASSUME NEW p \in Paths, RecRestore(p) PROVE Move
  BY <1>6 DEF RecRestore, PutBack, Recovering, RestorableAbsent
<1>7. ASSUME NEW p \in Paths, RecUninstall(p) PROVE Move
  BY <1>7 DEF RecUninstall, Remove, Recovering, OursInstalled
<1>8. ASSUME NEW p \in Paths, RecClean(p) PROVE Move
  BY <1>8 DEF RecClean, Discard, Untemp, Remove, Recovering, OwnAddition
<1>9. ASSUME NEW p \in Paths, RecPreserve(p) PROVE Move
  BY <1>9 DEF RecPreserve, Recovering
<1>10. ASSUME NEW p \in Paths, RecSkip(p) PROVE Move
  BY <1>10 DEF RecSkip, Recovering
<1>11. ASSUME NEW p \in Paths, RecTemp(p) PROVE Move
  BY <1>11 DEF RecTemp, Untemp
<1>12. ASSUME NEW p \in Paths, CleanTerminal(p) PROVE Move
  BY <1>12 DEF CleanTerminal, Discard, Untemp
<1> QED BY <1>1, <1>2, <1>3, <1>4, <1>5, <1>6, <1>7, <1>8, <1>9, <1>10, <1>11, <1>12 DEF Recovery

(* An open or undone landing would leave what was there before it. *)
UntouchedStands == state # "completed" => \A p \in Paths \ touched : Surviving[p] = Original[p]

LEMMA UntouchedSurvive == TypeInv /\ LandingInv => UntouchedStands
<1> SUFFICES ASSUME TypeInv, LandingInv, state # "completed", NEW p \in Paths \ touched
             PROVE  Surviving[p] = Original[p]
  BY DEF UntouchedStands
<1>1. PathKept(p) /\ p \notin touched /\ p \in Paths
  BY DEF LandingInv, PathsKept
<1>2. CASE Op[p] = "add"
  <2>1. backup[p] = "none" /\ dest[p] \in {"none", "result"}
    BY <1>1, <1>2 DEF PathKept, Original, Result
  <2> QED BY <1>1, <1>2, <2>1 DEF Surviving, Original
<1>3. CASE Op[p] # "add"
  <2>1. backup[p] \in {"none", "base"} /\ dest[p] # "user" /\ "base" \in {dest[p], backup[p]}
    BY <1>1, <1>3 DEF TypeInv, TypeOK, PathKept, Original, Result
  <2> QED BY <1>1, <1>3, <2>1 DEF Surviving, Original
<1> QED BY <1>2, <1>3

LEMMA SurvivingType ==
  ASSUME TypeInv
  PROVE  Surviving \in [Paths -> Contents]
BY DEF TypeInv, TypeOK, Surviving, Contents

LEMMA MoveKeepsOwn ==
  ASSUME TypeInv, LandingInv, Move
  PROVE  Contract!OwnStays
<1> SUFFICES ASSUME NEW p \in Paths \ raced, Surviving[p] = "user" PROVE Surviving'[p] = "user"
  BY DEF Contract!OwnStays
<1>1. PathKept(p)
  BY DEF LandingInv, PathsKept
<1>2. dest[p] = "user"
  BY <1>1 DEF Surviving, PathKept
<1>3. dest'[p] = "user"
  BY <1>2 DEF Move, OwnRemains
<1> QED BY <1>3 DEF Surviving

(* Every step of the program is one of the contract. *)
LEMMA MoveImplements ==
  ASSUME TypeInv, LandingInv, TypeInv', LandingInv', Move
  PROVE  Contract!ContractNext \/ UNCHANGED Contract!contractVars
<1>1. Contract!OwnStays /\ UNCHANGED <<touched, raced>>
  BY MoveKeepsOwn DEF Move, user
<1>2. Surviving' \in [Paths -> Contents]
  BY DEF TypeInv, TypeOK, Surviving, Contents
<1>3. UntouchedStands /\ UntouchedStands'
  BY UntouchedSurvive, PTL
<1>4. /\ state # "completed" => \A p \in Paths \ touched : Surviving[p] = Original[p]
      /\ state' # "completed" => \A p \in Paths \ touched : Surviving'[p] = Original[p]
  BY <1>1, <1>3 DEF UntouchedStands
<1>5. CASE state' = state /\ state = "completed"
  <2>1. \A p \in Paths : Surviving[p] = dest[p] /\ Surviving'[p] = dest'[p]
    BY <1>5 DEF Surviving
  <2>2. UNCHANGED dest
    BY <1>5 DEF Move, StateMoves, OpenStates, Complete, files
  <2>3. UNCHANGED Outcome
    BY <1>5 DEF Outcome
  <2> QED BY <1>1, <1>2, <2>1, <2>2, <2>3 DEF Contract!ContractNext, Contract!Meddle
<1>6. CASE state # "completed" /\ state' # "completed" /\ UNCHANGED Outcome
  BY <1>1, <1>2, <1>4, <1>6 DEF Contract!ContractNext, Contract!Meddle
<1>7. CASE Complete
  <2>1. Outcome = "open" /\ Outcome' = "landed"
    BY <1>7 DEF Complete, Finish, Outcome, TypeInv, Placed, Applying
  <2>2. \A p \in Paths \ touched : Surviving'[p] = Result[p]
    <3>1. \A p \in Paths \ touched : dest[p] = Result[p]
      BY <1>7, Bounds DEF Complete, LandingInv, Applied, Applying, Paths
    <3>2. UNCHANGED dest /\ state' = "completed"
      BY <1>7 DEF Complete, Finish, files
    <3> QED BY <3>1, <3>2 DEF Surviving
  <2> QED BY <1>1, <1>2, <2>1, <2>2 DEF Contract!ContractNext, Contract!Land
<1>8. CASE state \in OpenStates /\ state' = "rolled_back" /\ UNCHANGED <<dest, backup>>
  <2>1. Outcome = "open" /\ Outcome' = "undone"
    BY <1>8 DEF Outcome, OpenStates
  <2>2. UNCHANGED Surviving
    BY <1>8 DEF Surviving, OpenStates
  <2> QED BY <1>1, <2>1, <2>2 DEF Contract!ContractNext, Contract!Undo
<1>9. CASE state \in OpenStates /\ state' \in OpenStates
  BY <1>6, <1>9 DEF OpenStates, Outcome
<1>10. CASE state' = state /\ state # "completed"
  BY <1>6, <1>10 DEF Outcome
<1> QED BY <1>5, <1>7, <1>8, <1>9, <1>10 DEF Move, StateMoves

LEMMA EditImplements ==
  ASSUME TypeInv, TypeInv', NEW p \in Paths, NEW c \in Contents, Edit(p, c)
  PROVE  Contract!Edit(p)
<1>1. touched' = touched \union {p} /\ raced' \in {raced, raced \union {p}}
  BY DEF Edit
<1>2. UNCHANGED Outcome
  BY DEF Edit, manifest, Outcome
<1>3. Surviving' \in [Paths -> Contents] /\ Surviving \in [Paths -> Contents]
  BY SurvivingType DEF TypeInv, TypeOK, Surviving, Contents
<1>4. \A q \in Paths \ {p} : Surviving'[q] = Surviving[q]
  BY DEF Edit, manifest, Surviving, TypeInv, TypeOK
<1>5. Surviving' = [Surviving EXCEPT ![p] = Surviving'[p]]
  BY <1>3, <1>4
<1>6. Surviving'[p] \in Contents
  BY <1>3
<1> QED BY <1>1, <1>2, <1>5, <1>6 DEF Contract!Edit

(* A landing of any paths is one step of the source tree, whatever fails,  *)
(* crashes or is edited meanwhile.                                         *)
THEOREM Implements == Spec => ImplementsContract
<1>1. Init => Contract!ContractInit
  <2>1. SUFFICES ASSUME Init PROVE Contract!ContractInit
    OBVIOUS
  <2>2. \A p \in Paths : Surviving[p] = Original[p]
    BY <2>1, Bounds DEF Init, Surviving, Original
  <2>3. Surviving = Original
    BY <2>2 DEF Surviving, Original
  <2> QED BY <2>1, <2>3 DEF Init, Contract!ContractInit, Outcome
<1>2. TypeInv /\ LandingInv /\ TypeInv' /\ LandingInv' /\ [Next]_vars
        => [Contract!ContractNext]_(Contract!contractVars)
  <2>1. SUFFICES ASSUME TypeInv, LandingInv, TypeInv', LandingInv', [Next]_vars
                 PROVE  Contract!ContractNext \/ UNCHANGED Contract!contractVars
    OBVIOUS
  <2>2. CASE UNCHANGED vars
    BY <2>2 DEF vars, files, manifest, user, Contract!contractVars, Surviving, Outcome
  <2>3. CASE Crash
    <3>1. Move
      BY <2>3 DEF Crash, Move, OwnRemains, StateMoves, files, manifest, user
    <3> QED BY <2>1, <3>1, MoveImplements
  <2>4. CASE Apply \/ Rollback \/ Recovery
    BY <2>1, <2>4, ApplyMoves, RollbackMoves, RecoveryMoves, MoveImplements
  <2>5. ASSUME NEW p \in Paths, NEW c \in Contents, Edit(p, c)
        PROVE  Contract!ContractNext
    BY <2>1, <2>5, EditImplements DEF Contract!ContractNext
  <2> QED BY <2>1, <2>2, <2>3, <2>4, <2>5 DEF Next
<1> QED BY <1>1, <1>2, InvCorrect, PTL DEF Spec, ImplementsContract, Contract!ContractSpec

(***************************************************************************)
(* A transaction recorded as rolled back has restored every path.          *)
(***************************************************************************)
Restored(p) == dest[p] = Original[p] /\ backup[p] = "none"

(* What recovery reads of a path no one has touched: dest, temp and phase. *)
PathTold(p) ==
  /\ dest[p] = "base" => backup[p] = "none"
  /\ p \in wasAbsent => Op[p] = "add"
  /\ phase[p] = "backup_created" => Op[p] # "add"
  /\ state # "absent" /\ Op[p] = "add" => p \in wasAbsent
  /\ state # "completed" /\ dest[p] = "result" => p \notin temps
  /\ state # "completed" /\ dest[p] = "result" /\ Op[p] = "modify" =>
       phase[p] \in {"backup_created", "replacement_installed"}
  /\ state = "absent" => Restored(p)
  /\ state = "rolled_back" /\ LinkTo[p] = 0 => Restored(p)

(* The path a loop is at, and those behind it. *)
PathBehind(p) ==
  /\ pc \in Applying \union Undoing /\ p \notin journal => Restored(p)
  /\ pc \in {"undo", "restore", "markUndone"} /\ p > at => Restored(p)
  /\ pc \in Recoveries /\ ~manual /\ LinkTo[p] = 0 /\ p > at => Restored(p)
  /\ pc = "markUndone" /\ p = at => Restored(p)
  /\ pc = "recMark" /\ p = at => dest[p] # "result" /\ (LinkTo[p] = 0 => Restored(p))
  /\ pc \in {"markBackup", "install", "markInstalled", "restore"} /\ p = at => p \in journal
  /\ pc = "install" /\ p = at /\ Op[p] = "modify" => phase[p] = "backup_created"
  /\ pc = "markInstalled" /\ p = at => dest[p] = "result"

RestoreInv == \A p \in Paths \ touched : PathTold(p) /\ PathBehind(p)

LEMMA RestoreInit == Init => RestoreInv
<1> SUFFICES ASSUME Init, NEW p \in Paths PROVE PathTold(p) /\ PathBehind(p)
  BY DEF RestoreInv
<1>1. PathTold(p)
  BY Bounds DEF Init, PathTold, Restored, Original
<1>2. PathBehind(p)
  BY Bounds DEF Init, PathBehind, Applying, Undoing, Recoveries
<1> QED BY <1>1, <1>2

LEMMA ApplyTells ==
  ASSUME TypeInv, LandingInv, RestoreInv, Apply, NEW q \in Paths \ touched'
  PROVE  PathTold(q)' /\ PathBehind(q)'
<1> USE Bounds DEF TypeInv, TypeOK, Placed, Applying, Undoing, Recoveries, Go, GoAt, files,
        manifest, user, limits, process, Paths, LandingInv, AtHand, Replaceable, BackedUp,
        Restored, Original, Result, PathKept
<1>0. q \in Paths /\ q \notin touched /\ PathKept(q) /\ PathTold(q) /\ PathBehind(q)
  BY ApplyMoves DEF Move, PathsKept, RestoreInv
<1>1. CASE Stage
  <2>1. PathTold(q)'
    BY <1>1, <1>0 DEF Stage, PathTold, PathBehind
  <2>2. PathBehind(q)'
    BY <1>1, <1>0 DEF Stage, PathTold, PathBehind
  <2> QED BY <2>1, <2>2
<1>2. CASE WriteManifest
  <2>1. PathTold(q)'
    BY <1>2, <1>0 DEF WriteManifest, PathTold, PathBehind
  <2>2. PathBehind(q)'
    BY <1>2, <1>0 DEF WriteManifest, PathTold, PathBehind
  <2> QED BY <2>1, <2>2
<1>3. CASE StageFails
  <2>1. PathTold(q)'
    BY <1>3, <1>0 DEF StageFails, PathTold, PathBehind
  <2>2. PathBehind(q)'
    BY <1>3, <1>0 DEF StageFails, PathTold, PathBehind
  <2> QED BY <2>1, <2>2
<1>4. CASE SkipDone
  <2>1. PathTold(q)'
    BY <1>4, <1>0 DEF SkipDone, PathTold, PathBehind
  <2>2. PathBehind(q)'
    BY <1>4, <1>0 DEF SkipDone, PathTold, PathBehind
  <2> QED BY <2>1, <2>2
<1>5. CASE CheckPath
  <2>1. PathTold(q)'
    BY <1>5, <1>0 DEF CheckPath, PathTold, PathBehind
  <2>2. PathBehind(q)'
    BY <1>5, <1>0 DEF CheckPath, PathTold, PathBehind
  <2> QED BY <2>1, <2>2
<1>6. CASE Drifted
  <2>1. PathTold(q)'
    BY <1>6, <1>0 DEF Drifted, PathTold, PathBehind
  <2>2. PathBehind(q)'
    BY <1>6, <1>0 DEF Drifted, PathTold, PathBehind
  <2> QED BY <2>1, <2>2
<1>7. CASE BackupPath
  <2>1. PathTold(q)'
    BY <1>7, <1>0 DEF BackupPath, BackUp, PathTold, PathBehind
  <2>2. PathBehind(q)'
    BY <1>7, <1>0 DEF BackupPath, BackUp, PathTold, PathBehind
  <2> QED BY <2>1, <2>2
<1>8. CASE BackupGone
  <2>1. PathTold(q)'
    BY <1>8, <1>0 DEF BackupGone, PathTold, PathBehind
  <2>2. PathBehind(q)'
    BY <1>8, <1>0 DEF BackupGone, PathTold, PathBehind
  <2> QED BY <2>1, <2>2
<1>9. CASE MarkBackup
  <2>1. PathTold(q)'
    BY <1>9, <1>0 DEF MarkBackup, Mark, PathTold, PathBehind
  <2>2. PathBehind(q)'
    BY <1>9, <1>0 DEF MarkBackup, Mark, PathTold, PathBehind
  <2> QED BY <2>1, <2>2
<1>10. CASE Install
  <2>1. PathTold(q)'
    BY <1>10, <1>0 DEF Install, PathTold, PathBehind
  <2>2. PathBehind(q)'
    BY <1>10, <1>0 DEF Install, PathTold, PathBehind
  <2> QED BY <2>1, <2>2
<1>11. CASE MarkInstalled
  <2>1. PathTold(q)'
    BY <1>11, <1>0 DEF MarkInstalled, Mark, PathTold, PathBehind
  <2>2. PathBehind(q)'
    BY <1>11, <1>0 DEF MarkInstalled, Mark, PathTold, PathBehind
  <2> QED BY <2>1, <2>2
<1>12. CASE Complete
  <2>1. PathTold(q)'
    BY <1>12, <1>0 DEF Complete, Finish, PathTold, PathBehind
  <2>2. PathBehind(q)'
    BY <1>12, <1>0 DEF Complete, Finish, PathTold, PathBehind
  <2> QED BY <2>1, <2>2
<1>13. CASE CleanEnds
  <2>1. PathTold(q)'
    BY <1>13, <1>0 DEF CleanEnds, PathTold, PathBehind
  <2>2. PathBehind(q)'
    BY <1>13, <1>0 DEF CleanEnds, PathTold, PathBehind
  <2> QED BY <2>1, <2>2
<1>14. CASE ApplyFails
  <2>1. PathTold(q)'
    BY <1>14, <1>0 DEF ApplyFails, PathTold, PathBehind
  <2>2. PathBehind(q)'
    BY <1>14, <1>0 DEF ApplyFails, PathTold, PathBehind
  <2> QED BY <2>1, <2>2
<1>15. ASSUME NEW p \in Paths, Clean(p) PROVE PathTold(q)' /\ PathBehind(q)'
  <2>1. PathTold(q)'
    BY <1>15, <1>0 DEF Clean, Discard, Untemp, PathTold, PathBehind
  <2>2. PathBehind(q)'
    BY <1>15, <1>0 DEF Clean, Discard, Untemp, PathTold, PathBehind
  <2> QED BY <2>1, <2>2
<1> QED BY <1>1, <1>2, <1>3, <1>4, <1>5, <1>6, <1>7, <1>8, <1>9, <1>10, <1>11, <1>12, <1>13,
       <1>14, <1>15 DEF Apply

LEMMA RollbackTells ==
  ASSUME TypeInv, LandingInv, RestoreInv, Rollback, NEW q \in Paths \ touched'
  PROVE  PathTold(q)' /\ PathBehind(q)'
<1> USE Bounds DEF TypeInv, TypeOK, Placed, Applying, Undoing, Recoveries, Go, GoAt, files,
        manifest, user, limits, process, Paths, LandingInv, AtHand, Replaceable, BackedUp,
        Restored, Original, Result, PathKept
<1>0. q \in Paths /\ q \notin touched /\ PathKept(q) /\ PathTold(q) /\ PathBehind(q)
  BY RollbackMoves DEF Move, PathsKept, RestoreInv
<1>1. CASE UndoSkip
  <2>1. PathTold(q)'
    BY <1>1, <1>0 DEF UndoSkip, PathTold, PathBehind
  <2>2. PathBehind(q)'
    BY <1>1, <1>0 DEF UndoSkip, PathTold, PathBehind
  <2> QED BY <2>1, <2>2
<1>2. CASE UndoPath
  <2>1. PathTold(q)'
    BY <1>2, <1>0 DEF UndoPath, PutBack, PathTold, PathBehind
  <2>2. PathBehind(q)'
    BY <1>2, <1>0 DEF UndoPath, PutBack, PathTold, PathBehind
  <2> QED BY <2>1, <2>2
<1>3. CASE UndoInstalled
  <2>1. PathTold(q)'
    BY <1>3, <1>0 DEF UndoInstalled, Remove, Foreign, Result, PathTold, PathBehind
  <2>2. PathBehind(q)'
    BY <1>3, <1>0 DEF UndoInstalled, Remove, Foreign, Result, PathTold, PathBehind
  <2> QED BY <2>1, <2>2
<1>4. CASE Restore
  <2>1. PathTold(q)'
    BY <1>4, <1>0 DEF Restore, PutBack, PathTold, PathBehind
  <2>2. PathBehind(q)'
    BY <1>4, <1>0 DEF Restore, PutBack, PathTold, PathBehind
  <2> QED BY <2>1, <2>2
<1>5. CASE MarkUndone
  <2>1. PathTold(q)'
    BY <1>5, <1>0 DEF MarkUndone, Mark, PathTold, PathBehind
  <2>2. PathBehind(q)'
    BY <1>5, <1>0 DEF MarkUndone, Mark, PathTold, PathBehind
  <2> QED BY <2>1, <2>2
<1>6. CASE UndoBlocked
  <2>1. PathTold(q)'
    BY <1>6, <1>0 DEF UndoBlocked, PathTold, PathBehind
  <2>2. PathBehind(q)'
    BY <1>6, <1>0 DEF UndoBlocked, PathTold, PathBehind
  <2> QED BY <2>1, <2>2
<1>7. CASE UndoDone
  <2>1. PathTold(q)'
    BY <1>7, <1>0 DEF UndoDone, Finish, PathTold, PathBehind
  <2>2. PathBehind(q)'
    BY <1>7, <1>0 DEF UndoDone, Finish, PathTold, PathBehind
  <2> QED BY <2>1, <2>2
<1>8. CASE UndoFails
  <2>1. PathTold(q)'
    BY <1>8, <1>0 DEF UndoFails, PathTold, PathBehind
  <2>2. PathBehind(q)'
    BY <1>8, <1>0 DEF UndoFails, PathTold, PathBehind
  <2> QED BY <2>1, <2>2
<1>9. CASE GiveUp
  <2>1. PathTold(q)'
    BY <1>9, <1>0 DEF GiveUp, Finish, PathTold, PathBehind
  <2>2. PathBehind(q)'
    BY <1>9, <1>0 DEF GiveUp, Finish, PathTold, PathBehind
  <2> QED BY <2>1, <2>2
<1>10. ASSUME NEW p \in Paths, UndoTemp(p) PROVE PathTold(q)' /\ PathBehind(q)'
  <2>1. PathTold(q)'
    BY <1>10, <1>0 DEF UndoTemp, Untemp, PathTold, PathBehind
  <2>2. PathBehind(q)'
    BY <1>10, <1>0 DEF UndoTemp, Untemp, PathTold, PathBehind
  <2> QED BY <2>1, <2>2
<1> QED BY <1>1, <1>2, <1>3, <1>4, <1>5, <1>6, <1>7, <1>8, <1>9, <1>10 DEF Rollback

LEMMA RecoveryTells ==
  ASSUME TypeInv, LandingInv, RestoreInv, Recovery, NEW q \in Paths \ touched'
  PROVE  PathTold(q)' /\ PathBehind(q)'
<1> USE Bounds DEF TypeInv, TypeOK, Placed, Applying, Undoing, Recoveries, Go, GoAt, files,
        manifest, user, limits, process, Paths, LandingInv, AtHand, Replaceable, BackedUp,
        Restored, Original, Result, PathKept
<1>0. q \in Paths /\ q \notin touched /\ PathKept(q) /\ PathTold(q) /\ PathBehind(q)
  BY RecoveryMoves DEF Move, PathsKept, RestoreInv
<1>1. CASE Recover
  <2>1. PathTold(q)'
    BY <1>1, <1>0 DEF Recover, PathTold, PathBehind
  <2>2. PathBehind(q)'
    BY <1>1, <1>0 DEF Recover, PathTold, PathBehind
  <2> QED BY <2>1, <2>2
<1>2. CASE RecRename
  <2>1. PathTold(q)'
    BY <1>2, <1>0 DEF RecRename, PutBack, PathTold, PathBehind
  <2>2. PathBehind(q)'
    BY <1>2, <1>0 DEF RecRename, PutBack, PathTold, PathBehind
  <2> QED BY <2>1, <2>2
<1>3. CASE RecMark
  <2>1. PathTold(q)'
    BY <1>3, <1>0 DEF RecMark, Mark, PathTold, PathBehind
  <2>2. PathBehind(q)'
    BY <1>3, <1>0 DEF RecMark, Mark, PathTold, PathBehind
  <2> QED BY <2>1, <2>2
<1>4. CASE RecFails
  <2>1. PathTold(q)'
    BY <1>4, <1>0 DEF RecFails, PathTold, PathBehind
  <2>2. PathBehind(q)'
    BY <1>4, <1>0 DEF RecFails, PathTold, PathBehind
  <2> QED BY <2>1, <2>2
<1>5. CASE RecEnds
  <2>1. PathTold(q)'
    BY <1>5, <1>0 DEF RecEnds, Finish, PathTold, PathBehind
  <2>2. PathBehind(q)'
    BY <1>5, <1>0 DEF RecEnds, Finish, PathTold, PathBehind
  <2> QED BY <2>1, <2>2
<1>6. ASSUME NEW p \in Paths, RecRestore(p) PROVE PathTold(q)' /\ PathBehind(q)'
  <2>1. PathTold(q)'
    BY <1>6, <1>0 DEF RecRestore, PutBack, Recovering, RestorableAbsent, BackupSeen, PathTold,
       PathBehind
  <2>2. PathBehind(q)'
    BY <1>6, <1>0 DEF RecRestore, PutBack, Recovering, RestorableAbsent, BackupSeen, PathTold,
       PathBehind
  <2> QED BY <2>1, <2>2
<1>7. ASSUME NEW p \in Paths, RecUninstall(p) PROVE PathTold(q)' /\ PathBehind(q)'
  <2>1. PathTold(q)'
    BY <1>7, <1>0 DEF RecUninstall, Remove, Recovering, OursInstalled, BackupSeen, PathTold,
       PathBehind
  <2>2. PathBehind(q)'
    BY <1>7, <1>0 DEF RecUninstall, Remove, Recovering, OursInstalled, BackupSeen, PathTold,
       PathBehind
  <2> QED BY <2>1, <2>2
<1>8. ASSUME NEW p \in Paths, RecClean(p) PROVE PathTold(q)' /\ PathBehind(q)'
  <2>1. PathTold(q)'
    BY <1>8, <1>0 DEF RecClean, Discard, Untemp, Remove, Recovering, OwnAddition, StaleBackup,
       Unstarted, RestorableAbsent, BackupSeen, PathTold, PathBehind
  <2>2. PathBehind(q)'
    BY <1>8, <1>0 DEF RecClean, Discard, Untemp, Remove, Recovering, OwnAddition, StaleBackup,
       Unstarted, RestorableAbsent, BackupSeen, PathTold, PathBehind
  <2> QED BY <2>1, <2>2
<1>9. ASSUME NEW p \in Paths, RecPreserve(p) PROVE PathTold(q)' /\ PathBehind(q)'
  <2>1. PathTold(q)'
    BY <1>9, <1>0 DEF RecPreserve, Recovering, PathTold, PathBehind
  <2>2. PathBehind(q)'
    BY <1>9, <1>0 DEF RecPreserve, Recovering, PathTold, PathBehind
  <2> QED BY <2>1, <2>2
<1>10. ASSUME NEW p \in Paths, RecSkip(p) PROVE PathTold(q)' /\ PathBehind(q)'
  <2>1. PathTold(q)'
    BY <1>10, <1>0 DEF RecSkip, Recovering, RestorableAbsent, OursInstalled, StaleBackup,
       Conflicting, Unstarted, OwnAddition, BackupSeen, Result, PathTold, PathBehind
  <2>2. CASE q = p /\ LinkTo[q] = 0
    <3>1. ~RestorableAbsent(q) /\ ~OursInstalled(q) /\ ~(Unstarted(q) /\ q \in temps) /\ ~OwnAddition(q)
      BY <1>10, <2>2 DEF RecSkip
    <3>2. state # "completed" /\ state # "absent"
      BY <1>10 DEF RecSkip, Recovering
    <3>3. Restored(q)
      <4>1. CASE Op[q] = "add"
        <5>1. dest[q] # "result"
          BY <1>0, <3>1, <3>2, <4>1 DEF PathTold, OursInstalled, Unstarted, OwnAddition,
             RestorableAbsent, BackupSeen
        <5> QED BY <1>0, <4>1, <5>1
      <4>2. CASE Op[q] # "add"
        <5>1. backup[q] # "none" => BackupSeen(q)
          BY <1>0, <2>2, <4>2 DEF PathTold, BackupSeen
        <5>2. dest[q] # "none"
          BY <1>0, <3>1, <3>2, <4>2, <5>1 DEF RestorableAbsent
        <5>3. dest[q] # "result"
          BY <1>0, <3>1, <3>2, <4>2, <5>1 DEF PathTold, OursInstalled
        <5>4. dest[q] = "base"
          BY <1>0, <4>2, <5>2, <5>3
        <5> QED BY <1>0, <4>2, <5>4 DEF PathTold
      <4> QED BY <4>1, <4>2
    <3> QED BY <1>0, <1>10, <2>1, <2>2, <3>3 DEF RecSkip, Recovering, PathBehind
  <2>3. CASE q # p \/ LinkTo[q] # 0
    BY <1>0, <1>10, <2>1, <2>3 DEF RecSkip, Recovering, PathBehind
  <2> QED BY <2>1, <2>2, <2>3
<1>11. ASSUME NEW p \in Paths, RecTemp(p) PROVE PathTold(q)' /\ PathBehind(q)'
  <2>1. PathTold(q)'
    BY <1>11, <1>0 DEF RecTemp, Untemp, PathTold, PathBehind
  <2>2. PathBehind(q)'
    BY <1>11, <1>0 DEF RecTemp, Untemp, PathTold, PathBehind
  <2> QED BY <2>1, <2>2
<1>12. ASSUME NEW p \in Paths, CleanTerminal(p) PROVE PathTold(q)' /\ PathBehind(q)'
  <2>1. PathTold(q)'
    BY <1>12, <1>0 DEF CleanTerminal, Discard, Untemp, PathTold, PathBehind
  <2>2. PathBehind(q)'
    BY <1>12, <1>0 DEF CleanTerminal, Discard, Untemp, PathTold, PathBehind
  <2> QED BY <2>1, <2>2
<1> QED BY <1>1, <1>2, <1>3, <1>4, <1>5, <1>6, <1>7, <1>8, <1>9, <1>10, <1>11, <1>12 DEF Recovery

LEMMA RestoreStep == TypeInv /\ LandingInv /\ RestoreInv /\ [Next]_vars => RestoreInv'
<1> SUFFICES ASSUME TypeInv, LandingInv, RestoreInv, [Next]_vars, NEW q \in Paths \ touched'
             PROVE  PathTold(q)' /\ PathBehind(q)'
  BY DEF RestoreInv
<1>1. CASE UNCHANGED vars
  <2>1. PathTold(q) /\ PathBehind(q)
    BY <1>1 DEF RestoreInv, vars, user
  <2> QED BY <1>1, <2>1 DEF vars, files, manifest, process, user, PathTold, PathBehind, Restored
<1>2. CASE Crash
  <2>1. PathTold(q) /\ PathBehind(q)
    BY <1>2 DEF Crash, RestoreInv, user
  <2> QED BY <1>2, <2>1 DEF Crash, files, manifest, PathTold, PathBehind, Restored, Applying,
          Undoing, Recoveries
<1>3. ASSUME NEW p \in Paths, NEW c \in Contents, Edit(p, c) PROVE PathTold(q)' /\ PathBehind(q)'
  <2>1. q # p /\ PathTold(q) /\ PathBehind(q) /\ UNCHANGED <<backup, temps, manifest, process>>
    BY <1>3 DEF Edit, RestoreInv
  <2>2. dest'[q] = dest[q]
    BY <1>3, <2>1 DEF Edit, TypeInv, TypeOK
  <2> QED BY <2>1, <2>2 DEF manifest, process, PathTold, PathBehind, Restored
<1> QED BY <1>1, <1>2, <1>3, ApplyTells, RollbackTells, RecoveryTells DEF Next

(* A transaction recorded as rolled back, by the process that failed or by *)
(* a later recovery, has put every file no one touched back in its place.  *)
THEOREM UndoneAlwaysRestored == Spec => []UndoneIsRestored
<1>1. RestoreInv => UndoneIsRestored
  BY DEF RestoreInv, PathTold, Restored, UndoneIsRestored
<1>2. Spec => []RestoreInv
  BY RestoreInit, RestoreStep, InvCorrect, PTL DEF Spec
<1> QED BY <1>1, <1>2, PTL

(***************************************************************************)
(* The user is called in only for an edit, a failure or a second crash.    *)
(***************************************************************************)
Calm == touched = {} /\ faults = 0 /\ crashes <= 1

(* The loop of a landing enters each path in the journal once. *)
JournalPassed ==
  /\ pc \in {"idle", "staged"} \union Recoveries => journal = {}
  /\ pc \in Applying => \A p \in journal : p < at \/ (p = at /\ pc # "check")

(* Nothing has been rolled back, no path was left to the user, and what is *)
(* marked as installed is there until the recovery after the one crash     *)
(* removes it.                                                             *)
Smooth ==
  /\ state # "recovery_required" /\ ~manual /\ pc \notin Undoing
  /\ pc \in Recoveries \/ (pc = "idle" /\ state = "in_progress") => crashes > 0
  /\ \A p \in Paths : phase[p] = "replacement_installed" =>
       dest[p] = "result" \/ (pc \in {"recRename", "recMark"} /\ p = at)

CalmInv == JournalPassed /\ (Calm => Smooth)

LEMMA CalmInit == Init => CalmInv
BY Bounds DEF Init, CalmInv, JournalPassed, Smooth, Applying, Undoing, Recoveries

LEMMA CalmBack == TypeInv /\ [Next]_vars /\ Calm' => Calm
<1> SUFFICES ASSUME TypeInv, [Next]_vars, Calm' PROVE Calm
  OBVIOUS
<1>1. touched \subseteq touched'
  BY DEF Next, Apply, Rollback, Recovery, vars, user, Stage, WriteManifest, StageFails, SkipDone,
     CheckPath, Drifted, BackupPath, BackupGone, MarkBackup, Install, MarkInstalled, Complete,
     CleanEnds, ApplyFails, Clean, UndoSkip, UndoPath, UndoInstalled, Restore, MarkUndone,
     UndoBlocked, UndoDone, UndoFails, GiveUp, UndoTemp, Recover, RecRename, RecMark, RecFails,
     RecEnds, RecRestore, RecUninstall, RecClean, RecPreserve, RecSkip, RecTemp, CleanTerminal,
     Crash, Edit
<1>2. faults' = faults \/ faults' = faults + 1
  BY DEF Next, Apply, Rollback, Recovery, vars, limits, Stage, WriteManifest, StageFails, SkipDone,
     CheckPath, Drifted, BackupPath, BackupGone, MarkBackup, Install, MarkInstalled, Complete,
     CleanEnds, ApplyFails, Clean, UndoSkip, UndoPath, UndoInstalled, Restore, MarkUndone,
     UndoBlocked, UndoDone, UndoFails, GiveUp, UndoTemp, Recover, RecRename, RecMark, RecFails,
     RecEnds, RecRestore, RecUninstall, RecClean, RecPreserve, RecSkip, RecTemp, CleanTerminal,
     Crash, Edit
<1>3. crashes' = crashes \/ crashes' = crashes + 1
  BY DEF Next, Apply, Rollback, Recovery, vars, limits, Stage, WriteManifest, StageFails, SkipDone,
     CheckPath, Drifted, BackupPath, BackupGone, MarkBackup, Install, MarkInstalled, Complete,
     CleanEnds, ApplyFails, Clean, UndoSkip, UndoPath, UndoInstalled, Restore, MarkUndone,
     UndoBlocked, UndoDone, UndoFails, GiveUp, UndoTemp, Recover, RecRename, RecMark, RecFails,
     RecEnds, RecRestore, RecUninstall, RecClean, RecPreserve, RecSkip, RecTemp, CleanTerminal,
     Crash, Edit
<1>4. faults \in Nat /\ crashes \in Nat
  BY Bounds DEF TypeInv, TypeOK
<1> QED BY <1>1, <1>2, <1>3, <1>4 DEF Calm

LEMMA JournalStep == TypeInv /\ JournalPassed /\ [Next]_vars => JournalPassed'
<1> SUFFICES ASSUME TypeInv, JournalPassed, [Next]_vars PROVE JournalPassed'
  OBVIOUS
<1> USE Bounds DEF TypeInv, TypeOK, Placed, JournalPassed, Applying, Undoing, Recoveries, Go, GoAt,
        process, Paths
<1>1. CASE UNCHANGED vars
  BY <1>1 DEF vars
<1>2. CASE Apply
  <2>1. CASE Stage
    BY <2>1 DEF Stage
  <2>2. CASE WriteManifest
    BY <2>2 DEF WriteManifest
  <2>3. CASE SkipDone
    BY <2>3 DEF SkipDone
  <2>4. CASE CheckPath
    BY <2>4 DEF CheckPath
  <2>5. CASE BackupPath
    BY <2>5 DEF BackupPath
  <2>6. CASE MarkBackup
    <3>1. at \in Paths
      BY <2>6 DEF MarkBackup
    <3>2. \A p \in journal : p <= at
      BY <2>6 DEF MarkBackup
    <3>3. CASE Op[at] = "delete"
      <4>1. journal' = journal /\ pc' = "check" /\ at' = at + 1
        BY <2>6, <3>3 DEF MarkBackup
      <4> QED BY <3>1, <3>2, <4>1
    <3>4. CASE Op[at] # "delete"
      <4>1. journal' = journal /\ pc' = "install" /\ at' = at
        BY <2>6, <3>4 DEF MarkBackup
      <4> QED BY <3>1, <3>2, <4>1
    <3> QED BY <3>3, <3>4
  <2>7. CASE Install
    BY <2>7 DEF Install
  <2>8. CASE MarkInstalled
    <3>1. at \in Paths
      BY <2>8 DEF MarkInstalled
    <3> QED BY <2>8, <3>1 DEF MarkInstalled
  <2>9. CASE Complete \/ CleanEnds
    BY <2>9 DEF Complete, CleanEnds
  <2>10. CASE Drifted \/ BackupGone \/ ApplyFails \/ StageFails
    BY <2>10 DEF Drifted, BackupGone, ApplyFails, StageFails
  <2>11. ASSUME NEW p \in Paths, Clean(p) PROVE JournalPassed'
    BY <2>11 DEF Clean
  <2> QED BY <1>2, <2>1, <2>2, <2>3, <2>4, <2>5, <2>6, <2>7, <2>8, <2>9, <2>10, <2>11 DEF Apply
<1>3. CASE Rollback
  BY <1>3 DEF Rollback, UndoSkip, UndoPath, UndoInstalled, Restore, MarkUndone, UndoBlocked,
     UndoDone, UndoFails, GiveUp, UndoTemp
<1>4. CASE Recovery
  BY <1>4 DEF Recovery, Recovering, Recover, RecRename, RecMark, RecFails, RecEnds, RecRestore,
     RecUninstall, RecClean, RecPreserve, RecSkip, RecTemp, CleanTerminal
<1>5. CASE Crash
  BY <1>5 DEF Crash
<1>6. ASSUME NEW p \in Paths, NEW c \in Contents, Edit(p, c) PROVE JournalPassed'
  BY <1>6 DEF Edit
<1> QED BY <1>1, <1>2, <1>3, <1>4, <1>5, <1>6 DEF Next

LEMMA SmoothStep ==
  ASSUME TypeInv, LandingInv, RestoreInv, JournalPassed, Calm, Smooth, Next, Calm'
  PROVE  Smooth'
<1> USE Bounds DEF TypeInv, TypeOK, Placed, JournalPassed, Applying, Undoing, Recoveries, Go, GoAt,
        process, manifest, files, limits, user, Paths, Calm, Smooth
<1>1. CASE Apply
  <2>1. ~Drifted
    <3> SUFFICES ASSUME Drifted PROVE FALSE
      OBVIOUS
    <3>1. at \notin journal /\ at \in Paths \ touched
      BY DEF Drifted
    <3> QED BY <3>1 DEF Drifted, Untouched, RestoreInv, PathBehind, Restored
  <2>2. ~BackupGone
    BY DEF BackupGone, LandingInv, AtHand
  <2>3. ~ApplyFails
    BY DEF ApplyFails
  <2>4. CASE BackupPath
    BY <2>4 DEF BackupPath, BackUp, LandingInv, AtHand
  <2>5. CASE MarkInstalled
    BY <2>5 DEF MarkInstalled, Mark, LandingInv, AtHand
  <2>6. CASE MarkBackup
    BY <2>6 DEF MarkBackup, Mark
  <2>7. CASE Install
    BY <2>7 DEF Install
  <2>8. CASE Stage \/ WriteManifest \/ StageFails \/ SkipDone \/ CheckPath \/ Complete \/ CleanEnds
    BY <2>8 DEF Stage, WriteManifest, StageFails, SkipDone, CheckPath, Complete, Finish, CleanEnds
  <2>9. ASSUME NEW p \in Paths, Clean(p) PROVE Smooth'
    BY <2>9 DEF Clean, Discard, Untemp
  <2> QED BY <1>1, <2>1, <2>2, <2>3, <2>4, <2>5, <2>6, <2>7, <2>8, <2>9 DEF Apply
<1>2. CASE Rollback
  BY <1>2 DEF Rollback, UndoSkip, UndoPath, UndoInstalled, Restore, MarkUndone, UndoBlocked,
     UndoDone, UndoFails, GiveUp, UndoTemp
<1>3. CASE Recovery
  <2>1. ~RecFails
    BY DEF RecFails
  <2>2. CASE Recover
    BY <2>2 DEF Recover
  <2>3. CASE RecRename
    BY <2>3 DEF RecRename, PutBack
  <2>4. CASE RecMark
    BY <2>4 DEF RecMark, Mark
  <2>5. CASE RecEnds
    BY <2>5 DEF RecEnds, Finish
  <2>6. ASSUME NEW p \in Paths PROVE ~RecPreserve(p)
    <3> SUFFICES ASSUME RecPreserve(p) PROVE FALSE
      OBVIOUS
    <3>1. p \in Paths \ touched /\ dest[p] # "none" /\ Conflicting(p)
      BY DEF RecPreserve, Conflicting
    <3>2. dest[p] \in {Original[p], Result[p]}
      BY <3>1 DEF LandingInv, PathsKept, PathKept
    <3>3. phase[p] = "replacement_installed" => dest[p] = "result"
      BY DEF RecPreserve, Recovering
    <3> QED BY <3>1, <3>2, <3>3 DEF Conflicting, Original, Result
  <2>7. ASSUME NEW p \in Paths, RecRestore(p) PROVE Smooth'
    BY <2>7 DEF RecRestore, Recovering, PutBack
  <2>8. ASSUME NEW p \in Paths, RecUninstall(p) PROVE Smooth'
    BY <2>8 DEF RecUninstall, Recovering, Remove
  <2>9. ASSUME NEW p \in Paths, RecClean(p) PROVE Smooth'
    BY <2>9 DEF RecClean, Recovering, Discard, Untemp, Remove, OwnAddition, Unstarted
  <2>10. ASSUME NEW p \in Paths, RecSkip(p) \/ RecTemp(p) \/ CleanTerminal(p) PROVE Smooth'
    BY <2>10 DEF RecSkip, Recovering, RecTemp, CleanTerminal, Discard, Untemp
  <2> QED BY <1>3, <2>1, <2>2, <2>3, <2>4, <2>5, <2>6, <2>7, <2>8, <2>9, <2>10 DEF Recovery
<1>4. CASE Crash
  <2>1. crashes = 0
    BY <1>4 DEF Crash
  <2>2. pc \notin Recoveries
    BY <2>1
  <2> QED BY <1>4, <2>2 DEF Crash
<1>5. ASSUME NEW p \in Paths, NEW c \in Contents, Edit(p, c) PROVE FALSE
  BY <1>5 DEF Edit
<1> QED BY <1>1, <1>2, <1>3, <1>4, <1>5 DEF Next

LEMMA CalmStep == TypeInv /\ LandingInv /\ RestoreInv /\ CalmInv /\ [Next]_vars => CalmInv'
<1> SUFFICES ASSUME TypeInv, LandingInv, RestoreInv, CalmInv, [Next]_vars PROVE CalmInv'
  OBVIOUS
<1>1. JournalPassed'
  BY JournalStep DEF CalmInv
<1>2. ASSUME Calm' PROVE Smooth'
  <2>1. Calm /\ Smooth
    BY <1>2, CalmBack DEF CalmInv
  <2>2. CASE UNCHANGED vars
    BY <2>1, <2>2 DEF vars, files, manifest, process, limits, Smooth
  <2>3. CASE Next
    BY <1>2, <2>1, <2>3, SmoothStep DEF CalmInv
  <2> QED BY <2>2, <2>3
<1> QED BY <1>1, <1>2 DEF CalmInv

(* A manifest asks for the user only after an edit, a failing operation or *)
(* a second crash, for any number of paths.                                *)
THEOREM ManualAlwaysJustified == Spec => []ManualIsJustified
<1>1. TypeInv /\ CalmInv => ManualIsJustified
  BY Bounds DEF TypeInv, TypeOK, CalmInv, Calm, Smooth, ManualIsJustified
<1>2. Spec => []RestoreInv
  BY RestoreInit, RestoreStep, InvCorrect, PTL DEF Spec
<1>3. Spec => []CalmInv
  BY <1>2, CalmInit, CalmStep, InvCorrect, PTL DEF Spec
<1> QED BY <1>1, <1>3, InvCorrect, PTL
=============================================================================
