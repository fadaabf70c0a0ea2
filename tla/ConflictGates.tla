---------------------------- MODULE ConflictGates ----------------------------
(***************************************************************************)
(* Conflict gates over the source lease.  A landing that finds conflicts   *)
(* materializes markers while it is inside, checkpoints the parent and     *)
(* installs a gate, which blocks its source root; mark_clean validates     *)
(* every outstanding gate and clears them one by one, awaiting saves in    *)
(* between and holding no lease.  The user's command and the model's tool  *)
(* call mark_clean independently.  The gates are saved in the sidecar of   *)
(* the session, and a session that is resumed blocks its roots again.      *)
(***************************************************************************)
EXTENDS SourceAccess, FiniteSets

CONSTANTS Cleaners,             \* calls of markClean
          GateOf,               \* the working directory of a landing's group
          NoGate,               \* a root without an outstanding gate
          MaxRestarts           \* bound: sessions ended and resumed

ASSUME GateOfAssumption ==
  /\ GateOf \in [Landings -> Roots]
  /\ \A l \in Landings, r \in Roots : Overlap(r, GateOf[l]) => Overlap(r, RootOf[l])
ASSUME NoGateAssumption ==
  NoGate \notin [task : Landings, block : 1..MaxBlocks] /\ NoGate \notin Landings
ASSUME RestartsAssumption == MaxRestarts \in Nat

VARIABLES step,       \* how far a landing that found conflicts has come
          markers,    \* landings whose conflict markers stand in the source
          gates,      \* the store: the outstanding gate of each root
          clean,      \* where each markClean stands
          entries,    \* the snapshot it has still to validate or to clear
          overlapped, \* history: a call of markClean was under way with another
                      \* one, or has outlived its session
          saved,      \* the sidecar: the landing whose gate it names for a root
          unguarded,  \* history: landings whose gate was lost or never made
          restarts

cleanVars == <<clean, entries, overlapped>>
diskVars  == <<saved, unguarded, restarts>>
vars == <<accessVars, step, markers, gates, cleanVars, diskVars>>

Gates == [task : Landings, block : 1..MaxBlocks]
Entry == [root : Roots, gate : Gates]

TypeOK ==
  /\ AccessTypeOK
  /\ step \in [Landings -> {"none", "materialized", "gated", "published"}]
  /\ markers \subseteq Landings
  /\ gates \in [Roots -> Gates \cup {NoGate}]
  /\ clean \in [Cleaners -> {"idle", "scan", "dirty", "clear", "done"}]
  /\ entries \in [Cleaners -> [scan : SUBSET Entry, clear : SUBSET Entry]]
  /\ overlapped \in BOOLEAN
  /\ saved \in [Roots -> Landings \cup {NoGate}]
  /\ unguarded \subseteq Landings
  /\ restarts \in 0..MaxRestarts

Init ==
  /\ AccessInit
  /\ step = [l \in Landings |-> "none"]
  /\ markers = {}
  /\ gates = [r \in Roots |-> NoGate]
  /\ clean = [c \in Cleaners |-> "idle"]
  /\ entries = [c \in Cleaners |-> [scan |-> {}, clear |-> {}]]
  /\ overlapped = FALSE
  /\ saved = [r \in Roots |-> NoGate]
  /\ unguarded = {} /\ restarts = 0

-----------------------------------------------------------------------------
(* A landing enters the source and leaves it without conflicts. *)
Come(l) ==
  /\ Wait(l) \/ GiveUp(l) \/ Enter(l)
  /\ UNCHANGED <<step, markers, gates, cleanVars, diskVars>>

LandClean(l) ==
  /\ step[l] = "none"
  /\ Leave(l)
  /\ UNCHANGED <<step, markers, gates, cleanVars, diskVars>>

Materialize(l) ==
  /\ phase[l] = "held" /\ step[l] = "none"
  /\ step' = [step EXCEPT ![l] = "materialized"]
  /\ markers' = markers \cup {l}
  /\ UNCHANGED <<accessVars, gates, cleanVars, diskVars>>

(* The checkpoint after the markers throws: no gate, and the lease goes. *)
CheckpointFails(l) ==
  /\ step[l] = "materialized"
  /\ Leave(l)
  /\ unguarded' = unguarded \cup {l}
  /\ UNCHANGED <<step, markers, gates, cleanVars, saved, restarts>>

(* Mutant of Install: the handle is taken before the block is there. *)
MutInstallStaleHandle(l) ==
  LET r == GateOf[l] IN
  /\ installed < MaxBlocks
  /\ installed' = installed + 1
  /\ blockers' = [blockers EXCEPT ![r] = installed + 1]
  /\ gates' = [gates EXCEPT ![r] = [task |-> l, block |-> blockers[r]]]

(***************************************************************************)
(* install: release the gate the store holds for the root, then block it;  *)
(* block returns the handle of a block that is still there.                *)
(***************************************************************************)
Install(l) ==
  LET r == GateOf[l]
      mine == gates[r] # NoGate /\ gates[r].block = blockers[r]
      fresh == blockers[r] = 0 \/ mine IN
  /\ fresh => installed < MaxBlocks
  /\ installed' = IF fresh THEN installed + 1 ELSE installed
  /\ blockers' = IF fresh THEN [blockers EXCEPT ![r] = installed + 1] ELSE blockers
  /\ gates' = [gates EXCEPT ![r] = [task |-> l, block |-> blockers'[r]]]

(* Mutant of InstallGate: the lease goes before the gate is installed. *)
MutInstallAfterLeave(l) ==
  /\ step[l] = "materialized"
  /\ IF phase[l] = "held" THEN Leave(l) /\ UNCHANGED <<step, gates>>
     ELSE /\ phase[l] = "left" /\ UNCHANGED phase
          /\ step' = [step EXCEPT ![l] = "gated"]
          /\ Install(l)
  /\ UNCHANGED <<markers, cleanVars, diskVars>>

InstallGate(l) ==
  /\ phase[l] = "held" /\ step[l] = "materialized"
  /\ step' = [step EXCEPT ![l] = "gated"]
  /\ Install(l)
  /\ UNCHANGED <<phase, markers, cleanVars, diskVars>>

(* Mutant of Listed: only one gate is written, as older sidecars did. *)
MutListedOne ==
  LET last(r) == \A q \in Roots : gates[q] # NoGate => gates[q].block <= gates[r].block
  IN [r \in Roots |-> IF gates[r] # NoGate /\ last(r) THEN gates[r].task ELSE NoGate]

(* associations: what a save of the sidecar writes. *)
Listed == [r \in Roots |-> IF gates[r] = NoGate THEN NoGate ELSE gates[r].task]

(* Any save of the session writes the gates as they are. *)
SaveSidecar ==
  /\ saved' = Listed
  /\ UNCHANGED <<accessVars, step, markers, gates, cleanVars, unguarded, restarts>>

Publish(l) ==
  /\ phase[l] = "held" /\ step[l] = "gated"
  /\ step' = [step EXCEPT ![l] = "published"]
  /\ saved' = Listed
  /\ UNCHANGED <<accessVars, markers, gates, cleanVars, unguarded, restarts>>

(* The lease goes, also when the group's save or the publication threw or  *)
(* was not confirmed.                                                      *)
LeaveGated(l) ==
  /\ step[l] \in {"gated", "published"}
  /\ Leave(l)
  /\ UNCHANGED <<step, markers, gates, cleanVars, diskVars>>

(* The user or the model edits the markers out of the source. *)
Resolve(l) ==
  /\ l \in markers
  /\ markers' = markers \ {l}
  /\ UNCHANGED <<accessVars, step, gates, cleanVars, diskVars>>

-----------------------------------------------------------------------------
Outstanding == {[root |-> r, gate |-> gates[r]] : r \in {q \in Roots : gates[q] # NoGate}}

Become2(c, at, scan, clear) ==
  /\ clean' = [clean EXCEPT ![c] = at]
  /\ entries' = [entries EXCEPT ![c] = [scan |-> scan, clear |-> clear]]

Cleaning(c) == clean[c] \in {"scan", "dirty", "clear"}

BeginClean(c) ==
  /\ clean[c] = "idle"
  /\ overlapped' = (overlapped \/ \E d \in Cleaners : Cleaning(d))
  /\ IF Outstanding = {} THEN Become2(c, "done", {}, {})
                         ELSE Become2(c, "scan", Outstanding, Outstanding)
  /\ UNCHANGED <<accessVars, step, markers, gates, diskVars>>

(* Mutant of Scan: one clean root is enough to start clearing. *)
MutScanFirstOnly(c) ==
  \E e \in entries[c].scan :
    /\ clean[c] = "scan"
    /\ Become2(c, IF e.gate.task \in markers THEN "dirty" ELSE "scan", {}, entries[c].clear)
    /\ UNCHANGED <<accessVars, step, markers, gates, overlapped, diskVars>>

(* One gate's files are read; the scan goes on after a dirty one. *)
Scan(c) ==
  \E e \in entries[c].scan :
    /\ clean[c] \in {"scan", "dirty"}
    /\ Become2(c, IF e.gate.task \in markers THEN "dirty" ELSE clean[c],
               entries[c].scan \ {e}, entries[c].clear)
    /\ UNCHANGED <<accessVars, step, markers, gates, overlapped, diskVars>>

(* Markers remain anywhere: the call throws and clears nothing. *)
Validate(c) ==
  /\ clean[c] \in {"scan", "dirty"} /\ entries[c].scan = {}
  /\ IF clean[c] = "dirty" THEN Become2(c, "done", {}, {})
                           ELSE Become2(c, "clear", {}, entries[c].clear)
  /\ UNCHANGED <<accessVars, step, markers, gates, overlapped, diskVars>>

(* Saving the task or checkpointing the resolution throws between gates. *)
CleanFails(c) ==
  /\ clean[c] = "clear"
  /\ Become2(c, "done", {}, {})
  /\ UNCHANGED <<accessVars, step, markers, gates, overlapped, diskVars>>

(* Mutant of Clear: the gate is dropped but its block is not released. *)
MutClearKeepsBlock(c) ==
  \E e \in entries[c].clear :
    /\ clean[c] = "clear"
    /\ gates' = [gates EXCEPT ![e.root] = NoGate]
    /\ Become2(c, IF entries[c].clear = {e} THEN "done" ELSE "clear", {}, entries[c].clear \ {e})
    /\ UNCHANGED <<accessVars, step, markers, overlapped, diskVars>>

(***************************************************************************)
(* delete(key) drops whatever gate the root has by now; release() acts     *)
(* only while the block of the snapshot still stands.                      *)
(***************************************************************************)
Clear(c) ==
  \E e \in entries[c].clear :
    /\ clean[c] = "clear"
    /\ gates' = [gates EXCEPT ![e.root] = NoGate]
    /\ blockers' = IF blockers[e.root] = e.gate.block
                   THEN [blockers EXCEPT ![e.root] = 0] ELSE blockers
    /\ Become2(c, IF entries[c].clear = {e} THEN "done" ELSE "clear", {}, entries[c].clear \ {e})
    /\ UNCHANGED <<phase, installed, step, markers, overlapped, diskVars>>

-----------------------------------------------------------------------------
(***************************************************************************)
(* The session ends and is resumed.                                        *)
(***************************************************************************)
(* restore installs the saved gates over the blocks b of the process.      *)
Restore(b, n) ==
  LET back == {r \in Roots : saved'[r] # NoGate} IN
  /\ n < MaxBlocks
  /\ installed' = IF back = {} THEN n ELSE n + 1
  /\ blockers' = [r \in Roots |-> IF r \in back /\ b[r] = 0 THEN n + 1 ELSE b[r]]
  /\ gates' = [r \in Roots |-> IF r \in back THEN [task |-> saved'[r], block |-> blockers'[r]]
                                             ELSE NoGate]
  /\ unguarded' = unguarded \cup
       {l \in markers : /\ step[l] # "published" \/ overlapped
                        /\ \A r \in Roots : saved'[r] # l}
  /\ restarts < MaxRestarts /\ restarts' = restarts + 1

(* The blocks left when the store releases its gates. *)
Released == [r \in Roots |-> IF gates[r] # NoGate /\ gates[r].block = blockers[r] THEN 0 ELSE blockers[r]]

(* Shutdown awaits the landings and saves, which may go unconfirmed; it    *)
(* does not wait for markClean.                                            *)
SwitchSession ==
  /\ \A l \in Landings : phase[l] \in {"idle", "left"}
  /\ saved' \in {saved, Listed}
  /\ Restore(Released, installed)
  /\ overlapped' = (overlapped \/ \E c \in Cleaners : Cleaning(c))
  /\ UNCHANGED <<phase, step, markers, clean, entries>>

(* The process dies: its blocks, landings and calls are gone. *)
Crash ==
  /\ phase' = [l \in Landings |-> IF phase[l] = "idle" THEN "idle" ELSE "left"]
  /\ saved' = saved
  /\ Restore([r \in Roots |-> 0], 0)
  /\ clean' = [c \in Cleaners |-> IF clean[c] = "idle" THEN "idle" ELSE "done"]
  /\ entries' = [c \in Cleaners |-> [scan |-> {}, clear |-> {}]]
  /\ overlapped' = FALSE
  /\ UNCHANGED <<step, markers>>

Next ==
  \/ \E l \in Landings : \/ Come(l) \/ LandClean(l) \/ Materialize(l) \/ CheckpointFails(l)
                         \/ InstallGate(l) \/ Publish(l) \/ LeaveGated(l)
                         \/ Resolve(l)
  \/ \E c \in Cleaners : BeginClean(c) \/ Scan(c) \/ Validate(c) \/ CleanFails(c) \/ Clear(c)
  \/ SaveSidecar \/ SwitchSession \/ Crash

Spec == Init /\ [][Next]_vars

-----------------------------------------------------------------------------
Lost(r) == /\ gates[r] # NoGate
           /\ gates'[r] = NoGate \/ gates'[r].task # gates[r].task

Over(l, m) == phase[m] = "held" /\ m # l /\ Overlap(GateOf[l], RootOf[m])

(* No landing is inside a source root where the conflict markers of an     *)
(* earlier landing still stand ("a durable critical gate then blocks every *)
(* later landing", docs/delegated-execution.md:739), also after a restart  *)
(* at any point, unless that one never got its gate, the session ended     *)
(* before the gate was confirmed saved, or overlapping calls of markClean  *)
(* dropped the gate before it was saved.                                   *)
NoLandingOverGatedMarkers ==
  \A l \in markers, m \in Landings : Over(l, m) => l \in unguarded

(* A source root is blocked exactly while its gate is outstanding: a block *)
(* without a gate can never be cleared, since markClean finds nothing.     *)
BlockedByListedGate ==
  ~overlapped => \A r \in Roots :
    blockers[r] = IF gates[r] = NoGate THEN 0 ELSE gates[r].block

(* A gate leaves the store only when the markers of its own landing are    *)
(* gone (conflict-gate-store.ts:99, "a gate installed after this snapshot  *)
(* is taken is not validated and not cleared by the caller's loop"), for   *)
(* calls of markClean that have never overlapped, whatever fails between   *)
(* two gates, whatever lands meanwhile and over a restart, which loses no  *)
(* gate that was confirmed saved.                                          *)
SerialClearsOnlyValidated ==
  [][~overlapped =>
       \A r \in Roots : Lost(r) => gates[r].task \notin markers \ unguarded']_vars
=============================================================================
