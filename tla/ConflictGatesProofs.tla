------------------------- MODULE ConflictGatesProofs -------------------------
(***************************************************************************)
(* Theorems about ConflictGates, for any landings, roots, relation of      *)
(* overlap, calls of markClean and restarts: no landing enters over gated  *)
(* markers, blocks correspond to gates, and only validated gates go.       *)
(***************************************************************************)
EXTENDS ConflictGates, TLAPS

(* Landings inside the source are on disjoint roots, and none of them      *)
(* that has no gate of its own yet is under a block.                       *)
InsideAlone ==
  \A l \in Landings : phase[l] = "held" =>
    /\ \A m \in Landings : phase[m] = "held" /\ m # l => ~Overlap(RootOf[m], RootOf[l])
    /\ step[l] \in {"none", "materialized"} =>
         \A r \in Roots : Overlap(r, RootOf[l]) => blockers[r] = 0

(* Markers are of landings that came in; without a gate the landing is     *)
(* still inside or its markers are known to be unguarded.                  *)
MarkersFound ==
  \A l \in Landings :
    /\ step[l] # "none" => phase[l] \in {"held", "left"}
    /\ l \in markers => step[l] # "none"
    /\ l \in markers \ unguarded /\ step[l] = "materialized" => phase[l] = "held"

Installed == {l \in Landings : step[l] \in {"gated", "published"}}

(* Gates, saved or not, are under the root of a landing that installed one. *)
GatesNamed ==
  \A r \in Roots :
    /\ saved[r] # NoGate => saved[r] \in Installed /\ GateOf[saved[r]] = r
    /\ gates[r] # NoGate => /\ gates[r].task \in Installed /\ GateOf[gates[r].task] = r
                            /\ gates[r].block <= installed

(* What a markClean has in hand: gates that were installed, with no block  *)
(* newer than the last, and nothing it may clear has markers.              *)
SnapshotSound ==
  \A c \in Cleaners :
    /\ ~Cleaning(c) => entries[c].clear = {}
    /\ clean[c] = "clear" => entries[c].scan = {}
    /\ \A e \in entries[c].clear :
         /\ e.gate.task \in Installed /\ e.gate.block <= installed
         /\ clean[c] \in {"scan", "clear"} /\ e \notin entries[c].scan =>
              e.gate.task \notin markers

(* The block that guards the markers of l is no other landing's to clear,  *)
(* and without overlapping calls its gate is listed, and saved once        *)
(* published.                                                              *)
Guarded(l) ==
  LET r == GateOf[l] IN
  /\ blockers[r] # 0
  /\ gates[r] # NoGate /\ gates[r].block = blockers[r] => gates[r].task = l
  /\ \A c \in Cleaners : \A e \in entries[c].clear :
       e.root = r /\ e.gate.block = blockers[r] => e.gate.task = l
  /\ ~overlapped => gates[r] # NoGate /\ gates[r].task = l
  /\ ~overlapped /\ step[l] = "published" => saved[r] = l

MarkersGuarded == \A l \in (Installed \cap markers) \ unguarded : Guarded(l)

(* Calls that have not overlapped: one at a time, over gates still there.  *)
CleaningAlone ==
  ~overlapped => \A c \in Cleaners : Cleaning(c) =>
    /\ \A d \in Cleaners : Cleaning(d) => d = c
    /\ \A e \in entries[c].clear : gates[e.root] = e.gate

GateInv ==
  /\ TypeOK
  /\ InsideAlone
  /\ MarkersFound
  /\ GatesNamed
  /\ SnapshotSound
  /\ MarkersGuarded
  /\ CleaningAlone
  /\ NoLandingOverGatedMarkers
  /\ BlockedByListedGate

-----------------------------------------------------------------------------
LEMMA Symmetric ==
  \A r, s \in Roots : Overlap(r, r) /\ (Overlap(r, s) => Overlap(s, r))
BY OverlapsAssumption DEF Overlap

LEMMA Placed == GateOf \in [Landings -> Roots] /\ RootOf \in [Landings -> Roots]
BY GateOfAssumption, RootOfAssumption

(* What overlaps the directory of a group overlaps its source root. *)
LEMMA GateWithin ==
  ASSUME NEW l \in Landings, NEW m \in Landings, Overlap(GateOf[l], RootOf[m])
  PROVE  Overlap(RootOf[m], RootOf[l]) /\ Overlap(RootOf[l], RootOf[m])
<1>1. Overlap(RootOf[m], GateOf[l])
  BY Symmetric, Placed
<1>2. Overlap(RootOf[m], RootOf[l])
  BY <1>1, GateOfAssumption, Placed
<1> QED BY <1>2, Symmetric, Placed

LEMMA Start == Init => GateInv
<1> SUFFICES ASSUME Init PROVE GateInv
  OBVIOUS
<1> USE DEF Init, AccessInit
<1>1. AccessTypeOK
  BY BlocksAssumption DEF AccessTypeOK
<1>2. TypeOK
  <2>1. /\ step \in [Landings -> {"none", "materialized", "gated", "published"}]
        /\ gates \in [Roots -> Gates \cup {NoGate}]
        /\ saved \in [Roots -> Landings \cup {NoGate}]
    OBVIOUS
  <2>2. clean \in [Cleaners -> {"idle", "scan", "dirty", "clear", "done"}]
    OBVIOUS
  <2>3. entries \in [Cleaners -> [scan : SUBSET Entry, clear : SUBSET Entry]]
    OBVIOUS
  <2>4. overlapped \in BOOLEAN
    OBVIOUS
  <2> QED BY <1>1, <2>1, <2>2, <2>3, <2>4, RestartsAssumption DEF TypeOK
<1>3. InsideAlone /\ MarkersFound /\ GatesNamed
  BY DEF InsideAlone, MarkersFound, GatesNamed
<1>4. SnapshotSound /\ CleaningAlone
  BY DEF SnapshotSound, CleaningAlone, Cleaning
<1>5. MarkersGuarded /\ NoLandingOverGatedMarkers /\ BlockedByListedGate
  BY DEF MarkersGuarded, NoLandingOverGatedMarkers, BlockedByListedGate
<1> QED BY <1>2, <1>3, <1>4, <1>5 DEF GateInv

-----------------------------------------------------------------------------
(***************************************************************************)
(* The landings: only InstallGate changes a block or a gate.               *)
(***************************************************************************)
LEMMA ComeStep ==
  ASSUME GateInv, NEW l \in Landings, Come(l)
  PROVE  GateInv'
<1> USE DEF GateInv, Come, Wait, GiveUp, Enter, Become
<1>0. /\ UNCHANGED <<blockers, installed, step, markers, gates, cleanVars, diskVars>>
      /\ phase[l] \in {"idle", "waiting"}
      /\ phase' \in {[phase EXCEPT ![l] = s] : s \in {"waiting", "left", "held"}}
  OBVIOUS
<1>1. TypeOK'
  BY <1>0 DEF TypeOK, AccessTypeOK, cleanVars, diskVars
<1>2. step[l] = "none" /\ l \notin markers /\ l \notin Installed
  BY DEF MarkersFound, Installed, TypeOK, AccessTypeOK
<1>3. InsideAlone' /\ NoLandingOverGatedMarkers'
  <2>1. CASE Enter(l)
    <3>1. \A r \in Roots : Overlap(r, RootOf[l]) => blockers[r] = 0
      BY <2>1 DEF Gated
    <3>2. \A m \in Landings : phase[m] = "held" => ~Overlap(RootOf[m], RootOf[l]) /\ ~Overlap(RootOf[l], RootOf[m])
      BY <2>1, Symmetric, Placed
    <3>3. \A m \in markers : Overlap(GateOf[m], RootOf[l]) => m \in unguarded
      <4> SUFFICES ASSUME NEW m \in markers, m \notin unguarded, Overlap(GateOf[m], RootOf[l])
                   PROVE  FALSE
        OBVIOUS
      <4>1. m \in Landings /\ m # l
        BY <1>2 DEF TypeOK
      <4>2. phase[m] # "held"
        BY <3>2, <4>1, GateWithin
      <4>3. m \in Installed
        BY <4>1, <4>2 DEF MarkersFound, Installed, TypeOK
      <4>4. blockers[GateOf[m]] # 0
        BY <4>1, <4>3 DEF MarkersGuarded, Guarded
      <4> QED BY <3>1, <4>1, <4>4, Placed
    <3>4. InsideAlone'
      BY <1>0, <2>1, <3>1, <3>2 DEF InsideAlone, TypeOK, AccessTypeOK, cleanVars, diskVars
    <3> QED
      BY <1>0, <2>1, <3>3, <3>4 DEF NoLandingOverGatedMarkers, Over, TypeOK, AccessTypeOK,
         cleanVars, diskVars
  <2>2. CASE ~Enter(l)
    <3>1. phase' \in {[phase EXCEPT ![l] = s] : s \in {"waiting", "left"}}
      BY <2>2
    <3> QED BY <1>0, <3>1 DEF InsideAlone, NoLandingOverGatedMarkers, Over, TypeOK, AccessTypeOK, cleanVars, diskVars
  <2> QED BY <2>1, <2>2
<1>4. MarkersFound'
  BY <1>0, <1>2 DEF MarkersFound, TypeOK, AccessTypeOK, cleanVars, diskVars
<1>5. GatesNamed'
  BY <1>0 DEF GatesNamed, Installed, cleanVars, diskVars
<1>6. SnapshotSound' /\ CleaningAlone'
  BY <1>0 DEF SnapshotSound, CleaningAlone, Cleaning, Installed, cleanVars, diskVars
<1>7. MarkersGuarded' /\ BlockedByListedGate'
  BY <1>0 DEF MarkersGuarded, Guarded, BlockedByListedGate, Installed, cleanVars, diskVars
<1> QED BY <1>1, <1>3, <1>4, <1>5, <1>6, <1>7

LEMMA LeaveStep ==
  ASSUME GateInv, NEW l \in Landings, LandClean(l) \/ CheckpointFails(l) \/ LeaveGated(l)
  PROVE  GateInv'
<1> USE DEF GateInv, LandClean, CheckpointFails, LeaveGated, Leave, Become
<1>0. /\ UNCHANGED <<blockers, installed, step, markers, gates, cleanVars, saved, restarts>>
      /\ phase[l] = "held" /\ phase' = [phase EXCEPT ![l] = "left"]
      /\ unguarded' \in {unguarded, unguarded \cup {l}}
      /\ step[l] = "materialized" => l \in unguarded'
  BY DEF diskVars
<1>1. TypeOK'
  BY <1>0 DEF TypeOK, AccessTypeOK, cleanVars
<1>2. InsideAlone' /\ NoLandingOverGatedMarkers'
  BY <1>0 DEF InsideAlone, NoLandingOverGatedMarkers, Over, TypeOK, AccessTypeOK, cleanVars
<1>3. MarkersFound'
  BY <1>0 DEF MarkersFound, TypeOK, AccessTypeOK, cleanVars
<1>4. GatesNamed' /\ SnapshotSound' /\ CleaningAlone'
  BY <1>0 DEF GatesNamed, SnapshotSound, CleaningAlone, Installed, Cleaning, cleanVars
<1>5. MarkersGuarded' /\ BlockedByListedGate'
  BY <1>0 DEF MarkersGuarded, Guarded, BlockedByListedGate, Installed, cleanVars
<1> QED BY <1>1, <1>2, <1>3, <1>4, <1>5

LEMMA MaterializeStep ==
  ASSUME GateInv, NEW l \in Landings, Materialize(l)
  PROVE  GateInv'
<1> USE DEF GateInv, Materialize, accessVars
<1>0. l \notin Installed /\ l \notin Installed' /\ Installed' = Installed
  BY DEF Installed, TypeOK
<1>1. TypeOK' /\ MarkersFound'
  BY DEF TypeOK, AccessTypeOK, MarkersFound, cleanVars, diskVars
<1>2. InsideAlone'
  BY DEF InsideAlone, TypeOK
<1>3. GatesNamed'
  BY <1>0 DEF GatesNamed, diskVars
<1>4. SnapshotSound'
  <2>1. \A c \in Cleaners : \A e \in entries[c].clear : e.gate.task # l
    BY <1>0 DEF SnapshotSound
  <2> QED BY <1>0, <2>1 DEF SnapshotSound, Cleaning, cleanVars
<1>5. MarkersGuarded' /\ BlockedByListedGate' /\ CleaningAlone'
  BY <1>0 DEF MarkersGuarded, Guarded, BlockedByListedGate, CleaningAlone, Cleaning, cleanVars,
     diskVars, TypeOK
<1>6. NoLandingOverGatedMarkers'
  <2>1. \A m \in Landings : ~Over(l, m)
    BY GateWithin DEF InsideAlone, Over
  <2> QED BY <2>1 DEF NoLandingOverGatedMarkers, Over, diskVars
<1> QED BY <1>1, <1>2, <1>3, <1>4, <1>5, <1>6

(* A landing that installs its gate finds its root without a block, and    *)
(* no other guarded markers under it.                                      *)
LEMMA InstallAlone ==
  ASSUME GateInv, NEW l \in Landings, InstallGate(l)
  PROVE  /\ blockers[GateOf[l]] = 0
         /\ installed < MaxBlocks /\ installed' = installed + 1
         /\ blockers' = [blockers EXCEPT ![GateOf[l]] = installed + 1]
         /\ gates' = [gates EXCEPT ![GateOf[l]] = [task |-> l, block |-> installed + 1]]
         /\ \A m \in (Installed \cap markers) \ unguarded : GateOf[m] # GateOf[l]
<1> USE DEF GateInv, InstallGate
<1>1. blockers[GateOf[l]] = 0
  <2>1. Overlap(GateOf[l], RootOf[l])
    BY Symmetric, Placed, GateOfAssumption
  <2> QED BY <2>1, Placed DEF InsideAlone
<1>2. /\ installed < MaxBlocks /\ installed' = installed + 1
      /\ blockers' = [blockers EXCEPT ![GateOf[l]] = installed + 1]
  BY <1>1 DEF Install
<1>3. blockers'[GateOf[l]] = installed + 1
  BY <1>2, Placed DEF TypeOK, AccessTypeOK
<1>4. \A m \in (Installed \cap markers) \ unguarded : GateOf[m] # GateOf[l]
  BY <1>1 DEF MarkersGuarded, Guarded
<1> QED BY <1>1, <1>2, <1>3, <1>4 DEF Install

LEMMA InstallStep ==
  ASSUME GateInv, NEW l \in Landings, InstallGate(l)
  PROVE  GateInv'
<1> DEFINE r == GateOf[l]
           n == installed + 1
<1> USE DEF GateInv
<1>0. /\ UNCHANGED <<phase, markers, clean, entries, overlapped, saved, unguarded, restarts>>
      /\ step' = [step EXCEPT ![l] = "gated"] /\ step[l] = "materialized"
      /\ phase[l] = "held" /\ r \in Roots
  BY Placed DEF InstallGate, cleanVars, diskVars
<1>1. /\ blockers[r] = 0 /\ n \in 1..MaxBlocks /\ installed' = n
      /\ blockers' = [blockers EXCEPT ![r] = n]
      /\ gates' = [gates EXCEPT ![r] = [task |-> l, block |-> n]]
      /\ \A m \in (Installed \cap markers) \ unguarded : GateOf[m] # r
  BY InstallAlone, BlocksAssumption DEF TypeOK, AccessTypeOK
<1> HIDE DEF r, n
<1>2. r = GateOf[l] /\ n = installed + 1 /\ installed \in Nat
  BY DEF r, n, TypeOK, AccessTypeOK
<1>3. Installed' = Installed \cup {l} /\ l \notin Installed
  BY <1>0 DEF Installed, TypeOK
<1>4. TypeOK'
  <2>1. [task |-> l, block |-> n] \in Gates
    BY <1>1 DEF Gates
  <2>2. blockers' \in [Roots -> 0..installed']
    <3>1. blockers \in [Roots -> 0..n] /\ n \in 0..n
      BY <1>2 DEF TypeOK, AccessTypeOK
    <3> QED BY <1>1, <3>1
  <2> QED BY <1>0, <1>1, <2>1, <2>2 DEF TypeOK, AccessTypeOK
<1>5. InsideAlone'
  <2>1. \A m \in Landings : phase[m] = "held" /\ m # l => ~Overlap(r, RootOf[m])
    BY <1>0, <1>2, GateWithin DEF InsideAlone
  <2> QED BY <1>0, <1>1, <2>1 DEF InsideAlone, TypeOK, AccessTypeOK
<1>6. MarkersFound'
  BY <1>0 DEF MarkersFound, TypeOK
<1>7. GatesNamed'
  BY <1>0, <1>1, <1>2, <1>3 DEF GatesNamed, TypeOK, Gates
<1>8. SnapshotSound'
  BY <1>0, <1>1, <1>2, <1>3 DEF SnapshotSound, Cleaning, TypeOK, Entry, Gates
<1>9. MarkersGuarded'
  <2> SUFFICES ASSUME NEW m \in (Installed' \cap markers) \ unguarded
               PROVE  Guarded(m)'
    BY <1>0 DEF MarkersGuarded
  <2>1. CASE m = l
    <3>1. \A c \in Cleaners : \A e \in entries[c].clear : e.gate.block # n
      BY <1>2 DEF SnapshotSound, TypeOK, Entry, Gates
    <3>2. blockers'[r] = n /\ n # 0 /\ gates'[r] # NoGate /\ gates'[r].task = l
      BY <1>0, <1>1, <1>2, NoGateAssumption DEF TypeOK, AccessTypeOK
    <3>3. step'[l] # "published"
      BY <1>0 DEF TypeOK
    <3> QED BY <1>0, <1>2, <2>1, <3>1, <3>2, <3>3 DEF Guarded
  <2>2. CASE m # l
    <3>1. Guarded(m) /\ GateOf[m] # r /\ GateOf[m] \in Roots /\ step'[m] = step[m]
      BY <1>0, <1>1, <1>3, <2>2, Placed DEF MarkersGuarded, TypeOK
    <3> QED BY <1>0, <1>1, <3>1 DEF Guarded, TypeOK, AccessTypeOK
  <2> QED BY <2>1, <2>2
<1>10. CleaningAlone' /\ BlockedByListedGate'
  <2> SUFFICES ASSUME ~overlapped PROVE CleaningAlone' /\ BlockedByListedGate'
    BY <1>0 DEF CleaningAlone, BlockedByListedGate
  <2>1. gates[r] = NoGate
    BY <1>0, <1>1 DEF BlockedByListedGate, TypeOK, Gates
  <2>2. BlockedByListedGate'
    BY <1>0, <1>1, NoGateAssumption DEF BlockedByListedGate, TypeOK, AccessTypeOK, Gates
  <2>3. \A c \in Cleaners : \A e \in entries[c].clear : Cleaning(c) => e.root # r
    BY <2>1, NoGateAssumption DEF CleaningAlone, TypeOK, Entry, Gates
  <2> QED BY <1>0, <1>1, <2>2, <2>3 DEF CleaningAlone, Cleaning, TypeOK, Entry
<1>11. NoLandingOverGatedMarkers'
  BY <1>0 DEF NoLandingOverGatedMarkers, Over
<1> QED BY <1>4, <1>5, <1>6, <1>7, <1>8, <1>9, <1>10, <1>11

LEMMA SaveStep ==
  ASSUME GateInv, SaveSidecar \/ \E l \in Landings : Publish(l)
  PROVE  GateInv'
<1> USE DEF GateInv
<1>0. /\ UNCHANGED <<accessVars, markers, gates, cleanVars, unguarded, restarts>>
      /\ saved' = Listed
      /\ \/ step' = step
         \/ \E l \in Landings : step[l] = "gated" /\ step' = [step EXCEPT ![l] = "published"]
  BY DEF SaveSidecar, Publish
<1>1. Installed' = Installed
  BY <1>0 DEF Installed, TypeOK
<1>2. TypeOK'
  BY <1>0 DEF TypeOK, AccessTypeOK, accessVars, cleanVars, Listed, Gates
<1>3. InsideAlone' /\ MarkersFound' /\ NoLandingOverGatedMarkers'
  BY <1>0 DEF InsideAlone, MarkersFound, NoLandingOverGatedMarkers, Over, TypeOK, accessVars
<1>4. GatesNamed'
  BY <1>0, <1>1 DEF GatesNamed, Listed, accessVars
<1>5. SnapshotSound' /\ CleaningAlone' /\ BlockedByListedGate'
  BY <1>0, <1>1 DEF SnapshotSound, CleaningAlone, Cleaning, BlockedByListedGate, accessVars,
     cleanVars
<1>6. MarkersGuarded'
  BY <1>0, <1>1, Placed DEF MarkersGuarded, Guarded, Listed, accessVars, cleanVars, TypeOK
<1> QED BY <1>2, <1>3, <1>4, <1>5, <1>6

LEMMA ResolveStep ==
  ASSUME GateInv, NEW l \in Landings, Resolve(l)
  PROVE  GateInv'
<1> USE DEF GateInv, Resolve, accessVars, cleanVars, diskVars
<1>1. TypeOK' /\ InsideAlone' /\ MarkersFound'
  BY DEF TypeOK, AccessTypeOK, InsideAlone, MarkersFound
<1>2. GatesNamed' /\ SnapshotSound' /\ CleaningAlone' /\ BlockedByListedGate'
  BY DEF GatesNamed, SnapshotSound, CleaningAlone, Cleaning, BlockedByListedGate, Installed
<1>3. MarkersGuarded' /\ NoLandingOverGatedMarkers'
  BY DEF MarkersGuarded, Guarded, NoLandingOverGatedMarkers, Over, Installed
<1> QED BY <1>1, <1>2, <1>3

-----------------------------------------------------------------------------
(***************************************************************************)
(* Calls of markClean.                                                     *)
(***************************************************************************)
(* What the steps of a call that leave blocks and gates alone have to keep. *)
LEMMA CallStep ==
  ASSUME GateInv, TypeOK', SnapshotSound', CleaningAlone',
         UNCHANGED <<accessVars, step, markers, gates, diskVars>>,
         overlapped => overlapped',
         \A c \in Cleaners : \A e \in entries'[c].clear :
           e \in entries[c].clear \/ (gates[e.root] # NoGate /\ gates[e.root] = e.gate)
  PROVE  GateInv'
<1> USE DEF GateInv, accessVars, diskVars
<1>1. InsideAlone' /\ MarkersFound' /\ NoLandingOverGatedMarkers'
  BY DEF InsideAlone, MarkersFound, NoLandingOverGatedMarkers, Over
<1>2. GatesNamed' /\ BlockedByListedGate'
  BY DEF GatesNamed, BlockedByListedGate, Installed
<1>3. MarkersGuarded'
  <2> SUFFICES ASSUME NEW l \in (Installed \cap markers) \ unguarded PROVE Guarded(l)'
    BY DEF MarkersGuarded, Installed
  <2>1. Guarded(l)
    BY DEF MarkersGuarded
  <2> QED BY <2>1 DEF Guarded
<1> QED BY <1>1, <1>2, <1>3

LEMMA BeginStep ==
  ASSUME GateInv, NEW c \in Cleaners, BeginClean(c)
  PROVE  GateInv'
<1> USE DEF GateInv
<1>1. \E at \in {"done", "scan"} : \E s \in {{}, Outstanding} :
        Become2(c, at, s, s) /\ (at = "done" <=> s = {})
  BY DEF BeginClean
<1>2. PICK at \in {"done", "scan"}, s \in {{}, Outstanding} :
        Become2(c, at, s, s) /\ (at = "done" <=> s = {})
  BY <1>1
<1>3. /\ UNCHANGED <<accessVars, step, markers, gates, diskVars>>
      /\ overlapped' = (overlapped \/ \E d \in Cleaners : Cleaning(d))
      /\ clean' = [clean EXCEPT ![c] = at]
      /\ entries' = [entries EXCEPT ![c] = [scan |-> s, clear |-> s]]
      /\ clean[c] = "idle" /\ Installed' = Installed
  BY <1>2 DEF BeginClean, Become2, Installed
<1>4. \A e \in s : /\ e \in Entry /\ gates[e.root] # NoGate /\ gates[e.root] = e.gate
                   /\ e.gate.task \in Installed /\ e.gate.block <= installed
  BY <1>2 DEF Outstanding, GatesNamed, TypeOK, Entry
<1>5. TypeOK'
  <2>1. [scan |-> s, clear |-> s] \in [scan : SUBSET Entry, clear : SUBSET Entry]
    BY <1>4
  <2>2. overlapped' \in BOOLEAN
    BY <1>3 DEF TypeOK
  <2> QED BY <1>2, <1>3, <2>1, <2>2 DEF TypeOK, AccessTypeOK, accessVars, diskVars
<1>6. SnapshotSound'
  BY <1>2, <1>3, <1>4 DEF SnapshotSound, Cleaning, TypeOK, accessVars
<1>7. CleaningAlone'
  BY <1>2, <1>3, <1>4 DEF CleaningAlone, Cleaning, TypeOK
<1> QED BY <1>3, <1>4, <1>5, <1>6, <1>7, CallStep DEF TypeOK

(* Validation, a failure between two gates, and the end of the call. *)
LEMMA ProgressStep ==
  ASSUME GateInv, NEW c \in Cleaners, Scan(c) \/ Validate(c) \/ CleanFails(c)
  PROVE  GateInv'
<1> USE DEF GateInv
<1>1. PICK at \in {"scan", "dirty", "clear", "done"},
           s \in SUBSET entries[c].scan, t \in {{}, entries[c].clear} :
        /\ Become2(c, at, s, t)
        /\ at = "done" => t = {}
        /\ at = "clear" => s = {} /\ entries[c].scan = {} /\ clean[c] = "scan"
        /\ at = "scan" => /\ clean[c] = "scan"
                          /\ \A e \in entries[c].scan \ s : e.gate.task \notin markers
  <2>1. CASE Scan(c)
    <3>1. PICK e \in entries[c].scan :
            /\ clean[c] \in {"scan", "dirty"}
            /\ Become2(c, IF e.gate.task \in markers THEN "dirty" ELSE clean[c],
                       entries[c].scan \ {e}, entries[c].clear)
      BY <2>1 DEF Scan
    <3>2. CASE e.gate.task \in markers
      BY <3>1, <3>2
    <3>3. CASE e.gate.task \notin markers
      <4>1. \A f \in entries[c].scan \ (entries[c].scan \ {e}) : f.gate.task \notin markers
        BY <3>3
      <4> QED BY <3>1, <3>3, <4>1
    <3> QED BY <3>2, <3>3
  <2>2. CASE Validate(c)
    BY <2>2 DEF Validate
  <2>3. CASE CleanFails(c)
    BY <2>3 DEF CleanFails
  <2> QED BY <2>1, <2>2, <2>3
<1>2. /\ UNCHANGED <<accessVars, step, markers, gates, overlapped, diskVars>>
      /\ clean[c] \in {"scan", "dirty", "clear"}
      /\ Installed' = Installed
  BY DEF Scan, Validate, CleanFails, Installed
<1>3. /\ clean' = [clean EXCEPT ![c] = at]
      /\ entries' = [entries EXCEPT ![c] = [scan |-> s, clear |-> t]]
  BY <1>1 DEF Become2
<1>4. TypeOK'
  <2>1. [scan |-> s, clear |-> t] \in [scan : SUBSET Entry, clear : SUBSET Entry]
    BY DEF TypeOK
  <2> QED BY <1>2, <1>3, <2>1 DEF TypeOK, AccessTypeOK, accessVars, diskVars
<1>5. SnapshotSound'
  BY <1>1, <1>2, <1>3 DEF SnapshotSound, Cleaning, TypeOK, accessVars
<1>6. CleaningAlone'
  BY <1>1, <1>2, <1>3 DEF CleaningAlone, Cleaning, TypeOK
<1>7. \A d \in Cleaners : \A e \in entries'[d].clear : e \in entries[d].clear
  BY <1>3 DEF TypeOK
<1> QED BY <1>2, <1>4, <1>5, <1>6, <1>7, CallStep

(* What a call drops was validated by it, and the markers it was for are   *)
(* gone: a block it lifts guards no markers.                               *)
LEMMA ClearStep ==
  ASSUME GateInv, NEW c \in Cleaners, Clear(c)
  PROVE  GateInv'
<1> USE DEF GateInv
<1>1. PICK e \in entries[c].clear :
        /\ clean[c] = "clear"
        /\ gates' = [gates EXCEPT ![e.root] = NoGate]
        /\ blockers' = IF blockers[e.root] = e.gate.block
                       THEN [blockers EXCEPT ![e.root] = 0] ELSE blockers
        /\ Become2(c, IF entries[c].clear = {e} THEN "done" ELSE "clear", {}, entries[c].clear \ {e})
        /\ UNCHANGED <<phase, installed, step, markers, overlapped, diskVars>>
  BY DEF Clear
<1>2. /\ e \in Entry /\ e.root \in Roots /\ e.gate \in Gates
      /\ e.gate.task \notin markers
      /\ Installed' = Installed
  BY <1>1 DEF TypeOK, SnapshotSound, Entry, Installed
<1>3. PICK at \in {"done", "clear"} :
        /\ clean' = [clean EXCEPT ![c] = at]
        /\ entries' = [entries EXCEPT ![c] = [scan |-> {}, clear |-> entries[c].clear \ {e}]]
        /\ at = "done" <=> entries[c].clear = {e}
  BY <1>1 DEF Become2
<1>4. TypeOK'
  <2>1. [scan |-> {}, clear |-> entries[c].clear \ {e}] \in [scan : SUBSET Entry, clear : SUBSET Entry]
    BY DEF TypeOK
  <2>2. blockers' \in [Roots -> 0..installed]
    BY <1>1, <1>2 DEF TypeOK, AccessTypeOK
  <2> QED BY <1>1, <1>2, <1>3, <2>1, <2>2 DEF TypeOK, AccessTypeOK, diskVars
<1>5. InsideAlone' /\ MarkersFound' /\ NoLandingOverGatedMarkers'
  <2>1. \A r \in Roots : blockers[r] = 0 => blockers'[r] = 0
    BY <1>1, <1>2 DEF TypeOK, AccessTypeOK
  <2> QED BY <1>1, <2>1 DEF InsideAlone, MarkersFound, NoLandingOverGatedMarkers, Over, diskVars
<1>6. GatesNamed'
  BY <1>1, <1>2 DEF GatesNamed, TypeOK, diskVars
<1>7. SnapshotSound'
  BY <1>1, <1>2, <1>3 DEF SnapshotSound, Cleaning, TypeOK
<1>8. MarkersGuarded'
  <2> SUFFICES ASSUME NEW l \in (Installed \cap markers) \ unguarded PROVE Guarded(l)'
    BY <1>1, <1>2 DEF MarkersGuarded, diskVars
  <2>1. Guarded(l) /\ GateOf[l] \in Roots
    BY Placed DEF MarkersGuarded, Installed
  <2>2. e.root = GateOf[l] => blockers[e.root] # e.gate.block
    BY <1>2, <2>1 DEF Guarded
  <2>3. e.root = GateOf[l] => overlapped
    BY <1>1, <1>2, <2>1 DEF Guarded, CleaningAlone, Cleaning
  <2>4. blockers'[GateOf[l]] = blockers[GateOf[l]]
    BY <1>1, <2>1, <2>2 DEF TypeOK, AccessTypeOK
  <2>5. \A d \in Cleaners : \A f \in entries'[d].clear : f \in entries[d].clear
    BY <1>3 DEF TypeOK
  <2>6. gates'[GateOf[l]] = gates[GateOf[l]] \/ (gates'[GateOf[l]] = NoGate /\ overlapped)
    BY <1>1, <2>1, <2>3 DEF TypeOK
  <2> QED BY <1>1, <2>1, <2>4, <2>5, <2>6 DEF Guarded, diskVars
<1>9. CleaningAlone' /\ BlockedByListedGate'
  <2> SUFFICES ASSUME ~overlapped PROVE CleaningAlone' /\ BlockedByListedGate'
    BY <1>1 DEF CleaningAlone, BlockedByListedGate
  <2>1. gates[e.root] = e.gate /\ Cleaning(c)
    BY <1>1 DEF CleaningAlone, Cleaning
  <2>2. blockers[e.root] = e.gate.block
    BY <1>2, <2>1, NoGateAssumption DEF BlockedByListedGate, Gates
  <2>3. BlockedByListedGate'
    BY <1>1, <1>2, <2>2 DEF BlockedByListedGate, TypeOK, AccessTypeOK
  <2>4. \A f \in entries[c].clear \ {e} : f.root # e.root
    BY <1>2, <2>1 DEF CleaningAlone, TypeOK, Entry
  <2>5. \A d \in Cleaners : Cleaning(d)' => d = c
    BY <1>3, <2>1 DEF CleaningAlone, Cleaning, TypeOK
  <2>6. entries'[c].clear = entries[c].clear \ {e}
    BY <1>3 DEF TypeOK
  <2> QED BY <1>1, <2>1, <2>3, <2>4, <2>5, <2>6 DEF CleaningAlone, TypeOK, Entry
<1> QED BY <1>4, <1>5, <1>6, <1>7, <1>8, <1>9

-----------------------------------------------------------------------------
(***************************************************************************)
(* The end of a session and the restore of its gates.                      *)
(***************************************************************************)
(* Over blocks b that are those before or gone, with every landing out of  *)
(* the source, the restore guards all markers but those it gives up.       *)
LEMMA RestoreStep ==
  ASSUME GateInv, NEW n \in 0..MaxBlocks, NEW b \in [Roots -> 0..n], Restore(b, n),
         UNCHANGED <<step, markers>>,
         saved' \in {saved, Listed},
         phase' \in [Landings -> {"idle", "waiting", "held", "left"}],
         \A l \in Landings : /\ phase'[l] # "held"
                             /\ phase[l] \in {"held", "left"} => phase'[l] = "left",
         clean' \in [Cleaners -> {"idle", "scan", "dirty", "clear", "done"}],
         entries' \in [Cleaners -> [scan : SUBSET Entry, clear : SUBSET Entry]],
         overlapped' \in BOOLEAN,
         SnapshotSound',
         \A c \in Cleaners : Cleaning(c)' => overlapped',
         \A c \in Cleaners : \A e \in entries'[c].clear :
           e \in entries[c].clear /\ e.gate.block <= n,
         \A r \in Roots : b[r] \in {0, blockers[r]},
         ~overlapped' => \A r \in Roots : b[r] = 0
  PROVE  GateInv'
<1> DEFINE back == {r \in Roots : saved'[r] # NoGate}
<1> USE DEF GateInv
<1>0. n \in Nat /\ n + 1 \in 1..MaxBlocks /\ n < n + 1
  BY BlocksAssumption DEF Restore
<1>1. /\ installed' = IF back = {} THEN n ELSE n + 1
      /\ blockers' = [r \in Roots |-> IF r \in back /\ b[r] = 0 THEN n + 1 ELSE b[r]]
      /\ gates' = [r \in Roots |-> IF r \in back THEN [task |-> saved'[r], block |-> blockers'[r]]
                                                 ELSE NoGate]
      /\ unguarded' = unguarded \cup
           {l \in markers : /\ step[l] # "published" \/ overlapped
                            /\ \A r \in Roots : saved'[r] # l}
      /\ restarts' = restarts + 1 /\ restarts' \in 0..MaxRestarts
  BY RestartsAssumption DEF Restore, TypeOK
<1> HIDE DEF back
<1>2. \A r \in Roots : r \in back <=> saved'[r] # NoGate
  BY DEF back
<1>3. Installed' = Installed
  BY DEF Installed
<1>4. \A r \in Roots : saved'[r] # NoGate =>
        saved'[r] \in Installed /\ saved'[r] \in Landings /\ GateOf[saved'[r]] = r
  BY DEF GatesNamed, Listed, Installed
<1>5. saved' \in [Roots -> Landings \cup {NoGate}]
  BY DEF Listed, TypeOK, Gates
<1>6. \A r \in Roots : /\ b[r] \in 0..installed' /\ blockers'[r] \in 0..installed'
                       /\ r \in back => blockers'[r] \in 1..MaxBlocks
  <2> SUFFICES ASSUME NEW r \in Roots
               PROVE  /\ b[r] \in 0..installed' /\ blockers'[r] \in 0..installed'
                      /\ r \in back => blockers'[r] \in 1..MaxBlocks
    OBVIOUS
  <2>1. b[r] \in Nat /\ b[r] <= n /\ n \in Nat /\ MaxBlocks \in Nat /\ n + 1 <= MaxBlocks
    BY <1>0, BlocksAssumption
  <2>2. blockers'[r] = IF r \in back /\ b[r] = 0 THEN n + 1 ELSE b[r]
    BY <1>1
  <2>3. CASE r \in back
    <3>1. installed' = n + 1
      BY <1>1, <2>3
    <3> QED BY <2>1, <2>2, <2>3, <3>1
  <2>4. CASE r \notin back
    <3>1. installed' \in {n, n + 1}
      BY <1>1
    <3> QED BY <2>1, <2>2, <2>4, <3>1
  <2> QED BY <2>3, <2>4
<1>7. TypeOK'
  <2>1. \A r \in back : r \in Roots => [task |-> saved'[r], block |-> blockers'[r]] \in Gates
    BY <1>2, <1>4, <1>6 DEF Gates
  <2>2. gates' \in [Roots -> Gates \cup {NoGate}]
    BY <1>1, <2>1
  <2>3. blockers' \in [Roots -> 0..installed']
    BY <1>1, <1>6
  <2>4. unguarded' \subseteq Landings /\ installed' \in 0..MaxBlocks
    BY <1>0, <1>1 DEF TypeOK
  <2> QED BY <1>1, <1>5, <2>2, <2>3, <2>4 DEF TypeOK, AccessTypeOK
<1>8. InsideAlone' /\ NoLandingOverGatedMarkers'
  BY DEF InsideAlone, NoLandingOverGatedMarkers, Over
<1>9. MarkersFound'
  <2>1. \A l \in markers \ unguarded' : step[l] # "materialized"
    <3> SUFFICES ASSUME NEW l \in markers, l \notin unguarded', step[l] = "materialized" PROVE FALSE
      OBVIOUS
    <3>1. PICK r \in Roots : saved'[r] = l
      BY <1>1
    <3>2. l \in Landings
      BY DEF TypeOK
    <3> QED BY <1>4, <3>1, <3>2, NoGateAssumption DEF Installed
  <2> QED BY <2>1 DEF MarkersFound
<1>10. GatesNamed'
  BY <1>1, <1>2, <1>3, <1>4, <1>6 DEF GatesNamed
<1>11. MarkersGuarded'
  <2> SUFFICES ASSUME NEW l \in (Installed \cap markers) \ unguarded' PROVE Guarded(l)'
    BY <1>3 DEF MarkersGuarded
  <2> DEFINE r == GateOf[l]
  <2>1. l \in Landings /\ r \in Roots /\ l \notin unguarded /\ Guarded(l)
    BY <1>1, Placed DEF MarkersGuarded, Installed
  <2>2. saved'[r] = l
    <3>1. CASE \E q \in Roots : saved'[q] = l
      BY <1>4, <2>1, <3>1, NoGateAssumption
    <3>2. CASE step[l] = "published" /\ ~overlapped
      BY <2>1, <3>2 DEF Guarded, Listed
    <3> QED BY <1>1, <3>1, <3>2
  <2>3. r \in back /\ gates'[r] = [task |-> l, block |-> blockers'[r]]
    BY <1>1, <1>2, <2>1, <2>2, NoGateAssumption
  <2>4. blockers'[r] # 0 /\ gates'[r] # NoGate /\ gates'[r].task = l
    BY <1>2, <1>6, <2>1, <2>3, NoGateAssumption DEF Gates
  <2>5. blockers'[r] = n + 1 \/ blockers'[r] = blockers[r]
    <3>1. blockers'[r] = IF b[r] = 0 THEN n + 1 ELSE b[r]
      BY <1>1, <2>1, <2>3
    <3> QED BY <2>1, <3>1
  <2>6. ASSUME NEW c \in Cleaners, NEW e \in entries'[c].clear,
               e.root = r, e.gate.block = blockers'[r]
        PROVE  e.gate.task = l
    <3>1. e \in entries[c].clear /\ e.gate.block <= n /\ e.gate.block \in Nat
      BY <2>6 DEF TypeOK, Entry, Gates
    <3>2. blockers'[r] = blockers[r]
      BY <1>0, <2>5, <2>6, <3>1
    <3> QED BY <2>1, <2>6, <3>1, <3>2 DEF Guarded
  <2> QED BY <2>2, <2>4, <2>6 DEF Guarded
<1>12. CleaningAlone' /\ BlockedByListedGate'
  <2>1. ASSUME ~overlapped', NEW r \in Roots
        PROVE  blockers'[r] = IF gates'[r] = NoGate THEN 0 ELSE gates'[r].block
    <3>1. b[r] = 0
      BY <2>1
    <3>2. CASE r \in back
      <4>1. gates'[r] = [task |-> saved'[r], block |-> blockers'[r]]
        BY <1>1, <3>2
      <4>2. [task |-> saved'[r], block |-> blockers'[r]] \in [task : Landings, block : 1..MaxBlocks]
        BY <1>2, <1>4, <1>6, <3>2
      <4> QED BY <4>1, <4>2, NoGateAssumption
    <3>3. CASE r \notin back
      BY <1>1, <3>1, <3>3
    <3> QED BY <3>2, <3>3
  <2>2. BlockedByListedGate'
    BY <2>1 DEF BlockedByListedGate
  <2> QED BY <2>2 DEF CleaningAlone
<1> QED BY <1>7, <1>8, <1>9, <1>10, <1>11, <1>12

LEMMA SwitchStep ==
  ASSUME GateInv, SwitchSession
  PROVE  GateInv'
<1> USE DEF GateInv, SwitchSession
<1>1. installed \in 0..MaxBlocks /\ Released \in [Roots -> 0..installed]
  BY DEF Released, TypeOK, AccessTypeOK
<1>2. \A r \in Roots : Released[r] \in {0, blockers[r]}
  BY DEF Released
<1>3. overlapped' \in BOOLEAN
  BY DEF TypeOK
<1>4. \A c \in Cleaners : Cleaning(c)' => overlapped'
  BY DEF Cleaning
<1>5. ~overlapped' => \A r \in Roots : Released[r] = 0
  BY DEF BlockedByListedGate, Released
<1>6. \A c \in Cleaners : \A e \in entries'[c].clear :
        e \in entries[c].clear /\ e.gate.block <= installed
  BY DEF SnapshotSound
<1>7. SnapshotSound'
  <2>1. installed <= installed'
    <3>1. installed' \in {installed, installed + 1} /\ installed \in Nat
      BY BlocksAssumption DEF Restore, TypeOK, AccessTypeOK
    <3> QED BY <3>1
  <2>2. \A c \in Cleaners : \A e \in entries[c].clear : e.gate.block <= installed'
    <3> TAKE c \in Cleaners
    <3> TAKE e \in entries[c].clear
    <3>1. e.gate.block <= installed
      BY DEF SnapshotSound
    <3>2. e.gate.block \in Nat
      BY DEF TypeOK, Entry, Gates
    <3>3. installed \in Nat /\ installed' \in Nat
      BY BlocksAssumption DEF Restore, TypeOK, AccessTypeOK
    <3> QED BY <2>1, <3>1, <3>2, <3>3
  <2> QED BY <2>2 DEF SnapshotSound, Cleaning, Installed
<1>8. \A l \in Landings : /\ phase'[l] # "held"
                          /\ phase[l] \in {"held", "left"} => phase'[l] = "left"
  OBVIOUS
<1>9. /\ UNCHANGED <<step, markers>> /\ saved' \in {saved, Listed}
      /\ phase' \in [Landings -> {"idle", "waiting", "held", "left"}]
      /\ clean' \in [Cleaners -> {"idle", "scan", "dirty", "clear", "done"}]
      /\ entries' \in [Cleaners -> [scan : SUBSET Entry, clear : SUBSET Entry]]
      /\ Restore(Released, installed)
  BY DEF TypeOK, AccessTypeOK
<1> QED BY <1>1, <1>2, <1>3, <1>4, <1>5, <1>6, <1>7, <1>8, <1>9, RestoreStep

LEMMA CrashStep ==
  ASSUME GateInv, Crash
  PROVE  GateInv'
<1> USE DEF GateInv, Crash
<1> DEFINE none == [r \in Roots |-> 0]
<1>1. 0 \in 0..MaxBlocks /\ none \in [Roots -> 0..0] /\ Restore(none, 0)
  BY BlocksAssumption
<1>2. \A r \in Roots : none[r] \in {0, blockers[r]} /\ none[r] = 0
  OBVIOUS
<1>3. \A c \in Cleaners : entries'[c].clear = {} /\ entries'[c].scan = {} /\ ~Cleaning(c)'
  BY DEF Cleaning
<1>4. SnapshotSound'
  BY <1>3 DEF SnapshotSound
<1>5. /\ UNCHANGED <<step, markers>> /\ saved' \in {saved, Listed}
      /\ phase' \in [Landings -> {"idle", "waiting", "held", "left"}]
      /\ clean' \in [Cleaners -> {"idle", "scan", "dirty", "clear", "done"}]
      /\ overlapped' \in BOOLEAN
  OBVIOUS
<1>6. entries' \in [Cleaners -> [scan : SUBSET Entry, clear : SUBSET Entry]]
  OBVIOUS
<1>7. \A l \in Landings : /\ phase'[l] # "held"
                          /\ phase[l] \in {"held", "left"} => phase'[l] = "left"
  OBVIOUS
<1> HIDE DEF none
<1> QED BY <1>1, <1>2, <1>3, <1>4, <1>5, <1>6, <1>7, RestoreStep

-----------------------------------------------------------------------------
LEMMA InvStep == GateInv /\ [Next]_vars => GateInv'
<1> SUFFICES ASSUME GateInv, [Next]_vars PROVE GateInv'
  OBVIOUS
<1>1. CASE UNCHANGED vars
  BY <1>1 DEF GateInv, vars, accessVars, cleanVars, diskVars, TypeOK, AccessTypeOK, InsideAlone,
    MarkersFound, GatesNamed, Installed, SnapshotSound, Cleaning, MarkersGuarded, Guarded,
    CleaningAlone, NoLandingOverGatedMarkers, Over, BlockedByListedGate
<1>2. CASE Next
  <2>1. ASSUME NEW l \in Landings,
               \/ Come(l) \/ LandClean(l) \/ Materialize(l) \/ CheckpointFails(l)
               \/ InstallGate(l) \/ Publish(l) \/ LeaveGated(l) \/ Resolve(l)
        PROVE  GateInv'
    BY <2>1, ComeStep, LeaveStep, MaterializeStep, InstallStep, SaveStep, ResolveStep
  <2>2. ASSUME NEW c \in Cleaners,
               BeginClean(c) \/ Scan(c) \/ Validate(c) \/ CleanFails(c) \/ Clear(c)
        PROVE  GateInv'
    BY <2>2, BeginStep, ProgressStep, ClearStep
  <2> QED BY <1>2, <2>1, <2>2, SaveStep, SwitchStep, CrashStep DEF Next
<1> QED BY <1>1, <1>2

(* The inductive invariant: who is inside, which markers a block guards,   *)
(* what each markClean may clear, and whose gates are saved.               *)
THEOREM InvCorrect == Spec => []GateInv
BY Start, InvStep, PTL DEF Spec

(* Every variable of the gates keeps its type. *)
THEOREM TypeCorrect == Spec => []TypeOK
<1>1. GateInv => TypeOK
  BY DEF GateInv
<1> QED BY <1>1, InvCorrect, PTL

(* No landing is inside a source where gated markers stand, for any roots, *)
(* overlapping calls of markClean and any number of restarts.              *)
THEOREM NoneOverGatedMarkers == Spec => []NoLandingOverGatedMarkers
<1>1. GateInv => NoLandingOverGatedMarkers
  BY DEF GateInv
<1> QED BY <1>1, InvCorrect, PTL

(* Calls of markClean that do not overlap keep blocks and gates in step.   *)
THEOREM BlocksAreListed == Spec => []BlockedByListedGate
<1>1. GateInv => BlockedByListedGate
  BY DEF GateInv
<1> QED BY <1>1, InvCorrect, PTL

(* Without overlapping calls a gate is lost only when the markers of its   *)
(* landing are gone, or had no gate on disk when the session ended.        *)
THEOREM GatesKeptUntilValidated == Spec => SerialClearsOnlyValidated
<1>1. ASSUME GateInv, [Next]_vars, ~overlapped, NEW r \in Roots, Lost(r)
      PROVE  gates[r].task \notin markers \ unguarded'
  <2> SUFFICES ASSUME gates[r].task \in markers, gates[r].task \notin unguarded' PROVE FALSE
    OBVIOUS
  <2> DEFINE l == gates[r].task
  <2>1. gates[r] # NoGate /\ l \in Installed /\ GateOf[l] = r /\ unguarded \subseteq unguarded'
    BY <1>1 DEF Lost, GateInv, GatesNamed, Next, vars, diskVars, Come, LandClean, Materialize,
      CheckpointFails, InstallGate, Publish, LeaveGated, Resolve, BeginClean, Scan, Validate,
      CleanFails, Clear, SaveSidecar, SwitchSession, Crash, Restore
  <2>2. Guarded(l)
    BY <1>1, <2>1 DEF GateInv, MarkersGuarded
  <2>3. ASSUME NEW m \in Landings, InstallGate(m) PROVE FALSE
    BY <1>1, <2>1, <2>2, <2>3, InstallAlone DEF Guarded, Lost, GateInv, TypeOK
  <2>4. ASSUME NEW c \in Cleaners, Clear(c) PROVE FALSE
    BY <1>1, <2>1, <2>2, <2>4 DEF Clear, Lost, GateInv, TypeOK, SnapshotSound, CleaningAlone,
      Cleaning, Entry, Guarded
  <2>5. ASSUME SwitchSession \/ Crash PROVE FALSE
    <3>1. /\ saved' \in {saved, Listed}
          /\ gates'[r] = IF saved'[r] # NoGate THEN [task |-> saved'[r], block |-> blockers'[r]]
                                               ELSE NoGate
          /\ unguarded' = unguarded \cup
               {m \in markers : /\ step[m] # "published" \/ overlapped
                                /\ \A q \in Roots : saved'[q] # m}
      BY <2>5 DEF SwitchSession, Crash, Restore
    <3>2. l # NoGate
      BY <2>1, NoGateAssumption DEF Installed
    <3>3. saved'[r] = l
      <4>1. CASE \E q \in Roots : saved'[q] = l
        BY <1>1, <2>1, <3>1, <3>2, <4>1 DEF GateInv, GatesNamed, Listed
      <4>2. CASE step[l] = "published"
        BY <1>1, <2>1, <2>2, <3>1, <4>2 DEF Guarded, Listed
      <4> QED BY <3>1, <4>1, <4>2
    <3>4. blockers'[r] \in 1..MaxBlocks
      <4>1. GateInv' /\ l \in (Installed' \cap markers') \ unguarded' /\ r \in Roots
        BY <1>1, <2>1, <2>5, InvStep DEF SwitchSession, Crash, Installed
      <4>2. blockers'[r] # 0
        BY <2>1, <4>1 DEF GateInv, MarkersGuarded, Guarded
      <4>3. blockers'[r] \in 0..installed' /\ installed' \in 0..MaxBlocks
        BY <4>1 DEF GateInv, TypeOK, AccessTypeOK
      <4> QED BY <4>2, <4>3, BlocksAssumption
    <3>5. [task |-> l, block |-> blockers'[r]] # NoGate
      <4>1. [task |-> l, block |-> blockers'[r]] \in [task : Landings, block : 1..MaxBlocks]
        BY <2>1, <3>4 DEF Installed
      <4> QED BY <4>1, NoGateAssumption
    <3>6. gates'[r] = [task |-> l, block |-> blockers'[r]]
      BY <3>1, <3>2, <3>3
    <3> QED BY <1>1, <3>5, <3>6 DEF Lost
  <2>6. gates' # gates
    BY <1>1 DEF Lost
  <2> QED
    BY <1>1, <2>3, <2>4, <2>5, <2>6 DEF Next, vars, Come, LandClean, Materialize,
      CheckpointFails, Publish, LeaveGated, Resolve, BeginClean, Scan, Validate, CleanFails,
      SaveSidecar
<1>2. GateInv /\ [Next]_vars =>
        [~overlapped => \A r \in Roots : Lost(r) => gates[r].task \notin markers \ unguarded']_vars
  BY <1>1
<1> QED BY <1>2, InvCorrect, PTL DEF Spec, SerialClearsOnlyValidated
====
