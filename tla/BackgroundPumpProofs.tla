------------------------ MODULE BackgroundPumpProofs ------------------------
(***************************************************************************)
(* Theorems about BackgroundPump, for any tasks, entries, settings and     *)
(* routes: every slot is accounted for, a waiting failover is blocked, the *)
(* pump launches what it selected, and no queued task is forgotten.        *)
(***************************************************************************)
EXTENDS BackgroundPump, FiniteSetTheorems, TLAPS

(* The locals of the pump have their values where it uses them. *)
HandHeld ==
  /\ pump \in {"routing", "choosing", "holding", "checking"} => hand \in Tasks /\ seen \in Configs
  /\ slot # None => pump \in {"holding", "checking"}
  /\ pump \in {"holding", "checking"} => slot # None

(* Who waits is queued once and holds nothing. *)
WaitersWait ==
  /\ \A i \in DOMAIN waiters : st[waiters[i]] = "waiting"
  /\ \A i, j \in DOMAIN waiters : waiters[i] = waiters[j] => i = j

(* Only a running task holds a slot, except while it fails over. *)
LeasesRun ==
  /\ \A t \in Tasks : lease[t] # None => st[t] = "running" /\ resume # t
  /\ resume # None => st[resume] = "running"

(* The waiters the drain has passed, or all of them when none runs. *)
Behind(c, a, t) ==
  {i \in Positions(c, t) : \A j \in Positions(c, t) : Route[c][t][j] = a => j < i}

(* t, which had entry a, finds no slot under settings c and counts r. *)
Stuck(c, r, a, t) ==
  /\ Behind(c, a, t) # {}
  /\ \A i \in Behind(c, a, t) : ~(r[Route[c][t][i]] < Capacity[c][Route[c][t][i]])

(* t finds none by its copy of the settings, or by those in force if the   *)
(* pool has been told of them.                                             *)
Blocked(t) == copy[t] # None \/ ~refresh => Stuck(Conf(t), running, last[t], t)

PassedBlocked ==
  \A i \in DOMAIN waiters : draining = 0 \/ i < draining => Blocked(waiters[i])

PumpInv ==
  /\ TypeOK /\ HandHeld /\ WaitersWait /\ LeasesRun
  /\ SlotsAccounted /\ PassedBlocked

(***************************************************************************)
(* Sets of holders and the queue.                                          *)
(***************************************************************************)
Holders(e) == {t \in Tasks : lease[t] = e}

LEMMA HoldersFinite ==
  ASSUME NEW e
  PROVE  IsFiniteSet(Holders(e)) /\ Cardinality(Holders(e)) \in Nat
<1>1. Holders(e) \in SUBSET Tasks /\ IsFiniteSet(Tasks)
  BY PumpConstants DEF Holders
<1>2. IsFiniteSet(Holders(e))
  BY <1>1, FS_Subset
<1> QED BY <1>2, FS_CardinalityType

(* A task without a lease takes one. *)
LEMMA HolderAdded ==
  ASSUME TypeOK, NEW t \in Tasks, NEW e \in Entries, lease[t] = None,
         lease' = [lease EXCEPT ![t] = e], NEW f \in Entries
  PROVE  Cardinality(Holders(f)') = Cardinality(Holders(f)) + (IF f = e THEN 1 ELSE 0)
<1>1. e # None /\ f # None
  BY PoolConstants
<1>2. CASE f = e
  <2>1. Holders(f)' = Holders(f) \union {t} /\ t \notin Holders(f)
    BY <1>1, <1>2 DEF Holders, TypeOK, PoolTypeOK
  <2> QED BY <1>2, <2>1, HoldersFinite, FS_AddElement
<1>3. CASE f # e
  <2>1. Holders(f)' = Holders(f)
    BY <1>1, <1>3 DEF Holders, TypeOK, PoolTypeOK
  <2> QED BY <1>3, <2>1, HoldersFinite
<1> QED BY <1>2, <1>3

(* A holder gives its lease back. *)
LEMMA HolderRemoved ==
  ASSUME TypeOK, NEW t \in Tasks, lease[t] # None,
         lease' = [lease EXCEPT ![t] = None], NEW f \in Entries
  PROVE  /\ Cardinality(Holders(f)') = Cardinality(Holders(f)) - (IF f = lease[t] THEN 1 ELSE 0)
         /\ f = lease[t] => Cardinality(Holders(f)) >= 1
<1>1. f # None
  BY PoolConstants
<1>2. CASE f = lease[t]
  <2>1. Holders(f)' = Holders(f) \ {t} /\ t \in Holders(f)
    BY <1>1, <1>2 DEF Holders, TypeOK, PoolTypeOK
  <2>2. Cardinality(Holders(f)) # 0
    BY <2>1, HoldersFinite, FS_EmptySet
  <2> QED BY <1>2, <2>1, <2>2, HoldersFinite, FS_RemoveElement
<1>3. CASE f # lease[t]
  <2>1. Holders(f)' = Holders(f)
    BY <1>1, <1>3 DEF Holders, TypeOK, PoolTypeOK
  <2> QED BY <1>3, <2>1, HoldersFinite
<1> QED BY <1>2, <1>3

LEMMA Removal ==
  ASSUME NEW S, NEW s \in Seq(S), NEW i \in DOMAIN s
  PROVE  /\ RemoveAt(s, i) \in Seq(S)
         /\ DOMAIN RemoveAt(s, i) = 1..(Len(s) - 1)
         /\ \A j \in 1..(Len(s) - 1) : RemoveAt(s, i)[j] = IF j < i THEN s[j] ELSE s[j + 1]
<1> DEFINE a == SubSeq(s, 1, i - 1)
           b == SubSeq(s, i + 1, Len(s))
<1>1. i \in 1..Len(s) /\ Len(s) \in Nat
  OBVIOUS
<1>2. a \in Seq(S) /\ Len(a) = i - 1 /\ \A j \in 1..(i - 1) : a[j] = s[j]
  BY <1>1
<1>3. b \in Seq(S) /\ Len(b) = Len(s) - i /\ \A j \in 1..(Len(s) - i) : b[j] = s[j + i]
  BY <1>1
<1>4. RemoveAt(s, i) = a \o b
  BY DEF RemoveAt
<1> HIDE DEF a, b
<1>5. a \o b \in Seq(S) /\ Len(a \o b) = Len(s) - 1
  BY <1>1, <1>2, <1>3
<1>6. ASSUME NEW j \in 1..(Len(s) - 1) PROVE (a \o b)[j] = IF j < i THEN s[j] ELSE s[j + 1]
  <2>1. CASE j < i
    BY <1>1, <1>2, <1>3, <2>1
  <2>2. CASE j >= i
    <3> DEFINE m == j - (i - 1)
    <3>1. m \in 1..(Len(s) - i) /\ m + i = j + 1 /\ ~(j < i)
      BY <1>1, <2>2
    <3>2. ~(j <= Len(a)) /\ m = j - Len(a) /\ j \in 1..(Len(a) + Len(b))
      BY <1>1, <1>2, <1>3, <2>2
    <3>4. a \in Seq(S) /\ b \in Seq(S)
      BY <1>2, <1>3
    <3> HIDE DEF m
    <3>5. (a \o b)[j] = b[m]
      BY <3>2, <3>4
    <3>3. b[m] = s[m + i]
      BY <1>3, <3>1
    <3> QED BY <3>1, <3>3, <3>5
  <2>4. j < i \/ j >= i
    BY <1>1
  <2> QED BY <2>1, <2>2, <2>4
<1> DEFINE c == a \o b
<1>7. c \in Seq(S) /\ Len(c) = Len(s) - 1
  BY <1>5
<1>8. \A j \in 1..(Len(s) - 1) : c[j] = IF j < i THEN s[j] ELSE s[j + 1]
  BY <1>6
<1> HIDE DEF c
<1>9. DOMAIN c = 1..(Len(s) - 1)
  BY <1>7
<1>10. RemoveAt(s, i) = c
  BY <1>4 DEF c
<1> QED BY <1>7, <1>8, <1>9, <1>10

LEMMA RouteType ==
  ASSUME NEW c \in Configs, NEW t \in Tasks, NEW i \in Positions(c, t)
  PROVE  Route[c][t][i] \in Entries /\ i \in Nat
BY PoolConstants DEF Positions

(* More slots in use leave a task stuck. *)
LEMMA StuckStays ==
  ASSUME NEW c \in Configs, NEW r \in [Entries -> Nat], NEW q \in [Entries -> Nat],
         \A e \in Entries : q[e] >= r[e], NEW a, NEW t \in Tasks, Stuck(c, r, a, t)
  PROVE  Stuck(c, q, a, t)
<1>1. SUFFICES ASSUME NEW i \in Behind(c, a, t)
               PROVE  ~(q[Route[c][t][i]] < Capacity[c][Route[c][t][i]])
  BY DEF Stuck
<1> DEFINE e == Route[c][t][i]
<1>2. e \in Entries
  BY RouteType DEF Behind
<1>3. ~(r[e] < Capacity[c][e])
  BY DEF Stuck
<1>4. r[e] \in Nat /\ q[e] \in Nat /\ q[e] >= r[e]
  BY <1>2
<1>5. Capacity[c][e] \in Nat
  BY <1>2, PoolConstants
<1> HIDE DEF e
<1>6. ~(q[e] < Capacity[c][e])
  BY <1>3, <1>4, <1>5
<1> QED BY <1>6 DEF e

LEMMA ConfType ==
  ASSUME PoolTypeOK, NEW t \in Tasks
  PROVE  Conf(t) \in Configs
BY DEF PoolTypeOK, Conf

(* So a blocked waiter stays blocked, while it keeps its entry and copy.   *)
LEMMA BlockedStays ==
  ASSUME PoolTypeOK, NEW t \in Tasks, Blocked(t),
         running' \in [Entries -> Nat], \A e \in Entries : running'[e] >= running[e],
         last'[t] = last[t], copy'[t] = copy[t], UNCHANGED <<cfg, refresh>>
  PROVE  Blocked(t)'
<1>1. SUFFICES ASSUME copy[t] # None \/ ~refresh
               PROVE  Stuck(Conf(t), running', last[t], t)
  BY DEF Blocked, Conf
<1>2. Stuck(Conf(t), running, last[t], t)
  BY <1>1 DEF Blocked
<1> QED BY <1>2, ConfType, StuckStays DEF PoolTypeOK

(***************************************************************************)
(* Frames.                                                                 *)
(***************************************************************************)
LEMMA PoolStays ==
  ASSUME PumpInv, UNCHANGED <<pool, resume, slot, lost, refresh>>,
         \A t \in Tasks : st'[t] = st[t] \/ (st[t] # "waiting" /\ lease[t] = None /\ t # resume)
  PROVE  WaitersWait' /\ LeasesRun' /\ SlotsAccounted' /\ PassedBlocked'
<1> USE DEF PumpInv, pool
<1>1. WaitersWait'
  BY DEF WaitersWait, TypeOK, PoolTypeOK
<1>2. LeasesRun'
  BY PoolConstants DEF LeasesRun, TypeOK, PoolTypeOK
<1>3. SlotsAccounted'
  BY DEF SlotsAccounted
<1>4. PassedBlocked'
  BY DEF PassedBlocked, Blocked, Conf
<1> QED BY <1>1, <1>2, <1>3, <1>4

PumpingTypes ==
  /\ pump \in {"off", "top", "scan", "failing", "routing", "choosing", "holding", "checking"}
  /\ again \in BOOLEAN /\ budget \in Nat /\ todo \subseteq Tasks

LEMMA CallPumpTypes ==
  ASSUME TypeOK, CallPump
  PROVE  PumpingTypes' /\ (pump' = pump \/ (pump = "off" /\ pump' = "top"))
BY PumpConstants DEF TypeOK, PoolTypeOK, CallPump, pumping, PumpingTypes

LEMMA PumpReturnsTypes ==
  ASSUME TypeOK, PumpReturns, cfg \in Configs
  PROVE  PumpingTypes' /\ pump' \in {"top", "off"}
<1>1. MaxWorkers[cfg] \in Nat
  BY PumpConstants
<1>2. again' \in BOOLEAN
  BY DEF TypeOK, PumpReturns
<1>3. budget' \in Nat /\ todo' \subseteq Tasks /\ pump' \in {"top", "off"}
  BY <1>1 DEF TypeOK, PumpReturns
<1> QED BY <1>2, <1>3 DEF PumpingTypes

(* SlotsAccounted, by entry. *)
Accounted(e) ==
  /\ running[e] = Cardinality(Holders(e)) + (IF slot = e THEN 1 ELSE 0) + lost[e]
  /\ Cardinality(Holders(e)) \in Nat

AllAccounted == \A e \in Entries : Accounted(e)

LEMMA AccountedByEntry == SlotsAccounted <=> AllAccounted
BY HoldersFinite DEF SlotsAccounted, AllAccounted, Accounted, Holders

(***************************************************************************)
(* The pump.                                                               *)
(***************************************************************************)
LEMMA PumpKeeps ==
  ASSUME PumpInv, Pump
  PROVE  PumpInv'
<1> USE DEF PumpInv, TypeOK, PoolTypeOK, pool, tasks, pumping, picked, failures, outside, PumpAt
<1>1. CASE PumpTop
  <2>1. TypeOK'
    BY <1>1, PumpReturnsTypes DEF PumpTop, PumpingTypes
  <2>2. HandHeld'
    BY <1>1, PumpReturnsTypes DEF PumpTop, PumpingTypes, HandHeld
  <2>4. WaitersWait' /\ LeasesRun' /\ SlotsAccounted' /\ PassedBlocked'
    BY <1>1, PoolStays DEF PumpTop, PumpingTypes
  <2> QED BY <2>1, <2>2, <2>4
<1>2. CASE PumpDone
  <2>1. TypeOK'
    BY <1>2, PumpReturnsTypes DEF PumpDone, PumpingTypes
  <2>2. HandHeld'
    BY <1>2, PumpReturnsTypes DEF PumpDone, PumpingTypes, HandHeld
  <2>4. WaitersWait' /\ LeasesRun' /\ SlotsAccounted' /\ PassedBlocked'
    BY <1>2, PoolStays DEF PumpDone, PumpingTypes
  <2> QED BY <2>1, <2>2, <2>4
<1>3. CASE FailSaved
  <2>1. TypeOK'
    BY <1>3 DEF FailSaved
  <2>2. HandHeld'
    BY <1>3 DEF FailSaved, HandHeld
  <2>4. WaitersWait' /\ LeasesRun' /\ SlotsAccounted' /\ PassedBlocked'
    BY <1>3, PoolStays DEF FailSaved
  <2> QED BY <2>1, <2>2, <2>4
<1>4. CASE HoldEnds
  <2>1. TypeOK'
    BY <1>4 DEF HoldEnds
  <2>2. HandHeld'
    BY <1>4 DEF HoldEnds, HandHeld
  <2>4. WaitersWait' /\ LeasesRun' /\ SlotsAccounted' /\ PassedBlocked'
    BY <1>4, PoolStays DEF HoldEnds
  <2> QED BY <2>1, <2>2, <2>4
<1>5. ASSUME NEW t \in Tasks, PickUnroutable(t) PROVE PumpInv'
  <2>1. TypeOK'
    BY <1>5 DEF PickUnroutable
  <2>2. HandHeld'
    BY <1>5 DEF PickUnroutable, HandHeld
  <2>4. WaitersWait' /\ LeasesRun' /\ SlotsAccounted' /\ PassedBlocked'
    <3>1. \A u \in Tasks : st'[u] = st[u] \/ (st[u] # "waiting" /\ lease[u] = None /\ u # resume)
      BY <1>5, PoolConstants DEF PickUnroutable, LeasesRun
    <3> QED BY <1>5, <3>1, PoolStays DEF PickUnroutable
  <2> QED BY <2>1, <2>2, <2>4
<1>6. ASSUME NEW t \in Tasks, Pick(t) PROVE PumpInv'
  <2>1. TypeOK'
    BY <1>6 DEF Pick
  <2>2. HandHeld'
    BY <1>6 DEF Pick, HandHeld
  <2>4. WaitersWait' /\ LeasesRun' /\ SlotsAccounted' /\ PassedBlocked'
    BY <1>6, PoolStays DEF Pick
  <2> QED BY <2>1, <2>2, <2>4
<1>7. CASE NoSlot
  <2>1. TypeOK'
    BY <1>7 DEF NoSlot, NextTask, HandHeld
  <2>2. HandHeld'
    BY <1>7 DEF NoSlot, NextTask, HandHeld, HandHeld
  <2>4. WaitersWait' /\ LeasesRun' /\ SlotsAccounted' /\ PassedBlocked'
    BY <1>7, PoolStays DEF NoSlot, NextTask, HandHeld
  <2> QED BY <2>1, <2>2, <2>4
<1>8. ASSUME NEW e \in Entries, Choose(e) PROVE PumpInv'
  <2>1. e # None /\ running[e] + 1 \in Nat /\ slot = None
    BY <1>8, PoolConstants DEF Choose, HandHeld
  <2>2. TypeOK'
    BY <1>8, <2>1 DEF Choose, Occupy
  <2>3. HandHeld'
    BY <1>8, <2>1 DEF Choose, HandHeld
  <2>4. WaitersWait' /\ LeasesRun'
    BY <1>8 DEF Choose, WaitersWait, LeasesRun
  <2>5. SlotsAccounted'
    <3>1. AllAccounted'
      <4>1. SUFFICES ASSUME NEW f \in Entries PROVE Accounted(f)'
        BY DEF AllAccounted
      <4>2. Accounted(f) /\ f # None
        BY AccountedByEntry, PoolConstants DEF AllAccounted
      <4> QED BY <1>8, <2>1, <4>2 DEF Choose, Occupy, Accounted, Holders
    <3> QED BY <3>1, AccountedByEntry, PTL
  <2>6. PassedBlocked'
    <3>1. \A f \in Entries : running'[f] \in Nat /\ running'[f] >= running[f]
      BY <1>8, <2>1 DEF Choose, Occupy
    <3>2. /\ UNCHANGED <<cfg, copy, last, waiters, draining, refresh>>
          /\ running' \in [Entries -> Nat]
      BY <1>8, <2>1 DEF Choose, Occupy
    <3>3. \A t \in Tasks : Blocked(t) => Blocked(t)'
      BY <3>1, <3>2, BlockedStays
    <3> QED BY <3>2, <3>3 DEF PassedBlocked
  <2> QED BY <2>1, <2>2, <2>3, <2>4, <2>5, <2>6
<1>9. CASE Launch
  <2>1. hand \in Tasks /\ slot \in Entries /\ st[hand] = "queued" /\ lease[hand] = None /\ hand # resume
    BY <1>9, PoolConstants DEF Launch, HandHeld, StillWanted, LeasesRun
  <2>2. TypeOK'
    BY <1>9, <2>1, PoolConstants DEF Launch, NextTask, Become
  <2>3. HandHeld'
    BY <1>9 DEF Launch, NextTask, HandHeld
  <2>4. WaitersWait'
    BY <1>9, <2>1 DEF Launch, Become, WaitersWait
  <2>5. LeasesRun'
    BY <1>9, <2>1 DEF Launch, Become, LeasesRun
  <2>6. SlotsAccounted'
    <3>1. ASSUME NEW f \in Entries
          PROVE  Cardinality(Holders(f)') = Cardinality(Holders(f)) + (IF f = slot THEN 1 ELSE 0)
      BY <1>9, <2>1, HolderAdded DEF Launch
    <3>2. slot' = None /\ UNCHANGED <<running, lost>>
      BY <1>9 DEF Launch, NextTask
    <3>3. AllAccounted'
      <4>1. SUFFICES ASSUME NEW f \in Entries PROVE Accounted(f)'
        BY DEF AllAccounted
      <4>2. Accounted(f) /\ f # None
        BY AccountedByEntry, PoolConstants DEF AllAccounted
      <4> QED BY <2>1, <3>1, <3>2, <4>2 DEF Accounted
    <3> QED BY <3>3, AccountedByEntry, PTL
  <2>7. PassedBlocked'
    <3>1. \A i \in DOMAIN waiters : waiters[i] \in Tasks /\ waiters[i] # hand
      BY <2>1 DEF WaitersWait
    <3>2. /\ UNCHANGED <<cfg, copy, running, waiters, draining, refresh>>
          /\ \A t \in Tasks \ {hand} : last'[t] = last[t]
      BY <1>9 DEF Launch
    <3> QED BY <3>1, <3>2 DEF PassedBlocked, Blocked, Conf
  <2> QED BY <2>1, <2>2, <2>3, <2>4, <2>5, <2>6, <2>7
<1>10. CASE DropStale
  <2>1. slot \in Entries
    BY <1>10 DEF DropStale, HandHeld
  <2>2. running[slot] >= 1
    BY <2>1, AccountedByEntry DEF AllAccounted, Accounted
  <2>3. TypeOK'
    BY <1>10, <2>1, <2>2 DEF DropStale, Vacate, Drain, NextTask
  <2>4. HandHeld'
    BY <1>10 DEF DropStale, NextTask, HandHeld
  <2>5. WaitersWait' /\ LeasesRun'
    BY <1>10 DEF DropStale, WaitersWait, LeasesRun
  <2>6. SlotsAccounted'
    <3>1. AllAccounted'
      <4>1. SUFFICES ASSUME NEW f \in Entries PROVE Accounted(f)'
        BY DEF AllAccounted
      <4>2. Accounted(f) /\ f # None
        BY AccountedByEntry, PoolConstants DEF AllAccounted
      <4> QED BY <1>10, <2>1, <4>2 DEF DropStale, Vacate, NextTask, Accounted, Holders
    <3> QED BY <3>1, AccountedByEntry, PTL
  <2>7. PassedBlocked'
    <3>1. UNCHANGED waiters /\ draining' = IF waiters = <<>> THEN 0 ELSE 1
      BY <1>10 DEF DropStale, Vacate, Drain
    <3> QED BY <3>1 DEF PassedBlocked
  <2> QED BY <2>1, <2>2, <2>3, <2>4, <2>5, <2>6, <2>7
<1> QED BY <1>1, <1>2, <1>3, <1>4, <1>5, <1>6, <1>7, <1>8, <1>9, <1>10 DEF Pump

(***************************************************************************)
(* The queue and the leases.                                               *)
(***************************************************************************)
LEMMA Skipping ==
  ASSUME NEW n \in Nat, NEW i \in 1..n, NEW j \in 1..(n - 1)
  PROVE  (IF j < i THEN j ELSE j + 1) \in 1..n \ {i}
OBVIOUS

(* One waiter leaves the queue and runs on. *)
LEMMA WaiterLeaves ==
  ASSUME TypeOK, WaitersWait, NEW i \in DOMAIN waiters, Unqueue(i), Become(waiters[i], "running")
  PROVE  /\ waiters' \in Seq(Tasks)
         /\ WaitersWait'
         /\ \A j \in DOMAIN waiters' : \E k \in DOMAIN waiters :
              /\ waiters'[j] = waiters[k] /\ waiters[k] # waiters[i]
              /\ j < i => k = j
<1> USE DEF TypeOK, PoolTypeOK
<1>1. i \in 1..Len(waiters) /\ Len(waiters) \in Nat /\ waiters \in Seq(Tasks)
  OBVIOUS
<1>2. /\ waiters' \in Seq(Tasks) /\ DOMAIN waiters' = 1..(Len(waiters) - 1)
      /\ \A j \in 1..(Len(waiters) - 1) : waiters'[j] = IF j < i THEN waiters[j] ELSE waiters[j + 1]
  BY <1>1, Removal DEF Unqueue
<1> DEFINE From(j) == IF j < i THEN j ELSE j + 1
<1>3. ASSUME NEW j \in DOMAIN waiters'
      PROVE  From(j) \in DOMAIN waiters /\ waiters'[j] = waiters[From(j)] /\ From(j) # i
  <2>1. j \in 1..(Len(waiters) - 1) /\ i \in 1..Len(waiters) /\ Len(waiters) \in Nat
    BY <1>1, <1>2
  <2>2. waiters'[j] = IF j < i THEN waiters[j] ELSE waiters[j + 1]
    BY <1>2
  <2>3. From(j) \in 1..Len(waiters) /\ From(j) # i
    BY <2>1, Skipping
  <2> QED BY <1>1, <2>2, <2>3
<1>4. ASSUME NEW j \in DOMAIN waiters', NEW k \in DOMAIN waiters', From(j) = From(k)
      PROVE  j = k
  <2>1. /\ j \in 1..(Len(waiters) - 1) /\ k \in 1..(Len(waiters) - 1)
        /\ i \in 1..Len(waiters) /\ Len(waiters) \in Nat
    BY <1>1, <1>2
  <2> QED BY <1>4, <2>1
<1>5. \A j \in DOMAIN waiters' : j < i => From(j) = j
  OBVIOUS
<1> HIDE DEF From
<1>6. \A j \in DOMAIN waiters' : waiters[From(j)] # waiters[i]
  BY <1>3 DEF WaitersWait
<1>7. WaitersWait'
  <2>1. \A j \in DOMAIN waiters' : st'[waiters'[j]] = "waiting"
    <3>1. SUFFICES ASSUME NEW j \in DOMAIN waiters' PROVE st'[waiters'[j]] = "waiting"
      OBVIOUS
    <3>2. waiters'[j] \in Tasks /\ waiters'[j] # waiters[i] /\ st[waiters'[j]] = "waiting"
      BY <1>2, <1>3, <1>6 DEF WaitersWait
    <3> QED BY <3>2 DEF Become
  <2>2. \A j, k \in DOMAIN waiters' : waiters'[j] = waiters'[k] => j = k
    BY <1>3, <1>4 DEF WaitersWait
  <2> QED BY <2>1, <2>2 DEF WaitersWait
<1> QED BY <1>2, <1>3, <1>5, <1>6, <1>7

(* A lease is given back, and its slot with it. *)
LEMMA ReleaseKeeps ==
  ASSUME PumpInv, NEW t \in Tasks, Release(t), UNCHANGED <<slot, lost, refresh>>,
         copy' \in [Tasks -> Configs \union {None}],
         \A i \in DOMAIN waiters : copy'[waiters[i]] = copy[waiters[i]]
  PROVE  /\ PoolTypeOK' /\ SlotsAccounted' /\ PassedBlocked'
         /\ lease' = [lease EXCEPT ![t] = None]
         /\ UNCHANGED <<waiters, last, cfg>>
<1> USE DEF PumpInv, TypeOK, PoolTypeOK
<1>1. lease' = [lease EXCEPT ![t] = None] /\ UNCHANGED <<waiters, last, cfg>>
  BY DEF Release
<1>2. CASE lease[t] = None
  <2>1. UNCHANGED <<running, lease, draining>>
    BY <1>1, <1>2 DEF Release
  <2>2. PoolTypeOK'
    BY <1>1, <2>1
  <2>3. SlotsAccounted'
    BY <2>1 DEF SlotsAccounted
  <2>4. PassedBlocked'
    BY <1>1, <2>1 DEF PassedBlocked, Blocked, Conf
  <2> QED BY <1>1, <2>2, <2>3, <2>4
<1>3. CASE lease[t] # None
  <2>1. lease[t] \in Entries /\ Vacate(lease[t])
    BY <1>3 DEF Release
  <2>2. \A f \in Entries :
          /\ Cardinality(Holders(f)') = Cardinality(Holders(f)) - (IF f = lease[t] THEN 1 ELSE 0)
          /\ f = lease[t] => Cardinality(Holders(f)) >= 1
    BY <1>1, <1>3, HolderRemoved
  <2>3. ASSUME NEW f \in Entries
        PROVE  Accounted(f)' /\ running'[f] \in Nat
    <3>1. Accounted(f)
      BY AccountedByEntry DEF AllAccounted
    <3>2. running[f] \in Nat /\ lost[f] \in Nat /\ running' = [running EXCEPT ![lease[t]] = @ - 1]
      BY <2>1 DEF Vacate
    <3>3. CASE f = lease[t]
      <4>1. Cardinality(Holders(f)') = Cardinality(Holders(f)) - 1 /\ Cardinality(Holders(f)) >= 1
        BY <2>2, <3>3
      <4>2. running'[f] = running[f] - 1
        BY <3>2, <3>3
      <4> DEFINE h == Cardinality(Holders(f))
                 s == IF slot = f THEN 1 ELSE 0
      <4>3. running[f] = h + s + lost[f] /\ h \in Nat /\ s \in Nat /\ lost[f] \in Nat
        BY <3>1, <3>2 DEF Accounted
      <4>4. Cardinality(Holders(f)') = h - 1 /\ h >= 1
        BY <4>1
      <4>5. (IF slot' = f THEN 1 ELSE 0) = s /\ lost'[f] = lost[f]
        OBVIOUS
      <4> HIDE DEF h, s
      <4>6. running'[f] = (h - 1) + s + lost[f] /\ running'[f] \in Nat /\ h - 1 \in Nat
        BY <4>2, <4>3, <4>4
      <4> QED BY <4>4, <4>5, <4>6 DEF Accounted
    <3>4. CASE f # lease[t]
      BY <2>1, <2>2, <3>1, <3>2, <3>4 DEF Accounted
    <3> QED BY <3>3, <3>4
  <2>4. SlotsAccounted'
    <3>1. AllAccounted'
      BY <2>3 DEF AllAccounted
    <3> QED BY <3>1, AccountedByEntry, PTL
  <2>5. running' \in [Entries -> Nat] /\ draining' = IF waiters = <<>> THEN 0 ELSE 1
    BY <2>1, <2>3 DEF Vacate, Drain
  <2>6. PoolTypeOK'
    BY <1>1, <2>5
  <2>7. PassedBlocked'
    BY <1>1, <2>5 DEF PassedBlocked
  <2> QED BY <1>1, <2>4, <2>6, <2>7
<1> QED BY <1>2, <1>3

(* A task without a lease takes one, with its slot. *)
LEMMA TakeKeeps ==
  ASSUME PumpInv, NEW t \in Tasks, NEW e \in Entries, Take(t, e), lease[t] = None,
         UNCHANGED <<slot, lost>>
  PROVE  /\ running' \in [Entries -> Nat] /\ lease' \in [Tasks -> Entries \union {None}]
         /\ last' \in [Tasks -> Entries \union {None}]
         /\ SlotsAccounted'
         /\ \A f \in Entries : running'[f] \in Nat /\ running'[f] >= running[f]
<1> USE DEF PumpInv, TypeOK, PoolTypeOK, Take, Occupy
<1>1. \A f \in Entries :
        Cardinality(Holders(f)') = Cardinality(Holders(f)) + (IF f = e THEN 1 ELSE 0)
  BY HolderAdded
<1>2. SlotsAccounted'
  <2>1. AllAccounted'
    <3>1. SUFFICES ASSUME NEW f \in Entries PROVE Accounted(f)'
      BY DEF AllAccounted
    <3>2. Accounted(f)
      BY AccountedByEntry DEF AllAccounted
    <3>3. running[f] \in Nat /\ lost[f] \in Nat
      OBVIOUS
    <3> DEFINE h == Cardinality(Holders(f))
               s == IF slot = f THEN 1 ELSE 0
               n == IF f = e THEN 1 ELSE 0
    <3>4. running[f] = h + s + lost[f] /\ h \in Nat /\ s \in Nat /\ n \in Nat
      BY <3>2 DEF Accounted
    <3>5. Cardinality(Holders(f)') = h + n
      BY <1>1
    <3>6. (IF slot' = f THEN 1 ELSE 0) = s /\ lost'[f] = lost[f]
      OBVIOUS
    <3>7. running'[f] = running[f] + n
      OBVIOUS
    <3> HIDE DEF h, s, n
    <3>8. running'[f] = (h + n) + s + lost[f] /\ h + n \in Nat
      BY <3>3, <3>4, <3>7
    <3> QED BY <3>5, <3>6, <3>8 DEF Accounted
  <2> QED BY <2>1, AccountedByEntry, PTL
<1>3. running' \in [Entries -> Nat] /\ \A f \in Entries : running'[f] \in Nat /\ running'[f] >= running[f]
  OBVIOUS
<1> QED BY <1>2, <1>3

LEMMA DrainKeeps ==
  ASSUME PumpInv, DrainStep
  PROVE  PumpInv'
<1> USE DEF PumpInv, TypeOK, PoolTypeOK, pumping, picked, failures, outside
<1>1. HandHeld' /\ UNCHANGED <<work, saving, aborted, pumping, picked, resume, outside, failures>>
  BY DEF DrainStep, HandHeld
<1>2. CASE DrainDismiss /\ Become(NextWaiter, "running")
  <2>1. /\ draining \in DOMAIN waiters /\ Unqueue(draining) /\ Become(waiters[draining], "running")
        /\ UNCHANGED <<cfg, copy, running, lease, last, draining, refresh>> /\ draining # 0
    BY <1>1, <1>2 DEF DrainDismiss, Draining, NextWaiter
  <2>2. /\ waiters' \in Seq(Tasks) /\ WaitersWait'
        /\ \A j \in DOMAIN waiters' : j < draining => waiters'[j] = waiters[j] /\ j \in DOMAIN waiters
    BY <2>1, WaiterLeaves
  <2>3. waiters[draining] \in Tasks /\ st[waiters[draining]] = "waiting"
    BY <2>1 DEF WaitersWait
  <2>4. TypeOK'
    BY <1>1, <2>1, <2>2, <2>3 DEF Become
  <2>5. LeasesRun'
    BY <1>1, <2>1, <2>3 DEF Become, LeasesRun
  <2>6. SlotsAccounted'
    BY <1>1, <2>1 DEF SlotsAccounted
  <2>7. PassedBlocked'
    BY <2>1, <2>2 DEF PassedBlocked, Blocked, Conf
  <2> QED BY <1>1, <2>2, <2>4, <2>5, <2>6, <2>7
<1>3. ASSUME NEW e \in Entries, DrainGrant(e), Become(NextWaiter, "running") PROVE PumpInv'
  <2>1. /\ draining \in DOMAIN waiters /\ Unqueue(draining) /\ Become(waiters[draining], "running")
        /\ Take(waiters[draining], e) /\ UNCHANGED <<cfg, copy, draining, refresh>> /\ draining # 0
    BY <1>1, <1>3 DEF DrainGrant, Draining, NextWaiter
  <2>2. /\ waiters' \in Seq(Tasks) /\ WaitersWait'
        /\ \A j \in DOMAIN waiters' :
             j < draining => waiters'[j] = waiters[j] /\ j \in DOMAIN waiters
                             /\ waiters[j] # waiters[draining]
    BY <2>1, WaiterLeaves
  <2>3. /\ waiters[draining] \in Tasks /\ st[waiters[draining]] = "waiting"
        /\ lease[waiters[draining]] = None /\ waiters[draining] # resume
    <3>1. waiters[draining] \in Tasks /\ st[waiters[draining]] = "waiting"
      BY <2>1 DEF WaitersWait
    <3> QED BY <3>1, PoolConstants DEF LeasesRun
  <2>4. /\ running' \in [Entries -> Nat] /\ lease' \in [Tasks -> Entries \union {None}]
        /\ last' \in [Tasks -> Entries \union {None}] /\ SlotsAccounted'
        /\ \A f \in Entries : running'[f] \in Nat /\ running'[f] >= running[f]
    BY <1>1, <2>1, <2>3, TakeKeeps
  <2>5. TypeOK'
    BY <1>1, <2>1, <2>2, <2>3, <2>4 DEF Become
  <2>6. LeasesRun'
    BY <1>1, <2>1, <2>3 DEF Become, Take, LeasesRun
  <2>7. PassedBlocked'
    <3>1. SUFFICES ASSUME NEW j \in DOMAIN waiters', j < draining
                   PROVE  Blocked(waiters[j])' /\ waiters'[j] = waiters[j]
      BY <2>1 DEF PassedBlocked
    <3>2. /\ waiters'[j] = waiters[j] /\ j \in DOMAIN waiters /\ waiters[j] \in Tasks
          /\ waiters[j] # waiters[draining]
      BY <2>2, <3>1
    <3>3. Blocked(waiters[j])
      BY <3>1, <3>2 DEF PassedBlocked
    <3>4. last'[waiters[j]] = last[waiters[j]]
      BY <2>1, <3>2 DEF Take
    <3> DEFINE u == waiters[j]
    <3> QED BY <2>1, <2>4, <3>2, <3>3, <3>4, BlockedStays
  <2> QED BY <1>1, <2>2, <2>4, <2>5, <2>6, <2>7
<1>4. CASE (DrainSkip \/ DrainEnds) /\ draining > 0 /\ UNCHANGED st
  <2>1. UNCHANGED <<cfg, copy, running, lease, last, waiters>> /\ draining' \in Nat
    BY <1>4 DEF DrainSkip, DrainEnds
  <2>2. TypeOK' /\ WaitersWait' /\ LeasesRun' /\ SlotsAccounted'
    BY <1>1, <1>4, <2>1 DEF WaitersWait, LeasesRun, SlotsAccounted
  <2>5. \A i \in DOMAIN waiters : Blocked(waiters[i])' = Blocked(waiters[i])
    BY <1>1, <2>1 DEF Blocked, Conf
  <2>3. CASE DrainSkip
    <3>1. draining \in DOMAIN waiters /\ waiters[draining] \in Tasks /\ draining' = draining + 1
      BY <2>3 DEF DrainSkip, Draining
    <3>2. Blocked(waiters[draining])
      BY <2>3 DEF DrainSkip, NextWaiter, Blocked, Stuck, Behind, After, Open
    <3>3. ASSUME NEW i \in DOMAIN waiters, i < draining + 1
          PROVE  Blocked(waiters[i])
      <4>1. i < draining \/ i = draining
        BY <3>1, <3>3
      <4> QED BY <3>2, <4>1 DEF PassedBlocked
    <3>4. PassedBlocked'
      <4>1. draining' # 0 /\ \A i \in DOMAIN waiters : i < draining' => i < draining + 1
        BY <3>1
      <4> QED BY <2>1, <2>5, <3>3, <4>1 DEF PassedBlocked
    <3> QED BY <1>1, <2>2, <3>4
  <2>4. CASE DrainEnds
    <3>1. \A i \in DOMAIN waiters : i < draining
      BY <2>4 DEF DrainEnds
    <3>2. \A i \in DOMAIN waiters : Blocked(waiters[i])
      BY <3>1 DEF PassedBlocked
    <3>3. PassedBlocked'
      BY <2>1, <2>5, <3>2 DEF PassedBlocked
    <3> QED BY <1>1, <2>2, <3>3
  <2> QED BY <1>1, <1>4, <2>2, <2>3, <2>4
<1> QED BY <1>2, <1>3, <1>4 DEF DrainStep

(***************************************************************************)
(* The other steps.                                                        *)
(***************************************************************************)
LEMMA TasksKeep ==
  ASSUME PumpInv, NEW t \in Tasks,
         \/ Admit(t) \/ Admitted(t) \/ AdmitFails(t)
         \/ Settle(t) \/ End(t) \/ CopySettings(t) \/ InterruptQueued(t) \/ Abort(t)
  PROVE  PumpInv'
<1> USE DEF PumpInv, TypeOK, PoolTypeOK, pool, pumping, picked, failures, outside, Quiet
<1>1. CASE Admit(t)
  <2>1. st' = [st EXCEPT ![t] = "queued"] /\ st[t] = "idle"
    BY <1>1 DEF Admit, Become
  <2>2. lease[t] = None
    BY <2>1 DEF LeasesRun
  <2>3. TypeOK'
    BY <1>1, <2>1 DEF Admit
  <2>4. HandHeld'
    BY <1>1, <2>1 DEF Admit, HandHeld
  <2>5. WaitersWait' /\ LeasesRun' /\ SlotsAccounted' /\ PassedBlocked'
    BY <1>1, <2>1, <2>2, PoolConstants, PoolStays DEF Admit
  <2> QED BY <2>3, <2>4, <2>5
<1>2. CASE Admitted(t)
  <2>1. PumpingTypes' /\ (pump' = pump \/ (pump = "off" /\ pump' = "top"))
    BY <1>2, CallPumpTypes DEF Admitted
  <2>2. TypeOK'
    BY <1>2, <2>1 DEF Admitted, PumpingTypes
  <2>3. HandHeld'
    BY <1>2, <2>1 DEF Admitted, HandHeld
  <2>4. WaitersWait' /\ LeasesRun' /\ SlotsAccounted' /\ PassedBlocked'
    BY <1>2, PoolStays DEF Admitted
  <2> QED BY <2>2, <2>3, <2>4
<1>3. CASE AdmitFails(t)
  <2>1. TypeOK'
    BY <1>3, PumpConstants DEF AdmitFails
  <2>2. HandHeld'
    BY <1>3 DEF AdmitFails, HandHeld
  <2>3. WaitersWait' /\ LeasesRun' /\ SlotsAccounted' /\ PassedBlocked'
    BY <1>3, PoolStays DEF AdmitFails
  <2> QED BY <2>1, <2>2, <2>3
<1>4. CASE Settle(t)
  <2>1. /\ st' = [st EXCEPT ![t] = "settled"] /\ st[t] = "running" /\ resume = None /\ Release(t)
        /\ UNCHANGED <<work, saving, aborted, pumping, picked, resume, outside, failures>>
        /\ copy' = [copy EXCEPT ![t] = None]
    BY <1>4 DEF Settle, Become
  <2>6. \A i \in DOMAIN waiters : waiters[i] \in Tasks /\ waiters[i] # t
    BY <2>1 DEF WaitersWait
  <2>2. /\ PoolTypeOK' /\ SlotsAccounted' /\ PassedBlocked'
        /\ lease' = [lease EXCEPT ![t] = None] /\ UNCHANGED <<waiters, last, cfg>>
    BY <2>1, <2>6, ReleaseKeeps
  <2>3. TypeOK'
    BY <2>1, <2>2
  <2>4. HandHeld'
    BY <2>1 DEF HandHeld
  <2>5. WaitersWait' /\ LeasesRun'
    BY <2>1, <2>2 DEF WaitersWait, LeasesRun
  <2> QED BY <2>2, <2>3, <2>4, <2>5
<1>5. CASE End(t)
  <2>1. PumpingTypes' /\ (pump' = pump \/ (pump = "off" /\ pump' = "top"))
    BY <1>5, CallPumpTypes DEF End, Freed
  <2>2. st' = [st EXCEPT ![t] = "idle"] /\ st[t] = "settled" /\ resume = None
    BY <1>5 DEF End, Become
  <2>3. lease[t] = None
    BY <2>2 DEF LeasesRun
  <2>4. TypeOK'
    BY <1>5, <2>1, <2>2 DEF End, PumpingTypes
  <2>5. HandHeld'
    BY <1>5, <2>1, <2>2 DEF End, HandHeld
  <2>6. WaitersWait' /\ LeasesRun' /\ SlotsAccounted' /\ PassedBlocked'
    BY <1>5, <2>2, <2>3, PoolConstants, PoolStays DEF End
  <2> QED BY <2>4, <2>5, <2>6
<1>6. CASE InterruptQueued(t)
  <2>1. st' = [st EXCEPT ![t] = "idle"] /\ st[t] = "queued" /\ resume = None
    BY <1>6 DEF InterruptQueued, Become
  <2>2. lease[t] = None
    BY <2>1 DEF LeasesRun
  <2>3. TypeOK'
    BY <1>6, <2>1 DEF InterruptQueued
  <2>4. HandHeld'
    BY <1>6, <2>1 DEF InterruptQueued, HandHeld
  <2>5. WaitersWait' /\ LeasesRun' /\ SlotsAccounted' /\ PassedBlocked'
    BY <1>6, <2>1, <2>2, PoolConstants, PoolStays DEF InterruptQueued
  <2> QED BY <2>3, <2>4, <2>5
<1>7. CASE Abort(t)
  <2>1. /\ UNCHANGED <<cfg, copy, running, lease, last, draining, work, saving, pumping, picked,
                       resume, outside, failures>>
        /\ aborted' = aborted \union {t} /\ draining = 0 /\ resume = None
    BY <1>7 DEF Abort
  <2>2. CASE UNCHANGED <<st, waiters>>
    <3>1. TypeOK'
      BY <2>1, <2>2
    <3>2. HandHeld'
      BY <2>1, <2>2 DEF HandHeld
    <3>3. WaitersWait' /\ LeasesRun' /\ SlotsAccounted' /\ PassedBlocked'
      BY <2>1, <2>2, PoolStays
    <3> QED BY <3>1, <3>2, <3>3
  <2>3. ASSUME NEW i \in DOMAIN waiters, waiters[i] = t, Unqueue(i), Become(t, "running")
        PROVE  PumpInv'
    <3>1. /\ waiters' \in Seq(Tasks) /\ WaitersWait'
          /\ \A j \in DOMAIN waiters' : \E k \in DOMAIN waiters : waiters'[j] = waiters[k]
      BY <2>3, WaiterLeaves
    <3>2. st[t] = "waiting" /\ st' = [st EXCEPT ![t] = "running"]
      BY <2>3 DEF WaitersWait, Become
    <3>3. TypeOK'
      BY <2>1, <3>1, <3>2
    <3>4. HandHeld' /\ LeasesRun'
      BY <2>1, <3>2 DEF HandHeld, LeasesRun
    <3>5. SlotsAccounted'
      BY <2>1 DEF SlotsAccounted
    <3>6. PassedBlocked'
      BY <2>1, <3>1 DEF PassedBlocked, Blocked, Conf
    <3> QED BY <3>1, <3>3, <3>4, <3>5, <3>6
  <2> QED BY <1>7, <2>2, <2>3 DEF Abort
<1>8. CASE CopySettings(t)
  <2>1. /\ st[t] = "running" /\ copy' = [copy EXCEPT ![t] = cfg]
        /\ UNCHANGED <<cfg, running, lease, last, waiters, draining, tasks, resume, refresh>>
    BY <1>8 DEF CopySettings
  <2>2. TypeOK' /\ HandHeld'
    BY <1>8, <2>1 DEF CopySettings, HandHeld, tasks
  <2>3. WaitersWait' /\ LeasesRun' /\ SlotsAccounted'
    BY <1>8, <2>1 DEF CopySettings, WaitersWait, LeasesRun, SlotsAccounted, tasks
  <2>4. \A i \in DOMAIN waiters : waiters[i] \in Tasks /\ waiters[i] # t
    BY <2>1 DEF WaitersWait
  <2>5. PassedBlocked'
    BY <2>1, <2>4 DEF PassedBlocked, Blocked, Conf
  <2> QED BY <2>2, <2>3, <2>5
<1> QED BY <1>1, <1>2, <1>3, <1>4, <1>5, <1>6, <1>7, <1>8

(* A failover gives its slot back, takes another, waits or gives up. *)
LEMMA FailoverKeeps ==
  ASSUME PumpInv, NEW t \in Tasks, Failover(t)
  PROVE  PumpInv'
<1> USE DEF PumpInv, TypeOK, PoolTypeOK, pumping, picked, failures, outside, tasks
<1>1. /\ Release(t) /\ resume' = t /\ st[t] = "running"
      /\ UNCHANGED <<copy, tasks, pumping, picked, outside, failures>>
  BY DEF Failover, Handover
<1>2. /\ PoolTypeOK' /\ SlotsAccounted' /\ PassedBlocked'
      /\ lease' = [lease EXCEPT ![t] = None] /\ UNCHANGED <<waiters, last, cfg>>
  BY <1>1, ReleaseKeeps
<1>3. TypeOK'
  BY <1>1, <1>2
<1>4. HandHeld'
  BY <1>1 DEF HandHeld
<1>5. WaitersWait' /\ LeasesRun'
  <2>1. WaitersWait'
    BY <1>1, <1>2 DEF WaitersWait
  <2>2. ASSUME NEW u \in Tasks, lease'[u] # None PROVE st'[u] = "running" /\ resume' # u
    <3>1. u # t /\ lease[u] # None
      BY <1>2, <2>2
    <3> QED BY <1>1, <3>1 DEF LeasesRun
  <2> QED BY <1>1, <2>1, <2>2 DEF LeasesRun
<1> QED BY <1>2, <1>3, <1>4, <1>5

LEMMA FailoverTakesKeeps ==
  ASSUME PumpInv, NEW t \in Tasks, NEW e \in Entries, FailoverTakes(t, e)
  PROVE  PumpInv'
<1> USE DEF PumpInv, TypeOK, PoolTypeOK, pumping, picked, failures, outside, tasks
<1>1. /\ Take(t, e) /\ resume = t /\ resume' = None /\ t # None
      /\ UNCHANGED <<cfg, copy, waiters, draining, tasks, pumping, picked, outside, failures>>
  BY PoolConstants DEF FailoverTakes, Resuming
<1>2. lease[t] = None /\ st[t] = "running"
  BY <1>1 DEF LeasesRun
<1>3. /\ running' \in [Entries -> Nat] /\ lease' \in [Tasks -> Entries \union {None}]
      /\ last' \in [Tasks -> Entries \union {None}] /\ SlotsAccounted'
      /\ \A f \in Entries : running'[f] \in Nat /\ running'[f] >= running[f]
  BY <1>1, <1>2, TakeKeeps
<1>4. TypeOK'
  BY <1>1, <1>3
<1>5. HandHeld'
  BY <1>1 DEF HandHeld
<1>6. WaitersWait' /\ LeasesRun'
  BY <1>1, <1>2, PoolConstants DEF WaitersWait, LeasesRun, Take
<1>7. PassedBlocked'
  <2>1. SUFFICES ASSUME NEW i \in DOMAIN waiters, draining = 0 \/ i < draining
                 PROVE  Blocked(waiters[i])'
    BY <1>1 DEF PassedBlocked
  <2>2. waiters[i] \in Tasks /\ waiters[i] # t
    BY <1>2 DEF WaitersWait
  <2>3. Blocked(waiters[i]) /\ last'[waiters[i]] = last[waiters[i]]
    BY <1>1, <2>1, <2>2 DEF PassedBlocked, Take
  <2> QED BY <1>1, <1>3, <2>2, <2>3, BlockedStays
<1> QED BY <1>3, <1>4, <1>5, <1>6, <1>7

LEMMA FailoverWaitsKeeps ==
  ASSUME PumpInv, NEW t \in Tasks, FailoverWaits(t)
  PROVE  PumpInv'
<1> USE DEF PumpInv, TypeOK, PoolTypeOK, pumping, picked, failures, outside
<1>1. /\ waiters' = Append(waiters, t) /\ st' = [st EXCEPT ![t] = "waiting"]
      /\ resume = t /\ resume' = None /\ draining = 0 /\ t # None
      /\ UNCHANGED <<cfg, copy, running, lease, last, draining, work, saving, aborted, pumping,
                     picked, outside, failures>>
  BY PoolConstants DEF FailoverWaits, Resuming, Become
<1>2. lease[t] = None /\ st[t] = "running"
  BY <1>1 DEF LeasesRun
<1>3. /\ waiters' \in Seq(Tasks) /\ DOMAIN waiters' = 1..(Len(waiters) + 1)
      /\ DOMAIN waiters = 1..Len(waiters) /\ Len(waiters) \in Nat
      /\ waiters'[Len(waiters) + 1] = t /\ \A i \in DOMAIN waiters : waiters'[i] = waiters[i]
  BY <1>1
<1>4. \A i \in DOMAIN waiters' : i \in DOMAIN waiters \/ i = Len(waiters) + 1
  BY <1>3
<1>5. \A i \in DOMAIN waiters : waiters[i] \in Tasks /\ waiters[i] # t
  BY <1>2, <1>3 DEF WaitersWait
<1>6. TypeOK'
  BY <1>1, <1>3
<1>7. HandHeld'
  BY <1>1 DEF HandHeld
<1>8. LeasesRun'
  BY <1>1, <1>2, PoolConstants DEF LeasesRun
<1>9. WaitersWait'
  <2>1. \A i \in DOMAIN waiters' : st'[waiters'[i]] = "waiting"
    BY <1>1, <1>3, <1>4, <1>5 DEF WaitersWait
  <2>2. \A i, j \in DOMAIN waiters' : waiters'[i] = waiters'[j] => i = j
    BY <1>3, <1>4, <1>5 DEF WaitersWait
  <2> QED BY <2>1, <2>2 DEF WaitersWait
<1>10. SlotsAccounted'
  BY <1>1 DEF SlotsAccounted
<1>11. PassedBlocked'
  <2>1. Blocked(t)
    BY DEF FailoverWaits, Blocked, Stuck, Behind, After, Open
  <2>2. \A i \in DOMAIN waiters : Blocked(waiters[i])
    BY <1>1 DEF PassedBlocked
  <2>3. \A i \in DOMAIN waiters' : Blocked(waiters'[i])
    BY <1>3, <1>4, <2>1, <2>2
  <2> QED BY <1>1, <2>3 DEF PassedBlocked, Blocked, Conf
<1> QED BY <1>6, <1>7, <1>8, <1>9, <1>10, <1>11

LEMMA FailoverRefusedKeeps ==
  ASSUME PumpInv, NEW t \in Tasks, FailoverRefused(t)
  PROVE  PumpInv'
<1> USE DEF PumpInv, TypeOK, PoolTypeOK, pool, tasks, pumping, picked, failures, outside
<1>1. resume' = None /\ UNCHANGED <<pool, tasks, pumping, picked, outside, failures>> /\ draining = 0
  BY DEF FailoverRefused, Resuming
<1>2. TypeOK'
  BY <1>1
<1>3. HandHeld' /\ WaitersWait' /\ SlotsAccounted' /\ PassedBlocked'
  BY <1>1 DEF HandHeld, WaitersWait, SlotsAccounted, PassedBlocked, Blocked, Conf
<1>4. LeasesRun'
  BY <1>1, PoolConstants DEF LeasesRun
<1> QED BY <1>2, <1>3, <1>4

LEMMA AwaitFailsKeeps ==
  ASSUME PumpInv, AwaitFails
  PROVE  PumpInv'
<1> USE DEF PumpInv, TypeOK, PoolTypeOK, pool, tasks, pumping, picked, failures, outside, PumpAt
<1>1. slot \in Entries \union {None} /\ None \notin Entries
  BY PoolConstants
<1>2. /\ lost' = [e \in Entries |-> lost[e] + (IF slot = e THEN 1 ELSE 0)]
      /\ NextTask /\ PumpReturns
      /\ UNCHANGED <<pool, tasks, resume, outside>> /\ faults' \in 0..MaxFaults
  BY PumpConstants DEF AwaitFails
<1>3. PumpingTypes' /\ pump' \in {"top", "off"}
  BY <1>2, PumpReturnsTypes
<1>4. TypeOK'
  <2>1. again' \in BOOLEAN /\ budget' \in Nat /\ todo' \subseteq Tasks
    BY <1>3 DEF PumpingTypes
  <2>2. lost' \in [Entries -> Nat]
    BY <1>1, <1>2
  <2>3. hand' = None /\ chosen' = 0 /\ seen' = None /\ slot' = None
    BY <1>2 DEF NextTask
  <2> QED BY <1>2, <1>3, <2>1, <2>2, <2>3
<1>5. HandHeld' /\ WaitersWait' /\ LeasesRun' /\ PassedBlocked'
  BY <1>2, <1>3 DEF HandHeld, WaitersWait, LeasesRun, PassedBlocked, Blocked, Conf, NextTask
<1>6. SlotsAccounted'
  <2>1. AllAccounted'
    <3>1. SUFFICES ASSUME NEW f \in Entries PROVE Accounted(f)'
      BY DEF AllAccounted
    <3>2. Accounted(f) /\ f # None /\ lost[f] \in Nat
      BY AccountedByEntry, PoolConstants DEF AllAccounted
    <3> QED BY <1>1, <1>2, <3>2 DEF Accounted, NextTask, Holders
  <2> QED BY <2>1, AccountedByEntry, PTL
<1> QED BY <1>4, <1>5, <1>6

LEMMA SettingsKeep ==
  ASSUME PumpInv, Shutdown \/ RefreshPool \/ \E c \in Configs : ReplaceConfig(c)
  PROVE  PumpInv'
<1> USE DEF PumpInv, TypeOK, PoolTypeOK, pool, tasks, pumping, picked, failures, outside
<1>1. CASE Shutdown
  <2>1. \A u \in Tasks : st'[u] = st[u] \/ (st[u] = "queued" /\ st'[u] = "idle")
    BY <1>1 DEF Shutdown, StopGroup
  <2>2. \A u \in Tasks : st'[u] = st[u] \/ (st[u] # "waiting" /\ lease[u] = None /\ u # resume)
    BY <1>1, <2>1, PoolConstants DEF Shutdown, Quiet, LeasesRun
  <2>3. TypeOK'
    <3>1. st' \in [Tasks -> {"idle", "queued", "running", "waiting", "settled"}]
      BY <1>1 DEF Shutdown, StopGroup
    <3> QED BY <1>1, <3>1 DEF Shutdown
  <2>4. HandHeld'
    BY <1>1 DEF Shutdown, HandHeld
  <2>5. WaitersWait' /\ LeasesRun' /\ SlotsAccounted' /\ PassedBlocked'
    BY <1>1, <2>2, PoolStays DEF Shutdown
  <2> QED BY <2>3, <2>4, <2>5
<1>2. CASE RefreshPool
  <2>1. /\ draining' = IF waiters = <<>> THEN 0 ELSE 1
        /\ UNCHANGED <<cfg, copy, running, lease, last, waiters>>
        /\ UNCHANGED <<tasks, picked, resume, stopped, failures>> /\ refresh' = FALSE
    BY <1>2 DEF RefreshPool, Reconfigure, Drain
  <2>2. PumpingTypes' /\ (pump' = pump \/ (pump = "off" /\ pump' = "top"))
    BY <1>2, CallPumpTypes DEF RefreshPool
  <2>3. TypeOK'
    BY <2>1, <2>2 DEF PumpingTypes
  <2>4. HandHeld' /\ WaitersWait' /\ LeasesRun' /\ SlotsAccounted'
    BY <2>1, <2>2 DEF HandHeld, WaitersWait, LeasesRun, SlotsAccounted
  <2>5. PassedBlocked'
    BY <2>1 DEF PassedBlocked
  <2> QED BY <2>3, <2>4, <2>5
<1>3. ASSUME NEW c \in Configs, ReplaceConfig(c) PROVE PumpInv'
  <2>1. /\ cfg' = c /\ refresh' = TRUE
        /\ UNCHANGED <<copy, running, lease, last, waiters, draining, tasks, pumping, picked,
                       resume, stopped, failures>>
    BY <1>3 DEF ReplaceConfig
  <2>2. TypeOK'
    BY <2>1
  <2>3. HandHeld' /\ WaitersWait' /\ LeasesRun' /\ SlotsAccounted'
    BY <2>1 DEF HandHeld, WaitersWait, LeasesRun, SlotsAccounted
  <2>4. \A u \in Tasks : Blocked(u) => Blocked(u)'
    BY <2>1 DEF Blocked, Conf
  <2>5. PassedBlocked'
    BY <2>1, <2>4 DEF PassedBlocked
  <2> QED BY <2>2, <2>3, <2>5
<1> QED BY <1>1, <1>2, <1>3

(***************************************************************************)
(* The invariant.                                                          *)
(***************************************************************************)
LEMMA PumpStarts ==
  ASSUME Init
  PROVE  PumpInv
<1> USE DEF Init, PoolInit
<1>1. TypeOK
  <2>1. PoolTypeOK
    BY DEF PoolTypeOK
  <2>2. st \in [Tasks -> {"idle", "queued", "running", "waiting", "settled"}] /\ work \in [Tasks -> Nat]
    OBVIOUS
  <2>3. again \in BOOLEAN /\ refresh \in BOOLEAN /\ stopped \in Nat
    OBVIOUS
  <2>4. faults \in 0..MaxFaults /\ lost \in [Entries -> Nat]
    BY PumpConstants
  <2> QED BY <2>1, <2>2, <2>3, <2>4 DEF TypeOK
<1>2. HandHeld /\ WaitersWait /\ LeasesRun
  BY DEF HandHeld, WaitersWait, LeasesRun
<1>3. SlotsAccounted
  <2>1. ASSUME NEW e \in Entries PROVE Accounted(e)
    <3>1. e # None
      BY PoolConstants
    <3>2. Holders(e) = {} /\ Cardinality({}) = 0
      BY <3>1, FS_EmptySet DEF Holders
    <3> QED BY <3>1, <3>2 DEF Accounted
  <2> QED BY <2>1, AccountedByEntry DEF AllAccounted
<1>4. PassedBlocked
  BY DEF PassedBlocked
<1> QED BY <1>1, <1>2, <1>3, <1>4 DEF PumpInv

LEMMA StepKeeps ==
  ASSUME PumpInv, [Next]_vars
  PROVE  PumpInv'
<1>1. CASE UNCHANGED vars
  BY <1>1 DEF vars, pool, tasks, pumping, picked, outside, failures, PumpInv, TypeOK, PoolTypeOK,
       HandHeld,
              WaitersWait, LeasesRun, SlotsAccounted, PassedBlocked, Blocked, Conf
<1>2. CASE Next
  <2>1. CASE Resume
    BY <2>1, FailoverTakesKeeps, FailoverWaitsKeeps, FailoverRefusedKeeps DEF Resume
  <2> QED BY <1>2, <2>1, PumpKeeps, AwaitFailsKeeps, DrainKeeps, TasksKeep, FailoverKeeps,
       SettingsKeep
          DEF Next
<1> QED BY <1>1, <1>2

(* The inductive invariant holds: every state the pump, the pool and the   *)
(* workers reach has it, with any settings and routes.                     *)
THEOREM InvCorrect == Spec => []PumpInv
<1> QED BY PumpStarts, StepKeeps, PTL DEF Spec

(* The variables stay in their types: a pool count never goes below zero,  *)
(* though a lease may be released again after its slot was given back.     *)
THEOREM TypeCorrect == Spec => []TypeOK
<1>1. PumpInv => TypeOK
  BY DEF PumpInv
<1> QED BY <1>1, InvCorrect, PTL

(* Every slot the pool counts as used is held by a task, is in the pump's  *)
(* hand, or was lost when the pump failed with it.                         *)
THEOREM SlotsAlwaysAccounted == Spec => []SlotsAccounted
<1>1. PumpInv => SlotsAccounted
  BY DEF PumpInv
<1> QED BY <1>1, InvCorrect, PTL

(* No failover waits while an entry behind its own has a free slot: the    *)
(* loop over the waiters and every release offer the slots they free.      *)
THEOREM WaitersStayBlocked == Spec => []WaitersBlocked
<1>1. PumpInv => WaitersBlocked
  BY DEF PumpInv, PassedBlocked, Blocked, WaitersBlocked, Stuck, Behind, After, Open
<1> QED BY <1>1, InvCorrect, PTL

(* Only a launch makes a task live, and it launches what the pump picked.  *)
THEOREM PumpLaunchesSelected == Spec => LaunchesWhatWasSelected
<1>1. ASSUME PumpInv, [Next]_vars
      PROVE  [\A t \in Live' \ Live : st[t] = "queued" /\ hand = t /\ chosen = work[t]]_vars
  <2>1. SUFFICES ASSUME NEW t \in Live', t \notin Live, Next
                 PROVE  st[t] = "queued" /\ hand = t /\ chosen = work[t]
    BY <1>1
  <2>2. t \in Tasks /\ st'[t] \in {"running", "waiting", "settled"}
        /\ st[t] \in {"idle", "queued"}
    BY <1>1, <2>1 DEF Live, PumpInv, TypeOK
  <2>3. CASE Launch
    BY <1>1, <2>2, <2>3 DEF Launch, StillWanted, Become, PumpInv, TypeOK, HandHeld,
       PumpAt
  <2>4. CASE Pump /\ ~Launch
    <3>1. st'[t] \in {st[t], "idle"}
      BY <1>1, <2>2, <2>4 DEF Pump, PumpTop, PumpDone, FailSaved, NoSlot, HoldEnds, DropStale,
         PickUnroutable, Pick, Choose, tasks, PumpInv, TypeOK
    <3> QED BY <2>2, <3>1
  <2>5. CASE DrainStep
    <3>1. UNCHANGED st \/ (Draining /\ st' = [st EXCEPT ![NextWaiter] = "running"])
      BY <2>5 DEF DrainStep, DrainDismiss, DrainGrant, Become
    <3>2. Draining => NextWaiter \in Tasks /\ st[NextWaiter] = "waiting"
      BY <1>1 DEF Draining, NextWaiter, PumpInv, TypeOK, PoolTypeOK, WaitersWait
    <3> QED BY <1>1, <2>2, <3>1, <3>2 DEF PumpInv, TypeOK
  <2>6. CASE Resume
    <3>1. PICK u \in Tasks : FailoverWaits(u) \/ FailoverRefused(u) \/ \E e \in Entries : FailoverTakes(u, e)
      BY <2>6 DEF Resume
    <3>2. st[u] = "running"
      BY <1>1, <3>1, PoolConstants
         DEF FailoverWaits, FailoverRefused, FailoverTakes, Resuming, PumpInv, LeasesRun
    <3>3. UNCHANGED st \/ st' = [st EXCEPT ![u] = "waiting"]
      BY <3>1 DEF FailoverWaits, FailoverRefused, FailoverTakes, Become, tasks
    <3> QED BY <1>1, <2>2, <3>2, <3>3 DEF PumpInv, TypeOK
  <2>7. CASE AwaitFails \/ Shutdown \/ RefreshPool \/ \E c \in Configs : ReplaceConfig(c)
    <3>1. st'[t] \in {st[t], "idle"}
      BY <1>1, <2>2, <2>7 DEF AwaitFails, Shutdown, StopGroup, RefreshPool, ReplaceConfig, tasks,
           PumpInv, TypeOK
    <3> QED BY <2>2, <3>1
  <2>8. ASSUME NEW u \in Tasks,
               \/ Admit(u) \/ Admitted(u) \/ AdmitFails(u) \/ Failover(u)
               \/ Settle(u) \/ End(u) \/ CopySettings(u) \/ InterruptQueued(u)
        PROVE  FALSE
    <3>1. \/ UNCHANGED st
          \/ st' = [st EXCEPT ![u] = "idle"] \/ st' = [st EXCEPT ![u] = "queued"]
          \/ st[u] = "running" /\ st' = [st EXCEPT ![u] = "settled"]
      BY <2>8 DEF Admit, Admitted, AdmitFails, Failover, Settle, End, CopySettings, InterruptQueued,
         Become, tasks
    <3> QED BY <1>1, <2>2, <3>1 DEF PumpInv, TypeOK
  <2>9. ASSUME NEW u \in Tasks, Abort(u)
        PROVE  FALSE
    <3>1. UNCHANGED st \/ (st[u] = "waiting" /\ st' = [st EXCEPT ![u] = "running"])
      BY <1>1, <2>9 DEF Abort, Become, PumpInv, WaitersWait
    <3> QED BY <1>1, <2>2, <3>1 DEF PumpInv, TypeOK
  <2> QED BY <2>1, <2>3, <2>4, <2>5, <2>6, <2>7, <2>8, <2>9 DEF Next
<1> QED BY <1>1, InvCorrect, PTL DEF Spec, LaunchesWhatWasSelected

(***************************************************************************)
(* No queued task is forgotten.                                            *)
(***************************************************************************)
(* Someone has yet to run the pump: the pump itself again, a routine that  *)
(* saves an admission or new settings, or a worker when it ends.           *)
Owed == again \/ saving # {} \/ Live # {} \/ refresh

Served(t) == st[t] = "queued" => Owed \/ Route[cfg][t] = <<>>

(* The tasks this round of the pump has still to look at. *)
Ahead ==
  CASE pump = "off" -> {}
    [] pump = "top" -> Tasks
    [] pump \in {"scan", "failing"} -> todo
    [] OTHER -> todo \union {hand}

(* While the pump has a task in hand: there was a route for it, and work   *)
(* that replaced what the pump picked calls the pump once it is saved.     *)
PickedHasRoute == pump \in {"routing", "choosing"} => Route[seen][hand] # <<>>
ReplacedIsOwed ==
  pump \in {"routing", "choosing", "holding", "checking"} =>
    (st[hand] = "queued" /\ work[hand] # chosen => Owed)

Remembered ==
  /\ IF pump = "off" THEN ~again ELSE budget >= 1
  /\ PickedHasRoute /\ ReplacedIsOwed
  /\ \A t \in Tasks \ Ahead : Served(t)
  /\ \A e \in Entries : lost[e] = 0

Unforgotten == faults = 0 /\ ~down => Remembered

LEMMA OwedServes ==
  ASSUME Owed'
  PROVE  ReplacedIsOwed' /\ \A t \in Tasks : Served(t)'
BY DEF ReplacedIsOwed, Served

(* A pump that may launch nothing has a live task to wait for. *)
LEMMA FullHouseIsLive ==
  ASSUME PumpInv, ~MayLaunch, budget >= 1
  PROVE  Live # {}
<1>1. budget \in Nat /\ Cardinality({}) = 0
  BY FS_EmptySet DEF PumpInv, TypeOK
<1> QED BY <1>1 DEF MayLaunch

(* So has a pump that finds no slot: whoever holds the slots is live. *)
LEMMA NoSlotIsLive ==
  ASSUME PumpInv, Remembered, pump \in {"routing", "choosing"}, Open(seen, hand, Wanted) = {}
  PROVE  Live # {}
<1>1. hand \in Tasks /\ seen \in Configs /\ slot = None
  BY DEF PumpInv, HandHeld
<1>2. Route[seen][hand] \in Seq(Entries) /\ Route[seen][hand] # <<>>
  BY <1>1, PoolConstants DEF Remembered, PickedHasRoute
<1>3. 1 \in Positions(seen, hand)
  BY <1>2 DEF Positions
<1>4. PICK i \in Positions(seen, hand) : i \in Wanted
  BY <1>3 DEF Wanted
<1> DEFINE e == Route[seen][hand][i]
<1>5. e \in Entries /\ ~(running[e] < Capacity[seen][e])
  BY <1>1, <1>4, RouteType DEF Open
<1>6. Capacity[seen][e] >= 1 /\ Capacity[seen][e] \in Nat
  BY <1>1, <1>5, RoutedHaveSlots, PoolConstants DEF Positions
<1>7. running[e] >= 1 /\ running[e] \in Nat
  BY <1>5, <1>6 DEF PumpInv, TypeOK, PoolTypeOK
<1>8. Accounted(e) /\ lost[e] = 0 /\ e # None
  BY <1>5, AccountedByEntry, PoolConstants DEF PumpInv, AllAccounted, Remembered
<1>9. Cardinality(Holders(e)) # 0
  BY <1>1, <1>7, <1>8 DEF Accounted
<1>10. PICK t \in Tasks : lease[t] = e
  BY <1>9, FS_EmptySet DEF Holders
<1>11. st[t] = "running"
  BY <1>8, <1>10 DEF PumpInv, LeasesRun
<1> QED BY <1>10, <1>11 DEF Live

(* The end of a pump: another one follows, or everyone has been served. *)
LEMMA ReturnRemembers ==
  ASSUME PumpInv, Remembered, ~down, PumpReturns, UNCHANGED <<cfg, st, saving, lost, refresh>>,
         \A t \in Tasks : Served(t)
  PROVE  Remembered'
<1> USE DEF PumpReturns, Remembered
<1>1. cfg \in Configs /\ MaxWorkers[cfg] >= 1
  BY PumpConstants DEF PumpInv, TypeOK, PoolTypeOK
<1>2. (IF pump' = "off" THEN ~again' ELSE budget' >= 1) /\ PickedHasRoute' /\ ReplacedIsOwed'
  BY <1>1 DEF PickedHasRoute, ReplacedIsOwed
<1>3. CASE again
  <2>1. Ahead' = Tasks
    BY <1>3 DEF Ahead
  <2> QED BY <1>2, <2>1
<1>4. CASE ~again
  <2>1. \A t \in Tasks : Served(t)'
    BY <1>4 DEF Served, Owed, Live
  <2> QED BY <1>2, <2>1
<1> QED BY <1>3, <1>4

LEMMA PumpForgetsNone ==
  ASSUME PumpInv, Remembered, ~down, Pump
  PROVE  Remembered'
<1> USE DEF pool, tasks, pumping, picked, failures, outside, PumpAt
<1>1. CASE PumpTop
  <2>1. budget >= 1 /\ UNCHANGED <<cfg, st, saving, lost, refresh>> /\ pump = "top"
    BY <1>1 DEF PumpTop, Remembered
  <2>2. CASE MayLaunch
    <3>1. pump' = "scan" /\ todo' = {t \in Tasks : st[t] = "queued"} /\ budget' = budget
      BY <1>1, <2>2 DEF PumpTop
    <3>2. \A t \in Tasks \ Ahead' : Served(t)'
      BY <2>1, <3>1 DEF Ahead, Served
    <3> QED BY <2>1, <3>1, <3>2 DEF Remembered, PickedHasRoute, ReplacedIsOwed
  <2>3. CASE ~MayLaunch
    <3>1. Live # {}
      BY <2>1, <2>3, FullHouseIsLive
    <3>2. \A t \in Tasks : Served(t)
      BY <3>1 DEF Served, Owed
    <3>3. PumpReturns
      BY <1>1, <2>3 DEF PumpTop
    <3> QED BY <2>1, <3>2, <3>3, ReturnRemembers
  <2> QED BY <2>2, <2>3
<1>2. CASE PumpDone
  <2>1. \A t \in Tasks : Served(t)
    BY <1>2 DEF PumpDone, Remembered, Ahead
  <2> QED BY <1>2, <2>1, ReturnRemembers DEF PumpDone
<1>3. CASE FailSaved
  <2>1. Ahead' = Ahead
    BY <1>3 DEF FailSaved, Ahead
  <2>2. \A t \in Tasks : Served(t)' = Served(t)
    BY <1>3 DEF FailSaved, Served, Owed, Live
  <2> QED BY <1>3, <2>1, <2>2 DEF FailSaved, Remembered, PickedHasRoute, ReplacedIsOwed
<1>4. CASE HoldEnds
  <2>1. Ahead' = Ahead
    BY <1>4 DEF HoldEnds, Ahead
  <2>2. \A t \in Tasks : Served(t)' = Served(t)
    BY <1>4 DEF HoldEnds, Served, Owed, Live
  <2>3. ReplacedIsOwed'
    BY <1>4 DEF HoldEnds, Remembered, ReplacedIsOwed, Owed, Live
  <2> QED BY <1>4, <2>1, <2>2, <2>3 DEF HoldEnds, Remembered, PickedHasRoute
<1>5. ASSUME NEW t \in Tasks, PickUnroutable(t) PROVE Remembered'
  <2>1. /\ pump = "scan" /\ pump' \in {"scan", "failing"} /\ todo' = todo \ {t}
        /\ Route[cfg][t] = <<>> /\ UNCHANGED <<cfg, again, saving, budget, lost, refresh>>
    BY <1>5 DEF PickUnroutable
  <2>2. \A u \in Tasks : st'[u] = st[u] \/ (st[u] = "queued" /\ st'[u] = "idle")
    BY <1>5 DEF PickUnroutable, PumpInv, TypeOK
  <2>3. Live' = Live
    BY <2>2 DEF Live
  <2>4. ASSUME NEW u \in Tasks \ Ahead' PROVE Served(u)'
    <3>1. u = t \/ u \notin Ahead
      BY <2>1, <2>4 DEF Ahead
    <3> QED BY <2>1, <2>2, <2>3, <3>1 DEF Remembered, Served, Owed
  <2> QED BY <2>1, <2>4 DEF Remembered, PickedHasRoute, ReplacedIsOwed
<1>6. ASSUME NEW t \in Tasks, Pick(t) PROVE Remembered'
  <2>1. /\ pump = "scan" /\ pump' \in {"routing", "choosing"} /\ todo' = todo \ {t}
        /\ hand' = t /\ chosen' = work[t] /\ seen' = cfg /\ Route[cfg][t] # <<>>
        /\ UNCHANGED <<cfg, st, work, again, saving, budget, lost, refresh>>
    BY <1>6 DEF Pick
  <2>2. \A u \in Tasks \ Ahead' : u \notin Ahead /\ Served(u)' = Served(u)
    BY <2>1 DEF Ahead, Served, Owed, Live
  <2> QED BY <2>1, <2>2 DEF Remembered, PickedHasRoute, ReplacedIsOwed
<1>7. CASE NoSlot
  <2>1. Live # {}
    BY <1>7, NoSlotIsLive DEF NoSlot
  <2>2. Owed'
    BY <1>7, <2>1 DEF NoSlot, Owed, Live
  <2> QED BY <1>7, <2>2, OwedServes DEF NoSlot, Remembered, PickedHasRoute
<1>8. ASSUME NEW e \in Entries, Choose(e) PROVE Remembered'
  <2>1. /\ pump \in {"routing", "choosing"} /\ pump' \in {"holding", "checking"}
        /\ UNCHANGED <<cfg, st, work, again, saving, budget, todo, hand, chosen, seen,
                       lost, refresh>>
    BY <1>8 DEF Choose
  <2>2. Ahead' = Ahead
    BY <2>1 DEF Ahead
  <2>3. \A t \in Tasks : Served(t)' = Served(t)
    BY <2>1 DEF Served, Owed, Live
  <2>4. ReplacedIsOwed'
    BY <2>1 DEF Remembered, ReplacedIsOwed, Owed, Live
  <2> QED BY <2>1, <2>2, <2>3, <2>4 DEF Remembered, PickedHasRoute
<1>9. CASE Launch
  <2>1. pump' = "top" /\ UNCHANGED <<budget, lost>> /\ pump = "checking"
    BY <1>9 DEF Launch
  <2>2. Ahead' = Tasks
    BY <2>1 DEF Ahead
  <2> QED BY <2>1, <2>2 DEF Remembered, PickedHasRoute, ReplacedIsOwed
<1>10. CASE DropStale
  <2>1. /\ pump = "checking" /\ pump' = "scan" /\ (st[hand] # "queued" \/ work[hand] # chosen)
        /\ UNCHANGED <<cfg, st, work, again, saving, budget, todo, lost, refresh>>
    BY <1>10 DEF DropStale, StillWanted
  <2>2. ASSUME NEW t \in Tasks \ Ahead' PROVE Served(t)'
    <3>1. t = hand \/ t \notin Ahead
      BY <2>1, <2>2 DEF Ahead
    <3>2. Served(t)
      BY <2>1, <3>1 DEF Remembered, ReplacedIsOwed, Served
    <3> QED BY <2>1, <3>2 DEF Served, Owed, Live
  <2> QED BY <2>1, <2>2 DEF Remembered, PickedHasRoute, ReplacedIsOwed
<1> QED BY <1>1, <1>2, <1>3, <1>4, <1>5, <1>6, <1>7, <1>8, <1>9, <1>10 DEF Pump

(* A call of pump() is served at once or when the pump returns. *)
LEMMA CallRemembers ==
  ASSUME PumpInv, Remembered, ~down, CallPump, UNCHANGED <<picked, lost>>
  PROVE  Remembered'
<1> USE DEF CallPump, pumping, picked
<1>1. MaxWorkers[cfg] >= 1
  BY PumpConstants DEF PumpInv, TypeOK, PoolTypeOK
<1>2. CASE pump = "off"
  <2>1. pump' = "top" /\ budget' >= 1
    BY <1>1, <1>2
  <2> QED BY <2>1 DEF Remembered, PickedHasRoute, ReplacedIsOwed, Ahead
<1>3. CASE pump # "off"
  <2>1. Owed' /\ UNCHANGED <<pump, budget, todo>>
    BY <1>3 DEF Owed
  <2> QED BY <1>3, <2>1, OwedServes DEF Remembered, PickedHasRoute
<1> QED BY <1>2, <1>3

(* Steps that leave the pump alone: who is owed a pump stays so. *)
LEMMA FrameRemembers ==
  ASSUME PumpInv, Remembered, UNCHANGED <<cfg, work, saving, pumping, picked, lost, refresh>>,
         Owed => Owed', \A t \in Tasks : st'[t] = "queued" => st[t] = "queued"
  PROVE  Remembered'
<1> USE DEF pumping, picked
<1>1. Ahead' = Ahead /\ PickedHasRoute' = PickedHasRoute
  BY DEF Ahead, PickedHasRoute
<1>2. \A t \in Tasks : Served(t) => Served(t)'
  BY DEF Served
<1>3. ReplacedIsOwed'
  BY DEF Remembered, ReplacedIsOwed, PumpInv, HandHeld
<1> QED BY <1>1, <1>2, <1>3 DEF Remembered

(* One task changes its state and stays live, or is no longer queued. *)
LEMMA TaskRemembers ==
  ASSUME PumpInv, Remembered, UNCHANGED <<cfg, work, saving, pumping, picked, lost, refresh>>,
         NEW t \in Tasks, NEW s, Become(t, s) \/ UNCHANGED st, s # "queued",
         st[t] \in {"running", "waiting"} => s \in {"running", "waiting", "settled"},
         st[t] # "settled"
  PROVE  Remembered'
<1>1. Live \subseteq Live' /\ \A u \in Tasks : st'[u] = "queued" => st[u] = "queued"
  BY DEF Become, Live, PumpInv, TypeOK
<1>2. Owed => Owed'
  BY <1>1 DEF Owed, pumping
<1> QED BY <1>1, <1>2, FrameRemembers

LEMMA DrainForgetsNone ==
  ASSUME PumpInv, Remembered, DrainStep
  PROVE  Remembered'
<1> USE DEF failures, outside
<1>1. CASE Draining /\ Become(NextWaiter, "running") /\ UNCHANGED cfg
  <2>1. NextWaiter \in Tasks /\ st[NextWaiter] = "waiting"
    BY <1>1 DEF Draining, NextWaiter, PumpInv, TypeOK, PoolTypeOK, WaitersWait
  <2> QED BY <1>1, <2>1, TaskRemembers DEF DrainStep
<1>2. CASE UNCHANGED <<st, cfg>>
  <2>1. Owed => Owed'
    BY <1>2 DEF Owed, Live, DrainStep, pumping
  <2> QED BY <1>2, <2>1, FrameRemembers DEF DrainStep
<1> QED BY <1>1, <1>2 DEF DrainStep, DrainDismiss, DrainGrant, DrainSkip, DrainEnds

LEMMA ResumeForgetsNone ==
  ASSUME PumpInv, Remembered, Resume
  PROVE  Remembered'
<1> USE DEF pool, tasks, failures, outside
<1>1. PICK t \in Tasks : FailoverWaits(t) \/ FailoverRefused(t) \/ \E e \in Entries : FailoverTakes(t, e)
  BY DEF Resume
<1>2. st[t] = "running"
  BY <1>1, PoolConstants
     DEF FailoverWaits, FailoverRefused, FailoverTakes, Resuming, PumpInv, LeasesRun
<1>3. Become(t, "waiting") \/ UNCHANGED st
  BY <1>1 DEF FailoverWaits, FailoverRefused, FailoverTakes
<1>4. UNCHANGED <<cfg, work, saving, pumping, picked, lost, refresh>>
  BY <1>1 DEF FailoverWaits, FailoverRefused, FailoverTakes
<1> QED BY <1>2, <1>3, <1>4, TaskRemembers

LEMMA TasksForgetNone ==
  ASSUME PumpInv, Remembered, ~down, faults' = 0, NEW t \in Tasks,
         \/ Admit(t) \/ Admitted(t) \/ AdmitFails(t) \/ Failover(t)
         \/ Settle(t) \/ End(t) \/ CopySettings(t) \/ InterruptQueued(t) \/ Abort(t)
  PROVE  Remembered'
<1> USE DEF pool, failures, outside
<1>1. CASE Admit(t)
  <2>1. Owed' /\ UNCHANGED <<pumping, picked, lost>>
    BY <1>1 DEF Admit, Owed
  <2>2. PickedHasRoute' = PickedHasRoute
    BY <2>1 DEF PickedHasRoute, pumping, picked
  <2> QED BY <2>1, <2>2, OwedServes DEF Remembered, pumping
<1>2. CASE Admitted(t)
  BY <1>2, CallRemembers DEF Admitted, PumpInv, TypeOK, PoolTypeOK
<1>3. CASE AdmitFails(t)
  BY <1>3, PumpConstants DEF AdmitFails, PumpInv, TypeOK
<1>4. CASE Failover(t)
  <2>1. UNCHANGED <<cfg, st, work, saving, pumping, picked, lost, refresh>>
    BY <1>4 DEF Failover, Handover, Release, tasks
  <2>2. Owed => Owed'
    BY <2>1 DEF Owed, Live, pumping
  <2> QED BY <2>1, <2>2, FrameRemembers
<1>5. CASE Settle(t)
  <2>1. UNCHANGED <<cfg, work, saving, pumping, picked, lost, refresh>>
    BY <1>5 DEF Settle, Release
  <2> QED BY <1>5, <2>1, TaskRemembers DEF Settle
<1>6. CASE End(t)
  BY <1>6, CallRemembers DEF End, Freed, PumpInv, TypeOK, PoolTypeOK
<1>7. CASE InterruptQueued(t)
  BY <1>7, TaskRemembers DEF InterruptQueued
<1>8. CASE Abort(t)
  <2>1. UNCHANGED <<cfg, work, saving, pumping, picked, lost, refresh>>
    BY <1>8 DEF Abort
  <2>2. UNCHANGED st \/ (st[t] = "waiting" /\ Become(t, "running"))
    BY <1>8 DEF Abort, PumpInv, WaitersWait
  <2>3. CASE UNCHANGED st
    <3>1. Owed => Owed'
      BY <2>1, <2>3 DEF Owed, Live, pumping
    <3> QED BY <2>1, <2>3, <3>1, FrameRemembers
  <2> QED BY <2>1, <2>2, <2>3, TaskRemembers
<1>9. CASE CopySettings(t)
  <2>1. UNCHANGED <<cfg, st, work, saving, pumping, picked, lost, refresh>>
    BY <1>9 DEF CopySettings, tasks
  <2>2. Owed => Owed'
    BY <2>1 DEF Owed, Live, pumping
  <2> QED BY <2>1, <2>2, FrameRemembers
<1> QED BY <1>1, <1>2, <1>3, <1>4, <1>5, <1>6, <1>7, <1>8, <1>9

LEMMA StepForgetsNone ==
  ASSUME PumpInv, Unforgotten, [Next]_vars
  PROVE  Unforgotten'
<1>1. SUFFICES ASSUME faults' = 0, ~down' PROVE Remembered'
  BY DEF Unforgotten
<1>2. CASE UNCHANGED vars
  <2> USE DEF vars, pool, tasks, pumping, picked, failures, outside
  <2>1. Remembered
    BY <1>1, <1>2 DEF Unforgotten, down
  <2>2. Owed => Owed'
    BY <1>2 DEF Owed, Live
  <2> QED BY <1>2, <2>1, <2>2, FrameRemembers
<1>3. CASE Next
  <2>1. faults = 0
    <3>1. faults' = faults \/ faults' = faults + 1
      BY <1>3 DEF Next, Pump, PumpTop, PumpDone, FailSaved, NoSlot, HoldEnds, AwaitFails, Launch,
         DropStale, PickUnroutable, Pick, Choose, DrainStep, Resume, FailoverWaits, FailoverTakes,
         FailoverRefused, Shutdown, Admit, Admitted, AdmitFails, Failover, Settle, End,
         CopySettings, InterruptQueued, Abort, RefreshPool, ReplaceConfig, failures
    <3>2. faults \in Nat
      BY PumpConstants DEF PumpInv, TypeOK
    <3> QED BY <1>1, <3>1, <3>2
  <2>2. ~down /\ ~Shutdown
    <3>1. UNCHANGED stopped \/ stopped' = stopped + 1
      BY <1>3 DEF outside, Next, Pump, PumpTop, PumpDone, FailSaved, NoSlot, HoldEnds,
           AwaitFails, Launch,
         DropStale, PickUnroutable, Pick, Choose, DrainStep, Resume, FailoverWaits, FailoverTakes,
         FailoverRefused, Shutdown, Admit, Admitted, AdmitFails, Failover, Settle, End,
         CopySettings, InterruptQueued, Abort, RefreshPool, ReplaceConfig
    <3>2. stopped \in Nat /\ ~(stopped' > 0)
      BY <1>1 DEF down, PumpInv, TypeOK
    <3>3. Shutdown => stopped' = stopped + 1
      BY DEF Shutdown
    <3> QED BY <3>1, <3>2, <3>3 DEF down
  <2>3. Remembered
    BY <2>1, <2>2 DEF Unforgotten
  <2>4. ~AwaitFails
    BY <1>1, <2>1 DEF AwaitFails
  <2>5. CASE RefreshPool
    BY <2>2, <2>3, <2>5, CallRemembers DEF RefreshPool, failures
  <2>6. ASSUME NEW c \in Configs, ReplaceConfig(c) PROVE Remembered'
    <3>1. Owed' /\ UNCHANGED <<pumping, picked, lost>>
      BY <2>6 DEF ReplaceConfig, Owed, failures
    <3> QED BY <2>3, <3>1, OwedServes DEF Remembered, PickedHasRoute, pumping, picked
  <2> QED BY <1>1, <1>3, <2>2, <2>3, <2>4, <2>5, <2>6, PumpForgetsNone, DrainForgetsNone,
             ResumeForgetsNone, TasksForgetNone DEF Next
<1> QED BY <1>2, <1>3

(* Whatever interrupts, settings and continuations cross the pump, a task  *)
(* it leaves behind has no route, or someone is left to run the pump.      *)
THEOREM NoTaskStranded == Spec => []NoStrandedTask
<1>1. Init => Unforgotten
  BY DEF Init, PoolInit, Unforgotten, Remembered, PickedHasRoute, ReplacedIsOwed, Served
<1>2. PumpInv /\ Unforgotten => NoStrandedTask
  <2>1. SUFFICES ASSUME PumpInv, Unforgotten, pump = "off", Live = {}, saving = {}, ~refresh,
                        faults = 0, ~down, NEW t \in Tasks, st[t] = "queued"
                 PROVE  Route[cfg][t] = <<>>
    BY DEF NoStrandedTask
  <2>2. ~again /\ Served(t)
    BY <2>1 DEF Unforgotten, Remembered, Ahead
  <2> QED BY <2>1, <2>2 DEF Served, Owed
<1> QED BY <1>1, <1>2, InvCorrect, StepForgetsNone, PTL DEF Spec
=============================================================================
