--------------------------- MODULE SchedulerProofs ---------------------------
(***************************************************************************)
(* Theorems about Scheduler, for any entries and any bounds: an entry is   *)
(* started alone, at most once for a minute, and with the definition in    *)
(* force; a one-shot entry runs once and the file has its latch.           *)
(***************************************************************************)
EXTENDS Scheduler, TLAPS

(* Only the first occurrence of a chain has been admitted. *)
Stages ==
  \A e \in Entries : \A i \in DOMAIN chain[e] :
    /\ chain[e][i].stage # "waiting" => i = 1
    /\ chain[e][i].stage = "starting" => run[e] = "none"

(* An occurrence is dated to a sampled minute of its own, not started yet. *)
Minutes ==
  \A e \in Entries :
    /\ started[e] \subseteq sampled
    /\ \A i \in DOMAIN chain[e] :
         /\ chain[e][i].due \in sampled
         /\ chain[e][i].stage \in {"waiting", "starting"} => chain[e][i].due \notin started[e]
    /\ \A i, j \in DOMAIN chain[e] : chain[e][i].due = chain[e][j].due => i = j

(* The write of the menu is under way exactly while the menu waits for it. *)
SaveQueued ==
  /\ menu = "saving" <=> \E k \in DOMAIN writes : writes[k] = Save
  /\ \A j, k \in DOMAIN writes : writes[j] = Save /\ writes[k] = Save => j = k

(* Between the replacement of the catalog and the replan. *)
Replaced == menu \in {"applied", "installed"}

(* An occurrence of the present generation has the definition in force. *)
Generations ==
  \A e \in Entries : \A i \in DOMAIN chain[e] :
    chain[e][i].fresh => attached /\ (Replaced \/ chain[e][i].def = def[e])

SchedulerInv == TypeOK /\ Stages /\ Minutes /\ SaveQueued /\ Generations

Kinds == {"waiting", "starting", "noticing", "reporting"}

-----------------------------------------------------------------------------
(***************************************************************************)
(* Sequences.                                                              *)
(***************************************************************************)
LEMMA Removal ==
  ASSUME NEW S, NEW s \in Seq(S), NEW i \in DOMAIN s
  PROVE  /\ RemoveAt(s, i) \in Seq(S)
         /\ DOMAIN RemoveAt(s, i) = 1..(Len(s) - 1)
         /\ \A j \in 1..(Len(s) - 1) : RemoveAt(s, i)[j] = IF j < i THEN s[j] ELSE s[j + 1]
<1> DEFINE a == SubSeq(s, 1, i - 1)
           b == SubSeq(s, i + 1, Len(s))
<1>1. i \in 1..Len(s) /\ Len(s) \in Nat
  OBVIOUS
<1>2. a \in Seq(S) /\ Len(a) = i - 1 /\ \A j \in 1..(i - 1) : a[j] = s[j]
  BY <1>1
<1>3. b \in Seq(S) /\ Len(b) = Len(s) - i /\ \A j \in 1..(Len(s) - i) : b[j] = s[j + i]
  BY <1>1
<1>4. RemoveAt(s, i) = a \o b
  BY DEF RemoveAt
<1> HIDE DEF a, b
<1>5. a \o b \in Seq(S) /\ Len(a \o b) = Len(s) - 1
  BY <1>1, <1>2, <1>3
<1>6. ASSUME NEW j \in 1..(Len(s) - 1) PROVE (a \o b)[j] = IF j < i THEN s[j] ELSE s[j + 1]
  <2>1. CASE j < i
    BY <1>1, <1>2, <1>3, <2>1
  <2>2. CASE j >= i
    <3> DEFINE m == j - (i - 1)
    <3>1. m \in 1..(Len(s) - i) /\ m + i = j + 1 /\ ~(j < i)
      BY <1>1, <2>2
    <3>2. ~(j <= Len(a)) /\ m = j - Len(a) /\ j \in 1..(Len(a) + Len(b))
      BY <1>1, <1>2, <1>3, <2>2
    <3>4. a \in Seq(S) /\ b \in Seq(S)
      BY <1>2, <1>3
    <3> HIDE DEF m
    <3>5. (a \o b)[j] = b[m]
      BY <3>2, <3>4
    <3>3. b[m] = s[m + i]
      BY <1>3, <3>1
    <3> QED BY <3>1, <3>3, <3>5
  <2>4. j < i \/ j >= i
    BY <1>1
  <2> QED BY <2>1, <2>2, <2>4
<1> DEFINE c == a \o b
<1>7. c \in Seq(S) /\ Len(c) = Len(s) - 1
  BY <1>5
<1>8. \A j \in 1..(Len(s) - 1) : c[j] = IF j < i THEN s[j] ELSE s[j + 1]
  BY <1>6
<1> HIDE DEF c
<1>9. DOMAIN c = 1..(Len(s) - 1)
  BY <1>7
<1>10. RemoveAt(s, i) = c
  BY <1>4 DEF c
<1> QED BY <1>7, <1>8, <1>9, <1>10

LEMMA Tails ==
  ASSUME NEW S, NEW s \in Seq(S), s # <<>>
  PROVE  /\ Tail(s) \in Seq(S) /\ Head(s) = s[1] /\ 1 \in DOMAIN s
         /\ \A k \in DOMAIN Tail(s) : k + 1 \in DOMAIN s /\ k + 1 # 1 /\ Tail(s)[k] = s[k + 1]
         /\ \A k \in DOMAIN s : k # 1 => k - 1 \in DOMAIN Tail(s) /\ Tail(s)[k - 1] = s[k]
OBVIOUS

LEMMA Appends ==
  ASSUME NEW S, NEW s \in Seq(S), NEW x \in S
  PROVE  /\ Append(s, x) \in Seq(S)
         /\ DOMAIN Append(s, x) = DOMAIN s \union {Len(s) + 1}
         /\ Len(s) + 1 \notin DOMAIN s
         /\ \A k \in DOMAIN s : Append(s, x)[k] = s[k]
         /\ Append(s, x)[Len(s) + 1] = x
OBVIOUS

-----------------------------------------------------------------------------
(***************************************************************************)
(* What the steps do to the chains.                                        *)
(***************************************************************************)
LEMMA StageFacts ==
  ASSUME TypeOK, NEW e \in Entries, NEW i \in DOMAIN chain[e], NEW s \in Kinds, Stage(e, i, s)
  PROVE  /\ chain' \in [Entries -> Seq(Occurrences)]
         /\ \A f \in Entries : f # e => chain'[f] = chain[f]
         /\ DOMAIN chain'[e] = DOMAIN chain[e]
         /\ \A k \in DOMAIN chain[e] : k # i => chain'[e][k] = chain[e][k]
         /\ chain'[e][i] = [chain[e][i] EXCEPT !.stage = s]
<1>1. chain[e] \in Seq(Occurrences) /\ chain[e][i] \in Occurrences
  BY DEF TypeOK
<1> DEFINE o == [chain[e][i] EXCEPT !.stage = s]
<1>2. o \in Occurrences
  BY <1>1 DEF Occurrences, Kinds
<1>3. chain' = [chain EXCEPT ![e] = [chain[e] EXCEPT ![i] = o]]
  BY DEF Stage
<1> HIDE DEF o
<1>4. [chain[e] EXCEPT ![i] = o] \in Seq(Occurrences)
  BY <1>1, <1>2
<1> QED BY <1>1, <1>3, <1>4 DEF TypeOK, o

LEMMA SettledFacts ==
  ASSUME TypeOK, NEW e \in Entries, 1 \in DOMAIN chain[e], Settled(e, 1)
  PROVE  /\ chain' \in [Entries -> Seq(Occurrences)]
         /\ \A f \in Entries : f # e => chain'[f] = chain[f]
         /\ \A k \in DOMAIN chain'[e] : k + 1 \in DOMAIN chain[e] /\ chain'[e][k] = chain[e][k + 1]
<1>1. chain[e] \in Seq(Occurrences) /\ Len(chain[e]) \in Nat
  BY DEF TypeOK
<1>2. chain' = [chain EXCEPT ![e] = RemoveAt(chain[e], 1)]
  BY DEF Settled
<1>3. chain'[e] = RemoveAt(chain[e], 1)
  BY <1>2 DEF TypeOK
<1>4. \A k \in 1..(Len(chain[e]) - 1) : k + 1 \in DOMAIN chain[e]
  BY <1>1
<1> QED BY <1>1, <1>2, <1>3, <1>4, Removal DEF TypeOK

LEMMA DisarmFacts ==
  ASSUME TypeOK, Disarm
  PROVE  /\ chain' \in [Entries -> Seq(Occurrences)]
         /\ \A e \in Entries : DOMAIN chain'[e] = DOMAIN chain[e]
         /\ \A e \in Entries : \A i \in DOMAIN chain[e] :
              chain'[e][i] = [chain[e][i] EXCEPT !.fresh = FALSE]
<1>1. ASSUME NEW e \in Entries
      PROVE  /\ chain'[e] \in Seq(Occurrences) /\ DOMAIN chain'[e] = DOMAIN chain[e]
             /\ \A i \in DOMAIN chain[e] : chain'[e][i] = [chain[e][i] EXCEPT !.fresh = FALSE]
  <2> DEFINE s == [i \in DOMAIN chain[e] |-> [chain[e][i] EXCEPT !.fresh = FALSE]]
  <2>1. chain[e] \in Seq(Occurrences) /\ Len(chain[e]) \in Nat /\ DOMAIN chain[e] = 1..Len(chain[e])
    BY DEF TypeOK
  <2>2. chain'[e] = s
    BY DEF Disarm
  <2>3. \A i \in 1..Len(chain[e]) : s[i] \in Occurrences
    <3>1. SUFFICES ASSUME NEW i \in 1..Len(chain[e]) PROVE s[i] \in Occurrences
      OBVIOUS
    <3>2. chain[e][i] \in Occurrences
      BY <2>1
    <3> QED BY <2>1, <3>2 DEF Occurrences
  <2>4. s \in [1..Len(chain[e]) -> Occurrences]
    BY <2>1, <2>3
  <2>5. s \in Seq(Occurrences)
    BY <2>1, <2>4
  <2> QED BY <2>2, <2>5
<1>2. chain' = [e \in Entries |-> chain'[e]]
  BY DEF Disarm
<1> QED BY <1>1, <1>2

LEMMA SampleFacts ==
  ASSUME TypeOK, Sample
  PROVE  /\ chain' \in [Entries -> Seq(Occurrences)]
         /\ \A e \in Entries :
              \/ chain'[e] = chain[e]
              \/ \E n \in Nat :
                   /\ n \notin DOMAIN chain[e] /\ DOMAIN chain'[e] = DOMAIN chain[e] \union {n}
                   /\ \A i \in DOMAIN chain[e] : chain'[e][i] = chain[e][i]
                   /\ chain'[e][n] = Occurrence(e)
<1>1. ASSUME NEW e \in Entries
      PROVE  /\ chain'[e] \in Seq(Occurrences)
             /\ \/ chain'[e] = chain[e]
                \/ \E n \in Nat :
                     /\ n \notin DOMAIN chain[e] /\ DOMAIN chain'[e] = DOMAIN chain[e] \union {n}
                     /\ \A i \in DOMAIN chain[e] : chain'[e][i] = chain[e][i]
                     /\ chain'[e][n] = Occurrence(e)
  <2>1. chain[e] \in Seq(Occurrences) /\ Len(chain[e]) + 1 \in Nat
    BY DEF TypeOK
  <2>2. Occurrence(e) \in Occurrences
    BY DEF Occurrence, Occurrences, TypeOK
  <2>3. chain'[e] = chain[e] \/ chain'[e] = Append(chain[e], Occurrence(e))
    BY DEF Sample
  <2> HIDE DEF Occurrence
  <2>4. CASE chain'[e] = Append(chain[e], Occurrence(e))
    BY <2>1, <2>2, <2>4, Appends
  <2> QED BY <2>1, <2>3, <2>4
<1>2. chain' = [e \in Entries |-> chain'[e]]
  BY DEF Sample
<1> QED BY <1>1, <1>2

LEMMA ReplanFacts ==
  ASSUME TypeOK, Replan, on' \in BOOLEAN
  PROVE  /\ chain' \in [Entries -> Seq(Occurrences)]
         /\ sampled \subseteq sampled' /\ sampled' \subseteq 0..MaxMinute
         /\ attached => Disarm
         /\ ~attached => UNCHANGED chain
BY DisarmFacts DEF Replan, Arm, TypeOK

-----------------------------------------------------------------------------
(***************************************************************************)
(* Types.                                                                  *)
(***************************************************************************)
LEMMA TimerTypes ==
  ASSUME TypeOK, Tick \/ Attach \/ Detach \/ Toggle \/ Sample
  PROVE  TypeOK'
<1> USE SchedulerConstants DEF Event
<1>1. CASE Tick
  BY <1>1 DEF Tick, TypeOK, timer, catalog, settings, history
<1>2. CASE Attach
  BY <1>2 DEF Attach, Arm, TypeOK, catalog, settings, history
<1>3. CASE Detach
  <2>1. chain' \in [Entries -> Seq(Occurrences)]
    BY <1>3, DisarmFacts DEF Detach
  <2>2. events' \in 0..MaxEvents
    BY <1>3 DEF Detach, TypeOK
  <2> QED BY <1>3, <2>1, <2>2 DEF Detach, TypeOK, catalog, settings, history
<1>4. CASE Toggle
  <2>1. on' \in BOOLEAN /\ Replan
    BY <1>4 DEF Toggle, TypeOK
  <2>2. chain' \in [Entries -> Seq(Occurrences)] /\ sampled' \subseteq 0..MaxMinute
    BY <2>1, ReplanFacts
  <2>3. events' \in 0..MaxEvents
    BY <1>4 DEF Toggle, TypeOK
  <2> QED BY <1>4, <2>1, <2>2, <2>3 DEF Toggle, TypeOK, catalog, settings, history
<1>5. CASE Sample
  <2>1. chain' \in [Entries -> Seq(Occurrences)]
    BY <1>5, SampleFacts
  <2> QED BY <1>5, <2>1 DEF Sample, TypeOK, catalog, settings, history
<1> QED BY <1>1, <1>2, <1>3, <1>4, <1>5

LEMMA DispatchTypes ==
  ASSUME TypeOK, Stages, NEW e \in Entries, NEW i \in DOMAIN chain[e],
         Admit(e, i) \/ Start(e, i) \/ StartFails(e, i) \/ HookEnds(e, i)
  PROVE  TypeOK'
<1> USE SchedulerConstants DEF Event
<1>1. CASE Admit(e, i)
  <2>1. chain' \in [Entries -> Seq(Occurrences)]
    BY <1>1, SettledFacts, StageFacts DEF Admit, Turn, Kinds
  <2> QED BY <1>1, <2>1 DEF Admit, TypeOK, timer, catalog, settings, history
<1>2. CASE Start(e, i)
  <2>1. chain' \in [Entries -> Seq(Occurrences)]
    BY <1>2, StageFacts DEF Start, Kinds
  <2>2. chain[e][i].due \in 0..MaxMinute
    <3>1. chain[e] \in Seq(Occurrences)
      BY DEF TypeOK
    <3>2. chain[e][i] \in Occurrences
      BY <3>1
    <3> QED BY <3>2 DEF Occurrences
  <2> QED BY <1>2, <2>1, <2>2 DEF Start, TypeOK, timer, catalog, settings
<1>3. CASE StartFails(e, i)
  <2>1. chain' \in [Entries -> Seq(Occurrences)]
    BY <1>3, StageFacts DEF StartFails, Kinds
  <2> QED BY <1>3, <2>1 DEF StartFails, TypeOK, timer, catalog, settings, history
<1>4. CASE HookEnds(e, i)
  <2>1. chain' \in [Entries -> Seq(Occurrences)]
    BY <1>4, SettledFacts DEF HookEnds, Stages
  <2> QED BY <1>4, <2>1 DEF HookEnds, TypeOK, timer, catalog, settings, history
<1> QED BY <1>1, <1>2, <1>3, <1>4

LEMMA RunTypes ==
  ASSUME TypeOK, NEW e \in Entries, Deliver(e) \/ RunEnds(e) \/ Record(e) \/ RecordFails(e)
  PROVE  TypeOK'
<1> USE SchedulerConstants DEF TypeOK, Event
<1>1. CASE Deliver(e)
  <2>1. already' \in [Entries -> BOOLEAN]
    BY <1>1 DEF Deliver, Consume
  <2>5. writes \in Seq(Entries \union {Save}) /\ (writes' = writes \/ writes' = Append(writes, e))
    BY <1>1 DEF Deliver, Consume
  <2>6. e \in Entries \union {Save} /\ writes \in Seq(Entries \union {Save})
    BY <2>5
  <2>7. Append(writes, e) \in Seq(Entries \union {Save})
    BY <2>6, Appends
  <2>4. writes' \in Seq(Entries \union {Save})
    BY <2>5, <2>6, <2>7
  <2>2. ran' \in [Entries -> Nat]
    BY <1>1 DEF Deliver
  <2>3. lost' \subseteq Entries
    BY <1>1 DEF Deliver
  <2> QED BY <1>1, <2>1, <2>2, <2>3, <2>4 DEF Deliver, timer, settings
<1>2. CASE RunEnds(e)
  BY <1>2 DEF RunEnds, timer, catalog, settings, history
<1>3. CASE Record(e)
  <2>1. disk' \in [Entries -> BOOLEAN]
    BY <1>3, Zenon DEF Record
  <2> QED BY <1>3, <2>1, Tails DEF Record, timer, catalog, settings, history
<1>4. CASE RecordFails(e)
  BY <1>4, Tails DEF RecordFails, timer, catalog, settings
<1> QED BY <1>1, <1>2, <1>3, <1>4

Flags == [Entries -> BOOLEAN]

LEMMA ClosedTypes ==
  ASSUME TypeOK, Closed
  PROVE  /\ menu' = "closed" /\ edited' = {} /\ base' \in Flags
         /\ staged' \in [def : [Entries -> Definitions], already : Flags]
<1>1. 0 \in Definitions
  BY SchedulerConstants DEF Definitions
<1> QED BY <1>1 DEF Closed, Flags

LEMMA MergedTypes ==
  ASSUME TypeOK
  PROVE  Merged \in Flags
BY DEF Merged, Flags, TypeOK

LEMMA InstallTypes ==
  ASSUME TypeOK, Install
  PROVE  /\ def' \in [Entries -> Definitions] /\ already' \in Flags
         /\ ran' \in [Entries -> Nat] /\ lost' \subseteq Entries
<1>1. staged.already \in Flags
  BY DEF TypeOK, Flags
<1>2. already' \in Flags
  BY <1>1 DEF Install, TypeOK, Flags
<1>3. edited \subseteq Entries
  BY SchedulerConstants DEF TypeOK
<1> QED BY <1>2, <1>3 DEF Install, Rearm, TypeOK

LEMMA MenuTypes ==
  ASSUME TypeOK, NEW E \in SUBSET Entries, NEW D \in SUBSET Entries,
         NEW R \in SUBSET OneShots, NEW T \in SUBSET OneShots,
         \/ OpenMenu(E, D, R, T) \/ Apply \/ SaveMenu \/ Persist \/ SaveFails
         \/ InstallSaved \/ ReplanSaved \/ CancelMenu
  PROVE  TypeOK'
<1> USE SchedulerConstants DEF Event
<1>1. CASE OpenMenu(E, D, R, T)
  <2>1. menus + 2 \in Definitions /\ 0 \in Definitions /\ menus + 1 \in 0..MaxMenus
    BY <1>1 DEF OpenMenu, TypeOK, Definitions
  <2>2. [e \in Entries |-> IF e \in D THEN 0 ELSE IF e \in E THEN menus + 2 ELSE def[e]]
          \in [Entries -> Definitions]
    BY <2>1 DEF TypeOK
  <2>3. [e \in Entries |-> IF e \in R THEN e \in T ELSE already[e]] \in [Entries -> BOOLEAN]
    <3>1. ASSUME NEW e \in Entries
          PROVE  (IF e \in R THEN e \in T ELSE already[e]) \in BOOLEAN
      <4>1. already[e] \in BOOLEAN
        BY DEF TypeOK
      <4>2. (e \in T) \in BOOLEAN
        OBVIOUS
      <4> QED BY <4>1, <4>2, Zenon
    <3> QED BY <3>1
  <2>4. staged' \in [def : [Entries -> Definitions], already : [Entries -> BOOLEAN]]
    BY <1>1, <2>2, <2>3 DEF OpenMenu
  <2> QED BY <1>1, <2>1, <2>4 DEF OpenMenu, TypeOK, timer, catalog, history
<1>2. CASE Apply
  BY <1>2, InstallTypes DEF Apply, TypeOK, timer, Flags
<1>3. CASE SaveMenu
  <2>1. staged'.already \in Flags /\ staged' = [staged EXCEPT !.already = staged'.already]
    BY <1>3 DEF SaveMenu, TypeOK, Flags
  <2>2. staged' \in [def : [Entries -> Definitions], already : [Entries -> BOOLEAN]]
    BY <2>1 DEF TypeOK, Flags
  <2> QED BY <1>3, <2>2, Appends DEF SaveMenu, TypeOK, timer, catalog, history
<1>4. CASE Persist
  <2>1. staged' \in [def : [Entries -> Definitions], already : Flags]
    BY <1>4, MergedTypes DEF Persist, TypeOK
  <2>2. ran' \in [Entries -> Nat]
    BY <1>4 DEF Persist, Rearm, TypeOK
  <2> QED BY <1>4, <2>1, <2>2, MergedTypes, Tails
          DEF Persist, Saving, TypeOK, timer, catalog, Flags
<1>5. CASE SaveFails
  <2>1. lost' \subseteq Entries /\ disk' \in Flags
    BY <1>5, MergedTypes DEF SaveFails, TypeOK, Flags
  <2> QED BY <1>5, <2>1, ClosedTypes, Tails
          DEF SaveFails, Saving, TypeOK, timer, catalog, Flags
<1>6. CASE InstallSaved
  BY <1>6, InstallTypes DEF InstallSaved, TypeOK, timer, Flags
<1>7. CASE ReplanSaved
  <2>1. on' = on /\ Replan /\ on' \in BOOLEAN
    BY <1>7 DEF ReplanSaved, TypeOK
  <2> QED BY <1>7, <2>1, ReplanFacts, ClosedTypes
          DEF ReplanSaved, TypeOK, catalog, history, Flags
<1>8. CASE CancelMenu
  BY <1>8, ClosedTypes DEF CancelMenu, TypeOK, timer, catalog, history, Flags
<1> QED BY <1>1, <1>2, <1>3, <1>4, <1>5, <1>6, <1>7, <1>8

LEMMA CrashTypes ==
  ASSUME TypeOK, Crash
  PROVE  TypeOK'
<1>1. chain' \in [Entries -> Seq(Occurrences)] /\ writes' \in Seq(Entries \union {Save})
  BY DEF Crash
<1>2. lost' \subseteq Entries /\ started' \in [Entries -> SUBSET (0..MaxMinute)]
  BY DEF Crash, TypeOK
<1>5. events' \in 0..MaxEvents
  BY SchedulerConstants DEF Crash, Event, TypeOK
<1>6. on' \in BOOLEAN /\ attached' \in BOOLEAN
  BY DEF Crash
<1>3. /\ sampled' \subseteq 0..MaxMinute /\ run' \in [Entries -> {"none", "queued", "running"}]
      /\ already' \in [Entries -> BOOLEAN] /\ disk' \in [Entries -> BOOLEAN]
      /\ pending' \subseteq OneShots
  BY DEF Crash, TypeOK
<1>4. Closed
  BY DEF Crash
<1> QED BY <1>1, <1>2, <1>3, <1>4, <1>5, <1>6, ClosedTypes DEF Crash, TypeOK, Flags

LEMMA TypeStep ==
  ASSUME TypeOK, Stages, [Next]_vars
  PROVE  TypeOK'
<1>1. CASE UNCHANGED vars
  BY <1>1 DEF TypeOK, vars, timer, catalog, settings, history
<1>2. CASE Next
  BY <1>2, TimerTypes, DispatchTypes, RunTypes, MenuTypes, CrashTypes DEF Next, Dispatch
<1> QED BY <1>1, <1>2

-----------------------------------------------------------------------------
(***************************************************************************)
(* Chains: which occurrences are there, where they are, and their minutes. *)
(***************************************************************************)
SameShape ==
  \A e \in Entries :
    /\ DOMAIN chain'[e] = DOMAIN chain[e]
    /\ \A i \in DOMAIN chain[e] :
         chain'[e][i].stage = chain[e][i].stage /\ chain'[e][i].due = chain[e][i].due

LEMMA ShapeKept ==
  ASSUME Stages, Minutes, SameShape, started' = started, sampled \subseteq sampled',
         \A e \in Entries : run[e] = "none" => run'[e] = "none"
  PROVE  Stages' /\ Minutes'
<1>1. Stages'
  BY DEF Stages, SameShape
<1>2. Minutes'
  BY DEF Minutes, SameShape
<1> QED BY <1>1, <1>2

LEMMA DisarmKeeps ==
  ASSUME TypeOK, Disarm
  PROVE  SameShape
<1>1. SUFFICES ASSUME NEW e \in Entries, NEW i \in DOMAIN chain[e]
               PROVE  chain'[e][i].stage = chain[e][i].stage /\ chain'[e][i].due = chain[e][i].due
  BY DisarmFacts DEF SameShape
<1>2. chain[e] \in Seq(Occurrences)
  BY DEF TypeOK
<1>3. chain[e][i] \in Occurrences
  BY <1>2
<1>4. chain'[e][i] = [chain[e][i] EXCEPT !.fresh = FALSE]
  BY DisarmFacts
<1> QED BY <1>3, <1>4 DEF Occurrences

LEMMA SampleKeeps ==
  ASSUME TypeOK, Stages, Minutes, Sample
  PROVE  Stages' /\ Minutes'
<1>0. run' = run /\ started' = started /\ sampled' = sampled \union {now} /\ now \notin sampled
  BY DEF Sample, Unseen, history
<1>1. SUFFICES
        ASSUME NEW e \in Entries
        PROVE  /\ \A i \in DOMAIN chain'[e] :
                    /\ chain'[e][i].stage # "waiting" => i = 1
                    /\ chain'[e][i].stage = "starting" => run[e] = "none"
                    /\ chain'[e][i].due \in sampled'
                    /\ chain'[e][i].stage \in {"waiting", "starting"} => chain'[e][i].due \notin started[e]
               /\ \A i, j \in DOMAIN chain'[e] : chain'[e][i].due = chain'[e][j].due => i = j
  BY <1>0 DEF Stages, Minutes
<1>2. CASE chain'[e] = chain[e]
  BY <1>0, <1>2 DEF Stages, Minutes
<1>3. CASE chain'[e] # chain[e]
  <2>1. PICK n \in Nat :
          /\ n \notin DOMAIN chain[e] /\ DOMAIN chain'[e] = DOMAIN chain[e] \union {n}
          /\ \A i \in DOMAIN chain[e] : chain'[e][i] = chain[e][i]
          /\ chain'[e][n] = Occurrence(e)
    BY <1>3, SampleFacts
  <2>2. chain'[e][n].due = now /\ chain'[e][n].stage = "waiting"
    BY <2>1 DEF Occurrence
  <2>3. now \notin started[e]
    BY <1>0 DEF Minutes
  <2>4. \A i \in DOMAIN chain[e] : chain[e][i].due # now
    BY <1>0 DEF Minutes
  <2> QED BY <1>0, <2>1, <2>2, <2>3, <2>4 DEF Stages, Minutes
<1> QED BY <1>2, <1>3

(* One occurrence moves on. *)
LEMMA StageKeeps ==
  ASSUME TypeOK, Stages, Minutes, NEW e \in Entries, NEW i \in DOMAIN chain[e],
         NEW s \in Kinds \ {"waiting"}, Stage(e, i, s), sampled' = sampled, i = 1,
         s = "starting" => run[e] = "none" /\ chain[e][i].stage = "waiting",
         \/ UNCHANGED <<run, started>>
         \/ /\ s # "starting" /\ run' = [run EXCEPT ![e] = "queued"]
            /\ started' = [started EXCEPT ![e] = @ \union {chain[e][i].due}]
  PROVE  Stages' /\ Minutes'
<1>1. /\ \A f \in Entries : f # e => chain'[f] = chain[f]
      /\ DOMAIN chain'[e] = DOMAIN chain[e]
      /\ \A k \in DOMAIN chain[e] : k # i => chain'[e][k] = chain[e][k]
      /\ chain'[e][i] = [chain[e][i] EXCEPT !.stage = s]
  BY StageFacts
<1>2. chain'[e][i].stage = s /\ chain'[e][i].due = chain[e][i].due
  <2>1. chain[e] \in Seq(Occurrences)
    BY DEF TypeOK
  <2>2. chain[e][i] \in Occurrences
    BY <2>1
  <2> QED BY <1>1, <2>2 DEF Occurrences
<1>3. \A f \in Entries : /\ f # e => run'[f] = run[f] /\ started'[f] = started[f]
                         /\ started[f] \subseteq started'[f]
  BY DEF TypeOK
<1>4. Stages'
  <2>1. \A k \in DOMAIN chain[e] : k # i => chain[e][k].stage = "waiting"
    BY DEF Stages
  <2>2. s = "starting" => run'[e] = "none"
    OBVIOUS
  <2>3. ASSUME NEW f \in Entries, NEW k \in DOMAIN chain'[f]
        PROVE  /\ chain'[f][k].stage # "waiting" => k = 1
               /\ chain'[f][k].stage = "starting" => run'[f] = "none"
    <3>1. CASE f # e
      BY <1>1, <1>3, <2>3, <3>1 DEF Stages
    <3>2. CASE f = e /\ k = i
      BY <1>2, <2>2, <3>2
    <3>3. CASE f = e /\ k # i
      BY <1>1, <2>1, <2>3, <3>3
    <3> QED BY <3>1, <3>2, <3>3
  <2> QED BY <2>3 DEF Stages
<1>5. Minutes'
  <2>1. started'[e] \subseteq started[e] \union {chain[e][i].due}
    BY DEF TypeOK
  <2>2. started'[e] \subseteq sampled'
    BY <2>1 DEF Minutes
  <2>3. \A k \in DOMAIN chain[e] : k # i => chain[e][k].due # chain[e][i].due
    BY DEF Minutes
  <2>4. s = "starting" => chain[e][i].due \notin started'[e]
    BY DEF Minutes
  <2>5. \A k \in DOMAIN chain[e] : /\ chain'[e][k].due = chain[e][k].due
                                   /\ chain'[e][k].stage \in {"waiting", "starting"} =>
                                        chain[e][k].due \notin started'[e]
    BY <1>1, <1>2, <2>1, <2>3, <2>4 DEF Minutes
  <2>6. ASSUME NEW f \in Entries, f # e
        PROVE  chain'[f] = chain[f] /\ started'[f] = started[f]
    BY <1>1, <1>3, <2>6
  <2> QED BY <1>1, <2>2, <2>5, <2>6 DEF Minutes
<1> QED BY <1>4, <1>5

LEMMA SettledKeeps ==
  ASSUME TypeOK, Stages, Minutes, NEW e \in Entries, 1 \in DOMAIN chain[e], Settled(e, 1),
         UNCHANGED <<run, started, sampled>>
  PROVE  Stages' /\ Minutes'
<1>1. /\ \A f \in Entries : f # e => chain'[f] = chain[f]
      /\ \A k \in DOMAIN chain'[e] : k + 1 \in DOMAIN chain[e] /\ chain'[e][k] = chain[e][k + 1]
  BY SettledFacts
<1>2. \A k \in DOMAIN chain'[e] : k \in Nat /\ k # 0
  <2>1. chain'[e] \in Seq(Occurrences)
    BY SettledFacts
  <2> QED BY <2>1
<1>3. \A k \in DOMAIN chain'[e] : chain'[e][k].stage = "waiting"
  <2>1. SUFFICES ASSUME NEW k \in DOMAIN chain'[e] PROVE chain'[e][k].stage = "waiting"
    OBVIOUS
  <2>2. k + 1 \in DOMAIN chain[e] /\ k + 1 # 1
    BY <1>1, <1>2
  <2> QED BY <1>1, <2>2 DEF Stages
<1>4. \A j, k \in DOMAIN chain'[e] : j + 1 = k + 1 => j = k
  BY <1>2
<1>5. Stages'
  BY <1>1, <1>3 DEF Stages
<1>6. ASSUME NEW f \in Entries
      PROVE  /\ \A i \in DOMAIN chain'[f] :
                  /\ chain'[f][i].due \in sampled
                  /\ chain'[f][i].stage \in {"waiting", "starting"} => chain'[f][i].due \notin started[f]
             /\ \A i, j \in DOMAIN chain'[f] : chain'[f][i].due = chain'[f][j].due => i = j
  <2>1. CASE f = e
    BY <1>1, <1>3, <1>4, <2>1 DEF Minutes, Stages
  <2>2. CASE f # e
    BY <1>1, <2>2 DEF Minutes
  <2> QED BY <2>1, <2>2
<1>7. Minutes'
  BY <1>6 DEF Minutes
<1> QED BY <1>5, <1>7

LEMMA ChainStep ==
  ASSUME TypeOK, Stages, Minutes, [Next]_vars
  PROVE  Stages' /\ Minutes'
<1>1. ASSUME UNCHANGED chain PROVE SameShape
  BY <1>1 DEF SameShape
<1>2. CASE UNCHANGED vars
  BY <1>1, <1>2, ShapeKept DEF vars, timer, history
<1>3. CASE Tick \/ Attach
  BY <1>1, <1>3, ShapeKept DEF Tick, Attach, Arm, timer, history
<1>4. CASE Detach
  BY <1>4, DisarmKeeps, ShapeKept DEF Detach, history
<1>5. CASE Toggle \/ ReplanSaved
  <2>1. Replan /\ on' \in BOOLEAN /\ run' = run /\ started' = started
    BY <1>5 DEF Toggle, ReplanSaved, TypeOK, history
  <2>2. SameShape /\ sampled \subseteq sampled'
    BY <1>1, <2>1, ReplanFacts, DisarmKeeps
  <2> QED BY <2>1, <2>2, ShapeKept
<1>6. CASE Sample
  BY <1>6, SampleKeeps
<1>7. ASSUME NEW e \in Entries, NEW i \in DOMAIN chain[e], Admit(e, i)
      PROVE  Stages' /\ Minutes'
  <2>1. i = 1 /\ chain[e][i].stage = "waiting" /\ UNCHANGED <<run, started, sampled>>
    BY <1>7 DEF Admit, Turn, timer, history
  <2>2. CASE Settled(e, i)
    BY <2>1, <2>2, SettledKeeps
  <2>3. CASE Stage(e, i, "reporting")
    BY <2>1, <2>3, StageKeeps DEF Kinds
  <2>4. CASE Stage(e, i, "starting") /\ run[e] = "none"
    BY <2>1, <2>4, StageKeeps DEF Kinds
  <2> QED BY <1>7, <2>2, <2>3, <2>4 DEF Admit
<1>8. ASSUME NEW e \in Entries, NEW i \in DOMAIN chain[e], Start(e, i)
      PROVE  Stages' /\ Minutes'
  <2>1. i = 1
    BY <1>8 DEF Start, Stages
  <2> QED BY <1>8, <2>1, StageKeeps DEF Start, Kinds, timer
<1>9. ASSUME NEW e \in Entries, NEW i \in DOMAIN chain[e], StartFails(e, i)
      PROVE  Stages' /\ Minutes'
  <2>1. i = 1
    BY <1>9 DEF StartFails, Stages
  <2> QED BY <1>9, <2>1, StageKeeps DEF StartFails, Kinds, timer, history
<1>10. ASSUME NEW e \in Entries, NEW i \in DOMAIN chain[e], HookEnds(e, i)
       PROVE  Stages' /\ Minutes'
  <2>1. i = 1
    BY <1>10 DEF HookEnds, Stages
  <2> QED BY <1>10, <2>1, SettledKeeps DEF HookEnds, timer, history
<1>11. ASSUME NEW e \in Entries, Deliver(e) \/ RunEnds(e) \/ Record(e) \/ RecordFails(e)
       PROVE  Stages' /\ Minutes'
  <2>1. UNCHANGED <<chain, started, sampled>>
    BY <1>11 DEF Deliver, RunEnds, Record, RecordFails, timer, history
  <2>2. \A f \in Entries : run[f] = "none" => run'[f] = "none"
    BY <1>11 DEF Deliver, RunEnds, Record, RecordFails, TypeOK
  <2> QED BY <1>1, <2>1, <2>2, ShapeKept
<1>12. ASSUME NEW E, NEW D, NEW R, NEW T,
              \/ OpenMenu(E, D, R, T) \/ Apply \/ SaveMenu \/ Persist \/ SaveFails
              \/ InstallSaved \/ CancelMenu
       PROVE  Stages' /\ Minutes'
  <2>1. UNCHANGED <<chain, started, sampled, run>>
    BY <1>12 DEF OpenMenu, Apply, SaveMenu, Persist, SaveFails, InstallSaved, CancelMenu,
                 timer, history
  <2> QED BY <1>1, <2>1, ShapeKept
<1>13. CASE Crash
  BY <1>13 DEF Crash, Stages, Minutes
<1> QED BY <1>2, <1>3, <1>4, <1>5, <1>6, <1>7, <1>8, <1>9, <1>10, <1>11, <1>12, <1>13
        DEF Next, Dispatch

-----------------------------------------------------------------------------
(***************************************************************************)
(* The menu and the queue of writes.                                       *)
(***************************************************************************)
InWrites(x) == \E k \in DOMAIN writes : writes[k] = x

LEMMA Enqueued ==
  ASSUME TypeOK, NEW x \in Entries \union {Save}, writes' = Append(writes, x)
  PROVE  /\ writes' \in Seq(Entries \union {Save})
         /\ \A y : InWrites(y)' <=> InWrites(y) \/ y = x
         /\ \A j, k \in DOMAIN writes' :
              writes'[j] = writes'[k] /\ writes'[j] # x =>
                j \in DOMAIN writes /\ k \in DOMAIN writes /\ writes[j] = writes[k] /\ writes[j] = writes'[j]
         /\ \A j, k \in DOMAIN writes' :
              writes'[j] = writes'[k] /\ ~InWrites(x) => j = k \/ writes'[j] # x
<1>1. writes \in Seq(Entries \union {Save})
  BY DEF TypeOK
<1>2. /\ writes' \in Seq(Entries \union {Save})
      /\ DOMAIN writes' = DOMAIN writes \union {Len(writes) + 1}
      /\ \A k \in DOMAIN writes : writes'[k] = writes[k]
      /\ writes'[Len(writes) + 1] = x
  BY <1>1, Appends
<1> QED BY <1>2 DEF InWrites

LEMMA Dequeued ==
  ASSUME TypeOK, writes # <<>>, writes' = Tail(writes)
  PROVE  /\ writes' \in Seq(Entries \union {Save})
         /\ InWrites(Head(writes))
         /\ \A y : InWrites(y)' => InWrites(y)
         /\ \A y : InWrites(y) /\ y # Head(writes) => InWrites(y)'
         /\ \A j \in DOMAIN writes' : j + 1 \in DOMAIN writes /\ j + 1 # 1 /\ writes'[j] = writes[j + 1]
         /\ 1 \in DOMAIN writes /\ writes[1] = Head(writes)
<1>1. writes \in Seq(Entries \union {Save})
  BY DEF TypeOK
<1>2. /\ writes' \in Seq(Entries \union {Save})
      /\ 1 \in DOMAIN writes /\ writes[1] = Head(writes)
      /\ \A k \in DOMAIN writes' : k + 1 \in DOMAIN writes /\ k + 1 # 1 /\ writes'[k] = writes[k + 1]
      /\ \A k \in DOMAIN writes : k # 1 => k - 1 \in DOMAIN writes' /\ writes'[k - 1] = writes[k]
  BY <1>1, Tails
<1>3. ASSUME NEW y, InWrites(y), y # Head(writes) PROVE InWrites(y)'
  <2>1. PICK k \in DOMAIN writes : writes[k] = y
    BY <1>3 DEF InWrites
  <2>2. k # 1 /\ k - 1 \in DOMAIN writes' /\ writes'[k - 1] = y
    BY <1>2, <1>3, <2>1
  <2> QED BY <2>2 DEF InWrites
<1>4. ASSUME NEW y, InWrites(y)' PROVE InWrites(y)
  <2>1. PICK k \in DOMAIN writes' : writes'[k] = y
    BY <1>4 DEF InWrites
  <2> QED BY <1>2, <2>1 DEF InWrites
<1>5. InWrites(Head(writes))
  BY <1>2 DEF InWrites
<1> QED BY <1>2, <1>3, <1>4, <1>5

Once == \A j, k \in DOMAIN writes : writes[j] = Save /\ writes[k] = Save => j = k

LEMMA SaveQueuedIs == SaveQueued <=> (menu = "saving" <=> InWrites(Save)) /\ Once
BY DEF SaveQueued, InWrites, Once

LEMMA RecordDequeues ==
  ASSUME TypeOK, Once, NEW e \in Entries, writes # <<>>, Head(writes) = e, writes' = Tail(writes)
  PROVE  (InWrites(Save)' <=> InWrites(Save)) /\ Once'
<1>1. e # Save
  BY SchedulerConstants
<1>2. \A j, k \in DOMAIN writes' : j + 1 = k + 1 => j = k
  <2>1. writes' \in Seq(Entries \union {Save})
    BY Dequeued
  <2> QED BY <2>1
<1> QED BY <1>1, <1>2, Dequeued DEF Once

LEMMA SaveDequeues ==
  ASSUME TypeOK, Once, Saving, writes' = Tail(writes)
  PROVE  InWrites(Save) /\ ~InWrites(Save)' /\ Once'
<1>1. InWrites(Save)
  BY Dequeued DEF Saving
<1>2. ~InWrites(Save)'
  <2>1. SUFFICES ASSUME NEW j \in DOMAIN writes', writes'[j] = Save PROVE FALSE
    BY DEF InWrites
  <2>2. j + 1 \in DOMAIN writes /\ j + 1 # 1 /\ writes[j + 1] = Save
    BY <2>1, Dequeued DEF Saving
  <2>3. 1 \in DOMAIN writes /\ writes[1] = Save
    BY Dequeued DEF Saving
  <2> QED BY <2>2, <2>3 DEF Once
<1> QED BY <1>1, <1>2 DEF InWrites, Once

LEMMA QueueStep ==
  ASSUME TypeOK, SaveQueued, [Next]_vars
  PROVE  SaveQueued'
<1>1. (menu = "saving" <=> InWrites(Save)) /\ Once
  BY SaveQueuedIs
<1>2. SUFFICES (menu' = "saving" <=> InWrites(Save)') /\ Once'
  BY DEF SaveQueued, InWrites, Once
<1>3. ASSUME UNCHANGED writes PROVE (InWrites(Save)' <=> InWrites(Save)) /\ Once'
  BY <1>1, <1>3 DEF InWrites, Once
<1>4. CASE UNCHANGED vars \/ Tick \/ Attach \/ Detach \/ Toggle \/ Sample
  <2>1. UNCHANGED <<writes, menu>>
    BY <1>4 DEF vars, settings, Tick, Attach, Detach, Toggle, Sample
  <2> QED BY <1>1, <1>3, <2>1
<1>5. ASSUME NEW e \in Entries, NEW i \in DOMAIN chain[e],
             Admit(e, i) \/ Start(e, i) \/ StartFails(e, i) \/ HookEnds(e, i)
      PROVE  (menu' = "saving" <=> InWrites(Save)') /\ Once'
  <2>1. UNCHANGED <<writes, menu>>
    BY <1>5 DEF settings, Admit, Start, StartFails, HookEnds
  <2> QED BY <1>1, <1>3, <2>1
<1>6. ASSUME NEW e \in Entries, Deliver(e) PROVE (menu' = "saving" <=> InWrites(Save)') /\ Once'
  <2>1. menu' = menu /\ e # Save
    BY <1>6, SchedulerConstants DEF Deliver, settings
  <2>2. CASE writes' = Append(writes, e)
    BY <1>1, <2>1, <2>2, Enqueued DEF Once
  <2>3. CASE UNCHANGED writes
    BY <1>1, <1>3, <2>1, <2>3
  <2> QED BY <1>6, <2>2, <2>3 DEF Deliver, Consume
<1>7. ASSUME NEW e \in Entries, RunEnds(e) PROVE (menu' = "saving" <=> InWrites(Save)') /\ Once'
  BY <1>1, <1>3, <1>7 DEF RunEnds, settings
<1>8. ASSUME NEW e \in Entries, Record(e) \/ RecordFails(e)
      PROVE  (menu' = "saving" <=> InWrites(Save)') /\ Once'
  <2>1. menu' = menu /\ writes # <<>> /\ Head(writes) = e /\ writes' = Tail(writes)
    BY <1>8 DEF Record, RecordFails, settings
  <2> QED BY <1>1, <2>1, RecordDequeues
<1>9. ASSUME NEW E, NEW D, NEW R, NEW T,
             OpenMenu(E, D, R, T) \/ Apply \/ InstallSaved \/ ReplanSaved \/ CancelMenu
      PROVE  (menu' = "saving" <=> InWrites(Save)') /\ Once'
  <2>1. writes' = writes /\ menu # "saving" /\ menu' # "saving"
    BY <1>9 DEF OpenMenu, Apply, InstallSaved, ReplanSaved, CancelMenu, Closed
  <2> QED BY <1>1, <1>3, <2>1
<1>10. CASE SaveMenu
  <2>1. menu # "saving" /\ menu' = "saving" /\ writes' = Append(writes, Save)
    BY <1>10 DEF SaveMenu
  <2> QED BY <1>1, <2>1, Enqueued DEF Once
<1>11. CASE Persist \/ SaveFails
  <2>1. Saving /\ writes' = Tail(writes) /\ menu' # "saving"
    BY <1>11 DEF Persist, SaveFails, Closed
  <2> QED BY <1>1, <2>1, SaveDequeues
<1>12. CASE Crash
  BY <1>12 DEF Crash, Closed, InWrites, Once
<1> QED BY <1>4, <1>5, <1>6, <1>7, <1>8, <1>9, <1>10, <1>11, <1>12 DEF Next, Dispatch

-----------------------------------------------------------------------------
(***************************************************************************)
(* Generations.                                                            *)
(***************************************************************************)
(* The chains are kept and their entries too. *)
LEMMA GenerationsKept ==
  ASSUME Generations, UNCHANGED chain, attached => attached',
         UNCHANGED def \/ Replaced', Replaced => Replaced'
  PROVE  Generations'
BY DEF Generations

LEMMA Disarmed ==
  ASSUME TypeOK, Disarm
  PROVE  Generations'
<1>1. SUFFICES ASSUME NEW e \in Entries, NEW i \in DOMAIN chain[e] PROVE ~chain'[e][i].fresh
  BY DisarmFacts DEF Generations
<1>2. chain[e] \in Seq(Occurrences)
  BY DEF TypeOK
<1>3. chain[e][i] \in Occurrences
  BY <1>2
<1>4. chain'[e][i] = [chain[e][i] EXCEPT !.fresh = FALSE]
  BY DisarmFacts
<1> QED BY <1>3, <1>4 DEF Occurrences

LEMMA StagedGenerations ==
  ASSUME TypeOK, Generations, NEW e \in Entries, NEW i \in DOMAIN chain[e], NEW s \in Kinds,
         Stage(e, i, s), UNCHANGED <<def, attached, menu>>
  PROVE  Generations'
<1>1. /\ \A f \in Entries : f # e => chain'[f] = chain[f]
      /\ DOMAIN chain'[e] = DOMAIN chain[e]
      /\ \A k \in DOMAIN chain[e] : k # i => chain'[e][k] = chain[e][k]
      /\ chain'[e][i] = [chain[e][i] EXCEPT !.stage = s]
  BY StageFacts
<1>2. chain'[e][i].fresh = chain[e][i].fresh /\ chain'[e][i].def = chain[e][i].def
  <2>1. chain[e] \in Seq(Occurrences)
    BY DEF TypeOK
  <2>2. chain[e][i] \in Occurrences
    BY <2>1
  <2> QED BY <1>1, <2>2 DEF Occurrences
<1>3. ASSUME NEW f \in Entries, NEW k \in DOMAIN chain'[f], chain'[f][k].fresh
      PROVE  attached /\ (Replaced \/ chain'[f][k].def = def[f])
  <2>1. CASE f # e
    BY <1>1, <1>3, <2>1 DEF Generations
  <2>2. CASE f = e /\ k = i
    BY <1>2, <1>3, <2>2 DEF Generations
  <2>3. CASE f = e /\ k # i
    BY <1>1, <1>3, <2>3 DEF Generations
  <2> QED BY <2>1, <2>2, <2>3
<1> QED BY <1>3 DEF Generations, Replaced

LEMMA SettledGenerations ==
  ASSUME TypeOK, Generations, NEW e \in Entries, 1 \in DOMAIN chain[e], Settled(e, 1),
         UNCHANGED <<def, attached, menu>>
  PROVE  Generations'
BY SettledFacts DEF Generations, Replaced

LEMMA GenerationsStep ==
  ASSUME TypeOK, Stages, SaveQueued, Generations, [Next]_vars
  PROVE  Generations'
<1>1. CASE UNCHANGED vars \/ Tick \/ Attach
  BY <1>1, GenerationsKept DEF vars, Tick, Attach, timer, catalog, settings, Replaced
<1>2. CASE Detach
  BY <1>2, Disarmed DEF Detach
<1>3. CASE Toggle \/ ReplanSaved
  <2>1. Replan /\ on' \in BOOLEAN /\ def' = def /\ attached' = attached
    BY <1>3 DEF Toggle, ReplanSaved, TypeOK, catalog
  <2>2. CASE attached
    BY <2>1, <2>2, ReplanFacts, Disarmed
  <2>3. CASE ~attached
    BY <2>1, <2>3, ReplanFacts DEF Generations
  <2> QED BY <2>2, <2>3
<1>4. CASE Sample
  <2>1. attached /\ UNCHANGED <<def, attached, menu>>
    BY <1>4 DEF Sample, catalog, settings
  <2>2. SUFFICES ASSUME NEW e \in Entries, NEW i \in DOMAIN chain'[e], chain'[e][i].fresh
                 PROVE  Replaced \/ chain'[e][i].def = def[e]
    BY <2>1 DEF Generations, Replaced
  <2>3. CASE chain'[e] = chain[e]
    BY <2>2, <2>3 DEF Generations
  <2>4. CASE chain'[e] # chain[e]
    <3>1. PICK n \in Nat :
            /\ DOMAIN chain'[e] = DOMAIN chain[e] \union {n}
            /\ \A k \in DOMAIN chain[e] : chain'[e][k] = chain[e][k]
            /\ chain'[e][n] = Occurrence(e)
      BY <1>4, <2>4, SampleFacts
    <3>2. chain'[e][n].def = def[e]
      BY <3>1 DEF Occurrence
    <3> QED BY <2>2, <3>1, <3>2 DEF Generations
  <2> QED BY <2>3, <2>4
<1>5. ASSUME NEW e \in Entries, NEW i \in DOMAIN chain[e], Admit(e, i)
      PROVE  Generations'
  <2>1. i = 1 /\ UNCHANGED <<def, attached, menu>>
    BY <1>5 DEF Admit, Turn, timer, catalog, settings
  <2>2. CASE Settled(e, i)
    BY <2>1, <2>2, SettledGenerations
  <2>3. ASSUME NEW s \in Kinds, Stage(e, i, s) PROVE Generations'
    BY <2>1, <2>3, StagedGenerations
  <2> QED BY <1>5, <2>2, <2>3 DEF Admit, Kinds
<1>6. ASSUME NEW e \in Entries, NEW i \in DOMAIN chain[e], Start(e, i) \/ StartFails(e, i)
      PROVE  Generations'
  <2>1. UNCHANGED <<def, attached, menu>>
    BY <1>6 DEF Start, StartFails, timer, catalog, settings
  <2> QED BY <1>6, <2>1, StagedGenerations DEF Start, StartFails, Kinds
<1>7. ASSUME NEW e \in Entries, NEW i \in DOMAIN chain[e], HookEnds(e, i)
      PROVE  Generations'
  <2>1. i = 1 /\ UNCHANGED <<def, attached, menu>>
    BY <1>7 DEF HookEnds, Stages, timer, catalog, settings
  <2> QED BY <1>7, <2>1, SettledGenerations DEF HookEnds
<1>8. ASSUME NEW e \in Entries, Deliver(e) \/ RunEnds(e) \/ Record(e) \/ RecordFails(e)
      PROVE  Generations'
  BY <1>8, GenerationsKept DEF Deliver, RunEnds, Record, RecordFails, timer, catalog, settings,
     Replaced
<1>9. ASSUME NEW E, NEW D, NEW R, NEW T, OpenMenu(E, D, R, T) \/ SaveMenu \/ CancelMenu
      PROVE  Generations'
  <2>1. ~Replaced /\ UNCHANGED <<chain, def, attached>>
    BY <1>9 DEF OpenMenu, SaveMenu, CancelMenu, timer, catalog, Replaced
  <2> QED BY <2>1, GenerationsKept
<1>10. CASE Apply \/ InstallSaved
  <2>1. Replaced' /\ UNCHANGED <<chain, attached>>
    BY <1>10 DEF Apply, InstallSaved, timer, Replaced
  <2> QED BY <2>1, GenerationsKept
<1>11. CASE Persist \/ SaveFails
  <2>1. Saving /\ UNCHANGED <<chain, def, attached>>
    BY <1>11 DEF Persist, SaveFails, timer, catalog
  <2>2. InWrites(Save)
    BY <2>1, Tails DEF Saving, InWrites, TypeOK
  <2>3. ~Replaced
    BY <2>2, SaveQueuedIs DEF Replaced
  <2> QED BY <2>1, <2>3, GenerationsKept
<1>12. CASE Crash
  BY <1>12 DEF Crash, Generations
<1> QED BY <1>1, <1>2, <1>3, <1>4, <1>5, <1>6, <1>7, <1>8, <1>9, <1>10, <1>11, <1>12
        DEF Next, Dispatch

-----------------------------------------------------------------------------
(***************************************************************************)
(* The theorems.                                                           *)
(***************************************************************************)
LEMMA Start0 == Init => SchedulerInv
<1> SUFFICES ASSUME Init PROVE SchedulerInv
  OBVIOUS
<1>1. TypeOK
  <2>1. /\ 0 \in Definitions /\ 1 \in Definitions
        /\ 0 \in 0..MaxMinute /\ 0 \in 0..MaxMenus /\ 0 \in 0..MaxEvents
    BY SchedulerConstants DEF Definitions
  <2>2. /\ chain \in [Entries -> Seq(Occurrences)] /\ writes \in Seq(Entries \union {Save})
        /\ def \in [Entries -> Definitions] /\ already \in Flags /\ disk \in Flags /\ base \in Flags
    BY <2>1 DEF Init, Flags
  <2>3. staged \in [def : [Entries -> Definitions], already : [Entries -> BOOLEAN]]
    BY <2>1, <2>2 DEF Init, Flags
  <2> QED BY <2>1, <2>2, <2>3 DEF Init, TypeOK, Flags
<1>2. Stages /\ Minutes /\ Generations
  BY DEF Init, Stages, Minutes, Generations
<1>3. SaveQueued
  BY DEF Init, SaveQueued
<1> QED BY <1>1, <1>2, <1>3 DEF SchedulerInv

LEMMA InvStep == SchedulerInv /\ [Next]_vars => SchedulerInv'
BY TypeStep, ChainStep, QueueStep, GenerationsStep DEF SchedulerInv

(* The inductive invariant: where the occurrences of a chain stand, which  *)
(* minutes they have, which generation they belong to, and which write of  *)
(* the menu is under way.                                                  *)
THEOREM InvCorrect == Spec => []SchedulerInv
<1>1. Init => SchedulerInv
  BY Start0
<1>2. SchedulerInv /\ [Next]_vars => SchedulerInv'
  BY InvStep
<1> QED BY <1>1, <1>2, PTL DEF Spec

(* Every variable of the scheduler keeps its type. *)
THEOREM TypeCorrect == Spec => []TypeOK
<1>1. SchedulerInv => TypeOK
  BY DEF SchedulerInv
<1> QED BY <1>1, InvCorrect, PTL

(* "concurrent ticks can never start two runs of one entry": no run of an  *)
(* entry is active when one starts, for any entries, saves and crashes.    *)
THEOREM RunsStartAlone == Spec => StartsAlone
<1>1. SchedulerInv /\ [Next]_vars =>
        [\A e \in Entries : \A i \in DOMAIN chain[e] :
           Moves(e, i, "starting", "noticing") => run[e] = "none"]_vars
  BY DEF SchedulerInv, Stages, Moves
<1> QED BY <1>1, InvCorrect, PTL DEF Spec, StartsAlone

(* No process starts an entry twice for one minute, whatever the clock,    *)
(* the switch and the session did in that minute.                          *)
THEOREM RunsStartOnceAMinute == Spec => StartsOnceAMinute
<1>1. SchedulerInv /\ [Next]_vars =>
        [\A e \in Entries : \A i \in DOMAIN chain[e] :
           Moves(e, i, "starting", "noticing") => chain[e][i].due \notin started[e]]_vars
  BY DEF SchedulerInv, Minutes, Moves
<1> QED BY <1>1, InvCorrect, PTL DEF Spec, StartsOnceAMinute

(* Only the first of a chain is admitted, and only in its generation.      *)
LEMMA AdmittedIsFresh ==
  ASSUME SchedulerInv, [Next]_vars, NEW e \in Entries, NEW i \in DOMAIN chain[e],
         Moves(e, i, "waiting", "starting")
  PROVE  chain[e][i].fresh
<1> USE DEF SchedulerInv
<1>0. i \in DOMAIN chain'[e] /\ chain[e][i].stage = "waiting" /\ chain'[e][i].stage = "starting"
  BY DEF Moves
<1>1. ASSUME SameShape PROVE FALSE
  BY <1>0, <1>1 DEF SameShape
<1>2. ASSUME UNCHANGED chain PROVE FALSE
  BY <1>0, <1>2
<1>3. CASE UNCHANGED vars \/ Tick \/ Attach
  BY <1>2, <1>3 DEF vars, Tick, Attach
<1>4. CASE Detach
  BY <1>1, <1>4, DisarmKeeps DEF Detach
<1>5. CASE Toggle \/ ReplanSaved
  <2>1. Replan /\ on' \in BOOLEAN
    BY <1>5 DEF Toggle, ReplanSaved, TypeOK
  <2> QED BY <1>1, <1>2, <2>1, ReplanFacts, DisarmKeeps
<1>6. CASE Sample
  BY <1>0, <1>6, SampleFacts
<1>7. ASSUME NEW f \in Entries, NEW k \in DOMAIN chain[f],
             Admit(f, k) \/ Start(f, k) \/ StartFails(f, k) \/ HookEnds(f, k)
      PROVE  chain[e][i].fresh
  <2>1. ASSUME Settled(f, 1), 1 \in DOMAIN chain[f] PROVE FALSE
    <3>1. CASE f # e
      BY <1>0, <2>1, <3>1, SettledFacts
    <3>2. CASE f = e
      <4>1. i + 1 \in DOMAIN chain[e] /\ chain[e][i + 1].stage = "starting"
        BY <1>0, <2>1, <3>2, SettledFacts
      <4>2. i + 1 # 1
        <5>1. chain[e] \in Seq(Occurrences)
          BY DEF TypeOK
        <5> QED BY <5>1
      <4> QED BY <4>1, <4>2 DEF Stages
    <3> QED BY <3>1, <3>2
  <2>2. ASSUME NEW s \in Kinds, Stage(f, k, s) PROVE f = e /\ k = i /\ s = "starting"
    <3>1. /\ \A g \in Entries : g # f => chain'[g] = chain[g]
          /\ \A j \in DOMAIN chain[f] : j # k => chain'[f][j] = chain[f][j]
          /\ chain'[f][k] = [chain[f][k] EXCEPT !.stage = s]
      BY <2>2, StageFacts
    <3>2. f = e /\ k = i
      BY <1>0, <3>1
    <3>3. chain'[f][k].stage = s
      <4>1. chain[f] \in Seq(Occurrences)
        BY DEF TypeOK
      <4>2. chain[f][k] \in Occurrences
        BY <4>1
      <4> QED BY <3>1, <4>2 DEF Occurrences
    <3> QED BY <1>0, <3>2, <3>3
  <2>3. CASE Admit(f, k)
    <3>1. CASE Settled(f, k)
      BY <2>1, <2>3, <3>1 DEF Admit, Turn
    <3>2. CASE ~Settled(f, k)
      BY <2>2, <2>3, <3>2 DEF Admit, Admissible, Kinds
    <3> QED BY <3>1, <3>2
  <2>4. CASE Start(f, k) \/ StartFails(f, k)
    BY <2>2, <2>4 DEF Start, StartFails, Kinds
  <2>5. CASE HookEnds(f, k)
    <3>1. k = 1
      BY <2>5 DEF HookEnds, Stages
    <3> QED BY <2>1, <2>5, <3>1 DEF HookEnds
  <2> QED BY <1>7, <2>3, <2>4, <2>5
<1>8. ASSUME NEW f \in Entries, Deliver(f) \/ RunEnds(f) \/ Record(f) \/ RecordFails(f)
      PROVE  FALSE
  BY <1>2, <1>8 DEF Deliver, RunEnds, Record, RecordFails
<1>9. ASSUME NEW E, NEW D, NEW R, NEW T,
             \/ OpenMenu(E, D, R, T) \/ Apply \/ SaveMenu \/ Persist \/ SaveFails
             \/ InstallSaved \/ CancelMenu
      PROVE  FALSE
  BY <1>2, <1>9 DEF OpenMenu, Apply, SaveMenu, Persist, SaveFails, InstallSaved, CancelMenu
<1>10. CASE Crash
  BY <1>0, <1>10 DEF Crash
<1> QED BY <1>3, <1>4, <1>5, <1>6, <1>7, <1>8, <1>9, <1>10 DEF Next, Dispatch

(* An occurrence is admitted with the definition in force, except between  *)
(* the replacement of the catalog and the replan, for any edits and saves. *)
THEOREM AdmitsOnlyCurrent == Spec => AdmitsCurrentDefinition
<1>1. SchedulerInv /\ [Next]_vars =>
        [menu \notin {"applied", "installed"} =>
           \A e \in Entries : \A i \in DOMAIN chain[e] :
             Moves(e, i, "waiting", "starting") => chain[e][i].def = def[e]]_vars
  BY AdmittedIsFresh DEF SchedulerInv, Generations, Replaced
<1> QED BY <1>1, InvCorrect, PTL DEF Spec, AdmitsCurrentDefinition

-----------------------------------------------------------------------------
(***************************************************************************)
(* The one-shot latch.                                                     *)
(***************************************************************************)
(* Was x fired after the menu started its save? *)
AfterSave(x) == \E j, k \in DOMAIN writes : j < k /\ writes[j] = Save /\ writes[k] = x

(* The flag staged in the menu against the one the menu started from.      *)
Staged(e) ==
  /\ menu = "open" /\ e \notin edited => staged.already[e] = base[e]
  /\ menu \in {"saving", "saved"} =>
       /\ base[e] => already[e]
       /\ e \in pending \ edited => staged.already[e] = base[e]
  /\ menu = "saved" /\ e \notin edited \union pending /\ e \notin lost =>
       staged.already[e] = base[e] \/ already[e] # base[e]

(* A write behind the save of the menu is of a flag set since. *)
Behind(e) ==
  /\ menu = "saving" /\ AfterSave(e) => ~base[e] /\ already[e]
  /\ menu = "saved" /\ InWrites(e) => ~base[e] /\ already[e]

(* An executed entry is disarmed and its record written or under way. *)
Fired(e) ==
  e \notin lost =>
    /\ ran[e] <= 1
    /\ ran[e] = 1 => already[e] /\ (disk[e] \/ InWrites(e))
    /\ menu = "saving" /\ already[e] /\ ~base[e] => AfterSave(e)
    /\ menu = "saved" /\ already[e] /\ ~base[e] => InWrites(e) \/ disk[e]

(* The file agrees with the catalog, or will by a write under way. *)
FileAgrees(e) ==
  e \notin lost =>
    /\ e \notin pending /\ (menu = "saved" => e \notin edited) =>
         already[e] = disk[e] \/ (InWrites(e) /\ already[e])
    /\ menu = "saved" /\ e \in edited \union pending =>
         disk[e] = staged.already[e] \/ already[e] # base[e]

Latch(e) == Staged(e) /\ Behind(e) /\ Fired(e) /\ FileAgrees(e)

LatchInv == \A e \in OneShots : Latch(e)

LEMMA Appended ==
  ASSUME TypeOK, NEW x \in Entries, writes' = Append(writes, x)
  PROVE  /\ \A y : InWrites(y)' <=> InWrites(y) \/ y = x
         /\ \A y \in Entries : AfterSave(y)' <=> AfterSave(y) \/ (y = x /\ InWrites(Save))
<1>0. writes \in Seq(Entries \union {Save}) /\ x # Save
  BY SchedulerConstants DEF TypeOK
<1> DEFINE n == Len(writes) + 1
<1>1. /\ DOMAIN writes' = DOMAIN writes \union {n}
      /\ \A k \in DOMAIN writes : writes'[k] = writes[k]
      /\ writes'[n] = x
  BY <1>0, Appends
<1>2. \A k \in DOMAIN writes : k < n /\ k \in Nat
  BY <1>0
<1>3. \A k \in DOMAIN writes : ~(n < k)
  BY <1>0
<1>4. ~(n < n)
  BY <1>0
<1> HIDE DEF n
<1>5. \A y : InWrites(y)' <=> InWrites(y) \/ y = x
  BY <1>1 DEF InWrites
<1>6. ASSUME NEW y \in Entries, AfterSave(y)
      PROVE  AfterSave(y)'
  BY <1>1, <1>6 DEF AfterSave
<1>7. ASSUME InWrites(Save)
      PROVE  AfterSave(x)'
  BY <1>1, <1>2, <1>7 DEF AfterSave, InWrites
<1>8. ASSUME NEW y \in Entries, AfterSave(y)'
      PROVE  AfterSave(y) \/ (y = x /\ InWrites(Save))
  <2>1. PICK j \in DOMAIN writes', k \in DOMAIN writes' : j < k /\ writes'[j] = Save /\ writes'[k] = y
    BY <1>8 DEF AfterSave
  <2>2. j \in DOMAIN writes
    BY <1>0, <1>1, <2>1
  <2> QED BY <1>1, <2>1, <2>2 DEF AfterSave, InWrites
<1> QED BY <1>5, <1>6, <1>7, <1>8

LEMMA AppendedSave ==
  ASSUME TypeOK, ~InWrites(Save), writes' = Append(writes, Save)
  PROVE  /\ \A y \in Entries : InWrites(y)' <=> InWrites(y)
         /\ \A y \in Entries : ~AfterSave(y)'
<1>0. writes \in Seq(Entries \union {Save})
  BY DEF TypeOK
<1> DEFINE n == Len(writes) + 1
<1>1. /\ DOMAIN writes' = DOMAIN writes \union {n}
      /\ \A k \in DOMAIN writes : writes'[k] = writes[k]
      /\ writes'[n] = Save
  BY <1>0, Appends
<1>2. \A k \in DOMAIN writes \union {n} : ~(n < k)
  BY <1>0
<1> HIDE DEF n
<1>3. \A y \in Entries : y # Save
  BY SchedulerConstants
<1> QED BY <1>1, <1>2, <1>3 DEF InWrites, AfterSave

LEMMA Shifted ==
  ASSUME TypeOK, writes # <<>>, writes' = Tail(writes)
  PROVE  /\ \A k \in DOMAIN writes' : k \in Nat /\ k + 1 \in DOMAIN writes /\ 1 < k + 1 /\ writes'[k] = writes[k + 1]
         /\ \A k \in DOMAIN writes : k # 1 => k - 1 \in DOMAIN writes' /\ writes'[k - 1] = writes[k] /\ 1 < k
         /\ \A k \in DOMAIN writes : k \in Nat
         /\ 1 \in DOMAIN writes /\ writes[1] = Head(writes)
<1>1. writes \in Seq(Entries \union {Save})
  BY DEF TypeOK
<1>2. writes' \in Seq(Entries \union {Save})
  BY <1>1
<1>3. \A k \in DOMAIN writes : k \in Nat /\ (k # 1 => 1 < k)
  BY <1>1
<1>4. \A k \in DOMAIN writes' : k \in Nat /\ 1 < k + 1
  BY <1>2
<1> QED BY <1>1, <1>3, <1>4, Tails

LEMMA TakenRecord ==
  ASSUME TypeOK, NEW x \in Entries, writes # <<>>, Head(writes) = x, writes' = Tail(writes)
  PROVE  /\ InWrites(x)
         /\ \A y \in Entries : y # x => (InWrites(y)' <=> InWrites(y))
         /\ \A y : InWrites(y)' => InWrites(y)
         /\ \A y \in Entries : AfterSave(y)' <=> AfterSave(y)
<1>1. x # Save
  BY SchedulerConstants
<1>2. ASSUME NEW y \in Entries, AfterSave(y) PROVE AfterSave(y)'
  <2>1. PICK j \in DOMAIN writes, k \in DOMAIN writes : j < k /\ writes[j] = Save /\ writes[k] = y
    BY <1>2 DEF AfterSave
  <2>2. j # 1 /\ k # 1
    <3>1. j # 1
      BY <1>1, <2>1, Shifted
    <3>2. 1 < j /\ j \in Nat /\ k \in Nat
      BY <3>1, Shifted
    <3> QED BY <2>1, <3>1, <3>2
  <2>3. /\ j - 1 \in DOMAIN writes' /\ writes'[j - 1] = Save
        /\ k - 1 \in DOMAIN writes' /\ writes'[k - 1] = y /\ j - 1 < k - 1
    BY <2>1, <2>2, Shifted
  <2> QED BY <2>3 DEF AfterSave
<1>3. ASSUME NEW y \in Entries, AfterSave(y)' PROVE AfterSave(y)
  <2>1. PICK j \in DOMAIN writes', k \in DOMAIN writes' : j < k /\ writes'[j] = Save /\ writes'[k] = y
    BY <1>3 DEF AfterSave
  <2>2. /\ j + 1 \in DOMAIN writes /\ writes[j + 1] = Save
        /\ k + 1 \in DOMAIN writes /\ writes[k + 1] = y /\ j + 1 < k + 1
    BY <2>1, Shifted
  <2> QED BY <2>2 DEF AfterSave
<1> QED BY <1>2, <1>3, Dequeued

LEMMA TakenSave ==
  ASSUME TypeOK, Once, Saving, writes' = Tail(writes)
  PROVE  /\ \A y \in Entries : InWrites(y)' <=> InWrites(y)
         /\ \A y \in Entries : InWrites(y) <=> AfterSave(y)
<1>1. \A y \in Entries : y # Save
  BY SchedulerConstants
<1>2. \A y \in Entries : InWrites(y)' <=> InWrites(y)
  BY <1>1, Dequeued DEF Saving
<1>3. ASSUME NEW y \in Entries, InWrites(y) PROVE AfterSave(y)
  <2>1. PICK k \in DOMAIN writes : writes[k] = y
    BY <1>3 DEF InWrites
  <2>2. 1 \in DOMAIN writes /\ writes[1] = Save /\ k # 1 /\ 1 < k
    <3>1. 1 \in DOMAIN writes /\ writes[1] = Save
      BY Shifted DEF Saving
    <3>2. k # 1
      BY <1>1, <2>1, <3>1
    <3> QED BY <3>1, <3>2, Shifted DEF Saving
  <2> QED BY <2>1, <2>2 DEF AfterSave
<1>4. ASSUME NEW y \in Entries, AfterSave(y) PROVE InWrites(y)
  BY <1>4 DEF AfterSave, InWrites
<1> QED BY <1>2, <1>3, <1>4

LatchVars == <<menu, base, staged, already, disk, ran, edited, pending, lost, writes>>

LEMMA LatchKept ==
  ASSUME NEW e, Latch(e), UNCHANGED LatchVars
  PROVE  Latch(e)'
BY DEF LatchVars, Latch, Staged, Behind, Fired, FileAgrees, InWrites, AfterSave

LEMMA Typed ==
  ASSUME TypeOK, NEW e \in OneShots
  PROVE  /\ e \in Entries /\ ran[e] \in Nat
         /\ already[e] \in BOOLEAN /\ disk[e] \in BOOLEAN /\ base[e] \in BOOLEAN
         /\ staged.already[e] \in BOOLEAN
BY SchedulerConstants DEF TypeOK

(* The flag is set and its record queued, or the execution is lost.        *)
LEMMA DeliverLatch ==
  ASSUME TypeOK, SaveQueued, NEW e \in OneShots, Latch(e), NEW x \in Entries, Deliver(x)
  PROVE  Latch(e)'
<1>0. e \in Entries /\ ran[e] \in Nat /\ already[e] \in BOOLEAN /\ disk[e] \in BOOLEAN
      /\ base[e] \in BOOLEAN /\ staged.already[e] \in BOOLEAN
  BY Typed
<1>1. /\ UNCHANGED <<menu, base, staged, disk, edited, pending>> /\ lost \subseteq lost'
      /\ ran' = [ran EXCEPT ![x] = @ + 1] /\ Consume(x)
      /\ Consumed(x) => x \in lost'
  BY DEF Deliver, settings
<1>2. (menu = "saving" <=> InWrites(Save)) /\ Once
  BY SaveQueuedIs
<1>3. CASE x \in OneShots /\ ~already[x]
  <2>1. already' = [already EXCEPT ![x] = TRUE] /\ writes' = Append(writes, x) /\ lost' = lost
    BY <1>1, <1>3 DEF Consume, Deliver, Consumed
  <2>2. (InWrites(e)' <=> InWrites(e) \/ e = x) /\ (AfterSave(e)' <=> AfterSave(e) \/ (e = x /\ menu = "saving"))
    BY <1>0, <1>2, <2>1, Appended
  <2>3. CASE e = x
    <3>1. already'[e] = TRUE /\ ran'[e] = ran[e] + 1 /\ ~already[e] /\ InWrites(e)'
      BY <1>0, <1>1, <1>3, <2>1, <2>2, <2>3 DEF TypeOK
    <3>2. Staged(e)'
      BY <1>0, <1>1, <2>1, <3>1 DEF Latch, Staged
    <3>3. Behind(e)'
      BY <1>0, <1>1, <2>1, <3>1 DEF Latch, Staged, Behind
    <3>4. Fired(e)'
      BY <1>0, <1>1, <2>1, <2>2, <2>3, <3>1 DEF Latch, Fired
    <3>5. FileAgrees(e)'
      BY <1>0, <1>1, <2>1, <3>1 DEF Latch, Staged, FileAgrees
    <3> QED BY <3>2, <3>3, <3>4, <3>5 DEF Latch
  <2>4. CASE e # x
    <3>1. already'[e] = already[e] /\ ran'[e] = ran[e]
          /\ (InWrites(e)' <=> InWrites(e)) /\ (AfterSave(e)' <=> AfterSave(e))
      BY <1>0, <1>1, <2>1, <2>2, <2>4 DEF TypeOK
    <3> QED BY <1>1, <2>1, <3>1 DEF Latch, Staged, Behind, Fired, FileAgrees
  <2> QED BY <2>3, <2>4
<1>4. CASE ~(x \in OneShots /\ ~already[x])
  <2>1. UNCHANGED <<already, writes>>
    BY <1>1, <1>4 DEF Consume
  <2>2. (InWrites(e)' <=> InWrites(e)) /\ (AfterSave(e)' <=> AfterSave(e))
    BY <2>1 DEF InWrites, AfterSave
  <2>3. e = x => e \in lost'
    BY <1>1, <1>4 DEF Consumed
  <2>4. e # x => ran'[e] = ran[e]
    BY <1>0, <1>1 DEF TypeOK
  <2> QED BY <1>1, <2>1, <2>2, <2>3, <2>4 DEF Latch, Staged, Behind, Fired, FileAgrees
<1> QED BY <1>3, <1>4

LEMMA RecordLatch ==
  ASSUME TypeOK, NEW e \in OneShots, Latch(e), NEW x \in Entries, Record(x) \/ RecordFails(x)
  PROVE  Latch(e)'
<1>0. e \in Entries /\ ran[e] \in Nat /\ already[e] \in BOOLEAN /\ disk[e] \in BOOLEAN
      /\ base[e] \in BOOLEAN /\ staged.already[e] \in BOOLEAN
  BY Typed
<1>1. /\ UNCHANGED <<menu, base, staged, already, edited, pending, ran>>
      /\ writes # <<>> /\ Head(writes) = x /\ writes' = Tail(writes)
  BY DEF Record, RecordFails, settings, catalog, history
<1>2. /\ InWrites(x) /\ (e # x => (InWrites(e)' <=> InWrites(e)))
      /\ (InWrites(e)' => InWrites(e)) /\ (AfterSave(e)' <=> AfterSave(e))
  BY <1>0, <1>1, TakenRecord
<1>3. Behind(e)'
  BY <1>1, <1>2 DEF Latch, Behind
<1>4. CASE Record(x)
  <2>1. lost' = lost /\ disk'[e] = IF e = x THEN disk[e] \/ already[e] ELSE disk[e]
    BY <1>0, <1>4 DEF Record, history, TypeOK
  <2>2. Staged(e)'
    BY <1>1, <2>1 DEF Latch, Staged
  <2>3. CASE e = x
    <3>1. disk'[e] <=> disk[e] \/ already[e]
      BY <2>1, <2>3
    <3>2. Fired(e)'
      BY <1>0, <1>1, <1>2, <2>1, <3>1 DEF Latch, Fired
    <3>3. disk'[e] \in BOOLEAN
      BY <1>0, <2>1, <2>3, Zenon
    <3>4. FileAgrees(e)'
      BY <1>0, <1>1, <1>2, <2>1, <2>3, <3>1, <3>3 DEF Latch, FileAgrees, Behind
    <3> QED BY <1>3, <2>2, <3>2, <3>4 DEF Latch
  <2>4. CASE e # x
    <3>1. disk'[e] = disk[e] /\ (InWrites(e)' <=> InWrites(e))
      BY <1>2, <2>1, <2>4
    <3> QED BY <1>1, <1>2, <1>3, <2>1, <2>2, <3>1 DEF Latch, Fired, FileAgrees
  <2> QED BY <2>3, <2>4
<1>5. CASE RecordFails(x)
  <2>1. disk' = disk /\ lost' = lost \union {x}
    BY <1>5 DEF RecordFails
  <2>2. Staged(e)'
    BY <1>1, <2>1 DEF Latch, Staged
  <2>3. CASE e = x
    BY <1>3, <2>1, <2>2, <2>3 DEF Latch, Fired, FileAgrees
  <2>4. CASE e # x
    BY <1>1, <1>2, <1>3, <2>1, <2>2, <2>4 DEF Latch, Fired, FileAgrees
  <2> QED BY <2>3, <2>4
<1> QED BY <1>4, <1>5

LEMMA OpenLatch ==
  ASSUME TypeOK, NEW e \in OneShots, Latch(e),
         NEW E \in SUBSET Entries, NEW D \in SUBSET Entries,
         NEW R \in SUBSET OneShots, NEW T \in SUBSET OneShots, OpenMenu(E, D, R, T)
  PROVE  Latch(e)'
<1>0. e \in Entries
  BY Typed
<1>1. /\ menu = "closed" /\ menu' = "open" /\ base' = already /\ edited' = R
      /\ UNCHANGED <<already, disk, ran, pending, lost, writes>>
      /\ e \notin R => staged'.already[e] = already[e]
  BY <1>0 DEF OpenMenu, catalog, history
<1>2. InWrites(e)' <=> InWrites(e)
  BY <1>1 DEF InWrites
<1> QED BY <1>1, <1>2 DEF Latch, Staged, Behind, Fired, FileAgrees

LEMMA ApplyLatch ==
  ASSUME TypeOK, NEW e \in OneShots, Latch(e), Apply
  PROVE  Latch(e)'
<1>0. e \in Entries /\ ran[e] \in Nat /\ already[e] \in BOOLEAN /\ disk[e] \in BOOLEAN
      /\ base[e] \in BOOLEAN /\ staged.already[e] \in BOOLEAN
  BY Typed
<1>1. /\ menu = "open" /\ menu' = "applied" /\ pending' = pending \union edited
      /\ UNCHANGED <<base, staged, edited, disk, writes>> /\ lost \subseteq lost'
  BY DEF Apply, Install
<1>2. already'[e] = IF Kept(e) THEN already[e] ELSE staged.already[e]
  BY <1>0 DEF Apply, Install
<1>3. ran'[e] = IF e \in edited /\ ~staged.already[e] THEN 0 ELSE ran[e]
  BY <1>0 DEF Apply, Install, Rearm
<1>4. InWrites(e)' <=> InWrites(e)
  BY <1>1 DEF InWrites
<1>5. e \notin edited => already'[e] = already[e] /\ ran'[e] = ran[e]
  BY <1>1, <1>2, <1>3 DEF Latch, Staged, Kept
<1>6. e \in edited => already'[e] = staged.already[e]
  BY <1>2 DEF Kept
<1>7. Staged(e)' /\ Behind(e)'
  BY <1>1 DEF Staged, Behind
<1>8. Fired(e)'
  BY <1>0, <1>1, <1>3, <1>4, <1>5, <1>6 DEF Latch, Fired
<1>9. FileAgrees(e)'
  BY <1>1, <1>4, <1>5 DEF Latch, FileAgrees
<1> QED BY <1>7, <1>8, <1>9 DEF Latch

LEMMA SaveLatch ==
  ASSUME TypeOK, SaveQueued, NEW e \in OneShots, Latch(e), SaveMenu
  PROVE  Latch(e)'
<1>0. e \in Entries /\ already[e] \in BOOLEAN
  BY Typed
<1>1. /\ menu = "open" /\ menu' = "saving" /\ base' = already /\ writes' = Append(writes, Save)
      /\ UNCHANGED <<already, disk, ran, edited, pending, lost>>
  BY DEF SaveMenu, catalog, history
<1>2. e \in pending \ edited => staged'.already[e] = already[e]
  BY <1>0 DEF SaveMenu, TypeOK
<1>3. ~InWrites(Save)
  BY <1>1, SaveQueuedIs
<1>4. (InWrites(e)' <=> InWrites(e)) /\ ~AfterSave(e)'
  BY <1>0, <1>1, <1>3, AppendedSave
<1> QED BY <1>0, <1>1, <1>2, <1>4 DEF Latch, Staged, Behind, Fired, FileAgrees

LEMMA PersistLatch ==
  ASSUME TypeOK, SaveQueued, NEW e \in OneShots, Latch(e), Persist
  PROVE  Latch(e)'
<1>0. e \in Entries /\ ran[e] \in Nat /\ already[e] \in BOOLEAN /\ disk[e] \in BOOLEAN
      /\ base[e] \in BOOLEAN /\ staged.already[e] \in BOOLEAN
  BY Typed
<1>1. /\ Saving /\ writes' = Tail(writes) /\ menu' = "saved"
      /\ UNCHANGED <<base, already, edited, pending, lost>>
  BY DEF Persist, catalog
<1>2. menu = "saving" /\ Once
  BY <1>1, SaveQueuedIs, SaveDequeues
<1>3. (InWrites(e)' <=> InWrites(e)) /\ (InWrites(e) <=> AfterSave(e))
  BY <1>0, <1>1, <1>2, TakenSave
<1>4. Merged[e] = IF e \in edited \union pending THEN staged.already[e] ELSE disk[e]
  BY <1>0 DEF Merged
<1>5. disk'[e] = Merged[e] /\ staged'.already[e] = Merged[e]
  BY <1>0 DEF Persist, TypeOK
<1>6. ran'[e] = IF e \in edited \union pending /\ ~staged.already[e] THEN 0 ELSE ran[e]
  BY <1>0 DEF Persist, Rearm
<1>7. Staged(e)'
  BY <1>0, <1>1, <1>2, <1>3, <1>4, <1>5 DEF Latch, Staged, Behind, FileAgrees
<1>8. Behind(e)'
  BY <1>1, <1>2, <1>3 DEF Latch, Behind
<1>9. Fired(e)'
  BY <1>0, <1>1, <1>2, <1>3, <1>4, <1>5, <1>6 DEF Latch, Fired
<1>10. FileAgrees(e)'
  BY <1>0, <1>1, <1>2, <1>3, <1>4, <1>5 DEF Latch, FileAgrees
<1> QED BY <1>7, <1>8, <1>9, <1>10 DEF Latch

LEMMA SaveFailsLatch ==
  ASSUME TypeOK, SaveQueued, NEW e \in OneShots, Latch(e), SaveFails
  PROVE  Latch(e)'
<1>0. e \in Entries
  BY Typed
<1>1. /\ Saving /\ writes' = Tail(writes) /\ menu' = "closed"
      /\ UNCHANGED <<already, pending, ran>> /\ lost \subseteq lost'
  BY DEF SaveFails, Closed, catalog
<1>2. menu = "saving" /\ Once
  BY <1>1, SaveQueuedIs, SaveDequeues
<1>3. InWrites(e)' <=> InWrites(e)
  BY <1>0, <1>1, <1>2, TakenSave
<1>4. e \notin lost' => disk'[e] = disk[e]
  BY <1>0 DEF SaveFails, Merged
<1> QED BY <1>1, <1>2, <1>3, <1>4 DEF Latch, Staged, Behind, Fired, FileAgrees

LEMMA InstallLatch ==
  ASSUME TypeOK, NEW e \in OneShots, Latch(e), InstallSaved
  PROVE  Latch(e)'
<1>0. e \in Entries /\ ran[e] \in Nat /\ already[e] \in BOOLEAN /\ disk[e] \in BOOLEAN
      /\ base[e] \in BOOLEAN /\ staged.already[e] \in BOOLEAN
  BY Typed
<1>1. /\ menu = "saved" /\ menu' = "installed" /\ pending' = {}
      /\ UNCHANGED <<base, staged, edited, disk, writes>>
      /\ lost' = lost \union {x \in edited : already[x] # base[x]}
  BY DEF InstallSaved, Install
<1>2. already'[e] = IF Kept(e) THEN already[e] ELSE staged.already[e]
  BY <1>0 DEF InstallSaved, Install
<1>3. ran'[e] = IF e \in edited /\ ~staged.already[e] THEN 0 ELSE ran[e]
  BY <1>0 DEF InstallSaved, Install, Rearm
<1>4. InWrites(e)' <=> InWrites(e)
  BY <1>1 DEF InWrites
<1>5. Staged(e)' /\ Behind(e)'
  BY <1>1 DEF Staged, Behind
<1>6. CASE e \in edited
  <2>1. e \notin lost' => already[e] = base[e] /\ e \notin lost
    BY <1>1, <1>6
  <2>2. already'[e] = staged.already[e]
    BY <1>2, <1>6 DEF Kept
  <2>3. Fired(e)'
    BY <1>0, <1>1, <1>3, <1>4, <1>6, <2>1, <2>2 DEF Latch, Fired
  <2>4. FileAgrees(e)'
    BY <1>0, <1>1, <1>6, <2>1, <2>2 DEF Latch, FileAgrees
  <2> QED BY <1>5, <2>3, <2>4 DEF Latch
<1>7. CASE e \notin edited
  <2>1. e \notin lost => already'[e] = already[e]
    BY <1>0, <1>1, <1>2, <1>7 DEF Latch, Staged, Kept
  <2>2. ran'[e] = ran[e] /\ (e \in lost' <=> e \in lost)
    BY <1>1, <1>3, <1>7
  <2>3. Fired(e)'
    BY <1>1, <1>4, <2>1, <2>2 DEF Latch, Fired
  <2>4. FileAgrees(e)'
    BY <1>0, <1>1, <1>4, <1>7, <2>1, <2>2 DEF Latch, Staged, Fired, FileAgrees
  <2> QED BY <1>5, <2>3, <2>4 DEF Latch
<1> QED BY <1>6, <1>7

LEMMA CloseLatch ==
  ASSUME NEW e \in OneShots, Latch(e), ReplanSaved \/ CancelMenu
  PROVE  Latch(e)'
<1>1. /\ menu # "saved" /\ menu # "saving" /\ menu' = "closed"
      /\ UNCHANGED <<already, disk, ran, pending, lost, writes>>
  BY DEF ReplanSaved, CancelMenu, Closed, catalog, history
<1>2. InWrites(e)' <=> InWrites(e)
  BY <1>1 DEF InWrites
<1> QED BY <1>1, <1>2 DEF Latch, Staged, Behind, Fired, FileAgrees

LEMMA CrashLatch ==
  ASSUME TypeOK, NEW e \in OneShots, Latch(e), Crash
  PROVE  Latch(e)'
<1>0. e \in Entries
  BY Typed
<1>1. /\ menu' = "closed" /\ already' = disk /\ disk' = disk /\ ran' = ran
      /\ lost' = lost \union {x \in Entries : x \in ToSet(writes)}
  BY DEF Crash, Closed
<1>2. InWrites(e) => e \in lost'
  BY <1>0, <1>1 DEF InWrites, ToSet
<1> QED BY <1>1, <1>2 DEF Latch, Staged, Behind, Fired, FileAgrees

LEMMA LatchStep ==
  ASSUME SchedulerInv, LatchInv, [Next]_vars
  PROVE  LatchInv'
<1> USE DEF SchedulerInv
<1>1. SUFFICES ASSUME NEW e \in OneShots, Latch(e) PROVE Latch(e)'
  BY DEF LatchInv
<1>2. CASE UNCHANGED vars
  BY <1>1, <1>2, LatchKept DEF vars, settings, history, catalog, LatchVars
<1>3. CASE Tick \/ Attach \/ Detach \/ Toggle \/ Sample
  BY <1>1, <1>3, LatchKept
     DEF Tick, Attach, Detach, Toggle, Sample, settings, history, catalog, LatchVars
<1>4. ASSUME NEW f \in Entries, NEW i \in DOMAIN chain[f],
             Admit(f, i) \/ Start(f, i) \/ StartFails(f, i) \/ HookEnds(f, i)
      PROVE  Latch(e)'
  BY <1>1, <1>4, LatchKept
     DEF Admit, Start, StartFails, HookEnds, settings, history, catalog, LatchVars
<1>5. ASSUME NEW f \in Entries, Deliver(f) \/ RunEnds(f) \/ Record(f) \/ RecordFails(f)
      PROVE  Latch(e)'
  <2>1. CASE RunEnds(f)
    BY <1>1, <2>1, LatchKept DEF RunEnds, settings, history, catalog, LatchVars
  <2> QED BY <1>1, <1>5, <2>1, DeliverLatch, RecordLatch
<1>6. ASSUME NEW E \in SUBSET Entries, NEW D \in SUBSET Entries,
             NEW R \in SUBSET OneShots, NEW T \in SUBSET OneShots,
             \/ OpenMenu(E, D, R, T) \/ Apply \/ SaveMenu \/ Persist \/ SaveFails
             \/ InstallSaved \/ ReplanSaved \/ CancelMenu
      PROVE  Latch(e)'
  BY <1>1, <1>6, OpenLatch, ApplyLatch, SaveLatch, PersistLatch, SaveFailsLatch, InstallLatch,
     CloseLatch
<1>7. CASE Crash
  BY <1>1, <1>7, CrashLatch
<1> QED BY <1>2, <1>3, <1>4, <1>5, <1>6, <1>7 DEF Next, Dispatch

LEMMA LatchAlways == Spec => [](SchedulerInv /\ LatchInv)
<1>1. Init => LatchInv
  BY SchedulerConstants
     DEF Init, LatchInv, Latch, Staged, Behind, Fired, FileAgrees
<1>2. SchedulerInv /\ LatchInv /\ [Next]_vars => LatchInv'
  BY LatchStep
<1> QED BY <1>1, <1>2, InvCorrect, PTL DEF Spec

(* A one-shot entry whose record was not lost is executed once for each    *)
(* time it was armed, for any entries, saves, failures and crashes.        *)
THEOREM OneShotsRunOnce == Spec => []RunsOnce
<1>1. SchedulerInv /\ LatchInv => RunsOnce
  BY DEF LatchInv, Latch, Fired, RunsOnce
<1> QED BY <1>1, LatchAlways, PTL

(* At rest the file says of a one-shot entry what the catalog says.        *)
THEOREM FileHasTheLatch == Spec => []LatchRecorded
<1>1. SchedulerInv /\ LatchInv => LatchRecorded
  BY DEF LatchInv, Latch, FileAgrees, InWrites, LatchRecorded
<1> QED BY <1>1, LatchAlways, PTL
=============================================================================
