--------------------------- MODULE BackgroundPump ---------------------------
(***************************************************************************)
(* The scheduler of the background controller on top of the executor pool: *)
(* tasks are queued, the pump gives each a slot and launches it, a worker  *)
(* fails over to another entry, settles and ends, the user interrupts it,  *)
(* continues it, changes the settings or leaves.  One pump runs at a time; *)
(* between its awaits it runs alone, as does the drain of the pool and a   *)
(* failover between giving its slot back and asking for the next.  New     *)
(* settings are in force some awaits before the pool and the pump hear of  *)
(* them, and a shutdown stops one group after another, with a save after   *)
(* each: both are seen half-way by what runs meanwhile.                    *)
(***************************************************************************)
EXTENDS ExecutorPool

CONSTANTS MaxWorkers,   \* MaxWorkers[c]: how many tasks may be live
          Groups,       \* the tasks of each execution group, oldest group first
          Pinned,       \* tasks of scheduled groups with a pinned resource
          Derived,      \* tasks of waves that run under a copy of the settings
          Restored,     \* tasks taken over from an earlier session
          MaxTasks,     \* bound: tasks admitted or taken over
          MaxWorks,     \* bound: admissions of each task, a launch and continuations
          MaxFaults     \* bound: saves and notices that throw

ASSUME PumpConstants ==
  /\ IsFiniteSet(Tasks)
  /\ MaxWorkers \in [Configs -> Nat \ {0}]   \* normalizeMaxWorkers: at least one
  /\ Groups \in Seq(SUBSET Tasks) /\ MaxTasks \in Nat
  /\ Pinned \subseteq Tasks /\ Derived \subseteq Tasks /\ Restored \subseteq Tasks
  /\ \A c \in Configs, t \in Pinned : Len(Route[c][t]) <= 1   \* resolveGroupRoute
  /\ MaxWorks \in [Tasks -> Nat] /\ MaxFaults \in Nat

VARIABLES st,           \* life of each task
          work,         \* admissions of each task so far
          saving,       \* tasks whose admission is being saved
          aborted,      \* live tasks whose abort signal is raised
          pump,         \* where the pump is
          again,        \* pumpRequested
          budget,       \* maxWorkers as this pump read it
          todo,         \* queued tasks this round has still to look at
          hand,         \* the task the pump works on,
          chosen,       \*   its work when the pump picked it,
          seen,         \*   the settings its route was taken from,
          slot,         \*   and the entry the pump got for it
          resume,       \* the failover under way
          refresh,      \* the pool has not been told of the settings in force
          stopped,      \* groups the shutdown has stopped
          lost,         \* slots nobody can give back any more
          faults

tasks    == <<st, work, saving, aborted>>
pumping  == <<pump, again, budget, todo>>
picked   == <<hand, chosen, seen, slot>>
outside  == <<refresh, stopped>>
failures == <<lost, faults>>
vars     == <<pool, tasks, pumping, picked, resume, outside, failures>>

TypeOK ==
  /\ PoolTypeOK
  /\ st \in [Tasks -> {"idle", "queued", "running", "waiting", "settled"}]
  /\ work \in [Tasks -> Nat]
  /\ saving \subseteq Tasks /\ aborted \subseteq Tasks /\ todo \subseteq Tasks
  /\ pump \in {"off", "top", "scan", "failing", "routing", "choosing", "holding", "checking"}
  /\ again \in BOOLEAN /\ refresh \in BOOLEAN /\ stopped \in Nat
  /\ budget \in Nat
  /\ hand \in Tasks \union {None} /\ chosen \in Nat
  /\ seen \in Configs \union {None} /\ slot \in Entries \union {None}
  /\ resume \in Tasks \union {None}
  /\ lost \in [Entries -> Nat] /\ faults \in 0..MaxFaults

Init ==
  /\ PoolInit
  /\ \A t \in Tasks \ Restored : last[t] = None
  /\ st = [t \in Tasks |-> "idle"] /\ work = [t \in Tasks |-> IF t \in Restored THEN 1 ELSE 0]
  /\ saving = {} /\ aborted = {}
  /\ pump = "off" /\ again = FALSE /\ budget = 0 /\ todo = {}
  /\ hand = None /\ chosen = 0 /\ seen = None /\ slot = None
  /\ resume = None /\ refresh = FALSE /\ stopped = 0
  /\ lost = [e \in Entries |-> 0] /\ faults = 0

Live == {t \in Tasks : st[t] \in {"running", "waiting", "settled"}}
Become(t, s) == st' = [st EXCEPT ![t] = s]

(* Synchronous code is under way: nothing else may step in between. *)
Quiet == draining = 0 /\ resume = None /\ pump \notin {"top", "scan", "choosing", "checking"}
PumpAt(s) == draining = 0 /\ resume = None /\ pump = s

down == stopped > 0   \* shuttingDown

(* A call of pump(). *)
CallPump ==
  IF down THEN UNCHANGED pumping
  ELSE IF pump = "off" THEN pump' = "top" /\ budget' = MaxWorkers[cfg] /\ UNCHANGED <<again, todo>>
  ELSE again' = TRUE /\ UNCHANGED <<pump, budget, todo>>

(* Its finally. *)
PumpReturns ==
  /\ todo' = {}
  /\ IF again /\ ~down THEN pump' = "top" /\ budget' = MaxWorkers[cfg] /\ again' = FALSE
     ELSE pump' = "off" /\ budget' = 0 /\ UNCHANGED again

(* The pump turns to another task: its locals for this one are gone. *)
NextTask == hand' = None /\ chosen' = 0 /\ seen' = None /\ slot' = None

(***************************************************************************)
(* The pump.                                                               *)
(***************************************************************************)
MayLaunch == Cardinality(Live) < budget

PumpTop ==
  /\ PumpAt("top")
  /\ IF MayLaunch
       THEN /\ pump' = "scan" /\ todo' = {t \in Tasks : st[t] = "queued"}
            /\ UNCHANGED <<again, budget>>
       ELSE PumpReturns
  /\ UNCHANGED <<pool, tasks, picked, resume, outside, failures>>

PumpDone ==
  /\ PumpAt("scan") /\ todo = {}
  /\ PumpReturns
  /\ UNCHANGED <<pool, tasks, picked, resume, outside, failures>>

(* No route: skipped, but a pinned task fails, and its group is saved. *)
PickUnroutable(t) ==
  /\ PumpAt("scan") /\ t \in todo
  /\ Route[cfg][t] = <<>>
  /\ todo' = todo \ {t}
  /\ IF t \in Pinned
       THEN /\ st' = [st EXCEPT ![t] = IF @ = "queued" THEN "idle" ELSE @]
            /\ pump' = "failing"
       ELSE UNCHANGED <<st, pump>>
  /\ UNCHANGED <<pool, work, saving, aborted, again, budget, picked, resume, outside, failures>>

FailSaved ==
  /\ PumpAt("failing")
  /\ pump' = "scan"
  /\ UNCHANGED <<pool, tasks, again, budget, todo, picked, resume, outside, failures>>

(* The entry of a continuation is looked up asynchronously. *)
Continuation(t) == work[t] > 1

Pick(t) ==
  /\ PumpAt("scan") /\ t \in todo
  /\ Route[cfg][t] # <<>>
  /\ todo' = todo \ {t}
  /\ hand' = t /\ chosen' = work[t] /\ seen' = cfg
  /\ pump' = IF Continuation(t) THEN "routing" ELSE "choosing"
  /\ UNCHANGED <<pool, tasks, again, budget, slot, resume, outside, failures>>

(* The entry it had before, if its route still has it, or the first free. *)
Wanted ==
  IF chosen > 1 /\ \E i \in Positions(seen, hand) : Route[seen][hand][i] = last[hand]
    THEN {i \in Positions(seen, hand) : Route[seen][hand][i] = last[hand]}
    ELSE Positions(seen, hand)

(* Another entry than before is announced first; other settings may be.    *)
Choose(e) ==
  /\ PumpAt("choosing") \/ PumpAt("routing")
  /\ First(seen, hand, Wanted, e)
  /\ Occupy(e) /\ slot' = e
  /\ pump' \in IF chosen <= 1 THEN {"checking"}
               ELSE IF last[hand] \notin {e, None} THEN {"holding"} ELSE {"checking", "holding"}
  /\ UNCHANGED <<cfg, copy, lease, last, waiters, draining, tasks, again, budget, todo,
                 hand, chosen, seen, resume, outside, failures>>

NoSlot ==
  /\ PumpAt("choosing") \/ PumpAt("routing")
  /\ Open(seen, hand, Wanted) = {}
  /\ pump' = "scan" /\ NextTask
  /\ UNCHANGED <<pool, tasks, again, budget, todo, resume, outside, failures>>

HoldEnds ==
  /\ PumpAt("holding")
  /\ pump' = "checking"
  /\ UNCHANGED <<pool, tasks, again, budget, todo, picked, resume, outside, failures>>

(* The save or the notice throws: the pump ends with the slot in its hand. *)
AwaitFails ==
  /\ PumpAt("failing") \/ PumpAt("holding")
  /\ faults < MaxFaults /\ faults' = faults + 1
  /\ lost' = [e \in Entries |-> lost[e] + (IF slot = e THEN 1 ELSE 0)]
  /\ NextTask
  /\ PumpReturns
  /\ UNCHANGED <<pool, tasks, resume, outside>>

(* Mutant of StillWanted: a task queued again is taken for the old one. *)
MutStillWantedByState == st[hand] = "queued"

StillWanted == st[hand] = "queued" /\ work[hand] = chosen

(* A launched task is live from here on, whatever its record says first. *)
Launch ==
  /\ PumpAt("checking") /\ StillWanted
  /\ lease' = [lease EXCEPT ![hand] = slot] /\ last' = [last EXCEPT ![hand] = slot]
  /\ Become(hand, "running")
  /\ pump' = "top" /\ todo' = {} /\ NextTask
  /\ UNCHANGED <<cfg, copy, running, waiters, draining, work, saving, aborted,
                 again, budget, resume, outside, failures>>

DropStale ==
  /\ PumpAt("checking") /\ ~StillWanted
  /\ Vacate(slot)
  /\ pump' = "scan" /\ NextTask
  /\ UNCHANGED <<cfg, copy, lease, last, waiters, tasks, again, budget, todo,
                 resume, outside, failures>>

(***************************************************************************)
(* Tasks and their workers.                                                *)
(***************************************************************************)
(* start, add, or continueTask of a settled or interrupted task.  Only add *)
(* does not ask whether the application is shutting down.                  *)
Admit(t) ==
  /\ Quiet /\ (down => work[t] = 0)
  /\ st[t] = "idle" /\ work[t] < MaxWorks[t]
  /\ Cardinality({u \in Tasks : work[u] > 0} \union {t}) <= MaxTasks
  /\ Become(t, "queued")
  /\ work' = [work EXCEPT ![t] = @ + 1]
  /\ saving' = saving \union {t}
  /\ UNCHANGED <<pool, aborted, pumping, picked, resume, outside, failures>>

Admitted(t) ==
  /\ Quiet /\ t \in saving
  /\ saving' = saving \ {t}
  /\ CallPump
  /\ UNCHANGED <<pool, st, work, aborted, picked, resume, outside, failures>>

AdmitFails(t) ==
  /\ Quiet /\ t \in saving
  /\ faults < MaxFaults /\ faults' = faults + 1
  /\ saving' = saving \ {t}
  /\ UNCHANGED <<pool, st, work, aborted, pumping, picked, resume, outside, lost>>

(* Mutant of Handover: the slot stays with the failed entry. *)
MutHandoverKeeps(t) ==
  lease' = [lease EXCEPT ![t] = None] /\ UNCHANGED <<cfg, running, last, waiters, draining>>

Handover(t) == Release(t)

(* The worker of a wave starts, some awaits after its launch: the settings *)
(* of a scheduled group with a pin or a review override are copied.        *)
CopySettings(t) ==
  /\ Quiet
  /\ t \in Derived /\ st[t] = "running" /\ copy[t] = None
  /\ copy' = [copy EXCEPT ![t] = cfg]
  /\ UNCHANGED <<cfg, running, lease, last, waiters, draining, tasks, pumping, picked,
                 resume, outside, failures>>

(* acquireFailover gives the slot back first, then asks for another. *)
Failover(t) ==
  /\ Quiet
  /\ st[t] = "running" /\ lease[t] # None /\ (t \in Derived => copy[t] # None)
  /\ Handover(t)
  /\ resume' = t
  /\ UNCHANGED <<copy, tasks, pumping, picked, outside, failures>>

Resuming(t) == draining = 0 /\ resume = t /\ t \in Tasks

FailoverTakes(t, e) ==
  /\ Resuming(t)
  /\ First(Conf(t), t, After(Conf(t), t), e)
  /\ Take(t, e)
  /\ resume' = None
  /\ UNCHANGED <<cfg, copy, waiters, draining, tasks, pumping, picked, outside, failures>>

FailoverWaits(t) ==
  /\ Resuming(t)
  /\ After(Conf(t), t) # {} /\ Open(Conf(t), t, After(Conf(t), t)) = {} /\ t \notin aborted
  /\ waiters' = Append(waiters, t)
  /\ Become(t, "waiting")
  /\ resume' = None
  /\ UNCHANGED <<cfg, copy, running, lease, last, draining, work, saving, aborted, pumping, picked,
                 outside, failures>>

FailoverRefused(t) ==
  /\ Resuming(t)
  /\ Open(Conf(t), t, After(Conf(t), t)) = {} /\ (After(Conf(t), t) = {} \/ t \in aborted)
  /\ resume' = None
  /\ UNCHANGED <<pool, tasks, pumping, picked, outside, failures>>

(* What the drain decided reaches its waiter. *)
DrainStep ==
  /\ \/ (DrainDismiss \/ \E e \in Entries : DrainGrant(e)) /\ Become(NextWaiter, "running")
     \/ (DrainSkip \/ DrainEnds) /\ draining > 0 /\ UNCHANGED st
  /\ UNCHANGED <<work, saving, aborted, pumping, picked, resume, outside, failures>>

(* The worker is done or has failed: its finally releases the slot. *)
Settle(t) ==
  /\ Quiet /\ st[t] = "running"
  /\ Release(t)
  /\ copy' = [copy EXCEPT ![t] = None]
  /\ Become(t, "settled")
  /\ UNCHANGED <<work, saving, aborted, pumping, picked, resume, outside, failures>>

(* Mutant of Freed: a settled task does not run the pump. *)
MutFreedSilently == UNCHANGED pumping

Freed == CallPump

(* The rest of its lifecycle is over: the finally of launch. *)
End(t) ==
  /\ Quiet /\ st[t] = "settled"
  /\ Become(t, "idle")
  /\ aborted' = aborted \ {t}
  /\ Freed
  /\ UNCHANGED <<pool, work, saving, picked, resume, outside, failures>>

InterruptQueued(t) ==
  /\ Quiet /\ st[t] = "queued"
  /\ Become(t, "idle")
  /\ UNCHANGED <<pool, work, saving, aborted, pumping, picked, resume, outside, failures>>

(* Also what a shutdown does to each live task; a waiter leaves the queue. *)
Abort(t) ==
  /\ Quiet /\ t \notin aborted
  /\ aborted' = aborted \union {t}
  /\ \/ st[t] = "running" /\ UNCHANGED <<st, waiters>>
     \/ \E i \in DOMAIN waiters : waiters[i] = t /\ Unqueue(i) /\ Become(t, "running")
  /\ UNCHANGED <<cfg, copy, running, lease, last, draining, work, saving, pumping, picked,
                 resume, outside, failures>>

(***************************************************************************)
(* Saved settings are in force at once (replaceConfig).  Only after more   *)
(* awaits of the command does sync reach refreshPool, which drains the     *)
(* pool and calls the pump: never, if one of them throws.                  *)
(***************************************************************************)
ReplaceConfig(c) ==
  /\ Quiet /\ c # cfg
  /\ cfg' = c /\ refresh' = TRUE
  /\ UNCHANGED <<copy, running, lease, last, waiters, draining, tasks, pumping, picked,
                 resume, stopped, failures>>

RefreshPool ==
  /\ Quiet /\ refresh
  /\ refresh' = FALSE
  /\ Reconfigure
  /\ CallPump
  /\ UNCHANGED <<tasks, picked, resume, stopped, failures>>

(***************************************************************************)
(* shutdown raises its flag and stops group after group, each saved before *)
(* the next: if a save throws, the rest is never stopped.  A pump that     *)
(* awaits does not look at the flag when it goes on.                       *)
(***************************************************************************)
StopGroup(g) ==
  st' = [t \in Tasks |-> IF t \in g /\ st[t] = "queued" THEN "idle" ELSE st[t]]

Shutdown ==
  /\ Quiet /\ stopped < Len(Groups)
  /\ stopped' = stopped + 1
  /\ StopGroup(Groups[stopped + 1])
  /\ UNCHANGED <<pool, work, saving, aborted, pumping, picked, resume, refresh, failures>>

Pump ==
  \/ PumpTop \/ PumpDone \/ FailSaved \/ NoSlot \/ HoldEnds \/ Launch \/ DropStale
  \/ \E t \in Tasks : PickUnroutable(t) \/ Pick(t)
  \/ \E e \in Entries : Choose(e)

Resume ==
  \E t \in Tasks : FailoverWaits(t) \/ FailoverRefused(t) \/ \E e \in Entries : FailoverTakes(t, e)

Next ==
  \/ Pump \/ AwaitFails \/ DrainStep \/ Resume
  \/ RefreshPool \/ Shutdown
  \/ \E c \in Configs : ReplaceConfig(c)
  \/ \E t \in Tasks : \/ Admit(t) \/ Admitted(t) \/ AdmitFails(t)
                      \/ Failover(t) \/ Settle(t) \/ End(t)
                      \/ CopySettings(t) \/ InterruptQueued(t) \/ Abort(t)

(* Synchronous code goes on; what the pump awaits ends and so does each    *)
(* worker, however often other events come first.                          *)
Fairness ==
  /\ WF_vars(DrainStep \/ Resume) /\ SF_vars(Pump)
  /\ \A t \in Tasks : SF_vars(Settle(t))

Spec == Init /\ [][Next]_vars /\ Fairness

(***************************************************************************)
(* Properties.                                                             *)
(***************************************************************************)
(* Every slot counted as used is held by a task, is in the pump's hand, or *)
(* was lost when the pump failed with it: none is returned twice or kept.  *)
SlotsAccounted ==
  \A e \in Entries :
    running[e] = Cardinality({t \in Tasks : lease[t] = e}) + (IF slot = e THEN 1 ELSE 0) + lost[e]

(* Whenever the pool is at rest, a failover that waits has no free slot    *)
(* behind its own entry: under its copy of the settings if it goes by one, *)
(* else under those in force, once the pool has been told of them.         *)
WaitersBlocked ==
  draining = 0 =>
    \A i \in DOMAIN waiters :
      LET t == waiters[i] IN
        copy[t] # None \/ ~refresh =>
          After(Conf(t), t) # {} /\ Open(Conf(t), t, After(Conf(t), t)) = {}

(* The pump launches the work it selected: not one interrupted, replaced   *)
(* or stopped by a shutdown while its entry was looked up or its warning   *)
(* was delivered.  A task no shutdown has stopped yet may still start.     *)
LaunchesWhatWasSelected ==
  [][\A t \in Live' \ Live : st[t] = "queued" /\ hand = t /\ chosen = work[t]]_vars

(* No queued task is forgotten while the application runs: with nothing    *)
(* failed, no save or refresh owed and no worker left whose end would      *)
(* run the pump, what is still queued has no route.                        *)
NoStrandedTask ==
  /\ Quiet /\ pump = "off" /\ Live = {} /\ saving = {} /\ ~refresh
  /\ faults = 0 /\ ~down
  => \A t \in Tasks : st[t] = "queued" => Route[cfg][t] = <<>>

(* A failover that waits is answered: by a slot, by the settings that end  *)
(* its route, or by its abort.  As the admissions of a task are bounded,   *)
(* it is that the queue of those who wait empties again and again.         *)
EveryWaiterAnswered == []<>(waiters = <<>> \/ lost # [e \in Entries |-> 0])
=============================================================================
