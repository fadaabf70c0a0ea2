---------------------------- MODULE ExecutorPool ----------------------------
(***************************************************************************)
(* ExecutorPoolScheduler: the slots of the worker resources, the leases on *)
(* them and the queue of failovers that wait for one.  The pool calls its  *)
(* waiters back from inside release and reconfigure: draining is the index *)
(* of that loop, 0 when it does not run, and nothing else runs meanwhile.  *)
(* A waiter's route is read anew from its settings each time: the ones in  *)
(* force, or for a scheduled group with a pin or a review override of its  *)
(* own the copy made when the worker started.                              *)
(***************************************************************************)
EXTENDS Naturals, Sequences, FiniteSets, SequencesExt

CONSTANTS Tasks, Entries, Configs, None,
          Route,        \* Route[c][t]: entries for t under settings c, best first
          Capacity      \* Capacity[c][e]: maxConcurrent of e, 0 if c has no e

ASSUME PoolConstants ==
  /\ None \notin Tasks \union Entries \union Configs
  /\ Route \in [Configs -> [Tasks -> Seq(Entries)]]
  /\ Capacity \in [Configs -> [Entries -> Nat]]

(* normalizeWorkerRoutes and normalizeRequiredWorkerCount: a route names   *)
(* resources of its own settings only, and each of them has a slot.        *)
ASSUME RoutedHaveSlots ==
  \A c \in Configs, t \in Tasks : \A i \in DOMAIN Route[c][t] : Capacity[c][Route[c][t][i]] >= 1

VARIABLES cfg,          \* the settings in force
          copy,         \* the copy of settings a task's failovers go by, or None
          running,      \* slots of each entry in use, as the pool counts them
          lease,        \* the entry each task holds a slot of
          last,         \* the entry each task was assigned last
          waiters,      \* tasks waiting for a failover slot
          draining

pool == <<cfg, copy, running, lease, last, waiters, draining>>

PoolTypeOK ==
  /\ cfg \in Configs
  /\ copy \in [Tasks -> Configs \union {None}]
  /\ running \in [Entries -> Nat]
  /\ lease \in [Tasks -> Entries \union {None}]
  /\ last \in [Tasks -> Entries \union {None}]
  /\ waiters \in Seq(Tasks)
  /\ draining \in Nat

PoolInit ==
  /\ cfg \in Configs
  /\ copy = [t \in Tasks |-> None]
  /\ running = [e \in Entries |-> 0]
  /\ lease = [t \in Tasks |-> None]
  /\ last \in [Tasks -> Entries \union {None}]
  /\ waiters = <<>> /\ draining = 0

(* The settings by which t fails over. *)
Conf(t) == IF copy[t] = None THEN cfg ELSE copy[t]

Positions(c, t) == DOMAIN Route[c][t]

(* The positions of t's route behind the entry it had; all of them if the  *)
(* settings have dropped that entry.                                       *)
After(c, t) ==
  {i \in Positions(c, t) : \A j \in Positions(c, t) : Route[c][t][j] = last[t] => j < i}

(* Those of P with a free slot, and the first of them. *)
Open(c, t, P) == {i \in P : running[Route[c][t][i]] < Capacity[c][Route[c][t][i]]}
First(c, t, P, e) ==
  \E i \in Open(c, t, P) : (\A j \in Open(c, t, P) : i <= j) /\ e = Route[c][t][i]

Occupy(e) == running' = [running EXCEPT ![e] = @ + 1]

(* drainWaiters is called. *)
Drain == draining' = IF waiters = <<>> THEN 0 ELSE 1

(* Mutant of Vacate: the waiters are not offered the slot. *)
MutVacateQuietly(e) == running' = [running EXCEPT ![e] = @ - 1] /\ UNCHANGED draining

Vacate(e) == running' = [running EXCEPT ![e] = @ - 1] /\ Drain

Take(t, e) ==
  /\ Occupy(e)
  /\ lease' = [lease EXCEPT ![t] = e]
  /\ last' = [last EXCEPT ![t] = e]

(* Mutant of Release: the lease is not forgotten. *)
MutReleaseForgets(t) ==
  /\ IF lease[t] = None THEN UNCHANGED <<running, draining>> ELSE Vacate(lease[t])
  /\ UNCHANGED <<cfg, lease, last, waiters>>

(* release: a second call on the same lease does nothing. *)
Release(t) ==
  /\ lease' = [lease EXCEPT ![t] = None]
  /\ IF lease[t] = None THEN UNCHANGED <<running, draining>> ELSE Vacate(lease[t])
  /\ UNCHANGED <<cfg, last, waiters>>

(* drainWaiters, one waiter after another. *)
Draining   == draining \in DOMAIN waiters
NextWaiter == waiters[draining]
Unqueue(i) == waiters' = RemoveAt(waiters, i)

DrainGrant(e) ==
  /\ Draining
  /\ First(Conf(NextWaiter), NextWaiter, After(Conf(NextWaiter), NextWaiter), e)
  /\ Take(NextWaiter, e)
  /\ Unqueue(draining)
  /\ UNCHANGED <<cfg, copy, draining>>

(* No entry is left behind its own: the failover gets no slot. *)
DrainDismiss ==
  /\ Draining
  /\ After(Conf(NextWaiter), NextWaiter) = {}
  /\ Unqueue(draining)
  /\ UNCHANGED <<cfg, copy, running, lease, last, draining>>

DrainSkip ==
  /\ Draining
  /\ After(Conf(NextWaiter), NextWaiter) # {}
  /\ Open(Conf(NextWaiter), NextWaiter, After(Conf(NextWaiter), NextWaiter)) = {}
  /\ draining' = draining + 1
  /\ UNCHANGED <<cfg, copy, running, lease, last, waiters>>

DrainEnds ==
  /\ draining > Len(waiters)
  /\ draining' = 0
  /\ UNCHANGED <<cfg, copy, running, lease, last, waiters>>

(* Mutant of Reconfigure: new slots are not offered to who waits. *)
MutReconfigureQuietly == UNCHANGED pool

(* reconfigure: the routes of the waiters are read from the new settings.  *)
Reconfigure ==
  /\ Drain
  /\ UNCHANGED <<cfg, copy, running, lease, last, waiters>>
=============================================================================
