------------------------------ MODULE Scheduler ------------------------------
(***************************************************************************)
(* Scheduled subtasks of one process: the timer samples each minute once   *)
(* and chains the occurrences of an entry, the hook starts a run, the      *)
(* run's first prompt consumes a one-shot entry in memory at once and on   *)
(* disk through the queue of configuration writes, which it shares with    *)
(* the saves of the settings menu.  Every entry is due in every minute.    *)
(***************************************************************************)
EXTENDS Naturals, Sequences, FiniteSets, SequencesExt

CONSTANTS Entries, OneShots, Save,
          MaxMinute,    \* the clock stops there
          MaxMenus,     \* openings of the settings
          MaxEvents     \* other events: steps of the clock backwards, uses of
                        \* the switch, ends of the session, crashes, failures

ASSUME SchedulerConstants ==
  /\ OneShots \subseteq Entries /\ Save \notin Entries
  /\ {MaxMinute, MaxMenus, MaxEvents} \subseteq Nat

VARIABLES now,          \* the minute on the wall clock
          on, attached, \* the switch; is a session attached to the timer
          sampled,      \* minutes the sampler has seen
          chain,        \* occurrences of each entry not settled yet
          run,          \* the unsettled run of each entry
          def,          \* definition of each entry in force, 0 if disabled
          already,      \* alreadyRun in the catalog in force
          disk,         \* alreadyRun in the configuration file
          writes,       \* configuration writes under way, in their order
          menu,         \* where the settings menu is
          staged,       \* definitions and alreadyRun staged in it
          edited,       \* entries whose alreadyRun it toggled
          base,         \* alreadyRun before the save, or at its opening
          pending,      \* toggles applied to this session only
          started,      \* due minutes whose run was started, in this process
          ran,          \* executions since the entry was last re-armed
          lost,         \* entries with an execution the file may not record
          menus, events

timer    == <<on, attached, sampled>>
catalog  == <<def, already>>
settings == <<menu, staged, edited, base, pending, menus>>
history  == <<started, ran, lost>>
vars     == <<now, timer, chain, run, catalog, disk, writes, settings, history,
              events>>

Definitions == 0..(MaxMenus + 1)
Occurrences ==
  [due : 0..MaxMinute, fresh : BOOLEAN, def : Definitions,
   stage : {"waiting", "starting", "noticing", "reporting"}]

TypeOK ==
  /\ now \in 0..MaxMinute /\ on \in BOOLEAN /\ attached \in BOOLEAN
  /\ sampled \subseteq 0..MaxMinute
  /\ chain \in [Entries -> Seq(Occurrences)]
  /\ run \in [Entries -> {"none", "queued", "running"}]
  /\ def \in [Entries -> Definitions]
  /\ already \in [Entries -> BOOLEAN] /\ disk \in [Entries -> BOOLEAN]
  /\ writes \in Seq(Entries \union {Save})
  /\ menu \in {"closed", "open", "saving", "saved", "applied", "installed"}
  /\ staged \in [def : [Entries -> Definitions], already : [Entries -> BOOLEAN]]
  /\ edited \subseteq OneShots /\ pending \subseteq OneShots
  /\ base \in [Entries -> BOOLEAN]
  /\ started \in [Entries -> SUBSET (0..MaxMinute)]
  /\ ran \in [Entries -> Nat] /\ lost \subseteq Entries
  /\ menus \in 0..MaxMenus /\ events \in 0..MaxEvents

Closed ==
  /\ menu' = "closed" /\ edited' = {}
  /\ staged' = [def |-> [e \in Entries |-> 0], already |-> [e \in Entries |-> FALSE]]
  /\ base' = [e \in Entries |-> FALSE]

Init ==
  /\ now = 0 /\ on \in BOOLEAN /\ attached = FALSE /\ sampled = {}
  /\ chain = [e \in Entries |-> <<>>]
  /\ run = [e \in Entries |-> "none"]
  /\ def = [e \in Entries |-> 1]
  /\ already = [e \in Entries |-> FALSE] /\ disk = already /\ writes = <<>>
  /\ menu = "closed" /\ edited = {} /\ base = already /\ pending = {}
  /\ staged = [def |-> [e \in Entries |-> 0], already |-> already]
  /\ started = [e \in Entries |-> {}] /\ ran = [e \in Entries |-> 0] /\ lost = {}
  /\ menus = 0 /\ events = 0

Event == events < MaxEvents /\ events' = events + 1

Consumed(e) == e \in OneShots /\ already[e]

(***************************************************************************)
(* The timer.                                                              *)
(***************************************************************************)
Tick ==
  /\ \/ now < MaxMinute /\ now' = now + 1 /\ UNCHANGED events
     \/ now > 0 /\ now' = now - 1 /\ Event
  /\ UNCHANGED <<timer, chain, run, catalog, disk, writes, settings, history>>

(* disarm: every occurrence under way belongs to an old generation now. *)
Disarm ==
  chain' = [e \in Entries |->
              [i \in DOMAIN chain[e] |-> [chain[e][i] EXCEPT !.fresh = FALSE]]]

(* arm: the minute in progress counts as sampled. *)
Arm == sampled' = sampled \union {now}

Replan ==
  IF ~attached THEN UNCHANGED <<chain, sampled>>
  ELSE Disarm /\ IF on' THEN Arm ELSE UNCHANGED sampled

Attach ==
  /\ ~attached /\ attached' = TRUE
  /\ IF on THEN Arm ELSE UNCHANGED sampled
  /\ UNCHANGED <<now, on, chain, run, catalog, disk, writes, settings, history, events>>

Detach ==
  /\ attached /\ attached' = FALSE
  /\ Event
  /\ Disarm
  /\ UNCHANGED <<now, on, sampled, run, catalog, disk, writes, settings, history>>

(* setEnabled: the runtime listens while it is attached. *)
Toggle ==
  /\ Event
  /\ on' = ~on
  /\ Replan
  /\ UNCHANGED <<now, attached, run, catalog, disk, writes, settings, history>>

Due(e) == def[e] # 0 /\ ~Consumed(e)

(* Mutant of Occurrence: it is dated to the end of its minute. *)
MutOccurrence(e) == [due |-> now + 1, fresh |-> TRUE, def |-> def[e], stage |-> "waiting"]

Occurrence(e) == [due |-> now, fresh |-> TRUE, def |-> def[e], stage |-> "waiting"]

(* Mutant of Unseen: the timer looks at the minute each time it fires. *)
MutUnseen == TRUE

Unseen == now \notin sampled

Sample ==
  /\ attached /\ on /\ Unseen
  /\ sampled' = sampled \union {now}
  /\ chain' = [e \in Entries |-> IF Due(e) THEN Append(chain[e], Occurrence(e)) ELSE chain[e]]
  /\ UNCHANGED <<now, on, attached, run, catalog, disk, writes, settings, history, events>>

(***************************************************************************)
(* One occurrence: dispatchEntry and the hook for subtasks.                *)
(***************************************************************************)
(* Mutant of Turn: occurrences do not wait for the one before. *)
MutTurn(e, i) == i \in DOMAIN chain[e]

(* The chain: an occurrence is admitted when the one before has settled.   *)
Turn(e, i) == i \in DOMAIN chain[e] /\ i = 1

Stage(e, i, s) == chain' = [chain EXCEPT ![e][i].stage = s]
Settled(e, i)  == chain' = [chain EXCEPT ![e] = RemoveAt(@, i)]

(* Mutant of Admissible: the generation is not compared. *)
MutAdmissible(e, o) == attached /\ on /\ ~Consumed(e)

Admissible(e, o) == o.fresh /\ attached /\ on /\ ~Consumed(e)

(* A run still active is an overlap, a past minute is overdue: both are    *)
(* reported only.                                                          *)
Admit(e, i) ==
  /\ Turn(e, i) /\ chain[e][i].stage = "waiting"
  /\ IF ~Admissible(e, chain[e][i]) THEN Settled(e, i)
     ELSE Stage(e, i, IF run[e] # "none" \/ now > chain[e][i].due THEN "reporting" ELSE "starting")
  /\ UNCHANGED <<now, timer, run, catalog, disk, writes, settings, history, events>>

Start(e, i) ==
  /\ i \in DOMAIN chain[e] /\ chain[e][i].stage = "starting"
  /\ run' = [run EXCEPT ![e] = "queued"]
  /\ started' = [started EXCEPT ![e] = @ \union {chain[e][i].due}]
  /\ Stage(e, i, "noticing")
  /\ UNCHANGED <<now, timer, catalog, disk, writes, settings, ran, lost, events>>

StartFails(e, i) ==
  /\ i \in DOMAIN chain[e] /\ chain[e][i].stage = "starting"
  /\ Event
  /\ Stage(e, i, "reporting")
  /\ UNCHANGED <<now, timer, run, catalog, disk, writes, settings, history>>

HookEnds(e, i) ==
  /\ i \in DOMAIN chain[e] /\ chain[e][i].stage \in {"noticing", "reporting"}
  /\ Settled(e, i)
  /\ UNCHANGED <<now, timer, run, catalog, disk, writes, settings, history, events>>

(***************************************************************************)
(* A run and the one-shot latch.                                           *)
(***************************************************************************)
(* Mutant of Consume: the record is written without setting the flag.      *)
MutConsume(e) ==
  IF e \in OneShots /\ ~already[e]
    THEN writes' = Append(writes, e) /\ UNCHANGED already
    ELSE UNCHANGED <<already, writes>>

Consume(e) ==
  IF e \in OneShots /\ ~already[e]
    THEN already' = [already EXCEPT ![e] = TRUE] /\ writes' = Append(writes, e)
    ELSE UNCHANGED <<already, writes>>

(* The first prompt of the run is delivered.  An entry disarmed since the  *)
(* run was started is executed without a record.                           *)
Deliver(e) ==
  /\ run[e] = "queued"
  /\ run' = [run EXCEPT ![e] = "running"]
  /\ ran' = [ran EXCEPT ![e] = @ + 1]
  /\ Consume(e)
  /\ lost' = IF Consumed(e) THEN lost \union {e} ELSE lost
  /\ UNCHANGED <<now, timer, chain, def, disk, settings, started, events>>

RunEnds(e) ==
  /\ run[e] # "none"
  /\ run' = [run EXCEPT ![e] = "none"]
  /\ UNCHANGED <<now, timer, chain, catalog, disk, writes, settings, history, events>>

(* The write looks at the flag in force again: a re-arm meanwhile wins.    *)
Record(e) ==
  /\ writes # <<>> /\ Head(writes) = e
  /\ writes' = Tail(writes)
  /\ disk' = [disk EXCEPT ![e] = @ \/ already[e]]
  /\ UNCHANGED <<now, timer, chain, run, catalog, settings, history, events>>

RecordFails(e) ==
  /\ writes # <<>> /\ Head(writes) = e
  /\ Event
  /\ writes' = Tail(writes) /\ lost' = lost \union {e}
  /\ UNCHANGED <<now, timer, chain, run, catalog, disk, settings, started, ran>>

(***************************************************************************)
(* The settings menu.                                                      *)
(***************************************************************************)
(* It opens on the catalog in force; E are given a new definition, D are   *)
(* disabled, and alreadyRun of R is toggled, T ending with it set.         *)
OpenMenu(E, D, R, T) ==
  /\ menu = "closed" /\ menus < MaxMenus
  /\ menus' = menus + 1 /\ menu' = "open"
  /\ staged' = [def |-> [e \in Entries |->
                           IF e \in D THEN 0 ELSE IF e \in E THEN menus + 2 ELSE def[e]],
                already |-> [e \in Entries |-> IF e \in R THEN e \in T ELSE already[e]]]
  /\ edited' = R /\ base' = already
  /\ UNCHANGED <<now, timer, chain, run, catalog, disk, writes, pending, history, events>>

(* Mutant of Kept: the staged flag wins. *)
MutKept(e) == FALSE

(* A flag that has changed since base keeps its new value, unless it was   *)
(* toggled in the menu.                                                    *)
Kept(e) == e \notin edited /\ already[e] # base[e]

(* A toggle that leaves the flag cleared arms the entry again. *)
Rearm(E) == ran' = [e \in Entries |-> IF e \in E /\ ~staged.already[e] THEN 0 ELSE ran[e]]

(* replaceConfig. *)
Install ==
  /\ def' = staged.def
  /\ already' = [e \in Entries |-> IF Kept(e) THEN already[e] ELSE staged.already[e]]
  /\ Rearm(edited)
  /\ lost' = lost \union {e \in edited : already[e] # base[e]}

(* Escape at the root: for this session only. *)
Apply ==
  /\ menu = "open" /\ menu' = "applied"
  /\ Install
  /\ pending' = pending \union edited
  /\ UNCHANGED <<now, timer, chain, run, disk, writes, staged, edited, base, menus,
                 started, events>>

(* Save: toggles pending from before are taken from the catalog in force.  *)
SaveMenu ==
  /\ menu = "open" /\ menu' = "saving"
  /\ staged' = [staged EXCEPT !.already =
                  [e \in Entries |-> IF e \in pending \ edited THEN already[e] ELSE @[e]]]
  /\ base' = already
  /\ writes' = Append(writes, Save)
  /\ UNCHANGED <<now, timer, chain, run, catalog, disk, edited, pending, menus, history, events>>

(* Of the flags not toggled the file keeps its own. *)
Merged == [e \in Entries |-> IF e \in edited \union pending THEN staged.already[e] ELSE disk[e]]

Saving == writes # <<>> /\ Head(writes) = Save

(* staged takes the merged flags: they are what the save returns. *)
Persist ==
  /\ Saving
  /\ writes' = Tail(writes)
  /\ disk' = Merged
  /\ staged' = [staged EXCEPT !.already = Merged]
  /\ menu' = "saved"
  /\ Rearm(edited \union pending)
  /\ UNCHANGED <<now, timer, chain, run, catalog, edited, base, pending, menus, started,
                 lost, events>>

(* The write fails, before or after it has replaced the file. *)
SaveFails ==
  /\ Saving
  /\ Event
  /\ writes' = Tail(writes)
  /\ \/ UNCHANGED <<disk, lost>>
     \/ disk' = Merged /\ lost' = lost \union edited \union pending
  /\ Closed
  /\ UNCHANGED <<now, timer, chain, run, catalog, pending, menus, started, ran>>

InstallSaved ==
  /\ menu = "saved" /\ menu' = "installed"
  /\ Install
  /\ pending' = {}
  /\ UNCHANGED <<now, timer, chain, run, disk, writes, staged, edited, base, menus,
                 started, events>>

(* onSaved replans after it has drained and changed the evidence settings. *)
ReplanSaved ==
  /\ menu \in {"applied", "installed"}
  /\ on' = on /\ Replan
  /\ Closed
  /\ UNCHANGED <<now, attached, run, catalog, disk, writes, pending, menus, history, events>>

CancelMenu ==
  /\ menu = "open"
  /\ Closed
  /\ UNCHANGED <<now, timer, chain, run, catalog, disk, writes, pending, menus, history, events>>

(***************************************************************************)
(* The process dies; the next one reads the file.  Definitions are not     *)
(* what the file is modelled for: they stay.                               *)
(***************************************************************************)
Crash ==
  /\ Event
  /\ on' \in BOOLEAN /\ attached' = FALSE /\ sampled' = {}
  /\ chain' = [e \in Entries |-> <<>>] /\ run' = [e \in Entries |-> "none"]
  /\ already' = disk /\ writes' = <<>>
  /\ lost' = lost \union {e \in Entries : e \in ToSet(writes)}
  /\ started' = [e \in Entries |-> {}] /\ pending' = {}
  /\ Closed
  /\ UNCHANGED <<now, def, disk, menus, ran>>

Dispatch == \E e \in Entries : \E i \in DOMAIN chain[e] : Admit(e, i) \/ Start(e, i) \/ HookEnds(e, i)

Next ==
  \/ Tick \/ Attach \/ Detach \/ Toggle \/ Sample \/ Dispatch
  \/ \E e \in Entries : \/ \E i \in DOMAIN chain[e] : StartFails(e, i)
                        \/ Deliver(e) \/ RunEnds(e) \/ Record(e) \/ RecordFails(e)
  \/ \E E, D \in SUBSET Entries, R, T \in SUBSET OneShots :
        E \intersect D = {} /\ T \subseteq R /\ OpenMenu(E, D, R, T)
  \/ Apply \/ SaveMenu \/ Persist \/ SaveFails \/ InstallSaved \/ ReplanSaved \/ CancelMenu
  \/ Crash

Spec == Init /\ [][Next]_vars

(***************************************************************************)
(* Properties.                                                             *)
(***************************************************************************)
(* A one-shot entry is executed once for each time it was armed: no skip,  *)
(* overlap, save or restart arms it again.  Excepted are entries with a    *)
(* record lost: its write failed or died with the process, the execution   *)
(* found the entry disarmed by hand, or a toggle in the menu overrode it.  *)
RunsOnce == \A e \in OneShots : ran[e] <= 1 \/ e \in lost

(* When nothing is being written and no toggle is for this session only,   *)
(* the file says of a one-shot entry what the catalog in force says.       *)
LatchRecorded ==
  writes = <<>> /\ menu = "closed" =>
    \A e \in OneShots \ (pending \union lost) : already[e] = disk[e]

Moves(e, i, s, t) ==
  /\ i \in DOMAIN chain[e] \intersect DOMAIN chain'[e]
  /\ chain[e][i].stage = s /\ chain'[e][i].stage = t

(* An occurrence that waited while the menu changed its entry, the switch  *)
(* was used or the session ended is not admitted with its old definition,  *)
(* except between the moment the catalog is replaced and the replan.       *)
AdmitsCurrentDefinition ==
  [][menu \notin {"applied", "installed"} =>
       \A e \in Entries : \A i \in DOMAIN chain[e] :
         Moves(e, i, "waiting", "starting") => chain[e][i].def = def[e]]_vars

(* "concurrent ticks can never start two runs of one entry": none starts   *)
(* while another is active, however long each start takes.                 *)
StartsAlone ==
  [][\A e \in Entries : \A i \in DOMAIN chain[e] :
       Moves(e, i, "starting", "noticing") => run[e] = "none"]_vars

(* A process starts an entry at most once for each minute, also when the   *)
(* clock steps back, the session changes or the switch is used in it.      *)
StartsOnceAMinute ==
  [][\A e \in Entries : \A i \in DOMAIN chain[e] :
       Moves(e, i, "starting", "noticing") => chain[e][i].due \notin started[e]]_vars
=============================================================================
