# pi-review-gate in TLA+

pi-review-gate is an extension of the pi coding agent. It watches the work of
one primary agent, has an independent reviewer look at it whenever the agent
settles, sends corrections back until the reviewer passes the work or a limit
is reached, and lets the agent delegate work to background executors in
isolated Git worktrees. This directory is a formal model of its control logic:
TLA+ modules checked by TLC on small instances and theorems checked by TLAPS
for every instance. Paths below are relative to the repository root.

## 1. The system: components, state, operations

The program is one Node.js process per session (single-threaded, so steps
interleave only at `await`s and callbacks), plus other sessions on the same
machine that share the file system, plus the model and the terminal host on the
far side of asynchronous calls.

**Primary review gate** (`src/activation/`, `src/state.ts`, `src/commands.ts`).
State: the review window and its exchanges, the correction count, the pause
latch, `reviewInProgress`, the input hold, the ledger of queued user inputs,
the list of pending model deliveries. Operations: the host's hooks
(`session_start`, `input`, `agent_start`, `message_start`, `agent_end`,
`agent_settled`, `session_shutdown`) and the `/review-*` commands. Hard: a
review runs for minutes, during which the user types, cancels, pauses, clears,
shuts down or starts another review by command.

**Model deliveries** (`src/durable-delivery.ts`, `src/transmission.ts`,
`src/activation/pending-delivery.ts`). State: a durable record per message
(queued, dispatching, delivered, uncertain, cancelled) and a receipt file per
review run. Operations: queue, dispatch, recover on restart, release the user's
held inputs, cancel. Hard: a send cannot be undone and its acknowledgement can
be lost in a crash or a failed save.

**Checkpoints** (`src/checkpoint/`, `src/review-checkpoint.ts`,
`src/activation/persistence.ts`). State: Git objects pinned by refs under an
owner, descriptors in the session sidecar, the owners known durable. Operations:
capture, arm, pin, advance, restore, release on retirement. Hard: a descriptor
in the sidecar must never outlive its pin, whatever save fails.

**Delegated execution** (`src/execution/`). State: wave manifests, worktrees,
the wave ownership lease, task and group records, source-mutation leases,
conflict gates, executor capacity, wake and subtask notifications. Operations:
start, review, integrate, land, salvage, continue, cancel, compact, recover.
Hard: several executors in one process, several processes on one wave root,
landings into overlapping workspaces, crashes between two durable steps.

**Scheduling** (`src/scheduling/`): cron and one-shot work injected as turns of
the orchestrator. **Background shell** (`src/background-shell/`): detached jobs
whose completion wakes the agent. **User questions** (`src/user-question/`):
a prompt with an answer, a timeout and a cancellation that race. **Deferred
tools and tool protection** (`src/deferred-tools.ts`, `src/tool-protection/`):
tools activated on demand, and calls held for a protection review.
**Apply patch** (`src/apply-patch/`): all-or-nothing edits of several files.
**Session host** (`src/session-host/`): terminals, their roster and their peers
on other machines. **Web** (`src/web/`): browser sessions and the egress broker.

They interact by direct calls inside the process, by promises and callbacks
across it, by the session sidecar across restarts, and by files of the wave
root across processes.

What makes each component correct, and where it is dealt with:

| component | correct when | module |
|---|---|---|
| primary review gate | an automatic review closes its window only with nothing left to review; its flags are lowered again; held inputs keep a delivery that can still be released or accounted for; a deferred review is taken up again, unless its wake could not be sent; a request for changes stands until it passes or is cleared | `ReviewTurn` |
| model deliveries | at most one send per message over failures, crashes and restarts; nothing cancelled is sent by the session that cancelled it, nor by a later one once the cancellation was saved and reported; nothing is marked delivered that was not; held inputs leave in the order they were typed | `ModelDelivery`, `DeliveryContract` |
| wave ownership | one owner of a wave root among all processes; a release is final | `WaveOwner` |
| source mutation lease | landings into overlapping roots exclude each other, in queueing order, and every one gets its turn | `SourceLease`, `SourceAccess` |
| conflict gates | no landing enters a source that holds unresolved markers, also after a restart; only validated gates are cleared | `ConflictGates` |
| wave landing | a landing is all or nothing at every crash point, loses no original and never overwrites an edit made meanwhile | `WaveLanding`, `LandingContract` |
| executor pool | every slot is given back once; a failover never waits beside a free slot of the settings it goes by | `ExecutorPool` |
| task pump | it launches what it selected, whatever happened during its awaits; no queued task is forgotten while the application runs | `BackgroundPump` |
| scheduler | a run starts alone, once for a minute, with the definition in force; a one-shot runs once and the file has its latch | `Scheduler` |
| checkpoint owners | the sidecar never names a checkpoint whose pin was released; no pin outlives its last owner except over a crash | not modelled |
| task lifecycle | a task has one terminal state, what is on disk is reachable from what ran, continuation and cancellation exclude each other | not modelled |
| wake delivery | a result never precedes the notice of its launch; one watch per execution | not modelled |
| user questions | each waiter is settled exactly once, by an answer of its own session | not modelled |
| tool protection | an approval is used only under what it was asked for | not modelled |

The rest (settings, web browsing, the session host, adapters, rendering, Git
plumbing) is listed in `PROJECT.json` with the reason it is left aside; section 5
says why the last five of the table are.

## 2. The modules

```
DeliveryContract  <-- implements --  ModelDelivery       (proofs: ModelDeliveryProofs)
SourceAccess      <-- implements --  SourceLease         (proofs: SourceLeaseProofs)
      ^------------- extends ------  ConflictGates       (proofs: ConflictGatesProofs)
LandingContract   <-- implements --  WaveLanding         (proofs: WaveLandingProofs)
ExecutorPool      <--- extends ----  BackgroundPump      (proofs: BackgroundPumpProofs)
WaveOwner                                                (proofs: WaveOwnerProofs)
ReviewTurn                                               (proofs: ReviewTurnProofs)
Scheduler                                                (proofs: SchedulerProofs)
```

Each `MC<Module>.tla` instantiates its module for TLC. Operators whose name
starts with `Mut` are plausible bugs of the definition that follows them; no
specification uses them. Replacing a definition by its mutant must break the
property it is paired with in `PROJECT.json`, which shows that the property
depends on that piece of code.

### ModelDelivery (`src/durable-delivery.ts`, `src/activation/pending-delivery.ts`)

State: the status of each record in memory (`mem`) and in the session sidecar
(`disk`), the save under way (`saver`, `image`), the receipt files, the life of
the session, and for each asynchronous routine its position, the record in
hand and the records it has still to visit. A step is the code between two
`await`s. The routines are `deliverAutomaticTransmission` and the commands that
dispatch a note (`Callers`), `releaseQueuedUserInputs` (`Releasers`, two at a
time because `/review-now` and a settlement may both release),
`recoverPendingModelDeliveries` at session start, the cancellation of an
automatic review and `/review-clear`. The two cancel in a different order: the
review saves and then says how many inputs it has dropped, while `/review-clear`
cancels in its handler (`ClearQueued`), sends its notice there (`ReportCleared`)
and is saved by the wrapper of the command afterwards. A save writes the list as it stood when
the save was admitted; it may fail, and the process may die at any step. `sent`,
`dropped` and `calm` only observe.

`DeliveryContract` is the promise in three lines: a message is accepted at most
once and never after its cancellation was acknowledged. `dropped`, which stands
for the acknowledgement, has the records whose cancellation was both saved and
reported: what `/review-clear` reports before its save is no promise a crash
would keep, and section 3 says so.

Abstractions: a session whose state store is unavailable (its `save` answers
false) is left out; the routines of a session end with the session;
saves are admitted in any order although the code queues them, and
`SaveSkipped` lets any routine of a closing session skip its save: both only add
behaviours. `reviewInProgress` belongs to `ReviewTurn`.

### WaveOwner (`src/execution/wave-owner.ts`)

State: the lease file, where each claim stands, its attempts, a heartbeat write
in flight. Every file-system call of `acquireWaveOwner` is a step, so claims of
different processes interleave as they do on disk; an owner may crash anywhere,
and a dead pid may be reported alive (reused) but never the converse.
`overlapped` remembers whether two claims were ever under way together.

### SourceLease, SourceAccess (`src/execution/source-mutation-lease.ts`)

`SourceAccess` says what the coordinator is for: a waiting landing enters when
no overlapping root is occupied or blocked. `SourceLease` is the code: a ticket
is chained behind the tails of all overlapping roots, promise reactions settle
and prune tails in any order, an acquire waits at the gate first and again
after its turn, may be aborted, and may give way to a block that appeared while
it queued. A yield that is aborted at the gate leaves a settled tail in the map:
memory only, and the model has it.

### ConflictGates (`src/execution/conflict-gate-store.ts`, `background-controller.ts`, `wave-task-lifecycle.ts`)

Extends `SourceAccess`: a landing inside the source materializes markers,
checkpoints the parent (which may throw), installs a gate, publishes it in the
session sidecar and leaves; `markClean` takes a snapshot of the gates, validates
them all, then deletes and releases them one by one with a save between; the
user's edits remove markers at any time. Two calls of `markClean` may overlap;
`overlapped` records it. Gates are held by root key, the key under which the
store keeps them; the block a gate owns is a number, and a release of an older
block does nothing.

The session may end in two ways, at any step. `SwitchSession` is
`session_shutdown` followed by a restore: `shutdown()` awaits the landings, the
last save may go unconfirmed, `detach` releases the blocks of the gates the store
holds, and the restored session installs the gates the sidecar names. It does
not wait for `markClean`, which goes on with its snapshot; `overlapped` is raised
then too. `Crash` loses everything but the markers and the sidecar. Markers whose
gate was not on disk by then have none afterwards (`unguarded`, with those whose
checkpoint threw): what is checked is that there are no others.

Not modelled: force-merge, the rollback inside `materializeLandingConflicts`, a
session that is not resumed, the order of the `Map`, and a notice that throws
during the restore before the gates are reached.

### WaveLanding, LandingContract (`src/execution/wave-landing.ts`)

`LandingContract` is the promise about the source tree: all untouched paths of a
landing become their result in one step or keep their original, and the user's
own content is not replaced, except where it was written between an inspection
and the rename that relies on it (`raced`). The tree of the contract is what a
recovery would leave if the landing stopped here.

State of `WaveLanding`: the content of each destination and of its backup, the
temp files, the manifest (state, phase of each path, the paths it found absent)
and the place of the one process at work. A step ends with one change of a file
or of the manifest.

| action | code |
|---|---|
| `Stage`, `WriteManifest`, `StageFails` | the temps and the journal before the first rename |
| `CheckPath`, `Drifted`, `SkipDone` | the just-in-time inspection of a path |
| `BackupPath`, `MarkBackup`, `Install`, `MarkInstalled` | the renames of a path, each followed by its phase |
| `Complete`, `Clean`, `CleanEnds` | the terminal state, then backups and temps go |
| `UndoPath` ... `GiveUp` | the rollback in reverse order and its failures |
| `Recover`, `Rec...` | recovery of a manifest by a later process, path by path |
| `CleanTerminal`, `Crash`, `Edit` | cleanup of a finished manifest, death at any step, the user's editor |

One step each: staging all temps; in rollback and recovery the inspection
together with its first rename. Left out: authentication of the manifest and
its key, identities of files beyond their content, created directories,
symlinked ancestors, result links whose target is missing. `LinkTo` marks the
paths whose original is a symlink, for what `fs.stat` makes of it.

### ExecutorPool, BackgroundPump (`src/execution/executor-pool.ts`, `background-controller.ts`)

`ExecutorPool` has the slots, leases, routes and waiting failovers; a release or
a reconfiguration calls waiters back from inside its loop, so `draining` is the
index of that loop and nothing else runs while it is set. A waiter's route comes
from the settings in force, but the waves of a scheduled group with a pinned
resource or a review override go by a copy made when the worker starts
(`deriveGroupConfig`; `copy`, `Conf`, `CopySettings`). `BackgroundPump` is
its client: admission of a launch or a continuation (`Admit`, saved before it
calls the pump), the pump (`PumpTop`, `Pick`, `Choose`, `NoSlot`, `HoldEnds`, `Launch`,
`DropStale`; its awaits are between `Pick` and `Launch`), failover
(`Handover`, then `FailoverTakes`, `FailoverWaits` or `FailoverRefused`),
`Settle` and `End` of a worker, interruption, new settings and shutdown.

New settings come in two steps. `ReplaceConfig` puts them in force at once, as
`replaceConfig` in `src/settings/command.ts` does; `RefreshPool` tells the pool
and runs the pump, after the awaits of the command and of its `onSaved`, or never
if one of these throws (`refresh`). `Shutdown` is one step per group, in the
order of the map: `shutdown()` raises its flag, stops the tasks of a group and
awaits its save before the next; if the save throws, the rest is never stopped.
Meanwhile a pump that awaits goes on, since only `pump()` itself looks at the
flag, and `add` queues a task without asking (`start` and `continueTask` ask).

A launched task is live at once. The pump looks at queued tasks in any order: a
superset of the code's. A settings digest is abstracted, so a hold may or may not
happen. A save or a notice that throws inside the pump (`AwaitFails`) ends it,
and loses the slot it had acquired (`lost`). Left out: detach and restore, also
with a pump still awaiting; research and in-place tasks where they differ from
waves; and what a worker does.

### Scheduler (`src/scheduling/`, `src/settings/persistence.ts`, `src/index.ts`)

State: the clock in minutes, the switch and the session, the minutes sampled, the
chain of occurrences of each entry with their definition and whether they belong
to the present generation, the run of each entry, the catalog in force, the
configuration file, the queue of configuration writes and the settings menu with
what is staged in it. `Sample` ... `HookEnds` are the timer and the dispatcher,
`Deliver` and `Consume` the first prompt of a run with the one-shot latch,
`Record` its write, `OpenMenu` ... `ReplanSaved` the menu, its save and the
installation of the saved catalog, which are separate steps because the code
awaits between them. Every entry is due in every minute: cron matching is data.
`lost` holds the entries with an execution the file may not record: the write
failed, the process died first, or the user had disarmed the entry by hand.

Left out: the orchestrator-turn destination, removal of entries, definitions
edited in the file while no process runs, several processes on one file.

### ReviewTurn (`src/activation/review-turn.ts`, `src/state.ts`, `src/review.ts`, `src/commands.ts`, `src/index.ts`)

State: the review windows with their baseline, active exchange, the flags of
the last completed exchange, the last verdict, the contents the last passes saw,
the response mode and the correction count; the workspace; whether the model
runs and whether a message waits for it; a background job and the deferral it
causes; the flags `reviewsPaused`, `reviewInProgress` and
`agentSettlementInputHold`; the automatic review and the one of `/review-now`,
which may be under way together, each on the window it started with; the ledger
of held inputs and their deliveries.

| action | code |
|---|---|
| `HoldInput`, `TakeInput` | the `input` hook during and outside a review |
| `StartRun`, `TakeMessage` | `armAgentRun`, `onMessageStart` |
| `Call`, `Drift` | a qualifying tool call with its edit; another writer |
| `StartBackground`, `EndBackground` | `handleBackgroundLifecycle` |
| `SettleNothing` ... `BeginReview` | the outcomes of `onAgentSettled` before a review |
| `DrainFails`, `FinishSettlement` | its failure before the review, its `finally` |
| `SkipReview` | the four outcomes without a review of `runReviewSettled`, and what the caller does with each |
| `Capture`, `Decide`, `Deliver` | the frozen content goes to the reviewers; the verdict is counted, recorded and saved; the transmission and the held inputs follow |
| `ReviewFails`, `DecideFails`, `DeliverFails` | the reviewer, the save of the verdict, or the save around the delivery throws |
| `Cancel`, `AbortAutomatic`, `EndCommand` | `/review-cancel` or escape, and its two consequences |
| `ReviewNow`, `ReviewContinue`, `TogglePause`, `ReviewClear` | the commands |

Evidence is the snapshot method: a baseline is the content it captured, and a
review compares contents. Assumed of the host: it runs the handlers of
`agent_settled` one at a time and takes the messages queued for a run before it
settles. Atomic here: the capture together with the completion of the
exchange, and a release of all held inputs (one by one is `ModelDelivery`'s
subject). Whether a request for changes repeats the previous one is left open.
A release may fail half-way (`Release`): an input the host refused stays queued;
one whose save or host call threw is `uncertain`, keeps its entry in the ledger,
is never sent again and stops every later release (finding 2). The wake for a
deferred review may not be sent (`EndBackground`): a notice then says that the
review stays deferred until the next turn. If the host call throws instead, the
code sends no notice and the rejection is nobody's; for the review it is the same.
Three history variables keep what the properties exclude: `broken` (a save failed
after an automatic verdict, which leaves `reviewInProgress` raised until the
next settlement), `unwoken` (such a wake was not sent and no run has begun
since) and `moved` (a verdict was recorded while the other review was
under way, or `/review-continue` rebased the response to a pass or under a
review). Under `moved` an older pass can stand over a newer request for
changes and close its window; the documentation promises nothing about it, so it
is a hazard in `PROJECT.json` and no finding.

Not modelled: the toggle of automatic review, evidence methods without a
baseline, a failing baseline capture, reviewer questions, deferral on delegated
subtasks (the same path as background jobs), shutdown and restore.

## 3. What the runs check

| run | bounds | checks |
|---|---|---|
| `delivery_notes` | two notes (one with a receipt), one caller, one restart | types; `AtMostOnce`, `DeliveredWasSent`; the refinement of `DeliveryContract` |
| `delivery_inputs` | two inputs, two overlapping releasers, a caller slot, one restart | `CancelledNeverSent`; `NeverOvertaken`: no input leaves after one that was typed later |
| `delivery_stranded` | two inputs, one releaser, one restart | violated: `ReleaseReachesAll` |
| `wave_owner` | four claims | types; `SerialExclusion`; `ReleasedNeverReturns` |
| `wave_owner_race` | three claims | violated: `MutualExclusion` |
| `source_lease` | a repository and two disjoint directories in it, one landing each, one block | `MutualExclusion`, `ServedInOrder`, the inductive invariant `LeaseInv`, the refinement of `SourceAccess`, and under fairness `EveryLandingServed` |
| `conflict_gates` | a repository, a directory in it and another repository, a landing in each, three blocks, two cleaners, one restart | types; `NoLandingOverGatedMarkers`, `BlockedByListedGate`, `SerialClearsOnlyValidated` |
| `review_turn` | one input, three contents, two windows, two runs, two commands or extension messages, one correction | types; `AutomaticCloseIsClean`, `FlagsOwned`, `LedgerBacked`, `NoLostWake` |
| `wave_landing` | an addition, a modification and a deletion, two edits, two crashes, two failing operations | types; `OriginalKept`, `UndoneIsRestored`, `ManualIsJustified`, the refinement of `LandingContract` |
| `wave_landing_links` | a modification, a deletion and the deletion of a symlink to that file, one crash | violated: `RecoveredRestoresAll` |
| `background_pump` | three tasks in two groups, two of them admitted: one pinned and continued twice, one that fails over under a copy, one under the settings in force; two entries, two settings, one failing await | types; `SlotsAccounted`, `WaitersBlocked`, `NoStrandedTask`, `LaunchesWhatWasSelected`, and under fairness `EveryWaiterAnswered` |
| `scheduler` | one entry, one-shot, three minutes, two openings of the menu, two other events | types; `RunsOnce`, `LatchRecorded`, `AdmitsCurrentDefinition`, `StartsAlone`, `StartsOnceAMinute` |

Why the bounds are enough. A delivery record interacts with another only through
the shared save and through the order of inputs, so two records, two routines
that pass the same record and one restart reach every pair of steps; one restart
is where a record on disk is read back, a second one repeats it. A wave takeover
involves the dead owner, the claimer and one more claimer; the fourth claim lets
the race happen again behind it. Overlap of roots needs a root, one inside it
and one disjoint from the latter, which is the smallest relation that is not
transitive; a larger run with four landings (3.9 million states) agrees. For
the gates one landing per root and two outstanding gates suffice to validate one
and clear another; without restarts four landings agree, and one restart brings
back every gate there can be. A landing treats its paths one after the other, so
one of each kind, with a crash of the landing and one of its recovery, reaches
every pair of a file and a phase (938,184 states). For the pump two
tasks compete for a slot while a third, of the other kind, may take the place of
either; the second settings turn the order of the entries round, have one worker,
one slot less and no route for the pinned task, so waiters and queued tasks gain
and lose routes (733,722 states). A safety run with all three tasks admitted
(4,053,367 states) agrees. In `Scheduler` two openings of the menu let
one save cross the other's execution and three minutes let an occurrence wait
behind two (3,753,256 states); until it has run, the one-shot entry behaves as a
recurring one. Entries share only the queue of writes and the menu; the theorems
of section 4 hold for any number of them.
In `ReviewTurn` a window's fate is decided by what one settlement leaves for the
next, so two runs show it; two events allow a command during a review, and a
pause or a cancellation followed by another command; three contents
distinguish the baseline, what a review saw and what was edited since. Contents,
releasers, cleaners and claims are interchangeable, hence the symmetry sets; no
run with a symmetry set checks liveness.

Deadlock is not checked where the system really stops: all claims, landings,
deliveries or bounded events are used up, and a landing, a pump or a scheduler
with nothing to do. `ReviewTurn` never stops (`Drift`).

Fairness. `EveryLandingServed` assumes weak fairness of the steps that Node.js
runs once their promise is resolved (`Enqueue`, `Enter` or `Yield`, `Settle`) and
of `Release`: the code inside the lease ends, since every landing has its
`finally`. Nothing is assumed of the user: a gate that is never cleaned holds
its landings back, and the property excepts them. A landing that gives up is
no obligation of the scheduler. `EveryWaiterAnswered` assumes weak fairness of
the synchronous code (drain, failover), strong fairness of the pump, whose
awaits end however often settings change or tasks are interrupted meanwhile, and
strong fairness of the worker's own `Settle`: other callbacks may disable it
for a moment, but the event loop serves every callback that is due. That a worker
settles at all is an assumption about the agent it runs. As each task is admitted
a bounded number of times, that everyone who waits is answered is stated as: the
queue of the waiters is empty again and again. A waiter behind a slot that was
lost is excepted. The other properties are safety properties and need no fairness;
`ReleaseReachesAll` is an action property of one finished release.

### Findings

Each is a run that must fail, with the line of code and the quoted promise in
`PROJECT.json`.

1. **Two takeovers of one wave** (`wave-owner.ts:53`): a claimer that inspected a
   dead lease unlinks the name, not the lease it inspected; a second one removes
   the first one's fresh lease and both own the wave.
2. **A held input that was being sent when the process died blocks all later
   ones** (`durable-delivery.ts:46`), although the documentation offers
   `/review-now` to release them.
3. **Recovery does not see the backup of a dangling link**
   (`wave-landing.ts:2225`): `fs.stat` follows the link, the path is skipped, and
   the landing is reported as recovered with the link under its backup name.

### Observations without a run

Found while modelling. The first group are behaviours of the models that the
properties except or do not speak of; TLC shows each of them against a property
that denies it.

- Overlapping `mark_clean` calls drop a gate that was not validated
  (`background-controller.ts:3861`); one that outlives a switch of the session
  deletes the restored gate, and its block stays with nothing to clear it.
- Markers without a gate when the parent checkpoint throws after they were
  written (`wave-task-lifecycle.ts:161`), or the session ends before the sidecar
  names the gate; `publishAssociations` does not look at an unconfirmed save.
- `/review-now` at the correction cap closes an unresolved window
  (`commands.ts:226`).
- Edits made while paused after a pass are never reviewed when the user types
  before unpausing (`index.ts:1042`).
- A slot is lost when a save or a notice throws inside the pump
  (`background-controller.ts:4290`).
- `/review-clear` says that the state is cleared before anything is saved
  (`commands.ts:129`, saved at `:63`): after a crash in between the next session
  sends the cleared notes and releases the cleared inputs.
- When the wake for a deferred review cannot be sent (`review-turn.ts:249`,
  `:278`), nothing takes the review up until something else starts a run.
- Between new settings and `refreshPool` (`settings/command.ts:804`,
  `index.ts:1332`) a failover waits beside a free slot and a queued task with a
  route has no pump; for good, if an await in between throws. A failover under a
  copy keeps to the old routes and slot counts as long as its worker runs
  (`scheduled-group-config.ts:71`).
- During `shutdown()` a pump that was awaiting launches a task of a group that is
  not stopped yet (`background-controller.ts:3941`, `:4297`), and `add` still
  queues tasks, also in groups already stopped (`:2358`).
- The pump launches under the route it read before its await
  (`background-controller.ts:4261`; `seen` in the model), where
  `tests/executor-pool.test.ts:93` has new settings apply to the next acquisition.
- A recovery that dies between a rename and its mark makes the next one ask for
  the user without any modification (`wave-landing.ts:2342`, against
  `docs/recovery.md:220`; `ManualIsJustified` allows it after a second crash).
- An occurrence is admitted with its old definition between the replacement of
  the catalog and the replan (`index.ts:1329`; `docs/scheduled-tasks.md:417` has
  the save replan at once).
- An entry disarmed for the session only while its run is queued leaves no
  record of the execution (`one-shot.ts:39`); a flag toggled twice in the menu
  and consumed during its save is true in the file and false in the catalog
  (`one-shot.ts:51`, `command.ts:804`).

The second group was read in the code and is not in a model.

- A modified symlink whose old target is missing: recovery removes the installed
  result without putting the backup back.
- `transmit` does not release the reviewed checkpoint when the exchange was
  armed again during the review (`activation/review-turn.ts:875`), as
  `review.ts:524` does; a checkpoint superseded before any save was never durable
  and its pin is not released (`activation/persistence.ts:67`).
- An edit of a landed path between the landing guard and the advance of the
  checkpoint is folded into the baseline (`parent-checkpoint-ledger.ts:237`).

## 4. What is proved

For every value of the constants, with the assumptions named in the modules
(bounds are natural numbers, kinds of records and processes are disjoint, the
overlap of roots is reflexive and symmetric, absent values are outside their
sets):

- **ModelDeliveryProofs**: `TypeOK`; `DeliveryInv`; from it `AtMostOnce`,
  `CancelledNeverSent`, `DeliveredWasSent`, and that every step of
  `ModelDelivery` is a step of `DeliveryContract` or changes nothing there.
  `AtMostOnce` alone is not inductive: that a queued record was never sent
  depends on what the file says (a crash reads it back), on the save under way
  (whose image may be older than memory) and on the routines in flight (two of
  them may hold the same record). `DeliveryInv` says exactly that: no unsent
  status is on record anywhere for a sent message, a record has one sender, the
  file says "dispatching" before the send, and a dropped record is out of every
  routine's reach from the moment it is dropped, through the report and the save. Lemmas describe what each routine may do (it steps aside,
  claims a record, or marks one), so the invariant is checked against a few
  kinds of steps instead of every pair of routine and position. `NeverOvertaken`
  needs where the releases stand: `OrderInv` says that inputs are on record in
  the order they were typed, that each release has the first of its inputs in
  hand (`LowestInHand`), and that what it has behind it was sent or is out of
  every routine's reach (`BehindIsSettled`), in the file too once the save
  before the next send is written (`SavedBehind`). Then no restart brings an
  earlier input back after a later one was sent.
- **WaveOwnerProofs**: `TypeOK`, and for claims that have never overlapped
  `Serial` (one claim at a time, an owner's lease is the published one,
  heartbeats belong to owners) and with it mutual exclusion. Without the history
  variable the theorem is false (finding 1). `ReleasedNeverReturns` holds also
  where claims overlap: `Published` says that only an owner has a heartbeat under
  way and that an active lease is that of a claim still published.
- **SourceLeaseProofs**: `LeaseInv` (tails resolve in order per root, each lease
  is chained behind every unresolved overlapping one, the map covers all of
  them, a landing in the source owns an open lease), mutual exclusion, service
  in order, and the refinement of `SourceAccess`, for every set of landings and
  every overlap relation, transitive or not.
- **ReviewTurnProofs**: `TypeOK` with the fact it needs, that a review under way
  works on a window and judges a content it captured; `FlagsOwned`;
  `LedgerBacked`; `NoLostWake`, which excepts a wake that was not sent. The last is not inductive: the end of background
  work wakes nothing while a review is in progress, and a window could gain a
  baseline when no run is due. `WakeInv` adds that no review is deferred while
  one is in progress (from `FlagsOwned`: a settlement that defers finds the flag
  lowered, or raised by a failed save) and that a window not opened yet has no
  baseline. The operators on the books are described once, by what they return
  (`...Type`) and by a relation `Follows` that says which baselines and current
  windows they may produce; only the start of a run leaves it.
  `AutomaticCloseIsClean` is about one step but rests on the history of the
  window. `GateInv` says that the response to a pass starts from the baseline or
  from what a pass saw (`ResponseToPass`) and that a review captured earlier, or
  on another window, finds an exchange no verdict began (`FreshUnderReview`), both
  until a verdict comes while the other review is under way (`moved`); that only
  a pass leaves the mode "observation" (`AllModed`), and that while a run or
  an automatic review of the current window is under way, a completed response
  to a pass left something to review (`NothingUnanswered`): otherwise the review
  before would have closed the window. A relation `Kept` says what a step without
  a verdict keeps of all windows; verdicts and `/review-continue` are the only
  steps outside it.
- **ConflictGatesProofs**: every property of the run. "Some block covers the
  markers" is not inductive, because a stale `markClean` may lift a block by its
  number. `GateInv` says for each landing with guarded markers that its root is
  blocked, that no snapshot in hand has that block under another landing's name
  (`Guarded`), that what a call may still clear has no markers
  (`SnapshotSound`), and that the sidecar names the gate once published, as long
  as calls did not overlap. A crash and a switch of the session are one lemma
  (`RestoreStep`): over blocks that are those before or gone, the restore guards
  all markers but those it gives up.
- **WaveLandingProofs**: `TypeOK`, `OriginalKept`, `UndoneIsRestored`,
  `ManualIsJustified` and the refinement of `LandingContract`, for any number of
  paths, edits, crashes and failures. `LandingInv` says what is on disk of each
  path whatever the loop does (`PathsKept`), what the step about to be taken relies on (`AtHand`), and that
  the paths behind the loop have their result (`Applied`). `RestoreInv` adds
  what the manifest tells about the files, one phase behind them. Completion is
  the one step that maps to `Land`. `CalmInv` is for the undisturbed landing: the
  loop enters each path in the journal once, nothing is rolled back, and what is
  marked installed is there until the recovery after the one crash removes it.
- **BackgroundPumpProofs**: `TypeOK`, `SlotsAccounted`, `WaitersBlocked`,
  `LaunchesWhatWasSelected`. A waiter is blocked only at rest, and if it goes by
  the settings in force only once the pool was told of them: while a drain runs
  the invariant (`PumpInv`) speaks of the waiters it has passed (`PassedBlocked`,
  `Blocked`) and needs that slots are counted, that who waits is queued once
  (`WaitersWait`), and that only running tasks hold slots (`LeasesRun`).
  `NoStrandedTask` is the end of an argument about every stage of the pump:
  `Unforgotten` says that each queued task with a route is still ahead of the pump
  (`Ahead`), or that a pump is owed: by the pump itself, a save under way, new settings
  the pool has not heard of or a live task, which runs it when it ends (`Served`); work that replaced what the
  pump had picked is owed one too (`ReplacedIsOwed`). It needs `RoutedHaveSlots`, that a routed
  entry has a slot at all (`normalizeWorkerRoutes` and
  `normalizeRequiredWorkerCount` in `src/config.ts`), and that the number of
  workers is positive (`normalizeMaxWorkers`): a pump that finds no slot then
  leaves behind a task that holds one.
- **SchedulerProofs**: every property of the run. `SchedulerInv` says where the
  occurrences of a chain stand, that each has a minute of its own, and that those
  of the present generation have the definition in force. The latch needs the
  order of the queue of writes: `LatchInv` says that a write behind the menu's
  save is of a flag set since (`Behind`), that the staged flag is the one the
  menu started from unless it was toggled (`Staged`), and that the file agrees
  with the catalog or will by a write under way (`FileAgrees`).

The inductive invariants were checked by TLC on the instances of the runs before
they were proved; only `LeaseInv` is also a property of a run.

Only model-checked: liveness, which TLAPS does not handle (nor `ENABLED`). Every
invariant and every action property of a passing run is a theorem.

## 5. Not modelled

- **Checkpoint owners, store and parent ledger** (`src/checkpoint/`,
  `src/activation/persistence.ts`, `parent-checkpoint-ledger.ts`). What a save may
  release depends on every capture, advance and hand-over of a baseline, across
  four files whose steps are Git commands on refs and objects under a lock; the
  protocol does not come apart from that plumbing without assuming what it should
  show. `ConflictGates` has the serialized save and `ReviewTurn` the baselines.
- **Task lifecycle and group store** (`wave-worker*.ts`, `task-state.ts`,
  `background-group-store.ts`). A worker's stages are one sequence of Git commands
  and agent turns; the writes of a group are one promise chain. What interacts is
  modelled: admission, slots, landing, gates, lease and recovery.
- **In-place executor** (`src/execution/inplace/`): one sequential loop over the
  turns of an agent, whose evidence is data.
- **Wake delivery** (`wake-delivery.ts`): best-effort messages; an await of one
  promise per launch notice carries its only order.
- **User questions, deferred tools** (`src/user-question/`,
  `src/deferred-tools.ts`): a waiter is settled through one map entry that is
  removed first; tool sets are recomputed synchronously.
- **Tool protection** (`src/tool-protection/`): parsing of commands and policies;
  the generation, batch and session of an answer are compared in one place.
- **Session host, web, adapters** (`src/session-host/`, `src/web/`,
  `src/adapters/`): their states are those of terminals, peers, browsers and
  agent processes outside the repository. They are most of the source and
  independent of the review gate; agents and reviewers are nondeterministic
  outcomes in the models.
- **Apply patch, Git read, settings menus, reports**: sequential transformations
  of text, compared with examples by their tests.

What would come next, in this order: the orchestrator-turn destination of the
scheduler; the toggle of automatic review, shutdown and restore in `ReviewTurn`;
the owners of checkpoints over an abstract store.
