----------------------------- MODULE ReviewTurn -----------------------------
(***************************************************************************)
(* The primary review gate of one session: review windows and exchanges,   *)
(* the settlement of a model run (onAgentSettled), the commands          *)
(* /review-now, /review-continue, /review-pause, /review-clear and         *)
(* /review-cancel, and the user inputs held while a review is under way.   *)
(* Evidence is the snapshot method: a baseline is the content of the       *)
(* workspace when it was captured.  The delivery of messages one by one is *)
(* ModelDelivery's.  The host runs the handlers of agent_settled one at a  *)
(* time, and takes the messages queued for a run before it settles.        *)
(***************************************************************************)
EXTENDS Naturals

CONSTANTS Inputs,       \* what the user types, each once
          Contents,     \* what the workspace may hold
          Nothing,      \* no captured content
          NoExchange,   \* no active exchange
          MaxCycles,    \* config.maxCorrectionCycles
          MaxWindows, MaxRuns, MaxEvents  \* bounds

ASSUME NothingAssumption == Nothing \notin Contents
ASSUME NoExchangeAssumption ==
  NoExchange \notin [base : Contents \cup {Nothing}, called : BOOLEAN, edited : BOOLEAN]
ASSUME BoundsAssumption == {MaxCycles, MaxWindows, MaxRuns, MaxEvents} \subseteq Nat

VARIABLES book,              \* the windows, the current one and how many were opened
          workspace,         \* the content of the workspace
          turn, due,         \* whether the model runs; a message waits for it
          background,        \* a background shell job is active
          deferred,          \* backgroundReviewDeferred
          paused, reviewInProgress, hold,  \* the gate's flags
          job,               \* the automatic review and the one of /review-now
          ledger, delivery,  \* queuedUserInputsDuringReview and its durable records
          runs, events,    \* how often the bounded actions happened
          broken,            \* history: a save failed after an automatic verdict
          unwoken,           \* history: a wake for a deferred review was not sent, and no run began since
          moved             \* history: the response does not start from what the last verdict saw

model == <<turn, due, background, deferred, runs>>
flags == <<paused, reviewInProgress, hold>>
inputs == <<ledger, delivery>>
history == <<broken, unwoken, moved>>
vars == <<book, workspace, model, flags, job, inputs, events, history>>

Reviews == {"automatic", "command"}
Basis == Contents \cup {Nothing}
Exchange == [base : Basis, called : BOOLEAN, edited : BOOLEAN]

(* asked and called accumulate since the last completion and the last      *)
(* verdict; settled is the last exchange completed since that verdict;     *)
(* passed is what the verdicts saw that passed since the last that did not.*)
Window == [base : Basis, exchange : Exchange \cup {NoExchange},
           settled : [asked : BOOLEAN, called : BOOLEAN, edited : BOOLEAN, changed : BOOLEAN],
           asked : BOOLEAN, called : BOOLEAN,
           last : {"none", "pass", "needs_changes", "error"}, passed : SUBSET Contents,
           mode : {"none", "observation", "correction", "deferred"},
           attempted : BOOLEAN, cycles : 0..MaxCycles, capped : BOOLEAN]

NotSettled == [asked |-> FALSE, called |-> FALSE, edited |-> FALSE, changed |-> FALSE]
EmptyWindow == [base |-> Nothing, exchange |-> NoExchange, settled |-> NotSettled,
                asked |-> FALSE, called |-> FALSE, last |-> "none", passed |-> {},
                mode |-> "none", attempted |-> FALSE, cycles |-> 0, capped |-> FALSE]

Job == [at : {"idle", "deferring", "settling", "reviewing", "delivering", "releasing"},
        window : 0..MaxWindows, saw : Basis, cancelled : BOOLEAN]
Idle == [at |-> "idle", window |-> 0, saw |-> Nothing, cancelled |-> FALSE]

Book == [windows : [1..MaxWindows -> Window], current : 0..MaxWindows, opened : 0..MaxWindows]

(* Every variable has its type. *)
TypeOK ==
  /\ book \in Book
  /\ workspace \in Contents
  /\ turn \in {"idle", "running"}
  /\ {due, background, deferred, paused, reviewInProgress, hold, broken, unwoken, moved}
       \subseteq BOOLEAN
  /\ job \in [Reviews -> Job]
  /\ ledger \subseteq Inputs
  /\ delivery \in [Inputs -> {"none", "queued", "uncertain", "sent", "cancelled"}]
  /\ runs \in 0..MaxRuns /\ events \in 0..MaxEvents

Init ==
  /\ book = [windows |-> [n \in 1..MaxWindows |-> EmptyWindow], current |-> 0, opened |-> 0]
  /\ workspace \in Contents
  /\ turn = "idle" /\ due = FALSE /\ background = FALSE /\ deferred = FALSE
  /\ paused = FALSE /\ reviewInProgress = FALSE /\ hold = FALSE
  /\ job = [r \in Reviews |-> Idle]
  /\ ledger = {}
  /\ delivery = [i \in Inputs |-> "none"]
  /\ runs = 0 /\ events = 0
  /\ broken = FALSE /\ unwoken = FALSE /\ moved = FALSE

-----------------------------------------------------------------------------
(* Windows and exchanges. *)

Current(b) == b.windows[b.current]
MayOpen(b) == b.current # 0 \/ b.opened < MaxWindows
Opened(b) ==
  IF b.current # 0 THEN b ELSE [b EXCEPT !.current = b.opened + 1, !.opened = b.opened + 1]

(* A closed window that no review holds is forgotten. *)
Closed(b) ==
  [b EXCEPT !.current = 0,
            !.windows = [n \in 1..MaxWindows |->
                           IF n = b.current /\ \A r \in Reviews : job[r].window # n
                           THEN EmptyWindow ELSE b.windows[n]]]

(* rememberUserRequest: the open window, or a new one, has a new request. *)
Remembered(b) == LET o == Opened(b) IN [o EXCEPT !.windows[o.current].asked = TRUE]

(* beginAgentRun *)
Begun(b) ==
  LET o == Opened(b) IN
  IF Current(o).exchange # NoExchange THEN o
  ELSE [o EXCEPT !.windows[o.current].exchange = [base |-> Nothing, called |-> FALSE, edited |-> FALSE]]

(* armAgentRun: an exchange without a baseline takes the window's, and a   *)
(* window without one captures the workspace.                              *)
Armed(b) ==
  LET g == Begun(b)
      w == Current(g)
      base == IF w.base = Nothing THEN workspace ELSE w.base IN
  IF w.exchange.base # Nothing THEN g
  ELSE [g EXCEPT !.windows[g.current] = [w EXCEPT !.base = base, !.exchange.base = base]]

(* completeActiveExchange, on the frozen content of the workspace. *)
Completed(w) ==
  IF w.exchange = NoExchange THEN w
  ELSE [w EXCEPT !.settled = [asked |-> w.asked, called |-> w.exchange.called,
                              edited |-> w.exchange.edited,
                              changed |-> workspace # w.exchange.base],
                 !.called = @ \/ w.exchange.called,
                 !.asked = FALSE,
                 !.exchange = NoExchange]

(***************************************************************************)
(* recordReviewerFeedbackAndArmExchange: the verdict enters the current    *)
(* window, if there is one, and the response exchange starts from what the *)
(* reviewers saw.                                                          *)
(***************************************************************************)
Judged(w, verdict, mode, saw) ==
  [w EXCEPT !.last = verdict, !.mode = mode, !.called = FALSE, !.settled = NotSettled,
            !.attempted = @ \/ mode = "correction",
            !.passed = IF verdict = "pass" THEN @ \cup {saw} ELSE {}]

Recorded(b, verdict, mode, saw) ==
  LET r == IF b.current = 0 THEN b
           ELSE [b EXCEPT !.windows[b.current] = Judged(@, verdict, mode, saw)]
      e == Begun(r) IN
  [e EXCEPT !.windows[e.current].exchange.base = IF @ = Nothing THEN saw ELSE @]

-----------------------------------------------------------------------------
(* User inputs and model runs. *)

(* What comes from outside is bounded: commands and extension messages. *)
Event == events < MaxEvents /\ events' = events + 1

Queued == {i \in Inputs : delivery[i] = "queued"}

(* The deliveries a release visits.  An uncertain one was being sent when  *)
(* a save or the host failed: it is never sent again.                      *)
Uncertain == {i \in Inputs : delivery[i] = "uncertain"}
Held == Queued \cup Uncertain

(* The input hook during a review or a settlement. *)
HoldInput(i) ==
  /\ delivery[i] = "none"
  /\ reviewInProgress \/ hold
  /\ ledger' = ledger \cup {i}
  /\ delivery' = [delivery EXCEPT ![i] = "queued"]
  /\ UNCHANGED <<book, workspace, model, flags, job, events, history>>

(* The window of a finished response to a pass is not a new task's. *)
Retired(b) ==
  IF b.current # 0 /\ Current(b).exchange = NoExchange /\ Current(b).last = "pass" THEN Closed(b) ELSE b

(* The input hook otherwise. *)
TakeInput(i) ==
  /\ delivery[i] = "none"
  /\ ~reviewInProgress /\ ~hold
  /\ MayOpen(Retired(book))
  /\ book' = Remembered(Retired(book))
  /\ delivery' = [delivery EXCEPT ![i] = "sent"]
  /\ due' = TRUE
  /\ UNCHANGED <<workspace, turn, background, deferred, runs, flags, job, ledger, events, history>>

(* A message of the extension: a schedule, a completed subtask, ... *)
Trigger ==
  /\ Event /\ ~due /\ due' = TRUE
  /\ UNCHANGED <<book, workspace, turn, background, deferred, runs, flags, job, inputs, history>>

StartRun ==
  /\ due /\ turn = "idle"
  /\ runs < MaxRuns /\ MayOpen(book)
  /\ book' = Armed(book)
  /\ turn' = "running" /\ due' = FALSE
  /\ runs' = runs + 1
  /\ unwoken' = FALSE
  /\ UNCHANGED <<workspace, background, deferred, flags, job, inputs, events, broken, moved>>

(* The running model takes a queued message: a custom one arms the run     *)
(* again, a prompt does not.                                               *)
TakeMessage ==
  /\ due /\ turn = "running" /\ MayOpen(book)
  /\ book' \in {book, Armed(book)}
  /\ due' = FALSE
  /\ UNCHANGED <<workspace, turn, background, deferred, runs, flags, job, inputs, events, history>>

(* A qualifying tool call of the model, and the edit it makes if any. *)
Called(w, edits) == [w EXCEPT !.exchange.called = TRUE, !.exchange.edited = @ \/ edits]

Call(content) ==
  /\ turn = "running"
  /\ workspace' = content
  /\ book' = IF book.current = 0 \/ Current(book).exchange = NoExchange THEN book
             ELSE [book EXCEPT !.windows[book.current] = Called(@, content # workspace)]
  /\ UNCHANGED <<model, flags, job, inputs, events, history>>

(* Another writer changes the workspace. *)
Drift(content) ==
  /\ content # workspace /\ workspace' = content
  /\ UNCHANGED <<book, model, flags, job, inputs, events, history>>

StartBackground ==
  /\ turn = "running" /\ ~background
  /\ background' = TRUE
  /\ UNCHANGED <<book, workspace, turn, due, deferred, runs, flags, job, inputs, events, history>>

(* Mutant of EndBackground: no wake while the settlement holds inputs. *)
MutEndBackgroundHeld(sent) ==
  LET wakes == deferred /\ book.current # 0 /\ ~reviewInProgress /\ ~hold IN
  /\ background /\ background' = FALSE
  /\ sent => wakes
  /\ due' = (due \/ sent)
  /\ unwoken' = (wakes /\ ~sent)
  /\ UNCHANGED <<book, workspace, turn, deferred, runs, flags, job, inputs, events, broken, moved>>

(***************************************************************************)
(* handleBackgroundLifecycle: the end of the last job wakes the model for  *)
(* the review that was deferred.  The wake may not be sent: a notice then  *)
(* says that the review remains deferred until the next turn.              *)
(***************************************************************************)
EndBackground(sent) ==
  LET wakes == deferred /\ book.current # 0 /\ ~reviewInProgress IN
  /\ background /\ background' = FALSE
  /\ sent => wakes
  /\ due' = (due \/ sent)
  /\ unwoken' = (wakes /\ ~sent)
  /\ UNCHANGED <<book, workspace, turn, deferred, runs, flags, job, inputs, events, broken, moved>>

-----------------------------------------------------------------------------
(* The settlement of a run (onAgentSettled), one action per outcome. *)

EndTurn == turn = "running" /\ ~due /\ job["automatic"] = Idle /\ turn' = "idle"
HasBaseline == book.current # 0 /\ Current(book).base # Nothing
Automatic(j) == job' = [job EXCEPT !["automatic"] = j]

SettleNothing ==
  /\ EndTurn /\ book.current = 0
  /\ UNCHANGED <<book, workspace, due, background, deferred, runs, flags, job, inputs, events, history>>

(* The hold is set before the deferral is known, and the notice is awaited. *)
DeferReview(aborted) ==
  /\ EndTurn /\ book.current # 0 /\ background
  /\ deferred' = TRUE
  /\ hold' = (HasBaseline /\ ~aborted /\ ~paused)
  /\ Automatic([Idle EXCEPT !.at = "deferring"])
  /\ UNCHANGED <<book, workspace, due, background, runs, paused, reviewInProgress, inputs, events, history>>

SettleUnbased ==
  /\ EndTurn /\ book.current # 0 /\ ~background /\ ~HasBaseline
  /\ deferred' = FALSE
  /\ book' = Closed(book)
  /\ UNCHANGED <<workspace, due, background, runs, flags, job, inputs, events, history>>

(* A run the user aborted supersedes its review. *)
SupersedeReview ==
  /\ EndTurn /\ ~background /\ HasBaseline
  /\ deferred' = FALSE
  /\ reviewInProgress' = FALSE
  /\ ledger' = {}
  /\ UNCHANGED <<book, workspace, due, background, runs, paused, hold, job, delivery, events, history>>

CollectPaused ==
  /\ EndTurn /\ ~background /\ HasBaseline /\ paused
  /\ deferred' = FALSE
  /\ book' = [book EXCEPT !.windows[book.current] = Completed(@)]
  /\ UNCHANGED <<workspace, due, background, runs, flags, job, inputs, events, history>>

BeginReview ==
  /\ EndTurn /\ ~background /\ HasBaseline /\ ~paused
  /\ deferred' = FALSE
  /\ reviewInProgress' = TRUE /\ hold' = TRUE
  /\ Automatic([Idle EXCEPT !.at = "settling", !.window = book.current])
  /\ UNCHANGED <<book, workspace, due, background, runs, paused, inputs, events, history>>

(* Mutant of DrainFails: the flag stays raised. *)
MutDrainFails ==
  /\ job["automatic"].at = "settling"
  /\ Automatic(Idle)
  /\ hold' = FALSE
  /\ UNCHANGED <<book, workspace, model, paused, reviewInProgress, inputs, events, history>>

(* Draining the evidence or saving throws before the review starts. *)
DrainFails ==
  /\ job["automatic"].at = "settling"
  /\ Automatic(Idle)
  /\ reviewInProgress' = FALSE /\ hold' = FALSE
  /\ UNCHANGED <<book, workspace, model, paused, inputs, events, history>>

(* The last step of the handler. *)
FinishSettlement ==
  /\ job["automatic"].at \in {"deferring", "releasing"}
  /\ Automatic(Idle)
  /\ hold' = FALSE
  /\ UNCHANGED <<book, workspace, model, paused, reviewInProgress, inputs, events, history>>

-----------------------------------------------------------------------------
(* The review itself, automatic or of /review-now. *)

(***************************************************************************)
(* releaseQueuedUserInputs: each held input is remembered before it is     *)
(* dispatched, and the first one that is not sent ends the release.  It    *)
(* stays queued if the host refused it; if a save or the host threw, it is *)
(* stuck: uncertain, perhaps sent, still in the ledger, and at the head of *)
(* every later release.  The release follows the change b of the books and *)
(* is the last step of a /review-now.                                      *)
(***************************************************************************)
Release(r, b, sent, stuck, follows) ==
  /\ Held = {} \/ MayOpen(b)
  /\ Uncertain # {} => sent \cup stuck = {}
  /\ book' = IF Held = {} THEN b ELSE Remembered(b)
  /\ delivery' = [i \in Inputs |-> IF i \in sent THEN "sent"
                                  ELSE IF i \in stuck THEN "uncertain" ELSE delivery[i]]
  /\ ledger' = ledger \ sent
  /\ due' \in {due \/ follows \/ sent # {}, due \/ follows \/ sent \cup stuck # {}}
  /\ reviewInProgress' = FALSE
  /\ job' = [job EXCEPT ![r] = IF r = "automatic" THEN [Idle EXCEPT !.at = "releasing"] ELSE Idle]
  /\ UNCHANGED <<workspace, turn, background, deferred, runs, paused, hold, events, history>>

(* One input at most is stuck, and it was not sent for certain. *)
AtMostOne == {{}} \cup {{i} : i \in Queued}

Reviewed(r) == Completed(book.windows[job[r].window])

(* The model answered a pass and the user asked nothing since. *)
PassResponse(r) == r = "automatic" /\ Reviewed(r).last = "pass" /\ ~Reviewed(r).settled.asked
Edited(r) == PassResponse(r) /\ Reviewed(r).settled.edited

StandingPass(r) == PassResponse(r) /\ ~Edited(r)

UnchangedResponse(r) ==
  /\ book.windows[job[r].window].exchange # NoExchange
  /\ Reviewed(r).mode \in {"observation", "deferred"}
  /\ ~Reviewed(r).settled.changed /\ ~Edited(r)

NoInitialChanges(r) ==
  LET w == Reviewed(r) IN
  workspace = w.base /\ w.last # "needs_changes" /\ ~w.attempted /\ ~Edited(r)

NoNewCall(r) == r = "automatic" /\ ~Edited(r) /\ ~Reviewed(r).called

NoReview(r) == StandingPass(r) \/ UnchangedResponse(r) \/ NoInitialChanges(r) \/ NoNewCall(r)

(* Mutant of Closes: an unchanged answer settles any window. *)
MutClosesUnchanged(r) ==
  IF r = "command" THEN TRUE
  ELSE IF StandingPass(r) THEN ~Reviewed(r).settled.changed /\ ~Reviewed(r).settled.called
  ELSE UnchangedResponse(r) \/ NoInitialChanges(r)

(* Whether an outcome without a review closes the window. *)
Closes(r) ==
  IF r = "command" THEN TRUE
  ELSE IF StandingPass(r) THEN ~Reviewed(r).settled.changed /\ ~Reviewed(r).settled.called
  ELSE IF UnchangedResponse(r) THEN Reviewed(r).mode # "deferred"
  ELSE NoInitialChanges(r)

CapturedBook(r) == [book EXCEPT !.windows[job[r].window] = Reviewed(r)]

SkipReview(r, sent, stuck) ==
  /\ job[r].at = "settling" /\ ~job[r].cancelled
  /\ NoReview(r)
  /\ Release(r, IF Closes(r) THEN Closed(CapturedBook(r)) ELSE CapturedBook(r),
             sent, stuck, FALSE)

Capture(r) ==
  /\ job[r].at = "settling" /\ ~job[r].cancelled
  /\ ~NoReview(r)
  /\ book' = CapturedBook(r)
  /\ job' = [job EXCEPT ![r].at = "reviewing", ![r].saw = workspace]
  /\ UNCHANGED <<workspace, model, flags, inputs, events, history>>

(* /review-cancel, or escape *)
Cancel(r) ==
  /\ job[r].at \in {"settling", "reviewing"} /\ ~job[r].cancelled
  /\ Event
  /\ job' = [job EXCEPT ![r].cancelled = TRUE]
  /\ UNCHANGED <<book, workspace, model, flags, inputs, history>>

(* Mutant of AbortAutomatic: the ledger survives its deliveries. *)
MutAbortAutomatic ==
  /\ job["automatic"].cancelled
  /\ Automatic([Idle EXCEPT !.at = "releasing"])
  /\ reviewInProgress' = FALSE
  /\ delivery' = [i \in Inputs |-> IF i \in Queued THEN "cancelled" ELSE delivery[i]]
  /\ UNCHANGED <<book, workspace, model, paused, hold, ledger, events, history>>

(* A cancelled automatic review drops the inputs it held. *)
AbortAutomatic ==
  /\ job["automatic"].cancelled
  /\ Automatic([Idle EXCEPT !.at = "releasing"])
  /\ reviewInProgress' = FALSE
  /\ delivery' = [i \in Inputs |-> IF i \in Queued THEN "cancelled" ELSE delivery[i]]
  /\ ledger' = {}
  /\ UNCHANGED <<book, workspace, model, paused, hold, events, history>>

(* A cancelled or throwing /review-now ends without a release. *)
EndCommand ==
  /\ job["command"].at \in {"settling", "reviewing"}
  /\ job' = [job EXCEPT !["command"] = Idle]
  /\ UNCHANGED <<book, workspace, model, flags, inputs, events, history>>

(* runReview throws. *)
ReviewFails(sent, stuck) ==
  /\ job["automatic"].at \in {"settling", "reviewing"}
  /\ Release("automatic", book, sent, stuck, FALSE)

(* Mutant of AtCap: one correction too many. *)
MutAtCap(r, verdict, repeated) ==
  /\ r = "automatic" /\ verdict = "needs_changes"
  /\ repeated \/ book.windows[job[r].window].cycles > MaxCycles

(***************************************************************************)
(* What a verdict does to the reviewed window before it is recorded: an    *)
(* automatic request for changes counts against the cap, or is deferred at *)
(* the cap or when it repeats the last one; one of /review-now starts the  *)
(* count again.  Whether two requests are the same is left open.           *)
(***************************************************************************)
AtCap(r, verdict, repeated) ==
  /\ r = "automatic" /\ verdict = "needs_changes"
  /\ repeated \/ book.windows[job[r].window].cycles >= MaxCycles

Charged(w, r) == [w EXCEPT !.cycles = IF r = "automatic" THEN @ + 1 ELSE 0, !.capped = FALSE]

Counted(r, verdict, repeated) ==
  IF verdict # "needs_changes" \/ AtCap(r, verdict, repeated) THEN book
  ELSE [book EXCEPT !.windows[job[r].window] = Charged(@, r)]

(* Only the cap, after the verdict is saved, keeps the follow-up. *)
Capped(b, r, verdict, repeated) ==
  IF AtCap(r, verdict, repeated) /\ ~repeated
  THEN [b EXCEPT !.windows[job[r].window].capped = TRUE] ELSE b

ResponseMode(r, verdict, repeated) ==
  CASE verdict = "pass" -> "observation"
    [] verdict = "error" \/ AtCap(r, verdict, repeated) -> "deferred"
    [] OTHER -> "correction"

Verdict(r, verdict, repeated) ==
  /\ job[r].at = "reviewing" /\ ~job[r].cancelled
  /\ repeated => verdict = "needs_changes" /\ r = "automatic" /\ book.windows[job[r].window].last # "none"

Reviewing(rs) == \E r \in rs : job[r].at \in {"settling", "reviewing"}

Decide(r, verdict, repeated) ==
  /\ Verdict(r, verdict, repeated)
  /\ MayOpen(book)
  /\ book' = Capped(Recorded(Counted(r, verdict, repeated), verdict,
                             ResponseMode(r, verdict, repeated), job[r].saw), r, verdict, repeated)
  /\ job' = [job EXCEPT ![r] = [Idle EXCEPT !.at = "delivering"]]
  /\ moved' = (moved \/ Reviewing(Reviews \ {r}))
  /\ UNCHANGED <<workspace, model, flags, inputs, events, broken, unwoken>>

(* Preparing the transmission or saving fails: the handler throws past the *)
(* release.                                                                *)
DecideFails(r, verdict, repeated, recorded) ==
  LET counted == Counted(r, verdict, repeated) IN
  /\ Verdict(r, verdict, repeated)
  /\ MayOpen(book)
  /\ book' = IF recorded THEN Recorded(counted, verdict, ResponseMode(r, verdict, repeated), job[r].saw)
             ELSE IF r = "automatic" THEN counted ELSE book
  /\ job' = [job EXCEPT ![r] = Idle]
  /\ hold' = (hold /\ r # "automatic")
  /\ broken' = (broken \/ r = "automatic")
  /\ moved' = (moved \/ Reviewing(Reviews \ {r}))
  /\ UNCHANGED <<workspace, model, paused, reviewInProgress, inputs, events, unwoken>>

(* The transmission is sent, or not, and the held inputs follow it. *)
Deliver(r, sent, stuck, delivered) ==
  /\ job[r].at = "delivering"
  /\ Release(r, book, sent, stuck, delivered)

(* A save fails before the delivery is known to be uncertain. *)
DeliverFails(r) ==
  /\ job[r].at = "delivering"
  /\ job' = [job EXCEPT ![r] = Idle]
  /\ hold' = (hold /\ r # "automatic")
  /\ broken' = (broken \/ r = "automatic")
  /\ UNCHANGED <<book, workspace, model, paused, reviewInProgress, inputs, events, moved, unwoken>>

-----------------------------------------------------------------------------
(* Commands. *)

ReviewNow ==
  /\ Event /\ ~paused /\ HasBaseline
  /\ job["command"] = Idle
  /\ job' = [job EXCEPT !["command"] = [Idle EXCEPT !.at = "settling", !.window = book.current]]
  /\ UNCHANGED <<book, workspace, model, flags, inputs, history>>

(* /review-continue: the response starts from a new capture.  A later      *)
(* verdict, even a pass, does not take the follow-up away.                 *)
Continued(w) ==
  [w EXCEPT !.capped = FALSE, !.cycles = 0, !.attempted = TRUE,
            !.mode = IF w.last = "needs_changes" THEN "correction" ELSE @,
            !.exchange.base = workspace]

ReviewContinue ==
  LET g == Begun(book) IN
  /\ Event /\ HasBaseline /\ Current(book).capped
  /\ book' = [g EXCEPT !.windows[g.current] = Continued(Current(g))]
  /\ due' = TRUE
  /\ moved' = (moved \/ Current(book).last # "needs_changes" \/ Reviewing(Reviews))
  /\ UNCHANGED <<workspace, turn, background, deferred, runs, flags, job, inputs, broken, unwoken>>

TogglePause ==
  /\ Event /\ paused' = ~paused
  /\ UNCHANGED <<book, workspace, model, reviewInProgress, hold, job, inputs, history>>

ReviewClear ==
  /\ Event /\ ~reviewInProgress
  /\ book' = Closed(book)
  /\ delivery' = [i \in Inputs |-> IF i \in Queued THEN "cancelled" ELSE delivery[i]]
  /\ ledger' = {}
  /\ UNCHANGED <<workspace, model, flags, job, history>>

Settle ==
  \/ SettleNothing \/ SettleUnbased \/ SupersedeReview \/ CollectPaused \/ BeginReview
  \/ \E aborted \in BOOLEAN : DeferReview(aborted)

(* Steps of a review under way. *)
Progress(r) ==
  \/ Capture(r) \/ DeliverFails(r)
  \/ \E stuck \in AtMostOne : \E sent \in SUBSET (Queued \ stuck) :
       \/ SkipReview(r, sent, stuck)
       \/ \E delivered \in BOOLEAN : Deliver(r, sent, stuck, delivered)
  \/ \E verdict \in {"pass", "needs_changes", "error"}, repeated \in BOOLEAN :
       \/ Decide(r, verdict, repeated)
       \/ \E recorded \in BOOLEAN : DecideFails(r, verdict, repeated, recorded)

AutomaticStep ==
  \/ Progress("automatic")
  \/ DrainFails \/ FinishSettlement \/ AbortAutomatic
  \/ \E stuck \in AtMostOne : \E sent \in SUBSET (Queued \ stuck) : ReviewFails(sent, stuck)

Next ==
  \/ \E i \in Inputs : HoldInput(i) \/ TakeInput(i)
  \/ Trigger \/ StartRun \/ TakeMessage \/ StartBackground
  \/ \E sent \in BOOLEAN : EndBackground(sent)
  \/ \E c \in Contents : Call(c) \/ Drift(c)
  \/ Settle
  \/ AutomaticStep \/ Progress("command") \/ EndCommand
  \/ \E r \in Reviews : Cancel(r)
  \/ ReviewNow \/ ReviewContinue \/ TogglePause \/ ReviewClear

Spec == Init /\ [][Next]_vars

-----------------------------------------------------------------------------
(* An automatic review closes its window without a verdict only when       *)
(* nothing is left to review: the workspace is back at the baseline, or at *)
(* what the last pass saw, and no request for changes is outstanding (the  *)
(* no-review outcomes of runReviewSettled and their handling).             *)
AutomaticCloseIsClean ==
  [][LET n == job["automatic"].window
         w == book.windows[n] IN
     job["automatic"].at = "settling" /\ job'["automatic"].at # "settling"
       /\ book.current = n /\ book'.current # n /\ ~moved
     => w.last # "needs_changes" /\ workspace \in {w.base} \cup w.passed]_vars

(* reviewInProgress and the settlement hold are raised only under a        *)
(* settlement that will lower them, except for the review whose save       *)
(* failed after its verdict.                                               *)
FlagsOwned ==
  /\ reviewInProgress => broken \/ job["automatic"].at \in {"settling", "reviewing", "delivering"}
  /\ hold => job["automatic"] # Idle

(* Every entry of the ledger of held inputs has a delivery that is neither *)
(* sent nor cancelled, over releases that fail half-way, cancellations and *)
(* clears in any order: no held input is left that every release passes by *)
(* and only reports (splitReleasableQueuedInputs calls it unreleasable).   *)
LedgerBacked == ledger \subseteq Held

(* A review deferred on background work is not forgotten in silence: once  *)
(* the work has ended, a run is under way or waits to start, whose         *)
(* settlement decides on the review again (handleBackgroundLifecycle), or  *)
(* the wake could not be sent, when the notice promises the next turn.     *)
NoLostWake ==
  deferred /\ ~background /\ HasBaseline =>
    due \/ turn = "running" \/ broken \/ unwoken
=============================================================================
