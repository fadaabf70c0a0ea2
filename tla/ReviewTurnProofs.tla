-------------------------- MODULE ReviewTurnProofs --------------------------
(***************************************************************************)
(* Theorems about ReviewTurn: types, the owners of the gate's flags, the   *)
(* ledger of held inputs, the wake of a deferred review and the windows    *)
(* that an automatic review closes without a verdict.                      *)
(***************************************************************************)
EXTENDS ReviewTurn, TLAPS

(***************************************************************************)
(* Types alone are not inductive: the verdict enters the window the review *)
(* started with, which must be one, and that window's baseline is what the *)
(* reviewers saw, which must be a content.                                 *)
(***************************************************************************)
JobsOnWindows ==
  \A r \in Reviews :
    /\ job[r].at \in {"settling", "reviewing"} => job[r].window # 0
    /\ job[r].at = "reviewing" => job[r].saw \in Contents

TypeInv == TypeOK /\ JobsOnWindows

-----------------------------------------------------------------------------
(* The operators on the books keep them well formed. *)

LEMMA WindowPut ==
  ASSUME NEW b \in Book, NEW n \in 1..MaxWindows, NEW w \in Window
  PROVE  [b EXCEPT !.windows[n] = w] \in Book
BY DEF Book

LEMMA WindowGet ==
  ASSUME NEW b \in Book, b.current # 0
  PROVE  Current(b) \in Window /\ b.current \in 1..MaxWindows
<1>1. b.current \in 1..MaxWindows
  BY BoundsAssumption DEF Book
<1> QED BY <1>1 DEF Book, Current

LEMMA EmptyType == EmptyWindow \in Window
BY BoundsAssumption DEF EmptyWindow, Window, NotSettled, Basis

LEMMA OpenedType ==
  ASSUME NEW b \in Book, MayOpen(b)
  PROVE  Opened(b) \in Book /\ Opened(b).current # 0
<1>1. b.windows \in [1..MaxWindows -> Window] /\ b.current \in 0..MaxWindows /\ b.opened \in 0..MaxWindows
  BY DEF Book
<1>2. CASE b.current # 0
  BY <1>2 DEF Opened
<1>3. CASE b.current = 0
  <2>1. b.opened + 1 \in 0..MaxWindows /\ b.opened + 1 # 0
    BY <1>1, <1>3, BoundsAssumption DEF MayOpen
  <2>2. Opened(b) = [b EXCEPT !.current = b.opened + 1, !.opened = b.opened + 1]
    BY <1>3 DEF Opened
  <2> QED BY <2>1, <2>2 DEF Book
<1> QED BY <1>2, <1>3

LEMMA ClosedType ==
  ASSUME NEW b \in Book
  PROVE  Closed(b) \in Book /\ Closed(b).current = 0
<1> DEFINE ws == [n \in 1..MaxWindows |->
                    IF n = b.current /\ \A r \in Reviews : job[r].window # n
                    THEN EmptyWindow ELSE b.windows[n]]
<1>1. b.windows \in [1..MaxWindows -> Window] /\ 0 \in 0..MaxWindows
  BY BoundsAssumption DEF Book
<1>2. ws \in [1..MaxWindows -> Window]
  BY <1>1, EmptyType
<1>3. Closed(b) = [b EXCEPT !.current = 0, !.windows = ws]
  BY DEF Closed
<1> HIDE DEF ws
<1> QED BY <1>1, <1>2, <1>3 DEF Book

LEMMA RememberedType ==
  ASSUME NEW b \in Book, MayOpen(b)
  PROVE  Remembered(b) \in Book /\ Remembered(b).current # 0
<1> DEFINE o == Opened(b)
           w == [Current(o) EXCEPT !.asked = TRUE]
<1>1. o \in Book /\ o.current # 0
  BY OpenedType
<1>2. Current(o) \in Window /\ o.current \in 1..MaxWindows
  BY <1>1, WindowGet
<1>3. w \in Window
  BY <1>2 DEF Window
<1>4. Remembered(b) = [o EXCEPT !.windows[o.current] = w]
  BY <1>1, <1>2 DEF Remembered, Current, Book
<1>5. Remembered(b) \in Book
  BY <1>1, <1>2, <1>3, <1>4, WindowPut
<1>6. Remembered(b).current = o.current
  BY <1>1, <1>4 DEF Book
<1> QED BY <1>1, <1>5, <1>6

LEMMA BegunType ==
  ASSUME NEW b \in Book, MayOpen(b)
  PROVE  /\ Begun(b) \in Book /\ Begun(b).current # 0
         /\ Current(Begun(b)).exchange \in Exchange
<1> DEFINE o == Opened(b)
           x == [base |-> Nothing, called |-> FALSE, edited |-> FALSE]
           w == [Current(o) EXCEPT !.exchange = x]
<1>1. o \in Book /\ o.current # 0
  BY OpenedType
<1>2. Current(o) \in Window /\ o.current \in 1..MaxWindows
  BY <1>1, WindowGet
<1>3. CASE Current(o).exchange # NoExchange
  BY <1>1, <1>2, <1>3 DEF Begun, Window
<1>4. CASE Current(o).exchange = NoExchange
  <2>1. x \in Exchange
    BY DEF Exchange, Basis
  <2>2. w \in Window /\ w.exchange = x
    BY <1>2, <2>1 DEF Window
  <2>3. Begun(b) = [o EXCEPT !.windows[o.current] = w]
    BY <1>1, <1>2, <1>4 DEF Begun, Current, Book
  <2>4. Begun(b) \in Book
    BY <1>1, <1>2, <2>2, <2>3, WindowPut
  <2>5. Begun(b).current = o.current /\ Current(Begun(b)) = w
    <3> HIDE DEF w, o
    <3>1. o.windows \in [1..MaxWindows -> Window] /\ o.current \in 1..MaxWindows
      BY <1>1, <1>2 DEF Book
    <3>2. [o EXCEPT !.windows[o.current] = w].current = o.current
      BY <1>1 DEF Book
    <3>3. [o EXCEPT !.windows[o.current] = w].windows[o.current] = w
      BY <1>1, <3>1 DEF Book
    <3> QED BY <2>3, <3>2, <3>3 DEF Current
  <2> QED BY <1>1, <2>1, <2>2, <2>4, <2>5
<1> QED BY <1>3, <1>4

LEMMA ArmedType ==
  ASSUME NEW b \in Book, MayOpen(b), workspace \in Contents
  PROVE  Armed(b) \in Book /\ Armed(b).current # 0
<1> DEFINE g == Begun(b)
           w == Current(g)
           base == IF w.base = Nothing THEN workspace ELSE w.base
           v == [w EXCEPT !.base = base, !.exchange.base = base]
<1>1. g \in Book /\ g.current # 0 /\ w.exchange \in Exchange
  BY BegunType
<1>2. w \in Window /\ g.current \in 1..MaxWindows
  BY <1>1, WindowGet
<1>3. CASE w.exchange.base # Nothing
  BY <1>1, <1>3 DEF Armed
<1>4. CASE w.exchange.base = Nothing
  <2>1. base \in Basis
    BY <1>2 DEF Basis, Window
  <2>2. [w.exchange EXCEPT !.base = base] \in Exchange
    BY <1>1, <2>1 DEF Exchange
  <2>3. v = [w EXCEPT !.base = base, !.exchange = [w.exchange EXCEPT !.base = base]]
    BY <1>2 DEF Window
  <2>4. v \in Window
    BY <1>2, <2>1, <2>2, <2>3 DEF Window
  <2>5. Armed(b) = [g EXCEPT !.windows[g.current] = v]
    BY <1>4 DEF Armed
  <2>6. Armed(b) \in Book
    BY <1>1, <1>2, <2>4, <2>5, WindowPut
  <2>7. Armed(b).current = g.current
    BY <1>1, <2>5 DEF Book
  <2> QED BY <1>1, <2>6, <2>7
<1> QED BY <1>3, <1>4

LEMMA CompletedType ==
  ASSUME NEW w \in Window, workspace \in Contents
  PROVE  Completed(w) \in Window
<1>1. CASE w.exchange = NoExchange
  BY <1>1 DEF Completed
<1>2. CASE w.exchange # NoExchange
  <2>1. w.exchange \in Exchange /\ w.asked \in BOOLEAN
    BY <1>2 DEF Window
  <2>2. w.exchange.called \in BOOLEAN /\ w.exchange.edited \in BOOLEAN
    BY <2>1 DEF Exchange
  <2> DEFINE s == [asked |-> w.asked, called |-> w.exchange.called,
                   edited |-> w.exchange.edited, changed |-> workspace # w.exchange.base]
  <2>3. s \in [asked : BOOLEAN, called : BOOLEAN, edited : BOOLEAN, changed : BOOLEAN]
    BY <2>1, <2>2
  <2>4. (w.called \/ w.exchange.called) \in BOOLEAN
    OBVIOUS
  <2>5. Completed(w) = [w EXCEPT !.settled = s, !.called = w.called \/ w.exchange.called,
                                 !.asked = FALSE, !.exchange = NoExchange]
    BY <1>2 DEF Completed
  <2> HIDE DEF s
  <2> QED BY <2>3, <2>4, <2>5 DEF Window
<1> QED BY <1>1, <1>2

LEMMA CalledType ==
  ASSUME NEW w \in Window, w.exchange # NoExchange, NEW edits \in BOOLEAN
  PROVE  Called(w, edits) \in Window
<1> DEFINE x == [w.exchange EXCEPT !.called = TRUE, !.edited = w.exchange.edited \/ edits]
<1>1. w.exchange \in Exchange
  BY DEF Window
<1>2. x \in Exchange
  BY <1>1 DEF Exchange
<1>3. Called(w, edits) = [w EXCEPT !.exchange = x]
  BY <1>1 DEF Called, Window, Exchange
<1> HIDE DEF x
<1> QED BY <1>2, <1>3 DEF Window

LEMMA ContinuedType ==
  ASSUME NEW w \in Window, w.exchange \in Exchange, workspace \in Contents
  PROVE  Continued(w) \in Window
<1> DEFINE x == [w.exchange EXCEPT !.base = workspace]
           mode == IF w.last = "needs_changes" THEN "correction" ELSE w.mode
<1>1. x \in Exchange
  BY DEF Exchange, Basis
<1>2. mode \in {"none", "observation", "correction", "deferred"} /\ 0 \in 0..MaxCycles
  BY BoundsAssumption DEF Window
<1>3. Continued(w) = [w EXCEPT !.capped = FALSE, !.cycles = 0, !.attempted = TRUE,
                               !.mode = mode, !.exchange = x]
  BY DEF Continued, Window
<1> HIDE DEF x, mode
<1> QED BY <1>1, <1>2, <1>3 DEF Window

LEMMA JudgedType ==
  ASSUME NEW w \in Window, NEW verdict \in {"pass", "needs_changes", "error"},
         NEW mode \in {"observation", "correction", "deferred"}, NEW saw \in Contents
  PROVE  Judged(w, verdict, mode, saw) \in Window
<1> DEFINE tried == w.attempted \/ mode = "correction"
           seen == IF verdict = "pass" THEN w.passed \cup {saw} ELSE {}
<1>1. NotSettled \in [asked : BOOLEAN, called : BOOLEAN, edited : BOOLEAN, changed : BOOLEAN]
  BY DEF NotSettled
<1>2. tried \in BOOLEAN
  OBVIOUS
<1>3. seen \in SUBSET Contents
  BY DEF Window
<1>4. Judged(w, verdict, mode, saw)
        = [w EXCEPT !.last = verdict, !.mode = mode, !.called = FALSE, !.settled = NotSettled,
                    !.attempted = tried, !.passed = seen]
  BY DEF Judged
<1> HIDE DEF tried, seen
<1> QED BY <1>1, <1>2, <1>3, <1>4 DEF Window

LEMMA RecordedType ==
  ASSUME NEW b \in Book, MayOpen(b),
         NEW verdict \in {"pass", "needs_changes", "error"},
         NEW mode \in {"observation", "correction", "deferred"}, NEW saw \in Contents
  PROVE  Recorded(b, verdict, mode, saw) \in Book
<1> DEFINE v == Judged(Current(b), verdict, mode, saw)
           r == IF b.current = 0 THEN b
                ELSE [b EXCEPT !.windows[b.current] = Judged(@, verdict, mode, saw)]
           e == Begun(r)
           x == Current(e).exchange
           y == [x EXCEPT !.base = IF @ = Nothing THEN saw ELSE @]
           u == [Current(e) EXCEPT !.exchange = y]
<1>1. r \in Book /\ MayOpen(r)
  <2>1. CASE b.current = 0
    BY <2>1
  <2>2. CASE b.current # 0
    <3>1. Current(b) \in Window /\ b.current \in 1..MaxWindows
      BY <2>2, WindowGet
    <3>2. v \in Window
      BY <3>1, JudgedType
    <3>3. r = [b EXCEPT !.windows[b.current] = v]
      BY <2>2, <3>1 DEF Current, Book
    <3>4. [b EXCEPT !.windows[b.current] = v] \in Book
      BY <3>1, <3>2, WindowPut
    <3> HIDE DEF v
    <3>5. [b EXCEPT !.windows[b.current] = v].current = b.current
      BY DEF Book
    <3> QED BY <2>2, <3>3, <3>4, <3>5 DEF MayOpen
  <2> QED BY <2>1, <2>2
<1>2. e \in Book /\ e.current # 0 /\ x \in Exchange
  BY <1>1, BegunType
<1>3. Current(e) \in Window /\ e.current \in 1..MaxWindows
  BY <1>2, WindowGet
<1>4. y \in Exchange
  BY <1>2 DEF Exchange, Basis
<1>5. u \in Window
  BY <1>3, <1>4 DEF Window
<1>6. [e EXCEPT !.windows[e.current] = u] \in Book
  BY <1>2, <1>3, <1>5, WindowPut
<1>7. Recorded(b, verdict, mode, saw)
        = [e EXCEPT !.windows[e.current].exchange.base = IF @ = Nothing THEN saw ELSE @]
  BY DEF Recorded
<1> HIDE DEF e
<1>8. [e EXCEPT !.windows[e.current].exchange.base = IF @ = Nothing THEN saw ELSE @]
        = [e EXCEPT !.windows[e.current] = u]
  BY <1>2, <1>3 DEF Current, Book, Window, Exchange
<1> QED BY <1>6, <1>7, <1>8

LEMMA CountedType ==
  ASSUME TypeInv, NEW r \in Reviews, NEW verdict \in {"pass", "needs_changes", "error"},
         NEW repeated \in BOOLEAN, job[r].window # 0
  PROVE  /\ Counted(r, verdict, repeated) \in Book
         /\ MayOpen(book) => MayOpen(Counted(r, verdict, repeated))
<1> DEFINE n == job[r].window
           w == book.windows[n]
           v == Charged(w, r)
<1>1. book \in Book /\ n \in 1..MaxWindows
  BY BoundsAssumption DEF TypeInv, TypeOK, Job
<1>2. w \in Window
  BY <1>1 DEF Book
<1>3. CASE verdict # "needs_changes" \/ AtCap(r, verdict, repeated)
  BY <1>1, <1>3 DEF Counted
<1>4. CASE ~(verdict # "needs_changes" \/ AtCap(r, verdict, repeated))
  <2>1. (IF r = "automatic" THEN w.cycles + 1 ELSE 0) \in 0..MaxCycles
    BY <1>2, <1>4, BoundsAssumption DEF AtCap, Window
  <2>2. v \in Window
    <3> HIDE DEF w
    <3> QED BY <1>2, <2>1 DEF Window, Charged
  <2>3. Counted(r, verdict, repeated) = [book EXCEPT !.windows[n] = v]
    BY <1>1, <1>4 DEF Counted, Book
  <2>4. [book EXCEPT !.windows[n] = v] \in Book
    BY <1>1, <2>2, WindowPut
  <2> HIDE DEF v
  <2>5. /\ [book EXCEPT !.windows[n] = v].current = book.current
        /\ [book EXCEPT !.windows[n] = v].opened = book.opened
    BY <1>1 DEF Book
  <2> QED BY <2>3, <2>4, <2>5 DEF MayOpen
<1> QED BY <1>3, <1>4

LEMMA CappedType ==
  ASSUME TypeInv, NEW r \in Reviews, NEW verdict, NEW repeated \in BOOLEAN,
         job[r].window # 0, NEW b \in Book
  PROVE  Capped(b, r, verdict, repeated) \in Book
<1> DEFINE n == job[r].window
           v == [b.windows[n] EXCEPT !.capped = TRUE]
<1>1. n \in 1..MaxWindows
  BY BoundsAssumption DEF TypeInv, TypeOK, Job
<1>2. v \in Window
  <2>1. b.windows[n] \in Window
    BY <1>1 DEF Book
  <2> QED BY <2>1 DEF Window
<1>3. [b EXCEPT !.windows[n].capped = TRUE] = [b EXCEPT !.windows[n] = v]
  BY DEF Book
<1>4. [b EXCEPT !.windows[n] = v] \in Book
  BY <1>1, <1>2, WindowPut
<1> QED BY <1>3, <1>4 DEF Capped

LEMMA JobMoves ==
  ASSUME job \in [Reviews -> Job], JobsOnWindows, NEW r \in Reviews, NEW j \in Job,
         j.at \in {"settling", "reviewing"} => j.window # 0,
         j.at = "reviewing" => j.saw \in Contents,
         job' = [job EXCEPT ![r] = j]
  PROVE  job' \in [Reviews -> Job] /\ JobsOnWindows'
BY DEF JobsOnWindows

LEMMA IdleType ==
  ASSUME NEW at \in {"idle", "deferring", "delivering", "releasing"}
  PROVE  /\ Idle \in Job /\ Idle.at = "idle"
         /\ [Idle EXCEPT !.at = at] \in Job /\ [Idle EXCEPT !.at = at].at = at
<1>1. 0 \in 0..MaxWindows
  BY BoundsAssumption
<1>2. Idle \in Job /\ Idle.at = "idle"
  BY <1>1 DEF Idle, Job, Basis
<1> HIDE DEF Idle
<1> QED BY <1>2 DEF Job

LEMMA SettlingType ==
  ASSUME NEW n \in 1..MaxWindows
  PROVE  LET j == [Idle EXCEPT !.at = "settling", !.window = n]
         IN  j \in Job /\ j.window # 0 /\ j.at = "settling"
<1>1. Idle \in Job
  BY IdleType
<1>2. n \in 0..MaxWindows /\ n # 0
  BY BoundsAssumption
<1> HIDE DEF Idle
<1> QED BY <1>1, <1>2 DEF Job

LEMMA ReleaseType ==
  ASSUME TypeInv, NEW r \in Reviews, NEW b \in Book, NEW stuck \in AtMostOne,
         NEW sent \in SUBSET (Queued \ stuck),
         NEW follows \in BOOLEAN, Release(r, b, sent, stuck, follows)
  PROVE  TypeInv'
<1>1. book' \in Book
  BY RememberedType DEF Release
<1>2. delivery' \in [Inputs -> {"none", "queued", "uncertain", "sent", "cancelled"}] /\ ledger' \subseteq Inputs
  BY DEF Release, TypeInv, TypeOK
<1>3. job' \in [Reviews -> Job] /\ JobsOnWindows'
  <2> DEFINE j == IF r = "automatic" THEN [Idle EXCEPT !.at = "releasing"] ELSE Idle
  <2>1. j \in Job /\ j.at \notin {"settling", "reviewing"}
    BY IdleType
  <2>2. job' = [job EXCEPT ![r] = j]
    BY DEF Release
  <2> HIDE DEF j
  <2> QED BY <2>1, <2>2, JobMoves DEF TypeInv, TypeOK
<1>4. due' \in BOOLEAN
  BY DEF Release, TypeInv, TypeOK
<1> QED BY <1>1, <1>2, <1>3, <1>4 DEF Release, TypeInv, TypeOK, history

-----------------------------------------------------------------------------
(* Each step of the specification keeps the types. *)

(* The window a review works on stays one when its exchange is completed. *)
LEMMA CapturedType ==
  ASSUME TypeInv, NEW r \in Reviews, job[r].at = "settling"
  PROVE  CapturedBook(r) \in Book
<1>1. book \in Book /\ job[r].window \in 1..MaxWindows
  BY BoundsAssumption DEF TypeInv, TypeOK, JobsOnWindows, Job
<1>2. book.windows[job[r].window] \in Window
  BY <1>1 DEF Book
<1>3. Reviewed(r) \in Window
  BY <1>2, CompletedType DEF Reviewed, TypeInv, TypeOK
<1> QED BY <1>1, <1>3, WindowPut DEF CapturedBook

LEMMA InputStepsType ==
  ASSUME TypeInv, NEW i \in Inputs, HoldInput(i) \/ TakeInput(i)
  PROVE  TypeInv'
<1>1. CASE HoldInput(i)
  BY <1>1 DEF HoldInput, TypeInv, TypeOK, JobsOnWindows, model, flags, history
<1>2. CASE TakeInput(i)
  <2>1. Retired(book) \in Book
    BY ClosedType DEF Retired, TypeInv, TypeOK
  <2>2. book' \in Book
    BY <1>2, <2>1, RememberedType DEF TakeInput
  <2> QED BY <1>2, <2>2 DEF TakeInput, TypeInv, TypeOK, JobsOnWindows, flags, history
<1> QED BY <1>1, <1>2

LEMMA RunStepsType ==
  ASSUME TypeInv,
         \/ Trigger \/ StartRun \/ TakeMessage \/ StartBackground
         \/ \E s \in BOOLEAN : EndBackground(s)
         \/ \E c \in Contents : Call(c) \/ Drift(c)
  PROVE  TypeInv'
<1> USE DEF TypeInv, TypeOK, JobsOnWindows, model, flags, inputs, history
<1>1. CASE Trigger
  BY <1>1, BoundsAssumption DEF Trigger, Event
<1>2. CASE StartRun
  <2>1. book' \in Book
    BY <1>2, ArmedType DEF StartRun
  <2>2. runs' \in 0..MaxRuns
    BY <1>2, BoundsAssumption DEF StartRun
  <2> QED BY <1>2, <2>1, <2>2 DEF StartRun
<1>3. CASE TakeMessage
  <2>1. book' \in Book
    BY <1>3, ArmedType DEF TakeMessage
  <2> QED BY <1>3, <2>1 DEF TakeMessage
<1>4. CASE StartBackground
  BY <1>4 DEF StartBackground
<1>5. CASE \E s \in BOOLEAN : EndBackground(s)
  BY <1>5 DEF EndBackground
<1>6. ASSUME NEW c \in Contents, Call(c)
      PROVE  TypeInv'
  <2>1. book' \in Book
    <3>1. CASE book.current = 0 \/ Current(book).exchange = NoExchange
      BY <1>6, <3>1 DEF Call
    <3>2. CASE ~(book.current = 0 \/ Current(book).exchange = NoExchange)
      <4> DEFINE w == Called(Current(book), c # workspace)
      <4>1. Current(book) \in Window /\ book.current \in 1..MaxWindows
        BY <3>2, WindowGet
      <4>2. w \in Window
        BY <3>2, <4>1, CalledType
      <4>3. book' = [book EXCEPT !.windows[book.current] = w]
        BY <1>6, <3>2, <4>1 DEF Call, Current, Book
      <4> QED BY <4>1, <4>2, <4>3, WindowPut
    <3> QED BY <3>1, <3>2
  <2> QED BY <1>6, <2>1 DEF Call
<1>7. ASSUME NEW c \in Contents, Drift(c)
      PROVE  TypeInv'
  BY <1>7 DEF Drift
<1> QED BY <1>1, <1>2, <1>3, <1>4, <1>5, <1>6, <1>7

LEMMA SettleType ==
  ASSUME TypeInv, Settle
  PROVE  TypeInv'
<1> USE DEF TypeInv, TypeOK, JobsOnWindows, model, flags, inputs, history
<1>1. CASE SettleNothing
  BY <1>1 DEF SettleNothing, EndTurn
<1>2. CASE SettleUnbased
  BY <1>2, ClosedType DEF SettleUnbased, EndTurn
<1>3. CASE SupersedeReview
  BY <1>3 DEF SupersedeReview, EndTurn
<1>4. CASE CollectPaused
  <2> DEFINE w == Completed(Current(book))
  <2>1. Current(book) \in Window /\ book.current \in 1..MaxWindows
    BY <1>4, WindowGet DEF CollectPaused, HasBaseline
  <2>2. w \in Window
    BY <2>1, CompletedType
  <2>3. book' = [book EXCEPT !.windows[book.current] = w]
    BY <1>4, <2>1 DEF CollectPaused, Current, Book
  <2>4. book' \in Book
    BY <2>1, <2>2, <2>3, WindowPut
  <2> QED BY <1>4, <2>4 DEF CollectPaused, EndTurn
<1>5. CASE BeginReview
  <2> DEFINE j == [Idle EXCEPT !.at = "settling", !.window = book.current]
  <2>1. book.current \in 1..MaxWindows
    BY <1>5, WindowGet DEF BeginReview, HasBaseline
  <2>2. j \in Job /\ j.window # 0 /\ j.at = "settling"
    BY <2>1, SettlingType
  <2>3. job' = [job EXCEPT !["automatic"] = j]
    BY <1>5 DEF BeginReview, Automatic
  <2> HIDE DEF j
  <2>4. job' \in [Reviews -> Job] /\ JobsOnWindows'
    BY <2>2, <2>3, JobMoves DEF Reviews
  <2> QED BY <1>5, <2>4 DEF BeginReview, EndTurn
<1>6. ASSUME NEW aborted \in BOOLEAN, DeferReview(aborted)
      PROVE  TypeInv'
  <2>1. job' \in [Reviews -> Job] /\ JobsOnWindows'
    BY <1>6, IdleType, JobMoves DEF DeferReview, Automatic, Reviews
  <2> QED BY <1>6, <2>1 DEF DeferReview, EndTurn
<1> QED BY <1>1, <1>2, <1>3, <1>4, <1>5, <1>6 DEF Settle

(* Steps of a review under way, automatic or of /review-now. *)
LEMMA VerdictType ==
  ASSUME TypeInv, NEW r \in Reviews, NEW verdict \in {"pass", "needs_changes", "error"},
         NEW repeated \in BOOLEAN, Verdict(r, verdict, repeated), MayOpen(book)
  PROVE  /\ Counted(r, verdict, repeated) \in Book
         /\ Recorded(Counted(r, verdict, repeated), verdict,
                     ResponseMode(r, verdict, repeated), job[r].saw) \in Book
         /\ job[r].window # 0
<1>1. job[r].window # 0 /\ job[r].saw \in Contents
  BY DEF TypeInv, JobsOnWindows, Verdict
<1>2. ResponseMode(r, verdict, repeated) \in {"observation", "correction", "deferred"}
  BY DEF ResponseMode
<1>3. Counted(r, verdict, repeated) \in Book /\ MayOpen(Counted(r, verdict, repeated))
  BY <1>1, CountedType
<1> QED BY <1>1, <1>2, <1>3, RecordedType

LEMMA ProgressType ==
  ASSUME TypeInv, NEW r \in Reviews, Progress(r)
  PROVE  TypeInv'
<1>1. CASE Capture(r)
  <2> DEFINE j == [job[r] EXCEPT !.at = "reviewing", !.saw = workspace]
  <2>1. job[r] \in Job /\ job[r].window # 0 /\ job[r].at = "settling" /\ workspace \in Contents
    BY <1>1 DEF Capture, TypeInv, TypeOK, JobsOnWindows
  <2>2. j \in Job /\ j.window # 0 /\ j.saw \in Contents
    BY <2>1 DEF Job, Basis
  <2>3. job' = [job EXCEPT ![r] = j]
    BY <1>1, <2>1 DEF Capture, TypeInv, TypeOK, Job
  <2> HIDE DEF j
  <2>4. job' \in [Reviews -> Job] /\ JobsOnWindows'
    BY <2>2, <2>3, JobMoves DEF TypeInv, TypeOK
  <2>5. book' \in Book
    BY <1>1, CapturedType DEF Capture
  <2> QED BY <1>1, <2>4, <2>5 DEF Capture, TypeInv, TypeOK, model, flags, inputs, history
<1>2. CASE DeliverFails(r)
  <2>1. job' \in [Reviews -> Job] /\ JobsOnWindows'
    BY <1>2, IdleType, JobMoves DEF DeliverFails, TypeInv, TypeOK
  <2> QED BY <1>2, <2>1 DEF DeliverFails, TypeInv, TypeOK, model, inputs
<1>3. ASSUME NEW stuck \in AtMostOne, NEW sent \in SUBSET (Queued \ stuck),
             SkipReview(r, sent, stuck)
      PROVE  TypeInv'
  <2> DEFINE b == IF Closes(r) THEN Closed(CapturedBook(r)) ELSE CapturedBook(r)
  <2>1. b \in Book
    BY <1>3, CapturedType, ClosedType DEF SkipReview
  <2>2. Release(r, b, sent, stuck, FALSE)
    BY <1>3 DEF SkipReview
  <2> QED BY <2>1, <2>2, ReleaseType
<1>4. ASSUME NEW stuck \in AtMostOne, NEW sent \in SUBSET (Queued \ stuck), NEW delivered \in BOOLEAN,
             Deliver(r, sent, stuck, delivered)
      PROVE  TypeInv'
  <2>1. \E b \in Book, follows \in BOOLEAN : Release(r, b, sent, stuck, follows)
    BY <1>4 DEF Deliver, TypeInv, TypeOK
  <2> QED BY <2>1, ReleaseType
<1>5. ASSUME NEW verdict \in {"pass", "needs_changes", "error"}, NEW repeated \in BOOLEAN,
             Decide(r, verdict, repeated)
      PROVE  TypeInv'
  <2>1. book' \in Book
    BY <1>5, VerdictType, CappedType DEF Decide
  <2>2. job' \in [Reviews -> Job] /\ JobsOnWindows'
    BY <1>5, IdleType, JobMoves DEF Decide, TypeInv, TypeOK
  <2> QED BY <1>5, <2>1, <2>2 DEF Decide, TypeInv, TypeOK, model, flags, inputs
<1>6. ASSUME NEW verdict \in {"pass", "needs_changes", "error"}, NEW repeated \in BOOLEAN,
             NEW recorded \in BOOLEAN, DecideFails(r, verdict, repeated, recorded)
      PROVE  TypeInv'
  <2>1. book' \in Book
    BY <1>6, VerdictType DEF DecideFails, TypeInv, TypeOK
  <2>2. job' \in [Reviews -> Job] /\ JobsOnWindows'
    BY <1>6, IdleType, JobMoves DEF DecideFails, TypeInv, TypeOK
  <2> QED BY <1>6, <2>1, <2>2 DEF DecideFails, TypeInv, TypeOK, model, inputs
<1> QED BY <1>1, <1>2, <1>3, <1>4, <1>5, <1>6 DEF Progress

LEMMA AutomaticStepType ==
  ASSUME TypeInv, AutomaticStep
  PROVE  TypeInv'
<1>1. "automatic" \in Reviews
  BY DEF Reviews
<1>2. CASE Progress("automatic")
  BY <1>1, <1>2, ProgressType
<1>3. CASE DrainFails
  <2>1. job' \in [Reviews -> Job] /\ JobsOnWindows'
    BY <1>1, <1>3, IdleType, JobMoves DEF DrainFails, Automatic, TypeInv, TypeOK
  <2> QED BY <1>3, <2>1 DEF DrainFails, TypeInv, TypeOK, model, inputs, history
<1>4. CASE FinishSettlement
  <2>1. job' \in [Reviews -> Job] /\ JobsOnWindows'
    BY <1>1, <1>4, IdleType, JobMoves DEF FinishSettlement, Automatic, TypeInv, TypeOK
  <2> QED BY <1>4, <2>1 DEF FinishSettlement, TypeInv, TypeOK, model, inputs, history
<1>5. CASE AbortAutomatic
  <2>1. job' \in [Reviews -> Job] /\ JobsOnWindows'
    BY <1>1, <1>5, IdleType, JobMoves DEF AbortAutomatic, Automatic, TypeInv, TypeOK
  <2> QED BY <1>5, <2>1 DEF AbortAutomatic, TypeInv, TypeOK, model, history
<1>6. ASSUME NEW stuck \in AtMostOne, NEW sent \in SUBSET (Queued \ stuck), ReviewFails(sent, stuck)
      PROVE  TypeInv'
  BY <1>1, <1>6, ReleaseType DEF ReviewFails, TypeInv, TypeOK
<1> QED BY <1>2, <1>3, <1>4, <1>5, <1>6 DEF AutomaticStep

(* The commands. *)
LEMMA CommandStepsType ==
  ASSUME TypeInv,
         \/ Progress("command") \/ EndCommand
         \/ \E r \in Reviews : Cancel(r)
         \/ ReviewNow \/ ReviewContinue \/ TogglePause \/ ReviewClear
  PROVE  TypeInv'
<1>0. "command" \in Reviews
  BY DEF Reviews
<1>1. CASE Progress("command")
  BY <1>0, <1>1, ProgressType
<1>2. CASE EndCommand
  <2>1. job' \in [Reviews -> Job] /\ JobsOnWindows'
    BY <1>0, <1>2, IdleType, JobMoves DEF EndCommand, TypeInv, TypeOK
  <2> QED BY <1>2, <2>1 DEF EndCommand, TypeInv, TypeOK, model, flags, inputs, history
<1>3. ASSUME NEW r \in Reviews, Cancel(r)
      PROVE  TypeInv'
  <2> DEFINE j == [job[r] EXCEPT !.cancelled = TRUE]
  <2>1. job[r] \in Job
    BY DEF TypeInv, TypeOK
  <2>2. j \in Job /\ j.at = job[r].at /\ j.window = job[r].window /\ j.saw = job[r].saw
    BY <2>1 DEF Job
  <2>3. job' = [job EXCEPT ![r] = j]
    BY <1>3 DEF Cancel, TypeInv, TypeOK
  <2> HIDE DEF j
  <2>4. job' \in [Reviews -> Job] /\ JobsOnWindows'
    BY <2>2, <2>3, JobMoves DEF TypeInv, TypeOK, JobsOnWindows
  <2>5. events' \in 0..MaxEvents
    BY <1>3, BoundsAssumption DEF Cancel, Event, TypeInv, TypeOK
  <2> QED BY <1>3, <2>4, <2>5 DEF Cancel, TypeInv, TypeOK, model, flags, inputs, history
<1>4. CASE ReviewNow
  <2>1. book.current \in 1..MaxWindows
    BY <1>4, WindowGet DEF ReviewNow, HasBaseline, TypeInv, TypeOK
  <2>2. job' \in [Reviews -> Job] /\ JobsOnWindows'
    BY <1>0, <1>4, <2>1, SettlingType, JobMoves DEF ReviewNow, TypeInv, TypeOK
  <2>3. events' \in 0..MaxEvents
    BY <1>4, BoundsAssumption DEF ReviewNow, Event, TypeInv, TypeOK
  <2> QED BY <1>4, <2>2, <2>3 DEF ReviewNow, TypeInv, TypeOK, model, flags, inputs, history
<1>5. CASE ReviewContinue
  <2> DEFINE g == Begun(book)
             w == Current(g)
  <2>1. g \in Book /\ g.current # 0 /\ w.exchange \in Exchange
    BY <1>5, BegunType DEF ReviewContinue, HasBaseline, MayOpen, TypeInv, TypeOK
  <2>2. w \in Window /\ g.current \in 1..MaxWindows
    BY <2>1, WindowGet
  <2>3. Continued(w) \in Window
    BY <2>1, <2>2, ContinuedType DEF TypeInv, TypeOK
  <2>4. book' = [g EXCEPT !.windows[g.current] = Continued(w)]
    BY <1>5 DEF ReviewContinue
  <2>5. book' \in Book
    BY <2>1, <2>2, <2>3, <2>4, WindowPut
  <2>6. events' \in 0..MaxEvents
    BY <1>5, BoundsAssumption DEF ReviewContinue, Event, TypeInv, TypeOK
  <2> QED BY <1>5, <2>5, <2>6
          DEF ReviewContinue, TypeInv, TypeOK, JobsOnWindows, flags, inputs
<1>6. CASE TogglePause
  BY <1>6, BoundsAssumption
  DEF TogglePause, Event, TypeInv, TypeOK, JobsOnWindows, model, inputs, history
<1>7. CASE ReviewClear
  <2>1. book' \in Book
    BY <1>7, ClosedType DEF ReviewClear, TypeInv, TypeOK
  <2>2. events' \in 0..MaxEvents
    BY <1>7, BoundsAssumption DEF ReviewClear, Event, TypeInv, TypeOK
  <2> QED BY <1>7, <2>1, <2>2
          DEF ReviewClear, TypeInv, TypeOK, JobsOnWindows, model, flags, history
<1> QED BY <1>1, <1>2, <1>3, <1>4, <1>5, <1>6, <1>7

LEMMA TypeStep ==
  TypeInv /\ [Next]_vars => TypeInv'
<1> SUFFICES ASSUME TypeInv, [Next]_vars
             PROVE  TypeInv'
  OBVIOUS
<1>1. ASSUME NEW i \in Inputs, HoldInput(i) \/ TakeInput(i)
      PROVE  TypeInv'
  BY <1>1, InputStepsType
<1>2. CASE \/ Trigger \/ StartRun \/ TakeMessage \/ StartBackground
         \/ \E s \in BOOLEAN : EndBackground(s)
           \/ \E c \in Contents : Call(c) \/ Drift(c)
  BY <1>2, RunStepsType
<1>3. CASE Settle
  BY <1>3, SettleType
<1>4. CASE AutomaticStep
  BY <1>4, AutomaticStepType
<1>5. CASE \/ Progress("command") \/ EndCommand
           \/ \E r \in Reviews : Cancel(r)
           \/ ReviewNow \/ ReviewContinue \/ TogglePause \/ ReviewClear
  BY <1>5, CommandStepsType
<1>6. CASE UNCHANGED vars
  BY <1>6 DEF vars, TypeInv, TypeOK, JobsOnWindows, model, flags, inputs, history
<1> QED BY <1>1, <1>2, <1>3, <1>4, <1>5, <1>6 DEF Next

LEMMA TypeInit == Init => TypeInv
<1> SUFFICES ASSUME Init PROVE TypeInv
  OBVIOUS
<1>1. book \in Book
  BY EmptyType, BoundsAssumption DEF Init, Book
<1>2. job \in [Reviews -> Job] /\ JobsOnWindows
  BY IdleType DEF Init, JobsOnWindows
<1>3. 0 \in 0..MaxRuns /\ 0 \in 0..MaxEvents
  BY BoundsAssumption
<1>4. delivery \in [Inputs -> {"none", "queued", "uncertain", "sent", "cancelled"}]
  BY DEF Init
<1>5. {due, background, deferred, paused, reviewInProgress, hold, broken, unwoken, moved}
        \subseteq BOOLEAN
  BY DEF Init
<1> QED BY <1>1, <1>2, <1>3, <1>4, <1>5 DEF Init, TypeInv, TypeOK

(* Every variable always has its type, and a review works on a window whose *)
(* content it has seen when it delivers a verdict.                          *)
THEOREM TypeCorrect == Spec => [](TypeOK /\ JobsOnWindows)
<1> QED BY TypeInit, TypeStep, PTL DEF Spec, TypeInv

-----------------------------------------------------------------------------
(* The owners of the flags. *)

LEMMA FlagsStep ==
  TypeInv /\ FlagsOwned /\ [Next]_vars => FlagsOwned'
<1> SUFFICES ASSUME TypeInv, FlagsOwned, [Next]_vars
             PROVE  FlagsOwned'
  OBVIOUS
<1>a. job \in [Reviews -> Job] /\ "automatic" \in Reviews
  BY DEF TypeInv, TypeOK, Reviews
<1>b. ASSUME UNCHANGED <<flags, job, broken>>
      PROVE  FlagsOwned'
  BY <1>b DEF FlagsOwned, flags
<1>c. ASSUME NEW r \in Reviews, NEW b, NEW sent, NEW stuck, NEW follows,
             Release(r, b, sent, stuck, follows)
      PROVE  FlagsOwned'
  <2>1. ~reviewInProgress' /\ hold' = hold
    BY <1>c DEF Release
  <2>2. hold' => job'["automatic"] # Idle
    BY <1>a, <1>c, IdleType DEF Release, FlagsOwned, Reviews
  <2> QED BY <2>1, <2>2 DEF FlagsOwned
<1>1. ASSUME NEW i \in Inputs, HoldInput(i) \/ TakeInput(i)
      PROVE  FlagsOwned'
  BY <1>1, <1>b DEF HoldInput, TakeInput, history
<1>2. CASE \/ Trigger \/ StartRun \/ TakeMessage \/ StartBackground
         \/ \E s \in BOOLEAN : EndBackground(s)
           \/ \E c \in Contents : Call(c) \/ Drift(c)
  BY <1>2, <1>b
  DEF Trigger, StartRun, TakeMessage, StartBackground, EndBackground, Call, Drift, history
<1>3. CASE Settle
  <2>1. CASE SettleNothing \/ SettleUnbased \/ CollectPaused
    BY <1>b, <2>1 DEF SettleNothing, SettleUnbased, CollectPaused, history
  <2>2. CASE SupersedeReview
    BY <2>2 DEF SupersedeReview, FlagsOwned, history
  <2>3. CASE BeginReview
    <3>1. job'["automatic"].at = "settling"
      BY <1>a, <2>3 DEF BeginReview, Automatic, Idle
    <3> QED BY <3>1, IdleType DEF FlagsOwned
  <2>4. ASSUME NEW aborted \in BOOLEAN, DeferReview(aborted)
        PROVE  FlagsOwned'
    <3>1. job'["automatic"].at = "deferring"
      BY <1>a, <2>4, IdleType DEF DeferReview, Automatic
    <3>2. reviewInProgress' => broken'
      BY <2>4, IdleType DEF DeferReview, EndTurn, FlagsOwned, history
    <3> QED BY <3>1, <3>2, IdleType DEF FlagsOwned
  <2> QED BY <1>3, <2>1, <2>2, <2>3, <2>4 DEF Settle
<1>4. ASSUME NEW r \in Reviews, Progress(r)
      PROVE  FlagsOwned'
  <2>1. CASE Capture(r)
    <3>1. job[r].at = "settling" /\ job' = [job EXCEPT ![r] = [job[r] EXCEPT !.at = "reviewing", !.saw = workspace]]
      BY <1>a, <2>1 DEF Capture, Job
    <3>2. job'["automatic"].at \in {job["automatic"].at, "reviewing"}
      BY <1>a, <3>1 DEF Job
    <3>3. job["automatic"].at = "settling" => job'["automatic"].at \in {"settling", "reviewing"}
      BY <3>2
    <3>4. job["automatic"] # Idle => job'["automatic"] # Idle
      BY <1>a, <3>1, IdleType DEF Job
    <3>5. reviewInProgress' = reviewInProgress /\ hold' = hold /\ broken' = broken
      BY <2>1 DEF Capture, flags, history
    <3> QED BY <3>2, <3>4, <3>5 DEF FlagsOwned
  <2>2. CASE \/ DeliverFails(r)
             \/ \E verdict \in {"pass", "needs_changes", "error"}, repeated \in BOOLEAN,
                   recorded \in BOOLEAN : DecideFails(r, verdict, repeated, recorded)
    <3>1. /\ job' = [job EXCEPT ![r] = Idle]
          /\ hold' = (hold /\ r # "automatic")
          /\ broken' = (broken \/ r = "automatic")
          /\ reviewInProgress' = reviewInProgress
      BY <2>2 DEF DeliverFails, DecideFails
    <3>2. CASE r = "automatic"
      BY <3>1, <3>2 DEF FlagsOwned
    <3>3. CASE r # "automatic"
      <4>1. job'["automatic"] = job["automatic"]
        BY <1>a, <3>1, <3>3
      <4> QED BY <3>1, <3>3, <4>1 DEF FlagsOwned
    <3> QED BY <3>2, <3>3
  <2>3. ASSUME NEW stuck \in AtMostOne,
               NEW sent \in SUBSET (Queued \ stuck), NEW delivered \in BOOLEAN,
               SkipReview(r, sent, stuck) \/ Deliver(r, sent, stuck, delivered)
        PROVE  FlagsOwned'
    BY <1>c, <2>3 DEF SkipReview, Deliver
  <2>4. ASSUME NEW verdict, NEW repeated, Decide(r, verdict, repeated)
        PROVE  FlagsOwned'
    <3>1. /\ job' = [job EXCEPT ![r] = [Idle EXCEPT !.at = "delivering"]]
          /\ UNCHANGED <<reviewInProgress, hold, broken>>
      BY <2>4 DEF Decide, flags
    <3>2. CASE r = "automatic"
      <4>1. job'["automatic"].at = "delivering"
        BY <1>a, <3>1, <3>2, IdleType
      <4> QED BY <4>1, IdleType DEF FlagsOwned
    <3>3. CASE r # "automatic"
      <4>1. job'["automatic"] = job["automatic"]
        BY <1>a, <3>1, <3>3
      <4> QED BY <3>1, <4>1 DEF FlagsOwned
    <3> QED BY <3>2, <3>3
  <2> QED BY <1>4, <2>1, <2>2, <2>3, <2>4 DEF Progress
<1>5. CASE AutomaticStep
  <2>1. CASE Progress("automatic")
    BY <1>4, <1>a, <2>1
  <2>2. CASE DrainFails
    BY <2>2 DEF DrainFails, FlagsOwned
  <2>3. CASE FinishSettlement
    BY <2>3 DEF FinishSettlement, FlagsOwned, history
  <2>4. CASE AbortAutomatic
    <3>1. job'["automatic"].at = "releasing"
      BY <1>a, <2>4, IdleType DEF AbortAutomatic, Automatic
    <3> QED BY <2>4, <3>1, IdleType DEF AbortAutomatic, FlagsOwned
  <2>5. ASSUME NEW stuck \in AtMostOne, NEW sent \in SUBSET (Queued \ stuck),
               ReviewFails(sent, stuck)
        PROVE  FlagsOwned'
    BY <1>a, <1>c, <2>5 DEF ReviewFails
  <2> QED BY <1>5, <2>1, <2>2, <2>3, <2>4, <2>5 DEF AutomaticStep
<1>6. CASE Progress("command")
  BY <1>4, <1>6 DEF Reviews
<1>7. CASE EndCommand \/ ReviewNow
  <2>1. job'["automatic"] = job["automatic"]
    BY <1>7, <1>a DEF EndCommand, ReviewNow, Reviews
  <2> QED BY <1>7, <2>1 DEF EndCommand, ReviewNow, FlagsOwned, flags, history
<1>8. ASSUME NEW r \in Reviews, Cancel(r)
      PROVE  FlagsOwned'
  <2> DEFINE j == [job[r] EXCEPT !.cancelled = TRUE]
  <2>1. job[r].at # "idle" /\ job' = [job EXCEPT ![r] = j]
    BY <1>8, <1>a DEF Cancel, Job
  <2>2. j.at = job[r].at
    BY <1>a DEF Job
  <2> HIDE DEF j
  <2>3. job'["automatic"].at = job["automatic"].at
    BY <1>a, <2>1, <2>2
  <2>4. job["automatic"] # Idle => job'["automatic"] # Idle
    BY <1>a, <2>1, <2>2, IdleType
  <2> QED BY <1>8, <2>3, <2>4 DEF Cancel, FlagsOwned, flags, history
<1>9. CASE ReviewContinue \/ TogglePause \/ ReviewClear
  BY <1>9 DEF ReviewContinue, TogglePause, ReviewClear, FlagsOwned, flags, history
<1>10. CASE UNCHANGED vars
  BY <1>10, <1>b DEF vars, history
<1> QED BY <1>1, <1>2, <1>3, <1>5, <1>6, <1>7, <1>8, <1>9, <1>10 DEF Next

(* The review flag and the settlement hold are raised only under a         *)
(* settlement that lowers them, or after the save of a verdict failed      *)
(* (onAgentSettled's finally and the ones of its review).                  *)
THEOREM FlagsOwnedAlways == Spec => []FlagsOwned
<1>1. Init => FlagsOwned
  BY DEF Init, FlagsOwned
<1> QED BY <1>1, TypeInit, TypeStep, FlagsStep, PTL DEF Spec

-----------------------------------------------------------------------------
(* The ledger of held inputs. *)

LEMMA LedgerStep ==
  TypeInv /\ LedgerBacked /\ [Next]_vars => LedgerBacked'
<1> SUFFICES ASSUME TypeInv, LedgerBacked, [Next]_vars
             PROVE  LedgerBacked'
  OBVIOUS
<1>a. ledger \subseteq Inputs /\ DOMAIN delivery = Inputs /\ \A i \in ledger : delivery[i] \in {"queued", "uncertain"}
  BY DEF TypeInv, TypeOK, LedgerBacked, Held, Queued, Uncertain
<1>b. ASSUME UNCHANGED inputs
      PROVE  LedgerBacked'
  BY <1>b DEF LedgerBacked, Held, Queued, Uncertain, inputs
<1>c. ASSUME NEW r, NEW b, NEW sent, NEW stuck, NEW follows,
             Release(r, b, sent, stuck, follows)
      PROVE  LedgerBacked'
  BY <1>a, <1>c DEF Release, LedgerBacked, Held, Queued, Uncertain
<1>d. ASSUME ledger' = {}
      PROVE  LedgerBacked'
  BY <1>d DEF LedgerBacked
<1>1. ASSUME NEW i \in Inputs, HoldInput(i) \/ TakeInput(i)
      PROVE  LedgerBacked'
  <2>1. CASE HoldInput(i)
    BY <1>a, <2>1 DEF HoldInput, LedgerBacked, Held, Queued, Uncertain, TypeInv, TypeOK
  <2>2. CASE TakeInput(i)
    BY <1>a, <2>2 DEF TakeInput, LedgerBacked, Held, Queued, Uncertain, TypeInv, TypeOK
  <2> QED BY <1>1, <2>1, <2>2
<1>2. CASE \/ Trigger \/ StartRun \/ TakeMessage \/ StartBackground
         \/ \E s \in BOOLEAN : EndBackground(s)
           \/ \E c \in Contents : Call(c) \/ Drift(c)
  BY <1>2, <1>b
  DEF Trigger, StartRun, TakeMessage, StartBackground, EndBackground, Call, Drift
<1>3. CASE Settle
  <2>1. CASE SupersedeReview
    BY <1>d, <2>1 DEF SupersedeReview
  <2>2. CASE \/ SettleNothing \/ SettleUnbased \/ CollectPaused \/ BeginReview
             \/ \E aborted \in BOOLEAN : DeferReview(aborted)
    BY <1>b, <2>2
    DEF SettleNothing, SettleUnbased, CollectPaused, BeginReview, DeferReview
  <2> QED BY <1>3, <2>1, <2>2 DEF Settle
<1>4. ASSUME NEW r \in Reviews, Progress(r)
      PROVE  LedgerBacked'
  <2>1. ASSUME NEW stuck \in AtMostOne,
               NEW sent \in SUBSET (Queued \ stuck), NEW delivered \in BOOLEAN,
               SkipReview(r, sent, stuck) \/ Deliver(r, sent, stuck, delivered)
        PROVE  LedgerBacked'
    BY <1>c, <2>1 DEF SkipReview, Deliver
  <2>2. CASE \/ Capture(r) \/ DeliverFails(r)
             \/ \E verdict \in {"pass", "needs_changes", "error"}, repeated \in BOOLEAN :
                  \/ Decide(r, verdict, repeated)
                  \/ \E recorded \in BOOLEAN : DecideFails(r, verdict, repeated, recorded)
    BY <1>b, <2>2 DEF Capture, DeliverFails, Decide, DecideFails
  <2> QED BY <1>4, <2>1, <2>2 DEF Progress
<1>5. CASE AutomaticStep
  <2>1. CASE Progress("automatic")
    BY <1>4, <2>1 DEF Reviews
  <2>2. CASE DrainFails \/ FinishSettlement
    BY <1>b, <2>2 DEF DrainFails, FinishSettlement
  <2>3. CASE AbortAutomatic
    BY <1>d, <2>3 DEF AbortAutomatic
  <2>4. ASSUME NEW stuck \in AtMostOne, NEW sent \in SUBSET (Queued \ stuck),
               ReviewFails(sent, stuck)
        PROVE  LedgerBacked'
    BY <1>c, <2>4 DEF ReviewFails
  <2> QED BY <1>5, <2>1, <2>2, <2>3, <2>4 DEF AutomaticStep
<1>6. CASE Progress("command")
  BY <1>4, <1>6 DEF Reviews
<1>7. CASE \/ EndCommand \/ ReviewNow \/ ReviewContinue \/ TogglePause
           \/ \E r \in Reviews : Cancel(r)
  BY <1>7, <1>b DEF EndCommand, ReviewNow, ReviewContinue, TogglePause, Cancel
<1>8. CASE ReviewClear
  BY <1>8, <1>d DEF ReviewClear
<1>9. CASE UNCHANGED vars
  BY <1>9, <1>b DEF vars
<1> QED BY <1>1, <1>2, <1>3, <1>5, <1>6, <1>7, <1>8, <1>9 DEF Next

(* Every input in the ledger always has a delivery neither sent nor        *)
(* cancelled, whatever releases failed (splitReleasableQueuedInputs).      *)
THEOREM LedgerBackedAlways == Spec => []LedgerBacked
<1>1. Init => LedgerBacked
  BY DEF Init, LedgerBacked
<1> QED BY <1>1, TypeInit, TypeStep, LedgerStep, PTL DEF Spec

-----------------------------------------------------------------------------
(***************************************************************************)
(* The wake of a deferred review.  NoLostWake is not inductive: the end of *)
(* the background work wakes nothing while a review is in progress, so no  *)
(* review may be deferred then; and nothing but a run may give the current *)
(* window its baseline, so a window that was not opened yet has none.      *)
(***************************************************************************)
Fresh(b) ==
  /\ b.current <= b.opened
  /\ \A n \in 1..MaxWindows : n > b.opened => b.windows[n].base = Nothing

DeferredOrReviewing == reviewInProgress /\ deferred => broken

WakeInv == NoLostWake /\ DeferredOrReviewing /\ Fresh(book)

(* Between runs, the book c that follows b has no new baselines, and a     *)
(* current window that is b's, none, or new.                               *)
Follows(b, c) ==
  /\ b.opened <= c.opened
  /\ \A n \in 1..MaxWindows : b.windows[n].base = Nothing => c.windows[n].base = Nothing
  /\ c.current \in {0, b.current} \/ (b.opened < c.current /\ c.current <= c.opened)

Based(b) == b.current # 0 /\ Current(b).base # Nothing

LEMMA BookNumbers ==
  ASSUME NEW b \in Book
  PROVE  b.current \in Nat /\ b.opened \in Nat /\ b.current <= MaxWindows /\ MaxWindows \in Nat
BY BoundsAssumption DEF Book

LEMMA FollowsFresh ==
  ASSUME NEW b \in Book, NEW c \in Book, Fresh(b), Follows(b, c)
  PROVE  Fresh(c) /\ (Based(c) => Based(b))
<1>1. Fresh(c)
  BY BookNumbers DEF Fresh, Follows
<1>2. ASSUME Based(c)
      PROVE  Based(b)
  <2>1. c.current \in 1..MaxWindows
    BY <1>2, BookNumbers DEF Based
  <2>2. b.windows[c.current].base # Nothing
    BY <1>2, <2>1 DEF Follows, Based, Current
  <2>3. ~(c.current > b.opened)
    BY <2>1, <2>2 DEF Fresh
  <2>4. c.current = b.current
    BY <2>1, <2>3, BookNumbers DEF Follows
  <2> QED BY <1>2, <2>2, <2>4 DEF Based, Current
<1> QED BY <1>1, <1>2

LEMMA FollowsSelf ==
  ASSUME NEW b \in Book
  PROVE  Follows(b, b)
BY BookNumbers DEF Follows

LEMMA FollowsTwice ==
  ASSUME NEW b \in Book, NEW c \in Book, NEW d \in Book, Follows(b, c), Follows(c, d)
  PROVE  Follows(b, d)
BY BookNumbers DEF Follows

LEMMA FollowsPut ==
  ASSUME NEW b \in Book, NEW n \in 1..MaxWindows, NEW w \in Window, w.base = b.windows[n].base
  PROVE  Follows(b, [b EXCEPT !.windows[n] = w])
<1> DEFINE c == [b EXCEPT !.windows[n] = w]
<1>1. c.current = b.current /\ c.opened = b.opened
  BY DEF Book
<1>2. \A m \in 1..MaxWindows : c.windows[m] = IF m = n THEN w ELSE b.windows[m]
  BY DEF Book
<1> HIDE DEF c
<1>3. Follows(b, c)
  BY <1>1, <1>2, BookNumbers DEF Follows
<1> QED BY <1>3 DEF c

LEMMA OpenedFollows ==
  ASSUME NEW b \in Book, MayOpen(b)
  PROVE  Follows(b, Opened(b))
<1>1. CASE b.current # 0
  BY <1>1, FollowsSelf DEF Opened
<1>2. CASE b.current = 0
  <2> DEFINE c == [b EXCEPT !.current = b.opened + 1, !.opened = b.opened + 1]
  <2>1. c.current = b.opened + 1 /\ c.opened = b.opened + 1 /\ c.windows = b.windows
    BY DEF Book
  <2>2. Opened(b) = c
    BY <1>2 DEF Opened
  <2> HIDE DEF c
  <2>3. Follows(b, c)
    BY <2>1, BookNumbers DEF Follows
  <2> QED BY <2>2, <2>3
<1> QED BY <1>1, <1>2

LEMMA ClosedFollows ==
  ASSUME NEW b \in Book
  PROVE  Follows(b, Closed(b))
<1> DEFINE c == Closed(b)
<1>1. c.current = 0 /\ c.opened = b.opened
  BY DEF Closed, Book
<1>2. \A n \in 1..MaxWindows : c.windows[n] \in {EmptyWindow, b.windows[n]}
  BY DEF Closed, Book
<1>3. EmptyWindow.base = Nothing
  BY DEF EmptyWindow
<1> HIDE DEF c
<1>4. Follows(b, c)
  BY <1>1, <1>2, <1>3, BookNumbers DEF Follows
<1> QED BY <1>4 DEF c

LEMMA RememberedFollows ==
  ASSUME NEW b \in Book, MayOpen(b)
  PROVE  Follows(b, Remembered(b))
<1> DEFINE o == Opened(b)
           w == [Current(o) EXCEPT !.asked = TRUE]
<1>1. o \in Book /\ o.current # 0
  BY OpenedType
<1>2. Current(o) \in Window /\ o.current \in 1..MaxWindows
  BY <1>1, WindowGet
<1>3. w \in Window /\ w.base = Current(o).base
  BY <1>2 DEF Window
<1>4. Remembered(b) = [o EXCEPT !.windows[o.current] = w]
  BY <1>1, <1>2 DEF Remembered, Current, Book
<1>5. w.base = o.windows[o.current].base
  BY <1>3 DEF Current
<1>6. Follows(b, o) /\ Remembered(b) \in Book
  BY OpenedFollows, RememberedType
<1> HIDE DEF o, w
<1>7. Follows(o, Remembered(b))
  BY <1>1, <1>2, <1>3, <1>4, <1>5, FollowsPut
<1> QED BY <1>1, <1>6, <1>7, FollowsTwice

LEMMA BegunFollows ==
  ASSUME NEW b \in Book, MayOpen(b)
  PROVE  Follows(b, Begun(b))
<1> DEFINE o == Opened(b)
           x == [base |-> Nothing, called |-> FALSE, edited |-> FALSE]
           w == [Current(o) EXCEPT !.exchange = x]
<1>1. o \in Book /\ o.current # 0 /\ Follows(b, o)
  BY OpenedType, OpenedFollows
<1>2. Current(o) \in Window /\ o.current \in 1..MaxWindows
  BY <1>1, WindowGet
<1>3. CASE Current(o).exchange # NoExchange
  BY <1>1, <1>3 DEF Begun
<1>4. CASE Current(o).exchange = NoExchange
  <2>1. x \in Exchange
    BY DEF Exchange, Basis
  <2>2. w \in Window /\ w.base = Current(o).base
    BY <1>2, <2>1 DEF Window
  <2>3. Begun(b) = [o EXCEPT !.windows[o.current] = w]
    BY <1>1, <1>2, <1>4 DEF Begun, Current, Book
  <2>4. w.base = o.windows[o.current].base
    BY <2>2 DEF Current
  <2> HIDE DEF o, w
  <2>5. Follows(o, Begun(b))
    BY <1>1, <1>2, <2>2, <2>3, <2>4, FollowsPut
  <2> QED BY <1>1, <2>5, BegunType, FollowsTwice
<1> QED BY <1>3, <1>4

(* A run gives the current window a baseline, and no other. *)
LEMMA ArmedFresh ==
  ASSUME NEW b \in Book, MayOpen(b), Fresh(b), workspace \in Contents
  PROVE  Fresh(Armed(b))
<1> DEFINE g == Begun(b)
           w == Current(g)
           base == IF w.base = Nothing THEN workspace ELSE w.base
           v == [w EXCEPT !.base = base, !.exchange.base = base]
           c == [g EXCEPT !.windows[g.current] = v]
<1>1. g \in Book /\ g.current # 0 /\ Fresh(g)
  BY BegunType, BegunFollows, FollowsFresh
<1>2. g.current \in 1..MaxWindows
  BY <1>1, WindowGet
<1>3. Armed(b) \in {g, c}
  BY DEF Armed
<1>4. Fresh(c)
  <2> HIDE DEF g, v
  <2>1. c.current = g.current /\ c.opened = g.opened
    BY <1>1 DEF Book
  <2>2. \A n \in 1..MaxWindows : n # g.current => c.windows[n] = g.windows[n]
    BY <1>1 DEF Book
  <2> HIDE DEF c
  <2> QED BY <1>1, <1>2, <2>1, <2>2, BookNumbers DEF Fresh
<1> QED BY <1>1, <1>3, <1>4

LEMMA CompletedBase ==
  ASSUME NEW w \in Window
  PROVE  Completed(w).base = w.base
BY DEF Completed, Window

LEMMA JudgedFollows ==
  ASSUME NEW b \in Book, MayOpen(b),
         NEW verdict \in {"pass", "needs_changes", "error"},
         NEW mode \in {"observation", "correction", "deferred"}, NEW saw \in Contents
  PROVE  Follows(b, Recorded(b, verdict, mode, saw))
<1> DEFINE v == Judged(Current(b), verdict, mode, saw)
           r == IF b.current = 0 THEN b
                ELSE [b EXCEPT !.windows[b.current] = Judged(@, verdict, mode, saw)]
           e == Begun(r)
           x == Current(e).exchange
           y == [x EXCEPT !.base = IF @ = Nothing THEN saw ELSE @]
           u == [Current(e) EXCEPT !.exchange = y]
<1>1. r \in Book /\ MayOpen(r) /\ Follows(b, r)
  <2>1. CASE b.current = 0
    BY <2>1, FollowsSelf
  <2>2. CASE b.current # 0
    <3>1. Current(b) \in Window /\ b.current \in 1..MaxWindows
      BY <2>2, WindowGet
    <3>2. v \in Window /\ v.base = b.windows[b.current].base
      <4>1. v \in Window
        BY <3>1, JudgedType
      <4>2. v.base = Current(b).base
        BY <3>1 DEF Judged, Window
      <4> QED BY <4>1, <4>2 DEF Current
    <3>3. r = [b EXCEPT !.windows[b.current] = v]
      BY <2>2, <3>1 DEF Current, Book
    <3> HIDE DEF v
    <3>4. [b EXCEPT !.windows[b.current] = v] \in Book
      BY <3>1, <3>2, WindowPut
    <3>5. [b EXCEPT !.windows[b.current] = v].current = b.current
      BY DEF Book
    <3>6. Follows(b, [b EXCEPT !.windows[b.current] = v])
      BY <3>1, <3>2, FollowsPut
    <3> QED BY <2>2, <3>3, <3>4, <3>5, <3>6 DEF MayOpen
  <2> QED BY <2>1, <2>2
<1> HIDE DEF r
<1>2. e \in Book /\ e.current # 0 /\ x \in Exchange /\ Follows(b, e)
  BY <1>1, BegunType, BegunFollows, FollowsTwice
<1> HIDE DEF e
<1>3. Current(e) \in Window /\ e.current \in 1..MaxWindows
  BY <1>2, WindowGet
<1>4. y \in Exchange
  BY <1>2 DEF Exchange, Basis
<1>5. u \in Window /\ u.base = e.windows[e.current].base
  BY <1>3, <1>4 DEF Window, Current
<1>6. [e EXCEPT !.windows[e.current].exchange.base = IF @ = Nothing THEN saw ELSE @]
        = [e EXCEPT !.windows[e.current] = u]
  BY <1>2, <1>3 DEF Current, Book, Window, Exchange
<1>7. Recorded(b, verdict, mode, saw) = [e EXCEPT !.windows[e.current] = u]
  BY <1>6 DEF Recorded, e, r
<1> HIDE DEF u
<1>8. Follows(e, [e EXCEPT !.windows[e.current] = u]) /\ [e EXCEPT !.windows[e.current] = u] \in Book
  BY <1>2, <1>3, <1>5, FollowsPut, WindowPut
<1> QED BY <1>2, <1>7, <1>8, FollowsTwice

LEMMA CountedFollows ==
  ASSUME TypeInv, NEW r \in Reviews, NEW verdict \in {"pass", "needs_changes", "error"},
         NEW repeated \in BOOLEAN, job[r].window # 0
  PROVE  Follows(book, Counted(r, verdict, repeated))
<1> DEFINE n == job[r].window
           v == Charged(book.windows[n], r)
<1>1. book \in Book /\ n \in 1..MaxWindows
  BY BoundsAssumption DEF TypeInv, TypeOK, Job
<1>2. CASE verdict # "needs_changes" \/ AtCap(r, verdict, repeated)
  BY <1>1, <1>2, FollowsSelf DEF Counted
<1>3. CASE ~(verdict # "needs_changes" \/ AtCap(r, verdict, repeated))
  <2>1. book.windows[n] \in Window
    BY <1>1 DEF Book
  <2>2. (IF r = "automatic" THEN book.windows[n].cycles + 1 ELSE 0) \in 0..MaxCycles
    BY <1>3, <2>1, BoundsAssumption DEF AtCap, Window
  <2>3. v \in Window /\ v.base = book.windows[n].base
    BY <2>1, <2>2 DEF Charged, Window
  <2>4. Counted(r, verdict, repeated) = [book EXCEPT !.windows[n] = v]
    BY <1>1, <1>3 DEF Counted, Book
  <2> HIDE DEF n, v
  <2> QED BY <1>1, <2>3, <2>4, FollowsPut
<1> QED BY <1>2, <1>3

LEMMA CappedFollows ==
  ASSUME TypeInv, NEW r \in Reviews, NEW verdict, NEW repeated \in BOOLEAN,
         job[r].window # 0, NEW b \in Book
  PROVE  Follows(b, Capped(b, r, verdict, repeated))
<1> DEFINE n == job[r].window
           v == [b.windows[n] EXCEPT !.capped = TRUE]
<1>1. n \in 1..MaxWindows
  BY BoundsAssumption DEF TypeInv, TypeOK, Job
<1>2. b.windows[n] \in Window
  BY <1>1 DEF Book
<1>3. v \in Window /\ v.base = b.windows[n].base
  BY <1>2 DEF Window
<1>4. [b EXCEPT !.windows[n].capped = TRUE] = [b EXCEPT !.windows[n] = v]
  BY DEF Book
<1>5. Capped(b, r, verdict, repeated) \in {b, [b EXCEPT !.windows[n] = v]}
  BY <1>4 DEF Capped
<1> HIDE DEF n, v
<1> QED BY <1>1, <1>3, <1>5, FollowsPut, FollowsSelf

LEMMA CapturedFollows ==
  ASSUME TypeInv, NEW r \in Reviews, job[r].at = "settling"
  PROVE  Follows(book, CapturedBook(r))
<1>1. book \in Book /\ job[r].window \in 1..MaxWindows
  BY BoundsAssumption DEF TypeInv, TypeOK, JobsOnWindows, Job
<1>2. book.windows[job[r].window] \in Window
  BY <1>1 DEF Book
<1>3. Reviewed(r) \in Window /\ Reviewed(r).base = book.windows[job[r].window].base
  BY <1>2, CompletedType, CompletedBase DEF Reviewed, TypeInv, TypeOK
<1> QED BY <1>1, <1>3, FollowsPut DEF CapturedBook

LEMMA VerdictFollows ==
  ASSUME TypeInv, NEW r \in Reviews, NEW verdict \in {"pass", "needs_changes", "error"},
         NEW repeated \in BOOLEAN, Verdict(r, verdict, repeated), MayOpen(book)
  PROVE  LET counted == Counted(r, verdict, repeated)
             recorded == Recorded(counted, verdict, ResponseMode(r, verdict, repeated), job[r].saw)
         IN  /\ Follows(book, counted)
             /\ Follows(book, recorded)
             /\ Follows(book, Capped(recorded, r, verdict, repeated))
<1> DEFINE counted == Counted(r, verdict, repeated)
           mode == ResponseMode(r, verdict, repeated)
           recorded == Recorded(counted, verdict, mode, job[r].saw)
           capped == Capped(recorded, r, verdict, repeated)
<1>1. job[r].window # 0 /\ job[r].saw \in Contents
  BY DEF TypeInv, JobsOnWindows, Verdict
<1>2. mode \in {"observation", "correction", "deferred"}
  BY DEF ResponseMode
<1>3. book \in Book
  BY DEF TypeInv, TypeOK
<1>4. counted \in Book /\ MayOpen(counted) /\ recorded \in Book /\ capped \in Book
  BY <1>1, CountedType, VerdictType, CappedType
<1>5. Follows(book, counted)
  BY <1>1, CountedFollows
<1> HIDE DEF counted, mode
<1>6. Follows(counted, recorded)
  BY <1>1, <1>2, <1>4, JudgedFollows
<1>7. Follows(book, recorded)
  BY <1>3, <1>4, <1>5, <1>6, FollowsTwice
<1> HIDE DEF recorded
<1>8. Follows(recorded, capped)
  BY <1>1, <1>4, CappedFollows
<1>9. Follows(book, capped)
  BY <1>3, <1>4, <1>7, <1>8, FollowsTwice
<1> QED BY <1>5, <1>7, <1>9 DEF counted, mode, recorded

(* A step that only lets the books follow forgets no wake. *)
LEMMA WakeKept ==
  ASSUME TypeInv, TypeInv', WakeInv, Follows(book, book'),
         turn' = turn, due => due', background' = background,
         deferred' => deferred, reviewInProgress' => reviewInProgress, broken => broken', unwoken => unwoken'
  PROVE  WakeInv'
<1>1. book \in Book /\ book' \in Book
  BY DEF TypeInv, TypeOK
<1>2. Fresh(book') /\ (Based(book') => Based(book))
  BY <1>1, FollowsFresh DEF WakeInv
<1>3. HasBaseline' => HasBaseline
  BY <1>2 DEF HasBaseline, Based, Current
<1>4. Fresh(book)'
  BY <1>2 DEF Fresh
<1> QED BY <1>3, <1>4 DEF WakeInv, NoLostWake, DeferredOrReviewing

LEMMA WakeRelease ==
  ASSUME TypeInv, TypeInv', WakeInv, NEW r, NEW b \in Book, NEW sent, NEW stuck, NEW follows,
         Follows(book, b), Release(r, b, sent, stuck, follows)
  PROVE  WakeInv'
<1>1. book \in Book /\ book' \in Book
  BY DEF TypeInv, TypeOK
<1>2. Follows(book, book')
  <2>1. CASE Held = {}
    BY <2>1 DEF Release
  <2>2. CASE Held # {}
    <3>1. book' = Remembered(b) /\ MayOpen(b)
      BY <2>2 DEF Release
    <3> QED BY <1>1, <3>1, RememberedFollows, FollowsTwice
  <2> QED BY <2>1, <2>2
<1> QED BY <1>2, WakeKept DEF Release, history

LEMMA WakeProgress ==
  ASSUME TypeInv, TypeInv', WakeInv, NEW r \in Reviews, Progress(r)
  PROVE  WakeInv'
<1>0. book \in Book
  BY DEF TypeInv, TypeOK
<1>1. CASE Capture(r)
  BY <1>1, CapturedFollows, WakeKept DEF Capture, model, flags, history
<1>2. CASE DeliverFails(r)
  BY <1>0, <1>2, FollowsSelf, WakeKept DEF DeliverFails, model
<1>3. ASSUME NEW stuck \in AtMostOne, NEW sent \in SUBSET (Queued \ stuck),
             SkipReview(r, sent, stuck)
      PROVE  WakeInv'
  <2> DEFINE b == IF Closes(r) THEN Closed(CapturedBook(r)) ELSE CapturedBook(r)
  <2>1. CapturedBook(r) \in Book /\ Follows(book, CapturedBook(r))
    BY <1>3, CapturedType, CapturedFollows DEF SkipReview
  <2>2. b \in Book /\ Follows(book, b)
    BY <1>0, <2>1, ClosedType, ClosedFollows, FollowsTwice
  <2>3. Release(r, b, sent, stuck, FALSE)
    BY <1>3 DEF SkipReview
  <2> HIDE DEF b
  <2> QED BY <2>2, <2>3, WakeRelease
<1>4. ASSUME NEW stuck \in AtMostOne, NEW sent \in SUBSET (Queued \ stuck), NEW delivered \in BOOLEAN,
             Deliver(r, sent, stuck, delivered)
      PROVE  WakeInv'
  BY <1>0, <1>4, FollowsSelf, WakeRelease DEF Deliver
<1>5. ASSUME NEW verdict \in {"pass", "needs_changes", "error"}, NEW repeated \in BOOLEAN,
             Decide(r, verdict, repeated)
      PROVE  WakeInv'
  <2>1. Follows(book, book')
    BY <1>5, VerdictFollows DEF Decide
  <2> QED BY <1>5, <2>1, WakeKept DEF Decide, model, flags
<1>6. ASSUME NEW verdict \in {"pass", "needs_changes", "error"}, NEW repeated \in BOOLEAN,
             NEW recorded \in BOOLEAN, DecideFails(r, verdict, repeated, recorded)
      PROVE  WakeInv'
  <2>1. Follows(book, book')
    BY <1>0, <1>6, VerdictFollows, FollowsSelf DEF DecideFails
  <2> QED BY <1>6, <2>1, WakeKept DEF DecideFails, model
<1> QED BY <1>1, <1>2, <1>3, <1>4, <1>5, <1>6 DEF Progress

(* The end of a run and what a settlement does to the deferral. *)
LEMMA WakeSettle ==
  ASSUME TypeInv, TypeInv', WakeInv, FlagsOwned, Settle
  PROVE  WakeInv'
<1>0. book \in Book
  BY DEF TypeInv, TypeOK
<1>a. ASSUME book' = book, deferred' = FALSE
      PROVE  WakeInv'
  BY <1>a DEF WakeInv, NoLostWake, DeferredOrReviewing, Fresh
<1>1. CASE SettleNothing
  <2>1. ~HasBaseline' /\ UNCHANGED <<book, deferred, reviewInProgress, broken>>
    BY <1>1 DEF SettleNothing, HasBaseline, flags, history
  <2> QED BY <2>1 DEF WakeInv, NoLostWake, DeferredOrReviewing, Fresh
<1>2. CASE SettleUnbased
  <2>1. Fresh(book')
    BY <1>0, <1>2, ClosedType, ClosedFollows, FollowsFresh DEF SettleUnbased, WakeInv
  <2> QED BY <1>2, <2>1 DEF SettleUnbased, WakeInv, NoLostWake, DeferredOrReviewing, Fresh
<1>3. CASE SupersedeReview \/ BeginReview
  BY <1>3, <1>a DEF SupersedeReview, BeginReview
<1>4. CASE CollectPaused
  <2> DEFINE w == Completed(Current(book))
  <2>1. Current(book) \in Window /\ book.current \in 1..MaxWindows
    BY <1>0, <1>4, WindowGet DEF CollectPaused, HasBaseline
  <2>2. w \in Window /\ w.base = book.windows[book.current].base
    <3>1. w \in Window /\ w.base = Current(book).base
      BY <2>1, CompletedType, CompletedBase DEF TypeInv, TypeOK
    <3> QED BY <3>1 DEF Current
  <2>3. book' = [book EXCEPT !.windows[book.current] = w]
    BY <1>0, <1>4, <2>1 DEF CollectPaused, Current, Book
  <2> HIDE DEF w
  <2>4. Fresh(book')
    BY <1>0, <2>1, <2>2, <2>3, FollowsPut, WindowPut, FollowsFresh DEF WakeInv
  <2> QED BY <1>4, <2>4 DEF CollectPaused, WakeInv, NoLostWake, DeferredOrReviewing, Fresh
<1>5. ASSUME NEW aborted \in BOOLEAN, DeferReview(aborted)
      PROVE  WakeInv'
  <2>1. reviewInProgress => broken
    BY <1>5, IdleType DEF DeferReview, EndTurn, FlagsOwned
  <2> QED BY <1>5, <2>1 DEF DeferReview, WakeInv, NoLostWake, DeferredOrReviewing, Fresh, history
<1> QED BY <1>1, <1>2, <1>3, <1>4, <1>5 DEF Settle

LEMMA WakeStep ==
  TypeInv /\ TypeInv' /\ FlagsOwned /\ WakeInv /\ [Next]_vars => WakeInv'
<1> SUFFICES ASSUME TypeInv, TypeInv', FlagsOwned, WakeInv, [Next]_vars
             PROVE  WakeInv'
  OBVIOUS
<1>0. book \in Book /\ workspace \in Contents
  BY DEF TypeInv, TypeOK
<1>a. ASSUME UNCHANGED <<book, turn, background, deferred, reviewInProgress, broken, unwoken>>, due => due'
      PROVE  WakeInv'
  BY <1>0, <1>a, FollowsSelf, WakeKept
<1>1. ASSUME NEW i \in Inputs, HoldInput(i) \/ TakeInput(i)
      PROVE  WakeInv'
  <2>1. CASE HoldInput(i)
    BY <1>a, <2>1 DEF HoldInput, model, flags, history
  <2>2. CASE TakeInput(i)
    <3>1. Retired(book) \in Book /\ Follows(book, Retired(book))
      BY <1>0, ClosedType, ClosedFollows, FollowsSelf DEF Retired
    <3>2. Remembered(Retired(book)) \in Book /\ Follows(book, Remembered(Retired(book)))
      BY <1>0, <2>2, <3>1, RememberedType, RememberedFollows, FollowsTwice DEF TakeInput
    <3>3. book' = Remembered(Retired(book))
      BY <2>2 DEF TakeInput
    <3> QED BY <2>2, <3>2, <3>3, WakeKept DEF TakeInput, flags, history
  <2> QED BY <1>1, <2>1, <2>2
<1>2. CASE Trigger
  BY <1>2, <1>a DEF Trigger, flags, history
<1>3. CASE StartRun \/ TakeMessage
  <2>1. Fresh(book') /\ turn' = "running"
    BY <1>0, <1>3, ArmedFresh DEF StartRun, TakeMessage, WakeInv
  <2>2. UNCHANGED <<deferred, reviewInProgress, broken>>
    BY <1>3 DEF StartRun, TakeMessage, flags, history
  <2> QED BY <2>1, <2>2 DEF WakeInv, NoLostWake, DeferredOrReviewing, Fresh
<1>4. CASE StartBackground
  BY <1>4 DEF StartBackground, WakeInv, NoLostWake, DeferredOrReviewing, Fresh, flags, history
<1>5. ASSUME NEW s \in BOOLEAN, EndBackground(s)
      PROVE  WakeInv'
  <2>1. deferred /\ reviewInProgress => broken
    BY DEF WakeInv, DeferredOrReviewing
  <2>2. /\ due' = (due \/ s)
        /\ unwoken' = ((deferred /\ book.current # 0 /\ ~reviewInProgress) /\ ~s)
        /\ UNCHANGED <<book, deferred, reviewInProgress, broken>>
    BY <1>5 DEF EndBackground, flags, history
  <2>3. NoLostWake'
    BY <2>1, <2>2 DEF NoLostWake, HasBaseline
  <2> QED BY <2>2, <2>3 DEF WakeInv, DeferredOrReviewing, Fresh
<1>6. ASSUME NEW c \in Contents, Call(c) \/ Drift(c)
      PROVE  WakeInv'
  <2>1. CASE Drift(c)
    BY <1>a, <2>1 DEF Drift, model, flags, history
  <2>2. CASE Call(c)
    <3>1. CASE book.current = 0 \/ Current(book).exchange = NoExchange
      BY <1>a, <2>2, <3>1 DEF Call, model, flags, history
    <3>2. CASE ~(book.current = 0 \/ Current(book).exchange = NoExchange)
      <4> DEFINE w == Called(Current(book), c # workspace)
      <4>1. Current(book) \in Window /\ book.current \in 1..MaxWindows
        BY <1>0, <3>2, WindowGet
      <4>2. w \in Window
        BY <3>2, <4>1, CalledType
      <4>3. w.base = Current(book).base
        BY <4>1 DEF Called, Window
      <4>4. book' = [book EXCEPT !.windows[book.current] = w]
        BY <2>2, <3>2, <1>0, <4>1 DEF Call, Current, Book
      <4>5. w.base = book.windows[book.current].base
        BY <4>3 DEF Current
      <4> HIDE DEF w
      <4>6. Follows(book, book')
        BY <1>0, <4>1, <4>2, <4>4, <4>5, FollowsPut
      <4> QED BY <2>2, <4>6, WakeKept DEF Call, model, flags, history
    <3> QED BY <3>1, <3>2
  <2> QED BY <1>6, <2>1, <2>2
<1>7. CASE Settle
  BY <1>7, WakeSettle
<1>8. CASE AutomaticStep
  <2>1. CASE Progress("automatic")
    BY <2>1, WakeProgress DEF Reviews
  <2>2. CASE DrainFails \/ FinishSettlement \/ AbortAutomatic
    BY <1>0, <2>2, FollowsSelf, WakeKept
    DEF DrainFails, FinishSettlement, AbortAutomatic, model, history
  <2>3. ASSUME NEW stuck \in AtMostOne, NEW sent \in SUBSET (Queued \ stuck),
               ReviewFails(sent, stuck)
        PROVE  WakeInv'
    BY <1>0, <2>3, FollowsSelf, WakeRelease DEF ReviewFails
  <2> QED BY <1>8, <2>1, <2>2, <2>3 DEF AutomaticStep
<1>9. CASE Progress("command")
  BY <1>9, WakeProgress DEF Reviews
<1>10. CASE EndCommand \/ ReviewNow \/ TogglePause \/ \E r \in Reviews : Cancel(r)
  BY <1>10, <1>a DEF EndCommand, ReviewNow, TogglePause, Cancel, model, flags, history
<1>11. CASE ReviewContinue
  <2> DEFINE g == Begun(book)
             w == Current(g)
             v == Continued(w)
  <2>1. g \in Book /\ g.current # 0 /\ w.exchange \in Exchange /\ Follows(book, g)
    BY <1>0, <1>11, BegunType, BegunFollows DEF ReviewContinue, HasBaseline, MayOpen
  <2>2. w \in Window /\ g.current \in 1..MaxWindows
    BY <2>1, WindowGet
  <2>3. v \in Window
    BY <1>0, <2>1, <2>2, ContinuedType
  <2>4. v.base = w.base
    BY <2>2 DEF Continued, Window
  <2>5. book' = [g EXCEPT !.windows[g.current] = v]
    BY <1>11 DEF ReviewContinue
  <2>6. v.base = g.windows[g.current].base
    BY <2>4 DEF Current
  <2> HIDE DEF g, v
  <2>7. Follows(g, book') /\ book' \in Book
    BY <2>1, <2>2, <2>3, <2>5, <2>6, FollowsPut, WindowPut
  <2>8. Follows(book, book')
    BY <1>0, <2>1, <2>7, FollowsTwice
  <2> QED BY <1>11, <2>8, WakeKept DEF ReviewContinue, flags
<1>12. CASE ReviewClear
  BY <1>0, <1>12, ClosedFollows, WakeKept DEF ReviewClear, model, flags, history
<1>13. CASE UNCHANGED vars
  BY <1>13, <1>a DEF vars, model, flags, history
<1> QED BY <1>1, <1>2, <1>3, <1>4, <1>5, <1>6, <1>7, <1>8, <1>9, <1>10, <1>11, <1>12, <1>13
        DEF Next

(* A review deferred on background work always has a run that will settle  *)
(* it, or one that waits to start, once the work has ended                 *)
(* (handleBackgroundLifecycle).                                            *)
THEOREM NoWakeLost == Spec => []NoLostWake
<1>1. Init => WakeInv /\ FlagsOwned
  <2> SUFFICES ASSUME Init PROVE WakeInv /\ FlagsOwned
    OBVIOUS
  <2>1. EmptyWindow.base = Nothing
    BY DEF EmptyWindow
  <2>2. Fresh(book)
    BY <2>1 DEF Init, Fresh
  <2> QED BY <2>2 DEF Init, WakeInv, NoLostWake, DeferredOrReviewing, FlagsOwned
<1>2. WakeInv => NoLostWake
  BY DEF WakeInv
<1> QED BY <1>1, <1>2, TypeInit, TypeStep, FlagsStep, WakeStep, PTL DEF Spec
-----------------------------------------------------------------------------
(***************************************************************************)
(* The close without a verdict.  Why it is clean takes the history of the  *)
(* window: what the last verdict saw, what the response to it started      *)
(* from, and what became of that response when it was completed.           *)
(***************************************************************************)
(* Only a pass asks for a response that need not change anything. *)
Moded(w) == w.mode = "observation" <=> w.last = "pass"

(* The response to a pass starts from the baseline or from what a pass saw. *)
PassBased(w) ==
  w.last = "pass" /\ w.exchange # NoExchange => w.exchange.base \in {Nothing, w.base} \cup w.passed

(* An exchange that no verdict began starts from the baseline. *)
FreshBased(w) == w.exchange # NoExchange => w.exchange.base \in {Nothing, w.base}

(* A completed response to a pass that left nothing would have closed it. *)
Answered(w) ==
  w.last = "pass" /\ w.exchange = NoExchange =>
    w.settled.asked \/ w.settled.edited \/ w.settled.changed \/ w.settled.called

(* What a step that brings no verdict keeps of a window. *)
Keeps(w, v) ==
  /\ Moded(w) => Moded(v)
  /\ PassBased(w) => PassBased(v)
  /\ FreshBased(w) => FreshBased(v)

(* No window is used before it is opened. *)
Tidy(b) ==
  /\ b.current <= b.opened
  /\ \A n \in 1..MaxWindows : n > b.opened => b.windows[n] = EmptyWindow

(* The book c that follows b has the window of b, none or a new one. *)
Kept(b, c) ==
  /\ Tidy(c) /\ b.opened <= c.opened
  /\ c.current \in {0, b.current} \/ b.opened < c.current
  /\ \A n \in 1..MaxWindows : Keeps(b.windows[n], c.windows[n])

(* Nor does it leave the current window without an answer to its pass. *)
AnswerKept(b, c) ==
  c.current # 0 /\ (c.current = b.current => Answered(Current(b))) => Answered(Current(c))

LEMMA EmptyKeeps ==
  /\ Moded(EmptyWindow) /\ PassBased(EmptyWindow)
  /\ FreshBased(EmptyWindow) /\ Answered(EmptyWindow)
BY DEF EmptyWindow, Moded, PassBased, FreshBased, Answered

LEMMA KeepsSelf == ASSUME NEW w PROVE Keeps(w, w)
BY DEF Keeps

LEMMA PutFacts ==
  ASSUME NEW b \in Book, NEW n \in 1..MaxWindows, NEW w \in Window
  PROVE  LET c == [b EXCEPT !.windows[n] = w]
         IN  /\ c \in Book /\ c.current = b.current /\ c.opened = b.opened
             /\ \A m \in 1..MaxWindows : c.windows[m] = IF m = n THEN w ELSE b.windows[m]
<1> DEFINE c == [b EXCEPT !.windows[n] = w]
<1>1. c \in Book
  BY WindowPut
<1>2. c.current = b.current /\ c.opened = b.opened
  BY DEF Book
<1>3. \A m \in 1..MaxWindows : c.windows[m] = IF m = n THEN w ELSE b.windows[m]
  BY DEF Book
<1> QED BY <1>1, <1>2, <1>3

LEMMA KeptSelf ==
  ASSUME NEW b \in Book, Tidy(b)
  PROVE  Kept(b, b) /\ AnswerKept(b, b)
BY KeepsSelf, BookNumbers DEF Kept, AnswerKept

LEMMA KeptTwice ==
  ASSUME NEW b \in Book, NEW c \in Book, NEW d \in Book, Tidy(b), Kept(b, c), Kept(c, d)
  PROVE  /\ Kept(b, d)
         /\ AnswerKept(b, c) /\ AnswerKept(c, d) => AnswerKept(b, d)
<1>1. Kept(b, d)
  BY BookNumbers DEF Kept, Keeps
<1>2. ASSUME AnswerKept(b, c), AnswerKept(c, d) PROVE AnswerKept(b, d)
  BY <1>2, BookNumbers DEF Kept, AnswerKept, Tidy
<1> QED BY <1>1, <1>2

LEMMA KeptPut ==
  ASSUME NEW b \in Book, NEW n \in 1..MaxWindows, NEW w \in Window, Tidy(b), n <= b.opened,
         Keeps(b.windows[n], w)
  PROVE  LET c == [b EXCEPT !.windows[n] = w]
         IN  /\ Kept(b, c)
             /\ (n = b.current /\ Answered(b.windows[n]) => Answered(w)) => AnswerKept(b, c)
<1> DEFINE c == [b EXCEPT !.windows[n] = w]
<1>1. /\ c \in Book /\ c.current = b.current /\ c.opened = b.opened
      /\ \A m \in 1..MaxWindows : c.windows[m] = IF m = n THEN w ELSE b.windows[m]
  BY PutFacts
<1> HIDE DEF c
<1>2. Kept(b, c)
  BY <1>1, KeepsSelf, BookNumbers DEF Kept, Tidy
<1>3. ASSUME n = b.current /\ Answered(b.windows[n]) => Answered(w) PROVE AnswerKept(b, c)
  BY <1>1, <1>3, BookNumbers DEF AnswerKept, Current
<1> QED BY <1>2, <1>3 DEF c

LEMMA OpenedKept ==
  ASSUME NEW b \in Book, MayOpen(b), Tidy(b)
  PROVE  Kept(b, Opened(b)) /\ AnswerKept(b, Opened(b))
<1>1. CASE b.current # 0
  BY <1>1, KeptSelf DEF Opened
<1>2. CASE b.current = 0
  <2> DEFINE c == [b EXCEPT !.current = b.opened + 1, !.opened = b.opened + 1]
  <2>1. c.current = b.opened + 1 /\ c.opened = b.opened + 1 /\ c.windows = b.windows
    BY DEF Book
  <2>2. Opened(b) = c
    BY <1>2 DEF Opened
  <2>3. b.opened + 1 \in 1..MaxWindows
    BY <1>2, BookNumbers DEF MayOpen
  <2> HIDE DEF c
  <2>4. Kept(b, c)
    BY <2>1, KeepsSelf, BookNumbers DEF Kept, Tidy
  <2>5. AnswerKept(b, c)
    BY <1>2, <2>1, <2>3, EmptyKeeps, BookNumbers DEF AnswerKept, Tidy, Current
  <2> QED BY <2>2, <2>4, <2>5
<1> QED BY <1>1, <1>2

LEMMA ClosedKept ==
  ASSUME NEW b \in Book, Tidy(b)
  PROVE  Kept(b, Closed(b)) /\ \A a : AnswerKept(a, Closed(b))
<1> DEFINE c == Closed(b)
<1>1. c.current = 0 /\ c.opened = b.opened
  BY DEF Closed, Book
<1>2. \A n \in 1..MaxWindows : c.windows[n] \in {EmptyWindow, b.windows[n]}
  BY DEF Closed, Book
<1> HIDE DEF c
<1>3. Kept(b, c)
  BY <1>1, <1>2, KeepsSelf, EmptyKeeps, BookNumbers DEF Kept, Tidy, Keeps
<1>4. \A a : AnswerKept(a, c)
  BY <1>1 DEF AnswerKept
<1> QED BY <1>3, <1>4 DEF c

LEMMA AskedKeeps ==
  ASSUME NEW w \in Window
  PROVE  LET v == [w EXCEPT !.asked = TRUE]
         IN  v \in Window /\ Keeps(w, v) /\ (Answered(w) => Answered(v))
BY DEF Window, Keeps, Moded, PassBased, FreshBased, Answered

LEMMA RememberedKept ==
  ASSUME NEW b \in Book, MayOpen(b), Tidy(b)
  PROVE  Kept(b, Remembered(b)) /\ AnswerKept(b, Remembered(b))
<1> DEFINE o == Opened(b)
           w == [Current(o) EXCEPT !.asked = TRUE]
<1>1. o \in Book /\ o.current # 0 /\ Kept(b, o) /\ AnswerKept(b, o)
  BY OpenedType, OpenedKept
<1>2. Current(o) \in Window /\ o.current \in 1..MaxWindows
  BY <1>1, WindowGet
<1>3. Remembered(b) = [o EXCEPT !.windows[o.current] = w]
  BY <1>1, <1>2 DEF Remembered, Current, Book
<1>4. /\ w \in Window /\ Keeps(o.windows[o.current], w)
      /\ Answered(o.windows[o.current]) => Answered(w)
  BY <1>2, AskedKeeps DEF Current
<1>5. Remembered(b) \in Book /\ Tidy(o) /\ o.current <= o.opened
  BY <1>1, RememberedType DEF Kept, Tidy
<1> HIDE DEF o, w
<1>6. Kept(o, Remembered(b)) /\ AnswerKept(o, Remembered(b))
  BY <1>1, <1>2, <1>3, <1>4, <1>5, KeptPut
<1> QED BY <1>1, <1>5, <1>6, KeptTwice

LEMMA StartedKeeps ==
  ASSUME NEW w \in Window, w.exchange = NoExchange
  PROVE  LET x == [base |-> Nothing, called |-> FALSE, edited |-> FALSE]
             v == [w EXCEPT !.exchange = x]
         IN  v \in Window /\ v.exchange = x /\ x # NoExchange /\ Keeps(w, v) /\ Answered(v)
<1> DEFINE x == [base |-> Nothing, called |-> FALSE, edited |-> FALSE]
           v == [w EXCEPT !.exchange = x]
<1>1. x \in Exchange /\ x.base = Nothing
  BY DEF Exchange, Basis
<1>2. x # NoExchange
  BY <1>1, NoExchangeAssumption DEF Exchange, Basis
<1> HIDE DEF x
<1>3. v \in Window /\ v.exchange = x /\ v.last = w.last /\ v.mode = w.mode
  BY <1>1 DEF Window
<1> HIDE DEF v
<1>4. Keeps(w, v) /\ Answered(v)
  BY <1>1, <1>2, <1>3 DEF Keeps, Moded, PassBased, FreshBased, Answered
<1> QED BY <1>2, <1>3, <1>4 DEF v, x

LEMMA BegunKept ==
  ASSUME NEW b \in Book, MayOpen(b), Tidy(b)
  PROVE  /\ Kept(b, Begun(b)) /\ AnswerKept(b, Begun(b))
         /\ Current(Begun(b)).exchange # NoExchange
         /\ Begun(b).current = Opened(b).current
<1> DEFINE o == Opened(b)
           x == [base |-> Nothing, called |-> FALSE, edited |-> FALSE]
           w == [Current(o) EXCEPT !.exchange = x]
<1>1. o \in Book /\ o.current # 0 /\ Kept(b, o) /\ AnswerKept(b, o)
  BY OpenedType, OpenedKept
<1>2. Current(o) \in Window /\ o.current \in 1..MaxWindows
  BY <1>1, WindowGet
<1>3. CASE Current(o).exchange # NoExchange
  BY <1>1, <1>3 DEF Begun
<1>4. CASE Current(o).exchange = NoExchange
  <2>1. w \in Window /\ w.exchange # NoExchange /\ Keeps(Current(o), w) /\ Answered(w)
    BY <1>2, <1>4, StartedKeeps
  <2>2. Begun(b) = [o EXCEPT !.windows[o.current] = w]
    BY <1>1, <1>2, <1>4 DEF Begun, Current, Book
  <2>3. Tidy(o) /\ o.current <= o.opened /\ Keeps(o.windows[o.current], w)
    BY <1>1, <2>1 DEF Kept, Tidy, Current
  <2> HIDE DEF o, w
  <2>4. Kept(o, Begun(b)) /\ AnswerKept(o, Begun(b)) /\ Begun(b) \in Book
    BY <1>1, <1>2, <2>1, <2>2, <2>3, KeptPut, WindowPut
  <2>5. Begun(b).current = o.current /\ Current(Begun(b)) = w
    BY <1>1, <1>2, <2>1, <2>2, PutFacts DEF Current
  <2>6. Kept(b, Begun(b)) /\ AnswerKept(b, Begun(b))
    BY <1>1, <2>4, KeptTwice
  <2> QED BY <2>1, <2>5, <2>6 DEF o
<1> QED BY <1>3, <1>4

(* A run makes the baseline the base of an exchange without one. *)
LEMMA ArmedKept ==
  ASSUME NEW b \in Book, MayOpen(b), Tidy(b), workspace \in Contents
  PROVE  Kept(b, Armed(b)) /\ AnswerKept(b, Armed(b)) /\ Current(Armed(b)).exchange # NoExchange
<1> DEFINE g == Begun(b)
           w == Current(g)
           base == IF w.base = Nothing THEN workspace ELSE w.base
           x == [w.exchange EXCEPT !.base = base]
           v == [w EXCEPT !.base = base, !.exchange = x]
<1>1. /\ g \in Book /\ g.current # 0 /\ w.exchange \in Exchange /\ w.exchange # NoExchange
      /\ Kept(b, g) /\ AnswerKept(b, g)
  BY BegunType, BegunKept
<1>2. w \in Window /\ g.current \in 1..MaxWindows
  BY <1>1, WindowGet
<1>3. CASE w.exchange.base # Nothing
  BY <1>1, <1>3 DEF Armed
<1>4. CASE w.exchange.base = Nothing
  <2>1. base \in Basis
    BY <1>2 DEF Basis, Window
  <2> HIDE DEF base
  <2>2. x \in Exchange /\ x.base = base
    BY <1>1, <2>1 DEF Exchange
  <2>3. x # NoExchange
    BY <2>2, NoExchangeAssumption DEF Exchange, Basis
  <2>4. v \in Window /\ v.exchange = x /\ v.base = base /\ v.last = w.last /\ v.mode = w.mode
    <3> HIDE DEF x, g
    <3> QED BY <1>2, <2>1, <2>2 DEF Window
  <2>5. Armed(b) = [g EXCEPT !.windows[g.current] = v]
    BY <1>1, <1>2, <1>4 DEF Armed, base, Window, Exchange
  <2> HIDE DEF v, x
  <2>6. Keeps(w, v) /\ Answered(v)
    BY <2>2, <2>3, <2>4 DEF Keeps, Moded, PassBased, FreshBased, Answered
  <2>7. Tidy(g) /\ g.current <= g.opened /\ Keeps(g.windows[g.current], v)
    BY <1>1, <2>6 DEF Kept, Tidy, Current
  <2> HIDE DEF g
  <2>8. Kept(g, Armed(b)) /\ AnswerKept(g, Armed(b)) /\ Armed(b) \in Book
    BY <1>1, <1>2, <2>4, <2>5, <2>6, <2>7, KeptPut, WindowPut
  <2>9. Current(Armed(b)) = v
    BY <1>1, <1>2, <2>4, <2>5, PutFacts DEF Current
  <2> QED BY <1>1, <2>3, <2>4, <2>8, <2>9, KeptTwice
<1> QED BY <1>3, <1>4

LEMMA CalledKeeps ==
  ASSUME NEW w \in Window, w.exchange # NoExchange, NEW edits \in BOOLEAN
  PROVE  Keeps(w, Called(w, edits)) /\ (Answered(w) => Answered(Called(w, edits)))
<1> DEFINE x == [w.exchange EXCEPT !.called = TRUE, !.edited = w.exchange.edited \/ edits]
           v == [w EXCEPT !.exchange = x]
<1>1. w.exchange \in Exchange
  BY DEF Window
<1>2. x \in Exchange /\ x.base = w.exchange.base
  BY <1>1 DEF Exchange
<1>3. x # NoExchange
  BY <1>2, NoExchangeAssumption DEF Exchange, Basis
<1>4. Called(w, edits) = v
  BY <1>1 DEF Called, Window, Exchange
<1> HIDE DEF x
<1>5. v.exchange = x /\ v.last = w.last /\ v.mode = w.mode /\ v.base = w.base /\ v.passed = w.passed
  BY DEF Window
<1> HIDE DEF v
<1> QED BY <1>2, <1>3, <1>4, <1>5 DEF Keeps, Moded, PassBased, FreshBased, Answered

(* A completed exchange is gone; the current verdict stands. *)
LEMMA CompletedFacts ==
  ASSUME NEW w \in Window
  PROVE  LET v == Completed(w)
         IN  /\ v.exchange = NoExchange /\ Keeps(w, v)
             /\ v.last = w.last /\ v.mode = w.mode /\ v.base = w.base /\ v.passed = w.passed
             /\ w.exchange # NoExchange => v.settled.changed = (workspace # w.exchange.base)
             /\ w.exchange = NoExchange => v = w
<1>1. CASE w.exchange = NoExchange
  BY <1>1, KeepsSelf DEF Completed
<1>2. CASE w.exchange # NoExchange
  <2> DEFINE s == [asked |-> w.asked, called |-> w.exchange.called,
                   edited |-> w.exchange.edited, changed |-> workspace # w.exchange.base]
             v == [w EXCEPT !.settled = s, !.called = w.called \/ w.exchange.called,
                            !.asked = FALSE, !.exchange = NoExchange]
  <2>1. Completed(w) = v
    BY <1>2 DEF Completed
  <2>2. s.changed = (workspace # w.exchange.base)
    OBVIOUS
  <2> HIDE DEF s
  <2>3. /\ v.exchange = NoExchange /\ v.settled = s
        /\ v.last = w.last /\ v.mode = w.mode /\ v.base = w.base /\ v.passed = w.passed
    BY DEF Window
  <2> HIDE DEF v
  <2>4. Keeps(w, v)
    BY <2>3 DEF Keeps, Moded, PassBased, FreshBased
  <2> QED BY <1>2, <2>1, <2>2, <2>3, <2>4
<1> QED BY <1>1, <1>2

LEMMA CapturedKept ==
  ASSUME TypeInv, NEW r \in Reviews, job[r].at = "settling", Tidy(book),
         job[r].window <= book.opened
  PROVE  LET w == book.windows[job[r].window]
         IN  /\ Kept(book, CapturedBook(r)) /\ CapturedBook(r) \in Book
             /\ CapturedBook(r).current = book.current
             /\ w \in Window /\ CapturedBook(r).windows[job[r].window] = Reviewed(r)
             /\ (job[r].window = book.current /\ Answered(w) => Answered(Reviewed(r)))
                  => AnswerKept(book, CapturedBook(r))
<1> DEFINE n == job[r].window
           w == book.windows[n]
<1>1. book \in Book /\ n \in 1..MaxWindows
  BY BoundsAssumption DEF TypeInv, TypeOK, JobsOnWindows, Job
<1>2. w \in Window
  BY <1>1 DEF Book
<1>3. Reviewed(r) \in Window /\ Keeps(w, Reviewed(r))
  BY <1>2, CompletedType, CompletedFacts DEF Reviewed, TypeInv, TypeOK
<1>4. CapturedBook(r) = [book EXCEPT !.windows[n] = Reviewed(r)]
  BY DEF CapturedBook
<1> QED BY <1>1, <1>2, <1>3, <1>4, KeptPut, PutFacts

LEMMA ChargedKept ==
  ASSUME TypeInv, NEW r \in Reviews, NEW verdict \in {"pass", "needs_changes", "error"},
         NEW repeated \in BOOLEAN, job[r].window # 0, Tidy(book), job[r].window <= book.opened
  PROVE  LET c == Counted(r, verdict, repeated)
         IN  Kept(book, c) /\ AnswerKept(book, c) /\ c.current = book.current
<1> DEFINE n == job[r].window
           w == book.windows[n]
           v == Charged(w, r)
<1>1. book \in Book /\ n \in 1..MaxWindows
  BY BoundsAssumption DEF TypeInv, TypeOK, Job
<1>2. CASE verdict # "needs_changes" \/ AtCap(r, verdict, repeated)
  BY <1>1, <1>2, KeptSelf DEF Counted
<1>3. CASE ~(verdict # "needs_changes" \/ AtCap(r, verdict, repeated))
  <2>1. w \in Window
    BY <1>1 DEF Book
  <2>2. (IF r = "automatic" THEN w.cycles + 1 ELSE 0) \in 0..MaxCycles
    BY <1>3, <2>1, BoundsAssumption DEF AtCap, Window
  <2>3. Counted(r, verdict, repeated) = [book EXCEPT !.windows[n] = v]
    BY <1>1, <1>3 DEF Counted, Book
  <2> HIDE DEF w
  <2>4. v \in Window /\ Keeps(w, v) /\ (Answered(w) => Answered(v))
    BY <2>1, <2>2 DEF Charged, Window, Keeps, Moded, PassBased, FreshBased, Answered
  <2> HIDE DEF v
  <2> QED BY <1>1, <2>3, <2>4, KeptPut, PutFacts DEF w
<1> QED BY <1>2, <1>3

LEMMA CappedKept ==
  ASSUME TypeInv, NEW r \in Reviews, NEW verdict, NEW repeated \in BOOLEAN, job[r].window # 0,
         NEW b \in Book, Tidy(b), job[r].window <= b.opened
  PROVE  LET c == Capped(b, r, verdict, repeated)
         IN  Kept(b, c) /\ AnswerKept(b, c) /\ c.current = b.current
<1> DEFINE n == job[r].window
           w == b.windows[n]
           v == [w EXCEPT !.capped = TRUE]
<1>1. n \in 1..MaxWindows
  BY BoundsAssumption DEF TypeInv, TypeOK, Job
<1>2. w \in Window
  BY <1>1 DEF Book
<1>3. Capped(b, r, verdict, repeated) \in {b, [b EXCEPT !.windows[n] = v]}
  BY DEF Capped, Book
<1> HIDE DEF w
<1>4. v \in Window /\ Keeps(w, v) /\ (Answered(w) => Answered(v))
  BY <1>2 DEF Window, Keeps, Moded, PassBased, FreshBased, Answered
<1> HIDE DEF v
<1>5. n <= b.opened /\ Keeps(b.windows[n], v) /\ (Answered(b.windows[n]) => Answered(v))
  BY <1>4 DEF w
<1>6. CASE Capped(b, r, verdict, repeated) = b
  BY <1>6, KeptSelf
<1>7. CASE Capped(b, r, verdict, repeated) = [b EXCEPT !.windows[n] = v]
  <2> HIDE DEF n
  <2>1. LET c == [b EXCEPT !.windows[n] = v]
        IN  Kept(b, c) /\ AnswerKept(b, c) /\ c.current = b.current
    BY <1>1, <1>4, <1>5, KeptPut, PutFacts
  <2> QED BY <1>7, <2>1
<1> QED BY <1>3, <1>6, <1>7

-----------------------------------------------------------------------------
(***************************************************************************)
(* The invariant.  A verdict of the other review may enter the window      *)
(* while a response is under way: moved records it, and what the response  *)
(* starts from then says nothing.  Until that happens a review that ends   *)
(* on another window, or after its evidence was captured, finds an         *)
(* exchange that no verdict began.  A run, and an automatic review of the  *)
(* current window, find a completed response to a pass only if it left     *)
(* something to review.                                                    *)
(***************************************************************************)
WindowsInUse == \A r \in Reviews : job[r].window <= book.opened
AllModed == \A n \in 1..MaxWindows : Moded(book.windows[n])
ResponseToPass == ~moved /\ book.current # 0 => PassBased(Current(book))

UnderReview(r) ==
  job[r].at = "reviewing" \/ (job[r].at = "settling" /\ job[r].window # book.current)
FreshUnderReview ==
  ~moved /\ book.current # 0 /\ (\E r \in Reviews : UnderReview(r)) => FreshBased(Current(book))

Expected ==
  turn = "running" \/ (job["automatic"].at = "settling" /\ job["automatic"].window = book.current)
NothingUnanswered == book.current # 0 /\ Expected => Answered(Current(book))

GateInv ==
  /\ Tidy(book) /\ WindowsInUse /\ AllModed
  /\ ResponseToPass /\ FreshUnderReview /\ NothingUnanswered

(* The reviews go on, or end. *)
JobsKept ==
  \A r \in Reviews :
    /\ job'[r].window \in {0, job[r].window}
    /\ job'[r].at \in {"settling", "reviewing"} =>
         job'[r].at = job[r].at /\ job'[r].window = job[r].window

LEMMA JobsEnd ==
  ASSUME TypeInv, NEW r \in Reviews, NEW at \in {"deferring", "delivering", "releasing"},
         job' \in {[job EXCEPT ![r] = Idle], [job EXCEPT ![r] = [Idle EXCEPT !.at = at]]}
  PROVE  JobsKept
<1>1. /\ Idle.window = 0 /\ Idle.at = "idle"
      /\ [Idle EXCEPT !.at = at].window = 0 /\ [Idle EXCEPT !.at = at].at = at
  BY DEF Idle
<1>2. \A q \in Reviews : job'[q] \in {job[q], Idle, [Idle EXCEPT !.at = at]}
  BY DEF TypeInv, TypeOK
<1> QED BY <1>1, <1>2 DEF JobsKept

LEMMA JobsStay == job' = job => JobsKept
BY DEF JobsKept

(* What a step that brings no verdict leaves of the invariant. *)
LEMMA KeptWindows ==
  ASSUME TypeInv, TypeInv', GateInv, Kept(book, book'), moved => moved'
  PROVE  /\ Tidy(book') /\ AllModed' /\ ResponseToPass'
         /\ \A r \in Reviews :
              job'[r].window \in {0, job[r].window} => job'[r].window <= book'.opened
         /\ ~moved' /\ book'.current # 0
            /\ (book'.current = book.current => FreshBased(Current(book)))
              => FreshBased(Current(book'))
<1>1. book \in Book /\ book' \in Book /\ Tidy(book) /\ Tidy(book')
  BY DEF TypeInv, TypeOK, GateInv, Kept
<1>2. AllModed'
  BY DEF GateInv, AllModed, Kept, Keeps
<1>3. ASSUME book'.current # 0
      PROVE  /\ book'.current \in 1..MaxWindows
             /\ Keeps(book.windows[book'.current], book'.windows[book'.current])
             /\ book'.current = book.current \/ book.windows[book'.current] = EmptyWindow
  BY <1>1, <1>3, BookNumbers DEF Kept, Tidy
<1>4. ResponseToPass'
  BY <1>3, EmptyKeeps DEF GateInv, ResponseToPass, Keeps, Current
<1>5. \A r \in Reviews : job'[r].window \in {0, job[r].window} => job'[r].window <= book'.opened
  <2> SUFFICES ASSUME NEW r \in Reviews, job'[r].window \in {0, job[r].window}
               PROVE  job'[r].window <= book'.opened
    OBVIOUS
  <2>1. job[r].window \in 0..MaxWindows /\ job[r].window <= book.opened
    BY DEF TypeInv, TypeOK, Job, GateInv, WindowsInUse
  <2> QED BY <1>1, <2>1, BookNumbers DEF Kept
<1>6. ASSUME ~moved', book'.current # 0, book'.current = book.current => FreshBased(Current(book))
      PROVE  FreshBased(Current(book'))
  BY <1>3, <1>6, EmptyKeeps DEF Keeps, Current
<1> QED BY <1>1, <1>2, <1>4, <1>5, <1>6

LEMMA KeptGate ==
  ASSUME TypeInv, TypeInv', GateInv, Kept(book, book'), AnswerKept(book, book'),
         moved => moved', JobsKept, turn' = "running" => turn = "running"
  PROVE  GateInv'
<1>1. /\ Tidy(book') /\ AllModed' /\ ResponseToPass'
      /\ \A r \in Reviews : job'[r].window \in {0, job[r].window} => job'[r].window <= book'.opened
      /\ ~moved' /\ book'.current # 0 /\ (book'.current = book.current => FreshBased(Current(book)))
           => FreshBased(Current(book'))
  BY KeptWindows
<1>2. FreshUnderReview'
  <2> SUFFICES ASSUME ~moved', book'.current # 0, NEW r \in Reviews, UnderReview(r)',
                      book'.current = book.current
               PROVE  FreshBased(Current(book))
    BY <1>1 DEF FreshUnderReview
  <2>1. UnderReview(r)
    BY DEF UnderReview, JobsKept
  <2> QED BY <2>1 DEF GateInv, FreshUnderReview
<1>3. NothingUnanswered'
  <2> SUFFICES ASSUME book'.current # 0, Expected', book'.current = book.current
               PROVE  Answered(Current(book))
    BY DEF NothingUnanswered, AnswerKept
  <2>1. Expected
    BY DEF Expected, JobsKept, Reviews
  <2> QED BY <2>1 DEF GateInv, NothingUnanswered
<1> QED BY <1>1, <1>2, <1>3 DEF GateInv, Tidy, WindowsInUse, JobsKept

(* A step that leaves the books alone. *)
LEMMA SameGate ==
  ASSUME TypeInv, TypeInv', GateInv, book' = book,
         moved => moved', JobsKept, turn' = "running" => turn = "running"
  PROVE  GateInv'
<1>1. book \in Book /\ Tidy(book)
  BY DEF TypeInv, TypeOK, GateInv
<1>2. Kept(book, book') /\ AnswerKept(book, book')
  BY <1>1, KeptSelf
<1> QED BY <1>2, KeptGate

LEMMA ReleaseGate ==
  ASSUME TypeInv, TypeInv', GateInv, NEW r \in Reviews, NEW b \in Book, NEW sent, NEW stuck, NEW follows,
         Kept(book, b), AnswerKept(book, b), Release(r, b, sent, stuck, follows)
  PROVE  GateInv'
<1>1. book \in Book /\ Tidy(book) /\ book' \in Book
  BY DEF TypeInv, TypeOK, GateInv
<1>2. Kept(book, book') /\ AnswerKept(book, book')
  <2>1. CASE Held = {}
    BY <2>1 DEF Release
  <2>2. CASE Held # {}
    <3>1. book' = Remembered(b) /\ MayOpen(b) /\ Tidy(b)
      BY <2>2 DEF Release, Kept
    <3>2. Kept(b, book') /\ AnswerKept(b, book')
      BY <3>1, RememberedKept
    <3> QED BY <1>1, <3>2, KeptTwice
  <2> QED BY <2>1, <2>2
<1>3. JobsKept
  BY JobsEnd DEF Release
<1>4. turn' = turn /\ moved' = moved
  BY DEF Release, history
<1> QED BY <1>2, <1>3, <1>4, KeptGate

(***************************************************************************)
(* A verdict answers the exchange under way.  When the exchange is one     *)
(* that no verdict began, it starts from the baseline or, with none yet,   *)
(* from what this verdict saw.                                             *)
(***************************************************************************)
LEMMA AnswerFacts ==
  ASSUME NEW w \in Window, w.exchange \in Exchange, NEW saw \in Contents
  PROVE  LET y == [w.exchange EXCEPT !.base = IF @ = Nothing THEN saw ELSE @]
             u == [w EXCEPT !.exchange = y]
         IN  /\ u \in Window /\ u.exchange = y /\ y # NoExchange
             /\ y.base = IF w.exchange.base = Nothing THEN saw ELSE w.exchange.base
             /\ u.last = w.last /\ u.mode = w.mode /\ u.base = w.base /\ u.passed = w.passed
<1> DEFINE y == [w.exchange EXCEPT !.base = IF @ = Nothing THEN saw ELSE @]
           u == [w EXCEPT !.exchange = y]
<1>1. y \in Exchange /\ y.base = IF w.exchange.base = Nothing THEN saw ELSE w.exchange.base
  BY DEF Exchange, Basis
<1>2. y # NoExchange
  BY <1>1, NoExchangeAssumption DEF Exchange, Basis
<1> HIDE DEF y
<1>3. u \in Window /\ u.exchange = y
  BY <1>1 DEF Window
<1>4. u.last = w.last /\ u.mode = w.mode /\ u.base = w.base /\ u.passed = w.passed
  BY DEF Window
<1> QED BY <1>1, <1>2, <1>3, <1>4 DEF u, y

(* The window a response begins in, and what it holds. *)
LEMMA BegunWindow ==
  ASSUME NEW b \in Book, b.current # 0
  PROVE  LET g == Begun(b)
             w == Current(b)
             u == Current(g)
         IN  /\ g \in Book /\ g.current = b.current /\ g.opened = b.opened
             /\ u \in Window /\ u.exchange \in Exchange
             /\ u.last = w.last /\ u.mode = w.mode /\ u.base = w.base /\ u.passed = w.passed
             /\ IF w.exchange = NoExchange THEN u.exchange.base = Nothing
                ELSE u.exchange = w.exchange
             /\ \A n \in 1..MaxWindows : n # b.current => g.windows[n] = b.windows[n]
<1> DEFINE w == Current(b)
           x == [base |-> Nothing, called |-> FALSE, edited |-> FALSE]
           u == [w EXCEPT !.exchange = x]
<1>1. Opened(b) = b /\ w \in Window /\ b.current \in 1..MaxWindows
  BY WindowGet DEF Opened
<1>2. CASE w.exchange # NoExchange
  <2>1. Begun(b) = b /\ w.exchange \in Exchange
    BY <1>1, <1>2 DEF Begun, Window
  <2> QED BY <1>1, <1>2, <2>1
<1>3. CASE w.exchange = NoExchange
  <2>1. x \in Exchange /\ x.base = Nothing
    BY DEF Exchange, Basis
  <2> HIDE DEF x
  <2>2. /\ u \in Window /\ u.exchange = x
        /\ u.last = w.last /\ u.mode = w.mode /\ u.base = w.base /\ u.passed = w.passed
    <3> HIDE DEF w
    <3> QED BY <1>1, <2>1 DEF Window
  <2>3. Begun(b) = [b EXCEPT !.windows[b.current] = u]
    BY <1>1, <1>3 DEF Begun, Current, Book, x
  <2> HIDE DEF u
  <2>4. /\ Begun(b) \in Book /\ Begun(b).current = b.current /\ Begun(b).opened = b.opened
        /\ \A n \in 1..MaxWindows : Begun(b).windows[n] = IF n = b.current THEN u ELSE b.windows[n]
    BY <1>1, <2>2, <2>3, PutFacts
  <2>5. Current(Begun(b)) = u
    BY <1>1, <2>4 DEF Current
  <2> QED BY <1>3, <2>1, <2>2, <2>4, <2>5
<1> QED BY <1>2, <1>3

LEMMA RecordedFacts ==
  ASSUME NEW b \in Book, MayOpen(b), Tidy(b),
         NEW verdict \in {"pass", "needs_changes", "error"},
         NEW mode \in {"observation", "correction", "deferred"}, NEW saw \in Contents,
         mode = "observation" <=> verdict = "pass"
  PROVE  LET d == Recorded(b, verdict, mode, saw)
         IN  /\ d \in Book /\ Tidy(d) /\ b.opened <= d.opened
             /\ d.current = Opened(b).current /\ d.current # 0
             /\ \A n \in 1..MaxWindows : Moded(b.windows[n]) => Moded(d.windows[n])
             /\ (b.current # 0 => FreshBased(Current(b))) => PassBased(Current(d))
             /\ Current(d).exchange # NoExchange
<1> DEFINE r == IF b.current = 0 THEN b
                ELSE [b EXCEPT !.windows[b.current] = Judged(@, verdict, mode, saw)]
           o == Opened(r)
<1>1. /\ o \in Book /\ o.current # 0 /\ o.current = Opened(b).current
      /\ Tidy(o) /\ b.opened <= o.opened
      /\ \A n \in 1..MaxWindows : Moded(b.windows[n]) => Moded(o.windows[n])
      /\ b.current # 0 =>
           Current(o).exchange = Current(b).exchange /\ Current(o).base = Current(b).base
      /\ Current(o).last = "pass" => b.current # 0 /\ saw \in Current(o).passed
  <2>1. CASE b.current = 0
    <3>1. o = Opened(b)
      BY <2>1
    <3>2. Kept(b, o) /\ o \in Book /\ o.current # 0
      BY <3>1, OpenedKept, OpenedType
    <3>3. o.current = b.opened + 1 /\ o.windows = b.windows
      BY <2>1, <3>1 DEF Opened, Book
    <3>4. Current(o) = EmptyWindow
      BY <3>2, <3>3, BookNumbers DEF Current, Tidy
    <3> QED BY <2>1, <3>1, <3>2, <3>4 DEF Kept, Keeps, EmptyWindow
  <2>2. CASE b.current # 0
    <3> DEFINE w == Current(b)
               v == Judged(w, verdict, mode, saw)
    <3>1. w \in Window /\ b.current \in 1..MaxWindows
      BY <2>2, WindowGet
    <3>2. /\ v \in Window /\ v.base = w.base /\ v.exchange = w.exchange
          /\ v.last = verdict /\ (verdict = "pass" => saw \in v.passed) /\ Moded(v)
      <4>1. w \in Window
        BY <3>1
      <4> HIDE DEF w
      <4>2. v \in Window
        BY <4>1, JudgedType
      <4>3. /\ v.base = w.base /\ v.exchange = w.exchange
            /\ v.last = verdict /\ v.mode = mode /\ (verdict = "pass" => saw \in v.passed)
        BY <4>1 DEF Judged, Window
      <4> HIDE DEF v
      <4>4. Moded(v)
        BY <4>3 DEF Moded
      <4> QED BY <4>2, <4>3, <4>4
    <3>3. r = [b EXCEPT !.windows[b.current] = v]
      BY <2>2, <3>1 DEF Current, Book
    <3> HIDE DEF v, r
    <3>4. /\ r \in Book /\ r.current = b.current /\ r.opened = b.opened
          /\ \A n \in 1..MaxWindows : r.windows[n] = IF n = b.current THEN v ELSE b.windows[n]
      BY <3>1, <3>2, <3>3, PutFacts
    <3>5. o = r /\ Opened(b) = b
      BY <2>2, <3>4 DEF Opened
    <3>6. Current(o) = v
      BY <3>1, <3>4, <3>5 DEF Current
    <3>7. Tidy(o) /\ b.opened <= o.opened
      BY <3>1, <3>4, <3>5, BookNumbers DEF Tidy
    <3> HIDE DEF o
    <3> QED BY <2>2, <3>2, <3>4, <3>5, <3>6, <3>7
  <2> QED BY <2>1, <2>2
<1>2. Begun(r) = Begun(o)
  BY <1>1 DEF Begun, Opened
<1> DEFINE e == Begun(o)
           y == [Current(e).exchange EXCEPT !.base = IF @ = Nothing THEN saw ELSE @]
           u == [Current(e) EXCEPT !.exchange = y]
           d == Recorded(b, verdict, mode, saw)
<1>3. d = [e EXCEPT !.windows[e.current].exchange.base = IF @ = Nothing THEN saw ELSE @]
  <2> DEFINE f == Begun(r)
  <2>1. d = [f EXCEPT !.windows[f.current].exchange.base = IF @ = Nothing THEN saw ELSE @]
    BY DEF Recorded
  <2>2. f = e
    BY <1>2
  <2> HIDE DEF d, e, f
  <2> QED BY <2>1, <2>2
<1> HIDE DEF r, o, d
<1>4. /\ e \in Book /\ e.current = o.current /\ e.opened = o.opened
      /\ Current(e) \in Window /\ Current(e).exchange \in Exchange
      /\ Current(e).last = Current(o).last /\ Current(e).mode = Current(o).mode
      /\ Current(e).base = Current(o).base /\ Current(e).passed = Current(o).passed
      /\ IF Current(o).exchange = NoExchange THEN Current(e).exchange.base = Nothing
         ELSE Current(e).exchange = Current(o).exchange
      /\ \A n \in 1..MaxWindows : n # o.current => e.windows[n] = o.windows[n]
  BY <1>1, BegunWindow
<1>5. e.current \in 1..MaxWindows
  BY <1>1, <1>4, WindowGet
<1> HIDE DEF e
<1>6. d = [e EXCEPT !.windows[e.current] = u]
  BY <1>3, <1>4, <1>5 DEF Current, Book, Window, Exchange
<1>7. /\ u \in Window /\ u.exchange = y /\ y # NoExchange
      /\ y.base = IF Current(e).exchange.base = Nothing THEN saw ELSE Current(e).exchange.base
      /\ u.last = Current(o).last /\ u.mode = Current(o).mode
      /\ u.base = Current(o).base /\ u.passed = Current(o).passed
  BY <1>4, AnswerFacts
<1> HIDE DEF u, y
<1>8. /\ d \in Book /\ d.current = o.current /\ d.opened = o.opened
      /\ \A n \in 1..MaxWindows : d.windows[n] = IF n = o.current THEN u ELSE e.windows[n]
  BY <1>4, <1>5, <1>6, <1>7, PutFacts
<1>9. Current(d) = u
  BY <1>4, <1>5, <1>8 DEF Current
<1>10. Tidy(d)
  BY <1>1, <1>4, <1>8, BookNumbers DEF Tidy
<1>11. \A n \in 1..MaxWindows : Moded(b.windows[n]) => Moded(d.windows[n])
  <2>1. Moded(o.windows[o.current]) => Moded(u)
    BY <1>7 DEF Moded, Current
  <2>2. \A n \in 1..MaxWindows : Moded(o.windows[n]) => Moded(d.windows[n])
    BY <1>4, <1>8, <2>1
  <2> QED BY <1>1, <2>2
<1>12. ASSUME b.current # 0 => FreshBased(Current(b))
       PROVE  PassBased(u)
  <2> SUFFICES ASSUME u.last = "pass"
               PROVE  y.base \in {Nothing, u.base} \cup u.passed
    BY <1>7 DEF PassBased
  <2>1. b.current # 0 /\ saw \in u.passed
    BY <1>1, <1>7
  <2>2. /\ Current(o).exchange = Current(b).exchange /\ u.base = Current(b).base
        /\ FreshBased(Current(b))
    BY <1>1, <1>7, <1>12, <2>1
  <2>3. Current(e).exchange.base \in {Nothing, u.base}
    BY <1>4, <2>2 DEF FreshBased
  <2>4. y.base \in {saw, Current(e).exchange.base} /\ y.base # Nothing
    BY <1>7, NothingAssumption
  <2> QED BY <2>1, <2>3, <2>4
<1> QED BY <1>1, <1>7, <1>8, <1>9, <1>10, <1>11, <1>12 DEF d

-----------------------------------------------------------------------------
(* Each step keeps the invariant. *)

(* A verdict: the response it asks for has not started yet. *)
LEMMA VerdictGate ==
  ASSUME TypeInv, TypeInv', GateInv, NEW r \in Reviews,
         NEW verdict \in {"pass", "needs_changes", "error"}, NEW repeated \in BOOLEAN,
         Verdict(r, verdict, repeated), MayOpen(book),
         LET d == Recorded(Counted(r, verdict, repeated), verdict,
                           ResponseMode(r, verdict, repeated), job[r].saw)
         IN  book' \in {d, Capped(d, r, verdict, repeated)},
         NEW at \in {"deferring", "delivering", "releasing"},
         job' \in {[job EXCEPT ![r] = Idle], [job EXCEPT ![r] = [Idle EXCEPT !.at = at]]},
         moved' = (moved \/ Reviewing(Reviews \ {r}))
  PROVE  GateInv'
<1> DEFINE c == Counted(r, verdict, repeated)
           mode == ResponseMode(r, verdict, repeated)
           d == Recorded(c, verdict, mode, job[r].saw)
<1>1. /\ job[r].at = "reviewing" /\ job[r].window # 0 /\ job[r].saw \in Contents
      /\ book \in Book /\ Tidy(book) /\ job[r].window <= book.opened
  BY DEF TypeInv, TypeOK, JobsOnWindows, Verdict, GateInv, WindowsInUse
<1>2. /\ mode \in {"observation", "correction", "deferred"}
      /\ mode = "observation" <=> verdict = "pass"
  BY DEF ResponseMode, AtCap
<1>3. c \in Book /\ MayOpen(c) /\ Kept(book, c) /\ c.current = book.current
  BY <1>1, CountedType, ChargedKept
<1> HIDE DEF c, mode
<1>4. /\ d \in Book /\ Tidy(d) /\ c.opened <= d.opened /\ d.current # 0
      /\ \A n \in 1..MaxWindows : Moded(c.windows[n]) => Moded(d.windows[n])
      /\ (c.current # 0 => FreshBased(Current(c))) => PassBased(Current(d))
      /\ Current(d).exchange # NoExchange
  BY <1>1, <1>2, <1>3, RecordedFacts DEF Kept
<1> HIDE DEF d
<1>5. /\ Kept(d, book') /\ AnswerKept(d, book') /\ book'.current = d.current
  <2>1. job[r].window <= d.opened
    <3>1. job[r].window \in 0..MaxWindows
      BY DEF TypeInv, TypeOK, Job
    <3> QED BY <1>1, <1>3, <1>4, <3>1, BookNumbers DEF Kept
  <2>2. CASE book' = d
    BY <1>4, <2>2, KeptSelf
  <2>3. CASE book' = Capped(d, r, verdict, repeated)
    BY <1>1, <1>4, <2>1, <2>3, CappedKept
  <2>4. book' \in {d, Capped(d, r, verdict, repeated)}
    BY DEF c, mode, d
  <2> QED BY <2>2, <2>3, <2>4
<1>6. book' \in Book /\ book'.current \in 1..MaxWindows
  BY <1>4, <1>5, WindowGet DEF TypeInv, TypeOK
<1>7. Keeps(Current(d), Current(book'))
  BY <1>5, <1>6 DEF Kept, Current
<1>8. JobsKept /\ Tidy(book')
  BY <1>5, JobsEnd DEF Kept
<1>9. WindowsInUse'
  <2> SUFFICES ASSUME NEW q \in Reviews PROVE job'[q].window <= book'.opened
    BY DEF WindowsInUse
  <2>1. job[q].window \in 0..MaxWindows /\ job[q].window <= book.opened
    BY DEF TypeInv, TypeOK, Job, GateInv, WindowsInUse
  <2>2. book.opened <= book'.opened /\ 0 <= book'.opened
    BY <1>1, <1>3, <1>4, <1>5, <1>6, BookNumbers DEF Kept
  <2> QED BY <1>1, <1>6, <1>8, <2>1, <2>2, BookNumbers DEF JobsKept
<1>10. AllModed'
  BY <1>3, <1>4, <1>5 DEF GateInv, AllModed, Kept, Keeps
<1>11. ResponseToPass'
  <2> SUFFICES ASSUME ~moved' PROVE PassBased(Current(book'))
    BY DEF ResponseToPass
  <2>1. book.current # 0 => FreshBased(Current(book))
    BY <1>1 DEF GateInv, FreshUnderReview, UnderReview
  <2>2. c.current # 0 => FreshBased(Current(c))
    <3> SUFFICES ASSUME c.current # 0 PROVE FreshBased(Current(c))
      OBVIOUS
    <3>1. c.current \in 1..MaxWindows
      BY <1>3, WindowGet
    <3> QED BY <1>3, <2>1, <3>1 DEF Kept, Keeps, Current
  <2> QED BY <1>4, <1>7, <2>2 DEF Keeps
<1>12. FreshUnderReview'
  <2> SUFFICES ASSUME ~moved', NEW q \in Reviews, UnderReview(q)' PROVE FALSE
    BY DEF FreshUnderReview
  <2>1. job'[q].at \in {"settling", "reviewing"}
    BY DEF UnderReview
  <2>2. job[q].at \in {"settling", "reviewing"}
    BY <1>8, <2>1 DEF JobsKept
  <2>3. q # r
    <3>1. Idle.at = "idle" /\ [Idle EXCEPT !.at = at].at = at
      BY DEF Idle
    <3> QED BY <2>1, <3>1 DEF TypeInv, TypeOK
  <2> QED BY <2>2, <2>3 DEF Reviewing
<1>13. NothingUnanswered'
  <2>1. Answered(Current(d))
    BY <1>4 DEF Answered
  <2> QED BY <1>5, <2>1 DEF NothingUnanswered, AnswerKept
<1> QED BY <1>8, <1>9, <1>10, <1>11, <1>12, <1>13 DEF GateInv, Tidy

(* What is left of a response to a pass when its review is skipped without *)
(* a close, or starts.                                                     *)
LEMMA SkippedAnswered ==
  ASSUME NoReview("automatic"), ~Closes("automatic")
  PROVE  Answered(Reviewed("automatic"))
BY DEF Closes, StandingPass, PassResponse, Edited, Answered

LEMMA CapturedAnswered ==
  ASSUME NEW r \in Reviews, ~NoReview(r), NEW w \in Window, w = book.windows[job[r].window],
         Moded(w), Answered(w)
  PROVE  Answered(Reviewed(r))
<1> DEFINE v == Reviewed(r)
<1>1. /\ v.exchange = NoExchange /\ v.last = w.last /\ v.mode = w.mode
      /\ w.exchange = NoExchange => v = w
  BY CompletedFacts DEF Reviewed
<1> SUFFICES ASSUME v.last = "pass", ~v.settled.asked, ~v.settled.edited,
                    ~v.settled.changed, ~v.settled.called
             PROVE  FALSE
  BY DEF Answered
<1>2. r = "command"
  BY DEF NoReview, StandingPass, PassResponse, Edited, Reviews
<1>3. v.mode = "observation" /\ ~Edited(r)
  BY <1>1, <1>2 DEF Moded, Edited, PassResponse
<1>4. w.exchange = NoExchange
  BY <1>3 DEF NoReview, UnchangedResponse
<1> QED BY <1>1, <1>4 DEF Answered

LEMMA CaptureGate ==
  ASSUME TypeInv, TypeInv', GateInv, NEW r \in Reviews, Capture(r)
  PROVE  GateInv'
<1> DEFINE n == job[r].window
           w == book.windows[n]
<1>1. /\ book \in Book /\ Tidy(book) /\ n \in 1..MaxWindows /\ n <= book.opened
      /\ job[r].at = "settling" /\ job \in [Reviews -> Job]
  BY BoundsAssumption DEF Capture, TypeInv, TypeOK, JobsOnWindows, Job, GateInv, WindowsInUse
<1>2. /\ Kept(book, book') /\ book'.current = book.current
      /\ w \in Window /\ book'.windows[n] = Reviewed(r)
      /\ (n = book.current /\ Answered(w) => Answered(Reviewed(r))) => AnswerKept(book, book')
  BY <1>1, CapturedKept DEF Capture
<1>3. Moded(w)
  BY <1>1 DEF GateInv, AllModed
<1>4. AnswerKept(book, book')
  BY <1>2, <1>3, CapturedAnswered DEF Capture
<1>5. \A q \in Reviews : /\ job'[q].window = job[q].window
                         /\ job'[q].at = IF q = r THEN "reviewing" ELSE job[q].at
  BY <1>1 DEF Capture, Job
<1>6. moved' = moved /\ turn' = turn
  BY DEF Capture, model, history
<1>7. /\ Tidy(book') /\ AllModed' /\ ResponseToPass' /\ WindowsInUse'
      /\ ~moved' /\ book'.current # 0 /\ (book'.current = book.current => FreshBased(Current(book)))
           => FreshBased(Current(book'))
  BY <1>2, <1>5, <1>6, KeptWindows DEF WindowsInUse
<1>8. FreshUnderReview'
  <2> SUFFICES ASSUME ~moved, book.current # 0, NEW q \in Reviews, UnderReview(q)'
               PROVE  FreshBased(Current(book'))
    BY <1>2, <1>6 DEF FreshUnderReview
  <2>1. CASE n = book.current
    <3>1. Current(book') = Reviewed(r)
      BY <1>2, <2>1 DEF Current
    <3> QED BY <1>2, <3>1, CompletedFacts DEF Reviewed, FreshBased
  <2>2. CASE n # book.current
    <3>1. UnderReview(r)
      BY <1>1, <2>2 DEF UnderReview
    <3>2. FreshBased(Current(book))
      BY <3>1 DEF GateInv, FreshUnderReview
    <3> QED BY <1>2, <1>6, <1>7, <3>2
  <2> QED BY <2>1, <2>2
<1>9. NothingUnanswered'
  <2> SUFFICES ASSUME book'.current # 0, Expected' PROVE Answered(Current(book))
    BY <1>2, <1>4 DEF NothingUnanswered, AnswerKept
  <2>1. Expected
    BY <1>2, <1>5, <1>6 DEF Expected, Reviews
  <2> QED BY <1>2, <2>1 DEF GateInv, NothingUnanswered
<1> QED BY <1>7, <1>8, <1>9 DEF GateInv, Tidy

LEMMA ProgressGate ==
  ASSUME TypeInv, TypeInv', GateInv, NEW r \in Reviews, Progress(r)
  PROVE  GateInv'
<1>1. book \in Book /\ Tidy(book) /\ job[r].window <= book.opened
  BY DEF TypeInv, TypeOK, GateInv, WindowsInUse
<1>2. CASE Capture(r)
  BY <1>2, CaptureGate
<1>3. CASE DeliverFails(r)
  <2>1. JobsKept /\ book' = book /\ turn' = turn /\ moved' = moved
    BY <1>3, JobsEnd DEF DeliverFails, model
  <2> QED BY <2>1, SameGate
<1>4. ASSUME NEW stuck \in AtMostOne, NEW sent \in SUBSET (Queued \ stuck),
             SkipReview(r, sent, stuck)
      PROVE  GateInv'
  <2> DEFINE c == CapturedBook(r)
             b == IF Closes(r) THEN Closed(c) ELSE c
  <2>1. /\ c \in Book /\ Kept(book, c) /\ c.current = book.current
        /\ Answered(Reviewed(r)) => AnswerKept(book, c)
    BY <1>1, <1>4, CapturedKept DEF SkipReview
  <2>2. b \in Book /\ Kept(book, b) /\ AnswerKept(book, b)
    <3>1. CASE Closes(r)
      BY <1>1, <2>1, <3>1, ClosedKept, ClosedType, KeptTwice DEF Kept
    <3>2. CASE ~Closes(r)
      <4>1. r = "automatic"
        BY <3>2 DEF Closes, Reviews
      <4> QED BY <1>4, <2>1, <3>2, <4>1, SkippedAnswered DEF SkipReview
    <3> QED BY <3>1, <3>2
  <2>3. Release(r, b, sent, stuck, FALSE)
    BY <1>4 DEF SkipReview
  <2> HIDE DEF b
  <2> QED BY <2>2, <2>3, ReleaseGate
<1>5. ASSUME NEW stuck \in AtMostOne, NEW sent \in SUBSET (Queued \ stuck), NEW delivered \in BOOLEAN,
             Deliver(r, sent, stuck, delivered)
      PROVE  GateInv'
  BY <1>1, <1>5, KeptSelf, ReleaseGate DEF Deliver
<1>6. ASSUME NEW verdict \in {"pass", "needs_changes", "error"}, NEW repeated \in BOOLEAN,
             Decide(r, verdict, repeated)
      PROVE  GateInv'
  BY <1>6, VerdictGate DEF Decide
<1>7. ASSUME NEW verdict \in {"pass", "needs_changes", "error"}, NEW repeated \in BOOLEAN,
             NEW recorded \in BOOLEAN, DecideFails(r, verdict, repeated, recorded)
      PROVE  GateInv'
  <2>1. CASE recorded
    BY <1>7, <2>1, VerdictGate DEF DecideFails
  <2>2. CASE ~recorded
    <3> DEFINE c == Counted(r, verdict, repeated)
    <3>1. job[r].window # 0
      BY <1>7 DEF DecideFails, Verdict, TypeInv, JobsOnWindows
    <3>2. Kept(book, c) /\ AnswerKept(book, c) /\ Kept(book, book) /\ AnswerKept(book, book)
      BY <1>1, <3>1, ChargedKept, KeptSelf
    <3>3. book' \in {c, book}
      BY <1>7, <2>2 DEF DecideFails
    <3>4. JobsKept /\ turn' = turn /\ (moved => moved')
      BY <1>7, JobsEnd DEF DecideFails, model
    <3> HIDE DEF c
    <3> QED BY <3>2, <3>3, <3>4, KeptGate
  <2> QED BY <2>1, <2>2
<1> QED BY <1>2, <1>3, <1>4, <1>5, <1>6, <1>7 DEF Progress

LEMMA InputGate ==
  ASSUME TypeInv, TypeInv', GateInv, NEW i \in Inputs, HoldInput(i) \/ TakeInput(i)
  PROVE  GateInv'
<1>1. book \in Book /\ book' \in Book /\ Tidy(book)
  BY DEF TypeInv, TypeOK, GateInv
<1>2. CASE HoldInput(i)
  BY <1>2, JobsStay, SameGate DEF HoldInput, model, history
<1>3. CASE TakeInput(i)
  <2> DEFINE b == Retired(book)
  <2>1. b \in Book /\ Kept(book, b) /\ AnswerKept(book, b)
    BY <1>1, KeptSelf, ClosedKept, ClosedType DEF Retired
  <2>2. book' = Remembered(b) /\ MayOpen(b) /\ Tidy(b)
    BY <1>3, <2>1 DEF TakeInput, Kept
  <2> HIDE DEF b
  <2>3. Kept(b, book') /\ AnswerKept(b, book')
    BY <2>1, <2>2, RememberedKept
  <2>4. Kept(book, book') /\ AnswerKept(book, book')
    BY <1>1, <2>1, <2>3, KeptTwice
  <2>5. JobsKept /\ turn' = turn /\ moved' = moved
    BY <1>3, JobsStay DEF TakeInput, history
  <2> QED BY <2>4, <2>5, KeptGate
<1> QED BY <1>2, <1>3

LEMMA RunGate ==
  ASSUME TypeInv, TypeInv', GateInv,
         \/ Trigger \/ StartRun \/ TakeMessage \/ StartBackground
         \/ \E s \in BOOLEAN : EndBackground(s)
         \/ \E c \in Contents : Call(c) \/ Drift(c)
  PROVE  GateInv'
<1>0. book \in Book /\ book' \in Book /\ Tidy(book) /\ workspace \in Contents
  BY DEF TypeInv, TypeOK, GateInv
<1>1. CASE Trigger \/ StartBackground \/ (\E s \in BOOLEAN : EndBackground(s)) \/ \E c \in Contents : Drift(c)
  BY <1>1, JobsStay, SameGate DEF Trigger, StartBackground, EndBackground, Drift, model, history
<1>2. CASE StartRun
  <2>1. Kept(book, book') /\ Current(book').exchange # NoExchange
    BY <1>0, <1>2, ArmedKept DEF StartRun
  <2>2. job' = job /\ moved' = moved
    BY <1>2 DEF StartRun, history
  <2>3. /\ Tidy(book') /\ AllModed' /\ ResponseToPass'
        /\ \A r \in Reviews :
             job'[r].window \in {0, job[r].window} => job'[r].window <= book'.opened
        /\ ~moved' /\ book'.current # 0
           /\ (book'.current = book.current => FreshBased(Current(book)))
             => FreshBased(Current(book'))
    BY <2>1, <2>2, KeptWindows
  <2>4. FreshUnderReview'
    <3> SUFFICES ASSUME ~moved', book'.current # 0, NEW r \in Reviews, UnderReview(r)',
                        book'.current = book.current
                 PROVE  FreshBased(Current(book))
      BY <2>3 DEF FreshUnderReview
    <3>1. UnderReview(r)
      BY <2>2 DEF UnderReview
    <3> QED BY <2>2, <3>1 DEF GateInv, FreshUnderReview
  <2>5. NothingUnanswered'
    BY <2>1 DEF NothingUnanswered, Answered
  <2> QED BY <2>2, <2>3, <2>4, <2>5 DEF GateInv, Tidy, WindowsInUse
<1>3. CASE TakeMessage
  <2>1. Kept(book, book') /\ AnswerKept(book, book')
    BY <1>0, <1>3, ArmedKept, KeptSelf DEF TakeMessage
  <2> QED BY <1>3, <2>1, JobsStay, KeptGate DEF TakeMessage, history
<1>4. ASSUME NEW c \in Contents, Call(c)
      PROVE  GateInv'
  <2>1. Kept(book, book') /\ AnswerKept(book, book')
    <3>1. CASE book.current = 0 \/ Current(book).exchange = NoExchange
      BY <1>0, <1>4, <3>1, KeptSelf DEF Call
    <3>2. CASE ~(book.current = 0 \/ Current(book).exchange = NoExchange)
      <4> DEFINE w == Called(Current(book), c # workspace)
      <4>1. /\ Current(book) \in Window
            /\ book.current \in 1..MaxWindows /\ book.current <= book.opened
        BY <1>0, <3>2, WindowGet DEF Tidy
      <4>2. /\ w \in Window /\ Keeps(book.windows[book.current], w)
            /\ Answered(book.windows[book.current]) => Answered(w)
        BY <3>2, <4>1, CalledType, CalledKeeps DEF Current
      <4>3. book' = [book EXCEPT !.windows[book.current] = w]
        BY <1>0, <1>4, <3>2, <4>1 DEF Call, Current, Book
      <4> HIDE DEF w
      <4> QED BY <1>0, <4>1, <4>2, <4>3, KeptPut
    <3> QED BY <3>1, <3>2
  <2> QED BY <1>4, <2>1, JobsStay, KeptGate DEF Call, model, history
<1> QED BY <1>1, <1>2, <1>3, <1>4

(* A review that starts on the current window finds it as a run left it. *)
LEMMA StartGate ==
  ASSUME TypeInv, TypeInv', GateInv, NEW r \in Reviews, book.current # 0,
         job' = [job EXCEPT ![r] = [Idle EXCEPT !.at = "settling", !.window = book.current]],
         book' = book, moved' = moved, turn' = "running" => turn = "running",
         r = "automatic" => turn = "running"
  PROVE  GateInv'
<1>1. \A q \in Reviews : IF q = r THEN job'[q].at = "settling" /\ job'[q].window = book.current
                         ELSE job'[q] = job[q]
  BY DEF TypeInv, TypeOK, Idle
<1>2. WindowsInUse'
  BY <1>1 DEF GateInv, WindowsInUse, Tidy
<1>3. FreshUnderReview'
  BY <1>1 DEF GateInv, FreshUnderReview, UnderReview
<1>4. NothingUnanswered'
  BY <1>1 DEF GateInv, NothingUnanswered, Expected, Reviews
<1> QED BY <1>2, <1>3, <1>4 DEF GateInv, Tidy, AllModed, ResponseToPass

LEMMA SettleGate ==
  ASSUME TypeInv, TypeInv', GateInv, Settle
  PROVE  GateInv'
<1>0. book \in Book /\ book' \in Book /\ Tidy(book) /\ "automatic" \in Reviews
  BY DEF TypeInv, TypeOK, GateInv, Reviews
<1>1. CASE SettleNothing \/ SupersedeReview
  BY <1>1, JobsStay, SameGate DEF SettleNothing, SupersedeReview, EndTurn, flags, history
<1>2. CASE SettleUnbased
  <2>1. Kept(book, book') /\ AnswerKept(book, book')
    BY <1>0, <1>2, ClosedKept DEF SettleUnbased
  <2> QED BY <1>2, <2>1, JobsStay, KeptGate DEF SettleUnbased, EndTurn, history
<1>3. CASE CollectPaused
  <2> DEFINE w == Current(book)
             v == Completed(w)
  <2>1. w \in Window /\ book.current \in 1..MaxWindows /\ book.current <= book.opened
    BY <1>0, <1>3, WindowGet DEF CollectPaused, HasBaseline, Tidy
  <2>2. v \in Window
    BY <2>1, CompletedType DEF TypeInv, TypeOK
  <2>3. Keeps(w, v)
    <3> HIDE DEF w
    <3> QED BY <2>1, CompletedFacts
  <2>4. book' = [book EXCEPT !.windows[book.current] = v]
    BY <1>3, <2>1 DEF CollectPaused, Current, Book
  <2>5. Keeps(book.windows[book.current], v)
    BY <2>3 DEF Current
  <2> HIDE DEF v
  <2>6. Kept(book, book') /\ book'.current = book.current
    BY <1>0, <2>1, <2>2, <2>4, <2>5, KeptPut, PutFacts
  <2>7. job' = job /\ moved' = moved /\ turn' = "idle" /\ job["automatic"].at = "idle"
    BY <1>3 DEF CollectPaused, EndTurn, history, Idle
  <2>8. /\ Tidy(book') /\ AllModed' /\ ResponseToPass'
        /\ \A r \in Reviews :
             job'[r].window \in {0, job[r].window} => job'[r].window <= book'.opened
        /\ ~moved' /\ book'.current # 0
           /\ (book'.current = book.current => FreshBased(Current(book)))
             => FreshBased(Current(book'))
    BY <2>6, <2>7, KeptWindows
  <2>9. FreshUnderReview'
    BY <2>6, <2>7, <2>8 DEF GateInv, FreshUnderReview, UnderReview
  <2>10. NothingUnanswered'
    BY <2>7 DEF NothingUnanswered, Expected
  <2> QED BY <2>7, <2>8, <2>9, <2>10 DEF GateInv, Tidy, WindowsInUse
<1>4. CASE BeginReview
  BY <1>0, <1>4, StartGate DEF BeginReview, EndTurn, HasBaseline, Automatic, history
<1>5. ASSUME NEW aborted \in BOOLEAN, DeferReview(aborted)
      PROVE  GateInv'
  <2>1. JobsKept
    BY <1>0, <1>5, JobsEnd DEF DeferReview, Automatic
  <2> QED BY <1>5, <2>1, SameGate DEF DeferReview, EndTurn, history
<1> QED BY <1>1, <1>2, <1>3, <1>4, <1>5 DEF Settle

LEMMA AutomaticGate ==
  ASSUME TypeInv, TypeInv', GateInv, AutomaticStep
  PROVE  GateInv'
<1>0. book \in Book /\ Tidy(book) /\ "automatic" \in Reviews
  BY DEF TypeInv, TypeOK, GateInv, Reviews
<1>1. CASE Progress("automatic")
  BY <1>0, <1>1, ProgressGate
<1>2. CASE DrainFails \/ FinishSettlement \/ AbortAutomatic
  <2>1. JobsKept
    BY <1>0, <1>2, JobsEnd DEF DrainFails, FinishSettlement, AbortAutomatic, Automatic
  <2> QED BY <1>2, <2>1, SameGate DEF DrainFails, FinishSettlement, AbortAutomatic, model, history
<1>3. ASSUME NEW stuck \in AtMostOne, NEW sent \in SUBSET (Queued \ stuck), ReviewFails(sent, stuck)
      PROVE  GateInv'
  BY <1>0, <1>3, KeptSelf, ReleaseGate DEF ReviewFails
<1> QED BY <1>1, <1>2, <1>3 DEF AutomaticStep

LEMMA ContinueGate ==
  ASSUME TypeInv, TypeInv', GateInv, ReviewContinue
  PROVE  GateInv'
<1> DEFINE g == Begun(book)
           w == Current(g)
           v == Continued(w)
           x == [w.exchange EXCEPT !.base = workspace]
<1>1. book \in Book /\ Tidy(book) /\ book.current # 0 /\ workspace \in Contents
  BY DEF TypeInv, TypeOK, GateInv, ReviewContinue, HasBaseline
<1>2. /\ g \in Book /\ g.current = book.current /\ g.opened = book.opened
      /\ w \in Window /\ w.exchange \in Exchange
      /\ w.last = Current(book).last /\ w.mode = Current(book).mode
      /\ \A n \in 1..MaxWindows : n # book.current => g.windows[n] = book.windows[n]
  BY <1>1, BegunWindow
<1>3. book.current \in 1..MaxWindows
  BY <1>1, WindowGet
<1> HIDE DEF g, w
<1>4. v \in Window
  BY <1>1, <1>2, ContinuedType
<1>5. x \in Exchange /\ x # NoExchange
  BY <1>1, <1>2, NoExchangeAssumption DEF Exchange, Basis
<1>6. /\ v.exchange = x /\ v.last = w.last
      /\ v.mode = IF w.last = "needs_changes" THEN "correction" ELSE w.mode
  BY <1>2 DEF Continued, Window
<1> HIDE DEF x
<1>7. book' = [g EXCEPT !.windows[g.current] = v]
  BY DEF ReviewContinue, g, w
<1> HIDE DEF v
<1>8. /\ book'.current = book.current /\ book'.opened = book.opened
      /\ \A n \in 1..MaxWindows : book'.windows[n] = IF n = book.current THEN v ELSE book.windows[n]
  BY <1>2, <1>3, <1>4, <1>7, PutFacts
<1>9. Current(book') = v
  BY <1>3, <1>8 DEF Current
<1>10. Moded(Current(book)) => Moded(v)
  BY <1>2, <1>6 DEF Moded
<1>11. AllModed'
  BY <1>3, <1>8, <1>10 DEF GateInv, AllModed, Current
<1>12. Tidy(book') /\ WindowsInUse'
  BY <1>1, <1>3, <1>8, BookNumbers DEF ReviewContinue, GateInv, Tidy, WindowsInUse
<1>13. ResponseToPass'
  BY <1>2, <1>6, <1>9 DEF ReviewContinue, ResponseToPass, PassBased
<1>14. FreshUnderReview'
  <2> SUFFICES ASSUME ~moved', NEW r \in Reviews, UnderReview(r)' PROVE FALSE
    BY DEF FreshUnderReview
  <2>1. job[r].at \in {"settling", "reviewing"}
    BY DEF ReviewContinue, UnderReview
  <2> QED BY <2>1 DEF ReviewContinue, Reviewing
<1>15. NothingUnanswered'
  BY <1>5, <1>6, <1>9 DEF NothingUnanswered, Answered
<1> QED BY <1>11, <1>12, <1>13, <1>14, <1>15 DEF GateInv, Tidy

LEMMA CommandGate ==
  ASSUME TypeInv, TypeInv', GateInv,
         \/ Progress("command") \/ EndCommand
         \/ \E r \in Reviews : Cancel(r)
         \/ ReviewNow \/ ReviewContinue \/ TogglePause \/ ReviewClear
  PROVE  GateInv'
<1>0. book \in Book /\ book' \in Book /\ Tidy(book) /\ "command" \in Reviews
  BY DEF TypeInv, TypeOK, GateInv, Reviews
<1>1. CASE Progress("command")
  BY <1>0, <1>1, ProgressGate
<1>2. CASE EndCommand
  <2>1. JobsKept
    BY <1>0, <1>2, JobsEnd DEF EndCommand
  <2> QED BY <1>2, <2>1, SameGate DEF EndCommand, model, history
<1>3. ASSUME NEW r \in Reviews, Cancel(r)
      PROVE  GateInv'
  <2>1. \A q \in Reviews : job'[q].at = job[q].at /\ job'[q].window = job[q].window
    BY <1>3 DEF Cancel, TypeInv, TypeOK, Job
  <2>2. JobsKept
    BY <2>1 DEF JobsKept
  <2> QED BY <1>3, <2>2, SameGate DEF Cancel, model, history
<1>4. CASE ReviewNow
  BY <1>0, <1>4, StartGate DEF ReviewNow, HasBaseline, model, history
<1>5. CASE ReviewContinue
  BY <1>5, ContinueGate
<1>6. CASE TogglePause
  BY <1>6, JobsStay, SameGate DEF TogglePause, model, history
<1>7. CASE ReviewClear
  <2>1. Kept(book, book') /\ AnswerKept(book, book')
    BY <1>0, <1>7, ClosedKept DEF ReviewClear
  <2> QED BY <1>7, <2>1, JobsStay, KeptGate DEF ReviewClear, model, history
<1> QED BY <1>1, <1>2, <1>3, <1>4, <1>5, <1>6, <1>7

LEMMA GateStep ==
  TypeInv /\ TypeInv' /\ GateInv /\ [Next]_vars => GateInv'
<1> SUFFICES ASSUME TypeInv, TypeInv', GateInv, [Next]_vars
             PROVE  GateInv'
  OBVIOUS
<1>1. ASSUME NEW i \in Inputs, HoldInput(i) \/ TakeInput(i)
      PROVE  GateInv'
  BY <1>1, InputGate
<1>2. CASE \/ Trigger \/ StartRun \/ TakeMessage \/ StartBackground
         \/ \E s \in BOOLEAN : EndBackground(s)
           \/ \E c \in Contents : Call(c) \/ Drift(c)
  BY <1>2, RunGate
<1>3. CASE Settle
  BY <1>3, SettleGate
<1>4. CASE AutomaticStep
  BY <1>4, AutomaticGate
<1>5. CASE \/ Progress("command") \/ EndCommand
           \/ \E r \in Reviews : Cancel(r)
           \/ ReviewNow \/ ReviewContinue \/ TogglePause \/ ReviewClear
  BY <1>5, CommandGate
<1>6. CASE UNCHANGED vars
  BY <1>6, JobsStay, SameGate DEF vars, model, history
<1> QED BY <1>1, <1>2, <1>3, <1>4, <1>5, <1>6 DEF Next

(* Only a close takes the current window from the review that settles it,  *)
(* and what is left in it is what the baseline or a pass has.              *)
CleanClose ==
  LET n == job["automatic"].window
      w == book.windows[n] IN
  job["automatic"].at = "settling" /\ job'["automatic"].at # "settling"
    /\ book.current = n /\ book'.current # n /\ ~moved
  => w.last # "needs_changes" /\ workspace \in {w.base} \cup w.passed

LEMMA ClosesWhatPassed ==
  ASSUME NEW w \in Window, w = book.windows[job["automatic"].window], workspace \in Contents,
         Moded(w), PassBased(w), Answered(w), NoReview("automatic"), Closes("automatic")
  PROVE  w.last # "needs_changes" /\ workspace \in {w.base} \cup w.passed
<1> DEFINE v == Reviewed("automatic")
<1>1. /\ v.last = w.last /\ v.mode = w.mode /\ v.base = w.base
      /\ w.exchange # NoExchange => v.settled.changed = (workspace # w.exchange.base)
      /\ w.exchange = NoExchange => v = w
  BY CompletedFacts DEF Reviewed
<1>2. ASSUME w.last = "pass", w.exchange # NoExchange, ~v.settled.changed
      PROVE  workspace \in {w.base} \cup w.passed
  BY <1>1, <1>2, NothingAssumption DEF PassBased
<1>3. CASE StandingPass("automatic")
  <2>1. /\ w.last = "pass" /\ ~v.settled.asked /\ ~v.settled.edited
        /\ ~v.settled.changed /\ ~v.settled.called
    BY <1>1, <1>3 DEF Closes, StandingPass, Edited, PassResponse
  <2>2. w.exchange # NoExchange
    BY <1>1, <2>1 DEF Answered
  <2> QED BY <1>2, <2>1, <2>2
<1>4. CASE ~StandingPass("automatic") /\ UnchangedResponse("automatic")
  <2>1. w.exchange # NoExchange /\ ~v.settled.changed /\ v.mode = "observation"
    BY <1>4 DEF Closes, UnchangedResponse
  <2> QED BY <1>1, <1>2, <2>1 DEF Moded
<1>5. CASE ~StandingPass("automatic") /\ ~UnchangedResponse("automatic")
  BY <1>1, <1>5 DEF Closes, NoInitialChanges
<1> QED BY <1>3, <1>4, <1>5

LEMMA ReleaseKeepsWindow ==
  ASSUME NEW r, NEW b \in Book, b.current # 0, NEW sent, NEW stuck, NEW follows,
             Release(r, b, sent, stuck, follows)
  PROVE  book'.current = b.current
<1> DEFINE w == [Current(b) EXCEPT !.asked = TRUE]
<1>1. Current(b) \in Window /\ b.current \in 1..MaxWindows
  BY WindowGet
<1>2. Remembered(b) = [b EXCEPT !.windows[b.current] = w]
  BY <1>1 DEF Remembered, Opened, Current, Book
<1> HIDE DEF w
<1>3. Remembered(b).current = b.current
  BY <1>2 DEF Book
<1> QED BY <1>3 DEF Release

LEMMA CloseStep ==
  TypeInv /\ GateInv /\ [Next]_vars => [CleanClose]_vars
<1> DEFINE n == job["automatic"].window
           w == book.windows[n]
<1> SUFFICES ASSUME TypeInv, GateInv, Next,
                    job["automatic"].at = "settling", job'["automatic"].at # "settling",
                    book.current = n, book'.current # n, ~moved
             PROVE  w.last # "needs_changes" /\ workspace \in {w.base} \cup w.passed
  BY DEF CleanClose
<1>1. /\ book \in Book /\ Tidy(book) /\ n \in 1..MaxWindows /\ n <= book.opened /\ n # 0
      /\ w \in Window /\ w = Current(book) /\ workspace \in Contents
      /\ job \in [Reviews -> Job] /\ "automatic" \in Reviews /\ "command" \in Reviews
  BY BoundsAssumption
  DEF TypeInv, TypeOK, JobsOnWindows, Job, Book, GateInv, WindowsInUse, Reviews, Current
<1>2. Moded(w) /\ PassBased(w) /\ Answered(w)
  BY <1>1 DEF GateInv, AllModed, ResponseToPass, NothingUnanswered, Expected
<1>3. ASSUME NEW stuck \in AtMostOne, NEW sent \in SUBSET (Queued \ stuck),
             SkipReview("automatic", sent, stuck)
      PROVE  w.last # "needs_changes" /\ workspace \in {w.base} \cup w.passed
  <2>1. CapturedBook("automatic") \in Book /\ CapturedBook("automatic").current = n
    BY <1>1, CapturedKept
  <2>2. Closes("automatic")
    <3> SUFFICES ASSUME ~Closes("automatic") PROVE FALSE
      OBVIOUS
    <3>1. Release("automatic", CapturedBook("automatic"), sent, stuck, FALSE)
      BY <1>3 DEF SkipReview
    <3> QED BY <1>1, <2>1, <3>1, ReleaseKeepsWindow
  <2> QED BY <1>1, <1>2, <1>3, <2>2, ClosesWhatPassed DEF SkipReview
<1>4. ASSUME NEW stuck \in AtMostOne, NEW sent \in SUBSET (Queued \ stuck), ReviewFails(sent, stuck)
      PROVE  FALSE
  BY <1>1, <1>4, ReleaseKeepsWindow DEF ReviewFails
<1>5. CASE AutomaticStep
  <2>1. CASE Capture("automatic")
    BY <1>1, <2>1, CapturedKept DEF Capture
  <2>2. ASSUME NEW verdict, NEW repeated,
               \/ Decide("automatic", verdict, repeated)
               \/ \E recorded \in BOOLEAN : DecideFails("automatic", verdict, repeated, recorded)
        PROVE  FALSE
    BY <2>2 DEF Decide, DecideFails, Verdict
  <2>3. ASSUME \/ DeliverFails("automatic")
               \/ \E stuck \in AtMostOne : \E sent \in SUBSET (Queued \ stuck), delivered \in BOOLEAN :
                    Deliver("automatic", sent, stuck, delivered)
        PROVE  FALSE
    BY <2>3 DEF DeliverFails, Deliver
  <2>4. CASE DrainFails \/ FinishSettlement \/ AbortAutomatic
    BY <2>4 DEF DrainFails, FinishSettlement, AbortAutomatic
  <2> QED BY <1>3, <1>4, <1>5, <2>1, <2>2, <2>3, <2>4 DEF AutomaticStep, Progress
<1>6. CASE Progress("command")
  <2>1. job'["automatic"] = job["automatic"]
    BY <1>1, <1>6
    DEF Progress, Capture, DeliverFails, SkipReview, Release, Deliver, Decide, DecideFails
  <2> QED BY <2>1
<1>7. CASE Settle
  BY <1>7 DEF Settle, EndTurn, SettleNothing, SettleUnbased, SupersedeReview, CollectPaused,
     BeginReview, DeferReview, Idle
<1>8. CASE \E r \in Reviews : Cancel(r)
  BY <1>8 DEF Cancel
<1>9. CASE EndCommand \/ ReviewNow
  BY <1>1, <1>9 DEF EndCommand, ReviewNow
<1>10. CASE \/ \E i \in Inputs : HoldInput(i) \/ TakeInput(i)
            \/ Trigger \/ StartRun \/ TakeMessage \/ StartBackground
            \/ (\E s \in BOOLEAN : EndBackground(s))
            \/ (\E c \in Contents : Call(c) \/ Drift(c))
            \/ ReviewContinue \/ TogglePause \/ ReviewClear
  BY <1>10 DEF HoldInput, TakeInput, Trigger, StartRun, TakeMessage, StartBackground, EndBackground,
     Call, Drift, ReviewContinue, TogglePause, ReviewClear
<1> QED BY <1>5, <1>6, <1>7, <1>8, <1>9, <1>10 DEF Next

LEMMA GateInit == Init => GateInv
<1> SUFFICES ASSUME Init PROVE GateInv
  OBVIOUS
<1>1. \A n \in 1..MaxWindows : book.windows[n] = EmptyWindow
  BY DEF Init
<1>2. book.current = 0 /\ book.opened = 0
  BY DEF Init
<1>3. \A r \in Reviews : job[r].window = 0
  BY DEF Init, Idle
<1> QED BY <1>1, <1>2, <1>3, EmptyKeeps
        DEF GateInv, Tidy, WindowsInUse, AllModed, ResponseToPass, FreshUnderReview,
            NothingUnanswered

(* An automatic review closes its window without a verdict only when the   *)
(* workspace is back at the baseline or at what a pass saw, and no request *)
(* for changes is outstanding (runReviewSettled), whatever the contents,   *)
(* the runs, the commands and the reviews of /review-now in between.       *)
THEOREM ClosesClean == Spec => AutomaticCloseIsClean
<1>1. TypeInv /\ GateInv /\ [Next]_vars => [CleanClose]_vars
  BY CloseStep
<1>2. [][CleanClose]_vars <=> AutomaticCloseIsClean
  BY DEF AutomaticCloseIsClean, CleanClose
<1> QED BY <1>1, <1>2, TypeInit, TypeStep, GateInit, GateStep, PTL DEF Spec
=============================================================================
