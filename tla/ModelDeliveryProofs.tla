----------------------- MODULE ModelDeliveryProofs -----------------------
(***************************************************************************)
(* Theorems about ModelDelivery: types, the inductive invariant behind "at *)
(* most once", the refinement of the delivery contract, and the order in   *)
(* which held inputs are sent.                                             *)
(***************************************************************************)
EXTENDS ModelDelivery, TLAPS

(* Process p moves to where it holds no right to send. *)
StepsAside(p) ==
  \E pos \in {"idle", "recover", "release", "ledgerSave"},
     d \in Deliveries \cup {NoDelivery}, T \in SUBSET todo[p] :
    At(p, pos, d, T) /\ (pos = "ledgerSave" => d \in Deliveries /\ p \in Releasers)

(* A dispatch that returns leaves its caller at a position of no record,   *)
(* or, in a release, before the save that follows a delivery.              *)
LEMMA ReturnMoves ==
  ASSUME TypeOK, NEW p \in Procs, NEW d \in Deliveries, NEW ok \in BOOLEAN, Return(p, d, ok)
  PROVE  StepsAside(p)
<1> USE DEF StepsAside
<1>1. CASE p \in Releasers /\ ok
  <2>1. At(p, "ledgerSave", d, todo[p])
    BY <1>1 DEF Return
  <2> QED BY <1>1, <2>1
<1>2. CASE ~(p \in Releasers /\ ok) /\ p = "recovery"
  <2>1. At(p, "recover", NoDelivery, todo[p] \ {d})
    BY <1>2 DEF Return
  <2> QED BY <2>1
<1>3. CASE ~(p \in Releasers /\ ok) /\ p # "recovery"
  <2>1. At(p, "idle", NoDelivery, {})
    BY <1>3 DEF Return, Stop
  <2> QED BY <2>1
<1> QED BY <1>1, <1>2, <1>3

(* A dispatch claims a queued record or leaves the list alone. *)
LEMMA DispatchMoves ==
  ASSUME TypeOK, NEW p \in Procs, NEW d \in Deliveries, Dispatch(p, d)
  PROVE  /\ UNCHANGED <<calm, dropped>>
         /\ \/ /\ mem[d] = "queued" /\ mem' = [mem EXCEPT ![d] = "dispatching"]
               /\ At(p, "startSave", d, todo[p])
            \/ UNCHANGED mem /\ StepsAside(p)
<1>1. CASE mem[d] = "queued"
  BY <1>1 DEF Dispatch, Calm, SetStatus
<1>2. CASE mem[d] # "queued"
  <2>1. Return(p, d, mem[d] = "delivered") /\ UNCHANGED <<mem, calm, dropped>>
    BY <1>2 DEF Dispatch, Calm
  <2> QED BY <2>1, ReturnMoves
<1> QED BY <1>1, <1>2

(* Where a process stands once the save it awaited has resolved. *)
LEMMA SavedMoves ==
  ASSUME TypeOK, HandsFull, NEW p \in Procs, Saved(p)
  PROVE  /\ calm' = calm
         /\ \/ dropped' = dropped
            \/ /\ pc[p] = "cancelSave" /\ Active /\ dropped' = dropped \cup todo[p]
               /\ UNCHANGED mem /\ StepsAside(p)
         /\ \/ /\ pc[p] = "queueSave" /\ cur[p] \in Notes /\ mem[cur[p]] = "queued"
               /\ mem' = [mem EXCEPT ![cur[p]] = "dispatching"]
               /\ At(p, "startSave", cur[p], todo[p])
            \/ /\ pc[p] = "startSave" /\ UNCHANGED mem /\ At(p, "send", cur[p], todo[p])
            \/ pc[p] # "startSave" /\ UNCHANGED mem /\ StepsAside(p)
<1> USE DEF HandsFull, InHand, StepsAside
<1>1. CASE pc[p] = "queueSave"
  <2>1. CASE cur[p] \in Notes /\ Active
    BY <1>1, <2>1, DispatchMoves DEF Saved
  <2>2. CASE ~(cur[p] \in Notes /\ Active)
    <3>1. At(p, "idle", NoDelivery, {}) /\ UNCHANGED <<mem, calm, dropped>>
      BY <1>1, <2>2 DEF Saved, Stop, Calm
    <3> QED BY <1>1, <3>1
  <2> QED BY <2>1, <2>2
<1>2. CASE pc[p] = "startSave"
  BY <1>2 DEF Saved, Goto, Calm
<1>3. CASE pc[p] \in {"endSaveYes", "endSaveNo", "uncertainSave"}
  <2>1. Return(p, cur[p], pc[p] = "endSaveYes") /\ UNCHANGED <<mem, calm, dropped>>
    BY <1>3 DEF Saved, Calm
  <2> QED BY <1>3, <2>1, ReturnMoves
<1>4. CASE pc[p] = "ledgerSave"
  <2>1. At(p, "release", NoDelivery, todo[p] \ {cur[p]}) /\ UNCHANGED <<mem, calm, dropped>>
    BY <1>4 DEF Saved, Calm
  <2> QED BY <1>4, <2>1
<1>5. CASE pc[p] = "recoverSave"
  <2>1. At(p, "recover", NoDelivery, todo[p] \ {cur[p]}) /\ UNCHANGED <<mem, calm, dropped>>
    BY <1>5 DEF Saved, Calm
  <2> QED BY <1>5, <2>1
<1>6. CASE pc[p] = "cancelSave"
  <2>1. At(p, "idle", NoDelivery, {}) /\ UNCHANGED <<mem, calm>>
        /\ dropped' = IF Active THEN dropped \cup todo[p] ELSE dropped
    BY <1>6 DEF Saved, Stop
  <2> QED BY <1>6, <2>1
<1> QED BY <1>1, <1>2, <1>3, <1>4, <1>5, <1>6 DEF Saved

-----------------------------------------------------------------------------

(* TypeOK needs the process that holds a record to hold a real one. *)
TypeInv == TypeOK /\ HandsFull

(* The actions of one process. *)
ProcessStep(p) ==
  \/ p \in Callers /\ \E d \in Notes : QueueNote(p, d)
  \/ p \in Callers /\ \E i \in Inputs : QueueInput(p, i)
  \/ p \in Releasers /\ StartRelease(p)
  \/ p \in Releasers /\ ReleaseNext(p)
  \/ RecoverNext(p)
  \/ CancelQueued(p) \/ ClearQueued(p) \/ ReportCleared(p)
  \/ SaveBegins(p) \/ SaveWritten(p) \/ SaveSkipped(p) \/ SaveFails(p)
  \/ SendAccepted(p) \/ SendRefused(p) \/ SendThrows(p)
  \/ WriteReceipt(p) \/ ReceiptFails(p)

LEMMA NextSplits ==
  ASSUME Next
  PROVE  (\E p \in Procs : ProcessStep(p)) \/ Close \/ ShutDown \/ Crash \/ Restart
  BY DEF Next, ProcessStep, Procs

LEMMA StopStepsAside ==
  ASSUME NEW p \in Procs, Stop(p)
  PROVE  StepsAside(p)
<1>1. At(p, "idle", NoDelivery, {}) /\ {} \in SUBSET todo[p]
  BY DEF Stop
<1> QED BY <1>1 DEF StepsAside

(* A release stops or claims one of the inputs it has left. *)
LEMMA ReleaseMoves ==
  ASSUME TypeInv, NEW p \in Releasers, ReleaseNext(p)
  PROVE  /\ UNCHANGED <<calm, dropped>>
         /\ \/ \E d \in todo[p] \cap Deliveries :
                 /\ mem[d] = "queued" /\ mem' = [mem EXCEPT ![d] = "dispatching"]
                 /\ At(p, "startSave", d, todo[p])
            \/ UNCHANGED mem /\ StepsAside(p)
<1> USE DEF StepsAside
<1> p \in Procs /\ TypeOK
  BY DEF Procs, TypeInv
<1>1. CASE Stop(p) /\ Calm /\ UNCHANGED mem
  <2>1. At(p, "idle", NoDelivery, {}) /\ UNCHANGED <<mem, calm, dropped>>
    BY <1>1 DEF Stop, Calm
  <2>2. todo[p] \subseteq Deliveries
    BY DEF TypeOK
  <2> QED BY <2>1
<1>2. CASE \E i \in todo[p] : Dispatch(p, i)
  <2> PICK i \in todo[p] : Dispatch(p, i)
    BY <1>2
  <2>1. i \in Deliveries
    BY DEF TypeOK
  <2> QED BY <2>1, DispatchMoves
<1> QED BY <1>1, <1>2 DEF ReleaseNext
(* Recovery settles a record, claims it, or passes over it. *)
LEMMA RecoverMoves ==
  ASSUME TypeInv, NEW p \in Procs, RecoverNext(p)
  PROVE  /\ UNCHANGED <<calm, dropped>>
         /\ \/ UNCHANGED mem /\ StepsAside(p)
            \/ \E d \in todo[p] \cap Deliveries :
                 \/ /\ mem[d] = "queued" /\ mem' = [mem EXCEPT ![d] = "dispatching"]
                    /\ At(p, "startSave", d, todo[p])
                 \/ /\ d \in receipt /\ mem' = [mem EXCEPT ![d] = "delivered"]
                    /\ At(p, "recoverSave", d, todo[p])
                 \/ /\ mem[d] \in InFlight /\ mem' = [mem EXCEPT ![d] = "uncertain"]
                    /\ At(p, "recoverSave", d, todo[p])
<1> USE DEF StepsAside
<1> TypeOK
  BY DEF TypeInv
<1>1. CASE Stop(p) /\ Calm /\ UNCHANGED mem
  <2>1. At(p, "idle", NoDelivery, {}) /\ UNCHANGED <<mem, calm, dropped>>
    BY <1>1 DEF Stop, Calm
  <2>2. {} \in SUBSET todo[p]
    BY DEF TypeOK
  <2> QED BY <2>1, <2>2
<1>2. ASSUME NEW d \in todo[p], mem[d] # "absent",
             Terminal(mem[d]) /\ At(p, "recover", NoDelivery, todo[p] \ {d})
               /\ Calm /\ UNCHANGED mem
      PROVE  UNCHANGED <<calm, dropped, mem>> /\ StepsAside(p)
  <2>1. todo[p] \ {d} \in SUBSET todo[p]
    BY DEF TypeOK
  <2> QED BY <1>2, <2>1 DEF Calm
<1>3. ASSUME NEW d \in todo[p], mem[d] # "absent",
             ~Terminal(mem[d]), d \in receipt \/ mem[d] # "queued",
             SetStatus(d, IF d \in receipt THEN "delivered" ELSE "uncertain")
      PROVE  /\ d \in Deliveries
             /\ \/ d \in receipt /\ mem' = [mem EXCEPT ![d] = "delivered"]
                \/ mem[d] \in InFlight /\ mem' = [mem EXCEPT ![d] = "uncertain"]
  <2>1. d \in Deliveries
    BY DEF TypeOK
  <2> QED BY <1>3, <2>1 DEF Terminal, SetStatus, InFlight, TypeOK, Status
<1>4. ASSUME NEW d \in todo[p], Dispatch(p, d)
      PROVE  /\ UNCHANGED <<calm, dropped>> /\ d \in Deliveries
             /\ \/ UNCHANGED mem /\ StepsAside(p)
                \/ /\ mem[d] = "queued" /\ mem' = [mem EXCEPT ![d] = "dispatching"]
                   /\ At(p, "startSave", d, todo[p])
  <2>1. d \in Deliveries
    BY DEF TypeOK
  <2> QED BY <1>4, <2>1, DispatchMoves
<1>5. \/ Stop(p) /\ Calm /\ UNCHANGED mem
      \/ \E d \in todo[p] : mem[d] # "absent" /\
           \/ /\ Terminal(mem[d]) /\ At(p, "recover", NoDelivery, todo[p] \ {d})
              /\ Calm /\ UNCHANGED mem
           \/ /\ ~Terminal(mem[d]) /\ (d \in receipt \/ mem[d] # "queued")
              /\ SetStatus(d, IF d \in receipt THEN "delivered" ELSE "uncertain")
              /\ At(p, "recoverSave", d, todo[p]) /\ Calm
           \/ Dispatch(p, d)
  BY DEF RecoverNext
<1>6. CASE ~(Stop(p) /\ Calm /\ UNCHANGED mem)
  <2> PICK d \in todo[p] : mem[d] # "absent" /\
           \/ /\ Terminal(mem[d]) /\ At(p, "recover", NoDelivery, todo[p] \ {d})
              /\ Calm /\ UNCHANGED mem
           \/ /\ ~Terminal(mem[d]) /\ (d \in receipt \/ mem[d] # "queued")
              /\ SetStatus(d, IF d \in receipt THEN "delivered" ELSE "uncertain")
              /\ At(p, "recoverSave", d, todo[p]) /\ Calm
           \/ Dispatch(p, d)
    BY <1>5, <1>6
  <2>1. CASE Dispatch(p, d)
    BY <2>1, <1>4
  <2>2. CASE Terminal(mem[d]) /\ At(p, "recover", NoDelivery, todo[p] \ {d})
               /\ Calm /\ UNCHANGED mem
    BY <2>2, <1>2
  <2>3. CASE /\ ~Terminal(mem[d]) /\ (d \in receipt \/ mem[d] # "queued")
             /\ SetStatus(d, IF d \in receipt THEN "delivered" ELSE "uncertain")
             /\ At(p, "recoverSave", d, todo[p]) /\ Calm
    <3>1. d \in Deliveries /\ UNCHANGED <<calm, dropped>>
      BY <2>3, <1>3 DEF Calm
    <3> QED BY <2>3, <1>3, <3>1
  <2> QED BY <2>1, <2>2, <2>3
<1> QED BY <1>1, <1>6

-----------------------------------------------------------------------------

(* Every step keeps the types, and every record in hand is a real one. *)
LEMMA TypeStep == TypeInv /\ [Next]_vars => TypeInv'
<1> SUFFICES ASSUME TypeInv, [Next]_vars PROVE TypeInv'
  OBVIOUS
<1> USE DEF TypeInv, TypeOK, Status, InFlight
<1>1. CASE UNCHANGED vars
  BY <1>1 DEF vars, fileVars, procVars, obsVars, HandsFull
<1>2. ASSUME NEW p \in Procs, StepsAside(p)
      PROVE  /\ pc' \in [Procs -> PCs] /\ todo' \in [Procs -> SUBSET Deliveries]
             /\ cur' \in [Procs -> Deliveries \cup {NoDelivery}]
             /\ HandsFull'
  BY <1>2 DEF StepsAside, At, HandsFull, InHand, PCs, Saving
<1>3. CASE \E p \in Procs : ProcessStep(p)
  <2> PICK p \in Procs : ProcessStep(p)
    BY <1>3
  <2>1. CASE p \in Callers /\ \E d \in Notes : QueueNote(p, d)
    BY <2>1 DEF QueueNote, At, HandsFull, InHand, PCs, Saving, obsVars, fileVars, Deliveries
  <2>2. CASE p \in Callers /\ \E i \in Inputs : QueueInput(p, i)
    BY <2>2 DEF QueueInput, SetStatus, At, HandsFull, InHand, PCs, Saving, obsVars, fileVars,
       Deliveries
  <2>3. CASE p \in Releasers /\ StartRelease(p)
    BY <2>3 DEF StartRelease, At, HandsFull, InHand, PCs, Saving, obsVars, fileVars, Deliveries
  <2>4. CASE p \in Releasers /\ ReleaseNext(p)
    BY <2>4, ReleaseMoves, <1>2 DEF ReleaseNext, fileVars, At, HandsFull, InHand, PCs, Saving
  <2>5. CASE RecoverNext(p)
    <3>1. UNCHANGED <<fileVars, receipt, session, restarts, sent, calm, dropped>>
      BY <2>5, RecoverMoves DEF RecoverNext
    <3>2. CASE UNCHANGED mem /\ StepsAside(p)
      BY <3>1, <3>2, <1>2 DEF fileVars
    <3>3. ASSUME NEW d \in Deliveries, NEW s \in Status, NEW pos \in {"startSave", "recoverSave"},
                 mem' = [mem EXCEPT ![d] = s], At(p, pos, d, todo[p])
          PROVE  TypeInv'
      BY <3>1, <3>3 DEF fileVars, At, HandsFull, InHand, PCs, Saving
    <3> QED BY <2>5, <3>2, <3>3, RecoverMoves
  <2>6. CASE CancelQueued(p) \/ ClearQueued(p)
    <3>1. PICK D \in {Inputs, Deliveries}, pos \in {"cancelSave", "cleared"} :
            Drop(p, D, pos) /\ p \in {"cancel", "clear"}
      BY <2>6 DEF CancelQueued, ClearQueued
    <3> QED BY <3>1, ProcsDisjoint DEF Drop, At, HandsFull, InHand, PCs, Saving, obsVars, fileVars,
         Deliveries
  <2>16. CASE ReportCleared(p)
    BY <2>16 DEF ReportCleared, Goto, At, HandsFull, InHand, PCs, Saving, obsVars, fileVars
  <2>7. CASE SaveBegins(p)
    BY <2>7 DEF SaveBegins, HandsFull, procVars, obsVars
  <2>8. CASE SaveWritten(p)
    BY <2>8, SavedMoves, <1>2 DEF SaveWritten, At, HandsFull, InHand, PCs, Saving
  <2>9. CASE SaveSkipped(p)
    BY <2>9, SavedMoves, <1>2 DEF SaveSkipped, fileVars, At, HandsFull, InHand, PCs, Saving
  <2>10. CASE SaveFails(p)
    <3>1. /\ saver' = NoProc /\ disk' \in {disk, image} /\ image' = disk'
          /\ UNCHANGED <<receipt, session, restarts, sent, dropped>> /\ calm' = FALSE
      BY <2>10 DEF SaveFails, Fault
    <3>2. CASE /\ pc[p] \in {"endSaveYes", "endSaveNo"}
               /\ SetStatus(cur[p], "uncertain") /\ Goto(p, "uncertainSave")
      BY <3>1, <3>2 DEF SetStatus, Goto, At, HandsFull, InHand, PCs, Saving
    <3>3. CASE /\ pc[p] \in {"startSave", "uncertainSave"}
               /\ UNCHANGED mem /\ Return(p, cur[p], FALSE)
      <4>1. StepsAside(p)
        BY <3>3, ReturnMoves DEF HandsFull, InHand
      <4> QED BY <3>1, <3>3, <4>1, <1>2
    <3>4. CASE Stop(p) /\ UNCHANGED mem
      BY <3>1, <3>4, <1>2, StopStepsAside
    <3> QED BY <2>10, <3>2, <3>3, <3>4 DEF SaveFails
  <2>11. CASE SendAccepted(p)
    BY <2>11 DEF SendAccepted, fileVars, SetStatus, Goto, At, HandsFull, InHand, PCs, Saving
  <2>12. CASE SendRefused(p)
    BY <2>12 DEF SendRefused, Fault, fileVars, SetStatus, Goto, At, HandsFull, InHand, PCs, Saving
  <2>13. CASE SendThrows(p)
    <3>1. cur[p] \in Deliveries /\ sent' \in [Deliveries -> Nat]
      BY <2>13 DEF SendThrows, HandsFull, InHand
    <3>2. /\ UNCHANGED <<fileVars, receipt, session, restarts, dropped>> /\ calm' = FALSE
          /\ mem' = [mem EXCEPT ![cur[p]] = "uncertain"] /\ At(p, "uncertainSave", cur[p], todo[p])
      BY <2>13 DEF SendThrows, Fault, SetStatus, Goto
    <3> QED BY <3>1, <3>2 DEF fileVars, At, HandsFull, InHand, PCs, Saving
  <2>14. CASE WriteReceipt(p)
    BY <2>14 DEF WriteReceipt, obsVars, fileVars, SetStatus, Goto, At, HandsFull, InHand, PCs,
       Saving
  <2>15. CASE ReceiptFails(p)
    BY <2>15 DEF ReceiptFails, Fault, fileVars, SetStatus, Goto, At, HandsFull, InHand, PCs, Saving
  <2> QED BY <2>1, <2>2, <2>3, <2>4, <2>5, <2>6, <2>7, <2>8, <2>9, <2>10, <2>11, <2>12,
             <2>13, <2>14, <2>15, <2>16 DEF ProcessStep
<1>4. CASE Close
  BY <1>4 DEF Close, fileVars, procVars, obsVars, HandsFull
<1>5. CASE ShutDown \/ Crash
  BY <1>5 DEF ShutDown, Crash, End, obsVars, HandsFull, InHand, PCs, Procs
<1>6. CASE Restart
  BY <1>6, RestartsAssumption, ProcsDisjoint DEF Restart, At, Procs, fileVars, HandsFull, InHand,
     PCs, Deliveries
<1> QED BY <1>1, <1>3, <1>4, <1>5, <1>6, NextSplits
-----------------------------------------------------------------------------

(* The list that p had written, or wrote, is on disk; or nothing was. *)
FilesMove(p) ==
  \/ UNCHANGED fileVars
  \/ saver = p /\ saver' = NoProc /\ disk' \in {disk, image} /\ image' = disk'

(* A running session in which p is not, or no longer, writing. *)
Running(p) == session # "down" /\ session' = session /\ saver' # p

(* The invariant outlives a process that gives up what it holds. *)
LEMMA AsideKeepsInv ==
  ASSUME TypeInv, DeliveryInv, NEW p \in Procs, StepsAside(p), TypeInv',
         UNCHANGED <<mem, sent, receipt>>, FilesMove(p), Running(p),
         \/ dropped' = dropped
         \/ /\ pc[p] = "cancelSave" /\ dropped' = dropped \cup todo[p]
            /\ saver = p /\ disk' = image
  PROVE  DeliveryInv'
<1> USE DEF TypeInv, TypeOK, Unsent, InFlight, Gone, Status, fileVars, FilesMove
<1>1. \A q \in Procs : q # p => pc'[q] = pc[q] /\ cur'[q] = cur[q] /\ todo'[q] = todo[q]
  BY DEF StepsAside, At
<1>2. pc'[p] \in {"idle", "recover", "release", "ledgerSave"}
  BY DEF StepsAside, At
<1>3. \A q \in Procs, d \in Deliveries : MaySendNow(q, d)' => q # p /\ MaySendNow(q, d)
  BY <1>1, <1>2 DEF MaySendNow
<1>10. SaverWaits' /\ DownIsQuiet'
  BY <1>1 DEF DeliveryInv, SaverWaits, DownIsQuiet, Running
<1>4. UnsentOnRecord' /\ AtMostOnce'
  BY DEF DeliveryInv, UnsentOnRecord, AtMostOnce
<1>5. OneSender'
  BY <1>3 DEF DeliveryInv, OneSender
<1>6. SavedBeforeSend'
  <2> SUFFICES ASSUME NEW q \in Procs, NEW d \in Deliveries, MaySendNow(q, d)'
               PROVE  /\ pc'[q] = "send" => disk'[d] \in InFlight
                      /\ pc'[q] = "send" \/ saver' = q => image'[d] \in InFlight
    BY DEF SavedBeforeSend
  <2>1. q # p /\ MaySendNow(q, d) /\ pc'[q] = pc[q]
    BY <1>1, <1>3
  <2>2. saver' = q => saver' = saver /\ image' = image
    BY ProcsDisjoint
  <2> QED BY <2>1, <2>2 DEF DeliveryInv, SavedBeforeSend
<1>7. SentOnRecord'
  BY <1>1, <1>2 DEF DeliveryInv, SentOnRecord
<1>8. \A d \in Deliveries : OutOfReach(d) => OutOfReach(d)'
  BY <1>3 DEF OutOfReach
<1>9. DroppedOutOfReach'
  <2>1. ASSUME NEW d \in dropped' PROVE (OutOfReach(d) /\ {disk[d], image[d]} \subseteq Gone)'
    BY <1>8, ProcsDisjoint DEF DeliveryInv, DroppedOutOfReach
  <2>2. ASSUME NEW q \in Procs, pc'[q] \in {"cleared", "cancelSave"}, NEW d \in todo'[q]
        PROVE  OutOfReach(d)' /\ (saver' = q => image'[d] \in Gone)
    <3>1. q # p /\ pc[q] \in {"cleared", "cancelSave"} /\ d \in todo[q]
      BY <1>1, <1>2, <2>2
    <3>2. saver' = q => saver' = saver /\ image' = image
      BY <3>1, ProcsDisjoint
    <3> QED BY <1>8, <3>1, <3>2 DEF DeliveryInv, DroppedOutOfReach
  <2> QED BY <2>1, <2>2 DEF DroppedOutOfReach
<1> QED BY <1>4, <1>5, <1>6, <1>7, <1>9, <1>10 DEF DeliveryInv, TypeInv

(* The invariant outlives the dispatch of a queued record. *)
LEMMA ClaimKeepsInv ==
  ASSUME TypeInv, DeliveryInv, NEW p \in Procs, NEW d \in Deliveries, TypeInv',
         mem[d] = "queued", mem' = [mem EXCEPT ![d] = "dispatching"],
         At(p, "startSave", d, todo[p]),
         pc[p] \notin {"startSave", "send"}, UNCHANGED <<sent, receipt, dropped>>,
         FilesMove(p), Running(p)
  PROVE  DeliveryInv'
<1> USE DEF TypeInv, TypeOK, Unsent, InFlight, Gone, Status, fileVars, FilesMove
<1>1. /\ \A q \in Procs : q # p => pc'[q] = pc[q] /\ cur'[q] = cur[q] /\ todo'[q] = todo[q]
      /\ pc'[p] = "startSave" /\ cur'[p] = d
  BY DEF At
<1>2. \A q \in Procs, e \in Deliveries : MaySendNow(q, e)' =>
        (q = p /\ e = d) \/ (q # p /\ e # d /\ MaySendNow(q, e))
  BY <1>1 DEF MaySendNow, DeliveryInv, OneSender
<1>3. /\ mem'[d] = "dispatching" /\ sent'[d] = 0
      /\ \A e \in Deliveries : e # d => mem'[e] = mem[e]
  BY DEF DeliveryInv, UnsentOnRecord
<1>10. SaverWaits' /\ DownIsQuiet'
  BY <1>1 DEF DeliveryInv, SaverWaits, DownIsQuiet, Running
<1>4. UnsentOnRecord' /\ AtMostOnce'
  BY <1>3 DEF DeliveryInv, UnsentOnRecord, AtMostOnce
<1>5. OneSender'
  BY <1>2, <1>3 DEF DeliveryInv, OneSender
<1>6. SavedBeforeSend'
  <2> SUFFICES ASSUME NEW q \in Procs, NEW e \in Deliveries, MaySendNow(q, e)'
               PROVE  /\ pc'[q] = "send" => disk'[e] \in InFlight
                      /\ pc'[q] = "send" \/ saver' = q => image'[e] \in InFlight
    BY DEF SavedBeforeSend
  <2>1. CASE q = p
    BY <1>1, <2>1 DEF Running
  <2>2. CASE q # p
    <3>1. MaySendNow(q, e) /\ pc'[q] = pc[q]
      BY <1>1, <1>2, <2>2
    <3>2. saver' = q => saver' = saver /\ image' = image
      BY ProcsDisjoint
    <3> QED BY <3>1, <3>2 DEF DeliveryInv, SavedBeforeSend
  <2> QED BY <2>1, <2>2
<1>7. SentOnRecord'
  BY <1>1, <1>3 DEF DeliveryInv, SentOnRecord
<1>8. \A e \in Deliveries : OutOfReach(e) => OutOfReach(e)'
  BY <1>2, <1>3 DEF OutOfReach
<1>9. DroppedOutOfReach'
  <2>1. ASSUME NEW e \in dropped' PROVE (OutOfReach(e) /\ {disk[e], image[e]} \subseteq Gone)'
    BY <1>8 DEF DeliveryInv, DroppedOutOfReach
  <2>2. ASSUME NEW q \in Procs, pc'[q] \in {"cleared", "cancelSave"}, NEW e \in todo'[q]
        PROVE  OutOfReach(e)' /\ (saver' = q => image'[e] \in Gone)
    <3>1. q # p /\ pc[q] \in {"cleared", "cancelSave"} /\ e \in todo[q]
      BY <1>1, <2>2
    <3>2. saver' = q => saver' = saver /\ image' = image
      BY <3>1, ProcsDisjoint
    <3> QED BY <1>8, <3>1, <3>2 DEF DeliveryInv, DroppedOutOfReach
  <2> QED BY <2>1, <2>2 DEF DroppedOutOfReach
<1> QED BY <1>4, <1>5, <1>6, <1>7, <1>9, <1>10 DEF DeliveryInv, TypeInv

(* The invariant outlives a record that turns uncertain, or delivered by receipt. *)
LEMMA MarkKeepsInv ==
  ASSUME TypeInv, DeliveryInv, TypeInv', NEW p \in Procs, NEW d \in Deliveries,
         NEW s \in {"delivered", "uncertain"}, s = "delivered" => d \in receipt,
         mem' = [mem EXCEPT ![d] = s],
         NEW pos \in {"recoverSave", "uncertainSave"}, At(p, pos, d, todo[p]),
         UNCHANGED <<sent, receipt, dropped>>, FilesMove(p), Running(p)
  PROVE  DeliveryInv'
<1> USE DEF TypeInv, TypeOK, Unsent, InFlight, Gone, Status, fileVars, FilesMove
<1>1. /\ \A q \in Procs : q # p => pc'[q] = pc[q] /\ cur'[q] = cur[q] /\ todo'[q] = todo[q]
      /\ pc'[p] = pos /\ \A e \in Deliveries : e # d => mem'[e] = mem[e]
      /\ mem'[d] = s
  BY DEF At
<1>2. \A q \in Procs, e \in Deliveries : MaySendNow(q, e)' => q # p /\ MaySendNow(q, e)
  BY <1>1 DEF MaySendNow
<1>3. s = "delivered" => sent[d] > 0
  BY DEF DeliveryInv, SentOnRecord
<1>4. UnsentOnRecord' /\ AtMostOnce'
  BY <1>1 DEF DeliveryInv, UnsentOnRecord, AtMostOnce
<1>5. OneSender'
  BY <1>1, <1>2, <1>3 DEF DeliveryInv, OneSender
<1>6. SavedBeforeSend'
  <2> SUFFICES ASSUME NEW q \in Procs, NEW e \in Deliveries, MaySendNow(q, e)'
               PROVE  /\ pc'[q] = "send" => disk'[e] \in InFlight
                      /\ pc'[q] = "send" \/ saver' = q => image'[e] \in InFlight
    BY DEF SavedBeforeSend
  <2>1. MaySendNow(q, e) /\ pc'[q] = pc[q]
    BY <1>1, <1>2
  <2>2. saver' = q => saver' = saver /\ image' = image
    BY ProcsDisjoint
  <2> QED BY <2>1, <2>2 DEF DeliveryInv, SavedBeforeSend
<1>7. SentOnRecord'
  BY <1>1, <1>3 DEF DeliveryInv, SentOnRecord
<1>8. \A e \in Deliveries : OutOfReach(e) => OutOfReach(e)'
  BY <1>1, <1>2, <1>3 DEF OutOfReach
<1>9. DroppedOutOfReach'
  <2>1. ASSUME NEW e \in dropped' PROVE (OutOfReach(e) /\ {disk[e], image[e]} \subseteq Gone)'
    BY <1>8 DEF DeliveryInv, DroppedOutOfReach
  <2>2. ASSUME NEW q \in Procs, pc'[q] \in {"cleared", "cancelSave"}, NEW e \in todo'[q]
        PROVE  OutOfReach(e)' /\ (saver' = q => image'[e] \in Gone)
    <3>1. q # p /\ pc[q] \in {"cleared", "cancelSave"} /\ e \in todo[q]
      BY <1>1, <2>2
    <3>2. saver' = q => saver' = saver /\ image' = image
      BY <3>1, ProcsDisjoint
    <3> QED BY <1>8, <3>1, <3>2 DEF DeliveryInv, DroppedOutOfReach
  <2> QED BY <2>1, <2>2 DEF DroppedOutOfReach
<1>10. SaverWaits' /\ DownIsQuiet'
  BY <1>1 DEF DeliveryInv, SaverWaits, DownIsQuiet, Running
<1> QED BY <1>4, <1>5, <1>6, <1>7, <1>9, <1>10 DEF DeliveryInv, TypeInv

(* A save that was being written has ended: its process runs on. *)
LEMMA SaverRuns ==
  ASSUME TypeInv, DeliveryInv, NEW p \in Procs, saver = p, saver' = NoProc, session' = session
  PROVE  Running(p) /\ pc[p] \in Saving
<1>1. saver # NoProc
  BY ProcsDisjoint
<1>2. pc[p] \in Saving
  BY <1>1 DEF DeliveryInv, SaverWaits
<1> QED BY <1>1, <1>2 DEF DeliveryInv, DownIsQuiet, Saving, Running

(* A process at a position without a save is not writing. *)
LEMMA NoSaveRuns ==
  ASSUME TypeInv, DeliveryInv, NEW p \in Procs, pc[p] \notin Saving, session # "down",
         UNCHANGED <<session, saver>>
  PROVE  Running(p)
  BY ProcsDisjoint DEF DeliveryInv, SaverWaits, Running

(* The save before the send has been written: the process may send now. *)
LEMMA StartedKeepsInv ==
  ASSUME TypeInv, DeliveryInv, TypeInv', NEW p \in Procs, saver = p, pc[p] = "startSave",
         saver' = NoProc, disk' = image, At(p, "send", cur[p], todo[p]),
         UNCHANGED <<mem, image, sent, receipt, dropped, session>>
  PROVE  DeliveryInv'
<1>1. Running(p) /\ cur[p] \in Deliveries
  BY SaverRuns DEF TypeInv, HandsFull, InHand
<1>2. NoProc \notin Procs
  BY ProcsDisjoint
<1> QED BY <1>1, <1>2 DEF TypeInv, TypeOK, DeliveryInv, SaverWaits, DownIsQuiet, UnsentOnRecord,
      OneSender, SavedBeforeSend, SentOnRecord, DroppedOutOfReach, AtMostOnce, OutOfReach,
      MaySendNow, Unsent, InFlight, Gone, At, Running

LEMMA SaveWrittenKeepsInv ==
  ASSUME TypeInv, DeliveryInv, TypeInv', NEW p \in Procs, SaveWritten(p)
  PROVE  DeliveryInv'
<1>1. /\ FilesMove(p) /\ saver = p /\ saver' = NoProc /\ disk' = image
      /\ UNCHANGED <<image, sent, receipt, session>> /\ Saved(p)
  BY DEF SaveWritten, FilesMove
<1>2. Running(p)
  BY <1>1, SaverRuns
<1>3. TypeOK /\ HandsFull
  BY DEF TypeInv
<1>4. CASE /\ pc[p] = "queueSave" /\ mem[cur[p]] = "queued"
           /\ mem' = [mem EXCEPT ![cur[p]] = "dispatching"]
           /\ At(p, "startSave", cur[p], todo[p])
  <2>1. cur[p] \in Deliveries /\ pc[p] # "cancelSave"
    BY <1>3, <1>4 DEF HandsFull, InHand
  <2>2. dropped' = dropped
    BY <1>1, <1>3, <2>1, SavedMoves
  <2> QED BY <1>1, <1>2, <1>4, <2>1, <2>2, ClaimKeepsInv
<1>5. CASE pc[p] = "startSave" /\ UNCHANGED mem /\ At(p, "send", cur[p], todo[p])
  <2>1. dropped' = dropped
    BY <1>1, <1>3, <1>5, SavedMoves
  <2> QED BY <1>1, <1>5, <2>1, StartedKeepsInv
<1>6. CASE UNCHANGED mem /\ StepsAside(p)
  <2>1. \/ dropped' = dropped
        \/ pc[p] = "cancelSave" /\ dropped' = dropped \cup todo[p]
    BY <1>1, <1>3, SavedMoves
  <2> QED BY <1>1, <1>2, <1>6, <2>1, AsideKeepsInv
<1> QED BY <1>1, <1>3, <1>4, <1>5, <1>6, SavedMoves

LEMMA SaveSkippedKeepsInv ==
  ASSUME TypeInv, DeliveryInv, TypeInv', NEW p \in Procs, SaveSkipped(p)
  PROVE  DeliveryInv'
<1>1. /\ FilesMove(p) /\ Running(p) /\ ~Active /\ pc[p] # "startSave"
      /\ UNCHANGED <<sent, receipt>> /\ Saved(p)
  BY DEF SaveSkipped, FilesMove, Running, Active, fileVars
<1>2. TypeOK /\ HandsFull
  BY DEF TypeInv
<1>3. dropped' = dropped
  BY <1>1, <1>2, SavedMoves
<1>4. CASE /\ pc[p] = "queueSave" /\ mem[cur[p]] = "queued"
           /\ mem' = [mem EXCEPT ![cur[p]] = "dispatching"]
           /\ At(p, "startSave", cur[p], todo[p])
  <2>1. cur[p] \in Deliveries
    BY <1>2, <1>4 DEF HandsFull, InHand
  <2> QED BY <1>1, <1>3, <1>4, <2>1, ClaimKeepsInv
<1>5. CASE UNCHANGED mem /\ StepsAside(p)
  BY <1>1, <1>3, <1>5, AsideKeepsInv
<1> QED BY <1>1, <1>2, <1>4, <1>5, SavedMoves

LEMMA SaveFailsKeepsInv ==
  ASSUME TypeInv, DeliveryInv, TypeInv', NEW p \in Procs, SaveFails(p)
  PROVE  DeliveryInv'
<1>1. /\ FilesMove(p) /\ saver = p /\ saver' = NoProc
      /\ UNCHANGED <<sent, receipt, session, dropped>>
  BY DEF SaveFails, FilesMove, Fault
<1>2. Running(p) /\ TypeOK /\ HandsFull
  BY <1>1, SaverRuns DEF TypeInv
<1>3. CASE /\ pc[p] \in {"endSaveYes", "endSaveNo"}
           /\ SetStatus(cur[p], "uncertain") /\ Goto(p, "uncertainSave")
  <2>1. cur[p] \in Deliveries
    BY <1>2, <1>3 DEF HandsFull, InHand
  <2> QED BY <1>1, <1>2, <1>3, <2>1, MarkKeepsInv DEF SetStatus, Goto
<1>4. CASE /\ pc[p] \in {"startSave", "uncertainSave"}
           /\ UNCHANGED mem /\ Return(p, cur[p], FALSE)
  <2>1. cur[p] \in Deliveries
    BY <1>2, <1>4 DEF HandsFull, InHand
  <2>2. StepsAside(p)
    BY <1>2, <1>4, <2>1, ReturnMoves
  <2> QED BY <1>1, <1>2, <1>4, <2>2, AsideKeepsInv
<1>5. CASE Stop(p) /\ UNCHANGED mem
  BY <1>1, <1>2, <1>5, StopStepsAside, AsideKeepsInv
<1> QED BY <1>3, <1>4, <1>5 DEF SaveFails

-----------------------------------------------------------------------------

(* Every step keeps the invariant. *)
LEMMA InvStep == TypeInv /\ DeliveryInv /\ [Next]_vars => DeliveryInv'
<1> SUFFICES ASSUME TypeInv, DeliveryInv, [Next]_vars PROVE DeliveryInv'
  OBVIOUS
<1>0. TypeInv'
  BY TypeStep
<1>1. CASE UNCHANGED vars
  BY <1>1, <1>0 DEF vars, fileVars, procVars, obsVars, TypeInv, DeliveryInv, SaverWaits,
     DownIsQuiet,
     UnsentOnRecord, OneSender, SavedBeforeSend, SentOnRecord, DroppedOutOfReach, AtMostOnce,
     OutOfReach, MaySendNow
<1>2. CASE \E p \in Procs : (ReleaseNext(p) /\ p \in Releasers) \/ RecoverNext(p)
  <2> PICK p \in Procs : (ReleaseNext(p) /\ p \in Releasers) \/ RecoverNext(p)
    BY <1>2
  <2>1. /\ pc[p] \in {"release", "recover"} /\ session # "down"
        /\ FilesMove(p) /\ UNCHANGED <<saver, session, sent, receipt>>
    BY DEF ReleaseNext, RecoverNext, FilesMove, fileVars
  <2>2. Running(p)
    BY <2>1, NoSaveRuns DEF Saving
  <2>3. CASE ReleaseNext(p) /\ p \in Releasers
    <3>1. todo[p] \cap Deliveries \subseteq Deliveries
      OBVIOUS
    <3> QED BY <1>0, <2>1, <2>2, <2>3, <3>1, ReleaseMoves, AsideKeepsInv, ClaimKeepsInv
  <2>4. CASE RecoverNext(p)
    BY <1>0, <2>1, <2>2, <2>4, RecoverMoves, AsideKeepsInv, ClaimKeepsInv, MarkKeepsInv
  <2> QED BY <2>3, <2>4
<1>3. CASE \E p \in Procs : SaveWritten(p) \/ SaveSkipped(p) \/ SaveFails(p)
  BY <1>0, <1>3, SaveWrittenKeepsInv, SaveSkippedKeepsInv, SaveFailsKeepsInv
<1>9. NoProc \notin Procs
  BY ProcsDisjoint
<1> USE <1>0, <1>9 DEF TypeInv, TypeOK, DeliveryInv, HandsFull, SaverWaits, DownIsQuiet, UnsentOnRecord,
     OneSender, SavedBeforeSend, SentOnRecord, DroppedOutOfReach, AtMostOnce, OutOfReach,
     MaySendNow,
     Unsent, InFlight, Gone, InHand, Saving, At, Status, Active
<1>4. CASE \E p \in Procs : ProcessStep(p)
  <2> PICK p \in Procs : ProcessStep(p)
    BY <1>4
  <2>1. CASE p \in Callers /\ \E d \in Notes : QueueNote(p, d)
    BY <2>1 DEF QueueNote, obsVars, fileVars
  <2>2. CASE p \in Callers /\ \E i \in Inputs : QueueInput(p, i)
    BY <2>2 DEF QueueInput, SetStatus, obsVars, fileVars
  <2>3. CASE p \in Releasers /\ StartRelease(p)
    BY <2>3 DEF StartRelease, obsVars, fileVars
  <2>4. CASE CancelQueued(p) \/ ClearQueued(p)
    <3>00. PICK D \in {Inputs, Deliveries}, pos \in {"cancelSave", "cleared"} : Drop(p, D, pos)
      BY <2>4 DEF CancelQueued, ClearQueued
    <3>0. PICK C \in SUBSET Deliveries :
            /\ \A d \in C : mem[d] = "queued"
            /\ mem' = [d \in Deliveries |-> IF d \in C THEN "cancelled" ELSE mem[d]]
            /\ At(p, pos, NoDelivery, C)
      <4>1. {d \in D : mem[d] = "queued"} \in SUBSET Deliveries
        BY DEF Deliveries
      <4> QED BY <3>00, <4>1 DEF Drop
    <3>1. pc[p] = "idle" /\ UNCHANGED <<disk, saver, image, receipt, session, sent, dropped>>
          /\ session # "down"
      BY <3>00 DEF Drop, obsVars, fileVars
    <3>2. \A q \in Procs, d \in Deliveries : MaySendNow(q, d)' => MaySendNow(q, d) /\ d \notin C
      BY <3>0, <3>1
    <3>3. HandsFull' /\ SaverWaits' /\ DownIsQuiet' /\ UnsentOnRecord' /\ AtMostOnce' /\ SentOnRecord'
      BY <3>0, <3>1
    <3>4. OneSender' /\ SavedBeforeSend'
      BY <3>0, <3>1, <3>2
    <3>5. \A d \in Deliveries : OutOfReach(d) \/ d \in C => OutOfReach(d)'
      <4> SUFFICES ASSUME NEW d \in Deliveries, OutOfReach(d) \/ d \in C PROVE OutOfReach(d)'
        OBVIOUS
      <4>1. CASE d \in C
        <5>1. mem[d] = "queued"
          BY <3>0, <4>1
        <5>2. sent[d] = 0 /\ \A q \in Procs : ~MaySendNow(q, d)
          BY <5>1
        <5>3. mem'[d] = "cancelled" /\ sent' = sent
          BY <3>0, <3>1, <4>1
        <5> QED BY <3>2, <5>2, <5>3
      <4>2. CASE OutOfReach(d) /\ d \notin C
        <5>1. mem'[d] = mem[d] /\ sent' = sent
          BY <3>0, <3>1, <4>2
        <5> QED BY <3>2, <4>2, <5>1
      <4> QED BY <4>1, <4>2
    <3>6. DroppedOutOfReach'
      BY <3>0, <3>1, <3>5
    <3> QED BY <3>3, <3>4, <3>6
  <2>5. CASE SaveBegins(p)
    <3>1. UNCHANGED <<mem, disk, sent, receipt, dropped, session>>
      BY <2>5 DEF SaveBegins, procVars, obsVars
    <3>2. HandsFull' /\ SaverWaits' /\ DownIsQuiet' /\ UnsentOnRecord' /\ AtMostOnce' /\ SentOnRecord'
      BY <2>5, <3>1 DEF SaveBegins, procVars, obsVars
    <3>3. OneSender' /\ SavedBeforeSend'
      BY <2>5, <3>1 DEF SaveBegins, procVars, obsVars
    <3>4. DroppedOutOfReach'
      BY <2>5, <3>1 DEF SaveBegins, procVars, obsVars
    <3> QED BY <3>2, <3>3, <3>4
  <2>6. CASE SendAccepted(p)
    <3>1. HandsFull' /\ SaverWaits' /\ DownIsQuiet' /\ UnsentOnRecord' /\ AtMostOnce' /\ SentOnRecord'
      BY <2>6 DEF SendAccepted, fileVars, SetStatus, Goto
    <3>2. OneSender' /\ SavedBeforeSend'
      BY <2>6 DEF SendAccepted, fileVars, SetStatus, Goto
    <3>3. DroppedOutOfReach'
      BY <2>6 DEF SendAccepted, fileVars, SetStatus, Goto
    <3> QED BY <3>1, <3>2, <3>3
  <2>7. CASE SendRefused(p)
    BY <2>7 DEF SendRefused, Fault, fileVars, SetStatus, Goto
  <2>8. CASE SendThrows(p)
    BY <2>8 DEF SendThrows, Fault, fileVars, SetStatus, Goto
  <2>9. CASE WriteReceipt(p)
    BY <2>9 DEF WriteReceipt, obsVars, fileVars, SetStatus, Goto
  <2>10. CASE ReceiptFails(p)
    BY <2>10 DEF ReceiptFails, Fault, fileVars, SetStatus, Goto
  <2>11. CASE ReportCleared(p)
    <3>1. /\ pc[p] = "cleared" /\ session # "down" /\ At(p, "cancelSave", cur[p], todo[p])
          /\ UNCHANGED <<mem, disk, saver, image, receipt, session, sent, dropped>>
      BY <2>11 DEF ReportCleared, Goto, obsVars, fileVars
    <3>2. saver # p
      BY <3>1
    <3>3. \A q \in Procs, d \in Deliveries : MaySendNow(q, d)' => MaySendNow(q, d)
      BY <3>1
    <3>4. HandsFull' /\ SaverWaits' /\ DownIsQuiet' /\ UnsentOnRecord' /\ AtMostOnce' /\ SentOnRecord'
      BY <3>1
    <3>5. OneSender' /\ SavedBeforeSend'
      BY <3>1, <3>3
    <3>6. DroppedOutOfReach'
      BY <3>1, <3>2, <3>3
    <3> QED BY <3>4, <3>5, <3>6
  <2> QED BY <1>2, <1>3, <2>1, <2>2, <2>3, <2>4, <2>5, <2>6, <2>7, <2>8, <2>9, <2>10, <2>11
         DEF ProcessStep
<1>5. CASE Close
  BY <1>5 DEF Close, fileVars, procVars, obsVars
<1>6. CASE ShutDown
  <2>1. HandsFull' /\ SaverWaits' /\ DownIsQuiet'
    BY <1>6 DEF ShutDown, End, obsVars
  <2>4. UnsentOnRecord'
    BY <1>6 DEF ShutDown, End, obsVars
  <2>2. AtMostOnce' /\ SentOnRecord'
    BY <1>6 DEF ShutDown, End, obsVars
  <2>3. OneSender' /\ SavedBeforeSend' /\ DroppedOutOfReach'
    BY <1>6 DEF ShutDown, End, obsVars
  <2> QED BY <2>1, <2>2, <2>3, <2>4
<1>7. CASE Crash
  BY <1>7 DEF Crash, End, obsVars
<1>8. CASE Restart
  BY <1>8 DEF Restart, fileVars
<1> QED BY <1>1, <1>4, <1>5, <1>6, <1>7, <1>8, NextSplits

(***************************************************************************)
(* Types, with every record in hand a real one, for any number of notes,   *)
(* inputs, processes and restarts.                                         *)
(***************************************************************************)
THEOREM TypeCorrect == Spec => []TypeOK
<1>1. Init => TypeInv
  BY RestartsAssumption DEF Init, Idle, TypeInv, TypeOK, HandsFull, InHand, Status, PCs, Procs
<1>2. TypeInv => TypeOK
  BY DEF TypeInv
<1> QED BY <1>1, <1>2, TypeStep, PTL DEF Spec

(***************************************************************************)
(* The reason why deliveries are safe holds throughout: no unsent status   *)
(* is on record for a sent message, a record has one sender, and the file  *)
(* warns of a send before it happens.                                      *)
(***************************************************************************)
THEOREM InvCorrect == Spec => [](TypeInv /\ DeliveryInv)
<1>1. Init => TypeInv /\ DeliveryInv
  BY RestartsAssumption, ProcsDisjoint DEF Init, Idle, TypeInv, TypeOK, HandsFull, InHand,
     Status, PCs,
     Procs, DeliveryInv, SaverWaits, DownIsQuiet, UnsentOnRecord, OneSender, SavedBeforeSend,
     SentOnRecord, DroppedOutOfReach, AtMostOnce, MaySendNow
<1>2. TypeInv /\ DeliveryInv /\ [Next]_vars => (TypeInv /\ DeliveryInv)'
  BY TypeStep, InvStep
<1> QED BY <1>1, <1>2, PTL DEF Spec

(* No message is sent to the model twice. *)
THEOREM SentAtMostOnce == Spec => []AtMostOnce
<1>1. TypeInv /\ DeliveryInv => AtMostOnce
  BY DEF DeliveryInv
<1> QED BY <1>1, InvCorrect, PTL

(* A cancelled record is not sent in the session that cancelled it, and once *)
(* the cancellation was saved and reported, in no later session either.      *)
THEOREM DroppedNeverSent == Spec => []CancelledNeverSent
<1>1. TypeInv /\ DeliveryInv => CancelledNeverSent
  BY DEF DeliveryInv, DroppedOutOfReach, UnsentOnRecord, Unsent, OutOfReach, CancelledNeverSent
<1> QED BY <1>1, InvCorrect, PTL

(* A record marked delivered, or with a receipt, was sent. *)
THEOREM MarkedWasSent == Spec => []DeliveredWasSent
<1>1. TypeInv /\ DeliveryInv => DeliveredWasSent
  BY DEF DeliveryInv, SentOnRecord, DeliveredWasSent
<1> QED BY <1>1, InvCorrect, PTL

(***************************************************************************)
(* Refinement: the first state is the contract's, and every step is one of *)
(* its steps or changes nothing it sees.                                   *)
(***************************************************************************)
LEMMA ContractStep ==
  ASSUME TypeInv, DeliveryInv, [Next]_vars
  PROVE  [Contract!Next]_<<sent, dropped>>
<1> USE DEF Contract!Next, Contract!Accept, Contract!Withdraw
<1>1. ASSUME NEW p \in Procs, pc[p] = "send", dropped' = dropped,
             sent' = [sent EXCEPT ![cur[p]] = @ + 1]
      PROVE  Contract!Next
  <2>1. cur[p] \in Deliveries /\ MaySendNow(p, cur[p])
    BY <1>1 DEF TypeInv, HandsFull, InHand, MaySendNow
  <2>2. sent[cur[p]] = 0 /\ cur[p] \notin dropped
    BY <2>1 DEF DeliveryInv, OneSender, DroppedOutOfReach, OutOfReach
  <2>3. sent' = [sent EXCEPT ![cur[p]] = 1]
    BY <1>1, <2>1, <2>2 DEF TypeInv, TypeOK
  <2>4. Contract!Accept(cur[p])
    BY <1>1, <2>2, <2>3
  <2> QED BY <2>1, <2>4
<1>2. ASSUME NEW p \in Procs, Saved(p), sent' = sent
      PROVE  [Contract!Next]_<<sent, dropped>>
  <2>1. TypeOK /\ HandsFull
    BY DEF TypeInv
  <2>2. CASE dropped' = dropped
    BY <1>2, <2>2
  <2>3. CASE pc[p] = "cancelSave" /\ dropped' = dropped \cup todo[p]
    <3>1. todo[p] \in SUBSET Deliveries
      BY <2>1 DEF TypeOK
    <3>2. \A d \in todo[p] : sent[d] = 0
      BY <2>3 DEF DeliveryInv, DroppedOutOfReach, OutOfReach
    <3> QED BY <1>2, <2>3, <3>1, <3>2
  <2> QED BY <1>2, <2>1, <2>2, <2>3, SavedMoves
<1>3. CASE UNCHANGED vars
  BY <1>3 DEF vars, obsVars
<1>4. CASE \E p \in Procs : ProcessStep(p)
  <2> PICK p \in Procs : ProcessStep(p)
    BY <1>4
  <2>1. CASE SaveWritten(p) \/ SaveSkipped(p)
    BY <2>1, <1>2 DEF SaveWritten, SaveSkipped
  <2>2. CASE SendAccepted(p) \/ SendThrows(p)
    <3>1. /\ pc[p] = "send" /\ dropped' = dropped
          /\ sent' = sent \/ sent' = [sent EXCEPT ![cur[p]] = @ + 1]
      BY <2>2 DEF SendAccepted, SendThrows, Fault
    <3> QED BY <1>1, <3>1
  <2>3. CASE (ReleaseNext(p) /\ p \in Releasers) \/ RecoverNext(p)
    BY <2>3, ReleaseMoves, RecoverMoves DEF ReleaseNext, RecoverNext
  <2>4. CASE ~(SaveWritten(p) \/ SaveSkipped(p) \/ SendAccepted(p) \/ SendThrows(p)
               \/ (ReleaseNext(p) /\ p \in Releasers) \/ RecoverNext(p))
    <3>1. ASSUME \/ p \in Callers /\ \E d \in Notes : QueueNote(p, d)
                 \/ p \in Callers /\ \E i \in Inputs : QueueInput(p, i)
                 \/ StartRelease(p) \/ CancelQueued(p) \/ ClearQueued(p) \/ ReportCleared(p)
          PROVE  sent' = sent /\ dropped' = dropped
      BY <3>1 DEF QueueNote, QueueInput, StartRelease, CancelQueued, ClearQueued, Drop,
         ReportCleared, obsVars
    <3>2. ASSUME SaveBegins(p) \/ WriteReceipt(p) PROVE sent' = sent /\ dropped' = dropped
      BY <3>2 DEF SaveBegins, WriteReceipt, obsVars
    <3>3. ASSUME SaveFails(p) \/ SendRefused(p) \/ ReceiptFails(p)
          PROVE  sent' = sent /\ dropped' = dropped
      BY <3>3 DEF SaveFails, SendRefused, ReceiptFails, Fault
    <3>4. sent' = sent /\ dropped' = dropped
      BY <2>4, <3>1, <3>2, <3>3 DEF ProcessStep
    <3> QED BY <3>4
  <2> QED BY <2>1, <2>2, <2>3, <2>4
<1>5. CASE Close \/ ShutDown \/ Crash \/ Restart
  BY <1>5 DEF Close, ShutDown, Crash, End, Restart, obsVars
<1> QED BY <1>3, <1>4, <1>5, NextSplits

(* The delivery list implements the delivery contract. *)
THEOREM Implements == Spec => ImplementsContract
<1>1. Init => Contract!Init
  BY DEF Init, Contract!Init
<1>2. TypeInv /\ DeliveryInv /\ [Next]_vars => [Contract!Next]_<<sent, dropped>>
  BY ContractStep
<1> QED BY <1>1, <1>2, InvCorrect, PTL DEF Spec, ImplementsContract, Contract!Spec
-----------------------------------------------------------------------------

(***************************************************************************)
(* The order of the inputs.  A message without a record to be sent from:   *)
(* nobody sends it in this session, nor in a later one.                    *)
(***************************************************************************)
Lost(d)    == OutOfReach(d) /\ {disk[d], image[d]} \subseteq Gone
Settled(d) == sent[d] > 0 \/ OutOfReach(d)
Passed(d)  == sent[d] > 0 \/ Lost(d)

QueuedInOrder ==
  \A i, j \in Inputs : i < j =>
    /\ mem[j] # "absent" => mem[i] # "absent"
    /\ disk[j] # "absent" => disk[i] # "absent"
    /\ image[j] # "absent" => image[i] # "absent"

(* Inputs are sent by releases only. *)
OnlyReleases ==
  /\ todo["recovery"] \subseteq Notes
  /\ \A p \in Procs : pc[p] \in InHand \ {"queueSave"} => p \in Releasers \/ cur[p] \in Notes

(* A release has the first of its inputs in hand. *)
ReleaseHands == {"startSave", "send", "endSaveYes", "endSaveNo", "uncertainSave", "ledgerSave"}

Lowest(p, i) == i \in todo[p] /\ \A j \in todo[p] : i <= j

LowestInHand ==
  \A p \in Releasers :
    /\ pc[p] \in {"idle", "release"} \cup ReleaseHands
    /\ pc[p] = "idle" => todo[p] = {}
    /\ \A i \in todo[p] : mem[i] # "absent"
    /\ pc[p] \in ReleaseHands => Lowest(p, cur[p])

ReportedIsSent == \A p \in Releasers : pc[p] \in {"endSaveYes", "ledgerSave"} => sent[cur[p]] > 0

(* What a release has behind it is settled for this session, *)
BehindIsSettled ==
  \A p \in Releasers, i \in Inputs : \A j \in todo[p] : i < j /\ i \notin todo[p] => Settled(i)

(* and, once the save before a send is written, for every later one. *)
SavedBehind ==
  \A p \in Releasers, i \in Inputs :
    /\ pc[p] = "startSave" /\ saver = p /\ i < cur[p] => sent[i] > 0 \/ image[i] \in Gone
    /\ pc[p] = "send" /\ i < cur[p] => Passed(i)

SentInOrder == \A i, j \in Inputs : i < j /\ sent[j] > 0 => Passed(i)

OrderInv ==
  /\ QueuedInOrder /\ OnlyReleases /\ LowestInHand /\ ReportedIsSent
  /\ BehindIsSettled /\ SavedBehind /\ SentInOrder

(* How a process leaves the files: alone, a save begun or a save ended. *)
BeginsSave(p) ==
  saver = NoProc /\ saver' = p /\ image' = mem /\ UNCHANGED <<mem, disk, sent, procVars>>
EndsSave(p) == saver = p /\ saver' = NoProc /\ {disk', image'} \subseteq {disk, image}

LEMMA FilesStep ==
  ASSUME TypeInv, DeliveryInv, NEW p \in Procs, ProcessStep(p)
  PROVE  UNCHANGED fileVars \/ BeginsSave(p) \/ EndsSave(p)
BY DEF ProcessStep, QueueNote, QueueInput, StartRelease, ReleaseNext, RecoverNext, CancelQueued,
     ClearQueued, Drop, ReportCleared,
   SaveBegins, SaveWritten, SaveSkipped, SaveFails, SendAccepted, SendRefused, SendThrows,
   WriteReceipt, ReceiptFails, fileVars, obsVars, procVars, BeginsSave, EndsSave

(* A process leaves the others and the session alone, and nothing unsends. *)
LEMMA OthersRest ==
  ASSUME TypeInv, DeliveryInv, NEW p \in Procs, ProcessStep(p)
  PROVE  /\ session # "down"
         /\ \A q \in Procs \ {p} : pc'[q] = pc[q] /\ cur'[q] = cur[q] /\ todo'[q] = todo[q]
         /\ \A d \in Deliveries : \/ sent'[d] = sent[d]
                                  \/ sent'[d] = sent[d] + 1 /\ pc[p] = "send" /\ cur[p] = d
<1> USE DEF TypeInv, TypeOK
<1>1. session # "down"
  <2>1. saver = p => pc[p] \in Saving
    BY ProcsDisjoint DEF DeliveryInv, SaverWaits
  <2> QED BY <2>1 DEF ProcessStep, QueueNote, QueueInput, StartRelease, ReleaseNext, RecoverNext,
             CancelQueued, ClearQueued, Drop, ReportCleared, SaveBegins, SaveWritten,
             SaveSkipped, SaveFails, SendAccepted,
             SendRefused, SendThrows, WriteReceipt, ReceiptFails, Active, DeliveryInv,
             DownIsQuiet, Saving
<1>2. ASSUME StepsAside(p) PROVE \A q \in Procs \ {p} : pc'[q] = pc[q] /\ cur'[q] = cur[q] /\ todo'[q] = todo[q]
  BY <1>2 DEF StepsAside, At
<1>3. \A q \in Procs \ {p} : pc'[q] = pc[q] /\ cur'[q] = cur[q] /\ todo'[q] = todo[q]
  <2>1. CASE SaveWritten(p) \/ SaveSkipped(p)
    BY <2>1, <1>2, SavedMoves DEF SaveWritten, SaveSkipped, At
  <2>2. CASE SaveFails(p)
    <3>1. CASE Return(p, cur[p], FALSE) /\ pc[p] \in InHand
      BY <1>2, <3>1, ReturnMoves DEF HandsFull
    <3>2. CASE Stop(p) \/ Goto(p, "uncertainSave")
      BY <3>2 DEF Stop, Goto, At
    <3> QED BY <2>2, <3>1, <3>2 DEF SaveFails, InHand
  <2>3. CASE ReleaseNext(p) /\ p \in Releasers
    BY <2>3, <1>2, ReleaseMoves DEF At
  <2>4. CASE RecoverNext(p)
    BY <2>4, <1>2, RecoverMoves DEF At
  <2>5. CASE ~(SaveWritten(p) \/ SaveSkipped(p) \/ SaveFails(p) \/ RecoverNext(p)
               \/ (ReleaseNext(p) /\ p \in Releasers))
    BY <2>5 DEF ProcessStep, QueueNote, QueueInput, StartRelease, CancelQueued, ClearQueued,
         Drop, ReportCleared, SaveBegins,
       SendAccepted, SendRefused, SendThrows, WriteReceipt, ReceiptFails, procVars, Goto, At
  <2> QED BY <2>1, <2>2, <2>3, <2>4, <2>5
<1>4. ASSUME NEW d \in Deliveries
      PROVE  sent'[d] = sent[d] \/ (sent'[d] = sent[d] + 1 /\ pc[p] = "send" /\ cur[p] = d)
  <2>1. CASE SendAccepted(p) \/ SendThrows(p)
    BY <2>1 DEF SendAccepted, SendThrows, HandsFull, InHand
  <2>2. CASE ~(SendAccepted(p) \/ SendThrows(p))
    BY <2>2 DEF ProcessStep, QueueNote, QueueInput, StartRelease, ReleaseNext, RecoverNext,
       CancelQueued, ClearQueued, Drop, ReportCleared, SaveBegins, SaveWritten, SaveSkipped,
       SaveFails, SendRefused, WriteReceipt,
       ReceiptFails, obsVars
  <2> QED BY <2>1, <2>2
<1> QED BY <1>1, <1>3, <1>4

(* What a step of p may make of a record. *)
LEMMA RecordStep ==
  ASSUME TypeInv, DeliveryInv, NEW p \in Procs, ProcessStep(p), NEW d \in Deliveries
  PROVE  \/ mem'[d] = mem[d]
         \/ mem[d] = "absent" /\ mem'[d] = "queued" /\ (d \in Notes \/ QueueInput(p, d))
         \/ mem[d] = "queued" /\ mem'[d] \in {"dispatching", "cancelled"}
         \/ MaySendNow(p, d) /\ mem'[d] # "absent"
         \/ /\ mem'[d] = "uncertain"
            /\ mem[d] # "absent" \/ (d = cur[p] /\ pc[p] \in {"receipt", "endSaveYes", "endSaveNo"})
         \/ sent[d] > 0 /\ mem'[d] = "delivered"
<1> USE DEF TypeInv, TypeOK
<1>1. CASE p \in Callers /\ \E e \in Notes : QueueNote(p, e)
  BY <1>1 DEF QueueNote
<1>2. CASE p \in Callers /\ \E i \in Inputs : QueueInput(p, i)
  BY <1>2 DEF QueueInput, SetStatus
<1>3. CASE SaveWritten(p) \/ SaveSkipped(p)
  BY <1>3, SavedMoves DEF SaveWritten, SaveSkipped
<1>4. CASE SaveFails(p)
  BY <1>4 DEF SaveFails, SetStatus
<1>5. CASE ReleaseNext(p) /\ p \in Releasers
  BY <1>5, ReleaseMoves
<1>6. CASE RecoverNext(p)
  BY <1>6, RecoverMoves DEF InFlight, DeliveryInv, SentOnRecord
<1>7. CASE CancelQueued(p) \/ ClearQueued(p) \/ ReportCleared(p)
  BY <1>7 DEF CancelQueued, ClearQueued, Drop, ReportCleared
<1>8. CASE SendAccepted(p) \/ SendRefused(p) \/ SendThrows(p)
  BY <1>8 DEF SendAccepted, SendRefused, SendThrows, SetStatus, MaySendNow, HandsFull, InHand
<1>9. CASE WriteReceipt(p) \/ ReceiptFails(p)
  BY <1>9 DEF WriteReceipt, ReceiptFails, SetStatus, DeliveryInv, SentOnRecord
<1>10. CASE (StartRelease(p) /\ p \in Releasers) \/ SaveBegins(p)
  BY <1>10 DEF StartRelease, SaveBegins
<1> QED BY <1>1, <1>2, <1>3, <1>4, <1>5, <1>6, <1>7, <1>8, <1>9, <1>10 DEF ProcessStep

(* What may be sent next was sendable, or was queued. *)
LEMMA SenderStep ==
  ASSUME TypeInv, DeliveryInv, NEW p \in Procs, ProcessStep(p), NEW d \in Deliveries,
         NEW q \in Procs, MaySendNow(q, d)'
  PROVE  MaySendNow(q, d) \/ mem[d] = "queued"
<1> USE DEF TypeInv, TypeOK
<1>1. CASE q # p
  BY <1>1, OthersRest DEF MaySendNow
<1>2. ASSUME q = p, StepsAside(p) PROVE FALSE
  BY <1>2 DEF StepsAside, At, MaySendNow
<1>3. CASE q = p /\ (SaveWritten(p) \/ SaveSkipped(p))
  BY <1>3, <1>2, SavedMoves DEF SaveWritten, SaveSkipped, At, MaySendNow
<1>4. CASE q = p /\ SaveFails(p)
  <2>1. CASE Return(p, cur[p], FALSE) /\ pc[p] \in InHand
    BY <1>2, <1>4, <2>1, ReturnMoves DEF HandsFull
  <2>2. CASE Stop(p) \/ Goto(p, "uncertainSave")
    BY <1>4, <2>2 DEF Stop, Goto, At, MaySendNow
  <2> QED BY <1>4, <2>1, <2>2 DEF SaveFails, InHand
<1>5. CASE q = p /\ ReleaseNext(p) /\ p \in Releasers
  BY <1>5, <1>2, ReleaseMoves DEF At, MaySendNow
<1>6. CASE q = p /\ RecoverNext(p)
  BY <1>6, <1>2, RecoverMoves DEF At, MaySendNow
<1>7. CASE q = p /\ ~(SaveWritten(p) \/ SaveSkipped(p) \/ SaveFails(p) \/ RecoverNext(p)
                      \/ (ReleaseNext(p) /\ p \in Releasers))
  BY <1>7 DEF ProcessStep, QueueNote, QueueInput, StartRelease, CancelQueued, ClearQueued, Drop,
       ReportCleared, SaveBegins,
     SendAccepted, SendRefused, SendThrows, WriteReceipt, ReceiptFails, procVars, Goto, At,
     MaySendNow
<1> QED BY <1>1, <1>3, <1>4, <1>5, <1>6, <1>7

(* What is out of reach stays so while the session runs, and *)
LEMMA OutOfReachStays ==
  ASSUME TypeInv, DeliveryInv, NEW p \in Procs, ProcessStep(p), NEW d \in Deliveries, OutOfReach(d)
  PROVE  OutOfReach(d)'
<1>1. sent'[d] = 0 /\ sent[d] = 0
  BY OthersRest DEF OutOfReach, MaySendNow
<1>2. mem'[d] \in Gone
  BY <1>1, RecordStep DEF OutOfReach, Gone
<1>3. \A q \in Procs : ~MaySendNow(q, d)'
  BY SenderStep DEF OutOfReach, Gone
<1> QED BY <1>1, <1>2, <1>3 DEF OutOfReach

LEMMA SettledStays ==
  ASSUME TypeInv, DeliveryInv, NEW p \in Procs, ProcessStep(p), NEW d \in Deliveries, Settled(d)
  PROVE  Settled(d)'
BY OthersRest, OutOfReachStays DEF Settled, TypeInv, TypeOK

(* what is lost stays lost, whatever happens. *)
LEMMA PassedStays ==
  ASSUME TypeInv, DeliveryInv, Next, NEW d \in Deliveries, Passed(d)
  PROVE  Passed(d)'
<1> USE DEF TypeInv, TypeOK
<1>1. CASE \E p \in Procs : ProcessStep(p)
  <2> PICK p \in Procs : ProcessStep(p)
    BY <1>1
  <2>1. CASE sent[d] > 0
    BY <2>1, OthersRest DEF Passed
  <2>2. CASE Lost(d)
    BY <2>2, FilesStep, OutOfReachStays DEF Passed, Lost, fileVars, BeginsSave, EndsSave, OutOfReach
  <2> QED BY <2>1, <2>2 DEF Passed
<1>2. CASE Close \/ ShutDown \/ Crash
  BY <1>2 DEF Close, ShutDown, Crash, End, obsVars, fileVars, procVars, Passed, Lost, OutOfReach,
     MaySendNow
<1>3. CASE Restart
  BY <1>3 DEF Restart, At, fileVars, Passed, Lost, OutOfReach, MaySendNow, Gone
<1> QED BY <1>1, <1>2, <1>3, NextSplits

(* The moves of a release. *)
ReleaseStep(p) ==
  \/ Stop(p)
  \/ UNCHANGED procVars /\ saver' = p /\ image' = mem
  \/ /\ pc[p] = "idle" /\ UNCHANGED mem
     /\ At(p, "release", NoDelivery, {i \in Inputs : mem[i] # "absent" /\ ~Terminal(mem[i])})
  \/ /\ pc[p] = "release"
     /\ \E i \in Inputs : /\ Lowest(p, i)
                          /\ \/ At(p, "startSave", i, todo[p]) /\ saver' # p
                             \/ At(p, "ledgerSave", i, todo[p]) /\ mem[i] = "delivered"
  \/ pc[p] = "startSave" /\ saver = p /\ disk' = image /\ image' = image /\ At(p, "send", cur[p], todo[p])
  \/ /\ pc[p] \in {"send", "endSaveYes", "endSaveNo"}
     /\ \E pos \in {"endSaveNo", "uncertainSave"} : At(p, pos, cur[p], todo[p])
  \/ pc[p] = "send" /\ At(p, "endSaveYes", cur[p], todo[p]) /\ sent'[cur[p]] > 0
  \/ pc[p] = "endSaveYes" /\ At(p, "ledgerSave", cur[p], todo[p])
  \/ pc[p] = "ledgerSave" /\ At(p, "release", NoDelivery, todo[p] \ {cur[p]})

LEMMA ReleaseSteps ==
  ASSUME TypeInv, DeliveryInv, OrderInv, NEW p \in Releasers, ProcessStep(p)
  PROVE  ReleaseStep(p)
<1> USE DEF TypeInv, TypeOK, ReleaseStep
<1>1. /\ p \in Procs /\ p \notin Callers /\ p \notin {"recovery", "cancel", "clear"}
      /\ NoProc \notin Procs
      /\ todo[p] \subseteq Inputs /\ Inputs \cap Notes = {}
      /\ pc[p] \in {"idle", "release"} \cup ReleaseHands
      /\ pc[p] \in ReleaseHands => Lowest(p, cur[p]) /\ cur[p] \in Inputs
  BY ProcsDisjoint, KindsDisjoint DEF Procs, HandsFull, OrderInv, LowestInHand, Lowest
<1>2. saver = p => pc[p] \in Saving
  BY <1>1 DEF DeliveryInv, SaverWaits
<1>3. ASSUME NEW d, NEW ok, Return(p, d, ok) PROVE IF ok THEN At(p, "ledgerSave", d, todo[p]) ELSE Stop(p)
  BY <1>1, <1>3 DEF Return
<1>4. CASE StartRelease(p)
  BY <1>4 DEF StartRelease
<1>5. CASE ReleaseNext(p)
  <2>1. CASE Stop(p)
    BY <2>1
  <2>2. CASE pc[p] = "release" /\ saver' = saver /\ \E i \in todo[p] : (\A j \in todo[p] : i <= j) /\ Dispatch(p, i)
    <3> PICK i \in todo[p] : (\A j \in todo[p] : i <= j) /\ Dispatch(p, i)
      BY <2>2
    <3>1. i \in Inputs /\ Lowest(p, i) /\ saver' # p
      BY <1>1, <1>2, <2>2 DEF Lowest, Saving
    <3>2. CASE mem[i] = "queued"
      BY <2>2, <3>1, <3>2 DEF Dispatch
    <3>3. CASE mem[i] # "queued"
      <4>1. Return(p, i, mem[i] = "delivered")
        BY <3>3 DEF Dispatch
      <4> QED BY <1>3, <2>2, <3>1, <4>1
    <3> QED BY <3>2, <3>3
  <2> QED BY <1>5, <2>1, <2>2 DEF ReleaseNext, fileVars
<1>6. CASE SaveBegins(p)
  BY <1>6 DEF SaveBegins
<1>7. CASE SaveWritten(p) \/ SaveSkipped(p)
  <2>1. Saved(p)
    BY <1>7 DEF SaveWritten, SaveSkipped
  <2>2. CASE pc[p] = "startSave"
    BY <1>7, <2>1, <2>2 DEF Saved, SaveWritten, SaveSkipped, Goto
  <2>3. CASE pc[p] \in {"endSaveYes", "endSaveNo", "uncertainSave"}
    BY <1>3, <2>1, <2>3 DEF Saved
  <2>4. CASE pc[p] = "ledgerSave"
    BY <2>1, <2>4 DEF Saved
  <2> QED BY <1>1, <2>1, <2>2, <2>3, <2>4 DEF Saved, ReleaseHands
<1>8. CASE SaveFails(p)
  <2>1. CASE pc[p] \in {"endSaveYes", "endSaveNo"} /\ Goto(p, "uncertainSave")
    BY <2>1 DEF Goto
  <2>2. CASE Return(p, cur[p], FALSE) \/ Stop(p)
    BY <2>2, <1>3
  <2> QED BY <1>8, <2>1, <2>2 DEF SaveFails
<1>9. CASE SendAccepted(p)
  <2>1. cur[p] \in Inputs /\ cur[p] \notin Receipted
    BY <1>1, <1>9, ReceiptedAssumption DEF SendAccepted, ReleaseHands
  <2>2. sent'[cur[p]] > 0
    BY <1>9, <2>1 DEF SendAccepted, Deliveries
  <2> QED BY <1>9, <2>1, <2>2 DEF SendAccepted, Goto
<1>10. CASE SendRefused(p) \/ SendThrows(p)
  BY <1>10 DEF SendRefused, SendThrows, Goto
<1>11. CASE WriteReceipt(p) \/ ReceiptFails(p)
  BY <1>1, <1>11 DEF WriteReceipt, ReceiptFails, ReleaseHands
<1>12. ~CancelQueued(p) /\ ~ClearQueued(p) /\ ~ReportCleared(p) /\ ~RecoverNext(p)
  BY <1>1 DEF CancelQueued, ClearQueued, ReportCleared, RecoverNext, ReleaseHands
<1> QED BY <1>1, <1>4, <1>5, <1>6, <1>7, <1>8, <1>9, <1>10, <1>11, <1>12 DEF ProcessStep

(* Another process leaves a release, its records and its save alone. *)
LEMMA OtherReleaseRests ==
  ASSUME TypeInv, DeliveryInv, NEW p \in Procs, ProcessStep(p), NEW q \in Releasers, q # p
  PROVE  /\ pc'[q] = pc[q] /\ cur'[q] = cur[q] /\ todo'[q] = todo[q]
         /\ saver' = q => saver = q /\ image' = image
<1>1. q \in Procs \ {p} /\ q # NoProc
  BY ProcsDisjoint DEF Procs
<1> QED BY <1>1, OthersRest, FilesStep DEF fileVars, BeginsSave, EndsSave

LEMMA OrderKept ==
  ASSUME TypeInv, DeliveryInv, OrderInv, NEW p \in Procs, ProcessStep(p)
  PROVE  QueuedInOrder' /\ \A i \in Inputs : mem[i] # "absent" => mem'[i] # "absent"
<1> USE DEF TypeInv, TypeOK
<1>1. ASSUME NEW i \in Inputs, mem[i] # "absent" PROVE mem'[i] # "absent"
  BY <1>1, RecordStep DEF Deliveries
<1>2. ASSUME NEW j \in Inputs, mem[j] = "absent", mem'[j] # "absent" PROVE QueueInput(p, j)
  <2>1. j \in Deliveries /\ sent[j] = 0 /\ ~MaySendNow(p, j) /\ j \notin Notes
    BY <1>2, KindsDisjoint DEF Deliveries, DeliveryInv, UnsentOnRecord, Unsent, OneSender, InFlight
  <2>2. pc[p] \in {"receipt", "endSaveYes", "endSaveNo"} => cur[p] # j
    BY <1>2, <2>1 DEF OrderInv, OnlyReleases, LowestInHand, ReleaseHands, Lowest, InHand
  <2> QED BY <1>2, <2>1, <2>2, RecordStep
<1>3. ASSUME NEW i \in Inputs, NEW j \in Inputs, i < j, mem'[j] # "absent" PROVE mem'[i] # "absent"
  <2>1. CASE mem[j] # "absent"
    BY <1>1, <1>3, <2>1 DEF OrderInv, QueuedInOrder
  <2>2. CASE QueueInput(p, j)
    <3>1. i \in 1..(j-1)
      BY <1>3, InputCountAssumption DEF Inputs
    <3> QED BY <1>1, <2>2, <3>1 DEF QueueInput
  <2> QED BY <1>2, <1>3, <2>1, <2>2
<1>4. QueuedInOrder'
  BY <1>3, FilesStep DEF OrderInv, QueuedInOrder, fileVars, BeginsSave, EndsSave
<1> QED BY <1>1, <1>4

LEMMA SendersKept ==
  ASSUME TypeInv, DeliveryInv, OrderInv, NEW p \in Procs, ProcessStep(p)
  PROVE  OnlyReleases'
<1> USE DEF TypeInv, TypeOK, OrderInv, OnlyReleases
<1>1. "recovery" \in Procs /\ "recovery" \notin Callers \cup Releasers \cup {"cancel", "clear"}
  BY ProcsDisjoint DEF Procs
<1>2. ASSUME p \notin Releasers
      PROVE  /\ p = "recovery" => todo'[p] \subseteq todo[p]
             /\ pc'[p] \in InHand \ {"queueSave"} => cur'[p] \in Notes
  <2>1. CASE StepsAside(p)
    BY <1>2, <2>1 DEF StepsAside, At, InHand
  <2>2. CASE SaveWritten(p) \/ SaveSkipped(p)
    BY <1>2, <2>1, <2>2, SavedMoves DEF SaveWritten, SaveSkipped, At, InHand
  <2>3. CASE SaveFails(p)
    <3>1. CASE Return(p, cur[p], FALSE) /\ pc[p] \in InHand
      BY <2>1, <3>1, ReturnMoves DEF HandsFull
    <3>2. CASE Stop(p)
      BY <2>1, <3>2, StopStepsAside
    <3>3. CASE pc[p] \in {"endSaveYes", "endSaveNo"} /\ Goto(p, "uncertainSave")
      BY <1>2, <3>3 DEF Goto, At, InHand
    <3> QED BY <2>3, <3>1, <3>2, <3>3 DEF SaveFails, InHand
  <2>4. CASE RecoverNext(p)
    <3>1. p = "recovery"
      BY <2>4 DEF RecoverNext
    <3> QED BY <2>1, <2>4, <3>1, RecoverMoves DEF At, InHand
  <2>5. CASE ~(SaveWritten(p) \/ SaveSkipped(p) \/ SaveFails(p) \/ RecoverNext(p))
    BY <1>1, <1>2, <2>5 DEF ProcessStep, QueueNote, QueueInput, CancelQueued, ClearQueued, Drop,
         ReportCleared, SaveBegins,
       SendAccepted, SendRefused, SendThrows, WriteReceipt, ReceiptFails, procVars, Goto, At, InHand
  <2> QED BY <2>2, <2>3, <2>4, <2>5
<1>3. p \in Releasers => p # "recovery"
  BY <1>1
<1>4. \A q \in Procs \ {p} : pc'[q] = pc[q] /\ cur'[q] = cur[q]
  BY OthersRest
<1>5. \A q \in Procs \ {p} : todo'[q] = todo[q]
  BY OthersRest
<1> QED BY <1>1, <1>2, <1>3, <1>4, <1>5

LEMMA LowestKept ==
  ASSUME TypeInv, DeliveryInv, OrderInv, NEW p \in Procs, ProcessStep(p)
  PROVE  LowestInHand'
<1> USE DEF TypeInv, TypeOK, LowestInHand, Lowest
<1>1. ASSUME NEW q \in Releasers, q # p
      PROVE  /\ pc'[q] \in {"idle", "release"} \cup ReleaseHands
             /\ pc'[q] = "idle" => todo'[q] = {}
             /\ pc'[q] \in ReleaseHands => Lowest(q, cur[q])'
  BY <1>1, OtherReleaseRests DEF OrderInv
<1>2. ASSUME p \in Releasers
      PROVE  /\ pc'[p] \in {"idle", "release"} \cup ReleaseHands
             /\ pc'[p] = "idle" => todo'[p] = {}
             /\ pc'[p] \in ReleaseHands => Lowest(p, cur[p])'
  BY <1>2, ReleaseSteps DEF OrderInv, ReleaseStep, ReleaseHands, At, Stop, procVars
<1>3. ASSUME NEW q \in Releasers, NEW i \in todo'[q] PROVE mem'[i] # "absent"
  <2>0. q \in Procs /\ todo[q] \subseteq Inputs
    BY DEF Procs, HandsFull
  <2>1. CASE q # p
    <3>1. i \in todo[q] /\ mem[i] # "absent"
      BY <1>3, <2>1, OtherReleaseRests DEF OrderInv
    <3> QED BY <2>0, <3>1, OrderKept
  <2>2. CASE q = p
    <3>1. i \in todo[q] \/ (i \in Inputs /\ mem[i] # "absent")
      BY <1>3, <2>0, <2>2, ReleaseSteps DEF ReleaseStep, At, Stop, procVars
    <3> QED BY <2>0, <3>1, OrderKept DEF OrderInv
  <2> QED BY <2>1, <2>2
<1> QED BY <1>1, <1>2, <1>3

LEMMA ReportedKept ==
  ASSUME TypeInv, DeliveryInv, OrderInv, NEW p \in Procs, ProcessStep(p)
  PROVE  ReportedIsSent'
<1> USE DEF TypeInv, TypeOK, OrderInv, ReportedIsSent
<1>1. \A d \in Deliveries : sent[d] > 0 => sent'[d] > 0
  BY OthersRest
<1>2. ASSUME NEW q \in Releasers PROVE pc[q] \in ReleaseHands => cur[q] \in Deliveries
  BY DEF LowestInHand, Lowest, Procs
<1>3. ASSUME NEW q \in Releasers, q # p, pc'[q] \in {"endSaveYes", "ledgerSave"} PROVE sent'[cur'[q]] > 0
  BY <1>1, <1>2, <1>3, OtherReleaseRests DEF ReleaseHands
<1>4. ASSUME p \in Releasers, pc'[p] \in {"endSaveYes", "ledgerSave"} PROVE sent'[cur'[p]] > 0
  <2>1. ASSUME NEW i \in Inputs, mem[i] = "delivered" PROVE sent[i] > 0 /\ i \in Deliveries
    BY <2>1 DEF DeliveryInv, SentOnRecord, Deliveries
  <2> QED BY <1>1, <1>2, <1>4, <2>1, ReleaseSteps DEF ReleaseStep, At, Stop, procVars, ReleaseHands
<1> QED BY <1>3, <1>4

LEMMA BehindKept ==
  ASSUME TypeInv, DeliveryInv, OrderInv, NEW p \in Procs, ProcessStep(p)
  PROVE  BehindIsSettled'
<1> USE DEF TypeInv, TypeOK
<1> SUFFICES ASSUME NEW q \in Releasers, NEW i \in Inputs, NEW j \in todo'[q], i < j, i \notin todo'[q]
             PROVE  Settled(i)'
  BY DEF BehindIsSettled
<1>1. q \in Procs /\ i \in Deliveries /\ todo[q] \subseteq Inputs
  BY DEF Procs, Deliveries, HandsFull
<1>2. CASE j \in todo[q] /\ i \notin todo[q]
  BY <1>1, <1>2, SettledStays DEF OrderInv, BehindIsSettled
<1>3. CASE /\ q = p /\ UNCHANGED mem
           /\ todo'[q] = {k \in Inputs : mem[k] # "absent" /\ ~Terminal(mem[k])}
  <2>1. Terminal(mem[i])
    BY <1>3 DEF OrderInv, QueuedInOrder
  <2>2. CASE mem[i] = "delivered"
    BY <1>1, <2>2, SettledStays DEF DeliveryInv, SentOnRecord, Settled
  <2>3. CASE mem[i] = "cancelled"
    BY <1>1, <2>3, SettledStays DEF DeliveryInv, UnsentOnRecord, Unsent, OneSender, InFlight,
       Settled, OutOfReach, Gone
  <2> QED BY <2>1, <2>2, <2>3 DEF Terminal
<1>4. CASE q = p /\ pc[p] = "ledgerSave" /\ todo'[q] = todo[q] \ {cur[q]}
  <2>1. CASE i = cur[q]
    BY <1>1, <1>4, <2>1, SettledStays DEF OrderInv, ReportedIsSent, Settled
  <2> QED BY <1>2, <1>4, <2>1
<1> QED BY <1>1, <1>2, <1>3, <1>4, OtherReleaseRests, ReleaseSteps DEF ReleaseStep, At, Stop,
       procVars

LEMMA SavedKept ==
  ASSUME TypeInv, DeliveryInv, OrderInv, NEW p \in Procs, ProcessStep(p), Next
  PROVE  SavedBehind'
<1> USE DEF TypeInv, TypeOK
<1> SUFFICES ASSUME NEW q \in Releasers, NEW i \in Inputs, i < cur'[q]
             PROVE  /\ pc'[q] = "startSave" /\ saver' = q => sent'[i] > 0 \/ image'[i] \in Gone
                    /\ pc'[q] = "send" => Passed(i)'
  BY DEF SavedBehind
<1>1. q \in Procs /\ i \in Deliveries /\ (sent[i] > 0 => sent'[i] > 0)
  BY OthersRest DEF Procs, Deliveries
<1>2. CASE q # p
  BY <1>1, <1>2, OtherReleaseRests, PassedStays DEF OrderInv, SavedBehind
<1>3. ASSUME pc[q] = "startSave", i < cur[q] PROVE Settled(i)
  <2>1. cur[q] \in todo[q] /\ i \notin todo[q]
    BY <1>3, InputCountAssumption DEF OrderInv, LowestInHand, Lowest, ReleaseHands, HandsFull,
       Inputs
  <2> QED BY <1>3, <2>1 DEF OrderInv, BehindIsSettled
<1>4. CASE q = p /\ UNCHANGED procVars /\ saver' = p /\ image' = mem
  <2>1. pc[q] = "startSave" => sent[i] > 0 \/ image'[i] \in Gone
    BY <1>3, <1>4 DEF Settled, OutOfReach, procVars
  <2>2. pc[q] = "send" => Passed(i)'
    BY <1>1, <1>4, PassedStays DEF OrderInv, SavedBehind, procVars
  <2> QED BY <1>1, <1>4, <2>1, <2>2 DEF procVars
<1>5. CASE /\ q = p /\ pc[p] = "startSave" /\ saver = p /\ disk' = image /\ image' = image
           /\ At(p, "send", cur[p], todo[p])
  <2>1. Settled(i) /\ Settled(i)' /\ (sent[i] > 0 \/ image[i] \in Gone)
    BY <1>1, <1>3, <1>5, SettledStays DEF At, OrderInv, SavedBehind
  <2> QED BY <1>1, <1>5, <2>1 DEF At, Settled, Passed, Lost
<1>6. CASE q = p /\ pc'[p] = "startSave" /\ saver' # p
  BY <1>6
<1>7. CASE q = p /\ pc'[p] \notin {"startSave", "send"}
  BY <1>7
<1> QED BY <1>1, <1>2, <1>4, <1>5, <1>6, <1>7, ReleaseSteps DEF ReleaseStep, At, Stop

(* A message is sent when all inputs before it are sent or lost. *)
LEMMA SentKept ==
  ASSUME TypeInv, DeliveryInv, OrderInv, NEW p \in Procs, ProcessStep(p), Next
  PROVE  SentInOrder'
<1> SUFFICES ASSUME NEW i \in Inputs, NEW j \in Inputs, i < j, sent'[j] > 0 PROVE Passed(i)'
  BY DEF SentInOrder
<1>1. i \in Deliveries /\ j \in Deliveries /\ j \notin Notes
  BY KindsDisjoint DEF Deliveries
<1>2. CASE sent[j] > 0
  BY <1>1, <1>2, PassedStays DEF OrderInv, SentInOrder
<1>3. CASE pc[p] = "send" /\ cur[p] = j
  <2>1. p \in Releasers
    BY <1>1, <1>3 DEF OrderInv, OnlyReleases, InHand
  <2>2. Passed(i)
    BY <1>3, <2>1 DEF OrderInv, SavedBehind
  <2> QED BY <1>1, <2>2, PassedStays
<1> QED BY <1>1, <1>2, <1>3, OthersRest DEF TypeInv, TypeOK

(* Every step keeps the order. *)
LEMMA OrderStep == TypeInv /\ DeliveryInv /\ OrderInv /\ [Next]_vars => OrderInv'
<1> SUFFICES ASSUME TypeInv, DeliveryInv, OrderInv, [Next]_vars PROVE OrderInv'
  OBVIOUS
<1>1. CASE UNCHANGED vars
  BY <1>1 DEF vars, fileVars, procVars, obsVars, OrderInv, QueuedInOrder, OnlyReleases,
     LowestInHand, Lowest, ReportedIsSent, BehindIsSettled, SavedBehind, SentInOrder, Settled,
     Passed, Lost, OutOfReach, MaySendNow
<1>2. CASE Next /\ \E p \in Procs : ProcessStep(p)
  BY <1>2, OrderKept, SendersKept, LowestKept, ReportedKept, BehindKept, SavedKept, SentKept
     DEF OrderInv
<1>3. ASSUME Next, Close \/ ShutDown \/ Crash \/ Restart PROVE SentInOrder'
  <2> SUFFICES ASSUME NEW i \in Inputs, NEW j \in Inputs, i < j, sent'[j] > 0 PROVE Passed(i)'
    BY DEF SentInOrder
  <2>1. sent' = sent /\ i \in Deliveries
    BY <1>3 DEF Close, ShutDown, Crash, End, Restart, obsVars, Deliveries
  <2> QED BY <1>3, <2>1, PassedStays DEF OrderInv, SentInOrder
<1>4. CASE Next /\ Close
  BY <1>3, <1>4 DEF Close, fileVars, procVars, obsVars, OrderInv, QueuedInOrder, OnlyReleases,
     LowestInHand, Lowest, ReportedIsSent, BehindIsSettled, SavedBehind, Settled, Passed, Lost,
     OutOfReach, MaySendNow
<1>5. CASE Next /\ (ShutDown \/ Crash)
  <2>1. /\ \A p \in Procs : pc'[p] = "idle" /\ todo'[p] = {}
        /\ mem' \in {mem, disk, image} /\ disk' = mem' /\ image' = mem'
    BY <1>5 DEF ShutDown, Crash, End
  <2>2. "recovery" \in Procs /\ Releasers \subseteq Procs
    BY DEF Procs
  <2>3. QueuedInOrder'
    BY <2>1 DEF OrderInv, QueuedInOrder
  <2>4. OnlyReleases' /\ LowestInHand' /\ ReportedIsSent' /\ BehindIsSettled' /\ SavedBehind'
    BY <2>1, <2>2 DEF OnlyReleases, LowestInHand, ReportedIsSent, BehindIsSettled, SavedBehind,
       InHand, ReleaseHands
  <2> QED BY <1>3, <1>5, <2>3, <2>4 DEF OrderInv
<1>6. CASE Next /\ Restart
  <2>1. /\ UNCHANGED <<disk, image>>
        /\ \A i \in Inputs : mem'[i] = disk[i]
    BY <1>6, KindsDisjoint DEF Restart, fileVars, Deliveries
  <2>2. /\ \A p \in Procs : pc[p] = "idle"
        /\ \A p \in Procs \ {"recovery"} : pc'[p] = "idle" /\ todo'[p] = todo[p]
        /\ pc'["recovery"] = "recover" /\ todo'["recovery"] = Notes
    BY <1>6 DEF Restart, At, DeliveryInv, DownIsQuiet, TypeInv, TypeOK, Procs
  <2>3. Releasers \subseteq Procs \ {"recovery"}
    BY ProcsDisjoint DEF Procs
  <2>4. \A p \in Releasers : pc'[p] = "idle" /\ todo'[p] = {}
    BY <2>2, <2>3 DEF OrderInv, LowestInHand
  <2>5. QueuedInOrder'
    BY <2>1 DEF OrderInv, QueuedInOrder
  <2>6. OnlyReleases'
    BY <2>2 DEF OnlyReleases, InHand
  <2>7. LowestInHand' /\ ReportedIsSent' /\ BehindIsSettled' /\ SavedBehind'
    BY <2>4 DEF LowestInHand, ReportedIsSent, BehindIsSettled, SavedBehind, ReleaseHands
  <2> QED BY <1>3, <1>6, <2>5, <2>6, <2>7 DEF OrderInv
<1> QED BY <1>1, <1>2, <1>4, <1>5, <1>6, NextSplits

(***************************************************************************)
(* No held input is sent after a later one: across concurrent releases,    *)
(* failed saves, cancellations, crashes and restarts.                      *)
(***************************************************************************)
THEOREM InputsInOrder == Spec => NeverOvertaken
<1>1. Init => OrderInv
  BY ProcsDisjoint DEF Init, Idle, OrderInv, QueuedInOrder, OnlyReleases, LowestInHand,
     ReportedIsSent, BehindIsSettled, SavedBehind, SentInOrder, InHand, ReleaseHands, Procs,
     Deliveries
<1>2. TypeInv /\ DeliveryInv /\ OrderInv /\ [Next]_vars =>
        [\A i, j \in Inputs : i < j /\ sent[j] > 0 /\ sent[i] = 0 => sent'[i] = 0]_vars
  <2> SUFFICES ASSUME TypeInv, DeliveryInv, OrderInv, Next, NEW i \in Inputs, NEW j \in Inputs,
                      i < j, sent[j] > 0, sent[i] = 0
               PROVE  sent'[i] = 0
    OBVIOUS
  <2>1. i \in Deliveries /\ OutOfReach(i)
    BY DEF Deliveries, OrderInv, SentInOrder, Passed, Lost
  <2>2. CASE \E p \in Procs : ProcessStep(p)
    BY <2>1, <2>2, OthersRest DEF OutOfReach, MaySendNow
  <2>3. CASE Close \/ ShutDown \/ Crash \/ Restart
    BY <2>3 DEF Close, ShutDown, Crash, End, Restart, obsVars
  <2> QED BY <2>2, <2>3, NextSplits
<1>3. TypeInv /\ DeliveryInv /\ OrderInv /\ [Next]_vars => OrderInv'
  BY OrderStep
<1> QED BY <1>1, <1>2, <1>3, InvCorrect, PTL DEF Spec, NeverOvertaken
=============================================================================
