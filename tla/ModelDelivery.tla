--------------------------- MODULE ModelDelivery ---------------------------
(***************************************************************************)
(* Durable deliveries to the model: the list pendingModelDeliveries, the   *)
(* routines that dispatch its records, and their recovery after a restart. *)
(*                                                                         *)
(* Two kinds of record matter.  Notes are notifications (reviews,          *)
(* authorisations, reviewer answers); Receipted notes belong to a review   *)
(* run and leave a receipt file.  Inputs are user messages held back       *)
(* during a review, numbered in the order they were queued.                *)
(*                                                                         *)
(* Several asynchronous routines, here processes, work on the same list    *)
(* and interleave at every await: Callers deliver a note, Releasers        *)
(* release the held inputs, "recovery" runs at session start, "cancel" is  *)
(* the end of a cancelled review, "clear" is /review-clear.  Saves are     *)
(* admitted one at a time; each writes the list as it stood at admission.  *)
(***************************************************************************)
EXTENDS Naturals, FiniteSets

CONSTANTS Notes, Receipted, InputCount, Callers, Releasers,
          NoDelivery,      \* no record in hand
          NoProc,          \* no save is being written
          MaxRestarts      \* bound: sessions that may follow the first

Inputs     == 1..InputCount
Deliveries == Notes \cup Inputs
Procs      == Callers \cup Releasers \cup {"recovery", "cancel", "clear"}

ASSUME InputCountAssumption == InputCount \in Nat
ASSUME RestartsAssumption == MaxRestarts \in Nat
ASSUME ReceiptedAssumption == Receipted \subseteq Notes
ASSUME KindsDisjoint == Notes \cap Inputs = {} /\ NoDelivery \notin Deliveries
ASSUME ProcsDisjoint ==
  /\ Callers \cap Releasers = {}
  /\ {"recovery", "cancel", "clear"} \cap (Callers \cup Releasers) = {}
  /\ NoProc \notin Procs

VARIABLES mem,        \* status of each record in memory
          disk,       \* status of each record in the session sidecar
          saver,      \* the process whose save is being written
          image,      \* what that save writes; what is on disk if none is
          receipt,    \* notes with a durable receipt
          session,    \* "up", "closing" (inactive, still running) or "down"
          restarts,   \* sessions started after the first
          pc, cur, todo,    \* per process: position, record in hand, records left
          (* observations, never read by the program *)
          sent,       \* how often the host accepted each message
          dropped,    \* records whose cancellation was both saved and reported
          calm        \* nothing has failed since this session started

fileVars == <<disk, saver, image>>
procVars == <<pc, cur, todo>>
obsVars  == <<sent, dropped, calm>>
vars == <<mem, fileVars, receipt, session, restarts, procVars, obsVars>>

Status == {"absent", "queued", "dispatching", "delivered", "uncertain", "cancelled"}
Saving == {"queueSave", "startSave", "endSaveYes", "endSaveNo", "uncertainSave",
           "ledgerSave", "recoverSave", "cancelSave"}
PCs    == {"idle", "send", "receipt", "recover", "release", "cleared"} \cup Saving

TypeOK ==
  /\ mem \in [Deliveries -> Status] /\ disk \in [Deliveries -> Status]
  /\ saver \in Procs \cup {NoProc} /\ image \in [Deliveries -> Status]
  /\ receipt \subseteq Receipted
  /\ session \in {"up", "closing", "down"} /\ restarts \in 0..MaxRestarts
  /\ pc \in [Procs -> PCs]
  /\ cur \in [Procs -> Deliveries \cup {NoDelivery}]
  /\ todo \in [Procs -> SUBSET Deliveries]
  /\ sent \in [Deliveries -> Nat]
  /\ dropped \subseteq Deliveries
  /\ calm \in BOOLEAN

Idle == /\ pc = [p \in Procs |-> "idle"]
        /\ cur = [p \in Procs |-> NoDelivery]
        /\ todo = [p \in Procs |-> {}]

Init ==
  /\ mem = [d \in Deliveries |-> "absent"] /\ disk = mem
  /\ saver = NoProc /\ image = mem
  /\ receipt = {} /\ session = "up" /\ restarts = 0
  /\ Idle
  /\ sent = [d \in Deliveries |-> 0]
  /\ dropped = {} /\ calm = TRUE

Active         == session = "up"
Terminal(s)    == s \in {"delivered", "cancelled"}
SetStatus(d,s) == mem' = [mem EXCEPT ![d] = s]

(* p goes to position pos with record d in hand and records T left. *)
At(p, pos, d, T) ==
  /\ pc' = [pc EXCEPT ![p] = pos]
  /\ cur' = [cur EXCEPT ![p] = d]
  /\ todo' = [todo EXCEPT ![p] = T]
Goto(p, pos) == At(p, pos, cur[p], todo[p])
Stop(p)      == At(p, "idle", NoDelivery, {})

Calm  == UNCHANGED <<calm, dropped>>
Fault == calm' = FALSE /\ UNCHANGED dropped

(* Mutant: the release loop steps over a record it could not send. *)
MutReturnReleaseGoesOn(p, d, ok) ==
  IF p \in Releasers THEN At(p, "ledgerSave", d, todo[p])
  ELSE IF p = "recovery" THEN At(p, "recover", NoDelivery, todo[p] \ {d})
  ELSE Stop(p)

(***************************************************************************)
(* dispatchModelDelivery has returned to its caller p: ok says that it     *)
(* returned true.  A release goes on only then; recovery goes on always.   *)
(***************************************************************************)
Return(p, d, ok) ==
  IF p \in Releasers /\ ok THEN At(p, "ledgerSave", d, todo[p])
  ELSE IF p = "recovery" THEN At(p, "recover", NoDelivery, todo[p] \ {d})
  ELSE Stop(p)

(* Mutant: a record cancelled during the caller's save is still dispatched. *)
MutDispatchCancelled(p, d) ==
  /\ Calm
  /\ IF mem[d] \in {"queued", "cancelled"}
     THEN SetStatus(d, "dispatching") /\ At(p, "startSave", d, todo[p])
     ELSE UNCHANGED mem /\ Return(p, d, mem[d] = "delivered")

(* Entry of dispatchModelDelivery: only a queued record is ever dispatched. *)
Dispatch(p, d) ==
  /\ Calm
  /\ IF mem[d] = "queued"
     THEN SetStatus(d, "dispatching") /\ At(p, "startSave", d, todo[p])
     ELSE UNCHANGED mem /\ Return(p, d, mem[d] = "delivered")

(* queueModelDelivery: an identifier already in the list is not added twice. *)
QueueNote(p, d) ==
  /\ Active /\ pc[p] = "idle"
  /\ mem' = IF mem[d] = "absent" THEN [mem EXCEPT ![d] = "queued"] ELSE mem
  /\ At(p, "queueSave", d, {})
  /\ UNCHANGED <<fileVars, receipt, session, restarts, obsVars>>

(* The input hook, while a review holds the user's input back. *)
QueueInput(p, i) ==
  /\ Active /\ pc[p] = "idle"
  /\ mem[i] = "absent" /\ \A j \in 1..(i-1) : mem[j] # "absent"
  /\ SetStatus(i, "queued")
  /\ At(p, "queueSave", i, {})
  /\ UNCHANGED <<fileVars, receipt, session, restarts, obsVars>>

(* What a process does once the save it awaited has resolved. *)
Saved(p) ==
  \/ /\ pc[p] = "queueSave"
     /\ IF cur[p] \in Notes /\ Active
        THEN Dispatch(p, cur[p])
        ELSE Stop(p) /\ Calm /\ UNCHANGED mem
  \/ /\ pc[p] = "startSave"
     /\ Goto(p, "send") /\ Calm /\ UNCHANGED mem
  \/ /\ pc[p] \in {"endSaveYes", "endSaveNo", "uncertainSave"}
     /\ Calm /\ UNCHANGED mem /\ Return(p, cur[p], pc[p] = "endSaveYes")
  \/ /\ pc[p] = "ledgerSave"
     /\ At(p, "release", NoDelivery, todo[p] \ {cur[p]})
     /\ Calm /\ UNCHANGED mem
  \/ /\ pc[p] = "recoverSave"
     /\ At(p, "recover", NoDelivery, todo[p] \ {cur[p]})
     /\ Calm /\ UNCHANGED mem
  \/ /\ pc[p] = "cancelSave"
     /\ Stop(p)
     /\ dropped' = IF Active THEN dropped \cup todo[p] ELSE dropped
     /\ UNCHANGED <<mem, calm>>

(* store.save serialises the list when it is admitted; the write follows. *)
SaveBegins(p) ==
  /\ session # "down" /\ pc[p] \in Saving /\ saver = NoProc
  /\ saver' = p /\ image' = mem
  /\ UNCHANGED <<mem, disk, receipt, session, restarts, procVars, obsVars>>

SaveWritten(p) ==
  /\ saver = p
  /\ saver' = NoProc /\ disk' = image
  /\ Saved(p)
  /\ UNCHANGED <<image, receipt, session, restarts, sent>>

(***************************************************************************)
(* An inactive session resolves persist() without writing.  The save that  *)
(* precedes a send was asked for while the session was active: it writes.  *)
(***************************************************************************)
SaveSkipped(p) ==
  /\ session = "closing" /\ saver # p /\ pc[p] # "startSave"
  /\ Saved(p)
  /\ UNCHANGED <<fileVars, receipt, session, restarts, sent>>

(***************************************************************************)
(* A save that throws; releasing a checkpoint may fail after the write.    *)
(* The save before the send is outside the try: the record is left         *)
(* dispatching.  A failure of the one after it makes the record uncertain. *)
(***************************************************************************)
SaveFails(p) ==
  /\ saver = p
  /\ saver' = NoProc /\ disk' \in {disk, image} /\ image' = disk'
  /\ Fault
  /\ \/ /\ pc[p] \in {"endSaveYes", "endSaveNo"}
        /\ SetStatus(cur[p], "uncertain") /\ Goto(p, "uncertainSave")
     \/ /\ pc[p] \in {"startSave", "uncertainSave"}
        /\ UNCHANGED mem /\ Return(p, cur[p], FALSE)
     \/ /\ pc[p] \in {"queueSave", "ledgerSave", "recoverSave", "cancelSave"}
        /\ Stop(p) /\ UNCHANGED mem
  /\ UNCHANGED <<receipt, session, restarts, sent>>

(* A held input is sent while active only; for notes the commands do not look. *)
MaySend(p) == Active \/ cur[p] \in Notes

(* Mutant: a receipt is written for records that have no review run. *)
MutSendAcceptedAlwaysReceipt(p) ==
  /\ session # "down" /\ pc[p] = "send" /\ MaySend(p)
  /\ sent' = [sent EXCEPT ![cur[p]] = @ + 1]
  /\ Goto(p, "receipt")
  /\ UNCHANGED <<mem, fileVars, receipt, session, restarts, dropped, calm>>

SendAccepted(p) ==
  /\ session # "down" /\ pc[p] = "send" /\ MaySend(p)
  /\ sent' = [sent EXCEPT ![cur[p]] = @ + 1]
  /\ IF cur[p] \in Receipted
     THEN Goto(p, "receipt") /\ UNCHANGED mem
     ELSE Goto(p, "endSaveYes") /\ SetStatus(cur[p], "delivered")
  /\ UNCHANGED <<fileVars, receipt, session, restarts, dropped, calm>>

(* Mutant: a send the host refused is taken for a delivery. *)
MutSendRefusedDelivered(p) ==
  /\ session # "down" /\ pc[p] = "send"
  /\ Goto(p, "endSaveNo") /\ SetStatus(cur[p], "delivered")
  /\ Fault /\ UNCHANGED <<fileVars, receipt, session, restarts, sent>>

(* The session has gone inactive or the host offers no way to send. *)
SendRefused(p) ==
  /\ session # "down" /\ pc[p] = "send"
  /\ Goto(p, "endSaveNo") /\ SetStatus(cur[p], "queued")
  /\ Fault /\ UNCHANGED <<fileVars, receipt, session, restarts, sent>>

(* Mutant: a send that threw is queued again. *)
MutSendThrowsRequeued(p) ==
  /\ session # "down" /\ pc[p] = "send" /\ MaySend(p)
  /\ sent' \in {sent, [sent EXCEPT ![cur[p]] = @ + 1]}
  /\ Goto(p, "endSaveNo") /\ SetStatus(cur[p], "queued")
  /\ Fault /\ UNCHANGED <<fileVars, receipt, session, restarts>>

(* The host call rejects; the message may have been accepted all the same. *)
SendThrows(p) ==
  /\ session # "down" /\ pc[p] = "send" /\ MaySend(p)
  /\ sent' \in {sent, [sent EXCEPT ![cur[p]] = @ + 1]}
  /\ Goto(p, "uncertainSave") /\ SetStatus(cur[p], "uncertain")
  /\ Fault /\ UNCHANGED <<fileVars, receipt, session, restarts>>

WriteReceipt(p) ==
  /\ session # "down" /\ pc[p] = "receipt"
  /\ receipt' = receipt \cup {cur[p]}
  /\ Goto(p, "endSaveYes") /\ SetStatus(cur[p], "delivered")
  /\ UNCHANGED <<fileVars, session, restarts, obsVars>>

ReceiptFails(p) ==
  /\ session # "down" /\ pc[p] = "receipt"
  /\ Goto(p, "uncertainSave") /\ SetStatus(cur[p], "uncertain")
  /\ Fault /\ UNCHANGED <<fileVars, receipt, session, restarts, sent>>

(* releaseQueuedUserInputs: the records to release are chosen at the start. *)
StartRelease(p) ==
  /\ Active /\ pc[p] = "idle"
  /\ At(p, "release", NoDelivery,
        {i \in Inputs : mem[i] # "absent" /\ ~Terminal(mem[i])})
  /\ UNCHANGED <<mem, fileVars, receipt, session, restarts, obsVars>>

ReleaseNext(p) ==
  /\ session # "down" /\ pc[p] = "release"
  /\ \/ /\ todo[p] = {} \/ ~Active
        /\ Stop(p) /\ Calm /\ UNCHANGED mem
     \/ /\ Active
        /\ \E i \in todo[p] : (\A j \in todo[p] : i <= j) /\ Dispatch(p, i)
  /\ UNCHANGED <<fileVars, receipt, session, restarts, sent>>

(***************************************************************************)
(* recoverPendingModelDeliveries: a receipt proves delivery, a dispatch    *)
(* that began without one is uncertain, and only queued notes are sent.    *)
(***************************************************************************)
RecoverNext(p) ==
  /\ session # "down" /\ p = "recovery" /\ pc[p] = "recover"
  /\ \/ /\ \A d \in todo[p] : mem[d] = "absent"
        /\ Stop(p) /\ Calm /\ UNCHANGED mem
     \/ \E d \in {n \in todo[p] : mem[n] # "absent"} :
          \/ /\ Terminal(mem[d])
             /\ At(p, "recover", NoDelivery, todo[p] \ {d})
             /\ Calm /\ UNCHANGED mem
          \/ /\ ~Terminal(mem[d]) /\ (d \in receipt \/ mem[d] # "queued")
             /\ SetStatus(d, IF d \in receipt THEN "delivered" ELSE "uncertain")
             /\ At(p, "recoverSave", d, todo[p])
             /\ Calm
          \/ /\ mem[d] = "queued" /\ d \notin receipt
             /\ IF Active THEN Dispatch(p, d)
                ELSE Stop(p) /\ Calm /\ UNCHANGED mem
  /\ UNCHANGED <<fileVars, receipt, session, restarts, sent>>

(* Process p cancels the queued records of D in memory and goes to pos.    *)
Drop(p, D, pos) ==
  /\ Active /\ pc[p] = "idle"
  /\ LET C == {d \in D : mem[d] = "queued"} IN
       /\ mem' = [d \in Deliveries |-> IF d \in C THEN "cancelled" ELSE mem[d]]
       /\ At(p, pos, NoDelivery, C)
  /\ UNCHANGED <<fileVars, receipt, session, restarts, obsVars>>

(* A cancelled automatic review drops the queued inputs, saves, and only   *)
(* then reports how many it has dropped.                                   *)
CancelQueued(p) == p = "cancel" /\ Drop(p, Inputs, "cancelSave")

(***************************************************************************)
(* /review-clear drops every queued record.  Its handler removes bundles,  *)
(* sends the notice that the state is cleared and returns; only then does  *)
(* the wrapper of the command save.                                        *)
(***************************************************************************)
ClearQueued(p) == p = "clear" /\ Drop(p, Deliveries, "cleared")

ReportCleared(p) ==
  /\ session # "down" /\ pc[p] = "cleared"
  /\ Goto(p, "cancelSave")
  /\ UNCHANGED <<mem, fileVars, receipt, session, restarts, obsVars>>

(***************************************************************************)
(* session_shutdown goes inactive first, then saves once more after the    *)
(* saves already admitted.  A crash loses memory and may lose the write.   *)
(***************************************************************************)
Close ==
  /\ Active
  /\ session' = "closing"
  /\ UNCHANGED <<mem, fileVars, receipt, restarts, procVars, obsVars>>

End(saved) ==
  /\ session' = "down"
  /\ mem' = saved /\ disk' = saved /\ saver' = NoProc /\ image' = saved
  /\ pc' = [p \in Procs |-> "idle"]
  /\ cur' = [p \in Procs |-> NoDelivery]
  /\ todo' = [p \in Procs |-> {}]
  /\ UNCHANGED <<receipt, restarts, obsVars>>

ShutDown == session = "closing" /\ saver = NoProc /\ End(mem)
Crash    == session # "down" /\ (End(disk) \/ End(image))

(* Mutant: a dispatch cut short by the crash is queued again on restore. *)
MutRestartRequeues ==
  /\ session = "down" /\ restarts < MaxRestarts
  /\ session' = "up" /\ restarts' = restarts + 1
  /\ mem' = [d \in Deliveries |-> IF disk[d] = "dispatching" THEN "queued" ELSE disk[d]]
  /\ At("recovery", "recover", NoDelivery, Notes)
  /\ calm' = TRUE
  /\ UNCHANGED <<fileVars, receipt, sent, dropped>>

(***************************************************************************)
(* session_start restores the list and recovers it, visiting also what is  *)
(* added meanwhile.  A damaged checkpoint cancels the queued notes of the  *)
(* lost review while restoring.                                            *)
(***************************************************************************)
Restart ==
  /\ session = "down" /\ restarts < MaxRestarts
  /\ session' = "up" /\ restarts' = restarts + 1
  /\ \E damaged \in BOOLEAN :
       mem' = [d \in Deliveries |-> IF damaged /\ d \in Notes /\ disk[d] = "queued"
                                    THEN "cancelled" ELSE disk[d]]
  /\ At("recovery", "recover", NoDelivery, Notes)
  /\ calm' = TRUE
  /\ UNCHANGED <<fileVars, receipt, sent, dropped>>

Next ==
  \/ \E p \in Callers : \/ \E d \in Notes : QueueNote(p, d)
                        \/ \E i \in Inputs : QueueInput(p, i)
  \/ \E p \in Releasers : StartRelease(p) \/ ReleaseNext(p)
  \/ RecoverNext("recovery") \/ CancelQueued("cancel")
  \/ ClearQueued("clear") \/ ReportCleared("clear")
  \/ \E p \in Procs :
       \/ SaveBegins(p) \/ SaveWritten(p) \/ SaveSkipped(p) \/ SaveFails(p)
       \/ SendAccepted(p) \/ SendRefused(p) \/ SendThrows(p)
       \/ WriteReceipt(p) \/ ReceiptFails(p)
  \/ Close \/ ShutDown \/ Crash \/ Restart

Spec == Init /\ [][Next]_vars

-----------------------------------------------------------------------------

(***************************************************************************)
(* A message is sent to the model at most once: across concurrent          *)
(* dispatchers, failed saves, lost acknowledgements, crashes and restarts. *)
(***************************************************************************)
AtMostOnce == \A d \in Deliveries : sent[d] <= 1

(***************************************************************************)
(* What a cancelled review or /review-clear has cancelled is not sent as   *)
(* long as the session lasts, by whatever routine had it in hand; and once *)
(* the cancellation is both saved and reported, by no later session.       *)
(* /review-clear reports before it saves: what it reports is final only    *)
(* with the save, and a crash in between brings the record back.           *)
(***************************************************************************)
CancelledNeverSent ==
  \A d \in Deliveries : d \in dropped \/ mem[d] = "cancelled" => sent[d] = 0

(***************************************************************************)
(* A record is marked delivered, in memory or on disk, only if the host    *)
(* accepted the message; recovery may rely on a receipt for the same.      *)
(***************************************************************************)
DeliveredWasSent ==
  \A d \in Deliveries :
    mem[d] = "delivered" \/ disk[d] = "delivered" \/ d \in receipt => sent[d] > 0

(***************************************************************************)
(* A held input is never sent after one that was queued later: the release *)
(* loop stops at the first record it cannot send.                          *)
(***************************************************************************)
NeverOvertaken ==
  [][\A i, j \in Inputs : i < j /\ sent[j] > 0 /\ sent[i] = 0 => sent'[i] = 0]_vars

(***************************************************************************)
(* Why no message is sent twice: a record in one of the Unsent states,     *)
(* wherever it is written down, was never sent; the process that may send  *)
(* it is alone; and before it sends, the file says that it might have.     *)
(***************************************************************************)
Unsent    == {"absent", "queued", "cancelled"}
InFlight  == {"dispatching", "uncertain"}
Gone      == {"cancelled", "uncertain"}
MaySendNow(p, d) == pc[p] \in {"startSave", "send"} /\ cur[p] = d
InHand == {"queueSave", "startSave", "send", "receipt", "endSaveYes", "endSaveNo",
           "uncertainSave", "ledgerSave", "recoverSave"}

HandsFull ==
  /\ \A p \in Procs : pc[p] \in InHand => cur[p] \in Deliveries
  /\ \A p \in Procs : pc[p] = "receipt" => cur[p] \in Receipted
  /\ \A p \in Releasers : todo[p] \subseteq Inputs

SaverWaits  == saver # NoProc => pc[saver] \in Saving
DownIsQuiet == session = "down" => \A p \in Procs : pc[p] = "idle"

UnsentOnRecord ==
  \A d \in Deliveries : {mem[d], disk[d], image[d]} \cap Unsent # {} => sent[d] = 0

OneSender ==
  \A p \in Procs, d \in Deliveries : MaySendNow(p, d) =>
    /\ mem[d] \in InFlight /\ sent[d] = 0
    /\ \A q \in Procs : MaySendNow(q, d) => q = p

SavedBeforeSend ==
  \A p \in Procs, d \in Deliveries : MaySendNow(p, d) =>
    /\ pc[p] = "send" => disk[d] \in InFlight
    /\ pc[p] = "send" \/ saver = p => image[d] \in InFlight

SentOnRecord ==
  /\ \A d \in Deliveries :
       "delivered" \in {mem[d], disk[d], image[d]} \/ d \in receipt => sent[d] > 0
  /\ \A p \in Procs : pc[p] = "receipt" => sent[cur[p]] > 0

OutOfReach(d) == mem[d] \in Gone /\ sent[d] = 0 /\ \A p \in Procs : ~MaySendNow(p, d)

DroppedOutOfReach ==
  /\ \A d \in dropped : OutOfReach(d) /\ {disk[d], image[d]} \subseteq Gone
  /\ \A p \in Procs : pc[p] \in {"cleared", "cancelSave"} =>
       \A d \in todo[p] : OutOfReach(d) /\ (saver = p => image[d] \in Gone)

DeliveryInv ==
  /\ HandsFull /\ SaverWaits /\ DownIsQuiet /\ UnsentOnRecord /\ OneSender
  /\ SavedBeforeSend /\ SentOnRecord /\ DroppedOutOfReach /\ AtMostOnce

(***************************************************************************)
(* Refinement: the delivery list implements the delivery contract.         *)
(***************************************************************************)
Contract == INSTANCE DeliveryContract
              WITH accepted <- sent, withdrawn <- dropped

ImplementsContract == Contract!Spec

(***************************************************************************)
(* docs/recovery.md: finishing the review releases the queued inputs.  A   *)
(* release in a session where nothing has failed leaves none queued.       *)
(***************************************************************************)
ReleaseReachesAll ==
  [][\A p \in Releasers :
       calm' /\ session' = "up" /\ pc[p] # "idle" /\ pc'[p] = "idle"
         => \A i \in todo[p] : mem'[i] # "queued"]_vars
=============================================================================
