----------------------------- MODULE WaveOwner -----------------------------
(***************************************************************************)
(* The durable ownership lease of a delegated wave, wave-owner.json.       *)
(* Several OS processes contend for one wave root: the wave controller     *)
(* that created it and any later session that continues an operation of    *)
(* it.  Nothing but the file system orders them.  One Instance is one      *)
(* claim (one instanceId) made by one process.                             *)
(*                                                                         *)
(* Every file-system call of acquireWaveOwner is a step of its own, so     *)
(* claims interleave exactly at its awaits.  overlapped remembers whether   *)
(* a claim has ever started while another was under way.                   *)
(***************************************************************************)
EXTENDS Naturals, FiniteSets

CONSTANTS Instances,          \* claims, each with its own instanceId
          NoLease             \* the lease file does not exist

ASSUME NoLeaseAssumption == \A p \in Instances, s \in {"active", "released"} :
                               NoLease # [owner |-> p, status |-> s]

MaxAttempts == 4

VARIABLES lease,      \* content of wave-owner.json
          pc,         \* where each instance stands
          attempt,    \* failed publications of the current claim
          beat,       \* a heartbeat write is in flight
          overlapped  \* history: two claims have been under way at once

vars == <<lease, pc, attempt, beat, overlapped>>

Claiming == {"publish", "inspect", "unlink"}
Leases   == [owner : Instances, status : {"active", "released"}]

TypeOK ==
  /\ lease \in Leases \cup {NoLease}
  /\ pc \in [Instances -> {"idle", "owner", "releasing", "released",
                           "releaseFailed", "refused", "failed", "crashed"} \cup Claiming]
  /\ attempt \in [Instances -> 0..MaxAttempts]
  /\ beat \in [Instances -> BOOLEAN]
  /\ overlapped \in BOOLEAN

Init ==
  /\ lease = NoLease
  /\ pc = [p \in Instances |-> "idle"]
  /\ attempt = [p \in Instances |-> 0]
  /\ beat = [p \in Instances |-> FALSE]
  /\ overlapped = FALSE

Active(p)   == [owner |-> p, status |-> "active"]
Released(p) == [owner |-> p, status |-> "released"]

(* Mutant of ProcessAlive: an unreleased lease may be taken for a dead one. *)
MutAliveIgnored(l) ==
  IF l = NoLease THEN {TRUE} ELSE BOOLEAN

(***************************************************************************)
(* What inspectWaveOwner may answer for processAlive.  A missing lease is  *)
(* uncertain; the pid of a dead process may have been reused or be beyond  *)
(* proof, so a dead owner is possibly reported alive, never the converse.  *)
(***************************************************************************)
ProcessAlive(l) ==
  IF l = NoLease THEN {TRUE}
  ELSE IF l.status = "released" THEN {FALSE}
  ELSE IF pc[l.owner] = "crashed" THEN BOOLEAN
  ELSE {TRUE}

(* The wave controller claims the root it has just captured. *)
StartWave(p) ==
  /\ pc[p] = "idle" /\ \A q \in Instances : pc[q] = "idle"
  /\ pc' = [pc EXCEPT ![p] = "publish"]
  /\ UNCHANGED <<lease, attempt, beat, overlapped>>

(***************************************************************************)
(* continueOperation inspects first and refuses a wave that may be alive,  *)
(* unless there is no lease and the manifest is terminal, as in waves      *)
(* written before leases existed.                                          *)
(***************************************************************************)
ContinueWave(p) ==
  /\ pc[p] = "idle"
  /\ overlapped' = (overlapped \/ \E q \in Instances : pc[q] \in Claiming)
  /\ \E alive \in ProcessAlive(lease), manifestTerminal \in BOOLEAN :
       pc' = [pc EXCEPT ![p] = IF alive /\ ~(lease = NoLease /\ manifestTerminal)
                               THEN "refused" ELSE "publish"]
  /\ UNCHANGED <<lease, attempt, beat>>

(* atomicWriteExclusive: link succeeds only when the name is free. *)
Publish(p) ==
  /\ pc[p] = "publish"
  /\ IF lease = NoLease
     THEN lease' = Active(p) /\ pc' = [pc EXCEPT ![p] = "owner"]
     ELSE pc' = [pc EXCEPT ![p] = "inspect"] /\ UNCHANGED lease
  /\ UNCHANGED <<attempt, beat, overlapped>>

(* Mutant of PublishFails: a failed publication leaves a partial record. *)
MutPublishLeavesPartial(p) ==
  /\ pc[p] = "publish"
  /\ pc' = [pc EXCEPT ![p] = "failed"]
  /\ lease' = [owner |-> p, status |-> "partial"]
  /\ UNCHANGED <<attempt, beat, overlapped>>

PublishFails(p) ==
  /\ pc[p] = "publish"
  /\ pc' = [pc EXCEPT ![p] = "failed"]
  /\ UNCHANGED <<lease, attempt, beat, overlapped>>

InspectCurrent(p) ==
  /\ pc[p] = "inspect"
  /\ \E alive \in ProcessAlive(lease) :
       pc' = [pc EXCEPT ![p] = IF alive THEN "refused" ELSE "unlink"]
  /\ UNCHANGED <<lease, attempt, beat, overlapped>>

(* unlink acts on the name, whatever lease it holds by now. *)
UnlinkAndRetry(p) ==
  /\ pc[p] = "unlink"
  /\ lease' = NoLease
  /\ attempt' = [attempt EXCEPT ![p] = @ + 1]
  /\ pc' = [pc EXCEPT ![p] = IF attempt[p] + 1 < MaxAttempts THEN "publish" ELSE "failed"]
  /\ UNCHANGED <<beat, overlapped>>

HeartbeatStart(p) ==
  /\ pc[p] = "owner" /\ ~beat[p]
  /\ beat' = [beat EXCEPT ![p] = TRUE]
  /\ UNCHANGED <<lease, pc, attempt, overlapped>>

(* The write replaces the file without looking at it, or fails unnoticed. *)
HeartbeatEnd(p) ==
  /\ beat[p]
  /\ beat' = [beat EXCEPT ![p] = FALSE]
  /\ lease' \in {Active(p), lease}
  /\ UNCHANGED <<pc, attempt, overlapped>>

(* The interval is cleared, then the last heartbeat is awaited. *)
ReleaseStart(p) ==
  /\ pc[p] = "owner"
  /\ pc' = [pc EXCEPT ![p] = "releasing"]
  /\ UNCHANGED <<lease, attempt, beat, overlapped>>

(* Mutant of ReleaseEnd: the last heartbeat is not awaited. *)
MutReleaseOverHeartbeat(p) ==
  /\ pc[p] = "releasing"
  /\ lease' = Released(p)
  /\ pc' = [pc EXCEPT ![p] = "released"]
  /\ UNCHANGED <<attempt, beat, overlapped>>

ReleaseEnd(p) ==
  /\ pc[p] = "releasing" /\ ~beat[p]
  /\ lease' = Released(p)
  /\ pc' = [pc EXCEPT ![p] = "released"]
  /\ UNCHANGED <<attempt, beat, overlapped>>

ReleaseFails(p) ==
  /\ pc[p] = "releasing" /\ ~beat[p]
  /\ pc' = [pc EXCEPT ![p] = "releaseFailed"]
  /\ UNCHANGED <<lease, attempt, beat, overlapped>>

(* The process dies; a write still in flight is lost. *)
Crash(p) ==
  /\ pc[p] \in {"owner", "releasing", "releaseFailed"} \cup Claiming
  /\ pc' = [pc EXCEPT ![p] = "crashed"]
  /\ beat' = [beat EXCEPT ![p] = FALSE]
  /\ UNCHANGED <<lease, attempt, overlapped>>

Next == \E p \in Instances :
  \/ StartWave(p) \/ ContinueWave(p)
  \/ Publish(p) \/ PublishFails(p) \/ InspectCurrent(p) \/ UnlinkAndRetry(p)
  \/ HeartbeatStart(p) \/ HeartbeatEnd(p)
  \/ ReleaseStart(p) \/ ReleaseEnd(p) \/ ReleaseFails(p)
  \/ Crash(p)

Spec == Init /\ [][Next]_vars

-----------------------------------------------------------------------------

(***************************************************************************)
(* At most one instance believes it owns the wave: acquireWaveOwner        *)
(* returned to it and it has not begun to release.  What a double owner    *)
(* would do is run two controllers against the same worktrees.             *)
(***************************************************************************)
MutualExclusion ==
  \A p, q \in Instances : pc[p] = "owner" /\ pc[q] = "owner" => p = q

(* Claims that never overlap exclude each other, whatever crashes, lost    *)
(* writes and takeovers lie between them.                                  *)
SerialExclusion == ~overlapped => MutualExclusion

(***************************************************************************)
(* A controller that has released never comes back as an active lease.     *)
(* If a heartbeat could land after the release, the wave would stay        *)
(* blocked for as long as the releasing process lives.                     *)
(***************************************************************************)
ReleasedNeverReturns ==
  \A p \in Instances : pc[p] = "released" => lease # Active(p)

(***************************************************************************)
(* Why claims that do not overlap exclude each other.  An owner's lease    *)
(* stays in the file until its release is written, so a claim that has     *)
(* read the file as dead or released acts on a wave without an owner.      *)
(***************************************************************************)
OneClaimAtATime ==
  \A p, q \in Instances : pc[p] \in Claiming /\ pc[q] \in Claiming => p = q

OwnerHoldsLease ==
  \A p \in Instances : pc[p] \in {"owner", "releasing"} => lease = Active(p)

BeatsAreOwned ==
  \A p \in Instances : beat[p] => pc[p] \in {"owner", "releasing"}

ActiveLeaseIsPublished ==
  \A p \in Instances :
    lease = Active(p) => pc[p] \in {"owner", "releasing", "releaseFailed", "crashed"}

UnlinkOnlyOwnerless ==
  \A p \in Instances :
    pc[p] = "unlink" => \A q \in Instances : pc[q] \notin {"owner", "releasing"}

Serial ==
  /\ OneClaimAtATime
  /\ OwnerHoldsLease
  /\ BeatsAreOwned
  /\ ActiveLeaseIsPublished
  /\ UnlinkOnlyOwnerless

SerialInv == ~overlapped => Serial
=============================================================================
