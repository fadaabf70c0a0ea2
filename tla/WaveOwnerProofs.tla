-------------------------- MODULE WaveOwnerProofs --------------------------
(***************************************************************************)
(* Theorems about WaveOwner: types, the inductive invariant of claims that *)
(* do not overlap, the mutual exclusion it gives, and, for any claims, why *)
(* a released lease does not come back.                                    *)
(***************************************************************************)
EXTENDS WaveOwner, TLAPS

(* TypeOK bounds the attempts because an unfinished claim has one left.    *)
AttemptLeft == \A p \in Instances : pc[p] \in Claiming \cup {"idle"} => attempt[p] < MaxAttempts

TypeInv == TypeOK /\ AttemptLeft

(* Every step keeps the lease file and the claims within their types. *)
LEMMA TypeStep == TypeInv /\ [Next]_vars => TypeInv'
<1> SUFFICES ASSUME TypeInv, [Next]_vars PROVE TypeInv'
  OBVIOUS
<1> USE DEF TypeInv, AttemptLeft, TypeOK, Leases, Claiming, MaxAttempts, Active, Released
<1>1. CASE UNCHANGED vars
  BY <1>1 DEF vars
<1>2. CASE Next
  <2> PICK p \in Instances :
        \/ StartWave(p) \/ ContinueWave(p)
        \/ Publish(p) \/ PublishFails(p) \/ InspectCurrent(p) \/ UnlinkAndRetry(p)
        \/ HeartbeatStart(p) \/ HeartbeatEnd(p)
        \/ ReleaseStart(p) \/ ReleaseEnd(p) \/ ReleaseFails(p)
        \/ Crash(p)
    BY <1>2 DEF Next
  <2>1. CASE StartWave(p) BY <2>1 DEF StartWave
  <2>2. CASE ContinueWave(p) BY <2>2 DEF ContinueWave
  <2>3. CASE Publish(p) BY <2>3 DEF Publish
  <2>4. CASE PublishFails(p) BY <2>4 DEF PublishFails
  <2>5. CASE InspectCurrent(p) BY <2>5 DEF InspectCurrent
  <2>6. CASE UnlinkAndRetry(p) BY <2>6 DEF UnlinkAndRetry
  <2>7. CASE HeartbeatStart(p) BY <2>7 DEF HeartbeatStart
  <2>8. CASE HeartbeatEnd(p) BY <2>8 DEF HeartbeatEnd
  <2>9. CASE ReleaseStart(p) BY <2>9 DEF ReleaseStart
  <2>10. CASE ReleaseEnd(p) BY <2>10 DEF ReleaseEnd
  <2>11. CASE ReleaseFails(p) BY <2>11 DEF ReleaseFails
  <2>12. CASE Crash(p) BY <2>12 DEF Crash
  <2> QED BY <2>1, <2>2, <2>3, <2>4, <2>5, <2>6, <2>7, <2>8, <2>9, <2>10, <2>11, <2>12
<1> QED BY <1>1, <1>2

(***************************************************************************)
(* The lease file always holds a complete lease or nothing, and a claim    *)
(* never tries more than MaxAttempts times, whatever overlaps with it.     *)
(***************************************************************************)
THEOREM TypeCorrect == Spec => []TypeOK
<1>1. Init => TypeInv
  <2> SUFFICES ASSUME Init PROVE TypeOK /\ AttemptLeft
    BY DEF TypeInv
  <2>1. overlapped \in BOOLEAN
    BY DEF Init
  <2>2. beat \in [Instances -> BOOLEAN]
    BY DEF Init
  <2> QED BY <2>1, <2>2 DEF Init, AttemptLeft, TypeOK, Claiming, MaxAttempts
<1>2. TypeInv => TypeOK
  BY DEF TypeInv
<1> QED BY <1>1, <1>2, TypeStep, PTL DEF Spec

-----------------------------------------------------------------------------

(***************************************************************************)
(* Every step of claims that do not overlap keeps SerialInv.               *)
(***************************************************************************)
LEMMA SerialStep ==
  ASSUME TypeOK, Serial, ~overlapped', [Next]_vars
  PROVE  Serial'
<1> USE DEF Serial, OneClaimAtATime, OwnerHoldsLease, BeatsAreOwned,
            ActiveLeaseIsPublished, UnlinkOnlyOwnerless,
            TypeOK, Leases, Claiming, Active, Released
<1>1. CASE UNCHANGED vars
  BY <1>1 DEF vars
<1>2. CASE Next
  <2> PICK p \in Instances :
        \/ StartWave(p) \/ ContinueWave(p)
        \/ Publish(p) \/ PublishFails(p) \/ InspectCurrent(p) \/ UnlinkAndRetry(p)
        \/ HeartbeatStart(p) \/ HeartbeatEnd(p)
        \/ ReleaseStart(p) \/ ReleaseEnd(p) \/ ReleaseFails(p)
        \/ Crash(p)
    BY <1>2 DEF Next
  <2>1. CASE StartWave(p) BY <2>1 DEF StartWave
  <2>2. CASE ContinueWave(p)
    <3>1. \A q \in Instances : pc[q] \notin Claiming
      BY <2>2 DEF ContinueWave
    <3>2. PICK at \in {"refused", "publish"} : pc' = [pc EXCEPT ![p] = at]
      BY <2>2 DEF ContinueWave
    <3>3. lease' = lease /\ beat' = beat /\ pc[p] = "idle"
      BY <2>2 DEF ContinueWave
    <3>4. OneClaimAtATime' /\ UnlinkOnlyOwnerless'
      BY <3>1, <3>2
    <3>5. OwnerHoldsLease' /\ BeatsAreOwned' /\ ActiveLeaseIsPublished'
      BY <3>2, <3>3
    <3> QED BY <3>4, <3>5
  <2>3. CASE Publish(p) BY <2>3, NoLeaseAssumption DEF Publish
  <2>4. CASE PublishFails(p) BY <2>4 DEF PublishFails
  <2>5. CASE InspectCurrent(p)
    <3>1. CASE pc'[p] = "refused"
      BY <2>5, <3>1 DEF InspectCurrent
    <3>2. CASE pc'[p] = "unlink"
      <4>1. FALSE \in ProcessAlive(lease)
        BY <2>5, <3>2 DEF InspectCurrent, ProcessAlive
      <4>2. lease \in Leases /\ (lease.status = "released" \/ pc[lease.owner] = "crashed")
        BY <4>1 DEF ProcessAlive
      <4>3. \A q \in Instances : pc[q] \notin {"owner", "releasing"}
        BY <4>2
      <4> QED BY <2>5, <3>2, <4>3 DEF InspectCurrent
    <3> QED BY <2>5, <3>1, <3>2 DEF InspectCurrent
  <2>6. CASE UnlinkAndRetry(p) BY <2>6, NoLeaseAssumption DEF UnlinkAndRetry
  <2>7. CASE HeartbeatStart(p) BY <2>7 DEF HeartbeatStart
  <2>8. CASE HeartbeatEnd(p) BY <2>8 DEF HeartbeatEnd
  <2>9. CASE ReleaseStart(p) BY <2>9 DEF ReleaseStart
  <2>10. CASE ReleaseEnd(p) BY <2>10 DEF ReleaseEnd
  <2>11. CASE ReleaseFails(p) BY <2>11 DEF ReleaseFails
  <2>12. CASE Crash(p) BY <2>12 DEF Crash
  <2> QED BY <2>1, <2>2, <2>3, <2>4, <2>5, <2>6, <2>7, <2>8, <2>9, <2>10, <2>11, <2>12
<1> QED BY <1>1, <1>2

(* A step never forgets that claims have overlapped. *)
LEMMA OverlapLasts == [Next]_vars /\ overlapped => overlapped'
BY DEF Next, vars, StartWave, ContinueWave, Publish, PublishFails, InspectCurrent,
       UnlinkAndRetry, HeartbeatStart, HeartbeatEnd, ReleaseStart, ReleaseEnd,
       ReleaseFails, Crash

(* While no two claims have overlapped, an owner's lease stays published   *)
(* until its release is written, and only ownerless leases are unlinked.   *)
THEOREM SerialCorrect == Spec => []SerialInv
<1>1. Init => SerialInv
  BY NoLeaseAssumption
     DEF Init, SerialInv, Serial, OneClaimAtATime, OwnerHoldsLease, BeatsAreOwned,
         ActiveLeaseIsPublished, UnlinkOnlyOwnerless, Claiming, Active
<1>2. TypeOK /\ SerialInv /\ [Next]_vars => SerialInv'
  <2> SUFFICES ASSUME TypeOK, SerialInv, [Next]_vars, ~overlapped'
               PROVE  Serial'
    BY DEF SerialInv
  <2>1. ~overlapped
    BY OverlapLasts
  <2>2. Serial
    BY <2>1 DEF SerialInv
  <2> QED BY <2>2, SerialStep
<1> QED BY <1>1, <1>2, TypeCorrect, PTL DEF Spec

(***************************************************************************)
(* acquireWaveOwner gives a wave to one instance at a time, for any number *)
(* of claims, crashes and lost writes, as long as claims do not overlap.   *)
(***************************************************************************)
THEOREM SerialMutualExclusion == Spec => []SerialExclusion
<1>1. SerialInv => SerialExclusion
  BY DEF SerialInv, Serial, OwnerHoldsLease, SerialExclusion, MutualExclusion, Active
<1> QED BY <1>1, SerialCorrect, PTL

-----------------------------------------------------------------------------

(***************************************************************************)
(* What holds of the heartbeats and of the lease file whether or not       *)
(* claims overlap: only an owner writes, and an active lease is that of a  *)
(* claim that has been published and has not been released.                *)
(***************************************************************************)
Published == BeatsAreOwned /\ ActiveLeaseIsPublished

LEMMA PublishedStep == TypeOK /\ Published /\ [Next]_vars => Published'
<1> SUFFICES ASSUME TypeOK, Published, [Next]_vars PROVE Published'
  OBVIOUS
<1> USE NoLeaseAssumption
    DEF Published, BeatsAreOwned, ActiveLeaseIsPublished, TypeOK, Leases, Claiming, Active, Released
<1>1. CASE UNCHANGED vars
  BY <1>1 DEF vars
<1>2. ASSUME NEW p \in Instances,
             StartWave(p) \/ ContinueWave(p) \/ Publish(p) \/ PublishFails(p)
               \/ InspectCurrent(p) \/ UnlinkAndRetry(p)
      PROVE  Published'
  <2>1. CASE StartWave(p) BY <2>1 DEF StartWave
  <2>2. CASE ContinueWave(p) BY <2>2 DEF ContinueWave
  <2>3. CASE Publish(p) BY <2>3 DEF Publish
  <2>4. CASE PublishFails(p) BY <2>4 DEF PublishFails
  <2>5. CASE InspectCurrent(p) BY <2>5 DEF InspectCurrent
  <2>6. CASE UnlinkAndRetry(p) BY <2>6 DEF UnlinkAndRetry
  <2> QED BY <1>2, <2>1, <2>2, <2>3, <2>4, <2>5, <2>6
<1>3. ASSUME NEW p \in Instances,
             HeartbeatStart(p) \/ HeartbeatEnd(p) \/ ReleaseStart(p) \/ ReleaseEnd(p)
               \/ ReleaseFails(p) \/ Crash(p)
      PROVE  Published'
  <2>1. CASE HeartbeatStart(p) BY <2>1 DEF HeartbeatStart
  <2>2. CASE HeartbeatEnd(p) BY <2>2 DEF HeartbeatEnd
  <2>3. CASE ReleaseStart(p) BY <2>3 DEF ReleaseStart
  <2>4. CASE ReleaseEnd(p) BY <2>4 DEF ReleaseEnd
  <2>5. CASE ReleaseFails(p) BY <2>5 DEF ReleaseFails
  <2>6. CASE Crash(p) BY <2>6 DEF Crash
  <2> QED BY <1>3, <2>1, <2>2, <2>3, <2>4, <2>5, <2>6
<1> QED BY <1>1, <1>2, <1>3 DEF Next

(***************************************************************************)
(* release() awaits the last heartbeat before it writes, so a lease that   *)
(* was given back is never active again, whatever overlaps with it.        *)
(***************************************************************************)
THEOREM ReleasedStaysReleased == Spec => []ReleasedNeverReturns
<1>1. Init => Published
  BY NoLeaseAssumption DEF Init, Published, BeatsAreOwned, ActiveLeaseIsPublished, Active
<1>2. Published => ReleasedNeverReturns
  BY DEF Published, ActiveLeaseIsPublished, ReleasedNeverReturns
<1> QED BY <1>1, <1>2, PublishedStep, TypeCorrect, PTL DEF Spec
=============================================================================
