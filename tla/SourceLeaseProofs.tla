-------------------------- MODULE SourceLeaseProofs --------------------------
(***************************************************************************)
(* Theorems about SourceLease: the inductive invariant of the ticket       *)
(* chains, mutual exclusion and order of service for every set of roots    *)
(* and landings, and the implementation of SourceAccess.                   *)
(***************************************************************************)
EXTENDS SourceLease, TLAPS

(* Every lease in the list is one of a root. *)
LEMMA LeaseType ==
  ASSUME TypeOK, NEW t \in DOMAIN leases
  PROVE  leases[t].root \in Roots /\ leases[t].after \subseteq Nat /\ t \in Nat /\ t # 0
<1> DEFINE S == [root : Roots, after : SUBSET Nat]
<1>1. leases \in Seq(S)
  BY DEF TypeOK
<1> HIDE DEF S
<1>2. leases[t] \in S /\ t \in Nat /\ t # 0
  BY <1>1
<1> QED BY <1>2 DEF S

(* What a resolved tail says: every earlier lease of an overlapping root   *)
(* has resolved when the tails a lease is chained behind have.             *)
LEMMA EarlierResolved ==
  ASSUME LeaseInv, NEW u \in DOMAIN leases, Chained(u),
         NEW t \in DOMAIN leases, t < u, Overlap(leases[t].root, leases[u].root)
  PROVE  t \in settled
<1> USE DEF LeaseInv, TypeOK
<1>1. CASE t \in settled
  BY <1>1
<1>2. CASE \E v \in leases[u].after : t <= v /\ leases[v].root = leases[t].root
  <2>1. PICK v \in leases[u].after : t <= v /\ leases[v].root = leases[t].root
    BY <1>2
  <2>2. v \in DOMAIN leases /\ v \in settled
    BY DEF Chained
  <2>3. CASE t = v
    BY <2>2, <2>3
  <2>4. CASE t < v
    BY <2>1, <2>2, <2>4 DEF ResolvedInOrder
  <2>5. t = v \/ t < v
    BY <2>1, <2>2
  <2> QED BY <2>3, <2>4, <2>5
<1>3. t \in 1..(u - 1)
  OBVIOUS
<1> QED BY <1>1, <1>2, <1>3 DEF ChainedBehind

(* Two landings inside, or one inside and one queued, are served by ticket. *)
LEMMA ServedByTicket ==
  ASSUME LeaseInv, NEW l \in Landings, NEW m \in Landings,
         pc[l] \in {"queued", "held"}, pc[m] = "held", Overlap(RootOf[l], RootOf[m])
  PROVE  ticket[m] <= ticket[l]
<1>1. /\ ticket[l] \in open /\ leases[ticket[l]].root = RootOf[l]
      /\ ticket[m] \in open /\ leases[ticket[m]].root = RootOf[m]
      /\ Chained(ticket[m]) /\ open \cap settled = {}
  BY DEF LeaseInv, OwnLease
<1>2. ticket[l] \in DOMAIN leases /\ ticket[m] \in DOMAIN leases
  BY <1>1 DEF LeaseInv, TypeOK
<1>3. CASE ticket[l] < ticket[m]
  <2>1. ticket[l] \in settled
    BY <1>1, <1>2, <1>3, EarlierResolved
  <2> QED BY <1>1, <2>1
<1>4. ticket[l] \in Nat /\ ticket[m] \in Nat
  BY DEF LeaseInv, TypeOK
<1> QED BY <1>3, <1>4

(* What Enqueue does to the list of leases. *)
LEMMA Chaining ==
  ASSUME TypeOK, NEW l \in Landings, Enqueue(l)
  PROVE  /\ Len(leases') = Len(leases) + 1
         /\ DOMAIN leases' = DOMAIN leases \cup {Len(leases) + 1}
         /\ Len(leases) + 1 \notin DOMAIN leases
         /\ \A t \in DOMAIN leases : leases'[t] = leases[t]
         /\ leases'[Len(leases) + 1] = [root |-> RootOf[l], after |-> TailsOn(RootOf[l])]
         /\ leases' \in Seq([root : Roots, after : SUBSET Nat])
         /\ RootOf[l] \in Roots
         /\ TailsOn(RootOf[l]) \subseteq DOMAIN leases
<1>1. RootOf[l] \in Roots
  BY LeaseRootOf
<1>2. TailsOn(RootOf[l]) \subseteq DOMAIN leases
  BY DEF TailsOn, TypeOK
<1>3. [root |-> RootOf[l], after |-> TailsOn(RootOf[l])] \in [root : Roots, after : SUBSET Nat]
  BY <1>1, <1>2 DEF TypeOK
<1>4. leases' = Append(leases, [root |-> RootOf[l], after |-> TailsOn(RootOf[l])])
  BY DEF Enqueue
<1> QED BY <1>1, <1>2, <1>3, <1>4 DEF TypeOK

(* The steps that touch neither the leases nor what has resolved. *)
Bystanding(l) == \/ StartAcquire(l) \/ AbortGated(l) \/ AbortQueued(l)
                 \/ Enter(l) \/ Yield(l) \/ Release(l)

LEMMA BystandingSteps ==
  ASSUME LeaseInv, NEW l \in Landings, Bystanding(l)
  PROVE  LeaseInv'
<1> USE DEF LeaseInv
<1>1. UNCHANGED <<ticket, leases, settled, tails, blockers, installed>>
  BY DEF Bystanding, StartAcquire, AbortGated, AbortQueued, Enter, Yield, Release
<1>2. BlocksOn(RootOf[l]) \subseteq 1..installed
  BY DEF BlocksOn, TypeOK
<1>3. pc' \in [Landings -> {"idle", "gated", "queued", "held", "left"}]
  BY DEF Bystanding, StartAcquire, AbortGated, AbortQueued, Enter, Yield, Release, TypeOK
<1>4. waitOn' \in [Landings -> SUBSET (1..installed)]
  BY <1>2 DEF Bystanding, StartAcquire, AbortGated, AbortQueued, Enter, Yield, Release, TypeOK
<1>5. open' \subseteq open
  BY DEF Bystanding, StartAcquire, AbortGated, AbortQueued, Enter, Yield, Release
<1>6. pruning' \subseteq DOMAIN leases
  <2>1. CASE AbortQueued(l) \/ Release(l)
    <3>1. ticket[l] \in DOMAIN leases
      BY <2>1 DEF AbortQueued, Release, OwnLease, TypeOK
    <3> QED BY <2>1, <3>1 DEF AbortQueued, Release, PruneTail, TypeOK
  <2>2. CASE ~(AbortQueued(l) \/ Release(l))
    BY <2>2 DEF Bystanding, StartAcquire, AbortGated, Enter, Yield, TypeOK
  <2> QED BY <2>1, <2>2
<1>7. TypeOK'
  BY <1>1, <1>3, <1>4, <1>5, <1>6 DEF TypeOK
<1>8. ResolvedInOrder' /\ ChainedBehind' /\ TailCovers'
  BY <1>1 DEF ResolvedInOrder, ChainedBehind, TailCovers
<1>9. OwnLease'
  <2>1. \A m \in Landings : m # l => pc'[m] = pc[m]
    BY DEF Bystanding, StartAcquire, AbortGated, AbortQueued, Enter, Yield, Release, TypeOK
  <2>2. /\ pc'[l] \in {"queued", "held"} => Enter(l)
        /\ Enter(l) => pc[l] = "queued" /\ Chained(ticket[l]) /\ open' = open
    BY DEF Bystanding, StartAcquire, AbortGated, AbortQueued, Enter, Yield, Release, TypeOK
  <2>3. open' = open \/ open' = open \ {ticket[l]}
    BY DEF Bystanding, StartAcquire, AbortGated, AbortQueued, Enter, Yield, Release
  <2>4. ASSUME NEW m \in Landings, pc'[m] \in {"queued", "held"}
        PROVE  ticket[m] \in open' /\ leases[ticket[m]].root = RootOf[m]
    <3>1. ticket[m] \in open /\ leases[ticket[m]].root = RootOf[m] /\ ticket[m] # 0
      BY <2>1, <2>2, <2>4 DEF OwnLease, TypeOK
    <3>2. CASE m = l
      BY <2>2, <2>4, <3>1, <3>2
    <3>3. CASE m # l
      <4>1. ticket[m] # ticket[l]
        BY <3>1, <3>3 DEF OwnLease
      <4> QED BY <2>3, <3>1, <4>1
    <3> QED BY <3>2, <3>3
  <2>5. ASSUME NEW m \in Landings, pc'[m] = "held"
        PROVE  Chained(ticket[m])
    BY <2>1, <2>2, <2>5 DEF OwnLease
  <2> QED BY <1>1, <1>5, <2>4, <2>5 DEF OwnLease, Chained
<1> QED BY <1>7, <1>8, <1>9

(* A new lease is chained behind the tail of every overlapping root, and   *)
(* that tail covers the earlier leases of the root.                        *)
LEMMA EnqueueStep ==
  ASSUME LeaseInv, NEW l \in Landings, Enqueue(l)
  PROVE  LeaseInv'
<1> DEFINE n == Len(leases) + 1
<1> USE DEF LeaseInv
<1>1. /\ Len(leases') = n
      /\ DOMAIN leases' = DOMAIN leases \cup {n} /\ n \notin DOMAIN leases
      /\ \A t \in DOMAIN leases : leases'[t] = leases[t]
      /\ leases'[n] = [root |-> RootOf[l], after |-> TailsOn(RootOf[l])]
      /\ leases' \in Seq([root : Roots, after : SUBSET Nat])
      /\ RootOf[l] \in Roots /\ TailsOn(RootOf[l]) \subseteq DOMAIN leases
  BY Chaining
<1>2. Len(leases) \in Nat /\ DOMAIN leases = 1..Len(leases)
  BY DEF TypeOK
<1>3. /\ pc' = [pc EXCEPT ![l] = "queued"] /\ pc[l] = "gated"
      /\ ticket' = [ticket EXCEPT ![l] = n]
      /\ open' = open \cup {n}
      /\ tails' = [tails EXCEPT ![RootOf[l]] = n]
      /\ UNCHANGED <<waitOn, settled, pruning, blockers, installed>>
  BY DEF Enqueue
<1> HIDE DEF n
<1>4. n = Len(leases) + 1 /\ n \in Nat
  BY <1>2 DEF n
<1>5. TypeOK'
  <2>1. ASSUME NEW t \in DOMAIN leases'
        PROVE  leases'[t].after \subseteq 1..(t - 1)
    <3>1. CASE t \in DOMAIN leases
      BY <1>1, <3>1 DEF TypeOK
    <3>2. CASE t = n
      BY <1>1, <1>2, <1>4, <3>2
    <3> QED BY <1>1, <3>1, <3>2
  <2>2. ticket' \in [Landings -> 0..Len(leases')] /\ tails' \in [Roots -> 0..Len(leases')]
    BY <1>1, <1>2, <1>3, <1>4 DEF TypeOK
  <2> QED BY <1>1, <1>3, <2>1, <2>2 DEF TypeOK
<1>6. ResolvedInOrder'
  <2>1. n \notin settled
    BY <1>1 DEF TypeOK
  <2>2. settled' = settled /\ settled \subseteq DOMAIN leases
    BY <1>3 DEF TypeOK
  <2>3. ASSUME NEW t \in DOMAIN leases', NEW u \in DOMAIN leases', t < u,
               leases'[t].root = leases'[u].root, u \in settled
        PROVE  t \in settled
    <3>1. u \in DOMAIN leases
      BY <2>2, <2>3
    <3>2. t \in DOMAIN leases
      BY <1>1, <1>2, <1>4, <2>3, <3>1
    <3> QED BY <1>1, <2>3, <3>1, <3>2 DEF ResolvedInOrder
  <2> QED BY <2>2, <2>3 DEF ResolvedInOrder
<1>7. ChainedBehind'
  <2> SUFFICES ASSUME NEW u \in DOMAIN leases', NEW t \in 1..(u - 1),
                      Overlap(leases'[t].root, leases'[u].root)
               PROVE  \/ t \in settled
                      \/ \E v \in leases'[u].after : t <= v /\ leases'[v].root = leases'[t].root
    BY <1>3 DEF ChainedBehind, Overlap
  <2>1. t \in DOMAIN leases /\ leases'[t] = leases[t]
    BY <1>1, <1>2, <1>4
  <2>2. CASE u = n
    <3>1. Overlap(leases[t].root, RootOf[l])
      BY <1>1, <2>1, <2>2
    <3>2. leases[t].root \in Roots
      BY <2>1, LeaseType
    <3>3. t \in settled \/ t <= tails[leases[t].root]
      BY <2>1 DEF TailCovers
    <3>4. CASE t <= tails[leases[t].root]
      <4> DEFINE v == tails[leases[t].root]
      <4>1. v # 0 /\ v \in DOMAIN leases /\ leases[v].root = leases[t].root
        BY <1>2, <2>1, <3>2, <3>4 DEF TypeOK, TailCovers
      <4>2. v \in TailsOn(RootOf[l])
        BY <3>1, <3>2, <4>1 DEF TailsOn
      <4>3. v \in leases'[u].after
        BY <1>1, <2>2, <4>2
      <4> QED BY <1>1, <2>1, <3>4, <4>1, <4>3
    <3> QED BY <3>3, <3>4
  <2>3. CASE u \in DOMAIN leases
    <3>1. leases'[u] = leases[u]
      BY <1>1, <2>3
    <3>2. \A v \in leases[u].after : v \in DOMAIN leases
      <4>1. leases[u].after \subseteq 1..(u - 1) /\ u \in 1..Len(leases)
        BY <1>2, <2>3 DEF TypeOK
      <4> QED BY <1>2, <4>1
    <3> QED BY <1>1, <2>1, <2>3, <3>1, <3>2 DEF ChainedBehind
  <2> QED BY <1>1, <2>2, <2>3
<1>8. TailCovers'
  <2>1. ASSUME NEW r \in Roots, tails'[r] # 0
        PROVE  leases'[tails'[r]].root = r
    <3>1. CASE r = RootOf[l]
      BY <1>1, <1>3, <3>1 DEF TypeOK
    <3>2. CASE r # RootOf[l]
      <4>1. tails'[r] = tails[r] /\ tails[r] \in DOMAIN leases
        BY <1>1, <1>2, <1>3, <2>1, <3>2 DEF TypeOK
      <4> QED BY <1>1, <2>1, <4>1 DEF TailCovers
    <3> QED BY <3>1, <3>2
  <2>2. ASSUME NEW t \in DOMAIN leases'
        PROVE  t \in settled \/ t <= tails'[leases'[t].root]
    <3>1. CASE t = n
      BY <1>1, <1>3, <1>4, <3>1 DEF TypeOK
    <3>2. CASE t \in DOMAIN leases /\ leases[t].root = RootOf[l]
      BY <1>1, <1>2, <1>3, <1>4, <3>2 DEF TypeOK
    <3>3. CASE t \in DOMAIN leases /\ leases[t].root # RootOf[l]
      <4>1. leases[t].root \in Roots
        BY <3>3, LeaseType
      <4> QED BY <1>1, <1>3, <3>3, <4>1 DEF TypeOK, TailCovers
    <3> QED BY <1>1, <3>1, <3>2, <3>3
  <2> QED BY <1>3, <2>1, <2>2 DEF TailCovers
<1>9. OwnLease'
  <2>1. \A m \in Landings : /\ m # l => ticket'[m] = ticket[m] /\ pc'[m] = pc[m]
                            /\ ticket[m] # n
                            /\ ticket[m] # 0 => ticket[m] \in DOMAIN leases
    BY <1>2, <1>3, <1>4 DEF TypeOK
  <2>2. ticket'[l] = n /\ pc'[l] = "queued" /\ n # 0
    BY <1>3, <1>4 DEF TypeOK
  <2>3. \A m \in Landings : pc'[m] \in {"queued", "held"} =>
          ticket'[m] \in open' /\ leases'[ticket'[m]].root = RootOf[m]
    <3>1. ASSUME NEW m \in Landings, m # l, pc'[m] \in {"queued", "held"}
          PROVE  ticket'[m] \in open' /\ leases'[ticket'[m]].root = RootOf[m]
      <4>1. /\ ticket'[m] = ticket[m] /\ ticket[m] \in open
            /\ leases[ticket[m]].root = RootOf[m] /\ ticket[m] \in DOMAIN leases
        BY <2>1, <3>1 DEF OwnLease, TypeOK
      <4> QED BY <1>1, <1>3, <4>1
    <3>2. ticket'[l] \in open' /\ leases'[ticket'[l]].root = RootOf[l]
      BY <1>1, <1>3, <2>2
    <3> QED BY <3>1, <3>2
  <2>4. \A m \in Landings : pc'[m] = "held" => Chained(ticket[m])' /\ m # l
    <3> SUFFICES ASSUME NEW m \in Landings, pc'[m] = "held"
                 PROVE  Chained(ticket[m])' /\ m # l
      OBVIOUS
    <3>1. m # l /\ ticket'[m] = ticket[m] /\ pc[m] = "held"
      BY <2>1, <2>2
    <3>2. Chained(ticket[m]) /\ ticket[m] \in DOMAIN leases
      BY <3>1 DEF OwnLease, TypeOK
    <3> QED BY <1>1, <1>3, <3>1, <3>2 DEF Chained
  <2>5. \A k, m \in Landings : ticket'[k] = ticket'[m] /\ ticket'[k] # 0 => k = m
    BY <2>1, <2>2 DEF OwnLease
  <2>6. open' \cap settled' = {}
    BY <1>1, <1>3 DEF OwnLease, TypeOK
  <2> QED BY <2>3, <2>4, <2>5, <2>6 DEF OwnLease
<1> QED BY <1>5, <1>6, <1>7, <1>8, <1>9

(* A tail resolves after all it is chained behind, hence after every       *)
(* earlier lease of its root.                                              *)
LEMMA SettleStep ==
  ASSUME LeaseInv, NEW u \in DOMAIN leases, Settle(u)
  PROVE  LeaseInv'
<1> USE DEF LeaseInv
<1>1. /\ settled' = settled \cup {u} /\ u \notin open /\ Chained(u)
      /\ UNCHANGED <<pc, waitOn, ticket, leases, open, tails, pruning, blockers, installed>>
  BY DEF Settle
<1>2. TypeOK'
  BY <1>1 DEF TypeOK
<1>3. ResolvedInOrder'
  <2>1. ASSUME NEW t \in DOMAIN leases, t < u, leases[t].root = leases[u].root
        PROVE  t \in settled
    <3>1. leases[u].root \in Roots
      BY LeaseType
    <3>2. Overlap(leases[t].root, leases[u].root)
      BY <2>1, <3>1, LeaseOverlaps DEF Overlap
    <3> QED BY <1>1, <2>1, <3>2, EarlierResolved
  <2> QED BY <1>1, <2>1 DEF ResolvedInOrder
<1>4. ChainedBehind' /\ TailCovers'
  BY <1>1 DEF ChainedBehind, TailCovers
<1>5. OwnLease'
  BY <1>1 DEF OwnLease, Chained
<1> QED BY <1>2, <1>3, <1>4, <1>5

(* Only a resolved tail is pruned, and then every lease it covered has     *)
(* resolved too.                                                           *)
LEMMA PruneStep ==
  ASSUME LeaseInv, NEW u \in DOMAIN leases, Prune(u)
  PROVE  LeaseInv'
<1> USE DEF LeaseInv
<1>1. /\ u \in settled
      /\ pruning' = pruning \ {u}
      /\ tails' = IF tails[leases[u].root] = u THEN [tails EXCEPT ![leases[u].root] = 0] ELSE tails
      /\ UNCHANGED <<pc, waitOn, ticket, leases, open, settled, blockers, installed>>
  BY DEF Prune
<1>2. TypeOK'
  <2>1. tails' \in [Roots -> 0..Len(leases)] /\ pruning' \subseteq DOMAIN leases
    BY <1>1, LeaseType DEF TypeOK
  <2> QED BY <1>1, <2>1 DEF TypeOK
<1>3. ResolvedInOrder' /\ ChainedBehind' /\ OwnLease'
  BY <1>1 DEF ResolvedInOrder, ChainedBehind, OwnLease, Chained
<1>4. TailCovers'
  <2>1. \A r \in Roots : tails'[r] # 0 => tails'[r] = tails[r]
    BY <1>1 DEF TypeOK
  <2>2. ASSUME NEW t \in DOMAIN leases
        PROVE  t \in settled \/ t <= tails'[leases[t].root]
    <3>1. leases[t].root \in Roots /\ t \in Nat /\ u \in Nat
      BY LeaseType
    <3>2. CASE tails[leases[t].root] = u /\ leases[u].root = leases[t].root
      <4>1. t \in settled \/ t = u \/ t < u
        BY <3>1, <3>2 DEF TailCovers
      <4> QED BY <1>1, <3>2, <4>1 DEF ResolvedInOrder
    <3>3. CASE ~(tails[leases[t].root] = u /\ leases[u].root = leases[t].root)
      BY <1>1, <3>1, <3>3 DEF TailCovers, TypeOK
    <3> QED BY <3>2, <3>3
  <2> QED BY <1>1, <2>1, <2>2 DEF TailCovers
<1> QED BY <1>2, <1>3, <1>4

LEMMA BlockStep ==
  ASSUME LeaseInv, NEW r \in Roots, Block(r) \/ Unblock(r)
  PROVE  LeaseInv'
<1> USE DEF LeaseInv
<1>1. UNCHANGED <<pc, waitOn, ticket, leases, open, settled, tails, pruning>>
  BY DEF Block, Unblock
<1>2. installed' \in 0..MaxBlocks /\ installed <= installed' /\ blockers' \in [Roots -> 0..installed']
  BY LeaseBlocks DEF Block, Unblock, TypeOK
<1>3. waitOn \in [Landings -> SUBSET (1..installed')]
  BY <1>2, LeaseBlocks DEF TypeOK
<1>4. TypeOK'
  BY <1>1, <1>2, <1>3 DEF TypeOK
<1> QED BY <1>1, <1>4 DEF ResolvedInOrder, ChainedBehind, TailCovers, OwnLease, Chained

LEMMA InitInv == Init => LeaseInv
BY LeaseBlocks DEF Init, LeaseInv, TypeOK, ResolvedInOrder, ChainedBehind, TailCovers, OwnLease

(* The ticket chains are sound: LeaseInv holds whatever landings, aborts,  *)
(* gates and promise reactions interleave.                                 *)
THEOREM InvCorrect == Spec => []LeaseInv
<1>1. LeaseInv /\ [Next]_vars => LeaseInv'
  <2> SUFFICES ASSUME LeaseInv, [Next]_vars PROVE LeaseInv'
    OBVIOUS
  <2>1. ASSUME NEW l \in Landings, Bystanding(l) PROVE LeaseInv'
    BY <2>1, BystandingSteps
  <2>2. ASSUME NEW l \in Landings, Enqueue(l) PROVE LeaseInv'
    BY <2>2, EnqueueStep
  <2>3. ASSUME NEW t \in DOMAIN leases, Settle(t) \/ Prune(t) PROVE LeaseInv'
    BY <2>3, SettleStep, PruneStep
  <2>4. ASSUME NEW r \in Roots, Block(r) \/ Unblock(r) PROVE LeaseInv'
    BY <2>4, BlockStep
  <2>5. CASE UNCHANGED vars
    <3>1. TypeOK' /\ TailCovers'
      BY <2>5 DEF vars, LeaseInv, TypeOK, TailCovers
    <3>2. ResolvedInOrder' /\ ChainedBehind'
      BY <2>5 DEF vars, LeaseInv, ResolvedInOrder, ChainedBehind
    <3>3. OwnLease'
      BY <2>5 DEF vars, LeaseInv, OwnLease, Chained
    <3> QED BY <3>1, <3>2, <3>3 DEF LeaseInv
  <2> QED BY <2>1, <2>2, <2>3, <2>4, <2>5 DEF Next, Bystanding
<1> QED BY <1>1, InitInv, PTL DEF Spec

(* The coordinator's state is of its type: no ticket, tail or block beyond *)
(* those issued.                                                           *)
THEOREM TypeCorrect == Spec => []TypeOK
<1>1. LeaseInv => TypeOK
  BY DEF LeaseInv
<1> QED BY <1>1, InvCorrect, PTL

(* Source mutation is serialized over overlapping roots. *)
LEMMA Exclusive == LeaseInv => MutualExclusion
<1> SUFFICES ASSUME LeaseInv, NEW l \in Landings, NEW m \in Landings,
                    pc[l] = "held", pc[m] = "held", Overlap(RootOf[l], RootOf[m])
             PROVE  l = m
  BY DEF MutualExclusion
<1>1. Overlap(RootOf[m], RootOf[l])
  BY LeaseOverlaps, LeaseRootOf DEF Overlap
<1>2. ticket[l] <= ticket[m] /\ ticket[m] <= ticket[l]
  BY <1>1, ServedByTicket
<1>3. ticket[l] \in Nat /\ ticket[m] \in Nat /\ ticket[l] # 0
  BY DEF LeaseInv, TypeOK, OwnLease
<1>4. ticket[l] = ticket[m]
  BY <1>2, <1>3
<1> QED BY <1>3, <1>4 DEF LeaseInv, OwnLease

(* Two landings are never inside overlapping source roots at once. *)
THEOREM ExclusiveAlways == Spec => []MutualExclusion
BY InvCorrect, Exclusive, PTL

(* Landings of overlapping roots enter in the order they queued. *)
THEOREM InOrderAlways == Spec => []ServedInOrder
<1>1. LeaseInv => ServedInOrder
  <2> SUFFICES ASSUME LeaseInv, NEW l \in Landings, NEW m \in Landings,
                      pc[l] = "queued", pc[m] = "held", Overlap(RootOf[l], RootOf[m])
               PROVE  ticket[m] < ticket[l]
    BY DEF ServedInOrder
  <2>1. ticket[m] <= ticket[l]
    BY ServedByTicket
  <2>2. ticket[l] \in Nat /\ ticket[m] \in Nat /\ ticket[l] # 0
    BY DEF LeaseInv, TypeOK, OwnLease
  <2>3. ticket[l] # ticket[m]
    BY <2>2 DEF LeaseInv, OwnLease
  <2> QED BY <2>1, <2>2, <2>3
<1> QED BY <1>1, InvCorrect, PTL

(* What a landing's move is in SourceAccess. *)
LEMMA PhaseMoves ==
  ASSUME NEW l \in Landings, NEW q, LeaseInv, pc' = [pc EXCEPT ![l] = q]
  PROVE  [m \in Landings |-> PhaseOf(pc'[m])]
           = [[m \in Landings |-> PhaseOf(pc[m])] EXCEPT ![l] = PhaseOf(q)]
BY DEF LeaseInv, TypeOK

(* The coordinator implements SourceAccess: chained tickets let a landing  *)
(* in only when no overlapping landing is inside and no gate stands.       *)
THEOREM Implements == Spec => ImplementsAccess
<1>1. Init => A!AccessInit
  BY DEF Init, A!AccessInit, PhaseOf
<1>2. ASSUME LeaseInv, [Next]_vars
      PROVE  [A!AccessNext]_A!accessVars
  <2> USE DEF A!Become
  <2>1. ASSUME NEW l \in Landings, StartAcquire(l) PROVE A!Wait(l)
    BY <1>2, <2>1, PhaseMoves DEF StartAcquire, A!Wait, PhaseOf
  <2>2. ASSUME NEW l \in Landings, AbortGated(l) \/ AbortQueued(l) PROVE A!GiveUp(l)
    BY <1>2, <2>2, PhaseMoves DEF AbortGated, AbortQueued, A!GiveUp, PhaseOf
  <2>3. ASSUME NEW l \in Landings, Release(l) PROVE A!Leave(l)
    BY <1>2, <2>3, PhaseMoves DEF Release, A!Leave, PhaseOf
  <2>4. ASSUME NEW l \in Landings, Enqueue(l) \/ Yield(l) PROVE UNCHANGED A!accessVars
    <3>1. PICK q \in {"gated", "queued"} : pc' = [pc EXCEPT ![l] = q]
      BY <2>4 DEF Enqueue, Yield
    <3>2. pc[l] \in {"gated", "queued"} /\ UNCHANGED <<blockers, installed>>
      BY <2>4 DEF Enqueue, Yield
    <3> QED BY <1>2, <3>1, <3>2 DEF A!accessVars, PhaseOf, LeaseInv, TypeOK
  <2>5. ASSUME NEW l \in Landings, Enter(l) PROVE A!Enter(l)
    <3>1. LeaseInv' /\ MutualExclusion'
      <4>1. LeaseInv'
        BY <1>2, <2>5, BystandingSteps DEF Bystanding
      <4> QED BY <4>1, Exclusive, PTL
    <3>2. /\ pc[l] = "queued" /\ pc' = [pc EXCEPT ![l] = "held"]
          /\ ~Gated(RootOf[l]) /\ UNCHANGED <<blockers, installed>>
      BY <2>5 DEF Enter
    <3>3. \A m \in Landings : pc[m] = "held" => ~Overlap(RootOf[m], RootOf[l])
      BY <1>2, <3>1, <3>2 DEF MutualExclusion, Overlap, LeaseInv, TypeOK
    <3>4. \A m \in Landings : PhaseOf(pc[m]) = "held" => pc[m] = "held"
      BY DEF PhaseOf
    <3> QED BY <1>2, <3>2, <3>3, <3>4, PhaseMoves DEF A!Enter, A!Gated, A!Overlap, Gated, Overlap, PhaseOf
  <2>6. ASSUME NEW t \in DOMAIN leases, Settle(t) \/ Prune(t) PROVE UNCHANGED A!accessVars
    BY <2>6 DEF Settle, Prune, A!accessVars
  <2>7. ASSUME NEW r \in Roots, Block(r) PROVE A!Block(r)
    BY <2>7 DEF Block, A!Block
  <2>8. ASSUME NEW r \in Roots, Unblock(r) PROVE A!Unblock(r)
    BY <2>8 DEF Unblock, A!Unblock
  <2>9. CASE UNCHANGED vars
    BY <2>9 DEF vars, A!accessVars
  <2> QED BY <1>2, <2>1, <2>2, <2>3, <2>4, <2>5, <2>6, <2>7, <2>8, <2>9 DEF Next, A!AccessNext
<1> QED BY <1>1, <1>2, InvCorrect, PTL DEF Spec, ImplementsAccess, A!AccessSpec
=============================================================================
