----------------------------- MODULE SourceLease -----------------------------
(***************************************************************************)
(* SourceMutationCoordinator: the process-local lease on source roots.     *)
(* Every acquire chains a ticket behind the tails of all overlapping       *)
(* roots; a promise is a ticket or a block that may settle.  Steps are the *)
(* synchronous stretches between the awaits of acquire, the release        *)
(* callback, block and its release, and the promise reactions that settle  *)
(* a tail and prune it.                                                    *)
(***************************************************************************)
EXTENDS Naturals, Sequences, FiniteSets

CONSTANTS Landings, Roots, Overlaps, RootOf, MaxBlocks

ASSUME LeaseOverlaps ==
  /\ Overlaps \subseteq Roots \X Roots
  /\ \A r \in Roots : <<r, r>> \in Overlaps
  /\ \A r, s \in Roots : <<r, s>> \in Overlaps => <<s, r>> \in Overlaps
ASSUME LeaseRootOf == RootOf \in [Landings -> Roots]
ASSUME LeaseBlocks == MaxBlocks \in Nat

VARIABLES pc,          \* where each acquire stands
          waitOn,      \* blocks an acquire at the gate awaits
          ticket,      \* the lease of each landing, 0 before its first
          leases,      \* every lease: its root and the tails it is chained behind
          open,        \* leases not released
          settled,     \* tails that have resolved
          tails,       \* the coordinator's map: last lease of each root, or 0
          pruning,     \* tails that delete their map entry when they resolve
          blockers,    \* the block of each root, or 0
          installed    \* number of blocks ever installed

vars == <<pc, waitOn, ticket, leases, open, settled, tails, pruning, blockers, installed>>

Overlap(r, s) == <<r, s>> \in Overlaps
Gated(r)      == \E s \in Roots : Overlap(s, r) /\ blockers[s] # 0

(* The blocks acquire collects before it waits. *)
BlocksOn(r) == {blockers[s] : s \in {q \in Roots : Overlap(q, r) /\ blockers[q] # 0}}

(* Mutant of TailsOn: only an earlier lease of the very same root counts. *)
MutTailsOnSameRoot(r) == {tails[s] : s \in {q \in Roots : q = r /\ tails[q] # 0}}

(* The tails a new lease is chained behind: one of every overlapping root. *)
TailsOn(r) == {tails[s] : s \in {q \in Roots : Overlap(q, r) /\ tails[q] # 0}}

TypeOK ==
  /\ pc \in [Landings -> {"idle", "gated", "queued", "held", "left"}]
  /\ installed \in 0..MaxBlocks
  /\ blockers \in [Roots -> 0..installed]
  /\ waitOn \in [Landings -> SUBSET (1..installed)]
  /\ leases \in Seq([root : Roots, after : SUBSET Nat])
  /\ \A t \in DOMAIN leases : leases[t].after \subseteq 1..(t - 1)
  /\ ticket \in [Landings -> 0..Len(leases)]
  /\ open \subseteq DOMAIN leases
  /\ settled \subseteq DOMAIN leases
  /\ tails \in [Roots -> 0..Len(leases)]
  /\ pruning \subseteq DOMAIN leases

Init ==
  /\ pc = [l \in Landings |-> "idle"]
  /\ waitOn = [l \in Landings |-> {}]
  /\ ticket = [l \in Landings |-> 0]
  /\ leases = <<>>
  /\ open = {}
  /\ settled = {}
  /\ tails = [r \in Roots |-> 0]
  /\ pruning = {}
  /\ blockers = [r \in Roots |-> 0]
  /\ installed = 0

(* Mutant of Chained: the first predecessor to resolve is enough. *)
MutChainedToAny(t) == leases[t].after = {} \/ leases[t].after \cap settled # {}

Chained(t) == leases[t].after \subseteq settled

StartAcquire(l) ==
  /\ pc[l] = "idle"
  /\ pc' = [pc EXCEPT ![l] = "gated"]
  /\ waitOn' = [waitOn EXCEPT ![l] = BlocksOn(RootOf[l])]
  /\ UNCHANGED <<ticket, leases, open, settled, tails, pruning, blockers, installed>>

AbortGated(l) ==
  /\ pc[l] = "gated"
  /\ pc' = [pc EXCEPT ![l] = "left"]
  /\ UNCHANGED <<waitOn, ticket, leases, open, settled, tails, pruning, blockers, installed>>

(* Every awaited block is released.  A block installed since is not seen. *)
Enqueue(l) ==
  LET t == Len(leases) + 1
      r == RootOf[l] IN
  /\ pc[l] = "gated"
  /\ \A s \in Roots : blockers[s] \notin waitOn[l]
  /\ pc' = [pc EXCEPT ![l] = "queued"]
  /\ leases' = Append(leases, [root |-> r, after |-> TailsOn(r)])
  /\ ticket' = [ticket EXCEPT ![l] = t]
  /\ open' = open \cup {t}
  /\ tails' = [tails EXCEPT ![r] = t]
  /\ UNCHANGED <<waitOn, settled, pruning, blockers, installed>>

(* pruneTail: the entry goes when the tail resolves, unless replaced. *)
PruneTail(l) ==
  pruning' = IF tails[RootOf[l]] = ticket[l] THEN pruning \cup {ticket[l]} ELSE pruning

(* Mutant of AbortQueued: the rejected wait forgets its lease. *)
MutAbortKeepsLease(l) ==
  /\ pc[l] = "queued"
  /\ pc' = [pc EXCEPT ![l] = "left"]
  /\ PruneTail(l)
  /\ UNCHANGED <<waitOn, ticket, leases, open, settled, tails, blockers, installed>>

AbortQueued(l) ==
  /\ pc[l] = "queued"
  /\ pc' = [pc EXCEPT ![l] = "left"]
  /\ open' = open \ {ticket[l]}
  /\ PruneTail(l)
  /\ UNCHANGED <<waitOn, ticket, leases, settled, tails, blockers, installed>>

(* Mutant of Enter: the gates are not looked at again after the queue. *)
MutEnterThroughGate(l) ==
  /\ pc[l] = "queued"
  /\ Chained(ticket[l])
  /\ pc' = [pc EXCEPT ![l] = "held"]
  /\ UNCHANGED <<waitOn, ticket, leases, open, settled, tails, pruning, blockers, installed>>

Enter(l) ==
  /\ pc[l] = "queued"
  /\ Chained(ticket[l])
  /\ ~Gated(RootOf[l])
  /\ pc' = [pc EXCEPT ![l] = "held"]
  /\ UNCHANGED <<waitOn, ticket, leases, open, settled, tails, pruning, blockers, installed>>

(* A gate came up while it queued: release, do not prune, start over. *)
Yield(l) ==
  /\ pc[l] = "queued"
  /\ Chained(ticket[l])
  /\ Gated(RootOf[l])
  /\ pc' = [pc EXCEPT ![l] = "gated"]
  /\ open' = open \ {ticket[l]}
  /\ waitOn' = [waitOn EXCEPT ![l] = BlocksOn(RootOf[l])]
  /\ UNCHANGED <<ticket, leases, settled, tails, pruning, blockers, installed>>

(* The callback acquire returned; a second call does nothing. *)
Release(l) ==
  /\ pc[l] = "held"
  /\ pc' = [pc EXCEPT ![l] = "left"]
  /\ open' = open \ {ticket[l]}
  /\ PruneTail(l)
  /\ UNCHANGED <<waitOn, ticket, leases, settled, tails, blockers, installed>>

(* A tail resolves once its lease is released and all it follows resolved. *)
Settle(t) ==
  /\ t \notin open \cup settled
  /\ Chained(t)
  /\ settled' = settled \cup {t}
  /\ UNCHANGED <<pc, waitOn, ticket, leases, open, tails, pruning, blockers, installed>>

(* Mutant of Prune: the entry is deleted as soon as the lease is released. *)
MutPruneEarly(t) ==
  LET r == leases[t].root IN
  /\ t \in pruning
  /\ pruning' = pruning \ {t}
  /\ tails' = IF tails[r] = t THEN [tails EXCEPT ![r] = 0] ELSE tails
  /\ UNCHANGED <<pc, waitOn, ticket, leases, open, settled, blockers, installed>>

Prune(t) ==
  LET r == leases[t].root IN
  /\ t \in pruning \cap settled
  /\ pruning' = pruning \ {t}
  /\ tails' = IF tails[r] = t THEN [tails EXCEPT ![r] = 0] ELSE tails
  /\ UNCHANGED <<pc, waitOn, ticket, leases, open, settled, blockers, installed>>

(* A root that is blocked already keeps the block it has. *)
Block(r) ==
  /\ blockers[r] = 0
  /\ installed < MaxBlocks
  /\ installed' = installed + 1
  /\ blockers' = [blockers EXCEPT ![r] = installed + 1]
  /\ UNCHANGED <<pc, waitOn, ticket, leases, open, settled, tails, pruning>>

Unblock(r) ==
  /\ blockers[r] # 0
  /\ blockers' = [blockers EXCEPT ![r] = 0]
  /\ UNCHANGED <<pc, waitOn, ticket, leases, open, settled, tails, pruning, installed>>

Next ==
  \/ \E l \in Landings : \/ StartAcquire(l) \/ AbortGated(l) \/ Enqueue(l)
                         \/ AbortQueued(l) \/ Enter(l) \/ Yield(l) \/ Release(l)
  \/ \E t \in DOMAIN leases : Settle(t) \/ Prune(t)
  \/ \E r \in Roots : Block(r) \/ Unblock(r)

Spec == Init /\ [][Next]_vars

(***************************************************************************)
(* Promise reactions run, and whoever holds a lease releases it: acquire's *)
(* callers all release in a finally.  Nobody need clear a gate.            *)
(***************************************************************************)
Fairness ==
  /\ \A l \in Landings : /\ WF_vars(Enqueue(l))
                         /\ WF_vars(Enter(l) \/ Yield(l))
                         /\ WF_vars(Release(l))
  /\ WF_vars(\E t \in DOMAIN leases : Settle(t))

FairSpec == Spec /\ Fairness

-----------------------------------------------------------------------------
(* Source mutation is serialized: two landings are never inside overlapping *)
(* roots at once, whatever was aborted, yielded or pruned before.           *)
MutualExclusion ==
  \A l, m \in Landings :
    pc[l] = "held" /\ pc[m] = "held" /\ Overlap(RootOf[l], RootOf[m]) => l = m

(* A landing inside never overtook one that queued before it for an        *)
(* overlapping root, across prunes of the tails between them.              *)
ServedInOrder ==
  \A l, m \in Landings :
    pc[l] = "queued" /\ pc[m] = "held" /\ Overlap(RootOf[l], RootOf[m])
      => ticket[m] < ticket[l]

(* A tail resolves only after every earlier lease of the same root. *)
ResolvedInOrder ==
  \A t, u \in DOMAIN leases :
    t < u /\ leases[t].root = leases[u].root /\ u \in settled => t \in settled

(* Every earlier lease of an overlapping root is behind a new one: it has   *)
(* resolved or the new one awaits it or a later lease of its root.          *)
ChainedBehind ==
  \A u \in DOMAIN leases : \A t \in 1..(u - 1) :
    Overlap(leases[t].root, leases[u].root) =>
      \/ t \in settled
      \/ \E v \in leases[u].after : t <= v /\ leases[v].root = leases[t].root

(* The map entry of a root stands for every lease of it that is unresolved, *)
(* so pruning never unhooks a lease somebody must still wait for.           *)
TailCovers ==
  /\ \A r \in Roots : tails[r] # 0 => leases[tails[r]].root = r
  /\ \A t \in DOMAIN leases : t \in settled \/ t <= tails[leases[t].root]

(* Landings that queue or hold have a lease of their own, of their root. *)
OwnLease ==
  /\ \A l \in Landings : pc[l] \in {"queued", "held"} =>
       ticket[l] \in open /\ leases[ticket[l]].root = RootOf[l]
  /\ \A l \in Landings : pc[l] = "held" => Chained(ticket[l])
  /\ \A l, m \in Landings : ticket[l] = ticket[m] /\ ticket[l] # 0 => l = m
  /\ open \cap settled = {}

LeaseInv == TypeOK /\ ResolvedInOrder /\ ChainedBehind /\ TailCovers /\ OwnLease

(* The coordinator is an implementation of SourceAccess. *)
PhaseOf(p) == IF p \in {"gated", "queued"} THEN "waiting" ELSE p
A == INSTANCE SourceAccess WITH phase <- [l \in Landings |-> PhaseOf(pc[l])]
ImplementsAccess == A!AccessSpec

(* Unless a gate stands over it for good, a landing that acquires gets its *)
(* turn, whoever aborts or yields before it.                               *)
EveryLandingServed ==
  \A l \in Landings :
    <>[](~Gated(RootOf[l])) => (pc[l] = "gated" ~> pc[l] \in {"held", "left"})
=============================================================================
