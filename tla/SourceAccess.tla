---------------------------- MODULE SourceAccess ----------------------------
(***************************************************************************)
(* What the source mutation coordinator promises, with no tickets, tails   *)
(* or promises: a landing that waits for a source root enters only when no *)
(* landing of an overlapping root is inside and no gate blocks an          *)
(* overlapping root, and it may give up while it waits.                    *)
(*                                                                         *)
(* SourceLease implements this specification; ConflictGates composes it    *)
(* with the store of conflict gates.                                       *)
(***************************************************************************)
EXTENDS Naturals

CONSTANTS Landings,    \* calls of acquire: wave landings, captures, force-merges
          Roots,       \* resolved source roots
          Overlaps,    \* pairs of roots one of which contains the other
          RootOf,      \* the root a landing acquires
          MaxBlocks    \* bound: blocks ever installed

ASSUME OverlapsAssumption ==
  /\ Overlaps \subseteq Roots \X Roots
  /\ \A r \in Roots : <<r, r>> \in Overlaps
  /\ \A r, s \in Roots : <<r, s>> \in Overlaps => <<s, r>> \in Overlaps
ASSUME RootOfAssumption == RootOf \in [Landings -> Roots]
ASSUME BlocksAssumption == MaxBlocks \in Nat

VARIABLES phase,       \* where each landing stands
          blockers,    \* the block of each root, 0 when it has none
          installed    \* number of blocks ever installed

accessVars == <<phase, blockers, installed>>

Overlap(r, s) == <<r, s>> \in Overlaps
Gated(r)      == \E s \in Roots : Overlap(s, r) /\ blockers[s] # 0

AccessTypeOK ==
  /\ phase \in [Landings -> {"idle", "waiting", "held", "left"}]
  /\ installed \in 0..MaxBlocks
  /\ blockers \in [Roots -> 0..installed]

AccessInit ==
  /\ phase = [l \in Landings |-> "idle"]
  /\ blockers = [r \in Roots |-> 0]
  /\ installed = 0

Become(l, from, to) == phase[l] = from /\ phase' = [phase EXCEPT ![l] = to]

Wait(l)   == Become(l, "idle", "waiting") /\ UNCHANGED <<blockers, installed>>
GiveUp(l) == Become(l, "waiting", "left") /\ UNCHANGED <<blockers, installed>>
Leave(l)  == Become(l, "held", "left") /\ UNCHANGED <<blockers, installed>>

Enter(l) ==
  /\ ~Gated(RootOf[l])
  /\ \A m \in Landings : phase[m] = "held" => ~Overlap(RootOf[m], RootOf[l])
  /\ Become(l, "waiting", "held")
  /\ UNCHANGED <<blockers, installed>>

(* A root that is blocked already keeps its block, so only a fresh one acts. *)
Block(r) ==
  /\ blockers[r] = 0
  /\ installed < MaxBlocks
  /\ installed' = installed + 1
  /\ blockers' = [blockers EXCEPT ![r] = installed + 1]
  /\ UNCHANGED phase

Unblock(r) ==
  /\ blockers[r] # 0
  /\ blockers' = [blockers EXCEPT ![r] = 0]
  /\ UNCHANGED <<phase, installed>>

AccessNext ==
  \/ \E l \in Landings : Wait(l) \/ GiveUp(l) \/ Enter(l) \/ Leave(l)
  \/ \E r \in Roots : Block(r) \/ Unblock(r)

AccessSpec == AccessInit /\ [][AccessNext]_accessVars
=============================================================================
