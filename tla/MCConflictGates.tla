--------------------------- MODULE MCConflictGates ---------------------------
(* ConflictGates for TLC: a repository and a directory inside it, another  *)
(* repository, and landings whose groups work in each of them.             *)
EXTENDS ConflictGates, TLC

CONSTANTS repo, sub, other, inSub, inRepo, inOther

MCRoots    == {repo, sub, other}
MCOverlaps == {p \in MCRoots \X MCRoots : p[1] = p[2] \/ {p[1], p[2]} = {repo, sub}}
MCRootOf   == [l \in Landings |-> IF l = inOther THEN other ELSE repo]
MCGateOf   == [l \in Landings |->
                CASE l = inOther -> other [] l = inRepo -> repo [] OTHER -> sub]

CleanerSymmetry == Permutations(Cleaners)
=============================================================================
