---------------------------- MODULE MCSourceLease ----------------------------
(* SourceLease for TLC: a repository, two disjoint directories inside it,  *)
(* and a landing into each of the three.                                   *)
EXTENDS SourceLease

CONSTANTS repo, left, right, atRepo, atLeft, atRight

MCRoots    == {repo, left, right}
MCOverlaps == {p \in MCRoots \X MCRoots : p[1] = p[2] \/ repo \in {p[1], p[2]}}
MCRootOf   == [l \in Landings |-> CASE l = atLeft -> left [] l = atRight -> right [] OTHER -> repo]
=============================================================================
