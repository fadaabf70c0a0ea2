---------------------------- MODULE MCReviewTurn ----------------------------
(* One typed input held or taken, three contents of the workspace, one       *)
(* correction before the cap.                                              *)
EXTENDS ReviewTurn, TLC

CONSTANTS i1, c1, c2, c3, none, closed

McInputs == {i1}
McContents == {c1, c2, c3}
McSymmetry == Permutations(McContents)
=============================================================================
