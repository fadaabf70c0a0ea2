-------------------------- MODULE MCModelDelivery --------------------------
(* ModelDelivery for TLC.                                                  *)
EXTENDS ModelDelivery, TLC

ReleaserSymmetry == Permutations(Releasers)
=============================================================================
