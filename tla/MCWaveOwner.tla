---------------------------- MODULE MCWaveOwner ----------------------------
(* WaveOwner for TLC: the claims are interchangeable.                      *)
EXTENDS WaveOwner, TLC

InstanceSymmetry == Permutations(Instances)
=============================================================================
