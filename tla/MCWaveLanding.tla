---------------------------- MODULE MCWaveLanding ----------------------------
(* WaveLanding for TLC: an addition, a modification and a deletion. *)
EXTENDS WaveLanding

MCOp     == <<"add", "modify", "delete">>
MCNoLink == <<0, 0, 0>>
(* Two deletions, the second of a symlink to the first. *)
MCLinkOp == <<"modify", "delete", "delete">>
MCLink   == <<0, 0, 2>>
=============================================================================
