---------------------------- MODULE MCUserSeeds ----------------------------
(* Instances of UserSeeds for TLC: one seed of one chunk, one of two. *)
EXTENDS UserSeeds, TLC

CONSTANTS s1, s2
MCSeeds == {s1, s2}
MCSeedSize == (s1 :> 1) @@ (s2 :> 2)
=============================================================================
