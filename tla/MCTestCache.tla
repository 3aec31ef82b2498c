----------------------------- MODULE MCTestCache -----------------------------
(* Instances of TestCache for TLC. *)
EXTENDS TestCache, TLC

EntrySymmetry == Permutations(Entries)
=============================================================================
