------------------------------ MODULE MCStripes ------------------------------
(* Instances of Stripes for TLC. *)
EXTENDS Stripes, TLC

Interchangeable == Permutations(Threads) \cup Permutations(Clips)
=============================================================================
