----------------------------- MODULE MCPfmVolume -----------------------------
(* Instances of PfmVolume for TLC. *)
EXTENDS PfmVolume, TLC

CONSTANTS a, b

Interchangeable == Permutations({a, b})
=============================================================================
