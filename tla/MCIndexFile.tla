----------------------------- MODULE MCIndexFile -----------------------------
(* Instances of IndexFile for TLC.  An index is written in two or three    *)
(* pieces; three are needed for a hole that is not the header.             *)
EXTENDS IndexFile, TLC

CONSTANTS short, long

IndexSize == (Old :> 2) @@ [c \in Clips |-> IF c = long THEN 3 ELSE 2]

Interchangeable == Permutations(Threads)
=============================================================================
