------------------------------ MODULE MCPfmFile ------------------------------
(* Instances of PfmFile for TLC. *)
EXTENDS PfmFile, TLC

CONSTANTS f1, f2

(* A byte, and a piece that fills one block and a part of another, or is   *)
(* cut at the end of the largest file.                                     *)
SomePayloads == {<<1>>, <<0, 1, 1>>}

Interchangeable == Permutations({f1, f2})
=============================================================================
