--------------------------- MODULE MCImageBuffers ---------------------------
(***************************************************************************)
(* Instances of ImageBuffers for TLC: a few threads, handles and paths as  *)
(* model values, and the two limits of the cache small enough that the     *)
(* requests of the bound reach both cleanup loops.                         *)
(***************************************************************************)
EXTENDS ImageBuffers, TLC

(* FUSE threads, handles and .dng paths are interchangeable. *)
Interchangeable ==
  Permutations(FuseThreads) \cup Permutations(Handles) \cup Permutations(DngPaths)
=============================================================================
