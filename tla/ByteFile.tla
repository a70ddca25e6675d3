------------------------------ MODULE ByteFile ------------------------------
(***************************************************************************)
(* What a temporary file of the Windows volume promises: a sequence of     *)
(* bytes that can be written anywhere, a gap being filled with zeros, cut  *)
(* off, and extended with zeros; and an honest answer how much of a write  *)
(* is in the file.                                                         *)
(***************************************************************************)
EXTENDS Integers, Sequences

CONSTANTS Files, Payloads, MaxSize

VARIABLES
  content,        (* the bytes of each file                                 *)
  outActualSize   (* what the last write answered                           *)

Init ==
  /\ content = [f \in Files |-> <<>>]
  /\ outActualSize = 0

(* s as long as n: cut off or extended with zeros. *)
Resized(s, n) == [p \in 1..n |-> IF p <= Len(s) THEN s[p] ELSE 0]

Longer(m, n) == IF m > n THEN m ELSE n

(* The first k bytes of data are written at an offset: fewer than all if   *)
(* there is no memory for the rest.                                        *)
Write(f, offset, data, k) ==
  /\ content' = [content EXCEPT ![f] =
       [p \in 1..Longer(Len(@), offset + k) |->
          IF p \in offset + 1..offset + k THEN data[p - offset]
          ELSE IF p <= Len(@) THEN @[p] ELSE 0]]
  /\ outActualSize' = k

(* Nothing is written. *)
WriteNothing == outActualSize' = 0 /\ UNCHANGED content

SetSize(f, n) ==
  /\ content' = [content EXCEPT ![f] = Resized(@, n)]
  /\ UNCHANGED outActualSize

Next ==
  \/ \E f \in Files :
       \/ \E offset \in 0..MaxSize, data \in Payloads :
            \E k \in 1..Len(data) : Write(f, offset, data, k)
       \/ \E n \in 0..MaxSize : SetSize(f, n)
  \/ WriteNothing

Spec == Init /\ [][Next]_<<content, outActualSize>>
=============================================================================
