------------------------------- MODULE Medians -------------------------------
(***************************************************************************)
(* How the corrections choose one of several samples: kth_smallest_int of  *)
(* wirth.h, and the networks of opt_med.h that chroma smoothing uses.      *)
(* Array elements are numbered from 1.                                     *)
(***************************************************************************)
EXTENDS Integers, Sequences, FiniteSets

-----------------------------------------------------------------------------
(* Wirth's selection.  i runs up and j down, and what they stop at is      *)
(* swapped, until they have met.                                           *)

State == [a : Seq(Int), i : Int, j : Int, l : Int, m : Int]

LeastFrom(a, i, x) ==
  CHOOSE u \in i..Len(a) : a[u] >= x /\ \A w \in i..u - 1 : a[w] < x

GreatestTo(a, j, x) ==
  CHOOSE u \in 1..j : a[u] <= x /\ \A w \in u + 1..j : a[w] > x

Swapped(s, i, j) ==
  IF i <= j THEN [s EXCEPT !.a[i] = s.a[j], !.a[j] = s.a[i], !.i = i + 1, !.j = j - 1]
  ELSE [s EXCEPT !.i = i, !.j = j]

Exchanged(s, x) == Swapped(s, LeastFrom(s.a, s.i, x), GreatestTo(s.a, s.j, x))

Partitioned(s, x) ==
  LET P[t \in State] == LET Rest(u) == IF u.i <= u.j THEN P[u] ELSE u
                        IN  Rest(Exchanged(t, x))
  IN  P[[s EXCEPT !.i = s.l, !.j = s.m]]

(* The part in which the k-th one is. *)
PartWith(t, k) ==
  [t EXCEPT !.l = IF t.j < k THEN t.i ELSE @, !.m = IF k < t.i THEN t.j ELSE @]

Narrowed(s, k) == PartWith(Partitioned(s, s.a[k]), k)

kth_smallest_int(array, k) ==
  LET Of[s \in State] == IF s.l < s.m THEN Of[Narrowed(s, k)] ELSE s.a[k]
  IN  Of[[a |-> array, i |-> 1, j |-> 1, l |-> 1, m |-> Len(array)]]

-----------------------------------------------------------------------------
(* The networks.  A comparator puts the smaller one first.                 *)

PIX_SORT(p, c) ==
  IF p[c[1] + 1] > p[c[2] + 1]
  THEN [p EXCEPT ![c[1] + 1] = p[c[2] + 1], ![c[2] + 1] = p[c[1] + 1]] ELSE p

(* Slip: the last comparator is left out. *)
ThroughButLast(network, p) ==
  LET After[k \in Nat] == IF k = 0 THEN p ELSE PIX_SORT(After[k - 1], network[k])
  IN  After[Len(network) - 1]

Through(network, p) ==
  LET After[k \in Nat] == IF k = 0 THEN p ELSE PIX_SORT(After[k - 1], network[k])
  IN  After[Len(network)]

opt_med5 ==
  <<<<0,1>>, <<3,4>>, <<0,3>>, <<1,4>>, <<1,2>>, <<2,3>>, <<1,2>>>>

opt_med9 ==
  <<<<1,2>>, <<4,5>>, <<7,8>>, <<0,1>>, <<3,4>>, <<6,7>>, <<1,2>>, <<4,5>>, <<7,8>>,
    <<0,3>>, <<5,8>>, <<4,7>>, <<3,6>>, <<1,4>>, <<2,5>>, <<4,7>>, <<4,2>>, <<6,4>>,
    <<4,2>>>>

opt_med25 ==
  <<<<0,1>>, <<3,4>>, <<2,4>>, <<2,3>>, <<6,7>>, <<5,7>>, <<5,6>>,
    <<9,10>>, <<8,10>>, <<8,9>>, <<12,13>>, <<11,13>>, <<11,12>>, <<15,16>>,
    <<14,16>>, <<14,15>>, <<18,19>>, <<17,19>>, <<17,18>>, <<21,22>>, <<20,22>>,
    <<20,21>>, <<23,24>>, <<2,5>>, <<3,6>>, <<0,6>>, <<0,3>>, <<4,7>>,
    <<1,7>>, <<1,4>>, <<11,14>>, <<8,14>>, <<8,11>>, <<12,15>>, <<9,15>>,
    <<9,12>>, <<13,16>>, <<10,16>>, <<10,13>>, <<20,23>>, <<17,23>>, <<17,20>>,
    <<21,24>>, <<18,24>>, <<18,21>>, <<19,22>>, <<8,17>>, <<9,18>>, <<0,18>>,
    <<0,9>>, <<10,19>>, <<1,19>>, <<1,10>>, <<11,20>>, <<2,20>>, <<2,11>>,
    <<12,21>>, <<3,21>>, <<3,12>>, <<13,22>>, <<4,22>>, <<4,13>>, <<14,23>>,
    <<5,23>>, <<5,14>>, <<15,24>>, <<6,24>>, <<6,15>>, <<7,16>>, <<7,19>>,
    <<13,21>>, <<15,23>>, <<7,13>>, <<7,15>>, <<1,9>>, <<3,11>>, <<5,17>>,
    <<11,17>>, <<9,17>>, <<4,10>>, <<6,12>>, <<7,14>>, <<4,6>>, <<4,7>>,
    <<12,14>>, <<10,14>>, <<6,7>>, <<10,12>>, <<6,10>>, <<6,17>>, <<12,17>>,
    <<7,17>>, <<7,10>>, <<12,18>>, <<7,12>>, <<10,18>>, <<12,20>>, <<10,20>>,
    <<10,12>>>>

(* The median of 5, 9 or 25 samples. *)
opt_med(p) ==
  CASE Len(p) = 5  -> Through(opt_med5, p)[3]
    [] Len(p) = 9  -> Through(opt_med9, p)[5]
    [] Len(p) = 25 -> Through(opt_med25, p)[13]
=============================================================================
