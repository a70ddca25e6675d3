----------------------------- MODULE PixelRepair -----------------------------
(***************************************************************************)
(* How cs.c repairs one pixel: fix_focus_pixels and fix_bad_pixels choose  *)
(* pixels around it by its place, and the value is interpolated from them  *)
(* along the direction in which the other colour changes least.  Samples   *)
(* are taken in EV, as integers; the tables that convert them are left     *)
(* out.  i numbers the pixels of an image of w columns and h rows from 0.  *)
(***************************************************************************)
EXTENDS Integers, FiniteSets, Medians

-----------------------------------------------------------------------------
(* The search of fix_bad_pixels: whether a pixel p is bad, by the eight of *)
(* its colour around it.  Samples are powers of two above black.           *)

DarkNoise == 12

(* The tables of get_raw2ev: nothing below black, and the logarithm above. *)
raw2ev(v, black) ==
  IF v <= black THEN 0 ELSE CHOOSE k \in 0..14 : 2^k <= v - black /\ v - black < 2^(k + 1)

(* raw2ev[p] - raw2ev[q] > n.  For black itself the table has the smallest *)
(* integer there is, the logarithm of 0: the difference from it overflows  *)
(* and is negative.                                                        *)
Exceeds(p, q, black, n) ==
  q # black /\ raw2ev(p, black) - raw2ev(q, black) > n

(* The n-th largest sample: max1 and max2 are carried along, the third is  *)
(* selected, both among the negative samples.                              *)
NthLargest(neighbours, n) ==
  -kth_smallest_int([k \in DOMAIN neighbours |-> -neighbours[k]], n)

IsBad(p, neighbours, black, aggressive) ==
  LET max2 == NthLargest(neighbours, 2)
      max3 == NthLargest(neighbours, 3)
  IN  \/ p < black - DarkNoise * 8
      \/ /\ p > black + DarkNoise * 8
         /\ \/ Exceeds(p, max2, black, 2)
            \/ aggressive /\ (Exceeds(p, max2, black, 1) \/ Exceeds(p, max3, black, 1))

-----------------------------------------------------------------------------
(* Which way a focus pixel at x, y, seen from the crop, is repaired; "none" *)
(* is also for most of the pixels outside of the crop.                     *)

Inside(x, y, w, h) == x > 2 /\ x < w - 3 /\ y > 2 /\ y < h - 3

HorizontalEdge(x, w) == (x >= w - 3 /\ x < w) \/ (x >= 0 /\ x <= 3)
VerticalEdge(y, h)   == (y >= h - 3 /\ y < h) \/ (y >= 0 /\ y <= 3)

(* Slip: on the left and right edges dual ISO makes no difference. *)
FocusRepairIgnoringDualIso(x, y, w, h, dual_iso) ==
  LET horizontal_edge == HorizontalEdge(x, w)
      vertical_edge   == VerticalEdge(y, h)
  IN  CASE Inside(x, y, w, h) -> IF dual_iso THEN "horizontal" ELSE "both"
        [] ~Inside(x, y, w, h) /\ (x + y * w <= 0 \/ x + y * w >= w * h) -> "none"
        [] OTHER -> CASE horizontal_edge /\ ~vertical_edge -> "vertical"
                      [] vertical_edge /\ ~horizontal_edge -> "horizontal"
                      [] horizontal_edge = vertical_edge ->
                           IF x >= 0 /\ x <= 3 THEN "right"
                           ELSE IF x >= w - 3 /\ x < w THEN "left" ELSE "none"

FocusRepair(x, y, w, h, dual_iso) ==
  LET horizontal_edge == HorizontalEdge(x, w)
      vertical_edge   == VerticalEdge(y, h)
  IN  CASE Inside(x, y, w, h) -> IF dual_iso THEN "horizontal" ELSE "both"
        [] ~Inside(x, y, w, h) /\ (x + y * w <= 0 \/ x + y * w >= w * h) -> "none"
        [] OTHER -> CASE horizontal_edge /\ ~vertical_edge /\ ~dual_iso -> "vertical"
                      [] vertical_edge /\ ~horizontal_edge -> "horizontal"
                      [] horizontal_edge /\ (vertical_edge \/ dual_iso) ->
                           IF x >= 0 /\ x <= 3 THEN "right" ELSE "left"
                      [] ~horizontal_edge /\ ~vertical_edge -> "none"

(* fix_bad_pixels *)
BadRepair(x, y, w, h, dual_iso) ==
  CASE Inside(x, y, w, h) -> IF dual_iso THEN "horizontal" ELSE "both"
    [] ~Inside(x, y, w, h) -> "none"

-----------------------------------------------------------------------------
(* The pixels that the value is made of, and those that give it weights,   *)
(* by their distance in the array.                                         *)

ValueFrom(repair, w) ==
  CASE repair = "right"      -> {2}
    [] repair = "left"       -> {-2}
    [] repair = "horizontal" -> {-2, 2}
    [] repair = "vertical"   -> {-2 * w, 2 * w}
    [] repair = "both"       -> {-2, 2, -2 * w, 2 * w}
    [] repair = "none"       -> {}

WeightsFrom(repair, w) ==
  CASE repair = "horizontal" -> {-3, -1, 1, 3}
    [] repair = "vertical"   -> {-3 * w, -w, w, 3 * w}
    [] repair = "both"       -> {-3, -1, 1, 3, -3 * w, -w, w, 3 * w}
    [] repair \in {"right", "left", "none"} -> {}

-----------------------------------------------------------------------------
(* The value.  d1 and d2 are the differences of the other colour on both   *)
(* sides (of two pairs of sides), and e1 and e2 the values two pixels off. *)

(* interpolate_horizontal and interpolate_vertical *)
interpolate_line(d1, d2, e1, e2) ==
  LET sum == d1 + d2
      w1  == ((sum - d1) * 256) \div sum
      w2  == ((sum - d2) * 256) \div sum
  IN  IF sum = 0 THEN e1 ELSE (e1 * w1) \div 256 + (e2 * w2) \div 256

(* interpolate_pixel: the second one of h is the pixel on the right.       *)
interpolate_pixel(dv, dh, ev, eh) ==
  LET sum == dv[1] + dv[2] + dh[1] + dh[2]
      c(d) == ((sum - d) * 256) \div (3 * sum)
  IN  IF sum = 0 THEN eh[1]
      ELSE (ev[1] * c(dv[1])) \div 256 + (ev[2] * c(dv[2])) \div 256
             + (eh[1] * c(dh[1])) \div 256 + (eh[2] * c(dh[2])) \div 256
=============================================================================
