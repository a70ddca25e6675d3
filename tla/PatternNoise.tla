----------------------------- MODULE PatternNoise -----------------------------
(***************************************************************************)
(* fix_pattern_noise (patternnoise.c): offsets of whole columns, and then  *)
(* of whole rows, are taken out of the samples.  An image or one colour of *)
(* it is [w, h, at], at[x + y * w] being a sample.  Samples have 14 bits,  *)
(* so that nothing of 16 bits wraps; the debugging views, which MLVFS      *)
(* never asks for, are left out.                                           *)
(***************************************************************************)
EXTENDS Integers, Sequences, SequencesExt, Medians

CONSTANTS
  Strength,   (* 50, of the blur                                            *)
  MinCount    (* 10, samples without which no offset is computed            *)

Threshold == 500   \* of what is similar, and of what is an edge

(* C rounds towards 0. *)
Halved(n) == IF n >= 0 THEN n \div 2 ELSE -((-n) \div 2)

Within(n, lo, hi) == IF n < lo THEN lo ELSE IF n > hi THEN hi ELSE n

Size(a, b) == IF a - b < 0 THEN b - a ELSE a - b

(* The lower one of two medians. *)
median_wirth(a) ==
  kth_smallest_int(a, IF Len(a) % 2 = 1 THEN Len(a) \div 2 + 1 ELSE Len(a) \div 2)

subtract(a, b) == [a EXCEPT !.at = [i \in DOMAIN a.at |-> a.at[i] - b.at[i]]]

average(a, b) == [a EXCEPT !.at = [i \in DOMAIN a.at |-> Halved(a.at[i] + b.at[i])]]

transpose(in) ==
  [w |-> in.h, h |-> in.w,
   at |-> [i \in DOMAIN in.at |-> in.at[(i \div in.h) + (i % in.h) * in.w]]]

(* Also across the ends of rows. *)
horizontal_gradient(in) ==
  [i \in DOMAIN in.at |-> IF 2 <= i /\ i < in.w * in.h - 2 THEN in.at[i - 2] - in.at[i + 2] ELSE 0]

-----------------------------------------------------------------------------
(* horizontal_edge_aware_blur_rggb.                                        *)

(* The columns around x whose samples are similar, from the first that is  *)
(* not on: fewer than strength on the right.                               *)
Similar(avg, x, y) ==
  LET strength == Strength \div 2
      Differs(u) == Size(avg.at[u + y * avg.w], avg.at[x + y * avg.w]) > Threshold
      after  == {u \in x + 1..avg.w : u >= x + strength \/ u = avg.w \/ Differs(u)}
      before == {u \in -1..x - 1 : u < x - strength \/ u = -1 \/ Differs(u)}
  IN  (CHOOSE u \in before : \A v \in before : v <= u) + 1 ..
      (CHOOSE u \in after : \A v \in after : u <= v) - 1

(* Of the row y, the columns in S in order. *)
Part(image, S, y) ==
  LET first == CHOOSE u \in S : \A v \in S : u <= v
  IN  [n \in 1..Cardinality(S) |-> image.at[first + n - 1 + y * image.w]]

(* Slip: green is not added to the difference again. *)
BlurredWithoutGreen(image, g1, g2) ==
  LET avg  == average(g1, g2)
      diff == subtract(image, avg)
      of   == [i \in DOMAIN image.at |-> median_wirth(Part(diff, Similar(avg, i % avg.w, i \div avg.w), i \div avg.w))]
  IN  [image EXCEPT !.at = of]

(* Red or blue after the blur: the medians of the difference from green,   *)
(* and of green.  Columns with the same neighbours have the same medians.  *)
Blurred(image, g1, g2) ==
  LET avg  == average(g1, g2)
      diff == subtract(image, avg)
      Smooth(x, y) == LET S == Similar(avg, x, y)
                          mg == Halved(median_wirth(Part(g1, S, y)) + median_wirth(Part(g2, S, y)))
                      IN  median_wirth(Part(diff, S, y)) + mg
  IN  [image EXCEPT !.at = [i \in DOMAIN image.at |-> Smooth(i % avg.w, i \div avg.w)]]

BlurredGreen(image, g1, g2) ==
  LET avg == average(g1, g2)
  IN  [image EXCEPT !.at = [i \in DOMAIN image.at |->
         median_wirth(Part(image, Similar(avg, i % avg.w, i \div avg.w), i \div avg.w))]]

-----------------------------------------------------------------------------
(* Samples on a strong edge, and bright ones, say nothing about noise. *)
Masked(original, white) ==
  LET hgrad == horizontal_gradient(original)
  IN  {i \in DOMAIN original.at : Size(hgrad[i], 0) > Threshold \/ original.at[i] >= white}

(* fix_column_noise: what is taken off each column ...                     *)
ColumnOffsets(original, denoised, white) ==
  LET noise == subtract(original, denoised)
      mask  == Masked(original, white)
      Offset(x) ==
        LET column == SelectSeq([y \in 1..original.h |-> x + (y - 1) * original.w],
                                LAMBDA i : i \notin mask)
            noise_row == [n \in DOMAIN column |-> noise.at[column[n]]]
        IN  IF Len(column) < MinCount THEN 0 ELSE -median_wirth(noise_row)
  IN  [n \in 1..original.w |-> Offset(n - 1)]

(* ... and the samples without it; the median is taken off again.          *)
WithOffsets(original, col_offsets) ==
  LET mc == median_wirth(col_offsets)
      Applied(i) == Within(original.at[i] + col_offsets[(i % original.w) + 1], -32767, 32767)
  IN  [original EXCEPT !.at = [i \in DOMAIN original.at |-> Within(Applied(i) - mc, 0, 32760)]]

-----------------------------------------------------------------------------
(* One pass: fix_column_noise_rggb.  The colours are numbered by their     *)
(* place, 1 and 2 are green.                                               *)

extract_channel(in, dx, dy) ==
  LET w == in.w \div 2
      h == in.h \div 2
  IN  [w |-> w, h |-> h,
       at |-> [i \in 0..w * h - 1 |-> in.at[2 * (i % w) + dx + (2 * (i \div w) + dy) * in.w]]]

Channels(raw) == [k \in 0..3 |-> extract_channel(raw, k % 2, k \div 2)]

Smoothed(c) ==
  [k \in 0..3 |-> IF k \in {1, 2} THEN BlurredGreen(c[k], c[1], c[2])
                  ELSE Blurred(c[k], c[1], c[2])]

(* set_channel, of all four. *)
Together(raw, c) ==
  [raw EXCEPT !.at = [i \in DOMAIN raw.at |->
     LET x == i % raw.w
         y == i \div raw.w
     IN  c[(x % 2) + 2 * (y % 2)].at[x \div 2 + (y \div 2) * (raw.w \div 2)]]]

Offsets(c, smooth, white) == [k \in 0..3 |-> ColumnOffsets(c[k], smooth[k], white)]

Corrected(raw, c, offsets) ==
  Together(raw, [k \in 0..3 |-> WithOffsets(c[k], offsets[k])])

(* fix_pattern_noise, by the values it makes in turn: of the columns, then *)
(* of the rows.                                                            *)
NextNoiseValue(raw, white, made) ==
  LET this == IF Len(made) < 4 THEN raw ELSE transpose(made[4])
  IN  CASE Len(made) \in {0, 4} -> Channels(this)
        [] Len(made) \in {1, 5} -> Smoothed(Last(made))
        [] Len(made) \in {2, 6} -> Offsets(made[Len(made) - 1], Last(made), white)
        [] Len(made) = 3 -> Corrected(this, made[1], made[3])
        [] Len(made) = 7 -> transpose(Corrected(this, made[5], made[7]))
=============================================================================
