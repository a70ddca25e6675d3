----------------------------- MODULE ChromaSmooth -----------------------------
(***************************************************************************)
(* chroma_smooth (cs.c, chroma_smooth.c): red and blue are set to green    *)
(* and the median of the differences from green around.  An image is       *)
(* [w, h, at] with at[x + y * w] in EV, as integers; the tables that       *)
(* convert samples, and black, are left out.                               *)
(***************************************************************************)
EXTENDS Integers, Sequences, SequencesExt, Medians

CONSTANT EvResolution   (* of EV_RESOLUTION, 32768                          *)

(* The places around one, in the order of the loops: a cross for 2x2. *)
Around(method) ==
  LET reach == IF method = 5 THEN 2 ELSE 1
      Places == [k \in 1..(2 * reach + 1)^2 |->
                   <<2 * ((k - 1) \div (2 * reach + 1) - reach),
                     2 * (((k - 1) % (2 * reach + 1)) - reach)>>]
      IsCorner(p) == p[1] \in {-2, 2} /\ p[2] \in {-2, 2}
  IN  SelectSeq(Places, LAMBDA p : ~(method = 2 /\ IsCorner(p)))

(* The middle of the two greens of a block of four. *)
Green(image, x, y) ==
  (image.at[x + 1 + y * image.w] + image.at[x + (y + 1) * image.w]) \div 2

(* The median of the differences of red (d = 0) or blue (d = 1). *)
Chroma(image, method, x, y, d) ==
  opt_med([k \in DOMAIN Around(method) |->
    LET u == x + Around(method)[k][1]
        v == y + Around(method)[k][2]
    IN  image.at[u + d + (v + d) * image.w] - Green(image, u, v)])

Limited(ev) == IF ev < 0 THEN 0 ELSE IF ev > 14 * EvResolution - 1 THEN 14 * EvResolution - 1 ELSE ev

(* Whether the block is changed: not in darkness, nor to a dark colour. *)
IsSmoothed(image, method, x, y) ==
  /\ x % 2 = 0 /\ 4 <= x /\ x < image.w - 4
  /\ y % 2 = 0 /\ 4 <= y /\ y < image.h - 5
  /\ Green(image, x, y) >= 2 * EvResolution
  /\ \A d \in {0, 1} : Green(image, x, y) + Chroma(image, method, x, y, d) > EvResolution

(* All is read from a copy of the image. *)
chroma_smooth(image, method) ==
  LET Smooth(x, y) ==
        LET d  == x % 2
            x0 == x - d
            y0 == y - d
        IN  IF x % 2 = y % 2 /\ IsSmoothed(image, method, x0, y0)
            THEN Limited(Green(image, x0, y0) + Chroma(image, method, x0, y0, d))
            ELSE image.at[x + y * image.w]
  IN  [image EXCEPT !.at = [i \in DOMAIN image.at |-> Smooth(i % image.w, i \div image.w)]]
=============================================================================
