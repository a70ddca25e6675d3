---------------------------- MODULE DualIsoFields ----------------------------
(***************************************************************************)
(* How full dual ISO makes a dark and a bright image of one frame (hdr.c): *)
(* the rows of one exposure are in it as they are (native), and in the     *)
(* rows of the other one every pixel is made of pixels around it           *)
(* (interpolated), by amaze_interpolate or mean32_interpolate and then by  *)
(* border_interpolate.                                                     *)
(*                                                                         *)
(* Of a pixel only where it comes from is kept: [from |-> the places       *)
(* [x, y, colour] of the frame it is made of, seen |-> the ones that may   *)
(* have been compared to choose among directions].  A frame is             *)
(* [w, h, start], start being the first of two dark rows.                  *)
(***************************************************************************)
EXTENDS DualIso

Colour(x, y) == IF x % 2 # y % 2 THEN "green" ELSE IF y % 2 = 0 THEN "red" ELSE "blue"
Pixel(x, y) == [x |-> x, y |-> y, colour |-> Colour(x, y)]

(* To the closest row of the other exposure. *)
Side(f, y) == IF BrightRow(y, f.start) = BrightRow(y + 1, f.start) THEN -1 ELSE 1

Native(x, y) == [from |-> {Pixel(x, y)}, seen |-> {}]
Interp(from, seen) == [from |-> from, seen |-> seen]

-----------------------------------------------------------------------------
(* amaze_interpolate first squeezes the rows of each exposure together, so *)
(* that demosaicing does not see the other one.                            *)

RowsWith(f, exposure) ==
  {y \in 0..f.h - 1 : BrightRow(y, f.start) = (exposure = "bright")}

NoRow == -1

(* Where row y is put: the rows of an exposure follow each other from one  *)
(* that has the parity of the first of them.                               *)
Place(f, y) ==
  LET rows  == RowsWith(f, IF BrightRow(y, f.start) THEN "bright" ELSE "dark")
      first == Min(rows) + IF BrightRow(y, f.start) THEN (f.h \div 4) * 2 ELSE 0
  IN  first + Cardinality({r \in rows : r < y})

(* Where it is looked for: the last bright rows may not be in any more.    *)
squeezed(f, y) == IF Place(f, y) < f.h THEN Place(f, y) ELSE 0

(* What is in row yh in the end: bright rows are put over dark ones.       *)
Held(f, yh) ==
  LET in == {y \in 0..f.h - 1 : Place(f, y) = yh}
      brightest == {y \in in : BrightRow(y, f.start) \/ \A r \in in : ~BrightRow(r, f.start)}
  IN  IF in = {} THEN NoRow ELSE CHOOSE y \in brightest : TRUE

(* For each row, which one is where it is looked for, and whether the      *)
(* colours of that one are what demosaicing takes them for.                *)
Squeezed(f) ==
  [y \in 0..f.h - 1 |->
     LET row == Held(f, squeezed(f, y))
     IN  [row |-> row, aligned |-> row % 2 = squeezed(f, y) % 2]]

(* Along which edge to interpolate: how far to the side the near pixel,    *)
(* one row away, and the far one, two rows away on the other side, are,    *)
(* and the ones beyond that are compared with them.                        *)
edge_directions ==
  <<[ack |-> -4, a |-> -2, b |->  4, bck |->  6], [ack |-> -3, a |-> -1, b |->  3, bck |->  4],
    [ack |-> -2, a |-> -1, b |->  2, bck |->  3], [ack |-> -1, a |-> -1, b |->  1, bck |->  2],
    [ack |-> -1, a |->  0, b |->  1, bck |->  1], [ack |->  0, a |->  0, b |->  0, bck |->  0],
    [ack |->  1, a |->  0, b |-> -1, bck |-> -1], [ack |->  1, a |->  1, b |-> -1, bck |-> -2],
    [ack |->  2, a |->  1, b |-> -2, bck |-> -3], [ack |->  3, a |->  1, b |-> -3, bck |-> -4],
    [ack |->  4, a |->  2, b |-> -4, bck |-> -6]>>

Vertical == 6

(* The directions that may be found best, depending on what is in the      *)
(* frame: only pixels with five around them are compared.                  *)
Directions(f, x, y) ==
  IF x \in 5..f.w - 6 /\ y \in 5..f.h - 6 THEN DOMAIN edge_directions ELSE {Vertical}

(* Of the interpolated planes each colour is at every place. *)
Plane(held, x, y, colour) ==
  [x |-> x, y |-> held[y].row, colour |-> IF held[y].aligned THEN colour ELSE "another"]

edge_interp(f, held, dir, x, y) ==
  LET s == Side(f, y)
      d == edge_directions[dir]
  IN  {Plane(held, x + d.a, y + s, Colour(x, y)), Plane(held, x + d.b, y - 2 * s, Colour(x, y))}

(* The pixels, of gray, that are compared for a direction, by column and   *)
(* row; one left or right of its row is one of another row.                *)
Compared(f, dir, x, y) ==
  LET s == Side(f, y)
      d == edge_directions[dir]
      Around(dx, row) == {<<x + dx + j, row>> : j \in -5..5}
  IN  Around(d.ack, y + 2 * s) \cup Around(d.a, y + s) \cup Around(d.b, y - 2 * s)
        \cup Around(d.bck, y - 3 * s)

(* Also the directions beside the best one are interpolated along. *)
AmazePixel(f, held, x, y) ==
  LET best == Directions(f, x, y)
      all  == UNION {{d - 1, d, d + 1} : d \in best} \cap DOMAIN edge_directions
  IN  Interp(UNION {edge_interp(f, held, d, x, y) : d \in all},
             IF best = {Vertical} THEN {} ELSE UNION {Compared(f, d, x, y) : d \in best})


-----------------------------------------------------------------------------
(* mean32_interpolate: red and blue of the rows two away, green of the two *)
(* in the near row and the one two away on the other side.                 *)

MeanPixel(f, x, y) ==
  LET s == Side(f, y)
  IN  Interp(IF Colour(x, y) = "green"
             THEN {Pixel(x - 1, y + s), Pixel(x + 1, y + s), Pixel(x, y - 2 * s)}
             ELSE {Pixel(x, y - 2), Pixel(x, y + 2)}, {})

-----------------------------------------------------------------------------
(* Both leave out two pixels at each edge.  border_interpolate goes over   *)
(* the first three rows and the last four, then, from the third row on,    *)
(* over the first two columns and the last three, where also the native    *)
(* pixels are those two to the left.                                       *)
TwoExposures(f, held, exposure, method) ==
  LET Is(p) == BrightRow(p[2], f.start) = (exposure = "bright")
      Border(p, x, y) == IF Is(p) THEN Native(x, p[2]) ELSE Interp({Pixel(x, y)}, {})
      Inner(p) == CASE Is(p) -> Native(p[1], p[2])
                    [] ~Is(p) /\ method = "amaze" -> AmazePixel(f, held, p[1], p[2])
                    [] ~Is(p) /\ method = "mean" -> MeanPixel(f, p[1], p[2])
  IN  [p \in (0..f.w - 1) \X (0..f.h - 1) |->
         LET x == p[1]
             y == p[2]
         IN  CASE y >= 2 /\ x >= f.w - 3 -> Border(p, x - 2, y - 2)
               [] y >= f.h - 4 /\ x < f.w - 3 -> Border(p, x, y - 2)
               [] y >= 2 /\ x < 2 /\ y < f.h - 4 -> Border(p, x, y - 2)
               [] y < 2 \/ (y = 2 /\ x \in 2..f.w - 4) -> Border(p, x, y + 2)
               [] OTHER -> Inner(p)]
=============================================================================
