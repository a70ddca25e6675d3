------------------------------- MODULE DualIso -------------------------------
(***************************************************************************)
(* Which rows of a frame are the bright ones: hdr_convert_data, the        *)
(* preview of dual ISO, with the histograms of histogram.c, and            *)
(* identify_rggb_or_gbrg and identify_bright_and_dark_fields for full dual *)
(* ISO (hdr.c); and how the preview then brings all rows to one exposure.  *)
(*                                                                         *)
(* An image is [width, height, black, white, at], at[y][x] being a sample. *)
(* active_area.y1 is 0, and the fit of the two exposures is left out.      *)
(***************************************************************************)
EXTENDS Integers, FiniteSets, FiniteSetsExt

CONSTANTS
  CounterBits,  (* width of the counters of a histogram                     *)
  RoughWhite    (* the guess of identify_bright_and_dark_fields             *)

NotFound == -1

-----------------------------------------------------------------------------
(* hdr_convert_data: the histogram of every fourth green sample of some    *)
(* rows, for each row modulo 4.                                            *)

RowsOf(image, c) == {y \in 4..image.height - 5 : (y - 4) % 5 = 0 /\ y % 4 = c}

(* The samples taken of a row, and by how much count grows.                *)
Skip == 3
SampledColumns(image, y) ==
  {x \in 0..image.width - 1 : x >= (y + 1) % 2 /\ (x - ((y + 1) % 2)) % (Skip + 1) = 0}

Counted(image, y) == (image.width - ((y + 1) % 2)) \div (Skip + 1)

hist_add(image, c) ==
  LET sampled == {p \in RowsOf(image, c) \X (0..image.width - 1) :
                    p[2] \in SampledColumns(image, p[1])}
      Level(p) == IF image.at[p[1]][p[2]] < image.white
                  THEN image.at[p[1]][p[2]] ELSE image.white
  IN  [data  |-> [v \in 0..image.white |->
                    Cardinality({p \in sampled : Level(p) = v}) % 2^CounterBits],
       count |-> MapThenSumSet(LAMBDA y : Counted(image, y), RowsOf(image, c))]

(* The counters up to v together. *)
Accumulated(data) ==
  LET Sum[v \in -1..Max(DOMAIN data)] == IF v = -1 THEN 0 ELSE Sum[v - 1] + data[v]
  IN  [v \in DOMAIN data |-> Sum[v]]

hist_median(h) ==
  LET current == Accumulated(h.data)
      above   == {v \in DOMAIN h.data : current[v] > h.count \div 2}
  IN  IF above = {} THEN 0 ELSE Min(above)

(* Slip: the rows are numbered from the first one that is bright. *)
dark_row_start_swapped(image) ==
  LET median  == [c \in 0..3 |-> hist_median(hist_add(image, c))]
      Dark(s) == {s, (s + 1) % 4}
      fits    == {s \in 0..3 : \A b \in (0..3) \ Dark(s), d \in Dark(s) :
                    median[d] - image.black > (median[b] - image.black) * 2}
  IN  IF fits = {} THEN NotFound ELSE Min(fits)

(* Two rows next to each other are dark: their medians are less than half  *)
(* of the other two, black taken off.                                      *)
dark_row_start(image) ==
  LET median  == [c \in 0..3 |-> hist_median(hist_add(image, c))]
      Dark(s) == {s, (s + 1) % 4}
      fits    == {s \in 0..3 : \A b \in (0..3) \ Dark(s), d \in Dark(s) :
                    median[b] - image.black > (median[d] - image.black) * 2}
  IN  IF fits = {} THEN NotFound ELSE Min(fits)

-----------------------------------------------------------------------------
(* Full dual ISO.                                                          *)

AllSamples(image) == (0..((image.height \div 4) * 4 - 1)) \X (0..image.width - 1)

(* How many samples at places P are v at most, for each v. *)
cdf(image, P) ==
  [v \in 0..image.white |-> Cardinality({p \in P : image.at[p[1]][p[2]] <= v})]

identify_rggb_or_gbrg(image) ==
  LET hist == [k \in 0..3 |-> cdf(image, {p \in AllSamples(image) :
                                            (p[1] % 2) * 2 + (p[2] % 2) = k})]
      Apart(k, l) == LET Sum[v \in -1..image.white] ==
                           IF v = -1 THEN 0
                           ELSE Sum[v - 1] + LET d == hist[k][v] - hist[l][v]
                                             IN  IF d < 0 THEN -d ELSE d
                     IN  Sum[image.white]
  IN  Apart(1, 2) < Apart(0, 3)

(* How bright rows are of which hist is the cdf: the level that ref of     *)
(* their samples stay below.                                               *)
RawLevel(hist, ref) ==
  IF ref = 0 THEN 0 ELSE 1 + Cardinality({v \in DOMAIN hist : hist[v] < ref})

RawLevels(hist, ref) == [c \in 0..3 |-> RawLevel(hist[c], ref)]

(* ref goes up to the highest percentile where no row is overexposed ...   *)
LastRef(hist, ref_max) ==
  Min({ref_max - 1} \cup
      {ref \in 0..ref_max - 1 : \E c \in 0..3 : RawLevel(hist[c], ref) >= RoughWhite})

(* ... and the level at a low one is taken off.                            *)
LowLevels(hist, black, refs) ==
  LET low == {ref \in refs : \A c \in 0..3 :
                RawLevel(hist[c], ref) < black + (RoughWhite - black) \div 4}
  IN  IF low = {} THEN [c \in 0..3 |-> 0] ELSE RawLevels(hist, Max(low))

LevelsAt(hist, black, last, ref_off) ==
  LET raw == RawLevels(hist, last)
      off == LowLevels(hist, black, 0..Min({last, ref_off - 1}))
  IN  [c \in 0..3 |-> raw[c] - off[c]]

(* The sum of the two levels in the middle, halved with a rest towards 0.  *)
MedianLevel(bright) ==
  LET Rank(c)   == Cardinality({d \in 0..3 : bright[d] < bright[c] \/ (bright[d] = bright[c] /\ d < c)})
      Ranked(k) == bright[CHOOSE c \in 0..3 : Rank(c) = k]
      Half(sum) == IF sum >= 0 THEN sum \div 2 ELSE -((-sum) \div 2)
  IN  Half(Ranked(1) + Ranked(2))

(* Two rows that are not both even or both odd. *)
RowsApart(is_bright) ==
  [found     |-> /\ Cardinality(is_bright) = 2
                 /\ (0 \in is_bright) # (2 \in is_bright)
                 /\ (1 \in is_bright) # (3 \in is_bright),
   is_bright |-> is_bright]

BrighterThanMedian(bright) ==
  RowsApart({c \in 0..3 : bright[c] > MedianLevel(bright)})

RowsOfLevels(hist, black, hist_total) ==
  BrighterThanMedian(LevelsAt(hist, black, LastRef(hist, (hist_total * 998) \div 1000),
                              (hist_total * 5) \div 100))

(* The green samples of each row modulo 4.                                 *)
GreenHist(image) ==
  [c \in 0..3 |-> cdf(image, {p \in AllSamples(image) :
                                p[1] % 4 = c /\ p[2] % 2 # p[1] % 2})]

(* Whether the bright rows are told apart, and which ones are bright; hist *)
(* is GreenHist(image).                                                    *)
identify_bright_and_dark_fields(image, hist) ==
  RowsOfLevels(hist, image.black, hist[0][image.white])

-----------------------------------------------------------------------------
(* The loop of hdr_convert_data that converts, along one column.  What is  *)
(* said of a sample is its exposure, and whether it is to be replaced:     *)
(* clipped in a bright row, lost in the shadow in a dark one.              *)

(* A bright sample darkened; a dark one would be darkened again. *)
Darkened(exposure) == IF exposure = "bright" THEN "dark" ELSE "too dark"

(* The mean of two samples means something if they have one exposure. *)
Mean(e, f) == IF e = f THEN e ELSE "mixed"

BrightRow(y, start) == (y - start + 4) % 4 >= 2

(* Slip: the sample below is not converted. *)
ConvertedUnscaled(column, height, start, replaced, y) ==
  LET above == column[y - 2]
      below == column[y + 2]
  IN  IF BrightRow(y, start)
      THEN IF ~replaced[y] THEN Darkened(column[y])
           ELSE IF y > 2 THEN IF y < height - 2 THEN Mean(above, below) ELSE above
           ELSE below
      ELSE IF ~replaced[y] THEN column[y]
           ELSE IF y > 2 THEN IF y < height - 2 THEN Mean(above, below) ELSE above
           ELSE Darkened(below)

(* Row y of a column whose rows above are converted. *)
Converted(column, height, start, replaced, y) ==
  LET above == column[y - 2]
      below == column[y + 2]
  IN  IF BrightRow(y, start)
      THEN IF ~replaced[y] THEN Darkened(column[y])
           ELSE IF y > 2 THEN IF y < height - 2 THEN Mean(above, below) ELSE above
           ELSE below
      ELSE IF ~replaced[y] THEN column[y]
           ELSE IF y > 2 THEN IF y < height - 2 THEN Mean(above, Darkened(below)) ELSE above
           ELSE Darkened(below)

hdr_convert_data(height, start, replaced) ==
  LET taken == [y \in 0..height - 1 |-> IF BrightRow(y, start) THEN "bright" ELSE "dark"]
      Convert(column, y) ==
        [column EXCEPT ![y] = Converted(column, height, start, replaced, y)]
      Rows[y \in -1..height - 1] == IF y = -1 THEN taken ELSE Convert(Rows[y - 1], y)
  IN  Rows[height - 1]
=============================================================================
