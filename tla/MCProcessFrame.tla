--------------------------- MODULE MCProcessFrame ---------------------------
(* Instances of ProcessFrame and of Samples for TLC.  One run checks both: *)
(* either threads develop frames, or one step works on samples.            *)
EXTENDS ProcessFrame, Samples, TLC

CONSTANTS c1, c2

camera_of == c1 :> "with map" @@ c2 :> "without map"
guid_of   == c1 :> 1 @@ c2 :> 0
black_of  == c1 :> 2048 @@ c2 :> 1024

(* The preview of dual ISO, and full dual ISO with everything else. *)
settings == {[fix_bad_pixels |-> k, fix_stripes |-> k - 1, dual_iso |-> k] : k \in 1..2}

Interchangeable == Permutations(Threads)
Image(width, height, bitdepth, samples) ==
  [width |-> width, height |-> height, bitdepth |-> bitdepth, samples |-> samples]

(* All tiny images of three values after a 0, and some of ten bits in which *)
(* differences of many sizes occur.                                        *)
images ==
  {Image(2, 2, 2, samples) : samples \in {s \in [1..4 -> {0, 1, 3}] : s[1] = 0}} \cup
  {Image(8, 2, 10, [p \in 1..16 |-> (p * p * a + p * b) % 1024]) : a \in {0, 37}, b \in {511, 700}}

paddings == {<<>>, <<255, 255, 255, 255>>}

(* Rows of one green and rows of two, of 40 and two lines. *)
scenes ==
  {[red |-> 1, blue |-> 2, height |-> 42,
    green |-> [column \in 0..7 |-> IF column < 4 THEN 1 ELSE level]] : level \in {1, 2, 4}}

interlaced == [w : {12, 16}, h : 8..19, start : 0..3]

(* Strings that are short, as long as an entry and longer, and a path. *)
strings ==
  [make : {0, 3, 4}, model : {3, 4, 5}, serial : {0, 32}, name : {3, 1000}, lens : {0, 31}]

rates == {0, 500, 999, 1000, 23976, 25000, 29970, 40000, 60000}

(* Around the ends of seconds, minutes and hours. *)
numbers == {n + d : n \in {100, 60 * 25, 3600 * 24, 20 * 3600 * 24}, d \in -1..1} \cup 0..61

sizes == {<<8, 8>>, <<8, 12>>, <<12, 9>>}

(* Neighbours of any brightness in six of the eight places. *)
suspects ==
  {[black |-> 128, p |-> p,
    neighbours |-> [k \in 1..8 |-> IF k \in 1..6 THEN some[k] ELSE 128 + 16]] :
     some \in [1..6 -> {128 + 16, 128 + 256, 128 + 1024}], p \in {30, 34, 192, 256, 128 + 1024}}

noisy ==
  [w : {24}, h : {8}, dark : {100}, light : {100, 2000}, white : {16000},
   column : 0..23, of_column : {-5, 5}, row : {4}, of_row : {7}]

Block(x, y) == {<<x, y>>, <<x + 1, y + 1>>}

(* One block or two, inside and at the border. *)
blots ==
  [w : {14}, h : {14}, green : {1, 3}, red : {-2, 1}, blue : {1},
   at : {Block(2 * x, 2 * y) \cup Block(2 * (x + more), 2 * y) :
           x \in 1..4, more \in {0, 1}, y \in {1, 2, 3, 5}}]

arrays == UNION {[1..n -> 0..2] : n \in 1..5}

(* All windows of 5 and 9 samples, and 12 or 13 ones in many orders. *)
windows ==
  [1..5 -> {0, 1}] \cup [1..9 -> {0, 1}] \cup
  {[k \in 1..25 |-> IF (k * step + first) % 25 < ones THEN 1 ELSE 0] :
     step \in {1, 2, 3, 7, 11, 12}, first \in 0..24, ones \in {12, 13}}

NoInput == [step |-> "none"]

RunInit ==
  /\ FrameInit
  /\ output = <<>>
  /\ input \in {NoInput} \cup {i \in Inputs : mlvfs.dual_iso = 1}

RunNext ==
  \/ input = NoInput /\ FrameNext /\ UNCHANGED sampleVars
  \/ input # NoInput /\ SamplesNext /\ UNCHANGED frameVars

Run == RunInit /\ [][RunNext]_<<frameVars, sampleVars>>
=============================================================================
