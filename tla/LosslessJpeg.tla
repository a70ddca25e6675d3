---------------------------- MODULE LosslessJpeg ----------------------------
(***************************************************************************)
(* Lossless JPEG (lj92.c): the encoder lj92_encode, the decoder lj92_open  *)
(* and lj92_decode, and what get_image_data (main.c) does around it.  An   *)
(* image is [width, bitdepth, samples], with the samples row by row.       *)
(*                                                                         *)
(* The bytes of the body are as in the file; the header is a record of its *)
(* fields.  readLength, skipLength and the linearization tables, which     *)
(* MLVFS does not use, are left out.                                       *)
(***************************************************************************)
EXTENDS Integers, FiniteSets, SequencesExt

Corrupt == <<"LJ92_ERROR_CORRUPT">>

AbsOf(n) == IF n < 0 THEN -n ELSE n

(* The numbers from 0 up to n - 1, in order. *)
UpTo0(n) == [k \in 1..n |-> k - 1]

BitsOf(value, n) == [b \in 1..n |-> (value \div 2^(n - b)) % 2]

ValueOf(bits) ==
  LET v[b \in 0..Len(bits)] == IF b = 0 THEN 0 ELSE 2 * v[b - 1] + bits[b]
  IN  v[Len(bits)]

-----------------------------------------------------------------------------
(* The prediction of a sample, of the predictors 0 to 7; the shifts of     *)
(* negative differences round down.                                        *)

Prediction(pred, left, above, corner) ==
  CASE pred = 0 -> 0
    [] pred = 1 -> left
    [] pred = 2 -> above
    [] pred = 3 -> corner
    [] pred = 4 -> left + above - corner
    [] pred = 5 -> left + (above - corner) \div 2
    [] pred = 6 -> above + (left - corner) \div 2
    [] pred = 7 -> (left + above) \div 2

(* Px of pixel c, numbered from 1, along the samples before it. *)
Px(pred, bitdepth, width, samples, c) ==
  LET col == (c - 1) % width
  IN  CASE c = 1                -> 2^(bitdepth - 1)
        [] 1 < c /\ c <= width  -> samples[c - 1]
        [] c > width /\ col = 0 -> samples[c - width]
        [] c > width /\ col > 0 -> Prediction(pred, samples[c - 1], samples[c - width],
                                              samples[c - width - 1])

-----------------------------------------------------------------------------
(* The encoder.  lj92_encode always uses predictor 6; with another one it  *)
(* stands for a camera.                                                    *)

Diffs(image, pred) ==
  [c \in 1..Len(image.samples) |->
     image.samples[c] - Px(pred, image.bitdepth, image.width, image.samples, c)]

(* The number of bits of a difference. *)
ssss(diff) == CHOOSE n \in 0..16 : AbsOf(diff) < 2^n /\ (n > 0 => AbsOf(diff) >= 2^(n - 1))

frequencyScan(diffs) ==
  [s \in 0..16 |-> Cardinality({k \in DOMAIN diffs : ssss(diffs[k]) = s})]

(* createEncodeTable: the two rarest groups of symbols are joined until    *)
(* one is left, which makes the codes of both longer by a bit.  Symbol 17  *)
(* reserves a code; the chain of others is the group.                      *)
Joined(t) ==
  LET used == {s \in 0..17 : t.freq[s] > 0}
      v1 == CHOOSE s \in used : \A u \in used \ {s} :
              t.freq[s] < t.freq[u] \/ (t.freq[s] = t.freq[u] /\ s > u)
      v2 == CHOOSE s \in used \ {v1} : \A u \in used \ {s, v1} :
              t.freq[s] < t.freq[u] \/ (t.freq[s] = t.freq[u] /\ s < u)
      both == t.group[v1] \cup t.group[v2]
  IN  [freq     |-> [t.freq EXCEPT ![v1] = @ + t.freq[v2], ![v2] = 0],
       group    |-> [t.group EXCEPT ![v1] = both],
       codesize |-> [s \in 0..17 |-> t.codesize[s] + IF s \in both THEN 1 ELSE 0]]

Codesize(hist, pixels) ==
  LET first == [freq     |-> [s \in 0..17 |-> IF s = 17 THEN pixels ELSE hist[s]],
                group    |-> [s \in 0..17 |-> {s}],
                codesize |-> [s \in 0..17 |-> 0]]
      symbols == Cardinality({s \in 0..17 : first.freq[s] > 0})
      After[joins \in Nat] == IF joins = 0 THEN first ELSE Joined(After[joins - 1])
  IN  After[symbols - 1].codesize

(* How many codes there are of each length, and the symbols in the order   *)
(* of their codes.  The reserved code is of a length that is counted, but  *)
(* its symbol is not among them, so symbols move up and the last code is   *)
(* left to symbol 0.                                                       *)
HuffmanTable(codesize) ==
  [bits |-> [l \in 1..16 |-> Cardinality({s \in 0..17 : codesize[s] = l})],
   huffval |-> Append(FlattenSeq([l \in 1..16 |->
                        SelectSeq(UpTo0(17), LAMBDA s : codesize[s] = l)]), 0)]

LongestCode(bits) == CHOOSE l \in 1..16 : bits[l] > 0 /\ \A m \in l + 1..16 : bits[m] = 0

(* The length of each code. *)
Lengths(bits) ==
  FlattenSeq([l \in 1..16 |-> [k \in 1..bits[l] |-> l]])

(* Slip: the codes begin at 1. *)
EncodeTableFromOne(huffman) ==
  LET lengths == Lengths(huffman.bits)
      Space(k) == 2^(LongestCode(huffman.bits) - lengths[k])
      Start[k \in DOMAIN lengths] == IF k = 1 THEN 1 ELSE Start[k - 1] + Space(k - 1)
      Code(s)  == CHOOSE k \in DOMAIN huffman.huffval :
                    huffman.huffval[k] = s /\ \A j \in DOMAIN huffman.huffval : huffman.huffval[j] = s => j <= k
  IN  [s \in {huffman.huffval[k] : k \in DOMAIN huffman.huffval} |->
         [huffbits |-> lengths[Code(s)], huffenc |-> Start[Code(s)] \div Space(Code(s))]]

(* huffenc and huffbits of each symbol: of the last code that it has. *)
EncodeTable(huffman) ==
  LET lengths == Lengths(huffman.bits)
      Space(k) == 2^(LongestCode(huffman.bits) - lengths[k])
      Start[k \in DOMAIN lengths] == IF k = 1 THEN 0 ELSE Start[k - 1] + Space(k - 1)
      Code(s)  == CHOOSE k \in DOMAIN huffman.huffval :
                    huffman.huffval[k] = s /\ \A j \in DOMAIN huffman.huffval : huffman.huffval[j] = s => j <= k
  IN  [s \in {huffman.huffval[k] : k \in DOMAIN huffman.huffval} |->
         [huffbits |-> lengths[Code(s)], huffenc |-> Start[Code(s)] \div Space(Code(s))]]

(* writeBody: bits are packed into bytes, the last filled up with zeros,   *)
(* and 0 is stuffed behind each 0xFF.                                      *)
Bytes(bits) ==
  LET byte(n) == ValueOf([b \in 1..8 |-> IF 8 * n + b <= Len(bits) THEN bits[8 * n + b] ELSE 0])
  IN  FlattenSeq([n \in 1..(Len(bits) + 7) \div 8 |->
        IF byte(n - 1) = 255 THEN <<255, 0>> ELSE <<byte(n - 1)>>])

writeBody(diffs, encode) ==
  Bytes(FlattenSeq([c \in DOMAIN diffs |->
    LET s == ssss(diffs[c])
    IN  BitsOf(encode[s].huffenc, encode[s].huffbits)
          \o BitsOf(IF diffs[c] < 0 THEN diffs[c] + 2^s - 1 ELSE diffs[c], s)]))

(* lj92_encode: the fields of the headers and the bytes behind them. *)
lj92_encode(image, pred) ==
  LET diffs == Diffs(image, pred)
      huffman == HuffmanTable(Codesize(frequencyScan(diffs), Len(diffs)))
  IN  [width |-> image.width, pixels |-> Len(diffs), bitdepth |-> image.bitdepth, pred |-> pred,
       bits |-> huffman.bits, huffval |-> huffman.huffval,
       data |-> writeBody(diffs, EncodeTable(huffman)) \o <<255, 217>>]

-----------------------------------------------------------------------------
(* The decoder.                                                            *)

(* parseHuff: the symbol and the length of the code that begins with the   *)
(* first huffbits bits, for all their values.                              *)
hufflut(bits, huffval) ==
  LET lengths == Lengths(bits)
  IN  FlattenSeq([k \in DOMAIN lengths |->
        [j \in 1..2^(LongestCode(bits) - lengths[k]) |-> [ssss |-> huffval[k], used |-> lengths[k]]]])

(* Slip: the byte that is stuffed behind a second 0xFF is not left out. *)
FetchStuffed(data, s) ==
  LET Byte(k) == IF k < Len(data) THEN data[k + 1] ELSE 0
      one == Byte(s.ix)
      two == Byte(s.ix + 1)
  IN  IF one = 255 THEN [s EXCEPT !.b = @ \o BitsOf(one, 8), !.ix = @ + 2]
      ELSE [s EXCEPT !.b = @ \o BitsOf(one, 8) \o BitsOf(two, 8), !.ix = @ + 2]

(* Two bytes are taken at once, from behind the data too: of what is there *)
(* a padding says some, and the rest is 0.                                 *)
Fetched(data, s) ==
  LET Byte(k) == IF k < Len(data) THEN data[k + 1] ELSE 0
      one == Byte(s.ix)
      two == Byte(s.ix + 1)
  IN  IF one = 255 THEN [s EXCEPT !.b = @ \o BitsOf(one, 8), !.ix = @ + 2]
      ELSE [s EXCEPT !.b = @ \o BitsOf(one, 8) \o BitsOf(two, 8),
                     !.ix = @ + IF two = 255 THEN 3 ELSE 2]

FetchedIfFewer(data, s, count) == IF Len(s.b) < count THEN Fetched(data, s) ELSE s

(* While there are less than count bits; a code or a difference has 16 at  *)
(* most, and each turn brings 8 or 16.                                     *)
Filled(data, s, count) == FetchedIfFewer(data, FetchedIfFewer(data, s, count), count)

Without(s, count) == [s EXCEPT !.b = SubSeq(@, count + 1, Len(@))]

(* The difference in the first bits is negative if it begins with a 0. *)
DiffOf(bits) ==
  IF bits # <<>> /\ bits[1] = 0 THEN ValueOf(bits) - 2^Len(bits) + 1 ELSE ValueOf(bits)

WithDiff(s, count) == [Without(s, count) EXCEPT !.diff = DiffOf(SubSeq(s.b, 1, count))]

AfterCode(data, s, code) == WithDiff(Filled(data, Without(s, code.used), code.ssss), code.ssss)

AfterFirst(data, lut, huffbits, s) ==
  AfterCode(data, s, lut[ValueOf(SubSeq(s.b, 1, huffbits)) + 1])

nextdiff(data, lut, huffbits, s) ==
  AfterFirst(data, lut, huffbits, Filled(data, s, huffbits))

(* Where parsePred6, and for the other predictors parseScan, stops after   *)
(* pixel c.                                                                *)
Stops(file, c, ix) ==
  LET col == (c - 1) % file.width
  IN  IF file.pred = 6
      THEN ix >= Len(file.data) /\ (c <= file.width \/ col \in {0, file.width - 1})
      ELSE ix >= Len(file.data) + 2

(* Pixel c is its prediction from the pixels before it and the difference. *)
WithPixel(file, s, c) ==
  [s EXCEPT !.out = Append(@, Px(file.pred, file.bitdepth, file.width, @, c) + s.diff),
            !.stopped = Stops(file, c, s.ix)]

(* One turn of the loops. *)
DecodePixel(file, lut, huffbits, s, c) ==
  IF s.stopped THEN s ELSE WithPixel(file, nextdiff(file.data, lut, huffbits, s), c)

(* Stopped in its first row, parsePred6 fails even when there is no other. *)
Output(file, s) ==
  IF \/ Len(s.out) < file.pixels
     \/ s.stopped /\ file.pred = 6 /\ file.pixels <= file.width
  THEN Corrupt ELSE s.out

(* lj92_open and lj92_decode *)
lj92_decode(file) ==
  LET lut  == hufflut(file.bits, file.huffval)
      huffbits == LongestCode(file.bits)
      State[c \in 0..file.pixels] ==   \* after pixel c
        IF c = 0 THEN [out |-> <<>>, ix |-> 0, b |-> <<>>, diff |-> 0, stopped |-> FALSE]
        ELSE DecodePixel(file, lut, huffbits, State[c - 1], c)
  IN  Output(file, State[file.pixels])

-----------------------------------------------------------------------------
(* get_image_data.  The camera encodes an image with its even and odd      *)
(* columns apart, and rows likewise.                                       *)

Apart(x, size) == ((2 * x) % size) + ((2 * x) \div size)

Tiled(width, height, samples) ==
  [k \in 1..width * height |->
     samples[Apart((k - 1) \div width, height) * width + Apart((k - 1) % width, width) + 1]]

Untiled(width, height, decompressed) ==
  [k \in 1..width * height |->
     decompressed[1 + CHOOSE j \in 0..width * height - 1 :
       k - 1 = Apart(j \div width, height) * width + Apart(j % width, width)]]

(* The samples of a compressed frame. *)
get_image_data(width, height, file) ==
  LET decompressed == lj92_decode(file)
  IN  IF decompressed = Corrupt THEN Corrupt ELSE Untiled(width, height, decompressed)
=============================================================================
