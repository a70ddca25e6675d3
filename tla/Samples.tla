------------------------------- MODULE Samples -------------------------------
(***************************************************************************)
(* The steps of process_frame that work on the samples of one frame: each  *)
(* takes an input of its own and has an output.  What they share between   *)
(* frames and threads is in ProcessFrame.                                  *)
(***************************************************************************)
EXTENDS LosslessJpeg, DualIsoFields, DngHeader, PixelRepair, Medians, PatternNoise,
        ChromaSmooth

CONSTANTS
  Images,        (* records [width, height, bitdepth, samples]              *)
  Predictors,    (* of the camera's encoder                                 *)
  Paddings,      (* what may follow a compressed frame in its block         *)
  Scenes,        (* what is in front of the camera, see Taken               *)
  Gains,         (* of the bright rows of dual ISO                          *)
  Black, White,  (* of the camera                                           *)
  Heights,       (* of images that are converted                            *)
  Interlaced,    (* records [w, h, start], frames of two exposures          *)
  Strings,       (* records [make, model, serial, name, lens], lengths      *)
  Rates,         (* frames in a thousand seconds, 0 if no such is asked for *)
  Numbers,       (* of frames                                               *)
  Sizes,         (* pairs of a width and a height                           *)
  Evs,           (* the values of the pixels around one that is repaired    *)
  Suspects,      (* records [black, p, neighbours], pixels that may be bad  *)
  Noisy,         (* plain fields with noise, see Field                      *)
  Blots,         (* coloured fields with a blot, see Blotted                *)
  Arrays,        (* of which an element is selected                         *)
  Windows        (* of 5, 9 and 25 samples, of 0 and 1                      *)

VARIABLES
  input,         (* what the step works on                                  *)
  output         (* empty, or the output of the step, or all it has made    *)

sampleVars == <<input, output>>

Inputs ==
       [step : {"decompress"}, image : Images, pred : Predictors, padding : Paddings]
  \cup [step : {"tell rows apart"}, scene : Scenes, start : 0..3, gain : Gains]
  \cup UNION {[step : {"convert"}, height : {height}, start : 0..3,
               replaced : [0..height - 1 -> BOOLEAN]] : height \in Heights}
  \cup [step : {"separate"}, frame : Interlaced, method : {"amaze", "mean"}]
  \cup [step : {"header"}, strings : Strings, backwards : BOOLEAN]
  \cup [step : {"time code"}, recorded : Rates \ {0}, fps_override : Rates, frame : Numbers]
  \cup UNION {[step : {"repair"}, size : {size}, x : 0..size[1] - 1, y : 0..size[2] - 1,
               dual_iso : BOOLEAN] : size \in Sizes}
  \cup UNION {[step : {"interpolate"}, d : [1..sides -> Evs], e : [1..sides -> Evs]] :
              sides \in {2, 4}}
  \cup [step : {"search"}, suspect : Suspects, aggressive : BOOLEAN]
  \cup [step : {"pattern noise"}, field : Noisy]
  \cup [step : {"chroma"}, blot : Blots, method : {2, 3, 5}]
  \cup UNION {[step : {"select"}, array : {array}, k : DOMAIN array] : array \in Arrays}
  \cup [step : {"median"}, window : Windows]

(* How many values a step makes one after the other; the last one counts. *)
Parts == CASE input.step = "pattern noise" -> 8
           [] input.step \in {"tell rows apart", "separate"} -> 2
           [] OTHER -> 1

Step(name) == input.step = name /\ Len(output) < Parts /\ UNCHANGED input

-----------------------------------------------------------------------------
(* The camera.                                                             *)

Compressed(image, pred, padding) ==
  LET tiled == Tiled(image.width, image.height, image.samples)
      file  == lj92_encode([image EXCEPT !.samples = tiled], pred)
  IN  [file EXCEPT !.data = @ \o padding]

(* What it takes of a scene [red, blue, green, height] with dual ISO, the  *)
(* first one of two dark rows being start; green is for each column.       *)
Taken(scene, start, gain) ==
  LET width == Cardinality(DOMAIN scene.green)
      Light(y, x) == CASE y % 2 = x % 2 -> IF y % 2 = 0 THEN scene.red ELSE scene.blue
                       [] y % 2 # x % 2 -> scene.green[x]
      Sample(y, x) == Black + Light(y, x) * IF BrightRow(y, start) THEN gain ELSE 1
  IN  [width |-> width, height |-> scene.height, black |-> Black, white |-> White,
       at |-> [y \in 0..scene.height - 1 |-> [x \in 0..width - 1 |->
                 IF Sample(y, x) < White THEN Sample(y, x) ELSE White]]]

(* A field of w columns and h rows, dark on the left of its middle and     *)
(* light on the right, without noise, and with noise in one column and one *)
(* row.                                                                    *)
Plain(f) ==
  [w |-> f.w, h |-> f.h,
   at |-> [i \in 0..f.w * f.h - 1 |-> IF i % f.w < f.w \div 2 THEN f.dark ELSE f.light]]

Field(f) ==
  LET plain == Plain(f)
  IN  [plain EXCEPT !.at = [i \in DOMAIN plain.at |->
         plain.at[i] + (IF i % f.w = f.column THEN f.of_column ELSE 0)
                     + (IF i \div f.w = f.row THEN f.of_row ELSE 0)]]

(* A field of one colour that is brighter in its lower half, and that with *)
(* another red or blue in one or two blocks of four.                       *)
Coloured(b) ==
  [w |-> b.w, h |-> b.h,
   at |-> [i \in 0..b.w * b.h - 1 |->
     LET x == i % b.w
         y == i \div b.w
     IN  (IF y < 6 THEN b.green ELSE b.green + EvResolution)
         + CASE x % 2 # y % 2 -> 0
             [] x % 2 = y % 2 -> IF x % 2 = 0 THEN b.red ELSE b.blue]]

Blotted(b) ==
  LET clean == Coloured(b)
  IN  [clean EXCEPT !.at = [i \in DOMAIN clean.at |->
         clean.at[i] + IF <<i % b.w, i \div b.w>> \in b.at THEN 3 * EvResolution ELSE 0]]

-----------------------------------------------------------------------------
Decompress ==
  /\ Step("decompress")
  /\ output' = <<get_image_data(input.image.width, input.image.height,
                                Compressed(input.image, input.pred, input.padding))>>

(* The rows as the preview and as full dual ISO tell them apart, and the   *)
(* pattern of colours.                                                     *)
Rows(image, hist) ==
  [preview |-> dark_row_start(image),
   full    |-> identify_bright_and_dark_fields(image, hist),
   rggb    |-> identify_rggb_or_gbrg(image)]

TellRowsApart ==
  /\ Step("tell rows apart")
  /\ output' = Append(output,
       IF output = <<>>
       THEN LET image == Taken(input.scene, input.start, input.gain)
            IN  [image |-> image, hist |-> GreenHist(image)]
       ELSE Rows(output[1].image, output[1].hist))

Convert ==
  /\ Step("convert")
  /\ output' = <<hdr_convert_data(input.height, input.start, input.replaced)>>

Separate ==
  /\ Step("separate")
  /\ output' = Append(output,
       IF output = <<>> THEN Squeezed(input.frame)
       ELSE [exposure \in {"dark", "bright"} |->
               TwoExposures(input.frame, output[1], exposure, input.method)])

Header ==
  /\ Step("header")
  /\ output' = <<dng_get_header_data(input.strings, input.backwards)>>

TimeCode ==
  /\ Step("time code")
  /\ output' = <<add_timecode(frame_rate(input.recorded, input.fps_override), input.frame)>>

Repair ==
  /\ Step("repair")
  /\ LET w == input.size[1]
         h == input.size[2]
     IN  output' = <<[focus |-> FocusRepair(input.x, input.y, w, h, input.dual_iso),
                      bad   |-> BadRepair(input.x, input.y, w, h, input.dual_iso)]>>

Interpolate ==
  /\ Step("interpolate")
  /\ output' = <<IF Len(input.d) = 2
                 THEN interpolate_line(input.d[1], input.d[2], input.e[1], input.e[2])
                 ELSE interpolate_pixel(<<input.d[1], input.d[2]>>, <<input.d[3], input.d[4]>>,
                                        <<input.e[1], input.e[2]>>, <<input.e[3], input.e[4]>>)>>

Search ==
  /\ Step("search")
  /\ output' = <<IsBad(input.suspect.p, input.suspect.neighbours, input.suspect.black,
                       input.aggressive)>>

FixPatternNoise ==
  /\ Step("pattern noise")
  /\ output' = Append(output, NextNoiseValue(Field(input.field), input.field.white, output))

SmoothChroma ==
  /\ Step("chroma")
  /\ output' = <<chroma_smooth(Blotted(input.blot), input.method)>>

Select ==
  /\ Step("select")
  /\ output' = <<kth_smallest_int(input.array, input.k)>>

Median ==
  /\ Step("median")
  /\ output' = <<opt_med(input.window)>>

SamplesInit == input \in Inputs /\ output = <<>>

Done == Len(output) = Parts /\ UNCHANGED sampleVars

SamplesNext ==
  \/ Decompress \/ TellRowsApart \/ Convert \/ Separate \/ Header \/ TimeCode
  \/ Repair \/ Interpolate \/ Search \/ FixPatternNoise \/ SmoothChroma \/ Select \/ Median
  \/ Done

-----------------------------------------------------------------------------
(* Properties.                                                             *)

Did(name) == input.step = name /\ Len(output) = Parts

(* What the encoder writes is decoded to the very samples, with every      *)
(* predictor, however the codes come to lie in the bytes and wherever 0xFF *)
(* bytes are stuffed.  Because the decoder fetches ahead of what it uses,  *)
(* an image whose last row is in the last bytes may be refused, but with   *)
(* four bytes behind them it is not; it never has other samples.           *)
LosslessExact ==
  Did("decompress") =>
    \/ output[1] = input.image.samples
    \/ output[1] = Corrupt /\ Len(input.padding) < 4

(* Neither the preview nor full dual ISO takes bright rows for dark ones,  *)
(* or rows of one exposure for two, although the rows are counted          *)
(* unequally and some are overexposed; and the preview finds them wherever *)
(* the darkest green in bright rows is more than twice the brightest in    *)
(* dark ones, full dual ISO wherever green is not of one level and nothing *)
(* is overexposed.  Samples are not below black.                           *)
RowsFound ==
  Did("tell rows apart") =>
    LET found   == output[2]
        gain    == input.gain
        greens  == {input.scene.green[x] : x \in DOMAIN input.scene.green}
        lowest  == Min(greens)
        highest == Max(greens)
        Clipped(level) == IF Black + level < White THEN level ELSE White - Black
    IN  /\ found.preview # NotFound => gain > 1 /\ found.preview = input.start
        /\ found.full.found =>
             gain > 1 /\ found.full.is_bright = {c \in 0..3 : BrightRow(c, input.start)}
        /\ Clipped(gain * lowest) > 2 * Clipped(highest) => found.preview = input.start
        /\ (gain > 1 /\ lowest < highest /\ Black + gain * highest < RoughWhite) =>
             found.full.found
        /\ input.scene.red # input.scene.blue => found.rggb

(* However many samples are clipped or lost, the preview converts them in  *)
(* place, row by row, so that all of them have the dark exposure in the    *)
(* end: what it takes from the rows above is converted, and what it takes  *)
(* from those below is not yet; and it takes nothing from outside of the   *)
(* image.                                                                  *)
(*                                                                         *)
(* Full dual ISO makes every pixel of the dark and of the bright image of  *)
(* pixels of the frame that have this exposure and its colour, itself or   *)
(* in rows next to it or one further, although the last bright rows do not *)
(* fit in when rows are squeezed together; and the pixels compared to find *)
(* edges are in the frame.  Only in the last three columns there is a copy *)
(* of the pixels two to the left.  Frames are excepted that begin with two *)
(* bright rows and whose height is not a multiple of four: squeezed, their *)
(* first bright rows are put over dark ones that are still looked for.     *)
OneExposure ==
  /\ Did("convert") => output[1] = [y \in 0..input.height - 1 |-> "dark"]
  /\ Did("separate") =>
       LET f == input.frame
           Is(exposure, y) == BrightRow(y, f.start) = (exposure = "bright")
           overlapping == input.method = "amaze" /\ f.start = 2 /\ f.h % 4 # 0
       IN  \A exposure \in {"dark", "bright"} : \A x \in 0..f.w - 1, y \in 0..f.h - 1 :
             LET pixel == output[2][exposure][x, y]
             IN  /\ Is(exposure, y) =>
                      pixel.from = {Pixel(IF x >= f.w - 3 /\ y >= 2 THEN x - 2 ELSE x, y)}
                 /\ \A q \in pixel.from :
                      /\ q.x \in 0..f.w - 1 /\ q.y \in 0..f.h - 1
                      /\ q.colour = Colour(x, y)
                      /\ (q.y \in y - 2..y + 2 /\ Is(exposure, q.y)) \/ overlapping
                 /\ \A q \in pixel.seen : q[1] + q[2] * f.w \in 0..f.w * f.h - 1

(* Whatever the lengths of the strings, and in whichever order the entries *)
(* are evaluated: the tags of a directory ascend and there are as many as  *)
(* there is place for, so that the directory of the exposure data is where *)
(* it is said to be; data is outside of an entry exactly if a reader looks *)
(* for it there, at an even place behind the directories and before the    *)
(* samples, and no two overlap.                                            *)
(*                                                                         *)
(* Read back, the time code of a frame is its number, as long as there are *)
(* at most 40 frames in a second; with more, tens of frames are lost.  Of  *)
(* time lapses it is the second, for 40 hours.                             *)
HeaderWellFormed ==
  /\ Did("header") =>
       LET ifds == output[1]
           Length(e) == e.count * TypeSize[e.type]
           entries == UNION {{<<d, k>> : k \in DOMAIN ifds[d]} : d \in 1..2}
           Entry(p) == ifds[p[1]][p[2]]
           Begin(p) == CHOOSE at \in Entry(p).data : TRUE
           End(p)  == Begin(p) + Length(Entry(p)) - 1
           outside == {p \in entries : Entry(p).data # {}}
       IN  /\ Len(ifds[1]) = IFD0_COUNT /\ Len(ifds[2]) = EXIF_IFD_COUNT
           /\ \A d \in 1..2 : \A k \in 2..Len(ifds[d]) : ifds[d][k - 1].tag < ifds[d][k].tag
           /\ \A p \in entries : p \in outside <=> Length(Entry(p)) > 4
           /\ \A p \in outside : Begin(p) % 2 = 0 /\ Begin(p) >= data_start /\ End(p) < HEADER_SIZE
           /\ \A p, q \in outside : p = q \/ End(p) < Begin(q) \/ End(q) < Begin(p)
  /\ Did("time code") =>
       LET rate == frame_rate(input.recorded, input.fps_override)
           fps  == (rate + 500) \div 1000
           code == output[1]
           Read(byte) == (byte \div 16) * 10 + (byte % 16)
           second == (Read(code.hours) * 60 + Read(code.minutes)) * 60 + Read(code.seconds)
       IN  /\ (rate > 1000 /\ fps <= 40) => input.frame = second * fps + Read(code.frames)
           /\ rate \in 1..1000 =>
                LET time == (input.frame * 1000) \div rate IN second = time \/ time >= 40 * 3600

(* Not brighter than the brightest of the values it is made of, and, its   *)
(* weights being rounded down, at most four parts in 256 (and four) below  *)
(* the darkest.                                                            *)
Between(value, from) ==
  /\ \E e \in from : value <= e
  /\ \E e \in from : value >= (e * 252) \div 256 - 4

(* A pixel is taken for bad if it is darker than any noise, or brighter    *)
(* than it and all but one of the eight around it are darker by more than  *)
(* two EV (all but two by more than one, if asked to be aggressive): where *)
(* ever around it the bright ones are.  Not claimed of pixels around which *)
(* there is nothing but black, for which the difference overflows.         *)
(*                                                                         *)
(* However near to the edge, a focus pixel of the image is made of pixels  *)
(* of its own colour in the image, with dual ISO of its own row, which has *)
(* one exposure; nothing is read from outside of the image or across its   *)
(* edges; only the pixel in the corner is not repaired; and the value is   *)
(* between those it is made of.  What is left out are pixels outside of    *)
(* the crop, which the code does not pass over when they are in one of the *)
(* first or last rows.                                                     *)
RepairedInPlace ==
  /\ Did("search") =>
       LET s        == input.suspect
           Near(ev) == Cardinality({k \in 1..8 :
                         raw2ev(s.neighbours[k], s.black) + ev >= raw2ev(s.p, s.black)})
       IN  output[1] <=> \/ s.p < s.black - 96
                         \/ /\ s.p > s.black + 96
                            /\ Near(2) < 2 \/ (input.aggressive /\ Near(1) < 3)
  /\ Did("interpolate") =>
       Between(output[1], {input.e[k] : k \in DOMAIN input.e})
  /\ Did("repair") =>
       LET w == input.size[1]
           h == input.size[2]
           i == input.x + input.y * w
           repair == output[1].focus
           Column(j) == j % w
           Row(j)    == j \div w
       IN  /\ (repair = "none") = (i = 0)
           /\ Inside(input.x, input.y, w, h) => output[1].bad = repair
           /\ \A d \in ValueFrom(repair, w) \cup WeightsFrom(repair, w) :
                /\ i + d \in 0..w * h - 1
                /\ Column(i + d) = input.x \/ Row(i + d) = input.y
                /\ input.dual_iso => Row(i + d) = input.y
           /\ \A d \in ValueFrom(repair, w) :
                (Column(i + d) - input.x) % 2 = 0 /\ (Row(i + d) - input.y) % 2 = 0

(* Of a plain field, and of one with a strong edge, noise of a column and  *)
(* of a row is taken out and nothing else is changed: no sample of the     *)
(* other rows and columns and of the other colours.  The exception are     *)
(* columns within two samples of their colour of the edge, which keep      *)
(* their noise, and then also the columns at the ends of the rows, since   *)
(* the gradient is taken across them.  A weak edge is taken for noise.     *)
(*                                                                         *)
(* A blot of another red or blue of one or two blocks is made like the     *)
(* colour around it, across a change of brightness too, and nothing else   *)
(* is changed, least of all green.  Blots at the border, in the dark, and  *)
(* in fields of a dark colour stay.                                        *)
NoiseRemoved ==
  /\ Did("pattern noise") =>
       LET f     == input.field
           edge  == f.w \div 4
           x     == f.column \div 2
           spared == /\ Size(f.light, f.dark) > Threshold
                     /\ x \in {0, 1, 2 * edge - 2, 2 * edge - 1} \cup edge - 2..edge + 1
       IN  output[8] = Field([f EXCEPT !.of_row = 0, !.of_column = IF spared THEN @ ELSE 0])
  /\ Did("chroma") =>
       LET b     == input.blot
           clean == Coloured(b)
           Bright(y) == LET green == clean.at[1 + (y - (y % 2)) * b.w]
                        IN  /\ green >= 2 * EvResolution
                            /\ green + b.red > EvResolution /\ green + b.blue > EvResolution
           stay == {p \in b.at : \/ p[1] \notin 4..b.w - 5 \/ p[2] \notin 4..b.h - 5
                                 \/ ~Bright(p[2])}
       IN  output[1] = Blotted([b EXCEPT !.at = stay])

IsKth(array, k, v) ==
  /\ Cardinality({u \in DOMAIN array : array[u] < v}) < k
  /\ Cardinality({u \in DOMAIN array : array[u] <= v}) >= k

(* Of any array the selection finds the k-th smallest value for every k,   *)
(* equal values or not, and the networks find the median: of 5 and 9       *)
(* samples whatever they are, as they do so for all of 0 and 1, and of 25  *)
(* for many.                                                               *)
MediansExact ==
  /\ Did("select") => IsKth(input.array, input.k, output[1])
  /\ Did("median") => IsKth(input.window, (Len(input.window) + 1) \div 2, output[1])
=============================================================================
