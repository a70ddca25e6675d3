------------------------------ MODULE DngHeader -------------------------------
(***************************************************************************)
(* The header of a .dng (dng_get_header_data of dng.c): two directories    *)
(* with an entry for each tag, and behind them the data that does not fit  *)
(* into an entry.  A value is left out; what is kept of an entry is        *)
(* [tag, type, count, added], added being the bytes of data that are       *)
(* written for it behind the directories, if any.                          *)
(***************************************************************************)
EXTENDS Integers, Sequences, SequencesExt

HEADER_SIZE == 65536

TypeSize ==
  [ttByte |-> 1, ttAscii |-> 1, ttShort |-> 2, ttLong |-> 4, ttRational |-> 8,
   ttUndefined |-> 1, ttSRational |-> 8]

Value(tag, type, count) == [tag |-> tag, type |-> type, count |-> count, added |-> 0]

(* Slip: the next data may be at an odd place. *)
add_string_unaligned(tag, length) ==
  [tag |-> tag, type |-> "ttAscii", count |-> length + 1,
   added |-> IF length + 1 <= 4 THEN 0 ELSE length + 1]

(* A string with length characters and its 0; a short one is the value. *)
add_string(tag, length) ==
  [tag |-> tag, type |-> "ttAscii", count |-> length + 1,
   added |-> IF length + 1 <= 4 THEN 0 ELSE (length + 1) + ((length + 1) % 2)]

(* count numbers of four bytes *)
add_array(tag, type, length) ==
  [tag |-> tag, type |-> type, count |-> IF type = "ttLong" THEN length ELSE length \div 2,
   added |-> 4 * length]

add_rational(tag, type) == [tag |-> tag, type |-> type, count |-> 1, added |-> 8]

(* h has the lengths of the strings of a recording and its frame.  The     *)
(* make is the first word of the model.                                    *)
IFD0(h) ==
  <<Value(254, "ttLong", 1), Value(256, "ttLong", 1), Value(257, "ttLong", 1),
    Value(258, "ttShort", 1), Value(259, "ttShort", 1), Value(262, "ttShort", 1),
    Value(266, "ttShort", 1), add_string(271, h.make), add_string(272, h.model),
    Value(273, "ttLong", 1), Value(274, "ttShort", 1), Value(277, "ttShort", 1),
    Value(278, "ttShort", 1), Value(279, "ttLong", 1), Value(284, "ttShort", 1),
    add_string(305, 5), add_string(306, 19), Value(33421, "ttShort", 2),
    Value(33422, "ttByte", 4), Value(34665, "ttLong", 1), Value(50706, "ttByte", 4),
    add_string(50708, h.model), Value(50714, "ttLong", 1), Value(50717, "ttLong", 1),
    add_array(50718, "ttRational", 4), Value(50719, "ttShort", 2), Value(50720, "ttShort", 2),
    add_array(50721, "ttSRational", 18), add_array(50722, "ttSRational", 18),
    add_array(50728, "ttRational", 6), add_array(50730, "ttSRational", 2),
    add_string(50735, h.serial), Value(50778, "ttShort", 1), Value(50779, "ttShort", 1),
    add_array(50829, "ttLong", 4), add_array(50964, "ttSRational", 18),
    add_array(50965, "ttSRational", 18),
    [tag |-> 51043, type |-> "ttByte", count |-> 8, added |-> 8],
    add_array(51044, "ttSRational", 2), add_string(51081, h.name),
    add_rational(51109, "ttSRational")>>

EXIF_IFD(h) ==
  <<add_rational(33434, "ttRational"), add_rational(33437, "ttRational"),
    Value(34855, "ttShort", 1), Value(34864, "ttShort", 1), Value(36864, "ttUndefined", 4),
    add_rational(37382, "ttRational"), add_rational(37386, "ttRational"),
    add_array(41486, "ttRational", 2), add_array(41487, "ttRational", 2),
    Value(41488, "ttShort", 1), add_string(42036, h.lens)>>

IFD0_COUNT     == 41
EXIF_IFD_COUNT == 11

(* A directory is a count, its entries, and where the next one is. *)
DirectorySize(count) == 2 + 12 * count + 4

exif_ifd_offset == 8 + DirectorySize(IFD0_COUNT)
data_start      == exif_ifd_offset + DirectorySize(EXIF_IFD_COUNT)

(* Where the data of each entry is if the first of it is at data_offset.   *)
(* C does not say in which order the entries of an initialiser are         *)
(* evaluated.                                                              *)
DataOffsets(ifd, data_offset, backwards) ==
  [k \in DOMAIN ifd |->
     data_offset + FoldLeft(LAMBDA sum, e : sum + e.added, 0,
                            IF backwards THEN SubSeq(ifd, k + 1, Len(ifd))
                            ELSE SubSeq(ifd, 1, k - 1))]

Added(ifd) == FoldLeft(LAMBDA sum, e : sum + e.added, 0, ifd)

Placed(ifd, offsets) ==
  [k \in DOMAIN ifd |->
     [tag |-> ifd[k].tag, type |-> ifd[k].type, count |-> ifd[k].count,
      data |-> IF ifd[k].added = 0 THEN {} ELSE {offsets[k]}]]

(* The directories; data has the place of the data of an entry, if any. *)
dng_get_header_data(h, backwards) ==
  LET first  == IFD0(h)
      second == EXIF_IFD(h)
  IN  <<Placed(first, DataOffsets(first, data_start, backwards)),
        Placed(second, DataOffsets(second, data_start + Added(first), backwards))>>

-----------------------------------------------------------------------------
(* The time code of a frame.  Rates are in thousandths of a frame a second *)
(* here; one that is asked for is rounded down, whatever the one recorded. *)

frame_rate(recorded, fps_override) ==
  IF fps_override > 0 THEN (fps_override \div 1000) * 1000 ELSE recorded

(* The two digits of a number below 100. *)
to_tc_byte(value) == (value \div 10) * 16 + (value % 10)

add_timecode(rate, frame) ==
  LET rounded == (rate + 500) \div 1000
      time    == IF rate = 0 THEN 0
                 ELSE IF rate > 1000 THEN frame \div rounded ELSE (frame * 1000) \div rate
  IN  [frames  |-> IF rate > 1000 THEN to_tc_byte(frame % rounded) % 64 ELSE 0,
       seconds |-> to_tc_byte(time % 60) % 128,
       minutes |-> to_tc_byte((time \div 60) % 60) % 128,
       hours   |-> to_tc_byte(time \div 3600) % 64]
=============================================================================
