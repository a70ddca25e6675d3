------------------------------ MODULE ClipReads ------------------------------
(***************************************************************************)
(* What is read along the index of a recording, once it is made: the       *)
(* headers of a frame (mlv_get_frame_headers, main.c) and the .wav file    *)
(* (wav.c), in pieces of any size.  Both are checked against the recording *)
(* itself, without the index.                                              *)
(***************************************************************************)
EXTENDS Clip, FiniteSets

CONSTANTS
  HeaderSize,     (* sizeof(struct wav_header)                              *)
  BytesPerSecond, (* of the WAVI header                                     *)
  FpsNom,         (* sourceFpsNom and ...                                   *)
  FpsDenom,       (* sourceFpsDenom of the MLVI header                      *)
  None

ASSUME ConstantsAssumption ==
  /\ {HeaderSize, BytesPerSecond, FpsNom, FpsDenom} \subseteq Nat
  /\ None \notin Nat \X Nat   \* it is no place, and nothing found
  /\ None \notin [frame : Nat \X Nat, header : [FrameHeaders -> (Nat \X Nat) \cup {None}]]

-----------------------------------------------------------------------------
(* Reading along the index, when it is ready.                              *)

BlockOf(entry) == chunks[entry.chunk][entry.at]
Place(entry) == <<entry.chunk, entry.at>>

(* mlv_get_frame_count *)
mlv_get_frame_count ==
  Cardinality({k \in DOMAIN table : BlockOf(table[k]).type = "VIDF"})

(* One turn of the loop in mlv_get_frame_headers. *)
CountFrame(index, s, entry) ==
  IF s.vidf_counter = index
  THEN [s EXCEPT !.frame = Place(entry)]
  ELSE [s EXCEPT !.vidf_counter = @ + 1]

(* Slip: the loop goes on after the frame. *)
CollectAll(index, s, entry) ==
  LET type == BlockOf(entry).type
  IN  IF type = "VIDF" THEN CountFrame(index, s, entry)
      ELSE IF type \in FrameHeaders THEN [s EXCEPT !.header[type] = Place(entry)]
      ELSE s

Collect(index, s, entry) ==
  LET type == BlockOf(entry).type
  IN  IF s.frame # None THEN s
      ELSE IF type = "VIDF" THEN CountFrame(index, s, entry)
      ELSE IF type \in FrameHeaders THEN [s EXCEPT !.header[type] = Place(entry)]
      ELSE s

NothingFound ==
  [vidf_counter |-> 0, frame |-> None, header |-> [h \in FrameHeaders |-> None]]

(* What the loop has found after k entries. *)
Collected(index) ==
  LET found[k \in 0..Len(table)] ==
        IF k = 0 THEN NothingFound ELSE Collect(index, found[k - 1], table[k])
  IN  found

(* The places of the frame and of its headers; NULL without frame or RAWI. *)
mlv_get_frame_headers(index) ==
  LET s == Collected(index)[Len(table)]
  IN  IF s.frame # None /\ s.header["RAWI"] # None
      THEN [frame |-> s.frame, header |-> s.header] ELSE None

-----------------------------------------------------------------------------
(* Sound.  A byte is a tuple that says where it comes from.                *)

HeaderByte(k) == <<"header", k>>
SoundByte(place, k) == <<"sound", place[1], place[2], k>>
Zero == <<"zero">>
Garbage == <<"garbage">>    (* left in the buffer of the caller *)

Smaller(a, b) == IF a < b THEN a ELSE b
Larger(a, b) == IF a > b THEN a ELSE b

(* wav_get_headers finds a WAVI header. *)
HasWavi == \E k \in DOMAIN table : BlockOf(table[k]).type = "WAVI"

wav_get_size ==
  IF HasWavi /\ FpsNom > 0
  THEN HeaderSize + (BytesPerSecond * FpsDenom * mlv_get_frame_count) \div FpsNom
  ELSE 0

(* s.out with size bytes of a block, from its byte offset on. *)
Delivered(s, entry, offset, size) ==
  [k \in DOMAIN s.out |->
     LET b == offset + k - s.output_position
     IN  IF k \in s.output_position..s.output_position + size - 1 /\ b < BlockOf(entry).stored
         THEN SoundByte(Place(entry), b) ELSE s.out[k]]

(* Slip: what is skipped does not count. *)
DeliverLate(s, entry) ==
  LET frame_size  == BlockOf(entry).size
      this_offset == Larger(0, s.read_offset - s.audio_position)
      this_size   == Smaller(frame_size - this_offset, s.remaining)
  IN  IF BlockOf(entry).type # "AUDF" \/ s.remaining = 0
         \/ s.audio_position + frame_size < s.read_offset
      THEN s
      ELSE [out             |-> Delivered(s, entry, this_offset, this_size),
            output_position |-> s.output_position + this_size,
            read_offset     |-> s.read_offset + this_size,
            remaining       |-> s.remaining - this_size,
            audio_position  |-> s.audio_position + frame_size]

(* One turn of the loop in wav_get_data_direct. *)
Deliver(s, entry) ==
  LET frame_size  == BlockOf(entry).size
      this_offset == Larger(0, s.read_offset - s.audio_position)
      this_size   == Smaller(frame_size - this_offset, s.remaining)
  IN  IF BlockOf(entry).type # "AUDF" \/ s.remaining = 0 THEN s
      ELSE IF s.audio_position + frame_size < s.read_offset
      THEN [s EXCEPT !.audio_position = @ + frame_size]
      ELSE [out             |-> Delivered(s, entry, this_offset, this_size),
            output_position |-> s.output_position + this_size,
            read_offset     |-> s.read_offset + this_size,
            remaining       |-> s.remaining - this_size,
            audio_position  |-> s.audio_position + frame_size]

(* The header comes first. *)
WithHeader(offset, length) ==
  LET this_size == Larger(0, Smaller(HeaderSize - offset, length))
  IN  [out             |-> [k \in 0..length - 1 |->
                              IF k < this_size THEN HeaderByte(offset + k) ELSE Garbage],
       output_position |-> this_size,
       read_offset     |-> offset + this_size - HeaderSize,
       remaining       |-> length - this_size,
       audio_position  |-> 0]

(* What the loop has delivered after k entries. *)
WithSound(offset, length) ==
  LET sound[k \in 0..Len(table)] ==
        IF k = 0 THEN WithHeader(offset, length) ELSE Deliver(sound[k - 1], table[k])
  IN  sound

(* After the last block what is missing should be filled with zeros, but   *)
(* what has been delivered is taken off twice.                             *)
wav_get_data_direct(offset, length) ==
  LET first == WithHeader(offset, length)
      last  == WithSound(offset, length)[Len(table)]
  IN  IF first.remaining = 0 THEN first.out
      ELSE [k \in 0..length - 1 |->
              IF k \in last.output_position..last.remaining - 1 THEN Zero ELSE last.out[k]]

(* wav_get_data: the bytes that mlvfs_read returns, numbered from 0. *)
wav_get_data(offset, max_size) ==
  LET read_offset == Smaller(offset, wav_get_size)
  IN  wav_get_data_direct(read_offset, Smaller(max_size, wav_get_size - read_offset))

-----------------------------------------------------------------------------
(* Properties.                                                             *)

(* Blocks of the recording of some kinds, with the index left aside. *)
BlocksOf(Kinds) ==
  UNION {{EntryOf(c, k) : k \in {k \in DOMAIN chunks[c] :
                                   Belongs(c, k) /\ chunks[c][k].type \in Kinds}} :
           c \in DOMAIN chunks}

Before(entry, S) == {e \in S : InOrder(e, entry)}

LastOf(S) == CHOOSE e \in S : \A d \in S \ {e} : InOrder(d, e)
Latest(S) == IF S = {} THEN None ELSE Place(LastOf(S))

(* Frame number n is the n-th one in time, whichever chunk it is in, and   *)
(* it has the headers in force when it was taken: of each kind the last    *)
(* one before it.  All frames that are counted are there, and no other.    *)
HeadersInForce ==
  phase = "ready" =>
    LET frames == BlocksOf({"VIDF"})
        Headers(h, entry) == Latest(Before(entry, BlocksOf({h})))
    IN  /\ mlv_get_frame_count = Cardinality(frames)
        /\ mlv_get_frame_headers(Cardinality(frames)) = None
        /\ \A entry \in frames :
             mlv_get_frame_headers(Cardinality(Before(entry, frames))) =
               IF Headers("RAWI", entry) = None THEN None
               ELSE [frame  |-> Place(entry),
                     header |-> [h \in FrameHeaders |-> Headers(h, entry)]]

(* Where the sound of each block ends in the .wav file. *)
SoundEnds ==
  LET blocks == BlocksOf({"AUDF"})
      ends[e \in blocks] ==
        LET earlier == Before(e, blocks)
        IN  BlockOf(e).size + IF earlier = {} THEN HeaderSize ELSE ends[LastOf(earlier)]
  IN  ends

(* A piece of the .wav file has the right bytes wherever it is cut out:    *)
(* the header, then the sound of all blocks in time, but for bytes that    *)
(* are not in the file, then silence.  A piece with the end of the sound   *)
(* in it may have anything behind that end.                                *)
WavIsRecording ==
  phase = "ready" =>
    LET blocks == BlocksOf({"AUDF"})
        ends == SoundEnds
        end == IF blocks = {} THEN HeaderSize ELSE ends[LastOf(blocks)]
        Byte(p) ==   \* of the file, at p
          IF p < HeaderSize THEN HeaderByte(p)
          ELSE IF p >= end THEN Zero
          ELSE LET entry == CHOOSE e \in blocks : ends[e] - BlockOf(e).size <= p /\ p < ends[e]
                   k == p - (ends[entry] - BlockOf(entry).size)
               IN  IF k < BlockOf(entry).stored THEN SoundByte(Place(entry), k) ELSE Garbage
        file == [p \in 0..wav_get_size - 1 |-> Byte(p)]
    IN  \A offset, size \in 0..wav_get_size :
          LET piece == wav_get_data(offset, size)
          IN  /\ DOMAIN piece = 0..Smaller(size, wav_get_size - offset) - 1
              /\ \A k \in DOMAIN piece :
                   \/ piece[k] = file[offset + k]
                   \/ offset < end /\ end <= offset + k /\ piece[k] = Garbage
=============================================================================
