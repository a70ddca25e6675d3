----------------------------- MODULE FrameReads -----------------------------
(***************************************************************************)
(* The frames that are read along the index of a recording: unpacking      *)
(* (main.c, dng.c), the pieces of a .dng that mlvfs_read answers with, and *)
(* the preview (gif.c).  The corrections of process_frame are switched     *)
(* off, the recording is not compressed, all frames have one resolution,   *)
(* and the size of a RAWI block is its bits per pixel.                     *)
(***************************************************************************)
EXTENDS ClipReads

CONSTANTS
  Width, Height,  (* xRes and yRes                                          *)
  DngHeaderSize,  (* HEADER_SIZE of dng.c                                   *)
  Sample(_, _),   (* the sample of the camera for a place and a pixel       *)
  ReadSizes,      (* sizes of the reads of a .dng                           *)
  SubBlockSize,   (* SUB_BLOCK_SIZE of gif.c                                *)
  PreviewSizes,   (* numbers of pixels that a scaled down frame can have    *)
  GifHeader,      (* bytes in front of the first frame of a preview         *)
  GifFrameHeader  (* bytes in front of the pixels of each frame             *)

ASSUME FrameAssumption ==
  /\ {Width, Height, DngHeaderSize, GifHeader, GifFrameHeader} \subseteq Nat
  /\ ReadSizes \subseteq Nat /\ PreviewSizes \subseteq Nat
  /\ SubBlockSize \in Nat /\ SubBlockSize > 2
  /\ None \notin Nat   \* it is no sample

Pixels == Width * Height

(* The bits per pixel that dng_get_image_data is compiled for, whole pairs *)
(* of pixels of the Bayer pattern, and samples that are numbers.           *)
ASSUME FormatAssumption ==
  /\ Pixels % 2 = 0
  /\ \A r \in Recordings : \A c \in DOMAIN r : \A k \in DOMAIN r[c] :
       /\ r[c][k].type = "RAWI" => r[c][k].size \in {8, 10, 12, 14}
       /\ \A pixel \in 0..Pixels - 1 : Sample(<<c, k>>, pixel) \in Nat

-----------------------------------------------------------------------------
(* Unpacking.  The camera writes the bits of all samples one behind the    *)
(* other, the highest first, into words of 16 bits.                        *)

Camera(place, bpp, pixel) == Sample(place, pixel) % 2^bpp

StoredBit(place, bpp, b) ==
  IF b < Pixels * bpp
  THEN (Camera(place, bpp, b \div bpp) \div 2^(bpp - 1 - (b % bpp))) % 2
  ELSE 1   \* of the block behind the frame

(* The numbers that the first bits from one on are. *)
BitsFrom(place, bpp, first) ==
  LET number[l \in 0..16] ==
        IF l = 0 THEN 0 ELSE 2 * number[l - 1] + StoredBit(place, bpp, first + (l - 1))
  IN  number

StoredWord(place, bpp, w) == BitsFrom(place, bpp, 16 * w)[16]

(* get_image_data: the words that are read for the whole frame. *)
PackedBits(place, bpp) ==
  [w \in 0..((Pixels + 2) * bpp) \div 16 - 1 |-> StoredWord(place, bpp, w)]

(* The low word of a 32 bit register after ROR; the machine takes the      *)
(* number of bits modulo 32.                                               *)
LowWordOfROR(low, high, bits) ==
  LET shift   == bits % 16
      swapped == bits % 32 >= 16
      l == IF swapped THEN high ELSE low
      h == IF swapped THEN low ELSE high
  IN  l \div 2^shift + (h % 2^shift) * 2^(16 - shift)

(* dng_get_image_data_inline, one turn of the loop; None for a fetch from  *)
(* behind the words that were read.                                        *)
Unpacked(packed_bits, bpp, pixel) ==
  LET bits_address == (pixel * bpp) \div 16
      bits_shift   == (pixel * bpp) % 16
      rotate_value == 16 + ((32 - bpp) - bits_shift)
  IN  IF bits_address + 1 \notin DOMAIN packed_bits THEN None
      ELSE LowWordOfROR(packed_bits[bits_address], packed_bits[bits_address + 1],
                        rotate_value) % 2^bpp

-----------------------------------------------------------------------------
(* Reading a .dng                                                          *)

DngByte(k) == <<"dng", k>>
PixelByte(value, k) == <<"pixel", IF k = 0 THEN value % 256 ELSE value \div 256>>

(* process_frame: the data of the image buffer. *)
process_frame(headers) ==
  LET bpp    == chunks[headers.header["RAWI"][1]][headers.header["RAWI"][2]].size
      packed == PackedBits(headers.frame, bpp)
      pixel  == [p \in 0..Pixels - 1 |-> Unpacked(packed, bpp, p)]
  IN  [k \in 0..2 * Pixels - 1 |->
         IF pixel[k \div 2] = None THEN Garbage ELSE PixelByte(pixel[k \div 2], k % 2)]

(* Slip: the piece of the header is as long as the header. *)
ReadWholeHeader(data, offset, size) ==
  LET file_size   == DngHeaderSize + 2 * Pixels
      read_offset == Smaller(offset, file_size)
      read_size   == Smaller(size, file_size - read_offset)
      remaining   == IF read_offset < DngHeaderSize THEN Smaller(read_size, DngHeaderSize) ELSE 0
      image_offset == IF read_offset < DngHeaderSize THEN 0 ELSE read_offset - DngHeaderSize
  IN  [k \in 0..read_size - 1 |->
         IF k < remaining THEN DngByte(read_offset + k)
         ELSE data[image_offset + k - remaining]]

(* mlvfs_read from an image buffer of a .dng: buf, numbered from 0. *)
mlvfs_read(data, offset, size) ==
  LET file_size   == DngHeaderSize + 2 * Pixels
      read_offset == Smaller(offset, file_size)
      read_size   == Smaller(size, file_size - read_offset)
      remaining   == IF read_offset < DngHeaderSize
                     THEN Smaller(read_size, DngHeaderSize - read_offset) ELSE 0
      image_offset == IF read_offset < DngHeaderSize THEN 0 ELSE read_offset - DngHeaderSize
  IN  [k \in 0..read_size - 1 |->
         IF k < remaining THEN DngByte(read_offset + k)
         ELSE data[image_offset + k - remaining]]

-----------------------------------------------------------------------------
(* The preview: an "uncompressed" GIF, which clears the table of LZW codes *)
(* in every sub block so that codes never grow.                            *)

FRAME_COUNT == 10

(* Slip: the sub block that is begun last is not counted. *)
SizeOfFullBlocks(count) ==
  LET pixels       == count + 1
      lzw_overhead == (pixels \div (SubBlockSize - 1)) * 2
      frame_size   == GifFrameHeader + pixels + lzw_overhead + 1
  IN  GifHeader + FRAME_COUNT * frame_size + 1

(* For frames of count pixels, which are scaled down. *)
gif_get_size(count) ==
  LET pixels       == count + 1
      lzw_overhead == (pixels \div (SubBlockSize - 1) + 1) * 2
      frame_size   == GifFrameHeader + pixels + lzw_overhead + 1
  IN  GifHeader + FRAME_COUNT * frame_size + 1

(* The bytes and the begun sub block after k pixels. *)
Encoded[k \in Nat] ==
  IF k = 0 THEN [position |-> 0, sub_block_position |-> 0]
  ELSE LET s    == Encoded[k - 1]
           next == s.sub_block_position + 1
       IN  IF next = SubBlockSize - 1
           THEN [position |-> s.position + next + 2, sub_block_position |-> 0]
           ELSE [s EXCEPT !.sub_block_position = next]

(* With the end code in the last sub block, and the empty block. *)
EncodedSize(count) == Encoded[count].position + (Encoded[count].sub_block_position + 1) + 2 + 1

(* gif_get_data: the frames shown, of which those that are not found are   *)
(* left out ...                                                            *)
mlv_frame_number(gif_frame) == (gif_frame * mlv_get_frame_count) \div FRAME_COUNT

PreviewFrames ==
  LET shown[k \in 0..FRAME_COUNT] ==
        IF k = 0 THEN <<>>
        ELSE LET headers == mlv_get_frame_headers(mlv_frame_number(k - 1))
             IN  IF headers = None THEN shown[k - 1] ELSE Append(shown[k - 1], headers)
  IN  shown[FRAME_COUNT]

(* ... and the bytes written for them. *)
gif_get_data(frames, count) ==
  GifHeader + Len(frames) * (GifFrameHeader + EncodedSize(count)) + 1

-----------------------------------------------------------------------------
(* Properties.                                                             *)

(* A piece of a .dng has the right bytes wherever it is cut out: the       *)
(* header, then the samples that the camera packed, unpacked with the bits *)
(* per pixel in force for this frame, and nothing from behind the frame.   *)
DngIsFrame ==
  phase = "ready" =>
    LET frames == BlocksOf({"VIDF"})
        file_size == DngHeaderSize + 2 * Pixels
    IN  \A entry \in frames :
          LET rawi    == Latest(Before(entry, BlocksOf({"RAWI"})))
              headers == mlv_get_frame_headers(Cardinality(Before(entry, frames)))
              Pixel(p) == Camera(Place(entry), chunks[rawi[1]][rawi[2]].size, p)
              data    == process_frame(headers)
              file    == [p \in 0..file_size - 1 |->
                            IF p < DngHeaderSize THEN DngByte(p)
                            ELSE PixelByte(Pixel((p - DngHeaderSize) \div 2),
                                           (p - DngHeaderSize) % 2)]
          IN  rawi # None =>
                \A offset \in 0..file_size, size \in ReadSizes :
                  mlvfs_read(data, offset, size) =
                    [k \in 0..Smaller(size, file_size - offset) - 1 |-> file[offset + k]]

(* What is written of a preview fits into the size that was computed for   *)
(* it, for every number of pixels that there can be, and a clip that has a *)
(* preview has all its frames, in their order and from the first one on.   *)
PreviewFits ==
  phase = "ready" /\ mlv_get_frame_headers(0) # None =>
    LET frames == PreviewFrames
        Time(h) == chunks[h.frame[1]][h.frame[2]].time
    IN  /\ Len(frames) = FRAME_COUNT
        /\ frames[1] = mlv_get_frame_headers(0)
        /\ \A k \in 2..FRAME_COUNT : Time(frames[k - 1]) <= Time(frames[k])
        /\ \A count \in PreviewSizes : gif_get_data(frames, count) <= gif_get_size(count)
=============================================================================
