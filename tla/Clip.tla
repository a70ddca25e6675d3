-------------------------------- MODULE Clip --------------------------------
(***************************************************************************)
(* The index of a recording (index.c): make_index lists the blocks of all  *)
(* chunks and xref_sort orders them by time;                               *)
(* the module ClipReads has what is read along that index.                 *)
(*                                                                         *)
(* A block is its type, its time, and for sound its size in bytes and how  *)
(* many of them are in the file, fewer only if the recording breaks off.   *)
(* If it does inside of the header of a sound block, none of them is, and  *)
(* the size is what wav.c makes of the fields left from the block before.  *)
(* "foreign" is the MLVI header of a chunk of another recording and "bad"  *)
(* a block header of impossible size.  The contents of a block are         *)
(* represented by its place, the number of the chunk and of the block.     *)
(* The chunks do not change meanwhile.                                     *)
(***************************************************************************)
EXTENDS Integers, Sequences

CONSTANT
  Recordings  (* the chunks that load_chunks may open                       *)

(* Headers that a frame gets. *)
FrameHeaders == {"MLVI", "RTCI", "IDNT", "RAWI", "EXPO", "LENS", "WBAL"}
Types == FrameHeaders \cup {"WAVI", "VIDF", "AUDF", "NULL", "foreign", "bad"}

(* Blocks that are not passed over. *)
Indexed == Types \ {"NULL", "foreign", "bad"}

Block == [type : Types, time : Nat, size : Nat, stored : Nat]

ASSUME RecordingsAssumption == Recordings \subseteq Seq(Seq(Block))

VARIABLES
  chunks,  (* the recording                                                 *)
  phase,   (* "scan", "sort" or "ready"                                     *)
  chunk,   (* the chunk and the block ...                                   *)
  at,      (* ... that are scanned next                                     *)
  table,   (* frame_xref_table                                              *)
  n,       (* of xref_sort: the entries from n + 1 on are in their places,  *)
  i,       (* the pass compares entry i with entry i + 1 next,              *)
  newn     (* the entries from newn + 1 to i need no swap any more          *)

vars == <<chunks, phase, chunk, at, table, n, i, newn>>

(* frame_xref_t *)
Entry == [time : Nat, chunk : Nat, at : Nat]

TypeOK ==
  /\ chunks \in Seq(Seq(Block))
  /\ phase \in {"scan", "sort", "ready"}
  /\ chunk \in 1..Len(chunks) + 1
  /\ at \in Nat \ {0}
  /\ table \in Seq(Entry)
  /\ phase = "sort" => n \in 1..Len(table) /\ i \in 1..n /\ newn \in 1..i

Init ==
  /\ chunks \in Recordings
  /\ phase = "scan"
  /\ chunk = 1
  /\ at = 1
  /\ table = <<>>
  /\ n = 0
  /\ i = 0
  /\ newn = 0

-----------------------------------------------------------------------------
(* make_index                                                              *)

(* The entry of block k of chunk c; an MLVI header has no time of its own. *)
EntryOf(c, k) ==
  [time |-> IF chunks[c][k].type = "MLVI" THEN 0 ELSE chunks[c][k].time,
   chunk |-> c, at |-> k]

Scanning(Kinds) ==
  /\ phase = "scan"
  /\ chunk <= Len(chunks)
  /\ at <= Len(chunks[chunk])
  /\ chunks[chunk][at].type \in Kinds

IndexBlock ==
  /\ Scanning(Indexed)
  /\ table' = Append(table, EntryOf(chunk, at))
  /\ at' = at + 1
  /\ UNCHANGED <<chunks, phase, chunk, n, i, newn>>

SkipNull ==
  /\ Scanning({"NULL"})
  /\ at' = at + 1
  /\ UNCHANGED <<chunks, phase, chunk, table, n, i, newn>>

(* The file ends, or what follows in it is not of this recording. *)
EndChunk ==
  /\ \/ Scanning({"foreign", "bad"})
     \/ phase = "scan" /\ chunk <= Len(chunks) /\ at > Len(chunks[chunk])
  /\ chunk' = chunk + 1
  /\ at' = 1
  /\ UNCHANGED <<chunks, phase, table, n, i, newn>>

(* Slip: the first pass runs over the end of the table. *)
StartSortOver ==
  /\ phase = "scan" /\ chunk > Len(chunks)
  /\ phase' = IF table = <<>> THEN "ready" ELSE "sort"
  /\ n' = Len(table) + 1
  /\ i' = 1
  /\ newn' = 1
  /\ UNCHANGED <<chunks, chunk, at, table>>

(* xref_sort *)
StartSort ==
  /\ phase = "scan" /\ chunk > Len(chunks)
  /\ phase' = IF table = <<>> THEN "ready" ELSE "sort"
  /\ n' = Len(table)
  /\ i' = 1
  /\ newn' = 1
  /\ UNCHANGED <<chunks, chunk, at, table>>

Swapped(s, k) == [s EXCEPT ![k] = s[k + 1], ![k + 1] = s[k]]

(* Slip: the swap counts for the entry before. *)
SwapShort ==
  /\ phase = "sort" /\ i < n
  /\ table[i].time > table[i + 1].time
  /\ table' = Swapped(table, i)
  /\ newn' = IF i > 1 THEN i - 1 ELSE 1
  /\ i' = i + 1
  /\ UNCHANGED <<chunks, phase, chunk, at, n>>

Swap ==
  /\ phase = "sort" /\ i < n
  /\ table[i].time > table[i + 1].time
  /\ table' = Swapped(table, i)
  /\ newn' = i
  /\ i' = i + 1
  /\ UNCHANGED <<chunks, phase, chunk, at, n>>

Pass ==
  /\ phase = "sort" /\ i < n
  /\ table[i].time <= table[i + 1].time
  /\ i' = i + 1
  /\ UNCHANGED <<chunks, phase, chunk, at, table, n, newn>>

EndPass ==
  /\ phase = "sort" /\ i = n
  /\ phase' = IF newn > 1 THEN "sort" ELSE "ready"
  /\ n' = newn
  /\ i' = 1
  /\ newn' = 1
  /\ UNCHANGED <<chunks, chunk, at, table>>

(* The index is made and read. *)
Finished == phase = "ready" /\ UNCHANGED vars

Next ==
  \/ IndexBlock \/ SkipNull \/ EndChunk
  \/ StartSort \/ Swap \/ Pass \/ EndPass
  \/ Finished

Spec == Init /\ [][Next]_vars

-----------------------------------------------------------------------------
(* a comes before b in the files. *)
FileOrder(a, b) == a.chunk < b.chunk \/ (a.chunk = b.chunk /\ a.at < b.at)

(* a comes before b in time, or at one time in the files. *)
InOrder(a, b) == a.time < b.time \/ (a.time = b.time /\ FileOrder(a, b))

(* Block k of chunk c is one for the index: nothing foreign before it. *)
Belongs(c, k) ==
  /\ chunks[c][k].type \in Indexed
  /\ \A j \in 1..k : chunks[c][j].type \notin {"foreign", "bad"}

(* The index has every block of the recording once, by time, and those of  *)
(* one time as they are in the files, so that a header stays in front of   *)
(* the frames it was written for.  xref_sort ends each pass where the last *)
(* one swapped last, which must not leave anything behind.                 *)
IndexInOrder ==
  phase = "ready" =>
    /\ \A j, k \in DOMAIN table : j < k => InOrder(table[j], table[k])
    /\ \A j \in DOMAIN table : \E c \in DOMAIN chunks : \E k \in DOMAIN chunks[c] :
         Belongs(c, k) /\ table[j] = EntryOf(c, k)
    /\ \A c \in DOMAIN chunks : \A k \in DOMAIN chunks[c] :
         Belongs(c, k) => \E j \in DOMAIN table : table[j] = EntryOf(c, k)
=============================================================================
