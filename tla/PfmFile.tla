------------------------------- MODULE PfmFile -------------------------------
(***************************************************************************)
(* The contents of the temporary files of the Windows volume               *)
(* (win/mlvfs-pfm.cpp, File::Read, PrepSetSize, Write and SetSize).  A     *)
(* file is a list of pointers to blocks; a block that was never written is *)
(* NULL and reads as zeros.  The volume counts the bytes of all blocks.    *)
(* The list only grows, by more than it needs; memory can be refused at    *)
(* every malloc.                                                           *)
(***************************************************************************)
EXTENDS Integers, Sequences, FiniteSets

CONSTANTS
  Files,        (* temporary files                                          *)
  BlockSize,    (* File::blockSize                                          *)
  MaxBlocks,    (* INT_MAX in File::maxFileSize                             *)
  Slack,        (* the 4 entries that PrepSetSize adds                      *)
  Payloads,     (* what is written: sequences of bytes                      *)
  NULL

Byte == 0..255

ASSUME ConstantsAssumption ==
  /\ {BlockSize, MaxBlocks} \subseteq Nat \ {0}
  /\ Slack \in Nat
  /\ IsFiniteSet(Files)
  /\ Payloads \subseteq Seq(Byte)
  /\ NULL \notin [0..BlockSize - 1 -> Byte]

VARIABLES
  fileSize,
  blockList,    (* the list of each file, of blockCount entries from 0 on   *)
  capacity,     (* Volume::capacity                                         *)
  outActualSize (* what the last Write answered                             *)

vars == <<fileSize, blockList, capacity, outActualSize>>

maxFileSize == BlockSize * MaxBlocks
Block == [0..BlockSize - 1 -> Byte]
blockCount(f) == Cardinality(DOMAIN blockList[f])

(* Blocks of a file of this size. *)
BlocksFor(size) == (size + BlockSize - 1) \div BlockSize

(* Entries that no list is longer than. *)
MaxEntries == 2 * (MaxBlocks + Slack)

(* Blocks in memory, by file and entry. *)
Allocated ==
  {b \in Files \X (0..MaxEntries) :
     b[2] \in DOMAIN blockList[b[1]] /\ blockList[b[1]][b[2]] # NULL}

(* Every byte of a file has an entry in the list, so that Read and Write   *)
(* never index behind it, no block is kept past the end of the file, and   *)
(* the volume counts exactly the memory of the blocks that are there, with *)
(* blocks shared out, freed and refused in any order.                      *)
FileTypeOK ==
  /\ fileSize \in [Files -> 0..maxFileSize]
  /\ \A f \in Files : \E n \in 0..MaxEntries :
       /\ blockList[f] \in [0..n - 1 -> Block \cup {NULL}]
       /\ fileSize[f] <= BlockSize * n
       /\ \A i \in 0..n - 1 : i >= BlocksFor(fileSize[f]) => blockList[f][i] = NULL
  /\ capacity = BlockSize * Cardinality(Allocated)
  /\ outActualSize \in Nat

Init ==
  /\ fileSize = [f \in Files |-> 0]
  /\ blockList = [f \in Files |-> [i \in {} |-> NULL]]
  /\ capacity = 0
  /\ outActualSize = 0

-----------------------------------------------------------------------------
Smaller(m, n) == IF m < n THEN m ELSE n
Larger(m, n) == IF m > n THEN m ELSE n

(* Position of byte o of block i. *)
At(i, o) == i * BlockSize + o

(* PrepSetSize, when it gets its memory: a list that is too short is       *)
(* copied to a longer one.                                                 *)
PrepSetSize(f, newFileSize) ==
  LET n == BlocksFor(newFileSize)
  IN  IF n <= blockCount(f) THEN blockList[f]
      ELSE [i \in 0..n + n \div 4 + Slack - 1 |->
              IF i \in DOMAIN blockList[f] THEN blockList[f][i] ELSE NULL]

(* A byte of memory that nothing has been written to. *)
Garbage == 255

(* Slip: a new block is not cleared. *)
FreshUncleared(partial) == Garbage

(* A byte of a new block: only a block that is not written as a whole is   *)
(* cleared.                                                                *)
Fresh(partial) == IF partial THEN 0 ELSE Garbage

(* Blocks that hold bytes from first up to end. *)
Touched(list, first, end) ==
  {i \in DOMAIN list : first < end /\ At(i, BlockSize) > first /\ At(i, 0) < end}

(* Those of them that have to be allocated. *)
Missing(list, first, end) == {i \in Touched(list, first, end) : list[i] = NULL}

(* The loop of Write, which stops in front of a block it gets no memory    *)
(* for: bytes first up to stop are written, of those up to end.            *)
Written(list, first, stop, end, data) ==
  [i \in DOMAIN list |->
     IF i \notin Touched(list, first, stop) THEN list[i]
     ELSE [o \in 0..BlockSize - 1 |->
             IF At(i, o) \in first..stop - 1 THEN data[At(i, o) - first + 1]
             ELSE IF list[i] # NULL THEN list[i][o]
             ELSE Fresh(first > At(i, 0) \/ end < At(i, BlockSize))]]

(* Where the loop can end. *)
Stops(list, first, end) ==
  {end} \cup {Larger(first, At(i, 0)) : i \in Missing(list, first, end)}

(* File::Write, when the list has room. *)
Write(f, fileOffset, data) ==
  LET end  == Smaller(fileOffset + Len(data), maxFileSize)
      list == PrepSetSize(f, end)
  IN  /\ fileOffset < maxFileSize
      /\ \E stop \in Stops(list, fileOffset, end) :
           /\ blockList' = [blockList EXCEPT ![f] =
                              Written(list, fileOffset, stop, end, data)]
           /\ capacity' = capacity +
                BlockSize * Cardinality(Missing(list, fileOffset, stop))
           /\ fileSize' = [fileSize EXCEPT ![f] =
                             IF stop > fileOffset THEN Larger(@, stop) ELSE @]
           /\ outActualSize' = stop - fileOffset

(* Without room, or behind the end of the largest file, nothing is         *)
(* written; the room is needed if the list is too short.                   *)
WriteNothing(f, fileOffset, data) ==
  /\ fileOffset < maxFileSize =>
       BlocksFor(Smaller(fileOffset + Len(data), maxFileSize)) > blockCount(f)
  /\ outActualSize' = 0
  /\ UNCHANGED <<fileSize, blockList, capacity>>

(* The last block of a file that is cut off to n bytes. *)
ZeroTail(block, n) ==
  IF block = NULL THEN NULL
  ELSE [o \in 0..BlockSize - 1 |-> IF o < n % BlockSize THEN block[o] ELSE 0]

(* Slip: entries are counted that have no block. *)
PastEndEntries(list, n, size) == {i \in DOMAIN list : i >= BlocksFor(n) /\ i < BlocksFor(size)}

(* Blocks that SetSize frees. *)
PastEnd(list, n, size) ==
  {i \in DOMAIN list : i >= BlocksFor(n) /\ i < BlocksFor(size) /\ list[i] # NULL}

Cut(list, n, size) ==
  [i \in DOMAIN list |->
     IF i \in PastEnd(list, n, size) THEN NULL
     ELSE IF n % BlockSize # 0 /\ i = BlocksFor(n) - 1 THEN ZeroTail(list[i], n)
     ELSE list[i]]

(* File::SetSize, to less than the size. *)
Shrink(f, newFileSize) ==
  /\ newFileSize < fileSize[f]
  /\ LET list == PrepSetSize(f, newFileSize)
     IN  /\ blockList' = [blockList EXCEPT ![f] = Cut(list, newFileSize, fileSize[f])]
         /\ capacity' = capacity -
              BlockSize * Cardinality(PastEnd(list, newFileSize, fileSize[f]))
  /\ fileSize' = [fileSize EXCEPT ![f] = newFileSize]
  /\ UNCHANGED outActualSize

(* File::SetSize, to more: only the list grows. *)
Extend(f, newFileSize) ==
  /\ fileSize[f] <= newFileSize /\ newFileSize <= maxFileSize
  /\ blockList' = [blockList EXCEPT ![f] = PrepSetSize(f, newFileSize)]
  /\ fileSize' = [fileSize EXCEPT ![f] = newFileSize]
  /\ UNCHANGED <<capacity, outActualSize>>

(* ~File, of a file that was deleted and closed; another may take its      *)
(* place.                                                                  *)
Free(f) ==
  /\ capacity' = capacity -
       BlockSize * Cardinality({i \in DOMAIN blockList[f] : blockList[f][i] # NULL})
  /\ blockList' = [blockList EXCEPT ![f] = [i \in {} |-> NULL]]
  /\ fileSize' = [fileSize EXCEPT ![f] = 0]
  /\ UNCHANGED outActualSize

Next ==
  \E f \in Files :
    \/ \E fileOffset \in 0..maxFileSize, data \in Payloads :
         Write(f, fileOffset, data) \/ WriteNothing(f, fileOffset, data)
    \/ \E newFileSize \in 0..maxFileSize : Shrink(f, newFileSize) \/ Extend(f, newFileSize)
    \/ Free(f)

Spec == Init /\ [][Next]_vars

-----------------------------------------------------------------------------
(* File::Read of requestedSize bytes. *)
Read(f, fileOffset, requestedSize) ==
  LET end == IF fileOffset < fileSize[f]
             THEN Smaller(fileOffset + requestedSize, fileSize[f]) ELSE fileOffset
  IN  [p \in 1..end - fileOffset |->
         LET offset == fileOffset + p - 1
             block  == blockList[f][offset \div BlockSize]
         IN  IF block = NULL THEN 0 ELSE block[offset % BlockSize]]

(* What is read back is a plain file of bytes: every request does to it    *)
(* what the abstract file allows, with holes, cuts and refused memory, and *)
(* a write answers how many of its bytes are in the file.                  *)
content == [f \in Files |-> Read(f, 0, maxFileSize)]

Bytes == INSTANCE ByteFile WITH MaxSize <- maxFileSize

ByteFileSpec == Bytes!Spec
=============================================================================
