----------------------------- MODULE ClipProofs -----------------------------
(***************************************************************************)
(* Theorems about the index of a recording, for recordings of any number   *)
(* of chunks with any blocks at any times.                                 *)
(***************************************************************************)
EXTENDS FrameReads, Recursion

-----------------------------------------------------------------------------
(* Type correctness.                                                       *)

LEMMA EntryOfType ==
  ASSUME TypeOK, NEW c \in DOMAIN chunks, NEW k \in DOMAIN chunks[c]
  PROVE  /\ EntryOf(c, k) \in Entry
         /\ EntryOf(c, k).chunk = c
         /\ EntryOf(c, k).at = k
  <1>1. /\ c \in Nat /\ chunks[c] \in Seq(Block)
    BY DEF TypeOK
  <1>2. k \in Nat /\ chunks[c][k] \in Block
    BY <1>1
  <1>3. chunks[c][k].time \in Nat
    BY <1>2 DEF Block
  <1> QED
    BY <1>1, <1>2, <1>3 DEF EntryOf, Entry

(* The sort compares numbers. *)
LEMMA TimesAreNumbers ==
  ASSUME TypeOK, NEW j \in DOMAIN table
  PROVE  table[j].time \in Nat
  <1>1. table[j] \in Entry
    BY DEF TypeOK
  <1> QED
    BY <1>1 DEF Entry

(* What a swap of two neighbours does to the table. *)
LEMMA SwapType ==
  ASSUME TypeOK, NEW k \in 1..Len(table) - 1, table' = Swapped(table, k)
  PROVE  /\ table' \in Seq(Entry)
         /\ Len(table') = Len(table)
         /\ DOMAIN table' = DOMAIN table
         /\ table'[k] = table[k + 1]
         /\ table'[k + 1] = table[k]
         /\ \A j \in DOMAIN table : j # k /\ j # k + 1 => table'[j] = table[j]
  BY DEF TypeOK, Swapped

(* Before the index is made there is nothing in the table. *)
LEMMA InitTypeOK == Init => TypeOK
  <1> SUFFICES ASSUME Init PROVE TypeOK
    OBVIOUS
  <1>1. chunks \in Seq(Seq(Block))
    BY RecordingsAssumption DEF Init
  <1>2. 1 \in 1..Len(chunks) + 1
    BY <1>1
  <1> QED
    BY <1>1, <1>2 DEF Init, TypeOK

(* No step of the scan or the sort leaves the recording or the table. *)
LEMMA NextTypeOK == TypeOK /\ [Next]_vars => TypeOK'
  <1> SUFFICES ASSUME TypeOK, [Next]_vars PROVE TypeOK'
    OBVIOUS
  <1>1. CASE IndexBlock
    <2>1. chunk \in DOMAIN chunks /\ at \in DOMAIN chunks[chunk]
      BY <1>1 DEF TypeOK, IndexBlock, Scanning
    <2>2. EntryOf(chunk, at) \in Entry
      BY <2>1, EntryOfType
    <2> QED
      BY <1>1, <2>2 DEF TypeOK, IndexBlock, Scanning
  <1>2. CASE SkipNull
    BY <1>2 DEF TypeOK, SkipNull, Scanning
  <1>3. CASE EndChunk
    BY <1>3 DEF TypeOK, EndChunk, Scanning
  <1>4. CASE StartSort
    BY <1>4 DEF TypeOK, StartSort
  <1>5. CASE Swap
    BY <1>5, SwapType DEF TypeOK, Swap
  <1>6. CASE Pass
    BY <1>6 DEF TypeOK, Pass
  <1>7. CASE EndPass
    BY <1>7 DEF TypeOK, EndPass
  <1>8. CASE UNCHANGED vars
    BY <1>8 DEF TypeOK, vars
  <1> QED
    BY <1>1, <1>2, <1>3, <1>4, <1>5, <1>6, <1>7, <1>8 DEF Next, Finished

(* The scan stays inside the recording and the sort inside the table       *)
(* (make_index and xref_sort, index.c).                                    *)
THEOREM TypeCorrect == Spec => []TypeOK
  <1>1. Init => TypeOK
    BY InitTypeOK
  <1>2. TypeOK /\ [Next]_vars => TypeOK'
    BY NextTypeOK
  <1> QED
    BY <1>1, <1>2, PTL DEF Spec

-----------------------------------------------------------------------------
(* The scan.                                                               *)

(* The scan has passed block k of chunk c. *)
Passed(c, k) == c < chunk \/ (c = chunk /\ k < at)

ScanPlace ==
  /\ phase # "scan" => chunk > Len(chunks)
  /\ chunk \in DOMAIN chunks =>
       \A j \in 1..at - 1 : j \in DOMAIN chunks[chunk]
                            /\ chunks[chunk][j].type \notin {"foreign", "bad"}

(* An entry is a block that belongs to the recording and was passed. *)
IsBlock(entry) ==
  \E c \in DOMAIN chunks : \E k \in DOMAIN chunks[c] :
    Belongs(c, k) /\ Passed(c, k) /\ entry = EntryOf(c, k)

OnlyBlocks == \A j \in DOMAIN table : IsBlock(table[j])

AllBlocks ==
  \A c \in DOMAIN chunks : \A k \in DOMAIN chunks[c] :
    Belongs(c, k) /\ Passed(c, k) => \E j \in DOMAIN table : table[j] = EntryOf(c, k)

(* The entries are as in the files until the sort begins, and those of one *)
(* time stay so.                                                           *)
InFileOrder ==
  \A j, k \in DOMAIN table :
    j < k /\ (phase = "scan" \/ table[j].time = table[k].time)
      => FileOrder(table[j], table[k])

-----------------------------------------------------------------------------
(* The sort.                                                               *)

(* What is behind n, or was passed since the last swap of this pass, or    *)
(* was carried along by it has nothing later before it.                    *)
Settled(q) == q > n \/ (newn < q /\ q < i) \/ q = i

Sorting ==
  /\ phase = "sort" =>
       \A p, q \in DOMAIN table : p < q /\ Settled(q) => table[p].time <= table[q].time
  /\ phase = "ready" =>
       \A p, q \in DOMAIN table : p < q => table[p].time <= table[q].time

IndexInv ==
  /\ TypeOK
  /\ ScanPlace
  /\ OnlyBlocks
  /\ AllBlocks
  /\ InFileOrder
  /\ Sorting

(* The invariant of the scan holds of an empty table. *)
LEMMA InitIndexInv == Init => IndexInv
  <1> SUFFICES ASSUME Init PROVE IndexInv
    OBVIOUS
  <1>1. TypeOK
    BY InitTypeOK
  <1>2. table = <<>> /\ DOMAIN table = {} /\ phase = "scan" /\ chunk = 1 /\ at = 1
    BY DEF Init
  <1>3. ScanPlace /\ OnlyBlocks /\ InFileOrder /\ Sorting
    BY <1>2 DEF ScanPlace, OnlyBlocks, InFileOrder, Sorting
  <1>4. AllBlocks
    BY <1>1, <1>2 DEF AllBlocks, Passed, TypeOK
  <1> QED
    BY <1>1, <1>3, <1>4 DEF IndexInv

(* A passed block stays passed, and one more is when the scan goes on. *)
LEMMA PassedOne ==
  ASSUME TypeOK, at' = at + 1, chunk' = chunk, chunks' = chunks,
         NEW c \in DOMAIN chunks, NEW k \in DOMAIN chunks[c]
  PROVE  Passed(c, k)' <=> Passed(c, k) \/ (c = chunk /\ k = at)
  BY DEF TypeOK, Passed

(* The next block of a chunk goes to the end of the table. *)
LEMMA IndexBlockInv == IndexInv /\ IndexBlock => IndexInv'
  <1> SUFFICES ASSUME IndexInv, IndexBlock PROVE IndexInv'
    OBVIOUS
  <1>1. TypeOK /\ TypeOK'
    BY NextTypeOK DEF IndexInv, Next
  <1>2. /\ chunk \in DOMAIN chunks /\ at \in DOMAIN chunks[chunk]
        /\ at \in Nat /\ phase = "scan" /\ phase' = "scan"
        /\ chunks[chunk][at].type \in Indexed
        /\ chunks' = chunks /\ chunk' = chunk /\ at' = at + 1
    BY <1>1 DEF IndexBlock, Scanning, TypeOK
  <1>3. /\ EntryOf(chunk, at) \in Entry
        /\ EntryOf(chunk, at).chunk = chunk
        /\ EntryOf(chunk, at).at = at
    BY <1>1, <1>2, EntryOfType
  <1>4. /\ DOMAIN table = 1..Len(table) /\ Len(table) \in Nat
        /\ DOMAIN table' = 1..Len(table) + 1
        /\ \A j \in DOMAIN table : table'[j] = table[j]
        /\ table'[Len(table) + 1] = EntryOf(chunk, at)
    BY <1>1, <1>3 DEF TypeOK, IndexBlock
  <1>5. \A c \in DOMAIN chunks : \A k \in DOMAIN chunks[c] :
          /\ Passed(c, k)' <=> Passed(c, k) \/ (c = chunk /\ k = at)
          /\ Belongs(c, k)' <=> Belongs(c, k)
          /\ EntryOf(c, k)' = EntryOf(c, k)
    BY <1>1, <1>2, PassedOne DEF Belongs, EntryOf
  <1>6. chunks[chunk][at].type \notin {"foreign", "bad"}
    BY <1>2 DEF Indexed
  <1>7. ScanPlace'
    BY <1>1, <1>2, <1>6 DEF ScanPlace, IndexInv
  <1>8. Belongs(chunk, at)
    BY <1>2, <1>6 DEF Belongs, ScanPlace, IndexInv
  <1>9. OnlyBlocks'
    <2>1. \A j \in DOMAIN table : IsBlock(table[j])'
      BY <1>2, <1>4, <1>5 DEF OnlyBlocks, IsBlock, IndexInv
    <2>2. ASSUME NEW j \in DOMAIN table', j = Len(table) + 1 PROVE IsBlock(table[j])'
      <3>1. PICK c \in DOMAIN chunks : c = chunk
        BY <1>2
      <3>2. PICK k \in DOMAIN chunks[c] : k = at
        BY <1>2, <3>1
      <3>3. table'[j] = EntryOf(c, k)'
        BY <1>4, <1>5, <2>2, <3>1, <3>2
      <3>4. Belongs(c, k)' /\ Passed(c, k)'
        BY <1>5, <1>8, <3>1, <3>2
      <3> QED
        BY <1>2, <3>3, <3>4 DEF IsBlock
    <2>3. ASSUME NEW j \in DOMAIN table' PROVE IsBlock(table[j])'
      BY <1>4, <2>1, <2>2
    <2> QED
      BY <2>3 DEF OnlyBlocks
  <1>10. AllBlocks'
    BY <1>2, <1>4, <1>5 DEF AllBlocks, IndexInv
  <1>11. InFileOrder'
    <2> SUFFICES ASSUME NEW j \in DOMAIN table', NEW k \in DOMAIN table', j < k
                 PROVE  FileOrder(table'[j], table'[k])
      BY DEF InFileOrder, FileOrder
    <2>1. CASE k \in DOMAIN table
      BY <1>2, <1>4, <2>1 DEF InFileOrder, IndexInv
    <2>2. CASE k = Len(table) + 1
      <3>1. j \in DOMAIN table
        BY <1>4, <2>2
      <3>2. PICK c \in DOMAIN chunks : \E l \in DOMAIN chunks[c] :
              Passed(c, l) /\ table[j] = EntryOf(c, l)
        BY <3>1 DEF OnlyBlocks, IsBlock, IndexInv
      <3>3. PICK l \in DOMAIN chunks[c] : Passed(c, l) /\ table[j] = EntryOf(c, l)
        BY <3>2
      <3>4. table'[j].chunk = c /\ table'[j].at = l
        BY <1>1, <1>4, <3>1, <3>3, EntryOfType
      <3> QED
        BY <1>3, <1>4, <2>2, <3>3, <3>4 DEF Passed, FileOrder
    <2> QED
      BY <1>4, <2>1, <2>2
  <1>12. Sorting'
    BY <1>2 DEF Sorting
  <1> QED
    BY <1>1, <1>7, <1>9, <1>10, <1>11, <1>12 DEF IndexInv

(* A block that is skipped is not to be in the index. *)
LEMMA SkipNullInv == IndexInv /\ SkipNull => IndexInv'
  <1> SUFFICES ASSUME IndexInv, SkipNull PROVE IndexInv'
    OBVIOUS
  <1>1. TypeOK /\ TypeOK'
    BY NextTypeOK DEF IndexInv, Next
  <1>2. /\ chunk \in DOMAIN chunks /\ at \in DOMAIN chunks[chunk]
        /\ at \in Nat /\ phase = "scan" /\ phase' = "scan"
        /\ chunks[chunk][at].type = "NULL" /\ table' = table
        /\ chunks' = chunks /\ chunk' = chunk /\ at' = at + 1
    BY <1>1 DEF SkipNull, Scanning, TypeOK
  <1>3. \A c \in DOMAIN chunks : \A k \in DOMAIN chunks[c] :
          /\ Passed(c, k)' <=> Passed(c, k) \/ (c = chunk /\ k = at)
          /\ Belongs(c, k)' <=> Belongs(c, k)
          /\ EntryOf(c, k)' = EntryOf(c, k)
    BY <1>1, <1>2, PassedOne DEF Belongs, EntryOf
  <1>4. ScanPlace'
    BY <1>1, <1>2 DEF ScanPlace, IndexInv
  <1>5. OnlyBlocks'
    BY <1>2, <1>3 DEF OnlyBlocks, IsBlock, IndexInv
  <1>6. ~Belongs(chunk, at)
    BY <1>2 DEF Belongs, Indexed
  <1>7. AllBlocks'
    BY <1>2, <1>3, <1>6 DEF AllBlocks, IndexInv
  <1>8. InFileOrder' /\ Sorting'
    BY <1>2 DEF InFileOrder, FileOrder, Sorting, IndexInv
  <1> QED
    BY <1>1, <1>4, <1>5, <1>7, <1>8 DEF IndexInv

(* At the end of a chunk all its blocks are in the table. *)
LEMMA EndChunkInv == IndexInv /\ EndChunk => IndexInv'
  <1> SUFFICES ASSUME IndexInv, EndChunk PROVE IndexInv'
    OBVIOUS
  <1>1. TypeOK /\ TypeOK'
    BY NextTypeOK DEF IndexInv, Next
  <1>2. /\ chunk \in DOMAIN chunks /\ chunk \in Nat
        /\ at \in Nat \ {0} /\ phase = "scan" /\ phase' = "scan" /\ table' = table
        /\ chunks' = chunks /\ chunk' = chunk + 1 /\ at' = 1
        /\ at \in DOMAIN chunks[chunk] => chunks[chunk][at].type \in {"foreign", "bad"}
    BY <1>1 DEF EndChunk, Scanning, TypeOK
  <1>3. \A c \in DOMAIN chunks : \A k \in DOMAIN chunks[c] :
          /\ c \in Nat /\ k \in Nat \ {0}
          /\ Belongs(c, k)' <=> Belongs(c, k)
          /\ EntryOf(c, k)' = EntryOf(c, k)
    <2>1. chunks \in Seq(Seq(Block))
      BY <1>1 DEF TypeOK
    <2>2. \A c \in DOMAIN chunks : c \in Nat /\ chunks[c] \in Seq(Block)
      BY <2>1
    <2>3. \A c \in DOMAIN chunks : \A k \in DOMAIN chunks[c] : k \in Nat \ {0}
      BY <2>2
    <2> QED
      BY <1>2, <2>2, <2>3 DEF Belongs, EntryOf
  <1>4. \A c \in DOMAIN chunks : \A k \in DOMAIN chunks[c] :
          /\ Passed(c, k) => Passed(c, k)'
          /\ Passed(c, k)' /\ Belongs(c, k) => Passed(c, k)
    <2> SUFFICES ASSUME NEW c \in DOMAIN chunks, NEW k \in DOMAIN chunks[c]
                 PROVE  /\ Passed(c, k) => Passed(c, k)'
                        /\ Passed(c, k)' /\ Belongs(c, k) => Passed(c, k)
      OBVIOUS
    <2>1. Passed(c, k)' <=> c <= chunk
      BY <1>2, <1>3 DEF Passed
    <2>2. Passed(c, k) => c <= chunk
      BY <1>2, <1>3 DEF Passed
    <2>3. ASSUME c <= chunk, Belongs(c, k) PROVE Passed(c, k)
      <3>1. CASE c < chunk
        BY <3>1 DEF Passed
      <3>2. CASE c = chunk /\ k < at
        BY <3>2 DEF Passed
      <3>3. CASE c = chunk /\ at <= k
        <4>1. at \in 1..k /\ at \in DOMAIN chunks[chunk]
          BY <1>1, <1>2, <1>3, <3>3 DEF TypeOK
        <4> QED
          BY <1>2, <2>3, <3>3, <4>1 DEF Belongs
      <3> QED
        BY <1>2, <1>3, <2>3, <3>1, <3>2, <3>3
    <2> QED
      BY <2>1, <2>2, <2>3
  <1>5. ScanPlace'
    BY <1>2 DEF ScanPlace
  <1>6. OnlyBlocks'
    BY <1>2, <1>3, <1>4 DEF OnlyBlocks, IsBlock, IndexInv
  <1>7. AllBlocks'
    BY <1>2, <1>3, <1>4 DEF AllBlocks, IndexInv
  <1>8. InFileOrder' /\ Sorting'
    BY <1>2 DEF InFileOrder, FileOrder, Sorting, IndexInv
  <1> QED
    BY <1>1, <1>5, <1>6, <1>7, <1>8 DEF IndexInv

(* Steps that leave the scan where it is, and only move entries about. *)
LEMMA SameBlocks ==
  ASSUME IndexInv, chunks' = chunks, chunk' = chunk, at' = at,
         phase' # "scan" => chunk > Len(chunks),
         \A j \in DOMAIN table' : \E k \in DOMAIN table : table'[j] = table[k],
         \A k \in DOMAIN table : \E j \in DOMAIN table' : table'[j] = table[k]
  PROVE  ScanPlace' /\ OnlyBlocks' /\ AllBlocks'
  <1>1. ScanPlace'
    BY DEF ScanPlace, IndexInv
  <1>2. OnlyBlocks'
    <2> SUFFICES ASSUME NEW j \in DOMAIN table' PROVE IsBlock(table[j])'
      BY DEF OnlyBlocks
    <2>1. PICK k \in DOMAIN table : table'[j] = table[k]
      OBVIOUS
    <2>2. IsBlock(table[k])
      BY DEF OnlyBlocks, IndexInv
    <2> QED
      BY <2>1, <2>2 DEF IsBlock, Belongs, Passed, EntryOf
  <1>3. AllBlocks'
    <2> SUFFICES ASSUME NEW c \in DOMAIN chunks, NEW k \in DOMAIN chunks[c],
                        Belongs(c, k), Passed(c, k)
                 PROVE  \E j \in DOMAIN table' : table'[j] = EntryOf(c, k)
      BY DEF AllBlocks, Belongs, Passed, EntryOf
    <2> QED
      BY DEF AllBlocks, IndexInv
  <1> QED
    BY <1>1, <1>2, <1>3

(* A swap of neighbours leaves every block where the passes expect it. *)
LEMMA SwapInv == IndexInv /\ Swap => IndexInv'
  <1> SUFFICES ASSUME IndexInv, Swap PROVE IndexInv'
    OBVIOUS
  <1>1. TypeOK /\ TypeOK'
    BY NextTypeOK DEF IndexInv, Next
  <1>2. /\ phase = "sort" /\ phase' = "sort"
        /\ n \in 1..Len(table) /\ Len(table) \in Nat /\ i \in 1..n - 1
        /\ DOMAIN table = 1..Len(table)
        /\ n' = n /\ i' = i + 1 /\ newn' = i
        /\ table[i].time > table[i + 1].time
        /\ \A j \in DOMAIN table : table[j].time \in Nat
    BY <1>1, TimesAreNumbers DEF Swap, TypeOK
  <1>3. /\ DOMAIN table' = DOMAIN table
        /\ table'[i] = table[i + 1]
        /\ table'[i + 1] = table[i]
        /\ \A j \in DOMAIN table : j # i /\ j # i + 1 => table'[j] = table[j]
    BY <1>1, <1>2, SwapType DEF Swap
  <1>4. /\ i \in DOMAIN table /\ i + 1 \in DOMAIN table
    BY <1>2
  <1>5. ScanPlace' /\ OnlyBlocks' /\ AllBlocks'
    <2>1. \A j \in DOMAIN table' : \E k \in DOMAIN table : table'[j] = table[k]
      BY <1>3, <1>4
    <2>2. \A k \in DOMAIN table : \E j \in DOMAIN table' : table'[j] = table[k]
      BY <1>3, <1>4
    <2>3. chunks' = chunks /\ chunk' = chunk /\ at' = at /\ chunk > Len(chunks)
      BY <1>2 DEF Swap, ScanPlace, IndexInv
    <2> QED
      BY <2>1, <2>2, <2>3, SameBlocks
  <1>6. InFileOrder'
    <2> SUFFICES ASSUME NEW j \in DOMAIN table, NEW k \in DOMAIN table, j < k,
                        table'[j].time = table'[k].time
                 PROVE  FileOrder(table'[j], table'[k])
      BY <1>2, <1>3 DEF InFileOrder, FileOrder
    <2>1. \A p, q \in DOMAIN table :
            p < q /\ table[p].time = table[q].time => FileOrder(table[p], table[q])
      BY DEF InFileOrder, IndexInv
    <2>2. ~(j = i /\ k = i + 1)
      <3>1. table[i].time \in Nat /\ table[i + 1].time \in Nat
        BY <1>2, <1>4
      <3>2. table[i].time # table[i + 1].time
        BY <1>2, <3>1
      <3> QED
        BY <1>3, <3>2
    <2>3. j \in Nat /\ k \in Nat /\ i \in Nat
      BY <1>2
    <2>4. CASE j = i
      BY <1>3, <1>4, <2>1, <2>2, <2>3, <2>4
    <2>5. CASE j = i + 1
      BY <1>3, <1>4, <2>1, <2>3, <2>5
    <2>6. CASE j # i /\ j # i + 1
      BY <1>3, <1>4, <2>1, <2>3, <2>6
    <2> QED
      BY <2>4, <2>5, <2>6
  <1>7. Sorting'
    <2> SUFFICES ASSUME NEW p \in DOMAIN table, NEW q \in DOMAIN table, p < q,
                        q > n \/ q = i + 1
                 PROVE  table'[p].time <= table'[q].time
      BY <1>2, <1>3 DEF Sorting, Settled
    <2>1. \A r, s \in DOMAIN table : r < s /\ (s > n \/ s = i) => table[r].time <= table[s].time
      BY <1>2 DEF Sorting, Settled, IndexInv
    <2>2. CASE q > n
      <3>1. PICK r \in DOMAIN table : r < q /\ table'[p] = table[r]
        <4>1. q # i /\ q # i + 1 /\ i < q /\ i + 1 < q
          BY <1>2, <2>2
        <4> QED
          BY <1>3, <1>4, <4>1
      <3>2. table'[q] = table[q]
        BY <1>2, <1>3, <2>2
      <3> QED
        BY <2>1, <2>2, <3>1, <3>2
    <2>3. CASE q = i + 1
      BY <1>2, <1>3, <1>4, <2>1, <2>3
    <2> QED
      BY <2>2, <2>3
  <1> QED
    BY <1>1, <1>5, <1>6, <1>7 DEF IndexInv

(* Steps that leave the table as it is. *)
LEMMA SameTable ==
  ASSUME IndexInv, chunks' = chunks, chunk' = chunk, at' = at, table' = table,
         phase' = phase \/ chunk > Len(chunks), phase' # "scan" \/ phase = "scan"
  PROVE  ScanPlace' /\ OnlyBlocks' /\ AllBlocks' /\ InFileOrder'
  <1>1. phase' # "scan" => chunk > Len(chunks)
    BY DEF ScanPlace, IndexInv
  <1>2. ScanPlace' /\ OnlyBlocks' /\ AllBlocks'
    BY <1>1, SameBlocks
  <1>3. InFileOrder'
    BY DEF InFileOrder, FileOrder, IndexInv
  <1> QED
    BY <1>2, <1>3

(* The sort begins with all the blocks. *)
LEMMA StartSortInv == IndexInv /\ StartSort => IndexInv'
  <1> SUFFICES ASSUME IndexInv, StartSort PROVE IndexInv'
    OBVIOUS
  <1>1. TypeOK /\ TypeOK'
    BY NextTypeOK DEF IndexInv, Next
  <1>2. ScanPlace' /\ OnlyBlocks' /\ AllBlocks' /\ InFileOrder'
    BY SameTable DEF StartSort
  <1>3. DOMAIN table = 1..Len(table) /\ Len(table) \in Nat
    BY <1>1 DEF TypeOK
  <1>4. Sorting'
    BY <1>3 DEF StartSort, Sorting, Settled
  <1> QED
    BY <1>1, <1>2, <1>4 DEF IndexInv

(* A pass starts again at the front of the table. *)
LEMMA PassInv == IndexInv /\ Pass => IndexInv'
  <1> SUFFICES ASSUME IndexInv, Pass PROVE IndexInv'
    OBVIOUS
  <1>1. TypeOK /\ TypeOK'
    BY NextTypeOK DEF IndexInv, Next
  <1>2. ScanPlace' /\ OnlyBlocks' /\ AllBlocks' /\ InFileOrder'
    BY SameTable DEF Pass
  <1>3. /\ phase = "sort" /\ phase' = "sort" /\ table' = table
        /\ n \in 1..Len(table) /\ Len(table) \in Nat /\ i \in 1..n - 1 /\ newn \in 1..i
        /\ DOMAIN table = 1..Len(table)
        /\ n' = n /\ i' = i + 1 /\ newn' = newn
        /\ table[i].time <= table[i + 1].time
        /\ \A j \in DOMAIN table : table[j].time \in Nat
    BY <1>1, TimesAreNumbers DEF Pass, TypeOK
  <1>4. Sorting'
    <2> SUFFICES ASSUME NEW p \in DOMAIN table, NEW q \in DOMAIN table, p < q,
                        q > n \/ (newn < q /\ q < i + 1) \/ q = i + 1
                 PROVE  table[p].time <= table[q].time
      BY <1>3 DEF Sorting, Settled
    <2>1. \A r, s \in DOMAIN table : r < s /\ Settled(s) => table[r].time <= table[s].time
      BY <1>3 DEF Sorting, IndexInv
    <2>2. CASE q # i + 1
      BY <1>3, <2>1, <2>2 DEF Settled
    <2>3. CASE q = i + 1
      <3>1. p = i \/ table[p].time <= table[i].time
        BY <1>3, <2>1, <2>3 DEF Settled
      <3> QED
        BY <1>3, <2>3, <3>1
    <2> QED
      BY <2>2, <2>3
  <1> QED
    BY <1>1, <1>2, <1>4 DEF IndexInv

(* A pass that has reached the end of its part has put one more block in   *)
(* its place.                                                              *)
LEMMA EndPassInv == IndexInv /\ EndPass => IndexInv'
  <1> SUFFICES ASSUME IndexInv, EndPass PROVE IndexInv'
    OBVIOUS
  <1>1. TypeOK /\ TypeOK'
    BY NextTypeOK DEF IndexInv, Next
  <1>2. phase = "sort" /\ chunk > Len(chunks)
    BY DEF EndPass, ScanPlace, IndexInv
  <1>3. ScanPlace' /\ OnlyBlocks' /\ AllBlocks' /\ InFileOrder'
    BY <1>2, SameTable DEF EndPass
  <1>4. /\ n \in 1..Len(table) /\ Len(table) \in Nat /\ i = n /\ newn \in 1..n
        /\ DOMAIN table = 1..Len(table) /\ table' = table
        /\ n' = newn /\ i' = 1 /\ newn' = 1
    BY <1>1, <1>2 DEF EndPass, TypeOK
  <1>5. \A p, q \in DOMAIN table : p < q /\ q > newn => table[p].time <= table[q].time
    BY <1>2, <1>4 DEF Sorting, Settled, IndexInv
  <1>6. newn > 1 \/ newn = 1
    BY <1>4
  <1>7. Sorting'
    BY <1>4, <1>5, <1>6 DEF EndPass, Sorting, Settled
  <1> QED
    BY <1>1, <1>3, <1>7 DEF IndexInv

(* The invariant of scan and sort is preserved by every step. *)
LEMMA NextIndexInv == IndexInv /\ [Next]_vars => IndexInv'
  <1> SUFFICES ASSUME IndexInv, [Next]_vars PROVE IndexInv'
    OBVIOUS
  <1>1. CASE UNCHANGED vars
    <2>1. TypeOK'
      BY NextTypeOK DEF IndexInv
    <2>2. ScanPlace' /\ OnlyBlocks' /\ AllBlocks' /\ InFileOrder'
      BY <1>1, SameTable DEF vars
    <2>3. Sorting'
      BY <1>1 DEF vars, Sorting, Settled, IndexInv
    <2> QED
      BY <2>1, <2>2, <2>3 DEF IndexInv
  <1> QED
    BY <1>1, IndexBlockInv, SkipNullInv, EndChunkInv, StartSortInv, SwapInv,
       PassInv, EndPassInv DEF Next, Finished

(* What the invariant says of a finished index. *)
LEMMA IndexInvInOrder == IndexInv => IndexInOrder
  <1> SUFFICES ASSUME IndexInv, phase = "ready" PROVE IndexInOrder
    BY DEF IndexInOrder
  <1>1. \A j, k \in DOMAIN table : j < k => InOrder(table[j], table[k])
    <2> SUFFICES ASSUME NEW j \in DOMAIN table, NEW k \in DOMAIN table, j < k
                 PROVE  InOrder(table[j], table[k])
      OBVIOUS
    <2>1. table[j].time \in Nat /\ table[k].time \in Nat
      BY TimesAreNumbers DEF IndexInv
    <2>2. table[j].time <= table[k].time
      BY DEF IndexInv, Sorting
    <2>3. table[j].time = table[k].time => FileOrder(table[j], table[k])
      BY DEF IndexInv, InFileOrder
    <2> QED
      BY <2>1, <2>2, <2>3 DEF InOrder
  <1>2. \A c \in DOMAIN chunks : \A k \in DOMAIN chunks[c] : Passed(c, k)
    BY DEF IndexInv, TypeOK, ScanPlace, Passed
  <1> QED
    BY <1>1, <1>2 DEF IndexInOrder, IndexInv, OnlyBlocks, AllBlocks, IsBlock

(* The finished index has every block of the recording once, by time, and  *)
(* those of one time as they are in the files, for every recording: the    *)
(* early end of a pass of xref_sort (index.c) leaves nothing behind.       *)
THEOREM IndexCorrect == Spec => []IndexInOrder
  <1>1. Init => IndexInv
    BY InitIndexInv
  <1>2. IndexInv /\ [Next]_vars => IndexInv'
    BY NextIndexInv
  <1>3. IndexInv => IndexInOrder
    BY IndexInvInOrder
  <1> QED
    BY <1>1, <1>2, <1>3, PTL DEF Spec

-----------------------------------------------------------------------------
(* Reading along the finished index.                                       *)

Kind(k) == BlockOf(table[k]).type
Places == Nat \X Nat

(* The blocks of some kinds among the first k of the index. *)
Among(k, Kinds) == {table[j] : j \in {j \in 1..k : Kind(j) \in Kinds}}

(* The entries of the index are blocks. *)
LEMMA EntriesAre ==
  ASSUME IndexInv
  PROVE  /\ Len(table) \in Nat /\ DOMAIN table = 1..Len(table)
         /\ \A j \in 1..Len(table) :
              /\ table[j] \in Entry /\ Place(table[j]) \in Places
              /\ BlockOf(table[j]) \in Block
<1>1. table \in Seq(Entry) /\ OnlyBlocks
  BY DEF IndexInv, TypeOK
<1>2. ASSUME NEW j \in 1..Len(table)
      PROVE  /\ table[j] \in Entry /\ Place(table[j]) \in Places
             /\ BlockOf(table[j]) \in Block
  <2>1. table[j] \in Entry
    BY <1>1, <1>2
  <2>2. Place(table[j]) \in Places
    BY <2>1 DEF Entry, Place, Places
  <2>3. PICK c \in DOMAIN chunks : \E k \in DOMAIN chunks[c] : table[j] = EntryOf(c, k)
    BY <1>1, <1>2 DEF OnlyBlocks, IsBlock
  <2>4. PICK k \in DOMAIN chunks[c] : table[j] = EntryOf(c, k)
    BY <2>3
  <2>5. table[j].chunk = c /\ table[j].at = k
    BY <2>4 DEF EntryOf
  <2>6. chunks \in Seq(Seq(Block))
    BY DEF IndexInv, TypeOK
  <2>7. chunks[c] \in Seq(Block)
    BY <2>6
  <2>8. chunks[c][k] \in Block
    BY <2>7
  <2> QED BY <2>1, <2>2, <2>5, <2>8 DEF BlockOf
<1> QED BY <1>1, <1>2

(* Their order in time is that of the index. *)
LEMMA OrderIs ==
  ASSUME IndexInv, phase = "ready", NEW j \in 1..Len(table), NEW k \in 1..Len(table)
  PROVE  InOrder(table[j], table[k]) <=> j < k
<1>1. Len(table) \in Nat /\ DOMAIN table = 1..Len(table)
  BY EntriesAre
<1>2. j < k => InOrder(table[j], table[k])
  BY <1>1, IndexInvInOrder DEF IndexInOrder
<1>3. k < j => InOrder(table[k], table[j])
  BY <1>1, IndexInvInOrder DEF IndexInOrder
<1>4. table[j] \in Entry /\ table[k] \in Entry
  BY EntriesAre
<1>5. /\ table[j].time \in Nat /\ table[j].chunk \in Nat /\ table[j].at \in Nat
      /\ table[k].time \in Nat /\ table[k].chunk \in Nat /\ table[k].at \in Nat
  BY <1>4 DEF Entry
<1>6. ~(InOrder(table[j], table[k]) /\ InOrder(table[k], table[j]))
  <2>1. PICK r, s, x, y, z, w :
          /\ r = table[j].time /\ s = table[k].time /\ x = table[j].chunk /\ y = table[k].chunk
          /\ z = table[j].at /\ w = table[k].at
    OBVIOUS
  <2>2. InOrder(table[j], table[k]) <=> r < s \/ (r = s /\ (x < y \/ (x = y /\ z < w)))
    BY <2>1 DEF InOrder, FileOrder
  <2>3. InOrder(table[k], table[j]) <=> s < r \/ (s = r /\ (y < x \/ (y = x /\ w < z)))
    BY <2>1 DEF InOrder, FileOrder
  <2>4. r \in Nat /\ s \in Nat /\ x \in Nat /\ y \in Nat /\ z \in Nat /\ w \in Nat
    BY <1>5, <2>1
  <2> QED BY <2>2, <2>3, <2>4
<1>7. j = k => ~InOrder(table[j], table[k])
  BY <1>6
<1>8. j < k \/ j = k \/ k < j
  BY <1>1
<1> QED BY <1>2, <1>3, <1>6, <1>7, <1>8

(* Each block is one entry. *)
LEMMA EntryOnce ==
  ASSUME IndexInv, phase = "ready", NEW j \in 1..Len(table), NEW k \in 1..Len(table),
         table[j] = table[k]
  PROVE  j = k
<1>1. j < k \/ j = k \/ k < j
  BY EntriesAre
<1>2. (j < k <=> k < k) /\ (k < j <=> j < j)
  <2>1. (InOrder(table[j], table[k]) <=> j < k) /\ (InOrder(table[k], table[k]) <=> k < k)
    BY OrderIs
  <2>2. (InOrder(table[k], table[j]) <=> k < j) /\ (InOrder(table[j], table[j]) <=> j < j)
    BY OrderIs
  <2> QED BY <2>1, <2>2
<1> QED BY <1>1, <1>2

(* The blocks of some kinds are those of the index. *)
LEMMA BlocksAre ==
  ASSUME IndexInv, phase = "ready", NEW Kinds
  PROVE  BlocksOf(Kinds) = Among(Len(table), Kinds)
<1>1. /\ \A j \in DOMAIN table : \E c \in DOMAIN chunks : \E k \in DOMAIN chunks[c] :
           Belongs(c, k) /\ table[j] = EntryOf(c, k)
      /\ \A c \in DOMAIN chunks : \A k \in DOMAIN chunks[c] :
           Belongs(c, k) => \E j \in DOMAIN table : table[j] = EntryOf(c, k)
  BY IndexInvInOrder DEF IndexInOrder
<1>2. DOMAIN table = 1..Len(table)
  BY EntriesAre
<1>3. ASSUME NEW c, NEW k PROVE BlockOf(EntryOf(c, k)) = chunks[c][k]
  BY DEF BlockOf, EntryOf
<1>4. ASSUME NEW e \in BlocksOf(Kinds) PROVE e \in Among(Len(table), Kinds)
  <2>1. PICK c \in DOMAIN chunks :
          e \in {EntryOf(c, k) : k \in {k \in DOMAIN chunks[c] :
                                          Belongs(c, k) /\ chunks[c][k].type \in Kinds}}
    BY <1>4 DEF BlocksOf
  <2>2. PICK k \in DOMAIN chunks[c] :
          Belongs(c, k) /\ chunks[c][k].type \in Kinds /\ e = EntryOf(c, k)
    BY <2>1
  <2>3. PICK j \in DOMAIN table : table[j] = EntryOf(c, k)
    BY <1>1, <2>2
  <2>4. Kind(j) \in Kinds
    BY <1>3, <2>2, <2>3 DEF Kind
  <2> QED BY <1>2, <2>2, <2>3, <2>4 DEF Among
<1>5. ASSUME NEW e \in Among(Len(table), Kinds) PROVE e \in BlocksOf(Kinds)
  <2>1. PICK j \in 1..Len(table) : Kind(j) \in Kinds /\ e = table[j]
    BY <1>5 DEF Among
  <2>2. PICK c \in DOMAIN chunks : \E k \in DOMAIN chunks[c] :
          Belongs(c, k) /\ table[j] = EntryOf(c, k)
    BY <1>1, <1>2
  <2>3. PICK k \in DOMAIN chunks[c] : Belongs(c, k) /\ table[j] = EntryOf(c, k)
    BY <2>2
  <2>4. chunks[c][k].type \in Kinds
    BY <1>3, <2>1, <2>3 DEF Kind
  <2>5. e \in {EntryOf(c, l) : l \in {l \in DOMAIN chunks[c] :
                                        Belongs(c, l) /\ chunks[c][l].type \in Kinds}}
    BY <2>1, <2>3, <2>4
  <2> QED BY <2>5 DEF BlocksOf
<1> QED BY <1>4, <1>5

(* What is before a block in time is before it in the index. *)
LEMMA BeforeIs ==
  ASSUME IndexInv, phase = "ready", NEW Kinds, NEW k \in 1..Len(table)
  PROVE  Before(table[k], BlocksOf(Kinds)) = Among(k - 1, Kinds)
<1>1. BlocksOf(Kinds) = Among(Len(table), Kinds)
  BY BlocksAre
<1>2. Len(table) \in Nat
  BY EntriesAre
<1>3. \A j \in 1..Len(table) : InOrder(table[j], table[k]) <=> j < k
  BY OrderIs
<1>4. ASSUME NEW e \in Before(table[k], BlocksOf(Kinds)) PROVE e \in Among(k - 1, Kinds)
  <2>1. PICK j \in 1..Len(table) : Kind(j) \in Kinds /\ e = table[j] /\ InOrder(e, table[k])
    BY <1>1, <1>4 DEF Before, Among
  <2>2. j \in 1..k - 1
    BY <1>2, <1>3, <2>1
  <2> QED BY <2>1, <2>2 DEF Among
<1>5. ASSUME NEW e \in Among(k - 1, Kinds) PROVE e \in Before(table[k], BlocksOf(Kinds))
  <2>1. PICK j \in 1..k - 1 : Kind(j) \in Kinds /\ e = table[j]
    BY <1>5 DEF Among
  <2>2. j \in 1..Len(table) /\ j < k
    BY <1>2, <2>1
  <2> QED BY <1>1, <1>3, <2>1, <2>2 DEF Before, Among
<1> QED BY <1>4, <1>5

(* The next entry is one more, or none. *)
LEMMA AmongNext ==
  ASSUME IndexInv, NEW Kinds, NEW k \in 1..Len(table)
  PROVE  /\ Kind(k) \in Kinds => Among(k, Kinds) = Among(k - 1, Kinds) \cup {table[k]}
         /\ Kind(k) \notin Kinds => Among(k, Kinds) = Among(k - 1, Kinds)
<1>1. \A j : j \in 1..k <=> j \in 1..k - 1 \/ j = k
  BY EntriesAre
<1> QED BY <1>1 DEF Among

(* The last of them is the last in time. *)
LEMMA LastIs ==
  ASSUME IndexInv, phase = "ready", NEW Kinds, NEW k \in 1..Len(table), Kind(k) \in Kinds
  PROVE  LastOf(Among(k, Kinds)) = table[k]
<1>1. Len(table) \in Nat
  BY EntriesAre
<1>2. table[k] \in Among(k, Kinds)
  BY <1>1 DEF Among
<1>3. ASSUME NEW d \in Among(k, Kinds), d # table[k]
      PROVE  InOrder(d, table[k]) /\ ~InOrder(table[k], d)
  <2>1. PICK j \in 1..k : d = table[j]
    BY <1>3 DEF Among
  <2>2. j \in 1..Len(table) /\ j < k /\ ~(k < j)
    BY <1>1, <1>3, <2>1
  <2>3. (InOrder(table[j], table[k]) <=> j < k) /\ (InOrder(table[k], table[j]) <=> k < j)
    BY <2>2, OrderIs
  <2> QED BY <2>1, <2>2, <2>3
<1> DEFINE A == Among(k, Kinds)
           e == CHOOSE e \in A : \A d \in A \ {e} : InOrder(d, e)
<1>4. e \in A /\ \A d \in A \ {e} : InOrder(d, e)
  <2>1. table[k] \in A /\ \A d \in A \ {table[k]} : InOrder(d, table[k])
    BY <1>2, <1>3
  <2> HIDE DEF A
  <2> QED BY <2>1
<1>5. LastOf(A) = e
  BY DEF LastOf
<1> HIDE DEF e
<1>6. e # table[k] => InOrder(table[k], e)
  BY <1>2, <1>4
<1>7. e # table[k] => ~InOrder(table[k], e)
  BY <1>3, <1>4
<1> QED BY <1>5, <1>6, <1>7

-----------------------------------------------------------------------------
(* The headers of a frame.                                                 *)

(* What the loop of mlv_get_frame_headers may have found. *)
Finds == [vidf_counter : Nat, frame : Places \cup {None},
          header : [FrameHeaders -> Places \cup {None}]]

(* One turn of the loop. *)
LEMMA CollectFinds ==
  ASSUME IndexInv, NEW index, NEW k \in 1..Len(table), NEW s \in Finds
  PROVE  Collect(index, s, table[k]) \in Finds
<1>1. Place(table[k]) \in Places
  BY EntriesAre
<1>2. s.vidf_counter + 1 \in Nat
  BY DEF Finds
<1>3. CountFrame(index, s, table[k]) \in Finds
  BY <1>1, <1>2 DEF CountFrame, Finds
<1>4. ASSUME NEW h \in FrameHeaders PROVE [s EXCEPT !.header[h] = Place(table[k])] \in Finds
  BY <1>1 DEF Finds
<1> QED BY <1>3, <1>4 DEF Collect

(* The loop, entry by entry. *)
LEMMA CollectedIs ==
  ASSUME IndexInv, NEW index
  PROVE  /\ Collected(index)[0] = NothingFound
         /\ \A k \in 1..Len(table) :
              Collected(index)[k] = Collect(index, Collected(index)[k - 1], table[k])
         /\ \A k \in 0..Len(table) : Collected(index)[k] \in Finds
<1> DEFINE L == Len(table)
           g == [k \in 1..L |-> [s \in Finds |-> Collect(index, s, table[k])]]
<1>1. L \in Nat
  BY EntriesAre
<1>2. NothingFound \in Finds
  BY DEF NothingFound, Finds
<1>3. g \in [1..L -> [Finds -> Finds]]
  BY CollectFinds
<1>4. PICK f \in [0..L -> Finds] : f[0] = NothingFound /\ \A k \in 1..L : f[k] = g[k][f[k - 1]]
  <2>1. \E f \in [0..L -> Finds] : IteratesTo(L, f, NothingFound, g)
    <3> HIDE DEF g, L
    <3> QED BY <1>1, <1>2, <1>3, Stepwise, Zenon
  <2> QED BY <2>1 DEF IteratesTo
<1>5. ASSUME NEW k \in 1..L PROVE f[k] = Collect(index, f[k - 1], table[k])
  <2>1. f[k - 1] \in Finds
    BY <1>1, <1>4
  <2> QED BY <1>4, <2>1
<1> HIDE DEF g
<1>6. ASSUME NEW k \in 0..L
      PROVE  f[k] = IF k = 0 THEN NothingFound ELSE Collect(index, f[k - 1], table[k])
  <2>1. k = 0 \/ k \in 1..L
    BY <1>1
  <2> QED BY <1>4, <1>5, <2>1
<1>7. f = [k \in 0..L |-> IF k = 0 THEN NothingFound ELSE Collect(index, f[k - 1], table[k])]
  <2>1. f = [k \in 0..L |-> f[k]]
    BY <1>4
  <2> QED BY <1>6, <2>1
<1> DEFINE c == Collected(index)
<1>8. c = [k \in 0..L |-> IF k = 0 THEN NothingFound ELSE Collect(index, c[k - 1], table[k])]
  BY <1>7 DEF Collected
<1> HIDE DEF c
<1>9. c[0] = NothingFound
  BY <1>1, <1>8
<1>10. ASSUME NEW k \in 1..L PROVE c[k] = Collect(index, c[k - 1], table[k])
  <2>1. k \in 0..L /\ k # 0
    BY <1>1
  <2> QED BY <1>8, <2>1
<1> DEFINE P == {k \in Nat : k <= L => c[k] \in Finds}
<1>11. 0 \in P
  BY <1>2, <1>9
<1>12. ASSUME NEW k \in Nat, k \in P PROVE k + 1 \in P
  <2>1. SUFFICES ASSUME k + 1 <= L PROVE c[k + 1] \in Finds
    OBVIOUS
  <2>2. k + 1 \in 1..L /\ c[k] \in Finds /\ (k + 1) - 1 = k
    BY <1>1, <1>12, <2>1
  <2>3. c[k + 1] = Collect(index, c[k], table[k + 1])
    BY <1>10, <2>2
  <2> QED BY <2>2, <2>3, CollectFinds
<1>13. Nat \subseteq P
  <2> HIDE DEF P
  <2> QED BY <1>11, <1>12, SetInduction
<1>14. \A k \in 0..L : c[k] \in Finds
  BY <1>1, <1>13
<1> QED BY <1>9, <1>10, <1>14 DEF c

(* The blocks among the first k are finitely many, one more for each that  *)
(* is of these kinds.                                                      *)
LEMMA AmongCount ==
  ASSUME IndexInv, phase = "ready", NEW Kinds
  PROVE  /\ Cardinality(Among(0, Kinds)) = 0
         /\ \A k \in 0..Len(table) : /\ IsFiniteSet(Among(k, Kinds))
                                     /\ Cardinality(Among(k, Kinds)) \in Nat
         /\ \A k \in 1..Len(table) :
              Kind(k) \in Kinds =>
                Cardinality(Among(k, Kinds)) = Cardinality(Among(k - 1, Kinds)) + 1
<1> DEFINE L == Len(table)
           A(k) == Among(k, Kinds)
           P == {k \in Nat : k <= L => IsFiniteSet(A(k))}
<1>1. L \in Nat
  BY EntriesAre
<1>2. A(0) = {}
  BY DEF Among
<1>3. 0 \in P
  BY <1>2, FS_EmptySet
<1>4. ASSUME NEW k \in Nat, k \in P PROVE k + 1 \in P
  <2>1. SUFFICES ASSUME k + 1 <= L PROVE IsFiniteSet(A(k + 1))
    OBVIOUS
  <2>2. k + 1 \in 1..L /\ IsFiniteSet(A(k)) /\ (k + 1) - 1 = k
    BY <1>1, <1>4, <2>1
  <2>3. A(k + 1) = A(k) \cup {table[k + 1]} \/ A(k + 1) = A(k)
    <3>1. \/ Among(k + 1, Kinds) = Among((k + 1) - 1, Kinds) \cup {table[k + 1]}
          \/ Among(k + 1, Kinds) = Among((k + 1) - 1, Kinds)
      BY <2>2, AmongNext
    <3> QED BY <2>2, <3>1
  <2> HIDE DEF A
  <2> QED BY <2>2, <2>3, FS_AddElement
<1>5. Nat \subseteq P
  <2> HIDE DEF P
  <2> QED BY <1>3, <1>4, SetInduction
<1>6. ASSUME NEW k \in 0..L PROVE IsFiniteSet(A(k)) /\ Cardinality(A(k)) \in Nat
  <2>1. k \in Nat /\ k <= L
    BY <1>1
  <2>2. IsFiniteSet(A(k))
    BY <1>5, <2>1
  <2> HIDE DEF A
  <2> QED BY <2>2, FS_CardinalityType
<1>7. ASSUME NEW k \in 1..L, Kind(k) \in Kinds PROVE Cardinality(A(k)) = Cardinality(A(k - 1)) + 1
  <2>1. A(k) = A(k - 1) \cup {table[k]}
    BY <1>7, AmongNext
  <2>2. table[k] \notin A(k - 1)
    <3>1. ASSUME table[k] \in A(k - 1) PROVE FALSE
      <4>1. PICK j \in 1..k - 1 : table[k] = table[j]
        BY <3>1 DEF Among
      <4>2. j \in 1..Len(table) /\ j # k
        BY <1>1, <4>1
      <4> QED BY <4>1, <4>2, EntryOnce
    <3> QED BY <3>1
  <2>3. IsFiniteSet(A(k - 1))
    <3>1. k - 1 \in 0..L
      BY <1>1
    <3> QED BY <1>6, <3>1
  <2> HIDE DEF A
  <2> QED BY <2>1, <2>2, <2>3, FS_AddElement
<1>8. Cardinality(A(0)) = 0
  <2> HIDE DEF A
  <2> QED BY <1>2, FS_EmptySet
<1> QED BY <1>6, <1>7, <1>8

(* The number of frames among the first k blocks. *)
FrameCount(k) == Cardinality(Among(k, {"VIDF"}))

(* One more for a frame, the same for anything else. *)
LEMMA FrameCountNext ==
  ASSUME IndexInv, phase = "ready"
  PROVE  /\ FrameCount(0) = 0
         /\ \A k \in 0..Len(table) : FrameCount(k) \in Nat
         /\ \A k \in 1..Len(table) :
              FrameCount(k) = IF Kind(k) = "VIDF" THEN FrameCount(k - 1) + 1 ELSE FrameCount(k - 1)
<1>1. FrameCount(0) = 0 /\ \A k \in 0..Len(table) : FrameCount(k) \in Nat
  BY AmongCount DEF FrameCount
<1>2. ASSUME NEW k \in 1..Len(table), Kind(k) = "VIDF" PROVE FrameCount(k) = FrameCount(k - 1) + 1
  <2>1. Kind(k) \in {"VIDF"}
    BY <1>2
  <2> QED BY <2>1, AmongCount DEF FrameCount
<1>3. ASSUME NEW k \in 1..Len(table), Kind(k) # "VIDF" PROVE FrameCount(k) = FrameCount(k - 1)
  <2>1. Kind(k) \notin {"VIDF"}
    BY <1>3
  <2>2. Among(k, {"VIDF"}) = Among(k - 1, {"VIDF"})
    BY <2>1, AmongNext
  <2> QED BY <2>2 DEF FrameCount
<1> QED BY <1>1, <1>2, <1>3

(* What has been found after k entries, before the frame itself: its       *)
(* number, and of each kind of header the last one.                        *)
OnTheWay(s, k) ==
  /\ s.frame = None
  /\ s.vidf_counter = FrameCount(k)
  /\ \A h \in FrameHeaders : s.header[h] = Latest(Among(k, {h}))

(* The headers after one more entry. *)
LEMMA HeadersNext ==
  ASSUME IndexInv, phase = "ready", NEW k \in 1..Len(table), NEW h \in FrameHeaders
  PROVE  Latest(Among(k, {h})) =
           IF Kind(k) = h THEN Place(table[k]) ELSE Latest(Among(k - 1, {h}))
<1>1. CASE Kind(k) = h
  <2>1. Kind(k) \in {h}
    BY <1>1
  <2>2. LastOf(Among(k, {h})) = table[k]
    BY <2>1, LastIs
  <2>3. Among(k, {h}) # {}
    <3>1. Among(k, {h}) = Among(k - 1, {h}) \cup {table[k]}
      BY <2>1, AmongNext
    <3> QED BY <3>1
  <2> QED BY <1>1, <2>2, <2>3 DEF Latest
<1>2. CASE Kind(k) # h
  <2>1. Kind(k) \notin {h}
    BY <1>2
  <2>2. Among(k, {h}) = Among(k - 1, {h})
    BY <2>1, AmongNext
  <2> QED BY <1>2, <2>2
<1> QED BY <1>1, <1>2

(* The loop goes on until the frame. *)
LEMMA WayIs ==
  ASSUME IndexInv, phase = "ready", NEW index \in Nat
  PROVE  \A k \in 0..Len(table) : FrameCount(k) <= index => OnTheWay(Collected(index)[k], k)
<1> DEFINE L == Len(table)
           c == Collected(index)
           P == {k \in Nat : k <= L /\ FrameCount(k) <= index => OnTheWay(c[k], k)}
<1>1. L \in Nat
  BY EntriesAre
<1>2. /\ c[0] = NothingFound
      /\ \A k \in 1..L : c[k] = Collect(index, c[k - 1], table[k])
      /\ \A k \in 0..L : c[k] \in Finds
  BY CollectedIs
<1> HIDE DEF c
<1>3. 0 \in P
  <2>1. FrameCount(0) = 0
    BY FrameCountNext
  <2>2. ASSUME NEW h PROVE Latest(Among(0, {h})) = None
    BY DEF Latest, Among
  <2>3. OnTheWay(NothingFound, 0)
    BY <2>1, <2>2 DEF OnTheWay, NothingFound
  <2> QED BY <1>2, <2>3
<1>4. ASSUME NEW m \in Nat, m \in P PROVE m + 1 \in P
  <2>1. SUFFICES ASSUME m + 1 <= L, FrameCount(m + 1) <= index PROVE OnTheWay(c[m + 1], m + 1)
    OBVIOUS
  <2> DEFINE k == m + 1
  <2>2. k \in 1..L /\ k - 1 = m /\ m <= L /\ k \in 0..L /\ m \in 0..L
    BY <1>1, <2>1
  <2>3. /\ FrameCount(k) \in Nat /\ FrameCount(m) \in Nat
        /\ FrameCount(k) = IF Kind(k) = "VIDF" THEN FrameCount(m) + 1 ELSE FrameCount(m)
    <3>1. FrameCount(k) = IF Kind(k) = "VIDF" THEN FrameCount(k - 1) + 1 ELSE FrameCount(k - 1)
      BY <2>2, FrameCountNext
    <3>2. FrameCount(k) \in Nat /\ FrameCount(m) \in Nat
      BY <2>2, FrameCountNext
    <3> QED BY <2>2, <3>1, <3>2
  <2>4. FrameCount(m) <= index
    BY <2>1, <2>3
  <2>5. OnTheWay(c[m], m)
    BY <1>4, <2>2, <2>4
  <2>6. c[k] = Collect(index, c[m], table[k]) /\ c[m] \in Finds
    <3>1. c[k] = Collect(index, c[k - 1], table[k])
      BY <1>2, <2>2
    <3> QED BY <1>2, <2>2, <3>1
  <2>7. \A h \in FrameHeaders :
          Latest(Among(k, {h})) = IF Kind(k) = h THEN Place(table[k]) ELSE Latest(Among(m, {h}))
    <3> SUFFICES ASSUME NEW h \in FrameHeaders
                 PROVE  Latest(Among(k, {h})) =
                          IF Kind(k) = h THEN Place(table[k]) ELSE Latest(Among(m, {h}))
      OBVIOUS
    <3>1. Latest(Among(k, {h})) =
            IF Kind(k) = h THEN Place(table[k]) ELSE Latest(Among(k - 1, {h}))
      BY <2>2, HeadersNext
    <3> QED BY <2>2, <3>1
  <2>8. BlockOf(table[k]).type = Kind(k)
    BY DEF Kind
  <2> HIDE DEF k
  <2>9. CASE Kind(k) = "VIDF"
    <3>1. c[m].vidf_counter # index
      BY <2>1, <2>3, <2>5, <2>9 DEF k, OnTheWay
    <3>2. c[k] = [c[m] EXCEPT !.vidf_counter = c[m].vidf_counter + 1]
      BY <2>5, <2>6, <2>8, <2>9, <3>1 DEF Collect, CountFrame, OnTheWay
    <3>3. /\ c[k].frame = c[m].frame /\ c[k].header = c[m].header
          /\ c[k].vidf_counter = c[m].vidf_counter + 1
      BY <2>6, <3>2 DEF Finds
    <3>4. \A h \in FrameHeaders : Kind(k) # h
      BY <2>9 DEF FrameHeaders
    <3> QED BY <2>3, <2>5, <2>7, <2>9, <3>3, <3>4 DEF OnTheWay, k
  <2>10. CASE Kind(k) # "VIDF" /\ Kind(k) \in FrameHeaders
    <3>1. c[k] = [c[m] EXCEPT !.header[Kind(k)] = Place(table[k])]
      BY <2>5, <2>6, <2>8, <2>10 DEF Collect, OnTheWay
    <3>2. /\ c[k].frame = c[m].frame /\ c[k].vidf_counter = c[m].vidf_counter
          /\ c[k].header = [c[m].header EXCEPT ![Kind(k)] = Place(table[k])]
      BY <2>6, <3>1 DEF Finds
    <3>3. \A h \in FrameHeaders :
            c[k].header[h] = IF Kind(k) = h THEN Place(table[k]) ELSE c[m].header[h]
      BY <2>6, <2>10, <3>2 DEF Finds
    <3> QED BY <2>3, <2>5, <2>7, <2>10, <3>2, <3>3 DEF OnTheWay, k
  <2>11. CASE Kind(k) # "VIDF" /\ Kind(k) \notin FrameHeaders
    <3>1. c[k] = c[m]
      BY <2>5, <2>6, <2>8, <2>11 DEF Collect, OnTheWay
    <3> QED BY <2>3, <2>5, <2>7, <2>11, <3>1 DEF OnTheWay, k
  <2> QED BY <2>9, <2>10, <2>11 DEF k
<1>5. Nat \subseteq P
  <2> HIDE DEF P
  <2> QED BY <1>3, <1>4, SetInduction
<1>6. ASSUME NEW k \in 0..L, FrameCount(k) <= index PROVE OnTheWay(c[k], k)
  <2>1. k \in Nat /\ k <= L
    BY <1>1
  <2> QED BY <1>5, <1>6, <2>1
<1> QED BY <1>6 DEF c

(* The loop ends with the frame. *)
LEMMA FoundStays ==
  ASSUME IndexInv, NEW index, NEW k \in 0..Len(table), Collected(index)[k].frame # None
  PROVE  Collected(index)[Len(table)] = Collected(index)[k]
<1> DEFINE L == Len(table)
           c == Collected(index)
           P == {j \in Nat : k + j <= L => c[k + j] = c[k]}
<1>1. L \in Nat
  BY EntriesAre
<1>2. \A j \in 1..L : c[j] = Collect(index, c[j - 1], table[j])
  BY CollectedIs
<1> HIDE DEF c
<1>3. 0 \in P
  OBVIOUS
<1>4. ASSUME NEW j \in Nat, j \in P PROVE j + 1 \in P
  <2>1. SUFFICES ASSUME k + (j + 1) <= L PROVE c[k + (j + 1)] = c[k]
    OBVIOUS
  <2>2. k + (j + 1) \in 1..L /\ k + (j + 1) - 1 = k + j /\ k + j <= L
    BY <1>1, <2>1
  <2>3. c[k + (j + 1)] = Collect(index, c[k + (j + 1) - 1], table[k + (j + 1)])
    BY <1>2, <2>2
  <2>4. c[k + j] = c[k]
    BY <1>4, <2>2
  <2> QED BY <2>2, <2>3, <2>4 DEF Collect, c
<1>5. Nat \subseteq P
  <2> HIDE DEF P
  <2> QED BY <1>3, <1>4, SetInduction
<1>6. L - k \in Nat /\ k + (L - k) = L
  BY <1>1
<1>7. c[k + (L - k)] = c[k]
  BY <1>5, <1>6
<1> QED BY <1>6, <1>7 DEF c

(* A frame is found at its place in time, with the headers before it. *)
LEMMA FrameFound ==
  ASSUME IndexInv, phase = "ready", NEW m \in 1..Len(table), Kind(m) = "VIDF"
  PROVE  LET s == Collected(FrameCount(m - 1))[Len(table)]
         IN  /\ s.frame = Place(table[m])
             /\ s.header = [h \in FrameHeaders |-> Latest(Among(m - 1, {h}))]
<1> DEFINE index == FrameCount(m - 1)
           c == Collected(index)
<1>1. Len(table) \in Nat /\ m - 1 \in 0..Len(table) /\ m \in 0..Len(table)
  BY EntriesAre
<1>2. index \in Nat
  BY <1>1, FrameCountNext
<1>3. /\ \A k \in 1..Len(table) : c[k] = Collect(index, c[k - 1], table[k])
      /\ \A k \in 0..Len(table) : c[k] \in Finds
  BY CollectedIs
<1>4. OnTheWay(c[m - 1], m - 1)
  <2>1. FrameCount(m - 1) <= index
    BY <1>2
  <2> HIDE DEF index
  <2> QED BY <1>1, <1>2, <2>1, WayIs
<1>5. c[m - 1].vidf_counter = index
  BY <1>4 DEF OnTheWay
<1> HIDE DEF c, index
<1>6. c[m] = [c[m - 1] EXCEPT !.frame = Place(table[m])]
  <2>1. c[m] = Collect(index, c[m - 1], table[m])
    BY <1>3
  <2>2. BlockOf(table[m]).type = "VIDF"
    BY DEF Kind
  <2> QED BY <1>4, <1>5, <2>1, <2>2 DEF Collect, CountFrame, OnTheWay
<1>7. c[m - 1] \in Finds
  BY <1>1, <1>3
<1>8. c[m].frame = Place(table[m]) /\ c[m].header = c[m - 1].header
  BY <1>6, <1>7 DEF Finds
<1>9. Place(table[m]) # None
  <2>1. Place(table[m]) \in Places
    BY EntriesAre
  <2> QED BY <2>1, ConstantsAssumption DEF Places
<1>10. c[Len(table)] = c[m]
  <2>1. Collected(index)[m].frame # None
    BY <1>8, <1>9 DEF c
  <2> QED BY <1>1, <2>1, FoundStays DEF c
<1>11. c[m - 1].header = [h \in FrameHeaders |-> Latest(Among(m - 1, {h}))]
  <2>1. c[m - 1].header = [h \in FrameHeaders |-> c[m - 1].header[h]]
    BY <1>7 DEF Finds
  <2>2. \A h \in FrameHeaders : c[m - 1].header[h] = Latest(Among(m - 1, {h}))
    BY <1>4 DEF OnTheWay
  <2> QED BY <2>1, <2>2
<1>12. /\ c[Len(table)].frame = Place(table[m])
       /\ c[Len(table)].header = [h \in FrameHeaders |-> Latest(Among(m - 1, {h}))]
  BY <1>8, <1>10, <1>11
<1> QED BY <1>12 DEF c, index

(* Behind the last frame there is none. *)
LEMMA NoMoreFrames ==
  ASSUME IndexInv, phase = "ready"
  PROVE  mlv_get_frame_headers(FrameCount(Len(table))) = None
<1>1. Len(table) \in Nat /\ Len(table) \in 0..Len(table)
  BY EntriesAre
<1>2. FrameCount(Len(table)) \in Nat
  BY <1>1, FrameCountNext
<1>3. OnTheWay(Collected(FrameCount(Len(table)))[Len(table)], Len(table))
  <2>1. FrameCount(Len(table)) <= FrameCount(Len(table))
    BY <1>2
  <2> QED BY <1>1, <1>2, <2>1, WayIs
<1> QED BY <1>3 DEF OnTheWay, mlv_get_frame_headers

(* Frames are counted by type. *)
LEMMA CountIs ==
  ASSUME IndexInv, phase = "ready"
  PROVE  mlv_get_frame_count = FrameCount(Len(table))
<1> DEFINE S == {k \in DOMAIN table : BlockOf(table[k]).type = "VIDF"}
           f == [k \in S |-> table[k]]
           T == Among(Len(table), {"VIDF"})
<1>1. Len(table) \in Nat /\ DOMAIN table = 1..Len(table)
  BY EntriesAre
<1>2. IsFiniteSet(S)
  <2>1. IsFiniteSet(1..Len(table))
    BY <1>1, FS_Interval
  <2>2. S \subseteq 1..Len(table)
    BY <1>1
  <2> HIDE DEF S
  <2> QED BY <2>1, <2>2, FS_Subset
<1>3. T = {table[j] : j \in {j \in 1..Len(table) : Kind(j) \in {"VIDF"}}}
  BY DEF Among
<1>4. S = {j \in 1..Len(table) : Kind(j) \in {"VIDF"}}
  BY <1>1 DEF Kind
<1>5. T = {f[k] : k \in S}
  <2> HIDE DEF T, S
  <2> QED BY <1>3, <1>4
<1>6. f \in [S -> T]
  <2> HIDE DEF T, S
  <2> QED BY <1>5
<1>7. ASSUME NEW j \in S, NEW k \in S, f[j] = f[k] PROVE j = k
  <2>1. j \in 1..Len(table) /\ k \in 1..Len(table) /\ table[j] = table[k]
    BY <1>1, <1>7
  <2> QED BY <2>1, EntryOnce
<1>8. Cardinality(T) = Cardinality(S)
  <2> HIDE DEF T, S, f
  <2> QED BY <1>2, <1>5, <1>6, <1>7, FiniteImage
<1> QED BY <1>8 DEF mlv_get_frame_count, FrameCount

(* What the index gives for a frame is what was in force when it was       *)
(* taken, whichever chunks its headers are in: the n-th frame in time, and *)
(* of each kind the last header before it.                                 *)
THEOREM HeadersAlwaysInForce == Spec => []HeadersInForce
<1>1. ASSUME IndexInv PROVE HeadersInForce
  <2> SUFFICES ASSUME phase = "ready"
               PROVE  LET frames == BlocksOf({"VIDF"})
                          Headers(h, entry) == Latest(Before(entry, BlocksOf({h})))
                      IN  /\ mlv_get_frame_count = Cardinality(frames)
                          /\ mlv_get_frame_headers(Cardinality(frames)) = None
                          /\ \A entry \in frames :
                               mlv_get_frame_headers(Cardinality(Before(entry, frames))) =
                                 IF Headers("RAWI", entry) = None THEN None
                                 ELSE [frame  |-> Place(entry),
                                       header |-> [h \in FrameHeaders |-> Headers(h, entry)]]
    BY DEF HeadersInForce
  <2> DEFINE frames == BlocksOf({"VIDF"})
             Headers(h, entry) == Latest(Before(entry, BlocksOf({h})))
  <2>1. frames = Among(Len(table), {"VIDF"}) /\ Cardinality(frames) = FrameCount(Len(table))
    BY <1>1, BlocksAre DEF FrameCount
  <2>2. mlv_get_frame_count = Cardinality(frames)
    BY <1>1, <2>1, CountIs
  <2>3. mlv_get_frame_headers(Cardinality(frames)) = None
    BY <1>1, <2>1, NoMoreFrames
  <2>4. ASSUME NEW entry \in frames
        PROVE  mlv_get_frame_headers(Cardinality(Before(entry, frames))) =
                 IF Headers("RAWI", entry) = None THEN None
                 ELSE [frame  |-> Place(entry),
                       header |-> [h \in FrameHeaders |-> Headers(h, entry)]]
    <3>1. PICK m \in 1..Len(table) : Kind(m) \in {"VIDF"} /\ entry = table[m]
      BY <2>1, <2>4 DEF Among
    <3>2. Before(entry, frames) = Among(m - 1, {"VIDF"})
      BY <1>1, <3>1, BeforeIs
    <3>3. Cardinality(Before(entry, frames)) = FrameCount(m - 1)
      BY <3>2 DEF FrameCount
    <3>4. \A h : Headers(h, entry) = Latest(Among(m - 1, {h}))
      BY <1>1, <3>1, BeforeIs
    <3> DEFINE s == Collected(FrameCount(m - 1))[Len(table)]
    <3>5. /\ s.frame = Place(entry)
          /\ s.header = [h \in FrameHeaders |-> Latest(Among(m - 1, {h}))]
      BY <1>1, <3>1, FrameFound
    <3>6. Place(entry) # None
      <4>1. Place(entry) \in Places
        BY <1>1, <3>1, EntriesAre
      <4> QED BY <4>1, ConstantsAssumption DEF Places
    <3>7. mlv_get_frame_headers(FrameCount(m - 1)) =
            IF s.frame # None /\ s.header["RAWI"] # None
            THEN [frame |-> s.frame, header |-> s.header] ELSE None
      BY DEF mlv_get_frame_headers
    <3> HIDE DEF s, frames, Headers
    <3>8. s.header = [h \in FrameHeaders |-> Headers(h, entry)]
      BY <3>4, <3>5
    <3>9. s.header["RAWI"] = Headers("RAWI", entry)
      BY <3>8 DEF FrameHeaders
    <3> QED BY <3>3, <3>5, <3>6, <3>7, <3>8, <3>9
  <2> QED BY <2>2, <2>3, <2>4
<1>2. Init => IndexInv
  BY InitIndexInv
<1>3. IndexInv /\ [Next]_vars => IndexInv'
  BY NextIndexInv
<1> QED BY <1>1, <1>2, <1>3, PTL DEF Spec

-----------------------------------------------------------------------------
(* The sound.                                                              *)

Audio == {"AUDF"}
Size(k) == BlockOf(table[k]).size

(* Where the sound of the first k blocks ends in the .wav file. *)
EndAt(k) ==
  IF Among(k, Audio) = {} THEN HeaderSize ELSE SoundEnds[LastOf(Among(k, Audio))]

(* The ends of blocks are defined from one block to the next. *)
LEMMA SoundEndsIs ==
  ASSUME IndexInv, phase = "ready"
  PROVE  LET blocks == BlocksOf({"AUDF"})
         IN  SoundEnds = [e \in blocks |->
                            BlockOf(e).size + IF Before(e, blocks) = {} THEN HeaderSize
                                              ELSE SoundEnds[LastOf(Before(e, blocks))]]
<1> DEFINE L == Len(table)
           blocks == BlocksOf({"AUDF"})
           g == [k \in 1..L |-> [a \in Nat |-> IF Kind(k) = "AUDF" THEN Size(k) + a ELSE a]]
<1>1. L \in Nat /\ HeaderSize \in Nat /\ \A k \in 1..L : Size(k) \in Nat
  <2>1. \A k \in 1..L : BlockOf(table[k]) \in Block
    BY EntriesAre
  <2> QED BY <2>1, EntriesAre, ConstantsAssumption DEF Size, Block
<1>2. g \in [1..L -> [Nat -> Nat]]
  BY <1>1
<1>3. PICK a \in [0..L -> Nat] : a[0] = HeaderSize /\ \A k \in 1..L : a[k] = g[k][a[k - 1]]
  <2>1. \E a \in [0..L -> Nat] : IteratesTo(L, a, HeaderSize, g)
    <3> HIDE DEF g, L
    <3> QED BY <1>1, <1>2, Stepwise, Zenon
  <2> QED BY <2>1 DEF IteratesTo
<1>4. ASSUME NEW k \in 1..L
      PROVE  a[k] = IF Kind(k) = "AUDF" THEN Size(k) + a[k - 1] ELSE a[k - 1]
  <2>1. k - 1 \in 0..L
    BY <1>1
  <2>2. a[k - 1] \in Nat /\ a[k] = g[k][a[k - 1]]
    BY <1>3, <2>1
  <2> QED BY <2>2
<1> HIDE DEF g
<1>5. blocks = Among(L, Audio)
  BY BlocksAre DEF Audio
<1> DEFINE index(e) == CHOOSE j \in 1..L : table[j] = e
           f == [e \in blocks |-> a[index(e)]]
<1> HIDE DEF blocks
<1>6. ASSUME NEW k \in 1..L, Kind(k) = "AUDF" PROVE table[k] \in blocks /\ f[table[k]] = a[k]
  <2>1. table[k] \in blocks
    BY <1>1, <1>5, <1>6 DEF Among, Audio
  <2>2. index(table[k]) \in 1..L /\ table[index(table[k])] = table[k]
    OBVIOUS
  <2>3. index(table[k]) = k
    <3>1. PICK j : j = index(table[k])
      OBVIOUS
    <3>2. j \in 1..Len(table) /\ table[j] = table[k]
      BY <2>2, <3>1
    <3>3. j = k
      BY <3>2, EntryOnce
    <3> QED BY <3>1, <3>3
  <2> QED BY <2>1, <2>3
<1> HIDE DEF f
<1> DEFINE E(k) == IF Among(k, Audio) = {} THEN HeaderSize ELSE f[LastOf(Among(k, Audio))]
           P == {k \in Nat : k <= L => E(k) = a[k]}
<1>7. 0 \in P
  BY <1>3 DEF Among
<1>8. ASSUME NEW m \in Nat, m \in P PROVE m + 1 \in P
  <2>1. SUFFICES ASSUME m + 1 <= L PROVE E(m + 1) = a[m + 1]
    OBVIOUS
  <2>2. PICK k : k = m + 1
    OBVIOUS
  <2>3. k \in 1..L /\ k - 1 = m /\ E(m) = a[m]
    BY <1>1, <1>8, <2>1, <2>2
  <2>4. CASE Kind(k) = "AUDF"
    <3>1. Kind(k) \in Audio
      BY <2>4 DEF Audio
    <3>2. LastOf(Among(k, Audio)) = table[k]
      BY <2>3, <3>1, LastIs
    <3>3. Among(k, Audio) # {}
      <4>1. Among(k, Audio) = Among(k - 1, Audio) \cup {table[k]}
        BY <2>3, <3>1, AmongNext
      <4> QED BY <4>1
    <3>4. f[table[k]] = a[k]
      BY <1>6, <2>3, <2>4
    <3> QED BY <2>2, <3>2, <3>3, <3>4
  <2>5. CASE Kind(k) # "AUDF"
    <3>1. Kind(k) \notin Audio
      BY <2>5 DEF Audio
    <3>2. Among(k, Audio) = Among(m, Audio)
      <4>1. Among(k, Audio) = Among(k - 1, Audio)
        BY <2>3, <3>1, AmongNext
      <4> QED BY <2>3, <4>1
    <3>3. a[k] = a[m]
      BY <1>4, <2>3, <2>5
    <3> QED BY <2>2, <2>3, <3>2, <3>3
  <2> QED BY <2>4, <2>5
<1>9. Nat \subseteq P
  <2> HIDE DEF P
  <2> QED BY <1>7, <1>8, SetInduction
<1>10. ASSUME NEW e \in blocks
       PROVE  f[e] = BlockOf(e).size + IF Before(e, blocks) = {} THEN HeaderSize
                                       ELSE f[LastOf(Before(e, blocks))]
  <2>1. PICK k \in 1..L : Kind(k) = "AUDF" /\ e = table[k]
    BY <1>5 DEF Among, Audio
  <2>2. f[e] = Size(k) + a[k - 1]
    BY <1>4, <1>6, <2>1
  <2>3. Before(e, blocks) = Among(k - 1, Audio)
    BY <2>1, BeforeIs DEF blocks, Audio
  <2>4. E(k - 1) = a[k - 1]
    <3>1. k - 1 \in Nat /\ k - 1 <= L
      BY <1>1
    <3> QED BY <1>9, <3>1
  <2> QED BY <2>1, <2>2, <2>3, <2>4 DEF Size
<1>11. f = [e \in blocks |->
              BlockOf(e).size + IF Before(e, blocks) = {} THEN HeaderSize
                                ELSE f[LastOf(Before(e, blocks))]]
  <2>1. f = [e \in blocks |-> f[e]]
    BY DEF f
  <2> QED BY <1>10, <2>1
<1>12. SoundEnds = [e \in blocks |->
                      BlockOf(e).size + IF Before(e, blocks) = {} THEN HeaderSize
                                        ELSE SoundEnds[LastOf(Before(e, blocks))]]
  BY <1>11 DEF SoundEnds, blocks
<1> QED BY <1>12 DEF blocks

(* The sound of one more block. *)
LEMMA EndAtNext ==
  ASSUME IndexInv, phase = "ready"
  PROVE  /\ EndAt(0) = HeaderSize
         /\ \A k \in 1..Len(table) :
              /\ Size(k) \in Nat
              /\ EndAt(k) = IF Kind(k) = "AUDF" THEN EndAt(k - 1) + Size(k) ELSE EndAt(k - 1)
              /\ Kind(k) = "AUDF" => SoundEnds[table[k]] = EndAt(k)
         /\ \A k \in 0..Len(table) : EndAt(k) \in Nat /\ EndAt(k) >= HeaderSize
<1> DEFINE L == Len(table)
           blocks == BlocksOf({"AUDF"})
<1>1. L \in Nat /\ HeaderSize \in Nat /\ \A k \in 1..L : Size(k) \in Nat
  <2>1. \A k \in 1..L : BlockOf(table[k]) \in Block
    BY EntriesAre
  <2> QED BY <2>1, EntriesAre, ConstantsAssumption DEF Size, Block
<1>2. EndAt(0) = HeaderSize
  BY DEF EndAt, Among
<1>3. ASSUME NEW k \in 1..L
      PROVE  /\ Kind(k) = "AUDF" => /\ EndAt(k) = Size(k) + EndAt(k - 1)
                                    /\ SoundEnds[table[k]] = EndAt(k)
             /\ Kind(k) # "AUDF" => EndAt(k) = EndAt(k - 1)
  <2>1. CASE Kind(k) = "AUDF"
    <3>1. Kind(k) \in Audio
      BY <2>1 DEF Audio
    <3>2. LastOf(Among(k, Audio)) = table[k]
      BY <3>1, LastIs
    <3>3. Among(k, Audio) # {} /\ table[k] \in blocks
      <4>1. Among(k, Audio) = Among(k - 1, Audio) \cup {table[k]}
        BY <3>1, AmongNext
      <4>2. blocks = Among(L, Audio)
        BY BlocksAre DEF Audio
      <4> QED BY <1>1, <3>1, <4>1, <4>2 DEF Among
    <3>4. EndAt(k) = SoundEnds[table[k]]
      BY <3>2, <3>3 DEF EndAt
    <3>5. Before(table[k], blocks) = Among(k - 1, Audio)
      BY BeforeIs DEF Audio
    <3>6. SoundEnds[table[k]] =
            BlockOf(table[k]).size + IF Before(table[k], blocks) = {} THEN HeaderSize
                                     ELSE SoundEnds[LastOf(Before(table[k], blocks))]
      <4>1. SoundEnds = [e \in blocks |->
                           BlockOf(e).size + IF Before(e, blocks) = {} THEN HeaderSize
                                             ELSE SoundEnds[LastOf(Before(e, blocks))]]
        BY SoundEndsIs
      <4> HIDE DEF blocks
      <4> QED BY <3>3, <4>1
    <3> QED BY <2>1, <3>4, <3>5, <3>6 DEF EndAt, Size
  <2>2. CASE Kind(k) # "AUDF"
    <3>1. Kind(k) \notin Audio
      BY <2>2 DEF Audio
    <3>2. Among(k, Audio) = Among(k - 1, Audio)
      BY <3>1, AmongNext
    <3> QED BY <2>2, <3>2 DEF EndAt
  <2> QED BY <2>1, <2>2
<1> DEFINE P == {k \in Nat : k <= L => EndAt(k) \in Nat /\ EndAt(k) >= HeaderSize}
<1>4. 0 \in P
  BY <1>1, <1>2
<1>5. ASSUME NEW k \in Nat, k \in P PROVE k + 1 \in P
  <2>1. SUFFICES ASSUME k + 1 <= L PROVE EndAt(k + 1) \in Nat /\ EndAt(k + 1) >= HeaderSize
    OBVIOUS
  <2>2. k + 1 \in 1..L /\ (k + 1) - 1 = k /\ EndAt(k) \in Nat /\ EndAt(k) >= HeaderSize
    BY <1>1, <1>5, <2>1
  <2>3. /\ Size(k + 1) \in Nat
        /\ EndAt(k + 1) = Size(k + 1) + EndAt(k) \/ EndAt(k + 1) = EndAt(k)
    <3>1. \/ EndAt(k + 1) = Size(k + 1) + EndAt((k + 1) - 1)
          \/ EndAt(k + 1) = EndAt((k + 1) - 1)
      BY <1>3, <2>2
    <3> QED BY <1>1, <2>2, <3>1
  <2> QED BY <1>1, <2>2, <2>3
<1>6. Nat \subseteq P
  <2> HIDE DEF P
  <2> QED BY <1>4, <1>5, SetInduction
<1>7. \A k \in 0..L : EndAt(k) \in Nat /\ EndAt(k) >= HeaderSize
  BY <1>1, <1>6
<1>8. ASSUME NEW k \in 1..L
      PROVE  /\ Size(k) \in Nat
             /\ EndAt(k) = IF Kind(k) = "AUDF" THEN EndAt(k - 1) + Size(k) ELSE EndAt(k - 1)
             /\ Kind(k) = "AUDF" => SoundEnds[table[k]] = EndAt(k)
  <2>1. Size(k) \in Nat /\ k - 1 \in 0..L
    BY <1>1
  <2>2. EndAt(k - 1) \in Nat
    BY <1>7, <2>1
  <2>3. Size(k) + EndAt(k - 1) = EndAt(k - 1) + Size(k)
    BY <2>1, <2>2
  <2> QED BY <1>3, <2>1, <2>3
<1> QED BY <1>2, <1>7, <1>8

(* The sound of later blocks is further behind. *)
LEMMA EndAtGrows ==
  ASSUME IndexInv, phase = "ready", NEW j \in 0..Len(table), NEW k \in 0..Len(table), j <= k
  PROVE  EndAt(j) <= EndAt(k)
<1> DEFINE L == Len(table)
           P == {m \in Nat : j + m <= L => EndAt(j) <= EndAt(j + m)}
<1>1. L \in Nat /\ \A m \in 0..L : EndAt(m) \in Nat
  BY EntriesAre, EndAtNext
<1>2. 0 \in P
  BY <1>1
<1>3. ASSUME NEW m \in Nat, m \in P PROVE m + 1 \in P
  <2>1. SUFFICES ASSUME j + (m + 1) <= L PROVE EndAt(j) <= EndAt(j + (m + 1))
    OBVIOUS
  <2>2. PICK q : q = j + (m + 1)
    OBVIOUS
  <2>3. q \in 1..L /\ q - 1 = j + m /\ j + m \in 0..L /\ q \in 0..L /\ EndAt(j) <= EndAt(j + m)
    BY <1>1, <1>3, <2>1, <2>2
  <2>4. /\ Size(q) \in Nat
        /\ EndAt(q) = IF Kind(q) = "AUDF" THEN EndAt(q - 1) + Size(q) ELSE EndAt(q - 1)
    BY <2>3, EndAtNext
  <2>5. EndAt(j) \in Nat /\ EndAt(j + m) \in Nat
    BY <1>1, <2>3
  <2>6. EndAt(q - 1) = EndAt(j + m)
    BY <2>3
  <2>7. EndAt(j) <= EndAt(q)
    BY <2>3, <2>4, <2>5, <2>6
  <2> QED BY <2>2, <2>7
<1>4. Nat \subseteq P
  <2> HIDE DEF P
  <2> QED BY <1>2, <1>3, SetInduction
<1>5. k - j \in Nat /\ j + (k - j) = k
  OBVIOUS
<1> QED BY <1>4, <1>5

(* Where the loop of wav_get_data_direct may be. *)
Bytes ==
  {Garbage} \cup {HeaderByte(p) : p \in Nat} \cup {SoundByte(x, p) : x \in Places, p \in Int}

Sounding(length) ==
  [out : [0..length - 1 -> Bytes], output_position : Int, read_offset : Int,
   remaining : Int, audio_position : Int]

(* The header leaves the loop there. *)
LEMMA HeaderSounding ==
  ASSUME NEW offset \in Nat, NEW length \in Nat
  PROVE  WithHeader(offset, length) \in Sounding(length)
<1> DEFINE h == Larger(0, Smaller(HeaderSize - offset, length))
           out == [k \in 0..length - 1 |-> IF k < h THEN HeaderByte(offset + k) ELSE Garbage]
<1>1. HeaderSize \in Nat /\ h \in Int
  BY ConstantsAssumption DEF Larger, Smaller
<1>2. out \in [0..length - 1 -> Bytes]
  <2>1. ASSUME NEW k \in 0..length - 1 PROVE HeaderByte(offset + k) \in Bytes
    BY DEF Bytes
  <2>2. Garbage \in Bytes
    BY DEF Bytes
  <2> HIDE DEF h
  <2> QED BY <2>1, <2>2
<1>3. WithHeader(offset, length) =
        [out |-> out, output_position |-> h, read_offset |-> offset + h - HeaderSize,
         remaining |-> length - h, audio_position |-> 0]
  BY DEF WithHeader
<1>4. offset + h - HeaderSize \in Int /\ length - h \in Int /\ 0 \in Int
  <2> HIDE DEF h
  <2> QED BY <1>1
<1> HIDE DEF h, out
<1> QED BY <1>1, <1>2, <1>3, <1>4 DEF Sounding

(* So does each turn. *)
LEMMA DeliverSounding ==
  ASSUME IndexInv, NEW length \in Nat, NEW k \in 1..Len(table), NEW s \in Sounding(length)
  PROVE  Deliver(s, table[k]) \in Sounding(length)
<1> DEFINE z == BlockOf(table[k]).size
           f == Larger(0, s.read_offset - s.audio_position)
           t == Smaller(z - f, s.remaining)
           out == Delivered(s, table[k], f, t)
<1>1. /\ s.out \in [0..length - 1 -> Bytes] /\ s.output_position \in Int
      /\ s.read_offset \in Int /\ s.remaining \in Int /\ s.audio_position \in Int
  BY DEF Sounding
<1>2. z \in Int /\ Place(table[k]) \in Places
  BY EntriesAre DEF Block
<1>3. f \in Int
  BY <1>1 DEF Larger
<1>4. t \in Int
  <2> HIDE DEF f, z
  <2> QED BY <1>1, <1>2, <1>3 DEF Smaller
<1> HIDE DEF z, f, t
<1>5. out \in [0..length - 1 -> Bytes]
  <2>1. ASSUME NEW j \in 0..length - 1
        PROVE  /\ SoundByte(Place(table[k]), f + j - s.output_position) \in Bytes
               /\ s.out[j] \in Bytes
    <3>1. PICK x, q : x = Place(table[k]) /\ q = f + j - s.output_position
      OBVIOUS
    <3>2. q \in Int /\ x \in Places
      BY <1>1, <1>2, <1>3, <3>1
    <3>3. SoundByte(x, q) \in {SoundByte(y, p) : y \in Places, p \in Int}
      BY <3>2
    <3>4. SoundByte(x, q) \in Bytes
      BY <3>3 DEF Bytes
    <3>5. s.out[j] \in Bytes
      BY <1>1
    <3> QED BY <3>1, <3>4, <3>5
  <2>2. DOMAIN s.out = 0..length - 1
    BY <1>1
  <2>3. out = [j \in 0..length - 1 |->
                 IF /\ j \in s.output_position..s.output_position + t - 1
                    /\ f + j - s.output_position < BlockOf(table[k]).stored
                 THEN SoundByte(Place(table[k]), f + j - s.output_position) ELSE s.out[j]]
    BY <2>2 DEF Delivered
  <2> QED BY <2>1, <2>3
<1>6. [out |-> out, output_position |-> s.output_position + t, read_offset |-> s.read_offset + t,
       remaining |-> s.remaining - t, audio_position |-> s.audio_position + z] \in Sounding(length)
  <2>1. /\ s.output_position + t \in Int /\ s.read_offset + t \in Int
        /\ s.remaining - t \in Int /\ s.audio_position + z \in Int
    <3>1. PICK a, b, c, d : /\ a = s.output_position /\ b = s.read_offset
                            /\ c = s.remaining /\ d = s.audio_position
      OBVIOUS
    <3>2. a \in Int /\ b \in Int /\ c \in Int /\ d \in Int
      BY <1>1, <3>1
    <3>3. a + t \in Int /\ b + t \in Int /\ c - t \in Int /\ d + z \in Int
      BY <1>2, <1>4, <3>2
    <3> QED BY <3>1, <3>3
  <2> HIDE DEF out
  <2> QED BY <1>5, <2>1 DEF Sounding
<1>7. [s EXCEPT !.audio_position = @ + z] \in Sounding(length)
  <2>1. s.audio_position + z \in Int
    BY <1>1, <1>2
  <2> QED BY <2>1 DEF Sounding
<1>8. \/ Deliver(s, table[k]) = s
      \/ Deliver(s, table[k]) = [s EXCEPT !.audio_position = @ + z]
      \/ Deliver(s, table[k]) =
           [out |-> out, output_position |-> s.output_position + t,
            read_offset |-> s.read_offset + t,
            remaining |-> s.remaining - t, audio_position |-> s.audio_position + z]
  BY DEF Deliver, z, f, t
<1> HIDE DEF out
<1> QED BY <1>6, <1>7, <1>8

(* The loop, entry by entry. *)
LEMMA WithSoundIs ==
  ASSUME IndexInv, NEW offset \in Nat, NEW length \in Nat
  PROVE  /\ WithSound(offset, length)[0] = WithHeader(offset, length)
         /\ \A k \in 1..Len(table) :
              WithSound(offset, length)[k] = Deliver(WithSound(offset, length)[k - 1], table[k])
         /\ \A k \in 0..Len(table) : WithSound(offset, length)[k] \in Sounding(length)
<1> DEFINE L == Len(table)
           X == Sounding(length)
           x == WithHeader(offset, length)
           g == [k \in 1..L |-> [s \in X |-> Deliver(s, table[k])]]
<1>1. L \in Nat /\ x \in X
  BY EntriesAre, HeaderSounding
<1>2. \A k \in 1..L : \A s \in X : Deliver(s, table[k]) \in X
  BY DeliverSounding
<1> HIDE DEF X, x
<1>3. g \in [1..L -> [X -> X]]
  BY <1>2
<1>4. PICK f \in [0..L -> X] : f[0] = x /\ \A k \in 1..L : f[k] = g[k][f[k - 1]]
  <2>1. \E f \in [0..L -> X] : IteratesTo(L, f, x, g)
    <3> HIDE DEF g, L
    <3> QED BY <1>1, <1>3, Stepwise, Zenon
  <2> QED BY <2>1 DEF IteratesTo
<1>5. ASSUME NEW k \in 1..L PROVE f[k] = Deliver(f[k - 1], table[k])
  <2>1. f[k - 1] \in X
    BY <1>1, <1>4
  <2> QED BY <1>4, <2>1
<1> HIDE DEF g
<1>6. ASSUME NEW k \in 0..L
      PROVE  f[k] = IF k = 0 THEN x ELSE Deliver(f[k - 1], table[k])
  <2>1. k = 0 \/ k \in 1..L
    BY <1>1
  <2> QED BY <1>4, <1>5, <2>1
<1>7. f = [k \in 0..L |-> IF k = 0 THEN x ELSE Deliver(f[k - 1], table[k])]
  <2>1. f = [k \in 0..L |-> f[k]]
    BY <1>4
  <2> QED BY <1>6, <2>1
<1> DEFINE c == WithSound(offset, length)
<1>8. c = [k \in 0..L |-> IF k = 0 THEN x ELSE Deliver(c[k - 1], table[k])]
  BY <1>7 DEF WithSound, x
<1> HIDE DEF c
<1>9. c[0] = x
  BY <1>1, <1>8
<1>10. ASSUME NEW k \in 1..L PROVE c[k] = Deliver(c[k - 1], table[k])
  <2>1. k \in 0..L /\ k # 0
    BY <1>1
  <2> QED BY <1>8, <2>1
<1> DEFINE P == {k \in Nat : k <= L => c[k] \in X}
<1>11. 0 \in P
  BY <1>1, <1>9
<1>12. ASSUME NEW k \in Nat, k \in P PROVE k + 1 \in P
  <2>1. SUFFICES ASSUME k + 1 <= L PROVE c[k + 1] \in X
    OBVIOUS
  <2>2. k + 1 \in 1..L /\ c[k] \in X /\ (k + 1) - 1 = k
    BY <1>1, <1>12, <2>1
  <2>3. c[k + 1] = Deliver(c[k], table[k + 1])
    BY <1>10, <2>2
  <2> QED BY <1>2, <2>2, <2>3
<1>13. Nat \subseteq P
  <2> HIDE DEF P
  <2> QED BY <1>11, <1>12, SetInduction
<1>14. \A k \in 0..L : c[k] \in X
  BY <1>1, <1>13
<1> QED BY <1>9, <1>10, <1>14 DEF c, x, X

(* The byte at p of the file, if it is of entry m. *)
ByteOf(m, p) ==
  IF p - EndAt(m - 1) < BlockOf(table[m]).stored
  THEN SoundByte(Place(table[m]), p - EndAt(m - 1)) ELSE Garbage

SoundAt(p, k, b) ==
  \E m \in 1..k : /\ Kind(m) = "AUDF" /\ EndAt(m - 1) <= p /\ p < EndAt(m)
                  /\ b = ByteOf(m, p)

(* What has been delivered after k entries of a piece of which the first h *)
(* bytes are of the header: the sound up to where that of the k entries    *)
(* ends, or the whole piece.                                               *)
Numbers(s, k, offset, length, h) ==
  /\ s.output_position \in h..length
  /\ s.read_offset = offset + s.output_position - HeaderSize
  /\ s.remaining = length - s.output_position
  /\ s.remaining # 0 =>
       /\ s.audio_position = EndAt(k) - HeaderSize
       /\ offset + s.output_position >= EndAt(k)
       /\ s.output_position = h \/ offset + s.output_position = EndAt(k)
  /\ s.remaining = 0 => offset + length <= EndAt(k)

Out(s, k, offset, length, h) ==
  /\ \A j \in 0..h - 1 : s.out[j] = HeaderByte(offset + j)
  /\ \A j \in h..s.output_position - 1 : SoundAt(offset + j, k, s.out[j])
  /\ \A j \in s.output_position..length - 1 : s.out[j] = Garbage

(* What is delivered stays. *)
LEMMA OutStays ==
  ASSUME IndexInv, NEW k \in 1..Len(table), NEW s, NEW offset, NEW length, NEW h,
         Out(s, k - 1, offset, length, h)
  PROVE  Out(s, k, offset, length, h)
<1>1. k - 1 \in Nat /\ 1..k - 1 \subseteq 1..k
  BY EntriesAre
<1> QED BY <1>1 DEF Out, SoundAt

(* One turn of the loop, with no sound. *)
LEMMA DeliverNone ==
  ASSUME IndexInv, phase = "ready", NEW k \in 1..Len(table), NEW offset \in Nat,
         NEW length \in Nat, NEW h \in 0..length, NEW s \in Sounding(length),
         Numbers(s, k - 1, offset, length, h), Kind(k) # "AUDF" \/ s.remaining = 0
  PROVE  Numbers(s, k, offset, length, h) /\ Deliver(s, table[k]) = s
<1>1. k - 1 \in 0..Len(table) /\ k \in 0..Len(table)
  BY EntriesAre
<1>2. /\ EndAt(k - 1) \in Nat /\ EndAt(k) \in Nat /\ EndAt(k - 1) <= EndAt(k)
      /\ Kind(k) # "AUDF" => EndAt(k) = EndAt(k - 1)
  <2>1. k - 1 <= k
    BY <1>1
  <2> QED BY <1>1, <2>1, EndAtNext, EndAtGrows
<1>3. Numbers(s, k, offset, length, h)
  BY <1>2 DEF Numbers
<1>4. Deliver(s, table[k]) = s
  BY DEF Deliver, Kind
<1> QED BY <1>3, <1>4

(* One turn of the loop, with sound before the piece. *)
LEMMA DeliverBefore ==
  ASSUME IndexInv, phase = "ready", NEW k \in 1..Len(table), NEW offset \in Nat,
         NEW length \in Nat, NEW h \in 0..length, NEW s \in Sounding(length),
         Numbers(s, k - 1, offset, length, h), Kind(k) = "AUDF", s.remaining # 0,
         s.audio_position + Size(k) < s.read_offset
  PROVE  LET t == Deliver(s, table[k])
         IN  Numbers(t, k, offset, length, h) /\ t.out = s.out
                                              /\ t.output_position = s.output_position
<1> DEFINE t == Deliver(s, table[k])
<1>1. k - 1 \in 0..Len(table) /\ k \in 0..Len(table)
  BY EntriesAre
<1>2. PICK o, d, e, z : o = s.output_position /\ d = EndAt(k - 1) /\ e = EndAt(k) /\ z = Size(k)
  OBVIOUS
<1>3. /\ d \in Nat /\ e \in Nat /\ z \in Nat /\ e = d + z
      /\ HeaderSize \in Nat
  BY <1>1, <1>2, EndAtNext, ConstantsAssumption
<1>4. /\ o \in h..length /\ s.read_offset = offset + o - HeaderSize
      /\ s.remaining = length - o /\ s.audio_position = d - HeaderSize
      /\ offset + o >= d
      /\ o = h \/ offset + o = d
  BY <1>2 DEF Numbers
<1>5. t = [s EXCEPT !.audio_position = @ + z]
  BY <1>2 DEF Deliver, Kind, Size
<1>6. /\ t.out = s.out /\ t.output_position = o
      /\ t.read_offset = s.read_offset /\ t.remaining = s.remaining
      /\ t.audio_position = s.audio_position + z
  BY <1>2, <1>5 DEF Sounding
<1>7. d + z < offset + o
  <2>1. (d - HeaderSize) + z < offset + o - HeaderSize
    BY <1>2, <1>4
  <2> QED BY <1>3, <1>4, <2>1
<1>8. offset + o >= e /\ o = h
  BY <1>3, <1>4, <1>7
<1>9. t.audio_position = e - HeaderSize
  <2>1. (d - HeaderSize) + z = e - HeaderSize
    BY <1>3
  <2> QED BY <1>4, <1>6, <2>1
<1> HIDE DEF t
<1>10. Numbers(t, k, offset, length, h)
  <2>1. t.output_position \in h..length
    BY <1>4, <1>6
  <2>2. /\ t.read_offset = offset + t.output_position - HeaderSize
        /\ t.remaining = length - t.output_position
    BY <1>4, <1>6
  <2>3. /\ t.audio_position = EndAt(k) - HeaderSize
        /\ offset + t.output_position >= EndAt(k)
        /\ t.output_position = h
    BY <1>2, <1>6, <1>8, <1>9
  <2>4. t.remaining # 0
    BY <1>6
  <2> QED BY <2>1, <2>2, <2>3, <2>4 DEF Numbers
<1> QED BY <1>2, <1>6, <1>10 DEF t

(* One turn of the loop, with sound of the piece. *)
LEMMA DeliverSome ==
  ASSUME IndexInv, phase = "ready", NEW k \in 1..Len(table), NEW offset \in Nat,
         NEW length \in Nat, NEW h \in 0..length, NEW s \in Sounding(length),
         Numbers(s, k - 1, offset, length, h), Out(s, k - 1, offset, length, h),
         Kind(k) = "AUDF", s.remaining # 0, ~(s.audio_position + Size(k) < s.read_offset)
  PROVE  LET t == Deliver(s, table[k])
         IN  Numbers(t, k, offset, length, h) /\ Out(t, k, offset, length, h)
<1> DEFINE t == Deliver(s, table[k])
<1>1. k - 1 \in 0..Len(table) /\ k \in 0..Len(table)
  BY EntriesAre
<1>2. PICK o, d, e, q : o = s.output_position /\ d = EndAt(k - 1) /\ e = EndAt(k) /\ q = Size(k)
  OBVIOUS
<1>3. PICK f : f = Larger(0, s.read_offset - s.audio_position)
  OBVIOUS
<1>4. PICK z : z = Smaller(q - f, s.remaining)
  OBVIOUS
<1>5. /\ d \in Nat /\ e \in Nat /\ q \in Nat /\ e = d + q
      /\ HeaderSize \in Nat
  BY <1>1, <1>2, EndAtNext, ConstantsAssumption
<1>6. /\ t.out = Delivered(s, table[k], f, z) /\ t.output_position = o + z
      /\ t.read_offset = s.read_offset + z /\ t.remaining = s.remaining - z
      /\ t.audio_position = s.audio_position + q
  BY <1>2, <1>3, <1>4 DEF Deliver, Kind, Size
<1>7. /\ o \in h..length /\ s.read_offset = offset + o - HeaderSize
      /\ s.remaining = length - o /\ s.audio_position = d - HeaderSize
      /\ offset + o >= d
      /\ o = h \/ offset + o = d
  BY <1>2 DEF Numbers
<1>8. o \in Nat /\ s.read_offset - s.audio_position = (offset + o) - d
  BY <1>5, <1>7
<1>9. f = (offset + o) - d
  <2>1. f = Larger(0, (offset + o) - d)
    BY <1>3, <1>8
  <2> QED BY <1>5, <1>7, <1>8, <2>1 DEF Larger
<1>10. offset + o <= e
  <2>1. ~((d - HeaderSize) + q < offset + o - HeaderSize)
    BY <1>2, <1>7
  <2> QED BY <1>5, <1>8, <2>1
<1>11. /\ z \in Nat /\ z <= length - o /\ offset + (o + z) <= e
       /\ z = length - o \/ offset + (o + z) = e
  <2>1. z = Smaller(e - (offset + o), length - o)
    <3>1. q - f = e - (offset + o)
      BY <1>5, <1>8, <1>9
    <3> QED BY <1>4, <1>7, <3>1
  <2> QED BY <1>5, <1>7, <1>8, <1>10, <2>1 DEF Smaller
<1> HIDE DEF t
<1>12. Numbers(t, k, offset, length, h)
  <2>1. o + z \in h..length
    BY <1>7, <1>8, <1>11
  <2>2. /\ t.read_offset = offset + (o + z) - HeaderSize
        /\ t.remaining = length - (o + z)
        /\ t.audio_position = e - HeaderSize
    <3>1. /\ (offset + o - HeaderSize) + z = offset + (o + z) - HeaderSize
          /\ (length - o) - z = length - (o + z)
          /\ (d - HeaderSize) + q = e - HeaderSize
      BY <1>5, <1>8, <1>11
    <3> QED BY <1>6, <1>7, <3>1
  <2>3. length - (o + z) # 0 => offset + (o + z) = e
    BY <1>8, <1>11
  <2>4. length - (o + z) = 0 => offset + length <= e
    BY <1>8, <1>11
  <2>5. /\ t.output_position = o + z /\ e = EndAt(k)
        /\ offset + (o + z) = e => offset + (o + z) >= e
    BY <1>2, <1>5, <1>6
  <2> QED BY <2>1, <2>2, <2>3, <2>4, <2>5 DEF Numbers
<1>13. ASSUME NEW j \in 0..length - 1
       PROVE  t.out[j] = IF j \in o..o + z - 1 /\ f + j - o < BlockOf(table[k]).stored
                         THEN SoundByte(Place(table[k]), f + j - o) ELSE s.out[j]
  <2>1. DOMAIN s.out = 0..length - 1
    BY DEF Sounding
  <2> QED BY <1>2, <1>6, <2>1 DEF Delivered
<1>14. ASSUME NEW j \in 0..h - 1 PROVE t.out[j] = HeaderByte(offset + j)
  <2>1. j \in 0..length - 1 /\ j \notin o..o + z - 1
    BY <1>7, <1>8, <1>11
  <2>2. s.out[j] = HeaderByte(offset + j)
    BY DEF Out
  <2>3. t.out[j] = s.out[j]
    BY <1>13, <2>1
  <2> QED BY <2>2, <2>3
<1>15. ASSUME NEW j \in h..o + z - 1 PROVE SoundAt(offset + j, k, t.out[j])
  <2>1. j \in 0..length - 1
    BY <1>7, <1>8, <1>11
  <2>2. CASE j < o
    <3>1. j \in h..o - 1 /\ j \notin o..o + z - 1
      BY <1>7, <1>8, <1>11, <2>2
    <3>2. SoundAt(offset + j, k - 1, s.out[j])
      BY <1>2, <3>1 DEF Out
    <3>3. 1..k - 1 \subseteq 1..k
      BY <1>1
    <3>4. t.out[j] = s.out[j]
      BY <1>13, <2>1, <3>1
    <3> QED BY <3>2, <3>3, <3>4 DEF SoundAt
  <2>3. CASE j >= o
    <3>1. j \in o..o + z - 1 /\ j \in o..length - 1
      BY <1>7, <1>8, <1>11, <2>3
    <3>2. f + j - o = (offset + j) - d
      BY <1>5, <1>8, <1>9, <2>1
    <3>3. s.out[j] = Garbage
      BY <1>2, <3>1 DEF Out
    <3>4. t.out[j] = IF f + j - o < BlockOf(table[k]).stored
                     THEN SoundByte(Place(table[k]), f + j - o) ELSE Garbage
      BY <1>13, <2>1, <3>1, <3>3
    <3>5. t.out[j] = ByteOf(k, offset + j)
      BY <1>2, <3>2, <3>4 DEF ByteOf
    <3>6. d <= offset + j /\ offset + j < e
      BY <1>5, <1>7, <1>8, <1>11, <3>1
    <3>7. k \in 1..k
      BY <1>1
    <3> QED BY <1>2, <3>5, <3>6, <3>7 DEF SoundAt
  <2> QED BY <1>7, <1>8, <2>1, <2>2, <2>3
<1>16. ASSUME NEW j \in o + z..length - 1 PROVE t.out[j] = Garbage
  <2>1. j \in 0..length - 1 /\ j \notin o..o + z - 1 /\ j \in o..length - 1
    BY <1>7, <1>8, <1>11
  <2>2. s.out[j] = Garbage
    BY <1>2, <2>1 DEF Out
  <2> QED BY <1>13, <2>1, <2>2
<1>17. Out(t, k, offset, length, h)
  <2>1. t.output_position = o + z
    BY <1>6
  <2>2. \A j \in h..t.output_position - 1 : SoundAt(offset + j, k, t.out[j])
    <3> SUFFICES ASSUME NEW j \in h..t.output_position - 1 PROVE SoundAt(offset + j, k, t.out[j])
      OBVIOUS
    <3>1. j \in h..o + z - 1
      BY <1>8, <1>11, <2>1
    <3> QED BY <1>15, <3>1
  <2>3. \A j \in t.output_position..length - 1 : t.out[j] = Garbage
    BY <1>16, <2>1
  <2>4. \A j \in 0..h - 1 : t.out[j] = HeaderByte(offset + j)
    BY <1>14
  <2> QED BY <2>2, <2>3, <2>4 DEF Out
<1> QED BY <1>12, <1>17 DEF t

(* The loop delivers the sound of one block after the other. *)
LEMMA LoopDelivers ==
  ASSUME IndexInv, phase = "ready", NEW offset \in Nat, NEW length \in Nat,
         WithHeader(offset, length).remaining # 0
  PROVE  LET h == WithHeader(offset, length).output_position
         IN  /\ h \in 0..length /\ h = Larger(0, HeaderSize - offset)
             /\ \A k \in 0..Len(table) :
                  /\ Numbers(WithSound(offset, length)[k], k, offset, length, h)
                  /\ Out(WithSound(offset, length)[k], k, offset, length, h)
<1> DEFINE L == Len(table)
           c == WithSound(offset, length)
<1>1. PICK s : s = WithHeader(offset, length)
  OBVIOUS
<1>2. PICK h : h = s.output_position
  OBVIOUS
<1>3. /\ h = Larger(0, Smaller(HeaderSize - offset, length))
      /\ s.read_offset = offset + h - HeaderSize
      /\ s.remaining = length - h /\ s.audio_position = 0
      /\ s.out = [k \in 0..length - 1 |-> IF k < h THEN HeaderByte(offset + k) ELSE Garbage]
  BY <1>1, <1>2 DEF WithHeader
<1>4. HeaderSize \in Nat /\ L \in Nat
  BY ConstantsAssumption, EntriesAre
<1>5. h \in 0..length /\ h = Larger(0, HeaderSize - offset) /\ length - h # 0
  BY <1>1, <1>3, <1>4 DEF Larger, Smaller
<1>6. /\ offset + h >= HeaderSize
  BY <1>4, <1>5 DEF Larger
<1>7. EndAt(0) = HeaderSize
  BY EndAtNext
<1>8. Numbers(s, 0, offset, length, h)
  <2>1. h \in h..length /\ 0 = HeaderSize - HeaderSize
    BY <1>4, <1>5
  <2> QED BY <1>2, <1>3, <1>5, <1>6, <1>7, <2>1 DEF Numbers
<1>9. Out(s, 0, offset, length, h)
  <2>1. \A j \in 0..h - 1 : j \in 0..length - 1 /\ j < h
    BY <1>5
  <2>2. \A j \in h..length - 1 : j \in 0..length - 1 /\ ~(j < h)
    BY <1>5
  <2>3. \A j \in h..h - 1 : FALSE
    BY <1>5
  <2> QED BY <1>2, <1>3, <2>1, <2>2, <2>3 DEF Out
<1>10. /\ c[0] = s
       /\ \A k \in 1..L : c[k] = Deliver(c[k - 1], table[k])
       /\ \A k \in 0..L : c[k] \in Sounding(length)
  BY <1>1, WithSoundIs
<1> HIDE DEF c
<1> DEFINE Good(k) == Numbers(c[k], k, offset, length, h) /\ Out(c[k], k, offset, length, h)
           P == {k \in Nat : k <= L => Good(k)}
<1>11. 0 \in P
  BY <1>8, <1>9, <1>10
<1>12. ASSUME NEW m \in Nat, m \in P PROVE m + 1 \in P
  <2>1. SUFFICES ASSUME m + 1 <= L PROVE Good(m + 1)
    OBVIOUS
  <2>2. PICK k : k = m + 1
    OBVIOUS
  <2>3. k \in 1..L /\ k - 1 = m /\ m \in 0..L /\ Good(k - 1)
    BY <1>4, <1>12, <2>1, <2>2
  <2>4. PICK t : t = c[k - 1]
    OBVIOUS
  <2>5. /\ k \in 1..Len(table) /\ h \in 0..length /\ t \in Sounding(length)
        /\ Numbers(t, k - 1, offset, length, h) /\ Out(t, k - 1, offset, length, h)
        /\ c[k] = Deliver(t, table[k])
    BY <1>5, <1>10, <2>3, <2>4
  <2> HIDE DEF L
  <2>6. CASE Kind(k) # "AUDF" \/ t.remaining = 0
    <3>1. Numbers(t, k, offset, length, h) /\ Deliver(t, table[k]) = t
      BY <2>5, <2>6, DeliverNone
    <3>2. Out(t, k, offset, length, h)
      BY <2>5, OutStays
    <3> QED BY <2>2, <2>5, <3>1, <3>2
  <2>7. CASE Kind(k) = "AUDF" /\ t.remaining # 0 /\ t.audio_position + Size(k) < t.read_offset
    <3>1. PICK u : u = Deliver(t, table[k])
      OBVIOUS
    <3>2. /\ Numbers(Deliver(t, table[k]), k, offset, length, h)
          /\ Deliver(t, table[k]).out = t.out
          /\ Deliver(t, table[k]).output_position = t.output_position
      BY <2>5, <2>7, DeliverBefore
    <3>3. Out(t, k, offset, length, h)
      BY <2>5, OutStays
    <3>4. Out(u, k, offset, length, h)
      BY <3>1, <3>2, <3>3 DEF Out
    <3> QED BY <2>2, <2>5, <3>1, <3>2, <3>4
  <2>8. CASE Kind(k) = "AUDF" /\ t.remaining # 0 /\ ~(t.audio_position + Size(k) < t.read_offset)
    <3>1. /\ Numbers(Deliver(t, table[k]), k, offset, length, h)
          /\ Out(Deliver(t, table[k]), k, offset, length, h)
      BY <2>5, <2>8, DeliverSome
    <3> QED BY <2>2, <2>5, <3>1
  <2> QED BY <2>6, <2>7, <2>8
<1>13. Nat \subseteq P
  <2> HIDE DEF P
  <2> QED BY <1>11, <1>12, SetInduction
<1>14. \A k \in 0..L : Good(k)
  BY <1>4, <1>13
<1>15. h = WithHeader(offset, length).output_position
  BY <1>1, <1>2
<1> QED BY <1>5, <1>14, <1>15 DEF c

(* The size of the file is a number. *)
LEMMA WavSizeIs ==
  ASSUME IndexInv, phase = "ready"
  PROVE  wav_get_size \in Nat
<1>1. /\ HeaderSize \in Nat /\ BytesPerSecond \in Nat /\ FpsNom \in Nat /\ FpsDenom \in Nat
      /\ mlv_get_frame_count \in Nat
  <2>1. Len(table) \in Nat
    BY EntriesAre
  <2>2. Len(table) \in 0..Len(table)
    BY <2>1
  <2> QED BY <2>2, ConstantsAssumption, CountIs, FrameCountNext
<1>2. BytesPerSecond * FpsDenom \in Nat
  BY <1>1
<1>3. (BytesPerSecond * FpsDenom) * mlv_get_frame_count \in Nat
  BY <1>1, <1>2
<1>4. PICK b : b = BytesPerSecond * FpsDenom * mlv_get_frame_count
  OBVIOUS
<1>5. b \in Nat
  BY <1>3, <1>4
<1>6. FpsNom > 0 => b \div FpsNom \in Nat
  BY <1>1, <1>5
<1>7. FpsNom > 0 => HeaderSize + b \div FpsNom \in Nat
  BY <1>1, <1>6
<1> QED BY <1>4, <1>7 DEF wav_get_size

(* The byte of the file at p. *)
ByteAt(p) ==
  LET blocks == BlocksOf({"AUDF"})
  IN  IF p < HeaderSize THEN HeaderByte(p)
      ELSE IF p >= EndAt(Len(table)) THEN Zero
      ELSE LET entry == CHOOSE e \in blocks :
                          SoundEnds[e] - BlockOf(e).size <= p /\ p < SoundEnds[e]
               k == p - (SoundEnds[entry] - BlockOf(entry).size)
           IN  IF k < BlockOf(entry).stored THEN SoundByte(Place(entry), k) ELSE Garbage

(* It is of one block only. *)
LEMMA ByteAtIs ==
  ASSUME IndexInv, phase = "ready", NEW p \in Nat, NEW b, SoundAt(p, Len(table), b)
  PROVE  ByteAt(p) = b /\ p < EndAt(Len(table))
<1> DEFINE L == Len(table)
           blocks == BlocksOf({"AUDF"})
           In(e) == SoundEnds[e] - BlockOf(e).size <= p /\ p < SoundEnds[e]
<1>1. L \in Nat /\ L \in 0..L /\ \A q \in 1..L : q - 1 \in 0..L /\ q \in 0..L
  BY EntriesAre
<1>2. PICK m \in 1..L : /\ Kind(m) = "AUDF" /\ EndAt(m - 1) <= p /\ p < EndAt(m)
                        /\ b = ByteOf(m, p)
  BY DEF SoundAt
<1>3. ASSUME NEW q \in 1..L, Kind(q) = "AUDF"
      PROVE  /\ SoundEnds[table[q]] = EndAt(q) /\ EndAt(q) \in Nat
             /\ SoundEnds[table[q]] - BlockOf(table[q]).size = EndAt(q - 1)
             /\ EndAt(q - 1) \in Nat /\ EndAt(q - 1) >= HeaderSize
  <2>1. /\ SoundEnds[table[q]] = EndAt(q) /\ EndAt(q) = EndAt(q - 1) + Size(q) /\ Size(q) \in Nat
    BY <1>3, EndAtNext
  <2>2. EndAt(q) \in Nat /\ EndAt(q - 1) \in Nat /\ EndAt(q - 1) >= HeaderSize
    BY <1>1, EndAtNext
  <2>3. PICK d, e, z : d = EndAt(q - 1) /\ e = EndAt(q) /\ z = Size(q)
    OBVIOUS
  <2>4. e - z = d
    BY <2>1, <2>2, <2>3
  <2> QED BY <2>1, <2>2, <2>3, <2>4 DEF Size
<1>4. blocks = Among(L, Audio)
  BY BlocksAre DEF Audio
<1>5. table[m] \in blocks /\ In(table[m])
  <2>1. m \in 1..L /\ Kind(m) \in Audio
    BY <1>2 DEF Audio
  <2>2. table[m] \in Among(L, Audio)
    BY <2>1 DEF Among
  <2> QED BY <1>2, <1>3, <1>4, <2>2
<1>6. ASSUME NEW e \in blocks, In(e) PROVE e = table[m]
  <2>1. PICK q \in 1..L : Kind(q) = "AUDF" /\ e = table[q]
    BY <1>4 DEF Among, Audio
  <2>2. EndAt(q - 1) <= p /\ p < EndAt(q)
    BY <1>3, <1>6, <2>1
  <2>3. ASSUME q < m PROVE FALSE
    <3>1. q \in 0..L /\ m - 1 \in 0..L /\ q <= m - 1
      BY <1>1, <2>3
    <3>2. EndAt(q) <= EndAt(m - 1) /\ EndAt(q) \in Nat /\ EndAt(m - 1) \in Nat
      BY <3>1, EndAtGrows, EndAtNext
    <3> QED BY <1>2, <2>2, <3>2
  <2>4. ASSUME m < q PROVE FALSE
    <3>1. m \in 0..L /\ q - 1 \in 0..L /\ m <= q - 1
      BY <1>1, <2>4
    <3>2. EndAt(m) <= EndAt(q - 1) /\ EndAt(m) \in Nat /\ EndAt(q - 1) \in Nat
      BY <3>1, EndAtGrows, EndAtNext
    <3> QED BY <1>2, <2>2, <3>2
  <2>5. q = m
    BY <1>1, <2>3, <2>4
  <2> QED BY <2>1, <2>5
<1>7. EndAt(m) <= EndAt(L) /\ EndAt(m) \in Nat /\ EndAt(L) \in Nat
  <2>1. m \in 0..L /\ L \in 0..L /\ m <= L
    BY <1>1
  <2> QED BY <2>1, EndAtGrows, EndAtNext
<1>8. p < EndAt(L)
  BY <1>2, <1>7
<1>9. HeaderSize \in Nat /\ p >= HeaderSize
  BY <1>2, <1>3, ConstantsAssumption
<1> DEFINE entry == CHOOSE e \in blocks : In(e)
<1>10. entry = table[m]
  <2> HIDE DEF blocks, In
  <2> QED BY <1>5, <1>6
<1>11. p - (SoundEnds[entry] - BlockOf(entry).size) = p - EndAt(m - 1)
  BY <1>2, <1>3, <1>10
<1> HIDE DEF entry
<1>12. ByteAt(p) = IF p < HeaderSize THEN HeaderByte(p)
                   ELSE IF p >= EndAt(L) THEN Zero
                   ELSE IF p - (SoundEnds[entry] - BlockOf(entry).size) < BlockOf(entry).stored
                   THEN SoundByte(Place(entry), p - (SoundEnds[entry] - BlockOf(entry).size))
                   ELSE Garbage
  BY DEF ByteAt, entry
<1>13. ~(p < HeaderSize) /\ ~(p >= EndAt(L))
  BY <1>7, <1>8, <1>9
<1>14. ByteAt(p) = ByteOf(m, p)
  BY <1>10, <1>11, <1>12, <1>13 DEF ByteOf
<1> QED BY <1>2, <1>8, <1>14

(* Every piece is a piece of that file. *)
LEMMA PieceIs ==
  ASSUME IndexInv, phase = "ready", NEW offset \in Nat, NEW length \in Nat
  PROVE  LET piece == wav_get_data_direct(offset, length)
             end == EndAt(Len(table))
         IN  /\ DOMAIN piece = 0..length - 1
             /\ \A k \in 0..length - 1 :
                  \/ piece[k] = ByteAt(offset + k)
                  \/ offset < end /\ end <= offset + k /\ piece[k] = Garbage
<1> DEFINE piece == wav_get_data_direct(offset, length)
           L == Len(table)
<1>1. PICK s, h, l, e : /\ s = WithHeader(offset, length) /\ h = s.output_position
                        /\ l = WithSound(offset, length)[L] /\ e = EndAt(L)
  OBVIOUS
<1>2. /\ h = Larger(0, Smaller(HeaderSize - offset, length)) /\ s.remaining = length - h
      /\ s.out = [k \in 0..length - 1 |-> IF k < h THEN HeaderByte(offset + k) ELSE Garbage]
  BY <1>1 DEF WithHeader
<1>3. HeaderSize \in Nat /\ e \in Nat /\ e >= HeaderSize /\ L \in 0..L
  BY <1>1, ConstantsAssumption, EntriesAre, EndAtNext
<1>4. piece = IF s.remaining = 0 THEN s.out
              ELSE [k \in 0..length - 1 |->
                      IF k \in l.output_position..l.remaining - 1 THEN Zero ELSE l.out[k]]
  BY <1>1 DEF wav_get_data_direct
<1>5. DOMAIN piece = 0..length - 1
  <2> HIDE DEF piece
  <2> QED BY <1>2, <1>4
<1>6. CASE s.remaining = 0
  <2>1. h = length
    BY <1>2, <1>3, <1>6 DEF Larger, Smaller
  <2>2. ASSUME NEW k \in 0..length - 1 PROVE piece[k] = ByteAt(offset + k)
    <3>1. k < h /\ offset + k < HeaderSize
      BY <1>2, <1>3, <2>1 DEF Larger, Smaller
    <3>2. piece[k] = HeaderByte(offset + k)
      <4> HIDE DEF piece
      <4> QED BY <1>2, <1>4, <1>6, <3>1
    <3>3. ByteAt(offset + k) = HeaderByte(offset + k)
      BY <3>1 DEF ByteAt
    <3> QED BY <3>2, <3>3
  <2> HIDE DEF piece
  <2>3. \A k \in 0..length - 1 : piece[k] = ByteAt(offset + k)
    BY <2>2
  <2> QED BY <1>5, <2>3 DEF piece
<1>7. CASE s.remaining # 0
  <2>1. /\ h \in 0..length /\ h = Larger(0, HeaderSize - offset)
        /\ Numbers(l, L, offset, length, h) /\ Out(l, L, offset, length, h)
    BY <1>1, <1>3, <1>7, LoopDelivers
  <2>2. PICK o : o = l.output_position
    OBVIOUS
  <2>3. /\ o \in h..length /\ l.remaining = length - o
        /\ length - o # 0 => /\ offset + o >= e
                             /\ o = h \/ offset + o = e
    BY <1>1, <2>1, <2>2 DEF Numbers
  <2>4. h \in Nat /\ o \in Nat /\ offset + h >= HeaderSize /\ (h = 0 \/ offset + h = HeaderSize)
    BY <1>3, <2>1, <2>3 DEF Larger
  <2>5. ASSUME NEW k \in 0..length - 1
        PROVE  piece[k] = IF k \in o..length - o - 1 THEN Zero ELSE l.out[k]
    <3> HIDE DEF piece
    <3> QED BY <1>4, <1>7, <2>2, <2>3
  <2>6. ASSUME NEW k \in 0..length - 1
        PROVE  \/ piece[k] = ByteAt(offset + k)
               \/ offset < e /\ e <= offset + k /\ piece[k] = Garbage
    <3>1. CASE k < h
      <4>1. k \in 0..h - 1 /\ offset + k < HeaderSize /\ k \notin o..length - o - 1
        BY <1>3, <2>3, <2>4, <3>1
      <4>2. l.out[k] = HeaderByte(offset + k)
        BY <2>1, <4>1 DEF Out
      <4>3. ByteAt(offset + k) = HeaderByte(offset + k)
        BY <4>1 DEF ByteAt
      <4>4. piece[k] = l.out[k]
        <5> HIDE DEF piece
        <5> QED BY <2>5, <4>1
      <4> QED BY <4>2, <4>3, <4>4
    <3>2. CASE h <= k /\ k < o
      <4>1. k \in h..o - 1 /\ k \notin o..length - o - 1 /\ offset + k \in Nat
        BY <2>4, <3>2
      <4>2. SoundAt(offset + k, Len(table), l.out[k])
        BY <2>1, <2>2, <4>1 DEF Out
      <4>3. ByteAt(offset + k) = l.out[k]
        BY <4>1, <4>2, ByteAtIs
      <4>4. piece[k] = l.out[k]
        <5> HIDE DEF piece
        <5> QED BY <2>5, <4>1
      <4> QED BY <4>3, <4>4
    <3>3. CASE o <= k
      <4>1. /\ k \in o..length - 1 /\ length - o # 0
            /\ e <= offset + k /\ ~(offset + k < HeaderSize)
        BY <1>3, <2>3, <2>4, <3>3
      <4>2. l.out[k] = Garbage
        BY <2>1, <2>2, <4>1 DEF Out
      <4>3. ByteAt(offset + k) = Zero
        <5>1. offset + k >= EndAt(Len(table))
          BY <1>1, <1>3, <4>1
        <5> QED BY <4>1, <5>1 DEF ByteAt
      <4>4. CASE k \in o..length - o - 1
        <5> HIDE DEF piece
        <5> QED BY <2>5, <4>3, <4>4
      <4>5. CASE k \notin o..length - o - 1
        <5>1. o > 0
          BY <2>4, <4>1, <4>5
        <5>2. offset < e
          BY <1>3, <2>3, <2>4, <4>1, <5>1
        <5>3. piece[k] = Garbage
          <6> HIDE DEF piece
          <6> QED BY <2>5, <4>2, <4>5
        <5> QED BY <4>1, <5>2, <5>3
      <4> QED BY <4>4, <4>5
    <3> QED BY <2>4, <3>1, <3>2, <3>3
  <2> HIDE DEF piece
  <2>7. \A k \in 0..length - 1 :
          \/ piece[k] = ByteAt(offset + k)
          \/ offset < EndAt(Len(table)) /\ EndAt(Len(table)) <= offset + k /\ piece[k] = Garbage
    BY <1>1, <2>6
  <2> QED BY <1>5, <2>7 DEF piece
<1> QED BY <1>6, <1>7

(* The .wav file is the header and the sound of all blocks in time, with   *)
(* any pieces it is read in, for a recording of any number of blocks of    *)
(* any size, whole or broken off.                                          *)
THEOREM SoundIsRecording == Spec => []WavIsRecording
<1>1. ASSUME IndexInv PROVE WavIsRecording
  <2> DEFINE blocks == BlocksOf({"AUDF"})
             ends == SoundEnds
             end == IF blocks = {} THEN HeaderSize ELSE ends[LastOf(blocks)]
             Byte(p) ==
               IF p < HeaderSize THEN HeaderByte(p)
               ELSE IF p >= end THEN Zero
               ELSE LET entry == CHOOSE e \in blocks :
                                   ends[e] - BlockOf(e).size <= p /\ p < ends[e]
                        k == p - (ends[entry] - BlockOf(entry).size)
                    IN  IF k < BlockOf(entry).stored THEN SoundByte(Place(entry), k) ELSE Garbage
             file == [p \in 0..wav_get_size - 1 |-> Byte(p)]
             Same(offset, size) ==
               LET piece == wav_get_data(offset, size)
               IN  /\ DOMAIN piece = 0..Smaller(size, wav_get_size - offset) - 1
                   /\ \A k \in DOMAIN piece :
                        \/ piece[k] = file[offset + k]
                        \/ offset < end /\ end <= offset + k /\ piece[k] = Garbage
  <2>1. SUFFICES ASSUME phase = "ready"
                 PROVE  \A offset, size \in 0..wav_get_size : Same(offset, size)
    BY DEF WavIsRecording
  <2>2. end = EndAt(Len(table))
    <3>1. blocks = Among(Len(table), Audio)
      BY <1>1, <2>1, BlocksAre DEF Audio
    <3> HIDE DEF blocks
    <3> QED BY <3>1 DEF EndAt
  <2>3. \A p : Byte(p) = ByteAt(p)
    <3> HIDE DEF end
    <3> QED BY <2>2 DEF ByteAt
  <2> HIDE DEF Byte, end
  <2>4. ASSUME NEW offset \in 0..wav_get_size, NEW size \in 0..wav_get_size
        PROVE  Same(offset, size)
    <3>1. PICK w : w = wav_get_size
      OBVIOUS
    <3>2. w \in Nat /\ offset \in 0..w /\ size \in 0..w
      BY <1>1, <2>1, <3>1, WavSizeIs
    <3>3. PICK length : length = Smaller(size, w - offset)
      OBVIOUS
    <3>4. length \in Nat /\ length <= w - offset
      BY <3>2, <3>3 DEF Smaller
    <3>5. Smaller(offset, w) = offset
      BY <3>2 DEF Smaller
    <3> DEFINE piece == wav_get_data(offset, size)
    <3>6. piece = wav_get_data_direct(offset, length)
      BY <3>1, <3>3, <3>5 DEF wav_get_data
    <3>7. offset \in Nat /\ length \in Nat
      BY <3>2, <3>4
    <3>8. /\ DOMAIN piece = 0..length - 1
          /\ \A k \in 0..length - 1 :
               \/ piece[k] = ByteAt(offset + k)
               \/ /\ offset < EndAt(Len(table)) /\ EndAt(Len(table)) <= offset + k
                  /\ piece[k] = Garbage
      <4> HIDE DEF piece
      <4> QED BY <1>1, <2>1, <3>6, <3>7, PieceIs
    <3> HIDE DEF piece
    <3>9. ASSUME NEW k \in 0..length - 1 PROVE file[offset + k] = ByteAt(offset + k)
      <4>1. offset + k \in 0..wav_get_size - 1
        BY <3>1, <3>2, <3>4
      <4> QED BY <2>3, <4>1
    <3> HIDE DEF file
    <3>10. /\ DOMAIN piece = 0..Smaller(size, wav_get_size - offset) - 1
           /\ \A k \in DOMAIN piece :
                \/ piece[k] = file[offset + k]
                \/ offset < end /\ end <= offset + k /\ piece[k] = Garbage
      BY <2>2, <3>1, <3>3, <3>8, <3>9
    <3> QED BY <3>10 DEF piece
  <2> QED BY <2>4
<1>2. Init => IndexInv
  BY InitIndexInv
<1>3. IndexInv /\ [Next]_vars => IndexInv'
  BY NextIndexInv
<1> QED BY <1>1, <1>2, <1>3, PTL DEF Spec

-----------------------------------------------------------------------------
(* The preview.                                                            *)

(* The bytes written of a frame after k pixels. *)
Code == [position : Nat, sub_block_position : Nat]

NextCode(s) ==
  LET next == s.sub_block_position + 1
  IN  IF next = SubBlockSize - 1
      THEN [position |-> s.position + next + 2, sub_block_position |-> 0]
      ELSE [s EXCEPT !.sub_block_position = next]

(* Pixel by pixel. *)
LEMMA EncodedIs ==
  /\ Encoded[0] = [position |-> 0, sub_block_position |-> 0]
  /\ \A k \in Nat : Encoded[k + 1] = NextCode(Encoded[k])
  /\ \A k \in Nat : Encoded[k] \in Code
<1> DEFINE x == [position |-> 0, sub_block_position |-> 0]
           g == [s \in Code |-> NextCode(s)]
<1>1. x \in Code
  BY DEF Code
<1>a. ASSUME NEW s \in Code PROVE NextCode(s) \in Code
  <2>1. s.sub_block_position + 1 \in Nat /\ s.position \in Nat
    BY DEF Code
  <2>2. s.position + (s.sub_block_position + 1) + 2 \in Nat
    BY <2>1
  <2> QED BY <2>1, <2>2 DEF NextCode, Code
<1>2. g \in [Code -> Code]
  BY <1>a
<1>3. PICK f \in [Nat -> Code] : f[0] = x /\ \A k \in Nat : f[k + 1] = g[f[k]]
  <2>1. \E f \in [Nat -> Code] : Iterates(f, x, g)
    <3> HIDE DEF x, g
    <3> QED BY <1>1, <1>2, Iteration, Zenon
  <2> QED BY <2>1 DEF Iterates
<1>4. ASSUME NEW k \in Nat PROVE f[k + 1] = NextCode(f[k])
  BY <1>3
<1> HIDE DEF g
<1>5. ASSUME NEW k \in Nat PROVE f[k] = IF k = 0 THEN x ELSE NextCode(f[k - 1])
  <2>1. CASE k = 0
    BY <1>3, <2>1
  <2>2. CASE k # 0
    <3>1. PICK j \in Nat : k = j + 1
      BY <2>2
    <3>2. k - 1 = j
      BY <3>1
    <3> QED BY <1>4, <2>2, <3>1, <3>2
  <2> QED BY <2>1, <2>2
<1>6. f = [k \in Nat |-> IF k = 0 THEN x ELSE NextCode(f[k - 1])]
  <2>1. f = [k \in Nat |-> f[k]]
    BY <1>3
  <2> QED BY <1>5, <2>1
<1>7. Encoded = [k \in Nat |-> IF k = 0 THEN x ELSE NextCode(Encoded[k - 1])]
  BY <1>6 DEF Encoded, NextCode
<1>8. Encoded[0] = x
  BY <1>7
<1>9. ASSUME NEW k \in Nat PROVE Encoded[k + 1] = NextCode(Encoded[k])
  <2>1. k + 1 \in Nat /\ k + 1 # 0 /\ (k + 1) - 1 = k
    OBVIOUS
  <2> HIDE DEF x
  <2>2. Encoded[k + 1] = NextCode(Encoded[(k + 1) - 1])
    BY <1>7, <2>1
  <2> QED BY <2>1, <2>2
<1> DEFINE P == {k \in Nat : Encoded[k] \in Code}
<1>10. 0 \in P
  BY <1>1, <1>8
<1>11. ASSUME NEW k \in Nat, k \in P PROVE k + 1 \in P
  BY <1>a, <1>9, <1>11
<1>12. Nat \subseteq P
  <2> HIDE DEF P
  <2> QED BY <1>10, <1>11, SetInduction
<1>13. \A k \in Nat : Encoded[k] \in Code
  BY <1>12
<1> QED BY <1>8, <1>9, <1>13

(* Full sub blocks, and what is begun. *)
Blocks(s, k, q) ==
  /\ s.position = q * (SubBlockSize + 1)
  /\ s.sub_block_position \in 0..SubBlockSize - 2
  /\ k = q * (SubBlockSize - 1) + s.sub_block_position

(* Every pixel is in one of them. *)
LEMMA EncodedBlocks == \A k \in Nat : \E q \in Nat : Blocks(Encoded[k], k, q)
<1> DEFINE P == {k \in Nat : \E q \in Nat : Blocks(Encoded[k], k, q)}
<1>1. SubBlockSize \in Nat /\ SubBlockSize > 2
  BY FrameAssumption
<1>2. 0 \in P
  <2>1. Blocks(Encoded[0], 0, 0)
    BY <1>1, EncodedIs DEF Blocks
  <2> QED BY <2>1
<1>3. ASSUME NEW k \in Nat, k \in P PROVE k + 1 \in P
  <2> SUFFICES \E r \in Nat : Blocks(Encoded[k + 1], k + 1, r)
    OBVIOUS
  <2>1. PICK q \in Nat : Blocks(Encoded[k], k, q)
    BY <1>3
  <2>2. PICK s, t : s = Encoded[k] /\ t = Encoded[k + 1] /\ t = NextCode(s)
    BY EncodedIs
  <2>3. PICK p, b : p = s.position /\ b = s.sub_block_position
    OBVIOUS
  <2>4. /\ p = q * (SubBlockSize + 1) /\ b \in 0..SubBlockSize - 2
        /\ k = q * (SubBlockSize - 1) + b
    BY <2>1, <2>2, <2>3 DEF Blocks
  <2>5. CASE b + 1 = SubBlockSize - 1
    <3>1. t.position = p + (b + 1) + 2 /\ t.sub_block_position = 0
      BY <2>2, <2>3, <2>5 DEF NextCode
    <3>2. /\ p + (b + 1) + 2 = (q + 1) * (SubBlockSize + 1)
          /\ k + 1 = (q + 1) * (SubBlockSize - 1) + 0
      BY <1>1, <2>4, <2>5
    <3>3. Blocks(t, k + 1, q + 1)
      BY <1>1, <3>1, <3>2 DEF Blocks
    <3>4. q + 1 \in Nat
      OBVIOUS
    <3>5. Blocks(Encoded[k + 1], k + 1, q + 1)
      BY <2>2, <3>3
    <3> QED BY <3>4, <3>5, Zenon
  <2>6. CASE b + 1 # SubBlockSize - 1
    <3>1. t = [s EXCEPT !.sub_block_position = b + 1]
      BY <2>2, <2>3, <2>6 DEF NextCode
    <3>2. t.position = p /\ t.sub_block_position = b + 1
      <4>1. s \in Code
        BY <2>2, EncodedIs
      <4> QED BY <2>3, <3>1, <4>1 DEF Code
    <3>3. b + 1 \in 0..SubBlockSize - 2 /\ k + 1 = q * (SubBlockSize - 1) + (b + 1)
      BY <1>1, <2>4, <2>6
    <3>4. Blocks(t, k + 1, q)
      BY <2>4, <3>2, <3>3 DEF Blocks
    <3>5. Blocks(Encoded[k + 1], k + 1, q)
      BY <2>2, <3>4
    <3> QED BY <3>5, Zenon
  <2> QED BY <2>5, <2>6
<1>4. Nat \subseteq P
  <2> HIDE DEF P
  <2> QED BY <1>2, <1>3, SetInduction
<1> QED BY <1>4

(* What ten frames take is at most what was computed. *)
LEMMA SizeFits ==
  ASSUME NEW frames, Len(frames) = FRAME_COUNT, NEW count \in Nat
  PROVE  gif_get_data(frames, count) <= gif_get_size(count)
<1>1. SubBlockSize \in Nat /\ SubBlockSize > 2 /\ GifHeader \in Nat /\ GifFrameHeader \in Nat
  BY FrameAssumption
<1>2. PICK q \in Nat : Blocks(Encoded[count], count, q)
  BY EncodedBlocks
<1>3. PICK p, b, w : /\ p = Encoded[count].position /\ b = Encoded[count].sub_block_position
                     /\ w = SubBlockSize - 1
  OBVIOUS
<1>4. p = q * (w + 2) /\ b \in 0..w - 1 /\ count = q * w + b /\ w \in Nat /\ w > 0
  <2>1. SubBlockSize + 1 = w + 2 /\ SubBlockSize - 2 = w - 1
    BY <1>1, <1>3
  <2> QED BY <1>1, <1>2, <1>3, <2>1 DEF Blocks
<1>5. p + b = count + 2 * q
  BY <1>4
<1>6. EncodedSize(count) = count + 2 * q + 4
  <2>1. EncodedSize(count) = p + (b + 1) + 2 + 1
    BY <1>3 DEF EncodedSize
  <2>2. p \in Nat
    BY <1>4
  <2> QED BY <1>4, <1>5, <2>1, <2>2
<1>7. PICK r : r = (count + 1) \div w
  OBVIOUS
<1>8. r \in Nat /\ q <= r
  <2>1. r \in Nat
    BY <1>4, <1>7
  <2>2. count + 1 < (r + 1) * w
    BY <1>4, <1>7
  <2>3. ASSUME r + 1 <= q PROVE FALSE
    <3>1. (r + 1) * w <= q * w
      BY <1>4, <2>1, <2>3
    <3> QED BY <1>4, <2>1, <2>2, <3>1
  <2> QED BY <2>1, <2>3
<1>9. gif_get_size(count) =
        GifHeader + 10 * (GifFrameHeader + (count + 1) + ((r + 1) * 2) + 1) + 1
  BY <1>3, <1>7 DEF gif_get_size, FRAME_COUNT
<1>10. gif_get_data(frames, count) = GifHeader + 10 * (GifFrameHeader + (count + 2 * q + 4)) + 1
  BY <1>6 DEF gif_get_data, FRAME_COUNT
<1> QED BY <1>1, <1>8, <1>9, <1>10

(* No fewer frames among more blocks. *)
LEMMA FrameCountGrows ==
  ASSUME IndexInv, phase = "ready", NEW j \in 0..Len(table), NEW k \in 0..Len(table), j <= k
  PROVE  FrameCount(j) <= FrameCount(k)
<1> DEFINE L == Len(table)
           P == {m \in Nat : j + m <= L => FrameCount(j) <= FrameCount(j + m)}
<1>1. L \in Nat /\ \A m \in 0..L : FrameCount(m) \in Nat
  BY EntriesAre, FrameCountNext
<1>2. 0 \in P
  BY <1>1
<1>3. ASSUME NEW m \in Nat, m \in P PROVE m + 1 \in P
  <2>1. SUFFICES ASSUME j + (m + 1) <= L PROVE FrameCount(j) <= FrameCount(j + (m + 1))
    OBVIOUS
  <2>2. PICK q : q = j + (m + 1)
    OBVIOUS
  <2>3. /\ q \in 1..L /\ q - 1 = j + m /\ j + m \in 0..L /\ q \in 0..L
        /\ FrameCount(j) <= FrameCount(j + m)
    BY <1>1, <1>3, <2>1, <2>2
  <2>4. FrameCount(q) = IF Kind(q) = "VIDF" THEN FrameCount(q - 1) + 1 ELSE FrameCount(q - 1)
    BY <2>3, FrameCountNext
  <2>5. FrameCount(j) \in Nat /\ FrameCount(j + m) \in Nat
    BY <1>1, <2>3
  <2>6. FrameCount(q - 1) = FrameCount(j + m)
    BY <2>3
  <2>7. FrameCount(j) <= FrameCount(q)
    BY <2>3, <2>4, <2>5, <2>6
  <2> QED BY <2>2, <2>7
<1>4. Nat \subseteq P
  <2> HIDE DEF P
  <2> QED BY <1>2, <1>3, SetInduction
<1>5. k - j \in Nat /\ j + (k - j) = k
  OBVIOUS
<1> QED BY <1>4, <1>5

(* Every number below the count is that of a frame. *)
LEMMA FrameOfNumber ==
  ASSUME IndexInv, phase = "ready", NEW index \in Nat, index < FrameCount(Len(table))
  PROVE  \E m \in 1..Len(table) : Kind(m) = "VIDF" /\ FrameCount(m - 1) = index
<1> DEFINE L == Len(table)
           Found == \E m \in 1..L : Kind(m) = "VIDF" /\ FrameCount(m - 1) = index
           P == {k \in Nat : k <= L /\ index < FrameCount(k) => Found}
<1>1. L \in Nat /\ FrameCount(0) = 0 /\ \A m \in 0..L : FrameCount(m) \in Nat
  BY EntriesAre, FrameCountNext
<1>2. 0 \in P
  BY <1>1
<1>3. ASSUME NEW k \in Nat, k \in P PROVE k + 1 \in P
  <2>1. SUFFICES ASSUME k + 1 <= L, index < FrameCount(k + 1) PROVE Found
    OBVIOUS
  <2>2. PICK q : q = k + 1
    OBVIOUS
  <2>3. q \in 1..L /\ q - 1 = k /\ k \in 0..L /\ k <= L /\ FrameCount(k) \in Nat
    BY <1>1, <2>1, <2>2
  <2>4. FrameCount(q) = IF Kind(q) = "VIDF" THEN FrameCount(q - 1) + 1 ELSE FrameCount(q - 1)
    BY <2>3, FrameCountNext
  <2>5. CASE index < FrameCount(k)
    BY <1>3, <2>3, <2>5
  <2>6. CASE ~(index < FrameCount(k))
    <3>1. PICK c, d : c = FrameCount(k) /\ d = FrameCount(q)
      OBVIOUS
    <3>2. index < d /\ (d = IF Kind(q) = "VIDF" THEN c + 1 ELSE c) /\ ~(index < c) /\ c \in Nat
      BY <2>1, <2>2, <2>3, <2>4, <2>6, <3>1
    <3>3. Kind(q) = "VIDF" /\ c = index
      BY <3>2
    <3> QED BY <2>3, <3>1, <3>3
  <2> QED BY <2>5, <2>6
<1>4. Nat \subseteq P
  <2> HIDE DEF P
  <2> QED BY <1>2, <1>3, SetInduction
<1> QED BY <1>1, <1>4

(* A header that was found is not lost. *)
LEMMA HeaderStays ==
  ASSUME IndexInv, phase = "ready", NEW h \in FrameHeaders, NEW j \in 0..Len(table),
         NEW k \in 0..Len(table), j <= k, Latest(Among(j, {h})) # None
  PROVE  Latest(Among(k, {h})) # None
<1> DEFINE L == Len(table)
           Has(q) == Latest(Among(q, {h})) # None
           P == {m \in Nat : j + m <= L => Has(j + m)}
<1>1. L \in Nat
  BY EntriesAre
<1>2. 0 \in P
  BY <1>1
<1>3. ASSUME NEW m \in Nat, m \in P PROVE m + 1 \in P
  <2>1. SUFFICES ASSUME j + (m + 1) <= L PROVE Has(j + (m + 1))
    OBVIOUS
  <2>2. PICK q : q = j + (m + 1)
    OBVIOUS
  <2>3. q \in 1..L /\ q - 1 = j + m /\ Has(j + m)
    BY <1>1, <1>3, <2>1, <2>2
  <2>4. Latest(Among(q, {h})) =
          IF Kind(q) = h THEN Place(table[q]) ELSE Latest(Among(q - 1, {h}))
    BY <2>3, HeadersNext
  <2>5. Place(table[q]) # None
    BY <2>3, EntriesAre, ConstantsAssumption DEF Places
  <2>6. Latest(Among(q - 1, {h})) # None
    BY <2>3
  <2>7. Has(q)
    BY <2>4, <2>5, <2>6
  <2> QED BY <2>2, <2>7
<1>4. Nat \subseteq P
  <2> HIDE DEF P
  <2> QED BY <1>2, <1>3, SetInduction
<1>5. k - j \in Nat /\ j + (k - j) = k
  OBVIOUS
<1> QED BY <1>4, <1>5

(* With headers for the first frame there are headers for all. *)
LEMMA AllFramesFound ==
  ASSUME IndexInv, phase = "ready", mlv_get_frame_headers(0) # None
  PROVE  /\ FrameCount(Len(table)) > 0
         /\ \A index \in 0..FrameCount(Len(table)) - 1 :
              \E m \in 1..Len(table) :
                /\ Kind(m) = "VIDF" /\ FrameCount(m - 1) = index
                /\ mlv_get_frame_headers(index) # None
                /\ mlv_get_frame_headers(index).frame = Place(table[m])
<1> DEFINE L == Len(table)
<1>1. L \in Nat /\ FrameCount(L) \in Nat /\ \A m \in 1..L : m - 1 \in 0..L
  <2>1. L \in Nat /\ \A m \in 1..L : m - 1 \in 0..L
    BY EntriesAre
  <2>2. L \in 0..L
    BY <2>1
  <2> QED BY <2>1, <2>2, FrameCountNext
<1>2. FrameCount(L) > 0
  <2>1. FrameCount(L) # 0
    BY NoMoreFrames
  <2> QED BY <1>1, <2>1
<1>3. ASSUME NEW m \in 1..L, Kind(m) = "VIDF"
      PROVE  LET s == Collected(FrameCount(m - 1))[L]
             IN  /\ s.frame = Place(table[m]) /\ s.frame # None
                 /\ s.header["RAWI"] = Latest(Among(m - 1, {"RAWI"}))
                 /\ mlv_get_frame_headers(FrameCount(m - 1)) =
                      IF s.header["RAWI"] # None THEN [frame |-> s.frame, header |-> s.header]
                      ELSE None
  <2> DEFINE s == Collected(FrameCount(m - 1))[L]
  <2>1. /\ s.frame = Place(table[m])
        /\ s.header = [h \in FrameHeaders |-> Latest(Among(m - 1, {h}))]
    BY <1>3, FrameFound
  <2>2. Place(table[m]) # None
    BY EntriesAre, ConstantsAssumption DEF Places
  <2>3. mlv_get_frame_headers(FrameCount(m - 1)) =
          IF s.frame # None /\ s.header["RAWI"] # None
          THEN [frame |-> s.frame, header |-> s.header] ELSE None
    BY DEF mlv_get_frame_headers
  <2>4. "RAWI" \in FrameHeaders
    BY DEF FrameHeaders
  <2> HIDE DEF s
  <2>5. s.header["RAWI"] = Latest(Among(m - 1, {"RAWI"}))
    BY <2>1, <2>4
  <2> QED BY <2>1, <2>2, <2>3, <2>5 DEF s
<1>4. PICK m0 \in 1..L : Kind(m0) = "VIDF" /\ FrameCount(m0 - 1) = 0
  BY <1>1, <1>2, FrameOfNumber
<1>5. Latest(Among(m0 - 1, {"RAWI"})) # None
  BY <1>3, <1>4
<1>6. ASSUME NEW index \in 0..FrameCount(L) - 1
      PROVE  \E m \in 1..L :
                /\ Kind(m) = "VIDF" /\ FrameCount(m - 1) = index
                /\ mlv_get_frame_headers(index) # None
                /\ mlv_get_frame_headers(index).frame = Place(table[m])
  <2>1. index \in Nat /\ index < FrameCount(L)
    BY <1>1
  <2>2. PICK m \in 1..L : Kind(m) = "VIDF" /\ FrameCount(m - 1) = index
    BY <2>1, FrameOfNumber
  <2>3. m0 <= m
    <3>1. ASSUME m < m0 PROVE FALSE
      <4>1. m \in 0..L /\ m0 - 1 \in 0..L /\ m <= m0 - 1
        BY <1>1, <3>1
      <4>2. FrameCount(m) <= 0 /\ FrameCount(m) = FrameCount(m - 1) + 1
        <5>1. FrameCount(m) <= FrameCount(m0 - 1)
          BY <4>1, FrameCountGrows
        <5> QED BY <1>4, <2>2, <5>1, FrameCountNext
      <4> QED BY <2>1, <2>2, <4>2
    <3> QED BY <1>1, <3>1
  <2>4. Latest(Among(m - 1, {"RAWI"})) # None
    <3>1. /\ "RAWI" \in FrameHeaders /\ m0 - 1 \in 0..L /\ m - 1 \in 0..L
          /\ m0 - 1 <= m - 1
      BY <1>1, <2>3 DEF FrameHeaders
    <3> QED BY <1>5, <3>1, HeaderStays
  <2>5. PICK s : s = Collected(FrameCount(m - 1))[L]
    OBVIOUS
  <2>6. mlv_get_frame_headers(index) = [frame |-> Place(table[m]), header |-> s.header]
    BY <1>3, <2>2, <2>4, <2>5
  <2>7. [frame |-> Place(table[m]), header |-> s.header] # None
    <3>1. s.header \in [FrameHeaders -> Places \cup {None}]
      <4>1. s \in Finds
        <5>1. L \in 0..L
          BY <1>1
        <5> QED BY <2>5, <5>1, CollectedIs
      <4> QED BY <4>1 DEF Finds
    <3>2. Place(table[m]) \in Places
      BY EntriesAre
    <3> QED BY <3>1, <3>2, ConstantsAssumption DEF Places
  <2> QED BY <2>2, <2>6, <2>7
<1> QED BY <1>2, <1>6

(* The frames of a preview, one by one. *)
LEMMA PreviewFramesAre ==
  ASSUME \A k \in 1..FRAME_COUNT : mlv_get_frame_headers(mlv_frame_number(k - 1)) # None
  PROVE  /\ Len(PreviewFrames) = FRAME_COUNT
         /\ \A k \in 1..FRAME_COUNT :
              PreviewFrames[k] = mlv_get_frame_headers(mlv_frame_number(k - 1))
<1> DEFINE N == FRAME_COUNT
           H(k) == mlv_get_frame_headers(mlv_frame_number(k - 1))
           X == Seq({H(k) : k \in 1..N})
           next(s, k) == IF H(k) = None THEN s ELSE Append(s, H(k))
           g == [k \in 1..N |-> [s \in X |-> next(s, k)]]
<1>1. N \in Nat /\ <<>> \in X
  BY DEF FRAME_COUNT
<1>2. ASSUME NEW k \in 1..N, NEW s \in X PROVE next(s, k) \in X
  <2> HIDE DEF N, H
  <2> QED BY <1>2
<1> HIDE DEF H, N, next, X
<1>3. g \in [1..N -> [X -> X]]
  BY <1>2
<1>4. PICK f \in [0..N -> X] : f[0] = <<>> /\ \A k \in 1..N : f[k] = g[k][f[k - 1]]
  <2>1. \E f \in [0..N -> X] : IteratesTo(N, f, <<>>, g)
    <3> HIDE DEF g
    <3> QED BY <1>1, <1>3, Stepwise, Zenon
  <2> QED BY <2>1 DEF IteratesTo
<1>5. ASSUME NEW k \in 1..N PROVE f[k] = next(f[k - 1], k)
  <2>1. f[k - 1] \in X
    BY <1>1, <1>4
  <2> QED BY <1>4, <2>1
<1> HIDE DEF g
<1>6. ASSUME NEW k \in 0..N PROVE f[k] = IF k = 0 THEN <<>> ELSE next(f[k - 1], k)
  <2>1. k = 0 \/ k \in 1..N
    BY <1>1
  <2> QED BY <1>4, <1>5, <2>1
<1>7. f = [k \in 0..N |-> IF k = 0 THEN <<>> ELSE next(f[k - 1], k)]
  <2>1. f = [k \in 0..N |-> f[k]]
    BY <1>4
  <2> QED BY <1>6, <2>1
<1> DEFINE c == CHOOSE c : c = [k \in 0..N |-> IF k = 0 THEN <<>> ELSE next(c[k - 1], k)]
<1>8. c = [k \in 0..N |-> IF k = 0 THEN <<>> ELSE next(c[k - 1], k)]
  BY <1>7
<1>9. PreviewFrames = c[N]
  BY DEF PreviewFrames, next, H, N
<1> HIDE DEF c
<1> DEFINE P == {k \in Nat : k <= N => /\ c[k] \in X /\ Len(c[k]) = k
                                       /\ \A j \in 1..k : c[k][j] = H(j)}
<1>10. 0 \in P
  <2>1. c[0] = <<>>
    BY <1>1, <1>8
  <2> QED BY <1>1, <2>1
<1>11. ASSUME NEW m \in Nat, m \in P PROVE m + 1 \in P
  <2>1. SUFFICES ASSUME m + 1 <= N
                 PROVE  /\ c[m + 1] \in X /\ Len(c[m + 1]) = m + 1
                        /\ \A j \in 1..m + 1 : c[m + 1][j] = H(j)
    OBVIOUS
  <2>2. PICK k : k = m + 1
    OBVIOUS
  <2>3. k \in 1..N /\ k \in 0..N /\ k # 0 /\ k - 1 = m
    BY <1>1, <2>1, <2>2
  <2>4. c[m] \in X /\ Len(c[m]) = m /\ \A j \in 1..m : c[m][j] = H(j)
    BY <1>1, <1>11, <2>1
  <2>5. c[k] = next(c[m], k)
    BY <1>8, <2>3
  <2>6. c[k] \in X
    BY <1>2, <2>3, <2>4, <2>5
  <2>7. H(k) # None
    BY <2>3 DEF N, H
  <2>8. c[k] = Append(c[m], H(k))
    BY <2>5, <2>7 DEF next
  <2>9. PICK s, e, S : s = c[m] /\ e = H(k) /\ S = {H(j) : j \in 1..N}
    OBVIOUS
  <2>10. s \in Seq(S) /\ Len(s) = m
    BY <2>4, <2>9 DEF X
  <2>11. Len(Append(s, e)) = m + 1 /\ Append(s, e)[m + 1] = e
         /\ \A j \in 1..m : Append(s, e)[j] = s[j]
    BY <2>10
  <2>12. \A j \in 1..m + 1 : j = m + 1 \/ j \in 1..m
    OBVIOUS
  <2>13. \A j \in 1..m + 1 : c[k][j] = H(j)
    BY <2>2, <2>4, <2>8, <2>9, <2>11, <2>12
  <2> QED BY <2>2, <2>6, <2>8, <2>9, <2>11, <2>13
<1>12. Nat \subseteq P
  <2> HIDE DEF P
  <2> QED BY <1>10, <1>11, SetInduction
<1>13. Len(c[N]) = N /\ \A j \in 1..N : c[N][j] = H(j)
  BY <1>1, <1>12
<1> QED BY <1>9, <1>13 DEF N, H

(* The time of an entry is that of its frame. *)
LEMMA FrameTime ==
  ASSUME IndexInv, NEW m \in 1..Len(table), Kind(m) = "VIDF"
  PROVE  chunks[Place(table[m])[1]][Place(table[m])[2]].time = table[m].time
<1>1. OnlyBlocks /\ m \in DOMAIN table
  BY EntriesAre DEF IndexInv
<1>2. PICK c \in DOMAIN chunks : \E k \in DOMAIN chunks[c] : table[m] = EntryOf(c, k)
  BY <1>1 DEF OnlyBlocks, IsBlock
<1>3. PICK k \in DOMAIN chunks[c] : table[m] = EntryOf(c, k)
  BY <1>2
<1>4. table[m].chunk = c /\ table[m].at = k
  BY <1>3 DEF EntryOf
<1>5. chunks[c][k].type = "VIDF"
  BY <1>4 DEF Kind, BlockOf
<1>6. table[m].time = chunks[c][k].time
  BY <1>3, <1>5 DEF EntryOf
<1> QED BY <1>4, <1>6 DEF Place

(* A preview that is begun has its frames in their order, from the first   *)
(* on, and fits into the size that was computed for it (gif_get_data and   *)
(* gif_get_size, gif.c), whatever numbers of pixels frames can have.       *)
THEOREM PreviewAlwaysFits == Spec => []PreviewFits
<1>1. ASSUME IndexInv PROVE PreviewFits
  <2> DEFINE Time(h) == chunks[h.frame[1]][h.frame[2]].time
  <2>1. SUFFICES ASSUME phase = "ready", mlv_get_frame_headers(0) # None
                 PROVE  /\ Len(PreviewFrames) = FRAME_COUNT
                        /\ PreviewFrames[1] = mlv_get_frame_headers(0)
                        /\ \A k \in 2..FRAME_COUNT :
                             Time(PreviewFrames[k - 1]) <= Time(PreviewFrames[k])
                        /\ \A count \in PreviewSizes :
                             gif_get_data(PreviewFrames, count) <= gif_get_size(count)
    BY DEF PreviewFits
  <2>2. PICK c : c = mlv_get_frame_count
    OBVIOUS
  <2>3. c = FrameCount(Len(table)) /\ c \in Nat /\ c > 0
    <3>1. Len(table) \in 0..Len(table)
      BY <1>1, EntriesAre
    <3> QED BY <1>1, <2>1, <2>2, <3>1, CountIs, FrameCountNext, AllFramesFound
  <2>4. mlv_frame_number(0) = 0
    <3>1. mlv_frame_number(0) = (0 * c) \div 10
      BY <2>2 DEF mlv_frame_number, FRAME_COUNT
    <3> QED BY <2>3, <3>1
  <2>5. ASSUME NEW k \in 0..9 PROVE mlv_frame_number(k) \in 0..c - 1
    <3>1. mlv_frame_number(k) = (k * c) \div 10
      BY <2>2 DEF mlv_frame_number, FRAME_COUNT
    <3>2. PICK x : x = k * c
      OBVIOUS
    <3>3. x \in Nat /\ x < 10 * c
      BY <2>3, <3>2
    <3>4. x \div 10 \in 0..c - 1
      BY <2>3, <3>3
    <3> QED BY <3>1, <3>2, <3>4
  <2>6. ASSUME NEW k \in 1..9 PROVE mlv_frame_number(k - 1) <= mlv_frame_number(k)
    <3>1. mlv_frame_number(k) = (k * c) \div 10 /\ mlv_frame_number(k - 1) = ((k - 1) * c) \div 10
      BY <2>2 DEF mlv_frame_number, FRAME_COUNT
    <3>2. k * c \in Nat /\ (k - 1) * c \in Nat /\ (k - 1) * c <= k * c
      BY <2>3
    <3> QED BY <3>1, <3>2
  <2>7. \A index \in 0..c - 1 :
          \E m \in 1..Len(table) :
            /\ Kind(m) = "VIDF" /\ FrameCount(m - 1) = index
            /\ mlv_get_frame_headers(index) # None
            /\ mlv_get_frame_headers(index).frame = Place(table[m])
    BY <1>1, <2>1, <2>3, AllFramesFound
  <2>8. \A k \in 1..FRAME_COUNT : mlv_get_frame_headers(mlv_frame_number(k - 1)) # None
    <3> SUFFICES ASSUME NEW k \in 1..FRAME_COUNT
                 PROVE  mlv_get_frame_headers(mlv_frame_number(k - 1)) # None
      OBVIOUS
    <3>1. k - 1 \in 0..9
      BY DEF FRAME_COUNT
    <3>2. mlv_frame_number(k - 1) \in 0..c - 1
      BY <2>5, <3>1
    <3> QED BY <2>7, <3>2
  <2>9. /\ Len(PreviewFrames) = FRAME_COUNT
        /\ \A k \in 1..FRAME_COUNT :
             PreviewFrames[k] = mlv_get_frame_headers(mlv_frame_number(k - 1))
    BY <2>8, PreviewFramesAre
  <2>10. PreviewFrames[1] = mlv_get_frame_headers(0)
    <3>1. 1 \in 1..FRAME_COUNT /\ 1 - 1 = 0
      BY DEF FRAME_COUNT
    <3>2. PreviewFrames[1] = mlv_get_frame_headers(mlv_frame_number(1 - 1))
      BY <2>9, <3>1
    <3> QED BY <2>4, <3>1, <3>2
  <2>11. ASSUME NEW k \in 2..FRAME_COUNT
         PROVE  Time(PreviewFrames[k - 1]) <= Time(PreviewFrames[k])
    <3>1. PICK p, q : p = mlv_frame_number((k - 1) - 1) /\ q = mlv_frame_number(k - 1)
      OBVIOUS
    <3>2. /\ k - 1 \in 1..9 /\ k - 1 \in 0..9 /\ (k - 1) - 1 \in 0..9
          /\ k \in 1..FRAME_COUNT /\ k - 1 \in 1..FRAME_COUNT
      BY DEF FRAME_COUNT
    <3>3. p \in 0..c - 1 /\ q \in 0..c - 1 /\ p <= q
      BY <2>5, <2>6, <3>1, <3>2
    <3>4. PICK m \in 1..Len(table) :
            /\ Kind(m) = "VIDF" /\ FrameCount(m - 1) = p
            /\ mlv_get_frame_headers(p).frame = Place(table[m])
      BY <2>7, <3>3
    <3>5. PICK l \in 1..Len(table) :
            /\ Kind(l) = "VIDF" /\ FrameCount(l - 1) = q
            /\ mlv_get_frame_headers(q).frame = Place(table[l])
      BY <2>7, <3>3
    <3>6. m <= l
      <4>1. ASSUME l < m PROVE FALSE
        <5>1. l \in 0..Len(table) /\ m - 1 \in 0..Len(table) /\ l <= m - 1
          BY <1>1, <4>1, EntriesAre
        <5>2. FrameCount(l) <= FrameCount(m - 1)
          BY <1>1, <2>1, <5>1, FrameCountGrows
        <5>3. FrameCount(l) = FrameCount(l - 1) + 1
          BY <1>1, <2>1, <3>5, FrameCountNext
        <5> QED BY <3>3, <3>4, <3>5, <5>2, <5>3
      <4> QED BY <1>1, <4>1, EntriesAre
    <3>7. table[m].time <= table[l].time
      <4>1. DOMAIN table = 1..Len(table) /\ Len(table) \in Nat
        BY <1>1, EntriesAre
      <4>2. table[m].time \in Nat /\ table[l].time \in Nat
        BY <1>1, <4>1, TimesAreNumbers DEF IndexInv
      <4>3. m < l => table[m].time <= table[l].time
        BY <1>1, <2>1, <4>1 DEF IndexInv, Sorting
      <4> QED BY <3>6, <4>1, <4>2, <4>3
    <3>8. /\ Time(mlv_get_frame_headers(p)) = table[m].time
          /\ Time(mlv_get_frame_headers(q)) = table[l].time
      BY <1>1, <3>4, <3>5, FrameTime
    <3>9. PreviewFrames[k - 1] = mlv_get_frame_headers(p) /\ PreviewFrames[k] = mlv_get_frame_headers(q)
      BY <2>9, <3>1, <3>2
    <3> QED BY <3>7, <3>8, <3>9
  <2>12. ASSUME NEW count \in PreviewSizes
         PROVE  gif_get_data(PreviewFrames, count) <= gif_get_size(count)
    <3>1. count \in Nat
      BY FrameAssumption
    <3> QED BY <2>9, <3>1, SizeFits
  <2> QED BY <2>9, <2>10, <2>11, <2>12
<1>2. Init => IndexInv
  BY InitIndexInv
<1>3. IndexInv /\ [Next]_vars => IndexInv'
  BY NextIndexInv
<1> QED BY <1>1, <1>2, <1>3, PTL DEF Spec

-----------------------------------------------------------------------------
(* Unpacking: numbers and their bits.                                      *)

(* A number in front of a rest. *)
LEMMA Quotient ==
  ASSUME NEW a \in Nat, NEW m \in Nat, NEW r \in Nat, r < m
  PROVE  (a * m + r) \div m = a /\ (a * m + r) % m = r
  OBVIOUS

(* Powers of two, as far as words go. *)
LEMMA Powers ==
  /\ 2^0 = 1
  /\ \A k \in 0..15 : 2^k \in Nat \ {0} /\ 2^(k + 1) \in Nat \ {0} /\ 2^(k + 1) = 2 * 2^k
<1>1. PICK f : f = [k \in 0..16 |-> 2^k]
  OBVIOUS
<1>2. \A k \in 0..16 : f[k] = 2^k
  BY <1>1
<1>3. /\ f[0] = 1 /\ f[1] = 2 /\ f[2] = 4 /\ f[3] = 8 /\ f[4] = 16 /\ f[5] = 32 /\ f[6] = 64
      /\ f[7] = 128 /\ f[8] = 256 /\ f[9] = 512 /\ f[10] = 1024 /\ f[11] = 2048
      /\ f[12] = 4096 /\ f[13] = 8192 /\ f[14] = 16384 /\ f[15] = 32768 /\ f[16] = 65536
  BY <1>1
<1>4. ASSUME NEW k \in 0..15
      PROVE  f[k] \in Nat \ {0} /\ f[k + 1] \in Nat \ {0} /\ f[k + 1] = 2 * f[k]
  BY <1>3
<1> QED BY <1>2, <1>3, <1>4

(* A digit more. *)
LEMMA DigitMore ==
  ASSUME NEW v \in Nat, NEW m \in Nat \ {0}
  PROVE  v \div m = 2 * (v \div (2 * m)) + ((v \div m) % 2)
<1>1. PICK q, r : q = v \div m /\ r = v % m
  OBVIOUS
<1>2. q \in Nat /\ r \in 0..m - 1 /\ v = q * m + r
  <2>1. v \div m \in Nat /\ v % m \in 0..m - 1 /\ v = (v \div m) * m + (v % m)
    OBVIOUS
  <2> QED BY <1>1, <2>1
<1>3. PICK h \in Nat, e \in 0..1 : q = 2 * h + e
  <2>1. q \div 2 \in Nat /\ q % 2 \in 0..1 /\ q = 2 * (q \div 2) + (q % 2)
    BY <1>2
  <2> QED BY <2>1
<1>4. PICK x : x = 2 * m
  OBVIOUS
<1>5. PICK y : y = e * m + r
  OBVIOUS
<1>6. y \in Nat /\ y < x /\ x \in Nat
  BY <1>2, <1>4, <1>5
<1>7. v = h * x + y
  BY <1>2, <1>3, <1>4, <1>5
<1>8. v \div x = h
  BY <1>6, <1>7, Quotient
<1>9. q % 2 = e
  BY <1>3
<1> QED BY <1>1, <1>3, <1>4, <1>8, <1>9

(* A sample C of A values in the first of two words: U is in front of it,  *)
(* and a rest V of T values behind it.                                     *)
OneWord(low, high, U, C, V, A, T, S) ==
  /\ {high, U, C, V, A, T, S} \subseteq Nat
  /\ C < A /\ V < T
  /\ low = (U * A + C) * T + V

(* The rotation by that rest leaves the sample in the low bits. *)
LEMMA InOneWord ==
  ASSUME NEW low, NEW high, NEW U, NEW C, NEW V, NEW A, NEW T, NEW S,
         OneWord(low, high, U, C, V, A, T, S)
  PROVE  (low \div T + (high % T) * (S * A)) % A = C
<1>1. /\ high \in Nat /\ U \in Nat /\ C \in Nat /\ V \in Nat /\ A \in Nat /\ T \in Nat
      /\ S \in Nat /\ C < A /\ V < T
  BY DEF OneWord
<1>2. PICK x, y, z : x = high % T /\ y = U * A + C /\ z = U + x * S
  OBVIOUS
<1>3. x \in Nat /\ y \in Nat /\ z \in Nat
  <2>1. x \in Nat
    BY <1>1, <1>2
  <2> QED BY <1>1, <1>2, <2>1
<1>4. (y * T + V) \div T = y
  BY <1>1, <1>3, Quotient
<1>5. y + x * (S * A) = z * A + C
  BY <1>1, <1>2, <1>3
<1>6. (z * A + C) % A = C
  BY <1>1, <1>3, Quotient
<1>7. low = y * T + V
  BY <1>2 DEF OneWord
<1> QED BY <1>2, <1>4, <1>5, <1>6, <1>7

(* A sample in two words: its first part R of E values is behind U, its    *)
(* second part D of F values in front of a rest V of T values.             *)
TwoWords(low, high, U, R, D, V, E, F, G, T) ==
  /\ {U, R, D, V, E, F, G, T} \subseteq Nat
  /\ R < E /\ D < F /\ V < T
  /\ G * E = T /\ G # 0
  /\ low = U * E + R /\ high = D * T + V

(* The words are swapped, and the rest is rotated away. *)
LEMMA InTwoWords ==
  ASSUME NEW low, NEW high, NEW U, NEW R, NEW D, NEW V, NEW E, NEW F, NEW G, NEW T,
         TwoWords(low, high, U, R, D, V, E, F, G, T)
  PROVE  (high \div T + (low % T) * F) % (E * F) = R * F + D
<1>1. /\ U \in Nat /\ R \in Nat /\ D \in Nat /\ V \in Nat /\ E \in Nat /\ F \in Nat
      /\ G \in Nat \ {0} /\ T \in Nat /\ R < E /\ D < F /\ V < T
  BY DEF TwoWords
<1>2. T = G * E /\ low = U * E + R /\ high = D * T + V
  BY DEF TwoWords
<1>3. PICK W \in Nat, u \in 0..G - 1 : U = W * G + u
  <2>1. U = (U \div G) * G + (U % G) /\ U \div G \in Nat /\ U % G \in 0..G - 1
    BY <1>1
  <2> QED BY <2>1
<1>4. PICK A, x, y : A = E * F /\ x = u * E + R /\ y = R * F + D
  OBVIOUS
<1>5. A \in Nat /\ x \in Nat /\ y \in Nat
  BY <1>1, <1>4
<1>6. x < T
  <2>1. u * E <= (G - 1) * E
    BY <1>1
  <2>2. (G - 1) * E = T - E /\ T - E \in Int
    BY <1>1, <1>2
  <2> QED BY <1>1, <1>4, <2>1, <2>2
<1>7. low = W * T + x
  <2>1. U * E = W * (G * E) + u * E
    BY <1>1, <1>3
  <2>2. W * (G * E) \in Nat /\ u * E \in Nat
    BY <1>1
  <2> QED BY <1>1, <1>2, <1>4, <2>1, <2>2
<1>8. (W * T + x) % T = x
  BY <1>1, <1>5, <1>6, Quotient
<1>9. (D * T + V) \div T = D
  BY <1>1, Quotient
<1>10. y < A
  <2>1. R * F <= (E - 1) * F
    BY <1>1
  <2>2. (E - 1) * F = A - F
    BY <1>1, <1>4
  <2> QED BY <1>1, <1>4, <1>5, <2>1, <2>2
<1>11. D + x * F = u * A + y
  BY <1>1, <1>4
<1>12. (u * A + y) % A = y
  BY <1>5, <1>10, Quotient
<1> QED BY <1>2, <1>4, <1>7, <1>8, <1>9, <1>11, <1>12

(* Powers of sums. *)
LEMMA PowerOfSum ==
  ASSUME NEW a \in 0..16, NEW b \in 0..16, a + b <= 16
  PROVE  2^(a + b) = 2^a * 2^b /\ 2^a \in Nat \ {0}
<1> DEFINE P == {m \in Nat : a + m <= 16 => 2^(a + m) = 2^a * 2^m}
<1>1. 2^a \in Nat \ {0}
  <2>1. a \in 0..15 \/ (15 \in 0..15 /\ a = 15 + 1)
    OBVIOUS
  <2> QED BY <2>1, Powers
<1>2. 0 \in P
  <2>1. a + 0 = a
    OBVIOUS
  <2>2. 2^a * 1 = 2^a
    BY <1>1
  <2> QED BY <2>1, <2>2, Powers
<1>3. ASSUME NEW m \in Nat, m \in P PROVE m + 1 \in P
  <2>1. SUFFICES ASSUME a + (m + 1) <= 16 PROVE 2^(a + (m + 1)) = 2^a * 2^(m + 1)
    OBVIOUS
  <2>2. PICK c : c = a + m
    OBVIOUS
  <2>3. c \in 0..15 /\ m \in 0..15 /\ a + (m + 1) = c + 1
    BY <2>1, <2>2
  <2>4. 2^c = 2^a * 2^m
    BY <1>3, <2>1, <2>2
  <2>5. PICK x, y, z, u, v : x = 2^a /\ y = 2^m /\ z = 2^c /\ u = 2^(c + 1) /\ v = 2^(m + 1)
    OBVIOUS
  <2>6. /\ y \in Nat \ {0} /\ z \in Nat \ {0} /\ u = 2 * z /\ v = 2 * y
        /\ z = x * y /\ x \in Nat
    BY <1>1, <2>3, <2>4, <2>5, Powers
  <2>7. u = x * v
    BY <2>6
  <2> QED BY <2>3, <2>5, <2>7
<1>4. Nat \subseteq P
  <2> HIDE DEF P
  <2> QED BY <1>2, <1>3, SetInduction
<1> QED BY <1>1, <1>4

(* The bits of the file are bits. *)
LEMMA BitsAre ==
  ASSUME NEW place, NEW bpp \in 1..16,
         \A p \in 0..Pixels - 1 : Sample(place, p) \in Nat, NEW b \in Nat
  PROVE  StoredBit(place, bpp, b) \in 0..1
<1>1. CASE b < Pixels * bpp
  <2>1. PICK p, e : p = b \div bpp /\ e = bpp - 1 - (b % bpp)
    OBVIOUS
  <2>2. Pixels \in Int
    BY FrameAssumption DEF Pixels
  <2>3. p \in 0..Pixels - 1 /\ e \in 0..15
    <3>1. b \div bpp \in Nat /\ b % bpp \in 0..bpp - 1 /\ b = (b \div bpp) * bpp + (b % bpp)
      OBVIOUS
    <3>2. p \in Nat /\ p * bpp < Pixels * bpp
      BY <1>1, <2>1, <2>2, <3>1
    <3> QED BY <2>1, <2>2, <3>1, <3>2
  <2>4. 2^e \in Nat \ {0} /\ 2^bpp \in Nat \ {0}
    <3>1. bpp \in 0..16 /\ 0 \in 0..16 /\ bpp + 0 <= 16
      OBVIOUS
    <3> QED BY <2>3, <3>1, Powers, PowerOfSum
  <2>5. Sample(place, p) % 2^bpp \in Nat
    BY <2>3, <2>4
  <2>6. PICK c, y : c = Sample(place, p) % 2^bpp /\ y = 2^e
    OBVIOUS
  <2>7. (c \div y) % 2 \in 0..1
    BY <2>4, <2>5, <2>6
  <2> QED BY <1>1, <2>1, <2>6, <2>7 DEF StoredBit, Camera
<1>2. CASE ~ (b < Pixels * bpp)
  BY <1>2 DEF StoredBit
<1> QED BY <1>1, <1>2

(* The number that l bits from one on are. *)
LEMMA BitsFromIs ==
  ASSUME NEW place, NEW bpp \in 1..16,
         \A p \in 0..Pixels - 1 : Sample(place, p) \in Nat, NEW first \in Nat
  PROVE  /\ BitsFrom(place, bpp, first)[0] = 0
         /\ \A l \in 1..16 :
              BitsFrom(place, bpp, first)[l] =
                2 * BitsFrom(place, bpp, first)[l - 1] + StoredBit(place, bpp, first + (l - 1))
         /\ \A l \in 0..16 : BitsFrom(place, bpp, first)[l] \in Nat
<1> DEFINE B(l) == StoredBit(place, bpp, first + (l - 1))
           g == [l \in 1..16 |-> [v \in Nat |-> 2 * v + B(l)]]
           c == BitsFrom(place, bpp, first)
           F == [l \in 0..16 |-> IF l = 0 THEN 0 ELSE 2 * c[l - 1] + B(l)]
<1>1. \A l \in 1..16 : B(l) \in 0..1
  <2> SUFFICES ASSUME NEW l \in 1..16 PROVE B(l) \in 0..1
    OBVIOUS
  <2>1. first + (l - 1) \in Nat
    OBVIOUS
  <2> QED BY <2>1, BitsAre
<1>2. g \in [1..16 -> [Nat -> Nat]]
  <2> HIDE DEF B
  <2>1. \A l \in 1..16 : \A v \in Nat : 2 * v + B(l) \in Nat
    BY <1>1
  <2> QED BY <2>1
<1>3. PICK f \in [0..16 -> Nat] : IteratesTo(16, f, 0, g)
  <2> HIDE DEF g
  <2> QED BY <1>2, Stepwise, Zenon
<1>4. f[0] = 0 /\ \A l \in 1..16 : f[l] = 2 * f[l - 1] + B(l)
  <2> HIDE DEF B
  <2>1. f[0] = 0 /\ \A l \in 1..16 : f[l] = g[l][f[l - 1]]
    <3> HIDE DEF g
    <3> QED BY <1>3 DEF IteratesTo
  <2>2. \A l \in 1..16 : l - 1 \in 0..16
    OBVIOUS
  <2>3. \A l \in 1..16 : f[l - 1] \in Nat
    BY <1>3, <2>2
  <2> QED BY <2>1, <2>3
<1>5. f = [l \in 0..16 |-> IF l = 0 THEN 0 ELSE 2 * f[l - 1] + B(l)]
  <2> HIDE DEF B
  <2>1. \A l \in 0..16 : l = 0 \/ l \in 1..16
    OBVIOUS
  <2> QED BY <1>3, <1>4, <2>1
<1>6. c = CHOOSE h : h = [l \in 0..16 |-> IF l = 0 THEN 0 ELSE 2 * h[l - 1] + B(l)]
  BY DEF BitsFrom
<1>7. c = F
  <2> HIDE DEF B, c
  <2> QED BY <1>5, <1>6
<1>8. c[0] = 0 /\ \A l \in 1..16 : c[l] = 2 * c[l - 1] + B(l)
  <2> HIDE DEF B, c
  <2>1. 0 \in 0..16 /\ \A l \in 1..16 : l \in 0..16 /\ l # 0
    OBVIOUS
  <2>2. F[0] = 0 /\ \A l \in 1..16 : F[l] = 2 * c[l - 1] + B(l)
    BY <2>1
  <2> HIDE DEF F
  <2> QED BY <1>7, <2>2
<1>9. \A l \in 0..16 : c[l] \in Nat
  <2> HIDE DEF B, c
  <2> DEFINE P == {l \in Nat : l <= 16 => c[l] \in Nat}
  <2>1. 0 \in P
    BY <1>8
  <2>2. ASSUME NEW l \in Nat, l \in P PROVE l + 1 \in P
    <3>1. SUFFICES ASSUME l + 1 <= 16 PROVE c[l + 1] \in Nat
      OBVIOUS
    <3>2. PICK k : k = l + 1
      OBVIOUS
    <3>3. k \in 1..16 /\ k - 1 = l
      BY <3>1, <3>2
    <3>4. c[k] = 2 * c[l] + B(k) /\ B(k) \in 0..1
      BY <1>1, <1>8, <3>3
    <3>5. c[l] \in Nat
      BY <2>2, <3>1
    <3> QED BY <3>2, <3>4, <3>5
  <2>3. Nat \subseteq P
    <3> HIDE DEF P
    <3> QED BY <2>1, <2>2, SetInduction
  <2> QED BY <2>3
<1> QED BY <1>8, <1>9

(* Bits one behind the other are a number in front of another. *)
Joined(place, bpp) ==
  \A first \in Nat : \A l \in 0..16 : \A m \in 0..16 :
    l + m <= 16 =>
      BitsFrom(place, bpp, first)[l + m] =
        BitsFrom(place, bpp, first)[l] * 2^m + BitsFrom(place, bpp, first + l)[m]

(* The numbers that bits are. *)
LEMMA BitsJoined ==
  ASSUME NEW place, NEW bpp \in 1..16,
         \A p \in 0..Pixels - 1 : Sample(place, p) \in Nat
  PROVE  Joined(place, bpp)
<1> SUFFICES ASSUME NEW first \in Nat, NEW l \in 0..16, NEW m \in 0..16, l + m <= 16
             PROVE  BitsFrom(place, bpp, first)[l + m] =
                      BitsFrom(place, bpp, first)[l] * 2^m + BitsFrom(place, bpp, first + l)[m]
  BY DEF Joined
<1>1. PICK c : c = BitsFrom(place, bpp, first)
  OBVIOUS
<1>2. PICK d : d = BitsFrom(place, bpp, first + l)
  OBVIOUS
<1> DEFINE B(b) == StoredBit(place, bpp, b)
<1>3. /\ \A k \in 1..16 : c[k] = 2 * c[k - 1] + B(first + (k - 1))
      /\ \A k \in 0..16 : c[k] \in Nat
  BY <1>1, BitsFromIs
<1>4. /\ d[0] = 0
      /\ \A k \in 1..16 : d[k] = 2 * d[k - 1] + B((first + l) + (k - 1))
      /\ \A k \in 0..16 : d[k] \in Nat
  <2>1. first + l \in Nat
    OBVIOUS
  <2> QED BY <1>2, <2>1, BitsFromIs
<1> DEFINE P == {k \in Nat : l + k <= 16 => c[l + k] = c[l] * 2^k + d[k]}
<1>5. 0 \in P
  <2>1. l + 0 = l /\ c[l] * 1 + 0 = c[l]
    BY <1>3
  <2> QED BY <1>4, <2>1, Powers
<1>6. ASSUME NEW k \in Nat, k \in P PROVE k + 1 \in P
  <2> HIDE DEF B
  <2>1. SUFFICES ASSUME l + (k + 1) <= 16 PROVE c[l + (k + 1)] = c[l] * 2^(k + 1) + d[k + 1]
    OBVIOUS
  <2>2. PICK i1, j1, b : i1 = l + k /\ j1 = k + 1 /\ b = (first + l) + k
    OBVIOUS
  <2>3. /\ i1 \in 0..15 /\ i1 + 1 \in 1..16 /\ (i1 + 1) - 1 = i1 /\ first + i1 = b
        /\ k \in 0..15 /\ j1 \in 1..16 /\ j1 - 1 = k /\ l + (k + 1) = i1 + 1
    BY <2>1, <2>2
  <2>4. c[i1 + 1] = 2 * c[i1] + B(b)
    BY <1>3, <2>3
  <2>5. d[j1] = 2 * d[k] + B(b)
    BY <1>4, <2>2, <2>3
  <2>6. B(b) \in 0..1
    <3>1. b \in Nat
      BY <2>2
    <3> QED BY <3>1, BitsAre DEF B
  <2>7. c[i1] = c[l] * 2^k + d[k]
    BY <1>6, <2>1, <2>2
  <2>8. PICK u, v, w, x, y, z, e, f : /\ u = c[i1] /\ v = c[l] /\ w = d[k] /\ x = 2^k /\ y = 2^j1
                                   /\ z = B(b) /\ e = c[i1 + 1] /\ f = d[j1]
    OBVIOUS
  <2>9. /\ u \in Nat /\ v \in Nat /\ w \in Nat /\ z \in Nat
        /\ x \in Nat /\ y = 2 * x
    <3>1. u \in Nat /\ v \in Nat /\ w \in Nat /\ z \in Nat
      BY <1>3, <1>4, <2>2, <2>3, <2>6, <2>8
    <3>2. 2^k \in Nat /\ 2^(k + 1) = 2 * 2^k
      BY <2>3, Powers
    <3> QED BY <2>2, <2>8, <3>1, <3>2
  <2>10. e = 2 * u + z /\ f = 2 * w + z /\ u = v * x + w
    BY <2>4, <2>5, <2>7, <2>8
  <2>11. e = v * y + f
    BY <2>9, <2>10
  <2> QED BY <2>2, <2>3, <2>8, <2>11
<1>7. Nat \subseteq P
  <2> HIDE DEF P
  <2> QED BY <1>5, <1>6, SetInduction
<1>8. c[l + m] = c[l] * 2^m + d[m]
  BY <1>7
<1> QED BY <1>1, <1>2, <1>8

(* A number of bits is as large as fits into them. *)
LEMMA BitsFit ==
  ASSUME NEW place, NEW bpp \in 1..16,
         \A p \in 0..Pixels - 1 : Sample(place, p) \in Nat,
         NEW first \in Nat, NEW l \in 0..16
  PROVE  BitsFrom(place, bpp, first)[l] \in Nat /\ BitsFrom(place, bpp, first)[l] < 2^l
<1>1. PICK c : c = BitsFrom(place, bpp, first)
  OBVIOUS
<1>2. /\ c[0] = 0
      /\ \A k \in 1..16 : c[k] = 2 * c[k - 1] + StoredBit(place, bpp, first + (k - 1))
      /\ \A k \in 0..16 : c[k] \in Nat
  BY <1>1, BitsFromIs
<1> DEFINE P == {k \in Nat : k <= 16 => c[k] < 2^k}
<1>3. 0 \in P
  BY <1>2, Powers
<1>4. ASSUME NEW k \in Nat, k \in P PROVE k + 1 \in P
  <2>1. SUFFICES ASSUME k + 1 <= 16 PROVE c[k + 1] < 2^(k + 1)
    OBVIOUS
  <2>2. PICK j : j = k + 1
    OBVIOUS
  <2>3. k \in 0..15 /\ j \in 1..16 /\ j - 1 = k /\ first + k \in Nat
    BY <2>1, <2>2
  <2>4. PICK z : z = StoredBit(place, bpp, first + k)
    OBVIOUS
  <2>5. z \in 0..1
    BY <2>3, <2>4, BitsAre
  <2>6. c[j] = 2 * c[k] + z
    BY <1>2, <2>3, <2>4
  <2>7. c[k] < 2^k /\ c[k] \in Nat
    BY <1>2, <1>4, <2>1
  <2>8. PICK x, y : x = 2^k /\ y = 2^j
    OBVIOUS
  <2>9. x \in Nat /\ y = 2 * x
    BY <2>2, <2>3, <2>8, Powers
  <2>10. c[j] < y
    BY <2>5, <2>6, <2>7, <2>8, <2>9
  <2> QED BY <2>2, <2>8, <2>10
<1>5. Nat \subseteq P
  <2> HIDE DEF P
  <2> QED BY <1>3, <1>4, SetInduction
<1> QED BY <1>1, <1>2, <1>5

(* The first bits of a sample. *)
LEMMA SampleBits ==
  ASSUME NEW place, NEW bpp \in 1..16,
         \A p \in 0..Pixels - 1 : Sample(place, p) \in Nat,
         NEW pixel \in 0..Pixels - 1
  PROVE  /\ BitsFrom(place, bpp, pixel * bpp)[bpp] = Camera(place, bpp, pixel)
         /\ Camera(place, bpp, pixel) \in Nat /\ Camera(place, bpp, pixel) < 2^bpp
<1>1. PICK v, n1 : v = Camera(place, bpp, pixel) /\ n1 = Pixels
  OBVIOUS
<1>2. n1 \in Int /\ pixel \in 0..n1 - 1
  BY <1>1, FrameAssumption DEF Pixels
<1>3. pixel * bpp \in Nat
  BY <1>2
<1>4. PICK c : c = BitsFrom(place, bpp, pixel * bpp)
  OBVIOUS
<1>5. /\ c[0] = 0
      /\ \A k \in 1..16 : c[k] = 2 * c[k - 1] + StoredBit(place, bpp, (pixel * bpp) + (k - 1))
      /\ \A k \in 0..16 : c[k] \in Nat
  BY <1>3, <1>4, BitsFromIs
<1>6. 2^bpp \in Nat \ {0}
  <2>1. bpp \in 0..16 /\ 0 \in 0..16 /\ bpp + 0 <= 16
    OBVIOUS
  <2> QED BY <2>1, PowerOfSum
<1>7. v \in Nat /\ v < 2^bpp
  <2>1. PICK s, y : s = Sample(place, pixel) /\ y = 2^bpp
    OBVIOUS
  <2>2. s % y \in 0..y - 1 /\ y \in Nat
    BY <1>6, <2>1
  <2> QED BY <1>1, <2>1, <2>2 DEF Camera
<1>8. ASSUME NEW k \in 0..bpp - 1
      PROVE  StoredBit(place, bpp, pixel * bpp + k) = (v \div 2^(bpp - 1 - k)) % 2
  <2>1. (pixel * bpp + k) \div bpp = pixel /\ (pixel * bpp + k) % bpp = k
    <3>1. pixel \in Nat /\ bpp \in Nat /\ k \in Nat /\ k < bpp
      BY <1>2
    <3> QED BY <3>1, Quotient
  <2>2. pixel * bpp + k < n1 * bpp
    <3>1. pixel * bpp <= (n1 - 1) * bpp
      BY <1>2
    <3>2. (n1 - 1) * bpp = n1 * bpp - bpp
      BY <1>2
    <3> QED BY <1>2, <1>3, <3>1, <3>2
  <2> QED BY <1>1, <2>1, <2>2 DEF StoredBit
<1> DEFINE P == {k \in Nat : k <= bpp => c[k] = v \div 2^(bpp - k)}
<1>9. 0 \in P
  <2>1. PICK y : y = 2^bpp
    OBVIOUS
  <2>2. v \div y = 0
    BY <1>6, <1>7, <2>1
  <2>3. bpp - 0 = bpp
    OBVIOUS
  <2> QED BY <1>5, <2>1, <2>2, <2>3
<1>10. ASSUME NEW k \in Nat, k \in P PROVE k + 1 \in P
  <2>1. SUFFICES ASSUME k + 1 <= bpp PROVE c[k + 1] = v \div 2^(bpp - (k + 1))
    OBVIOUS
  <2>2. PICK j, e : j = k + 1 /\ e = bpp - 1 - k
    OBVIOUS
  <2>3. /\ j \in 1..16 /\ j - 1 = k /\ k \in 0..bpp - 1 /\ e \in 0..15
        /\ bpp - k = e + 1 /\ bpp - (k + 1) = e
    BY <2>1, <2>2
  <2>4. c[k] = v \div 2^(e + 1)
    BY <1>10, <2>1, <2>3
  <2>5. c[j] = 2 * c[k] + ((v \div 2^e) % 2)
    <3>1. c[j] = 2 * c[k] + StoredBit(place, bpp, (pixel * bpp) + k)
      BY <1>5, <2>3
    <3>2. StoredBit(place, bpp, pixel * bpp + k) = (v \div 2^e) % 2
      BY <1>8, <2>2, <2>3
    <3> QED BY <3>1, <3>2
  <2>6. PICK x, y : x = 2^e /\ y = 2^(e + 1)
    OBVIOUS
  <2>7. x \in Nat \ {0} /\ y = 2 * x
    BY <2>3, <2>6, Powers
  <2>8. v \div x = 2 * (v \div (2 * x)) + ((v \div x) % 2)
    BY <1>7, <2>7, DigitMore
  <2>9. c[j] = v \div x
    BY <2>4, <2>5, <2>6, <2>7, <2>8
  <2> QED BY <2>2, <2>3, <2>6, <2>9
<1>11. Nat \subseteq P
  <2> HIDE DEF P
  <2> QED BY <1>9, <1>10, SetInduction
<1>12. c[bpp] = v
  <2>1. bpp \in P /\ bpp <= bpp
    <3>1. bpp \in Nat /\ bpp <= bpp
      OBVIOUS
    <3> QED BY <1>11, <3>1
  <2>2. c[bpp] = v \div 2^(bpp - bpp)
    BY <2>1
  <2>3. bpp - bpp = 0 /\ v \div 1 = v
    BY <1>7
  <2> QED BY <2>2, <2>3, Powers
<1> QED BY <1>1, <1>4, <1>7, <1>12

(* The words that a pixel is in are read. *)
LEMMA WordsAreRead ==
  ASSUME NEW bpp \in {8, 10, 12, 14}, NEW pixel \in 0..Pixels - 1, Pixels % 2 = 0
  PROVE  /\ (pixel * bpp) \div 16 \in 0..((Pixels + 2) * bpp) \div 16 - 1
         /\ (pixel * bpp) \div 16 + 1 \in 0..((Pixels + 2) * bpp) \div 16 - 1
<1>1. PICK n1 : n1 = Pixels
  OBVIOUS
<1>2. n1 \in Int /\ pixel \in 0..n1 - 1 /\ n1 % 2 = 0
  BY <1>1, FrameAssumption DEF Pixels
<1>3. CASE bpp = 8
  BY <1>1, <1>2, <1>3
<1>4. CASE bpp = 10
  BY <1>1, <1>2, <1>4
<1>5. CASE bpp = 12
  BY <1>1, <1>2, <1>5
<1>6. CASE bpp = 14
  BY <1>1, <1>2, <1>6
<1> QED BY <1>3, <1>4, <1>5, <1>6

(* The rotation leaves the bits of a sample in the low word, from whichever *)
(* bit on it is stored.                                                    *)
Leaves(place, bpp) ==
  \A w \in Nat : \A s \in 0..15 :
    LowWordOfROR(StoredWord(place, bpp, w), StoredWord(place, bpp, w + 1),
                 16 + ((32 - bpp) - s)) % 2^bpp
      = BitsFrom(place, bpp, 16 * w + s)[bpp]

(* Both words are fetched, and swapped when the sample goes on in the second. *)
LEMMA Rotated ==
  ASSUME NEW place, NEW bpp \in 1..15,
         \A p \in 0..Pixels - 1 : Sample(place, p) \in Nat
  PROVE  Leaves(place, bpp)
<1> SUFFICES ASSUME NEW w \in Nat, NEW s \in 0..15
             PROVE  LowWordOfROR(StoredWord(place, bpp, w), StoredWord(place, bpp, w + 1),
                                 16 + ((32 - bpp) - s)) % 2^bpp
                      = BitsFrom(place, bpp, 16 * w + s)[bpp]
  BY DEF Leaves
<1> DEFINE N(first) == BitsFrom(place, bpp, first)
<1>1. PICK a, b, low, high : /\ a = 16 * w /\ b = a + s
                             /\ low = StoredWord(place, bpp, w) /\ high = StoredWord(place, bpp, w + 1)
  OBVIOUS
<1>2. a \in Nat /\ b \in Nat /\ a + 16 \in Nat /\ 16 * (w + 1) = a + 16
  BY <1>1
<1>3. low = N(a)[16] /\ high = N(a + 16)[16]
  BY <1>1, <1>2 DEF StoredWord
<1> HIDE DEF N
<1>0. bpp \in 1..16
  OBVIOUS
<1>4. \A first \in Nat : \A l \in 0..16 : N(first)[l] \in Nat /\ N(first)[l] < 2^l
  BY <1>0, BitsFit DEF N
<1>5. \A first \in Nat : \A l \in 0..16 : \A m \in 0..16 :
        l + m <= 16 => N(first)[l + m] = N(first)[l] * 2^m + N(first + l)[m]
  <2>1. Joined(place, bpp)
    BY <1>0, BitsJoined
  <2> QED BY <2>1 DEF Joined, N
<1>6. \A k \in 0..16 : 2^k \in Nat \ {0}
  <2> SUFFICES ASSUME NEW k \in 0..16 PROVE 2^k \in Nat \ {0}
    OBVIOUS
  <2>1. 0 \in 0..16 /\ k + 0 <= 16
    OBVIOUS
  <2> QED BY <2>1, PowerOfSum
<1>7. CASE bpp + s <= 16
  <2>1. PICK t : t = 16 - bpp - s
    OBVIOUS
  <2>2. PICK bits : bits = 16 + ((32 - bpp) - s)
    OBVIOUS
  <2>3. t \in 0..16 /\ t < 16 /\ bits = 32 + t /\ bits % 16 = t /\ bits % 32 = t
    BY <1>7, <2>1, <2>2
  <2>4. LowWordOfROR(low, high, bits) = low \div 2^t + (high % 2^t) * 2^(16 - t)
    BY <2>3 DEF LowWordOfROR
  <2>5. PICK U, C, V, A, T, S : /\ U = N(a)[s] /\ C = N(b)[bpp] /\ V = N(a + (s + bpp))[t]
                                /\ A = 2^bpp /\ T = 2^t /\ S = 2^s
    OBVIOUS
  <2>6. low = (U * A + C) * T + V
    <3>1. s + bpp \in 0..16 /\ t \in 0..16 /\ (s + bpp) + t <= 16 /\ (s + bpp) + t = 16
      BY <1>7, <2>1
    <3>2. N(a)[(s + bpp) + t] = N(a)[s + bpp] * 2^t + N(a + (s + bpp))[t]
      BY <1>2, <1>5, <3>1
    <3>3. s \in 0..16 /\ bpp \in 0..16 /\ s + bpp <= 16
      BY <1>7
    <3>4. N(a)[s + bpp] = N(a)[s] * 2^bpp + N(a + s)[bpp]
      BY <1>2, <1>5, <3>3
    <3> QED BY <1>1, <1>3, <2>5, <3>1, <3>2, <3>4
  <2>7. /\ U \in Nat /\ C \in Nat /\ V \in Nat /\ C < A /\ V < T
        /\ A \in Nat /\ T \in Nat /\ S \in Nat /\ high \in Nat
    <3>1. s \in 0..16 /\ bpp \in 0..16 /\ a + (s + bpp) \in Nat
      BY <1>2
    <3>2. 16 \in 0..16
      OBVIOUS
    <3>3. high \in Nat
      BY <1>2, <1>3, <1>4, <3>2
    <3>4. A \in Nat /\ T \in Nat /\ S \in Nat
      BY <1>6, <2>3, <2>5, <3>1
    <3>5. U \in Nat /\ C \in Nat /\ V \in Nat /\ C < A /\ V < T
      BY <1>2, <1>4, <2>3, <2>5, <3>1
    <3> QED BY <3>3, <3>4, <3>5
  <2>8. 2^(16 - t) = S * A
    <3>1. s \in 0..16 /\ bpp \in 0..16 /\ s + bpp <= 16 /\ 16 - t = s + bpp
      BY <1>7, <2>1
    <3> QED BY <2>5, <3>1, PowerOfSum
  <2>9. (low \div T + (high % T) * (S * A)) % A = C
    <3>1. OneWord(low, high, U, C, V, A, T, S)
      BY <2>6, <2>7 DEF OneWord
    <3> QED BY <3>1, InOneWord
  <2>10. LowWordOfROR(low, high, bits) % 2^bpp = N(b)[bpp]
    BY <2>4, <2>5, <2>8, <2>9
  <2> QED BY <1>1, <2>2, <2>10 DEF N
<1>8. CASE bpp + s > 16
  <2>1. PICK t : t = 32 - bpp - s
    OBVIOUS
  <2>2. PICK bits : bits = 16 + ((32 - bpp) - s)
    OBVIOUS
  <2>3. t \in 0..15 /\ t + s >= 16 /\ bits = 16 + t /\ bits % 16 = t /\ bits % 32 >= 16
    BY <1>8, <2>1, <2>2
  <2>4. LowWordOfROR(low, high, bits) = high \div 2^t + (low % 2^t) * 2^(16 - t)
    BY <2>3 DEF LowWordOfROR
  <2>5. PICK g, e, f : g = t + s - 16 /\ e = 16 - s /\ f = 16 - t
    OBVIOUS
  <2>6. /\ g \in 0..16 /\ e \in 0..16 /\ f \in 0..16 /\ g + e = t /\ e + f = bpp
        /\ f + t = 16 /\ s + e = 16 /\ s \in 0..16 /\ t \in 0..16 /\ b + e = a + 16
    BY <1>1, <1>2, <2>1, <2>3, <2>5
  <2>7. PICK U, R, D, V, E, F, G, T : /\ U = N(a)[s] /\ R = N(b)[e] /\ D = N(a + 16)[f]
                                      /\ V = N((a + 16) + f)[t]
                                      /\ E = 2^e /\ F = 2^f /\ G = 2^g /\ T = 2^t
    OBVIOUS
  <2>8. low = U * E + R
    <3>1. a \in Nat /\ s \in 0..16 /\ e \in 0..16 /\ s + e <= 16
      BY <1>2, <2>6
    <3>2. N(a)[s + e] = N(a)[s] * 2^e + N(a + s)[e]
      BY <1>5, <3>1
    <3> QED BY <1>1, <1>3, <2>6, <2>7, <3>2
  <2>9. high = D * T + V
    <3>1. a + 16 \in Nat /\ f \in 0..16 /\ t \in 0..16 /\ f + t <= 16
      BY <1>2, <2>6
    <3>2. N(a + 16)[f + t] = N(a + 16)[f] * 2^t + N((a + 16) + f)[t]
      BY <1>5, <3>1
    <3> QED BY <1>3, <2>6, <2>7, <3>2
  <2>10. N(b)[bpp] = R * F + D
    <3>1. b \in Nat /\ e \in 0..16 /\ f \in 0..16 /\ e + f <= 16
      BY <1>2, <2>6
    <3>2. N(b)[e + f] = N(b)[e] * 2^f + N(b + e)[f]
      BY <1>5, <3>1
    <3> QED BY <2>6, <2>7, <3>2
  <2>11. G * E = T /\ E * F = 2^bpp
    <3>1. g + e <= 16 /\ e + f <= 16
      BY <2>6
    <3>2. 2^(g + e) = 2^g * 2^e
      BY <2>6, <3>1, PowerOfSum
    <3>3. 2^(e + f) = 2^e * 2^f
      BY <2>6, <3>1, PowerOfSum
    <3> QED BY <2>6, <2>7, <3>2, <3>3
  <2>12. /\ U \in Nat /\ R \in Nat /\ D \in Nat /\ V \in Nat /\ R < E /\ D < F /\ V < T
         /\ E \in Nat /\ F \in Nat /\ G \in Nat /\ T \in Nat /\ G # 0
    <3>1. (a + 16) + f \in Nat
      BY <1>2, <2>6
    <3>2. /\ U \in Nat /\ R \in Nat /\ D \in Nat /\ V \in Nat /\ R < E /\ D < F /\ V < T
      BY <1>2, <1>4, <2>6, <2>7, <3>1
    <3>3. E \in Nat /\ F \in Nat /\ G \in Nat /\ T \in Nat /\ G # 0
      BY <1>6, <2>6, <2>7
    <3> QED BY <3>2, <3>3
  <2>13. (high \div T + (low % T) * F) % (E * F) = R * F + D
    <3>1. TwoWords(low, high, U, R, D, V, E, F, G, T)
      BY <2>8, <2>9, <2>11, <2>12 DEF TwoWords
    <3> QED BY <3>1, InTwoWords
  <2>14. (high \div 2^t + (low % 2^t) * 2^(16 - t)) % 2^bpp = N(b)[bpp]
    BY <2>5, <2>7, <2>10, <2>11, <2>13
  <2> QED BY <1>1, <2>2, <2>4, <2>14 DEF N
<1> QED BY <1>7, <1>8

(* What is unpacked for a pixel is what the camera packed. *)
LEMMA UnpackedIs ==
  ASSUME NEW place, NEW bpp \in {8, 10, 12, 14},
         \A p \in 0..Pixels - 1 : Sample(place, p) \in Nat, Pixels % 2 = 0,
         NEW pixel \in 0..Pixels - 1
  PROVE  Unpacked(PackedBits(place, bpp), bpp, pixel) = Camera(place, bpp, pixel)
<1>1. PICK packed : packed = PackedBits(place, bpp)
  OBVIOUS
<1>2. PICK b, w, s : b = pixel * bpp /\ w = b \div 16 /\ s = b % 16
  OBVIOUS
<1>3. b \in Nat /\ w \in Nat /\ s \in 0..15 /\ b = 16 * w + s /\ bpp \in 1..15 /\ bpp \in 1..16
  <2>1. b \in Nat
    BY <1>2, FrameAssumption DEF Pixels
  <2> QED BY <1>2, <2>1
<1>4. /\ w \in DOMAIN packed /\ packed[w] = StoredWord(place, bpp, w)
      /\ w + 1 \in DOMAIN packed /\ packed[w + 1] = StoredWord(place, bpp, w + 1)
  BY <1>1, <1>2, WordsAreRead DEF PackedBits
<1>5. Unpacked(packed, bpp, pixel) =
        LowWordOfROR(packed[w], packed[w + 1], 16 + ((32 - bpp) - s)) % 2^bpp
  BY <1>2, <1>4 DEF Unpacked
<1>6. LowWordOfROR(StoredWord(place, bpp, w), StoredWord(place, bpp, w + 1),
                   16 + ((32 - bpp) - s)) % 2^bpp
        = BitsFrom(place, bpp, b)[bpp]
  <2>1. Leaves(place, bpp)
    BY <1>3, Rotated
  <2>2. 16 * w + s = b
    BY <1>3
  <2>3. LowWordOfROR(StoredWord(place, bpp, w), StoredWord(place, bpp, w + 1),
                     16 + ((32 - bpp) - s)) % 2^bpp
          = BitsFrom(place, bpp, 16 * w + s)[bpp]
    BY <1>3, <2>1 DEF Leaves
  <2> QED BY <2>2, <2>3
<1>7. BitsFrom(place, bpp, b)[bpp] = Camera(place, bpp, pixel)
  BY <1>2, <1>3, SampleBits
<1> QED BY <1>1, <1>4, <1>5, <1>6, <1>7


(* An entry of the index is at a block of the recording. *)
LEMMA PlaceOfBlock ==
  ASSUME IndexInv, NEW j \in 1..Len(table)
  PROVE  \E c \in DOMAIN chunks : \E k \in DOMAIN chunks[c] :
           Place(table[j]) = <<c, k>> /\ Kind(j) = chunks[c][k].type
<1>1. OnlyBlocks /\ j \in DOMAIN table
  BY EntriesAre DEF IndexInv
<1>2. PICK c \in DOMAIN chunks : \E k \in DOMAIN chunks[c] : table[j] = EntryOf(c, k)
  BY <1>1 DEF OnlyBlocks, IsBlock
<1>3. PICK k \in DOMAIN chunks[c] : table[j] = EntryOf(c, k)
  BY <1>2
<1>4. table[j].chunk = c /\ table[j].at = k
  BY <1>3 DEF EntryOf
<1> QED BY <1>4 DEF Place, Kind, BlockOf

(* The header that is found last is one. *)
LEMMA LatestIsBlock ==
  ASSUME IndexInv, phase = "ready", NEW h \in FrameHeaders
  PROVE  \A m \in 0..Len(table) :
           Latest(Among(m, {h})) # None =>
             \E j \in 1..Len(table) : Kind(j) = h /\ Latest(Among(m, {h})) = Place(table[j])
<1> DEFINE Found(x) == x # None => \E j \in 1..Len(table) : Kind(j) = h /\ x = Place(table[j])
           P == {m \in Nat : m <= Len(table) => Found(Latest(Among(m, {h})))}
<1>1. Len(table) \in Nat
  BY EntriesAre
<1>2. 0 \in P
  <2>1. Among(0, {h}) = {}
    BY DEF Among
  <2> QED BY <2>1 DEF Latest
<1> HIDE DEF Found
<1>3. ASSUME NEW m \in Nat, m \in P PROVE m + 1 \in P
  <2>1. SUFFICES ASSUME m + 1 <= Len(table) PROVE Found(Latest(Among(m + 1, {h})))
    OBVIOUS
  <2>2. PICK k : k = m + 1
    OBVIOUS
  <2>3. k \in 1..Len(table) /\ k - 1 = m /\ m <= Len(table)
    BY <1>1, <2>1, <2>2
  <2>4. Found(Latest(Among(m, {h})))
    BY <1>3, <2>3
  <2>5. Latest(Among(k, {h})) = IF Kind(k) = h THEN Place(table[k]) ELSE Latest(Among(m, {h}))
    BY <2>3, HeadersNext
  <2>6. Found(Latest(Among(k, {h})))
    BY <2>3, <2>4, <2>5 DEF Found
  <2> QED BY <2>2, <2>6
<1>4. Nat \subseteq P
  <2> HIDE DEF P
  <2> QED BY <1>2, <1>3, SetInduction
<1>5. \A m \in 0..Len(table) : Found(Latest(Among(m, {h})))
  BY <1>1, <1>4
<1> QED BY <1>5 DEF Found

(* A piece of a .dng is cut out of the header and the data behind it. *)
LEMMA PieceOfDng ==
  ASSUME NEW data, NEW offset \in 0..DngHeaderSize + 2 * Pixels, NEW size \in Nat
  PROVE  mlvfs_read(data, offset, size) =
           [k \in 0..Smaller(size, (DngHeaderSize + 2 * Pixels) - offset) - 1 |->
              IF offset + k < DngHeaderSize THEN DngByte(offset + k)
              ELSE data[offset + k - DngHeaderSize]]
<1>1. PICK H, fs, rest, rs : /\ H = DngHeaderSize /\ fs = DngHeaderSize + 2 * Pixels
                             /\ rest = fs - offset /\ rs = Smaller(size, rest)
  OBVIOUS
<1>2. H \in Nat /\ fs \in Nat /\ offset \in Nat /\ offset <= fs /\ rest \in Nat
  <2>1. Width \in Nat /\ Height \in Nat
    BY FrameAssumption
  <2>2. Width * Height \in Nat
    BY <2>1
  <2>3. DngHeaderSize \in Nat
    BY FrameAssumption
  <2>4. fs = DngHeaderSize + 2 * (Width * Height) /\ offset \in 0..fs
    BY <1>1 DEF Pixels
  <2>5. H \in Nat /\ fs \in Nat
    BY <1>1, <2>2, <2>3, <2>4
  <2> QED BY <1>1, <2>4, <2>5
<1>3. Smaller(offset, fs) = offset
  BY <1>2 DEF Smaller
<1>4. rs \in Nat /\ rs <= rest
  BY <1>1, <1>2 DEF Smaller
<1> DEFINE remaining == IF offset < H THEN Smaller(rs, H - offset) ELSE 0
           first == IF offset < H THEN 0 ELSE offset - H
<1>5. mlvfs_read(data, offset, size) =
        [k \in 0..rs - 1 |-> IF k < remaining THEN DngByte(offset + k)
                             ELSE data[first + k - remaining]]
  BY <1>1, <1>3 DEF mlvfs_read
<1>6. ASSUME NEW k \in 0..rs - 1
      PROVE  /\ k < remaining <=> offset + k < H
             /\ ~ (k < remaining) => first + k - remaining = offset + k - H
  <2>1. CASE offset < H
    <3>1. CASE rs <= H - offset
      BY <1>2, <1>4, <2>1, <3>1 DEF Smaller
    <3>2. CASE ~ (rs <= H - offset)
      BY <1>2, <1>4, <2>1, <3>2 DEF Smaller
    <3> QED BY <3>1, <3>2
  <2>2. CASE ~ (offset < H)
    BY <1>2, <1>4, <2>2
  <2> QED BY <2>1, <2>2
<1> HIDE DEF remaining, first
<1>7. mlvfs_read(data, offset, size) =
        [k \in 0..rs - 1 |-> IF offset + k < H THEN DngByte(offset + k) ELSE data[offset + k - H]]
  BY <1>5, <1>6
<1> QED BY <1>1, <1>7

(* The samples of the frame at a place, each in two bytes. *)
SampleBytes(data, place, bpp) ==
  \A k \in 0..2 * Pixels - 1 :
    data[k] = PixelByte(Camera(place, bpp, k \div 2), k % 2)

(* These are the data of the image buffer. *)
LEMMA ProcessFrameIs ==
  ASSUME NEW headers, NEW place, NEW rawi, NEW bpp,
         headers.frame = place, headers.header["RAWI"] = rawi,
         bpp = chunks[rawi[1]][rawi[2]].size, bpp \in {8, 10, 12, 14},
         \A p \in 0..Pixels - 1 : Sample(place, p) \in Nat
  PROVE  SampleBytes(process_frame(headers), place, bpp)
<1> SUFFICES ASSUME NEW k \in 0..2 * Pixels - 1
             PROVE  process_frame(headers)[k] = PixelByte(Camera(place, bpp, k \div 2), k % 2)
  BY DEF SampleBytes
<1>1. PICK N, p : N = Pixels /\ p = k \div 2
  OBVIOUS
<1>2. N \in Nat
  <2>1. Width \in Nat /\ Height \in Nat
    BY FrameAssumption
  <2>2. Width * Height \in Nat
    BY <2>1
  <2> QED BY <1>1, <2>2 DEF Pixels
<1>3. p \in 0..N - 1
  BY <1>1, <1>2
<1> DEFINE packed == PackedBits(place, bpp)
<1>4. process_frame(headers)[k] =
        IF Unpacked(packed, bpp, p) = None THEN Garbage
        ELSE PixelByte(Unpacked(packed, bpp, p), k % 2)
  BY <1>1, <1>3 DEF process_frame
<1>5. Unpacked(packed, bpp, p) = Camera(place, bpp, p)
  BY <1>1, <1>3, UnpackedIs, FormatAssumption
<1>6. Camera(place, bpp, p) # None
  <2>1. bpp \in 1..16
    OBVIOUS
  <2>2. Camera(place, bpp, p) \in Nat
    BY <1>1, <1>3, <2>1, SampleBits
  <2> QED BY <2>2, FrameAssumption
<1> QED BY <1>1, <1>4, <1>5, <1>6

(* The recording is one of those that may be opened. *)
LEMMA Opened == Spec => [](chunks \in Recordings)
<1>1. Init => chunks \in Recordings
  BY DEF Init
<1>2. chunks \in Recordings /\ [Next]_vars => (chunks \in Recordings)'
  <2>1. [Next]_vars => chunks' = chunks
    BY DEF Next, vars, IndexBlock, SkipNull, EndChunk, StartSort, Swap, Pass, EndPass, Finished
  <2> QED BY <2>1
<1> QED BY <1>1, <1>2, PTL DEF Spec

(* A piece of a .dng has the right bytes wherever it is cut out (mlvfs_read *)
(* of main.c, dng_get_image_data of dng.c): those of the header, then the   *)
(* samples that the camera packed, for frames of any size and each of the   *)
(* numbers of bits the unpacking is compiled for, and nothing from behind.  *)
THEOREM DngAlwaysFrame == Spec => []DngIsFrame
<1>1. ASSUME IndexInv, HeadersInForce, chunks \in Recordings PROVE DngIsFrame
  <2> DEFINE frames == BlocksOf({"VIDF"})
             file_size == DngHeaderSize + 2 * Pixels
             rawi(entry) == Latest(Before(entry, BlocksOf({"RAWI"})))
             headers(entry) == mlv_get_frame_headers(Cardinality(Before(entry, frames)))
             Pixel(entry, p) == Camera(Place(entry), chunks[rawi(entry)[1]][rawi(entry)[2]].size, p)
             file(entry) == [p \in 0..file_size - 1 |->
                               IF p < DngHeaderSize THEN DngByte(p)
                               ELSE PixelByte(Pixel(entry, (p - DngHeaderSize) \div 2),
                                              (p - DngHeaderSize) % 2)]
             Right(entry, offset, size) ==
               mlvfs_read(process_frame(headers(entry)), offset, size) =
                 [k \in 0..Smaller(size, file_size - offset) - 1 |-> file(entry)[offset + k]]
  <2>1. SUFFICES ASSUME phase = "ready", NEW entry \in frames, rawi(entry) # None,
                        NEW offset \in 0..file_size, NEW size \in ReadSizes
                 PROVE  Right(entry, offset, size)
    BY DEF DngIsFrame
  <2>2. PICK place, r, bpp : /\ place = Place(entry) /\ r = rawi(entry)
                             /\ bpp = chunks[r[1]][r[2]].size
    OBVIOUS
  <2>3. PICK m \in 1..Len(table) : Kind(m) \in {"VIDF"} /\ entry = table[m]
    <3>1. frames = Among(Len(table), {"VIDF"})
      BY <1>1, <2>1, BlocksAre
    <3> QED BY <2>1, <3>1 DEF Among
  <2>4. r = Latest(Among(m - 1, {"RAWI"})) /\ r # None
    BY <1>1, <2>1, <2>2, <2>3, BeforeIs
  <2>5. headers(entry).frame = place /\ headers(entry).header["RAWI"] = r
    <3> HIDE DEF headers
    <3>1. headers(entry) = [frame  |-> Place(entry),
                            header |-> [h \in FrameHeaders |-> Latest(Before(entry, BlocksOf({h})))]]
      BY <1>1, <2>1 DEF HeadersInForce, headers
    <3>2. "RAWI" \in FrameHeaders
      BY DEF FrameHeaders
    <3> QED BY <2>2, <3>1, <3>2
  <2>6. bpp \in {8, 10, 12, 14}
    <3>1. m - 1 \in 0..Len(table) /\ "RAWI" \in FrameHeaders
      BY <1>1, <2>3, EntriesAre DEF FrameHeaders
    <3>2. PICK j \in 1..Len(table) : Kind(j) = "RAWI" /\ r = Place(table[j])
      BY <1>1, <2>1, <2>4, <3>1, LatestIsBlock
    <3>3. PICK c \in DOMAIN chunks : \E k \in DOMAIN chunks[c] :
            Place(table[j]) = <<c, k>> /\ Kind(j) = chunks[c][k].type
      BY <1>1, PlaceOfBlock
    <3>4. PICK k \in DOMAIN chunks[c] : Place(table[j]) = <<c, k>> /\ Kind(j) = chunks[c][k].type
      BY <3>3
    <3>5. r[1] = c /\ r[2] = k
      BY <3>2, <3>4
    <3>6. chunks[c][k].type = "RAWI" => chunks[c][k].size \in {8, 10, 12, 14}
      BY <1>1, FormatAssumption
    <3> QED BY <2>2, <3>2, <3>4, <3>5, <3>6
  <2>7. \A p \in 0..Pixels - 1 : Sample(place, p) \in Nat
    <3>1. PICK c \in DOMAIN chunks : \E k \in DOMAIN chunks[c] :
            Place(table[m]) = <<c, k>> /\ Kind(m) = chunks[c][k].type
      BY <1>1, PlaceOfBlock
    <3>2. PICK k \in DOMAIN chunks[c] : Place(table[m]) = <<c, k>>
      BY <3>1
    <3>3. \A p \in 0..Pixels - 1 : Sample(<<c, k>>, p) \in Nat
      BY <1>1, FormatAssumption, Zenon
    <3> QED BY <2>2, <2>3, <3>2, <3>3
  <2>8. PICK data : data = process_frame(headers(entry))
    OBVIOUS
  <2>9. \A k \in 0..2 * Pixels - 1 : data[k] = PixelByte(Camera(place, bpp, k \div 2), k % 2)
    <3>1. PICK h : h = headers(entry)
      OBVIOUS
    <3>2. h.frame = place /\ h.header["RAWI"] = r
      BY <2>5, <3>1
    <3>3. SampleBytes(process_frame(h), place, bpp)
      BY <2>2, <2>6, <2>7, <3>2, ProcessFrameIs
    <3> QED BY <2>8, <3>1, <3>3 DEF SampleBytes
  <2>10. mlvfs_read(data, offset, size) =
           [k \in 0..Smaller(size, file_size - offset) - 1 |->
              IF offset + k < DngHeaderSize THEN DngByte(offset + k)
              ELSE data[offset + k - DngHeaderSize]]
    BY FrameAssumption, PieceOfDng
  <2>11. PICK f : f = file(entry)
    OBVIOUS
  <2>12. \A p \in 0..file_size - 1 :
           f[p] = IF p < DngHeaderSize THEN DngByte(p)
                  ELSE PixelByte(Camera(place, bpp, (p - DngHeaderSize) \div 2),
                                 (p - DngHeaderSize) % 2)
    BY <2>2, <2>11
  <2> HIDE DEF headers, file, rawi, frames
  <2>13. PICK N, H, fs, rs : /\ N = Pixels /\ H = DngHeaderSize /\ fs = file_size
                             /\ rs = Smaller(size, file_size - offset)
    OBVIOUS
  <2>14. /\ N \in Nat /\ H \in Nat /\ fs = H + 2 * N /\ offset \in 0..fs
         /\ rs \in Nat /\ rs <= fs - offset
    <3>1. Width \in Nat /\ Height \in Nat /\ DngHeaderSize \in Nat /\ size \in Nat
      BY FrameAssumption
    <3>2. N \in Nat
      BY <2>13, <3>1 DEF Pixels
    <3>3. H \in Nat /\ fs = H + 2 * N /\ offset \in 0..fs
      BY <2>13, <3>1
    <3>4. fs - offset \in Nat /\ rs = Smaller(size, fs - offset)
      BY <2>13, <3>2, <3>3
    <3> QED BY <3>1, <3>2, <3>3, <3>4 DEF Smaller
  <2>15. ASSUME NEW k \in 0..rs - 1
         PROVE  f[offset + k] = IF offset + k < H THEN DngByte(offset + k)
                                ELSE data[offset + k - H]
    <3>1. PICK p : p = offset + k
      OBVIOUS
    <3>2. p \in 0..fs - 1
      BY <2>14, <3>1
    <3>3. CASE p < H
      BY <2>12, <2>13, <3>1, <3>2, <3>3
    <3>4. CASE ~ (p < H)
      <4>1. PICK q : q = p - H
        OBVIOUS
      <4>2. q \in 0..2 * N - 1
        BY <2>14, <3>2, <3>4, <4>1
      <4>3. data[q] = PixelByte(Camera(place, bpp, q \div 2), q % 2)
        BY <2>9, <2>13, <4>2
      <4>4. f[p] = PixelByte(Camera(place, bpp, q \div 2), q % 2)
        BY <2>12, <2>13, <3>2, <3>4, <4>1
      <4>5. offset + k - H = q
        <5>1. offset \in Int /\ k \in Int /\ H \in Int
          BY <2>14
        <5> QED BY <3>1, <4>1, <5>1
      <4> QED BY <3>1, <3>4, <4>3, <4>4, <4>5
    <3> QED BY <3>3, <3>4
  <2>16. mlvfs_read(data, offset, size) = [k \in 0..rs - 1 |-> f[offset + k]]
    BY <2>10, <2>13, <2>15
  <2> QED BY <2>8, <2>11, <2>13, <2>16
<1>2. Init => IndexInv
  BY InitIndexInv
<1>3. IndexInv /\ [Next]_vars => IndexInv'
  BY NextIndexInv
<1> QED BY <1>1, <1>2, <1>3, Opened, HeadersAlwaysInForce, PTL DEF Spec
=============================================================================
