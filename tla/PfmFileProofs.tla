---------------------------- MODULE PfmFileProofs ----------------------------
(***************************************************************************)
(* Proofs about the contents of the temporary files of the Windows volume, *)
(* for any number of files, any size of blocks and of the largest file,    *)
(* and whatever is written: the volume counts the memory of the blocks     *)
(* exactly, and a file is a plain sequence of bytes to who reads it.       *)
(***************************************************************************)
EXTENDS PfmFile, FiniteSetTheorems, SequenceTheorems, TLAPS

(* Positions and blocks.                                                   *)

(* Multiplication by a positive number keeps the order. *)
LEMMA Product ==
  ASSUME NEW B \in Nat \ {0}, NEW m \in Int, NEW n \in Int
  PROVE  /\ m * B \in Int
         /\ m <= n <=> m * B <= n * B
         /\ m < n <=> m * B < n * B
         /\ (m + 1) * B = m * B + B
         /\ B * m = m * B
  OBVIOUS

(* A position is in one block, at one place of it. *)
LEMMA QuotientUnique ==
  ASSUME NEW B \in Nat \ {0}, NEW i \in Nat, NEW o \in 0..B - 1
  PROVE  (i * B + o) \div B = i /\ (i * B + o) % B = o
  OBVIOUS

(* The block of a position and the place in it. *)
LEMMA Quotient ==
  ASSUME NEW B \in Nat \ {0}, NEW x \in Nat
  PROVE  /\ x \div B \in Nat
         /\ x % B \in 0..B - 1
         /\ x = (x \div B) * B + (x % B)
  <1>1. x \div B \in Nat
    OBVIOUS
  <1>2. (x \div B) * B <= x /\ x < (x \div B) * B + B
    OBVIOUS
  <1>3. PICK i \in Nat : i = x \div B
    BY <1>1
  <1>4. i * B \in Int /\ i * B <= x /\ x < i * B + B
    BY <1>2, <1>3, Product
  <1>5. PICK o \in Int : o = x - i * B
    BY <1>4
  <1>6. o \in 0..B - 1 /\ x = i * B + o
    BY <1>4, <1>5
  <1>7. x % B = o
    BY <1>6, QuotientUnique
  <1> QED BY <1>1, <1>3, <1>6, <1>7

(* BlocksFor is the least number of blocks that hold so many bytes. *)
LEMMA BlocksForLeast ==
  ASSUME NEW size \in Nat, NEW n \in Nat
  PROVE  /\ BlocksFor(size) \in Nat
         /\ BlocksFor(size) <= n <=> size <= n * BlockSize
  <1> DEFINE B == BlockSize
  <1>1. B \in Nat \ {0}
    BY ConstantsAssumption
  <1> HIDE DEF B
  <1>2. size + B - 1 \in Nat
    BY <1>1
  <1>3. PICK q \in Nat : /\ q = (size + B - 1) \div B
                         /\ q * B <= size + B - 1 /\ size + B - 1 < q * B + B
    BY <1>1, <1>2, Quotient, Product
  <1>4. BlocksFor(size) = q
    BY <1>3 DEF BlocksFor, B
  <1>5. q * B \in Int /\ n * B \in Int
    BY <1>1, Product
  <1>6. q <= n => q * B <= n * B
    BY <1>1, Product
  <1>7. n < q => n * B + B <= q * B
    <2> SUFFICES ASSUME n < q PROVE n * B + B <= q * B
      OBVIOUS
    <2>1. n + 1 <= q /\ n + 1 \in Int
      OBVIOUS
    <2>2. (n + 1) * B <= q * B
      BY <1>1, <2>1, Product
    <2> QED BY <1>1, <2>2, Product
  <1>8. q <= n <=> size <= n * B
    BY <1>1, <1>3, <1>5, <1>6, <1>7
  <1> QED BY <1>4, <1>8 DEF B

(* The block of a position behind m blocks is not among them. *)
LEMMA PlaceOf ==
  ASSUME NEW x \in Nat, NEW m \in Nat
  PROVE  \E i \in Nat, o \in 0..BlockSize - 1 :
           /\ x \div BlockSize = i /\ x % BlockSize = o
           /\ x = At(i, o)
           /\ x < m * BlockSize <=> i < m
  <1> DEFINE B == BlockSize
  <1>1. B \in Nat \ {0}
    BY ConstantsAssumption
  <1> HIDE DEF B
  <1>2. PICK i \in Nat, o \in 0..B - 1 : x \div B = i /\ x % B = o /\ x = i * B + o
    BY <1>1, Quotient
  <1>3. i * B \in Int /\ m * B \in Int
    BY <1>1, Product
  <1>4. ASSUME i < m PROVE x < m * B
    <2>1. i + 1 <= m /\ i + 1 \in Int
      BY <1>4
    <2>2. i * B + B <= m * B
      BY <1>1, <2>1, Product
    <2> QED BY <1>1, <1>2, <1>3, <2>2
  <1>5. ASSUME m <= i PROVE ~(x < m * B)
    <2>1. m * B <= i * B
      BY <1>1, <1>5, Product
    <2> QED BY <1>1, <1>2, <1>3, <2>1
  <1>6. x < m * B <=> i < m
    BY <1>4, <1>5
  <1> QED BY <1>2, <1>6 DEF At, B

-----------------------------------------------------------------------------
(* Lists of blocks.                                                        *)

IsList(list, n) ==
  n \in 0..MaxEntries /\ list \in [0..n - 1 -> Block \cup {NULL}]

(* A list of n entries has room for a file of this size, keeps no block    *)
(* past its end, and what the last block has past it is zero.              *)
Holds(list, n, size) ==
  /\ IsList(list, n)
  /\ size \in 0..maxFileSize
  /\ size <= n * BlockSize
  /\ \A i \in 0..n - 1 : size <= i * BlockSize => list[i] = NULL
  /\ \A i \in 0..n - 1, o \in 0..BlockSize - 1 :
       list[i] # NULL /\ size <= At(i, o) => list[i][o] = 0

BlocksOf(list) == {i \in DOMAIN list : list[i] # NULL}

(* The byte that Read finds at a position. *)
ByteAt(list, x) ==
  IF list[x \div BlockSize] = NULL THEN 0 ELSE list[x \div BlockSize][x % BlockSize]

(* The constants are numbers. *)
LEMMA Numbers ==
  /\ BlockSize \in Nat \ {0} /\ MaxBlocks \in Nat \ {0} /\ Slack \in Nat
  /\ maxFileSize \in Nat /\ maxFileSize = MaxBlocks * BlockSize
  /\ MaxEntries \in Nat
  <1>1. BlockSize \in Nat \ {0} /\ MaxBlocks \in Nat \ {0} /\ Slack \in Nat
    BY ConstantsAssumption
  <1>2. BlockSize * MaxBlocks = MaxBlocks * BlockSize /\ BlockSize * MaxBlocks \in Nat
    BY <1>1
  <1> QED BY <1>1, <1>2 DEF maxFileSize, MaxEntries

(* PrepSetSize gives a list with room, and moves no block. *)
LEMMA Prepared ==
  ASSUME NEW f, NEW n, NEW size, Holds(blockList[f], n, size),
         NEW newFileSize \in 0..maxFileSize
  PROVE  \E m \in Nat :
           /\ Holds(PrepSetSize(f, newFileSize), m, size)
           /\ newFileSize <= m * BlockSize
           /\ n <= m
           /\ \A i \in 0..m - 1 :
                PrepSetSize(f, newFileSize)[i] = IF i < n THEN blockList[f][i] ELSE NULL
  <1> DEFINE old == blockList[f]
             k == BlocksFor(newFileSize)
             new == PrepSetSize(f, newFileSize)
  <1>1. /\ n \in Nat /\ n <= MaxEntries /\ old \in [0..n - 1 -> Block \cup {NULL}]
        /\ size \in Nat /\ newFileSize \in Nat
    BY Numbers DEF Holds, IsList
  <1>2. blockCount(f) = n
    <2>1. DOMAIN old = 0..n - 1
      BY <1>1
    <2>2. Cardinality(0..n - 1) = n
      BY <1>1, FS_Interval
    <2> QED BY <2>1, <2>2 DEF blockCount
  <1>3. k \in Nat /\ k <= MaxBlocks /\ newFileSize <= k * BlockSize
    <2>1. k \in Nat /\ (k <= MaxBlocks <=> newFileSize <= MaxBlocks * BlockSize)
      BY <1>1, Numbers, BlocksForLeast
    <2>2. newFileSize <= k * BlockSize
      BY <1>1, <2>1, BlocksForLeast
    <2> QED BY <2>1, <2>2, Numbers
  <1>4. CASE k <= n
    <2>1. new = old
      BY <1>2, <1>4 DEF PrepSetSize
    <2>2. k * BlockSize <= n * BlockSize
      BY <1>1, <1>3, <1>4, Numbers, Product
    <2>3. newFileSize <= n * BlockSize
      <3>1. k * BlockSize \in Int /\ n * BlockSize \in Int
        BY <1>1, <1>3, Numbers, Product
      <3> QED BY <1>1, <1>3, <2>2, <3>1
    <2> QED BY <1>1, <2>1, <2>3
  <1>5. CASE n < k
    <2> DEFINE m == k + k \div 4 + Slack
    <2>1. k \div 4 \in Nat /\ k \div 4 <= k
      BY <1>3
    <2>2. m \in Nat /\ k <= m /\ m <= MaxEntries /\ m \in 0..MaxEntries
      BY <1>3, <2>1, Numbers DEF MaxEntries
    <2>3. new = [i \in 0..m - 1 |-> IF i \in 0..n - 1 THEN old[i] ELSE NULL]
      <3>1. DOMAIN old = 0..n - 1 /\ ~(k <= n)
        BY <1>1, <1>3, <1>5
      <3>2. new = [i \in 0..m - 1 |-> IF i \in DOMAIN old THEN old[i] ELSE NULL]
        <4>1. ~(BlocksFor(newFileSize) <= blockCount(f))
          BY <1>2, <3>1
        <4>2. new = [i \in 0..k + k \div 4 + Slack - 1 |->
                       IF i \in DOMAIN old THEN old[i] ELSE NULL]
          BY <4>1 DEF PrepSetSize
        <4>3. k + k \div 4 + Slack - 1 = m - 1
          BY <1>3, <2>1, Numbers
        <4> QED BY <4>2, <4>3
      <3> QED BY <3>1, <3>2
    <2> HIDE DEF m
    <2>4. IsList(new, m)
      BY <1>1, <2>2, <2>3 DEF IsList
    <2>5. \A i \in 0..m - 1 : new[i] = IF i < n THEN old[i] ELSE NULL
      BY <1>1, <2>2, <2>3
    <2>6. newFileSize <= m * BlockSize /\ size <= m * BlockSize
      <3>1. k * BlockSize <= m * BlockSize /\ n * BlockSize <= m * BlockSize
        BY <1>1, <1>3, <1>5, <2>2, Numbers, Product
      <3>2. {k * BlockSize, m * BlockSize, n * BlockSize} \subseteq Int
        BY <1>1, <1>3, <2>2, Numbers, Product
      <3>3. size <= n * BlockSize
        BY DEF Holds
      <3> QED BY <1>1, <1>3, <3>1, <3>2, <3>3
    <2>7. \A i \in 0..m - 1 : size <= i * BlockSize => new[i] = NULL
      BY <1>1, <2>2, <2>5 DEF Holds
    <2>8. \A i \in 0..m - 1, o \in 0..BlockSize - 1 :
            new[i] # NULL /\ size <= At(i, o) => new[i][o] = 0
      BY <1>1, <2>2, <2>5 DEF Holds
    <2>9. Holds(new, m, size)
      BY <2>4, <2>6, <2>7, <2>8 DEF Holds
    <2>10. n <= m
      BY <1>1, <1>3, <1>5, <2>2
    <2> QED BY <2>2, <2>5, <2>6, <2>9, <2>10
  <1> QED BY <1>1, <1>3, <1>4, <1>5

(* Where the loop of Write ends. *)
LEMMA StopsBetween ==
  ASSUME NEW list, NEW m, NEW size, Holds(list, m, size),
         NEW first \in Nat, NEW end \in Nat, first <= end,
         NEW stop \in Stops(list, first, end)
  PROVE  /\ stop \in Nat /\ first <= stop /\ stop <= end
         /\ first < stop => stop = end \/ \E j \in Nat : stop = j * BlockSize
  <1>1. CASE stop = end
    BY <1>1
  <1>2. ASSUME NEW j \in Missing(list, first, end), stop = Larger(first, At(j, 0))
        PROVE  /\ stop \in Nat /\ first <= stop /\ stop <= end
               /\ first < stop => stop = end \/ \E i \in Nat : stop = i * BlockSize
    <2>1. j \in Nat /\ first < end /\ At(j, 0) < end
      BY <1>2 DEF Missing, Touched, Holds, IsList
    <2>2. At(j, 0) = j * BlockSize /\ j * BlockSize \in Nat
      <3>1. j * BlockSize \in Nat
        BY <2>1, Numbers
      <3> QED BY <3>1 DEF At
    <2> QED BY <1>2, <2>1, <2>2 DEF Larger
  <1> QED BY <1>1, <1>2 DEF Stops

(* What is written to a list. *)
LEMMA WrittenIs ==
  ASSUME NEW list, NEW m, NEW size, Holds(list, m, size),
         NEW first \in Nat, NEW end \in Nat, first <= end,
         NEW stop \in Stops(list, first, end), NEW data \in Seq(Byte),
         end - first <= Len(data),
         NEW i \in 0..m - 1
  PROVE  LET new == Written(list, first, stop, end, data)[i]
             touched == first < stop /\ first < At(i, BlockSize) /\ At(i, 0) < stop
         IN  /\ new \in Block \cup {NULL}
             /\ ~touched => new = list[i]
             /\ touched => /\ new # NULL
                           /\ \A o \in 0..BlockSize - 1 :
                                new[o] = IF At(i, o) \in first..stop - 1
                                         THEN data[At(i, o) - first + 1]
                                         ELSE IF list[i] # NULL THEN list[i][o] ELSE 0
  <1> DEFINE new == Written(list, first, stop, end, data)
             touched == first < stop /\ first < At(i, BlockSize) /\ At(i, 0) < stop
             byte(o) == IF At(i, o) \in first..stop - 1 THEN data[At(i, o) - first + 1]
                        ELSE IF list[i] # NULL THEN list[i][o]
                        ELSE Fresh(first > At(i, 0) \/ end < At(i, BlockSize))
  <1>1. DOMAIN list = 0..m - 1 /\ list[i] \in Block \cup {NULL} /\ m \in Nat
    BY DEF Holds, IsList
  <1>2. touched <=> i \in Touched(list, first, stop)
    <2>1. At(i, BlockSize) \in Int /\ At(i, 0) \in Int
      BY Numbers, Product DEF At
    <2>2. stop \in Nat
      BY StopsBetween
    <2> QED BY <1>1, <2>1, <2>2 DEF Touched
  <1>3. new[i] = IF i \notin Touched(list, first, stop) THEN list[i]
                 ELSE [o \in 0..BlockSize - 1 |-> byte(o)]
    BY <1>1 DEF Written
  <1>4. CASE ~touched
    BY <1>1, <1>2, <1>3, <1>4
  <1>5. CASE touched
    <2>1. new[i] = [o \in 0..BlockSize - 1 |-> byte(o)]
      BY <1>2, <1>3, <1>5
    <2>2. /\ stop \in Nat /\ first <= stop /\ stop <= end
          /\ stop = end \/ \E j \in Nat : stop = j * BlockSize
      BY <1>5, StopsBetween
    <2>3. i * BlockSize \in Nat /\ BlockSize \in Nat \ {0}
      BY Numbers
    <2>4. ASSUME NEW o \in 0..BlockSize - 1, At(i, o) \notin first..stop - 1
          PROVE  first > At(i, 0) \/ end < At(i, BlockSize)
      <3>1. /\ At(i, o) = i * BlockSize + o /\ At(i, 0) = i * BlockSize
            /\ At(i, BlockSize) = i * BlockSize + BlockSize
        BY <2>3 DEF At
      <3>2. CASE At(i, o) < first
        BY <2>3, <3>1, <3>2
      <3>3. CASE stop <= At(i, o) /\ stop = end
        BY <2>3, <3>1, <3>3
      <3>4. ASSUME NEW j \in Nat, stop = j * BlockSize, stop <= At(i, o)
            PROVE  FALSE
        <4>1. i * BlockSize < j * BlockSize
          BY <1>5, <3>1, <3>4
        <4>2. i < j
          BY <4>1, <2>3, Product
        <4>3. (i + 1) * BlockSize <= j * BlockSize
          BY <4>2, <2>3, Product
        <4>4. (i + 1) * BlockSize = i * BlockSize + BlockSize
          BY <2>3, Product
        <4>5. i * BlockSize + BlockSize <= stop
          BY <3>4, <4>3, <4>4
        <4>6. At(i, o) < i * BlockSize + BlockSize
          BY <2>3, <3>1
        <4>7. {stop, At(i, o), i * BlockSize + BlockSize} \subseteq Int
          BY <2>2, <2>3, <3>1
        <4> QED BY <3>4, <4>5, <4>6, <4>7
      <3>5. At(i, o) < first \/ stop <= At(i, o)
        BY <2>2, <2>3, <2>4, <3>1
      <3> QED BY <2>2, <3>2, <3>3, <3>4, <3>5
    <2>5. ASSUME NEW o \in 0..BlockSize - 1
          PROVE  byte(o) = IF At(i, o) \in first..stop - 1 THEN data[At(i, o) - first + 1]
                           ELSE IF list[i] # NULL THEN list[i][o] ELSE 0
      BY <2>4, <2>5 DEF Fresh
    <2> HIDE DEF byte
    <2>6. ASSUME NEW o \in 0..BlockSize - 1 PROVE byte(o) \in Byte
      <3>1. CASE At(i, o) \in first..stop - 1
        <4>1. At(i, o) - first + 1 \in 1..Len(data)
          BY <2>2, <3>1
        <4>2. data[At(i, o) - first + 1] \in Byte
          BY <4>1
        <4> QED BY <2>5, <3>1, <4>2
      <3>2. CASE At(i, o) \notin first..stop - 1
        <4>1. list[i] # NULL => list[i][o] \in Byte
          BY <1>1 DEF Block
        <4>2. 0 \in Byte
          BY DEF Byte
        <4> QED BY <2>5, <3>2, <4>1, <4>2
      <3> QED BY <3>1, <3>2
    <2>7. new[i] \in Block
      BY <2>1, <2>6 DEF Block
    <2>8. new[i] # NULL
      BY <2>7, ConstantsAssumption DEF Block
    <2> QED BY <1>5, <2>1, <2>5, <2>7, <2>8
  <1> QED BY <1>4, <1>5

(* The bytes of a list, by block and place. *)
LEMMA ByteAtPlace ==
  ASSUME NEW list, NEW i \in Nat, NEW o \in 0..BlockSize - 1
  PROVE  ByteAt(list, At(i, o)) = IF list[i] = NULL THEN 0 ELSE list[i][o]
  <1>1. At(i, o) \div BlockSize = i /\ At(i, o) % BlockSize = o
    BY Numbers, QuotientUnique DEF At
  <1> QED BY <1>1 DEF ByteAt

(* A byte past the end of a file is zero. *)
LEMMA ZeroPastEnd ==
  ASSUME NEW list, NEW m, NEW size, Holds(list, m, size),
         NEW x \in Nat, size <= x, x < m * BlockSize
  PROVE  ByteAt(list, x) = 0
  <1>1. m \in Nat
    BY DEF Holds, IsList
  <1>2. PICK i \in Nat, o \in 0..BlockSize - 1 : x = At(i, o) /\ i < m
    BY <1>1, PlaceOf
  <1> QED BY <1>1, <1>2, ByteAtPlace DEF Holds

(* The file after the loop of Write: it holds the bytes written, what it   *)
(* held before, and zeros in between.                                      *)
LEMMA WrittenHolds ==
  ASSUME NEW list, NEW m, NEW size, Holds(list, m, size),
         NEW first \in Nat, NEW end \in 0..maxFileSize, first <= end, end <= m * BlockSize,
         NEW stop \in Stops(list, first, end), NEW data \in Seq(Byte),
         end - first <= Len(data),
         NEW newSize, newSize = IF stop > first THEN Larger(size, stop) ELSE size
  PROVE  LET new == Written(list, first, stop, end, data)
         IN  /\ Holds(new, m, newSize)
             /\ BlocksOf(new) = BlocksOf(list) \cup Missing(list, first, stop)
             /\ \A x \in 0..newSize - 1 :
                  ByteAt(new, x) = IF x \in first..stop - 1 THEN data[x - first + 1]
                                   ELSE IF x < size THEN ByteAt(list, x) ELSE 0
  <1> DEFINE new == Written(list, first, stop, end, data)
             touched(i) == first < stop /\ first < At(i, BlockSize) /\ At(i, 0) < stop
  <1>1. /\ m \in Nat /\ list \in [0..m - 1 -> Block \cup {NULL}] /\ size \in Nat
        /\ size <= maxFileSize /\ size <= m * BlockSize
        /\ m * BlockSize \in Nat /\ end \in Nat /\ BlockSize \in Nat \ {0}
    <2>1. m \in Nat
      BY DEF Holds, IsList
    <2>2. m * BlockSize \in Nat
      BY <2>1, Numbers
    <2> QED BY <2>1, <2>2, Numbers DEF Holds, IsList
  <1>2. stop \in Nat /\ first <= stop /\ stop <= end
    BY <1>1, StopsBetween
  <1>3. ASSUME NEW i \in 0..m - 1
        PROVE  /\ new[i] \in Block \cup {NULL}
               /\ ~touched(i) => new[i] = list[i]
               /\ touched(i) =>
                    /\ new[i] # NULL
                    /\ \A o \in 0..BlockSize - 1 :
                         new[i][o] = IF At(i, o) \in first..stop - 1
                                     THEN data[At(i, o) - first + 1]
                                     ELSE IF list[i] # NULL THEN list[i][o] ELSE 0
    <2>1. new[i] \in Block \cup {NULL}
      BY <1>1, WrittenIs
    <2>2. ~touched(i) => new[i] = list[i]
      BY <1>1, WrittenIs
    <2>3. touched(i) => new[i] # NULL
      BY <1>1, WrittenIs
    <2>4. touched(i) =>
            \A o \in 0..BlockSize - 1 :
              new[i][o] = IF At(i, o) \in first..stop - 1
                          THEN data[At(i, o) - first + 1]
                          ELSE IF list[i] # NULL THEN list[i][o] ELSE 0
      BY <1>1, WrittenIs
    <2> QED BY <2>1, <2>2, <2>3, <2>4
  <1>4. DOMAIN new = 0..m - 1 /\ new = [i \in 0..m - 1 |-> new[i]]
    BY <1>1 DEF Written
  <1>5. \A i \in 0..m - 1 : i \in Touched(list, first, stop) <=> touched(i)
    <2> SUFFICES ASSUME NEW i \in 0..m - 1
                 PROVE  i \in Touched(list, first, stop) <=> touched(i)
      OBVIOUS
    <2>1. At(i, BlockSize) \in Int /\ At(i, 0) \in Int
      BY <1>1, Product DEF At
    <2> QED BY <1>1, <1>2, <2>1 DEF Touched
  <1>6. /\ newSize \in 0..maxFileSize /\ newSize <= m * BlockSize
        /\ size <= newSize /\ (first < stop => stop <= newSize)
    <2>1. PICK room \in Nat : room = m * BlockSize
      BY <1>1
    <2>2. stop <= room /\ size <= room /\ stop <= maxFileSize /\ maxFileSize \in Nat
      BY <1>1, <1>2, <2>1, Numbers
    <2>3. newSize \in {size, stop}
      BY DEF Larger
    <2>4. size <= newSize /\ (first < stop => stop <= newSize)
      BY <1>1, <1>2 DEF Larger
    <2> QED BY <1>1, <1>2, <2>1, <2>2, <2>3, <2>4
  <1>7. \A i \in 0..m - 1, o \in 0..BlockSize - 1 :
          /\ At(i, o) = i * BlockSize + o /\ i * BlockSize \in Nat /\ At(i, 0) = i * BlockSize
          /\ At(i, BlockSize) = i * BlockSize + BlockSize
          /\ At(i, o) \in first..stop - 1 => touched(i)
    <2> SUFFICES ASSUME NEW i \in 0..m - 1, NEW o \in 0..BlockSize - 1
                 PROVE  /\ At(i, o) = i * BlockSize + o /\ i * BlockSize \in Nat
                        /\ At(i, 0) = i * BlockSize
                        /\ At(i, BlockSize) = i * BlockSize + BlockSize
                        /\ At(i, o) \in first..stop - 1 => touched(i)
      OBVIOUS
    <2>1. i * BlockSize \in Nat
      BY <1>1
    <2> QED BY <1>1, <1>2, <2>1 DEF At
  <1> HIDE DEF new, touched
  <1>8. IsList(new, m)
    BY <1>1, <1>3, <1>4 DEF Holds, IsList
  <1>9. \A i \in 0..m - 1 : newSize <= i * BlockSize => new[i] = NULL
    <2> SUFFICES ASSUME NEW i \in 0..m - 1, newSize <= i * BlockSize PROVE new[i] = NULL
      OBVIOUS
    <2>1. 0 \in 0..BlockSize - 1
      BY <1>1
    <2>2. ~touched(i)
      BY <1>1, <1>2, <1>6, <1>7, <2>1 DEF touched
    <2>3. size <= i * BlockSize
      BY <1>1, <1>6, <1>7, <2>1
    <2> QED BY <1>3, <2>2, <2>3 DEF Holds
  <1>10. \A i \in 0..m - 1, o \in 0..BlockSize - 1 :
           new[i] # NULL /\ newSize <= At(i, o) => new[i][o] = 0
    <2> SUFFICES ASSUME NEW i \in 0..m - 1, NEW o \in 0..BlockSize - 1,
                        new[i] # NULL, newSize <= At(i, o)
                 PROVE  new[i][o] = 0
      OBVIOUS
    <2>1. size <= At(i, o) /\ At(i, o) \notin first..stop - 1
      <3>1. At(i, o) \in Nat /\ newSize \in Nat
        <4>1. At(i, o) \in Nat
          BY <1>1 DEF At
        <4>2. newSize \in Nat
          BY <1>6, Numbers
        <4> QED BY <4>1, <4>2
      <3> QED BY <1>1, <1>2, <1>6, <3>1
    <2>2. list[i] # NULL => list[i][o] = 0
      BY <2>1 DEF Holds
    <2> QED BY <1>3, <2>1, <2>2
  <1>11. Holds(new, m, newSize)
    BY <1>6, <1>8, <1>9, <1>10 DEF Holds
  <1>12. BlocksOf(new) = BlocksOf(list) \cup Missing(list, first, stop)
    BY <1>1, <1>3, <1>4, <1>5 DEF BlocksOf, Missing, Touched
  <1>13. ASSUME NEW x \in 0..newSize - 1
         PROVE  ByteAt(new, x) = IF x \in first..stop - 1 THEN data[x - first + 1]
                                 ELSE IF x < size THEN ByteAt(list, x) ELSE 0
    <2>1. x \in Nat /\ x < m * BlockSize
      BY <1>1, <1>6
    <2>2. PICK i \in Nat, o \in 0..BlockSize - 1 : x = At(i, o) /\ i < m
      BY <1>1, <2>1, PlaceOf
    <2>3. i \in 0..m - 1
      BY <1>1, <2>2
    <2>4. ByteAt(new, x) = IF new[i] = NULL THEN 0 ELSE new[i][o]
      BY <2>2, ByteAtPlace
    <2>5. ByteAt(list, x) = IF list[i] = NULL THEN 0 ELSE list[i][o]
      BY <2>2, ByteAtPlace
    <2>6. CASE x \in first..stop - 1
      BY <1>3, <1>7, <2>2, <2>3, <2>4, <2>6
    <2>7. CASE x \notin first..stop - 1
      <3>1. ByteAt(new, x) = ByteAt(list, x)
        BY <1>3, <2>2, <2>3, <2>4, <2>5, <2>7
      <3>2. ~(x < size) => ByteAt(list, x) = 0
        BY <1>1, <2>1, ZeroPastEnd
      <3> QED BY <2>7, <3>1, <3>2
    <2> QED BY <2>6, <2>7
  <1> QED BY <1>11, <1>12, <1>13 DEF new

(* The last block that is kept. *)
LEMMA LastBlock ==
  ASSUME NEW n \in Nat, NEW i \in Nat, NEW o \in 0..BlockSize - 1
  PROVE  /\ n % BlockSize # 0 /\ i = BlocksFor(n) - 1 =>
              (At(i, o) < n <=> o < n % BlockSize)
         /\ ~(n % BlockSize # 0 /\ i = BlocksFor(n) - 1) =>
              (At(i, o) < n <=> i < BlocksFor(n))
  <1> DEFINE B == BlockSize
  <1>1. B \in Nat \ {0} /\ BlocksFor(n) \in Nat
    BY Numbers, BlocksForLeast
  <1>2. PICK q \in Nat, r \in 0..B - 1 : n \div B = q /\ n % B = r /\ n = q * B + r
    BY <1>1, Quotient
  <1>3. n <= (q + 1) * B
    BY <1>1, <1>2, Product
  <1>4. BlocksFor(n) = IF r = 0 THEN q ELSE q + 1
    <2>1. BlocksFor(n) <= q + 1
      BY <1>3, BlocksForLeast
    <2>2. q * B \in Nat
      BY <1>1
    <2>3. BlocksFor(n) <= q <=> r = 0
      BY <1>1, <1>2, <2>2, BlocksForLeast
    <2>4. ASSUME r = 0, BlocksFor(n) < q PROVE FALSE
      <3>1. q - 1 \in Nat /\ BlocksFor(n) <= q - 1
        BY <1>1, <2>4
      <3>2. n <= (q - 1) * B
        BY <3>1, BlocksForLeast
      <3>3. ((q - 1) + 1) * B = (q - 1) * B + B /\ (q - 1) * B \in Int
        BY <1>1, <3>1, Product
      <3>4. (q - 1) + 1 = q
        OBVIOUS
      <3> QED BY <1>1, <1>2, <2>2, <2>4, <3>2, <3>3, <3>4
    <2> QED BY <1>1, <2>1, <2>3, <2>4
  <1>5. At(i, o) = i * B + o /\ i * B \in Nat /\ q * B \in Nat
    BY <1>1 DEF At
  <1> HIDE DEF B
  <1>6. ASSUME i < q PROVE At(i, o) < n
    <2>1. (i + 1) * B <= q * B /\ (i + 1) * B = i * B + B
      BY <1>1, <1>6, Product
    <2> QED BY <1>1, <1>2, <1>5, <2>1 DEF B
  <1>7. ASSUME q < i PROVE n < At(i, o)
    <2>1. (q + 1) * B <= i * B /\ (q + 1) * B = q * B + B
      BY <1>1, <1>7, Product
    <2> QED BY <1>1, <1>2, <1>5, <2>1 DEF B
  <1>8. ASSUME i = q PROVE At(i, o) < n <=> o < r
    BY <1>1, <1>2, <1>5, <1>8 DEF B
  <1>9. ASSUME r # 0, i = BlocksFor(n) - 1 PROVE At(i, o) < n <=> o < r
    BY <1>4, <1>8, <1>9
  <1>10. ASSUME r # 0, i # BlocksFor(n) - 1 PROVE At(i, o) < n <=> i < BlocksFor(n)
    <2>1. CASE i < q
      BY <1>4, <1>6, <1>10, <2>1
    <2>2. CASE q < i
      BY <1>2, <1>4, <1>5, <1>7, <1>10, <2>2
    <2> QED BY <1>4, <1>10, <2>1, <2>2
  <1>11. ASSUME r = 0 PROVE At(i, o) < n <=> i < BlocksFor(n)
    <2>1. CASE i < q
      BY <1>4, <1>6, <1>11, <2>1
    <2>2. CASE q < i
      BY <1>2, <1>4, <1>5, <1>7, <1>11, <2>2
    <2>3. CASE i = q
      BY <1>4, <1>5, <1>8, <1>11, <2>3 DEF B
    <2> QED BY <1>4, <1>11, <2>1, <2>2, <2>3
  <1> QED BY <1>2, <1>9, <1>10, <1>11 DEF B

(* The file after it has been cut off: no blocks past the end, zeros in    *)
(* the rest of the last one, and what is before it as it was.              *)
LEMMA CutHolds ==
  ASSUME NEW list, NEW m, NEW size, Holds(list, m, size),
         NEW n \in 0..maxFileSize, n < size
  PROVE  LET new == Cut(list, n, size)
         IN  /\ Holds(new, m, n)
             /\ BlocksOf(new) = BlocksOf(list) \ PastEnd(list, n, size)
             /\ PastEnd(list, n, size) \subseteq BlocksOf(list)
             /\ \A x \in 0..n - 1 : ByteAt(new, x) = ByteAt(list, x)
  <1> DEFINE new == Cut(list, n, size)
             last(i) == n % BlockSize # 0 /\ i = BlocksFor(n) - 1
  <1>1. /\ m \in Nat /\ list \in [0..m - 1 -> Block \cup {NULL}]
        /\ size \in Nat /\ n \in Nat /\ BlocksFor(n) \in Nat /\ BlocksFor(size) \in Nat
        /\ n % BlockSize \in 0..BlockSize - 1 /\ BlockSize \in Nat \ {0}
    BY Numbers, BlocksForLeast, Quotient DEF Holds, IsList
  <1>2. \A i \in 0..m - 1 : i >= BlocksFor(size) => list[i] = NULL
    <2> SUFFICES ASSUME NEW i \in 0..m - 1, i >= BlocksFor(size) PROVE list[i] = NULL
      OBVIOUS
    <2>1. size <= i * BlockSize
      BY <1>1, BlocksForLeast
    <2> QED BY <2>1 DEF Holds
  <1>3. ASSUME NEW i \in 0..m - 1
        PROVE  /\ i >= BlocksFor(n) => new[i] = NULL
               /\ i < BlocksFor(n) => (new[i] = NULL <=> list[i] = NULL)
               /\ new[i] \in Block \cup {NULL}
               /\ new[i] # NULL => \A o \in 0..BlockSize - 1 :
                    new[i][o] = IF last(i) /\ ~(o < n % BlockSize) THEN 0 ELSE list[i][o]
    <2>1. i \in PastEnd(list, n, size) <=> i >= BlocksFor(n) /\ list[i] # NULL
      BY <1>1, <1>2 DEF PastEnd
    <2>2. new[i] = IF i \in PastEnd(list, n, size) THEN NULL
                   ELSE IF last(i) THEN ZeroTail(list[i], n) ELSE list[i]
      BY <1>1 DEF Cut
    <2>3. last(i) => i < BlocksFor(n)
      BY <1>1
    <2> HIDE DEF new, last
    <2>4. CASE i >= BlocksFor(n)
      BY <1>1, <2>1, <2>2, <2>3, <2>4
    <2>5. CASE i < BlocksFor(n) /\ ~last(i)
      BY <1>1, <2>1, <2>2, <2>5
    <2>6. CASE last(i) /\ list[i] = NULL
      BY <1>1, <2>1, <2>2, <2>3, <2>6 DEF ZeroTail
    <2>7. CASE last(i) /\ list[i] # NULL
      <3>1. new[i] = [o \in 0..BlockSize - 1 |-> IF o < n % BlockSize THEN list[i][o] ELSE 0]
        <4>1. i \notin PastEnd(list, n, size)
          BY <1>1, <2>1, <2>3, <2>7
        <4>2. new[i] = ZeroTail(list[i], n)
          BY <2>2, <2>7, <4>1
        <4> QED BY <2>7, <4>2 DEF ZeroTail
      <3>2. list[i] \in Block
        BY <1>1, <2>7
      <3>3. new[i] \in Block
        <4>1. ASSUME NEW o \in 0..BlockSize - 1
              PROVE  (IF o < n % BlockSize THEN list[i][o] ELSE 0) \in Byte
          <5>1. list[i][o] \in Byte
            BY <3>2 DEF Block
          <5>2. 0 \in Byte
            BY DEF Byte
          <5> QED BY <5>1, <5>2
        <4> QED BY <3>1, <4>1 DEF Block
      <3>4. new[i] # NULL
        BY <3>3, ConstantsAssumption DEF Block
      <3>5. \A o \in 0..BlockSize - 1 :
              new[i][o] = IF last(i) /\ ~(o < n % BlockSize) THEN 0 ELSE list[i][o]
        BY <2>7, <3>1
      <3> QED BY <1>1, <2>3, <2>7, <3>3, <3>4, <3>5
    <2> QED BY <1>1, <2>4, <2>5, <2>6, <2>7
  <1>4. DOMAIN new = 0..m - 1 /\ new = [i \in 0..m - 1 |-> new[i]]
    BY <1>1 DEF Cut
  <1>5. \A i \in 0..m - 1, o \in 0..BlockSize - 1 :
          /\ last(i) => (At(i, o) < n <=> o < n % BlockSize)
          /\ ~last(i) => (At(i, o) < n <=> i < BlocksFor(n))
          /\ At(i, o) \in Nat
    <2> SUFFICES ASSUME NEW i \in 0..m - 1, NEW o \in 0..BlockSize - 1
                 PROVE  /\ last(i) => (At(i, o) < n <=> o < n % BlockSize)
                        /\ ~last(i) => (At(i, o) < n <=> i < BlocksFor(n))
                        /\ At(i, o) \in Nat
      OBVIOUS
    <2>1. i \in Nat
      BY <1>1
    <2>2. At(i, o) \in Nat
      BY <1>1, <2>1 DEF At
    <2> QED BY <1>1, <2>1, <2>2, LastBlock
  <1>6. \A i \in 0..m - 1 : last(i) => i < BlocksFor(n)
    BY <1>1
  <1> HIDE DEF new, last
  <1>7. Holds(new, m, n)
    <2>1. IsList(new, m)
      BY <1>3, <1>4 DEF Holds, IsList
    <2>2. n <= m * BlockSize
      <3>1. m * BlockSize \in Nat /\ size <= m * BlockSize
        BY <1>1 DEF Holds
      <3> QED BY <1>1, <3>1
    <2>3. ASSUME NEW i \in 0..m - 1, n <= i * BlockSize PROVE new[i] = NULL
      <3>1. i >= BlocksFor(n)
        BY <1>1, <2>3, BlocksForLeast
      <3> QED BY <1>3, <3>1
    <2>4. ASSUME NEW i \in 0..m - 1, NEW o \in 0..BlockSize - 1,
                 new[i] # NULL, n <= At(i, o)
          PROVE  new[i][o] = 0
      <3>1. ~(At(i, o) < n)
        <4>1. At(i, o) \in Nat
          BY <1>1 DEF At
        <4> QED BY <1>1, <2>4, <4>1
      <3>2. i < BlocksFor(n)
        BY <1>1, <1>3, <2>4
      <3>3. last(i) /\ ~(o < n % BlockSize)
        BY <1>5, <3>1, <3>2
      <3> QED BY <1>3, <2>4, <3>3
    <2> QED BY <2>1, <2>2, <2>3, <2>4 DEF Holds
  <1>8. /\ BlocksOf(new) = BlocksOf(list) \ PastEnd(list, n, size)
        /\ PastEnd(list, n, size) \subseteq BlocksOf(list)
    BY <1>1, <1>2, <1>3, <1>4 DEF BlocksOf, PastEnd
  <1>9. ASSUME NEW x \in 0..n - 1 PROVE ByteAt(new, x) = ByteAt(list, x)
    <2>1. x \in Nat /\ x < n /\ x < m * BlockSize
      <3>1. m * BlockSize \in Nat /\ size <= m * BlockSize
        BY <1>1 DEF Holds
      <3> QED BY <1>1, <3>1
    <2>2. PICK i \in Nat, o \in 0..BlockSize - 1 : x = At(i, o) /\ i < m
      BY <1>1, <2>1, PlaceOf
    <2>3. i \in 0..m - 1 /\ At(i, o) < n
      BY <1>1, <2>1, <2>2
    <2>4. i < BlocksFor(n) /\ ~(last(i) /\ ~(o < n % BlockSize))
      BY <1>5, <1>6, <2>3
    <2>5. ByteAt(new, x) = IF new[i] = NULL THEN 0 ELSE new[i][o]
      BY <2>2, ByteAtPlace
    <2>6. ByteAt(list, x) = IF list[i] = NULL THEN 0 ELSE list[i][o]
      BY <2>2, ByteAtPlace
    <2> QED BY <1>3, <2>3, <2>4, <2>5, <2>6
  <1> QED BY <1>7, <1>8, <1>9 DEF new

(* A list keeps what it holds when the file becomes longer within it. *)
LEMMA LongerHolds ==
  ASSUME NEW list, NEW m, NEW size, Holds(list, m, size),
         NEW n \in 0..maxFileSize, size <= n, n <= m * BlockSize
  PROVE  Holds(list, m, n)
  <1>1. /\ m \in Nat /\ size \in Nat /\ n \in Nat /\ BlockSize \in Nat \ {0}
    BY Numbers DEF Holds, IsList
  <1>2. \A i \in 0..m - 1 : i * BlockSize \in Nat
    BY <1>1
  <1>3. \A i \in 0..m - 1, o \in 0..BlockSize - 1 : At(i, o) \in Nat
    BY <1>1 DEF At
  <1>4. \A i \in 0..m - 1 : n <= i * BlockSize => list[i] = NULL
    BY <1>1, <1>2 DEF Holds
  <1>5. \A i \in 0..m - 1, o \in 0..BlockSize - 1 :
          list[i] # NULL /\ n <= At(i, o) => list[i][o] = 0
    BY <1>1, <1>3 DEF Holds
  <1> QED BY <1>4, <1>5 DEF Holds

-----------------------------------------------------------------------------
(* The memory that the volume counts.                                      *)

(* Pairs of one file are as many as its entries. *)
LEMMA CountPairs ==
  ASSUME NEW f, NEW S, IsFiniteSet(S)
  PROVE  IsFiniteSet({f} \X S) /\ Cardinality({f} \X S) = Cardinality(S)
  <1>1. IsFiniteSet({f}) /\ Cardinality({f}) = 1
    BY FS_Singleton
  <1>2. Cardinality(S) \in Nat
    BY FS_CardinalityType
  <1> QED BY <1>1, <1>2, FS_Product

(* A set of blocks that are added to others, or that are left. *)
LEMMA CountAdded ==
  ASSUME NEW A, IsFiniteSet(A), NEW f, NEW S, IsFiniteSet(S), \A i \in S : <<f, i>> \notin A
  PROVE  /\ IsFiniteSet(A \cup ({f} \X S))
         /\ Cardinality(A \cup ({f} \X S)) = Cardinality(A) + Cardinality(S)
         /\ Cardinality(A) \in Nat /\ Cardinality(S) \in Nat
  <1>1. IsFiniteSet({f} \X S) /\ Cardinality({f} \X S) = Cardinality(S)
    BY CountPairs
  <1>2. A \cap ({f} \X S) = {}
    OBVIOUS
  <1>3. Cardinality({}) = 0
    BY FS_EmptySet
  <1>4. /\ IsFiniteSet(A \cup ({f} \X S))
        /\ Cardinality(A \cup ({f} \X S)) =
             Cardinality(A) + Cardinality({f} \X S) - Cardinality(A \cap ({f} \X S))
    BY <1>1, FS_Union
  <1>5. Cardinality(A) \in Nat /\ Cardinality(S) \in Nat
    BY FS_CardinalityType
  <1>6. Cardinality(A \cap ({f} \X S)) = 0
    BY <1>2, <1>3
  <1>7. Cardinality(A \cup ({f} \X S)) = Cardinality(A) + Cardinality(S) - 0
    BY <1>1, <1>4, <1>6
  <1> QED BY <1>4, <1>5, <1>7

(* What holds of the files at all times. *)
AllHold(sizes, lists) ==
  /\ sizes \in [Files -> 0..maxFileSize]
  /\ lists = [f \in Files |-> lists[f]]
  /\ \A f \in Files : \E n \in Nat : Holds(lists[f], n, sizes[f])

Blocks(lists) == {b \in Files \X Nat : b[2] \in BlocksOf(lists[b[1]])}

(* Lists are no longer than MaxEntries. *)
LEMMA BlocksInside ==
  ASSUME NEW sizes, NEW lists, AllHold(sizes, lists)
  PROVE  /\ \A f \in Files : BlocksOf(lists[f]) \subseteq 0..MaxEntries
         /\ Blocks(lists) = {b \in Files \X (0..MaxEntries) :
                               b[2] \in DOMAIN lists[b[1]] /\ lists[b[1]][b[2]] # NULL}
  <1>1. ASSUME NEW f \in Files PROVE BlocksOf(lists[f]) \subseteq 0..MaxEntries
    <2>1. PICK n \in Nat : Holds(lists[f], n, sizes[f])
      BY DEF AllHold
    <2>2. n <= MaxEntries /\ DOMAIN lists[f] = 0..n - 1
      BY <2>1, Numbers DEF Holds, IsList
    <2> QED BY <2>2, Numbers DEF BlocksOf
  <1> QED BY <1>1, Numbers DEF Blocks, BlocksOf

(* There are finitely many blocks. *)
LEMMA BlocksFinite ==
  ASSUME NEW sizes, NEW lists, AllHold(sizes, lists)
  PROVE  /\ IsFiniteSet(Blocks(lists))
         /\ \A f \in Files : IsFiniteSet(BlocksOf(lists[f])) /\ BlocksOf(lists[f]) \subseteq Nat
  <1>1. IsFiniteSet(0..MaxEntries) /\ 0..MaxEntries \subseteq Nat
    BY Numbers, FS_Interval
  <1>2. IsFiniteSet(Files \X (0..MaxEntries))
    BY <1>1, FS_Product, ConstantsAssumption
  <1>3. Blocks(lists) \subseteq Files \X (0..MaxEntries)
    BY BlocksInside
  <1>4. IsFiniteSet(Blocks(lists))
    BY <1>2, <1>3, FS_Subset
  <1>5. ASSUME NEW f \in Files
        PROVE  IsFiniteSet(BlocksOf(lists[f])) /\ BlocksOf(lists[f]) \subseteq Nat
    <2>1. BlocksOf(lists[f]) \subseteq 0..MaxEntries
      BY BlocksInside
    <2> QED BY <1>1, <2>1, FS_Subset
  <1> QED BY <1>4, <1>5

(* The number of blocks when one file gets another list. *)
LEMMA CountChanged ==
  ASSUME NEW S, NEW L, AllHold(S, L), NEW T, NEW M, AllHold(T, M),
         NEW f \in Files, \A g \in Files \ {f} : M[g] = L[g],
         NEW added, added \cap BlocksOf(L[f]) = {},
         NEW removed, removed \subseteq BlocksOf(L[f]),
         BlocksOf(M[f]) = (BlocksOf(L[f]) \ removed) \cup added
  PROVE  \E rest \in Nat :
           /\ Cardinality(added) \in Nat /\ Cardinality(removed) \in Nat
           /\ Cardinality(Blocks(L)) = rest + Cardinality(removed)
           /\ Cardinality(Blocks(M)) = rest + Cardinality(added)
  <1> DEFINE Rest == {b \in Blocks(L) : ~(b[1] = f /\ b[2] \in removed)}
  <1>1. /\ IsFiniteSet(Blocks(L)) /\ IsFiniteSet(BlocksOf(L[f])) /\ BlocksOf(L[f]) \subseteq Nat
        /\ IsFiniteSet(BlocksOf(M[f])) /\ BlocksOf(M[f]) \subseteq Nat
    BY BlocksFinite
  <1>2. \A g \in Files \ {f} : BlocksOf(M[g]) = BlocksOf(L[g])
    OBVIOUS
  <1>3. IsFiniteSet(added) /\ IsFiniteSet(removed) /\ added \subseteq Nat /\ removed \subseteq Nat
    <2>1. added \subseteq BlocksOf(M[f])
      OBVIOUS
    <2> QED BY <1>1, <2>1, FS_Subset
  <1>4. Blocks(L) = Rest \cup ({f} \X removed)
    BY <1>1, <1>3 DEF Blocks
  <1>5. Blocks(M) = Rest \cup ({f} \X added)
    <2>1. ASSUME NEW b \in Files \X Nat, b[1] # f
          PROVE  b \in Blocks(M) <=> b \in Rest \cup ({f} \X added)
      BY <1>2, <2>1 DEF Blocks
    <2>2. ASSUME NEW b \in Files \X Nat, b[1] = f
          PROVE  b \in Blocks(M) <=> b \in Rest \cup ({f} \X added)
      BY <2>2 DEF Blocks
    <2>3. Blocks(M) \subseteq Files \X Nat /\ Rest \cup ({f} \X added) \subseteq Files \X Nat
      BY <1>3 DEF Blocks
    <2> QED BY <2>1, <2>2, <2>3
  <1>6. \A i \in removed : <<f, i>> \notin Rest
    <2> TAKE i \in removed
    <2>1. <<f, i>>[1] = f /\ <<f, i>>[2] = i
      OBVIOUS
    <2> QED BY <2>1
  <1>7. \A i \in added : <<f, i>> \notin Rest
    <2> TAKE i \in added
    <2>1. <<f, i>>[1] = f /\ <<f, i>>[2] = i
      OBVIOUS
    <2>2. i \notin BlocksOf(L[f])
      OBVIOUS
    <2> QED BY <2>1, <2>2 DEF Blocks
  <1>8. IsFiniteSet(Rest)
    BY <1>1, FS_Subset
  <1> HIDE DEF Rest
  <1>9. Cardinality(Blocks(L)) = Cardinality(Rest) + Cardinality(removed)
    <2>1. Cardinality(Rest \cup ({f} \X removed)) = Cardinality(Rest) + Cardinality(removed)
      BY <1>3, <1>6, <1>8, CountAdded
    <2> QED BY <1>4, <2>1
  <1>10. Cardinality(Blocks(M)) = Cardinality(Rest) + Cardinality(added)
    <2>1. Cardinality(Rest \cup ({f} \X added)) = Cardinality(Rest) + Cardinality(added)
      BY <1>3, <1>7, <1>8, CountAdded
    <2> QED BY <1>5, <2>1
  <1>11. {Cardinality(Rest), Cardinality(added), Cardinality(removed)} \subseteq Nat
    BY <1>3, <1>8, FS_CardinalityType
  <1> QED BY <1>9, <1>10, <1>11

FilesHold == AllHold(fileSize, blockList)

Counted == capacity = BlockSize * Cardinality(Allocated)

(* What the volume counts are the blocks of the lists. *)
LEMMA AllocatedIs ==
  ASSUME FilesHold
  PROVE  Allocated = Blocks(blockList)
  BY BlocksInside DEF FilesHold, Allocated

(* The same in the next state. *)
LEMMA AllocatedNext ==
  ASSUME FilesHold'
  PROVE  Allocated' = Blocks(blockList')
  BY BlocksInside DEF FilesHold, Allocated

(* A request that gives one file another list counts what has changed.     *)
LEMMA CountedStep ==
  ASSUME FilesHold, FilesHold', Counted, NEW f \in Files,
         \A g \in Files \ {f} : blockList'[g] = blockList[g],
         NEW added, added \cap BlocksOf(blockList[f]) = {},
         NEW removed, removed \subseteq BlocksOf(blockList[f]),
         BlocksOf(blockList'[f]) = (BlocksOf(blockList[f]) \ removed) \cup added,
         capacity' = capacity + (BlockSize * Cardinality(added) - BlockSize * Cardinality(removed))
  PROVE  Counted'
  <1>1. PICK rest \in Nat :
           /\ Cardinality(added) \in Nat /\ Cardinality(removed) \in Nat
           /\ Cardinality(Blocks(blockList)) = rest + Cardinality(removed)
           /\ Cardinality(Blocks(blockList')) = rest + Cardinality(added)
    <2>1. AllHold(fileSize, blockList) /\ AllHold(fileSize', blockList')
      BY DEF FilesHold
    <2> QED BY <2>1, CountChanged
  <1>2. \A r, a \in Nat : /\ BlockSize * (r + a) = BlockSize * r + BlockSize * a
                          /\ BlockSize * r \in Nat
    BY Numbers
  <1>3. PICK p \in Nat, q \in Nat, r \in Nat :
           /\ p = BlockSize * Cardinality(added) /\ q = BlockSize * Cardinality(removed)
           /\ r = BlockSize * rest
    BY <1>1, <1>2
  <1>4. BlockSize * (rest + Cardinality(removed)) = r + q
    BY <1>1, <1>2, <1>3
  <1>5. BlockSize * (rest + Cardinality(added)) = r + p
    BY <1>1, <1>2, <1>3
  <1>6. capacity = r + q
    BY <1>1, <1>4, AllocatedIs DEF Counted
  <1>7. BlockSize * Cardinality(Allocated') = r + p
    BY <1>1, <1>5, AllocatedNext
  <1>8. capacity' = r + p
    BY <1>3, <1>6
  <1> QED BY <1>7, <1>8 DEF Counted

-----------------------------------------------------------------------------
(* Requests.                                                               *)

FileInv == FilesHold /\ Counted /\ outActualSize \in Nat

(* What PrepSetSize gives has the same blocks and the same bytes. *)
LEMMA PreparedSame ==
  ASSUME NEW f, NEW n \in Nat, NEW size, Holds(blockList[f], n, size),
         NEW newFileSize \in 0..maxFileSize
  PROVE  \E m \in Nat :
           /\ Holds(PrepSetSize(f, newFileSize), m, size)
           /\ newFileSize <= m * BlockSize
           /\ BlocksOf(PrepSetSize(f, newFileSize)) = BlocksOf(blockList[f])
           /\ \A x \in 0..size - 1 :
                ByteAt(PrepSetSize(f, newFileSize), x) = ByteAt(blockList[f], x)
  <1> DEFINE new == PrepSetSize(f, newFileSize)
             old == blockList[f]
  <1>1. PICK m \in Nat :
          /\ Holds(new, m, size)
          /\ newFileSize <= m * BlockSize
          /\ n <= m
          /\ \A i \in 0..m - 1 : new[i] = IF i < n THEN old[i] ELSE NULL
    BY Prepared
  <1>2. DOMAIN new = 0..m - 1 /\ DOMAIN old = 0..n - 1
    BY <1>1 DEF Holds, IsList
  <1>3. BlocksOf(new) = BlocksOf(old)
    BY <1>1, <1>2 DEF BlocksOf
  <1>4. ASSUME NEW x \in 0..size - 1 PROVE ByteAt(new, x) = ByteAt(old, x)
    <2>1. size \in Nat /\ size <= n * BlockSize /\ n * BlockSize \in Nat
      BY Numbers DEF Holds
    <2>2. x \in Nat /\ x < n * BlockSize
      BY <2>1
    <2>3. PICK i \in Nat : i = x \div BlockSize /\ i < n
      BY <2>2, PlaceOf
    <2>4. i \in 0..m - 1
      BY <1>1, <2>3
    <2>5. new[i] = old[i]
      BY <1>1, <2>3, <2>4
    <2> QED BY <2>3, <2>5 DEF ByteAt
  <1> QED BY <1>1, <1>3, <1>4

(* A request changes one file. *)
LEMMA OneFile ==
  ASSUME FilesHold, NEW f \in Files, NEW list, NEW size, NEW n \in Nat, Holds(list, n, size),
         blockList' = [blockList EXCEPT ![f] = list],
         fileSize' = [fileSize EXCEPT ![f] = size]
  PROVE  /\ FilesHold'
         /\ blockList'[f] = list /\ fileSize'[f] = size
         /\ \A g \in Files \ {f} : blockList'[g] = blockList[g] /\ fileSize'[g] = fileSize[g]
  <1>1. DOMAIN blockList = Files /\ DOMAIN fileSize = Files
    BY DEF FilesHold, AllHold
  <1>2. /\ blockList'[f] = list /\ fileSize'[f] = size
        /\ \A g \in Files \ {f} : blockList'[g] = blockList[g] /\ fileSize'[g] = fileSize[g]
    BY <1>1
  <1>3. blockList' = [g \in Files |-> blockList'[g]]
    BY <1>1
  <1>4. fileSize' \in [Files -> 0..maxFileSize]
    BY DEF FilesHold, AllHold, Holds
  <1>5. ASSUME NEW g \in Files PROVE \E m \in Nat : Holds(blockList'[g], m, fileSize'[g])
    <2>1. CASE g = f
      BY <1>2, <2>1
    <2>2. CASE g # f
      <3>1. PICK m \in Nat : Holds(blockList[g], m, fileSize[g])
        BY DEF FilesHold, AllHold
      <3>2. blockList'[g] = blockList[g] /\ fileSize'[g] = fileSize[g]
        BY <1>2, <2>2
      <3> QED BY <3>1, <3>2
    <2> QED BY <2>1, <2>2
  <1>6. AllHold(fileSize', blockList')
    BY <1>3, <1>4, <1>5 DEF AllHold
  <1> QED BY <1>2, <1>6 DEF FilesHold

(* The other files stay. *)
OthersStay(f) ==
  \A g \in Files \ {f} : blockList'[g] = blockList[g] /\ fileSize'[g] = fileSize[g]

(* Write puts the first k bytes into the file, with zeros before them if   *)
(* they are past its end, answers k, and counts the blocks that it         *)
(* allocates.                                                              *)
LEMMA WriteStep ==
  ASSUME FileInv, NEW f \in Files, NEW fileOffset \in 0..maxFileSize, NEW data \in Payloads,
         Write(f, fileOffset, data)
  PROVE  /\ FileInv'
         /\ OthersStay(f)
         /\ \E k \in 0..Len(data) :
              /\ outActualSize' = k
              /\ fileSize'[f] = IF k > 0 THEN Larger(fileSize[f], fileOffset + k) ELSE fileSize[f]
              /\ \A x \in 0..fileSize'[f] - 1 :
                   ByteAt(blockList'[f], x) =
                     IF x \in fileOffset..(fileOffset + k) - 1 THEN data[(x - fileOffset) + 1]
                     ELSE IF x < fileSize[f] THEN ByteAt(blockList[f], x) ELSE 0
  <1> DEFINE size == fileSize[f]
             end == Smaller(fileOffset + Len(data), maxFileSize)
             list == PrepSetSize(f, end)
  <1>1. /\ data \in Seq(Byte) /\ Len(data) \in Nat /\ fileOffset \in Nat /\ maxFileSize \in Nat
        /\ end \in 0..maxFileSize
    <2>1. data \in Seq(Byte)
      BY ConstantsAssumption
    <2>2. Len(data) \in Nat
      BY <2>1
    <2> QED BY <2>1, <2>2, Numbers DEF Smaller
  <1>2. fileOffset < maxFileSize /\ fileOffset <= end /\ end - fileOffset <= Len(data)
    BY <1>1 DEF Write, Smaller
  <1>3. PICK stop \in Stops(list, fileOffset, end) :
          /\ blockList' = [blockList EXCEPT ![f] = Written(list, fileOffset, stop, end, data)]
          /\ capacity' = capacity + BlockSize * Cardinality(Missing(list, fileOffset, stop))
          /\ fileSize' = [fileSize EXCEPT ![f] = IF stop > fileOffset THEN Larger(@, stop) ELSE @]
          /\ outActualSize' = stop - fileOffset
    BY DEF Write
  <1>4. PICK n \in Nat : Holds(blockList[f], n, size)
    BY DEF FileInv, FilesHold, AllHold
  <1> HIDE DEF end
  <1>5. PICK m \in Nat :
          /\ Holds(list, m, size)
          /\ end <= m * BlockSize
          /\ BlocksOf(list) = BlocksOf(blockList[f])
          /\ \A x \in 0..size - 1 : ByteAt(list, x) = ByteAt(blockList[f], x)
    BY <1>1, <1>4, PreparedSame
  <1> DEFINE new == Written(list, fileOffset, stop, end, data)
             newSize == IF stop > fileOffset THEN Larger(size, stop) ELSE size
  <1> HIDE DEF list
  <1>6. /\ Holds(new, m, newSize)
        /\ BlocksOf(new) = BlocksOf(list) \cup Missing(list, fileOffset, stop)
        /\ \A x \in 0..newSize - 1 :
             ByteAt(new, x) = IF x \in fileOffset..stop - 1 THEN data[x - fileOffset + 1]
                              ELSE IF x < size THEN ByteAt(list, x) ELSE 0
    BY <1>1, <1>2, <1>5, WrittenHolds
  <1>7. stop \in Nat /\ fileOffset <= stop /\ stop <= end
    BY <1>1, <1>2, <1>5, StopsBetween
  <1> HIDE DEF new, newSize
  <1>8. fileSize' = [fileSize EXCEPT ![f] = newSize] /\ blockList' = [blockList EXCEPT ![f] = new]
    BY <1>3 DEF new, newSize
  <1>9. /\ FilesHold'
        /\ blockList'[f] = new /\ fileSize'[f] = newSize
        /\ OthersStay(f)
    BY <1>6, <1>8, OneFile DEF FileInv, OthersStay
  <1>10. Counted'
    <2> DEFINE added == Missing(list, fileOffset, stop)
    <2>1. added \cap BlocksOf(list) = {}
      BY DEF Missing, BlocksOf
    <2>2. Cardinality({}) = 0
      BY FS_EmptySet
    <2>3. capacity' = capacity + (BlockSize * Cardinality(added) - BlockSize * Cardinality({}))
      <3>1. capacity' = capacity + BlockSize * Cardinality(added)
        BY <1>3
      <3>2. IsFiniteSet(BlocksOf(new))
        BY <1>9, BlocksFinite DEF FilesHold
      <3>3. added \subseteq BlocksOf(new)
        BY <1>6
      <3>4. Cardinality(added) \in Nat
        BY <3>2, <3>3, FS_Subset, FS_CardinalityType
      <3>5. BlockSize * Cardinality(added) \in Nat /\ BlockSize * 0 = 0
        BY <3>4, Numbers
      <3> QED BY <2>2, <3>1, <3>5
    <2>4. BlocksOf(blockList'[f]) = (BlocksOf(blockList[f]) \ {}) \cup added
      BY <1>5, <1>6, <1>9
    <2> HIDE DEF added
    <2> QED BY <1>5, <1>9, <2>1, <2>3, <2>4, CountedStep DEF FileInv, OthersStay
  <1>11. PICK k \in 0..Len(data) : stop = fileOffset + k /\ outActualSize' = k
    <2>1. stop - fileOffset \in 0..Len(data) /\ stop = fileOffset + (stop - fileOffset)
      BY <1>1, <1>2, <1>7
    <2> QED BY <1>3, <2>1
  <1>12. newSize = IF k > 0 THEN Larger(size, fileOffset + k) ELSE size
    BY <1>1, <1>7, <1>11 DEF newSize
  <1>13. ASSUME NEW x \in 0..newSize - 1
         PROVE  ByteAt(new, x) =
                  IF x \in fileOffset..(fileOffset + k) - 1 THEN data[(x - fileOffset) + 1]
                  ELSE IF x < size THEN ByteAt(blockList[f], x) ELSE 0
    <2>1. x \in 0..size - 1 <=> x < size
      BY <1>4, Numbers DEF Holds
    <2>2. x < size => ByteAt(list, x) = ByteAt(blockList[f], x)
      BY <1>5, <2>1
    <2>3. fileOffset..stop - 1 = fileOffset..(fileOffset + k) - 1
      BY <1>11
    <2> QED BY <1>6, <2>2, <2>3
  <1>14. outActualSize' \in Nat
    BY <1>1, <1>11
  <1> QED BY <1>9, <1>10, <1>11, <1>12, <1>13, <1>14 DEF FileInv

(* SetSize to less cuts the file off, and gives back what it frees.        *)
LEMMA ShrinkStep ==
  ASSUME FileInv, NEW f \in Files, NEW newFileSize \in 0..maxFileSize, Shrink(f, newFileSize)
  PROVE  /\ FileInv'
         /\ OthersStay(f)
         /\ outActualSize' = outActualSize
         /\ fileSize'[f] = newFileSize
         /\ newFileSize < fileSize[f]
         /\ \A x \in 0..newFileSize - 1 : ByteAt(blockList'[f], x) = ByteAt(blockList[f], x)
  <1> DEFINE size == fileSize[f]
             list == PrepSetSize(f, newFileSize)
             new == Cut(list, newFileSize, size)
             removed == PastEnd(list, newFileSize, size)
  <1>1. PICK n \in Nat : Holds(blockList[f], n, size)
    BY DEF FileInv, FilesHold, AllHold
  <1>2. PICK m \in Nat :
          /\ Holds(list, m, size)
          /\ newFileSize <= m * BlockSize
          /\ BlocksOf(list) = BlocksOf(blockList[f])
          /\ \A x \in 0..size - 1 : ByteAt(list, x) = ByteAt(blockList[f], x)
    BY <1>1, PreparedSame
  <1>3. /\ newFileSize < size
        /\ blockList' = [blockList EXCEPT ![f] = new]
        /\ capacity' = capacity - BlockSize * Cardinality(removed)
        /\ fileSize' = [fileSize EXCEPT ![f] = newFileSize]
    BY DEF Shrink
  <1> HIDE DEF list
  <1>4. /\ Holds(new, m, newFileSize)
        /\ BlocksOf(new) = BlocksOf(list) \ removed
        /\ removed \subseteq BlocksOf(list)
        /\ \A x \in 0..newFileSize - 1 : ByteAt(new, x) = ByteAt(list, x)
    BY <1>2, <1>3, CutHolds
  <1> HIDE DEF new, removed
  <1>5. /\ FilesHold'
        /\ blockList'[f] = new /\ fileSize'[f] = newFileSize
        /\ OthersStay(f)
    BY <1>3, <1>4, OneFile DEF FileInv, OthersStay
  <1>6. Counted'
    <2>1. Cardinality({}) = 0
      BY FS_EmptySet
    <2>2. Cardinality(removed) \in Nat
      <3>1. IsFiniteSet(BlocksOf(blockList[f]))
        BY BlocksFinite DEF FileInv, FilesHold
      <3> QED BY <1>2, <1>4, <3>1, FS_Subset, FS_CardinalityType
    <2>3. BlockSize * Cardinality(removed) \in Nat /\ BlockSize * 0 = 0
      BY <2>2, Numbers
    <2>4. capacity \in Nat
      <3>1. Cardinality(Allocated) \in Nat
        BY AllocatedIs, BlocksFinite, FS_CardinalityType DEF FileInv, FilesHold
      <3> QED BY <3>1, Numbers DEF FileInv, Counted
    <2>5. capacity' = capacity + (BlockSize * Cardinality({}) - BlockSize * Cardinality(removed))
      BY <1>3, <2>1, <2>3, <2>4
    <2>6. BlocksOf(blockList'[f]) = (BlocksOf(blockList[f]) \ removed) \cup {}
      BY <1>2, <1>4, <1>5
    <2> QED BY <1>2, <1>4, <1>5, <2>5, <2>6, CountedStep DEF FileInv, OthersStay
  <1>7. ASSUME NEW x \in 0..newFileSize - 1
        PROVE  ByteAt(blockList'[f], x) = ByteAt(blockList[f], x)
    <2>1. x \in 0..size - 1
      BY <1>2, <1>3, Numbers DEF Holds
    <2> QED BY <1>2, <1>4, <1>5, <2>1
  <1>8. outActualSize' = outActualSize
    BY DEF Shrink
  <1> QED BY <1>3, <1>5, <1>6, <1>7, <1>8 DEF FileInv

(* SetSize to more leaves the blocks alone: the new bytes are zero.        *)
LEMMA ExtendStep ==
  ASSUME FileInv, NEW f \in Files, NEW newFileSize \in 0..maxFileSize, Extend(f, newFileSize)
  PROVE  /\ FileInv'
         /\ OthersStay(f)
         /\ outActualSize' = outActualSize
         /\ fileSize'[f] = newFileSize
         /\ fileSize[f] <= newFileSize
         /\ \A x \in 0..newFileSize - 1 :
              ByteAt(blockList'[f], x) = IF x < fileSize[f] THEN ByteAt(blockList[f], x) ELSE 0
  <1> DEFINE size == fileSize[f]
             list == PrepSetSize(f, newFileSize)
  <1>1. PICK n \in Nat : Holds(blockList[f], n, size)
    BY DEF FileInv, FilesHold, AllHold
  <1>2. PICK m \in Nat :
          /\ Holds(list, m, size)
          /\ newFileSize <= m * BlockSize
          /\ BlocksOf(list) = BlocksOf(blockList[f])
          /\ \A x \in 0..size - 1 : ByteAt(list, x) = ByteAt(blockList[f], x)
    BY <1>1, PreparedSame
  <1>3. /\ size <= newFileSize
        /\ blockList' = [blockList EXCEPT ![f] = list]
        /\ capacity' = capacity
        /\ fileSize' = [fileSize EXCEPT ![f] = newFileSize]
    BY DEF Extend
  <1> HIDE DEF list
  <1>4. Holds(list, m, newFileSize)
    BY <1>2, <1>3, LongerHolds
  <1>5. /\ FilesHold'
        /\ blockList'[f] = list /\ fileSize'[f] = newFileSize
        /\ OthersStay(f)
    BY <1>3, <1>4, OneFile DEF FileInv, OthersStay
  <1>6. Counted'
    <2>1. BlockSize * Cardinality({}) = 0
      BY FS_EmptySet, Numbers
    <2>2. capacity \in Nat
      <3>1. Cardinality(Allocated) \in Nat
        BY AllocatedIs, BlocksFinite, FS_CardinalityType DEF FileInv, FilesHold
      <3> QED BY <3>1, Numbers DEF FileInv, Counted
    <2>3. capacity' = capacity + (BlockSize * Cardinality({}) - BlockSize * Cardinality({}))
      BY <1>3, <2>1, <2>2
    <2>4. BlocksOf(blockList'[f]) = (BlocksOf(blockList[f]) \ {}) \cup {}
      BY <1>2, <1>5
    <2> QED BY <1>5, <2>3, <2>4, CountedStep DEF FileInv, OthersStay
  <1>7. ASSUME NEW x \in 0..newFileSize - 1
        PROVE  ByteAt(blockList'[f], x) = IF x < size THEN ByteAt(blockList[f], x) ELSE 0
    <2>1. x \in Nat /\ size \in Nat /\ m * BlockSize \in Nat /\ x < m * BlockSize
      BY <1>2, Numbers DEF Holds
    <2>2. CASE x < size
      BY <1>2, <1>5, <2>1, <2>2
    <2>3. CASE ~(x < size)
      <3>1. ByteAt(list, x) = 0
        BY <1>2, <2>1, <2>3, ZeroPastEnd
      <3> QED BY <1>5, <2>3, <3>1
    <2> QED BY <2>2, <2>3
  <1>8. outActualSize' = outActualSize
    BY DEF Extend
  <1> QED BY <1>3, <1>5, <1>6, <1>7, <1>8 DEF FileInv

(* A file that is gone gives back all its blocks. *)
LEMMA FreeStep ==
  ASSUME FileInv, NEW f \in Files, Free(f)
  PROVE  FileInv' /\ OthersStay(f) /\ outActualSize' = outActualSize /\ fileSize'[f] = 0
  <1> DEFINE removed == BlocksOf(blockList[f])
             none == [i \in {} |-> NULL]
  <1>1. /\ capacity' = capacity - BlockSize * Cardinality(removed)
        /\ blockList' = [blockList EXCEPT ![f] = none]
        /\ fileSize' = [fileSize EXCEPT ![f] = 0]
    BY DEF Free, BlocksOf
  <1>2. Holds(none, 0, 0)
    <2>1. 0..0 - 1 = {}
      OBVIOUS
    <2>2. none \in [0..0 - 1 -> Block \cup {NULL}]
      BY <2>1
    <2>3. 0 * BlockSize = 0
      BY Numbers
    <2> QED BY <2>1, <2>2, <2>3, Numbers DEF Holds, IsList
  <1>3. BlocksOf(none) = {}
    BY DEF BlocksOf
  <1> HIDE DEF none
  <1>4. FilesHold' /\ blockList'[f] = none /\ fileSize'[f] = 0 /\ OthersStay(f)
    <2>1. FilesHold
      BY DEF FileInv
    <2>2a. PICK k \in Nat : k = 0
      OBVIOUS
    <2>2b. PICK end \in Nat : end = 0
      OBVIOUS
    <2>2. k = 0 /\ end = 0
      BY <2>2a, <2>2b
    <2>3. /\ Holds(none, k, end)
          /\ blockList' = [blockList EXCEPT ![f] = none]
          /\ fileSize' = [fileSize EXCEPT ![f] = end]
      BY <1>1, <1>2, <2>2
    <2> HIDE DEF removed
    <2>4. FilesHold' /\ blockList'[f] = none
      BY <2>1, <2>3, OneFile
    <2>5. fileSize'[f] = end
      BY <2>1, <2>3 DEF FilesHold, AllHold
    <2>6. \A g \in Files \ {f} : blockList'[g] = blockList[g] /\ fileSize'[g] = fileSize[g]
      BY <2>3, <2>1, OneFile
    <2> QED BY <2>2, <2>4, <2>5, <2>6 DEF OthersStay
  <1>5. Counted'
    <2>1. Cardinality({}) = 0
      BY FS_EmptySet
    <2>2. Cardinality(removed) \in Nat
      <3>1. IsFiniteSet(BlocksOf(blockList[f]))
        BY BlocksFinite DEF FileInv, FilesHold
      <3> QED BY <3>1, FS_CardinalityType
    <2>3. BlockSize * Cardinality(removed) \in Nat /\ BlockSize * 0 = 0
      BY <2>2, Numbers
    <2>4. capacity \in Nat
      <3>1. Cardinality(Allocated) \in Nat
        BY AllocatedIs, BlocksFinite, FS_CardinalityType DEF FileInv, FilesHold
      <3> QED BY <3>1, Numbers DEF FileInv, Counted
    <2>5. capacity' = capacity + (BlockSize * Cardinality({}) - BlockSize * Cardinality(removed))
      BY <1>1, <2>1, <2>3, <2>4
    <2>6. BlocksOf(blockList'[f]) = (BlocksOf(blockList[f]) \ removed) \cup {}
      BY <1>3, <1>4
    <2> QED BY <1>4, <2>5, <2>6, CountedStep DEF FileInv, OthersStay
  <1>6. outActualSize' = outActualSize
    BY DEF Free
  <1> QED BY <1>4, <1>5, <1>6 DEF FileInv

(* No file has been written to. *)
LEMMA InitFileInv == Init => FileInv
  <1> SUFFICES ASSUME Init PROVE FileInv
    OBVIOUS
  <1> DEFINE none == [i \in {} |-> NULL]
  <1>1. Holds(none, 0, 0)
    <2>1. 0..0 - 1 = {}
      OBVIOUS
    <2>2. none \in [0..0 - 1 -> Block \cup {NULL}]
      BY <2>1
    <2>3. 0 * BlockSize = 0
      BY Numbers
    <2> QED BY <2>1, <2>2, <2>3, Numbers DEF Holds, IsList
  <1>2. /\ \A f \in Files : blockList[f] = none /\ fileSize[f] = 0
        /\ blockList = [f \in Files |-> blockList[f]]
        /\ fileSize \in [Files -> 0..maxFileSize]
    BY Numbers DEF Init
  <1>3. FilesHold
    <2>1. ASSUME NEW f \in Files PROVE \E n \in Nat : Holds(blockList[f], n, fileSize[f])
      BY <1>1, <1>2
    <2> QED BY <1>2, <2>1 DEF FilesHold, AllHold
  <1>4. Allocated = {}
    BY <1>2 DEF Allocated
  <1>5. BlockSize * Cardinality(Allocated) = 0
    BY <1>4, FS_EmptySet, Numbers
  <1> QED BY <1>3, <1>5 DEF FileInv, Counted, Init

(* Every request keeps the lists and counts its blocks. *)
LEMMA NextFileInv == FileInv /\ [Next]_vars => FileInv'
  <1> SUFFICES ASSUME FileInv, [Next]_vars PROVE FileInv'
    OBVIOUS
  <1>1. ASSUME NEW f \in Files, NEW fileOffset \in 0..maxFileSize, NEW data \in Payloads,
               Write(f, fileOffset, data)
        PROVE  FileInv'
    BY <1>1, WriteStep
  <1>2. ASSUME NEW f \in Files, NEW newFileSize \in 0..maxFileSize, Shrink(f, newFileSize)
        PROVE  FileInv'
    BY <1>2, ShrinkStep
  <1>3. ASSUME NEW f \in Files, NEW newFileSize \in 0..maxFileSize, Extend(f, newFileSize)
        PROVE  FileInv'
    BY <1>3, ExtendStep
  <1>4. ASSUME NEW f \in Files, Free(f) PROVE FileInv'
    BY <1>4, FreeStep
  <1>5. ASSUME NEW f \in Files, NEW fileOffset \in 0..maxFileSize, NEW data \in Payloads,
               WriteNothing(f, fileOffset, data)
        PROVE  FileInv'
    BY <1>5 DEF WriteNothing, FileInv, FilesHold, Counted, Allocated
  <1>6. CASE UNCHANGED vars
    BY <1>6 DEF FileInv, FilesHold, Counted, Allocated, vars
  <1> QED BY <1>1, <1>2, <1>3, <1>4, <1>5, <1>6 DEF Next

(* The invariant is stronger than type correctness. *)
LEMMA InvImpliesFileTypeOK == FileInv => FileTypeOK
  <1> SUFFICES ASSUME FileInv PROVE FileTypeOK
    OBVIOUS
  <1>1. ASSUME NEW f \in Files
        PROVE  \E n \in 0..MaxEntries :
                 /\ blockList[f] \in [0..n - 1 -> Block \cup {NULL}]
                 /\ fileSize[f] <= BlockSize * n
                 /\ \A i \in 0..n - 1 : i >= BlocksFor(fileSize[f]) => blockList[f][i] = NULL
    <2>1. PICK n \in Nat : Holds(blockList[f], n, fileSize[f])
      BY DEF FileInv, FilesHold, AllHold
    <2>2. n \in 0..MaxEntries /\ blockList[f] \in [0..n - 1 -> Block \cup {NULL}]
      BY <2>1 DEF Holds, IsList
    <2>3. fileSize[f] \in Nat /\ BlocksFor(fileSize[f]) \in Nat
      BY <2>1, Numbers, BlocksForLeast DEF Holds
    <2>4. fileSize[f] <= BlockSize * n
      BY <2>1, Numbers, Product DEF Holds
    <2>5. ASSUME NEW i \in 0..n - 1, i >= BlocksFor(fileSize[f]) PROVE blockList[f][i] = NULL
      <3>1. fileSize[f] <= i * BlockSize
        BY <2>3, <2>5, BlocksForLeast
      <3> QED BY <2>1, <3>1 DEF Holds
    <2> QED BY <2>2, <2>4, <2>5
  <1> QED BY <1>1 DEF FileTypeOK, FileInv, FilesHold, AllHold, Counted

(* For any number of files, any sizes of blocks and of the largest file    *)
(* and whatever is written: lists are long enough, no block is kept past   *)
(* the end of a file, and the volume counts exactly the memory there is.   *)
THEOREM TypeCorrect == Spec => []FileTypeOK
  <1> QED BY InitFileInv, NextFileInv, InvImpliesFileTypeOK, PTL DEF Spec

-----------------------------------------------------------------------------
(* A plain file of bytes.                                                  *)

(* A function on 1..n is a sequence of that length. *)
LEMMA LenIs ==
  ASSUME NEW n \in Nat, NEW c, NEW list, c = [p \in 1..n |-> ByteAt(list, p - 1)]
  PROVE  Len(c) = n
  BY LenProperties

(* What is read of a file from its beginning to its end. *)
ReadsBytes ==
  /\ content = [f \in Files |-> content[f]]
  /\ \A f \in Files : content[f] = [p \in 1..fileSize[f] |-> ByteAt(blockList[f], p - 1)]

(* Read finds these bytes in a list that has room for them. *)
LEMMA ContentIs == FilesHold => ReadsBytes
  <1> SUFFICES ASSUME FilesHold, NEW f \in Files
               PROVE  content[f] = [p \in 1..fileSize[f] |-> ByteAt(blockList[f], p - 1)]
    BY DEF content, ReadsBytes
  <1>1. fileSize[f] \in 0..maxFileSize /\ maxFileSize \in Nat
    BY Numbers DEF FilesHold, AllHold
  <1> DEFINE end == IF 0 < fileSize[f] THEN Smaller(0 + maxFileSize, fileSize[f]) ELSE 0
  <1>2. end = fileSize[f] /\ end - 0 = fileSize[f]
    BY <1>1 DEF Smaller
  <1>3. content[f] = Read(f, 0, maxFileSize)
    BY DEF content
  <1> HIDE DEF end
  <1>4. Read(f, 0, maxFileSize) =
          [p \in 1..end - 0 |->
             IF blockList[f][(0 + p - 1) \div BlockSize] = NULL THEN 0
             ELSE blockList[f][(0 + p - 1) \div BlockSize][(0 + p - 1) % BlockSize]]
    BY DEF Read, end
  <1>5. \A p \in 1..end - 0 : 0 + p - 1 = p - 1
    BY <1>1, <1>2
  <1> QED BY <1>2, <1>3, <1>4, <1>5 DEF ByteAt

(* Files start out empty. *)
LEMMA InitRefines == Init => Bytes!Init
  <1> SUFFICES ASSUME Init PROVE Bytes!Init
    OBVIOUS
  <1>1. FilesHold
    BY InitFileInv DEF FileInv
  <1>2. ASSUME NEW f \in Files PROVE content[f] = <<>>
    <2>1. fileSize[f] = 0
      BY DEF Init
    <2>2. 1..fileSize[f] = {}
      BY <2>1
    <2>3. content[f] = [p \in 1..fileSize[f] |-> ByteAt(blockList[f], p - 1)]
      BY <1>1, ContentIs DEF ReadsBytes
    <2> QED BY <2>2, <2>3
  <1> QED BY <1>1, <1>2, ContentIs DEF Bytes!Init, ReadsBytes, Init

(* Every request is a request to the plain file. *)
LEMMA StepRefines ==
  FileInv /\ ReadsBytes' /\ [Next]_vars => [Bytes!Next]_<<content, outActualSize>>
  <1> SUFFICES ASSUME FileInv, ReadsBytes', [Next]_vars PROVE [Bytes!Next]_<<content, outActualSize>>
    OBVIOUS
  <1>1. FileInv'
    BY NextFileInv
  <1>2. /\ content = [g \in Files |-> content[g]]
        /\ content' = [g \in Files |-> content'[g]]
        /\ \A g \in Files : content[g] = [p \in 1..fileSize[g] |-> ByteAt(blockList[g], p - 1)]
        /\ \A g \in Files : content'[g] = [p \in 1..fileSize'[g] |-> ByteAt(blockList'[g], p - 1)]
    <2>1. ReadsBytes
      BY ContentIs DEF FileInv
    <2> QED BY <2>1 DEF ReadsBytes
  <1>3. ASSUME NEW f \in Files, OthersStay(f)
        PROVE  content' = [content EXCEPT ![f] = content'[f]]
    <2>1. \A g \in Files \ {f} : content'[g] = content[g]
      <3> TAKE g \in Files \ {f}
      <3>1. blockList'[g] = blockList[g] /\ fileSize'[g] = fileSize[g]
        BY <1>3 DEF OthersStay
      <3>2. content[g] = [p \in 1..fileSize[g] |-> ByteAt(blockList[g], p - 1)]
        BY <1>2
      <3>3. content'[g] = [p \in 1..fileSize'[g] |-> ByteAt(blockList'[g], p - 1)]
        BY <1>2
      <3> QED BY <3>1, <3>2, <3>3
    <2> QED BY <1>2, <2>1
  <1>4. \A f \in Files : fileSize[f] \in 0..maxFileSize /\ fileSize'[f] \in 0..maxFileSize
    BY <1>1 DEF FileInv, FilesHold, AllHold
  <1>5. ASSUME NEW f \in Files PROVE Len(content[f]) = fileSize[f]
    <2>1. fileSize[f] \in Nat
      BY <1>4, Numbers
    <2> QED BY <1>2, <2>1, LenIs
  <1>6. ASSUME NEW f \in Files, NEW fileOffset \in 0..maxFileSize, NEW data \in Payloads,
               Write(f, fileOffset, data)
        PROVE  [Bytes!Next]_<<content, outActualSize>>
    <2>1. data \in Seq(Byte) /\ Len(data) \in Nat /\ fileOffset \in Nat
      <3>1. data \in Seq(Byte)
        BY ConstantsAssumption
      <3> QED BY <3>1, Numbers
    <2>2. PICK k \in 0..Len(data) :
            /\ outActualSize' = k
            /\ fileSize'[f] = IF k > 0 THEN Larger(fileSize[f], fileOffset + k) ELSE fileSize[f]
            /\ \A x \in 0..fileSize'[f] - 1 :
                 ByteAt(blockList'[f], x) =
                   IF x \in fileOffset..(fileOffset + k) - 1 THEN data[(x - fileOffset) + 1]
                   ELSE IF x < fileSize[f] THEN ByteAt(blockList[f], x) ELSE 0
      BY <1>6, WriteStep
    <2>3. content' = [content EXCEPT ![f] = content'[f]]
      BY <1>3, <1>6, WriteStep
    <2>4. fileSize[f] \in Nat /\ fileSize'[f] \in Nat
      BY <1>4, Numbers
    <2>5. ASSUME NEW p \in 1..fileSize'[f]
          PROVE  content'[f][p] =
                   IF p \in fileOffset + 1..fileOffset + k THEN data[p - fileOffset]
                   ELSE IF p <= fileSize[f] THEN content[f][p] ELSE 0
      <3>1. p - 1 \in 0..fileSize'[f] - 1 /\ p \in Nat
        BY <2>4
      <3>2. content'[f][p] = ByteAt(blockList'[f], p - 1)
        <4>1. content'[f] = [x \in 1..fileSize'[f] |-> ByteAt(blockList'[f], x - 1)]
          BY <1>2
        <4> QED BY <4>1
      <3>3. p <= fileSize[f] => content[f][p] = ByteAt(blockList[f], p - 1)
        BY <1>2, <2>4, <3>1
      <3>4. (p - 1 - fileOffset) + 1 = p - fileOffset /\ ((p - 1) - fileOffset) + 1 = p - fileOffset
        BY <2>1, <3>1
      <3>5. p - 1 \in fileOffset..(fileOffset + k) - 1 <=> p \in fileOffset + 1..fileOffset + k
        BY <2>1, <3>1
      <3>6. p - 1 < fileSize[f] <=> p <= fileSize[f]
        BY <2>4, <3>1
      <3> QED BY <2>2, <3>1, <3>2, <3>3, <3>4, <3>5, <3>6
    <2>6. content'[f] = [p \in 1..fileSize'[f] |-> content'[f][p]]
      BY <1>2
    <2>7. CASE k = 0
      <3>1. fileSize'[f] = fileSize[f]
        BY <2>2, <2>7
      <3>2. \A p \in 1..fileSize[f] : content'[f][p] = content[f][p]
        BY <2>1, <2>4, <2>5, <2>7, <3>1
      <3>3. content'[f] = content[f]
        BY <1>2, <2>6, <3>1, <3>2
      <3>4. content' = content
        BY <1>2, <2>3, <3>3
      <3>5. Bytes!WriteNothing
        BY <2>2, <2>7, <3>4 DEF Bytes!WriteNothing
      <3> QED BY <3>5 DEF Bytes!Next
    <2>8. CASE k > 0
      <3>1. k \in 1..Len(data)
        BY <2>1, <2>8
      <3>2. fileSize'[f] = Bytes!Longer(Len(content[f]), fileOffset + k)
        BY <1>5, <2>2, <2>8 DEF Larger, Bytes!Longer
      <3>3. content'[f] = [p \in 1..Bytes!Longer(Len(content[f]), fileOffset + k) |->
               IF p \in fileOffset + 1..fileOffset + k THEN data[p - fileOffset]
               ELSE IF p <= Len(content[f]) THEN content[f][p] ELSE 0]
        BY <1>5, <2>5, <2>6, <3>2
      <3>4. Bytes!Write(f, fileOffset, data, k)
        BY <1>2, <2>2, <2>3, <3>3 DEF Bytes!Write
      <3> QED BY <3>1, <3>4 DEF Bytes!Next
    <2> QED BY <2>1, <2>7, <2>8
  <1>7. ASSUME NEW f \in Files, NEW n \in 0..maxFileSize, OthersStay(f), fileSize'[f] = n,
               outActualSize' = outActualSize,
               \A x \in 0..n - 1 :
                 ByteAt(blockList'[f], x) = IF x < fileSize[f] THEN ByteAt(blockList[f], x) ELSE 0
        PROVE  Bytes!Next
    <2>1. n \in Nat /\ fileSize[f] \in Nat
      BY <1>4, Numbers
    <2>2. ASSUME NEW p \in 1..n
          PROVE  content'[f][p] = IF p <= Len(content[f]) THEN content[f][p] ELSE 0
      <3>1. p - 1 \in 0..n - 1 /\ (p - 1 < fileSize[f] <=> p <= fileSize[f])
        BY <2>1
      <3>2. content'[f][p] = ByteAt(blockList'[f], p - 1)
        BY <1>2, <1>7
      <3>3. p <= fileSize[f] => content[f][p] = ByteAt(blockList[f], p - 1)
        BY <1>2, <2>1
      <3> QED BY <1>5, <1>7, <3>1, <3>2, <3>3
    <2>3. content'[f] = [p \in 1..n |-> content'[f][p]]
      BY <1>2, <1>7
    <2>4. content'[f] = Bytes!Resized(content[f], n)
      BY <2>2, <2>3 DEF Bytes!Resized
    <2>5. content' = [content EXCEPT ![f] = content'[f]]
      BY <1>3, <1>7
    <2>6. Bytes!SetSize(f, n)
      BY <1>2, <1>7, <2>4, <2>5 DEF Bytes!SetSize
    <2> QED BY <2>6 DEF Bytes!Next
  <1>8. ASSUME NEW f \in Files, NEW n \in 0..maxFileSize, Shrink(f, n) PROVE Bytes!Next
    <2>1. /\ OthersStay(f) /\ fileSize'[f] = n /\ n < fileSize[f]
          /\ outActualSize' = outActualSize
          /\ \A x \in 0..n - 1 : ByteAt(blockList'[f], x) = ByteAt(blockList[f], x)
      BY <1>8, ShrinkStep
    <2>2. \A x \in 0..n - 1 : x < fileSize[f]
      BY <1>4, <2>1, Numbers
    <2> QED BY <1>7, <2>1, <2>2
  <1>9. ASSUME NEW f \in Files, NEW n \in 0..maxFileSize, Extend(f, n) PROVE Bytes!Next
    BY <1>7, <1>9, ExtendStep
  <1>10. ASSUME NEW f \in Files, Free(f) PROVE Bytes!Next
    <2>1. OthersStay(f) /\ fileSize'[f] = 0 /\ outActualSize' = outActualSize
      BY <1>10, FreeStep
    <2>2. 0 \in 0..maxFileSize /\ 0..0 - 1 = {}
      BY Numbers
    <2> QED BY <1>7, <2>1, <2>2
  <1>11. ASSUME NEW f \in Files, NEW fileOffset \in 0..maxFileSize, NEW data \in Payloads,
                WriteNothing(f, fileOffset, data)
         PROVE  Bytes!Next
    <2>1. content' = content
      BY <1>11 DEF WriteNothing, content, Read
    <2>2. Bytes!WriteNothing
      BY <1>11, <2>1 DEF WriteNothing, Bytes!WriteNothing
    <2> QED BY <2>2 DEF Bytes!Next
  <1>12. CASE UNCHANGED vars
    BY <1>12 DEF content, Read, vars
  <1> QED BY <1>6, <1>8, <1>9, <1>10, <1>11, <1>12 DEF Next

(* To whoever reads it a file is a plain sequence of bytes, whatever is in *)
(* blocks, past the end, or refused memory for: a write puts a front part  *)
(* of its bytes where they belong and zeros before them, and answers how   *)
(* many those are; a change of the size cuts off or adds zeros.            *)
THEOREM ImplementsByteFile == Spec => ByteFileSpec
  <1>1. FileInv => ReadsBytes
    BY ContentIs DEF FileInv
  <1> QED BY <1>1, InitFileInv, NextFileInv, InitRefines, StepRefines, PTL
          DEF Spec, ByteFileSpec, Bytes!Spec
==============================================================================
