--------------------------- MODULE IndexFileProofs ---------------------------
(***************************************************************************)
(* Theorems about the .IDX file, for any number of threads, any recordings *)
(* and indexes of any sizes, with any number of calls, faults and          *)
(* replacements of the clip.                                               *)
(***************************************************************************)
EXTENDS IndexFile, FiniteSetTheorems, SequenceTheorems, TLAPS

-----------------------------------------------------------------------------
(* Type correctness.                                                       *)

(* What a thread is writing is the index of a recording, and there is a    *)
(* piece of it left to be written.                                         *)
WritesOwn ==
  \A t \in Threads :
    /\ pc[t] \in {"create", "write"} => index[t] \in Clips
    /\ pc[t] = "write" => at[t] < Size[index[t]]

TypeInd == TypeOK /\ WritesOwn

(* fwrite at the position reached: the piece is there and others stay.     *)
LEMMA PutProperties ==
  ASSUME file \in Seq(Pieces), NEW k \in Nat \ {0}, NEW c \in Pieces
  PROVE  /\ Put(k, c) \in Seq(Pieces)
         /\ Len(Put(k, c)) = (IF Len(file) > k THEN Len(file) ELSE k)
         /\ Put(k, c)[k] = c
         /\ \A i \in 1..Len(Put(k, c)) :
              i # k => Put(k, c)[i] = (IF i <= Len(file) THEN file[i] ELSE Hole)
  <1>1. PICK n \in Nat : n = (IF Len(file) > k THEN Len(file) ELSE k)
    OBVIOUS
  <1>2. Put(k, c) = [i \in 1..n |-> IF i = k THEN c ELSE
                                    IF i <= Len(file) THEN file[i] ELSE Hole]
    BY <1>1 DEF Put
  <1>3. \A i \in 1..n : Put(k, c)[i] \in Pieces
    BY <1>1, <1>2 DEF Pieces
  <1>4. Put(k, c) \in [1..n -> Pieces]
    BY <1>2, <1>3
  <1>5. Put(k, c) \in Seq(Pieces)
    BY <1>4, SeqDef
  <1>6. Len(Put(k, c)) = n
    BY <1>2, <1>4, <1>5, LenProperties
  <1>7. n >= k
    BY <1>1
  <1> QED
    BY <1>1, <1>2, <1>5, <1>6, <1>7

(* What a step of a writer does to the file.                               *)
LEMMA WriteStep ==
  ASSUME TypeInd, NEW t \in Threads, Write(t)
  PROVE  /\ index[t] \in Clips /\ at[t] \in Nat /\ Size[index[t]] \in Nat
         /\ at[t] < Size[index[t]] /\ file' \in Seq(Pieces)
         /\ Len(file') = (IF Len(file) > at[t] + 1 THEN Len(file) ELSE at[t] + 1)
         /\ file'[at[t] + 1] = index[t]
         /\ \A i \in 1..Len(file') :
              i # at[t] + 1 => file'[i] = (IF i <= Len(file) THEN file[i] ELSE Hole)
  <1>1. index[t] \in Clips /\ at[t] \in Nat /\ at[t] < Size[index[t]]
    BY DEF Write, TypeInd, TypeOK, WritesOwn
  <1>2. Size[index[t]] \in Nat /\ index[t] \in Pieces
    BY <1>1, ConstantsAssumption DEF Pieces, Indexes
  <1>3. file \in Seq(Pieces) /\ at[t] + 1 \in Nat \ {0}
    BY <1>1 DEF TypeInd, TypeOK
  <1>4. file' = Put(at[t] + 1, index[t])
    BY DEF Write
  <1>5. PICK k \in Nat \ {0}, c \in Pieces : k = at[t] + 1 /\ c = index[t]
    BY <1>2, <1>3
  <1>6. /\ Put(k, c) \in Seq(Pieces)
        /\ Len(Put(k, c)) = (IF Len(file) > k THEN Len(file) ELSE k)
        /\ Put(k, c)[k] = c
        /\ \A i \in 1..Len(Put(k, c)) :
             i # k => Put(k, c)[i] = (IF i <= Len(file) THEN file[i] ELSE Hole)
    BY <1>3, PutProperties
  <1> QED
    BY <1>1, <1>2, <1>4, <1>5, <1>6

(* A call goes on to another of its stages. *)
LEMMA SetStageType ==
  ASSUME TypeOK, NEW t \in Threads, NEW s \in {"cached", "made", "recount"}, SetStage(t, s)
  PROVE  call' \in [Threads -> [kind : {"index", "count"}, stage : {"cached", "made", "recount"}]]
  <1> DEFINE Calls == [kind : {"index", "count"}, stage : {"cached", "made", "recount"}]
             next == [call[t] EXCEPT !.stage = s]
  <1>1. call \in [Threads -> Calls]
    BY DEF TypeOK
  <1>2. next \in Calls
    BY <1>1
  <1>3. call' = [call EXCEPT ![t] = next]
    BY <1>1 DEF SetStage
  <1> HIDE DEF Calls, next
  <1>4. call' \in [Threads -> Calls]
    BY <1>1, <1>2, <1>3
  <1> QED
    BY <1>4 DEF Calls

(* Before the first call the file is missing or holds an old index. *)
LEMMA InitTypeInd == Init => TypeInd
  <1> SUFFICES ASSUME Init PROVE TypeInd
    OBVIOUS
  <1>1. <<>> \in Seq(Pieces) /\ [i \in 1..Size[Old] |-> Old] \in Seq(Pieces)
    BY ConstantsAssumption, IsASeq DEF Pieces, Indexes
  <1>2. file \in Seq(Pieces)
    BY <1>1 DEF Init
  <1>3. WritesOwn
    BY DEF Init, WritesOwn
  <1>4. clip \in Clips \cup {None} /\ {calls, faults, replacements} \subseteq Nat
    BY DEF Init
  <1>7. overlap \in BOOLEAN /\ disturbed \in [Threads -> BOOLEAN]
    BY DEF Init
  <1>5. /\ pc \in [Threads -> {"idle", "open", "read", "chunks", "create", "write"}]
        /\ call \in [Threads -> [kind : {"index", "count"},
                                 stage : {"cached", "made", "recount"}]]
        /\ index \in [Threads -> Clips \cup {None}]
        /\ at \in [Threads -> Nat]
    BY DEF Init
  <1>6. /\ table \in [Threads -> Seq(Pieces)]
        /\ result \in [Threads -> Seq(Pieces) \cup {None}]
    BY <1>1 DEF Init
  <1> QED
    BY <1>2, <1>3, <1>4, <1>5, <1>6, <1>7 DEF TypeInd, TypeOK

(* No step leaves the types, and no writer goes beyond its index.          *)
LEMMA NextTypeInd == TypeInd /\ [Next]_vars => TypeInd'
  <1> SUFFICES ASSUME TypeInd, [Next]_vars PROVE TypeInd'
    OBVIOUS
  <1> USE ConstantsAssumption
  <1>1. ASSUME NEW t \in Threads, NEW kind \in {"index", "count"}, Call(t, kind) PROVE TypeInd'
    <2>1. <<>> \in Seq(Pieces)
      OBVIOUS
    <2> QED
      BY <1>1, <2>1 DEF Call, Goto, environment, TypeInd, TypeOK, WritesOwn
  <1>2. ASSUME NEW t \in Threads, LoadOpen(t) PROVE TypeInd'
    <2>1. <<>> \in Seq(Pieces)
      OBVIOUS
    <2> QED
      BY <1>2, <2>1 DEF LoadOpen, Goto, environment, TypeInd, TypeOK, WritesOwn
  <1>3. ASSUME NEW t \in Threads, LoadPiece(t) PROVE TypeInd'
    <2>1. file[Len(table[t]) + 1] \in Pieces
      BY <1>3 DEF LoadPiece, TypeInd, TypeOK
    <2>2. Append(table[t], file[Len(table[t]) + 1]) \in Seq(Pieces)
      BY <2>1 DEF TypeInd, TypeOK
    <2> QED
      BY <1>3, <2>2 DEF LoadPiece, environment, TypeInd, TypeOK, WritesOwn
  <1>4. ASSUME NEW t \in Threads, MakeIndex(t) PROVE TypeInd'
    <2>1. call' \in [Threads -> [kind : {"index", "count"}, stage : {"cached", "made", "recount"}]]
      BY <1>4, SetStageType DEF MakeIndex, TypeInd
    <2>2. pc' = [pc EXCEPT ![t] = "chunks"]
      BY <1>4 DEF MakeIndex, Goto
    <2> QED
      BY <1>4, <2>1, <2>2 DEF MakeIndex, environment, TypeInd, TypeOK, WritesOwn
  <1>5. ASSUME NEW t \in Threads, ReturnNull(t) PROVE TypeInd'
    BY <1>5 DEF ReturnNull, LoadFails, Return, Goto, environment, TypeInd, TypeOK, WritesOwn
  <1>6. ASSUME NEW t \in Threads, Recount(t) PROVE TypeInd'
    <2>1. call' \in [Threads -> [kind : {"index", "count"}, stage : {"cached", "made", "recount"}]]
      BY <1>6, SetStageType DEF Recount, TypeInd
    <2>2. pc' = [pc EXCEPT ![t] = "chunks"]
      BY <1>6 DEF Recount, Goto
    <2> QED
      BY <1>6, <2>1, <2>2 DEF Recount, environment, TypeInd, TypeOK, WritesOwn
  <1>7. ASSUME NEW t \in Threads, ReturnTable(t) PROVE TypeInd'
    BY <1>7 DEF ReturnTable, Return, Goto, environment, TypeInd, TypeOK, WritesOwn
  <1>8. ASSUME NEW t \in Threads, Scan(t) PROVE TypeInd'
    BY <1>8 DEF Scan, Goto, environment, TypeInd, TypeOK, WritesOwn
  <1>9. ASSUME NEW t \in Threads, ScanFails(t) PROVE TypeInd'
    BY <1>9 DEF ScanFails, Return, Goto, environment, TypeInd, TypeOK, WritesOwn
  <1>10. ASSUME NEW t \in Threads, Create(t) PROVE TypeInd'
    <2>1. file' \in Seq(Pieces)
      BY <1>10 DEF Create
    <2>2. overlap' \in BOOLEAN /\ disturbed' \in [Threads -> BOOLEAN]
      BY <1>10 DEF Create, DisturbsOthers, TypeInd, TypeOK
    <2>3. Size[index[t]] > 0
      BY <1>10 DEF Create, Indexes, TypeInd, WritesOwn
    <2>4. /\ pc' = [pc EXCEPT ![t] = "write"] /\ at' = [at EXCEPT ![t] = 0]
          /\ UNCHANGED <<clip, replacements, call, table, index, result, calls, faults>>
      BY <1>10 DEF Create, Goto, environment
    <2>5. TypeOK'
      BY <2>1, <2>2, <2>4 DEF TypeInd, TypeOK
    <2>6. WritesOwn'
      BY <1>10, <2>3, <2>4 DEF Create, TypeInd, TypeOK, WritesOwn
    <2> QED
      BY <2>5, <2>6 DEF TypeInd
  <1>11. ASSUME NEW t \in Threads, Write(t) PROVE TypeInd'
    <2>1. /\ index[t] \in Clips /\ at[t] \in Nat /\ Size[index[t]] \in Nat
          /\ at[t] < Size[index[t]] /\ file' \in Seq(Pieces)
      BY <1>11, WriteStep
    <2>2. disturbed' \in [Threads -> BOOLEAN]
      BY <1>11 DEF Write, DisturbsOthers, TypeInd, TypeOK
    <2>3. PICK l \in {"open", "write"} :
            /\ pc' = [pc EXCEPT ![t] = l]
            /\ l = "write" => at[t] + 1 # Size[index[t]]
      BY <1>11 DEF Write, Goto
    <2>4. /\ at' = [at EXCEPT ![t] = at[t] + 1]
          /\ UNCHANGED <<clip, replacements, call, table, index, result, calls, faults, overlap>>
      BY <1>11 DEF Write, environment
    <2>5. TypeOK'
      <3>1. pc' \in [Threads -> {"idle", "open", "read", "chunks", "create", "write"}]
        BY <2>3 DEF TypeInd, TypeOK
      <3>2. at' \in [Threads -> Nat]
        BY <2>1, <2>4 DEF TypeInd, TypeOK
      <3> QED
        BY <2>1, <2>2, <2>4, <3>1, <3>2 DEF TypeInd, TypeOK
    <2>6. WritesOwn'
      <3> SUFFICES ASSUME NEW u \in Threads
                   PROVE  /\ pc'[u] \in {"create", "write"} => index[u] \in Clips
                          /\ pc'[u] = "write" => at'[u] < Size[index[u]]
        BY <2>4 DEF WritesOwn
      <3>1. CASE u = t
        BY <2>1, <2>3, <2>4, <3>1 DEF TypeInd, TypeOK
      <3>2. CASE u # t
        BY <2>3, <2>4, <3>2 DEF TypeInd, TypeOK, WritesOwn
      <3> QED
        BY <3>1, <3>2
    <2> QED
      BY <2>5, <2>6 DEF TypeInd
  <1>12. ASSUME NEW t \in Threads, SaveFails(t) PROVE TypeInd'
    BY <1>12 DEF SaveFails, Goto, environment, TypeInd, TypeOK, WritesOwn
  <1>13. CASE Crash
    <2>1. <<>> \in Seq(Pieces)
      OBVIOUS
    <2> QED
      BY <1>13, <2>1 DEF Crash, environment, TypeInd, TypeOK, WritesOwn
  <1>14. ASSUME NEW c \in Clips \cup {None}, Replace(c) PROVE TypeInd'
    BY <1>14 DEF Replace, Goto, environment, TypeInd, TypeOK, WritesOwn
  <1>15. CASE UNCHANGED vars
    BY <1>15 DEF vars, Goto, environment, TypeInd, TypeOK, WritesOwn
  <1> QED
    BY <1>1, <1>2, <1>3, <1>4, <1>5, <1>6, <1>7, <1>8, <1>9, <1>10, <1>11, <1>12, <1>13, <1>14,
       <1>15
    DEF Next, Step, Finished

(* The reader never looks beyond the file, the writer never writes beyond  *)
(* the index it has made.                                                  *)
THEOREM TypeCorrect == Spec => []TypeOK
  <1>1. TypeInd => TypeOK
    BY DEF TypeInd
  <1> QED
    BY <1>1, InitTypeInd, NextTypeInd, PTL DEF Spec

-----------------------------------------------------------------------------
(* A call that no other thread disturbs.                                   *)

(* s is n pieces of the index c. *)
IsRun(s, n, c) == Len(s) = n /\ \A i \in 1..n : s[i] = c

IsFrontOf(s, u) == Len(s) <= Len(u) /\ \A i \in 1..Len(s) : s[i] = u[i]

(* A writer that has written all that is in the file goes on to do so.     *)
LEMMA RunGrows ==
  ASSUME TypeInd, NEW t \in Threads, Write(t), IsRun(file, at[t], index[t])
  PROVE  IsRun(file', at[t] + 1, index[t])
  <1> DEFINE k == at[t]
             c == index[t]
  <1>1. k \in Nat /\ Len(file) = k /\ \A i \in 1..k : file[i] = c
    BY WriteStep DEF IsRun
  <1>2. Len(file') = k + 1 /\ file'[k + 1] = c
    BY <1>1, WriteStep
  <1>3. ASSUME NEW i \in 1..(k + 1), i # k + 1 PROVE file'[i] = c
    <2>1. i \in 1..Len(file') /\ i \in 1..k
      BY <1>1, <1>2, <1>3
    <2>2. file'[i] = file[i]
      BY <1>1, <1>3, <2>1, WriteStep
    <2> QED
      BY <1>1, <2>1, <2>2
  <1> QED
    BY <1>2, <1>3 DEF IsRun

(* The file is what the thread itself has written since its call, and what *)
(* it has read so far is still in front of the file.                       *)
Own(t) ==
  /\ pc[t] = "write" => IsRun(file, at[t], index[t])
  /\ pc[t] \in {"open", "read"} /\ call[t].stage # "cached" =>
       index[t] \in Clips /\ IsRun(file, Size[index[t]], index[t])
  /\ pc[t] = "read" => IsFrontOf(table[t], file)

OwnFile == \A t \in Threads : ~disturbed[t] => Own(t)

(* A step that leaves the file and what another thread does alone.         *)
OthersAlone(t) ==
  \A u \in Threads \ {t} :
    /\ pc'[u] = pc[u] /\ call'[u] = call[u] /\ table'[u] = table[u]
    /\ index'[u] = index[u] /\ at'[u] = at[u] /\ disturbed'[u] = disturbed[u]

(* A step that leaves the file alone disturbs nobody's view of it. *)
LEMMA OwnFileStep ==
  ASSUME OwnFile, NEW t \in Threads, file' = file, OthersAlone(t),
         ~disturbed'[t] => Own(t)'
  PROVE  OwnFile'
  BY DEF OwnFile, Own, OthersAlone

(* Whoever writes the file disturbs all the others.                        *)
LEMMA OwnFileDisturbed ==
  ASSUME TypeInd, NEW t \in Threads, DisturbsOthers(t), ~disturbed[t] => Own(t)'
  PROVE  OwnFile'
  <1> SUFFICES ASSUME NEW u \in Threads, ~disturbed'[u] PROVE Own(u)'
    BY DEF OwnFile
  <1>1. u = t /\ ~disturbed[t]
    BY DEF DisturbsOthers
  <1> QED
    BY <1>1

(* What an undisturbed thread knows of the file stays true.                *)
LEMMA NextOwnFile == TypeInd /\ OwnFile /\ [Next]_vars => OwnFile'
  <1> SUFFICES ASSUME TypeInd, OwnFile, [Next]_vars PROVE OwnFile'
    OBVIOUS
  <1> USE ConstantsAssumption
  <1>1. ASSUME NEW t \in Threads, NEW kind \in {"index", "count"}, Call(t, kind) PROVE OwnFile'
    <2>1. file' = file /\ OthersAlone(t)
      BY <1>1 DEF Call, Goto, environment, OthersAlone, TypeInd, TypeOK
    <2>2. ~disturbed'[t] => Own(t)'
      BY <1>1 DEF Call, Goto, environment, Own, OwnFile, IsFrontOf, TypeInd, TypeOK
    <2> QED
      BY <2>1, <2>2, OwnFileStep
  <1>2. ASSUME NEW t \in Threads, LoadOpen(t) PROVE OwnFile'
    <2>1. file' = file /\ OthersAlone(t)
      BY <1>2 DEF LoadOpen, Goto, environment, OthersAlone, TypeInd, TypeOK
    <2>2. ~disturbed'[t] => Own(t)'
      BY <1>2 DEF LoadOpen, Goto, environment, Own, OwnFile, IsFrontOf, TypeInd, TypeOK
    <2> QED
      BY <2>1, <2>2, OwnFileStep
  <1>3. ASSUME NEW t \in Threads, LoadPiece(t) PROVE OwnFile'
    <2>1. file' = file /\ OthersAlone(t)
      BY <1>3 DEF LoadPiece, environment, OthersAlone, TypeInd, TypeOK
    <2>2. ASSUME ~disturbed[t] PROVE IsFrontOf(table'[t], file)
      <3>1. IsFrontOf(table[t], file) /\ table[t] \in Seq(Pieces) /\ Len(file) \in Nat
        BY <1>3, <2>2 DEF LoadPiece, OwnFile, Own, TypeInd, TypeOK
      <3>2. table'[t] = Append(table[t], file[Len(table[t]) + 1]) /\ Len(file) > Len(table[t])
        BY <1>3 DEF LoadPiece, TypeInd, TypeOK
      <3>3. Len(table'[t]) = Len(table[t]) + 1
        BY <3>1, <3>2
      <3>4. \A i \in 1..Len(table[t]) + 1 : table'[t][i] = file[i]
        BY <3>1, <3>2 DEF IsFrontOf
      <3> QED
        BY <3>1, <3>2, <3>3, <3>4 DEF IsFrontOf
    <2>3. ~disturbed'[t] => Own(t)'
      BY <1>3, <2>1, <2>2 DEF LoadPiece, environment, Own, OwnFile
    <2> QED
      BY <2>1, <2>3, OwnFileStep
  <1>4. ASSUME NEW t \in Threads, MakeIndex(t) PROVE OwnFile'
    <2>1. file' = file /\ OthersAlone(t)
      BY <1>4 DEF MakeIndex, LoadFails, SetStage, Goto, environment, OthersAlone, TypeInd,
         TypeOK
    <2>2. ~disturbed'[t] => Own(t)'
      BY <1>4 DEF MakeIndex, LoadFails, SetStage, Goto, environment, Own, OwnFile, IsFrontOf,
         TypeInd, TypeOK
    <2> QED
      BY <2>1, <2>2, OwnFileStep
  <1>5. ASSUME NEW t \in Threads, ReturnNull(t) PROVE OwnFile'
    <2>1. file' = file /\ OthersAlone(t)
      BY <1>5 DEF ReturnNull, LoadFails, Return, Goto, environment, OthersAlone, TypeInd, TypeOK
    <2>2. ~disturbed'[t] => Own(t)'
      BY <1>5 DEF ReturnNull, LoadFails, Return, Goto, environment, Own, OwnFile, IsFrontOf,
         TypeInd, TypeOK
    <2> QED
      BY <2>1, <2>2, OwnFileStep
  <1>6. ASSUME NEW t \in Threads, Recount(t) PROVE OwnFile'
    <2>1. file' = file /\ OthersAlone(t)
      BY <1>6 DEF Recount, SetStage, Goto, environment, OthersAlone, TypeInd, TypeOK
    <2>2. ~disturbed'[t] => Own(t)'
      BY <1>6 DEF Recount, SetStage, Goto, environment, Own, OwnFile, IsFrontOf, TypeInd, TypeOK
    <2> QED
      BY <2>1, <2>2, OwnFileStep
  <1>7. ASSUME NEW t \in Threads, ReturnTable(t) PROVE OwnFile'
    <2>1. file' = file /\ OthersAlone(t)
      BY <1>7 DEF ReturnTable, Return, Goto, environment, OthersAlone, TypeInd, TypeOK
    <2>2. ~disturbed'[t] => Own(t)'
      BY <1>7 DEF ReturnTable, Return, Goto, environment, Own, OwnFile, IsFrontOf, TypeInd,
         TypeOK
    <2> QED
      BY <2>1, <2>2, OwnFileStep
  <1>8. ASSUME NEW t \in Threads, Scan(t) PROVE OwnFile'
    <2>1. file' = file /\ OthersAlone(t)
      BY <1>8 DEF Scan, Goto, environment, OthersAlone, TypeInd, TypeOK
    <2>2. ~disturbed'[t] => Own(t)'
      BY <1>8 DEF Scan, Goto, environment, Own, OwnFile, IsFrontOf, TypeInd, TypeOK
    <2> QED
      BY <2>1, <2>2, OwnFileStep
  <1>9. ASSUME NEW t \in Threads, ScanFails(t) PROVE OwnFile'
    <2>1. file' = file /\ OthersAlone(t)
      BY <1>9 DEF ScanFails, Return, Goto, environment, OthersAlone, TypeInd, TypeOK
    <2>2. ~disturbed'[t] => Own(t)'
      BY <1>9 DEF ScanFails, Return, Goto, environment, Own, OwnFile, IsFrontOf, TypeInd, TypeOK
    <2> QED
      BY <2>1, <2>2, OwnFileStep
  <1>10. ASSUME NEW t \in Threads, Create(t) PROVE OwnFile'
    <2>1. Own(t)'
      BY <1>10 DEF Create, Goto, Own, IsRun, TypeInd, TypeOK
    <2> QED
      BY <1>10, <2>1, OwnFileDisturbed DEF Create
  <1>11. ASSUME NEW t \in Threads, Write(t) PROVE OwnFile'
    <2>1. ASSUME ~disturbed[t] PROVE Own(t)'
      <3>1. IsRun(file, at[t], index[t])
        BY <1>11, <2>1 DEF Write, OwnFile, Own
      <3>2. IsRun(file', at[t] + 1, index[t])
        BY <1>11, <3>1, RunGrows
      <3>3. PICK l \in {"open", "write"} :
              /\ pc' = [pc EXCEPT ![t] = l]
              /\ l = "open" => at[t] + 1 = Size[index[t]]
        BY <1>11 DEF Write, Goto
      <3>4. /\ at' = [at EXCEPT ![t] = at[t] + 1]
            /\ UNCHANGED <<index, call, table>>
        BY <1>11 DEF Write
      <3>5. pc'[t] = l /\ at'[t] = at[t] + 1 /\ index'[t] \in Clips
        BY <1>11, <3>3, <3>4, WriteStep DEF TypeInd, TypeOK
      <3> QED
        BY <3>2, <3>3, <3>4, <3>5 DEF Own
    <2> QED
      BY <1>11, <2>1, OwnFileDisturbed DEF Write
  <1>12. ASSUME NEW t \in Threads, SaveFails(t) PROVE OwnFile'
    <2>1. file' = file /\ OthersAlone(t)
      BY <1>12 DEF SaveFails, Goto, environment, OthersAlone, TypeInd, TypeOK
    <2>2. ~disturbed'[t] => Own(t)'
      BY <1>12 DEF SaveFails, Goto, environment, Own, OwnFile, IsFrontOf, TypeInd, TypeOK
    <2> QED
      BY <2>1, <2>2, OwnFileStep
  <1>13. CASE Crash
    BY <1>13 DEF Crash, OwnFile, Own
  <1>14. ASSUME NEW c \in Clips \cup {None}, Replace(c) PROVE OwnFile'
    BY <1>14 DEF Replace, OwnFile, Own, TypeInd, TypeOK
  <1>15. CASE UNCHANGED vars
    BY <1>15 DEF vars, OwnFile, Own
  <1> QED
    BY <1>1, <1>2, <1>3, <1>4, <1>5, <1>6, <1>7, <1>8, <1>9, <1>10, <1>11, <1>12, <1>13, <1>14,
       <1>15
    DEF Next, Step, Finished

(* A call that has met the clip missing is disturbed.                      *)
ClipMissed == clip = None => \A t \in Threads : pc[t] = "idle" \/ disturbed[t]

(* A call that is on its way when the clip goes is disturbed. *)
LEMMA NextClipMissed == TypeInd /\ ClipMissed /\ [Next]_vars => ClipMissed'
  <1> SUFFICES ASSUME TypeInd, ClipMissed, [Next]_vars PROVE ClipMissed'
    OBVIOUS
  <1> USE ConstantsAssumption
  <1>1. ASSUME NEW t \in Threads, NEW kind \in {"index", "count"}, Call(t, kind) PROVE ClipMissed'
    BY <1>1 DEF Call, Goto, environment, ClipMissed, TypeInd, TypeOK
  <1>2. ASSUME NEW t \in Threads, LoadOpen(t) PROVE ClipMissed'
    BY <1>2 DEF LoadOpen, Goto, environment, ClipMissed, TypeInd, TypeOK
  <1>3. ASSUME NEW t \in Threads, LoadPiece(t) PROVE ClipMissed'
    BY <1>3 DEF LoadPiece, Goto, environment, ClipMissed, TypeInd, TypeOK
  <1>4. ASSUME NEW t \in Threads, MakeIndex(t) PROVE ClipMissed'
    BY <1>4 DEF MakeIndex, LoadFails, SetStage, Goto, environment, ClipMissed, TypeInd, TypeOK
  <1>5. ASSUME NEW t \in Threads, ReturnNull(t) PROVE ClipMissed'
    BY <1>5 DEF ReturnNull, LoadFails, Return, Goto, environment, ClipMissed, TypeInd, TypeOK
  <1>6. ASSUME NEW t \in Threads, Recount(t) PROVE ClipMissed'
    BY <1>6 DEF Recount, SetStage, Goto, environment, ClipMissed, TypeInd, TypeOK
  <1>7. ASSUME NEW t \in Threads, ReturnTable(t) PROVE ClipMissed'
    BY <1>7 DEF ReturnTable, Return, Goto, environment, ClipMissed, TypeInd, TypeOK
  <1>8. ASSUME NEW t \in Threads, Scan(t) PROVE ClipMissed'
    BY <1>8 DEF Scan, Goto, environment, ClipMissed, TypeInd, TypeOK
  <1>9. ASSUME NEW t \in Threads, ScanFails(t) PROVE ClipMissed'
    BY <1>9 DEF ScanFails, Return, Goto, environment, ClipMissed, TypeInd, TypeOK
  <1>10. ASSUME NEW t \in Threads, Create(t) PROVE ClipMissed'
    BY <1>10 DEF Create, DisturbsOthers, Goto, environment, ClipMissed, TypeInd, TypeOK
  <1>11. ASSUME NEW t \in Threads, Write(t) PROVE ClipMissed'
    BY <1>11 DEF Write, DisturbsOthers, Goto, environment, ClipMissed, TypeInd, TypeOK
  <1>12. ASSUME NEW t \in Threads, SaveFails(t) PROVE ClipMissed'
    BY <1>12 DEF SaveFails, Goto, environment, ClipMissed, TypeInd, TypeOK
  <1>13. CASE Crash
    BY <1>13 DEF Crash, Goto, environment, ClipMissed, TypeInd, TypeOK
  <1>14. ASSUME NEW c \in Clips \cup {None}, Replace(c) PROVE ClipMissed'
    BY <1>14 DEF Replace, Goto, environment, ClipMissed, TypeInd, TypeOK
  <1>15. CASE UNCHANGED vars
    BY <1>15 DEF vars, Goto, environment, ClipMissed, TypeInd, TypeOK
  <1> QED
    BY <1>1, <1>2, <1>3, <1>4, <1>5, <1>6, <1>7, <1>8, <1>9, <1>10, <1>11, <1>12, <1>13, <1>14,
       <1>15
    DEF Next, Step, Finished

(* An undisturbed thread that has written the index can load it.           *)
LEMMA WrittenIsLoaded ==
  ASSUME TypeInd, OwnFile, NEW t \in Threads, ~disturbed[t], call[t].stage # "cached"
  PROVE  ~LoadFails(t)
  <1> SUFFICES ASSUME LoadFails(t) PROVE FALSE
    OBVIOUS
  <1> DEFINE c == index[t]
             n == Size[c]
  <1>1. c \in Clips /\ IsRun(file, n, c) /\ IsFrontOf(table[t], file)
    BY DEF LoadFails, OwnFile, Own
  <1>2. n \in Nat \ {0} /\ c # Hole
    BY <1>1, ConstantsAssumption DEF Indexes
  <1>3. table[t] \in Seq(Pieces) /\ Len(table[t]) \in Nat
    BY DEF TypeInd, TypeOK
  <1>4. \A i \in 1..Len(table[t]) : table[t][i] = c
    BY <1>1, <1>2, <1>3 DEF IsRun, IsFrontOf
  <1>5. table[t] # <<Hole>>
    <2>1. Len(<<Hole>>) = 1 /\ <<Hole>>[1] = Hole
      OBVIOUS
    <2>2. ASSUME table[t] = <<Hole>> PROVE table[t][1] = c
      BY <1>4, <2>1, <2>2
    <2> QED
      BY <1>2, <2>1, <2>2
  <1>6. Len(table[t]) = n
    BY <1>1, <1>2, <1>3, <1>5 DEF LoadFails, IsRun, IsFrontOf
  <1>7. table[t][1] = c
    BY <1>2, <1>4, <1>6
  <1> QED
    BY <1>2, <1>6, <1>7 DEF LoadFails, IsLoaded

(* An undisturbed call returns the index of the clip: it has read what it  *)
(* has written itself, all of it.                                          *)
LEMMA NextRepairsIndex ==
  TypeInd /\ OwnFile /\ ClipMissed /\ RepairsIndex /\ [Next]_vars => RepairsIndex'
  <1> SUFFICES ASSUME TypeInd, OwnFile, ClipMissed, RepairsIndex, [Next]_vars
               PROVE  RepairsIndex'
    OBVIOUS
  <1> USE ConstantsAssumption
  <1>1. ASSUME NEW t \in Threads, NEW kind \in {"index", "count"}, Call(t, kind) PROVE RepairsIndex'
    <2>1. <<>> # None
      BY EmptySeq DEF Pieces
    <2> QED
      BY <1>1, <2>1 DEF Call, RepairsIndex, TypeInd, TypeOK
  <1>2. ASSUME NEW t \in Threads, LoadOpen(t) PROVE RepairsIndex'
    BY <1>2 DEF LoadOpen, Goto, environment, RepairsIndex, TypeInd, TypeOK
  <1>3. ASSUME NEW t \in Threads, LoadPiece(t) PROVE RepairsIndex'
    BY <1>3 DEF LoadPiece, Goto, environment, RepairsIndex, TypeInd, TypeOK
  <1>4. ASSUME NEW t \in Threads, MakeIndex(t) PROVE RepairsIndex'
    BY <1>4 DEF MakeIndex, LoadFails, SetStage, Goto, environment, RepairsIndex, TypeInd, TypeOK
  <1>5. ASSUME NEW t \in Threads, ReturnNull(t) PROVE RepairsIndex'
    <2>1. disturbed[t]
      BY <1>5, WrittenIsLoaded DEF ReturnNull
    <2> QED
      BY <1>5, <2>1 DEF ReturnNull, Return, RepairsIndex, TypeInd, TypeOK
  <1>6. ASSUME NEW t \in Threads, Recount(t) PROVE RepairsIndex'
    BY <1>6 DEF Recount, SetStage, Goto, environment, RepairsIndex, TypeInd, TypeOK
  <1>7. ASSUME NEW t \in Threads, ReturnTable(t) PROVE RepairsIndex'
    <2>1. table[t] # None
      BY DEF TypeInd, TypeOK, Pieces
    <2> QED
      BY <1>7, <2>1 DEF ReturnTable, Return, RepairsIndex, TypeInd, TypeOK
  <1>8. ASSUME NEW t \in Threads, Scan(t) PROVE RepairsIndex'
    BY <1>8 DEF Scan, Goto, environment, RepairsIndex, TypeInd, TypeOK
  <1>9. ASSUME NEW t \in Threads, ScanFails(t) PROVE RepairsIndex'
    <2>1. disturbed[t]
      BY <1>9 DEF ScanFails, ClipMissed
    <2> QED
      BY <1>9, <2>1 DEF ScanFails, Return, RepairsIndex, TypeInd, TypeOK
  <1>10. ASSUME NEW t \in Threads, Create(t) PROVE RepairsIndex'
    BY <1>10 DEF Create, DisturbsOthers, Goto, environment, RepairsIndex, TypeInd, TypeOK
  <1>11. ASSUME NEW t \in Threads, Write(t) PROVE RepairsIndex'
    BY <1>11 DEF Write, DisturbsOthers, Goto, environment, RepairsIndex, TypeInd, TypeOK
  <1>12. ASSUME NEW t \in Threads, SaveFails(t) PROVE RepairsIndex'
    BY <1>12 DEF SaveFails, Goto, environment, RepairsIndex, TypeInd, TypeOK
  <1>13. CASE Crash
    <2>1. <<>> # None
      BY EmptySeq DEF Pieces
    <2> QED
      BY <1>13, <2>1 DEF Crash, RepairsIndex, TypeInd, TypeOK
  <1>14. ASSUME NEW c \in Clips \cup {None}, Replace(c) PROVE RepairsIndex'
    BY <1>14 DEF Replace, Goto, environment, RepairsIndex, TypeInd, TypeOK
  <1>15. CASE UNCHANGED vars
    BY <1>15 DEF vars, Goto, environment, RepairsIndex, TypeInd, TypeOK
  <1> QED
    BY <1>1, <1>2, <1>3, <1>4, <1>5, <1>6, <1>7, <1>8, <1>9, <1>10, <1>11, <1>12, <1>13, <1>14,
       <1>15
    DEF Next, Step, Finished

(* Whatever a crash or a full disk has left in the file: an undisturbed    *)
(* call returns an index, for any number of crashes before it.             *)
THEOREM AlwaysRepairsIndex == Spec => []RepairsIndex
  <1>1. Init => OwnFile /\ ClipMissed
    BY ConstantsAssumption DEF Init, OwnFile, Own, ClipMissed
  <1>2. Init => RepairsIndex
    <2>1. <<>> # None
      BY ConstantsAssumption, EmptySeq
    <2> QED
      BY <2>1 DEF Init, RepairsIndex
  <1> QED
    BY <1>1, <1>2, InitTypeInd, NextTypeInd, NextOwnFile, NextClipMissed,
       NextRepairsIndex, PTL DEF Spec

-----------------------------------------------------------------------------
(* A table that is returned is whole.                                      *)

(* The old format is what was there before, or it is not there at all.     *)
OldOnly ==
  \/ \A i \in 1..Len(file) : file[i] # Old
  \/ IsRun(file, Size[Old], Old) /\ \A t \in Threads : pc[t] # "write"

(* As long as no two have been writing at once, the file is of one index,  *)
(* and the one writer has written all of it.                               *)
OneIndex ==
  ~overlap =>
    /\ \A i \in 1..Len(file) : file[i] = file[1] /\ file[i] # Hole
    /\ \A t \in Threads : pc[t] = "write" =>
         /\ IsRun(file, at[t], index[t])
         /\ \A u \in Threads : pc[u] = "write" => u = t

(* The old index is overwritten or removed as a whole, never extended. *)
LEMMA NextOldOnly == TypeInd /\ OldOnly /\ [Next]_vars => OldOnly'
  <1> SUFFICES ASSUME TypeInd, OldOnly, [Next]_vars PROVE OldOnly'
    OBVIOUS
  <1> USE ConstantsAssumption
  <1>1. ASSUME NEW t \in Threads, NEW kind \in {"index", "count"}, Call(t, kind) PROVE OldOnly'
    BY <1>1 DEF Call, Goto, environment, OldOnly, TypeInd, TypeOK
  <1>2. ASSUME NEW t \in Threads, LoadOpen(t) PROVE OldOnly'
    BY <1>2 DEF LoadOpen, Goto, environment, OldOnly, TypeInd, TypeOK
  <1>3. ASSUME NEW t \in Threads, LoadPiece(t) PROVE OldOnly'
    BY <1>3 DEF LoadPiece, Goto, environment, OldOnly, TypeInd, TypeOK
  <1>4. ASSUME NEW t \in Threads, MakeIndex(t) PROVE OldOnly'
    BY <1>4 DEF MakeIndex, LoadFails, SetStage, Goto, environment, OldOnly, TypeInd, TypeOK
  <1>5. ASSUME NEW t \in Threads, ReturnNull(t) PROVE OldOnly'
    BY <1>5 DEF ReturnNull, LoadFails, Return, Goto, environment, OldOnly, TypeInd, TypeOK
  <1>6. ASSUME NEW t \in Threads, Recount(t) PROVE OldOnly'
    BY <1>6 DEF Recount, SetStage, Goto, environment, OldOnly, TypeInd, TypeOK
  <1>7. ASSUME NEW t \in Threads, ReturnTable(t) PROVE OldOnly'
    BY <1>7 DEF ReturnTable, Return, Goto, environment, OldOnly, TypeInd, TypeOK
  <1>8. ASSUME NEW t \in Threads, Scan(t) PROVE OldOnly'
    BY <1>8 DEF Scan, Goto, environment, OldOnly, TypeInd, TypeOK
  <1>9. ASSUME NEW t \in Threads, ScanFails(t) PROVE OldOnly'
    BY <1>9 DEF ScanFails, Return, Goto, environment, OldOnly, TypeInd, TypeOK
  <1>10. ASSUME NEW t \in Threads, Create(t) PROVE OldOnly'
    <2>1. Len(file') = 0
      BY <1>10 DEF Create
    <2> QED
      BY <2>1 DEF OldOnly
  <1>11. ASSUME NEW t \in Threads, Write(t) PROVE OldOnly'
    <2>1. \A i \in 1..Len(file) : file[i] # Old
      BY <1>11 DEF Write, OldOnly
    <2>2. index[t] # Old /\ Hole # Old
      BY <1>11, WriteStep DEF Indexes
    <2>3. Len(file) \in Nat
      BY DEF TypeInd, TypeOK
    <2>4. ASSUME NEW i \in 1..Len(file') PROVE file'[i] # Old
      <3>1. CASE i = at[t] + 1
        BY <1>11, <2>2, <3>1, WriteStep
      <3>2. CASE i # at[t] + 1
        <4>1. file'[i] = (IF i <= Len(file) THEN file[i] ELSE Hole)
          BY <1>11, <3>2, WriteStep
        <4>2. i \in Int /\ i >= 1
          BY <1>11, WriteStep
        <4> QED
          BY <2>1, <2>2, <2>3, <4>1, <4>2
      <3> QED
        BY <3>1, <3>2
    <2> QED
      BY <2>4 DEF OldOnly
  <1>12. ASSUME NEW t \in Threads, SaveFails(t) PROVE OldOnly'
    BY <1>12 DEF SaveFails, Goto, environment, OldOnly, TypeInd, TypeOK
  <1>13. CASE Crash
    BY <1>13 DEF Crash, Goto, environment, OldOnly, TypeInd, TypeOK
  <1>14. ASSUME NEW c \in Clips \cup {None}, Replace(c) PROVE OldOnly'
    BY <1>14 DEF Replace, Goto, environment, OldOnly, TypeInd, TypeOK
  <1>15. CASE UNCHANGED vars
    BY <1>15 DEF vars, Goto, environment, OldOnly, TypeInd, TypeOK
  <1> QED
    BY <1>1, <1>2, <1>3, <1>4, <1>5, <1>6, <1>7, <1>8, <1>9, <1>10, <1>11, <1>12, <1>13, <1>14,
       <1>15
    DEF Next, Step, Finished

(* While one writes at a time, what is in the file is a beginning of one   *)
(* index, all of it if nobody is writing.                                  *)
LEMMA NextOneIndex == TypeInd /\ OneIndex /\ [Next]_vars => OneIndex'
  <1> SUFFICES ASSUME TypeInd, OneIndex, [Next]_vars PROVE OneIndex'
    OBVIOUS
  <1> USE ConstantsAssumption
  <1>1. ASSUME NEW t \in Threads, NEW kind \in {"index", "count"}, Call(t, kind) PROVE OneIndex'
    BY <1>1 DEF Call, Goto, environment, OneIndex, TypeInd, TypeOK
  <1>2. ASSUME NEW t \in Threads, LoadOpen(t) PROVE OneIndex'
    BY <1>2 DEF LoadOpen, Goto, environment, OneIndex, TypeInd, TypeOK
  <1>3. ASSUME NEW t \in Threads, LoadPiece(t) PROVE OneIndex'
    BY <1>3 DEF LoadPiece, Goto, environment, OneIndex, TypeInd, TypeOK
  <1>4. ASSUME NEW t \in Threads, MakeIndex(t) PROVE OneIndex'
    BY <1>4 DEF MakeIndex, LoadFails, SetStage, Goto, environment, OneIndex, TypeInd, TypeOK
  <1>5. ASSUME NEW t \in Threads, ReturnNull(t) PROVE OneIndex'
    BY <1>5 DEF ReturnNull, LoadFails, Return, Goto, environment, OneIndex, TypeInd, TypeOK
  <1>6. ASSUME NEW t \in Threads, Recount(t) PROVE OneIndex'
    BY <1>6 DEF Recount, SetStage, Goto, environment, OneIndex, TypeInd, TypeOK
  <1>7. ASSUME NEW t \in Threads, ReturnTable(t) PROVE OneIndex'
    BY <1>7 DEF ReturnTable, Return, Goto, environment, OneIndex, TypeInd, TypeOK
  <1>8. ASSUME NEW t \in Threads, Scan(t) PROVE OneIndex'
    BY <1>8 DEF Scan, Goto, environment, OneIndex, TypeInd, TypeOK
  <1>9. ASSUME NEW t \in Threads, ScanFails(t) PROVE OneIndex'
    BY <1>9 DEF ScanFails, Return, Goto, environment, OneIndex, TypeInd, TypeOK
  <1>10. ASSUME NEW t \in Threads, Create(t) PROVE OneIndex'
    <2>1. Len(file') = 0
      BY <1>10 DEF Create
    <2> SUFFICES ASSUME ~overlap' PROVE \A u \in Threads : pc'[u] = "write" =>
                          /\ IsRun(file', at'[u], index'[u])
                          /\ \A v \in Threads : pc'[v] = "write" => v = u
      BY <2>1 DEF OneIndex
    <2>2. \A u \in Threads \ {t} : pc[u] # "write"
      BY <1>10 DEF Create
    <2>3. /\ pc' = [pc EXCEPT ![t] = "write"] /\ at' = [at EXCEPT ![t] = 0]
      BY <1>10 DEF Create, Goto
    <2>4. \A u \in Threads : pc'[u] = "write" => u = t
      BY <2>2, <2>3 DEF TypeInd, TypeOK
    <2>5. IsRun(file', at'[t], index'[t])
      BY <2>1, <2>3 DEF IsRun, TypeInd, TypeOK
    <2> QED
      BY <2>4, <2>5
  <1>11. ASSUME NEW t \in Threads, Write(t) PROVE OneIndex'
    <2> SUFFICES ASSUME ~overlap' PROVE OneIndex'
      BY DEF OneIndex
    <2>1. /\ IsRun(file, at[t], index[t])
          /\ \A u \in Threads : pc[u] = "write" => u = t
      BY <1>11 DEF Write, OneIndex
    <2>2. IsRun(file', at[t] + 1, index[t])
      BY <1>11, <2>1, RunGrows
    <2>3. index[t] # Hole /\ at[t] \in Nat
      BY <1>11, WriteStep DEF Indexes
    <2>4. \A i \in 1..Len(file') : file'[i] = file'[1] /\ file'[i] # Hole
      BY <2>2, <2>3 DEF IsRun
    <2>5. \A u \in Threads : pc'[u] = "write" => u = t
      BY <1>11, <2>1 DEF Write, Goto, TypeInd, TypeOK
    <2>6. at'[t] = at[t] + 1 /\ index' = index
      BY <1>11 DEF Write, TypeInd, TypeOK
    <2> QED
      BY <2>2, <2>4, <2>5, <2>6 DEF OneIndex
  <1>12. ASSUME NEW t \in Threads, SaveFails(t) PROVE OneIndex'
    BY <1>12 DEF SaveFails, Goto, environment, OneIndex, TypeInd, TypeOK
  <1>13. CASE Crash
    BY <1>13 DEF Crash, Goto, environment, OneIndex, TypeInd, TypeOK
  <1>14. ASSUME NEW c \in Clips \cup {None}, Replace(c) PROVE OneIndex'
    BY <1>14 DEF Replace, Goto, environment, OneIndex, TypeInd, TypeOK
  <1>15. CASE UNCHANGED vars
    BY <1>15 DEF vars, Goto, environment, OneIndex, TypeInd, TypeOK
  <1> QED
    BY <1>1, <1>2, <1>3, <1>4, <1>5, <1>6, <1>7, <1>8, <1>9, <1>10, <1>11, <1>12, <1>13, <1>14,
       <1>15
    DEF Next, Step, Finished

(* A table that an undisturbed thread has read.                            *)
LEMMA TableRead ==
  ASSUME TypeInd, OwnFile, OldOnly, OneIndex, NEW t \in Threads, pc[t] = "read",
         IsLoaded(table[t]), ~disturbed[t]
  PROVE  /\ ~overlap => IsWhole(table[t])
         /\ call[t].kind = "count" /\ ~NeedsRecount(t) => table[t][1] # Old
  <1> DEFINE s == table[t]
  <1>1. s \in Seq(Pieces) /\ Len(s) \in Nat /\ Len(file) \in Nat
    BY DEF TypeInd, TypeOK
  <1>2. Len(s) <= Len(file) /\ \A i \in 1..Len(s) : s[i] = file[i]
    BY DEF OwnFile, Own, IsFrontOf
  <1>3. Len(s) > 0 /\ s[1] # Hole /\ Len(s) = Size[s[1]]
    BY DEF IsLoaded
  <1>4. 1 \in 1..Len(s) /\ 1..Len(s) \subseteq 1..Len(file)
    BY <1>1, <1>2, <1>3
  <1>5. ASSUME ~overlap PROVE IsWhole(s)
    <2>1. \A i \in 1..Len(s) : s[i] = s[1]
      BY <1>2, <1>4, <1>5 DEF OneIndex
    <2>2. s # <<>>
      BY <1>3
    <2> QED
      BY <1>3, <2>1, <2>2 DEF IsWhole
  <1>6. ASSUME call[t].kind = "count", ~NeedsRecount(t) PROVE s[1] # Old
    <2>1. CASE call[t].stage = "recount"
      <3>1. index[t] \in Clips /\ IsRun(file, Size[index[t]], index[t])
        BY <2>1 DEF OwnFile, Own
      <3>2. file[1] = index[t]
        BY <1>4, <3>1 DEF IsRun
      <3> QED
        BY <1>2, <1>4, <3>1, <3>2, ConstantsAssumption
    <2>2. CASE call[t].stage # "recount"
      <3>1. FramesOf(s) # 0
        BY <1>6, <2>2 DEF NeedsRecount
      <3>2. {i \in 1..Len(s) : s[i] \in Clips} # {}
        BY <3>1, FS_EmptySet DEF FramesOf
      <3>3. PICK i \in 1..Len(s) : s[i] \in Clips
        BY <3>2
      <3>4. i \in 1..Len(file) /\ file[i] # Old
        BY <1>2, <1>4, <3>3, ConstantsAssumption
      <3>5. \A j \in 1..Len(file) : file[j] # Old
        BY <3>4 DEF OldOnly, IsRun
      <3> QED
        BY <1>2, <1>4, <3>5
    <2> QED
      BY <2>1, <2>2
  <1> QED
    BY <1>5, <1>6

(* A table that an undisturbed call returns is all of one index. *)
LEMMA NextReturnsWholeIndex ==
  TypeInd /\ OwnFile /\ OldOnly /\ OneIndex /\ ReturnsWholeIndex /\ [Next]_vars
    => ReturnsWholeIndex'
  <1> SUFFICES ASSUME TypeInd, OwnFile, OldOnly, OneIndex, ReturnsWholeIndex, [Next]_vars
               PROVE  ReturnsWholeIndex'
    OBVIOUS
  <1> USE ConstantsAssumption
  <1>1. ASSUME NEW t \in Threads, NEW kind \in {"index", "count"}, Call(t, kind) PROVE ReturnsWholeIndex'
    BY <1>1 DEF Call, Goto, environment, ReturnsWholeIndex, Returned, TypeInd, TypeOK
  <1>2. ASSUME NEW t \in Threads, LoadOpen(t) PROVE ReturnsWholeIndex'
    BY <1>2 DEF LoadOpen, Goto, environment, ReturnsWholeIndex, Returned, TypeInd, TypeOK
  <1>3. ASSUME NEW t \in Threads, LoadPiece(t) PROVE ReturnsWholeIndex'
    BY <1>3 DEF LoadPiece, Goto, environment, ReturnsWholeIndex, Returned, TypeInd, TypeOK
  <1>4. ASSUME NEW t \in Threads, MakeIndex(t) PROVE ReturnsWholeIndex'
    BY <1>4 DEF MakeIndex, LoadFails, SetStage, Goto, environment, ReturnsWholeIndex, Returned,
       TypeInd, TypeOK
  <1>5. ASSUME NEW t \in Threads, ReturnNull(t) PROVE ReturnsWholeIndex'
    BY <1>5 DEF ReturnNull, LoadFails, Return, Goto, environment, ReturnsWholeIndex, Returned,
       TypeInd, TypeOK
  <1>6. ASSUME NEW t \in Threads, Recount(t) PROVE ReturnsWholeIndex'
    BY <1>6 DEF Recount, SetStage, Goto, environment, ReturnsWholeIndex, Returned, TypeInd,
       TypeOK
  <1>7. ASSUME NEW t \in Threads, ReturnTable(t) PROVE ReturnsWholeIndex'
    <2>1. /\ pc[t] = "read" /\ IsLoaded(table[t]) /\ ~NeedsRecount(t)
          /\ result' = [result EXCEPT ![t] = table[t]]
          /\ UNCHANGED <<call, disturbed, overlap>>
      BY <1>7 DEF ReturnTable, Return
    <2>2. ASSUME ~disturbed[t]
          PROVE  /\ ~overlap => IsWhole(table[t])
                 /\ call[t].kind = "count" => table[t][1] # Old
      BY <2>1, <2>2, TableRead
    <2>3. result'[t] = table[t] /\ \A u \in Threads \ {t} : result'[u] = result[u]
      BY <2>1 DEF TypeInd, TypeOK
    <2> SUFFICES ASSUME NEW u \in Threads, Returned(u)', ~disturbed[u]
                 PROVE  /\ ~overlap => IsWhole(result'[u])
                        /\ call[u].kind = "count" => result'[u][1] # Old
      BY <2>1 DEF ReturnsWholeIndex
    <2>4. CASE u = t
      BY <2>2, <2>3, <2>4
    <2>5. CASE u # t
      <3>1. result'[u] = result[u]
        BY <2>3, <2>5
      <3> QED
        BY <3>1 DEF ReturnsWholeIndex, Returned
    <2> QED
      BY <2>4, <2>5
  <1>8. ASSUME NEW t \in Threads, Scan(t) PROVE ReturnsWholeIndex'
    BY <1>8 DEF Scan, Goto, environment, ReturnsWholeIndex, Returned, TypeInd, TypeOK
  <1>9. ASSUME NEW t \in Threads, ScanFails(t) PROVE ReturnsWholeIndex'
    BY <1>9 DEF ScanFails, Return, Goto, environment, ReturnsWholeIndex, Returned, TypeInd,
       TypeOK
  <1>10. ASSUME NEW t \in Threads, Create(t) PROVE ReturnsWholeIndex'
    BY <1>10 DEF Create, DisturbsOthers, Goto, environment, ReturnsWholeIndex, Returned,
       TypeInd, TypeOK
  <1>11. ASSUME NEW t \in Threads, Write(t) PROVE ReturnsWholeIndex'
    BY <1>11 DEF Write, DisturbsOthers, Goto, environment, ReturnsWholeIndex, Returned,
       TypeInd, TypeOK
  <1>12. ASSUME NEW t \in Threads, SaveFails(t) PROVE ReturnsWholeIndex'
    BY <1>12 DEF SaveFails, Goto, environment, ReturnsWholeIndex, Returned, TypeInd, TypeOK
  <1>13. CASE Crash
    BY <1>13 DEF Crash, Goto, environment, ReturnsWholeIndex, Returned, TypeInd, TypeOK
  <1>14. ASSUME NEW c \in Clips \cup {None}, Replace(c) PROVE ReturnsWholeIndex'
    BY <1>14 DEF Replace, Goto, environment, ReturnsWholeIndex, Returned, TypeInd, TypeOK
  <1>15. CASE UNCHANGED vars
    BY <1>15 DEF vars, Goto, environment, ReturnsWholeIndex, Returned, TypeInd, TypeOK
  <1> QED
    BY <1>1, <1>2, <1>3, <1>4, <1>5, <1>6, <1>7, <1>8, <1>9, <1>10, <1>11, <1>12, <1>13, <1>14,
       <1>15
    DEF Next, Step, Finished

(* A piece of a file that a crash or a full disk has left, or that two     *)
(* threads have written over each other, is not returned for an index to   *)
(* a thread that had the file to itself.                                   *)
THEOREM AlwaysReturnsWholeIndex == Spec => []ReturnsWholeIndex
  <1>1. Init => OwnFile /\ OldOnly /\ OneIndex /\ ReturnsWholeIndex
    <2> SUFFICES ASSUME Init PROVE OwnFile /\ OldOnly /\ OneIndex /\ ReturnsWholeIndex
      OBVIOUS
    <2>1. \A t \in Threads : pc[t] = "idle" /\ result[t] = <<>>
      BY DEF Init
    <2>2. OwnFile /\ ReturnsWholeIndex
      BY <2>1 DEF OwnFile, Own, ReturnsWholeIndex, Returned
    <2>3. CASE file = <<>>
      <3>1. Len(file) = 0
        BY <2>3
      <3> QED
        BY <2>1, <2>2, <3>1 DEF OldOnly, OneIndex
    <2>4. CASE file = [i \in 1..Size[Old] |-> Old]
      <3>1. Size[Old] \in Nat \ {0} /\ Old # Hole
        BY ConstantsAssumption DEF Indexes
      <3>2. IsRun(file, Size[Old], Old)
        BY <2>4, <3>1 DEF IsRun
      <3> QED
        BY <2>1, <2>2, <3>1, <3>2 DEF OldOnly, OneIndex, IsRun
    <2> QED
      BY <2>2, <2>3, <2>4 DEF Init
  <1> QED
    BY <1>1, InitTypeInd, NextTypeInd, NextOwnFile, NextOldOnly, NextOneIndex,
       NextReturnsWholeIndex, PTL DEF Spec

-----------------------------------------------------------------------------
(* Writers that race.                                                      *)

(* Piece i of the file is there, or is still to be written by somebody.    *)
Settled(i) ==
  \/ i <= Len(file) /\ file[i] = clip
  \/ \E u \in Threads : pc[u] = "write" /\ at[u] < i

(* With nothing failing and the clip staying, all write one index.  Since  *)
(* it was last emptied the file lacks only what a writer is yet to write:  *)
(* whoever emptied it goes on from the first piece.                        *)
Agreed ==
  faults = 0 /\ replacements = 0 =>
    /\ clip \in Clips
    /\ \A t \in Threads : pc[t] \in {"create", "write"} => index[t] = clip
    /\ \/ /\ file = <<>> \/ IsRun(file, Size[Old], Old)
          /\ \A t \in Threads : pc[t] # "write"
       \/ /\ Len(file) <= Size[clip]
          /\ \A i \in 1..Size[clip] : Settled(i)

(* Every piece of the index that is not in the file is still going to be   *)
(* written, whoever empties the file meanwhile.                            *)
LEMMA NextAgreed == TypeInd /\ Agreed /\ [Next]_vars => Agreed'
  <1> SUFFICES ASSUME TypeInd, Agreed, [Next]_vars PROVE Agreed'
    OBVIOUS
  <1> USE ConstantsAssumption
  <1>1. ASSUME NEW t \in Threads, NEW kind \in {"index", "count"}, Call(t, kind) PROVE Agreed'
    BY <1>1 DEF Call, Goto, environment, Agreed, Settled, TypeInd, TypeOK
  <1>2. ASSUME NEW t \in Threads, LoadOpen(t) PROVE Agreed'
    BY <1>2 DEF LoadOpen, Goto, environment, Agreed, Settled, TypeInd, TypeOK
  <1>3. ASSUME NEW t \in Threads, LoadPiece(t) PROVE Agreed'
    BY <1>3 DEF LoadPiece, Goto, environment, Agreed, Settled, TypeInd, TypeOK
  <1>4. ASSUME NEW t \in Threads, MakeIndex(t) PROVE Agreed'
    BY <1>4 DEF MakeIndex, LoadFails, SetStage, Goto, environment, Agreed, Settled, TypeInd,
       TypeOK
  <1>5. ASSUME NEW t \in Threads, ReturnNull(t) PROVE Agreed'
    BY <1>5 DEF ReturnNull, LoadFails, Return, Goto, environment, Agreed, Settled, TypeInd,
       TypeOK
  <1>6. ASSUME NEW t \in Threads, Recount(t) PROVE Agreed'
    BY <1>6 DEF Recount, SetStage, Goto, environment, Agreed, Settled, TypeInd, TypeOK
  <1>7. ASSUME NEW t \in Threads, ReturnTable(t) PROVE Agreed'
    BY <1>7 DEF ReturnTable, Return, Goto, environment, Agreed, Settled, TypeInd, TypeOK
  <1>8. ASSUME NEW t \in Threads, Scan(t) PROVE Agreed'
    BY <1>8 DEF Scan, Goto, environment, Agreed, Settled, TypeInd, TypeOK
  <1>9. ASSUME NEW t \in Threads, ScanFails(t) PROVE Agreed'
    BY <1>9 DEF ScanFails, Return, Goto, environment, Agreed, Settled, TypeInd, TypeOK
  <1>10. ASSUME NEW t \in Threads, Create(t) PROVE Agreed'
    <2> SUFFICES ASSUME faults = 0, replacements = 0 PROVE Agreed'
      BY <1>10 DEF Create, environment, Agreed
    <2>1. /\ clip \in Clips /\ index[t] = clip
          /\ \A u \in Threads : pc[u] \in {"create", "write"} => index[u] = clip
      BY <1>10 DEF Create, Agreed
    <2>2. Size[clip] \in Nat
      BY <2>1 DEF Indexes
    <2>3. /\ pc' = [pc EXCEPT ![t] = "write"] /\ at' = [at EXCEPT ![t] = 0]
          /\ Len(file') = 0 /\ UNCHANGED <<clip, index>>
      BY <1>10 DEF Create, Goto, environment
    <2>4. \A i \in 1..Size[clip] : Settled(i)'
      <3>1. pc'[t] = "write" /\ at'[t] = 0
        BY <2>3 DEF TypeInd, TypeOK
      <3> QED
        BY <3>1 DEF Settled
    <2>5. \A u \in Threads : pc'[u] \in {"create", "write"} => index'[u] = clip
      BY <2>1, <2>3 DEF TypeInd, TypeOK
    <2> QED
      BY <2>1, <2>2, <2>3, <2>4, <2>5 DEF Agreed
  <1>11. ASSUME NEW t \in Threads, Write(t) PROVE Agreed'
    <2> SUFFICES ASSUME faults = 0, replacements = 0 PROVE Agreed'
      BY <1>11 DEF Write, environment, Agreed
    <2>1. /\ clip \in Clips /\ index[t] = clip /\ pc[t] = "write"
          /\ \A u \in Threads : pc[u] \in {"create", "write"} => index[u] = clip
          /\ Len(file) <= Size[clip] /\ \A i \in 1..Size[clip] : Settled(i)
      BY <1>11 DEF Write, Agreed
    <2>2. /\ Size[clip] \in Nat /\ at[t] \in Nat /\ at[t] < Size[clip] /\ Len(file) \in Nat
          /\ Len(file') = (IF Len(file) > at[t] + 1 THEN Len(file) ELSE at[t] + 1)
          /\ file'[at[t] + 1] = clip
      BY <1>11, <2>1, WriteStep DEF TypeInd, TypeOK
    <2>3. PICK l \in {"open", "write"} :
            /\ pc' = [pc EXCEPT ![t] = l]
            /\ l = "open" => at[t] + 1 = Size[clip]
      BY <1>11, <2>1 DEF Write, Goto
    <2>4. /\ at' = [at EXCEPT ![t] = at[t] + 1] /\ UNCHANGED <<clip, index>>
      BY <1>11 DEF Write, environment
    <2>5. Len(file') <= Size[clip]
      BY <2>1, <2>2
    <2>6. ASSUME NEW i \in 1..Size[clip] PROVE Settled(i)'
      <3>1. CASE i = at[t] + 1
        BY <2>2, <2>4, <3>1 DEF Settled
      <3>2. CASE i # at[t] + 1 /\ i <= Len(file) /\ file[i] = clip
        <4>1. i \in 1..Len(file') /\ i <= Len(file')
          BY <2>2, <3>2
        <4>2. file'[i] = clip
          BY <1>11, <3>2, <4>1, WriteStep
        <4> QED
          BY <2>4, <4>1, <4>2 DEF Settled
      <3>3. ASSUME NEW u \in Threads, pc[u] = "write", at[u] < i, i # at[t] + 1
            PROVE  Settled(i)'
        <4>1. CASE u # t
          <5>1. pc'[u] = "write" /\ at'[u] < i
            BY <2>3, <2>4, <3>3, <4>1 DEF TypeInd, TypeOK
          <5> QED
            BY <5>1 DEF Settled
        <4>2. CASE u = t
          <5>1. at[t] + 1 < i
            BY <2>2, <3>3, <4>2
          <5>2. l = "write"
            BY <2>2, <2>3, <5>1
          <5>3. pc'[t] = "write" /\ at'[t] = at[t] + 1
            BY <2>3, <2>4, <5>2 DEF TypeInd, TypeOK
          <5> QED
            BY <5>1, <5>3 DEF Settled
        <4> QED
          BY <4>1, <4>2
      <3> QED
        BY <2>1, <3>1, <3>2, <3>3 DEF Settled
    <2>7. \A u \in Threads : pc'[u] \in {"create", "write"} => index'[u] = clip
      BY <2>1, <2>3, <2>4 DEF TypeInd, TypeOK
    <2> QED
      BY <2>1, <2>4, <2>5, <2>6, <2>7 DEF Agreed
  <1>12. ASSUME NEW t \in Threads, SaveFails(t) PROVE Agreed'
    <2>1. faults' # 0
      BY <1>12 DEF SaveFails, TypeInd, TypeOK
    <2> QED
      BY <2>1 DEF Agreed
  <1>13. CASE Crash
    <2>1. faults' # 0
      BY <1>13 DEF Crash, TypeInd, TypeOK
    <2> QED
      BY <2>1 DEF Agreed
  <1>14. ASSUME NEW c \in Clips \cup {None}, Replace(c) PROVE Agreed'
    <2>1. replacements' # 0
      BY <1>14 DEF Replace, TypeInd, TypeOK
    <2> QED
      BY <2>1 DEF Agreed
  <1>15. CASE UNCHANGED vars
    BY <1>15 DEF vars, Goto, environment, Agreed, Settled, TypeInd, TypeOK
  <1> QED
    BY <1>1, <1>2, <1>3, <1>4, <1>5, <1>6, <1>7, <1>8, <1>9, <1>10, <1>11, <1>12, <1>13, <1>14,
       <1>15
    DEF Next, Step, Finished

(* Any number of threads may empty the file under each other and write     *)
(* the same index over it: when the last one is done the file is whole.    *)
THEOREM RacingWritersAlwaysAgree == Spec => []RacingWritersAgree
  <1>1. Init => Agreed
    <2> SUFFICES ASSUME Init PROVE Agreed
      OBVIOUS
    <2>1. clip \in Clips /\ \A t \in Threads : pc[t] = "idle"
      BY DEF Init
    <2>2. Size[Old] \in Nat \ {0}
      BY ConstantsAssumption DEF Indexes
    <2>3. file = <<>> \/ IsRun(file, Size[Old], Old)
      BY <2>2 DEF Init, IsRun
    <2> QED
      BY <2>1, <2>3 DEF Agreed
  <1>2. TypeInd /\ Agreed => RacingWritersAgree
    <2> SUFFICES ASSUME TypeInd, Agreed, faults = 0, replacements = 0,
                        \A t \in Threads : pc[t] # "write", file # <<>>
                 PROVE  IsWhole(file)
      BY DEF RacingWritersAgree
    <2>1. Len(file) \in Nat
      BY DEF TypeInd, TypeOK
    <2>2. CASE IsRun(file, Size[Old], Old)
      <3>1. Size[Old] \in Nat \ {0} /\ Old # Hole
        BY ConstantsAssumption DEF Indexes
      <3> QED
        BY <2>2, <3>1 DEF IsRun, IsWhole
    <2>3. CASE Len(file) <= Size[clip] /\ \A i \in 1..Size[clip] : Settled(i)
      <3>1. Size[clip] \in Nat \ {0} /\ clip # Hole
        BY ConstantsAssumption DEF Agreed, Indexes
      <3>2. \A i \in 1..Size[clip] : i <= Len(file) /\ file[i] = clip
        BY <2>3 DEF Settled
      <3>3. Len(file) = Size[clip]
        BY <2>1, <2>3, <3>1, <3>2
      <3> QED
        BY <3>1, <3>2, <3>3 DEF IsWhole
    <2> QED
      BY <2>2, <2>3 DEF Agreed
  <1> QED
    BY <1>1, <1>2, InitTypeInd, NextTypeInd, NextAgreed, PTL DEF Spec
=============================================================================
