------------------------- MODULE ImageBuffersProofs -------------------------
(***************************************************************************)
(* Theorems about the image buffer cache, for any number of threads,       *)
(* handles and paths and any two limits MaxUnused <= MaxTotal; the last    *)
(* is that it implements the abstract cache of whole frames.               *)
(***************************************************************************)
EXTENDS ImageBuffers, FiniteSetTheorems, FunctionTheorems, TLAPS

-----------------------------------------------------------------------------
(* Type correctness.                                                       *)

LEMMA InitTypeOK == Init => TypeOK
  <1> SUFFICES ASSUME Init PROVE TypeOK
    OBVIOUS
  <1>1. /\ live = {}
        /\ mem \in [live -> Buffer]
    BY DEF Init, live
  <1>2. live \subseteq 1..allocated
    BY <1>1
  <1>3. /\ count \in Int /\ allocated \in Nat /\ requests \in Nat
        /\ global \in Threads \cup {None}
    BY DEF Init
  <1>4. undefined \in BOOLEAN
    BY DEF Init
  <1>5. /\ handle \in [Handles -> [open : BOOLEAN, path : Paths \cup {None},
                                  fh : 0..allocated]]
        /\ \A h \in Handles : handle[h].open => handle[h].path \in Paths
    BY DEF Init
  <1>6. /\ pc \in [Threads -> PCs]
        /\ req \in [Threads -> [h : Handles \cup {None},
                                path : Paths \cup {None}]]
        /\ \A t \in Threads : pc[t] # "idle" => req[t].path \in Paths
        /\ ptr \in [Threads -> 0..allocated]
        /\ answer \in [Threads -> {"frame", "empty", "torn"}]
    BY DEF Init, PCs
  <1> QED
    BY <1>1, <1>2, <1>3, <1>4, <1>5, <1>6 DEF TypeOK

(* What the list operations leave of a well-typed list. *)
LEMMA FreeBufferType ==
  ASSUME TypeOK, NEW b \in live, FreeBuffer(b), allocated' = allocated
  PROVE  /\ live' = live \ {b}
         /\ live' \subseteq 1..allocated'
         /\ mem' \in [live' -> Buffer]
         /\ count' \in Int
  BY DEF TypeOK, live, FreeBuffer

(* Writing one buffer of the heap keeps its type. *)
LEMMA UpdateType ==
  ASSUME TypeOK, NEW b \in live, NEW buf \in Buffer,
         mem' = [mem EXCEPT ![b] = buf], allocated' = allocated
  PROVE  /\ live' = live
         /\ live' \subseteq 1..allocated'
         /\ mem' \in [live' -> Buffer]
  BY DEF TypeOK, live

(* SetBuffer keeps the type of the heap. *)
LEMMA SetBufferType ==
  ASSUME TypeOK, NEW b \in live, allocated' = allocated,
         NEW i \in BOOLEAN, NEW d \in {"null", "filling", "ready"},
         NEW m \in Threads \cup {None}, SetBuffer(b, i, d, m)
  PROVE  /\ live' = live
         /\ live' \subseteq 1..allocated'
         /\ mem' \in [live' -> Buffer]
  BY UpdateType DEF SetBuffer, TypeOK, Buffer

(* Every step of every thread keeps the types. *)
LEMMA NextTypeOK == TypeOK /\ [Next]_vars => TypeOK'
  <1> SUFFICES ASSUME TypeOK, [Next]_vars PROVE TypeOK'
    OBVIOUS
  <1> USE ConstantsAssumption
  <1>1. ASSUME NEW h \in Handles, NEW p \in Paths, Open(h, p) PROVE TypeOK'
    BY <1>1 DEF TypeOK, live, At, Goto, PCs, Open
  <1>2. ASSUME NEW t \in FuseThreads, NEW h \in Handles, BeginRead(t, h) PROVE TypeOK'
    BY <1>2 DEF TypeOK, live, At, Goto, PCs, Threads, BeginRead
  <1>3. ASSUME NEW t \in FuseThreads, NEW h \in Handles, BeginRelease(t, h) PROVE TypeOK'
    BY <1>3 DEF TypeOK, live, At, Goto, PCs, Threads, BeginRelease
  <1>4. ASSUME NEW t \in WebThreads, NEW p \in GifPaths, BeginPreview(t, p) PROVE TypeOK'
    BY <1>4 DEF TypeOK, live, At, Goto, PCs, Threads, Paths, BeginPreview
  <1>5. ASSUME NEW t \in Threads, LookupHit(t) PROVE TypeOK'
    BY <1>5 DEF TypeOK, live, At, Goto, PCs, EntriesOf, LookupHit
  <1>6. ASSUME NEW t \in Threads, LookupMiss(t) PROVE TypeOK'
    BY <1>6 DEF TypeOK, live, At, Goto, PCs, LookupMiss
  <1>7. ASSUME NEW t \in Threads, ScanSkip(t) PROVE TypeOK'
    BY <1>7 DEF TypeOK, live, At, Goto, PCs, ScanSkip, Examines, IsNext
  <1>8. ASSUME NEW t \in Threads, ScanFree(t) PROVE TypeOK'
    <2>1. PICK b \in live : FreeBuffer(b)
      BY <1>8 DEF ScanFree
    <2> QED
      BY <1>8, <2>1, FreeBufferType DEF TypeOK, ScanFree, At, Goto, PCs
  <1>9. ASSUME NEW t \in Threads, ScanEnd(t) PROVE TypeOK'
    BY <1>9 DEF TypeOK, live, At, Goto, PCs, ScanEnd
  <1>10. ASSUME NEW t \in Threads, Trim(t) PROVE TypeOK'
    <2>1. PICK b \in live : FreeBuffer(b)
      BY <1>10 DEF Trim
    <2> QED
      BY <1>10, <2>1, FreeBufferType DEF TypeOK, Trim, At, Goto, PCs
  <1>11. ASSUME NEW t \in Threads, Create(t) PROVE TypeOK'
    <2>1. live' = live \cup {allocated + 1}
      BY <1>11 DEF Create, live
    <2>2. req[t].path \in Paths
      BY <1>11 DEF Create, TrimDone, At, TypeOK
    <2>3. \A b \in live' : mem'[b] \in Buffer
      BY <1>11, <2>1, <2>2 DEF Create, TypeOK, Buffer
    <2>4. mem' \in [live' -> Buffer]
      BY <1>11, <2>1, <2>3 DEF Create
    <2>5. /\ allocated' = allocated + 1
          /\ allocated' \in Nat
          /\ live' \subseteq 1..allocated'
      BY <1>11, <2>1 DEF Create, TypeOK
    <2>6. /\ ptr' \in [Threads -> 0..allocated']
          /\ handle' \in [Handles -> [open : BOOLEAN, path : Paths \cup {None},
                                      fh : 0..allocated']]
      BY <1>11, <2>5 DEF Create, TypeOK
    <2>7. /\ pc' \in [Threads -> PCs]
          /\ \A u \in Threads : pc'[u] # "idle" => req'[u].path \in Paths
      BY <1>11 DEF Create, TrimDone, At, Goto, PCs, TypeOK
    <2>8. /\ count' \in Int
          /\ global' \in Threads \cup {None}
          /\ requests' \in Nat
      BY <1>11 DEF Create, TypeOK
    <2>9. /\ req' \in [Threads -> [h : Handles \cup {None},
                                  path : Paths \cup {None}]]
          /\ \A h \in Handles : handle'[h].open => handle'[h].path \in Paths
          /\ answer' \in [Threads -> {"frame", "empty", "torn"}]
      BY <1>11 DEF Create, TypeOK
    <2>10. undefined' \in BOOLEAN
      BY <1>11 DEF Create, TypeOK
    <2> QED
      BY <2>4, <2>5, <2>6, <2>7, <2>8, <2>9, <2>10 DEF TypeOK
  <1>12. ASSUME NEW t \in Threads, CreateFails(t) PROVE TypeOK'
    BY <1>12 DEF TypeOK, live, At, Goto, PCs, CreateFails
  <1>13. ASSUME NEW t \in Threads, AcquireFound(t) PROVE TypeOK'
    BY <1>13 DEF TypeOK, live, At, Goto, PCs, AcquireFound
  <1>14. ASSUME NEW t \in Threads, AcquireEmpty(t) PROVE TypeOK'
    <2>1. /\ live' = live
          /\ live' \subseteq 1..allocated'
          /\ mem' \in [live' -> Buffer]
      BY <1>14, SetBufferType DEF TypeOK, AcquireEmpty, Buffer
    <2> QED
      BY <1>14, <2>1 DEF TypeOK, At, Goto, PCs, AcquireEmpty
  <1>15. ASSUME NEW t \in Threads, BeginFill(t) PROVE TypeOK'
    <2>1. /\ mem[ptr[t]].mutex \in Threads \cup {None}
          /\ mem[ptr[t]].in_use \in BOOLEAN
      BY <1>15 DEF TypeOK, BeginFill, Buffer
    <2>2. /\ live' = live
          /\ live' \subseteq 1..allocated'
          /\ mem' \in [live' -> Buffer]
      BY <1>15, <2>1, SetBufferType DEF BeginFill
    <2> QED
      BY <1>15, <2>2 DEF TypeOK, At, Goto, PCs, BeginFill
  <1>16. ASSUME NEW t \in Threads, CallbackFails(t) PROVE TypeOK'
    <2>1. /\ mem[ptr[t]].data \in {"null", "filling", "ready"}
          /\ mem[ptr[t]].in_use \in BOOLEAN
      BY <1>16 DEF TypeOK, CallbackFails, Buffer
    <2>2. /\ live' = live
          /\ live' \subseteq 1..allocated'
          /\ mem' \in [live' -> Buffer]
      BY <1>16, <2>1, SetBufferType DEF CallbackFails
    <2> QED
      BY <1>16, <2>2 DEF TypeOK, At, Goto, PCs, CallbackFails
  <1>17. ASSUME NEW t \in Threads, EndFill(t) PROVE TypeOK'
    <2>1. /\ live' = live
          /\ live' \subseteq 1..allocated'
          /\ mem' \in [live' -> Buffer]
      BY <1>17, SetBufferType DEF TypeOK, EndFill, Buffer
    <2> QED
      BY <1>17, <2>1 DEF TypeOK, At, Goto, PCs, EndFill
  <1>18. ASSUME NEW t \in Threads, UseRead(t) PROVE TypeOK'
    <2>1. AnswerFrom(ptr[t]) \in {"frame", "empty", "torn"}
      BY <1>18 DEF TypeOK, UseRead, AnswerFrom, Buffer
    <2>2. handle' \in [Handles -> [open : BOOLEAN, path : Paths \cup {None},
                                   fh : 0..allocated]]
      BY <1>18 DEF TypeOK, UseRead
    <2> QED
      BY <1>18, <2>1, <2>2 DEF TypeOK, live, At, Goto, PCs, UseRead
  <1>19. ASSUME NEW t \in Threads, UsePreview(t) PROVE TypeOK'
    <2>1. AnswerFrom(ptr[t]) \in {"frame", "empty", "torn"}
      BY <1>19 DEF TypeOK, UsePreview, AnswerFrom, Buffer
    <2> QED
      BY <1>19, <2>1 DEF TypeOK, live, At, Goto, PCs, UsePreview
  <1>20. ASSUME NEW t \in Threads, ReleasePtr(t) PROVE TypeOK'
    <2>1. mem[ptr[t]].data \in {"null", "filling", "ready"}
      BY <1>20 DEF TypeOK, ReleasePtr, Buffer
    <2>2. /\ live' = live
          /\ live' \subseteq 1..allocated'
          /\ mem' \in [live' -> Buffer]
      BY <1>20, <2>1, SetBufferType DEF ReleasePtr
    <2> QED
      BY <1>20, <2>2 DEF TypeOK, At, Goto, PCs, ReleasePtr
  <1>21. ASSUME NEW t \in Threads, ReleaseByPath(t) PROVE TypeOK'
    <2>1. \A b \in live : mem'[b] \in Buffer
      BY <1>21 DEF TypeOK, ReleaseByPath, Buffer, live
    <2>2. live' = live /\ mem' \in [live' -> Buffer]
      BY <1>21, <2>1 DEF ReleaseByPath, live
    <2> QED
      BY <1>21, <2>2 DEF TypeOK, At, Goto, PCs, ReleaseByPath
  <1>22. ASSUME NEW t \in Threads, UseDangling(t) PROVE TypeOK'
    BY <1>22 DEF TypeOK, live, At, Goto, PCs, UseDangling, FollowsDangling
  <1>23. CASE UNCHANGED vars
    BY <1>23 DEF TypeOK, live, vars
  <1> QED
    BY <1>1, <1>2, <1>3, <1>4, <1>5, <1>6, <1>7, <1>8, <1>9, <1>10, <1>11, <1>12, <1>13, <1>14,
       <1>15, <1>16, <1>17, <1>18, <1>19, <1>20, <1>21, <1>22, <1>23 DEF Next, ThreadStep,
       Finished

(* Type correctness: whatever the threads do, pointers, flags, mutexes and *)
(* counters keep to their types.                                           *)
THEOREM TypeCorrect == Spec => []TypeOK
  BY InitTypeOK, NextTypeOK, PTL DEF Spec
-----------------------------------------------------------------------------
(* The list: its paths are distinct, count is its length and is bounded.   *)

(* A thread cleans up with image_buffer_mutex held and its path missing.   *)
(* Nobody else can insert that path before it does.                        *)
CleanupInv ==
  \A t \in Threads :
    pc[t] \in {"scan", "trim"} => global = t /\ EntriesOf(req[t].path) = {}

ListInd ==
  /\ CleanupInv
  /\ IsFiniteSet(live)
  /\ ListInv

(* The step leaves the entries of the list and their paths alone. *)
SameEntries ==
  /\ live' = live
  /\ \A b \in live : mem'[b].path = mem[b].path
  /\ count' = count

(* A step that neither adds nor frees a buffer keeps the list as it is. *)
LEMMA SameEntriesListInv ==
  ASSUME IsFiniteSet(live), ListInv, SameEntries
  PROVE  /\ IsFiniteSet(live)' /\ ListInv'
         /\ \A p : EntriesOf(p)' = EntriesOf(p)
  BY DEF SameEntries, ListInv, EntriesOf

(* A step that leaves the list alone, takes no thread into the cleanup and *)
(* changes neither the owner of the list mutex nor a request under way.    *)
LEMMA QuietStep ==
  ASSUME TypeOK, ListInd, SameEntries, global' = global,
         \A t \in Threads : pc'[t] \in {"scan", "trim"}
                             => pc[t] \in {"scan", "trim"} /\ req'[t] = req[t]
  PROVE  ListInd'
  BY SameEntriesListInv DEF ListInd, CleanupInv

(* SetBuffer is such a step. *)
LEMMA SetBufferSameEntries ==
  ASSUME TypeOK, NEW b \in live, NEW i, NEW d, NEW m, SetBuffer(b, i, d, m),
         count' = count
  PROVE  SameEntries
  BY DEF TypeOK, SetBuffer, SameEntries, live, Buffer

(* free_image_buffer keeps count the length of the list. *)
LEMMA FreeBufferListInv ==
  ASSUME TypeOK, IsFiniteSet(live), ListInv, NEW b \in live, FreeBuffer(b)
  PROVE  /\ IsFiniteSet(live)' /\ ListInv'
         /\ \A p : EntriesOf(p)' \subseteq EntriesOf(p)
  <1>1. /\ live' = live \ {b}
        /\ \A c \in live' : mem'[c] = mem[c]
        /\ count' = count - 1
    BY DEF FreeBuffer, live
  <1>2. /\ IsFiniteSet(live')
        /\ Cardinality(live') = Cardinality(live) - 1
    BY <1>1, FS_RemoveElement
  <1>3. \A c, d \in live' : mem'[c].path = mem'[d].path => c = d
    BY <1>1 DEF ListInv
  <1>4. count' = Cardinality(live') /\ count' <= MaxTotal + 1
    BY <1>1, <1>2, FS_CardinalityType, ConstantsAssumption DEF ListInv, TypeOK
  <1>5. \A p : EntriesOf(p)' \subseteq EntriesOf(p)
    BY <1>1 DEF EntriesOf
  <1> QED
    BY <1>2, <1>3, <1>4, <1>5 DEF ListInv

(* The list is empty at the start. *)
LEMMA InitListInd == Init => ListInd
  <1> SUFFICES ASSUME Init PROVE ListInd
    OBVIOUS
  <1>1. live = {} /\ count = 0 /\ \A t \in Threads : pc[t] = "idle"
    BY DEF Init, live
  <1> QED
    BY <1>1, FS_EmptySet, ConstantsAssumption DEF ListInd, ListInv, CleanupInv

(* Every step keeps one buffer a path, the counter and the limit. *)
LEMMA NextListInd == TypeOK /\ ListInd /\ [Next]_vars => ListInd'
  <1> SUFFICES ASSUME TypeOK, ListInd, [Next]_vars PROVE ListInd'
    OBVIOUS
  <1> USE ConstantsAssumption
  <1>1. ASSUME NEW h \in Handles, NEW p \in Paths, Open(h, p) PROVE ListInd'
    BY <1>1, QuietStep DEF Open, At, Goto, TypeOK, SameEntries, live
  <1>2. ASSUME NEW t \in FuseThreads, NEW h \in Handles, BeginRead(t, h) PROVE ListInd'
    BY <1>2, QuietStep DEF BeginRead, Threads, At, Goto, TypeOK, SameEntries, live
  <1>3. ASSUME NEW t \in FuseThreads, NEW h \in Handles, BeginRelease(t, h) PROVE ListInd'
    BY <1>3, QuietStep DEF BeginRelease, Threads, At, Goto, TypeOK, SameEntries, live
  <1>4. ASSUME NEW t \in WebThreads, NEW p \in GifPaths, BeginPreview(t, p) PROVE ListInd'
    BY <1>4, QuietStep DEF BeginPreview, Threads, At, Goto, TypeOK, SameEntries, live
  <1>5. ASSUME NEW t \in Threads, LookupHit(t) PROVE ListInd'
    BY <1>5, QuietStep DEF LookupHit, At, Goto, TypeOK, SameEntries, live
  <1>6. ASSUME NEW t \in Threads, ScanSkip(t) PROVE ListInd'
    BY <1>6, QuietStep DEF ScanSkip, At, Goto, TypeOK, SameEntries, live
  <1>7. ASSUME NEW t \in Threads, ScanEnd(t) PROVE ListInd'
    BY <1>7, QuietStep DEF ScanEnd, At, Goto, TypeOK, SameEntries, live
  <1>8. ASSUME NEW t \in Threads, CreateFails(t) PROVE ListInd'
    BY <1>8, QuietStep DEF CreateFails, At, Goto, TypeOK, SameEntries, live
  <1>9. ASSUME NEW t \in Threads, AcquireFound(t) PROVE ListInd'
    BY <1>9, QuietStep DEF AcquireFound, At, Goto, TypeOK, SameEntries, live
  <1>10. ASSUME NEW t \in Threads, UseRead(t) PROVE ListInd'
    BY <1>10, QuietStep DEF UseRead, At, Goto, TypeOK, SameEntries, live
  <1>11. ASSUME NEW t \in Threads, UsePreview(t) PROVE ListInd'
    BY <1>11, QuietStep DEF UsePreview, At, Goto, TypeOK, SameEntries, live
  <1>12. ASSUME NEW t \in Threads, UseDangling(t) PROVE ListInd'
    BY <1>12, QuietStep DEF UseDangling, FollowsDangling, At, Goto, TypeOK, SameEntries, live
  <1>13. ASSUME NEW t \in Threads, AcquireEmpty(t) PROVE ListInd'
    <2>1. SameEntries
      BY <1>13, SetBufferSameEntries DEF AcquireEmpty
    <2> QED
      BY <1>13, <2>1, QuietStep DEF AcquireEmpty, At, Goto, TypeOK
  <1>14. ASSUME NEW t \in Threads, BeginFill(t) PROVE ListInd'
    <2>1. SameEntries
      BY <1>14, SetBufferSameEntries DEF BeginFill
    <2> QED
      BY <1>14, <2>1, QuietStep DEF BeginFill, At, Goto, TypeOK
  <1>15. ASSUME NEW t \in Threads, CallbackFails(t) PROVE ListInd'
    <2>1. SameEntries
      BY <1>15, SetBufferSameEntries DEF CallbackFails
    <2> QED
      BY <1>15, <2>1, QuietStep DEF CallbackFails, At, Goto, TypeOK
  <1>16. ASSUME NEW t \in Threads, EndFill(t) PROVE ListInd'
    <2>1. SameEntries
      BY <1>16, SetBufferSameEntries DEF EndFill
    <2> QED
      BY <1>16, <2>1, QuietStep DEF EndFill, At, Goto, TypeOK
  <1>17. ASSUME NEW t \in Threads, ReleasePtr(t) PROVE ListInd'
    <2>1. SameEntries
      BY <1>17, SetBufferSameEntries DEF ReleasePtr
    <2> QED
      BY <1>17, <2>1, QuietStep DEF ReleasePtr, At, Goto, TypeOK
  <1>18. ASSUME NEW t \in Threads, ReleaseByPath(t) PROVE ListInd'
    <2>1. SameEntries
      BY <1>18 DEF ReleaseByPath, SameEntries, live
    <2> QED
      BY <1>18, <2>1, QuietStep DEF ReleaseByPath, At, Goto, TypeOK
  <1>19. ASSUME NEW t \in Threads, LookupMiss(t) PROVE ListInd'
    <2>1. SameEntries
      BY <1>19 DEF LookupMiss, SameEntries, live
    <2>2. \A u \in Threads : pc[u] \notin {"scan", "trim"}
      BY <1>19 DEF LookupMiss, ListInd, CleanupInv
    <2>3. CleanupInv'
      BY <1>19, <2>1, <2>2, SameEntriesListInv
      DEF LookupMiss, Goto, TypeOK, ListInd, CleanupInv
    <2> QED
      BY <2>1, <2>3, SameEntriesListInv DEF ListInd
  <1>20. ASSUME NEW t \in Threads, ScanFree(t) PROVE ListInd'
    <2>1. PICK b \in live : FreeBuffer(b)
      BY <1>20 DEF ScanFree
    <2>2. /\ IsFiniteSet(live)' /\ ListInv'
          /\ \A p : EntriesOf(p)' \subseteq EntriesOf(p)
      BY <2>1, FreeBufferListInv DEF ListInd
    <2>3. pc' = pc /\ req' = req /\ global' = global
      BY <1>20 DEF ScanFree
    <2> QED
      BY <2>2, <2>3 DEF ListInd, CleanupInv
  <1>21. ASSUME NEW t \in Threads, Trim(t) PROVE ListInd'
    <2>1. PICK b \in live : FreeBuffer(b)
      BY <1>21 DEF Trim
    <2>2. /\ IsFiniteSet(live)' /\ ListInv'
          /\ \A p : EntriesOf(p)' \subseteq EntriesOf(p)
      BY <2>1, FreeBufferListInv DEF ListInd
    <2>3. pc' = pc /\ req' = req /\ global' = global
      BY <1>21 DEF Trim
    <2> QED
      BY <2>2, <2>3 DEF ListInd, CleanupInv
  <1>22. ASSUME NEW t \in Threads, Create(t) PROVE ListInd'
    <2> DEFINE b == allocated + 1
    <2>1. b \notin live
      BY DEF TypeOK
    <2>2. /\ live' = live \cup {b}
          /\ \A c \in live : mem'[c] = mem[c]
          /\ mem'[b].path = req[t].path
          /\ count' = count + 1
      BY <1>22, <2>1 DEF Create, live
    <2>3. IsFiniteSet(live') /\ Cardinality(live') = Cardinality(live) + 1
      BY <2>1, <2>2, FS_AddElement DEF ListInd
    <2>4. EntriesOf(req[t].path) = {}
      BY <1>22 DEF Create, TrimDone, At, ListInd, CleanupInv
    <2>5. \A c, d \in live' : mem'[c].path = mem'[d].path => c = d
      BY <2>2, <2>4 DEF ListInd, ListInv, EntriesOf
    <2>6. count <= MaxTotal
      BY <1>22, FS_EmptySet DEF Create, TrimDone, ListInd, ListInv
    <2>7. ListInv'
      BY <2>2, <2>3, <2>5, <2>6 DEF ListInd, ListInv, TypeOK
    <2>8. \A u \in Threads : pc'[u] \notin {"scan", "trim"}
      BY <1>22 DEF Create, TrimDone, At, Goto, TypeOK, ListInd, CleanupInv
    <2> QED
      BY <2>3, <2>7, <2>8 DEF ListInd, CleanupInv
  <1>23. CASE UNCHANGED vars
    BY <1>23, QuietStep DEF vars, SameEntries, live
  <1> QED
    BY <1>1, <1>2, <1>3, <1>4, <1>5, <1>6, <1>7, <1>8, <1>9, <1>10, <1>11, <1>12, <1>13, <1>14,
       <1>15, <1>16, <1>17, <1>18, <1>19, <1>20, <1>21, <1>22, <1>23 DEF Next, ThreadStep,
       Finished

(* For every number of threads, handles and paths the cache holds a path   *)
(* once, its counter is right and its limit is never exceeded by two.      *)
THEOREM CacheListCorrect == Spec => []ListInv
  <1>1. TypeOK /\ ListInd /\ [Next]_vars => ListInd'
    BY NextListInd
  <1>2. ListInd => ListInv
    BY DEF ListInd
  <1> QED
    BY InitListInd, TypeCorrect, <1>1, <1>2, PTL DEF Spec

-----------------------------------------------------------------------------
(* Production: the mutex of a buffer is held from the test of data on.     *)

ProducerInv ==
  \A t \in Threads :
    pc[t] \in {"callback", "fill"} /\ ptr[t] \in live => mem[ptr[t]].mutex = t

(* Nobody begins to develop a buffer that somebody develops, as that takes *)
(* its mutex.                                                              *)
LEMMA NextProducerInv == TypeOK /\ ProducerInv /\ [Next]_vars => ProducerInv'
  <1> SUFFICES ASSUME TypeOK, ProducerInv, [Next]_vars PROVE ProducerInv'
    OBVIOUS
  <1> USE ConstantsAssumption
  <1>1. ASSUME NEW h \in Handles, NEW p \in Paths, Open(h, p) PROVE ProducerInv'
    BY <1>1 DEF Open, At, Goto, TypeOK, ProducerInv, live
  <1>2. ASSUME NEW t \in FuseThreads, NEW h \in Handles, BeginRead(t, h) PROVE ProducerInv'
    BY <1>2 DEF BeginRead, Threads, At, Goto, TypeOK, ProducerInv, live
  <1>3. ASSUME NEW t \in FuseThreads, NEW h \in Handles, BeginRelease(t, h) PROVE ProducerInv'
    BY <1>3 DEF BeginRelease, Threads, At, Goto, TypeOK, ProducerInv, live
  <1>4. ASSUME NEW t \in WebThreads, NEW p \in GifPaths, BeginPreview(t, p) PROVE ProducerInv'
    BY <1>4 DEF BeginPreview, Threads, At, Goto, TypeOK, ProducerInv, live
  <1>5. ASSUME NEW t \in Threads, LookupHit(t) PROVE ProducerInv'
    BY <1>5 DEF LookupHit, At, Goto, TypeOK, ProducerInv, live
  <1>6. ASSUME NEW t \in Threads, LookupMiss(t) PROVE ProducerInv'
    BY <1>6 DEF LookupMiss, At, Goto, TypeOK, ProducerInv, live
  <1>7. ASSUME NEW t \in Threads, ScanSkip(t) PROVE ProducerInv'
    BY <1>7 DEF ScanSkip, Examines, At, Goto, TypeOK, ProducerInv, live
  <1>8. ASSUME NEW t \in Threads, ScanFree(t) PROVE ProducerInv'
    BY <1>8 DEF ScanFree, Examines, FreeBuffer, At, Goto, TypeOK, ProducerInv, live
  <1>9. ASSUME NEW t \in Threads, ScanEnd(t) PROVE ProducerInv'
    BY <1>9 DEF ScanEnd, At, Goto, TypeOK, ProducerInv, live
  <1>10. ASSUME NEW t \in Threads, Trim(t) PROVE ProducerInv'
    BY <1>10 DEF Trim, FreeBuffer, At, Goto, TypeOK, ProducerInv, live
  <1>11. ASSUME NEW t \in Threads, Create(t) PROVE ProducerInv'
    BY <1>11 DEF Create, TrimDone, At, Goto, TypeOK, ProducerInv, live
  <1>12. ASSUME NEW t \in Threads, CreateFails(t) PROVE ProducerInv'
    BY <1>12 DEF CreateFails, At, Goto, TypeOK, ProducerInv, live
  <1>13. ASSUME NEW t \in Threads, AcquireFound(t) PROVE ProducerInv'
    BY <1>13 DEF AcquireFound, At, Goto, TypeOK, ProducerInv, live
  <1>14. ASSUME NEW t \in Threads, AcquireEmpty(t) PROVE ProducerInv'
    BY <1>14 DEF AcquireEmpty, SetBuffer, At, Goto, TypeOK, ProducerInv, live
  <1>15. ASSUME NEW t \in Threads, BeginFill(t) PROVE ProducerInv'
    BY <1>15 DEF BeginFill, SetBuffer, At, Goto, TypeOK, ProducerInv, live
  <1>16. ASSUME NEW t \in Threads, CallbackFails(t) PROVE ProducerInv'
    BY <1>16 DEF CallbackFails, SetBuffer, At, Goto, TypeOK, ProducerInv, live
  <1>17. ASSUME NEW t \in Threads, EndFill(t) PROVE ProducerInv'
    BY <1>17 DEF EndFill, SetBuffer, At, Goto, TypeOK, ProducerInv, live
  <1>18. ASSUME NEW t \in Threads, UseRead(t) PROVE ProducerInv'
    BY <1>18 DEF UseRead, At, Goto, TypeOK, ProducerInv, live
  <1>19. ASSUME NEW t \in Threads, UsePreview(t) PROVE ProducerInv'
    BY <1>19 DEF UsePreview, At, Goto, TypeOK, ProducerInv, live
  <1>20. ASSUME NEW t \in Threads, ReleasePtr(t) PROVE ProducerInv'
    BY <1>20 DEF ReleasePtr, SetBuffer, At, Goto, TypeOK, ProducerInv, live
  <1>21. ASSUME NEW t \in Threads, ReleaseByPath(t) PROVE ProducerInv'
    BY <1>21 DEF ReleaseByPath, At, Goto, TypeOK, ProducerInv, live
  <1>22. ASSUME NEW t \in Threads, UseDangling(t) PROVE ProducerInv'
    BY <1>22 DEF UseDangling, FollowsDangling, At, Goto, TypeOK, ProducerInv, live
  <1>23. CASE UNCHANGED vars
    BY <1>23 DEF vars, ProducerInv, live
  <1> QED
    BY <1>1, <1>2, <1>3, <1>4, <1>5, <1>6, <1>7, <1>8, <1>9, <1>10, <1>11, <1>12, <1>13, <1>14,
       <1>15, <1>16, <1>17, <1>18, <1>19, <1>20, <1>21, <1>22, <1>23 DEF Next, ThreadStep,
       Finished

(* No two threads ever run process_frame or create_preview on one buffer.  *)
THEOREM OneProducerCorrect == Spec => []OneProducer
  <1>1. Init => ProducerInv
    BY DEF Init, ProducerInv
  <1>2. TypeOK /\ ProducerInv => OneProducer
    BY DEF ProducerInv, OneProducer
  <1> QED
    BY <1>1, <1>2, NextProducerInv, TypeCorrect, PTL DEF Spec
-----------------------------------------------------------------------------
(* Eviction.                                                               *)

(* Only the two loops of image_buffer_cleanup take entries off the list.   *)
LEMMA OnlyCleanupFrees ==
  TypeOK /\ [Next]_vars =>
    \/ live \subseteq live'
    \/ \E t \in Threads : ScanFree(t) \/ Trim(t)
  <1> SUFFICES ASSUME TypeOK, [Next]_vars,
                      ~ \E t \in Threads : ScanFree(t) \/ Trim(t)
               PROVE  live \subseteq live'
    OBVIOUS
  <1>1. ASSUME NEW h \in Handles, NEW p \in Paths, Open(h, p) PROVE live \subseteq live'
    BY <1>1 DEF Open, TypeOK, live
  <1>2. ASSUME NEW t \in FuseThreads, NEW h \in Handles, BeginRead(t, h) PROVE live \subseteq live'
    BY <1>2 DEF BeginRead, TypeOK, live
  <1>3. ASSUME NEW t \in FuseThreads, NEW h \in Handles, BeginRelease(t, h) PROVE live \subseteq live'
    BY <1>3 DEF BeginRelease, TypeOK, live
  <1>4. ASSUME NEW t \in WebThreads, NEW p \in GifPaths, BeginPreview(t, p) PROVE live \subseteq live'
    BY <1>4 DEF BeginPreview, TypeOK, live
  <1>5. ASSUME NEW t \in Threads, LookupHit(t) PROVE live \subseteq live'
    BY <1>5 DEF LookupHit, TypeOK, live
  <1>6. ASSUME NEW t \in Threads, LookupMiss(t) PROVE live \subseteq live'
    BY <1>6 DEF LookupMiss, TypeOK, live
  <1>7. ASSUME NEW t \in Threads, ScanSkip(t) PROVE live \subseteq live'
    BY <1>7 DEF ScanSkip, TypeOK, live
  <1>8. ASSUME NEW t \in Threads, ScanEnd(t) PROVE live \subseteq live'
    BY <1>8 DEF ScanEnd, TypeOK, live
  <1>9. ASSUME NEW t \in Threads, Create(t) PROVE live \subseteq live'
    BY <1>9 DEF Create, TypeOK, live
  <1>10. ASSUME NEW t \in Threads, CreateFails(t) PROVE live \subseteq live'
    BY <1>10 DEF CreateFails, TypeOK, live
  <1>11. ASSUME NEW t \in Threads, AcquireFound(t) PROVE live \subseteq live'
    BY <1>11 DEF AcquireFound, TypeOK, live
  <1>12. ASSUME NEW t \in Threads, AcquireEmpty(t) PROVE live \subseteq live'
    BY <1>12 DEF AcquireEmpty, SetBuffer, TypeOK, live
  <1>13. ASSUME NEW t \in Threads, BeginFill(t) PROVE live \subseteq live'
    BY <1>13 DEF BeginFill, SetBuffer, TypeOK, live
  <1>14. ASSUME NEW t \in Threads, CallbackFails(t) PROVE live \subseteq live'
    BY <1>14 DEF CallbackFails, SetBuffer, TypeOK, live
  <1>15. ASSUME NEW t \in Threads, EndFill(t) PROVE live \subseteq live'
    BY <1>15 DEF EndFill, SetBuffer, TypeOK, live
  <1>16. ASSUME NEW t \in Threads, UseRead(t) PROVE live \subseteq live'
    BY <1>16 DEF UseRead, TypeOK, live
  <1>17. ASSUME NEW t \in Threads, UsePreview(t) PROVE live \subseteq live'
    BY <1>17 DEF UsePreview, TypeOK, live
  <1>18. ASSUME NEW t \in Threads, ReleasePtr(t) PROVE live \subseteq live'
    BY <1>18 DEF ReleasePtr, SetBuffer, TypeOK, live
  <1>19. ASSUME NEW t \in Threads, ReleaseByPath(t) PROVE live \subseteq live'
    BY <1>19 DEF ReleaseByPath, TypeOK, live
  <1>20. ASSUME NEW t \in Threads, UseDangling(t) PROVE live \subseteq live'
    BY <1>20 DEF UseDangling, FollowsDangling, TypeOK, live
  <1>21. ASSUME Finished PROVE live \subseteq live'
    BY <1>21 DEF Finished, vars, TypeOK, live
  <1>22. CASE UNCHANGED vars
    BY <1>22 DEF vars, live
  <1> QED
    BY <1>1, <1>2, <1>3, <1>4, <1>5, <1>6, <1>7, <1>8, <1>9, <1>10, <1>11, <1>12, <1>13, <1>14,
       <1>15, <1>16, <1>17, <1>18, <1>19, <1>20, <1>21, <1>22 DEF Next, ThreadStep

(* A raised in_use flag keeps a buffer in memory up to the total limit.    *)
THEOREM InUsePinnedCorrect == Spec => InUsePinned
  <1> DEFINE Pinned == \A b \in live \ live' :
                         mem[b].in_use => /\ count > MaxTotal
                                          /\ \A c \in live : b <= c
  <1>1. TypeOK /\ [Next]_vars => Pinned
    <2> SUFFICES ASSUME TypeOK, [Next]_vars, NEW b \in live \ live', mem[b].in_use
                 PROVE  count > MaxTotal /\ \A c \in live : b <= c
      OBVIOUS
    <2>1. PICK t \in Threads : ScanFree(t) \/ Trim(t)
      BY OnlyCleanupFrees
    <2>2. ~ScanFree(t)
      BY DEF ScanFree, FreeBuffer, live
    <2>3. Trim(t)
      BY <2>1, <2>2
    <2>4. PICK c \in live : IsNext(c, 0) /\ FreeBuffer(c)
      BY <2>3 DEF Trim
    <2>5. c = b
      BY <2>4 DEF FreeBuffer, live
    <2> QED
      BY <2>3, <2>4, <2>5 DEF Trim, IsNext, TypeOK
  <1>2. TypeOK /\ [Next]_vars => [Pinned]_vars
    BY <1>1
  <1> QED
    BY <1>2, TypeCorrect, PTL DEF Spec, InUsePinned

-----------------------------------------------------------------------------
(* The pointer of a thread.                                                *)

(* A pointer a thread holds or the kernel keeps leads to a buffer of the   *)
(* path it was looked up for, as long as it leads anywhere.                *)
PointerInv ==
  /\ \A t \in Threads :
       pc[t] \in Dereferences /\ ptr[t] \in live => mem[ptr[t]].path = req[t].path
  /\ \A h \in Handles :
       handle[h].fh \in live => mem[handle[h].fh].path = handle[h].path

(* The web thread asks for previews only and is alone in releasing by      *)
(* pointer.                                                                *)
PreviewInv ==
  /\ \A t \in WebThreads : pc[t] # "idle" => req[t].path \in GifPaths
  /\ \A t \in Threads : pc[t] = "release_ptr" => t \in WebThreads

(* Pointers keep leading to the path they were looked up for: a name is    *)
(* never given to a second buffer, and nothing writes the path of one.     *)
LEMMA NextPointerInv == TypeOK /\ PointerInv /\ [Next]_vars => PointerInv'
  <1> SUFFICES ASSUME TypeOK, PointerInv, [Next]_vars PROVE PointerInv'
    OBVIOUS
  <1> USE ConstantsAssumption
  <1>1. ASSUME NEW h \in Handles, NEW p \in Paths, Open(h, p) PROVE PointerInv'
    BY <1>1 DEF Open, At, Goto, TypeOK, PointerInv, Dereferences, live
  <1>2. ASSUME NEW t \in FuseThreads, NEW h \in Handles, BeginRead(t, h) PROVE PointerInv'
    BY <1>2 DEF BeginRead, Threads, At, Goto, TypeOK, PointerInv, Dereferences, live
  <1>3. ASSUME NEW t \in FuseThreads, NEW h \in Handles, BeginRelease(t, h) PROVE PointerInv'
    BY <1>3 DEF BeginRelease, Threads, At, Goto, TypeOK, PointerInv, Dereferences, live
  <1>4. ASSUME NEW t \in WebThreads, NEW p \in GifPaths, BeginPreview(t, p) PROVE PointerInv'
    BY <1>4 DEF BeginPreview, Threads, At, Goto, TypeOK, PointerInv, Dereferences, live
  <1>5. ASSUME NEW t \in Threads, LookupHit(t) PROVE PointerInv'
    BY <1>5 DEF LookupHit, EntriesOf, At, Goto, TypeOK, PointerInv, Dereferences, live
  <1>6. ASSUME NEW t \in Threads, LookupMiss(t) PROVE PointerInv'
    BY <1>6 DEF LookupMiss, At, Goto, TypeOK, PointerInv, Dereferences, live
  <1>7. ASSUME NEW t \in Threads, ScanSkip(t) PROVE PointerInv'
    BY <1>7 DEF ScanSkip, Examines, IsNext, At, Goto, TypeOK, PointerInv, Dereferences, live
  <1>8. ASSUME NEW t \in Threads, ScanFree(t) PROVE PointerInv'
    BY <1>8 DEF ScanFree, Examines, FreeBuffer, At, Goto, TypeOK, PointerInv, Dereferences, live
  <1>9. ASSUME NEW t \in Threads, ScanEnd(t) PROVE PointerInv'
    BY <1>9 DEF ScanEnd, At, Goto, TypeOK, PointerInv, Dereferences, live
  <1>10. ASSUME NEW t \in Threads, Trim(t) PROVE PointerInv'
    BY <1>10 DEF Trim, FreeBuffer, At, Goto, TypeOK, PointerInv, Dereferences, live
  <1>11. ASSUME NEW t \in Threads, Create(t) PROVE PointerInv'
    BY <1>11 DEF Create, TrimDone, At, Goto, TypeOK, PointerInv, Dereferences, live
  <1>12. ASSUME NEW t \in Threads, CreateFails(t) PROVE PointerInv'
    BY <1>12 DEF CreateFails, At, Goto, TypeOK, PointerInv, Dereferences, live
  <1>13. ASSUME NEW t \in Threads, AcquireFound(t) PROVE PointerInv'
    BY <1>13 DEF AcquireFound, At, Goto, TypeOK, PointerInv, Dereferences, live
  <1>14. ASSUME NEW t \in Threads, AcquireEmpty(t) PROVE PointerInv'
    BY <1>14 DEF AcquireEmpty, SetBuffer, At, Goto, TypeOK, PointerInv, Dereferences, live
  <1>15. ASSUME NEW t \in Threads, BeginFill(t) PROVE PointerInv'
    BY <1>15 DEF BeginFill, SetBuffer, At, Goto, TypeOK, PointerInv, Dereferences, live
  <1>16. ASSUME NEW t \in Threads, CallbackFails(t) PROVE PointerInv'
    BY <1>16 DEF CallbackFails, SetBuffer, At, Goto, TypeOK, PointerInv, Dereferences, live
  <1>17. ASSUME NEW t \in Threads, EndFill(t) PROVE PointerInv'
    BY <1>17 DEF EndFill, SetBuffer, At, Goto, TypeOK, PointerInv, Dereferences, live
  <1>18. ASSUME NEW t \in Threads, UseRead(t) PROVE PointerInv'
    BY <1>18 DEF UseRead, At, Goto, TypeOK, PointerInv, Dereferences, live
  <1>19. ASSUME NEW t \in Threads, UsePreview(t) PROVE PointerInv'
    BY <1>19 DEF UsePreview, At, Goto, TypeOK, PointerInv, Dereferences, live
  <1>20. ASSUME NEW t \in Threads, ReleasePtr(t) PROVE PointerInv'
    BY <1>20 DEF ReleasePtr, SetBuffer, At, Goto, TypeOK, PointerInv, Dereferences, live
  <1>21. ASSUME NEW t \in Threads, ReleaseByPath(t) PROVE PointerInv'
    BY <1>21 DEF ReleaseByPath, At, Goto, TypeOK, PointerInv, Dereferences, live
  <1>22. ASSUME NEW t \in Threads, UseDangling(t) PROVE PointerInv'
    BY <1>22 DEF UseDangling, FollowsDangling, At, Goto, TypeOK, PointerInv, Dereferences, live
  <1>23. CASE UNCHANGED vars
    BY <1>23 DEF vars, At, Goto, TypeOK, PointerInv, Dereferences, live
  <1> QED
    BY <1>1, <1>2, <1>3, <1>4, <1>5, <1>6, <1>7, <1>8, <1>9, <1>10, <1>11, <1>12, <1>13, <1>14,
       <1>15, <1>16, <1>17, <1>18, <1>19, <1>20, <1>21, <1>22, <1>23
    DEF Next, ThreadStep, Finished

(* Which thread asks for what never changes while it does.                 *)
LEMMA NextPreviewInv == TypeOK /\ PreviewInv /\ [Next]_vars => PreviewInv'
  <1> SUFFICES ASSUME TypeOK, PreviewInv, [Next]_vars PROVE PreviewInv'
    OBVIOUS
  <1> USE ConstantsAssumption DEF Threads
  <1>1. ASSUME NEW h \in Handles, NEW p \in Paths, Open(h, p) PROVE PreviewInv'
    BY <1>1 DEF Open, At, Goto, TypeOK, PreviewInv
  <1>2. ASSUME NEW t \in FuseThreads, NEW h \in Handles, BeginRead(t, h) PROVE PreviewInv'
    BY <1>2 DEF BeginRead, Threads, At, Goto, TypeOK, PreviewInv
  <1>3. ASSUME NEW t \in FuseThreads, NEW h \in Handles, BeginRelease(t, h) PROVE PreviewInv'
    BY <1>3 DEF BeginRelease, Threads, At, Goto, TypeOK, PreviewInv
  <1>4. ASSUME NEW t \in WebThreads, NEW p \in GifPaths, BeginPreview(t, p) PROVE PreviewInv'
    BY <1>4 DEF BeginPreview, Threads, At, Goto, TypeOK, PreviewInv
  <1>5. ASSUME NEW t \in Threads, LookupHit(t) PROVE PreviewInv'
    BY <1>5 DEF LookupHit, EntriesOf, At, Goto, TypeOK, PreviewInv
  <1>6. ASSUME NEW t \in Threads, LookupMiss(t) PROVE PreviewInv'
    BY <1>6 DEF LookupMiss, At, Goto, TypeOK, PreviewInv
  <1>7. ASSUME NEW t \in Threads, ScanSkip(t) PROVE PreviewInv'
    BY <1>7 DEF ScanSkip, Examines, IsNext, At, Goto, TypeOK, PreviewInv
  <1>8. ASSUME NEW t \in Threads, ScanFree(t) PROVE PreviewInv'
    BY <1>8 DEF ScanFree, Examines, FreeBuffer, At, Goto, TypeOK, PreviewInv
  <1>9. ASSUME NEW t \in Threads, ScanEnd(t) PROVE PreviewInv'
    BY <1>9 DEF ScanEnd, At, Goto, TypeOK, PreviewInv
  <1>10. ASSUME NEW t \in Threads, Trim(t) PROVE PreviewInv'
    BY <1>10 DEF Trim, FreeBuffer, At, Goto, TypeOK, PreviewInv
  <1>11. ASSUME NEW t \in Threads, Create(t) PROVE PreviewInv'
    BY <1>11 DEF Create, TrimDone, At, Goto, TypeOK, PreviewInv
  <1>12. ASSUME NEW t \in Threads, CreateFails(t) PROVE PreviewInv'
    BY <1>12 DEF CreateFails, At, Goto, TypeOK, PreviewInv
  <1>13. ASSUME NEW t \in Threads, AcquireFound(t) PROVE PreviewInv'
    BY <1>13 DEF AcquireFound, At, Goto, TypeOK, PreviewInv
  <1>14. ASSUME NEW t \in Threads, AcquireEmpty(t) PROVE PreviewInv'
    BY <1>14 DEF AcquireEmpty, SetBuffer, At, Goto, TypeOK, PreviewInv
  <1>15. ASSUME NEW t \in Threads, BeginFill(t) PROVE PreviewInv'
    BY <1>15 DEF BeginFill, SetBuffer, At, Goto, TypeOK, PreviewInv
  <1>16. ASSUME NEW t \in Threads, CallbackFails(t) PROVE PreviewInv'
    BY <1>16 DEF CallbackFails, SetBuffer, At, Goto, TypeOK, PreviewInv
  <1>17. ASSUME NEW t \in Threads, EndFill(t) PROVE PreviewInv'
    BY <1>17 DEF EndFill, SetBuffer, At, Goto, TypeOK, PreviewInv
  <1>18. ASSUME NEW t \in Threads, UseRead(t) PROVE PreviewInv'
    BY <1>18 DEF UseRead, At, Goto, TypeOK, PreviewInv
  <1>19. ASSUME NEW t \in Threads, UsePreview(t) PROVE PreviewInv'
    BY <1>19 DEF UsePreview, At, Goto, TypeOK, PreviewInv
  <1>20. ASSUME NEW t \in Threads, ReleasePtr(t) PROVE PreviewInv'
    BY <1>20 DEF ReleasePtr, SetBuffer, At, Goto, TypeOK, PreviewInv
  <1>21. ASSUME NEW t \in Threads, ReleaseByPath(t) PROVE PreviewInv'
    BY <1>21 DEF ReleaseByPath, At, Goto, TypeOK, PreviewInv
  <1>22. ASSUME NEW t \in Threads, UseDangling(t) PROVE PreviewInv'
    BY <1>22 DEF UseDangling, FollowsDangling, At, Goto, TypeOK, PreviewInv
  <1>23. CASE UNCHANGED vars
    BY <1>23 DEF vars, At, Goto, TypeOK, PreviewInv
  <1> QED
    BY <1>1, <1>2, <1>3, <1>4, <1>5, <1>6, <1>7, <1>8, <1>9, <1>10, <1>11, <1>12, <1>13, <1>14,
       <1>15, <1>16, <1>17, <1>18, <1>19, <1>20, <1>21, <1>22, <1>23
    DEF Next, ThreadStep, Finished

-----------------------------------------------------------------------------
(* "starting with the oldest".                                             *)

(* What a scan has passed was in use then.  Since it holds the list mutex  *)
(* no release by path can intervene, only one of a preview by pointer.     *)
ScanInv ==
  \A t \in Threads :
    pc[t] = "scan" =>
      \A c \in live : c <= ptr[t] => mem[c].in_use \/ mem[c].path \in GifPaths

(* A step that passes no buffer and lowers the flag of previews at most.   *)
FlagsKept ==
  \A c \in live' :
    c \in live => \/ mem'[c] = mem[c]
                  \/ /\ mem'[c].path = mem[c].path
                     /\ \/ mem'[c].in_use = mem[c].in_use
                        \/ mem[c].path \in GifPaths

(* A step that changes no in_use flag and begins no scan leaves what the   *)
(* cleanups know of what they have passed.                                 *)
LEMMA FlagsKeptScan ==
  ASSUME TypeOK, ScanInv, FlagsKept, live' \subseteq live,
         \A t \in Threads : pc'[t] = "scan" =>
           \/ pc[t] = "scan" /\ ptr'[t] = ptr[t]
           \/ ptr'[t] = 0
  PROVE  ScanInv'
  <1> SUFFICES ASSUME NEW t \in Threads, pc'[t] = "scan",
                      NEW c \in live', c <= ptr'[t]
               PROVE  mem'[c].in_use \/ mem'[c].path \in GifPaths
    BY DEF ScanInv
  <1>1. c \in live /\ c \in Int /\ c > 0
    BY DEF TypeOK
  <1>2. pc[t] = "scan" /\ ptr'[t] = ptr[t]
    BY <1>1
  <1>3. mem[c].in_use \/ mem[c].path \in GifPaths
    BY <1>1, <1>2 DEF ScanInv
  <1> QED
    BY <1>1, <1>3 DEF FlagsKept

(* The scan keeps what it knows of the buffers it has passed.              *)
LEMMA NextScanInv ==
  TypeOK /\ ListInd /\ PointerInv /\ PreviewInv /\ ScanInv /\ [Next]_vars => ScanInv'
  <1> SUFFICES ASSUME TypeOK, ListInd, PointerInv, PreviewInv, ScanInv, [Next]_vars
               PROVE  ScanInv'
    OBVIOUS
  <1> USE ConstantsAssumption
  <1>1. ASSUME NEW h \in Handles, NEW p \in Paths, Open(h, p) PROVE ScanInv'
    BY <1>1, FlagsKeptScan DEF Open, Threads, FlagsKept, At, Goto, TypeOK, live
  <1>2. ASSUME NEW t \in FuseThreads, NEW h \in Handles, BeginRead(t, h) PROVE ScanInv'
    BY <1>2, FlagsKeptScan DEF BeginRead, Threads, FlagsKept, At, Goto, TypeOK, live
  <1>3. ASSUME NEW t \in FuseThreads, NEW h \in Handles, BeginRelease(t, h) PROVE ScanInv'
    BY <1>3, FlagsKeptScan DEF BeginRelease, Threads, FlagsKept, At, Goto, TypeOK, live
  <1>4. ASSUME NEW t \in WebThreads, NEW p \in GifPaths, BeginPreview(t, p) PROVE ScanInv'
    BY <1>4, FlagsKeptScan DEF BeginPreview, Threads, FlagsKept, At, Goto, TypeOK, live
  <1>5. ASSUME NEW t \in Threads, LookupHit(t) PROVE ScanInv'
    BY <1>5, FlagsKeptScan DEF LookupHit, FlagsKept, At, Goto, TypeOK, live
  <1>6. ASSUME NEW t \in Threads, LookupMiss(t) PROVE ScanInv'
    BY <1>6, FlagsKeptScan DEF LookupMiss, FlagsKept, At, Goto, TypeOK, live
  <1>7. ASSUME NEW t \in Threads, ScanSkip(t) PROVE ScanInv'
    <2>1. PICK b \in live : Examines(t, b) /\ mem[b].in_use /\ ptr' = [ptr EXCEPT ![t] = b]
      BY <1>7 DEF ScanSkip
    <2>2. mem' = mem /\ live' = live /\ pc' = pc
      BY <1>7 DEF ScanSkip, live
    <2> SUFFICES ASSUME NEW u \in Threads, pc[u] = "scan", NEW c \in live, c <= ptr'[u]
                 PROVE  mem[c].in_use \/ mem[c].path \in GifPaths
      BY <2>2 DEF ScanInv
    <2>3. CASE u # t
      BY <2>1, <2>3 DEF ScanInv, TypeOK
    <2>4. CASE u = t
      <3>1. c <= b
        BY <2>1, <2>4 DEF TypeOK
      <3>2. c <= ptr[t] \/ c = b
        BY <2>1, <3>1 DEF Examines, IsNext, TypeOK
      <3> QED
        BY <2>1, <2>4, <3>2 DEF ScanInv
    <2> QED
      BY <2>3, <2>4
  <1>8. ASSUME NEW t \in Threads, ScanFree(t) PROVE ScanInv'
    <2>1. PICK b \in live : FreeBuffer(b)
      BY <1>8 DEF ScanFree
    <2>2. FlagsKept /\ live' \subseteq live
      BY <2>1 DEF FreeBuffer, FlagsKept, live
    <2> QED
      BY <1>8, <2>2, FlagsKeptScan DEF ScanFree, At, Goto, TypeOK
  <1>9. ASSUME NEW t \in Threads, ScanEnd(t) PROVE ScanInv'
    BY <1>9, FlagsKeptScan DEF ScanEnd, FlagsKept, At, Goto, TypeOK, live
  <1>10. ASSUME NEW t \in Threads, Trim(t) PROVE ScanInv'
    <2>1. PICK b \in live : FreeBuffer(b)
      BY <1>10 DEF Trim
    <2>2. FlagsKept /\ live' \subseteq live
      BY <2>1 DEF FreeBuffer, FlagsKept, live
    <2> QED
      BY <1>10, <2>2, FlagsKeptScan DEF Trim, At, Goto, TypeOK
  <1>11. ASSUME NEW t \in Threads, Create(t) PROVE ScanInv'
    BY <1>11 DEF Create, TrimDone, At, Goto, TypeOK, ScanInv, live, ListInd, CleanupInv
  <1>12. ASSUME NEW t \in Threads, CreateFails(t) PROVE ScanInv'
    BY <1>12, FlagsKeptScan DEF CreateFails, FlagsKept, At, Goto, TypeOK, live
  <1>13. ASSUME NEW t \in Threads, AcquireFound(t) PROVE ScanInv'
    BY <1>13, FlagsKeptScan DEF AcquireFound, FlagsKept, At, Goto, TypeOK, live
  <1>14. ASSUME NEW t \in Threads, AcquireEmpty(t) PROVE ScanInv'
    <2>1. FlagsKept /\ live' = live
      BY <1>14 DEF AcquireEmpty, SetBuffer, FlagsKept, TypeOK, Buffer, live
    <2> QED
      BY <1>14, <2>1, FlagsKeptScan DEF AcquireEmpty, At, Goto, TypeOK
  <1>15. ASSUME NEW t \in Threads, BeginFill(t) PROVE ScanInv'
    <2>1. FlagsKept /\ live' = live
      BY <1>15 DEF BeginFill, SetBuffer, FlagsKept, TypeOK, Buffer, live
    <2> QED
      BY <1>15, <2>1, FlagsKeptScan DEF BeginFill, At, Goto, TypeOK
  <1>16. ASSUME NEW t \in Threads, CallbackFails(t) PROVE ScanInv'
    <2>1. FlagsKept /\ live' = live
      BY <1>16 DEF CallbackFails, SetBuffer, FlagsKept, TypeOK, Buffer, live
    <2> QED
      BY <1>16, <2>1, FlagsKeptScan DEF CallbackFails, At, Goto, TypeOK
  <1>17. ASSUME NEW t \in Threads, EndFill(t) PROVE ScanInv'
    <2>1. FlagsKept /\ live' = live
      BY <1>17 DEF EndFill, SetBuffer, FlagsKept, TypeOK, Buffer, live
    <2> QED
      BY <1>17, <2>1, FlagsKeptScan DEF EndFill, At, Goto, TypeOK
  <1>18. ASSUME NEW t \in Threads, UseRead(t) PROVE ScanInv'
    BY <1>18, FlagsKeptScan DEF UseRead, FlagsKept, At, Goto, TypeOK, live
  <1>19. ASSUME NEW t \in Threads, UsePreview(t) PROVE ScanInv'
    BY <1>19, FlagsKeptScan DEF UsePreview, FlagsKept, At, Goto, TypeOK, live
  <1>20. ASSUME NEW t \in Threads, ReleasePtr(t) PROVE ScanInv'
    <2>1. t \in WebThreads /\ req[t].path \in GifPaths
      BY <1>20 DEF ReleasePtr, At, PreviewInv
    <2>2. mem[ptr[t]].path \in GifPaths
      BY <1>20, <2>1 DEF ReleasePtr, At, PointerInv, Dereferences
    <2>3. FlagsKept /\ live' = live
      BY <1>20, <2>2 DEF ReleasePtr, SetBuffer, FlagsKept, TypeOK, Buffer, live
    <2> QED
      BY <1>20, <2>3, FlagsKeptScan DEF ReleasePtr, At, Goto, TypeOK
  <1>21. ASSUME NEW t \in Threads, ReleaseByPath(t) PROVE ScanInv'
    <2>1. \A u \in Threads : pc[u] # "scan"
      BY <1>21 DEF ReleaseByPath, ListInd, CleanupInv
    <2> QED
      BY <1>21, <2>1 DEF ReleaseByPath, Goto, TypeOK, ScanInv
  <1>22. ASSUME NEW t \in Threads, UseDangling(t) PROVE ScanInv'
    BY <1>22, FlagsKeptScan DEF UseDangling, FollowsDangling, FlagsKept, At, Goto, TypeOK, live
  <1>23. CASE UNCHANGED vars
    BY <1>23 DEF vars, ScanInv, live
  <1> QED
    BY <1>1, <1>2, <1>3, <1>4, <1>5, <1>6, <1>7, <1>8, <1>9, <1>10, <1>11, <1>12, <1>13, <1>14,
       <1>15, <1>16, <1>17, <1>18, <1>19, <1>20, <1>21, <1>22, <1>23
    DEF Next, ThreadStep, Finished

(* At the start no thread and no handle has a pointer. *)
LEMMA InitPointers == Init => PointerInv /\ PreviewInv /\ ScanInv
  <1> SUFFICES ASSUME Init PROVE PointerInv /\ PreviewInv /\ ScanInv
    OBVIOUS
  <1>1. live = {} /\ \A t \in Threads : pc[t] = "idle"
    BY DEF Init, live
  <1>2. PointerInv /\ ScanInv
    BY <1>1 DEF PointerInv, ScanInv
  <1>3. PreviewInv
    BY <1>1 DEF PreviewInv, Threads
  <1> QED
    BY <1>2, <1>3

(* A buffer freed unused is the oldest of the unused ones, but for previews*)
(* that the web thread released after the scan had passed them.            *)
THEOREM OldestUnusedFirstCorrect == Spec => OldestUnusedFirst
  <1> DEFINE Oldest == \A b \in live \ live', c \in live :
                         /\ ~mem[b].in_use
                         /\ c < b
                         => mem[c].in_use \/ mem[c].path \in GifPaths
  <1>1. TypeOK /\ ScanInv /\ [Next]_vars => Oldest
    <2> SUFFICES ASSUME TypeOK, ScanInv, [Next]_vars, NEW b \in live \ live',
                        NEW c \in live, c < b
                 PROVE  mem[c].in_use \/ mem[c].path \in GifPaths
      OBVIOUS
    <2>1. PICK t \in Threads : ScanFree(t) \/ Trim(t)
      BY OnlyCleanupFrees
    <2>2. CASE Trim(t)
      <3>1. PICK d \in live : IsNext(d, 0) /\ FreeBuffer(d)
        BY <2>2 DEF Trim
      <3>2. d = b
        BY <3>1 DEF FreeBuffer, live
      <3> QED
        BY <3>1, <3>2 DEF IsNext, TypeOK
    <2>3. CASE ScanFree(t)
      <3>1. PICK d \in live : Examines(t, d) /\ FreeBuffer(d)
        BY <2>3 DEF ScanFree
      <3>2. d = b
        BY <3>1 DEF FreeBuffer, live
      <3>3. c <= ptr[t] /\ pc[t] = "scan"
        BY <3>1, <3>2 DEF Examines, IsNext, At, TypeOK
      <3> QED
        BY <3>3 DEF ScanInv
    <2> QED
      BY <2>1, <2>2, <2>3
  <1>2. TypeOK /\ ScanInv /\ [Next]_vars => [Oldest]_vars
    BY <1>1
  <1> QED
    BY <1>2, InitTypeOK, NextTypeOK, InitListInd, NextListInd, InitPointers, NextPointerInv,
       NextPreviewInv, NextScanInv, PTL DEF Spec, OldestUnusedFirst

-----------------------------------------------------------------------------
(* Frames are whole when they are answered, if none fails to be read.      *)

(* A frame is filled in by a thread that holds the mutex of its buffer,    *)
(* and the pointers that are used without it lead to whole frames.         *)
FrameInv ==
  /\ \A t \in Threads : ptr[t] \in live =>
       /\ pc[t] = "callback" => mem[ptr[t]].data = "null"
       /\ pc[t] = "fill" => mem[ptr[t]].data = "filling"
       /\ pc[t] = "use" => mem[ptr[t]].data = "ready"
  /\ \A b \in live : mem[b].data = "filling" => mem[b].mutex # None
  /\ \A h \in Handles : handle[h].fh \in live => mem[handle[h].fh].data = "ready"

(* A whole frame is never filled in again, and a thread that is sent away  *)
(* without one is sent away by a callback that failed.                     *)
LEMMA NextFrameInv ==
  ASSUME ~CallbackMayFail
  PROVE  TypeOK /\ ProducerInv /\ FrameInv /\ [Next]_vars => FrameInv'
  <1> SUFFICES ASSUME TypeOK, ProducerInv, FrameInv, [Next]_vars PROVE FrameInv'
    OBVIOUS
  <1> USE ConstantsAssumption
  <1>1. ASSUME NEW h \in Handles, NEW p \in Paths, Open(h, p) PROVE FrameInv'
    BY <1>1 DEF Open, At, Goto, TypeOK, FrameInv, live
  <1>2. ASSUME NEW t \in FuseThreads, NEW h \in Handles, BeginRead(t, h) PROVE FrameInv'
    BY <1>2 DEF BeginRead, Threads, At, Goto, TypeOK, FrameInv, live
  <1>3. ASSUME NEW t \in FuseThreads, NEW h \in Handles, BeginRelease(t, h) PROVE FrameInv'
    BY <1>3 DEF BeginRelease, Threads, At, Goto, TypeOK, FrameInv, live
  <1>4. ASSUME NEW t \in WebThreads, NEW p \in GifPaths, BeginPreview(t, p) PROVE FrameInv'
    BY <1>4 DEF BeginPreview, Threads, At, Goto, TypeOK, FrameInv, live
  <1>5. ASSUME NEW t \in Threads, LookupHit(t) PROVE FrameInv'
    BY <1>5 DEF LookupHit, EntriesOf, At, Goto, TypeOK, FrameInv, live
  <1>6. ASSUME NEW t \in Threads, LookupMiss(t) PROVE FrameInv'
    BY <1>6 DEF LookupMiss, At, Goto, TypeOK, FrameInv, live
  <1>7. ASSUME NEW t \in Threads, ScanSkip(t) PROVE FrameInv'
    BY <1>7 DEF ScanSkip, Examines, IsNext, At, Goto, TypeOK, FrameInv, live
  <1>8. ASSUME NEW t \in Threads, ScanFree(t) PROVE FrameInv'
    BY <1>8 DEF ScanFree, Examines, FreeBuffer, At, Goto, TypeOK, FrameInv, live
  <1>9. ASSUME NEW t \in Threads, ScanEnd(t) PROVE FrameInv'
    BY <1>9 DEF ScanEnd, At, Goto, TypeOK, FrameInv, live
  <1>10. ASSUME NEW t \in Threads, Trim(t) PROVE FrameInv'
    BY <1>10 DEF Trim, FreeBuffer, At, Goto, TypeOK, FrameInv, live
  <1>11. ASSUME NEW t \in Threads, Create(t) PROVE FrameInv'
    BY <1>11 DEF Create, TrimDone, At, Goto, TypeOK, FrameInv, live
  <1>12. ASSUME NEW t \in Threads, CreateFails(t) PROVE FrameInv'
    BY <1>12 DEF CreateFails, At, Goto, TypeOK, FrameInv, live
  <1>13. ASSUME NEW t \in Threads, AcquireFound(t) PROVE FrameInv'
    BY <1>13 DEF AcquireFound, Buffer, At, Goto, TypeOK, FrameInv, live
  <1>14. ASSUME NEW t \in Threads, AcquireEmpty(t) PROVE FrameInv'
    BY <1>14 DEF AcquireEmpty, SetBuffer, ProducerInv, Buffer, At, Goto, TypeOK, FrameInv, live
  <1>15. ASSUME NEW t \in Threads, BeginFill(t) PROVE FrameInv'
    BY <1>15 DEF BeginFill, SetBuffer, ProducerInv, Buffer, At, Goto, TypeOK, FrameInv, live
  <1>16. ASSUME NEW t \in Threads, CallbackFails(t) PROVE FrameInv'
    BY <1>16 DEF CallbackFails, SetBuffer, At, Goto, TypeOK, FrameInv, live
  <1>17. ASSUME NEW t \in Threads, EndFill(t) PROVE FrameInv'
    BY <1>17 DEF EndFill, SetBuffer, ProducerInv, Buffer, At, Goto, TypeOK, FrameInv, live
  <1>18. ASSUME NEW t \in Threads, UseRead(t) PROVE FrameInv'
    BY <1>18 DEF UseRead, At, Goto, TypeOK, FrameInv, live
  <1>19. ASSUME NEW t \in Threads, UsePreview(t) PROVE FrameInv'
    BY <1>19 DEF UsePreview, At, Goto, TypeOK, FrameInv, live
  <1>20. ASSUME NEW t \in Threads, ReleasePtr(t) PROVE FrameInv'
    BY <1>20 DEF ReleasePtr, SetBuffer, ProducerInv, Buffer, At, Goto, TypeOK, FrameInv, live
  <1>21. ASSUME NEW t \in Threads, ReleaseByPath(t) PROVE FrameInv'
    BY <1>21 DEF ReleaseByPath, At, Goto, TypeOK, FrameInv, live
  <1>22. ASSUME NEW t \in Threads, UseDangling(t) PROVE FrameInv'
    BY <1>22 DEF UseDangling, FollowsDangling, At, Goto, TypeOK, FrameInv, live
  <1>23. CASE UNCHANGED vars
    BY <1>23 DEF vars, At, Goto, TypeOK, FrameInv, live
  <1> QED
    BY <1>1, <1>2, <1>3, <1>4, <1>5, <1>6, <1>7, <1>8, <1>9, <1>10, <1>11, <1>12, <1>13, <1>14,
       <1>15, <1>16, <1>17, <1>18, <1>19, <1>20, <1>21, <1>22, <1>23
    DEF Next, ThreadStep, Finished

-----------------------------------------------------------------------------
(* The refinement mapping.                                                 *)

Cached == {mem[b].path : b \in live}
Ready == {mem[b].path : b \in {c \in live : mem[c].data = "ready"}}

(* FrameCache counts as this module does.                                  *)
LEMMA CacheCardinality == \A S : Cache!Cardinality(S) = Cardinality(S)
  BY DEF Cache!Cardinality, Cardinality

(* No path is twice in the list, so it has as many paths as buffers.       *)
LEMMA CachedCount ==
  ASSUME ListInd
  PROVE  Cardinality(Cached) = count
  <1> DEFINE f == [b \in live |-> mem[b].path]
  <1>1. f \in Bijection(live, Cached)
    <2>1. f \in [live -> Cached]
      BY DEF Cached
    <2>2. \A b, c \in live : f[b] = f[c] => b = c
      BY DEF ListInd, ListInv
    <2>3. \A p \in Cached : \E b \in live : f[b] = p
      BY DEF Cached
    <2> QED
      BY <2>1, <2>2, <2>3, Fun_IsBij
  <1>2. ExistsBijection(live, Cached)
    BY <1>1 DEF ExistsBijection
  <1> QED
    BY <1>2, FS_Bijection DEF ListInd, ListInv

(* A step inside a request that answers nothing and completes nothing.     *)
LEMMA HiddenStep ==
  ASSUME live' = live,
         \A b \in live : /\ mem'[b].path = mem[b].path
                         /\ mem'[b].data = "ready" <=> mem[b].data = "ready",
         \A t \in Threads : serving'[t] = serving[t],
         answer' = answer
  PROVE  UNCHANGED Cache!cacheVars
  <1>1. Cached' = Cached /\ Ready' = Ready
    BY DEF Cached, Ready
  <1>2. serving' = serving
    BY DEF serving
  <1> QED
    BY <1>1, <1>2 DEF Cache!cacheVars, Cached, Ready

(* A buffer taken off the list is an entry dropped to make room for the    *)
(* path that the thread in the cleanup is going to insert.                 *)
LEMMA FreeEvicts ==
  ASSUME TypeOK, ListInd, NEW t \in Threads, pc[t] \in {"scan", "trim"},
         NEW b \in live, FreeBuffer(b), count > MaxUnused,
         pc' = pc, req' = req, answer' = answer
  PROVE  \E p \in Paths : Cache!Evict(p)
  <1> DEFINE p == mem[b].path
  <1>1. p \in Paths /\ p \in Cached
    BY DEF TypeOK, Buffer, Cached
  <1>2. serving[t] \in Paths \ Cached
    BY DEF serving, TypeOK, Cached, ListInd, CleanupInv, EntriesOf
  <1>3. /\ live' = live \ {b}
        /\ \A c \in live' : mem'[c] = mem[c]
    BY DEF FreeBuffer, live
  <1>4. \A c \in live : c # b => mem[c].path # p
    BY DEF ListInd, ListInv
  <1>5. Cached' = Cached \ {p} /\ Ready' = Ready \ {p}
    BY <1>3, <1>4 DEF Cached, Ready
  <1>6. serving' = serving
    BY DEF serving
  <1>7. Cardinality(Cached) > MaxUnused
    BY CachedCount
  <1> QED
    BY <1>1, <1>2, <1>5, <1>6, <1>7, CacheCardinality DEF Cache!Evict, Cache!Missing, Cached,
       Ready

(* new_image_buffer puts an entry into the abstract cache for a path that  *)
(* has none.                                                               *)
LEMMA CreateInserts ==
  ASSUME TypeOK, ListInd, NEW t \in Threads, Create(t)
  PROVE  \E p \in Paths : Cache!Insert(p)
  <1> DEFINE p == req[t].path
             b == allocated + 1
  <1>1. p \in Paths /\ serving[t] = p
    BY DEF Create, TrimDone, At, TypeOK, serving
  <1>2. p \notin Cached
    BY DEF Create, TrimDone, At, Cached, ListInd, CleanupInv, EntriesOf
  <1>3. b \notin live
    BY DEF TypeOK
  <1>4. /\ live' = live \cup {b}
        /\ \A c \in live : mem'[c] = mem[c]
        /\ mem'[b].path = p /\ mem'[b].data = "null"
    BY <1>3 DEF Create, live
  <1>5. Cached' = Cached \cup {p} /\ Ready' = Ready
    BY <1>3, <1>4 DEF Cached, Ready
  <1>6. count <= MaxTotal
    BY FS_EmptySet, ConstantsAssumption DEF Create, TrimDone, ListInd, ListInv
  <1>7. Cardinality(Cached) <= MaxTotal
    BY <1>6, CachedCount
  <1>8. serving' = serving /\ answer' = answer
    BY DEF Create, TrimDone, At, Goto, TypeOK, serving
  <1> QED
    BY <1>1, <1>2, <1>5, <1>7, <1>8, CacheCardinality DEF Cache!Insert, Cached, Ready

(* The end of a callback that succeeds makes the frame of the path whole,  *)
(* which nobody had made whole before.                                     *)
LEMMA EndFillCompletes ==
  ASSUME TypeOK, ListInd, FrameInv, NEW t \in Threads, EndFill(t)
  PROVE  \E p \in Paths : Cache!Complete(p)
  <1> DEFINE b == ptr[t]
             p == mem[b].path
  <1>1. b \in live /\ mem[b].data = "filling"
    BY DEF EndFill, At, FrameInv
  <1>2. \A c \in live : c # b => mem[c].path # p
    BY <1>1 DEF ListInd, ListInv
  <1>3. p \in Paths /\ p \in Cached /\ p \notin Ready
    BY <1>1, <1>2 DEF TypeOK, Buffer, Cached, Ready
  <1>4. /\ live' = live
        /\ \A c \in live : mem'[c].path = mem[c].path
        /\ \A c \in live : c # b => mem'[c] = mem[c]
        /\ mem'[b].data = "ready"
    BY <1>1 DEF EndFill, SetBuffer, TypeOK, live
  <1>5. Cached' = Cached
    BY <1>4 DEF Cached
  <1>6. Ready' = Ready \cup {p}
    BY <1>1, <1>4 DEF Ready
  <1>7. serving' = serving /\ answer' = answer
    BY DEF EndFill, At, Goto, TypeOK, serving
  <1> QED
    BY <1>3, <1>5, <1>6, <1>7 DEF Cache!Complete, Cached, Ready

(* Whoever uses a pointer that still leads somewhere answers with a whole  *)
(* frame of the path it was asked for.                                     *)
LEMMA UseAnswers ==
  ASSUME TypeOK, PointerInv, FrameInv, NEW t \in Threads, At(t, "use"), ptr[t] \in live,
         answer' = [answer EXCEPT ![t] = AnswerFrom(ptr[t])],
         pc' = [pc EXCEPT ![t] = "idle"] \/ pc' = [pc EXCEPT ![t] = "release_ptr"],
         mem' = mem, req' = req
  PROVE  Cache!Answer(t)
  <1>1. serving[t] = req[t].path
    BY DEF At, serving
  <1>2. mem[ptr[t]].path = req[t].path
    BY DEF At, PointerInv, Dereferences
  <1>3. mem[ptr[t]].data = "ready"
    BY DEF At, FrameInv
  <1>4. serving[t] \in Cached /\ serving[t] \in Ready
    BY <1>1, <1>2, <1>3 DEF Cached, Ready
  <1>5. AnswerFrom(ptr[t]) = "frame"
    BY <1>3 DEF AnswerFrom
  <1>6. serving' = [serving EXCEPT ![t] = None]
    BY DEF serving, TypeOK
  <1>7. Cached' = Cached /\ Ready' = Ready
    BY DEF Cached, Ready, live
  <1> QED
    BY <1>4, <1>5, <1>6, <1>7 DEF Cache!Answer, Cached, Ready

(* Every step is a step of the abstract cache or leaves it alone.          *)
LEMMA StepRefines ==
  ASSUME ~CallbackMayFail
  PROVE  TypeOK /\ ListInd /\ PointerInv /\ FrameInv /\ [Next]_vars
           => [Cache!Next]_Cache!cacheVars
  <1> SUFFICES ASSUME TypeOK, ListInd, PointerInv, FrameInv, [Next]_vars
               PROVE  [Cache!Next]_Cache!cacheVars
    OBVIOUS
  <1> USE ConstantsAssumption
  <1>1. ASSUME NEW h \in Handles, NEW p \in Paths, Open(h, p) PROVE [Cache!Next]_Cache!cacheVars
    BY <1>1, HiddenStep DEF Open, Threads, At, Goto, TypeOK, serving, live
  <1>2. ASSUME NEW t \in FuseThreads, NEW h \in Handles, BeginRead(t, h) PROVE [Cache!Next]_Cache!cacheVars
    <2>1. handle[h].path \in Paths
      BY <1>2 DEF BeginRead, TypeOK, Paths
    <2>2. serving[t] = None /\ serving' = [serving EXCEPT ![t] = handle[h].path]
      BY <1>2 DEF BeginRead, At, Goto, Threads, TypeOK, serving
    <2>3. Cache!Request(t, handle[h].path)
      BY <1>2, <2>2 DEF BeginRead, Cache!Request, live
    <2> QED
      BY <1>2, <2>1, <2>3 DEF Cache!Next, Threads
  <1>3. ASSUME NEW t \in FuseThreads, NEW h \in Handles, BeginRelease(t, h) PROVE [Cache!Next]_Cache!cacheVars
    BY <1>3, HiddenStep DEF BeginRelease, Threads, At, Goto, TypeOK, serving, live
  <1>4. ASSUME NEW t \in WebThreads, NEW p \in GifPaths, BeginPreview(t, p) PROVE [Cache!Next]_Cache!cacheVars
    <2>1. p \in Paths
      BY <1>4 DEF BeginPreview, TypeOK, Paths
    <2>2. serving[t] = None /\ serving' = [serving EXCEPT ![t] = p]
      BY <1>4 DEF BeginPreview, At, Goto, Threads, TypeOK, serving
    <2>3. Cache!Request(t, p)
      BY <1>4, <2>2 DEF BeginPreview, Cache!Request, live
    <2> QED
      BY <1>4, <2>1, <2>3 DEF Cache!Next, Threads
  <1>5. ASSUME NEW t \in Threads, LookupHit(t) PROVE [Cache!Next]_Cache!cacheVars
    BY <1>5, HiddenStep DEF LookupHit, At, Goto, TypeOK, serving, live
  <1>6. ASSUME NEW t \in Threads, LookupMiss(t) PROVE [Cache!Next]_Cache!cacheVars
    BY <1>6, HiddenStep DEF LookupMiss, At, Goto, TypeOK, serving, live
  <1>7. ASSUME NEW t \in Threads, ScanSkip(t) PROVE [Cache!Next]_Cache!cacheVars
    BY <1>7, HiddenStep DEF ScanSkip, At, Goto, TypeOK, serving, live
  <1>8. ASSUME NEW t \in Threads, ScanFree(t) PROVE [Cache!Next]_Cache!cacheVars
    <2>1. PICK b \in live : Examines(t, b) /\ FreeBuffer(b)
      BY <1>8 DEF ScanFree
    <2>2. \E p \in Paths : Cache!Evict(p)
      BY <1>8, <2>1, FreeEvicts DEF ScanFree, Examines, At
    <2> QED
      BY <2>2 DEF Cache!Next
  <1>9. ASSUME NEW t \in Threads, ScanEnd(t) PROVE [Cache!Next]_Cache!cacheVars
    BY <1>9, HiddenStep DEF ScanEnd, At, Goto, TypeOK, serving, live
  <1>10. ASSUME NEW t \in Threads, Trim(t) PROVE [Cache!Next]_Cache!cacheVars
    <2>1. PICK b \in live : FreeBuffer(b)
      BY <1>10 DEF Trim
    <2>2. count > MaxUnused
      BY <1>10 DEF Trim, TypeOK
    <2>3. \E p \in Paths : Cache!Evict(p)
      BY <1>10, <2>1, <2>2, FreeEvicts DEF Trim, At
    <2> QED
      BY <2>3 DEF Cache!Next
  <1>11. ASSUME NEW t \in Threads, Create(t) PROVE [Cache!Next]_Cache!cacheVars
    BY <1>11, CreateInserts DEF Cache!Next
  <1>12. ASSUME NEW t \in Threads, CreateFails(t) PROVE [Cache!Next]_Cache!cacheVars
    BY <1>12, HiddenStep DEF CreateFails, TrimDone, At, Goto, TypeOK, serving, live
  <1>13. ASSUME NEW t \in Threads, AcquireFound(t) PROVE [Cache!Next]_Cache!cacheVars
    BY <1>13, HiddenStep DEF AcquireFound, At, Goto, TypeOK, serving, live
  <1>14. ASSUME NEW t \in Threads, AcquireEmpty(t) PROVE [Cache!Next]_Cache!cacheVars
    <2>1. live' = live /\ ptr[t] \in live
      BY <1>14 DEF AcquireEmpty, SetBuffer, live
    <2>2. /\ mem'[ptr[t]].path = mem[ptr[t]].path
          /\ \A b \in live : b # ptr[t] => mem'[b] = mem[b]
      BY <1>14, <2>1 DEF AcquireEmpty, SetBuffer, TypeOK
    <2>3. mem'[ptr[t]].data = "ready" <=> mem[ptr[t]].data = "ready"
      BY <1>14, <2>1 DEF AcquireEmpty, SetBuffer, TypeOK, At, FrameInv
    <2> QED
      BY <1>14, <2>1, <2>2, <2>3, HiddenStep DEF AcquireEmpty, At, Goto, TypeOK, serving
  <1>15. ASSUME NEW t \in Threads, BeginFill(t) PROVE [Cache!Next]_Cache!cacheVars
    <2>1. live' = live /\ ptr[t] \in live
      BY <1>15 DEF BeginFill, SetBuffer, live
    <2>2. /\ mem'[ptr[t]].path = mem[ptr[t]].path
          /\ \A b \in live : b # ptr[t] => mem'[b] = mem[b]
      BY <1>15, <2>1 DEF BeginFill, SetBuffer, TypeOK
    <2>3. mem'[ptr[t]].data = "ready" <=> mem[ptr[t]].data = "ready"
      BY <1>15, <2>1 DEF BeginFill, SetBuffer, TypeOK, At, FrameInv
    <2> QED
      BY <1>15, <2>1, <2>2, <2>3, HiddenStep DEF BeginFill, At, Goto, TypeOK, serving
  <1>16. ASSUME NEW t \in Threads, CallbackFails(t) PROVE [Cache!Next]_Cache!cacheVars
    BY <1>16 DEF CallbackFails
  <1>17. ASSUME NEW t \in Threads, EndFill(t) PROVE [Cache!Next]_Cache!cacheVars
    BY <1>17, EndFillCompletes DEF Cache!Next
  <1>18. ASSUME NEW t \in Threads, UseRead(t) PROVE [Cache!Next]_Cache!cacheVars
    <2>1. Cache!Answer(t)
      BY <1>18, UseAnswers DEF UseRead, At, Goto
    <2> QED
      BY <2>1 DEF Cache!Next
  <1>19. ASSUME NEW t \in Threads, UsePreview(t) PROVE [Cache!Next]_Cache!cacheVars
    <2>1. Cache!Answer(t)
      BY <1>19, UseAnswers DEF UsePreview, At, Goto
    <2> QED
      BY <2>1 DEF Cache!Next
  <1>20. ASSUME NEW t \in Threads, ReleasePtr(t) PROVE [Cache!Next]_Cache!cacheVars
    <2>1. live' = live /\ ptr[t] \in live
      BY <1>20 DEF ReleasePtr, SetBuffer, live
    <2>2. /\ mem'[ptr[t]].path = mem[ptr[t]].path
          /\ \A b \in live : b # ptr[t] => mem'[b] = mem[b]
      BY <1>20, <2>1 DEF ReleasePtr, SetBuffer, TypeOK
    <2>3. mem'[ptr[t]].data = "ready" <=> mem[ptr[t]].data = "ready"
      BY <1>20, <2>1 DEF ReleasePtr, SetBuffer, TypeOK, At, FrameInv
    <2> QED
      BY <1>20, <2>1, <2>2, <2>3, HiddenStep DEF ReleasePtr, At, Goto, TypeOK, serving
  <1>21. ASSUME NEW t \in Threads, ReleaseByPath(t) PROVE [Cache!Next]_Cache!cacheVars
    <2>1. /\ live' = live
          /\ \A b \in live : /\ mem'[b].path = mem[b].path
                          /\ mem'[b].data = mem[b].data
      BY <1>21 DEF ReleaseByPath, live
    <2> QED
      BY <1>21, <2>1, HiddenStep DEF ReleaseByPath, At, Goto, TypeOK, serving
  <1>22. ASSUME NEW t \in Threads, UseDangling(t) PROVE [Cache!Next]_Cache!cacheVars
    BY <1>22, HiddenStep DEF UseDangling, FollowsDangling, At, Goto, TypeOK, serving, live
  <1>23. CASE UNCHANGED vars
    BY <1>23, HiddenStep DEF vars, serving, live
  <1> QED
    BY <1>1, <1>2, <1>3, <1>4, <1>5, <1>6, <1>7, <1>8, <1>9, <1>10, <1>11, <1>12, <1>13, <1>14,
       <1>15, <1>16, <1>17, <1>18, <1>19, <1>20, <1>21, <1>22, <1>23
    DEF Next, ThreadStep, Finished

(* The empty list is the empty cache. *)
LEMMA InitRefines == Init => Cache!Init
  <1> SUFFICES ASSUME Init PROVE Cache!Init
    OBVIOUS
  <1>1. live = {}
    BY DEF Init, live
  <1>2. Cached = {} /\ Ready = {}
    BY <1>1 DEF Cached, Ready
  <1>3. serving = [t \in Threads |-> None]
    BY DEF Init, serving
  <1> QED
    BY <1>2, <1>3 DEF Init, Cache!Init, Cached, Ready

(* As long as the frames that are asked for can be read, the two cleanup   *)
(* loops, the two kinds of mutexes and the flags are a bounded cache of    *)
(* whole frames to whoever reads a .dng or a preview: no read is answered  *)
(* with a frame half developed, with none, or with one of another path.    *)
THEOREM ImplementsFrameCache ==
  ASSUME ~CallbackMayFail
  PROVE  Spec => FrameCacheSpec
  <1>1. Init => ProducerInv /\ FrameInv
    <2> SUFFICES ASSUME Init PROVE ProducerInv /\ FrameInv
      OBVIOUS
    <2>1. live = {}
      BY DEF Init, live
    <2> QED
      BY <2>1 DEF ProducerInv, FrameInv
  <1> QED
    BY <1>1, InitRefines, InitTypeOK, NextTypeOK, InitListInd, NextListInd, InitPointers,
       NextPointerInv, NextProducerInv, NextFrameInv, StepRefines, PTL
    DEF Spec, FrameCacheSpec, Cache!Spec
=============================================================================
