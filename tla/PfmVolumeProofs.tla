---------------------------- MODULE PfmVolumeProofs ----------------------------
(***************************************************************************)
(* Proofs about the volume of the Windows file system: as long as the      *)
(* driver does not ask to move a folder into itself, the pointers of the   *)
(* tree are consistent, enumerations are complete and files live as long   *)
(* as they are needed, whatever the numbers of files, enumerations and     *)
(* closes on their way.                                                    *)
(***************************************************************************)
EXTENDS PfmVolume, Recursion

-----------------------------------------------------------------------------
(* Heaps.                                                                  *)

First(d) == <<"first", d>>
After(f) == <<"next", f>>

Attached(F, f) == F[f].sibPrev # NoSlot

Kids(F, d) == {f \in DOMAIN F : Attached(F, f) /\ F[f].parent = d}

SlotOf(F, d, s) == s = First(d) \/ \E g \in Kids(F, d) : s = After(g)

HeapType(F) ==
  /\ root \in DOMAIN F
  /\ DOMAIN F \subseteq 1..MaxFiles
  /\ F \in [DOMAIN F -> File]

(* A file that is in no folder; only those of R have children. *)
Top(F, R, f) ==
  /\ F[f].parent = NULL
  /\ F[f].sibNext = NULL
  /\ F[f].name = None
  /\ f \in R \/ F[f].firstChild = NULL

(* A child of a folder. *)
Kid(F, R, f) ==
  /\ F[f].parent \in DOMAIN F
  /\ F[F[f].parent].folder
  /\ F[f].parent \in R \/ Attached(F, F[f].parent)
  /\ F[f].name # None
  /\ SlotOf(F, F[f].parent, F[f].sibPrev)
  /\ Deref(F, F[f].sibPrev) = f

(* The pointers of f point at files that point back. *)
PointsBack(F, f) ==
  /\ F[f].firstChild # NULL =>
       /\ F[f].folder
       /\ F[f].firstChild \in DOMAIN F
       /\ F[F[f].firstChild].sibPrev = First(f)
  /\ F[f].sibNext # NULL =>
       /\ F[f].sibNext \in DOMAIN F
       /\ F[F[f].sibNext].sibPrev = After(f)

Heap(F, R) ==
  /\ HeapType(F)
  /\ ~Attached(F, root) /\ F[root].folder
  /\ \A f \in DOMAIN F : ~Attached(F, f) => Top(F, R, f)
  /\ \A f \in DOMAIN F : Attached(F, f) => Kid(F, R, f)
  /\ \A f \in DOMAIN F : PointsBack(F, f)

(* A set of files that holds those without a folder and what the pointers  *)
(* of its members point at holds all files: there is no ring of files that *)
(* only point at each other.                                               *)
Holds(F, X) ==
  /\ \A f \in DOMAIN F : ~Attached(F, f) => f \in X
  /\ \A f \in X : F[f].firstChild # NULL => F[f].firstChild \in X
  /\ \A f \in X : F[f].sibNext # NULL => F[f].sibNext \in X

Grounded(F) == \A X \in SUBSET DOMAIN F : Holds(F, X) => X = DOMAIN F

Good(F, R) == Heap(F, R) /\ Grounded(F)

(* Slots are as different as what they are in, and lead where their        *)
(* pointers point.                                                         *)
LEMMA SlotFacts ==
  /\ \A d, e : First(d) = First(e) => d = e
  /\ \A d, e : After(d) = After(e) => d = e
  /\ \A d, e : First(d) # After(e)
  /\ \A d : First(d) # NoSlot /\ After(d) # NoSlot
  /\ \A F, d : Deref(F, First(d)) = F[d].firstChild
  /\ \A F, d : Deref(F, After(d)) = F[d].sibNext
BY DEF First, After, NoSlot, Deref

(* There are finitely many files, and none of them is NULL. *)
LEMMA HeapFinite ==
  ASSUME NEW F, HeapType(F)
  PROVE  /\ IsFiniteSet(DOMAIN F) /\ Cardinality(DOMAIN F) \in Nat \ {0}
         /\ NULL \notin DOMAIN F
<1>1. MaxFiles \in Nat
  BY ConstantsAssumption
<1>2. IsFiniteSet(1..MaxFiles) /\ DOMAIN F \in SUBSET (1..MaxFiles)
  BY <1>1, FS_Interval DEF HeapType
<1>3. IsFiniteSet(DOMAIN F)
  BY <1>2, FS_Subset
<1>4. Cardinality(DOMAIN F) \in Nat /\ Cardinality(DOMAIN F) # 0
  BY <1>3, FS_CardinalityType, FS_EmptySet DEF HeapType
<1> QED BY <1>1, <1>2, <1>3, <1>4 DEF NULL

(* The fields of a file have their types. *)
LEMMA FieldTypes ==
  ASSUME NEW F, HeapType(F)
  PROVE  \A f \in DOMAIN F : /\ F[f].parent \in 0..MaxFiles
                             /\ F[f].sibNext \in 0..MaxFiles
                             /\ F[f].firstChild \in 0..MaxFiles
                             /\ F[f].sibPrev \in Slots \cup {NoSlot}
                             /\ F[f].folder \in BOOLEAN
                             /\ F[f].open \in BOOLEAN
                             /\ F[f].ahead \in 0..1
                             /\ F[f].name \in Names \cup {None}
                             /\ F[f].type \in {"TEMPORARY", "VIRTUAL", "MAPPED"}
<1> SUFFICES ASSUME NEW f \in DOMAIN F
             PROVE  /\ F[f].parent \in 0..MaxFiles
                    /\ F[f].sibNext \in 0..MaxFiles
                    /\ F[f].firstChild \in 0..MaxFiles
                    /\ F[f].sibPrev \in Slots \cup {NoSlot}
                    /\ F[f].folder \in BOOLEAN
                    /\ F[f].open \in BOOLEAN
                    /\ F[f].ahead \in 0..1
                    /\ F[f].name \in Names \cup {None}
                    /\ F[f].type \in {"TEMPORARY", "VIRTUAL", "MAPPED"}
  OBVIOUS
<1>1. F[f] \in File
  BY DEF HeapType
<1> QED BY <1>1 DEF File

(* The slots of a folder are the least set with its firstChild and with    *)
(* the sibNext of every file that one of them points at.                   *)
LEMMA SlotsWalk ==
  ASSUME NEW F, HeapType(F), NEW d \in DOMAIN F,
         \A f \in DOMAIN F : F[f].firstChild # root /\ F[f].sibNext # root
  PROVE  /\ First(d) \in SlotsOf(F, d)
         /\ \A s \in SlotsOf(F, d) :
              Deref(F, s) \in DOMAIN F => After(Deref(F, s)) \in SlotsOf(F, d)
         /\ \A X : /\ First(d) \in X
                   /\ \A s \in X : Deref(F, s) \in DOMAIN F => After(Deref(F, s)) \in X
                   => SlotsOf(F, d) \subseteq X
<1> DEFINE On(slots) == slots \cup {<<"next", f>> : f \in {Deref(F, s) : s \in slots} \cap DOMAIN F}
           U == {First(d)} \cup {After(f) : f \in DOMAIN F \ {root}}
           g == [slots \in SUBSET U |-> On(slots)]
           N == Cardinality(DOMAIN F)
<1>1. IsFiniteSet(DOMAIN F) /\ N \in Nat /\ N # 0
  BY HeapFinite
<1>2. ASSUME NEW s \in U PROVE Deref(F, s) # root
  <2>1. CASE s = First(d)
    BY <2>1, SlotFacts
  <2>2. ASSUME NEW f \in DOMAIN F \ {root}, s = After(f) PROVE Deref(F, s) # root
    BY <2>2, SlotFacts
  <2>3. s = First(d) \/ \E f \in DOMAIN F \ {root} : s = After(f)
    OBVIOUS
  <2> QED BY <2>1, <2>2, <2>3
<1>3. g \in [SUBSET U -> SUBSET U]
  <2>1. ASSUME NEW slots \in SUBSET U PROVE On(slots) \in SUBSET U
    BY <1>2 DEF After
  <2> HIDE DEF On, U
  <2> QED BY <2>1
<1>4. {First(d)} \in SUBSET U
  OBVIOUS
<1>5. PICK S \in [Nat -> SUBSET U] : S[0] = {First(d)} /\ \A k \in Nat : S[k + 1] = g[S[k]]
  <2> DEFINE V == SUBSET U
             x == {First(d)}
  <2>1. x \in V /\ g \in [V -> V]
    BY <1>3, <1>4
  <2> HIDE DEF g, V, x
  <2>2. \E S \in [Nat -> V] : Iterates(S, x, g)
    BY <2>1, Iteration, Zenon
  <2> QED BY <2>2 DEF Iterates, V, x
<1> DEFINE Steps(A) == [k \in Nat |-> IF k = 0 THEN {<<"first", d>>}
                                      ELSE A[k - 1] \cup {<<"next", f>> :
                                             f \in {Deref(F, s) : s \in A[k - 1]} \cap DOMAIN F}]
<1>6. ASSUME NEW k \in Nat PROVE S[k] \in SUBSET U /\ S[k + 1] = On(S[k])
  <2> HIDE DEF On, U
  <2> QED BY <1>5
<1>7. S = Steps(S)
  <2>1. ASSUME NEW k \in Nat PROVE S[k] = Steps(S)[k]
    <3>1. CASE k = 0
      BY <1>5, <3>1 DEF First
    <3>2. CASE k # 0
      <4>1. k - 1 \in Nat /\ (k - 1) + 1 = k
        BY <3>2
      <4>2. S[k] = On(S[k - 1])
        BY <1>6, <4>1
      <4> QED BY <3>2, <4>2
    <3> QED BY <3>1, <3>2
  <2>2. S = [k \in Nat |-> S[k]]
    BY <1>5
  <2>3. Steps(S) = [k \in Nat |-> Steps(S)[k]]
    OBVIOUS
  <2> HIDE DEF Steps, U, g
  <2> QED BY <2>1, <2>2, <2>3
<1> DEFINE C == CHOOSE A : A = Steps(A)
<1>8. C = Steps(C)
  <2> HIDE DEF On, U, g, N
  <2> QED BY <1>7
<1>9. SlotsOf(F, d) = C[N - 1]
  BY DEF SlotsOf
<1>10. ASSUME NEW k \in Nat PROVE C[k] = S[k]
  <2> DEFINE P == {i \in Nat : C[i] = S[i]}
  <2> HIDE DEF C, U, g, N
  <2>1. 0 \in P
    BY <1>5, <1>8 DEF First
  <2>2. ASSUME NEW i \in Nat, i \in P PROVE i + 1 \in P
    <3>1. i + 1 \in Nat /\ i + 1 # 0 /\ (i + 1) - 1 = i
      OBVIOUS
    <3>2. C[i + 1] = On(C[i])
      BY <1>8, <3>1
    <3>3. C[i] = S[i] /\ S[i + 1] = On(S[i])
      BY <1>6, <2>2
    <3> QED BY <3>1, <3>2, <3>3
  <2>3. Nat \subseteq P
    <3> HIDE DEF P
    <3> QED BY <2>1, <2>2, SetInduction
  <2> QED BY <2>3
<1>11. N - 1 \in Nat /\ SlotsOf(F, d) = S[N - 1]
  <2> HIDE DEF C
  <2> QED BY <1>1, <1>9, <1>10
<1>12. IsFiniteSet(U) /\ Cardinality(U) <= N
  <2> DEFINE h == [f \in DOMAIN F |-> IF f = root THEN First(d) ELSE After(f)]
  <2>1. h \in Surjection(DOMAIN F, U)
    <3>1. h \in [DOMAIN F -> U]
      OBVIOUS
    <3>2. ASSUME NEW s \in U PROVE \E f \in DOMAIN F : h[f] = s
      <4>1. CASE s = First(d)
        <5>1. root \in DOMAIN F /\ h[root] = s
          BY <4>1 DEF HeapType
        <5> QED BY <5>1
      <4>2. CASE s # First(d)
        BY <4>2
      <4> QED BY <4>1, <4>2
    <3> HIDE DEF h, U
    <3> QED BY <3>1, <3>2 DEF Surjection
  <2> HIDE DEF h, U
  <2> QED BY <1>1, <2>1, FS_Surjection
<1>13. S[(N - 1) + 1] = S[N - 1]
  <2>1. S[0] # {}
    BY <1>5
  <2>2. ASSUME NEW k \in Nat PROVE S[k] \subseteq S[k + 1]
    BY <1>6
  <2>3. ASSUME NEW k \in Nat, S[k + 1] = S[k] PROVE S[(k + 1) + 1] = S[k + 1]
    <3>1. S[(k + 1) + 1] = On(S[k + 1]) /\ S[k + 1] = On(S[k])
      BY <1>6
    <3> HIDE DEF On
    <3> QED BY <2>3, <3>1
  <2>4. N - 1 \in Nat /\ Cardinality(U) <= (N - 1) + 1
    BY <1>1, <1>12
  <2> HIDE DEF U, N, On, g
  <2>5. PICK n, m : n = N - 1 /\ m = U
    OBVIOUS
  <2>6. n \in Nat /\ IsFiniteSet(m) /\ Cardinality(m) <= n + 1 /\ S \in [Nat -> SUBSET m]
    BY <1>12, <2>4, <2>5
  <2>7. S[n + 1] = S[n]
    BY <2>1, <2>2, <2>3, <2>6, Growth
  <2> QED BY <2>5, <2>7
<1>14. On(SlotsOf(F, d)) = SlotsOf(F, d)
  <2> HIDE DEF On, N, C
  <2> QED BY <1>6, <1>11, <1>13
<1>15. ASSUME NEW s \in SlotsOf(F, d), Deref(F, s) \in DOMAIN F
       PROVE  After(Deref(F, s)) \in SlotsOf(F, d)
  <2>1. After(Deref(F, s)) \in On(SlotsOf(F, d))
    BY <1>15 DEF After
  <2> QED BY <1>14, <2>1
<1>16. \A k \in Nat : First(d) \in S[k]
  <2> DEFINE P == {i \in Nat : First(d) \in S[i]}
  <2>1. 0 \in P
    BY <1>5
  <2>2. ASSUME NEW i \in Nat, i \in P PROVE i + 1 \in P
    BY <1>6, <2>2
  <2>3. Nat \subseteq P
    <3> HIDE DEF P
    <3> QED BY <2>1, <2>2, SetInduction
  <2> QED BY <2>3
<1>17. ASSUME NEW X, First(d) \in X,
              \A s \in X : Deref(F, s) \in DOMAIN F => After(Deref(F, s)) \in X
       PROVE  SlotsOf(F, d) \subseteq X
  <2> DEFINE P == {i \in Nat : S[i] \subseteq X}
  <2>1. 0 \in P
    BY <1>5, <1>17
  <2>2. ASSUME NEW i \in Nat, i \in P PROVE i + 1 \in P
    <3>1. S[i] \subseteq X /\ S[i + 1] = On(S[i])
      BY <1>6, <2>2
    <3> QED BY <1>17, <3>1 DEF After
  <2>3. Nat \subseteq P
    <3> HIDE DEF P
    <3> QED BY <2>1, <2>2, SetInduction
  <2> QED BY <1>11, <2>3
<1> HIDE DEF On, U, g, N, C
<1> QED BY <1>11, <1>15, <1>16, <1>17

(* The files below those of S are the least set with S and the children of *)
(* its folders.                                                            *)
LEMMA BelowWalk ==
  ASSUME NEW F, HeapType(F), NEW S \in SUBSET DOMAIN F, S # {}
  PROVE  /\ S \subseteq Below(F, S)
         /\ Below(F, S) \subseteq DOMAIN F
         /\ \A d \in Below(F, S) : F[d].folder => ChildrenOf(F, d) \subseteq Below(F, S)
         /\ \A X : /\ S \subseteq X
                   /\ \A d \in X \cap DOMAIN F : F[d].folder => ChildrenOf(F, d) \subseteq X
                   => Below(F, S) \subseteq X
<1> DEFINE On(above) == above \cup UNION {ChildrenOf(F, d) : d \in above \cap FoldersOf(F)}
           U == DOMAIN F
           g == [above \in SUBSET U |-> On(above)]
           N == Cardinality(DOMAIN F)
<1>1. IsFiniteSet(U) /\ N \in Nat
  BY HeapFinite
<1>2. \A d : ChildrenOf(F, d) \subseteq U
  BY DEF ChildrenOf
<1>3. g \in [SUBSET U -> SUBSET U]
  <2>1. ASSUME NEW above \in SUBSET U PROVE On(above) \in SUBSET U
    BY <1>2
  <2> HIDE DEF On, U
  <2> QED BY <2>1
<1>4. PICK B \in [Nat -> SUBSET U] : B[0] = S /\ \A k \in Nat : B[k + 1] = g[B[k]]
  <2> HIDE DEF g, U
  <2> DEFINE V == SUBSET U
  <2>1. S \in V /\ g \in [V -> V]
    BY <1>3 DEF U
  <2> HIDE DEF V
  <2>2. \E A \in [Nat -> V] : Iterates(A, S, g)
    BY <2>1, Iteration, Zenon
  <2> QED BY <2>2 DEF Iterates, V
<1>5. ASSUME NEW k \in Nat PROVE B[k] \in SUBSET U /\ B[k + 1] = On(B[k])
  <2> HIDE DEF On, U
  <2> QED BY <1>4
<1> DEFINE Steps(A) == [k \in Nat |-> IF k = 0 THEN S
                                      ELSE A[k - 1] \cup UNION {ChildrenOf(F, d) :
                                             d \in A[k - 1] \cap FoldersOf(F)}]
<1>6. B = Steps(B)
  <2>1. ASSUME NEW k \in Nat PROVE B[k] = Steps(B)[k]
    <3>1. CASE k = 0
      BY <1>4, <3>1
    <3>2. CASE k # 0
      <4>1. k - 1 \in Nat /\ (k - 1) + 1 = k
        BY <3>2
      <4>2. B[k] = On(B[k - 1])
        BY <1>5, <4>1
      <4> QED BY <3>2, <4>2
    <3> QED BY <3>1, <3>2
  <2>2. B = [k \in Nat |-> B[k]]
    BY <1>4
  <2>3. Steps(B) = [k \in Nat |-> Steps(B)[k]]
    OBVIOUS
  <2> HIDE DEF Steps, U, g
  <2> QED BY <2>1, <2>2, <2>3
<1> DEFINE C == CHOOSE A : A = Steps(A)
<1>7. C = Steps(C)
  <2> HIDE DEF On, U, g, N
  <2> QED BY <1>6
<1>8. Below(F, S) = C[N]
  BY DEF Below
<1>9. ASSUME NEW k \in Nat PROVE C[k] = B[k]
  <2> DEFINE P == {i \in Nat : C[i] = B[i]}
  <2> HIDE DEF C, U, g, N
  <2>1. 0 \in P
    BY <1>4, <1>7
  <2>2. ASSUME NEW i \in Nat, i \in P PROVE i + 1 \in P
    <3>1. i + 1 \in Nat /\ i + 1 # 0 /\ (i + 1) - 1 = i
      OBVIOUS
    <3>2. C[i + 1] = On(C[i])
      BY <1>7, <3>1
    <3>3. C[i] = B[i] /\ B[i + 1] = On(B[i])
      BY <1>5, <2>2
    <3> QED BY <3>1, <3>2, <3>3
  <2>3. Nat \subseteq P
    <3> HIDE DEF P
    <3> QED BY <2>1, <2>2, SetInduction
  <2> QED BY <2>3
<1>10. Below(F, S) = B[N]
  <2> HIDE DEF C
  <2> QED BY <1>1, <1>8, <1>9
<1>11. B[N + 1] = B[N]
  <2>1. B[0] # {}
    BY <1>4
  <2>2. ASSUME NEW k \in Nat PROVE B[k] \subseteq B[k + 1]
    BY <1>5
  <2>3. ASSUME NEW k \in Nat, B[k + 1] = B[k] PROVE B[(k + 1) + 1] = B[k + 1]
    <3>1. B[(k + 1) + 1] = On(B[k + 1]) /\ B[k + 1] = On(B[k])
      BY <1>5
    <3> HIDE DEF On
    <3> QED BY <2>3, <3>1
  <2>4. Cardinality(U) <= N + 1
    BY <1>1
  <2> HIDE DEF U, N, On, g
  <2> QED BY <1>1, <2>1, <2>2, <2>3, <2>4, Growth
<1>12. On(Below(F, S)) = Below(F, S)
  <2> HIDE DEF On, N, C
  <2> QED BY <1>1, <1>5, <1>10, <1>11
<1>13. ASSUME NEW d \in Below(F, S), F[d].folder PROVE ChildrenOf(F, d) \subseteq Below(F, S)
  <2>1. d \in FoldersOf(F)
    BY <1>1, <1>5, <1>10, <1>13 DEF FoldersOf
  <2> QED BY <1>12, <2>1
<1>14. \A k \in Nat : S \subseteq B[k]
  <2> DEFINE P == {i \in Nat : S \subseteq B[i]}
  <2>1. 0 \in P
    BY <1>4
  <2>2. ASSUME NEW i \in Nat, i \in P PROVE i + 1 \in P
    BY <1>5, <2>2
  <2>3. Nat \subseteq P
    <3> HIDE DEF P
    <3> QED BY <2>1, <2>2, SetInduction
  <2> QED BY <2>3
<1>15. ASSUME NEW X, S \subseteq X,
              \A d \in X \cap DOMAIN F : F[d].folder => ChildrenOf(F, d) \subseteq X
       PROVE  Below(F, S) \subseteq X
  <2> DEFINE P == {i \in Nat : B[i] \subseteq X}
  <2>1. 0 \in P
    BY <1>4, <1>15
  <2>2. ASSUME NEW i \in Nat, i \in P PROVE i + 1 \in P
    <3>1. B[i] \subseteq X /\ B[i + 1] = On(B[i])
      BY <1>5, <2>2
    <3> QED BY <1>15, <3>1 DEF FoldersOf
  <2>3. Nat \subseteq P
    <3> HIDE DEF P
    <3> QED BY <2>1, <2>2, SetInduction
  <2> QED BY <1>1, <1>10, <2>3
<1> HIDE DEF On, U, g, N, C
<1>16. Below(F, S) \subseteq DOMAIN F
  BY <1>1, <1>5, <1>10 DEF U
<1> QED BY <1>1, <1>10, <1>13, <1>14, <1>15, <1>16

(* In a good heap the children of a folder are the files with that parent, *)
(* and its slots are its firstChild and their sibNexts.                    *)
LEMMA KidsAreChildren ==
  ASSUME NEW F, NEW R, Good(F, R), NEW d \in DOMAIN F
  PROVE  /\ ChildrenOf(F, d) = Kids(F, d)
         /\ \A s : s \in SlotsOf(F, d) <=> SlotOf(F, d, s)
<1> USE DEF Good, Heap
<1>1. NULL \notin DOMAIN F
  BY HeapFinite
<1>2. ASSUME NEW f \in DOMAIN F PROVE F[f].firstChild # root /\ F[f].sibNext # root
  <2>1. PointsBack(F, f)
    OBVIOUS
  <2> QED BY <2>1, SlotFacts DEF PointsBack, Attached, root, NULL
<1>3. ASSUME NEW e \in DOMAIN F
      PROVE  /\ First(e) \in SlotsOf(F, e)
             /\ \A s \in SlotsOf(F, e) :
                  Deref(F, s) \in DOMAIN F => After(Deref(F, s)) \in SlotsOf(F, e)
             /\ \A X : /\ First(e) \in X
                       /\ \A s \in X : Deref(F, s) \in DOMAIN F => After(Deref(F, s)) \in X
                       => SlotsOf(F, e) \subseteq X
  BY <1>2, SlotsWalk
<1>4. ASSUME NEW e \in DOMAIN F, NEW s, SlotOf(F, e, s), Deref(F, s) \in DOMAIN F
      PROVE  Deref(F, s) \in Kids(F, e) /\ F[Deref(F, s)].sibPrev = s
  <2> DEFINE c == Deref(F, s)
  <2>1. c # NULL
    BY <1>1, <1>4
  <2>2. F[c].sibPrev = s /\ Attached(F, c)
    <3>1. CASE s = First(e)
      BY <2>1, <3>1, SlotFacts DEF PointsBack, Attached
    <3>2. ASSUME NEW g \in Kids(F, e), s = After(g) PROVE F[c].sibPrev = s /\ Attached(F, c)
      <4>1. g \in DOMAIN F /\ PointsBack(F, g)
        BY DEF Kids
      <4> QED BY <2>1, <3>2, <4>1, SlotFacts DEF PointsBack, Attached
    <3> QED BY <1>4, <3>1, <3>2 DEF SlotOf
  <2>3. Kid(F, R, c)
    BY <1>4, <2>2
  <2>4. F[c].parent = e
    <3>1. SlotOf(F, F[c].parent, s)
      BY <2>2, <2>3 DEF Kid
    <3>2. CASE s = First(e)
      BY <3>1, <3>2, SlotFacts DEF SlotOf
    <3>3. CASE s # First(e)
      <4>1. PICK g \in Kids(F, e) : s = After(g)
        BY <1>4, <3>3 DEF SlotOf
      <4>2. PICK h \in Kids(F, F[c].parent) : s = After(h)
        BY <3>1, <4>1, SlotFacts DEF SlotOf
      <4>3. g = h
        BY <4>1, <4>2, SlotFacts
      <4> QED BY <4>1, <4>2, <4>3 DEF Kids
    <3> QED BY <3>2, <3>3
  <2> QED BY <1>4, <2>2, <2>4 DEF Kids
<1>5. ASSUME NEW s \in SlotsOf(F, d) PROVE SlotOf(F, d, s)
  <2> DEFINE X == {s1 \in SlotsOf(F, d) : SlotOf(F, d, s1)}
  <2>1. First(d) \in X
    BY <1>3 DEF SlotOf
  <2>2. ASSUME NEW s1 \in X, Deref(F, s1) \in DOMAIN F PROVE After(Deref(F, s1)) \in X
    <3>1. SlotOf(F, d, s1) /\ s1 \in SlotsOf(F, d)
      OBVIOUS
    <3>2. Deref(F, s1) \in Kids(F, d)
      BY <1>4, <2>2, <3>1
    <3> QED BY <1>3, <2>2, <3>1, <3>2 DEF SlotOf
  <2>3. SlotsOf(F, d) \subseteq X
    <3> HIDE DEF X
    <3> QED BY <1>3, <2>1, <2>2
  <2> QED BY <2>3
<1>6. ASSUME NEW f \in DOMAIN F, Attached(F, f) PROVE After(f) \in SlotsOf(F, F[f].parent)
  <2> DEFINE X == {x \in DOMAIN F : Attached(F, x) => After(x) \in SlotsOf(F, F[x].parent)}
  <2>1. ASSUME NEW x \in X, F[x].firstChild # NULL PROVE F[x].firstChild \in X
    <3> DEFINE c == F[x].firstChild
    <3>1. PointsBack(F, x) /\ Deref(F, First(x)) = c
      BY SlotFacts
    <3>2. c \in DOMAIN F /\ c \in Kids(F, x)
      BY <1>4, <2>1, <3>1 DEF PointsBack, SlotOf
    <3>3. After(c) \in SlotsOf(F, x)
      BY <1>3, <3>1, <3>2
    <3> QED BY <3>2, <3>3 DEF Kids
  <2>2. ASSUME NEW x \in X, F[x].sibNext # NULL PROVE F[x].sibNext \in X
    <3> DEFINE c == F[x].sibNext
               e == F[x].parent
    <3>1. PointsBack(F, x) /\ Deref(F, After(x)) = c
      BY SlotFacts
    <3>2. Attached(F, x)
      BY <2>2 DEF Top
    <3>3. e \in DOMAIN F /\ After(x) \in SlotsOf(F, e) /\ x \in Kids(F, e)
      BY <3>2 DEF Kid, Kids
    <3>4. c \in DOMAIN F /\ c \in Kids(F, e)
      BY <1>4, <2>2, <3>1, <3>3 DEF PointsBack, SlotOf
    <3>5. After(c) \in SlotsOf(F, e)
      BY <1>3, <3>1, <3>3, <3>4
    <3> QED BY <3>4, <3>5 DEF Kids
  <2>3. Holds(F, X) /\ X \in SUBSET DOMAIN F
    <3>1. ASSUME NEW x \in DOMAIN F, ~Attached(F, x) PROVE x \in X
      BY <3>1
    <3> HIDE DEF X
    <3>2. Holds(F, X)
      BY <2>1, <2>2, <3>1 DEF Holds
    <3> QED BY <3>2 DEF X
  <2>4. X = DOMAIN F
    BY <2>3 DEF Grounded
  <2> QED BY <1>6, <2>4
<1>7. ASSUME NEW s, SlotOf(F, d, s) PROVE s \in SlotsOf(F, d)
  BY <1>3, <1>6, <1>7 DEF SlotOf, Kids
<1>8. ASSUME NEW f \in ChildrenOf(F, d) PROVE f \in Kids(F, d)
  <2>1. PICK s \in SlotsOf(F, d) : f = Deref(F, s) /\ f \in DOMAIN F
    BY DEF ChildrenOf
  <2> QED BY <1>4, <1>5, <2>1
<1>9. ASSUME NEW f \in Kids(F, d) PROVE f \in ChildrenOf(F, d)
  <2>1. f \in DOMAIN F /\ Kid(F, R, f) /\ F[f].parent = d
    BY DEF Kids
  <2> QED BY <1>7, <2>1 DEF Kid, ChildrenOf
<1> QED BY <1>5, <1>7, <1>8, <1>9

(* What the pointers of a file point at. *)
LEMMA Pointees ==
  ASSUME NEW F, NEW R, Heap(F, R), NEW x \in DOMAIN F
  PROVE  /\ F[x].firstChild # NULL =>
              /\ F[x].firstChild \in Kids(F, x)
              /\ F[F[x].firstChild].sibPrev = First(x)
         /\ F[x].sibNext # NULL =>
              /\ Attached(F, x)
              /\ F[x].sibNext \in Kids(F, F[x].parent)
              /\ F[F[x].sibNext].sibPrev = After(x)
         /\ F[x].firstChild # root /\ F[x].sibNext # root
<1> USE DEF Heap
<1>1. ASSUME F[x].firstChild # NULL
      PROVE  /\ F[x].firstChild \in Kids(F, x)
             /\ F[F[x].firstChild].sibPrev = First(x)
  <2> DEFINE c == F[x].firstChild
  <2>1. c \in DOMAIN F /\ F[c].sibPrev = First(x)
    BY <1>1 DEF PointsBack
  <2>2. Attached(F, c)
    BY <2>1, SlotFacts DEF Attached
  <2>3. SlotOf(F, F[c].parent, First(x))
    BY <2>1, <2>2 DEF Kid
  <2>4. F[c].parent = x
    BY <2>3, SlotFacts DEF SlotOf
  <2> QED BY <2>1, <2>2, <2>4 DEF Kids
<1>2. ASSUME F[x].sibNext # NULL
      PROVE  /\ Attached(F, x)
             /\ F[x].sibNext \in Kids(F, F[x].parent)
             /\ F[F[x].sibNext].sibPrev = After(x)
  <2> DEFINE c == F[x].sibNext
  <2>1. c \in DOMAIN F /\ F[c].sibPrev = After(x)
    BY <1>2 DEF PointsBack
  <2>2. Attached(F, c)
    BY <2>1, SlotFacts DEF Attached
  <2>3. SlotOf(F, F[c].parent, After(x))
    BY <2>1, <2>2 DEF Kid
  <2>4. PICK y \in Kids(F, F[c].parent) : After(x) = After(y)
    BY <2>3, SlotFacts DEF SlotOf
  <2>5. x = y
    BY <2>4, SlotFacts
  <2> QED BY <2>1, <2>2, <2>4, <2>5 DEF Kids
<1>3. F[x].firstChild # root /\ F[x].sibNext # root
  BY <1>1, <1>2 DEF Kids, root, NULL
<1> QED BY <1>1, <1>2, <1>3

(* What is below is what has its parent below. *)
LEMMA BelowIs ==
  ASSUME NEW F, NEW R, Good(F, R), NEW S \in SUBSET DOMAIN F, S # {}
  PROVE  /\ S \subseteq Below(F, S)
         /\ Below(F, S) \subseteq DOMAIN F
         /\ \A f \in DOMAIN F : Attached(F, f) /\ F[f].parent \in Below(F, S) => f \in Below(F, S)
         /\ \A f \in Below(F, S) : f \in S \/ (Attached(F, f) /\ F[f].parent \in Below(F, S))
         /\ \A X : /\ S \subseteq X
                   /\ \A f \in DOMAIN F : Attached(F, f) /\ F[f].parent \in X => f \in X
                   => Below(F, S) \subseteq X
<1> DEFINE B == Below(F, S)
<1>1. HeapType(F)
  BY DEF Good, Heap
<1>2. /\ S \subseteq B
      /\ B \subseteq DOMAIN F
      /\ \A d \in B : F[d].folder => ChildrenOf(F, d) \subseteq B
      /\ \A X : /\ S \subseteq X
                /\ \A d \in X \cap DOMAIN F : F[d].folder => ChildrenOf(F, d) \subseteq X
                => B \subseteq X
  BY <1>1, BelowWalk
<1>3. \A d \in DOMAIN F : ChildrenOf(F, d) = Kids(F, d)
  BY KidsAreChildren
<1> HIDE DEF B
<1>4. ASSUME NEW f \in DOMAIN F, Attached(F, f), F[f].parent \in B PROVE f \in B
  <2>1. F[F[f].parent].folder
    BY <1>4 DEF Good, Heap, Kid
  <2>2. f \in Kids(F, F[f].parent)
    BY <1>4 DEF Kids
  <2> QED BY <1>2, <1>3, <1>4, <2>1, <2>2
<1>5. ASSUME NEW X, S \subseteq X,
             \A f \in DOMAIN F : Attached(F, f) /\ F[f].parent \in X => f \in X
      PROVE  B \subseteq X
  <2>1. ASSUME NEW d \in X \cap DOMAIN F PROVE ChildrenOf(F, d) \subseteq X
    BY <1>3, <1>5 DEF Kids
  <2> QED BY <1>2, <1>5, <2>1
<1>6. ASSUME NEW f \in B PROVE f \in S \/ (Attached(F, f) /\ F[f].parent \in B)
  <2> DEFINE X == S \cup {g \in B : Attached(F, g) /\ F[g].parent \in B}
  <2>1. S \subseteq X /\ X \subseteq B
    BY <1>2
  <2>2. ASSUME NEW g \in DOMAIN F, Attached(F, g), F[g].parent \in X PROVE g \in X
    BY <1>4, <2>1, <2>2
  <2>3. B \subseteq X
    <3> HIDE DEF X
    <3> QED BY <1>5, <2>1, <2>2
  <2> QED BY <2>3
<1> QED BY <1>2, <1>4, <1>5, <1>6 DEF B

(* A folder is not in itself. *)
LEMMA NotBelowItself ==
  ASSUME NEW F, NEW R, Good(F, R), NEW f \in DOMAIN F, Attached(F, f)
  PROVE  F[f].parent \notin Below(F, {f})
<1> DEFINE B == Below(F, {f})
           X == DOMAIN F \ B
<1>1. /\ f \in B
      /\ \A g \in DOMAIN F : Attached(F, g) /\ F[g].parent \in B => g \in B
      /\ \A g \in B : g = f \/ (Attached(F, g) /\ F[g].parent \in B)
  <2>1. {f} \in SUBSET DOMAIN F /\ {f} # {}
    OBVIOUS
  <2> QED BY <2>1, BelowIs
<1> HIDE DEF B
<1>2. SUFFICES ASSUME F[f].parent \in B PROVE FALSE
  BY DEF B
<1>3. \A g \in B : Attached(F, g) /\ F[g].parent \in B
  BY <1>1, <1>2
<1>4. Heap(F, R)
  BY DEF Good
<1>5. Holds(F, X)
  <2>1. ASSUME NEW g \in X, F[g].firstChild # NULL PROVE F[g].firstChild \in X
    <3>1. F[g].firstChild \in Kids(F, g)
      BY <1>4, <2>1, Pointees
    <3> QED BY <1>3, <3>1 DEF Kids
  <2>2. ASSUME NEW g \in X, F[g].sibNext # NULL PROVE F[g].sibNext \in X
    <3>1. Attached(F, g) /\ F[g].sibNext \in Kids(F, F[g].parent)
      BY <1>4, <2>2, Pointees
    <3> QED BY <1>1, <1>3, <3>1 DEF Kids
  <2> QED BY <1>3, <2>1, <2>2 DEF Holds
<1>6. X = DOMAIN F
  BY <1>5 DEF Good, Grounded
<1> QED BY <1>1, <1>6

(* The tree is the root and the files with a folder. *)
LEMMA TreeIs ==
  ASSUME NEW F, Good(F, {root})
  PROVE  Tree(F) = {f \in DOMAIN F : f = root \/ Attached(F, f)}
<1> DEFINE B == Below(F, {root})
           X == {f \in DOMAIN F : Attached(F, f) => f \in B}
<1>1. Heap(F, {root}) /\ root \in DOMAIN F
  BY DEF Good, Heap, HeapType
<1>2. /\ root \in B
      /\ B \subseteq DOMAIN F
      /\ \A g \in DOMAIN F : Attached(F, g) /\ F[g].parent \in B => g \in B
      /\ \A g \in B : g = root \/ (Attached(F, g) /\ F[g].parent \in B)
  <2>1. {root} \in SUBSET DOMAIN F /\ {root} # {}
    BY <1>1
  <2> QED BY <2>1, BelowIs
<1> HIDE DEF B
<1>3. Holds(F, X)
  <2>1. ASSUME NEW g \in X, F[g].firstChild # NULL PROVE F[g].firstChild \in X
    <3>1. F[g].firstChild \in Kids(F, g)
      BY <1>1, <2>1, Pointees
    <3>2. g = root \/ Attached(F, g)
      BY <1>1, <2>1 DEF Heap, Top
    <3> QED BY <1>2, <3>1, <3>2 DEF Kids
  <2>2. ASSUME NEW g \in X, F[g].sibNext # NULL PROVE F[g].sibNext \in X
    <3>1. Attached(F, g) /\ F[g].sibNext \in Kids(F, F[g].parent)
      BY <1>1, <2>2, Pointees
    <3>2. g \in B /\ g # root
      BY <1>1, <3>1 DEF Heap
    <3> QED BY <1>2, <3>1, <3>2 DEF Kids
  <2> QED BY <2>1, <2>2 DEF Holds
<1>4. X = DOMAIN F
  BY <1>3 DEF Good, Grounded
<1> QED BY <1>2, <1>4 DEF Tree, B

(* With fewer files in fewer folders there is no more below. *)
LEMMA BelowSmaller ==
  ASSUME NEW F, NEW R, Good(F, R), NEW G, NEW Q, Good(G, Q), NEW f \in DOMAIN F \cap DOMAIN G,
         \A g \in DOMAIN G : Attached(G, g) =>
           g \in DOMAIN F /\ Attached(F, g) /\ F[g].parent = G[g].parent
  PROVE  Below(G, {f}) \subseteq Below(F, {f})
<1>1. {f} \in SUBSET DOMAIN F /\ {f} \in SUBSET DOMAIN G /\ {f} # {}
  OBVIOUS
<1> DEFINE X == Below(F, {f})
<1>2. {f} \subseteq X /\ \A g \in DOMAIN F : Attached(F, g) /\ F[g].parent \in X => g \in X
  BY <1>1, BelowIs
<1>3. \A g \in DOMAIN G : Attached(G, g) /\ G[g].parent \in X => g \in X
  BY <1>2
<1> HIDE DEF X
<1>4. Below(G, {f}) \subseteq X
  BY <1>1, <1>2, <1>3, BelowIs
<1> QED BY <1>4 DEF X

(* A folder has a slot at its end. *)
LEMMA EndOfSlots ==
  ASSUME NEW F, NEW R, Good(F, R), NEW d \in DOMAIN F
  PROVE  \E s : SlotOf(F, d, s) /\ Deref(F, s) = NULL
<1> DEFINE K == Kids(F, d)
           h == [x \in K \cup {root} |-> IF x = root THEN F[d].firstChild ELSE F[x].sibNext]
<1>1. SUFFICES ASSUME \A s : SlotOf(F, d, s) => Deref(F, s) # NULL PROVE FALSE
  OBVIOUS
<1>2. Heap(F, R) /\ IsFiniteSet(DOMAIN F)
  BY HeapFinite DEF Good, Heap
<1>3. IsFiniteSet(K) /\ K \in SUBSET DOMAIN F
  <2>1. K \in SUBSET DOMAIN F
    BY DEF Kids
  <2> QED BY <1>2, <2>1, FS_Subset
<1>4. root \notin K
  BY <1>2 DEF Kids, Heap
<1>5. h \in [K \cup {root} -> K]
  <2>1. F[d].firstChild \in K
    <3>1. F[d].firstChild # NULL
      BY <1>1, SlotFacts DEF SlotOf
    <3> QED BY <1>2, <3>1, Pointees
  <2>2. ASSUME NEW x \in K PROVE F[x].sibNext \in K
    <3>1. F[x].sibNext # NULL
      BY <1>1, SlotFacts DEF SlotOf
    <3>2. x \in DOMAIN F /\ F[x].parent = d
      BY DEF Kids
    <3> QED BY <1>2, <3>1, <3>2, Pointees
  <2> HIDE DEF K
  <2> QED BY <2>1, <2>2
<1>6. Cardinality(K) < Cardinality(K \cup {root}) /\ IsFiniteSet(K \cup {root})
  <2>1. Cardinality(K \cup {root}) = Cardinality(K) + 1 /\ IsFiniteSet(K \cup {root})
    BY <1>3, <1>4, FS_AddElement
  <2>2. Cardinality(K) \in Nat
    BY <1>3, FS_CardinalityType
  <2> QED BY <2>1, <2>2
<1>7. PICK x \in K \cup {root}, y \in K \cup {root} : x # y /\ h[x] = h[y]
  <2> HIDE DEF h, K
  <2> QED BY <1>3, <1>5, <1>6, FS_PigeonHole
<1>8. ASSUME NEW z \in K \cup {root}
      PROVE  F[h[z]].sibPrev = IF z = root THEN First(d) ELSE After(z)
  <2>1. CASE z = root
    <3>1. h[z] = F[d].firstChild /\ F[d].firstChild # NULL
      BY <1>1, <2>1, SlotFacts DEF SlotOf
    <3> QED BY <1>2, <2>1, <3>1, Pointees
  <2>2. CASE z # root
    <3>1. h[z] = F[z].sibNext /\ F[z].sibNext # NULL /\ z \in DOMAIN F
      BY <1>1, <2>2, SlotFacts DEF SlotOf, Kids
    <3> QED BY <1>2, <2>2, <3>1, Pointees
  <2> QED BY <2>1, <2>2
<1> HIDE DEF h, K
<1> QED BY <1>7, <1>8, SlotFacts

-----------------------------------------------------------------------------
(* Changing the pointers, field by field.                                  *)

(* Neither the kind of a file nor what the driver knows of it changes. *)
SameKind(F, G) ==
  /\ DOMAIN G = DOMAIN F
  /\ \A g \in DOMAIN F : /\ G[g].folder = F[g].folder
                         /\ G[g].type = F[g].type
                         /\ G[g].open = F[g].open
                         /\ G[g].ahead = F[g].ahead

(* Writing through a slot changes the pointer the slot stands for, and     *)
(* nothing else.                                                           *)
LEMMA SetSlotFields ==
  ASSUME NEW F, HeapType(F), NEW e \in DOMAIN F, NEW s \in {First(e), After(e)},
         NEW v \in 0..MaxFiles
  PROVE  LET G == SetSlot(F, s, v)
         IN  /\ HeapType(G)
             /\ SameKind(F, G)
             /\ \A g \in DOMAIN F :
                  /\ G[g].name = F[g].name
                  /\ G[g].parent = F[g].parent
                  /\ G[g].sibPrev = F[g].sibPrev
                  /\ G[g].sibNext = IF s = After(g) THEN v ELSE F[g].sibNext
                  /\ G[g].firstChild = IF s = First(g) THEN v ELSE F[g].firstChild
<1> DEFINE G == SetSlot(F, s, v)
<1>1. CASE s = First(e)
  <2>1. G = [F EXCEPT ![e].firstChild = v]
    BY <1>1 DEF SetSlot, First
  <2>2. G \in [DOMAIN F -> File] /\ DOMAIN G = DOMAIN F
    BY <2>1 DEF HeapType, File
  <2>3. \A g \in DOMAIN F : s # After(g) /\ (s = First(g) <=> g = e)
    BY <1>1, SlotFacts
  <2>4. \A g \in DOMAIN F : F[g] \in File
    BY DEF HeapType
  <2>5. HeapType(G)
    BY <2>2 DEF HeapType
  <2>6. ASSUME NEW g \in DOMAIN F
        PROVE  /\ G[g].folder = F[g].folder
               /\ G[g].type = F[g].type
               /\ G[g].open = F[g].open
               /\ G[g].ahead = F[g].ahead
               /\ G[g].name = F[g].name
               /\ G[g].parent = F[g].parent
               /\ G[g].sibPrev = F[g].sibPrev
               /\ G[g].sibNext = F[g].sibNext
               /\ G[g].firstChild = IF g = e THEN v ELSE F[g].firstChild
    BY <2>1, <2>4 DEF File
  <2> HIDE DEF G
  <2>7. SameKind(F, G)
    BY <2>2, <2>6 DEF SameKind
  <2> QED BY <2>3, <2>5, <2>6, <2>7 DEF G
<1>2. CASE s = After(e)
  <2>1. G = [F EXCEPT ![e].sibNext = v]
    BY <1>2 DEF SetSlot, After
  <2>2. G \in [DOMAIN F -> File] /\ DOMAIN G = DOMAIN F
    BY <2>1 DEF HeapType, File
  <2>3. \A g \in DOMAIN F : s # First(g) /\ (s = After(g) <=> g = e)
    BY <1>2, SlotFacts
  <2>4. \A g \in DOMAIN F : F[g] \in File
    BY DEF HeapType
  <2>5. HeapType(G)
    BY <2>2 DEF HeapType
  <2>6. ASSUME NEW g \in DOMAIN F
        PROVE  /\ G[g].folder = F[g].folder
               /\ G[g].type = F[g].type
               /\ G[g].open = F[g].open
               /\ G[g].ahead = F[g].ahead
               /\ G[g].name = F[g].name
               /\ G[g].parent = F[g].parent
               /\ G[g].sibPrev = F[g].sibPrev
               /\ G[g].firstChild = F[g].firstChild
               /\ G[g].sibNext = IF g = e THEN v ELSE F[g].sibNext
    BY <2>1, <2>4 DEF File
  <2> HIDE DEF G
  <2>7. SameKind(F, G)
    BY <2>2, <2>6 DEF SameKind
  <2> QED BY <2>3, <2>5, <2>6, <2>7 DEF G
<1> QED BY <1>1, <1>2

SetPrev(F, e, s) == [F EXCEPT ![e].sibPrev = s]

SetPlace(F, f, p, s, c, n) ==
  [F EXCEPT ![f].parent = p, ![f].sibPrev = s, ![f].sibNext = c, ![f].name = n]

(* Writing a sibPrev changes nothing else. *)
LEMMA SetPrevFields ==
  ASSUME NEW F, HeapType(F), NEW e \in DOMAIN F, NEW s \in Slots
  PROVE  LET G == SetPrev(F, e, s)
         IN  /\ HeapType(G)
             /\ SameKind(F, G)
             /\ \A g \in DOMAIN F :
                  /\ G[g].name = F[g].name
                  /\ G[g].parent = F[g].parent
                  /\ G[g].sibPrev = IF g = e THEN s ELSE F[g].sibPrev
                  /\ G[g].sibNext = F[g].sibNext
                  /\ G[g].firstChild = F[g].firstChild
<1> DEFINE G == [F EXCEPT ![e].sibPrev = s]
<1>1. G \in [DOMAIN F -> File] /\ DOMAIN G = DOMAIN F
  BY DEF HeapType, File
<1>2. \A g \in DOMAIN F : F[g] \in File
  BY DEF HeapType
<1>3. HeapType(G)
  BY <1>1 DEF HeapType
<1>4. ASSUME NEW g \in DOMAIN F
      PROVE  /\ G[g].folder = F[g].folder
             /\ G[g].type = F[g].type
             /\ G[g].open = F[g].open
             /\ G[g].ahead = F[g].ahead
             /\ G[g].name = F[g].name
             /\ G[g].parent = F[g].parent
             /\ G[g].sibPrev = IF g = e THEN s ELSE F[g].sibPrev
             /\ G[g].sibNext = F[g].sibNext
             /\ G[g].firstChild = F[g].firstChild
  BY <1>2 DEF File
<1> HIDE DEF G
<1>5. SameKind(F, G)
  BY <1>1, <1>4 DEF SameKind
<1> QED BY <1>3, <1>4, <1>5 DEF G, SetPrev

(* The four fields that a file has as a child. *)
LEMMA SetPlaceFields ==
  ASSUME NEW F, HeapType(F), NEW f \in DOMAIN F, NEW p \in 0..MaxFiles,
         NEW s \in Slots \cup {NoSlot}, NEW c \in 0..MaxFiles, NEW n \in Names \cup {None}
  PROVE  LET G == SetPlace(F, f, p, s, c, n)
         IN  /\ HeapType(G)
             /\ SameKind(F, G)
             /\ \A g \in DOMAIN F :
                  /\ G[g].name = IF g = f THEN n ELSE F[g].name
                  /\ G[g].parent = IF g = f THEN p ELSE F[g].parent
                  /\ G[g].sibPrev = IF g = f THEN s ELSE F[g].sibPrev
                  /\ G[g].sibNext = IF g = f THEN c ELSE F[g].sibNext
                  /\ G[g].firstChild = F[g].firstChild
<1> DEFINE G == [F EXCEPT ![f].parent = p, ![f].sibPrev = s, ![f].sibNext = c, ![f].name = n]
<1>1. DOMAIN G = DOMAIN F
  OBVIOUS
<1>2. \A g \in DOMAIN F : F[g] \in File
  BY DEF HeapType
<1>3. ASSUME NEW g \in DOMAIN F, g # f PROVE G[g] = F[g]
  BY <1>3
<1>4. G[f] = [F[f] EXCEPT !.parent = p, !.sibPrev = s, !.sibNext = c, !.name = n]
  OBVIOUS
<1>5. /\ G[f].folder = F[f].folder
      /\ G[f].type = F[f].type
      /\ G[f].open = F[f].open
      /\ G[f].ahead = F[f].ahead
      /\ G[f].firstChild = F[f].firstChild
      /\ G[f].name = n
      /\ G[f].parent = p
      /\ G[f].sibPrev = s
      /\ G[f].sibNext = c
  BY <1>2, <1>4 DEF File
<1>6. G[f] \in File
  <2> HIDE DEF G
  <2>1. F[f] \in File
    BY <1>2
  <2> QED BY <1>4, <2>1 DEF File
<1>7. G \in [DOMAIN F -> File]
  <2>1. G = [g \in DOMAIN F |-> G[g]]
    OBVIOUS
  <2>2. \A g \in DOMAIN F : G[g] \in File
    BY <1>2, <1>3, <1>6
  <2> HIDE DEF G
  <2> QED BY <2>1, <2>2
<1> HIDE DEF G
<1>8. HeapType(G)
  BY <1>1, <1>7 DEF HeapType
<1>9. SameKind(F, G)
  BY <1>1, <1>3, <1>5 DEF SameKind
<1> QED BY <1>3, <1>5, <1>8, <1>9 DEF G, SetPlace

Unlinked(F, G, f) ==
  /\ HeapType(G)
  /\ SameKind(F, G)
  /\ \A g \in DOMAIN F :
       /\ G[g].name = IF g = f THEN None ELSE F[g].name
       /\ G[g].parent = IF g = f THEN NULL ELSE F[g].parent
       /\ G[g].sibPrev = IF g = f THEN NoSlot
                         ELSE IF g = F[f].sibNext THEN F[f].sibPrev ELSE F[g].sibPrev
       /\ G[g].sibNext = IF g = f THEN NULL
                         ELSE IF F[f].sibPrev = After(g) THEN F[f].sibNext ELSE F[g].sibNext
       /\ G[g].firstChild = IF F[f].sibPrev = First(g) THEN F[f].sibNext ELSE F[g].firstChild

Linked(F, G, f, d, slot, n) ==
  /\ HeapType(G)
  /\ SameKind(F, G)
  /\ \A g \in DOMAIN F :
       /\ G[g].name = IF g = f THEN n ELSE F[g].name
       /\ G[g].parent = IF g = f THEN d ELSE F[g].parent
       /\ G[g].sibPrev = IF g = Deref(F, slot) THEN After(f)
                         ELSE IF g = f THEN slot ELSE F[g].sibPrev
       /\ G[g].sibNext = IF slot = After(g) THEN f
                         ELSE IF g = f THEN Deref(F, slot) ELSE F[g].sibNext
       /\ G[g].firstChild = IF slot = First(g) THEN f ELSE F[g].firstChild

(* A slot of a folder is in a file of the heap. *)
LEMMA SlotOwner ==
  ASSUME NEW F, HeapType(F), NEW d \in DOMAIN F, NEW s, SlotOf(F, d, s)
  PROVE  /\ s \in Slots
         /\ \E e \in DOMAIN F : s = First(e) \/ s = After(e)
         /\ Deref(F, s) \in 0..MaxFiles
<1>1. PICK e \in DOMAIN F : s = First(e) \/ s = After(e)
  BY DEF SlotOf, Kids
<1>2. s \in Slots
  BY <1>1 DEF Slots, First, After, HeapType
<1>3. Deref(F, s) \in 0..MaxFiles
  BY <1>1, SlotFacts, FieldTypes
<1> QED BY <1>1, <1>2, <1>3

(* File::Delete for the file itself, field by field. *)
LEMMA UnlinkFields ==
  ASSUME NEW F, NEW R, Heap(F, R), NEW f \in DOMAIN F, Attached(F, f)
  PROVE  Unlinked(F, Unlink(F, f), f)
<1> DEFINE next == F[f].sibNext
           s == F[f].sibPrev
           G == SetSlot(F, s, next)
           H == SetPrev(G, next, s)
<1>1. HeapType(F) /\ Kid(F, R, f)
  BY DEF Heap
<1>2. s \in Slots /\ next \in 0..MaxFiles
  <2>1. F[f].parent \in DOMAIN F /\ SlotOf(F, F[f].parent, s)
    BY <1>1 DEF Kid
  <2> QED BY <1>1, <2>1, SlotOwner, FieldTypes
<1>3. PICK e \in DOMAIN F : s \in {First(e), After(e)}
  <2>1. F[f].parent \in DOMAIN F /\ SlotOf(F, F[f].parent, s)
    BY <1>1 DEF Kid
  <2> QED BY <1>1, <2>1, SlotOwner
<1>4. next # NULL => next \in DOMAIN F
  BY Pointees DEF Kids
<1> HIDE DEF next, s
<1>5. /\ HeapType(G)
      /\ SameKind(F, G)
      /\ \A g \in DOMAIN F :
           /\ G[g].name = F[g].name
           /\ G[g].parent = F[g].parent
           /\ G[g].sibPrev = F[g].sibPrev
           /\ G[g].sibNext = IF s = After(g) THEN next ELSE F[g].sibNext
           /\ G[g].firstChild = IF s = First(g) THEN next ELSE F[g].firstChild
  BY <1>1, <1>2, <1>3, SetSlotFields
<1> HIDE DEF G
<1>6. PICK K : K = IF next = NULL THEN G ELSE H
  OBVIOUS
<1>7. /\ HeapType(K)
      /\ SameKind(F, K)
      /\ \A g \in DOMAIN F :
           /\ K[g].name = F[g].name
           /\ K[g].parent = F[g].parent
           /\ K[g].sibPrev = IF g = next THEN s ELSE F[g].sibPrev
           /\ K[g].sibNext = IF s = After(g) THEN next ELSE F[g].sibNext
           /\ K[g].firstChild = IF s = First(g) THEN next ELSE F[g].firstChild
  <2>1. CASE next = NULL
    <3>1. NULL \notin DOMAIN F
      BY <1>1, HeapFinite
    <3> QED BY <1>5, <1>6, <2>1, <3>1
  <2>2. CASE next # NULL
    <3>1. next \in DOMAIN G /\ DOMAIN G = DOMAIN F
      BY <1>4, <1>5, <2>2 DEF SameKind
    <3>2. /\ HeapType(H)
          /\ SameKind(G, H)
          /\ \A g \in DOMAIN G :
               /\ H[g].name = G[g].name
               /\ H[g].parent = G[g].parent
               /\ H[g].sibPrev = IF g = next THEN s ELSE G[g].sibPrev
               /\ H[g].sibNext = G[g].sibNext
               /\ H[g].firstChild = G[g].firstChild
      BY <1>2, <1>5, <3>1, SetPrevFields
    <3>3. K = H
      BY <1>6, <2>2
    <3> HIDE DEF H
    <3>4. SameKind(F, K)
      BY <1>5, <3>2, <3>3 DEF SameKind
    <3> QED BY <1>5, <3>1, <3>2, <3>3, <3>4
  <2> QED BY <2>1, <2>2
<1> DEFINE L == SetPlace(K, f, NULL, NoSlot, NULL, None)
<1>8. Unlink(F, f) = L
  <2>1. Unlink(F, f) = [(IF next = NULL THEN G ELSE H) EXCEPT
                          ![f].parent = NULL, ![f].sibPrev = NoSlot, ![f].sibNext = NULL,
                          ![f].name = None]
    BY DEF Unlink, G, next, s, SetPrev
  <2> HIDE DEF H
  <2> QED BY <1>6, <2>1, Zenon DEF SetPlace
<1>9. /\ HeapType(L)
      /\ SameKind(K, L)
      /\ \A g \in DOMAIN K :
           /\ L[g].name = IF g = f THEN None ELSE K[g].name
           /\ L[g].parent = IF g = f THEN NULL ELSE K[g].parent
           /\ L[g].sibPrev = IF g = f THEN NoSlot ELSE K[g].sibPrev
           /\ L[g].sibNext = IF g = f THEN NULL ELSE K[g].sibNext
           /\ L[g].firstChild = K[g].firstChild
  <2>1. /\ f \in DOMAIN K /\ NULL \in 0..MaxFiles
        /\ NoSlot \in Slots \cup {NoSlot} /\ None \in Names \cup {None}
    BY <1>7, ConstantsAssumption DEF SameKind, NULL
  <2> HIDE DEF H
  <2> QED BY <1>7, <2>1, SetPlaceFields
<1> HIDE DEF L, H
<1>10. SameKind(F, L) /\ DOMAIN K = DOMAIN F
  BY <1>7, <1>9 DEF SameKind
<1> QED BY <1>7, <1>8, <1>9, <1>10 DEF Unlinked, next, s

(* File::Init and File::Move into a slot, field by field. *)
LEMMA LinkFields ==
  ASSUME NEW F, NEW R, Heap(F, R), NEW f \in DOMAIN F, ~Attached(F, f),
         NEW d \in DOMAIN F, NEW slot, SlotOf(F, d, slot), NEW n \in Names
  PROVE  Linked(F, Link(F, f, d, slot, n), f, d, slot, n)
<1> DEFINE next == Deref(F, slot)
           G == SetPlace(F, f, d, slot, next, n)
           H == SetSlot(G, slot, f)
           K == SetPrev(H, next, After(f))
<1>1. HeapType(F) /\ d \in 0..MaxFiles /\ f \in 0..MaxFiles /\ After(f) \in Slots
  BY DEF Heap, HeapType, Slots, After
<1>2. slot \in Slots /\ next \in 0..MaxFiles
  BY <1>1, SlotOwner
<1>3. PICK e \in DOMAIN F : slot \in {First(e), After(e)}
  BY <1>1, SlotOwner
<1>4. next # NULL => next \in DOMAIN F /\ next # f
  <2>1. CASE slot = First(e)
    BY <2>1, Pointees, SlotFacts DEF Kids
  <2>2. CASE slot = After(e)
    BY <2>2, Pointees, SlotFacts DEF Kids
  <2> QED BY <1>3, <2>1, <2>2
<1> HIDE DEF next
<1>5. /\ HeapType(G)
      /\ SameKind(F, G)
      /\ \A g \in DOMAIN F :
           /\ G[g].name = IF g = f THEN n ELSE F[g].name
           /\ G[g].parent = IF g = f THEN d ELSE F[g].parent
           /\ G[g].sibPrev = IF g = f THEN slot ELSE F[g].sibPrev
           /\ G[g].sibNext = IF g = f THEN next ELSE F[g].sibNext
           /\ G[g].firstChild = F[g].firstChild
  <2>1. slot \in Slots \cup {NoSlot} /\ n \in Names \cup {None}
    BY <1>2
  <2> QED BY <1>1, <1>2, <2>1, SetPlaceFields
<1> HIDE DEF G
<1>6. DOMAIN G = DOMAIN F
  BY <1>5 DEF SameKind
<1>7. /\ HeapType(H)
      /\ SameKind(G, H)
      /\ \A g \in DOMAIN G :
           /\ H[g].name = G[g].name
           /\ H[g].parent = G[g].parent
           /\ H[g].sibPrev = G[g].sibPrev
           /\ H[g].sibNext = IF slot = After(g) THEN f ELSE G[g].sibNext
           /\ H[g].firstChild = IF slot = First(g) THEN f ELSE G[g].firstChild
  BY <1>1, <1>3, <1>5, <1>6, SetSlotFields
<1> HIDE DEF H
<1>8. DOMAIN H = DOMAIN F
  BY <1>6, <1>7 DEF SameKind
<1>9. CASE next = NULL
  <2>1. Link(F, f, d, slot, n) = H
    BY <1>9 DEF Link, G, H, next, SetPlace
  <2>2. NULL \notin DOMAIN F
    BY <1>1, HeapFinite
  <2>3. SameKind(F, H)
    BY <1>5, <1>7 DEF SameKind
  <2> QED BY <1>5, <1>6, <1>7, <1>9, <2>1, <2>2, <2>3 DEF Linked, next
<1>10. CASE next # NULL
  <2>1. Link(F, f, d, slot, n) = K
    BY <1>10 DEF Link, G, H, next, SetPlace, SetPrev, After
  <2>2. /\ HeapType(K)
        /\ SameKind(H, K)
        /\ \A g \in DOMAIN H :
             /\ K[g].name = H[g].name
             /\ K[g].parent = H[g].parent
             /\ K[g].sibPrev = IF g = next THEN After(f) ELSE H[g].sibPrev
             /\ K[g].sibNext = H[g].sibNext
             /\ K[g].firstChild = H[g].firstChild
    BY <1>1, <1>4, <1>7, <1>8, <1>10, SetPrevFields
  <2> HIDE DEF K
  <2>3. SameKind(F, K)
    BY <1>5, <1>7, <2>2 DEF SameKind
  <2> QED BY <1>4, <1>5, <1>6, <1>7, <1>8, <2>1, <2>2, <2>3 DEF Linked, next
<1> QED BY <1>9, <1>10

-----------------------------------------------------------------------------
(* Each change of the pointers makes a good heap of a good one.            *)

LEMMA UnlinkGood ==
  ASSUME NEW F, NEW R, Good(F, R), NEW f \in DOMAIN F, Attached(F, f),
         NEW G, Unlinked(F, G, f)
  PROVE  /\ Good(G, R \cup {f})
         /\ \A g \in DOMAIN F : Attached(G, g) <=> g # f /\ Attached(F, g)
<1> DEFINE next == F[f].sibNext
           s == F[f].sibPrev
           p == F[f].parent
<1>1. Heap(F, R) /\ HeapType(G) /\ SameKind(F, G) /\ DOMAIN G = DOMAIN F
  BY DEF Good, Unlinked, SameKind
<1>2. \A g \in DOMAIN F :
        /\ G[g].name = IF g = f THEN None ELSE F[g].name
        /\ G[g].parent = IF g = f THEN NULL ELSE F[g].parent
        /\ G[g].sibPrev = IF g = f THEN NoSlot ELSE IF g = next THEN s ELSE F[g].sibPrev
        /\ G[g].sibNext = IF g = f THEN NULL
                          ELSE IF s = After(g) THEN next ELSE F[g].sibNext
        /\ G[g].firstChild = IF s = First(g) THEN next ELSE F[g].firstChild
        /\ G[g].folder = F[g].folder
  BY DEF Unlinked, SameKind
<1>3. /\ s # NoSlot /\ p \in DOMAIN F /\ F[p].folder /\ (p \in R \/ Attached(F, p))
      /\ SlotOf(F, p, s) /\ Deref(F, s) = f
  BY <1>1 DEF Heap, Kid, Attached
<1>4. next # NULL => next \in Kids(F, p) /\ F[next].sibPrev = After(f)
  BY <1>1, Pointees
<1>5. NULL \notin DOMAIN F
  BY <1>1, HeapFinite DEF Heap
<1>6. \A x \in DOMAIN F :
        /\ F[x].firstChild # NULL =>
             F[x].firstChild \in Kids(F, x) /\ F[F[x].firstChild].sibPrev = First(x)
        /\ F[x].sibNext # NULL =>
             /\ Attached(F, x)
             /\ F[x].sibNext \in Kids(F, F[x].parent)
             /\ F[F[x].sibNext].sibPrev = After(x)
  BY <1>1, Pointees
<1> HIDE DEF next, s, p
<1>7. next = f => s = After(f)
  <2>1. F[f].sibPrev = s
    BY DEF s
  <2> QED BY <1>4, <1>5, <2>1
<1>8. ASSUME NEW g \in DOMAIN F PROVE Attached(G, g) <=> g # f /\ Attached(F, g)
  <2>1. CASE g = f
    BY <1>2, <2>1 DEF Attached
  <2>2. CASE g # f /\ g = next
    <3>1. Attached(F, g)
      BY <1>4, <1>5, <2>2 DEF Kids
    <3> QED BY <1>2, <1>3, <2>2, <3>1 DEF Attached
  <2>3. CASE g # f /\ g # next
    BY <1>2, <2>3 DEF Attached
  <2> QED BY <2>1, <2>2, <2>3
<1>9. \A d : \A g \in Kids(F, d) : g # f => g \in Kids(G, d)
  BY <1>1, <1>2, <1>8 DEF Kids
<1>10. ASSUME NEW g \in DOMAIN F, ~Attached(G, g) PROVE Top(G, R \cup {f}, g)
  <2>1. CASE g = f
    BY <1>2, <2>1 DEF Top
  <2>2. CASE g # f
    <3>1. ~Attached(F, g)
      BY <1>8, <1>10, <2>2
    <3>2. Top(F, R, g)
      BY <1>1, <3>1 DEF Heap
    <3>3. s # After(g)
      BY <1>3, <3>1, SlotFacts DEF SlotOf, Kids
    <3>4. s = First(g) => g \in R
      BY <1>3, <3>1, SlotFacts DEF SlotOf
    <3> QED BY <1>2, <2>2, <3>2, <3>3, <3>4 DEF Top
  <2> QED BY <2>1, <2>2
<1>11. ASSUME NEW g \in DOMAIN F, Attached(G, g) PROVE Kid(G, R \cup {f}, g)
  <2>1. g # f /\ Attached(F, g)
    BY <1>8, <1>11
  <2>2. /\ F[g].parent \in DOMAIN F /\ F[F[g].parent].folder
        /\ F[g].parent \in R \/ Attached(F, F[g].parent)
        /\ F[g].name # None
        /\ SlotOf(F, F[g].parent, F[g].sibPrev)
        /\ Deref(F, F[g].sibPrev) = g
    BY <1>1, <2>1 DEF Heap, Kid
  <2>3. G[g].parent = F[g].parent /\ G[g].name = F[g].name
    BY <1>2, <2>1
  <2>4. G[g].parent \in R \cup {f} \/ Attached(G, G[g].parent)
    BY <1>8, <2>2, <2>3
  <2>5. SlotOf(G, G[g].parent, G[g].sibPrev) /\ Deref(G, G[g].sibPrev) = g
    <3>1. CASE g = next
      <4>1. G[g].sibPrev = s /\ F[g].parent = p
        BY <1>2, <1>4, <1>5, <2>1, <3>1 DEF Kids
      <4>2. CASE s = First(p)
        BY <1>2, <1>3, <2>3, <3>1, <4>1, <4>2, SlotFacts DEF SlotOf
      <4>3. CASE s # First(p)
        <5>1. PICK h \in Kids(F, p) : s = After(h)
          BY <1>3, <4>3 DEF SlotOf
        <5>2. h # f
          <6>1. Deref(F, After(f)) = next
            BY SlotFacts DEF next
          <6> QED BY <1>3, <2>1, <3>1, <5>1, <6>1
        <5>3. h \in Kids(G, p) /\ h \in DOMAIN F
          BY <1>9, <5>2 DEF Kids
        <5>4. G[h].sibNext = next
          BY <1>2, <5>1, <5>2, <5>3
        <5> QED BY <2>3, <3>1, <4>1, <5>1, <5>3, <5>4, SlotFacts DEF SlotOf
      <4> QED BY <4>2, <4>3
    <3>2. CASE g # next
      <4>1. G[g].sibPrev = F[g].sibPrev
        BY <1>2, <2>1, <3>2
      <4>2. F[g].sibPrev # s
        BY <1>3, <2>1, <2>2
      <4>3. CASE F[g].sibPrev = First(F[g].parent)
        <5>1. G[F[g].parent].firstChild = F[F[g].parent].firstChild
          BY <1>2, <2>2, <4>2, <4>3
        <5> QED BY <2>2, <2>3, <4>1, <4>3, <5>1, SlotFacts DEF SlotOf
      <4>4. CASE F[g].sibPrev # First(F[g].parent)
        <5>1. PICK h \in Kids(F, F[g].parent) : F[g].sibPrev = After(h)
          BY <2>2, <4>4 DEF SlotOf
        <5>2. h # f
          <6>1. Deref(F, After(f)) = next
            BY SlotFacts DEF next
          <6> QED BY <2>2, <3>2, <5>1, <6>1
        <5>3. h \in Kids(G, F[g].parent) /\ h \in DOMAIN F
          BY <1>9, <5>2 DEF Kids
        <5>4. G[h].sibNext = F[h].sibNext
          BY <1>2, <4>2, <5>1, <5>2, <5>3
        <5> QED BY <2>2, <2>3, <4>1, <5>1, <5>3, <5>4, SlotFacts DEF SlotOf
      <4> QED BY <4>3, <4>4
    <3> QED BY <3>1, <3>2
  <2> QED BY <1>1, <1>2, <2>2, <2>3, <2>4, <2>5 DEF Kid
<1>12. ASSUME NEW g \in DOMAIN F PROVE PointsBack(G, g)
  <2>1. ASSUME G[g].firstChild # NULL
        PROVE  /\ G[g].folder
               /\ G[g].firstChild \in DOMAIN F
               /\ G[G[g].firstChild].sibPrev = First(g)
    <3>1. CASE s = First(g)
      <4>1. g = p
        BY <1>3, <3>1, SlotFacts DEF SlotOf
      <4>2. G[g].firstChild = next /\ next # f
        BY <1>2, <1>7, <3>1, SlotFacts
      <4> QED BY <1>2, <1>3, <1>4, <2>1, <3>1, <4>1, <4>2 DEF Kids
    <3>2. CASE s # First(g)
      <4> DEFINE c == F[g].firstChild
      <4>1. c = G[g].firstChild /\ c # NULL
        BY <1>2, <2>1, <3>2
      <4>2. c \in DOMAIN F /\ F[c].sibPrev = First(g)
        BY <1>6, <4>1 DEF Kids
      <4>3. c # f
        BY <3>2, <4>2 DEF s
      <4>4. c # next
        BY <1>4, <4>1, <4>2, SlotFacts
      <4>5. G[g].folder
        BY <1>1, <1>2, <4>1 DEF Heap, PointsBack
      <4> HIDE DEF c
      <4> QED BY <1>2, <4>1, <4>2, <4>3, <4>4, <4>5
    <3> QED BY <3>1, <3>2
  <2>2. ASSUME G[g].sibNext # NULL
        PROVE  G[g].sibNext \in DOMAIN F /\ G[G[g].sibNext].sibPrev = After(g)
    <3>1. g # f
      BY <1>2, <2>2
    <3>2. CASE s = After(g)
      <4>1. G[g].sibNext = next /\ next # f
        BY <1>2, <1>7, <3>1, <3>2, SlotFacts
      <4> QED BY <1>2, <1>4, <2>2, <3>2, <4>1 DEF Kids
    <3>3. CASE s # After(g)
      <4> DEFINE c == F[g].sibNext
      <4>1. c = G[g].sibNext /\ c # NULL
        BY <1>2, <2>2, <3>1, <3>3
      <4>2. c \in DOMAIN F /\ F[c].sibPrev = After(g)
        BY <1>6, <4>1 DEF Kids
      <4>3. c # f
        BY <3>3, <4>2 DEF s
      <4>4. c # next
        BY <1>4, <3>1, <4>1, <4>2, SlotFacts
      <4> HIDE DEF c
      <4> QED BY <1>2, <4>1, <4>2, <4>3, <4>4
    <3> QED BY <3>2, <3>3
  <2> QED BY <1>1, <2>1, <2>2 DEF PointsBack
<1>13. Heap(G, R \cup {f})
  <2>1. ~Attached(G, root) /\ G[root].folder
    <3>1. root \in DOMAIN F /\ ~Attached(F, root) /\ F[root].folder
      BY <1>1 DEF Heap, HeapType
    <3> QED BY <1>2, <1>8, <3>1
  <2> QED BY <1>1, <1>10, <1>11, <1>12, <2>1 DEF Heap
<1>14. ASSUME NEW X \in SUBSET DOMAIN G, Holds(G, X) PROVE X = DOMAIN G
  <2>1. PICK e \in DOMAIN F : s = First(e) \/ s = After(e)
    BY <1>1, <1>3, SlotOwner DEF Heap
  <2> DEFINE Y == {x \in X : x = f => e \in X}
  <2>2. /\ \A x \in DOMAIN F : ~Attached(G, x) => x \in X
        /\ \A x \in X : G[x].firstChild # NULL => G[x].firstChild \in X
        /\ \A x \in X : G[x].sibNext # NULL => G[x].sibNext \in X
        /\ \A x \in X : x \in DOMAIN F
    BY <1>1, <1>14 DEF Holds
  <2>3. ASSUME NEW x \in DOMAIN F, ~Attached(F, x) PROVE x \in Y
    BY <1>8, <2>2, <2>3
  <2>4. ASSUME NEW x \in Y, F[x].firstChild # NULL PROVE F[x].firstChild \in Y
    <3> DEFINE c == F[x].firstChild
    <3>1. x \in DOMAIN F /\ x \in X /\ F[c].sibPrev = First(x)
      BY <1>6, <2>2, <2>4
    <3>2. CASE s = First(x)
      <4>1. c = f
        BY <1>3, <3>2, SlotFacts
      <4>2. x = e
        BY <2>1, <3>2, SlotFacts
      <4>3. f \in X
        BY <1>8, <2>2
      <4> QED BY <3>1, <4>1, <4>2, <4>3
    <3>3. CASE s # First(x)
      <4>1. G[x].firstChild = c
        BY <1>2, <3>1, <3>3
      <4>2. c # f
        BY <3>1, <3>3 DEF s
      <4> QED BY <2>2, <2>4, <3>1, <4>1, <4>2
    <3> QED BY <3>2, <3>3
  <2>5. ASSUME NEW x \in Y, F[x].sibNext # NULL PROVE F[x].sibNext \in Y
    <3> DEFINE c == F[x].sibNext
    <3>1. x \in DOMAIN F /\ x \in X /\ F[c].sibPrev = After(x)
      BY <1>6, <2>2, <2>5
    <3>2. CASE s = After(x)
      <4>1. c = f
        BY <1>3, <3>2, SlotFacts
      <4>2. x = e
        BY <2>1, <3>2, SlotFacts
      <4>3. f \in X
        BY <1>8, <2>2
      <4> QED BY <3>1, <4>1, <4>2, <4>3
    <3>3. CASE s # After(x) /\ x # f
      <4>1. G[x].sibNext = c
        BY <1>2, <3>1, <3>3
      <4>2. c # f
        BY <3>1, <3>3 DEF s
      <4> QED BY <2>2, <2>5, <3>1, <4>1, <4>2
    <3>4. CASE s # After(x) /\ x = f
      <4>1. c = next /\ next # f /\ e \in X /\ next # NULL
        BY <1>7, <2>5, <3>4 DEF next
      <4>2. CASE s = First(e)
        <5>1. G[e].firstChild = next
          BY <1>2, <4>2
        <5> QED BY <2>2, <4>1, <5>1
      <4>3. CASE s = After(e)
        <5>1. G[e].sibNext = next
          BY <1>2, <3>4, <4>3
        <5> QED BY <2>2, <4>1, <5>1
      <4> QED BY <2>1, <4>2, <4>3
    <3> QED BY <3>2, <3>3, <3>4
  <2>6. Holds(F, Y) /\ Y \in SUBSET DOMAIN F
    <3>1. Y \in SUBSET DOMAIN F
      BY <2>2
    <3> HIDE DEF Y
    <3> QED BY <2>3, <2>4, <2>5, <3>1 DEF Holds
  <2>7. Y = DOMAIN F
    BY <2>6 DEF Good, Grounded
  <2> QED BY <1>1, <2>7
<1>15. Good(G, R \cup {f})
  BY <1>13, <1>14 DEF Good, Grounded
<1> QED BY <1>8, <1>15

(* Putting a file that is in no folder into a folder that is not below it  *)
(* keeps the heap good.  Only here could a ring arise, and it does if the  *)
(* folder is below the file.                                               *)
LEMMA LinkGood ==
  ASSUME NEW F, NEW R, Good(F, R), NEW f \in DOMAIN F, ~Attached(F, f), f # root,
         NEW d \in DOMAIN F, F[d].folder, d \in R \/ Attached(F, d), d \notin Below(F, {f}),
         NEW slot, SlotOf(F, d, slot), NEW n \in Names, NEW G, Linked(F, G, f, d, slot, n)
  PROVE  /\ Good(G, R \ {f})
         /\ \A g \in DOMAIN F : Attached(G, g) <=> g = f \/ Attached(F, g)
<1> DEFINE next == Deref(F, slot)
           B == Below(F, {f})
<1>1. Heap(F, R) /\ HeapType(F) /\ HeapType(G) /\ SameKind(F, G) /\ DOMAIN G = DOMAIN F
  BY DEF Good, Linked, SameKind, Heap
<1>2. \A g \in DOMAIN F :
        /\ G[g].name = IF g = f THEN n ELSE F[g].name
        /\ G[g].parent = IF g = f THEN d ELSE F[g].parent
        /\ G[g].sibPrev = IF g = next THEN After(f) ELSE IF g = f THEN slot ELSE F[g].sibPrev
        /\ G[g].sibNext = IF slot = After(g) THEN f ELSE IF g = f THEN next ELSE F[g].sibNext
        /\ G[g].firstChild = IF slot = First(g) THEN f ELSE F[g].firstChild
        /\ G[g].folder = F[g].folder
  BY DEF Linked, SameKind
<1>3. \A x \in DOMAIN F :
        /\ F[x].firstChild # NULL =>
             F[x].firstChild \in Kids(F, x) /\ F[F[x].firstChild].sibPrev = First(x)
        /\ F[x].sibNext # NULL =>
             /\ Attached(F, x)
             /\ F[x].sibNext \in Kids(F, F[x].parent)
             /\ F[F[x].sibNext].sibPrev = After(x)
  BY <1>1, Pointees
<1>4. NULL \notin DOMAIN F
  BY <1>1, HeapFinite
<1>5. /\ f \in B
      /\ \A g \in DOMAIN F : Attached(F, g) /\ F[g].parent \in B => g \in B
      /\ \A g \in B : g = f \/ (Attached(F, g) /\ F[g].parent \in B)
      /\ B \subseteq DOMAIN F
  <2>1. {f} \in SUBSET DOMAIN F /\ {f} # {}
    OBVIOUS
  <2> QED BY <2>1, BelowIs
<1>6. d \notin B /\ d # f
  BY <1>5
<1> HIDE DEF next, B
<1>7. PICK e \in DOMAIN F : /\ slot = First(e) \/ slot = After(e)
                            /\ e = d \/ (Attached(F, e) /\ F[e].parent = d)
                            /\ slot = First(e) => e = d
                            /\ slot = After(e) => e \in Kids(F, d)
  BY SlotFacts DEF SlotOf, Kids
<1>8. slot # NoSlot /\ slot # After(f) /\ slot # First(f) /\ e # f
  BY <1>6, <1>7, SlotFacts DEF Kids
<1>9. next # NULL => next \in Kids(F, d) /\ F[next].sibPrev = slot
  BY <1>3, <1>7, SlotFacts DEF next, Kids
<1>10. next # f
  BY <1>4, <1>9 DEF Kids
<1>11. ASSUME NEW g \in DOMAIN F PROVE Attached(G, g) <=> g = f \/ Attached(F, g)
  <2>1. CASE g = f
    BY <1>2, <1>8, <1>10, <2>1 DEF Attached
  <2>2. CASE g = next
    <3>1. Attached(F, g)
      BY <1>4, <1>9, <2>2 DEF Kids
    <3> QED BY <1>2, <2>2, <3>1, SlotFacts DEF Attached
  <2>3. CASE g # f /\ g # next
    BY <1>2, <2>3 DEF Attached
  <2> QED BY <2>1, <2>2, <2>3
<1>12. \A a : \A g \in Kids(F, a) : g \in Kids(G, a)
  BY <1>1, <1>2, <1>11 DEF Kids
<1>13. f \in Kids(G, d)
  BY <1>1, <1>2, <1>11 DEF Kids
<1>14. ASSUME NEW g \in DOMAIN F, ~Attached(G, g) PROVE Top(G, R \ {f}, g)
  <2>1. g # f /\ ~Attached(F, g)
    BY <1>11, <1>14
  <2>2. Top(F, R, g)
    BY <1>1, <2>1 DEF Heap
  <2>3. slot # After(g)
    BY <1>7, <2>1, SlotFacts DEF Kids
  <2>4. slot = First(g) => g \in R
    BY <1>7, <2>1, SlotFacts
  <2> QED BY <1>2, <2>1, <2>2, <2>3, <2>4 DEF Top
<1>15. ASSUME NEW g \in DOMAIN F, Attached(G, g) PROVE Kid(G, R \ {f}, g)
  <2>1. CASE g = f
    <3>1. G[g].parent = d /\ G[g].name = n /\ G[g].sibPrev = slot
      BY <1>2, <1>10, <2>1
    <3>2. n # None
      BY ConstantsAssumption
    <3>3. SlotOf(G, d, slot)
      BY <1>7, <1>12 DEF SlotOf
    <3>4. Deref(G, slot) = f
      BY <1>2, <1>7, SlotFacts
    <3>5. d \in R \ {f} \/ Attached(G, d)
      BY <1>6, <1>11
    <3> QED BY <1>1, <1>2, <2>1, <3>1, <3>2, <3>3, <3>4, <3>5 DEF Kid
  <2>2. CASE g # f
    <3>1. Attached(F, g)
      BY <1>11, <1>15, <2>2
    <3>2. /\ F[g].parent \in DOMAIN F /\ F[F[g].parent].folder
          /\ F[g].parent \in R \/ Attached(F, F[g].parent)
          /\ F[g].name # None
          /\ SlotOf(F, F[g].parent, F[g].sibPrev)
          /\ Deref(F, F[g].sibPrev) = g
      BY <1>1, <3>1 DEF Heap, Kid
    <3>3. G[g].parent = F[g].parent /\ G[g].name = F[g].name
      BY <1>2, <2>2
    <3>4. G[g].parent \in R \ {f} \/ Attached(G, G[g].parent)
      BY <1>11, <3>2, <3>3
    <3>5. SlotOf(G, G[g].parent, G[g].sibPrev) /\ Deref(G, G[g].sibPrev) = g
      <4>1. CASE g = next
        <5>1. G[g].sibPrev = After(f) /\ F[g].parent = d
          BY <1>2, <1>4, <1>9, <4>1 DEF Kids
        <5>2. G[f].sibNext = next
          BY <1>2, <1>8
        <5> QED BY <1>13, <3>3, <4>1, <5>1, <5>2, SlotFacts DEF SlotOf
      <4>2. CASE g # next
        <5>1. G[g].sibPrev = F[g].sibPrev
          BY <1>2, <2>2, <4>2
        <5>2. F[g].sibPrev # slot
          BY <3>2, <4>2 DEF next
        <5>3. CASE F[g].sibPrev = First(F[g].parent)
          <6>1. G[F[g].parent].firstChild = F[F[g].parent].firstChild
            BY <1>2, <3>2, <5>2, <5>3
          <6> QED BY <3>2, <3>3, <5>1, <5>3, <6>1, SlotFacts DEF SlotOf
        <5>4. CASE F[g].sibPrev # First(F[g].parent)
          <6>1. PICK h \in Kids(F, F[g].parent) : F[g].sibPrev = After(h)
            BY <3>2, <5>4 DEF SlotOf
          <6>2. h # f /\ h \in DOMAIN F /\ h \in Kids(G, F[g].parent)
            BY <1>12, <6>1 DEF Kids
          <6>3. G[h].sibNext = F[h].sibNext
            BY <1>2, <5>2, <6>1, <6>2
          <6> QED BY <3>2, <3>3, <5>1, <6>1, <6>2, <6>3, SlotFacts DEF SlotOf
        <5> QED BY <5>3, <5>4
      <4> QED BY <4>1, <4>2
    <3> QED BY <1>1, <1>2, <3>2, <3>3, <3>4, <3>5 DEF Kid
  <2> QED BY <2>1, <2>2
<1>16. ASSUME NEW g \in DOMAIN F PROVE PointsBack(G, g)
  <2>1. ASSUME G[g].firstChild # NULL
        PROVE  /\ G[g].folder
               /\ G[g].firstChild \in DOMAIN F
               /\ G[G[g].firstChild].sibPrev = First(g)
    <3>1. CASE slot = First(g)
      <4>1. g = d /\ G[g].firstChild = f
        BY <1>2, <1>7, <3>1, SlotFacts
      <4>2. G[f].sibPrev = slot
        BY <1>2, <1>10
      <4> QED BY <1>2, <3>1, <4>1, <4>2
    <3>2. CASE slot # First(g)
      <4> DEFINE c == F[g].firstChild
      <4>1. c = G[g].firstChild /\ c # NULL
        BY <1>2, <2>1, <3>2
      <4>2. c \in DOMAIN F /\ F[c].sibPrev = First(g) /\ Attached(F, c)
        BY <1>3, <4>1 DEF Kids
      <4>3. c # f /\ c # next
        BY <1>9, <3>2, <4>1, <4>2
      <4>4. G[g].folder
        BY <1>1, <1>2, <4>1 DEF Heap, PointsBack
      <4> HIDE DEF c
      <4> QED BY <1>2, <4>1, <4>2, <4>3, <4>4
    <3> QED BY <3>1, <3>2
  <2>2. ASSUME G[g].sibNext # NULL
        PROVE  G[g].sibNext \in DOMAIN F /\ G[G[g].sibNext].sibPrev = After(g)
    <3>1. CASE slot = After(g)
      <4>1. G[g].sibNext = f /\ G[f].sibPrev = slot
        BY <1>2, <1>10, <3>1
      <4> QED BY <3>1, <4>1
    <3>2. CASE slot # After(g) /\ g = f
      <4>1. G[g].sibNext = next
        BY <1>2, <3>2
      <4>2. next \in DOMAIN F
        BY <1>9, <2>2, <4>1 DEF Kids
      <4> QED BY <1>2, <3>2, <4>1, <4>2
    <3>3. CASE slot # After(g) /\ g # f
      <4> DEFINE c == F[g].sibNext
      <4>1. c = G[g].sibNext /\ c # NULL
        BY <1>2, <2>2, <3>3
      <4>2. c \in DOMAIN F /\ F[c].sibPrev = After(g) /\ Attached(F, c)
        BY <1>3, <4>1 DEF Kids
      <4>3. c # f /\ c # next
        BY <1>9, <3>3, <4>1, <4>2
      <4> HIDE DEF c
      <4> QED BY <1>2, <4>1, <4>2, <4>3
    <3> QED BY <3>1, <3>2, <3>3
  <2> QED BY <1>1, <2>1, <2>2 DEF PointsBack
<1>17. Heap(G, R \ {f})
  <2>1. ~Attached(G, root) /\ G[root].folder
    <3>1. root \in DOMAIN F /\ ~Attached(F, root) /\ F[root].folder
      BY <1>1 DEF Heap, HeapType
    <3> QED BY <1>2, <1>11, <3>1
  <2> QED BY <1>1, <1>14, <1>15, <1>16, <2>1 DEF Heap
<1>18. ASSUME NEW X \in SUBSET DOMAIN G, Holds(G, X) PROVE X = DOMAIN G
  <2>1. /\ \A x \in DOMAIN F : ~Attached(G, x) => x \in X
        /\ \A x \in X : G[x].firstChild # NULL => G[x].firstChild \in X
        /\ \A x \in X : G[x].sibNext # NULL => G[x].sibNext \in X
        /\ \A x \in X : x \in DOMAIN F
    BY <1>1, <1>18 DEF Holds
  <2>2. ASSUME NEW x \in X, F[x].firstChild # NULL PROVE F[x].firstChild \in X
    <3>1. CASE slot = First(x)
      <4>1. F[x].firstChild = next /\ G[x].firstChild = f
        BY <1>2, <2>1, <3>1, SlotFacts DEF next
      <4>2. f \in X
        BY <1>4, <2>1, <4>1
      <4>3. G[f].sibNext = next
        BY <1>2, <1>8
      <4> QED BY <2>1, <2>2, <4>1, <4>2, <4>3
    <3>2. CASE slot # First(x)
      <4>1. G[x].firstChild = F[x].firstChild
        BY <1>2, <2>1, <3>2
      <4> QED BY <2>1, <2>2, <4>1
    <3> QED BY <3>1, <3>2
  <2>3. ASSUME NEW x \in X, F[x].sibNext # NULL PROVE F[x].sibNext \in X
    <3>1. x # f
      <4>1. x \in DOMAIN F
        BY <2>1
      <4> QED BY <1>3, <2>3, <4>1
    <3>2. CASE slot = After(x)
      <4>1. F[x].sibNext = next /\ G[x].sibNext = f
        BY <1>2, <2>1, <3>2, SlotFacts DEF next
      <4>2. f \in X
        BY <1>4, <2>1, <4>1
      <4>3. G[f].sibNext = next
        BY <1>2, <1>8
      <4> QED BY <2>1, <2>3, <4>1, <4>2, <4>3
    <3>3. CASE slot # After(x)
      <4>1. G[x].sibNext = F[x].sibNext
        BY <1>2, <2>1, <3>1, <3>3
      <4> QED BY <2>1, <2>3, <4>1
    <3> QED BY <3>2, <3>3
  <2> DEFINE Y == X \cup B
  <2>4. Holds(F, Y) /\ Y \in SUBSET DOMAIN F
    <3>1. ASSUME NEW x \in DOMAIN F, ~Attached(F, x) PROVE x \in Y
      BY <1>5, <1>11, <2>1, <3>1
    <3>2. ASSUME NEW x \in Y, F[x].firstChild # NULL PROVE F[x].firstChild \in Y
      <4>1. CASE x \in B
        BY <1>3, <1>5, <3>2, <4>1 DEF Kids
      <4>2. CASE x \in X
        BY <2>2, <3>2, <4>2
      <4> QED BY <4>1, <4>2
    <3>3. ASSUME NEW x \in Y, F[x].sibNext # NULL PROVE F[x].sibNext \in Y
      <4>1. CASE x \in B
        BY <1>3, <1>5, <3>3, <4>1 DEF Kids
      <4>2. CASE x \in X
        BY <2>3, <3>3, <4>2
      <4> QED BY <4>1, <4>2
    <3>4. Y \in SUBSET DOMAIN F
      BY <1>5, <2>1
    <3> HIDE DEF Y
    <3> QED BY <3>1, <3>2, <3>3, <3>4 DEF Holds
  <2>5. Y = DOMAIN F
    <3> HIDE DEF Y
    <3> QED BY <2>4 DEF Good, Grounded
  <2>6. e \in X
    BY <1>5, <1>6, <1>7, <1>8, <2>5
  <2>7. f \in X
    <3>1. CASE slot = First(e)
      BY <1>2, <1>4, <2>1, <2>6, <3>1
    <3>2. CASE slot = After(e)
      BY <1>2, <1>4, <2>1, <2>6, <3>2
    <3> QED BY <1>7, <3>1, <3>2
  <2>8. Holds(F, X) /\ X \in SUBSET DOMAIN F
    <3>1. ASSUME NEW x \in DOMAIN F, ~Attached(F, x) PROVE x \in X
      BY <1>11, <2>1, <2>7, <3>1
    <3> QED BY <1>1, <2>2, <2>3, <3>1 DEF Holds
  <2> QED BY <1>1, <2>8 DEF Good, Grounded
<1>19. Good(G, R \ {f})
  BY <1>17, <1>18 DEF Good, Grounded
<1> QED BY <1>11, <1>19

Pruned(F, G, f) ==
  LET P == Below(F, {f}) \ {f}
  IN  /\ HeapType(G)
      /\ SameKind(F, G)
      /\ \A g \in DOMAIN F :
           /\ g \in P => /\ G[g].parent = NULL
                         /\ G[g].sibPrev = NoSlot
                         /\ G[g].sibNext = NULL
                         /\ G[g].name = None
                         /\ G[g].firstChild = NULL
           /\ g \notin P => /\ G[g].parent = F[g].parent
                            /\ G[g].sibPrev = F[g].sibPrev
                            /\ G[g].sibNext = F[g].sibNext
                            /\ G[g].name = F[g].name
                            /\ G[g].firstChild = IF g = f THEN NULL ELSE F[g].firstChild

(* File::Delete of all that is below a file, field by field. *)
LEMMA PruneFields ==
  ASSUME NEW F, HeapType(F), NEW f \in DOMAIN F
  PROVE  Pruned(F, Prune(F, f), f)
<1> DEFINE G == Prune(F, f)
           P == Below(F, {f}) \ {f}
           Bare(g) == [F[g] EXCEPT !.parent = NULL, !.sibPrev = NoSlot, !.sibNext = NULL,
                                   !.name = None, !.firstChild = NULL]
           Empty(g) == [F[g] EXCEPT !.firstChild = NULL]
<1>1. NULL \in 0..MaxFiles
  BY ConstantsAssumption DEF NULL
<1>2. DOMAIN G = DOMAIN F
  BY DEF Prune
<1>3. ASSUME NEW g \in DOMAIN F
      PROVE  G[g] = IF g \in P THEN Bare(g) ELSE IF g = f THEN Empty(g) ELSE F[g]
  BY DEF Prune
<1> HIDE DEF G, P
<1>4. ASSUME NEW g \in DOMAIN F
      PROVE  /\ G[g] \in File
             /\ G[g].folder = F[g].folder
             /\ G[g].type = F[g].type
             /\ G[g].open = F[g].open
             /\ G[g].ahead = F[g].ahead
             /\ g \in P => /\ G[g].parent = NULL
                           /\ G[g].sibPrev = NoSlot
                           /\ G[g].sibNext = NULL
                           /\ G[g].name = None
                           /\ G[g].firstChild = NULL
             /\ g \notin P => /\ G[g].parent = F[g].parent
                              /\ G[g].sibPrev = F[g].sibPrev
                              /\ G[g].sibNext = F[g].sibNext
                              /\ G[g].name = F[g].name
                              /\ G[g].firstChild = IF g = f THEN NULL ELSE F[g].firstChild
  <2>1. F[g] \in File
    BY DEF HeapType
  <2>2. CASE g \in P
    <3>1. PICK r, q : r = F[g] /\ q = G[g]
      OBVIOUS
    <3>2. q = [r EXCEPT !.parent = NULL, !.sibPrev = NoSlot, !.sibNext = NULL,
                        !.name = None, !.firstChild = NULL]
      BY <1>3, <2>2, <3>1
    <3>3. r \in File
      BY <2>1, <3>1
    <3>4. /\ q.folder = r.folder
          /\ q.type = r.type
          /\ q.open = r.open
          /\ q.ahead = r.ahead
          /\ q.parent = NULL
          /\ q.sibPrev = NoSlot
          /\ q.sibNext = NULL
          /\ q.name = None
          /\ q.firstChild = NULL
      BY <3>2, <3>3 DEF File
    <3>5. q \in File
      BY <1>1, <3>2, <3>3 DEF File
    <3> QED BY <2>2, <3>1, <3>4, <3>5
  <2>3. CASE g \notin P /\ g = f
    <3>1. G[g] = Empty(g)
      BY <1>3, <2>3
    <3> QED BY <1>1, <2>1, <2>3, <3>1 DEF File
  <2>4. CASE g \notin P /\ g # f
    <3>1. G[g] = F[g]
      BY <1>3, <2>4
    <3> QED BY <2>1, <2>4, <3>1
  <2> QED BY <2>2, <2>3, <2>4
<1>5. G \in [DOMAIN F -> File]
  <2>1. G = [g \in DOMAIN F |-> G[g]]
    BY DEF Prune, G
  <2> QED BY <1>4, <2>1
<1>6. HeapType(G)
  BY <1>2, <1>5 DEF HeapType
<1>7. SameKind(F, G)
  BY <1>2, <1>4 DEF SameKind
<1> QED BY <1>4, <1>6, <1>7 DEF Pruned, G, P

(* Taking out all that is below a file keeps the heap good. *)
LEMMA PruneGood ==
  ASSUME NEW F, NEW R, Good(F, R), NEW f \in DOMAIN F, Attached(F, f),
         NEW G, Pruned(F, G, f)
  PROVE  /\ Good(G, R)
         /\ G[f].firstChild = NULL
         /\ \A g \in DOMAIN F :
              Attached(G, g) <=> Attached(F, g) /\ g \notin Below(F, {f}) \ {f}
<1> DEFINE B == Below(F, {f})
           P == Below(F, {f}) \ {f}
<1>1. Heap(F, R) /\ HeapType(F) /\ HeapType(G) /\ DOMAIN G = DOMAIN F
  BY DEF Good, Pruned, SameKind, Heap
<1>2. \A g \in DOMAIN F :
        /\ g \in P => /\ G[g].parent = NULL
                      /\ G[g].sibPrev = NoSlot
                      /\ G[g].sibNext = NULL
                      /\ G[g].name = None
                      /\ G[g].firstChild = NULL
        /\ g \notin P => /\ G[g].parent = F[g].parent
                         /\ G[g].sibPrev = F[g].sibPrev
                         /\ G[g].sibNext = F[g].sibNext
                         /\ G[g].name = F[g].name
                         /\ G[g].firstChild = IF g = f THEN NULL ELSE F[g].firstChild
        /\ G[g].folder = F[g].folder
  BY DEF Pruned, SameKind
<1>3. \A x \in DOMAIN F :
        /\ F[x].firstChild # NULL =>
             F[x].firstChild \in Kids(F, x) /\ F[F[x].firstChild].sibPrev = First(x)
        /\ F[x].sibNext # NULL =>
             /\ Attached(F, x)
             /\ F[x].sibNext \in Kids(F, F[x].parent)
             /\ F[F[x].sibNext].sibPrev = After(x)
  BY <1>1, Pointees
<1>4. /\ f \in B
      /\ \A g \in DOMAIN F : Attached(F, g) /\ F[g].parent \in B => g \in B
      /\ \A g \in B : g = f \/ (Attached(F, g) /\ F[g].parent \in B)
      /\ B \subseteq DOMAIN F
  <2>1. {f} \in SUBSET DOMAIN F /\ {f} # {}
    OBVIOUS
  <2> QED BY <2>1, BelowIs
<1>5. F[f].parent \notin B
  BY NotBelowItself
<1>6. P = B \ {f}
  OBVIOUS
<1> HIDE DEF B, P
(* What is removed is what has its parent below. *)
<1>7. \A g \in DOMAIN F : Attached(F, g) => (g \in P <=> F[g].parent \in B)
  BY <1>4, <1>5, <1>6
<1>8. \A g \in P : Attached(F, g)
  BY <1>4, <1>6
<1>9. ASSUME NEW g \in DOMAIN F PROVE Attached(G, g) <=> Attached(F, g) /\ g \notin P
  BY <1>2 DEF Attached
<1>10. ASSUME NEW g \in DOMAIN F, ~Attached(G, g) PROVE Top(G, R, g)
  <2>1. CASE g \in P
    BY <1>2, <2>1 DEF Top
  <2>2. CASE g \notin P
    <3>1. Top(F, R, g)
      BY <1>1, <1>9, <1>10, <2>2 DEF Heap
    <3> QED BY <1>2, <2>2, <3>1 DEF Top
  <2> QED BY <2>1, <2>2
<1>11. ASSUME NEW g \in DOMAIN F, Attached(G, g) PROVE Kid(G, R, g)
  <2>1. Attached(F, g) /\ g \notin P
    BY <1>9, <1>11
  <2>2. /\ F[g].parent \in DOMAIN F /\ F[F[g].parent].folder
        /\ F[g].parent \in R \/ Attached(F, F[g].parent)
        /\ F[g].name # None
        /\ SlotOf(F, F[g].parent, F[g].sibPrev)
        /\ Deref(F, F[g].sibPrev) = g
    BY <1>1, <2>1 DEF Heap, Kid
  <2>3. F[g].parent \notin B /\ F[g].parent \notin P /\ F[g].parent # f
    BY <1>4, <1>6, <1>7, <2>1
  <2>4. /\ G[g].parent = F[g].parent
        /\ G[g].name = F[g].name
        /\ G[g].sibPrev = F[g].sibPrev
    BY <1>2, <2>1
  <2>5. G[g].parent \in R \/ Attached(G, G[g].parent)
    BY <1>9, <2>2, <2>3, <2>4
  <2>6. SlotOf(G, G[g].parent, G[g].sibPrev) /\ Deref(G, G[g].sibPrev) = g
    <3>1. CASE F[g].sibPrev = First(F[g].parent)
      <4>1. G[F[g].parent].firstChild = F[F[g].parent].firstChild
        BY <1>2, <2>2, <2>3
      <4> QED BY <2>2, <2>4, <3>1, <4>1, SlotFacts DEF SlotOf
    <3>2. CASE F[g].sibPrev # First(F[g].parent)
      <4>1. PICK h \in Kids(F, F[g].parent) : F[g].sibPrev = After(h)
        BY <2>2, <3>2 DEF SlotOf
      <4>2. h \in DOMAIN F /\ h \notin P
        BY <1>7, <2>3 DEF Kids
      <4>3. h \in Kids(G, F[g].parent) /\ G[h].sibNext = F[h].sibNext
        BY <1>1, <1>2, <1>9, <4>2 DEF Kids
      <4> QED BY <2>2, <2>4, <4>1, <4>3, SlotFacts DEF SlotOf
    <3> QED BY <3>1, <3>2
  <2> QED BY <1>1, <1>2, <2>2, <2>4, <2>5, <2>6 DEF Kid
<1>12. ASSUME NEW g \in DOMAIN F PROVE PointsBack(G, g)
  <2>1. ASSUME G[g].firstChild # NULL
        PROVE  /\ G[g].folder
               /\ G[g].firstChild \in DOMAIN F
               /\ G[G[g].firstChild].sibPrev = First(g)
    <3> DEFINE c == F[g].firstChild
    <3>1. g \notin P /\ g # f /\ c = G[g].firstChild
      BY <1>2, <2>1
    <3>2. c \in Kids(F, g) /\ F[c].sibPrev = First(g)
      BY <1>3, <2>1, <3>1
    <3>3. c \in DOMAIN F /\ c \notin P
      BY <1>6, <1>7, <3>1, <3>2 DEF Kids
    <3>4. G[g].folder
      BY <1>1, <1>2, <2>1, <3>1 DEF Heap, PointsBack
    <3> HIDE DEF c
    <3> QED BY <1>2, <3>1, <3>2, <3>3, <3>4
  <2>2. ASSUME G[g].sibNext # NULL
        PROVE  G[g].sibNext \in DOMAIN F /\ G[G[g].sibNext].sibPrev = After(g)
    <3> DEFINE c == F[g].sibNext
    <3>1. g \notin P /\ c = G[g].sibNext
      BY <1>2, <2>2
    <3>2. Attached(F, g) /\ c \in Kids(F, F[g].parent) /\ F[c].sibPrev = After(g)
      BY <1>3, <2>2, <3>1
    <3>3. c \in DOMAIN F /\ c \notin P
      BY <1>7, <3>1, <3>2 DEF Kids
    <3> HIDE DEF c
    <3> QED BY <1>2, <3>1, <3>2, <3>3
  <2> QED BY <1>1, <2>1, <2>2 DEF PointsBack
<1>13. Heap(G, R)
  <2>1. ~Attached(G, root) /\ G[root].folder
    <3>1. root \in DOMAIN F /\ ~Attached(F, root) /\ F[root].folder
      BY <1>1 DEF Heap, HeapType
    <3> QED BY <1>2, <1>9, <3>1
  <2> QED BY <1>1, <1>10, <1>11, <1>12, <2>1 DEF Heap
<1>14. ASSUME NEW X \in SUBSET DOMAIN G, Holds(G, X) PROVE X = DOMAIN G
  <2>1. /\ \A x \in DOMAIN F : ~Attached(G, x) => x \in X
        /\ \A x \in X : G[x].firstChild # NULL => G[x].firstChild \in X
        /\ \A x \in X : G[x].sibNext # NULL => G[x].sibNext \in X
        /\ \A x \in X : x \in DOMAIN F
    BY <1>1, <1>14 DEF Holds
  <2>2. \A x \in P : x \in X
    BY <1>4, <1>6, <1>9, <2>1
  <2>3. ASSUME NEW x \in X, F[x].firstChild # NULL PROVE F[x].firstChild \in X
    <3>1. x \in DOMAIN F /\ F[x].firstChild \in Kids(F, x)
      BY <1>3, <2>1, <2>3
    <3>2. CASE x \in B
      BY <1>7, <2>2, <3>1, <3>2 DEF Kids
    <3>3. CASE x \notin B
      BY <1>2, <1>4, <1>6, <2>1, <2>3, <3>1, <3>3
    <3> QED BY <3>2, <3>3
  <2>4. ASSUME NEW x \in X, F[x].sibNext # NULL PROVE F[x].sibNext \in X
    <3>1. x \in DOMAIN F /\ Attached(F, x) /\ F[x].sibNext \in Kids(F, F[x].parent)
      BY <1>3, <2>1, <2>4
    <3>2. CASE x \in P
      BY <1>7, <2>2, <3>1, <3>2 DEF Kids
    <3>3. CASE x \notin P
      BY <1>2, <2>1, <2>4, <3>1, <3>3
    <3> QED BY <3>2, <3>3
  <2>5. Holds(F, X)
    BY <1>9, <2>1, <2>3, <2>4 DEF Holds
  <2> QED BY <1>1, <2>5 DEF Good, Grounded
<1>15. Good(G, R)
  BY <1>13, <1>14 DEF Good, Grounded
<1>16. G[f].firstChild = NULL
  BY <1>2, <1>6
<1> QED BY <1>9, <1>15, <1>16 DEF P

(* Only what the driver knows or the name of files has changed. *)
SameLinks(F, G) ==
  /\ HeapType(G)
  /\ DOMAIN G = DOMAIN F
  /\ \A f \in DOMAIN F :
       /\ G[f].folder = F[f].folder
       /\ G[f].parent = F[f].parent
       /\ G[f].sibPrev = F[f].sibPrev
       /\ G[f].sibNext = F[f].sibNext
       /\ G[f].firstChild = F[f].firstChild
       /\ IF Attached(F, f) THEN G[f].name # None ELSE G[f].name = F[f].name

(* Handles and names have nothing to do with the pointers. *)
LEMMA SameLinksGood ==
  ASSUME NEW F, NEW R, Good(F, R), NEW G, SameLinks(F, G)
  PROVE  /\ Good(G, R)
         /\ \A f \in DOMAIN F : Attached(G, f) <=> Attached(F, f)
<1>1. Heap(F, R) /\ HeapType(F) /\ HeapType(G) /\ DOMAIN G = DOMAIN F
  BY DEF Good, Heap, SameLinks
<1>2. \A f \in DOMAIN F :
        /\ G[f].folder = F[f].folder
        /\ G[f].parent = F[f].parent
        /\ G[f].sibPrev = F[f].sibPrev
        /\ G[f].sibNext = F[f].sibNext
        /\ G[f].firstChild = F[f].firstChild
        /\ IF Attached(F, f) THEN G[f].name # None ELSE G[f].name = F[f].name
  BY DEF SameLinks
<1>3. \A f \in DOMAIN F : Attached(G, f) <=> Attached(F, f)
  BY <1>2 DEF Attached
<1>4. \A d : Kids(G, d) = Kids(F, d)
  BY <1>1, <1>2, <1>3 DEF Kids
<1>5. ASSUME NEW f \in DOMAIN F, ~Attached(G, f) PROVE Top(G, R, f)
  BY <1>1, <1>2, <1>3, <1>5 DEF Heap, Top
<1>6. ASSUME NEW f \in DOMAIN F, Attached(G, f) PROVE Kid(G, R, f)
  <2>1. /\ F[f].parent \in DOMAIN F /\ F[F[f].parent].folder
        /\ F[f].parent \in R \/ Attached(F, F[f].parent)
        /\ SlotOf(F, F[f].parent, F[f].sibPrev)
        /\ Deref(F, F[f].sibPrev) = f
    BY <1>1, <1>3, <1>6 DEF Heap, Kid
  <2>2. SlotOf(G, G[f].parent, G[f].sibPrev)
    BY <1>2, <1>4, <2>1 DEF SlotOf
  <2>3. PICK e \in DOMAIN F : F[f].sibPrev = First(e) \/ F[f].sibPrev = After(e)
    BY <1>1, <2>1, SlotOwner
  <2>4. Deref(G, G[f].sibPrev) = f
    BY <1>2, <2>1, <2>3, SlotFacts
  <2> QED BY <1>1, <1>2, <1>3, <1>6, <2>1, <2>2, <2>4 DEF Kid
<1>7. ASSUME NEW f \in DOMAIN F PROVE PointsBack(G, f)
  <2>1. PointsBack(F, f)
    BY <1>1 DEF Heap
  <2> QED BY <1>1, <1>2, <2>1 DEF PointsBack
<1>8. Heap(G, R)
  <2>1. ~Attached(G, root) /\ G[root].folder
    BY <1>1, <1>2, <1>3 DEF Heap, HeapType
  <2> QED BY <1>1, <1>5, <1>6, <1>7, <2>1 DEF Heap
<1>9. ASSUME NEW X \in SUBSET DOMAIN G, Holds(G, X) PROVE X = DOMAIN G
  <2>1. \A x \in X : x \in DOMAIN F
    BY <1>1
  <2>2. Holds(F, X)
    BY <1>1, <1>2, <1>3, <1>9, <2>1 DEF Holds
  <2> QED BY <1>1, <2>2 DEF Good, Grounded
<1> QED BY <1>3, <1>8, <1>9 DEF Good, Grounded

(* A new file that is in no folder. *)
LEMMA AddGood ==
  ASSUME NEW F, NEW R, Good(F, R), NEW id \in 1..MaxFiles, id \notin DOMAIN F,
         NEW r \in File, r.parent = NULL, r.sibPrev = NoSlot, r.sibNext = NULL,
         r.firstChild = NULL, r.name = None,
         NEW G, G = [g \in DOMAIN F \cup {id} |-> IF g = id THEN r ELSE F[g]]
  PROVE  /\ Good(G, R)
         /\ DOMAIN G = DOMAIN F \cup {id} /\ G[id] = r /\ ~Attached(G, id)
         /\ \A f \in DOMAIN F : G[f] = F[f] /\ (Attached(G, f) <=> Attached(F, f))
         /\ \A d : Kids(G, d) = Kids(F, d)
<1>1. Heap(F, R) /\ HeapType(F)
  BY DEF Good, Heap
<1>2. /\ DOMAIN G = DOMAIN F \cup {id} /\ G[id] = r
      /\ \A f \in DOMAIN F : G[f] = F[f]
  OBVIOUS
<1>3. ~Attached(G, id) /\ \A f \in DOMAIN F : Attached(G, f) <=> Attached(F, f)
  BY <1>2 DEF Attached
<1>4. \A d : Kids(G, d) = Kids(F, d)
  BY <1>2, <1>3 DEF Kids
<1>5. HeapType(G)
  <2>1. \A f \in DOMAIN F : F[f] \in File
    BY <1>1 DEF HeapType
  <2>2. G \in [DOMAIN F \cup {id} -> File]
    BY <2>1
  <2> QED BY <1>1, <1>2, <2>2 DEF HeapType
<1>6. ASSUME NEW f \in DOMAIN G, ~Attached(G, f) PROVE Top(G, R, f)
  <2>1. CASE f = id
    BY <1>2, <2>1 DEF Top
  <2>2. CASE f # id
    BY <1>1, <1>2, <1>3, <1>6, <2>2 DEF Heap, Top
  <2> QED BY <2>1, <2>2
<1>7. ASSUME NEW f \in DOMAIN G, Attached(G, f) PROVE Kid(G, R, f)
  <2>1. f \in DOMAIN F /\ Attached(F, f) /\ G[f] = F[f]
    BY <1>2, <1>3, <1>7
  <2>2. /\ F[f].parent \in DOMAIN F /\ F[F[f].parent].folder
        /\ F[f].parent \in R \/ Attached(F, F[f].parent)
        /\ F[f].name # None
        /\ SlotOf(F, F[f].parent, F[f].sibPrev)
        /\ Deref(F, F[f].sibPrev) = f
    BY <1>1, <2>1 DEF Heap, Kid
  <2>3. SlotOf(G, F[f].parent, F[f].sibPrev)
    BY <1>4, <2>2 DEF SlotOf
  <2>4. PICK e \in DOMAIN F : F[f].sibPrev = First(e) \/ F[f].sibPrev = After(e)
    BY <1>1, <2>2, SlotOwner
  <2>5. Deref(G, F[f].sibPrev) = f
    BY <1>2, <2>2, <2>4, SlotFacts
  <2> QED BY <1>2, <1>3, <2>1, <2>2, <2>3, <2>5 DEF Kid
<1>8. ASSUME NEW f \in DOMAIN G PROVE PointsBack(G, f)
  <2>1. CASE f = id
    BY <1>2, <2>1 DEF PointsBack
  <2>2. CASE f # id
    <3>1. f \in DOMAIN F /\ G[f] = F[f] /\ PointsBack(F, f)
      BY <1>1, <1>2, <2>2 DEF Heap
    <3> QED BY <1>2, <3>1 DEF PointsBack
  <2> QED BY <2>1, <2>2
<1>9. Heap(G, R)
  <2>1. ~Attached(G, root) /\ G[root].folder
    BY <1>1, <1>2, <1>3 DEF Heap, HeapType
  <2> QED BY <1>5, <1>6, <1>7, <1>8, <2>1 DEF Heap
<1>10. ASSUME NEW X \in SUBSET DOMAIN G, Holds(G, X) PROVE X = DOMAIN G
  <2> DEFINE Y == X \cap DOMAIN F
  <2>1. id \in X
    BY <1>2, <1>3, <1>10 DEF Holds
  <2>2. \A x \in DOMAIN F : ~Attached(F, x) => x \in Y
    BY <1>2, <1>3, <1>10 DEF Holds
  <2>3. ASSUME NEW x \in Y, F[x].firstChild # NULL PROVE F[x].firstChild \in Y
    <3>1. F[x].firstChild \in DOMAIN F
      BY <1>1, <2>3, Pointees DEF Kids
    <3> QED BY <1>2, <1>10, <2>3, <3>1 DEF Holds
  <2>4. ASSUME NEW x \in Y, F[x].sibNext # NULL PROVE F[x].sibNext \in Y
    <3>1. F[x].sibNext \in DOMAIN F
      BY <1>1, <2>4, Pointees DEF Kids
    <3> QED BY <1>2, <1>10, <2>4, <3>1 DEF Holds
  <2>5. Holds(F, Y) /\ Y \in SUBSET DOMAIN F
    BY <2>2, <2>3, <2>4 DEF Holds
  <2>6. Y = DOMAIN F
    <3> HIDE DEF Y
    <3> QED BY <2>5 DEF Good, Grounded
  <2> QED BY <1>2, <2>1, <2>6
<1> QED BY <1>2, <1>3, <1>4, <1>9, <1>10 DEF Good, Grounded

(* Files that are in no folder, and no folders, go. *)
LEMMA DropGood ==
  ASSUME NEW F, NEW R, Good(F, R), NEW kept \in SUBSET DOMAIN F, root \in kept,
         R \cap DOMAIN F \subseteq kept, \A f \in DOMAIN F \ kept : ~Attached(F, f),
         NEW G, G = [f \in kept |-> F[f]]
  PROVE  /\ Good(G, R)
         /\ \A f \in kept : Attached(G, f) <=> Attached(F, f)
         /\ \A d : Kids(G, d) = Kids(F, d)
<1>1. Heap(F, R) /\ HeapType(F)
  BY DEF Good, Heap
<1>2. DOMAIN G = kept /\ \A f \in kept : G[f] = F[f] /\ f \in DOMAIN F
  OBVIOUS
<1>3. \A f \in kept : Attached(G, f) <=> Attached(F, f)
  BY <1>2 DEF Attached
<1>4. \A f \in DOMAIN F : Attached(F, f) => f \in kept
  OBVIOUS
<1>5. \A d : Kids(G, d) = Kids(F, d)
  BY <1>2, <1>3, <1>4 DEF Kids
<1>6. HeapType(G)
  BY <1>1, <1>2 DEF HeapType
<1>7. ASSUME NEW f \in DOMAIN G, ~Attached(G, f) PROVE Top(G, R, f)
  BY <1>1, <1>2, <1>3, <1>7 DEF Heap, Top
<1>8. ASSUME NEW f \in DOMAIN G, Attached(G, f) PROVE Kid(G, R, f)
  <2>1. f \in DOMAIN F /\ Attached(F, f) /\ G[f] = F[f]
    BY <1>2, <1>3, <1>8
  <2>2. /\ F[f].parent \in DOMAIN F /\ F[F[f].parent].folder
        /\ F[f].parent \in R \/ Attached(F, F[f].parent)
        /\ F[f].name # None
        /\ SlotOf(F, F[f].parent, F[f].sibPrev)
        /\ Deref(F, F[f].sibPrev) = f
    BY <1>1, <2>1 DEF Heap, Kid
  <2>3. F[f].parent \in kept
    BY <1>4, <2>2
  <2>4. SlotOf(G, F[f].parent, F[f].sibPrev)
    BY <1>5, <2>2 DEF SlotOf
  <2>5. PICK e \in kept : F[f].sibPrev = First(e) \/ F[f].sibPrev = After(e)
    BY <1>4, <2>2, <2>3 DEF SlotOf, Kids
  <2>6. Deref(G, F[f].sibPrev) = f
    BY <1>2, <2>2, <2>5, SlotFacts
  <2> QED BY <1>2, <1>3, <2>1, <2>2, <2>3, <2>4, <2>6 DEF Kid
<1>9. ASSUME NEW f \in DOMAIN G PROVE PointsBack(G, f)
  <2>1. G[f] = F[f] /\ f \in DOMAIN F
    BY <1>2
  <2>2. /\ F[f].firstChild # NULL => F[f].firstChild \in kept
        /\ F[f].sibNext # NULL => F[f].sibNext \in kept
    BY <1>1, <1>4, <2>1, Pointees DEF Kids
  <2>3. PointsBack(F, f)
    BY <1>1, <2>1 DEF Heap
  <2> QED BY <1>2, <2>1, <2>2, <2>3 DEF PointsBack
<1>10. Heap(G, R)
  <2>1. ~Attached(G, root) /\ G[root].folder
    BY <1>1, <1>2, <1>3 DEF Heap
  <2> QED BY <1>6, <1>7, <1>8, <1>9, <2>1 DEF Heap
<1>11. ASSUME NEW X \in SUBSET DOMAIN G, Holds(G, X) PROVE X = DOMAIN G
  <2> DEFINE Y == X \cup (DOMAIN F \ kept)
  <2>1. \A x \in DOMAIN F : ~Attached(F, x) => x \in Y
    BY <1>2, <1>3, <1>11 DEF Holds
  <2>2. ASSUME NEW x \in Y PROVE /\ F[x].firstChild # NULL => F[x].firstChild \in Y
                                 /\ F[x].sibNext # NULL => F[x].sibNext \in Y
    <3>1. CASE x \in X
      BY <1>2, <1>11, <3>1 DEF Holds
    <3>2. CASE x \notin X
      <4>1. x \in DOMAIN F /\ x \notin kept /\ ~Attached(F, x)
        BY <3>2
      <4>2. Top(F, R, x) /\ x \notin R
        BY <1>1, <4>1 DEF Heap
      <4> QED BY <4>2 DEF Top
    <3> QED BY <3>1, <3>2
  <2>3. Holds(F, Y) /\ Y \in SUBSET DOMAIN F
    BY <1>2, <2>1, <2>2 DEF Holds
  <2>4. Y = DOMAIN F
    <3> HIDE DEF Y
    <3> QED BY <2>3 DEF Good, Grounded
  <2> QED BY <1>2, <2>4
<1> QED BY <1>3, <1>5, <1>10, <1>11 DEF Good, Grounded

(* The files that may have children, without one that has none. *)
LEMMA FewerRoots ==
  ASSUME NEW F, NEW R, NEW f \in DOMAIN F, Good(F, R \cup {f}), ~Attached(F, f), f \notin R,
         F[f].firstChild = NULL
  PROVE  Good(F, R)
<1>1. Heap(F, R \cup {f}) /\ Grounded(F)
  BY DEF Good
<1>2. ASSUME NEW g \in DOMAIN F, ~Attached(F, g) PROVE Top(F, R, g)
  BY <1>1, <1>2 DEF Heap, Top
<1>3. ASSUME NEW g \in DOMAIN F, Attached(F, g) PROVE Kid(F, R, g)
  <2>1. Kid(F, R \cup {f}, g)
    BY <1>1, <1>3 DEF Heap
  <2>2. F[g].parent # f
    <3>1. SUFFICES ASSUME F[g].parent = f PROVE FALSE
      OBVIOUS
    <3>2. HeapType(F)
      BY <1>1 DEF Heap
    <3>3. Kids(F, f) = ChildrenOf(F, f) /\ \A s : s \in SlotsOf(F, f) <=> SlotOf(F, f, s)
      BY KidsAreChildren
    <3>4. \A x \in DOMAIN F : F[x].firstChild # root /\ F[x].sibNext # root
      BY <1>1, Pointees
    <3>5. /\ First(f) \in {First(f)}
          /\ \A s \in {First(f)} : Deref(F, s) \notin DOMAIN F
      BY <3>2, HeapFinite, SlotFacts
    <3>6. SlotsOf(F, f) \subseteq {First(f)}
      BY <3>2, <3>4, <3>5, SlotsWalk
    <3>7. g \in Kids(F, f)
      BY <1>3, <3>1 DEF Kids
    <3>8. After(g) \in SlotsOf(F, f)
      BY <3>3, <3>7 DEF SlotOf
    <3> QED BY <3>6, <3>8, SlotFacts
  <2> QED BY <2>1, <2>2 DEF Kid
<1> QED BY <1>1, <1>2, <1>3 DEF Good, Heap

(* More files may have children. *)
LEMMA MoreRoots ==
  ASSUME NEW F, NEW R, Good(F, R), NEW f
  PROVE  Good(F, R \cup {f})
<1>1. Heap(F, R) /\ Grounded(F)
  BY DEF Good
<1>2. ASSUME NEW g \in DOMAIN F, ~Attached(F, g) PROVE Top(F, R \cup {f}, g)
  BY <1>1, <1>2 DEF Heap, Top
<1>3. ASSUME NEW g \in DOMAIN F, Attached(F, g) PROVE Kid(F, R \cup {f}, g)
  BY <1>1, <1>3 DEF Heap, Kid
<1> QED BY <1>1, <1>2, <1>3 DEF Good, Heap

-----------------------------------------------------------------------------
(* Names.                                                                  *)

(* No two children of a folder have one name, but for x. *)
Named(F, x) ==
  \A f, g \in DOMAIN F \ {x} :
    Attached(F, f) /\ Attached(F, g) /\ F[f].parent = F[g].parent /\ F[f].name = F[g].name
    => f = g

(* The children of G are children of F with their folders and names. *)
Fewer(F, G) ==
  \A g \in DOMAIN G : Attached(G, g) =>
    /\ g \in DOMAIN F
    /\ Attached(F, g)
    /\ F[g].parent = G[g].parent
    /\ F[g].name = G[g].name

(* Names stay different when children only leave. *)
LEMMA NamedFewer ==
  ASSUME NEW F, NEW x, Named(F, x), NEW G, Fewer(F, G)
  PROVE  Named(G, x)
BY DEF Named, Fewer

(* Names stay different when a child comes with a name that is not there. *)
LEMMA NamedLink ==
  ASSUME NEW F, NEW x, Named(F, x), NEW f, NEW d, NEW slot, NEW n, NEW G,
         Linked(F, G, f, d, slot, n),
         \A g \in DOMAIN F : Attached(G, g) <=> g = f \/ Attached(F, g),
         \A g \in Kids(F, d) \ {x} : F[g].name # n
  PROVE  Named(G, x)
<1>1. /\ DOMAIN G = DOMAIN F
      /\ \A g \in DOMAIN F : /\ G[g].name = IF g = f THEN n ELSE F[g].name
                             /\ G[g].parent = IF g = f THEN d ELSE F[g].parent
  BY DEF Linked, SameKind
<1> QED BY <1>1 DEF Named, Kids

-----------------------------------------------------------------------------
(* Enumerations.                                                           *)

(* X holds what is behind the slot s of a folder. *)
Behind(F, s, X) ==
  /\ Deref(F, s) # NULL => Deref(F, s) \in X
  /\ \A x \in X : F[x].sibNext # NULL => F[x].sibNext \in X

(* Of an enumeration of d: what it has to deliver is behind its position,  *)
(* and what it has delivered is not.                                       *)
Listing(F, d, L) ==
  /\ SlotOf(F, d, L.position)
  /\ ~L.again
  /\ L.due \subseteq Kids(F, d)
  /\ L.done \subseteq Kids(F, d)
  /\ \A X \in SUBSET Kids(F, d) : Behind(F, L.position, X) => L.due \subseteq X
  /\ \E X \in SUBSET Kids(F, d) : /\ Behind(F, L.position, X)
                                  /\ \A x \in X : x \notin L.done /\ L.position # After(x)

(* What points at a child. *)
LEMMA PointedFrom ==
  ASSUME NEW F, NEW R, Good(F, R), NEW f \in DOMAIN F, Attached(F, f)
  PROVE  /\ F[f].sibPrev # After(f)
         /\ \A d \in DOMAIN F : \A s : SlotOf(F, d, s) /\ Deref(F, s) = f => s = F[f].sibPrev
         /\ \A d \in DOMAIN F : \A s : SlotOf(F, d, s) /\ Deref(F, s) # NULL =>
              Deref(F, s) \in Kids(F, d)
<1>1. Heap(F, R) /\ HeapType(F)
  BY DEF Good, Heap
<1>2. F[f].sibPrev # After(f)
  <2>1. SUFFICES ASSUME F[f].sibPrev = After(f) PROVE FALSE
    OBVIOUS
  <2> DEFINE X == DOMAIN F \ {f}
  <2>2. ASSUME NEW x \in X, F[x].firstChild # NULL PROVE F[x].firstChild \in X
    <3>1. F[x].firstChild \in Kids(F, x) /\ F[F[x].firstChild].sibPrev = First(x)
      BY <1>1, <2>2, Pointees
    <3> QED BY <2>1, <3>1, SlotFacts DEF Kids
  <2>3. ASSUME NEW x \in X, F[x].sibNext # NULL PROVE F[x].sibNext \in X
    <3>1. F[x].sibNext \in Kids(F, F[x].parent) /\ F[F[x].sibNext].sibPrev = After(x)
      BY <1>1, <2>3, Pointees
    <3> QED BY <2>1, <3>1, SlotFacts DEF Kids
  <2>4. Holds(F, X)
    BY <2>2, <2>3 DEF Holds
  <2>5. X = DOMAIN F
    BY <2>4 DEF Good, Grounded
  <2> QED BY <2>5
<1>3. ASSUME NEW d \in DOMAIN F, NEW s, SlotOf(F, d, s), Deref(F, s) # NULL
      PROVE  Deref(F, s) \in Kids(F, d) /\ F[Deref(F, s)].sibPrev = s
  <2>1. CASE s = First(d)
    BY <1>1, <1>3, <2>1, Pointees, SlotFacts
  <2>2. CASE s # First(d)
    <3>1. PICK g \in Kids(F, d) : s = After(g)
      BY <1>3, <2>2 DEF SlotOf
    <3>2. g \in DOMAIN F /\ F[g].parent = d /\ Deref(F, s) = F[g].sibNext
      BY <3>1, SlotFacts DEF Kids
    <3> QED BY <1>1, <1>3, <3>1, <3>2, Pointees
  <2> QED BY <2>1, <2>2
<1>4. NULL \notin DOMAIN F
  BY <1>1, HeapFinite
<1> QED BY <1>2, <1>3, <1>4

(* Nothing changes for an enumeration of a folder that is left alone. *)
LEMMA ListingSame ==
  ASSUME NEW F, NEW G, NEW d, NEW L, Listing(F, d, L), Kids(G, d) = Kids(F, d),
         \A s : SlotOf(F, d, s) => Deref(G, s) = Deref(F, s)
  PROVE  Listing(G, d, L)
<1>1. \A s : SlotOf(G, d, s) <=> SlotOf(F, d, s)
  BY DEF SlotOf
<1>2. ASSUME NEW x \in Kids(F, d) PROVE G[x].sibNext = F[x].sibNext
  <2>1. SlotOf(F, d, After(x))
    BY DEF SlotOf
  <2>2. Deref(G, After(x)) = Deref(F, After(x))
    BY <2>1
  <2> QED BY <2>2, SlotFacts
<1>3. SlotOf(F, d, L.position)
  BY DEF Listing
<1>4. ASSUME NEW X \in SUBSET Kids(F, d)
      PROVE  Behind(G, L.position, X) <=> Behind(F, L.position, X)
  <2>1. \A x \in X : G[x].sibNext = F[x].sibNext
    BY <1>2
  <2>2. Deref(G, L.position) = Deref(F, L.position)
    BY <1>3
  <2> QED BY <2>1, <2>2 DEF Behind
<1>5. \A X \in SUBSET Kids(G, d) : Behind(G, L.position, X) => L.due \subseteq X
  BY <1>4 DEF Listing
<1>6. \E X \in SUBSET Kids(G, d) : /\ Behind(G, L.position, X)
                                   /\ \A x \in X : x \notin L.done /\ L.position # After(x)
  BY <1>4 DEF Listing
<1> QED BY <1>1, <1>3, <1>5, <1>6 DEF Listing

(* A file appears in the folder. *)
LEMMA ListingLink ==
  ASSUME NEW F, NEW R, Good(F, R), NEW f \in DOMAIN F, ~Attached(F, f),
         NEW d \in DOMAIN F, d # f, NEW slot, SlotOf(F, d, slot), NEW n,
         NEW G, Linked(F, G, f, d, slot, n),
         \A g \in DOMAIN F : Attached(G, g) <=> g = f \/ Attached(F, g),
         NEW a \in DOMAIN F, NEW L, Listing(F, a, L)
  PROVE  Listing(G, a, L)
<1> DEFINE next == Deref(F, slot)
           s == L.position
<1>1. /\ DOMAIN G = DOMAIN F
      /\ \A g \in DOMAIN F :
           /\ G[g].parent = IF g = f THEN d ELSE F[g].parent
           /\ G[g].sibNext = IF slot = After(g) THEN f
                             ELSE IF g = f THEN next ELSE F[g].sibNext
           /\ G[g].firstChild = IF slot = First(g) THEN f ELSE F[g].firstChild
  BY DEF Linked, SameKind
<1>2. /\ \A g \in Kids(F, a) : g \in DOMAIN F /\ g # f
      /\ \A g \in Kids(F, d) : g \in DOMAIN F /\ g # f
  BY DEF Kids
<1>3. /\ a # d => Kids(G, a) = Kids(F, a)
      /\ Kids(G, d) = Kids(F, d) \cup {f}
  BY <1>1 DEF Kids
<1>4. ASSUME NEW q, SlotOf(F, a, q), q # slot PROVE Deref(G, q) = Deref(F, q)
  BY <1>1, <1>2, <1>4, SlotFacts DEF SlotOf
<1>5. CASE a # d
  <2>1. \A q : SlotOf(F, a, q) => q # slot
    BY <1>5, SlotFacts DEF SlotOf, Kids
  <2> QED BY <1>3, <1>4, <1>5, <2>1, ListingSame
<1>6. CASE a = d
  <2>1. /\ SlotOf(F, d, s) /\ ~L.again /\ L.due \subseteq Kids(F, d) /\ L.done \subseteq Kids(F, d)
        /\ \A X \in SUBSET Kids(F, d) : Behind(F, s, X) => L.due \subseteq X
    BY <1>6 DEF Listing
  <2>2. PICK Y \in SUBSET Kids(F, d) : /\ Behind(F, s, Y)
                                       /\ \A x \in Y : x \notin L.done /\ s # After(x)
    BY <1>6 DEF Listing
  <2>3. SlotOf(G, d, s)
    BY <1>3, <2>1 DEF SlotOf
  <2>4. Deref(G, slot) = f /\ slot # After(f) /\ G[f].sibNext = next
    BY <1>1, <1>2, SlotFacts DEF SlotOf
  <2>5. /\ next # f /\ f # NULL
        /\ \A q : SlotOf(F, d, q) => Deref(F, q) # f
    <3>1. ASSUME NEW q, SlotOf(F, d, q) PROVE Deref(F, q) # f
      <4>1. HeapType(F) /\ Heap(F, R)
        BY DEF Good, Heap
      <4>2. CASE q = First(d)
        BY <4>1, <4>2, Pointees, HeapFinite, SlotFacts DEF Kids
      <4>3. ASSUME NEW g \in Kids(F, d), q = After(g) PROVE Deref(F, q) # f
        BY <1>2, <4>1, <4>3, Pointees, HeapFinite, SlotFacts DEF Kids
      <4> QED BY <3>1, <4>2, <4>3 DEF SlotOf
    <3>2. f # NULL
      BY HeapFinite DEF Good, Heap
    <3> QED BY <3>1, <3>2
  <2> HIDE DEF next, s
  <2>6. ASSUME NEW X \in SUBSET Kids(G, d), Behind(G, s, X) PROVE L.due \subseteq X
    <3> DEFINE Z == X \ {f}
    <3>1. Z \in SUBSET Kids(F, d)
      BY <1>3
    <3>2. slot = s => next = NULL \/ next \in Z
      BY <2>4, <2>5, <2>6 DEF Behind
    <3>3. Deref(F, s) # NULL => Deref(F, s) \in Z
      <4>1. CASE s = slot
        BY <3>2, <4>1 DEF next
      <4>2. CASE s # slot
        BY <1>4, <1>6, <2>1, <2>5, <2>6, <4>2 DEF Behind
      <4> QED BY <4>1, <4>2
    <3>4. ASSUME NEW y \in Z, F[y].sibNext # NULL PROVE F[y].sibNext \in Z
      <4>1. y \in DOMAIN F /\ y # f /\ y \in X /\ SlotOf(F, d, After(y))
        BY <1>2, <3>1 DEF SlotOf
      <4>2. F[y].sibNext # f
        BY <2>5, <4>1, SlotFacts
      <4>3. CASE slot = After(y)
        <5>1. F[y].sibNext = next
          BY <4>3, SlotFacts DEF next
        <5>2. G[y].sibNext = f
          BY <1>1, <4>1, <4>3
        <5>3. f \in X
          BY <2>5, <2>6, <4>1, <5>2 DEF Behind
        <5> QED BY <2>4, <2>5, <2>6, <3>4, <5>1, <5>3 DEF Behind
      <4>4. CASE slot # After(y)
        <5>1. G[y].sibNext = F[y].sibNext
          BY <1>1, <4>1, <4>4
        <5> QED BY <2>6, <3>4, <4>1, <4>2, <5>1 DEF Behind
      <4> QED BY <4>3, <4>4
    <3>5. Behind(F, s, Z)
      <4> HIDE DEF Z
      <4> QED BY <3>3, <3>4 DEF Behind
    <3> QED BY <2>1, <3>1, <3>5
  <2> DEFINE Met == s = slot \/ \E y \in Y : slot = After(y)
             W == IF Met THEN Y \cup {f} ELSE Y
  <2>7. W \in SUBSET Kids(G, d) /\ Y \subseteq W /\ (Met => f \in W)
    BY <1>3
  <2>8. ASSUME NEW x \in W PROVE x \in Y \/ (x = f /\ Met)
    OBVIOUS
  <2>9. ASSUME NEW x \in W PROVE x \notin L.done /\ s # After(x)
    BY <1>2, <2>1, <2>2, <2>8, SlotFacts DEF SlotOf
  <2> HIDE DEF W
  <2>10. Behind(G, s, W)
    <3>1. Deref(G, s) # NULL => Deref(G, s) \in W
      <4>1. CASE s = slot
        BY <2>4, <2>7, <4>1
      <4>2. CASE s # slot
        BY <1>4, <1>6, <2>1, <2>2, <2>7, <4>2 DEF Behind
      <4> QED BY <4>1, <4>2
    <3>2. ASSUME NEW x \in W, G[x].sibNext # NULL PROVE G[x].sibNext \in W
      <4>1. CASE x \in Y
        <5>1. x \in DOMAIN F /\ x # f
          BY <1>2, <4>1
        <5>2. CASE slot = After(x)
          <6>1. G[x].sibNext = f
            BY <1>1, <5>1, <5>2
          <6> QED BY <2>7, <4>1, <5>2, <6>1
        <5>3. CASE slot # After(x)
          <6>1. G[x].sibNext = F[x].sibNext
            BY <1>1, <5>1, <5>3
          <6> QED BY <2>2, <2>7, <3>2, <4>1, <6>1 DEF Behind
        <5> QED BY <5>2, <5>3
      <4>2. CASE x = f /\ Met
        <5>1. G[x].sibNext = next /\ next # NULL
          BY <2>4, <3>2, <4>2
        <5>2. CASE s = slot
          BY <2>2, <2>7, <5>1, <5>2 DEF Behind, next
        <5>3. ASSUME NEW y \in Y, slot = After(y) PROVE G[x].sibNext \in W
          <6>1. F[y].sibNext = next
            BY <5>3, SlotFacts DEF next
          <6> QED BY <2>2, <2>7, <5>1, <6>1 DEF Behind
        <5> QED BY <4>2, <5>2, <5>3
      <4> QED BY <2>8, <4>1, <4>2
    <3> QED BY <3>1, <3>2 DEF Behind
  <2>11. L.due \subseteq Kids(G, d) /\ L.done \subseteq Kids(G, d)
    BY <1>3, <2>1
  <2> QED BY <1>6, <2>1, <2>3, <2>6, <2>7, <2>9, <2>10, <2>11 DEF Listing, s
<1> QED BY <1>5, <1>6

(* A file leaves the folder. *)
LEMMA ListingUnlink ==
  ASSUME NEW F, NEW R, Good(F, R), NEW f \in DOMAIN F, Attached(F, f),
         NEW G, Unlinked(F, G, f),
         \A g \in DOMAIN F : Attached(G, g) <=> g # f /\ Attached(F, g),
         NEW d \in DOMAIN F, NEW L, Listing(F, d, L), NEW M,
         d # F[f].parent => M = L,
         d = F[f].parent =>
           /\ M.position = IF L.position = After(f) THEN F[f].sibPrev ELSE L.position
           /\ M.due = L.due \ {f} /\ M.done = L.done \ {f} /\ M.again = L.again
  PROVE  Listing(G, d, M)
<1> DEFINE next == F[f].sibNext
           t == F[f].sibPrev
           s == L.position
<1>1. /\ DOMAIN G = DOMAIN F
      /\ \A g \in DOMAIN F :
           /\ G[g].parent = IF g = f THEN NULL ELSE F[g].parent
           /\ G[g].sibNext = IF g = f THEN NULL
                             ELSE IF t = After(g) THEN next ELSE F[g].sibNext
           /\ G[g].firstChild = IF t = First(g) THEN next ELSE F[g].firstChild
  BY DEF Unlinked, SameKind
<1>2. HeapType(F) /\ Heap(F, R) /\ NULL \notin DOMAIN F
  BY HeapFinite DEF Good, Heap
<1>3. SlotOf(F, F[f].parent, t) /\ Deref(F, t) = f /\ F[f].parent \in DOMAIN F
  BY <1>2 DEF Heap, Kid
<1>4. /\ t # After(f)
      /\ \A a \in DOMAIN F : \A q : SlotOf(F, a, q) /\ Deref(F, q) = f => q = t
      /\ \A a \in DOMAIN F : \A q : SlotOf(F, a, q) /\ Deref(F, q) # NULL =>
           Deref(F, q) \in Kids(F, a)
  BY PointedFrom
<1>5. /\ d # F[f].parent => Kids(G, d) = Kids(F, d)
      /\ d = F[f].parent => Kids(G, d) = Kids(F, d) \ {f}
  <2>1. NULL # d
    BY <1>2
  <2> QED BY <1>1, <2>1 DEF Kids
<1>6. ASSUME NEW q, SlotOf(F, d, q), q # t, q # After(f) PROVE Deref(G, q) = Deref(F, q)
  <2>1. CASE q = First(d)
    BY <1>1, <1>6, <2>1, SlotFacts
  <2>2. ASSUME NEW g \in Kids(F, d), q = After(g) PROVE Deref(G, q) = Deref(F, q)
    BY <1>1, <1>6, <2>2, SlotFacts DEF Kids
  <2> QED BY <1>6, <2>1, <2>2 DEF SlotOf
<1>7. CASE d # F[f].parent
  <2>1. \A q : SlotOf(F, d, q) => q # t /\ q # After(f)
    BY <1>3, <1>7, SlotFacts DEF SlotOf, Kids
  <2> QED BY <1>5, <1>6, <1>7, <2>1, ListingSame
<1>8. CASE d = F[f].parent
  <2> DEFINE r == M.position
  <2>1. /\ SlotOf(F, d, s) /\ ~L.again /\ L.due \subseteq Kids(F, d) /\ L.done \subseteq Kids(F, d)
        /\ \A X \in SUBSET Kids(F, d) : Behind(F, s, X) => L.due \subseteq X
    BY DEF Listing
  <2>2. PICK Y \in SUBSET Kids(F, d) : /\ Behind(F, s, Y)
                                       /\ \A x \in Y : x \notin L.done /\ s # After(x)
    BY DEF Listing
  <2>3. /\ r = (IF s = After(f) THEN t ELSE s)
        /\ M.due = L.due \ {f} /\ M.done = L.done \ {f} /\ ~M.again
    BY <1>8, <2>1
  <2>4. SlotOf(F, d, t) /\ SlotOf(F, d, r) /\ r # After(f)
    BY <1>3, <1>4, <1>8, <2>1, <2>3
  <2>5. Deref(G, t) = next
    <3>1. CASE t = First(d)
      BY <1>1, <3>1, SlotFacts
    <3>2. ASSUME NEW g \in Kids(F, d), t = After(g) PROVE Deref(G, t) = next
      BY <1>1, <1>4, <3>2, SlotFacts DEF Kids
    <3> QED BY <2>4, <3>1, <3>2 DEF SlotOf
  <2>6. Deref(F, After(f)) = next /\ f \in Kids(F, d) /\ SlotOf(F, d, After(f))
    BY <1>8, SlotFacts DEF SlotOf, Kids
  <2>7. next # f
    BY <1>4, <2>6
  <2>8. SlotOf(G, d, r)
    BY <1>5, <1>8, <2>4, SlotFacts DEF SlotOf
  <2>9. ASSUME NEW x \in Kids(F, d), x # f
        PROVE  /\ x \in DOMAIN F
               /\ G[x].sibNext = IF t = After(x) THEN next ELSE F[x].sibNext
               /\ t = After(x) <=> F[x].sibNext = f
    <3>1. x \in DOMAIN F /\ SlotOf(F, d, After(x)) /\ Deref(F, After(x)) = F[x].sibNext
      BY SlotFacts DEF Kids, SlotOf
    <3> QED BY <1>1, <1>3, <1>4, <2>9, <3>1
  <2>10. \A x \in Kids(F, d) : x \in DOMAIN F /\ x # NULL
    BY <1>2 DEF Kids
  <2> HIDE DEF next, t, s, r
  <2>11. ASSUME NEW X \in SUBSET Kids(G, d), Behind(G, r, X) PROVE M.due \subseteq X
    <3> DEFINE Met == t = r \/ \E y \in X : t = After(y)
               W == IF Met THEN X \cup {f} ELSE X
    <3>1. W \in SUBSET Kids(F, d) /\ X \subseteq W /\ (Met => f \in W)
      BY <1>5, <1>8, <2>6
    <3>2. ASSUME NEW x \in W PROVE (x \in X /\ x # f /\ x \in Kids(F, d)) \/ (x = f /\ Met)
      BY <1>5, <1>8
    <3>3. W \ {f} \subseteq X
      OBVIOUS
    <3> HIDE DEF W
    <3>4. Deref(F, s) # NULL => Deref(F, s) \in W
      <4>1. CASE s = After(f)
        <5>1. r = t /\ Deref(F, s) = next
          BY <2>3, <2>6, <4>1
        <5> QED BY <2>5, <2>11, <3>1, <5>1 DEF Behind
      <4>2. CASE s # After(f) /\ s = t
        <5>1. r = t
          BY <2>3, <4>2
        <5> QED BY <1>3, <3>1, <4>2, <5>1 DEF t
      <4>3. CASE s # After(f) /\ s # t
        <5>1. r = s
          BY <2>3, <4>3
        <5>2. Deref(G, r) = Deref(F, r)
          BY <1>6, <2>1, <4>3, <5>1 DEF t
        <5> QED BY <2>11, <3>1, <5>1, <5>2 DEF Behind
      <4> QED BY <4>1, <4>2, <4>3
    <3>5. ASSUME NEW x \in W, F[x].sibNext # NULL PROVE F[x].sibNext \in W
      <4>1. CASE x \in X /\ x # f /\ x \in Kids(F, d)
        <5>1. CASE t = After(x)
          <6>1. F[x].sibNext = f /\ f \in W
            BY <2>9, <3>1, <4>1, <5>1
          <6> QED BY <6>1
        <5>2. CASE t # After(x)
          <6>1. G[x].sibNext = F[x].sibNext
            BY <2>9, <4>1, <5>2
          <6> QED BY <2>11, <3>1, <3>5, <4>1, <6>1 DEF Behind
        <5> QED BY <5>1, <5>2
      <4>2. CASE x = f /\ Met
        <5>1. F[x].sibNext = next /\ next # NULL
          BY <3>5, <4>2 DEF next
        <5>2. CASE t = r
          BY <2>5, <2>11, <3>1, <5>1, <5>2 DEF Behind
        <5>3. ASSUME NEW y \in X, t = After(y) PROVE F[x].sibNext \in W
          <6>1. y \in Kids(F, d) /\ y # f
            BY <1>5, <1>8
          <6>2. G[y].sibNext = next
            BY <2>9, <5>3, <6>1
          <6> QED BY <2>11, <3>1, <5>1, <6>2 DEF Behind
        <5> QED BY <4>2, <5>2, <5>3
      <4> QED BY <3>2, <4>1, <4>2
    <3>6. Behind(F, s, W)
      BY <3>4, <3>5 DEF Behind
    <3>7. L.due \subseteq W
      BY <2>1, <3>1, <3>6
    <3> QED BY <2>3, <3>3, <3>7
  <2> DEFINE V == Y \ {f}
  <2>12. V \in SUBSET Kids(G, d)
    BY <1>5, <1>8
  <2>13. Behind(G, r, V)
    <3>1. Deref(G, r) # NULL => Deref(G, r) \in V
      <4>1. CASE s = After(f)
        <5>1. r = t /\ Deref(F, s) = next
          BY <2>3, <2>6, <4>1
        <5> QED BY <2>2, <2>5, <2>7, <5>1 DEF Behind
      <4>2. CASE s # After(f) /\ s = t
        <5>1. r = t
          BY <2>3, <4>2
        <5>2. f \in Y
          BY <1>3, <2>2, <2>6, <2>10, <4>2 DEF Behind, t
        <5> QED BY <2>2, <2>5, <2>7, <5>1, <5>2 DEF Behind, next
      <4>3. CASE s # After(f) /\ s # t
        <5>1. r = s
          BY <2>3, <4>3
        <5>2. Deref(G, r) = Deref(F, r)
          BY <1>6, <2>1, <4>3, <5>1 DEF t
        <5>3. Deref(F, r) # f
          BY <1>4, <2>1, <4>3, <5>1 DEF t
        <5> QED BY <2>2, <5>1, <5>2, <5>3 DEF Behind
      <4> QED BY <4>1, <4>2, <4>3
    <3>2. ASSUME NEW x \in V, G[x].sibNext # NULL PROVE G[x].sibNext \in V
      <4>1. x \in Y /\ x # f /\ x \in Kids(F, d)
        OBVIOUS
      <4>2. CASE t = After(x)
        <5>1. G[x].sibNext = next /\ F[x].sibNext = f
          BY <2>9, <4>1, <4>2
        <5>2. f \in Y
          BY <2>2, <2>6, <2>10, <4>1, <5>1 DEF Behind
        <5> QED BY <2>2, <2>7, <3>2, <5>1, <5>2 DEF Behind, next
      <4>3. CASE t # After(x)
        <5>1. G[x].sibNext = F[x].sibNext /\ F[x].sibNext # f
          BY <2>9, <4>1, <4>3
        <5> QED BY <2>2, <3>2, <4>1, <5>1 DEF Behind
      <4> QED BY <4>2, <4>3
    <3> QED BY <3>1, <3>2 DEF Behind
  <2>14. ASSUME NEW x \in V PROVE x \notin M.done /\ r # After(x)
    <3>1. x \in Y /\ x # f /\ x \in Kids(F, d) /\ x \notin L.done /\ s # After(x)
      BY <2>2
    <3>2. r # After(x)
      <4>1. CASE s = After(f)
        <5>1. SUFFICES ASSUME t = After(x) PROVE FALSE
          BY <2>3, <4>1
        <5>2. F[x].sibNext = f
          BY <2>9, <3>1, <5>1
        <5>3. f \in Y
          BY <2>2, <2>6, <2>10, <3>1, <5>2 DEF Behind
        <5> QED BY <2>2, <4>1, <5>3
      <4>2. CASE s # After(f)
        BY <2>3, <3>1, <4>2
      <4> QED BY <4>1, <4>2
    <3> QED BY <2>3, <3>1, <3>2
  <2>15. M.due \subseteq Kids(G, d) /\ M.done \subseteq Kids(G, d)
    BY <1>5, <1>8, <2>1, <2>3
  <2> HIDE DEF V
  <2> QED BY <2>3, <2>8, <2>11, <2>12, <2>13, <2>14, <2>15 DEF Listing, r
<1> QED BY <1>7, <1>8

(* All that is below a file goes. *)
LEMMA ListingPrune ==
  ASSUME NEW F, NEW R, Good(F, R), NEW f \in DOMAIN F, Attached(F, f),
         NEW G, Pruned(F, G, f),
         \A g \in DOMAIN F :
           Attached(G, g) <=> Attached(F, g) /\ g \notin Below(F, {f}) \ {f},
         NEW d \in DOMAIN F, NEW L, Listing(F, d, L), NEW M,
         d \notin Below(F, {f}) => M = L,
         d \in Below(F, {f}) =>
           M.position = First(d) /\ M.due = {} /\ M.done = {} /\ M.again = L.again
  PROVE  Listing(G, d, M)
<1> DEFINE B == Below(F, {f})
           P == B \ {f}
<1>1. /\ DOMAIN G = DOMAIN F
      /\ \A g \in DOMAIN F :
           /\ g \in P => G[g].firstChild = NULL
           /\ g \notin P => /\ G[g].parent = F[g].parent
                            /\ G[g].sibNext = F[g].sibNext
                            /\ G[g].firstChild = IF g = f THEN NULL ELSE F[g].firstChild
           /\ Attached(G, g) <=> Attached(F, g) /\ g \notin P
  BY DEF Pruned, SameKind
<1>2. /\ f \in B
      /\ \A g \in DOMAIN F : Attached(F, g) /\ F[g].parent \in B => g \in B
      /\ \A g \in B : g = f \/ (Attached(F, g) /\ F[g].parent \in B)
  <2>1. {f} \in SUBSET DOMAIN F /\ {f} # {}
    OBVIOUS
  <2> QED BY <2>1, BelowIs
<1>3. F[f].parent \notin B
  BY NotBelowItself
<1> HIDE DEF B
<1>4. CASE d \in B
  <2>1. Deref(G, First(d)) = NULL
    BY <1>1, <1>4, SlotFacts
  <2>2. Behind(G, First(d), {})
    BY <2>1 DEF Behind
  <2> QED BY <1>4, <2>2 DEF Listing, SlotOf, B
<1>5. CASE d \notin B
  <2>1. \A g \in Kids(F, d) : g \in DOMAIN F /\ g \notin P
    BY <1>2, <1>3, <1>5 DEF Kids
  <2>2. Kids(G, d) = Kids(F, d)
    <3>1. \A g \in Kids(F, d) : g \in Kids(G, d)
      BY <1>1, <2>1 DEF Kids
    <3>2. \A g \in Kids(G, d) : g \in Kids(F, d)
      BY <1>1 DEF Kids
    <3> QED BY <3>1, <3>2
  <2>3. ASSUME NEW s, SlotOf(F, d, s) PROVE Deref(G, s) = Deref(F, s)
    <3>1. d # f /\ d \notin P
      BY <1>2, <1>5
    <3> QED BY <1>1, <2>1, <2>3, <3>1, SlotFacts DEF SlotOf
  <2> QED BY <1>5, <2>2, <2>3, ListingSame DEF B
<1> QED BY <1>4, <1>5

(* An enumeration begins. *)
LEMMA ListingBegin ==
  ASSUME NEW F, NEW R, Good(F, R), NEW d \in DOMAIN F, NEW L,
         L.position = First(d), L.due = Kids(F, d), L.done = {}, L.again = FALSE
  PROVE  Listing(F, d, L)
<1>1. Heap(F, R) /\ HeapType(F)
  BY DEF Good, Heap
<1>2. \A f \in DOMAIN F : F[f].firstChild # root /\ F[f].sibNext # root
  BY <1>1, Pointees
<1>3. \A s : s \in SlotsOf(F, d) <=> SlotOf(F, d, s)
  BY KidsAreChildren
<1>4. ASSUME NEW X \in SUBSET Kids(F, d), Behind(F, First(d), X) PROVE Kids(F, d) \subseteq X
  <2> DEFINE S == {First(d)} \cup {After(x) : x \in X}
  <2>1. NULL \notin DOMAIN F
    BY <1>1, HeapFinite
  <2>2. ASSUME NEW s \in S, Deref(F, s) \in DOMAIN F PROVE After(Deref(F, s)) \in S
    <3>1. CASE s = First(d)
      BY <1>4, <2>1, <2>2, <3>1 DEF Behind
    <3>2. ASSUME NEW x \in X, s = After(x) PROVE After(Deref(F, s)) \in S
      <4>1. Deref(F, s) = F[x].sibNext
        BY <3>2, SlotFacts
      <4> QED BY <1>4, <2>1, <2>2, <4>1 DEF Behind
    <3>3. s = First(d) \/ \E x \in X : s = After(x)
      OBVIOUS
    <3> QED BY <3>1, <3>2, <3>3
  <2>3. SlotsOf(F, d) \subseteq S
    <3>1. First(d) \in S
      OBVIOUS
    <3> HIDE DEF S
    <3> QED BY <1>1, <1>2, <2>2, <3>1, SlotsWalk
  <2>4. ASSUME NEW g \in Kids(F, d) PROVE g \in X
    <3>1. After(g) \in S
      BY <1>3, <2>3 DEF SlotOf
    <3> QED BY <3>1, SlotFacts
  <2> QED BY <2>4
<1>5. Behind(F, First(d), Kids(F, d))
  <2>1. Deref(F, First(d)) # NULL => Deref(F, First(d)) \in Kids(F, d)
    BY <1>1, Pointees, SlotFacts
  <2>2. ASSUME NEW x \in Kids(F, d), F[x].sibNext # NULL PROVE F[x].sibNext \in Kids(F, d)
    <3>1. x \in DOMAIN F /\ F[x].parent = d
      BY DEF Kids
    <3> QED BY <1>1, <2>2, <3>1, Pointees
  <2> QED BY <2>1, <2>2 DEF Behind
<1>6. \A x \in Kids(F, d) : x \notin L.done /\ L.position # After(x)
  BY SlotFacts
<1> QED BY <1>4, <1>5, <1>6 DEF Listing, SlotOf

(* An enumeration delivers a file. *)
LEMMA ListingNext ==
  ASSUME NEW F, NEW R, Good(F, R), NEW d \in DOMAIN F, NEW L, Listing(F, d, L),
         NEW f, f = Deref(F, L.position), f # NULL, NEW M,
         M.position = After(f), M.due = L.due \ {f}, M.done = L.done \cup (L.due \cap {f}),
         M.again = (L.again \/ f \in L.done)
  PROVE  Listing(F, d, M) /\ f \in DOMAIN F
<1> DEFINE s == L.position
<1>1. Heap(F, R) /\ HeapType(F)
  BY DEF Good, Heap
<1>2. SlotOf(F, d, s) /\ ~L.again /\ L.due \subseteq Kids(F, d) /\ L.done \subseteq Kids(F, d)
  BY DEF Listing
<1>3. PICK Y \in SUBSET Kids(F, d) : /\ Behind(F, s, Y)
                                     /\ \A x \in Y : x \notin L.done /\ s # After(x)
  BY DEF Listing
<1>4. f \in Kids(F, d)
  BY <1>3 DEF Behind
<1>5. f \in DOMAIN F /\ Attached(F, f)
  BY <1>4 DEF Kids
<1>6. F[f].sibPrev = s /\ s # After(f)
  BY <1>2, <1>5, PointedFrom
<1>7. ~M.again
  BY <1>2, <1>3 DEF Behind
<1>8. Deref(F, After(f)) = F[f].sibNext
  BY SlotFacts
<1>9. ASSUME NEW X \in SUBSET Kids(F, d), Behind(F, After(f), X) PROVE M.due \subseteq X
  <2>1. Behind(F, s, X \cup {f})
    BY <1>8, <1>9 DEF Behind
  <2>2. X \cup {f} \in SUBSET Kids(F, d)
    BY <1>4
  <2>3. L.due \subseteq X \cup {f}
    BY <2>1, <2>2 DEF Listing
  <2> QED BY <2>3
<1> DEFINE V == Y \ {f}
<1>10. \A x \in Kids(F, d) : F[x].sibNext = f => s = After(x)
  <2>1. ASSUME NEW x \in Kids(F, d), F[x].sibNext = f PROVE s = After(x)
    <3>1. x \in DOMAIN F
      BY DEF Kids
    <3> QED BY <1>1, <1>6, <2>1, <3>1, Pointees
  <2> QED BY <2>1
<1>11. Behind(F, After(f), V)
  <2>1. F[f].sibNext # NULL => F[f].sibNext \in V
    BY <1>3, <1>4, <1>6, <1>10 DEF Behind
  <2>2. ASSUME NEW x \in V, F[x].sibNext # NULL PROVE F[x].sibNext \in V
    BY <1>3, <1>10, <2>2 DEF Behind
  <2> QED BY <1>8, <2>1, <2>2 DEF Behind
<1>12. \A x \in V : x \notin M.done /\ M.position # After(x)
  BY <1>3, SlotFacts
<1>13. M.due \subseteq Kids(F, d) /\ M.done \subseteq Kids(F, d)
  BY <1>2
<1>14. SlotOf(F, d, M.position) /\ V \in SUBSET Kids(F, d)
  BY <1>4 DEF SlotOf
<1>15. \A X \in SUBSET Kids(F, d) : Behind(F, M.position, X) => M.due \subseteq X
  BY <1>9
<1>16. \E X \in SUBSET Kids(F, d) : /\ Behind(F, M.position, X)
                                    /\ \A x \in X : x \notin M.done /\ M.position # After(x)
  <2> HIDE DEF V
  <2> QED BY <1>11, <1>12, <1>14
<1> QED BY <1>5, <1>7, <1>13, <1>14, <1>15, <1>16 DEF Listing

(* At its end an enumeration has delivered everything. *)
LEMMA ListingEnds ==
  ASSUME NEW F, NEW d, NEW L, Listing(F, d, L), Deref(F, L.position) = NULL
  PROVE  L.due = {}
<1>1. Behind(F, L.position, {}) /\ {} \in SUBSET Kids(F, d)
  BY DEF Behind
<1> QED BY <1>1 DEF Listing

-----------------------------------------------------------------------------
(* The iterators of a heap.                                                *)

ListsSound(F, L) ==
  /\ DOMAIN L \subseteq (DOMAIN F) \X ListIds
  /\ L \in [DOMAIN L -> FileList]
  /\ \A l \in DOMAIN L : Listing(F, l[1], L[l])

(* An enumeration is of a folder, by an id. *)
LEMMA FolderOfList ==
  ASSUME NEW A, NEW I, NEW l \in A \X I
  PROVE  l[1] \in A /\ l = <<l[1], l[2]>>
<1>1. PICK a \in A, i \in I : l = <<a, i>>
  OBVIOUS
<1> QED BY <1>1

(* What StepBack does to each enumeration: those of the folder of the file *)
(* forget the file.                                                        *)
LEMMA StepBackIs ==
  ASSUME NEW F, NEW R, Heap(F, R), NEW f \in DOMAIN F, NEW L, DOMAIN L \subseteq (DOMAIN F) \X ListIds,
         L \in [DOMAIN L -> FileList]
  PROVE  /\ DOMAIN StepBack(L, F, f) = DOMAIN L
         /\ StepBack(L, F, f) \in [DOMAIN L -> FileList]
         /\ \A l \in DOMAIN L :
              LET M == StepBack(L, F, f)[l]
              IN  /\ l[1] # F[f].parent => M = L[l]
                  /\ l[1] = F[f].parent =>
                       /\ M.position = IF L[l].position = After(f) THEN F[f].sibPrev
                                       ELSE L[l].position
                       /\ M.due = L[l].due \ {f} /\ M.done = L[l].done \ {f}
                       /\ M.again = L[l].again
<1> DEFINE S == StepBack(L, F, f)
<1>1. DOMAIN S = DOMAIN L
  BY DEF StepBack
<1>2. ASSUME NEW l \in DOMAIN L
      PROVE  /\ S[l] \in FileList
             /\ l[1] # F[f].parent => S[l] = L[l]
             /\ l[1] = F[f].parent =>
                  /\ S[l].position = IF L[l].position = After(f) THEN F[f].sibPrev
                                     ELSE L[l].position
                  /\ S[l].due = L[l].due \ {f} /\ S[l].done = L[l].done \ {f}
                  /\ S[l].again = L[l].again
  <2>1. PICK r : r = L[l]
    OBVIOUS
  <2>2. r \in FileList
    BY <2>1
  <2>3. CASE l[1] # F[f].parent
    <3>1. S[l] = L[l]
      BY <2>3 DEF StepBack
    <3> QED BY <2>1, <2>2, <2>3, <3>1
  <2>4. CASE l[1] = F[f].parent
    <3>1. PICK p : p = IF r.position = <<"next", f>> THEN F[f].sibPrev ELSE r.position
      OBVIOUS
    <3>2. S[l] = [r EXCEPT !.position = p, !.due = r.due \ {f}, !.done = r.done \ {f}]
      <4>1. S[l] = [L[l] EXCEPT
                      !.position = IF L[l].position = <<"next", f>> THEN F[f].sibPrev
                                   ELSE L[l].position,
                      !.due = L[l].due \ {f}, !.done = L[l].done \ {f}]
        BY <2>4 DEF StepBack
      <4> HIDE DEF S
      <4> QED BY <2>1, <3>1, <4>1, Zenon
    <3>3. p \in Slots
      <4>1. l \in (DOMAIN F) \X ListIds
        OBVIOUS
      <4>2. l[1] \in DOMAIN F
        BY <4>1, FolderOfList
      <4>3. HeapType(F) /\ NULL \notin DOMAIN F
        BY HeapFinite DEF Heap
      <4>4. Attached(F, f)
        BY <2>4, <4>2, <4>3 DEF Heap, Top
      <4>5. F[f].sibPrev \in Slots
        BY <4>3, <4>4, FieldTypes DEF Attached
      <4> QED BY <2>2, <3>1, <4>5 DEF FileList
    <3> HIDE DEF S
    <3>4. /\ S[l].position = p
          /\ S[l].due = r.due \ {f} /\ S[l].done = r.done \ {f} /\ S[l].again = r.again
      BY <2>2, <3>2 DEF FileList
    <3>5. S[l] \in FileList
      BY <2>2, <3>2, <3>3 DEF FileList
    <3> QED BY <2>1, <2>4, <3>1, <3>4, <3>5 DEF After
  <2> QED BY <2>3, <2>4
<1>3. S \in [DOMAIN L -> FileList]
  <2>1. S = [l \in DOMAIN L |-> S[l]]
    BY DEF StepBack
  <2> HIDE DEF S
  <2> QED BY <1>2, <2>1
<1> HIDE DEF S
<1> QED BY <1>1, <1>2, <1>3 DEF S

(* What PruneLists does to each enumeration: those below the file start    *)
(* again, in an empty folder.                                              *)
LEMMA PruneListsIs ==
  ASSUME NEW F, HeapType(F), NEW f \in DOMAIN F, NEW L, DOMAIN L \subseteq (DOMAIN F) \X ListIds,
         L \in [DOMAIN L -> FileList]
  PROVE  /\ DOMAIN PruneLists(L, F, f) = DOMAIN L
         /\ PruneLists(L, F, f) \in [DOMAIN L -> FileList]
         /\ \A l \in DOMAIN L :
              LET M == PruneLists(L, F, f)[l]
              IN  /\ l[1] \notin Below(F, {f}) => M = L[l]
                  /\ l[1] \in Below(F, {f}) =>
                       /\ M.position = First(l[1])
                       /\ M.due = {} /\ M.done = {} /\ M.again = L[l].again
<1> DEFINE S == PruneLists(L, F, f)
<1>1. DOMAIN S = DOMAIN L
  BY DEF PruneLists
<1>2. ASSUME NEW l \in DOMAIN L
      PROVE  /\ S[l] \in FileList
             /\ l[1] \notin Below(F, {f}) => S[l] = L[l]
             /\ l[1] \in Below(F, {f}) =>
                  /\ S[l].position = First(l[1])
                  /\ S[l].due = {} /\ S[l].done = {} /\ S[l].again = L[l].again
  <2>1. PICK r, d : r = L[l] /\ d = l[1]
    OBVIOUS
  <2>2. r \in FileList
    BY <2>1
  <2>3. CASE d \notin Below(F, {f})
    <3>1. S[l] = L[l]
      BY <2>1, <2>3 DEF PruneLists
    <3> QED BY <2>1, <2>2, <2>3, <3>1
  <2>4. CASE d \in Below(F, {f})
    <3>1. PICK p : p = First(d)
      OBVIOUS
    <3>2. S[l] = [r EXCEPT !.position = p, !.due = {}, !.done = {}]
      BY <2>1, <2>4, <3>1 DEF PruneLists, First
    <3>3. p \in Slots
      <4>1. d \in DOMAIN F
        <5>1. l \in (DOMAIN F) \X ListIds
          OBVIOUS
        <5> QED BY <2>1, <5>1, FolderOfList
      <4> QED BY <3>1, <4>1 DEF Slots, First, HeapType
    <3> HIDE DEF S
    <3>4. /\ S[l].position = p
          /\ S[l].due = {} /\ S[l].done = {} /\ S[l].again = r.again
      BY <2>2, <3>2 DEF FileList
    <3>5. S[l] \in FileList
      BY <2>2, <3>2, <3>3 DEF FileList
    <3> QED BY <2>1, <2>4, <3>1, <3>4, <3>5
  <2> QED BY <2>3, <2>4
<1>3. S \in [DOMAIN L -> FileList]
  <2>1. S = [l \in DOMAIN L |-> S[l]]
    BY DEF PruneLists
  <2> HIDE DEF S
  <2> QED BY <1>2, <2>1
<1> HIDE DEF S
<1> QED BY <1>1, <1>2, <1>3 DEF S

-----------------------------------------------------------------------------
(* What the requests do to the memory.                                     *)

LEMMA NamedForAll ==
  ASSUME NEW F, NEW x, HeapType(F)
  PROVE  /\ Named(F, NULL) => Named(F, x)
         /\ Named(F, x) /\ ~Attached(F, x) => Named(F, NULL)
<1>1. NULL \notin DOMAIN F
  BY HeapFinite
<1> QED BY <1>1 DEF Named

(* Enumerations stay sound when the pointers they follow stay, files being *)
(* added or changed otherwise.                                             *)
LEMMA ListsSame ==
  ASSUME NEW F, NEW G, NEW L, ListsSound(F, L), DOMAIN F \subseteq DOMAIN G,
         \A d \in DOMAIN F : Kids(G, d) = Kids(F, d),
         \A f \in DOMAIN F : G[f].sibNext = F[f].sibNext /\ G[f].firstChild = F[f].firstChild
  PROVE  ListsSound(G, L)
<1>1. DOMAIN L \subseteq (DOMAIN G) \X ListIds
  <2>1. DOMAIN L \subseteq (DOMAIN F) \X ListIds
    BY DEF ListsSound
  <2> QED BY <2>1
<1>2. ASSUME NEW l \in DOMAIN L PROVE Listing(G, l[1], L[l])
  <2>1. l \in (DOMAIN F) \X ListIds /\ Listing(F, l[1], L[l])
    BY DEF ListsSound
  <2>2. PICK d : d = l[1]
    OBVIOUS
  <2>3. d \in DOMAIN F
    BY <2>1, <2>2, FolderOfList
  <2>4. ASSUME NEW s, SlotOf(F, d, s) PROVE Deref(G, s) = Deref(F, s)
    <3>1. CASE s = First(d)
      BY <2>3, <3>1, SlotFacts
    <3>2. ASSUME NEW g \in Kids(F, d), s = After(g) PROVE Deref(G, s) = Deref(F, s)
      <4>1. g \in DOMAIN F
        BY DEF Kids
      <4> QED BY <3>2, <4>1, SlotFacts
    <3> QED BY <2>4, <3>1, <3>2 DEF SlotOf
  <2> QED BY <2>1, <2>2, <2>3, <2>4, ListingSame
<1> QED BY <1>1, <1>2 DEF ListsSound

(* What the driver knows of a file changes. *)
SetHandle(F, f, open, ahead) == [F EXCEPT ![f].open = open, ![f].ahead = ahead]

(* Opening and closing change neither the tree nor the enumerations. *)
LEMMA SetHandleSound ==
  ASSUME NEW F, NEW R, Good(F, R), NEW f \in DOMAIN F, NEW o \in BOOLEAN, NEW a \in 0..1
  PROVE  LET G == SetHandle(F, f, o, a)
         IN  /\ Good(G, R) /\ DOMAIN G = DOMAIN F
             /\ \A g \in DOMAIN F : /\ G[g].open = IF g = f THEN o ELSE F[g].open
                                    /\ G[g].ahead = IF g = f THEN a ELSE F[g].ahead
                                    /\ G[g].type = F[g].type
                                    /\ Attached(G, g) <=> Attached(F, g)
             /\ \A x : Named(F, x) => Named(G, x)
             /\ \A L : ListsSound(F, L) => ListsSound(G, L)
<1> DEFINE G == SetHandle(F, f, o, a)
<1>1. Heap(F, R) /\ HeapType(F)
  BY DEF Good, Heap
<1>2. DOMAIN G = DOMAIN F
  BY DEF SetHandle
<1>3. ASSUME NEW g \in DOMAIN F
      PROVE  /\ G[g] \in File
             /\ G[g].open = IF g = f THEN o ELSE F[g].open
             /\ G[g].ahead = IF g = f THEN a ELSE F[g].ahead
             /\ G[g].type = F[g].type
             /\ G[g].folder = F[g].folder
             /\ G[g].name = F[g].name
             /\ G[g].parent = F[g].parent
             /\ G[g].sibPrev = F[g].sibPrev
             /\ G[g].sibNext = F[g].sibNext
             /\ G[g].firstChild = F[g].firstChild
  <2>1. F[g] \in File
    BY <1>1 DEF HeapType
  <2>2. CASE g = f
    <3>1. PICK r, q : r = F[g] /\ q = G[g]
      OBVIOUS
    <3>2. q = [r EXCEPT !.open = o, !.ahead = a]
      BY <2>2, <3>1 DEF SetHandle
    <3>3. r \in File
      BY <2>1, <3>1
    <3>4. /\ q.open = o /\ q.ahead = a /\ q.type = r.type /\ q.folder = r.folder
          /\ q.name = r.name /\ q.parent = r.parent /\ q.sibPrev = r.sibPrev
          /\ q.sibNext = r.sibNext /\ q.firstChild = r.firstChild
      BY <3>2, <3>3 DEF File
    <3>5. q \in File
      BY <3>2, <3>3 DEF File
    <3> QED BY <2>2, <3>1, <3>4, <3>5
  <2>3. CASE g # f
    BY <2>1, <2>3 DEF SetHandle
  <2> QED BY <2>2, <2>3
<1>4. G \in [DOMAIN F -> File]
  <2>1. G = [g \in DOMAIN F |-> G[g]]
    BY DEF SetHandle
  <2> HIDE DEF G
  <2> QED BY <1>3, <2>1
<1> HIDE DEF G
<1>5. HeapType(G)
  BY <1>1, <1>2, <1>4 DEF HeapType
<1>6. SameLinks(F, G)
  <2>1. \A g \in DOMAIN F : Attached(F, g) => F[g].name # None
    BY <1>1 DEF Heap, Kid
  <2> QED BY <1>2, <1>3, <1>5, <2>1 DEF SameLinks
<1>7. Good(G, R) /\ \A g \in DOMAIN F : Attached(G, g) <=> Attached(F, g)
  BY <1>6, SameLinksGood
<1>8. \A d : Kids(G, d) = Kids(F, d)
  BY <1>2, <1>3, <1>7 DEF Kids
<1>9. Fewer(F, G)
  BY <1>2, <1>3, <1>7 DEF Fewer
<1>10. \A x : Named(F, x) => Named(G, x)
  BY <1>9, NamedFewer
<1>11. \A L : ListsSound(F, L) => ListsSound(G, L)
  BY <1>2, <1>3, <1>8, ListsSame
<1> QED BY <1>2, <1>3, <1>7, <1>10, <1>11 DEF G

(* A file that is in no folder is put into one. *)
LEMMA Linking ==
  ASSUME NEW F, NEW f \in DOMAIN F, f # root, Good(F, {root} \cup {f}), ~Attached(F, f),
         NEW d \in DOMAIN F, F[d].folder, d = root \/ Attached(F, d), d \notin Below(F, {f}),
         NEW slot, SlotOf(F, d, slot), NEW n \in Names,
         NEW x, Named(F, x), \A g \in Kids(F, d) \ {x} : F[g].name # n,
         NEW L, ListsSound(F, L)
  PROVE  LET G == Link(F, f, d, slot, n)
         IN  /\ Good(G, {root}) /\ SameKind(F, G) /\ Named(G, x) /\ ListsSound(G, L)
             /\ \A g \in DOMAIN F : Attached(G, g) <=> g = f \/ Attached(F, g)
<1> DEFINE G == Link(F, f, d, slot, n)
           R == {root} \cup {f}
<1>1. Heap(F, R)
  BY DEF Good
<1>2. Linked(F, G, f, d, slot, n)
  BY <1>1, LinkFields
<1> HIDE DEF G
<1>3. d # f /\ (d \in R \/ Attached(F, d))
  <2>1. {f} \in SUBSET DOMAIN F /\ {f} # {}
    OBVIOUS
  <2> QED BY <2>1, BelowIs
<1>4. Good(G, R \ {f}) /\ \A g \in DOMAIN F : Attached(G, g) <=> g = f \/ Attached(F, g)
  <2> HIDE DEF R
  <2>1. Good(F, R)
    BY DEF R
  <2> QED BY <1>2, <1>3, <2>1, LinkGood
<1>5. R \ {f} = {root}
  OBVIOUS
<1>6. Named(G, x)
  BY <1>2, <1>4, NamedLink
<1>7. DOMAIN G = DOMAIN F /\ SameKind(F, G)
  BY <1>2 DEF Linked, SameKind
<1>8. ListsSound(G, L)
  <2>1. DOMAIN L \subseteq (DOMAIN F) \X ListIds /\ L \in [DOMAIN L -> FileList]
    BY DEF ListsSound
  <2>2. ASSUME NEW l \in DOMAIN L PROVE Listing(G, l[1], L[l])
    <3>1. l \in (DOMAIN F) \X ListIds /\ Listing(F, l[1], L[l])
      BY DEF ListsSound
    <3>2. PICK a : a = l[1]
      OBVIOUS
    <3>3. a \in DOMAIN F
      BY <3>1, <3>2, FolderOfList
    <3> QED BY <1>2, <1>3, <1>4, <3>1, <3>2, <3>3, ListingLink
  <2> QED BY <1>7, <2>1, <2>2 DEF ListsSound
<1> QED BY <1>4, <1>5, <1>6, <1>7, <1>8 DEF G

(* A file is deleted with all that is below it. *)
LEMMA Removing ==
  ASSUME NEW F, Good(F, {root}), NEW t \in DOMAIN F, Attached(F, t),
         NEW x, Named(F, x), NEW L, ListsSound(F, L)
  PROVE  LET G == Unlink(Prune(F, t), t)
             M == PruneLists(StepBack(L, F, t), F, t)
         IN  /\ Good(G, {root}) /\ SameKind(F, G) /\ Named(G, x) /\ ListsSound(G, M)
             /\ ~Attached(G, t)
<1> DEFINE H == Prune(F, t)
           G == Unlink(H, t)
           S == StepBack(L, F, t)
           M == PruneLists(S, F, t)
           B == Below(F, {t})
           p == F[t].parent
<1>1. Heap(F, {root}) /\ HeapType(F)
  BY DEF Good, Heap
<1>2. Pruned(F, H, t)
  BY <1>1, PruneFields
<1> HIDE DEF H
<1>3. /\ Good(H, {root})
      /\ H[t].firstChild = NULL
      /\ \A g \in DOMAIN F : Attached(H, g) <=> Attached(F, g) /\ g \notin B \ {t}
  BY <1>2, PruneGood
<1>4. DOMAIN H = DOMAIN F /\ SameKind(F, H)
  BY <1>2 DEF Pruned, SameKind
<1>5. /\ t \in B /\ p \notin B
      /\ \A g \in DOMAIN F : Attached(F, g) /\ F[g].parent \in B => g \in B
  <2>1. {t} \in SUBSET DOMAIN F /\ {t} # {}
    OBVIOUS
  <2> QED BY <2>1, BelowIs, NotBelowItself
<1>6. Attached(H, t) /\ Heap(H, {root})
  BY <1>3 DEF Good
<1>7. Unlinked(H, G, t)
  BY <1>4, <1>6, UnlinkFields
<1> HIDE DEF G
<1>8. /\ Good(G, {root} \cup {t})
      /\ \A g \in DOMAIN F : Attached(G, g) <=> g # t /\ Attached(H, g)
  <2>1. t \in DOMAIN H
    BY <1>4
  <2> QED BY <1>3, <1>4, <1>6, <1>7, <2>1, UnlinkGood
<1>9. DOMAIN G = DOMAIN F /\ SameKind(F, G) /\ ~Attached(G, t)
  BY <1>4, <1>7, <1>8 DEF Unlinked, SameKind
<1>10. H[t].parent = p /\ H[t].sibPrev = F[t].sibPrev
  BY <1>2 DEF Pruned
<1>11. G[t].firstChild = NULL
  <2>1. F[t].sibPrev # First(t)
    <3>1. SlotOf(F, p, F[t].sibPrev)
      BY <1>1 DEF Heap, Kid
    <3>2. p # t
      BY <1>5
    <3> QED BY <3>1, <3>2, SlotFacts DEF SlotOf
  <2>2. G[t].firstChild = IF H[t].sibPrev = First(t) THEN H[t].sibNext ELSE H[t].firstChild
    BY <1>4, <1>7 DEF Unlinked
  <2> QED BY <1>3, <1>10, <2>1, <2>2
<1>12. Good(G, {root})
  <2>1. t \notin {root}
    BY <1>1 DEF Heap
  <2> QED BY <1>8, <1>9, <1>11, <2>1, FewerRoots
<1>13. Fewer(F, G)
  <2>1. ASSUME NEW g \in DOMAIN G, Attached(G, g)
        PROVE  /\ g \in DOMAIN F /\ Attached(F, g)
               /\ F[g].parent = G[g].parent
               /\ F[g].name = G[g].name
    <3>1. g \in DOMAIN F /\ g # t /\ Attached(F, g) /\ g \notin B \ {t}
      BY <1>3, <1>8, <1>9, <2>1
    <3>2. H[g].parent = F[g].parent /\ H[g].name = F[g].name
      BY <1>2, <3>1 DEF Pruned
    <3>3. G[g].parent = H[g].parent /\ G[g].name = H[g].name
      BY <1>4, <1>7, <3>1 DEF Unlinked
    <3> QED BY <3>1, <3>2, <3>3
  <2> QED BY <2>1 DEF Fewer
<1>14. Named(G, x)
  BY <1>13, NamedFewer
<1>15. DOMAIN L \subseteq (DOMAIN F) \X ListIds /\ L \in [DOMAIN L -> FileList]
  BY DEF ListsSound
<1>16. /\ DOMAIN S = DOMAIN L
       /\ S \in [DOMAIN L -> FileList]
       /\ \A l \in DOMAIN L :
            /\ l[1] # p => S[l] = L[l]
            /\ l[1] = p =>
                 /\ S[l].position = IF L[l].position = After(t) THEN F[t].sibPrev
                                    ELSE L[l].position
                 /\ S[l].due = L[l].due \ {t} /\ S[l].done = L[l].done \ {t}
                 /\ S[l].again = L[l].again
  BY <1>1, <1>15, StepBackIs
<1> HIDE DEF S
<1>17. /\ DOMAIN M = DOMAIN L
       /\ M \in [DOMAIN L -> FileList]
       /\ \A l \in DOMAIN L :
            /\ l[1] \notin B => M[l] = S[l]
            /\ l[1] \in B => /\ M[l].position = First(l[1])
                             /\ M[l].due = {} /\ M[l].done = {} /\ M[l].again = S[l].again
  <2>1. DOMAIN S \subseteq (DOMAIN F) \X ListIds /\ S \in [DOMAIN S -> FileList]
    BY <1>15, <1>16
  <2> HIDE DEF M, B, p
  <2>2. /\ DOMAIN M = DOMAIN S
        /\ M \in [DOMAIN S -> FileList]
        /\ \A l \in DOMAIN S :
             /\ l[1] \notin B => M[l] = S[l]
             /\ l[1] \in B => /\ M[l].position = First(l[1])
                              /\ M[l].due = {} /\ M[l].done = {} /\ M[l].again = S[l].again
    BY <1>1, <2>1, PruneListsIs DEF M, B
  <2> QED BY <1>16, <2>2
<1> HIDE DEF M, B, p
<1>18. ASSUME NEW l \in DOMAIN L PROVE Listing(G, l[1], M[l])
  <2>1. PICK d, A, C : d = l[1] /\ A = L[l] /\ C = M[l]
    OBVIOUS
  <2>2. d \in DOMAIN F /\ Listing(F, d, A)
    <3>1. l \in (DOMAIN F) \X ListIds /\ Listing(F, l[1], L[l])
      BY DEF ListsSound
    <3> QED BY <2>1, <3>1, FolderOfList
  <2>3. CASE d = p
    <3>1. d \notin B
      BY <1>5, <2>3
    <3>2. Listing(H, d, A)
      BY <1>2, <1>3, <2>2, <3>1, ListingPrune DEF B
    <3>3. /\ C.position = IF A.position = After(t) THEN H[t].sibPrev ELSE A.position
          /\ C.due = A.due \ {t} /\ C.done = A.done \ {t} /\ C.again = A.again
      <4>1. M[l] = S[l] /\ l[1] = p
        BY <1>17, <2>1, <2>3, <3>1
      <4>2. /\ S[l].position = IF L[l].position = After(t) THEN F[t].sibPrev ELSE L[l].position
            /\ S[l].due = L[l].due \ {t} /\ S[l].done = L[l].done \ {t}
            /\ S[l].again = L[l].again
        BY <1>16, <4>1
      <4>3. C = S[l] /\ A = L[l] /\ F[t].sibPrev = H[t].sibPrev
        BY <1>10, <2>1, <4>1
      <4> HIDE DEF H
      <4> QED BY <4>2, <4>3
    <3>4. d \in DOMAIN H /\ d = H[t].parent /\ t \in DOMAIN H
      BY <1>4, <1>10, <2>2, <2>3
    <3>5. \A g \in DOMAIN H : Attached(G, g) <=> g # t /\ Attached(H, g)
      BY <1>4, <1>8
    <3>6. Listing(G, d, C)
      BY <1>3, <1>6, <1>7, <3>2, <3>3, <3>4, <3>5, ListingUnlink
    <3> QED BY <2>1, <3>6
  <2>4. CASE d # p
    <3>1. /\ d \notin B => C = A
          /\ d \in B => C.position = First(d) /\ C.due = {} /\ C.done = {} /\ C.again = A.again
      BY <1>16, <1>17, <2>1, <2>4
    <3>2. Listing(H, d, C)
      BY <1>2, <1>3, <2>2, <3>1, ListingPrune DEF B
    <3>3. d \in DOMAIN H /\ d # H[t].parent /\ t \in DOMAIN H
      BY <1>4, <1>10, <2>2, <2>4
    <3>4. \A g \in DOMAIN H : Attached(G, g) <=> g # t /\ Attached(H, g)
      BY <1>4, <1>8
    <3>5. Listing(G, d, C)
      BY <1>3, <1>6, <1>7, <3>2, <3>3, <3>4, ListingUnlink
    <3> QED BY <2>1, <3>5
  <2> QED BY <2>3, <2>4
<1>19. ListsSound(G, M)
  BY <1>9, <1>15, <1>17, <1>18 DEF ListsSound
<1> QED BY <1>9, <1>12, <1>14, <1>19 DEF G, H, M, S

(* A file leaves its folder, to be put into another. *)
LEMMA Unlinking ==
  ASSUME NEW F, Good(F, {root}), NEW f \in DOMAIN F, Attached(F, f),
         NEW x, Named(F, x), NEW L, ListsSound(F, L)
  PROVE  LET G == Unlink(F, f)
         IN  /\ Good(G, {root} \cup {f}) /\ SameKind(F, G) /\ Named(G, x)
             /\ ListsSound(G, StepBack(L, F, f))
             /\ \A g \in DOMAIN F : /\ Attached(G, g) <=> g # f /\ Attached(F, g)
                                    /\ g # f => /\ G[g].parent = F[g].parent
                                                /\ G[g].name = F[g].name
<1> DEFINE G == Unlink(F, f)
           S == StepBack(L, F, f)
<1>1. Heap(F, {root}) /\ HeapType(F)
  BY DEF Good, Heap
<1>2. Unlinked(F, G, f)
  BY <1>1, UnlinkFields
<1> HIDE DEF G
<1>3. /\ Good(G, {root} \cup {f})
      /\ \A g \in DOMAIN F : Attached(G, g) <=> g # f /\ Attached(F, g)
  BY <1>2, UnlinkGood
<1>4. DOMAIN G = DOMAIN F /\ SameKind(F, G)
  BY <1>2 DEF Unlinked, SameKind
<1>5. \A g \in DOMAIN F : g # f => G[g].parent = F[g].parent /\ G[g].name = F[g].name
  BY <1>2 DEF Unlinked
<1>6. Named(G, x)
  <2>1. Fewer(F, G)
    BY <1>3, <1>4, <1>5 DEF Fewer
  <2> QED BY <2>1, NamedFewer
<1>7. DOMAIN L \subseteq (DOMAIN F) \X ListIds /\ L \in [DOMAIN L -> FileList]
  BY DEF ListsSound
<1>8. /\ DOMAIN S = DOMAIN L
      /\ S \in [DOMAIN L -> FileList]
      /\ \A l \in DOMAIN L :
           /\ l[1] # F[f].parent => S[l] = L[l]
           /\ l[1] = F[f].parent =>
                /\ S[l].position = IF L[l].position = After(f) THEN F[f].sibPrev
                                   ELSE L[l].position
                /\ S[l].due = L[l].due \ {f} /\ S[l].done = L[l].done \ {f}
                /\ S[l].again = L[l].again
  BY <1>1, <1>7, StepBackIs
<1> HIDE DEF S
<1>9. ASSUME NEW l \in DOMAIN L PROVE Listing(G, l[1], S[l])
  <2>1. PICK d, A, C : d = l[1] /\ A = L[l] /\ C = S[l]
    OBVIOUS
  <2>2. d \in DOMAIN F /\ Listing(F, d, A)
    <3>1. l \in (DOMAIN F) \X ListIds /\ Listing(F, l[1], L[l])
      BY DEF ListsSound
    <3> QED BY <2>1, <3>1, FolderOfList
  <2>3. d # F[f].parent => C = A
    BY <1>8, <2>1
  <2>4. d = F[f].parent =>
          /\ C.position = IF A.position = After(f) THEN F[f].sibPrev ELSE A.position
          /\ C.due = A.due \ {f} /\ C.done = A.done \ {f} /\ C.again = A.again
    <3>1. SUFFICES ASSUME l[1] = F[f].parent
                   PROVE  /\ S[l].position = IF L[l].position = After(f) THEN F[f].sibPrev
                                             ELSE L[l].position
                          /\ S[l].due = L[l].due \ {f} /\ S[l].done = L[l].done \ {f}
                          /\ S[l].again = L[l].again
      BY <2>1
    <3> QED BY <1>8, <3>1
  <2>5. Listing(G, d, C)
    BY <1>2, <1>3, <2>2, <2>3, <2>4, ListingUnlink
  <2> QED BY <2>1, <2>5
<1>10. ListsSound(G, S)
  BY <1>4, <1>7, <1>8, <1>9 DEF ListsSound
<1> QED BY <1>3, <1>4, <1>5, <1>6, <1>10 DEF G, S

(* A file gets another name. *)
SetName(F, f, n) == [F EXCEPT ![f].name = n]

(* The name of a child changes to one that no other child has. *)
LEMMA Renaming ==
  ASSUME NEW F, NEW R, Good(F, R), NEW f \in DOMAIN F, Attached(F, f), NEW n \in Names,
         NEW x, Named(F, x), \A g \in Kids(F, F[f].parent) \ {x} : F[g].name = n => g = f,
         NEW L, ListsSound(F, L)
  PROVE  LET G == SetName(F, f, n)
         IN  /\ Good(G, R) /\ SameKind(F, G) /\ Named(G, x) /\ ListsSound(G, L)
             /\ \A g \in DOMAIN F : Attached(G, g) <=> Attached(F, g)
<1> DEFINE G == SetName(F, f, n)
<1>1. Heap(F, R) /\ HeapType(F)
  BY DEF Good, Heap
<1>2. DOMAIN G = DOMAIN F
  BY DEF SetName
<1>3. ASSUME NEW g \in DOMAIN F
      PROVE  /\ G[g] \in File
             /\ G[g].open = F[g].open
             /\ G[g].ahead = F[g].ahead
             /\ G[g].type = F[g].type
             /\ G[g].folder = F[g].folder
             /\ G[g].name = IF g = f THEN n ELSE F[g].name
             /\ G[g].parent = F[g].parent
             /\ G[g].sibPrev = F[g].sibPrev
             /\ G[g].sibNext = F[g].sibNext
             /\ G[g].firstChild = F[g].firstChild
  <2>1. F[g] \in File
    BY <1>1 DEF HeapType
  <2>2. CASE g = f
    <3>1. PICK r, q : r = F[g] /\ q = G[g]
      OBVIOUS
    <3>2. q = [r EXCEPT !.name = n]
      BY <2>2, <3>1 DEF SetName
    <3>3. r \in File
      BY <2>1, <3>1
    <3>4. /\ q.open = r.open /\ q.ahead = r.ahead /\ q.type = r.type /\ q.folder = r.folder
          /\ q.name = n /\ q.parent = r.parent /\ q.sibPrev = r.sibPrev
          /\ q.sibNext = r.sibNext /\ q.firstChild = r.firstChild
      BY <3>2, <3>3 DEF File
    <3>5. q \in File
      BY <3>2, <3>3 DEF File
    <3> QED BY <2>2, <3>1, <3>4, <3>5
  <2>3. CASE g # f
    BY <2>1, <2>3 DEF SetName
  <2> QED BY <2>2, <2>3
<1>4. G \in [DOMAIN F -> File]
  <2>1. G = [g \in DOMAIN F |-> G[g]]
    BY DEF SetName
  <2> HIDE DEF G
  <2> QED BY <1>3, <2>1
<1> HIDE DEF G
<1>5. HeapType(G) /\ SameKind(F, G)
  BY <1>1, <1>2, <1>3, <1>4 DEF HeapType, SameKind
<1>6. SameLinks(F, G)
  <2>1. \A g \in DOMAIN F : Attached(F, g) => F[g].name # None
    BY <1>1 DEF Heap, Kid
  <2>2. n # None
    BY ConstantsAssumption
  <2> QED BY <1>2, <1>3, <1>5, <2>1, <2>2 DEF SameLinks
<1>7. Good(G, R) /\ \A g \in DOMAIN F : Attached(G, g) <=> Attached(F, g)
  BY <1>6, SameLinksGood
<1>8. \A d : Kids(G, d) = Kids(F, d)
  BY <1>2, <1>3, <1>7 DEF Kids
<1>9. Named(G, x)
  <2>1. ASSUME NEW g \in DOMAIN F \ {x}, NEW h \in DOMAIN F \ {x}, Attached(F, g), Attached(F, h),
               F[g].parent = F[h].parent, G[g].name = G[h].name
        PROVE  g = h
    <3>1. CASE g # f /\ h # f
      BY <1>3, <2>1, <3>1 DEF Named
    <3>2. CASE g = f
      <4>1. h \in Kids(F, F[f].parent) \ {x}
        BY <2>1, <3>2 DEF Kids
      <4>2. h # f => F[h].name = n
        BY <1>3, <2>1, <3>2
      <4> QED BY <3>2, <4>1, <4>2
    <3>3. CASE h = f
      <4>1. g \in Kids(F, F[f].parent) \ {x}
        BY <2>1, <3>3 DEF Kids
      <4>2. g # f => F[g].name = n
        BY <1>3, <2>1, <3>3
      <4> QED BY <3>3, <4>1, <4>2
    <3> QED BY <3>1, <3>2, <3>3
  <2> QED BY <1>2, <1>3, <1>7, <2>1 DEF Named
<1>10. ListsSound(G, L)
  BY <1>2, <1>3, <1>8, ListsSame
<1> QED BY <1>5, <1>7, <1>9, <1>10 DEF G

(* A file is moved to a slot of a folder that is not below it. *)
LEMMA Moving ==
  ASSUME NEW F, Good(F, {root}), NEW f \in DOMAIN F, f # root,
         NEW d \in DOMAIN F, F[d].folder, d = root \/ Attached(F, d), d \notin Below(F, {f}),
         NEW slot, SlotOf(F, d, slot), NEW n \in Names,
         NEW x, Named(F, x), \A g \in Kids(F, d) \ {x} : F[g].name = n => g = f,
         NEW L, ListsSound(F, L)
  PROVE  LET G == Moved(F, f, d, slot, n)
         IN  /\ Good(G, {root}) /\ SameKind(F, G) /\ Named(G, x)
             /\ ListsSound(G, MovedLists(L, F, f, d))
             /\ \A g \in DOMAIN F : Attached(G, g) <=> g = f \/ Attached(F, g)
<1>1. Heap(F, {root}) /\ HeapType(F)
  BY DEF Good, Heap
<1>2. d # NULL
  BY <1>1, HeapFinite
<1>3. CASE d = F[f].parent
  <2>1. Attached(F, f)
    BY <1>1, <1>2, <1>3 DEF Heap, Top
  <2>2. Moved(F, f, d, slot, n) = SetName(F, f, n) /\ MovedLists(L, F, f, d) = L
    BY <1>3 DEF Moved, MovedLists, SetName
  <2> QED BY <1>3, <2>1, <2>2, Renaming
<1>4. CASE d # F[f].parent /\ ~Attached(F, f)
  <2>1. Moved(F, f, d, slot, n) = Link(F, f, d, slot, n) /\ MovedLists(L, F, f, d) = L
    BY <1>4 DEF Moved, MovedLists, Attached
  <2>2. Good(F, {root} \cup {f})
    BY MoreRoots
  <2>3. \A g \in Kids(F, d) \ {x} : F[g].name # n
    BY <1>4 DEF Kids
  <2>4. LET G == Link(F, f, d, slot, n)
        IN  /\ Good(G, {root}) /\ SameKind(F, G) /\ Named(G, x) /\ ListsSound(G, L)
            /\ \A g \in DOMAIN F : Attached(G, g) <=> g = f \/ Attached(F, g)
    BY <1>4, <2>2, <2>3, Linking
  <2> QED BY <2>1, <2>4
<1>5. CASE d # F[f].parent /\ Attached(F, f)
  <2> DEFINE H == Unlink(F, f)
             M == StepBack(L, F, f)
  <2>1. /\ Moved(F, f, d, slot, n) = Link(H, f, d, slot, n)
        /\ MovedLists(L, F, f, d) = M
    BY <1>5 DEF Moved, MovedLists, Attached
  <2>2. /\ Good(H, {root} \cup {f}) /\ SameKind(F, H) /\ Named(H, x) /\ ListsSound(H, M)
        /\ \A g \in DOMAIN F : /\ Attached(H, g) <=> g # f /\ Attached(F, g)
                               /\ g # f => /\ H[g].parent = F[g].parent
                                           /\ H[g].name = F[g].name
    BY <1>5, Unlinking
  <2> HIDE DEF H, M
  <2>3. DOMAIN H = DOMAIN F /\ H[d].folder
    BY <2>2 DEF SameKind
  <2>4. d \notin Below(H, {f}) /\ d # f
    <3>1. f \in DOMAIN F \cap DOMAIN H
      BY <2>3
    <3>2. \A g \in DOMAIN H : Attached(H, g) =>
            g \in DOMAIN F /\ Attached(F, g) /\ F[g].parent = H[g].parent
      BY <2>2, <2>3
    <3>3. Below(H, {f}) \subseteq Below(F, {f})
      BY <2>2, <3>1, <3>2, BelowSmaller
    <3>4. {f} \in SUBSET DOMAIN F /\ {f} # {}
      OBVIOUS
    <3>5. f \in Below(F, {f})
      BY <3>4, BelowIs
    <3> QED BY <3>3, <3>5
  <2>5. d = root \/ Attached(H, d)
    BY <2>2, <2>4
  <2>6. Kids(H, d) = Kids(F, d)
    BY <1>5, <2>2, <2>3 DEF Kids
  <2>7. SlotOf(H, d, slot)
    BY <2>6 DEF SlotOf
  <2>8. \A g \in Kids(H, d) \ {x} : H[g].name # n
    BY <1>5, <2>2, <2>6 DEF Kids
  <2>9. ~Attached(H, f) /\ f \in DOMAIN H /\ d \in DOMAIN H
    BY <2>2, <2>3
  <2> DEFINE G == Link(H, f, d, slot, n)
  <2>10. /\ Good(G, {root}) /\ SameKind(H, G) /\ Named(G, x) /\ ListsSound(G, M)
         /\ \A g \in DOMAIN H : Attached(G, g) <=> g = f \/ Attached(H, g)
    BY <2>2, <2>3, <2>4, <2>5, <2>7, <2>8, <2>9, Linking
  <2> HIDE DEF G
  <2>11. SameKind(F, G)
    BY <2>2, <2>10 DEF SameKind
  <2>12. \A g \in DOMAIN F : Attached(G, g) <=> g = f \/ Attached(F, g)
    BY <2>2, <2>3, <2>10
  <2> QED BY <2>1, <2>10, <2>11, <2>12 DEF G
<1> QED BY <1>3, <1>4, <1>5

-----------------------------------------------------------------------------
(* The inductive invariant.                                                *)

(* What the driver has been told is open is open, and a close on its way   *)
(* is behind an open that the driver counts on.                            *)
Handled(F, D) ==
  /\ D \in [DOMAIN F -> [wants : BOOLEAN, closing : BOOLEAN]]
  /\ \A f \in DOMAIN F : /\ D[f].wants => F[f].open
                         /\ D[f].wants /\ D[f].closing => F[f].ahead = 1

Needed(F) == \A f \in DOMAIN F : f = root \/ Attached(F, f) \/ F[f].open

Sound(n, F, L, D) ==
  /\ n \in 2..MaxFiles
  /\ DOMAIN F \subseteq 1..n
  /\ Good(F, {root})
  /\ Named(F, NULL)
  /\ ListsSound(F, L)
  /\ Handled(F, D)

VolumeInv == Sound(lastFileId, file, lists, driver) /\ Needed(file)

(* After a request the files go that nothing needs any more, and the       *)
(* iterators of those that were folders.                                   *)
LEMMA BecomeSound ==
  ASSUME NEW F, NEW L, NEW D, Sound(lastFileId', F, L, D), Become(F, L, D)
  PROVE  VolumeInv'
<1> DEFINE kept == {f \in DOMAIN F : ~IsGarbage(F, f)}
<1>1. PICK G, M, E : G = file' /\ M = lists' /\ E = driver'
  OBVIOUS
<1>2. /\ G = [f \in kept |-> F[f]]
      /\ M = [l \in {m \in DOMAIN L : m[1] \in kept} |-> L[l]]
      /\ E = [f \in kept |-> D[f]]
  BY <1>1 DEF Become
<1>3. Good(F, {root}) /\ Heap(F, {root}) /\ HeapType(F)
  BY DEF Sound, Good, Heap
<1>4. /\ kept \in SUBSET DOMAIN F
      /\ root \in kept
      /\ \A f \in DOMAIN F \ kept : ~Attached(F, f)
      /\ \A f \in kept : f = root \/ Attached(F, f) \/ F[f].open
  BY <1>3 DEF IsGarbage, Attached, HeapType
<1> HIDE DEF kept
<1>5. {root} \cap DOMAIN F \subseteq kept
  BY <1>4
<1>6. /\ Good(G, {root})
      /\ \A f \in kept : Attached(G, f) <=> Attached(F, f)
      /\ \A d : Kids(G, d) = Kids(F, d)
  BY <1>2, <1>3, <1>4, <1>5, DropGood
<1>7. DOMAIN G = kept /\ \A f \in kept : G[f] = F[f]
  BY <1>2
<1>8. Named(G, NULL)
  <2>1. Fewer(F, G)
    BY <1>4, <1>6, <1>7 DEF Fewer
  <2> QED BY <2>1, NamedFewer DEF Sound
<1>9. ListsSound(G, M)
  <2>1. DOMAIN L \subseteq (DOMAIN F) \X ListIds /\ L \in [DOMAIN L -> FileList]
    BY DEF Sound, ListsSound
  <2>2. /\ DOMAIN M = {m \in DOMAIN L : m[1] \in kept}
        /\ M \in [DOMAIN M -> FileList]
        /\ \A l \in DOMAIN M : M[l] = L[l]
    BY <1>2, <2>1
  <2>3. DOMAIN M \subseteq (DOMAIN G) \X ListIds
    <3> SUFFICES ASSUME NEW l \in DOMAIN M PROVE l \in (DOMAIN G) \X ListIds
      OBVIOUS
    <3>1. l \in (DOMAIN F) \X ListIds /\ l[1] \in DOMAIN G
      BY <1>7, <2>1, <2>2
    <3>2. PICK a \in DOMAIN F, i \in ListIds : l = <<a, i>>
      BY <3>1
    <3> QED BY <3>1, <3>2
  <2>4. ASSUME NEW l \in DOMAIN M PROVE Listing(G, l[1], M[l])
    <3>1. Listing(F, l[1], L[l]) /\ M[l] = L[l] /\ l[1] \in kept
      BY <2>2 DEF Sound, ListsSound
    <3>2. PICK d : d = l[1]
      OBVIOUS
    <3>3. ASSUME NEW s, SlotOf(F, d, s) PROVE Deref(G, s) = Deref(F, s)
      <4>1. CASE s = First(d)
        BY <1>7, <3>1, <3>2, <4>1, SlotFacts
      <4>2. ASSUME NEW g \in Kids(F, d), s = After(g) PROVE Deref(G, s) = Deref(F, s)
        <5>1. g \in kept
          BY <1>4 DEF Kids
        <5> QED BY <1>7, <4>2, <5>1, SlotFacts
      <4> QED BY <3>3, <4>1, <4>2 DEF SlotOf
    <3> QED BY <1>6, <3>1, <3>2, <3>3, ListingSame
  <2> QED BY <2>2, <2>3, <2>4 DEF ListsSound
<1>10. Handled(G, E)
  <2>1. D \in [DOMAIN F -> [wants : BOOLEAN, closing : BOOLEAN]]
    BY DEF Sound, Handled
  <2>2. E \in [kept -> [wants : BOOLEAN, closing : BOOLEAN]] /\ \A f \in kept : E[f] = D[f]
    BY <1>2, <1>4, <2>1
  <2> QED BY <1>4, <1>7, <2>2 DEF Sound, Handled
<1>11. Sound(lastFileId', G, M, E)
  BY <1>4, <1>6, <1>7, <1>8, <1>9, <1>10 DEF Sound
<1>12. Needed(G)
  BY <1>4, <1>6, <1>7 DEF Needed
<1> QED BY <1>1, <1>11, <1>12 DEF VolumeInv

(* A file is opened and the driver told so. *)
LEMMA OpenedSound ==
  ASSUME VolumeInv, NEW F, Good(F, {root}), Named(F, NULL), NEW L, ListsSound(F, L),
         NEW f \in DOMAIN F, DOMAIN F = live \cup {f},
         \A g \in live : F[g].open = file[g].open /\ F[g].ahead = file[g].ahead,
         NEW n \in 2..MaxFiles, DOMAIN F \subseteq 1..n
  PROVE  /\ Sound(n, Opened(F, f), L, Wants(f))
         /\ \A g \in DOMAIN F : /\ Attached(Opened(F, f), g) <=> Attached(F, g)
                                /\ F[g].open => Opened(F, f)[g].open
<1> DEFINE a == IF f \in live /\ driver[f].closing THEN 1 ELSE 0
           G == SetHandle(F, f, TRUE, a)
           W == Wants(f)
<1>1. Opened(F, f) = G
  BY DEF Opened, SetHandle
<1>2. a \in 0..1 /\ (f \in live /\ driver[f].closing => a = 1)
  OBVIOUS
<1> HIDE DEF a
<1>3. /\ Good(G, {root}) /\ DOMAIN G = DOMAIN F
      /\ \A g \in DOMAIN F : /\ G[g].open = IF g = f THEN TRUE ELSE F[g].open
                             /\ G[g].ahead = IF g = f THEN a ELSE F[g].ahead
                             /\ G[g].type = F[g].type
                             /\ Attached(G, g) <=> Attached(F, g)
      /\ \A x : Named(F, x) => Named(G, x)
      /\ \A M : ListsSound(F, M) => ListsSound(G, M)
  BY <1>2, SetHandleSound
<1> HIDE DEF G
<1>4. Handled(file, driver)
  BY DEF VolumeInv, Sound
<1>5. /\ driver \in [live -> [wants : BOOLEAN, closing : BOOLEAN]]
      /\ \A g \in live : /\ driver[g].wants => file[g].open
                         /\ driver[g].wants /\ driver[g].closing => file[g].ahead = 1
  BY <1>4 DEF Handled, live
<1>6. /\ W \in [live \cup {f} -> [wants : BOOLEAN, closing : BOOLEAN]]
      /\ W[f] = [wants |-> TRUE, closing |-> f \in live /\ driver[f].closing]
      /\ \A g \in live : g # f => W[g] = driver[g]
  <2>1. [wants |-> TRUE, closing |-> f \in live /\ driver[f].closing]
          \in [wants : BOOLEAN, closing : BOOLEAN]
    BY <1>5
  <2>2. W = [g \in live \cup {f} |->
               IF g # f THEN driver[g]
               ELSE [wants |-> TRUE, closing |-> f \in live /\ driver[f].closing]]
    BY DEF Wants
  <2>3. PICK w : w = [wants |-> TRUE, closing |-> f \in live /\ driver[f].closing]
    OBVIOUS
  <2>4. W = [g \in live \cup {f} |-> IF g # f THEN driver[g] ELSE w]
    BY <2>2, <2>3
  <2> HIDE DEF W
  <2> QED BY <1>5, <2>1, <2>3, <2>4
<1> HIDE DEF W
<1>7. Handled(G, W)
  <2>1. ASSUME NEW g \in DOMAIN G
        PROVE  /\ W[g].wants => G[g].open
               /\ W[g].wants /\ W[g].closing => G[g].ahead = 1
    <3>1. CASE g = f
      <4>1. G[f].open /\ G[f].ahead = a
        BY <1>3
      <4>2. W[f].closing => f \in live /\ driver[f].closing
        BY <1>6
      <4> QED BY <1>2, <3>1, <4>1, <4>2
    <3>2. CASE g # f
      <4>1. g \in live /\ G[g].open = file[g].open /\ G[g].ahead = file[g].ahead
        BY <1>3, <2>1, <3>2
      <4> QED BY <1>5, <1>6, <3>2, <4>1
    <3> QED BY <3>1, <3>2
  <2> QED BY <1>3, <1>6, <2>1 DEF Handled
<1>8. Sound(n, G, L, W)
  BY <1>3, <1>7 DEF Sound
<1>9. \A g \in DOMAIN F : F[g].open => G[g].open
  BY <1>3
<1> QED BY <1>1, <1>3, <1>8, <1>9 DEF W

-----------------------------------------------------------------------------
(* Every request preserves the invariant.                                  *)

(* What the invariant says of the heap that requests start from. *)
LEMMA VolumeFacts ==
  ASSUME VolumeInv
  PROVE  /\ Good(file, {root}) /\ Heap(file, {root}) /\ HeapType(file)
         /\ Named(file, NULL) /\ ListsSound(file, lists) /\ Handled(file, driver)
         /\ lastFileId \in 2..MaxFiles /\ live \subseteq 1..lastFileId
         /\ live = DOMAIN file /\ root \in live
         /\ Tree(file) = {f \in live : f = root \/ Attached(file, f)}
         /\ \A d \in live : /\ ChildrenOf(file, d) = Kids(file, d)
                            /\ \A n : Found(d, n) = {f \in Kids(file, d) : file[f].name = n}
         /\ \A f \in live : file[f].name # None => Attached(file, f)
<1>1. /\ Good(file, {root}) /\ Heap(file, {root}) /\ HeapType(file)
      /\ Named(file, NULL) /\ ListsSound(file, lists) /\ Handled(file, driver)
      /\ lastFileId \in 2..MaxFiles /\ live \subseteq 1..lastFileId
      /\ live = DOMAIN file /\ root \in live
  BY DEF VolumeInv, Sound, Good, Heap, HeapType, live
<1>2. Tree(file) = {f \in live : f = root \/ Attached(file, f)}
  BY <1>1, TreeIs
<1>3. ASSUME NEW d \in live PROVE ChildrenOf(file, d) = Kids(file, d)
  BY <1>1, KidsAreChildren
<1>4. \A d \in live : \A n : Found(d, n) = {f \in Kids(file, d) : file[f].name = n}
  BY <1>3 DEF Found
<1>5. \A f \in live : file[f].name # None => Attached(file, f)
  BY <1>1 DEF Heap, Top
<1> QED BY <1>1, <1>2, <1>3, <1>4, <1>5

(* The end of a folder is a slot of it. *)
LEMMA EndIsSlot ==
  ASSUME VolumeInv, NEW d \in live
  PROVE  SlotOf(file, d, EndSlot(d))
<1>1. PICK s : SlotOf(file, d, s) /\ Deref(file, s) = NULL
  BY VolumeFacts, EndOfSlots
<1>2. \A t : t \in SlotsOf(file, d) <=> SlotOf(file, d, t)
  BY VolumeFacts, KidsAreChildren
<1>3. EndSlot(d) \in SlotsOf(file, d)
  BY <1>1, <1>2 DEF EndSlot
<1> QED BY <1>2, <1>3

(* Opening a file that is in memory changes nothing else. *)
LEMMA OpeningSound ==
  ASSUME VolumeInv, NEW f \in live, file' = Opened(file, f), driver' = Wants(f),
         UNCHANGED <<lastFileId, lists>>
  PROVE  VolumeInv'
<1>1. /\ Sound(lastFileId, Opened(file, f), lists, Wants(f))
      /\ \A g \in live : /\ Attached(Opened(file, f), g) <=> Attached(file, g)
                         /\ file[g].open => Opened(file, f)[g].open
  <2>1. live = live \cup {f}
    OBVIOUS
  <2> QED BY <2>1, VolumeFacts, OpenedSound
<1>2. Needed(Opened(file, f))
  <2>1. DOMAIN Opened(file, f) = live
    BY VolumeFacts DEF Opened
  <2> QED BY <1>1, <2>1, VolumeFacts DEF Needed, VolumeInv
<1> QED BY <1>1, <1>2 DEF VolumeInv

(* Volume::Open of a file that is there. *)
LEMMA OpenExistingSound ==
  ASSUME VolumeInv, OpenExisting
  PROVE  VolumeInv'
<1>1. PICK f \in Tree(file) : file' = Opened(file, f) /\ driver' = Wants(f)
  BY DEF OpenExisting
<1>2. f \in live /\ UNCHANGED <<lastFileId, lists>>
  BY VolumeFacts DEF OpenExisting
<1> QED BY <1>1, <1>2, OpeningSound

(* Volume::Access and Volume::FlushFile. *)
LEMMA OpenAgainSound ==
  ASSUME VolumeInv, NEW f, OpenAgain(f)
  PROVE  VolumeInv'
BY OpeningSound DEF OpenAgain

(* Volume::Move onto a name that is there. *)
LEMMA MoveOpensSound ==
  ASSUME VolumeInv, NEW f, NEW n, MoveOpens(f, n)
  PROVE  VolumeInv'
<1>1. PICK d \in Places : \E g \in Found(d, n) \ {f} :
        file' = Opened(file, g) /\ driver' = Wants(g)
  BY DEF MoveOpens
<1>2. PICK g \in Found(d, n) : file' = Opened(file, g) /\ driver' = Wants(g)
  BY <1>1
<1>3. d \in live
  BY VolumeFacts DEF Places
<1>4. g \in live
  BY <1>2, <1>3, VolumeFacts DEF Kids
<1> QED BY <1>2, <1>4, OpeningSound DEF MoveOpens

(* A close is decided: the driver counts on the file no more. *)
LEMMA DecideCloseSound ==
  ASSUME VolumeInv, NEW f, DecideClose(f)
  PROVE  VolumeInv'
<1>1. /\ f \in live
      /\ driver' = [driver EXCEPT ![f] = [wants |-> FALSE, closing |-> TRUE]]
      /\ file' = [file EXCEPT ![f].ahead = 0]
      /\ UNCHANGED <<lastFileId, lists>>
  BY DEF DecideClose
<1>2. file[f] \in File
  BY <1>1, VolumeFacts DEF HeapType
<1> DEFINE o == file[f].open
           G == SetHandle(file, f, o, 0)
<1>3. o \in BOOLEAN
  BY <1>2 DEF File
<1>4. file' = G
  BY <1>1, <1>2, VolumeFacts DEF SetHandle, File, HeapType
<1>5. /\ Good(G, {root}) /\ DOMAIN G = DOMAIN file
      /\ \A g \in DOMAIN file : /\ G[g].open = IF g = f THEN o ELSE file[g].open
                                /\ G[g].ahead = IF g = f THEN 0 ELSE file[g].ahead
                                /\ G[g].type = file[g].type
                                /\ Attached(G, g) <=> Attached(file, g)
      /\ \A x : Named(file, x) => Named(G, x)
      /\ \A L : ListsSound(file, L) => ListsSound(G, L)
  <2>1. f \in DOMAIN file /\ Good(file, {root})
    BY <1>1, VolumeFacts
  <2> HIDE DEF o
  <2> QED BY <1>3, <2>1, SetHandleSound
<1> HIDE DEF G
<1>6. PICK E : E = driver'
  OBVIOUS
<1>7. Handled(G, E)
  <2>1. /\ driver \in [live -> [wants : BOOLEAN, closing : BOOLEAN]]
        /\ \A g \in live : /\ driver[g].wants => file[g].open
                           /\ driver[g].wants /\ driver[g].closing => file[g].ahead = 1
    BY VolumeFacts DEF Handled
  <2>2. /\ E \in [live -> [wants : BOOLEAN, closing : BOOLEAN]]
        /\ ~E[f].wants
        /\ \A g \in live : g # f => E[g] = driver[g]
    BY <1>1, <1>6, <2>1
  <2> QED BY <1>5, <2>1, <2>2, VolumeFacts DEF Handled
<1>8. Sound(lastFileId, G, lists, E)
  BY <1>5, <1>7, VolumeFacts DEF Sound
<1>9. Needed(G)
  BY <1>5 DEF Needed, VolumeInv
<1> QED BY <1>1, <1>4, <1>6, <1>8, <1>9 DEF VolumeInv

(* A close arrives: a file that has been opened since stays open. *)
LEMMA CloseSound ==
  ASSUME VolumeInv, NEW f, Close(f)
  PROVE  VolumeInv'
<1>1. /\ f \in live
      /\ driver[f].closing
      /\ Become(AfterClose(f), lists, Closed(f))
      /\ lastFileId' = lastFileId
  BY DEF Close
<1> DEFINE o == ~IsLastClose(f)
           G == SetHandle(file, f, o, 0)
           E == Closed(f)
<1>2. o \in BOOLEAN /\ AfterClose(f) = G
  BY DEF AfterClose, SetHandle, IsLastClose
<1>3. file[f].ahead = 1 => o
  BY DEF IsLastClose
<1>4. /\ Good(G, {root}) /\ DOMAIN G = DOMAIN file
      /\ \A g \in DOMAIN file : /\ G[g].open = IF g = f THEN o ELSE file[g].open
                                /\ G[g].ahead = IF g = f THEN 0 ELSE file[g].ahead
                                /\ G[g].type = file[g].type
                                /\ Attached(G, g) <=> Attached(file, g)
      /\ \A x : Named(file, x) => Named(G, x)
      /\ \A L : ListsSound(file, L) => ListsSound(G, L)
  <2>1. f \in DOMAIN file /\ Good(file, {root}) /\ o \in BOOLEAN
    BY <1>1, <1>2, VolumeFacts
  <2> HIDE DEF o
  <2> QED BY <2>1, SetHandleSound
<1> HIDE DEF G, o
<1>5. Handled(G, E)
  <2>1. /\ driver \in [live -> [wants : BOOLEAN, closing : BOOLEAN]]
        /\ \A g \in live : /\ driver[g].wants => file[g].open
                           /\ driver[g].wants /\ driver[g].closing => file[g].ahead = 1
    BY VolumeFacts DEF Handled
  <2>2. /\ E \in [live -> [wants : BOOLEAN, closing : BOOLEAN]]
        /\ E[f].wants = driver[f].wants /\ ~E[f].closing
        /\ \A g \in live : g # f => E[g] = driver[g]
    <3>1. driver[f] \in [wants : BOOLEAN, closing : BOOLEAN]
      BY <1>1, <2>1
    <3> QED BY <1>1, <2>1, <3>1 DEF Closed
  <2> HIDE DEF E
  <2>3. ASSUME NEW g \in DOMAIN G
        PROVE  /\ E[g].wants => G[g].open
               /\ E[g].wants /\ E[g].closing => G[g].ahead = 1
    <3>1. CASE g = f
      BY <1>1, <1>3, <1>4, <2>1, <2>2, <3>1, VolumeFacts
    <3>2. CASE g # f
      BY <1>4, <2>1, <2>2, <2>3, <3>2, VolumeFacts
    <3> QED BY <3>1, <3>2
  <2> QED BY <1>4, <2>2, <2>3, VolumeFacts DEF Handled
<1> HIDE DEF E
<1>6. Sound(lastFileId', G, lists, E)
  BY <1>1, <1>4, <1>5, VolumeFacts DEF Sound
<1>7. Become(G, lists, E)
  BY <1>1, <1>2 DEF E
<1> QED BY <1>6, <1>7, BecomeSound

(* The memory with a new file. *)
WithNew(id, type, folder) ==
  [g \in live \cup {id} |-> IF g = id THEN NewFile(type, folder, None) ELSE file[g]]

(* It is in no folder, and nothing else is new. *)
Added(E, id) ==
  /\ id \in 2..MaxFiles /\ id \notin live /\ id # root
  /\ Good(E, {root}) /\ Good(E, {root} \cup {id}) /\ HeapType(E)
  /\ Named(E, NULL) /\ ListsSound(E, lists)
  /\ DOMAIN E = live \cup {id} /\ ~Attached(E, id)
  /\ \A g \in live : E[g] = file[g] /\ (Attached(E, g) <=> Attached(file, g))
  /\ \A d : Kids(E, d) = Kids(file, d)
  /\ \A d \in live : d \notin Below(E, {id})

(* A new file, before it is put into its folder. *)
LEMMA Adding ==
  ASSUME VolumeInv, lastFileId < MaxFiles,
         NEW type \in {"TEMPORARY", "VIRTUAL", "MAPPED"}, NEW folder \in BOOLEAN,
         NEW id, id = lastFileId + 1, NEW E, E = WithNew(id, type, folder)
  PROVE  Added(E, id)
<1>1. id \in 2..MaxFiles /\ id \in 1..MaxFiles /\ id \notin live /\ id # root
  BY VolumeFacts, ConstantsAssumption DEF root
<1>2. PICK r : r = NewFile(type, folder, None)
  OBVIOUS
<1>3. /\ r \in File
      /\ r.parent = NULL /\ r.sibPrev = NoSlot /\ r.sibNext = NULL
      /\ r.firstChild = NULL /\ r.name = None
  BY <1>2, ConstantsAssumption DEF NewFile, File, NULL
<1>4. E = [g \in DOMAIN file \cup {id} |-> IF g = id THEN r ELSE file[g]]
  BY <1>2, VolumeFacts DEF WithNew
<1>5. /\ Good(E, {root})
      /\ DOMAIN E = DOMAIN file \cup {id} /\ E[id] = r /\ ~Attached(E, id)
      /\ \A g \in DOMAIN file : E[g] = file[g] /\ (Attached(E, g) <=> Attached(file, g))
      /\ \A d : Kids(E, d) = Kids(file, d)
  BY <1>1, <1>3, <1>4, VolumeFacts, AddGood
<1>6. Good(E, {root} \cup {id})
  BY <1>5, MoreRoots
<1>7. Named(E, NULL)
  <2>1. Fewer(file, E)
    BY <1>5 DEF Fewer
  <2> QED BY <2>1, VolumeFacts, NamedFewer
<1>8. ListsSound(E, lists)
  BY <1>5, VolumeFacts, ListsSame
<1>9. \A d \in live : d \notin Below(E, {id})
  <2>1. {id} \in SUBSET DOMAIN E /\ {id} # {}
    BY <1>5
  <2>2. ASSUME NEW f \in DOMAIN E, Attached(E, f) PROVE E[f].parent \notin {id}
    <3>1. f \in DOMAIN file /\ Attached(file, f) /\ E[f] = file[f]
      BY <1>5, <2>2
    <3>2. file[f].parent \in DOMAIN file
      BY <3>1, VolumeFacts DEF Heap, Kid
    <3> QED BY <1>1, <3>1, <3>2, VolumeFacts
  <2>3. \A X : /\ {id} \subseteq X
               /\ \A f \in DOMAIN E : Attached(E, f) /\ E[f].parent \in X => f \in X
               => Below(E, {id}) \subseteq X
    BY <1>5, <2>1, BelowIs
  <2>4. Below(E, {id}) \subseteq {id}
    BY <2>2, <2>3
  <2> QED BY <1>1, <2>4
<1> QED BY <1>1, <1>5, <1>6, <1>7, <1>8, <1>9, VolumeFacts DEF Good, Heap, Added

(* A heap with the kinds and handles of another. *)
LEMMA HandledSame ==
  ASSUME NEW F, NEW G, NEW D, SameKind(F, G), Handled(F, D)
  PROVE  Handled(G, D)
BY DEF SameKind, Handled

(* Volume::Open of a name that is not there: the new file goes to the end  *)
(* of a folder that has no file of its name.                               *)
LEMMA CreateSound ==
  ASSUME VolumeInv, NEW n \in Names, NEW folder \in BOOLEAN, Create(n, folder)
  PROVE  VolumeInv'
<1> DEFINE id == lastFileId + 1
           type == IF n \in XmpNames THEN "MAPPED" ELSE "TEMPORARY"
<1>1. PICK E : E = WithNew(id, type, folder)
  OBVIOUS
<1>2. PICK d \in Places :
        /\ NotFound(d, n)
        /\ Become(Opened(Link(E, id, d, EndSlot(d), n), id), lists, Wants(id))
  BY <1>1 DEF Create, WithNew
<1>3. lastFileId < MaxFiles /\ lastFileId' = id
  BY DEF Create
<1>4. type \in {"TEMPORARY", "VIRTUAL", "MAPPED"}
  OBVIOUS
<1> HIDE DEF type
<1>5. PICK i : i = id
  OBVIOUS
<1>6. /\ i \in 2..MaxFiles /\ i \notin live /\ i # root
      /\ Good(E, {root}) /\ Good(E, {root} \cup {i}) /\ HeapType(E)
      /\ Named(E, NULL) /\ ListsSound(E, lists)
      /\ DOMAIN E = live \cup {i} /\ ~Attached(E, i)
      /\ \A g \in live : E[g] = file[g] /\ (Attached(E, g) <=> Attached(file, g))
      /\ \A e : Kids(E, e) = Kids(file, e)
      /\ \A e \in live : e \notin Below(E, {i})
  <2>1. i = lastFileId + 1 /\ E = WithNew(i, type, folder) /\ lastFileId < MaxFiles
    BY <1>1, <1>3, <1>5
  <2> HIDE DEF id
  <2>2. Added(E, i)
    BY <1>4, <2>1, Adding
  <2> QED BY <2>2 DEF Added
<1> HIDE DEF id
<1>7. /\ d \in live /\ file[d].folder
      /\ d = root \/ Attached(file, d)
      /\ \A g \in Kids(file, d) : file[g].name # n
  BY <1>2, VolumeFacts DEF Places, FoldersOf, NotFound
<1>8. PICK slot : slot = EndSlot(d)
  OBVIOUS
<1>9. SlotOf(E, d, slot)
  <2>1. SlotOf(file, d, slot)
    BY <1>7, <1>8, EndIsSlot
  <2> QED BY <1>6, <2>1 DEF SlotOf
<1>10. /\ d \in DOMAIN E /\ E[d].folder
       /\ d = root \/ Attached(E, d)
       /\ \A g \in Kids(E, d) \ {NULL} : E[g].name # n
  <2>1. \A g \in Kids(E, d) : g \in live /\ E[g] = file[g]
    BY <1>6, VolumeFacts DEF Kids
  <2> QED BY <1>6, <1>7, <2>1
<1> DEFINE G == Link(E, i, d, slot, n)
<1>11. /\ Good(G, {root}) /\ SameKind(E, G) /\ Named(G, NULL) /\ ListsSound(G, lists)
       /\ \A g \in DOMAIN E : Attached(G, g) <=> g = i \/ Attached(E, g)
  BY <1>6, <1>9, <1>10, Linking
<1>12. Become(Opened(G, i), lists, Wants(i))
  BY <1>2, <1>5, <1>8
<1> HIDE DEF G
<1>13. /\ i \in DOMAIN G /\ DOMAIN G = live \cup {i} /\ DOMAIN G \subseteq 1..i
       /\ \A g \in live : G[g].open = file[g].open /\ G[g].ahead = file[g].ahead
  BY <1>5, <1>6, <1>11, VolumeFacts DEF SameKind, id
<1>14. Sound(i, Opened(G, i), lists, Wants(i))
  BY <1>6, <1>11, <1>13, OpenedSound
<1>15. Sound(lastFileId', Opened(G, i), lists, Wants(i))
  BY <1>3, <1>5, <1>14
<1> QED BY <1>12, <1>15, BecomeSound

(* Volume::Delete, with all that is below a mapped folder. *)
LEMMA DeleteSound ==
  ASSUME VolumeInv, NEW f, Delete(f)
  PROVE  VolumeInv'
<1> DEFINE G == Unlink(Prune(file, f), f)
           M == PruneLists(StepBack(lists, file, f), file, f)
<1>1. /\ f \in live /\ file[f].name # None
      /\ Become(G, M, driver)
      /\ lastFileId' = lastFileId
  BY DEF Delete
<1>2. f \in DOMAIN file /\ Attached(file, f)
  BY <1>1, VolumeFacts
<1>3. Good(G, {root}) /\ SameKind(file, G) /\ Named(G, NULL) /\ ListsSound(G, M)
  BY <1>2, VolumeFacts, Removing
<1> HIDE DEF G, M
<1>4. DOMAIN G = DOMAIN file
  BY <1>3 DEF SameKind
<1>5. Handled(G, driver)
  BY <1>3, VolumeFacts, HandledSame
<1>6. Sound(lastFileId', G, M, driver)
  BY <1>1, <1>3, <1>4, <1>5, VolumeFacts DEF Sound
<1> QED BY <1>1, <1>6, BecomeSound

(* Volume::Replace: the new file takes the slot and the name of the target *)
(* while that is still there; only when the target is gone are the names   *)
(* different again.                                                        *)
LEMMA ReplaceSound ==
  ASSUME VolumeInv, NEW f, Replace(f)
  PROVE  VolumeInv'
<1>1. /\ f \in live /\ lastFileId < MaxFiles /\ f # root /\ file[f].name # None
      /\ lastFileId' = lastFileId + 1
  BY DEF Replace
<1>2. Attached(file, f) /\ f \in DOMAIN file /\ file[f] \in File
  BY <1>1, VolumeFacts DEF HeapType
<1>3. PICK i, E, p, s, n, folder :
        /\ i = lastFileId + 1
        /\ p = file[f].parent /\ s = file[f].sibPrev /\ n = file[f].name
        /\ folder = file[f].folder
        /\ E = WithNew(i, "TEMPORARY", folder)
  OBVIOUS
<1> DEFINE F == Link(E, i, p, s, n)
           G == Unlink(Prune(F, f), f)
           M == PruneLists(StepBack(lists, F, f), F, f)
<1>4. Become(Opened(G, i), M, Wants(i))
  BY <1>3 DEF Replace, WithNew
<1>5. folder \in BOOLEAN /\ n \in Names
  BY <1>1, <1>2, <1>3 DEF File
<1>6. Added(E, i)
  BY <1>1, <1>3, <1>5, Adding
<1>7. /\ i \in 2..MaxFiles /\ i \notin live /\ i # root
      /\ Good(E, {root}) /\ Good(E, {root} \cup {i}) /\ HeapType(E)
      /\ Named(E, NULL) /\ ListsSound(E, lists)
      /\ DOMAIN E = live \cup {i} /\ ~Attached(E, i)
      /\ \A g \in live : E[g] = file[g] /\ (Attached(E, g) <=> Attached(file, g))
      /\ \A d : Kids(E, d) = Kids(file, d)
      /\ \A d \in live : d \notin Below(E, {i})
  BY <1>6 DEF Added
<1>8. /\ p \in live /\ file[p].folder /\ (p = root \/ Attached(file, p))
      /\ SlotOf(file, p, s)
  BY <1>2, <1>3, VolumeFacts DEF Heap, Kid
<1>9. /\ p \in DOMAIN E /\ E[p].folder /\ (p = root \/ Attached(E, p))
      /\ p \notin Below(E, {i})
      /\ SlotOf(E, p, s)
  BY <1>7, <1>8 DEF SlotOf
<1>10. \A g \in Kids(E, p) \ {f} : E[g].name # n
  <2>1. ASSUME NEW g \in Kids(file, p), g # f PROVE file[g].name # n
    <3>1. g \in DOMAIN file \ {NULL} /\ f \in DOMAIN file \ {NULL}
      BY <1>2, HeapFinite, VolumeFacts DEF Kids
    <3>2. Attached(file, g) /\ file[g].parent = p
      BY DEF Kids
    <3> QED BY <1>2, <1>3, <2>1, <3>1, <3>2, VolumeFacts DEF Named
  <2>2. \A g \in Kids(file, p) : g \in live
    BY VolumeFacts DEF Kids
  <2> QED BY <1>7, <2>1, <2>2
<1>11. Named(E, f)
  BY <1>7, NamedForAll
<1>12. /\ Good(F, {root}) /\ SameKind(E, F) /\ Named(F, f) /\ ListsSound(F, lists)
       /\ \A g \in DOMAIN E : Attached(F, g) <=> g = i \/ Attached(E, g)
  <2>1. i \in DOMAIN E
    BY <1>7
  <2> QED BY <1>5, <1>7, <1>9, <1>10, <1>11, <2>1, Linking
<1> HIDE DEF F
<1>13. f \in DOMAIN F /\ DOMAIN F = DOMAIN E /\ Attached(F, f)
  BY <1>1, <1>2, <1>7, <1>12 DEF SameKind
<1>14. /\ Good(G, {root}) /\ SameKind(F, G) /\ Named(G, f) /\ ListsSound(G, M)
       /\ ~Attached(G, f)
  BY <1>12, <1>13, Removing
<1> HIDE DEF G, M
<1>15. Named(G, NULL)
  BY <1>14, NamedForAll DEF Good, Heap
<1>16. /\ i \in DOMAIN G /\ DOMAIN G = live \cup {i} /\ DOMAIN G \subseteq 1..i
       /\ \A g \in live : G[g].open = file[g].open /\ G[g].ahead = file[g].ahead
  BY <1>3, <1>7, <1>12, <1>14, VolumeFacts DEF SameKind
<1>17. Sound(i, Opened(G, i), M, Wants(i))
  BY <1>7, <1>14, <1>15, <1>16, OpenedSound
<1>18. Sound(lastFileId', Opened(G, i), M, Wants(i))
  BY <1>1, <1>3, <1>17
<1> QED BY <1>4, <1>18, BecomeSound

(* Volume::Move to a name that is not there, or the file's own. *)
LEMMA MoveSound ==
  ASSUME ~CyclicMoves, VolumeInv, NEW f, NEW n \in Names, Move(f, n)
  PROVE  VolumeInv'
<1>1. f \in live /\ lastFileId' = lastFileId
  BY DEF Move
<1>2. PICK d \in Places :
        /\ Found(d, n) \subseteq {f}
        /\ DriverMoves(f, d)
        /\ Become(Opened(Moved(file, f, d, EndSlot(d), n), f),
                  MovedLists(lists, file, f, d), Wants(f))
  BY DEF Move
<1>3. f # root /\ d \notin Below(file, {f})
  BY <1>2 DEF DriverMoves
<1>4. /\ d \in live /\ file[d].folder
      /\ d = root \/ Attached(file, d)
      /\ \A g \in Kids(file, d) : file[g].name = n => g = f
  BY <1>2, VolumeFacts DEF Places, FoldersOf
<1>5. PICK slot : slot = EndSlot(d)
  OBVIOUS
<1>6. SlotOf(file, d, slot)
  BY <1>4, <1>5, EndIsSlot
<1> DEFINE G == Moved(file, f, d, slot, n)
           M == MovedLists(lists, file, f, d)
<1>7. Become(Opened(G, f), M, Wants(f))
  BY <1>2, <1>5
<1>8. Good(G, {root}) /\ SameKind(file, G) /\ Named(G, NULL) /\ ListsSound(G, M)
  <2>1. f \in DOMAIN file /\ d \in DOMAIN file
    BY <1>1, <1>4, VolumeFacts
  <2>2. \A g \in Kids(file, d) \ {NULL} : file[g].name = n => g = f
    BY <1>4
  <2> QED BY <1>3, <1>4, <1>6, <2>1, <2>2, VolumeFacts, Moving
<1> HIDE DEF G, M
<1>9. /\ f \in DOMAIN G /\ DOMAIN G = live \cup {f} /\ DOMAIN G \subseteq 1..lastFileId
      /\ \A g \in live : G[g].open = file[g].open /\ G[g].ahead = file[g].ahead
  BY <1>1, <1>8, VolumeFacts DEF SameKind
<1>10. Sound(lastFileId, Opened(G, f), M, Wants(f))
  BY <1>8, <1>9, VolumeFacts, OpenedSound
<1>11. Sound(lastFileId', Opened(G, f), M, Wants(f))
  BY <1>1, <1>10
<1> QED BY <1>7, <1>11, BecomeSound

(* Volume::MoveReplace: the file comes out of its folder before it goes to *)
(* the slot of the target, which it may have been next to or below.        *)
LEMMA MoveReplaceSound ==
  ASSUME ~CyclicMoves, VolumeInv, NEW f, NEW t, MoveReplace(f, t)
  PROVE  VolumeInv'
<1>1. /\ f \in live /\ t \in live /\ t # root /\ file[t].name # None /\ f # t
      /\ DriverMoves(f, file[t].parent)
      /\ lastFileId' = lastFileId
  BY DEF MoveReplace
<1>2. /\ Attached(file, t) /\ t \in DOMAIN file /\ f \in DOMAIN file
      /\ file[t] \in File
  BY <1>1, VolumeFacts DEF HeapType
<1>3. PICK d, s, n : d = file[t].parent /\ s = file[t].sibPrev /\ n = file[t].name
  OBVIOUS
<1> DEFINE F == Moved(file, f, d, s, n)
           L == MovedLists(lists, file, f, d)
           G == Unlink(Prune(F, t), t)
           M == PruneLists(StepBack(L, F, t), F, t)
<1>4. Become(G, M, driver)
  BY <1>3 DEF MoveReplace
<1>5. f # root /\ d \notin Below(file, {f}) /\ n \in Names
  BY <1>1, <1>2, <1>3 DEF DriverMoves, File
<1>6. /\ d \in DOMAIN file /\ file[d].folder /\ (d = root \/ Attached(file, d))
      /\ SlotOf(file, d, s)
  BY <1>2, <1>3, VolumeFacts DEF Heap, Kid
<1>7. \A g \in Kids(file, d) \ {t} : file[g].name # n
  <2> SUFFICES ASSUME NEW g \in Kids(file, d), g # t PROVE file[g].name # n
    OBVIOUS
  <2>1. g \in DOMAIN file \ {NULL} /\ t \in DOMAIN file \ {NULL}
    BY <1>2, HeapFinite, VolumeFacts DEF Kids
  <2>2. Attached(file, g) /\ file[g].parent = d
    BY DEF Kids
  <2> QED BY <1>2, <1>3, <2>1, <2>2, VolumeFacts DEF Named
<1>8. Named(file, t)
  BY VolumeFacts, NamedForAll
<1>9. /\ Good(F, {root}) /\ SameKind(file, F) /\ Named(F, t) /\ ListsSound(F, L)
      /\ \A g \in DOMAIN file : Attached(F, g) <=> g = f \/ Attached(file, g)
  <2>1. \A g \in Kids(file, d) \ {t} : file[g].name = n => g = f
    BY <1>7
  <2> QED BY <1>2, <1>5, <1>6, <1>8, <2>1, VolumeFacts, Moving
<1> HIDE DEF F, L
<1>10. t \in DOMAIN F /\ Attached(F, t) /\ DOMAIN F = DOMAIN file
  BY <1>2, <1>9 DEF SameKind
<1>11. /\ Good(G, {root}) /\ SameKind(F, G) /\ Named(G, t) /\ ListsSound(G, M)
       /\ ~Attached(G, t)
  BY <1>9, <1>10, Removing
<1> HIDE DEF G, M
<1>12. Named(G, NULL)
  BY <1>11, NamedForAll DEF Good, Heap
<1>13. DOMAIN G = DOMAIN file /\ Handled(G, driver)
  <2>1. Handled(F, driver)
    BY <1>9, VolumeFacts, HandledSame
  <2>2. Handled(G, driver)
    BY <1>11, <2>1, HandledSame
  <2> QED BY <1>10, <1>11, <2>2 DEF SameKind
<1>14. Sound(lastFileId', G, M, driver)
  BY <1>1, <1>11, <1>12, <1>13, VolumeFacts DEF Sound
<1> QED BY <1>4, <1>14, BecomeSound

(* Volume::List with a new id. *)
LEMMA ListBeginSound ==
  ASSUME VolumeInv, NEW d, NEW i \in ListIds, ListBegin(d, i)
  PROVE  VolumeInv'
<1>1. d \in live /\ UNCHANGED <<file, lastFileId, driver>>
  BY DEF ListBegin
<1>2. PICK l, A, M :
        /\ l = <<d, i>>
        /\ A = [position |-> <<"first", d>>, due |-> ChildrenOf(file, d),
                done |-> {}, again |-> FALSE]
        /\ M = lists'
  OBVIOUS
<1>3. M = [m \in DOMAIN lists \cup {l} |-> IF m \in DOMAIN lists THEN lists[m] ELSE A]
      /\ l \notin DOMAIN lists
  BY <1>2 DEF ListBegin
<1>4. /\ A.position = First(d) /\ A.due = Kids(file, d) /\ A.done = {} /\ A.again = FALSE
  BY <1>1, <1>2, VolumeFacts DEF First
<1>5. A \in FileList
  <2>1. Kids(file, d) \subseteq 1..MaxFiles
    BY VolumeFacts DEF Kids, HeapType
  <2>2. <<"first", d>> \in Slots
    BY <1>1, VolumeFacts DEF Slots, HeapType
  <2>3. ChildrenOf(file, d) = Kids(file, d)
    BY <1>1, VolumeFacts
  <2> QED BY <1>2, <2>1, <2>2, <2>3 DEF FileList
<1>6. Listing(file, d, A)
  BY <1>1, <1>4, VolumeFacts, ListingBegin
<1>7. ListsSound(file, M)
  <2>1. /\ DOMAIN lists \subseteq (DOMAIN file) \X ListIds
        /\ lists \in [DOMAIN lists -> FileList]
        /\ \A m \in DOMAIN lists : Listing(file, m[1], lists[m])
    BY VolumeFacts DEF ListsSound
  <2>2. DOMAIN M = DOMAIN lists \cup {l} /\ l \in (DOMAIN file) \X ListIds /\ l[1] = d
    BY <1>1, <1>2, <1>3, VolumeFacts
  <2>3. M[l] = A /\ \A m \in DOMAIN lists : M[m] = lists[m]
    BY <1>3
  <2>4. M \in [DOMAIN M -> FileList]
    BY <1>3, <1>5, <2>1, <2>2
  <2>5. ASSUME NEW m \in DOMAIN M PROVE Listing(file, m[1], M[m])
    BY <1>6, <2>1, <2>2, <2>3
  <2> QED BY <2>1, <2>2, <2>4, <2>5 DEF ListsSound
<1>8. Sound(lastFileId, file, M, driver) /\ Needed(file)
  BY <1>7 DEF VolumeInv, Sound
<1> QED BY <1>1, <1>2, <1>8 DEF VolumeInv

(* FileList::Iterate: what is delivered was due and is behind the          *)
(* position.                                                               *)
LEMMA ListNextSound ==
  ASSUME VolumeInv, NEW d, NEW i \in ListIds, ListNext(d, i)
  PROVE  VolumeInv'
<1>1. <<d, i>> \in DOMAIN lists /\ UNCHANGED <<file, lastFileId, driver>>
  BY DEF ListNext
<1>2. PICK l, A, f, M :
        l = <<d, i>> /\ A = lists[l] /\ f = Deref(file, A.position) /\ M = lists'
  OBVIOUS
<1>3. PICK C : C = [position |-> <<"next", f>>,
                    due      |-> A.due \ {f},
                    done     |-> A.done \cup (A.due \cap {f}),
                    again    |-> A.again \/ f \in A.done]
  OBVIOUS
<1>4. f # NULL /\ M = [lists EXCEPT ![l] = C]
  BY <1>2, <1>3 DEF ListNext
<1>5. /\ DOMAIN lists \subseteq (DOMAIN file) \X ListIds
      /\ lists \in [DOMAIN lists -> FileList]
      /\ \A m \in DOMAIN lists : Listing(file, m[1], lists[m])
  BY VolumeFacts DEF ListsSound
<1>6. l \in DOMAIN lists /\ l[1] = d /\ A \in FileList /\ Listing(file, d, A)
  BY <1>1, <1>2, <1>5
<1>7. d \in DOMAIN file
  BY <1>5, <1>6, FolderOfList
<1>8. /\ C.position = After(f) /\ C.due = A.due \ {f}
      /\ C.done = A.done \cup (A.due \cap {f}) /\ C.again = (A.again \/ f \in A.done)
  BY <1>3 DEF After
<1>9. Listing(file, d, C) /\ f \in DOMAIN file
  BY <1>2, <1>4, <1>6, <1>7, <1>8, VolumeFacts, ListingNext
<1>10. C \in FileList
  <2>1. <<"next", f>> \in Slots
    BY <1>9, VolumeFacts DEF Slots, HeapType
  <2>2. A.due \subseteq 1..MaxFiles /\ A.done \subseteq 1..MaxFiles /\ A.again \in BOOLEAN
    BY <1>6 DEF FileList
  <2> QED BY <1>3, <2>1, <2>2 DEF FileList
<1>11. ListsSound(file, M)
  <2>1. DOMAIN M = DOMAIN lists /\ M[l] = C /\ \A m \in DOMAIN lists : m # l => M[m] = lists[m]
    BY <1>4, <1>6
  <2>2. M \in [DOMAIN M -> FileList]
    BY <1>4, <1>5, <1>10
  <2>3. ASSUME NEW m \in DOMAIN M PROVE Listing(file, m[1], M[m])
    BY <1>5, <1>6, <1>9, <2>1
  <2> QED BY <1>5, <2>1, <2>2, <2>3 DEF ListsSound
<1>12. Sound(lastFileId, file, M, driver) /\ Needed(file)
  BY <1>11 DEF VolumeInv, Sound
<1> QED BY <1>1, <1>2, <1>12 DEF VolumeInv

(* Volume::ListEnd. *)
LEMMA ListEndSound ==
  ASSUME VolumeInv, NEW d, NEW i \in ListIds, ListEnd(d, i)
  PROVE  VolumeInv'
<1>1. UNCHANGED <<file, lastFileId, driver>>
  BY DEF ListEnd
<1>2. PICK M : M = lists'
  OBVIOUS
<1>3. M = [l \in DOMAIN lists \ {<<d, i>>} |-> lists[l]]
  BY <1>2 DEF ListEnd
<1>4. ListsSound(file, M)
  BY <1>3, VolumeFacts DEF ListsSound
<1>5. Sound(lastFileId, file, M, driver) /\ Needed(file)
  BY <1>4 DEF VolumeInv, Sound
<1> QED BY <1>1, <1>2, <1>5 DEF VolumeInv

(* The volume of a clip of one frame. *)
LEMMA InitSound ==
  ASSUME Init
  PROVE  VolumeInv
<1>1. PICK F, L, D : F = file /\ L = lists /\ D = driver
  OBVIOUS
<1>2. DOMAIN F = {1, 2} /\ root = 1
  BY <1>1 DEF Init, root
<1>3. PICK r, q :
        /\ r = [NewFile("TEMPORARY", TRUE, None) EXCEPT !.firstChild = 2]
        /\ q = [NewFile("VIRTUAL", FALSE, VirtualName) EXCEPT
                  !.parent = root, !.sibPrev = <<"first", root>>]
  OBVIOUS
<1>4. F = [f \in {1, 2} |-> IF f = root THEN r ELSE q]
  BY <1>1, <1>3 DEF Init
<1>5. F[1] = r /\ F[2] = q
  BY <1>2, <1>4
<1>6. /\ r = [type |-> "TEMPORARY", folder |-> TRUE, name |-> None, parent |-> NULL,
              sibPrev |-> NoSlot, sibNext |-> NULL, firstChild |-> 2,
              open |-> FALSE, ahead |-> 0]
      /\ q = [type |-> "VIRTUAL", folder |-> FALSE, name |-> VirtualName, parent |-> 1,
              sibPrev |-> First(1), sibNext |-> NULL, firstChild |-> NULL,
              open |-> FALSE, ahead |-> 0]
  BY <1>2, <1>3 DEF NewFile, First
<1>7. r \in File /\ q \in File
  <2>1. {1, 2} \subseteq 1..MaxFiles /\ NULL \in 0..MaxFiles /\ 1 \in 0..MaxFiles /\ 2 \in 0..MaxFiles
    BY ConstantsAssumption DEF NULL
  <2>2. First(1) \in Slots
    BY <2>1 DEF First, Slots
  <2>3. VirtualName \in Names
    BY ConstantsAssumption
  <2> QED BY <1>6, <2>1, <2>2, <2>3 DEF File
<1>8. HeapType(F)
  <2>1. F \in [{1, 2} -> File]
    BY <1>4, <1>7
  <2>2. {1, 2} \subseteq 1..MaxFiles
    BY ConstantsAssumption
  <2> QED BY <1>2, <2>1, <2>2 DEF HeapType
<1>9. ~Attached(F, 1) /\ Attached(F, 2)
  BY <1>5, <1>6, SlotFacts DEF Attached
<1>10. Top(F, {root}, 1)
  BY <1>2, <1>5, <1>6 DEF Top
<1>11. Kid(F, {root}, 2)
  <2>1. Deref(F, First(1)) = 2
    BY <1>5, <1>6, SlotFacts
  <2>2. VirtualName # None
    BY ConstantsAssumption
  <2> QED BY <1>2, <1>5, <1>6, <2>1, <2>2 DEF Kid, SlotOf
<1>12. PointsBack(F, 1) /\ PointsBack(F, 2)
  BY <1>2, <1>5, <1>6 DEF PointsBack, NULL
<1>13. Heap(F, {root})
  BY <1>2, <1>5, <1>6, <1>8, <1>9, <1>10, <1>11, <1>12 DEF Heap
<1>14. Grounded(F)
  <2> SUFFICES ASSUME NEW X \in SUBSET DOMAIN F, Holds(F, X) PROVE X = DOMAIN F
    BY DEF Grounded
  <2>1. 1 \in X
    BY <1>2, <1>9 DEF Holds
  <2>2. 2 \in X
    BY <1>5, <1>6, <2>1 DEF Holds, NULL
  <2> QED BY <1>2, <2>1, <2>2
<1>15. Named(F, NULL)
  BY <1>2, <1>9 DEF Named
<1>16. ListsSound(F, L)
  BY <1>1 DEF Init, ListsSound
<1>17. Handled(F, D)
  BY <1>1, <1>2 DEF Init, Handled
<1>18. Needed(F)
  BY <1>2, <1>9 DEF Needed
<1>19. lastFileId \in 2..MaxFiles /\ DOMAIN F \subseteq 1..lastFileId
  BY <1>2, ConstantsAssumption DEF Init
<1> QED
  BY <1>1, <1>13, <1>14, <1>15, <1>16, <1>17, <1>18, <1>19 DEF VolumeInv, Sound, Good

(* Every request keeps the invariant, if no folder is moved into itself. *)
LEMMA NextSound ==
  ASSUME ~CyclicMoves, VolumeInv, [Next]_vars
  PROVE  VolumeInv'
<1>1. CASE OpenExisting
  BY <1>1, OpenExistingSound
<1>2. ASSUME NEW n \in Names, NEW folder \in BOOLEAN, Create(n, folder) PROVE VolumeInv'
  BY <1>2, CreateSound
<1>3. ASSUME NEW f \in FileIds, OpenAgain(f) PROVE VolumeInv'
  BY <1>3, OpenAgainSound
<1>4. ASSUME NEW f \in FileIds, DecideClose(f) PROVE VolumeInv'
  BY <1>4, DecideCloseSound
<1>5. ASSUME NEW f \in FileIds, Close(f) PROVE VolumeInv'
  BY <1>5, CloseSound
<1>6. ASSUME NEW f \in FileIds, Delete(f) PROVE VolumeInv'
  BY <1>6, DeleteSound
<1>7. ASSUME NEW f \in FileIds, Replace(f) PROVE VolumeInv'
  BY <1>7, ReplaceSound
<1>8. ASSUME NEW f \in FileIds, NEW n \in Names, Move(f, n) PROVE VolumeInv'
  BY <1>8, MoveSound
<1>9. ASSUME NEW f \in FileIds, NEW n \in Names, MoveOpens(f, n) PROVE VolumeInv'
  BY <1>9, MoveOpensSound
<1>10. ASSUME NEW f \in FileIds, NEW target \in FileIds, MoveReplace(f, target)
       PROVE  VolumeInv'
  BY <1>10, MoveReplaceSound
<1>11. ASSUME NEW d \in FileIds, NEW i \in ListIds, ListBegin(d, i) PROVE VolumeInv'
  BY <1>11, ListBeginSound
<1>12. ASSUME NEW d \in FileIds, NEW i \in ListIds, ListNext(d, i) PROVE VolumeInv'
  BY <1>12, ListNextSound
<1>13. ASSUME NEW d \in FileIds, NEW i \in ListIds, ListEnd(d, i) PROVE VolumeInv'
  BY <1>13, ListEndSound
<1>14. CASE UNCHANGED vars
  BY <1>14 DEF vars, VolumeInv, Sound, Needed
<1> QED
  BY <1>1, <1>2, <1>3, <1>4, <1>5, <1>6, <1>7, <1>8, <1>9, <1>10, <1>11, <1>12, <1>13, <1>14
  DEF Next

-----------------------------------------------------------------------------
(* What follows from the invariant.                                        *)

LEMMA InvImpliesVolumeTypeOK ==
  ASSUME VolumeInv
  PROVE  VolumeTypeOK
<1>1. DOMAIN lists \subseteq live \X ListIds /\ lists \in [DOMAIN lists -> FileList]
  BY VolumeFacts DEF ListsSound
<1>2. file \in [live -> File] /\ driver \in [live -> [wants : BOOLEAN, closing : BOOLEAN]]
  BY VolumeFacts DEF HeapType, Handled
<1> QED BY <1>1, <1>2, VolumeFacts DEF VolumeTypeOK

(* Slots that the walk meets are pointers of the folder's children, which  *)
(* point back; children of a folder differ in their names.                 *)
LEMMA InvImpliesConsistent ==
  ASSUME VolumeInv
  PROVE  Consistent
<1>1. file[root].sibPrev = NoSlot
  BY VolumeFacts DEF Heap, Attached
<1>2. ASSUME NEW d \in Tree(file) \cap FoldersOf(file), NEW s \in SlotsOf(file, d)
      PROVE  LET f == Deref(file, s)
             IN  f # NULL => f \in live /\ file[f].sibPrev = s /\ file[f].parent = d
  <2>1. d \in DOMAIN file
    BY VolumeFacts
  <2>2. SlotOf(file, d, s)
    BY <2>1, VolumeFacts, KidsAreChildren
  <2>3. PICK f : f = Deref(file, s)
    OBVIOUS
  <2>4. SUFFICES ASSUME f # NULL PROVE f \in live /\ file[f].sibPrev = s /\ file[f].parent = d
    BY <2>3
  <2>5. CASE s = First(d)
    <3>1. file[d].firstChild = f
      BY <2>3, <2>5, SlotFacts
    <3>2. f \in Kids(file, d) /\ file[f].sibPrev = First(d)
      BY <2>1, <2>4, <3>1, VolumeFacts, Pointees
    <3> QED BY <2>5, <3>2, VolumeFacts DEF Kids
  <2>6. ASSUME NEW g \in Kids(file, d), s = After(g)
        PROVE  f \in live /\ file[f].sibPrev = s /\ file[f].parent = d
    <3>1. g \in DOMAIN file /\ file[g].parent = d
      BY DEF Kids
    <3>2. file[g].sibNext = f
      BY <2>3, <2>6, SlotFacts
    <3>3. f \in Kids(file, d) /\ file[f].sibPrev = After(g)
      BY <2>4, <3>1, <3>2, VolumeFacts, Pointees
    <3> QED BY <2>6, <3>3, VolumeFacts DEF Kids
  <2> QED BY <2>2, <2>5, <2>6 DEF SlotOf
<1>3. ASSUME NEW d \in Tree(file) \cap FoldersOf(file),
             NEW f \in ChildrenOf(file, d), NEW g \in ChildrenOf(file, d)
      PROVE  file[f].name # None /\ (file[f].name = file[g].name => f = g)
  <2>1. d \in live
    BY VolumeFacts
  <2>2. f \in Kids(file, d) /\ g \in Kids(file, d)
    BY <2>1, VolumeFacts
  <2>3. /\ f \in DOMAIN file \ {NULL} /\ Attached(file, f) /\ file[f].parent = d
        /\ g \in DOMAIN file \ {NULL} /\ Attached(file, g) /\ file[g].parent = d
    BY <2>2, VolumeFacts, HeapFinite DEF Kids
  <2>4. file[f].name # None
    BY <2>3, VolumeFacts DEF Heap, Kid
  <2> QED BY <2>3, <2>4, VolumeFacts DEF Named
<1> QED BY <1>1, <1>2, <1>3 DEF Consistent

(* At the end nothing is behind the position, so nothing is due. *)
LEMMA InvImpliesListingComplete ==
  ASSUME VolumeInv
  PROVE  ListingComplete
<1> SUFFICES ASSUME NEW l \in DOMAIN lists
             PROVE  /\ lists[l].position \in SlotsOf(file, l[1])
                    /\ ~lists[l].again
                    /\ Deref(file, lists[l].position) = NULL => lists[l].due = {}
  BY DEF ListingComplete
<1>1. l \in (DOMAIN file) \X ListIds /\ Listing(file, l[1], lists[l])
  BY VolumeFacts DEF ListsSound
<1>2. PICK d, L : d = l[1] /\ L = lists[l]
  OBVIOUS
<1>3. d \in DOMAIN file /\ Listing(file, d, L)
  BY <1>1, <1>2, FolderOfList
<1>4. L.position \in SlotsOf(file, d)
  BY <1>3, VolumeFacts, KidsAreChildren DEF Listing
<1>5. ~L.again
  BY <1>3 DEF Listing
<1>6. Deref(file, L.position) = NULL => L.due = {}
  BY <1>3, ListingEnds
<1> QED BY <1>2, <1>4, <1>5, <1>6

(* The tree is what is attached; what is not is open or has gone. *)
LEMMA InvImpliesLives ==
  ASSUME VolumeInv
  PROVE  LivesWhileNeeded
BY VolumeFacts DEF LivesWhileNeeded, VolumeInv, Needed, Handled

(* The inductive invariant, for a driver that does not move a folder into  *)
(* itself.                                                                 *)
THEOREM VolumeAlwaysSound ==
  ASSUME ~CyclicMoves
  PROVE  Spec => []VolumeInv
<1>1. Init => VolumeInv
  BY InitSound
<1>2. VolumeInv /\ [Next]_vars => VolumeInv'
  BY NextSound
<1> QED BY <1>1, <1>2, PTL DEF Spec

(* Every variable has its type: no request leaves a file that points at    *)
(* one that is gone, nor an enumeration of a folder that is.               *)
THEOREM VolumeTypeCorrect ==
  ASSUME ~CyclicMoves
  PROVE  Spec => []VolumeTypeOK
<1>1. VolumeInv => VolumeTypeOK
  BY InvImpliesVolumeTypeOK
<1> QED BY <1>1, VolumeAlwaysSound, PTL

(* The pointers of the tree are what CheckConsistency of the debug build   *)
(* asserts, and no two files of a folder have one name, after any number   *)
(* of requests on any number of files.                                     *)
THEOREM TreeAlwaysConsistent ==
  ASSUME ~CyclicMoves
  PROVE  Spec => []Consistent
<1>1. VolumeInv => Consistent
  BY InvImpliesConsistent
<1> QED BY <1>1, VolumeAlwaysSound, PTL

(* Every enumeration, however many there are at once and whatever happens  *)
(* to the folder between its requests, delivers what was there all the     *)
(* time, and nothing twice.                                                *)
THEOREM ListingAlwaysComplete ==
  ASSUME ~CyclicMoves
  PROVE  Spec => []ListingComplete
<1>1. VolumeInv => ListingComplete
  BY InvImpliesListingComplete
<1> QED BY <1>1, VolumeAlwaysSound, PTL

(* A file is in memory and open as long as the driver counts on it, and    *)
(* one that nothing needs is not leaked.                                   *)
THEOREM AlwaysLivesWhileNeeded ==
  ASSUME ~CyclicMoves
  PROVE  Spec => []LivesWhileNeeded
<1>1. VolumeInv => LivesWhileNeeded
  BY InvImpliesLives
<1> QED BY <1>1, VolumeAlwaysSound, PTL

================================================================================
