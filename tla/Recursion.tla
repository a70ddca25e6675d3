------------------------------- MODULE Recursion -------------------------------
(***************************************************************************)
(* Facts about recursive functions of a number, for the proofs that reason *)
(* about walks along pointers: induction for a set of numbers, that a      *)
(* function defined by iteration exists, and that a set that grows inside  *)
(* a finite one is complete after as many steps as that has elements.      *)
(***************************************************************************)
EXTENDS Integers, FiniteSets, Functions, FiniteSetTheorems,
        WellFoundedInduction, NaturalsInduction, TLAPS

(* Induction, for a set of numbers. *)
LEMMA SetInduction ==
  ASSUME NEW P, 0 \in P, \A n \in Nat : n \in P => n + 1 \in P
  PROVE  Nat \subseteq P
<1> DEFINE T == Nat \ P
<1>1. ASSUME T # {} PROVE FALSE
  <2>1. PICK x \in T : \A y \in T : ~ (<<y, x>> \in OpToRel(<, Nat))
    BY <1>1, NatLessThanWellFounded, WFMin
  <2>2. x \in Nat /\ x # 0
    OBVIOUS
  <2>3. x - 1 \in Nat /\ x - 1 < x /\ (x - 1) + 1 = x
    BY <2>2
  <2>4. <<x - 1, x>> \in OpToRel(<, Nat)
    BY <2>2, <2>3 DEF OpToRel
  <2>5. x - 1 \notin T
    BY <2>1, <2>4
  <2> QED BY <2>2, <2>3, <2>5
<1> QED BY <1>1

(* What f gives for a number is what g makes of x in as many applications. *)
Iterates(f, x, g) == f[0] = x /\ \A k \in Nat : f[k + 1] = g[f[k]]

(* A function on a set can be applied again and again: there is a function *)
(* of the number of times, which is what makes a recursive one exist.      *)
LEMMA Iteration ==
  ASSUME NEW X, NEW x \in X, NEW g \in [X -> X]
  PROVE  \E f \in [Nat -> X] : Iterates(f, x, g)
<1> DEFINE Goes(f, n) == f \in [0..n -> X] /\ f[0] = x /\ \A k \in 0..n - 1 : f[k + 1] = g[f[k]]
           P == {n \in Nat : \E f : Goes(f, n)}
<1>1. 0 \in P
  <2>1. Goes([k \in 0..0 |-> x], 0)
    OBVIOUS
  <2> QED BY <2>1
<1>2. ASSUME NEW n \in Nat, n \in P PROVE n + 1 \in P
  <2>1. PICK f : Goes(f, n)
    BY <1>2
  <2> DEFINE h == [k \in 0..n + 1 |-> IF k = n + 1 THEN g[f[n]] ELSE f[k]]
  <2>2. Goes(h, n + 1)
    <3>1. h \in [0..n + 1 -> X]
      BY <2>1
    <3>2. h[0] = x
      BY <2>1
    <3>3. ASSUME NEW k \in 0..(n + 1) - 1 PROVE h[k + 1] = g[h[k]]
      <4>1. CASE k = n
        BY <4>1
      <4>2. CASE k \in 0..n - 1
        BY <2>1, <4>2
      <4> QED BY <4>1, <4>2
    <3> QED BY <3>1, <3>2, <3>3
  <2>3. \E e : Goes(e, n + 1)
    <3> HIDE DEF h, Goes
    <3> QED BY <2>2
  <2> QED BY <2>3
<1>3. Nat \subseteq P
  <2> HIDE DEF P
  <2> QED BY <1>1, <1>2, SetInduction
<1>4. ASSUME NEW n \in Nat, NEW f, NEW h, NEW m \in Nat, Goes(f, n), Goes(h, m), n <= m
      PROVE  \A k \in 0..n : f[k] = h[k]
  <2> DEFINE S == {k \in Nat : k <= n => f[k] = h[k]}
  <2>1. 0 \in S
    BY <1>4
  <2>2. ASSUME NEW k \in Nat, k \in S PROVE k + 1 \in S
    <3>1. CASE k + 1 <= n
      <4>1. k \in 0..n - 1 /\ k \in 0..m - 1
        BY <1>4, <3>1
      <4> QED BY <1>4, <2>2, <4>1
    <3> QED BY <3>1
  <2>3. Nat \subseteq S
    <3> HIDE DEF S
    <3> QED BY <2>1, <2>2, SetInduction
  <2> QED BY <2>3
<1> DEFINE c == [n \in Nat |-> CHOOSE f : Goes(f, n)]
           r == [n \in Nat |-> c[n][n]]
<1>5. ASSUME NEW n \in Nat PROVE Goes(c[n], n)
  <2>1. \E f : Goes(f, n)
    BY <1>3
  <2> HIDE DEF Goes
  <2> QED BY <2>1
<1>6. r \in [Nat -> X]
  <2>1. ASSUME NEW n \in Nat PROVE c[n][n] \in X
    <3> HIDE DEF c
    <3> QED BY <1>5
  <2> QED BY <2>1
<1>7. r[0] = x
  <2>1. c[0][0] = x
    <3> HIDE DEF c
    <3> QED BY <1>5
  <2> QED BY <2>1
<1>8. ASSUME NEW k \in Nat PROVE r[k + 1] = g[r[k]]
  <2>1. /\ Goes(c[k], k) /\ Goes(c[k + 1], k + 1)
        /\ k + 1 \in Nat /\ k <= k + 1
    <3>1. k + 1 \in Nat /\ k <= k + 1
      OBVIOUS
    <3> HIDE DEF Goes, c
    <3> QED BY <1>5, <3>1
  <2>2. c[k][k] = c[k + 1][k]
    <3>1. k \in 0..k
      OBVIOUS
    <3> HIDE DEF c, Goes
    <3>2. PICK a, b, m : a = c[k] /\ b = c[k + 1] /\ m = k + 1
      OBVIOUS
    <3>3. Goes(a, k) /\ Goes(b, m) /\ m \in Nat /\ k <= m
      BY <2>1, <3>2
    <3>4. \A i \in 0..k : a[i] = b[i]
      BY <1>4, <3>3
    <3> QED BY <3>1, <3>2, <3>4
  <2>3. c[k + 1][k + 1] = g[c[k + 1][k]]
    <3> HIDE DEF c
    <3> QED BY <2>1
  <2> QED BY <2>1, <2>2, <2>3
<1> HIDE DEF r
<1> QED BY <1>6, <1>7, <1>8 DEF Iterates

(* The same for m steps, each of its own kind. *)
IteratesTo(m, f, x, g) == f[0] = x /\ \A k \in 1..m : f[k] = g[k][f[k - 1]]

(* Functions can be applied one after the other. *)
LEMMA Stepwise ==
  ASSUME NEW X, NEW x \in X, NEW m \in Nat, NEW g \in [1..m -> [X -> X]]
  PROVE  \E f \in [0..m -> X] : IteratesTo(m, f, x, g)
<1> DEFINE Goes(f, n) == f \in [0..n -> X] /\ f[0] = x /\ \A k \in 1..n : f[k] = g[k][f[k - 1]]
           P == {n \in Nat : n <= m => \E f : Goes(f, n)}
<1>1. 0 \in P
  <2>1. Goes([k \in 0..0 |-> x], 0)
    OBVIOUS
  <2> QED BY <2>1
<1>2. ASSUME NEW n \in Nat, n \in P PROVE n + 1 \in P
  <2>1. SUFFICES ASSUME n + 1 <= m PROVE \E f : Goes(f, n + 1)
    OBVIOUS
  <2>2. PICK f : Goes(f, n)
    BY <1>2, <2>1
  <2> DEFINE h == [k \in 0..n + 1 |-> IF k = n + 1 THEN g[n + 1][f[n]] ELSE f[k]]
  <2>3. g[n + 1] \in [X -> X] /\ f[n] \in X
    BY <2>1, <2>2
  <2>4. g[n + 1][f[n]] \in X
    BY <2>3
  <2>5. h \in [0..n + 1 -> X]
    BY <2>2, <2>4
  <2>6. h[0] = x
    BY <2>2
  <2>7. ASSUME NEW k \in 1..n + 1 PROVE h[k] = g[k][h[k - 1]]
    <3>1. CASE k = n + 1
      BY <3>1
    <3>2. CASE k \in 1..n
      BY <2>2, <3>2
    <3> QED BY <3>1, <3>2
  <2>8. Goes(h, n + 1)
    BY <2>5, <2>6, <2>7
  <2> HIDE DEF h, Goes
  <2> QED BY <2>8
<1>3. m \in P
  <2>1. Nat \subseteq P
    <3> HIDE DEF P
    <3> QED BY <1>1, <1>2, SetInduction
  <2> QED BY <2>1
<1> QED BY <1>3 DEF IteratesTo

(* A set that grows as long as it changes is complete after as many steps  *)
(* as there are elements that it can have.                                 *)
LEMMA Growth ==
  ASSUME NEW U, IsFiniteSet(U), NEW n \in Nat, Cardinality(U) <= n + 1,
         NEW f \in [Nat -> SUBSET U], f[0] # {},
         \A k \in Nat : f[k] \subseteq f[k + 1],
         \A k \in Nat : f[k + 1] = f[k] => f[(k + 1) + 1] = f[k + 1]
  PROVE  f[n + 1] = f[n]
<1> DEFINE P == {k \in Nat : k <= n => Cardinality(f[k + 1]) >= k + 2}
           Q == {k \in Nat : f[k + 1] = f[k] \/ k \in P}
<1>1. ASSUME NEW k \in Nat
      PROVE  IsFiniteSet(f[k]) /\ Cardinality(f[k]) \in Nat /\ Cardinality(f[k]) <= n + 1
  <2>1. IsFiniteSet(f[k]) /\ Cardinality(f[k]) <= Cardinality(U)
    <3>1. f[k] \in SUBSET U
      OBVIOUS
    <3> QED BY <3>1, FS_Subset
  <2> QED BY <2>1, FS_CardinalityType
<1>2. ASSUME NEW k \in Nat, f[k + 1] # f[k]
      PROVE  Cardinality(f[k]) + 1 <= Cardinality(f[k + 1])
  <2>1. k + 1 \in Nat /\ f[k] \in SUBSET f[k + 1]
    OBVIOUS
  <2>2. /\ Cardinality(f[k]) <= Cardinality(f[k + 1])
        /\ Cardinality(f[k + 1]) # Cardinality(f[k])
    BY <1>1, <1>2, <2>1, FS_Subset
  <2>3. Cardinality(f[k]) \in Nat /\ Cardinality(f[k + 1]) \in Nat
    BY <1>1, <2>1
  <2> QED BY <2>2, <2>3
<1>3. 0 \in Q
  <2>1. Cardinality(f[0]) # 0
    BY <1>1, FS_EmptySet
  <2>2. CASE f[0 + 1] # f[0]
    <3>1. Cardinality(f[0]) + 1 <= Cardinality(f[0 + 1])
      BY <1>2, <2>2
    <3>2. Cardinality(f[0]) \in Nat /\ Cardinality(f[0 + 1]) \in Nat
      BY <1>1
    <3> QED BY <2>1, <3>1, <3>2
  <2> QED BY <2>2
<1>4. ASSUME NEW k \in Nat, k \in Q PROVE k + 1 \in Q
  <2>1. CASE f[(k + 1) + 1] # f[k + 1]
    <3>1. f[k + 1] # f[k]
      BY <2>1
    <3>2. k + 1 \in Nat /\ (k + 1) + 1 \in Nat
      OBVIOUS
    <3>3. Cardinality(f[k + 1]) + 1 <= Cardinality(f[(k + 1) + 1])
      BY <1>2, <2>1, <3>2
    <3>4. Cardinality(f[k + 1]) \in Nat /\ Cardinality(f[(k + 1) + 1]) \in Nat
      BY <1>1, <3>2
    <3>5. k <= n => Cardinality(f[k + 1]) >= k + 2
      BY <1>4, <3>1
    <3>6. k + 1 <= n => Cardinality(f[(k + 1) + 1]) >= (k + 1) + 2
      BY <3>3, <3>4, <3>5
    <3> QED BY <3>2, <3>6
  <2>2. CASE f[(k + 1) + 1] = f[k + 1]
    BY <2>2
  <2> QED BY <2>1, <2>2
<1>5. n \in Q
  <2>1. Nat \subseteq Q
    <3> HIDE DEF Q
    <3> QED BY <1>3, <1>4, SetInduction
  <2> QED BY <2>1
<1>6. Cardinality(f[n + 1]) <= n + 1 /\ Cardinality(f[n + 1]) \in Nat
  BY <1>1
<1> QED BY <1>5, <1>6

(* What a function makes of finitely many is finite, and as many if it     *)
(* makes no two the same.                                                  *)
LEMMA FiniteImage ==
  ASSUME NEW S, IsFiniteSet(S), NEW T, NEW f \in [S -> T], T = {f[x] : x \in S}
  PROVE  /\ IsFiniteSet(T)
         /\ (\A x \in S : \A y \in S : f[x] = f[y] => x = y) => Cardinality(T) = Cardinality(S)
<1>1. f \in Surjection(S, T)
  BY DEF Surjection
<1>2. (\A x \in S : \A y \in S : f[x] = f[y] => x = y) => f \in Injection(S, T)
  BY DEF Injection, IsInjective
<1> QED BY <1>1, <1>2, FS_Surjection
================================================================================
