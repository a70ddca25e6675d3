----------------------------- MODULE OverlayProofs -----------------------------
(***************************************************************************)
(* Proofs about Overlay, for paths of any length, any disk and any number  *)
(* of requests: what is listed is found, what users have saved stays, no   *)
(* request destroys a recording.  Paths are compared name by name: a path  *)
(* of the mount and what it stands for on the disk differ in one name at   *)
(* most, that of the clip.                                                 *)
(***************************************************************************)
EXTENDS Overlay, SequenceTheorems, Recursion

(* Paths are equal that are equal name by name. *)
LEMMA SamePath ==
  ASSUME NEW p \in Path, NEW q \in Path, Len(p) = Len(q),
         \A k \in 1..Len(p) : p[k] = q[k]
  PROVE  p = q
BY SeqEqual DEF Path

(* Lengths and names of a path. *)
LEMMA PathNames ==
  ASSUME NEW p \in Path
  PROVE  /\ Len(p) \in Nat /\ DOMAIN p = 1..Len(p)
         /\ \A k \in 1..Len(p) : p[k] \in Names
         /\ p # <<>> <=> Len(p) > 0
<1>1. Len(p) \in Nat /\ DOMAIN p = 1..Len(p)
  BY LenProperties DEF Path
<1>2. \A k \in 1..Len(p) : p[k] \in Names
  BY ElementOfSeq DEF Path
<1>3. p # <<>> <=> Len(p) > 0
  BY EmptySeq, <1>1 DEF Path
<1> QED BY <1>1, <1>2, <1>3

(* The first names of a path. *)
LEMMA FirstNames ==
  ASSUME NEW p \in Path, NEW n \in 0..Len(p)
  PROVE  /\ SubSeq(p, 1, n) \in Path
         /\ Len(SubSeq(p, 1, n)) = n
         /\ \A k \in 1..n : SubSeq(p, 1, n)[k] = p[k]
<1>1. \A k \in 1..n : p[k] \in Names
  BY PathNames
<1>2. n \in Int /\ 1 \in Int /\ (1 <= n => n - 1 + 1 = n) /\ (~(1 <= n) => n = 0) /\ n - 1 + 1 = n
  BY PathNames
<1>3. /\ SubSeq(p, 1, n) \in Seq(Names)
      /\ Len(SubSeq(p, 1, n)) = IF 1 <= n THEN n - 1 + 1 ELSE 0
      /\ \A k \in 1..n - 1 + 1 : SubSeq(p, 1, n)[k] = p[1 + k - 1]
  BY <1>1, <1>2, SubSeqProperties
<1>4. \A k \in 1..n : 1 + k - 1 = k
  BY <1>2
<1> QED BY <1>2, <1>3, <1>4 DEF Path

(* The other names of a path. *)
LEMMA LastNames ==
  ASSUME NEW p \in Path, NEW n \in 0..Len(p)
  PROVE  /\ SubSeq(p, n + 1, Len(p)) \in Path
         /\ Len(SubSeq(p, n + 1, Len(p))) = Len(p) - n
         /\ \A k \in 1..Len(p) - n : SubSeq(p, n + 1, Len(p))[k] = p[n + k]
<1>1. Len(p) \in Nat /\ \A k \in n + 1..Len(p) : p[k] \in Names
  BY PathNames
<1>2. n + 1 \in Int /\ Len(p) \in Int
  BY <1>1
<1> DEFINE s == SubSeq(p, n + 1, Len(p))
<1>3. /\ s \in Seq(Names)
      /\ Len(s) = IF n + 1 <= Len(p) THEN Len(p) - (n + 1) + 1 ELSE 0
      /\ \A k \in 1..Len(p) - (n + 1) + 1 : s[k] = p[n + 1 + k - 1]
  BY <1>1, <1>2, SubSeqProperties
<1>4. Len(p) - (n + 1) + 1 = Len(p) - n /\ \A k \in 1..Len(p) - n : n + 1 + k - 1 = n + k
  BY <1>1
<1>5. ~(n + 1 <= Len(p)) => Len(p) - n = 0
  BY <1>1
<1> HIDE DEF s
<1>6. s \in Path /\ Len(s) = Len(p) - n /\ \A k \in 1..Len(p) - n : s[k] = p[n + k]
  BY <1>3, <1>4, <1>5 DEF Path
<1> QED BY <1>6 DEF s

(* One path behind another. *)
LEMMA Joined ==
  ASSUME NEW p \in Path, NEW q \in Path
  PROVE  /\ p \o q \in Path
         /\ Len(p \o q) = Len(p) + Len(q)
         /\ \A k \in 1..Len(p) : (p \o q)[k] = p[k]
         /\ \A k \in Len(p) + 1..Len(p) + Len(q) : (p \o q)[k] = q[k - Len(p)]
<1>1. Len(p) \in Nat /\ Len(q) \in Nat
  BY PathNames
<1> QED BY <1>1, ConcatProperties DEF Path

(* A name behind a path. *)
LEMMA NameBehind ==
  ASSUME NEW p \in Path, NEW name \in Names
  PROVE  /\ Append(p, name) \in Path
         /\ Len(Append(p, name)) = Len(p) + 1
         /\ \A k \in 1..Len(p) : Append(p, name)[k] = p[k]
         /\ Append(p, name)[Len(p) + 1] = name
BY PathNames DEF Path

(* The directory that a path is in. *)
LEMMA AboveNames ==
  ASSUME NEW p \in Path, p # <<>>
  PROVE  /\ Above(p) \in Path /\ Len(Above(p)) = Len(p) - 1
         /\ \A k \in 1..Len(p) - 1 : Above(p)[k] = p[k]
         /\ Last(p) = p[Len(p)] /\ Last(p) \in Names
<1>1. Len(p) \in Nat /\ Len(p) > 0 /\ p[Len(p)] \in Names
  BY PathNames
<1>2. Len(p) - 1 \in 0..Len(p)
  BY <1>1
<1> QED BY <1>1, <1>2, FirstNames DEF Above, Last

(* A path that ends in another extension. *)
LEMMA NamedNames ==
  ASSUME NEW p \in Path, p # <<>>, NEW ext \in Exts
  PROVE  /\ Named(p, ext) \in Path /\ Len(Named(p, ext)) = Len(p)
         /\ \A k \in 1..Len(p) - 1 : Named(p, ext)[k] = p[k]
         /\ Named(p, ext)[Len(p)].stem = p[Len(p)].stem
         /\ Named(p, ext)[Len(p)].ext = ext
<1> DEFINE name == [stem |-> Last(p).stem, ext |-> ext]
<1>1. name \in Names /\ Len(p) \in Nat /\ Len(p) > 0
  BY AboveNames, PathNames DEF Names
<1>2. Above(p) \in Path /\ Len(Above(p)) = Len(p) - 1 /\ \A k \in 1..Len(p) - 1 : Above(p)[k] = p[k]
  BY AboveNames
<1>3. Len(p) - 1 + 1 = Len(p)
  BY <1>1
<1>4. name.stem = p[Len(p)].stem /\ name.ext = ext
  BY DEF Last
<1> HIDE DEF name
<1>5. /\ Append(Above(p), name) \in Path /\ Len(Append(Above(p), name)) = Len(p)
      /\ \A k \in 1..Len(p) - 1 : Append(Above(p), name)[k] = p[k]
      /\ Append(Above(p), name)[Len(p)] = name
  BY <1>1, <1>2, <1>3, NameBehind
<1> QED BY <1>4, <1>5 DEF Named, name

(* A path is at or below another one if it begins with its names. *)
LEMMA BelowNames ==
  ASSUME NEW p \in Path, NEW q \in Path
  PROVE  AtOrBelow(p, q) <=> Len(p) <= Len(q) /\ \A k \in 1..Len(p) : p[k] = q[k]
<1>1. Len(p) \in Nat /\ Len(q) \in Nat
  BY PathNames
<1>2. CASE Len(p) <= Len(q)
  <2>1. Len(p) \in 0..Len(p) /\ Len(p) \in 0..Len(q)
    BY <1>1, <1>2
  <2>2. /\ SubSeq(p, 1, Len(p)) \in Path /\ Len(SubSeq(p, 1, Len(p))) = Len(p)
        /\ \A k \in 1..Len(p) : SubSeq(p, 1, Len(p))[k] = p[k]
    BY <2>1, FirstNames
  <2>3. /\ SubSeq(q, 1, Len(p)) \in Path /\ Len(SubSeq(q, 1, Len(p))) = Len(p)
        /\ \A k \in 1..Len(p) : SubSeq(q, 1, Len(p))[k] = q[k]
    BY <2>1, FirstNames
  <2>4. (\A k \in 1..Len(p) : p[k] = q[k]) => SubSeq(p, 1, Len(p)) = SubSeq(q, 1, Len(p))
    BY <2>2, <2>3, SamePath
  <2> QED BY <1>2, <2>2, <2>3, <2>4 DEF AtOrBelow, IsPrefix
<1> QED BY <1>2 DEF AtOrBelow, IsPrefix

(* What has moved. *)
LEMMA MovedNames ==
  ASSUME NEW p \in Path, NEW from \in Path, NEW to \in Path, AtOrBelow(from, p)
  PROVE  /\ MovedPath(p, from, to) \in Path
         /\ Len(MovedPath(p, from, to)) = Len(to) + (Len(p) - Len(from))
         /\ \A k \in 1..Len(to) : MovedPath(p, from, to)[k] = to[k]
         /\ \A k \in Len(to) + 1..Len(to) + (Len(p) - Len(from)) :
              MovedPath(p, from, to)[k] = p[k - Len(to) + Len(from)]
         /\ AtOrBelow(to, MovedPath(p, from, to))
         /\ MovedPath(MovedPath(p, from, to), to, from) = p
<1>1. Len(p) \in Nat /\ Len(from) \in Nat /\ Len(to) \in Nat /\ Len(from) <= Len(p)
  BY PathNames, BelowNames
<1>2. \A k \in 1..Len(from) : from[k] = p[k]
  BY BelowNames
<1> DEFINE s == SubSeq(p, Len(from) + 1, Len(p))
           q == MovedPath(p, from, to)
           t == SubSeq(q, Len(to) + 1, Len(q))
           r == MovedPath(q, to, from)
<1>3. s \in Path /\ Len(s) = Len(p) - Len(from) /\ \A k \in 1..Len(p) - Len(from) : s[k] = p[Len(from) + k]
  BY <1>1, LastNames
<1>4. q = to \o s
  BY DEF MovedPath
<1>5. r = from \o t
  BY DEF MovedPath
<1> HIDE DEF s, q, t, r
<1>6. /\ q \in Path /\ Len(q) = Len(to) + Len(s)
      /\ \A k \in 1..Len(to) : q[k] = to[k]
      /\ \A k \in Len(to) + 1..Len(to) + Len(s) : q[k] = s[k - Len(to)]
  BY <1>3, <1>4, Joined
<1>7. \A k \in Len(to) + 1..Len(to) + (Len(p) - Len(from)) : q[k] = p[k - Len(to) + Len(from)]
  <2>1. TAKE k \in Len(to) + 1..Len(to) + (Len(p) - Len(from))
  <2>2. k - Len(to) \in 1..Len(p) - Len(from) /\ Len(from) + (k - Len(to)) = k - Len(to) + Len(from)
    BY <1>1
  <2>3. q[k] = s[k - Len(to)]
    BY <1>3, <1>6
  <2> QED BY <1>3, <2>2, <2>3
<1>8. AtOrBelow(to, q)
  <2>1. Len(to) <= Len(q)
    BY <1>1, <1>3, <1>6
  <2>2. \A k \in 1..Len(to) : to[k] = q[k]
    BY <1>6
  <2> QED BY <1>6, <2>1, <2>2, BelowNames
<1>9. r = p
  <2>1. Len(q) \in Nat /\ Len(to) \in 0..Len(q) /\ Len(q) - Len(to) = Len(p) - Len(from)
    BY <1>1, <1>3, <1>6
  <2>2. t \in Path /\ Len(t) = Len(p) - Len(from) /\ \A k \in 1..Len(p) - Len(from) : t[k] = q[Len(to) + k]
    <3>1. t \in Path /\ Len(t) = Len(q) - Len(to) /\ \A k \in 1..Len(q) - Len(to) : t[k] = q[Len(to) + k]
      <4>1. Len(to) \in 0..Len(q) /\ q \in Path
        BY <1>6, <2>1
      <4> HIDE DEF AtOrBelow
      <4> QED BY <4>1, LastNames DEF t
    <3> QED BY <2>1, <3>1
  <2>3. /\ r \in Path /\ Len(r) = Len(from) + Len(t)
        /\ \A k \in 1..Len(from) : r[k] = from[k]
        /\ \A k \in Len(from) + 1..Len(from) + Len(t) : r[k] = t[k - Len(from)]
    BY <1>5, <2>2, Joined
  <2>4. Len(r) = Len(p)
    BY <1>1, <2>2, <2>3
  <2>5. ASSUME NEW k \in 1..Len(p) PROVE r[k] = p[k]
    <3>1. CASE k <= Len(from)
      BY <1>1, <1>2, <2>3, <3>1
    <3>2. CASE k > Len(from)
      <4>1. k \in Len(from) + 1..Len(from) + Len(t) /\ k - Len(from) \in 1..Len(p) - Len(from)
        BY <1>1, <2>2, <3>2
      <4>2. r[k] = q[Len(to) + (k - Len(from))]
        BY <2>2, <2>3, <4>1
      <4>3. /\ Len(to) + (k - Len(from)) \in Len(to) + 1..Len(to) + (Len(p) - Len(from))
            /\ Len(to) + (k - Len(from)) - Len(to) + Len(from) = k
        BY <1>1, <4>1
      <4> QED BY <1>7, <4>2, <4>3
    <3> QED BY <1>1, <3>1, <3>2
  <2> QED BY <2>3, <2>4, <2>5, SamePath
<1>10. r = MovedPath(q, to, from) /\ q = MovedPath(p, from, to)
  BY DEF r, q
<1> QED BY <1>3, <1>6, <1>7, <1>8, <1>9, <1>10

-----------------------------------------------------------------------------
(* The clip on a path.                                                     *)

(* The first name of a clip is the one before which there is none. *)
LEMMA ClipAtIs ==
  ASSUME NEW p \in Path, NEW k \in 1..Len(p), IsClip(p[k]), \A j \in 1..k - 1 : ~IsClip(p[j])
  PROVE  InClip(p) /\ ClipAt(p) = k
<1>1. DOMAIN p = 1..Len(p) /\ Len(p) \in Nat
  BY PathNames
<1>2. \A i \in DOMAIN p : IsClip(p[i]) /\ (\A j \in 1..i - 1 : ~IsClip(p[j])) => i = k
  <2>1. TAKE i \in DOMAIN p
  <2>2. HAVE IsClip(p[i]) /\ (\A j \in 1..i - 1 : ~IsClip(p[j]))
  <2>3. ~(i < k) /\ ~(k < i)
    <3>1. CASE i < k
      BY <1>1, <2>2, <3>1
    <3>2. CASE k < i
      BY <1>1, <2>2, <3>2
    <3> QED BY <3>1, <3>2
  <2> QED BY <1>1, <2>3
<1>3. InClip(p)
  BY <1>1 DEF InClip
<1>4. ClipAt(p) = k
  BY <1>1, <1>2 DEF ClipAt
<1> QED BY <1>3, <1>4

(* A path in a clip has such a first name. *)
LEMMA ClipPlace ==
  ASSUME NEW p \in Path, InClip(p)
  PROVE  /\ ClipAt(p) \in 1..Len(p) /\ IsClip(p[ClipAt(p)])
         /\ \A j \in 1..ClipAt(p) - 1 : ~IsClip(p[j])
<1>1. DOMAIN p = 1..Len(p) /\ Len(p) \in Nat
  BY PathNames
<1> DEFINE S == {n \in Nat : \A k \in 1..Len(p) : k <= n => ~IsClip(p[k])}
<1>2. PICK i \in 1..Len(p) : IsClip(p[i])
  BY <1>1 DEF InClip
<1>3. ~(Nat \subseteq S)
  BY <1>2
<1>4. 0 \in S
  BY <1>1
<1>5. PICK n \in Nat : n \in S /\ n + 1 \notin S
  <2> HIDE DEF S
  <2> QED BY <1>3, <1>4, SetInduction
<1>6. PICK k \in 1..Len(p) : k <= n + 1 /\ IsClip(p[k])
  BY <1>5
<1>7. \A j \in 1..k - 1 : ~IsClip(p[j])
  BY <1>1, <1>5, <1>6
<1>8. ClipAt(p) = k
  BY <1>6, <1>7, ClipAtIs
<1> QED BY <1>6, <1>7, <1>8

(* The clip itself. *)
LEMMA MlvNames ==
  ASSUME NEW p \in Path, InClip(p)
  PROVE  /\ mlv_file(p) \in Path \ {<<>>} /\ Len(mlv_file(p)) = ClipAt(p)
         /\ \A k \in 1..ClipAt(p) - 1 : mlv_file(p)[k] = p[k]
         /\ mlv_file(p)[ClipAt(p)].stem = p[ClipAt(p)].stem
         /\ mlv_file(p)[ClipAt(p)].ext = "MLV"
<1> DEFINE c == ClipAt(p)
           s == SubSeq(p, 1, c)
<1>1. c \in 1..Len(p) /\ Len(p) \in Nat
  BY ClipPlace, PathNames
<1>2. mlv_file(p) = Named(s, "MLV")
  BY DEF mlv_file
<1> HIDE DEF c, s
<1>3. s \in Path /\ Len(s) = c /\ \A k \in 1..c : s[k] = p[k]
  BY <1>1, FirstNames DEF s
<1>4. s # <<>> /\ "MLV" \in Exts
  BY <1>1, <1>3, PathNames DEF Exts
<1>5. /\ mlv_file(p) \in Path /\ Len(mlv_file(p)) = c
      /\ \A k \in 1..c - 1 : mlv_file(p)[k] = s[k]
      /\ mlv_file(p)[c].stem = s[c].stem /\ mlv_file(p)[c].ext = "MLV"
  <2>1. s \in Path
    BY <1>3
  <2>2. /\ Named(s, "MLV") \in Path /\ Len(Named(s, "MLV")) = Len(s)
        /\ \A k \in 1..Len(s) - 1 : Named(s, "MLV")[k] = s[k]
        /\ Named(s, "MLV")[Len(s)].stem = s[Len(s)].stem
        /\ Named(s, "MLV")[Len(s)].ext = "MLV"
    BY <1>4, <2>1, NamedNames
  <2>3. Len(s) = c
    BY <1>3
  <2> QED BY <1>2, <2>2, <2>3
<1>6. mlv_file(p) # <<>>
  BY <1>1, <1>5, PathNames
<1> QED BY <1>1, <1>3, <1>5, <1>6 DEF c

(* What is behind the clip. *)
LEMMA BehindClip ==
  ASSUME NEW p \in Path, InClip(p)
  PROVE  /\ path_in_mlv(p) \in Path /\ Len(path_in_mlv(p)) = Len(p) - ClipAt(p)
         /\ \A k \in 1..Len(p) - ClipAt(p) : path_in_mlv(p)[k] = p[ClipAt(p) + k]
         /\ path_in_mlv(p) = <<>> <=> ClipAt(p) = Len(p)
<1>1. ClipAt(p) \in 0..Len(p) /\ Len(p) \in Nat
  BY ClipPlace, PathNames
<1>2. /\ path_in_mlv(p) \in Path /\ Len(path_in_mlv(p)) = Len(p) - ClipAt(p)
      /\ \A k \in 1..Len(p) - ClipAt(p) : path_in_mlv(p)[k] = p[ClipAt(p) + k]
  BY <1>1, LastNames DEF path_in_mlv
<1>3. path_in_mlv(p) = <<>> <=> ClipAt(p) = Len(p)
  BY <1>1, <1>2, PathNames
<1> QED BY <1>2, <1>3

(* A path with another extension at the place of the clip. *)
LEMMA WithExt ==
  ASSUME NEW p \in Path, InClip(p), NEW ext \in Exts, NEW q \in Path,
         q = Named(mlv_file(p), ext) \o path_in_mlv(p)
  PROVE  /\ Len(q) = Len(p)
         /\ \A k \in 1..Len(p) : k # ClipAt(p) => q[k] = p[k]
         /\ q[ClipAt(p)].stem = p[ClipAt(p)].stem /\ q[ClipAt(p)].ext = ext
<1> DEFINE c == ClipAt(p)
           m == Named(mlv_file(p), ext)
           s == path_in_mlv(p)
           f == mlv_file(p)
<1>1. c \in 1..Len(p) /\ Len(p) \in Nat
  BY ClipPlace, PathNames
<1>2. /\ f \in Path \ {<<>>} /\ Len(f) = c
      /\ \A k \in 1..c - 1 : f[k] = p[k]
      /\ f[c].stem = p[c].stem /\ f[c].ext = "MLV"
  BY MlvNames
<1>10. m = Named(f, ext)
  OBVIOUS
<1> HIDE DEF c, m, s, f
<1>11. f[c].stem = p[c].stem
  BY <1>2
<1>12. /\ m \in Path /\ Len(m) = Len(f)
       /\ \A k \in 1..Len(f) - 1 : m[k] = f[k]
       /\ m[Len(f)].stem = f[Len(f)].stem /\ m[Len(f)].ext = ext
  BY <1>2, <1>10, NamedNames
<1>3. /\ m \in Path /\ Len(m) = c
      /\ \A k \in 1..c - 1 : m[k] = p[k]
      /\ m[c].stem = p[c].stem /\ m[c].ext = ext
  <2>1. Len(f) = c /\ c \in Int
    BY <1>1, <1>2
  <2>2. \A k \in 1..c - 1 : m[k] = p[k]
    BY <1>2, <1>12, <2>1
  <2> QED BY <1>11, <1>12, <2>1, <2>2
<1>4. s \in Path /\ Len(s) = Len(p) - c /\ \A k \in 1..Len(p) - c : s[k] = p[c + k]
  BY BehindClip DEF s, c
<1>5. q = m \o s
  BY DEF m, s
<1>6. /\ Len(q) = c + (Len(p) - c)
      /\ \A k \in 1..c : q[k] = m[k]
      /\ \A k \in c + 1..c + (Len(p) - c) : q[k] = s[k - c]
  <2>1. /\ Len(m \o s) = Len(m) + Len(s)
        /\ \A k \in 1..Len(m) : (m \o s)[k] = m[k]
        /\ \A k \in Len(m) + 1..Len(m) + Len(s) : (m \o s)[k] = s[k - Len(m)]
    <3>1. m \in Path /\ s \in Path
      BY <1>3, <1>4
    <3> QED BY <3>1, Joined
  <2>2. Len(m) = c /\ Len(s) = Len(p) - c
    BY <1>3, <1>4
  <2> QED BY <1>5, <2>1, <2>2
<1>7. Len(q) = Len(p)
  BY <1>1, <1>6
<1>8. ASSUME NEW k \in 1..Len(p), k # c PROVE q[k] = p[k]
  <2>1. CASE k < c
    BY <1>1, <1>3, <1>6, <2>1
  <2>2. CASE k > c
    <3>1. k \in c + 1..c + (Len(p) - c) /\ k - c \in 1..Len(p) - c /\ c + (k - c) = k
      BY <1>1, <2>2
    <3> QED BY <1>4, <1>6, <3>1
  <2>3. k < c \/ k > c
    BY <1>1, <1>8
  <2> QED BY <2>1, <2>2, <2>3
<1>9. q[c].stem = p[c].stem /\ q[c].ext = ext
  <2>1. c \in 1..c
    BY <1>1
  <2>2. q[c] = m[c]
    BY <1>6, <2>1
  <2> QED BY <1>3, <2>2
<1> QED BY <1>7, <1>8, <1>9 DEF c

(* What a path is on the disk: the same names, but for that of the clip,   *)
(* which is .MLV for the clip itself and .MLD for what is kept in it.      *)
LEMMA RealNames ==
  ASSUME NEW p \in Path
  PROVE  /\ Real(p) \in Path /\ Len(Real(p)) = Len(p)
         /\ ~InClip(p) => Real(p) = p
         /\ InClip(p) =>
              /\ \A k \in 1..Len(p) : k # ClipAt(p) => Real(p)[k] = p[k]
              /\ ClipAt(p) = Len(p) =>
                   /\ Real(p) = mlv_file(p)
                   /\ Real(p)[ClipAt(p)].stem = p[ClipAt(p)].stem /\ Real(p)[ClipAt(p)].ext = "MLV"
              /\ ClipAt(p) < Len(p) =>
                   Real(p)[ClipAt(p)].stem = p[ClipAt(p)].stem /\ Real(p)[ClipAt(p)].ext = "MLD"
<1>1. CASE ~InClip(p)
  BY <1>1 DEF Real
<1>2. CASE InClip(p)
  <2>1. ClipAt(p) \in 1..Len(p) /\ Len(p) \in Nat /\ {"MLV", "MLD"} \subseteq Exts
    BY <1>2, ClipPlace, PathNames DEF Exts
  <2>2. path_in_mlv(p) \in Path /\ (path_in_mlv(p) = <<>> <=> ClipAt(p) = Len(p))
    BY <1>2, BehindClip
  <2>3. /\ mlv_file(p) \in Path \ {<<>>} /\ Len(mlv_file(p)) = ClipAt(p)
        /\ \A k \in 1..ClipAt(p) - 1 : mlv_file(p)[k] = p[k]
        /\ mlv_file(p)[ClipAt(p)].stem = p[ClipAt(p)].stem /\ mlv_file(p)[ClipAt(p)].ext = "MLV"
    BY <1>2, MlvNames
  <2>4. CASE ClipAt(p) = Len(p)
    <3>1. Real(p) = mlv_file(p)
      BY <1>2, <2>2, <2>4 DEF Real
    <3> QED BY <1>2, <2>1, <2>3, <2>4, <3>1
  <2>5. CASE ClipAt(p) < Len(p)
    <3>1. Real(p) = Named(mlv_file(p), "MLD") \o path_in_mlv(p)
      BY <1>2, <2>1, <2>2, <2>5 DEF Real
    <3>2. Named(mlv_file(p), "MLD") \in Path
      BY <2>1, <2>3, NamedNames
    <3>3. Real(p) \in Path
      BY <2>2, <3>1, <3>2, Joined
    <3>4. /\ Len(Real(p)) = Len(p)
          /\ \A k \in 1..Len(p) : k # ClipAt(p) => Real(p)[k] = p[k]
          /\ Real(p)[ClipAt(p)].stem = p[ClipAt(p)].stem /\ Real(p)[ClipAt(p)].ext = "MLD"
      BY <1>2, <2>1, <3>1, <3>3, WithExt
    <3> QED BY <1>2, <2>5, <3>3, <3>4
  <2> QED BY <2>1, <2>4, <2>5
<1> QED BY <1>1, <1>2

(* The name of a path that every scheme knows. *)
LEMMA PlainNames ==
  ASSUME NEW p \in Path
  PROVE  /\ Plain(p) \in Path /\ Len(Plain(p)) = Len(p)
         /\ ~InClip(p) => Plain(p) = p
         /\ InClip(p) =>
              /\ \A k \in 1..Len(p) : k # ClipAt(p) => Plain(p)[k] = p[k]
              /\ Plain(p)[ClipAt(p)].stem = p[ClipAt(p)].stem /\ Plain(p)[ClipAt(p)].ext = "MLV"
<1>1. CASE ~InClip(p)
  BY <1>1 DEF Plain
<1>2. CASE InClip(p)
  <2>1. Plain(p) = mlv_file(p) \o path_in_mlv(p)
    BY <1>2 DEF Plain
  <2>2. mlv_file(p) \in Path /\ path_in_mlv(p) \in Path
    BY <1>2, MlvNames, BehindClip
  <2>3. Plain(p) \in Path
    BY <2>1, <2>2, Joined
  <2> DEFINE c == ClipAt(p)
             m == mlv_file(p)
             s == path_in_mlv(p)
             q == Plain(p)
  <2>4. c \in 1..Len(p) /\ Len(p) \in Nat
    BY <1>2, ClipPlace, PathNames
  <2>5. /\ Len(m) = c /\ \A k \in 1..c - 1 : m[k] = p[k]
        /\ m[c].stem = p[c].stem /\ m[c].ext = "MLV"
    BY <1>2, MlvNames
  <2>6. Len(s) = Len(p) - c /\ \A k \in 1..Len(p) - c : s[k] = p[c + k]
    BY <1>2, BehindClip
  <2>11. q = m \o s /\ m \in Path /\ s \in Path
    BY <2>1, <2>2
  <2> HIDE DEF c, m, s, q
  <2>7. /\ Len(q) = c + (Len(p) - c)
        /\ \A k \in 1..c : q[k] = m[k]
        /\ \A k \in c + 1..c + (Len(p) - c) : q[k] = s[k - c]
    <3>1. /\ Len(m \o s) = Len(m) + Len(s)
          /\ \A k \in 1..Len(m) : (m \o s)[k] = m[k]
          /\ \A k \in Len(m) + 1..Len(m) + Len(s) : (m \o s)[k] = s[k - Len(m)]
      BY <2>11, Joined
    <3>2. Len(m) = c /\ Len(s) = Len(p) - c
      BY <2>5, <2>6
    <3> QED BY <2>11, <3>1, <3>2
  <2>8. Len(q) = Len(p)
    BY <2>4, <2>7
  <2>9. ASSUME NEW k \in 1..Len(p), k # c PROVE q[k] = p[k]
    <3>1. CASE k < c
      BY <2>4, <2>5, <2>7, <3>1
    <3>2. CASE k > c
      <4>1. k \in c + 1..c + (Len(p) - c) /\ k - c \in 1..Len(p) - c /\ c + (k - c) = k
        BY <2>4, <3>2
      <4> QED BY <2>6, <2>7, <4>1
    <3> QED BY <2>4, <2>9, <3>1, <3>2
  <2>10. q[c].stem = p[c].stem /\ q[c].ext = "MLV"
    <3>1. q[c] = m[c] /\ c \in 1..c
      BY <2>4, <2>7
    <3> QED BY <2>5, <3>1
  <2> QED BY <1>2, <2>3, <2>8, <2>9, <2>10 DEF c, q
<1> QED BY <1>1, <1>2

-----------------------------------------------------------------------------
(* Disks.                                                                  *)

(* A path that is at or below another one is longer, or the same. *)
LEMMA BelowOrSame ==
  ASSUME NEW p \in Path, NEW q \in Path, AtOrBelow(p, q)
  PROVE  Len(p) <= Len(q) /\ (Len(p) = Len(q) => p = q) /\ (p # q => Len(p) < Len(q))
<1>1. Len(p) \in Nat /\ Len(q) \in Nat /\ Len(p) <= Len(q) /\ \A k \in 1..Len(p) : p[k] = q[k]
  BY PathNames, BelowNames
<1>2. Len(p) = Len(q) => p = q
  BY <1>1, SamePath
<1> QED BY <1>1, <1>2

(* The same of three paths. *)
LEMMA BelowBelow ==
  ASSUME NEW p \in Path, NEW q \in Path, NEW r \in Path, AtOrBelow(p, q), AtOrBelow(q, r)
  PROVE  AtOrBelow(p, r)
<1>1. Len(p) \in Nat /\ Len(q) \in Nat /\ Len(r) \in Nat
  BY PathNames
<1>2. Len(p) <= Len(q) /\ \A k \in 1..Len(p) : p[k] = q[k]
  BY BelowNames
<1>3. Len(q) <= Len(r) /\ \A k \in 1..Len(q) : q[k] = r[k]
  BY BelowNames
<1> QED BY <1>1, <1>2, <1>3, BelowNames

(* A path is below the directory it is in. *)
LEMMA BelowAbove ==
  ASSUME NEW q \in Path, q # <<>>
  PROVE  /\ AtOrBelow(Above(q), q) /\ Above(q) # q
         /\ Above(q) = <<>> <=> Len(q) = 1
         /\ \A p \in Path : AtOrBelow(p, q) /\ Len(q) = Len(p) + 1 => Above(q) = p
         /\ \A p \in Path : AtOrBelow(p, q) /\ p # q => AtOrBelow(p, Above(q))
<1>1. Len(q) \in Nat /\ Len(q) > 0
  BY PathNames
<1>2. Above(q) \in Path /\ Len(Above(q)) = Len(q) - 1 /\ \A k \in 1..Len(q) - 1 : Above(q)[k] = q[k]
  BY AboveNames
<1>3. AtOrBelow(Above(q), q) /\ Above(q) # q
  BY <1>1, <1>2, BelowNames
<1>4. Above(q) = <<>> <=> Len(q) = 1
  BY <1>1, <1>2, PathNames
<1>5. ASSUME NEW p \in Path, AtOrBelow(p, q), p # q PROVE AtOrBelow(p, Above(q))
  <2>1. Len(p) \in Nat /\ \A k \in 1..Len(p) : p[k] = q[k]
    BY <1>5, PathNames, BelowNames
  <2>2. Len(p) < Len(q)
    BY <1>5, BelowOrSame
  <2>3. Len(p) <= Len(Above(q)) /\ \A k \in 1..Len(p) : p[k] = Above(q)[k]
    BY <1>1, <1>2, <2>1, <2>2
  <2> QED BY <1>2, <2>3, BelowNames
<1>6. ASSUME NEW p \in Path, AtOrBelow(p, q), Len(q) = Len(p) + 1 PROVE Above(q) = p
  <2>1. Len(p) \in Nat /\ \A k \in 1..Len(p) : p[k] = q[k]
    BY <1>6, PathNames, BelowNames
  <2>2. Len(p) = Len(Above(q)) /\ \A k \in 1..Len(p) : p[k] = Above(q)[k]
    BY <1>1, <1>2, <1>6, <2>1
  <2> QED BY <1>2, <2>2, SamePath
<1> QED BY <1>3, <1>4, <1>5, <1>6

(* Whatever is on a disk is in directories up to the top. *)
LEMMA Ancestors ==
  ASSUME NEW D, IsDisk(D), NEW q \in DOMAIN D, NEW p \in Path, p # <<>>, AtOrBelow(p, q), p # q
  PROVE  p \in DOMAIN D /\ D[p] = Dir
<1> DEFINE S == {n \in Nat : \A r \in Path : r # <<>> /\ AtOrBelow(r, q) /\ Len(q) = Len(r) + 1 + n
                               => r \in DOMAIN D /\ D[r] = Dir}
<1>1. q \in Path /\ q # <<>>
  BY DEF IsDisk
<1>2. Len(q) \in Nat /\ Len(p) \in Nat /\ Len(p) > 0
  BY <1>1, PathNames
<1>3. 0 \in S
  <2>1. SUFFICES ASSUME NEW r \in Path, r # <<>>, AtOrBelow(r, q), Len(q) = Len(r) + 1 + 0
                 PROVE  r \in DOMAIN D /\ D[r] = Dir
    OBVIOUS
  <2>2. Len(r) \in Nat /\ Len(r) > 0 /\ Len(q) = Len(r) + 1
    BY <2>1, PathNames
  <2>3. Above(q) = r
    BY <1>1, <2>1, <2>2, BelowAbove
  <2> QED BY <2>2, <2>3 DEF IsDisk
<1>4. ASSUME NEW n \in Nat, n \in S PROVE n + 1 \in S
  <2>1. SUFFICES ASSUME NEW r \in Path, r # <<>>, AtOrBelow(r, q), Len(q) = Len(r) + 1 + (n + 1)
                 PROVE  r \in DOMAIN D /\ D[r] = Dir
    OBVIOUS
  <2> DEFINE s == SubSeq(q, 1, Len(r) + 1)
  <2>2. Len(r) \in Nat /\ Len(r) > 0 /\ Len(r) + 1 \in 0..Len(q)
    BY <1>2, <2>1, PathNames
  <2>3. s \in Path /\ Len(s) = Len(r) + 1 /\ \A k \in 1..Len(r) + 1 : s[k] = q[k]
    BY <1>1, <2>2, FirstNames
  <2> HIDE DEF s
  <2>4. s # <<>>
    BY <2>2, <2>3, PathNames
  <2>5. AtOrBelow(s, q)
    <3>1. Len(s) <= Len(q) /\ \A k \in 1..Len(s) : s[k] = q[k]
      BY <1>2, <2>2, <2>3
    <3>2. s \in Path /\ q \in Path
      BY <1>1, <2>3
    <3> QED BY <3>1, <3>2, BelowNames
  <2>6. AtOrBelow(r, s)
    <3>1. \A k \in 1..Len(r) : r[k] = q[k]
      BY <1>1, <2>1, BelowNames
    <3>2. Len(r) <= Len(s) /\ \A k \in 1..Len(r) : r[k] = s[k]
      BY <2>2, <2>3, <3>1
    <3>3. s \in Path
      BY <2>3
    <3> QED BY <3>2, <3>3, BelowNames
  <2>7. Len(q) = Len(s) + 1 + n
    BY <2>1, <2>2, <2>3
  <2>8. s \in DOMAIN D
    BY <1>4, <2>3, <2>4, <2>5, <2>7
  <2>9. Above(s) = r
    BY <2>3, <2>4, <2>6, BelowAbove
  <2> QED BY <2>2, <2>3, <2>8, <2>9 DEF IsDisk
<1>5. Nat \subseteq S
  <2> HIDE DEF S
  <2> QED BY <1>3, <1>4, SetInduction
<1>6. Len(p) < Len(q)
  BY <1>1, BelowOrSame
<1>7. Len(q) - Len(p) - 1 \in Nat /\ Len(q) = Len(p) + 1 + (Len(q) - Len(p) - 1)
  BY <1>2, <1>6
<1>8. Len(q) - Len(p) - 1 \in S
  BY <1>5, <1>7
<1> QED BY <1>7, <1>8

(* Something new in a directory, or other contents of a file. *)
LEMMA PutDisk ==
  ASSUME NEW D, IsDisk(D), NEW p \in Path, p # <<>>, IsDirOn(D, Above(p)), ~(p \in DOMAIN D /\ D[p] = Dir),
         NEW E, DOMAIN E = DOMAIN D \cup {p}, E[p] \in Files \cup {Dir},
         \A q \in DOMAIN D \ {p} : E[q] = D[q]
  PROVE  IsDisk(E)
<1>1. IsFiniteSet(DOMAIN E)
  BY FS_AddElement DEF IsDisk
<1>2. ASSUME NEW q \in DOMAIN E
      PROVE  /\ q \in Path \ {<<>>} /\ E[q] \in Files \cup {Dir}
             /\ Len(q) > 1 => Above(q) \in DOMAIN E /\ E[Above(q)] = Dir
  <2>1. q \in Path \ {<<>>} /\ E[q] \in Files \cup {Dir}
    BY <1>2 DEF IsDisk
  <2>2. ASSUME Len(q) > 1 PROVE Above(q) \in DOMAIN D /\ D[Above(q)] = Dir
    <3>1. CASE q = p
      <4>1. Above(p) # <<>>
        BY <2>1, <2>2, <3>1, BelowAbove, PathNames
      <4> QED BY <3>1, <4>1 DEF IsDirOn
    <3>2. CASE q # p
      BY <1>2, <2>2, <3>2 DEF IsDisk
    <3> QED BY <3>1, <3>2
  <2>3. Len(q) > 1 => Above(q) # p
    BY <2>2
  <2> QED BY <2>1, <2>2, <2>3
<1> QED BY <1>1, <1>2 DEF IsDisk

(* Nothing is removed that something is in. *)
LEMMA WithoutDisk ==
  ASSUME NEW D, IsDisk(D), NEW p, \A q \in DOMAIN D : Len(q) > 1 => Above(q) # p
  PROVE  IsDisk(Without(D, {p}))
<1>1. DOMAIN Without(D, {p}) = DOMAIN D \ {p} /\ \A q \in DOMAIN D \ {p} : Without(D, {p})[q] = D[q]
  BY DEF Without
<1>2. IsFiniteSet(DOMAIN D \ {p})
  BY FS_Subset DEF IsDisk
<1> QED BY <1>1, <1>2 DEF IsDisk

(* What the calls leave: mkdir, creat, ... *)
LEMMA MkdirDisk ==
  ASSUME NEW D, IsDisk(D), NEW p \in Path, p # <<>>
  PROVE  /\ IsDisk(mkdir(D, p))
         /\ \A q \in DOMAIN D : q \in DOMAIN mkdir(D, p) /\ mkdir(D, p)[q] = D[q]
<1>1. CASE p \notin DOMAIN D /\ IsDirOn(D, Above(p))
  <2> DEFINE E == With(D, p, Dir)
  <2>1. DOMAIN E = DOMAIN D \cup {p} /\ E[p] = Dir /\ \A q \in DOMAIN D \ {p} : E[q] = D[q]
    BY DEF With
  <2>2. mkdir(D, p) = E
    BY <1>1 DEF mkdir
  <2> HIDE DEF E
  <2>3. IsDisk(E)
    BY <1>1, <2>1, PutDisk
  <2> QED BY <1>1, <2>1, <2>2, <2>3
<1>2. CASE ~(p \notin DOMAIN D /\ IsDirOn(D, Above(p)))
  BY <1>2 DEF mkdir
<1> QED BY <1>1, <1>2

(* ... creat, of what is not there yet, ... *)
LEMMA CreatDisk ==
  ASSUME NEW D, IsDisk(D), NEW p \in Path, p # <<>>
  PROVE  /\ IsDisk(creat(D, p))
         /\ \A q \in DOMAIN D : q \in DOMAIN creat(D, p) /\ (q # p => creat(D, p)[q] = D[q])
         /\ IsFileOn(creat(D, p), p) => creat(D, p)[p] = Empty \/ (IsFileOn(D, p) /\ creat(D, p) = D)
<1>1. CASE IsDirOn(D, Above(p)) /\ ~IsDirOn(D, p)
  <2> DEFINE E == With(D, p, Empty)
  <2>1. DOMAIN E = DOMAIN D \cup {p} /\ E[p] = Empty /\ \A q \in DOMAIN D \ {p} : E[q] = D[q]
    BY DEF With
  <2>2. creat(D, p) = E
    BY <1>1 DEF creat
  <2> HIDE DEF E
  <2>3. E[p] \in Files \cup {Dir} /\ ~(p \in DOMAIN D /\ D[p] = Dir)
    BY <1>1, <2>1 DEF Files, IsDirOn
  <2>4. IsDisk(E)
    BY <1>1, <2>1, <2>3, PutDisk
  <2> QED BY <2>1, <2>2, <2>4
<1>2. CASE ~(IsDirOn(D, Above(p)) /\ ~IsDirOn(D, p))
  BY <1>2 DEF creat
<1> QED BY <1>1, <1>2

(* ... check_mld_exists, ... *)
LEMMA CheckDisk ==
  ASSUME NEW D, IsDisk(D), NEW p \in Path, p # <<>>
  PROVE  /\ IsDisk(check_mld_exists(D, p))
         /\ \A q \in DOMAIN D : q \in DOMAIN check_mld_exists(D, p) /\ check_mld_exists(D, p)[q] = D[q]
<1> DEFINE IsFirst(k) == p[k].ext = "MLD" /\ \A j \in 1..k - 1 : p[j].ext # "MLD"
           k == CHOOSE k \in DOMAIN p : IsFirst(k)
           S == {n \in Nat : \A i \in 1..Len(p) : i <= n => p[i].ext # "MLD"}
<1>1. Len(p) \in Nat /\ DOMAIN p = 1..Len(p)
  BY PathNames
<1>2. CASE \E i \in DOMAIN p : p[i].ext = "MLD"
  <2>1. \E i \in DOMAIN p : IsFirst(i)
    <3>1. PICK i \in 1..Len(p) : p[i].ext = "MLD"
      BY <1>1, <1>2
    <3>2. 0 \in S /\ ~(Nat \subseteq S)
      BY <1>1, <3>1
    <3>3. PICK n \in Nat : n \in S /\ n + 1 \notin S
      <4> HIDE DEF S
      <4> QED BY <3>2, SetInduction
    <3>4. PICK j \in 1..Len(p) : j <= n + 1 /\ p[j].ext = "MLD"
      BY <3>3
    <3>5. IsFirst(j)
      BY <1>1, <3>3, <3>4
    <3> QED BY <1>1, <3>5
  <2>2. k \in DOMAIN p
    <3> HIDE DEF IsFirst
    <3> QED BY <2>1
  <2>3. check_mld_exists(D, p) = mkdir(D, SubSeq(p, 1, k))
    BY <1>2 DEF check_mld_exists
  <2> HIDE DEF k
  <2>4. k \in 0..Len(p) /\ k > 0
    BY <1>1, <2>2
  <2>5. SubSeq(p, 1, k) \in Path /\ Len(SubSeq(p, 1, k)) = k
    BY <2>4, FirstNames
  <2>6. SubSeq(p, 1, k) # <<>>
    BY <2>4, <2>5, PathNames
  <2> QED BY <2>3, <2>5, <2>6, MkdirDisk
<1>3. CASE ~\E i \in DOMAIN p : p[i].ext = "MLD"
  BY <1>3 DEF check_mld_exists
<1> QED BY <1>2, <1>3

(* ... and rename: what was at or below from is at or below to, and what   *)
(* was at neither place has stayed.                                        *)
LEMMA RenameMoves ==
  ASSUME NEW D, IsDisk(D), NEW from \in Path, from # <<>>, NEW to \in Path, to # <<>>,
         Renames(D, from, to)
  PROVE  LET E == rename(D, from, to)
         IN  /\ DOMAIN E = {MovedPath(p, from, to) : p \in {p \in DOMAIN D : AtOrBelow(from, p)}}
                           \cup {p \in DOMAIN D : ~AtOrBelow(from, p)}
             /\ \A p \in DOMAIN D : AtOrBelow(from, p) =>
                  MovedPath(p, from, to) \in DOMAIN E /\ E[MovedPath(p, from, to)] = D[p]
             /\ \A p \in DOMAIN D : ~AtOrBelow(from, p) =>
                  p \in DOMAIN E /\ (~AtOrBelow(to, p) => E[p] = D[p])
<1> DEFINE moving == {p \in DOMAIN D : AtOrBelow(from, p)}
           moved  == {MovedPath(p, from, to) : p \in moving}
           back   == [q \in moved |-> D[MovedPath(q, to, from)]]
           stays  == Without(D, moving)
           E      == rename(D, from, to)
<1>1. E = Over(back, stays)
  BY DEF rename
<1>2. DOMAIN back = moved /\ \A q \in moved : back[q] = D[MovedPath(q, to, from)]
  OBVIOUS
<1>3. DOMAIN stays = DOMAIN D \ moving /\ \A p \in DOMAIN D \ moving : stays[p] = D[p]
  BY DEF Without
<1>4. \A p \in DOMAIN D : p \in Path
  BY DEF IsDisk
<1>5. \A p \in moving : p \in Path /\ AtOrBelow(from, p)
  BY <1>4
<1>6. \A p \in moving : /\ MovedPath(p, from, to) \in moved
                        /\ MovedPath(MovedPath(p, from, to), to, from) = p
                        /\ AtOrBelow(to, MovedPath(p, from, to))
  BY <1>5, MovedNames
<1>7. \A q \in moved : AtOrBelow(to, q)
  BY <1>6
<1>8. moving = {p \in DOMAIN D : AtOrBelow(from, p)} /\ moved = {MovedPath(p, from, to) : p \in moving}
  OBVIOUS
<1> HIDE DEF E, back, stays, moving, moved
<1>9. DOMAIN E = moved \cup (DOMAIN D \ moving)
  BY <1>1, <1>2, <1>3 DEF Over
<1>10. \A q \in moved : E[q] = D[MovedPath(q, to, from)]
  BY <1>1, <1>2, <1>3 DEF Over
<1>11. \A q \in (DOMAIN D \ moving) \ moved : E[q] = D[q]
  BY <1>1, <1>2, <1>3 DEF Over
<1>12. DOMAIN D \ moving = {p \in DOMAIN D : ~AtOrBelow(from, p)}
  BY <1>8
<1>13. DOMAIN E = {MovedPath(p, from, to) : p \in {p \in DOMAIN D : AtOrBelow(from, p)}}
                  \cup {p \in DOMAIN D : ~AtOrBelow(from, p)}
  BY <1>8, <1>9, <1>12
<1>14. \A p \in DOMAIN D : AtOrBelow(from, p) =>
         MovedPath(p, from, to) \in DOMAIN E /\ E[MovedPath(p, from, to)] = D[p]
  <2>1. \A p \in DOMAIN D : AtOrBelow(from, p) => p \in moving
    BY <1>8
  <2> QED BY <1>6, <1>9, <1>10, <2>1
<1>15. \A p \in DOMAIN D : ~AtOrBelow(from, p) =>
         p \in DOMAIN E /\ (~AtOrBelow(to, p) => E[p] = D[p])
  <2>1. \A p \in DOMAIN D : ~AtOrBelow(from, p) => p \in DOMAIN D \ moving
    BY <1>8
  <2> QED BY <1>7, <1>9, <1>11, <2>1
<1> QED BY <1>13, <1>14, <1>15 DEF E

(* Nothing was below to, unless it moves. *)
LEMMA NothingBelow ==
  ASSUME NEW D, IsDisk(D), NEW from \in Path, from # <<>>, NEW to \in Path, to # <<>>,
         Renames(D, from, to), NEW p \in DOMAIN D, AtOrBelow(to, p), ~AtOrBelow(from, p)
  PROVE  p = to
<1>1. from # to
  OBVIOUS
<1>2. ASSUME p # to PROVE FALSE
  <2>1. to \in DOMAIN D
    BY <1>2, Ancestors
  <2> QED BY <1>1, <1>2, <2>1 DEF Renames
<1> QED BY <1>2

(* What is renamed is a disk again. *)
LEMMA RenameDisk ==
  ASSUME NEW D, IsDisk(D), NEW from \in Path, from # <<>>, NEW to \in Path, to # <<>>
  PROVE  IsDisk(rename(D, from, to))
<1>1. CASE ~Renames(D, from, to)
  BY <1>1 DEF rename
<1>2. CASE Renames(D, from, to)
  <2> DEFINE E == rename(D, from, to)
  <2>0. /\ DOMAIN E = {MovedPath(p, from, to) : p \in {p \in DOMAIN D : AtOrBelow(from, p)}}
                      \cup {p \in DOMAIN D : ~AtOrBelow(from, p)}
        /\ \A p \in DOMAIN D : AtOrBelow(from, p) =>
             MovedPath(p, from, to) \in DOMAIN E /\ E[MovedPath(p, from, to)] = D[p]
        /\ \A p \in DOMAIN D : ~AtOrBelow(from, p) =>
             p \in DOMAIN E /\ (~AtOrBelow(to, p) => E[p] = D[p])
    BY <1>2, RenameMoves, Zenon
  <2> HIDE DEF E
  <2>1. DOMAIN E = {MovedPath(p, from, to) : p \in {p \in DOMAIN D : AtOrBelow(from, p)}}
                   \cup {p \in DOMAIN D : ~AtOrBelow(from, p)}
    BY <2>0
  <2>2. \A p \in DOMAIN D : AtOrBelow(from, p) =>
          MovedPath(p, from, to) \in DOMAIN E /\ E[MovedPath(p, from, to)] = D[p]
    BY <2>0
  <2>3. \A p \in DOMAIN D : ~AtOrBelow(from, p) =>
          p \in DOMAIN E /\ (~AtOrBelow(to, p) => E[p] = D[p])
    BY <2>0
  <2>4. IsFiniteSet(DOMAIN E)
    <3> DEFINE moving == {p \in DOMAIN D : AtOrBelow(from, p)}
    <3>1. IsFiniteSet(moving) /\ IsFiniteSet({p \in DOMAIN D : ~AtOrBelow(from, p)})
      BY FS_Subset DEF IsDisk
    <3> HIDE DEF moving
    <3>2. IsFiniteSet({MovedPath(p, from, to) : p \in moving})
      <4> DEFINE T == {MovedPath(p, from, to) : p \in moving}
                 f == [p \in moving |-> MovedPath(p, from, to)]
      <4>1. f \in [moving -> T] /\ T = {f[p] : p \in moving}
        OBVIOUS
      <4> HIDE DEF T, f
      <4>2. IsFiniteSet(T)
        BY <3>1, <4>1, FiniteImage
      <4> QED BY <4>2 DEF T
    <3> QED BY <2>1, <3>1, <3>2, FS_Union DEF moving
  <2>5. IsDirOn(D, Above(to)) /\ ~(from # to /\ AtOrBelow(from, to))
    BY <1>2 DEF Renames
  <2>6. Above(to) \in Path /\ AtOrBelow(Above(to), to) /\ Above(to) # to
    BY AboveNames, BelowAbove
  <2>7. ~AtOrBelow(from, Above(to))
    <3>1. ASSUME AtOrBelow(from, Above(to)) PROVE FALSE
      <4>1. from = to
        BY <2>5, <2>6, <3>1, BelowBelow
      <4>2. Len(from) <= Len(Above(to)) /\ Len(Above(to)) < Len(to)
        BY <2>6, <3>1, BelowOrSame
      <4>3. Len(from) \in Nat /\ Len(Above(to)) \in Nat
        BY <2>6, PathNames
      <4> QED BY <4>1, <4>2, <4>3
    <3> QED BY <3>1
  <2>8. ~AtOrBelow(to, Above(to))
    <3>1. ASSUME AtOrBelow(to, Above(to)) PROVE FALSE
      <4>1. Len(to) <= Len(Above(to)) /\ Len(Above(to)) < Len(to)
        BY <2>6, <3>1, BelowOrSame
      <4>2. Len(to) \in Nat /\ Len(Above(to)) \in Nat
        BY <2>6, PathNames
      <4> QED BY <4>1, <4>2
    <3> QED BY <3>1
  <2>9. Above(to) # <<>> => Above(to) \in DOMAIN E /\ E[Above(to)] = Dir
    BY <2>3, <2>5, <2>7, <2>8 DEF IsDirOn
  <2>10. ASSUME NEW p \in DOMAIN D, AtOrBelow(from, p), NEW q, q = MovedPath(p, from, to)
         PROVE  /\ q \in Path \ {<<>>} /\ E[q] \in Files \cup {Dir}
                /\ Len(q) > 1 => Above(q) \in DOMAIN E /\ E[Above(q)] = Dir
    <3>1. p \in Path /\ p # <<>> /\ D[p] \in Files \cup {Dir}
      BY DEF IsDisk
    <3>2. /\ q \in Path /\ AtOrBelow(to, q) /\ Len(q) = Len(to) + (Len(p) - Len(from))
          /\ \A k \in 1..Len(to) : q[k] = to[k]
          /\ \A k \in Len(to) + 1..Len(to) + (Len(p) - Len(from)) : q[k] = p[k - Len(to) + Len(from)]
      <4>1. p \in Path /\ AtOrBelow(from, p)
        BY <2>10, <3>1
      <4>2. /\ MovedPath(p, from, to) \in Path /\ AtOrBelow(to, MovedPath(p, from, to))
            /\ Len(MovedPath(p, from, to)) = Len(to) + (Len(p) - Len(from))
            /\ \A k \in 1..Len(to) : MovedPath(p, from, to)[k] = to[k]
            /\ \A k \in Len(to) + 1..Len(to) + (Len(p) - Len(from)) :
                 MovedPath(p, from, to)[k] = p[k - Len(to) + Len(from)]
        BY <4>1, MovedNames
      <4> QED BY <2>10, <4>2
    <3>3. Len(to) \in Nat /\ Len(to) > 0 /\ Len(p) \in Nat /\ Len(from) \in Nat /\ Len(from) <= Len(p)
      BY <2>10, <3>1, PathNames, BelowNames
    <3>4. q # <<>>
      BY <3>2, <3>3, PathNames
    <3>5. E[q] = D[p]
      BY <2>2, <2>10
    <3>6. ASSUME Len(q) > 1 PROVE Above(q) \in DOMAIN E /\ E[Above(q)] = Dir
      <4>1. CASE p = from
        <5>1. Len(q) = Len(to)
          BY <3>2, <3>3, <4>1
        <5>2. q = to
          BY <3>2, <5>1, BelowOrSame
        <5>3. Above(to) # <<>>
          <6>1. Above(to) = <<>> <=> Len(to) = 1
            BY BelowAbove
          <6>2. Len(to) # 1
            <7>1. \A n \in Nat : n > 1 => n # 1
              OBVIOUS
            <7>2. Len(to) > 1 /\ Len(to) \in Nat
              BY <3>3, <3>6, <5>2
            <7> QED BY <7>1, <7>2
          <6> QED BY <6>1, <6>2
        <5> QED BY <2>9, <5>2, <5>3
      <4>2. CASE p # from
        <5> DEFINE a == Above(p)
        <5>1. a \in Path /\ Len(a) = Len(p) - 1 /\ \A k \in 1..Len(p) - 1 : a[k] = p[k]
          BY <3>1, AboveNames
        <5>2. AtOrBelow(from, a)
          BY <2>10, <3>1, <4>2, BelowAbove
        <5>3. a # <<>>
          BY <5>1, <5>2, BelowOrSame, PathNames
        <5>4. Len(p) > 1
          <6>1. Above(p) = <<>> <=> Len(p) = 1
            BY <3>1, BelowAbove
          <6>2. Len(p) # 0
            BY <3>1, PathNames
          <6>3. Len(p) # 1
            BY <5>3, <6>1
          <6>4. \A n \in Nat : n # 0 /\ n # 1 => n > 1
            OBVIOUS
          <6>5. Len(p) \in Nat
            BY <3>3
          <6> QED BY <6>2, <6>3, <6>4, <6>5
        <5>5. a \in DOMAIN D /\ D[a] = Dir
          BY <5>4 DEF IsDisk
        <5> HIDE DEF a
        <5> DEFINE b == MovedPath(a, from, to)
        <5>6. b \in DOMAIN E /\ E[b] = Dir
          BY <2>2, <5>2, <5>5
        <5>7. /\ b \in Path /\ Len(b) = Len(to) + (Len(a) - Len(from))
              /\ \A k \in 1..Len(to) : b[k] = to[k]
              /\ \A k \in Len(to) + 1..Len(to) + (Len(a) - Len(from)) : b[k] = a[k - Len(to) + Len(from)]
          <6>1. a \in Path
            BY <5>1
          <6> QED BY <5>2, <6>1, MovedNames
        <5>8. /\ \A k \in 1..Len(to) : q[k] = to[k]
              /\ \A k \in Len(to) + 1..Len(to) + (Len(p) - Len(from)) : q[k] = p[k - Len(to) + Len(from)]
          BY <3>2
        <5>9. /\ Above(q) \in Path /\ Len(Above(q)) = Len(q) - 1
              /\ \A k \in 1..Len(q) - 1 : Above(q)[k] = q[k]
          BY <3>2, <3>4, AboveNames
        <5> HIDE DEF b
        <5>10. Len(b) = Len(Above(q))
          BY <3>2, <3>3, <5>1, <5>7, <5>9
        <5>11. ASSUME NEW k \in 1..Len(b) PROVE b[k] = Above(q)[k]
          <6>1. CASE k <= Len(to)
            <7>1. k \in 1..Len(to)
              BY <3>3, <6>1
            <7>2. k \in 1..Len(q) - 1
              BY <5>9, <5>10
            <7>3. b[k] = to[k] /\ q[k] = to[k]
              BY <5>7, <5>8, <7>1
            <7>4. Above(q)[k] = q[k]
              BY <5>9, <7>2
            <7> QED BY <7>3, <7>4
          <6>2. CASE k > Len(to)
            <7>1. k \in Len(to) + 1..Len(to) + (Len(a) - Len(from))
              BY <3>3, <5>1, <5>7, <6>2
            <7>2. k \in Len(to) + 1..Len(to) + (Len(p) - Len(from)) /\ k \in 1..Len(q) - 1
              BY <3>2, <3>3, <5>1, <7>1
            <7>3. k - Len(to) + Len(from) \in 1..Len(p) - 1
              BY <3>3, <5>1, <7>1
            <7>4. b[k] = a[k - Len(to) + Len(from)] /\ q[k] = p[k - Len(to) + Len(from)]
              BY <5>7, <5>8, <7>1, <7>2
            <7>5. a[k - Len(to) + Len(from)] = p[k - Len(to) + Len(from)]
              BY <5>1, <7>3
            <7>6. Above(q)[k] = q[k]
              BY <5>9, <7>2
            <7> QED BY <7>4, <7>5, <7>6
          <6>3. k <= Len(to) \/ k > Len(to)
            BY <3>3, <5>7
          <6> QED BY <6>1, <6>2, <6>3
        <5>12. b = Above(q)
          BY <5>7, <5>9, <5>10, <5>11, SamePath
        <5> QED BY <5>6, <5>12
      <4> QED BY <4>1, <4>2
    <3> QED BY <3>1, <3>2, <3>4, <3>5, <3>6
  <2>11. ASSUME NEW p \in DOMAIN D, ~AtOrBelow(from, p),
                ~\E r \in DOMAIN D : AtOrBelow(from, r) /\ p = MovedPath(r, from, to)
         PROVE  /\ p \in Path \ {<<>>} /\ E[p] \in Files \cup {Dir}
                /\ Len(p) > 1 => Above(p) \in DOMAIN E /\ E[Above(p)] = Dir
    <3>1. p \in Path /\ p # <<>> /\ D[p] \in Files \cup {Dir}
      BY DEF IsDisk
    <3>2. p # to
      <4>1. from \in DOMAIN D /\ AtOrBelow(from, from)
        BY <1>2, BelowNames DEF Renames
      <4>2. MovedPath(from, from, to) = to
        <5>1. /\ MovedPath(from, from, to) \in Path /\ AtOrBelow(to, MovedPath(from, from, to))
              /\ Len(MovedPath(from, from, to)) = Len(to) + (Len(from) - Len(from))
          BY <4>1, MovedNames
        <5>2. Len(to) + (Len(from) - Len(from)) = Len(to)
          BY PathNames
        <5> QED BY <5>1, <5>2, BelowOrSame
      <4> QED BY <2>11, <4>1, <4>2
    <3>3. ~AtOrBelow(to, p)
      BY <1>2, <2>11, <3>2, NothingBelow
    <3>4. E[p] = D[p]
      BY <2>3, <2>11, <3>3
    <3>5. ASSUME Len(p) > 1 PROVE Above(p) \in DOMAIN E /\ E[Above(p)] = Dir
      <4>1. Above(p) \in DOMAIN D /\ D[Above(p)] = Dir
        BY <3>5 DEF IsDisk
      <4>2. Above(p) \in Path /\ AtOrBelow(Above(p), p)
        BY <3>1, AboveNames, BelowAbove
      <4>3. ~AtOrBelow(from, Above(p)) /\ ~AtOrBelow(to, Above(p))
        BY <2>11, <3>1, <3>3, <4>2, BelowBelow
      <4> QED BY <2>3, <4>1, <4>3
    <3> QED BY <3>1, <3>4, <3>5
  <2>12. ASSUME NEW q \in DOMAIN E
         PROVE  /\ q \in Path \ {<<>>} /\ E[q] \in Files \cup {Dir}
                /\ Len(q) > 1 => Above(q) \in DOMAIN E /\ E[Above(q)] = Dir
    <3>1. CASE \E r \in DOMAIN D : AtOrBelow(from, r) /\ q = MovedPath(r, from, to)
      BY <2>10, <3>1
    <3>2. CASE ~\E r \in DOMAIN D : AtOrBelow(from, r) /\ q = MovedPath(r, from, to)
      <4>1. q \in DOMAIN D /\ ~AtOrBelow(from, q)
        BY <2>1, <3>2
      <4> QED BY <2>11, <3>2, <4>1
    <3> QED BY <3>1, <3>2
  <2>13. IsDisk(E)
    BY <2>4, <2>12 DEF IsDisk
  <2> QED BY <2>13 DEF E
<1> QED BY <1>1, <1>2

-----------------------------------------------------------------------------
(* Looking paths up.                                                       *)

(* All directories on the way to a path are there. *)
OnWay(p) == \A k \in 0..Len(p) - 1 : getattr(SubSeq(p, 1, k)) = "dir"

(* A path that has been found has such a way. *)
LEMMA FoundOnWay ==
  ASSUME NEW p, Lookup(p) # "none"
  PROVE  OnWay(p) /\ Lookup(p) = getattr(p)
BY DEF Lookup, OnWay

(* So has one in a directory that has been found. *)
LEMMA DirOnWay ==
  ASSUME NEW p \in Path, p # <<>>, Lookup(Above(p)) = "dir"
  PROVE  OnWay(p) /\ Lookup(p) = getattr(p)
<1> DEFINE a == Above(p)
<1>1. Len(p) \in Nat /\ Len(p) > 0 /\ a \in Path /\ Len(a) = Len(p) - 1 /\ a = SubSeq(p, 1, Len(p) - 1)
  BY PathNames, AboveNames DEF Above
<1>2. getattr(a) = "dir" /\ OnWay(a)
  BY FoundOnWay
<1>3. \A k \in 1..Len(p) - 1 : a[k] = p[k]
  BY AboveNames
<1> HIDE DEF a
<1>4. ASSUME NEW k \in 0..Len(p) - 1 PROVE getattr(SubSeq(p, 1, k)) = "dir"
  <2>1. CASE k = Len(p) - 1
    BY <1>1, <1>2, <2>1
  <2>2. CASE k # Len(p) - 1
    <3>1. k \in 0..Len(a) - 1 /\ k \in 0..Len(a) /\ k \in 0..Len(p)
      BY <1>1, <2>2
    <3>2. SubSeq(a, 1, k) \in Path /\ Len(SubSeq(a, 1, k)) = k /\ \A i \in 1..k : SubSeq(a, 1, k)[i] = a[i]
      BY <1>1, <3>1, FirstNames
    <3>3. SubSeq(p, 1, k) \in Path /\ Len(SubSeq(p, 1, k)) = k /\ \A i \in 1..k : SubSeq(p, 1, k)[i] = p[i]
      BY <3>1, FirstNames
    <3>4. \A i \in 1..k : a[i] = p[i]
      BY <1>1, <1>3, <3>1
    <3>5. SubSeq(a, 1, k) = SubSeq(p, 1, k)
      BY <3>2, <3>3, <3>4, SamePath
    <3> QED BY <1>2, <3>1, <3>5 DEF OnWay
  <2> QED BY <2>1, <2>2
<1> QED BY <1>4 DEF OnWay, Lookup

(* What is a directory is on the disk, and no frame. *)
LEMMA AttrDir ==
  ASSUME NEW p, p # <<>>, getattr(p) = "dir"
  PROVE  /\ ~IsVirtual(p) /\ Real(p) \in DOMAIN disk
         /\ IsMlv(Last(Real(p))) \/ IsDirOn(disk, Real(p))
BY DEF getattr

(* What is a file is a frame or on the disk, and no recording. *)
LEMMA AttrFile ==
  ASSUME NEW p, p # <<>>, getattr(p) = "file", ~IsVirtual(p)
  PROVE  /\ Real(p) \in DOMAIN disk /\ disk[Real(p)] # Dir
         /\ Last(Real(p)).ext # "MLV" /\ ~IsDirOn(disk, Real(p))
BY DEF getattr, IsDirOn, IsMlv

(* Two paths that agree up to the clip are in the same. *)
LEMMA SameClip ==
  ASSUME NEW p \in Path, NEW q \in Path, InClip(p), ClipAt(p) <= Len(q),
         \A k \in 1..ClipAt(p) : q[k] = p[k]
  PROVE  InClip(q) /\ ClipAt(q) = ClipAt(p) /\ mlv_file(q) = mlv_file(p)
<1> DEFINE c == ClipAt(p)
<1>1. /\ c \in 1..Len(p) /\ IsClip(p[c])
      /\ \A j \in 1..c - 1 : ~IsClip(p[j])
      /\ Len(p) \in Nat /\ Len(q) \in Nat
  BY ClipPlace, PathNames
<1>2. c \in 1..Len(q) /\ IsClip(q[c]) /\ \A j \in 1..c - 1 : ~IsClip(q[j])
  BY <1>1
<1>3. InClip(q) /\ ClipAt(q) = c
  <2> HIDE DEF c
  <2> QED BY <1>2, ClipAtIs
<1>4. SubSeq(p, 1, c) = SubSeq(q, 1, c)
  <2>1. c \in 0..Len(p) /\ c \in 0..Len(q) /\ \A k \in 1..c : q[k] = p[k]
    BY <1>1, <1>2
  <2> HIDE DEF c
  <2>2. SubSeq(p, 1, c) \in Path /\ Len(SubSeq(p, 1, c)) = c /\ \A i \in 1..c : SubSeq(p, 1, c)[i] = p[i]
    BY <2>1, FirstNames
  <2>3. SubSeq(q, 1, c) \in Path /\ Len(SubSeq(q, 1, c)) = c /\ \A i \in 1..c : SubSeq(q, 1, c)[i] = q[i]
    BY <2>1, FirstNames
  <2> QED BY <2>1, <2>2, <2>3, SamePath
<1>5. mlv_file(q) = mlv_file(p)
  BY <1>3, <1>4 DEF mlv_file
<1> QED BY <1>3, <1>5

(* A frame has the name of one and is in the directory of a clip. *)
LEMMA VirtualNames ==
  ASSUME NEW p \in Path, p # <<>>
  PROVE  IsVirtual(p) <=> InClip(p) /\ Len(p) = ClipAt(p) + 1 /\ p[Len(p)].ext \in {"dng", "wav"}
<1>1. CASE InClip(p)
  <2>1. Len(path_in_mlv(p)) = Len(p) - ClipAt(p) /\ Len(p) \in Nat /\ ClipAt(p) \in 1..Len(p)
    BY <1>1, BehindClip, ClipPlace, PathNames
  <2>2. Len(path_in_mlv(p)) = 1 <=> Len(p) = ClipAt(p) + 1
    BY <2>1
  <2> QED BY <1>1, <2>2 DEF IsVirtual, Last
<1>2. CASE ~InClip(p)
  BY <1>2 DEF IsVirtual
<1> QED BY <1>1, <1>2

(* On the way into a clip there is the recording, and no frame. *)
LEMMA ClipOnWay ==
  ASSUME NEW p \in Path, p # <<>>, OnWay(p), InClip(p), ClipAt(p) < Len(p), ~IsVirtual(p)
  PROVE  mlv_file(p) \in DOMAIN disk /\ p[ClipAt(p) + 1].ext \notin {"dng", "wav"}
<1> DEFINE c == ClipAt(p)
           s == SubSeq(p, 1, c)
           t == SubSeq(p, 1, c + 1)
<1>1. c \in 1..Len(p) /\ Len(p) \in Nat /\ c + 1 \in 0..Len(p) /\ c \in 0..Len(p) - 1 /\ c \in 0..Len(p)
  BY ClipPlace, PathNames
<1>2. s \in Path /\ Len(s) = c /\ \A k \in 1..c : s[k] = p[k]
  BY <1>1, FirstNames
<1>3. t \in Path /\ Len(t) = c + 1 /\ \A k \in 1..c + 1 : t[k] = p[k]
  BY <1>1, FirstNames
<1>4. getattr(s) = "dir" /\ (c + 1 < Len(p) => getattr(t) = "dir")
  BY <1>1 DEF OnWay
<1>5. s # <<>> /\ t # <<>>
  <2>1. Len(s) > 0 /\ Len(t) > 0
    BY <1>1, <1>2, <1>3
  <2> QED BY <1>2, <1>3, <2>1, PathNames
<1> HIDE DEF s, t
<1>6. InClip(s) /\ ClipAt(s) = c /\ mlv_file(s) = mlv_file(p)
  <2>1. ClipAt(p) <= Len(s) /\ \A k \in 1..ClipAt(p) : s[k] = p[k]
    BY <1>1, <1>2
  <2> QED BY <1>2, <2>1, SameClip
<1>7. Real(s) = mlv_file(p)
  BY <1>2, <1>6, RealNames
<1>8. mlv_file(p) \in DOMAIN disk
  BY <1>4, <1>5, <1>7, AttrDir
<1>9. CASE c + 1 < Len(p)
  <2>1. ~IsVirtual(t)
    BY <1>4, <1>5, <1>9, AttrDir
  <2>2. InClip(t) /\ ClipAt(t) = c
    <3>1. ClipAt(p) <= Len(t) /\ \A k \in 1..ClipAt(p) : t[k] = p[k]
      BY <1>1, <1>3
    <3> QED BY <1>3, <3>1, SameClip
  <2>3. t[Len(t)].ext \notin {"dng", "wav"}
    BY <1>3, <1>5, <2>1, <2>2, VirtualNames
  <2>4. t[Len(t)] = p[c + 1]
    BY <1>1, <1>3
  <2> QED BY <1>8, <2>3, <2>4
<1>10. CASE ~(c + 1 < Len(p))
  <2>1. Len(p) = c + 1
    BY <1>1, <1>10
  <2>2. p[Len(p)].ext \notin {"dng", "wav"}
    BY <2>1, VirtualNames
  <2> QED BY <1>8, <2>1, <2>2
<1> QED BY <1>9, <1>10

-----------------------------------------------------------------------------
(* Types.                                                                  *)

(* Paths that users name, and what they are elsewhere. *)
LEMMA UserPath ==
  ASSUME NEW path \in UserPaths
  PROVE  /\ path \in Path /\ path # <<>>
         /\ Real(path) \in Path /\ Real(path) # <<>>
         /\ Plain(path) \in Path /\ Plain(path) # <<>>
<1>1. path \in Path /\ path # <<>>
  BY ConstantsAssumption
<1>2. Len(path) > 0
  BY <1>1, PathNames
<1>3. Real(path) \in Path /\ Len(Real(path)) = Len(path)
  BY <1>1, RealNames
<1>4. Plain(path) \in Path /\ Len(Plain(path)) = Len(path)
  BY <1>1, PlainNames
<1> QED BY <1>1, <1>2, <1>3, <1>4, PathNames

(* Users rename paths that they name. *)
LEMMA UserMove ==
  ASSUME NEW move \in Moves
  PROVE  move[1] \in UserPaths /\ move[2] \in UserPaths
BY ConstantsAssumption

(* What has been saved is under paths and has contents. *)
AreSaved(S) == \A p \in DOMAIN S : p \in Path \ {<<>>} /\ S[p] \in Notes \cup {Empty}

(* What goes along with a directory or a file. *)
MovesAlong(p, from, to) ==
  /\ AtOrBelow(Plain(from), p)
  /\ ~IsClip(Last(from)) /\ ~IsClip(Last(to))
  /\ IsKept(MovedPath(p, Plain(from), Plain(to)))
  /\ \A k \in Len(Plain(from)) + 1..Len(p) : ~IsClip(p[k])

(* What is there after a rename had been there, here or elsewhere. *)
LEMMA TakenAlong ==
  ASSUME AreSaved(saved), NEW from \in UserPaths, NEW to \in UserPaths,
         NEW q \in DOMAIN TakeAlong(from, to)
  PROVE  \/ \E p \in DOMAIN saved :
              /\ MovesAlong(p, from, to)
              /\ q = MovedPath(p, Plain(from), Plain(to))
              /\ TakeAlong(from, to)[q] = saved[p]
         \/ /\ q \in DOMAIN saved /\ q \notin GivenUp(from) /\ q \notin GivenUp(to)
            /\ TakeAlong(from, to)[q] = saved[q]
<1> DEFINE moving == {p \in DOMAIN saved : MovesAlong(p, from, to)}
           moved  == {MovedPath(p, Plain(from), Plain(to)) : p \in moving}
           along  == [r \in moved |-> saved[MovedPath(r, Plain(to), Plain(from))]]
           stays  == Without(saved, GivenUp(from) \cup GivenUp(to))
<1>1. TakeAlong(from, to) = Over(along, stays)
  BY DEF TakeAlong, MovesAlong
<1>2. DOMAIN along = moved /\ \A r \in moved : along[r] = saved[MovedPath(r, Plain(to), Plain(from))]
  OBVIOUS
<1>3. /\ DOMAIN stays = DOMAIN saved \ (GivenUp(from) \cup GivenUp(to))
      /\ \A r \in DOMAIN stays : stays[r] = saved[r]
  BY DEF Without
<1>4. \A r \in moved : \E p \in moving : r = MovedPath(p, Plain(from), Plain(to))
  OBVIOUS
<1>5. \A p \in moving : /\ p \in DOMAIN saved /\ p \in Path /\ MovesAlong(p, from, to)
                        /\ AtOrBelow(Plain(from), p)
  BY DEF AreSaved, MovesAlong
<1> HIDE DEF moving, moved, along, stays
<1>6. q \in moved \cup DOMAIN stays
  BY <1>1, <1>2 DEF Over
<1>7. CASE q \in moved
  <2>1. PICK p \in moving : q = MovedPath(p, Plain(from), Plain(to))
    BY <1>4, <1>7
  <2>2. Plain(from) \in Path /\ Plain(to) \in Path
    BY UserPath
  <2>3. MovedPath(q, Plain(to), Plain(from)) = p
    BY <1>5, <2>1, <2>2, MovedNames
  <2>4. TakeAlong(from, to)[q] = saved[p]
    BY <1>1, <1>2, <1>7, <2>3 DEF Over
  <2> QED BY <1>5, <2>1, <2>4
<1>8. CASE q \notin moved
  <2>1. q \in DOMAIN stays /\ TakeAlong(from, to)[q] = stays[q]
    BY <1>1, <1>2, <1>6, <1>8 DEF Over
  <2> QED BY <1>3, <2>1
<1> QED BY <1>7, <1>8

(* What is there after something has been saved. *)
LEMMA SavedNow ==
  ASSUME NEW path, NEW content
  PROVE  /\ DOMAIN Save(path, content) = DOMAIN saved \cup (IF IsKept(path) THEN {Plain(path)} ELSE {})
         /\ \A p \in DOMAIN Save(path, content) :
              Save(path, content)[p] =
                IF p = Plain(path) \/ (IsHidden(path) /\ Real(p) = Real(path)) THEN content ELSE saved[p]
BY DEF Save

(* What users have saved keeps its type. *)
LEMMA SavedTypes ==
  ASSUME AreSaved(saved), NEW path \in UserPaths
  PROVE  /\ AreSaved(GiveUp(path))
         /\ \A content \in Notes \cup {Empty} : AreSaved(Save(path, content))
         /\ \A to \in UserPaths : AreSaved(TakeAlong(path, to))
<1>1. AreSaved(GiveUp(path))
  BY DEF AreSaved, GiveUp, Without
<1>2. ASSUME NEW content \in Notes \cup {Empty} PROVE AreSaved(Save(path, content))
  <2> DEFINE S == Save(path, content)
  <2>1. \A p \in DOMAIN S : p \in DOMAIN saved \/ p = Plain(path)
    <3>1. DOMAIN S = DOMAIN saved \cup (IF IsKept(path) THEN {Plain(path)} ELSE {})
      BY SavedNow
    <3> HIDE DEF S
    <3> QED BY <3>1
  <2>2. \A p \in DOMAIN S : S[p] = content \/ (p # Plain(path) /\ S[p] = saved[p])
    <3>1. \A p \in DOMAIN S :
            S[p] = IF p = Plain(path) \/ (IsHidden(path) /\ Real(p) = Real(path)) THEN content ELSE saved[p]
      BY DEF Save
    <3> HIDE DEF S
    <3>2. TAKE p \in DOMAIN S
    <3>3. CASE p = Plain(path) \/ (IsHidden(path) /\ Real(p) = Real(path))
      BY <3>1, <3>3
    <3>4. CASE ~(p = Plain(path) \/ (IsHidden(path) /\ Real(p) = Real(path)))
      BY <3>1, <3>4
    <3> QED BY <3>3, <3>4
  <2> HIDE DEF S
  <2>3. AreSaved(S)
    BY <2>1, <2>2, UserPath DEF AreSaved
  <2> QED BY <2>3 DEF S
<1>3. ASSUME NEW to \in UserPaths PROVE AreSaved(TakeAlong(path, to))
  <2>1. ASSUME NEW q \in DOMAIN TakeAlong(path, to)
        PROVE  q \in Path \ {<<>>} /\ TakeAlong(path, to)[q] \in Notes \cup {Empty}
    <3>1. CASE \E p \in DOMAIN saved :
                 /\ MovesAlong(p, path, to)
                 /\ q = MovedPath(p, Plain(path), Plain(to))
                 /\ TakeAlong(path, to)[q] = saved[p]
      <4>1. PICK p \in DOMAIN saved :
                 /\ MovesAlong(p, path, to)
                 /\ q = MovedPath(p, Plain(path), Plain(to))
                 /\ TakeAlong(path, to)[q] = saved[p]
        BY <3>1
      <4>2. p \in Path /\ AtOrBelow(Plain(path), p)
        BY <4>1 DEF AreSaved, MovesAlong
      <4>3. Plain(path) \in Path /\ Plain(to) \in Path /\ Plain(to) # <<>>
        BY UserPath
      <4>4. q \in Path /\ Len(q) = Len(Plain(to)) + (Len(p) - Len(Plain(path)))
        BY <4>1, <4>2, <4>3, MovedNames
      <4>5. Len(q) > 0
        BY <4>2, <4>3, <4>4, PathNames, BelowNames
      <4>6. q # <<>>
        BY <4>4, <4>5, PathNames
      <4> QED BY <4>1, <4>4, <4>6 DEF AreSaved
    <3>2. CASE q \in DOMAIN saved /\ TakeAlong(path, to)[q] = saved[q]
      BY <3>2 DEF AreSaved
    <3> QED BY <3>1, <3>2, TakenAlong
  <2> QED BY <2>1 DEF AreSaved
<1> QED BY <1>1, <1>2, <1>3

(* The disk that a request leaves is a disk. *)
LEMMA DiskStep ==
  ASSUME TypeOK, [Next]_vars
  PROVE  IsDisk(disk')
<1>1. IsDisk(disk)
  BY DEF TypeOK
<1>2. ASSUME NEW path \in UserPaths, Create(path) PROVE IsDisk(disk')
  BY <1>1, <1>2, UserPath, CheckDisk, CreatDisk DEF Create
<1>3. ASSUME NEW path \in UserPaths, Mkdir(path) PROVE IsDisk(disk')
  BY <1>1, <1>3, UserPath, CheckDisk, MkdirDisk DEF Mkdir
<1>4. ASSUME NEW path \in UserPaths, Write(path) PROVE IsDisk(disk')
  <2>1. Lookup(path) = "file" /\ ~IsVirtual(path)
    BY <1>4 DEF Write
  <2>2. Real(path) \in DOMAIN disk /\ disk[Real(path)] # Dir
    BY <2>1, FoundOnWay, UserPath, AttrFile
  <2>3. PICK content \in Notes \cup {Empty} : disk' = [disk EXCEPT ![Real(path)] = content]
    BY <1>4 DEF Write
  <2>4. /\ DOMAIN disk' = DOMAIN disk \cup {Real(path)} /\ disk'[Real(path)] \in Files \cup {Dir}
        /\ \A q \in DOMAIN disk \ {Real(path)} : disk'[q] = disk[q]
    BY <2>2, <2>3 DEF Files
  <2>5. Real(path) \in Path /\ Real(path) # <<>>
    BY UserPath
  <2>6. IsDirOn(disk, Above(Real(path)))
    <3>1. CASE Len(Real(path)) > 1
      BY <1>1, <2>2, <3>1 DEF IsDisk, IsDirOn
    <3>2. CASE ~(Len(Real(path)) > 1)
      <4>1. Len(Real(path)) = 1
        <5>1. Len(Real(path)) \in Nat /\ Len(Real(path)) > 0
          BY <2>5, PathNames
        <5>2. \A n \in Nat : n > 0 /\ ~(n > 1) => n = 1
          OBVIOUS
        <5> QED BY <3>2, <5>1, <5>2
      <4> QED BY <2>5, <4>1, BelowAbove DEF IsDirOn
    <3> QED BY <3>1, <3>2
  <2> QED BY <1>1, <2>2, <2>4, <2>5, <2>6, PutDisk
<1>5. ASSUME NEW path \in UserPaths, Unlink(path) PROVE IsDisk(disk')
  <2>1. disk' = unlink(disk, Real(path))
    BY <1>5 DEF Unlink
  <2>2. CASE IsFileOn(disk, Real(path))
    <3>1. \A q \in DOMAIN disk : Len(q) > 1 => Above(q) # Real(path)
      BY <1>1, <2>2 DEF IsDisk, IsFileOn
    <3> QED BY <1>1, <2>1, <2>2, <3>1, WithoutDisk DEF unlink
  <2>3. CASE ~IsFileOn(disk, Real(path))
    BY <1>1, <2>1, <2>3 DEF unlink
  <2> QED BY <2>2, <2>3
<1>6. ASSUME NEW path \in UserPaths, Rmdir(path) PROVE IsDisk(disk')
  <2>1. disk' = rmdir(disk, Real(path))
    BY <1>6 DEF Rmdir
  <2>2. CASE ~\E q \in DOMAIN disk : q # Real(path) /\ AtOrBelow(Real(path), q)
    <3>1. ASSUME NEW q \in DOMAIN disk PROVE Above(q) # Real(path)
      BY <1>1, <2>2, BelowAbove DEF IsDisk
    <3> QED BY <1>1, <2>1, <3>1, WithoutDisk DEF rmdir
  <2>3. CASE \E q \in DOMAIN disk : q # Real(path) /\ AtOrBelow(Real(path), q)
    BY <1>1, <2>1, <2>3 DEF rmdir
  <2> QED BY <2>2, <2>3
<1>7. ASSUME NEW path \in UserPaths, CopyIn(path) PROVE IsDisk(disk')
  <2>1. path \in Path /\ path # <<>> /\ Len(path) = 1 /\ path \notin DOMAIN disk
    BY <1>7, UserPath DEF CopyIn
  <2>2. PICK r \in Recordings : disk' = With(disk, path, r)
    BY <1>7 DEF CopyIn
  <2>3. /\ DOMAIN disk' = DOMAIN disk \cup {path} /\ disk'[path] \in Files \cup {Dir}
        /\ \A q \in DOMAIN disk \ {path} : disk'[q] = disk[q]
    BY <2>2 DEF With, Files
  <2>4. IsDirOn(disk, Above(path))
    BY <2>1, BelowAbove DEF IsDirOn
  <2> QED BY <1>1, <2>1, <2>3, <2>4, PutDisk
<1>8. ASSUME NEW move \in Moves, Rename(move[1], move[2]) PROVE IsDisk(disk')
  BY <1>1, <1>8, UserMove, UserPath, RenameDisk DEF Rename
<1>9. CASE UNCHANGED disk
  BY <1>1, <1>9
<1>10. ASSUME NEW path \in UserPaths, Stat(path) PROVE UNCHANGED disk
  BY <1>10 DEF Stat
<1>11. SetNameScheme => UNCHANGED disk
  BY DEF SetNameScheme
<1> QED BY <1>2, <1>3, <1>4, <1>5, <1>6, <1>7, <1>8, <1>9, <1>10, <1>11 DEF Next, vars

(* Attributes are those of recordings, under paths of recordings. *)
LEMMA StatTypes ==
  ASSUME TypeOK, NEW path \in UserPaths, Stat(path)
  PROVE  /\ \A p \in DOMAIN attrs' : p \in Path \ {<<>>} /\ Last(p).ext = "MLV" /\ attrs'[p] \in Recordings
         /\ IsReadable(mlv_file(path)) /\ AttrPath(path) = mlv_file(path)
<1>1. IsVirtual(path) /\ Lookup(path) = "file" /\ ~IsRegistered(path)
  BY DEF Stat
<1>2. getattr(path) = "file" /\ path \in Path /\ path # <<>>
  BY <1>1, FoundOnWay, UserPath
<1>3. IsReadable(mlv_file(path))
  BY <1>1, <1>2 DEF getattr, IsFrame
<1>4. disk[mlv_file(path)] \in Recordings
  BY <1>3 DEF IsReadable
<1>5. InClip(path)
  BY <1>1 DEF IsVirtual
<1>6. mlv_file(path) \in Path \ {<<>>} /\ Last(mlv_file(path)).ext = "MLV"
  BY <1>2, <1>5, MlvNames DEF Last
<1>7. attrs' = With(attrs, mlv_file(path), disk[mlv_file(path)])
  BY DEF Stat, AttrPath
<1>8. \A p \in DOMAIN attrs' :
        \/ p = mlv_file(path) /\ attrs'[p] = disk[mlv_file(path)]
        \/ p \in DOMAIN attrs /\ attrs'[p] = attrs[p]
  BY <1>7 DEF With
<1> QED BY <1>3, <1>4, <1>6, <1>8 DEF TypeOK, AttrPath

(* Requests keep the types. *)
LEMMA TypeStep ==
  ASSUME TypeOK, [Next]_vars
  PROVE  TypeOK'
<1>1. IsDisk(disk')
  BY DiskStep
<1>2. AreSaved(saved)
  BY DEF TypeOK, AreSaved
<1>3. /\ name_scheme \in {0, 1} /\ steps \in 0..MaxSteps /\ MaxSteps \in Nat
      /\ \A p \in DOMAIN attrs : p \in Path \ {<<>>} /\ Last(p).ext = "MLV" /\ attrs[p] \in Recordings
  BY ConstantsAssumption DEF TypeOK
<1>4. name_scheme' \in {0, 1}
  BY <1>3 DEF Next, vars, Create, Mkdir, Write, Unlink, Rmdir, Stat, CopyIn, Rename,
     SetNameScheme
<1>5. steps' \in 0..MaxSteps
  <2>1. Step => steps' \in 0..MaxSteps
    BY <1>3 DEF Step
  <2> QED BY <1>3, <2>1 DEF Next, vars, Create, Mkdir, Write, Unlink, Rmdir, Stat, CopyIn,
                            Rename, SetNameScheme
<1>6. \A p \in DOMAIN attrs' : p \in Path \ {<<>>} /\ Last(p).ext = "MLV" /\ attrs'[p] \in Recordings
  <2>1. ASSUME NEW path \in UserPaths, Stat(path)
        PROVE  \A p \in DOMAIN attrs' : p \in Path \ {<<>>} /\ Last(p).ext = "MLV" /\ attrs'[p] \in Recordings
    BY <2>1, StatTypes
  <2>2. (\E path \in UserPaths : Stat(path)) \/ UNCHANGED attrs
    BY DEF Next, vars, Create, Mkdir, Write, Unlink, Rmdir, CopyIn, Rename, SetNameScheme
  <2> QED BY <1>3, <2>1, <2>2
<1>7. AreSaved(saved')
  <2>1. ASSUME NEW path \in UserPaths, Create(path) PROVE AreSaved(saved')
    BY <1>2, <2>1, SavedTypes DEF Create
  <2>2. ASSUME NEW path \in UserPaths, Write(path) PROVE AreSaved(saved')
    BY <1>2, <2>2, SavedTypes DEF Write
  <2>3. ASSUME NEW path \in UserPaths, Unlink(path) PROVE AreSaved(saved')
    BY <1>2, <2>3, SavedTypes DEF Unlink
  <2>4. ASSUME NEW path \in UserPaths, Rmdir(path) PROVE AreSaved(saved')
    BY <1>2, <2>4, SavedTypes DEF Rmdir
  <2>5. ASSUME NEW move \in Moves, Rename(move[1], move[2]) PROVE AreSaved(saved')
    BY <1>2, <2>5, UserMove, SavedTypes DEF Rename
  <2>6. CASE UNCHANGED saved
    BY <1>2, <2>6
  <2>7. ASSUME NEW path \in UserPaths, Mkdir(path) \/ Stat(path) \/ CopyIn(path) PROVE UNCHANGED saved
    BY <2>7 DEF Mkdir, Stat, CopyIn
  <2>8. SetNameScheme => UNCHANGED saved
    BY DEF SetNameScheme
  <2> QED BY <2>1, <2>2, <2>3, <2>4, <2>5, <2>6, <2>7, <2>8 DEF Next, vars
<1> QED BY <1>1, <1>4, <1>5, <1>6, <1>7 DEF TypeOK, AreSaved

(* So does the beginning. *)
LEMMA TypeInit ==
  ASSUME Init
  PROVE  TypeOK
<1>1. disk = FirstDisk /\ name_scheme \in {0, 1} /\ DOMAIN attrs = {} /\ saved = FirstSaved /\ steps = 0
  BY DEF Init
<1>2. DOMAIN saved \subseteq UserPaths /\ \A p \in DOMAIN saved : saved[p] \in Notes \cup {Empty}
  BY <1>1 DEF FirstSaved
<1>3. \A p \in DOMAIN saved : p \in Path \ {<<>>}
  BY <1>2, UserPath
<1>4. IsDisk(disk) /\ 0 \in 0..MaxSteps
  BY <1>1, ConstantsAssumption
<1> QED BY <1>1, <1>2, <1>3, <1>4 DEF TypeOK

(* Type correctness: whatever is on the disk stays in directories, no call *)
(* leaves a file below a file or below nothing, and the attributes kept    *)
(* are those of recordings.                                                *)
THEOREM TypeCorrect == Spec => []TypeOK
<1>1. TypeOK /\ [Next]_vars => TypeOK'
  BY TypeStep
<1> QED BY <1>1, TypeInit, PTL DEF Spec

-----------------------------------------------------------------------------
(* What users have saved.                                                  *)

(* The paths that are followed: no clip, nothing hidden, and no name that  *)
(* only one of the naming schemes takes for a clip.                        *)
Kept(p) ==
  /\ p \in Path \ {<<>>}
  /\ Last(p).ext \in {"other", "dng", "wav"}
  /\ \A k \in 1..Len(p) : p[k].ext \notin {"MLD", "clip"}

(* A file is on a disk, and what it takes to find it: the recording, if it *)
(* is kept in a clip.                                                      *)
StaysOn(D, p, content) ==
  /\ Kept(p)
  /\ Real(p) \in DOMAIN D /\ D[Real(p)] = content
  /\ InClip(p) =>
       mlv_file(p) \in DOMAIN D /\ p[ClipAt(p) + 1].ext \notin {"dng", "wav"}

SavedInv == \A p \in DOMAIN saved : StaysOn(disk, p, saved[p])

(* Names are equal that begin and end the same. *)
LEMMA SameName ==
  ASSUME NEW a \in Names, NEW b \in Names, a.stem = b.stem, a.ext = b.ext
  PROVE  a = b
BY DEF Names

(* On a path that is followed only .MLV is a clip, under both schemes. *)
LEMMA KeptClip ==
  ASSUME NEW p, Kept(p)
  PROVE  /\ p \in Path /\ p # <<>> /\ Len(p) \in Nat /\ Len(p) > 0
         /\ \A k \in 1..Len(p) : IsClip(p[k]) <=> p[k].ext = "MLV"
         /\ p[Len(p)].ext \in {"other", "dng", "wav"}
         /\ InClip(p) =>
              /\ ClipAt(p) \in 1..Len(p) /\ ClipAt(p) < Len(p)
              /\ p[ClipAt(p)].ext = "MLV"
              /\ \A k \in 1..ClipAt(p) - 1 : p[k].ext # "MLV"
              /\ \A k \in 1..ClipAt(p) : mlv_file(p)[k] = p[k]
              /\ AtOrBelow(mlv_file(p), p)
<1>1. p \in Path /\ p # <<>> /\ Len(p) \in Nat /\ Len(p) > 0
  BY PathNames DEF Kept
<1>2. \A k \in 1..Len(p) : IsClip(p[k]) <=> p[k].ext = "MLV"
  BY DEF Kept, IsClip, IsMlv
<1>3. p[Len(p)].ext \in {"other", "dng", "wav"}
  BY DEF Kept, Last
<1>4. ASSUME InClip(p)
      PROVE  /\ ClipAt(p) \in 1..Len(p) /\ ClipAt(p) < Len(p)
             /\ p[ClipAt(p)].ext = "MLV"
             /\ \A k \in 1..ClipAt(p) - 1 : p[k].ext # "MLV"
             /\ \A k \in 1..ClipAt(p) : mlv_file(p)[k] = p[k]
             /\ AtOrBelow(mlv_file(p), p)
  <2> DEFINE c == ClipAt(p)
             f == mlv_file(p)
  <2>1. c \in 1..Len(p) /\ IsClip(p[c]) /\ \A j \in 1..c - 1 : ~IsClip(p[j])
    BY <1>1, <1>4, ClipPlace
  <2>2. /\ f \in Path \ {<<>>} /\ Len(f) = c
        /\ \A k \in 1..c - 1 : f[k] = p[k]
        /\ f[c].stem = p[c].stem /\ f[c].ext = "MLV"
    BY <1>1, <1>4, MlvNames
  <2> HIDE DEF c, f
  <2>3. p[c].ext = "MLV"
    BY <1>2, <2>1
  <2>4. c < Len(p)
    BY <1>1, <1>3, <2>1, <2>3
  <2>5. \A k \in 1..c - 1 : p[k].ext # "MLV"
    BY <1>1, <1>2, <2>1
  <2>6. f[c] = p[c]
    <3>1. f[c] \in Names /\ p[c] \in Names
      <4>1. c \in 1..Len(f)
        BY <2>1, <2>2
      <4> QED BY <1>1, <2>1, <2>2, <4>1, PathNames
    <3> QED BY <2>2, <2>3, <3>1, SameName
  <2>7. \A k \in 1..c : f[k] = p[k]
    BY <2>1, <2>2, <2>6
  <2>8. AtOrBelow(f, p)
    BY <1>1, <2>1, <2>2, <2>7, BelowNames
  <2> QED BY <2>1, <2>3, <2>4, <2>5, <2>7, <2>8 DEF c, f
<1> QED BY <1>1, <1>2, <1>3, <1>4

(* A path stands for the same as the one that every scheme knows. *)
LEMMA PlainSame ==
  ASSUME NEW p \in Path, p # <<>>
  PROVE  /\ Real(Plain(p)) = Real(p)
         /\ InClip(Plain(p)) <=> InClip(p)
         /\ InClip(p) => ClipAt(Plain(p)) = ClipAt(p) /\ mlv_file(Plain(p)) = mlv_file(p)
<1>1. CASE ~InClip(p)
  BY <1>1, PlainNames
<1>2. CASE InClip(p)
  <2> DEFINE c == ClipAt(p)
             q == Plain(p)
             f == mlv_file(p)
  <2>1. c \in 1..Len(p) /\ \A j \in 1..c - 1 : ~IsClip(p[j])
    BY <1>2, ClipPlace
  <2>2. /\ q \in Path /\ Len(q) = Len(p)
        /\ \A k \in 1..Len(p) : k # c => q[k] = p[k]
        /\ q[c].stem = p[c].stem /\ q[c].ext = "MLV"
    BY <1>2, PlainNames
  <2>3. /\ f \in Path \ {<<>>} /\ Len(f) = c /\ \A k \in 1..c - 1 : f[k] = p[k]
        /\ f[c].stem = p[c].stem /\ f[c].ext = "MLV"
    BY <1>2, MlvNames
  <2>4. Len(p) \in Nat
    BY PathNames
  <2> HIDE DEF c, q, f
  <2>5. InClip(q) /\ ClipAt(q) = c
    <3>1. c \in 1..Len(q) /\ IsClip(q[c])
      BY <2>1, <2>2 DEF IsClip, IsMlv
    <3>2. \A j \in 1..c - 1 : ~IsClip(q[j])
      <4>1. \A j \in 1..c - 1 : q[j] = p[j]
        BY <2>1, <2>2, <2>4
      <4> QED BY <2>1, <4>1
    <3> QED BY <2>2, <3>1, <3>2, ClipAtIs
  <2>6. mlv_file(q) = f
    <3> DEFINE g == mlv_file(q)
    <3>1. /\ g \in Path \ {<<>>} /\ Len(g) = c /\ \A k \in 1..c - 1 : g[k] = q[k]
          /\ g[c].stem = q[c].stem /\ g[c].ext = "MLV"
      BY <2>2, <2>5, MlvNames
    <3> HIDE DEF g
    <3>2. g[c] = f[c]
      <4>1. c \in 1..Len(f) /\ c \in 1..Len(g)
        BY <2>1, <2>3, <3>1
      <4>2. g[c] \in Names /\ f[c] \in Names
        BY <2>3, <3>1, <4>1, PathNames
      <4> QED BY <2>2, <2>3, <3>1, <4>2, SameName
    <3>3. \A k \in 1..c : g[k] = f[k]
      BY <2>1, <2>2, <2>3, <2>4, <3>1, <3>2
    <3>4. g = f
      BY <2>3, <3>1, <3>3, SamePath
    <3> QED BY <3>4 DEF g
  <2>7. path_in_mlv(q) = path_in_mlv(p)
    <3> DEFINE s == path_in_mlv(p)
               t == path_in_mlv(q)
    <3>1. s \in Path /\ Len(s) = Len(p) - c /\ \A k \in 1..Len(p) - c : s[k] = p[c + k]
      BY <1>2, BehindClip DEF c
    <3>2. t \in Path /\ Len(t) = Len(q) - c /\ \A k \in 1..Len(q) - c : t[k] = q[c + k]
      BY <2>2, <2>5, BehindClip
    <3> HIDE DEF s, t
    <3>3. Len(t) = Len(s)
      BY <2>2, <3>1, <3>2
    <3>4. \A k \in 1..Len(s) : t[k] = s[k]
      <4>1. \A k \in 1..Len(p) - c : c + k \in 1..Len(p) /\ c + k # c
        BY <2>1, <2>4
      <4> QED BY <2>2, <3>1, <3>2, <4>1
    <3>5. s = t
      BY <3>1, <3>2, <3>3, <3>4, SamePath
    <3> QED BY <3>5 DEF s, t
  <2>8. Real(q) = Real(p)
    BY <1>2, <2>5, <2>6, <2>7 DEF Real, f
  <2> QED BY <1>2, <2>5, <2>6, <2>8 DEF c, q, f
<1> QED BY <1>1, <1>2

(* What is written at a path that is followed stays there. *)
LEMMA PlainStays ==
  ASSUME NEW path \in Path, path # <<>>, IsKept(path), OnWay(path),
         NEW D, \A q \in DOMAIN disk : q \in DOMAIN D,
         NEW content, Real(path) \in DOMAIN D, D[Real(path)] = content
  PROVE  StaysOn(D, Plain(path), content)
<1> DEFINE q == Plain(path)
           c == ClipAt(path)
<1>1. /\ path[Len(path)].ext \in {"other", "dng", "wav"} /\ ~IsVirtual(path)
      /\ \A k \in 1..Len(path) : path[k].ext # "MLD" /\ q[k].ext # "clip"
      /\ Len(path) \in Nat /\ Len(path) > 0
  BY PathNames DEF IsKept, IsHidden, Last
<1>2. q \in Path /\ Len(q) = Len(path) /\ (~InClip(path) => q = path)
  BY PlainNames
<1>3. /\ Real(q) = Real(path) /\ (InClip(q) <=> InClip(path))
      /\ InClip(path) => ClipAt(q) = c /\ mlv_file(q) = mlv_file(path)
  BY PlainSame
<1>4. InClip(path) => /\ \A k \in 1..Len(path) : k # c => q[k] = path[k]
                      /\ q[c].stem = path[c].stem /\ q[c].ext = "MLV"
  BY PlainNames
<1>5. InClip(path) => c \in 1..Len(path) /\ IsClip(path[c])
  BY ClipPlace
<1> HIDE DEF q, c
<1>6. InClip(path) => c < Len(path)
  <2>1. ASSUME InClip(path), c = Len(path) PROVE FALSE
    <3>1. q[Len(path)].ext # "clip" /\ path[c].ext # "MLV"
      BY <1>1, <2>1
    <3>2. path[c].ext = "clip" \/ path[c].ext = "MLV"
      BY <1>5, <2>1 DEF IsClip, IsMlv
    <3> QED BY <1>1, <2>1, <3>1, <3>2
  <2> QED BY <1>1, <1>5, <2>1
<1>7. Kept(q)
  <2>1. q # <<>>
    BY <1>1, <1>2, PathNames
  <2>2. q[Len(path)].ext \in {"other", "dng", "wav"}
    BY <1>1, <1>2, <1>4, <1>6
  <2>3. \A k \in 1..Len(path) : q[k].ext \notin {"MLD", "clip"}
    <3>1. CASE InClip(path)
      <4>1. \A k \in 1..Len(path) : q[k].ext # "MLD"
        BY <1>1, <1>4, <3>1
      <4> QED BY <1>1, <4>1
    <3>2. CASE ~InClip(path)
      BY <1>1, <1>2, <3>2
    <3> QED BY <3>1, <3>2
  <2> QED BY <1>2, <2>1, <2>2, <2>3 DEF Kept, Last
<1>8. ASSUME InClip(q)
      PROVE  mlv_file(q) \in DOMAIN D /\ q[ClipAt(q) + 1].ext \notin {"dng", "wav"}
  <2>1. InClip(path) /\ ClipAt(q) = c /\ mlv_file(q) = mlv_file(path)
    BY <1>3, <1>8
  <2>2. mlv_file(path) \in DOMAIN disk /\ path[c + 1].ext \notin {"dng", "wav"}
    BY <1>1, <1>6, <2>1, ClipOnWay DEF c
  <2>3. c + 1 \in 1..Len(path) /\ c + 1 # c
    BY <1>1, <1>5, <1>6, <2>1
  <2> QED BY <1>4, <2>1, <2>2, <2>3
<1> QED BY <1>3, <1>7, <1>8 DEF StaysOn, q

(* No other path leads to what is saved: a request that touches the file   *)
(* or its clip names the path it was saved under, or one above it, or is   *)
(* one to a hidden directory.                                              *)
LEMMA Alias ==
  ASSUME NEW path \in Path, path # <<>>, NEW p, Kept(p),
         \/ AtOrBelow(Real(path), Real(p))
         \/ InClip(p) /\ AtOrBelow(Real(path), mlv_file(p))
  PROVE  AtOrBelow(Plain(path), p) \/ (IsHidden(path) /\ AtOrBelow(Real(path), Real(p)))
<1> DEFINE R == Real(path)
           P == Plain(path)
           n == Len(path)
           c == ClipAt(path)
           b == ClipAt(p)
<1>1. n \in Nat /\ n > 0 /\ DOMAIN path = 1..n
  BY PathNames
<1>2. /\ p \in Path /\ Len(p) \in Nat
      /\ \A k \in 1..Len(p) : p[k].ext \notin {"MLD", "clip"}
      /\ \A k \in 1..Len(p) : IsClip(p[k]) <=> p[k].ext = "MLV"
      /\ InClip(p) => /\ b \in 1..Len(p) /\ b < Len(p) /\ p[b].ext = "MLV"
                      /\ \A k \in 1..b - 1 : p[k].ext # "MLV"
  BY KeptClip DEF Kept
<1>3. /\ R \in Path /\ Len(R) = n
      /\ ~InClip(path) => R = path
      /\ InClip(path) => /\ \A k \in 1..n : k # c => R[k] = path[k]
                         /\ R[c].stem = path[c].stem
                         /\ c = n => R[c].ext = "MLV"
                         /\ c < n => R[c].ext = "MLD"
  <2>1. InClip(path) => c \in 1..n
    BY ClipPlace
  <2> QED BY <1>1, <2>1, RealNames
<1>4. /\ P \in Path /\ Len(P) = n
      /\ ~InClip(path) => P = path
      /\ InClip(path) => /\ \A k \in 1..n : k # c => P[k] = path[k]
                         /\ P[c].stem = path[c].stem /\ P[c].ext = "MLV"
  BY PlainNames
<1>5. /\ InClip(path) => c \in 1..n /\ \A k \in 1..c - 1 : path[k].ext # "MLV"
      /\ ~InClip(path) => \A k \in 1..n : path[k].ext # "MLV"
  <2>1. InClip(path) => c \in 1..n /\ \A k \in 1..c - 1 : ~IsClip(path[k])
    BY ClipPlace
  <2>2. ~InClip(path) => \A k \in 1..n : ~IsClip(path[k])
    BY <1>1 DEF InClip
  <2>3. \A k : ~IsClip(path[k]) => path[k].ext # "MLV"
    BY DEF IsClip, IsMlv
  <2> QED BY <2>1, <2>2, <2>3
<1>6. /\ Real(p) \in Path /\ Len(Real(p)) = Len(p)
      /\ ~InClip(p) => Real(p) = p
      /\ InClip(p) => /\ \A k \in 1..Len(p) : k # b => Real(p)[k] = p[k]
                      /\ Real(p)[b].stem = p[b].stem /\ Real(p)[b].ext = "MLD"
  BY <1>2, RealNames
<1>7. InClip(p) => /\ mlv_file(p) \in Path /\ Len(mlv_file(p)) = b
                   /\ \A k \in 1..b : mlv_file(p)[k] = p[k]
  BY <1>2, KeptClip, MlvNames
<1>8. IsHidden(path) <=> \E k \in 1..n : path[k].ext = "MLD"
  BY <1>1 DEF IsHidden
<1>9. \A k \in 1..n : P[k] \in Names /\ R[k] \in Names
  BY <1>3, <1>4, PathNames
<1>10. \A k \in 1..Len(p) : p[k] \in Names
  BY <1>2, PathNames
<1>11. AtOrBelow(P, p) <=> n <= Len(p) /\ \A k \in 1..n : P[k] = p[k]
  BY <1>2, <1>4, BelowNames
<1>12. AtOrBelow(R, Real(p)) => n <= Len(p) /\ \A k \in 1..n : R[k] = Real(p)[k]
  BY <1>3, <1>6, BelowNames
<1>13. InClip(p) /\ AtOrBelow(R, mlv_file(p)) => n <= b /\ \A k \in 1..n : R[k] = p[k]
  <2>1. SUFFICES ASSUME InClip(p), AtOrBelow(R, mlv_file(p)) PROVE n <= b /\ \A k \in 1..n : R[k] = p[k]
    OBVIOUS
  <2>2. Len(R) <= Len(mlv_file(p)) /\ \A k \in 1..Len(R) : R[k] = mlv_file(p)[k]
    BY <1>3, <1>7, <2>1, BelowNames
  <2>3. n <= b
    BY <1>3, <1>7, <2>1, <2>2
  <2> QED BY <1>1, <1>2, <1>3, <1>7, <2>1, <2>2, <2>3
<1>14. AtOrBelow(R, Real(p)) \/ (InClip(p) /\ AtOrBelow(R, mlv_file(p)))
  OBVIOUS
<1> HIDE DEF R, P, n, c, b
<1>15. CASE InClip(p) /\ AtOrBelow(R, mlv_file(p))
  <2>1. n <= b /\ (\A k \in 1..n : R[k] = p[k]) /\ n <= Len(p)
    BY <1>1, <1>2, <1>13, <1>15
  <2>2. \A k \in 1..n : R[k].ext \notin {"MLD", "clip"}
    BY <1>1, <1>2, <2>1
  <2>3. InClip(path) => c = n
    BY <1>1, <1>3, <1>5, <2>2
  <2>4. \A k \in 1..n : P[k] = R[k]
    <3>1. CASE ~InClip(path)
      BY <1>3, <1>4, <3>1
    <3>2. CASE InClip(path)
      <4>1. P[c] = R[c]
        BY <1>3, <1>4, <1>5, <1>9, <2>3, <3>2, SameName
      <4> QED BY <1>3, <1>4, <3>2, <4>1
    <3> QED BY <3>1, <3>2
  <2>5. AtOrBelow(P, p)
    BY <1>11, <2>1, <2>4
  <2> QED BY <2>5 DEF P
<1>16. CASE AtOrBelow(R, Real(p)) /\ ~IsHidden(path)
  <2>1. n <= Len(p) /\ \A k \in 1..n : R[k] = Real(p)[k]
    BY <1>12, <1>16
  <2>2. \A k \in 1..n : path[k].ext # "MLD"
    BY <1>8, <1>16
  <2>3. CASE ~InClip(path)
    <3>1. \A k \in 1..n : R[k] = P[k] /\ R[k].ext # "MLD"
      BY <1>3, <1>4, <2>2, <2>3
    <3>2. \A k \in 1..n : InClip(p) => k # b
      BY <1>6, <2>1, <3>1
    <3>3. \A k \in 1..n : Real(p)[k] = p[k]
      BY <1>1, <1>2, <1>6, <2>1, <3>2
    <3>4. \A k \in 1..n : P[k] = p[k]
      BY <2>1, <3>1, <3>3
    <3> QED BY <1>11, <2>1, <3>4 DEF P
  <2>4. CASE InClip(path) /\ c < n
    <3>1. c \in 1..n /\ Real(p)[c].ext = "MLD" /\ c \in 1..Len(p)
      BY <1>1, <1>2, <1>3, <1>5, <2>1, <2>4
    <3>2. InClip(p) /\ c = b
      BY <1>2, <1>6, <3>1
    <3>3. P[c] = p[c]
      BY <1>2, <1>3, <1>4, <1>6, <1>9, <1>10, <2>1, <2>4, <3>1, <3>2, SameName
    <3>4. \A k \in 1..n : k # c => P[k] = p[k]
      BY <1>1, <1>2, <1>3, <1>4, <1>6, <2>1, <2>4, <3>2
    <3>5. \A k \in 1..n : P[k] = p[k]
      BY <3>3, <3>4
    <3> QED BY <1>11, <2>1, <3>5 DEF P
  <2>5. CASE InClip(path) /\ c = n
    <3>1. Real(p)[n].ext = "MLV" /\ n \in 1..n /\ n \in 1..Len(p)
      BY <1>1, <1>2, <1>3, <2>1, <2>5
    <3>2. ASSUME InClip(p) PROVE FALSE
      <4>1. n # b
        BY <1>6, <3>1, <3>2
      <4>2. p[n].ext = "MLV"
        BY <1>6, <3>1, <3>2, <4>1
      <4>3. b < n
        BY <1>1, <1>2, <3>1, <3>2, <4>1, <4>2
      <4>4. R[b].ext = "MLD" /\ R[b] = path[b] /\ b \in 1..n
        BY <1>1, <1>2, <1>3, <1>6, <2>1, <2>5, <3>2, <4>3
      <4> QED BY <2>2, <4>4
    <3>3. Real(p) = p
      BY <1>6, <3>2
    <3>4. P[c] = R[c]
      BY <1>3, <1>4, <1>5, <1>9, <2>5, SameName
    <3>5. \A k \in 1..n : P[k] = p[k]
      BY <1>3, <1>4, <2>1, <2>5, <3>3, <3>4
    <3> QED BY <1>11, <2>1, <3>5 DEF P
  <2> QED BY <1>1, <1>5, <2>3, <2>4, <2>5
<1>17. CASE AtOrBelow(R, Real(p)) /\ IsHidden(path)
  BY <1>17 DEF R
<1> QED BY <1>14, <1>15, <1>16, <1>17
-----------------------------------------------------------------------------
(* Requests and recordings.                                                *)

(* What is new is not on the disk yet. *)
LEMMA NewPath ==
  ASSUME NEW path \in UserPaths, IsNew(path), ~IsVirtual(path)
  PROVE  Real(path) \notin DOMAIN disk /\ OnWay(path)
<1>1. path \in Path /\ path # <<>> /\ Lookup(Above(path)) = "dir" /\ Lookup(path) = "none"
  BY UserPath DEF IsNew
<1>2. OnWay(path) /\ getattr(path) = "none"
  BY <1>1, DirOnWay
<1> QED BY <1>1, <1>2 DEF getattr

(* What makes something new leaves the rest of the disk as it was. *)
Extends(D, E) == \A q \in DOMAIN D : q \in DOMAIN E /\ E[q] = D[q]

(* No request takes anything away to make something new. *)
LEMMA NewExtends ==
  ASSUME TypeOK, NEW path \in UserPaths, Create(path) \/ Mkdir(path) \/ CopyIn(path)
  PROVE  Extends(disk, disk')
<1>1. IsDisk(disk) /\ Real(path) \in Path /\ Real(path) # <<>>
  BY UserPath DEF TypeOK
<1> DEFINE D == check_mld_exists(disk, Real(path))
<1>2. IsDisk(D) /\ Extends(disk, D)
  BY <1>1, CheckDisk DEF Extends
<1> HIDE DEF D
<1>3. CASE Create(path)
  <2>1. disk' = creat(D, Real(path)) /\ Real(path) \notin DOMAIN disk
    BY <1>3, NewPath DEF Create, D
  <2>2. \A q \in DOMAIN D : q \in DOMAIN disk' /\ (q # Real(path) => disk'[q] = D[q])
    BY <1>1, <1>2, <2>1, CreatDisk
  <2> QED BY <1>2, <2>1, <2>2 DEF Extends
<1>4. CASE Mkdir(path)
  <2>1. disk' = mkdir(D, Real(path))
    BY <1>4 DEF Mkdir, D
  <2>2. \A q \in DOMAIN D : q \in DOMAIN disk' /\ disk'[q] = D[q]
    BY <1>1, <1>2, <2>1, MkdirDisk
  <2> QED BY <1>2, <2>2 DEF Extends
<1>5. CASE CopyIn(path)
  <2>1. path \notin DOMAIN disk /\ \E r \in Recordings : disk' = With(disk, path, r)
    BY <1>5 DEF CopyIn
  <2> QED BY <2>1 DEF With, Extends
<1> QED BY <1>3, <1>4, <1>5

(* A file that is written or removed is no recording; a directory that is  *)
(* removed is one.                                                         *)
LEMMA OneChange ==
  ASSUME TypeOK, NEW path \in UserPaths, Write(path) \/ Unlink(path) \/ Rmdir(path)
  PROVE  /\ \A q \in DOMAIN disk : q # Real(path) => q \in DOMAIN disk' /\ disk'[q] = disk[q]
         /\ Write(path) \/ Unlink(path) =>
              /\ Real(path) \in DOMAIN disk /\ disk[Real(path)] # Dir
              /\ Last(Real(path)).ext # "MLV" /\ OnWay(path)
         /\ Rmdir(path) =>
              disk' = disk \/ (IsDirOn(disk, Real(path)) /\ Real(path) \notin DOMAIN disk')
<1>1. path # <<>> /\ Real(path) # <<>>
  BY UserPath
<1>2. ASSUME Write(path) \/ Unlink(path)
      PROVE  /\ Real(path) \in DOMAIN disk /\ disk[Real(path)] # Dir
             /\ Last(Real(path)).ext # "MLV" /\ OnWay(path)
  <2>1. Lookup(path) = "file" /\ ~IsVirtual(path)
    BY <1>2 DEF Write, Unlink
  <2>2. getattr(path) = "file" /\ OnWay(path)
    BY <2>1, FoundOnWay
  <2> QED BY <1>1, <2>1, <2>2, AttrFile
<1>3. CASE Write(path)
  <2>1. PICK content \in Notes \cup {Empty} : disk' = [disk EXCEPT ![Real(path)] = content]
    BY <1>3 DEF Write
  <2>2. ~Rmdir(path) \/ disk' = disk \/ (IsDirOn(disk, Real(path)) /\ Real(path) \notin DOMAIN disk')
    BY <1>1 DEF Rmdir, rmdir, Without
  <2> QED BY <1>2, <1>3, <2>1, <2>2
<1>4. CASE Unlink(path)
  <2>1. disk' = unlink(disk, Real(path))
    BY <1>4 DEF Unlink
  <2>2. ~Rmdir(path) \/ disk' = disk \/ (IsDirOn(disk, Real(path)) /\ Real(path) \notin DOMAIN disk')
    BY <1>1 DEF Rmdir, rmdir, Without
  <2> QED BY <1>2, <1>4, <2>1, <2>2 DEF unlink, Without
<1>5. CASE Rmdir(path)
  <2>1. disk' = rmdir(disk, Real(path))
    BY <1>5 DEF Rmdir
  <2> QED BY <1>2, <2>1 DEF rmdir, Without
<1> QED BY <1>3, <1>4, <1>5

(* What moves below a path keeps its last name. *)
LEMMA MovedLast ==
  ASSUME NEW p \in Path, NEW from \in Path, NEW to \in Path, AtOrBelow(from, p), p # from
  PROVE  Last(MovedPath(p, from, to)) = Last(p)
<1> DEFINE q == MovedPath(p, from, to)
<1>1. Len(p) \in Nat /\ Len(from) \in Nat /\ Len(to) \in Nat /\ Len(from) < Len(p)
  BY PathNames, BelowOrSame
<1>2. /\ Len(q) = Len(to) + (Len(p) - Len(from))
      /\ \A k \in Len(to) + 1..Len(to) + (Len(p) - Len(from)) : q[k] = p[k - Len(to) + Len(from)]
  BY MovedNames
<1> HIDE DEF q
<1>3. Len(q) \in Len(to) + 1..Len(to) + (Len(p) - Len(from)) /\ Len(q) - Len(to) + Len(from) = Len(p)
  BY <1>1, <1>2
<1>4. q[Len(q)] = p[Len(p)]
  BY <1>2, <1>3
<1> QED BY <1>4 DEF Last, q

(* What is not at either of the two paths of a rename is there afterwards, *)
(* under a path that ends as before.                                       *)
LEMMA RenameKeeps ==
  ASSUME TypeOK, NEW from \in UserPaths, NEW to \in UserPaths, Rename(from, to),
         NEW p \in DOMAIN disk, p # Real(from), p # Real(to)
  PROVE  \E q \in DOMAIN disk' : disk'[q] = disk[p] /\ Last(q) = Last(p)
<1> DEFINE F == Real(from)
           T == Real(to)
<1>1. IsDisk(disk) /\ F \in Path /\ F # <<>> /\ T \in Path /\ T # <<>> /\ p \in Path
  BY UserPath DEF TypeOK, IsDisk
<1>2. disk' = rename(disk, F, T)
  BY DEF Rename
<1>3. p # F /\ p # T
  OBVIOUS
<1> HIDE DEF F, T
<1>4. CASE ~Renames(disk, F, T)
  BY <1>2, <1>4 DEF rename
<1>5. CASE Renames(disk, F, T) /\ AtOrBelow(F, p)
  <2> DEFINE q == MovedPath(p, F, T)
  <2>1. q \in DOMAIN disk' /\ disk'[q] = disk[p]
    BY <1>1, <1>2, <1>5, RenameMoves
  <2>2. Last(q) = Last(p)
    BY <1>1, <1>3, <1>5, MovedLast
  <2> QED BY <2>1, <2>2
<1>6. CASE Renames(disk, F, T) /\ ~AtOrBelow(F, p)
  <2>1. ~AtOrBelow(T, p)
    BY <1>1, <1>3, <1>6, NothingBelow
  <2> QED BY <1>1, <1>2, <1>6, <2>1, RenameMoves
<1> QED BY <1>4, <1>5, <1>6

(* A recording that is gone was at one of the two paths of a rename. *)
LEMMA ClipGone ==
  ASSUME TypeOK, [Next]_vars, NEW r \in Clips(disk) \ Clips(disk')
  PROVE  \E move \in Moves :
           /\ Rename(move[1], move[2])
           /\ \E p \in {Real(move[1]), Real(move[2])} : p \in DOMAIN disk /\ disk[p] = r
<1>1. PICK p \in DOMAIN disk : Last(p).ext = "MLV" /\ disk[p] = r /\ r \in Recordings
  BY DEF Clips, IsMlv
<1>2. \A q \in DOMAIN disk' : ~(Last(q) = Last(p) /\ disk'[q] = r)
  BY <1>1 DEF Clips, IsMlv
<1>3. r # Dir
  BY <1>1, ConstantsAssumption DEF Files
<1>4. ASSUME NEW path \in UserPaths, Create(path) \/ Mkdir(path) \/ CopyIn(path) PROVE FALSE
  BY <1>1, <1>2, <1>4, NewExtends DEF Extends
<1>5. ASSUME NEW path \in UserPaths, Write(path) \/ Unlink(path) PROVE FALSE
  <2>1. p # Real(path)
    BY <1>1, <1>5, OneChange
  <2> QED BY <1>1, <1>2, <1>5, <2>1, OneChange
<1>6. ASSUME NEW path \in UserPaths, Rmdir(path) PROVE FALSE
  <2>1. p # Real(path)
    <3>1. disk' # disk
      BY <1>1, <1>2
    <3>2. IsDirOn(disk, Real(path)) /\ Real(path) # <<>>
      BY <1>6, <3>1, OneChange, UserPath
    <3> QED BY <1>1, <1>3, <3>2 DEF IsDirOn
  <2> QED BY <1>1, <1>2, <1>6, <2>1, OneChange
<1>7. CASE disk' = disk
  BY <1>1, <1>2, <1>7
<1>8. ASSUME NEW move \in Moves, Rename(move[1], move[2])
      PROVE  p \in {Real(move[1]), Real(move[2])}
  BY <1>1, <1>2, <1>8, UserMove, RenameKeeps
<1>9. \/ \E path \in UserPaths : Create(path) \/ Mkdir(path) \/ CopyIn(path) \/ Write(path) \/ Unlink(path)
                                 \/ Rmdir(path)
      \/ disk' = disk
      \/ \E move \in Moves : Rename(move[1], move[2])
  BY DEF Next, vars, Stat, SetNameScheme
<1> QED BY <1>1, <1>4, <1>5, <1>6, <1>7, <1>8, <1>9

(* No request destroys a recording: the handlers do not look, what         *)
(* protects it is that mlvfs_getattr shows it as a directory.              *)
THEOREM RecordingsSurvive == Spec => ClipsSurvive
<1>1. TypeOK /\ [Next]_vars =>
        [\A r \in Clips(disk) \ Clips(disk') :
           \E move \in Moves :
             /\ Rename(move[1], move[2])
             /\ \E p \in {Real(move[1]), Real(move[2])} : p \in DOMAIN disk /\ disk[p] = r]_vars
  BY ClipGone
<1> QED BY <1>1, TypeCorrect, PTL DEF Spec, ClipsSurvive

(* What a request leaves of the attributes that are kept. *)
LEMMA AttrsStep ==
  ASSUME TypeOK, [Next]_vars, NEW p \in DOMAIN attrs'
  PROVE  \/ attrs'[p] = WhatIsAt(disk', p)
         \/ WhatIsAt(disk', p) # WhatIsAt(disk, p)
         \/ p \in DOMAIN attrs /\ attrs[p] # WhatIsAt(disk, p)
<1>1. CASE p \in DOMAIN attrs /\ attrs'[p] = attrs[p]
  BY <1>1
<1>2. ASSUME NEW path \in UserPaths, Stat(path)
      PROVE  \/ p \in DOMAIN attrs /\ attrs'[p] = attrs[p]
             \/ attrs'[p] = WhatIsAt(disk', p)
  <2>1. /\ attrs' = With(attrs, mlv_file(path), disk[mlv_file(path)])
        /\ disk' = disk /\ mlv_file(path) \in DOMAIN disk
    BY <1>2, StatTypes DEF Stat, IsReadable, IsFileOn
  <2> QED BY <2>1 DEF With, WhatIsAt
<1>3. (\E path \in UserPaths : Stat(path)) \/ UNCHANGED attrs
  BY DEF Next, vars, Create, Mkdir, Write, Unlink, Rmdir, CopyIn, Rename, SetNameScheme
<1> QED BY <1>1, <1>2, <1>3

(* The attributes that are kept for the frames of a clip are those of the  *)
(* recording at its path until another is put there.                       *)
THEOREM AttrsAreOfClip == Spec => AttrsOfClip
<1>1. TypeOK /\ [Next]_vars =>
        [\A p \in DOMAIN attrs' :
           \/ attrs'[p] = WhatIsAt(disk', p)
           \/ WhatIsAt(disk', p) # WhatIsAt(disk, p)
           \/ p \in DOMAIN attrs /\ attrs[p] # WhatIsAt(disk, p)]_vars
  BY AttrsStep
<1> QED BY <1>1, TypeCorrect, PTL DEF Spec, AttrsOfClip
-----------------------------------------------------------------------------
(* What is kept is found.                                                  *)

(* The beginning of a path in a clip that reaches into the clip. *)
LEMMA IntoClip ==
  ASSUME NEW p \in Path, InClip(p), NEW k \in ClipAt(p)..Len(p)
  PROVE  LET s == SubSeq(p, 1, k)
         IN  /\ s \in Path /\ s # <<>> /\ Len(s) = k /\ \A j \in 1..k : s[j] = p[j]
             /\ InClip(s) /\ ClipAt(s) = ClipAt(p) /\ mlv_file(s) = mlv_file(p)
             /\ k = ClipAt(p) => Real(s) = mlv_file(p)
             /\ k > ClipAt(p) => AtOrBelow(Real(s), Real(p))
<1> DEFINE s == SubSeq(p, 1, k)
           c == ClipAt(p)
<1>1. c \in 1..Len(p) /\ Len(p) \in Nat /\ k \in Nat /\ k > 0 /\ k \in 0..Len(p) /\ c \in 1..k
  BY ClipPlace, PathNames
<1>2. s \in Path /\ Len(s) = k /\ \A j \in 1..k : s[j] = p[j]
  BY <1>1, FirstNames
<1> HIDE DEF s
<1>3. s # <<>>
  BY <1>1, <1>2, PathNames
<1>4. InClip(s) /\ ClipAt(s) = c /\ mlv_file(s) = mlv_file(p)
  <2>1. ClipAt(p) <= Len(s) /\ \A j \in 1..ClipAt(p) : s[j] = p[j]
    BY <1>1, <1>2
  <2> QED BY <1>2, <2>1, SameClip
<1>5. k = c => Real(s) = mlv_file(p)
  BY <1>2, <1>4, RealNames
<1>6. ASSUME k > c PROVE AtOrBelow(Real(s), Real(p))
  <2>1. /\ Real(p) \in Path /\ Len(Real(p)) = Len(p)
        /\ \A j \in 1..Len(p) : j # c => Real(p)[j] = p[j]
        /\ Real(p)[c].stem = p[c].stem /\ Real(p)[c].ext = "MLD"
    <3>1. c < Len(p)
      BY <1>1, <1>6
    <3> QED BY <3>1, RealNames
  <2>2. /\ Real(s) \in Path /\ Len(Real(s)) = k
        /\ \A j \in 1..k : j # c => Real(s)[j] = s[j]
        /\ Real(s)[c].stem = s[c].stem /\ Real(s)[c].ext = "MLD"
    BY <1>2, <1>4, <1>6, RealNames
  <2> HIDE DEF c
  <2>3. Real(s)[c] = Real(p)[c]
    <3>1. Real(s)[c] \in Names /\ Real(p)[c] \in Names
      <4>1. c \in 1..Len(Real(s)) /\ c \in 1..Len(Real(p))
        BY <1>1, <2>1, <2>2
      <4> QED BY <2>1, <2>2, <4>1, PathNames
    <3> QED BY <1>1, <1>2, <2>1, <2>2, <3>1, SameName
  <2>4. Len(Real(s)) <= Len(Real(p)) /\ \A j \in 1..Len(Real(s)) : Real(s)[j] = Real(p)[j]
    BY <1>1, <1>2, <2>1, <2>2, <2>3
  <2> QED BY <2>1, <2>2, <2>4, BelowNames
<1> QED BY <1>2, <1>3, <1>4, <1>5, <1>6 DEF s, c

(* A directory of the disk, under its own name or that of its clip, is one. *)
LEMMA AttrOfDir ==
  ASSUME NEW p, p # <<>>, ~IsVirtual(p), Real(p) \in DOMAIN disk,
         disk[Real(p)] = Dir \/ Last(Real(p)).ext = "MLV"
  PROVE  getattr(p) = "dir"
BY DEF getattr, IsDirOn, IsMlv

(* What is kept where the invariant says is found there, and listed. *)
LEMMA KeptFound ==
  ASSUME TypeOK, NEW content \in Notes \cup {Empty}, NEW p, StaysOn(disk, p, content)
  PROVE  /\ Lookup(p) = "file"
         /\ InClip(p) /\ Len(path_in_mlv(p)) = 1 => Last(p) \in readdir(Above(p))
<1> DEFINE n == Len(p)
           b == ClipAt(p)
           R == Real(p)
<1>1. /\ Kept(p) /\ R \in DOMAIN disk /\ disk[R] = content
      /\ InClip(p) => mlv_file(p) \in DOMAIN disk /\ p[b + 1].ext \notin {"dng", "wav"}
  BY DEF StaysOn
<1>2. /\ p \in Path /\ p # <<>> /\ n \in Nat /\ n > 0
      /\ \A k \in 1..n : IsClip(p[k]) <=> p[k].ext = "MLV"
      /\ p[n].ext \in {"other", "dng", "wav"}
      /\ InClip(p) => b \in 1..n /\ b < n /\ p[b].ext = "MLV"
  BY <1>1, KeptClip
<1>3. /\ R \in Path /\ Len(R) = n
      /\ ~InClip(p) => R = p
      /\ InClip(p) => /\ \A k \in 1..n : k # b => R[k] = p[k]
                      /\ R[b].stem = p[b].stem /\ R[b].ext = "MLD"
  BY <1>2, RealNames
<1>4. IsDisk(disk) /\ content # Dir /\ R # <<>>
  BY <1>1, ConstantsAssumption DEF TypeOK, Files, IsDisk
<1> HIDE DEF n, b, R
<1>5. R[n] = p[n]
  BY <1>2, <1>3
<1>6. ~IsVirtual(p)
  <2>1. ASSUME InClip(p), n = b + 1 PROVE p[n].ext \notin {"dng", "wav"}
    BY <1>1, <2>1
  <2> QED BY <1>2, <2>1, VirtualNames DEF n, b
<1>7. getattr(p) = "file"
  <2>1. Last(R).ext # "MLV"
    BY <1>2, <1>3, <1>5 DEF Last
  <2>2. R \in DOMAIN disk /\ ~IsDirOn(disk, R)
    BY <1>1, <1>4 DEF IsDirOn
  <2> QED BY <1>2, <1>6, <2>1, <2>2 DEF getattr, IsMlv, R
<1>8. ASSUME NEW k \in 0..n - 1 PROVE getattr(SubSeq(p, 1, k)) = "dir"
  <2> DEFINE s == SubSeq(p, 1, k)
  <2>1. s \in Path /\ Len(s) = k /\ \A j \in 1..k : s[j] = p[j]
    <3>1. k \in 0..n
      BY <1>2
    <3> QED BY <1>2, <3>1, FirstNames DEF n
  <2> HIDE DEF s
  <2>2. CASE k = 0
    <3>1. s = <<>>
      BY <2>1, <2>2, PathNames
    <3> QED BY <3>1 DEF getattr, s
  <2>3. CASE k > 0 /\ (InClip(p) => k < b)
    <3>1. s # <<>>
      BY <2>1, <2>3, PathNames
    <3>2. ~InClip(s)
      <4>1. \A j \in 1..k : ~IsClip(p[j])
        <5>1. CASE InClip(p)
          <6>1. \A j \in 1..b - 1 : ~IsClip(p[j])
            BY <1>2, <5>1, ClipPlace DEF b
          <6> QED BY <1>2, <2>3, <5>1, <6>1
        <5>2. CASE ~InClip(p)
          <6>1. \A j \in 1..n : ~IsClip(p[j])
            BY <1>2, <5>2, PathNames DEF InClip, n
          <6> QED BY <1>2, <6>1
        <5> QED BY <5>1, <5>2
      <4>2. DOMAIN s = 1..k
        BY <2>1, PathNames
      <4> QED BY <2>1, <4>1, <4>2 DEF InClip
    <3>3. Real(s) = s /\ ~IsVirtual(s)
      BY <2>1, <3>2, RealNames DEF IsVirtual
    <3>4. AtOrBelow(s, R) /\ s # R
      <4>1. Len(s) < Len(R) /\ Len(s) <= Len(R) /\ \A j \in 1..Len(s) : s[j] = R[j]
        BY <1>2, <1>3, <2>1, <2>3
      <4> QED BY <1>3, <2>1, <4>1, BelowNames
    <3>5. s \in DOMAIN disk /\ disk[s] = Dir
      BY <1>1, <1>4, <2>1, <3>1, <3>4, Ancestors
    <3> QED BY <3>1, <3>3, <3>5, AttrOfDir DEF s
  <2>4. CASE InClip(p) /\ k >= b
    <3>1. k \in ClipAt(p)..Len(p)
      BY <1>2, <2>4 DEF n, b
    <3>2. /\ s # <<>> /\ InClip(s) /\ ClipAt(s) = b /\ mlv_file(s) = mlv_file(p)
          /\ k = b => Real(s) = mlv_file(p)
          /\ k > b => AtOrBelow(Real(s), R)
      BY <1>2, <2>4, <3>1, IntoClip DEF s, b, R
    <3>3. ~IsVirtual(s)
      <4>1. IsVirtual(s) <=> Len(s) = b + 1 /\ s[Len(s)].ext \in {"dng", "wav"}
        BY <2>1, <3>2, VirtualNames
      <4>2. k = b + 1 => s[k] = p[b + 1]
        BY <1>2, <2>1, <2>4
      <4> QED BY <1>1, <2>1, <2>4, <4>1, <4>2
    <3>4. CASE k = b
      <4>1. Real(s) = mlv_file(p) /\ mlv_file(p) \in DOMAIN disk
        BY <1>1, <2>4, <3>2, <3>4
      <4>2. Last(mlv_file(p)).ext = "MLV"
        BY <1>2, <2>4, MlvNames DEF Last
      <4> QED BY <3>2, <3>3, <4>1, <4>2, AttrOfDir DEF s
    <3>5. CASE k > b
      <4>1. Real(s) \in Path /\ Len(Real(s)) = k
        BY <2>1, RealNames
      <4>2. Real(s) # <<>> /\ Real(s) # R
        <5>1. k > 0 /\ k # n
          BY <1>2, <2>4, <3>5
        <5> QED BY <1>3, <4>1, <5>1, PathNames
      <4>3. Real(s) \in DOMAIN disk /\ disk[Real(s)] = Dir
        BY <1>1, <1>4, <3>2, <3>5, <4>1, <4>2, Ancestors
      <4> QED BY <3>2, <3>3, <4>3, AttrOfDir DEF s
    <3> QED BY <1>2, <2>4, <3>4, <3>5
  <2> QED BY <1>2, <2>2, <2>3, <2>4
<1>9. Lookup(p) = "file"
  BY <1>7, <1>8 DEF Lookup, n
<1>10. ASSUME InClip(p), Len(path_in_mlv(p)) = 1
       PROVE  Last(p) \in readdir(Above(p))
  <2> DEFINE a == Above(p)
             m == Named(mlv_file(p), "MLD")
  <2>1. n = b + 1
    <3>1. Len(path_in_mlv(p)) = n - b
      BY <1>2, <1>10, BehindClip DEF n, b
    <3> QED BY <1>2, <1>10, <3>1
  <2>2. a = SubSeq(p, 1, b) /\ b \in ClipAt(p)..Len(p)
    <3>1. n - 1 = b
      BY <1>2, <1>10, <2>1
    <3> QED BY <1>2, <1>10, <3>1 DEF Above, n, b
  <2>3. /\ a \in Path /\ a # <<>> /\ Len(a) = b /\ \A j \in 1..b : a[j] = p[j]
        /\ InClip(a) /\ ClipAt(a) = b /\ mlv_file(a) = mlv_file(p)
    BY <1>2, <1>10, <2>2, IntoClip DEF b
  <2> HIDE DEF a, m
  <2>4. IsClipDir(a)
    BY <2>3, BehindClip DEF IsClipDir
  <2>5. ~IsMld(Last(a))
    <3>1. a[b] = p[b]
      BY <1>2, <1>10, <2>3
    <3> QED BY <1>2, <1>10, <2>3, <3>1 DEF IsMld, Last
  <2>6. ListedDir(a) = m
    BY <2>3, <2>4 DEF ListedDir, m
  <2>7. Above(R) = m
    <3>1. /\ mlv_file(p) \in Path \ {<<>>} /\ Len(mlv_file(p)) = b
          /\ \A k \in 1..b - 1 : mlv_file(p)[k] = p[k]
          /\ mlv_file(p)[b].stem = p[b].stem
      BY <1>2, <1>10, MlvNames DEF b
    <3>2. /\ m \in Path /\ Len(m) = b /\ \A k \in 1..b - 1 : m[k] = mlv_file(p)[k]
          /\ m[b].stem = mlv_file(p)[b].stem /\ m[b].ext = "MLD"
      BY <3>1, NamedNames DEF m, Exts
    <3>3. Above(R) \in Path /\ Len(Above(R)) = n - 1 /\ \A k \in 1..n - 1 : Above(R)[k] = R[k]
      BY <1>3, <1>4, AboveNames
    <3>4. n - 1 = b /\ b \in 1..n
      BY <1>2, <1>10, <2>1
    <3>5. m[b] = R[b]
      <4>1. m[b] \in Names /\ R[b] \in Names
        <5>1. b \in 1..Len(m) /\ b \in 1..Len(R)
          BY <1>2, <1>3, <3>2, <3>4
        <5> QED BY <1>3, <3>2, <5>1, PathNames
      <4> QED BY <1>3, <1>10, <3>1, <3>2, <4>1, SameName
    <3>6. \A k \in 1..b : Above(R)[k] = m[k]
      BY <1>2, <1>3, <1>10, <3>1, <3>2, <3>3, <3>4, <3>5
    <3> QED BY <3>2, <3>3, <3>4, <3>6, SamePath
  <2>8. Last(R) = p[n]
    BY <1>3, <1>5 DEF Last
  <2>9. ~IsMld(Last(R)) /\ ShownAs(m, Last(R)) = p[n]
    BY <1>2, <2>8 DEF IsMld, ShownAs, IsMlv
  <2>10. p[n] \in Entries(m, TRUE)
    <3>1. R \in {q \in DOMAIN disk :
                    /\ Above(q) = m
                    /\ ~IsMld(Last(q))
                    /\ TRUE \/ IsMlv(Last(q)) \/ IsDirOn(disk, q)}
      BY <1>1, <2>7, <2>9
    <3> QED BY <2>9, <3>1 DEF Entries
  <2> QED BY <2>3, <2>4, <2>5, <2>6, <2>10 DEF readdir, Last, a, n
<1> QED BY <1>9, <1>10

(* What the invariant says is what users find. *)
LEMMA SavedFound ==
  ASSUME TypeOK, SavedInv
  PROVE  SavedStays
<1>1. ASSUME NEW p \in DOMAIN saved
      PROVE  /\ Lookup(p) = "file" /\ disk[Real(p)] = saved[p]
             /\ InClip(p) /\ Len(path_in_mlv(p)) = 1 => Last(p) \in readdir(Above(p))
  <2>1. StaysOn(disk, p, saved[p]) /\ saved[p] \in Notes \cup {Empty}
    BY DEF SavedInv, TypeOK
  <2>2. disk[Real(p)] = saved[p]
    BY <2>1 DEF StaysOn
  <2> QED BY <2>1, <2>2, KeptFound
<1> QED BY <1>1 DEF SavedStays
-----------------------------------------------------------------------------
(* What is kept stays.                                                     *)

(* What users have saved by then. *)
LEMMA SavedInit ==
  ASSUME Init
  PROVE  SavedInv
<1>1. saved = FirstSaved
  BY DEF Init
<1>2. ASSUME NEW p \in DOMAIN saved PROVE StaysOn(disk, p, saved[p])
  <2>1. /\ p \in UserPaths /\ IsKept(p) /\ Plain(p) = p /\ Lookup(p) = "file"
        /\ saved[p] = disk[Real(p)]
    BY <1>1, <1>2 DEF FirstSaved
  <2>2. p \in Path /\ p # <<>> /\ ~IsVirtual(p)
    BY <2>1, UserPath DEF IsKept
  <2>3. OnWay(p) /\ getattr(p) = "file"
    BY <2>1, FoundOnWay
  <2>4. Real(p) \in DOMAIN disk
    BY <2>2, <2>3, AttrFile
  <2>5. StaysOn(disk, Plain(p), saved[p])
    BY <2>1, <2>2, <2>3, <2>4, PlainStays
  <2> QED BY <2>1, <2>5
<1> QED BY <1>2 DEF SavedInv

(* A path that is followed is the same for every naming scheme. *)
LEMMA KeptNext ==
  ASSUME NEW p, Kept(p)
  PROVE  /\ InClip(p)' <=> InClip(p)
         /\ InClip(p) => ClipAt(p)' = ClipAt(p) /\ mlv_file(p)' = mlv_file(p)
         /\ Real(p)' = Real(p)
<1>1. p \in Path /\ p # <<>> /\ DOMAIN p = 1..Len(p) /\ Len(p) \in Nat
  BY KeptClip, PathNames
<1>2. \A k \in DOMAIN p : p[k].ext # "clip"
  BY <1>1 DEF Kept
<1>3. InClip(p)' <=> InClip(p)
  BY <1>2 DEF InClip, IsClip, IsMlv
<1>4. ASSUME InClip(p)
      PROVE  ClipAt(p)' = ClipAt(p)
  <2>1. PICK c \in 1..Len(p) : ClipAt(p) = c /\ p[c].ext = "MLV" /\ \A k \in 1..c - 1 : p[k].ext # "MLV"
    BY <1>4, KeptClip
  <2>2. \A k \in DOMAIN p : p[k].ext = "MLV" /\ (\A j \in 1..k - 1 : p[j].ext # "MLV") => k = c
    <3>1. TAKE k \in DOMAIN p
    <3>2. HAVE p[k].ext = "MLV" /\ (\A j \in 1..k - 1 : p[j].ext # "MLV")
    <3>3. ~(k < c) /\ ~(c < k)
      BY <1>1, <2>1, <3>2
    <3> QED BY <1>1, <2>1, <3>3
  <2>3. \A k \in DOMAIN p : \A j \in 1..k - 1 : j \in DOMAIN p
    BY <1>1
  <2>4. ClipAt(p)' = CHOOSE k \in DOMAIN p : IsClip(p[k])' /\ \A j \in 1..k - 1 : ~IsClip(p[j])'
    BY DEF ClipAt
  <2>5. \A k \in DOMAIN p : IsClip(p[k])' <=> p[k].ext = "MLV"
    BY <1>2 DEF IsClip, IsMlv
  <2>6. c \in DOMAIN p /\ IsClip(p[c])' /\ \A j \in 1..c - 1 : ~IsClip(p[j])'
    <3>1. c \in DOMAIN p /\ \A j \in 1..c - 1 : j \in DOMAIN p /\ p[j].ext # "MLV"
      BY <1>1, <2>1
    <3> QED BY <2>1, <2>5, <3>1
  <2>7. \A k \in DOMAIN p : IsClip(p[k])' /\ (\A j \in 1..k - 1 : ~IsClip(p[j])') => k = c
    BY <2>2, <2>3, <2>5
  <2>8. ClipAt(p)' = c
    BY <2>4, <2>6, <2>7
  <2> QED BY <2>1, <2>8
<1>5. InClip(p) => mlv_file(p)' = mlv_file(p)
  BY <1>4 DEF mlv_file
<1>6. Real(p)' = Real(p)
  <2>1. CASE InClip(p)
    <3>1. path_in_mlv(p)' = path_in_mlv(p)
      BY <1>4, <2>1 DEF path_in_mlv
    <3> QED BY <1>3, <1>5, <2>1, <3>1 DEF Real
  <2>2. CASE ~InClip(p)
    BY <1>3, <2>2 DEF Real
  <2> QED BY <2>1, <2>2
<1> QED BY <1>3, <1>4, <1>5, <1>6

(* So it is enough that it stays for the scheme that is in force. *)
LEMMA StaysNext ==
  ASSUME \A p \in DOMAIN saved' : StaysOn(disk', p, saved'[p])
  PROVE  SavedInv'
<1>1. ASSUME NEW p \in DOMAIN saved'
      PROVE  /\ Kept(p)
             /\ Real(p)' \in DOMAIN disk' /\ disk'[Real(p)'] = saved'[p]
             /\ InClip(p)' => mlv_file(p)' \in DOMAIN disk' /\ p[ClipAt(p)' + 1].ext \notin {"dng", "wav"}
  <2>1. StaysOn(disk', p, saved'[p])
    OBVIOUS
  <2>2. Kept(p)
    BY <2>1 DEF StaysOn
  <2> QED BY <2>1, <2>2, KeptNext DEF StaysOn
<1> QED BY <1>1 DEF SavedInv, StaysOn, Kept

(* What stays where it is on the disk, with its clip, stays. *)
LEMMA StillStays ==
  ASSUME NEW p, NEW content, NEW D, StaysOn(disk, p, content),
         Real(p) \in DOMAIN D, D[Real(p)] = content,
         InClip(p) => mlv_file(p) \in DOMAIN D
  PROVE  StaysOn(D, p, content)
BY DEF StaysOn

(* A file that has been created is empty. *)
LEMMA Created ==
  ASSUME NEW D, IsDisk(D), NEW p \in Path, p # <<>>, IsFileOn(creat(D, p), p)
  PROVE  creat(D, p)[p] = Empty
<1>1. CASE IsDirOn(D, Above(p)) /\ ~IsDirOn(D, p)
  BY <1>1 DEF creat, With
<1>2. CASE ~(IsDirOn(D, Above(p)) /\ ~IsDirOn(D, p))
  <2>1. p \in DOMAIN D /\ D[p] # Dir
    BY <1>2 DEF creat, IsFileOn
  <2>2. ~IsDirOn(D, Above(p))
    BY <1>2, <2>1 DEF IsDirOn
  <2>3. ~(Len(p) > 1) /\ Above(p) # <<>>
    BY <2>1, <2>2 DEF IsDisk, IsDirOn
  <2>4. Len(p) # 1
    BY <2>3, BelowAbove
  <2>5. Len(p) \in Nat /\ Len(p) > 0
    BY PathNames
  <2>6. \A n \in Nat : ~(n > 0 /\ n # 1 /\ ~(n > 1))
    OBVIOUS
  <2> QED BY <2>3, <2>4, <2>5, <2>6
<1> QED BY <1>1, <1>2

(* Whoever is given up is at or below the path, by name or on the disk. *)
LEMMA IsGivenUp ==
  ASSUME SavedInv, NEW path \in UserPaths, NEW p \in DOMAIN saved,
         \/ AtOrBelow(Real(path), Real(p))
         \/ InClip(p) /\ AtOrBelow(Real(path), mlv_file(p))
  PROVE  p \in GivenUp(path)
<1>1. Kept(p)
  BY DEF SavedInv, StaysOn
<1> QED BY <1>1, UserPath, Alias DEF GivenUp

(* A path is at or below itself. *)
LEMMA AtSelf ==
  ASSUME NEW p \in Path
  PROVE  AtOrBelow(p, p)
<1>1. Len(p) \in Nat
  BY PathNames
<1> QED BY <1>1, BelowNames

(* What is written to a file is saved, and nothing else is touched. *)
LEMMA WriteStays ==
  ASSUME TypeOK, SavedInv, NEW path \in UserPaths, OnWay(path), NEW content,
         NEW D, DOMAIN disk \cup {Real(path)} \subseteq DOMAIN D,
         D[Real(path)] = content,
         \A q \in DOMAIN disk : q # Real(path) => D[q] = disk[q],
         NEW p \in DOMAIN Save(path, content)
  PROVE  StaysOn(D, p, Save(path, content)[p])
<1> DEFINE S == Save(path, content)
           R == Real(path)
<1>1. path \in Path /\ path # <<>> /\ R \in Path /\ Plain(path) \in Path
  BY UserPath
<1>2. p \in DOMAIN saved \/ (IsKept(path) /\ p = Plain(path))
  <2>1. DOMAIN S = DOMAIN saved \cup (IF IsKept(path) THEN {Plain(path)} ELSE {}) /\ p \in DOMAIN S
    BY SavedNow
  <2> HIDE DEF S
  <2> QED BY <2>1
<1>3. /\ p = Plain(path) \/ (IsHidden(path) /\ Real(p) = R) => S[p] = content
      /\ ~(p = Plain(path) \/ (IsHidden(path) /\ Real(p) = R)) => S[p] = saved[p]
  BY DEF Save
<1>4. p \in DOMAIN saved => StaysOn(disk, p, saved[p]) /\ Kept(p)
  BY DEF SavedInv, StaysOn
<1> HIDE DEF S, R
<1>5. R \in DOMAIN D /\ D[R] = content /\ \A q \in DOMAIN disk : q \in DOMAIN D /\ (q # R => D[q] = disk[q])
  BY DEF R
<1>6. CASE IsKept(path) /\ p = Plain(path)
  <2>1. \A q \in DOMAIN disk : q \in DOMAIN D
    BY <1>5
  <2>2. StaysOn(D, Plain(path), content)
    BY <1>1, <1>5, <1>6, <2>1, PlainStays DEF R
  <2> QED BY <1>3, <1>6, <2>2 DEF S
<1>7. ASSUME p \in DOMAIN saved PROVE StaysOn(D, p, S[p])
  <2>1. /\ StaysOn(disk, p, saved[p]) /\ Kept(p) /\ Real(p) \in DOMAIN disk
        /\ disk[Real(p)] = saved[p] /\ (InClip(p) => mlv_file(p) \in DOMAIN disk)
    BY <1>4, <1>7 DEF StaysOn
  <2>2. CASE p = Plain(path) \/ (IsHidden(path) /\ Real(p) = R)
    <3>1. Real(p) = R /\ S[p] = content
      BY <1>1, <1>3, <2>2, PlainSame DEF R
    <3> QED BY <1>5, <2>1, <3>1 DEF StaysOn
  <2>3. CASE ~(p = Plain(path) \/ (IsHidden(path) /\ Real(p) = R))
    <3>1. Real(p) # R
      <4>1. ASSUME Real(p) = R PROVE FALSE
        <5>1. AtOrBelow(R, Real(p))
          BY <1>1, <4>1, AtSelf
        <5>2. AtOrBelow(Plain(path), p)
          BY <1>1, <2>1, <2>3, <4>1, <5>1, Alias DEF R
        <5>3. p \in Path /\ Len(p) = Len(R) /\ Len(Plain(path)) = Len(R)
          BY <1>1, <2>1, <4>1, KeptClip, RealNames, PlainNames DEF R
        <5> QED BY <1>1, <2>3, <5>2, <5>3, BelowOrSame
      <4> QED BY <4>1
    <3>2. S[p] = saved[p] /\ Real(p) \in DOMAIN D /\ D[Real(p)] = saved[p]
      BY <1>3, <1>5, <2>1, <2>3, <3>1
    <3> QED BY <1>5, <2>1, <3>2, StillStays
  <2> QED BY <2>2, <2>3
<1> QED BY <1>2, <1>6, <1>7 DEF S
-----------------------------------------------------------------------------
(* What goes along with a directory that is renamed.                       *)

(* What is below a directory, with no clip in between, is below it on the  *)
(* disk, in the same clip if that is in one.                               *)
LEMMA RealBelow ==
  ASSUME NEW x \in Path, x # <<>>, ~IsClip(Last(x)), NEW p \in Path, AtOrBelow(Plain(x), p),
         \A k \in Len(x) + 1..Len(p) : ~IsClip(p[k])
  PROVE  /\ AtOrBelow(Real(x), Real(p)) /\ Len(x) <= Len(p)
         /\ InClip(p) <=> InClip(x)
         /\ InClip(p) => /\ ClipAt(p) = ClipAt(x) /\ ClipAt(x) < Len(x) /\ mlv_file(p) = mlv_file(x)
                         /\ p[ClipAt(p)].ext = "MLV"
         /\ \A k \in Len(x) + 1..Len(p) : Real(p)[k] = p[k]
<1> DEFINE P == Plain(x)
           n == Len(x)
           c == ClipAt(x)
<1>1. /\ P \in Path /\ Len(P) = n /\ (~InClip(x) => P = x)
      /\ InClip(x) => /\ \A k \in 1..n : k # c => P[k] = x[k]
                      /\ P[c].stem = x[c].stem /\ P[c].ext = "MLV"
  BY PlainNames
<1>2. /\ Real(P) = Real(x) /\ (InClip(P) <=> InClip(x))
      /\ InClip(x) => ClipAt(P) = c /\ mlv_file(P) = mlv_file(x)
  BY PlainSame
<1>3. n \in Nat /\ n > 0 /\ Len(p) \in Nat /\ DOMAIN p = 1..Len(p)
  BY PathNames
<1>4. InClip(x) => c \in 1..n /\ c < n
  <2>1. InClip(x) => c \in 1..n /\ IsClip(x[c])
    BY ClipPlace
  <2>2. ~IsClip(x[n])
    BY DEF Last
  <2> HIDE DEF n, c
  <2>3. InClip(x) => c # n
    BY <2>1, <2>2
  <2> QED BY <1>3, <2>1, <2>3
<1>5. n <= Len(p) /\ \A k \in 1..n : P[k] = p[k]
  BY <1>1, BelowNames
<1>6. /\ Real(x) \in Path /\ Len(Real(x)) = n /\ (~InClip(x) => Real(x) = x)
      /\ InClip(x) => /\ \A k \in 1..n : k # c => Real(x)[k] = x[k]
                      /\ Real(x)[c].stem = x[c].stem /\ Real(x)[c].ext = "MLD"
  BY <1>4, RealNames
<1>7. Real(p) \in Path /\ Len(Real(p)) = Len(p)
  BY RealNames
<1>8. \A k \in n + 1..Len(p) : ~IsClip(p[k])
  OBVIOUS
<1> HIDE DEF P, n
<1>9. CASE InClip(x)
  <2>1. InClip(p) /\ ClipAt(p) = c /\ mlv_file(p) = mlv_file(x)
    <3>1. ClipAt(P) <= Len(p) /\ \A k \in 1..ClipAt(P) : p[k] = P[k]
      BY <1>2, <1>3, <1>4, <1>5, <1>9
    <3> QED BY <1>1, <1>2, <1>9, <3>1, SameClip
  <2> HIDE DEF c
  <2>2. /\ \A k \in 1..Len(p) : k # c => Real(p)[k] = p[k]
        /\ Real(p)[c].stem = p[c].stem /\ Real(p)[c].ext = "MLD"
    <3>1. ClipAt(p) < Len(p)
      BY <1>3, <1>4, <1>5, <1>9, <2>1
    <3> QED BY <2>1, <3>1, RealNames
  <2>3. p[c] = P[c]
    BY <1>4, <1>5, <1>9
  <2>4. Real(x)[c] = Real(p)[c]
    <3>1. Real(x)[c] \in Names /\ Real(p)[c] \in Names
      <4>1. c \in 1..Len(Real(x)) /\ c \in 1..Len(Real(p))
        BY <1>3, <1>4, <1>5, <1>6, <1>7, <1>9
      <4> QED BY <1>6, <1>7, <4>1, PathNames
    <3> QED BY <1>1, <1>6, <1>9, <2>2, <2>3, <3>1, SameName
  <2>5. Len(Real(x)) <= Len(Real(p)) /\ \A k \in 1..Len(Real(x)) : Real(x)[k] = Real(p)[k]
    BY <1>1, <1>3, <1>5, <1>6, <1>7, <1>9, <2>2, <2>4
  <2>6. AtOrBelow(Real(x), Real(p))
    BY <1>6, <1>7, <2>5, BelowNames
  <2>7. \A k \in n + 1..Len(p) : Real(p)[k] = p[k]
    BY <1>3, <1>4, <1>9, <2>2
  <2> QED BY <1>1, <1>4, <1>5, <1>9, <2>1, <2>3, <2>6, <2>7 DEF n, c
<1>10. CASE ~InClip(x)
  <2>1. \A k \in 1..n : ~IsClip(p[k])
    <3>1. \A k \in 1..n : ~IsClip(x[k])
      BY <1>10, PathNames DEF InClip, n
    <3> QED BY <1>1, <1>5, <1>10, <3>1
  <2>2. ~InClip(p)
    <3>1. \A k \in 1..Len(p) : k \in 1..n \/ k \in n + 1..Len(p)
      BY <1>3
    <3> QED BY <1>3, <1>8, <2>1, <3>1 DEF InClip
  <2>3. Real(p) = p /\ Real(x) = P
    BY <1>1, <1>6, <1>10, <2>2, RealNames
  <2> QED BY <1>5, <1>10, <2>2, <2>3 DEF P, n
<1> QED BY <1>9, <1>10

(* Where it has gone, by name and on the disk, and that it can be followed *)
(* there.                                                                  *)
LEMMA MovedReal ==
  ASSUME NEW from \in UserPaths, NEW to \in UserPaths, NEW p, Kept(p), MovesAlong(p, from, to)
  PROVE  LET q == MovedPath(p, Plain(from), Plain(to))
         IN  /\ Kept(q)
             /\ AtOrBelow(Real(from), Real(p))
             /\ Real(q) = MovedPath(Real(p), Real(from), Real(to))
             /\ InClip(q) <=> InClip(to)
             /\ InClip(q) => /\ ClipAt(q) = ClipAt(to) /\ ClipAt(to) < Len(to)
                             /\ mlv_file(q) = mlv_file(to)
             /\ AtOrBelow(Plain(to), q)
<1> DEFINE F == Real(from)
           T == Real(to)
           P == Plain(from)
           Q == Plain(to)
           n == Len(from)
           m == Len(to)
           q == MovedPath(p, P, Q)
<1>1. /\ from \in Path /\ from # <<>> /\ to \in Path /\ to # <<>>
      /\ F \in Path /\ T \in Path /\ P \in Path /\ Q \in Path
      /\ Len(F) = n /\ Len(T) = m /\ Len(P) = n /\ Len(Q) = m
      /\ p \in Path /\ Len(p) \in Nat /\ n \in Nat /\ m \in Nat /\ n > 0 /\ m > 0
  BY UserPath, RealNames, PlainNames, PathNames DEF Kept
<1>2. /\ AtOrBelow(P, p) /\ ~IsClip(Last(from)) /\ ~IsClip(Last(to)) /\ IsKept(q)
      /\ \A k \in n + 1..Len(p) : ~IsClip(p[k])
  BY <1>1 DEF MovesAlong
<1>3. /\ q \in Path /\ Len(q) = m + (Len(p) - n)
      /\ \A k \in 1..m : q[k] = Q[k]
      /\ \A k \in m + 1..m + (Len(p) - n) : q[k] = p[k - m + n]
      /\ AtOrBelow(Q, q)
  <2> HIDE DEF P, Q, n, m
  <2>1. /\ q \in Path /\ Len(q) = Len(Q) + (Len(p) - Len(P))
        /\ \A k \in 1..Len(Q) : q[k] = Q[k]
        /\ \A k \in Len(Q) + 1..Len(Q) + (Len(p) - Len(P)) : q[k] = p[k - Len(Q) + Len(P)]
        /\ AtOrBelow(Q, q)
    <3>1. p \in Path /\ P \in Path /\ Q \in Path /\ AtOrBelow(P, p)
      BY <1>1, <1>2
    <3> QED BY <3>1, MovedNames
  <2> HIDE DEF q
  <2> QED BY <1>1, <2>1
<1>4. /\ AtOrBelow(F, Real(p)) /\ n <= Len(p)
      /\ \A k \in n + 1..Len(p) : Real(p)[k] = p[k]
  BY <1>1, <1>2, RealBelow
<1> HIDE DEF q
<1>5. \A k \in m + 1..Len(q) : k - m + n \in n + 1..Len(p) /\ q[k] = p[k - m + n]
  BY <1>1, <1>3, <1>4
<1>6. /\ AtOrBelow(T, Real(q)) /\ m <= Len(q) /\ (InClip(q) <=> InClip(to))
      /\ InClip(q) => /\ ClipAt(q) = ClipAt(to) /\ ClipAt(to) < m /\ mlv_file(q) = mlv_file(to)
                      /\ q[ClipAt(q)].ext = "MLV"
      /\ \A k \in m + 1..Len(q) : Real(q)[k] = q[k]
  <2>1. \A k \in m + 1..Len(q) : ~IsClip(q[k])
    BY <1>2, <1>5
  <2> QED BY <1>1, <1>2, <1>3, <2>1, RealBelow
<1>7. Real(p) \in Path /\ Len(Real(p)) = Len(p) /\ Real(q) \in Path /\ Len(Real(q)) = Len(q)
  BY <1>1, <1>3, RealNames
<1>8. Real(q) = MovedPath(Real(p), F, T)
  <2> DEFINE r == MovedPath(Real(p), F, T)
  <2>1. /\ r \in Path /\ Len(r) = m + (Len(p) - n)
        /\ \A k \in 1..m : r[k] = T[k]
        /\ \A k \in m + 1..m + (Len(p) - n) : r[k] = Real(p)[k - m + n]
    <3> HIDE DEF F, T, n, m
    <3>1. /\ r \in Path /\ Len(r) = Len(T) + (Len(Real(p)) - Len(F))
          /\ \A k \in 1..Len(T) : r[k] = T[k]
          /\ \A k \in Len(T) + 1..Len(T) + (Len(Real(p)) - Len(F)) : r[k] = Real(p)[k - Len(T) + Len(F)]
      <4>1. Real(p) \in Path /\ F \in Path /\ T \in Path /\ AtOrBelow(F, Real(p))
        BY <1>1, <1>4, <1>7
      <4> QED BY <4>1, MovedNames
    <3> HIDE DEF r
    <3> QED BY <1>1, <1>7, <3>1
  <2>2. \A k \in 1..m : Real(q)[k] = T[k]
    BY <1>1, <1>6, <1>7, BelowNames
  <2> HIDE DEF r, F, T, P, Q, n, m
  <2>3. \A k \in m + 1..Len(q) : Real(q)[k] = r[k]
    <3>1. TAKE k \in m + 1..Len(q)
    <3>2. k \in m + 1..m + (Len(p) - n) /\ k - m + n \in n + 1..Len(p)
      BY <1>3, <1>5
    <3> QED BY <1>4, <1>5, <1>6, <2>1, <3>2
  <2>4. \A k \in 1..Len(q) : k \in 1..m \/ k \in m + 1..Len(q)
    BY <1>1
  <2>5. Len(r) = Len(Real(q)) /\ \A k \in 1..Len(Real(q)) : Real(q)[k] = r[k]
    BY <1>3, <1>7, <2>1, <2>2, <2>3, <2>4
  <2> QED BY <1>7, <2>1, <2>5, SamePath DEF r
<1>9. Kept(q)
  <2>1. /\ q # <<>> /\ Last(q).ext \in {"other", "dng", "wav"} /\ DOMAIN q = 1..Len(q)
        /\ \A k \in 1..Len(q) : q[k].ext # "MLD" /\ Plain(q)[k].ext # "clip"
    <3>1. Len(q) > 0
      BY <1>1, <1>3, <1>4
    <3> QED BY <1>2, <1>3, <3>1, PathNames DEF IsKept, IsHidden
  <2>2. /\ ~InClip(q) => Plain(q) = q
        /\ InClip(q) => \A k \in 1..Len(q) : k # ClipAt(q) => Plain(q)[k] = q[k]
    BY <1>3, PlainNames
  <2>3. ASSUME NEW k \in 1..Len(q) PROVE q[k].ext # "clip"
    <3>1. CASE InClip(q) /\ k = ClipAt(q)
      BY <1>6, <3>1
    <3>2. CASE ~(InClip(q) /\ k = ClipAt(q))
      BY <2>1, <2>2, <3>2
    <3> QED BY <3>1, <3>2
  <2> QED BY <1>3, <2>1, <2>3 DEF Kept
<1> QED BY <1>3, <1>4, <1>6, <1>8, <1>9 DEF q

(* The clip that something goes into does not go along: a directory that   *)
(* is renamed into itself is refused, and what is hidden is not followed.  *)
LEMMA ClipStays ==
  ASSUME NEW from \in UserPaths, NEW to \in UserPaths, ~IsClip(Last(from)), ~AtOrBelow(from, to),
         InClip(to), ClipAt(to) < Len(to), NEW q, Kept(q), AtOrBelow(Plain(to), q)
  PROVE  ~AtOrBelow(Real(from), mlv_file(to))
<1> DEFINE F == Real(from)
           M == mlv_file(to)
           n == Len(from)
           c == ClipAt(to)
           f == ClipAt(from)
<1>1. from \in Path /\ from # <<>> /\ to \in Path /\ to # <<>> /\ n \in Nat /\ n > 0 /\ Len(to) \in Nat
  BY UserPath, PathNames
<1>2. c \in 1..Len(to) /\ c < Len(to)
  BY <1>1, ClipPlace
<1>3. M \in Path /\ Len(M) = c /\ (\A k \in 1..c - 1 : M[k] = to[k]) /\ M[c].ext = "MLV"
  BY <1>1, MlvNames
<1>4. InClip(from) => f \in 1..n /\ f < n
  <2>1. InClip(from) => f \in 1..n /\ IsClip(from[f])
    BY <1>1, ClipPlace
  <2>2. ~IsClip(from[n])
    BY DEF Last
  <2> HIDE DEF n, f
  <2>3. InClip(from) => f # n
    BY <2>1, <2>2
  <2> QED BY <1>1, <2>1, <2>3
<1>5. /\ F \in Path /\ Len(F) = n /\ (~InClip(from) => F = from)
      /\ InClip(from) => (\A k \in 1..n : k # f => F[k] = from[k]) /\ F[f].ext = "MLD"
  BY <1>1, <1>4, RealNames
<1>6. from[n].ext # "MLV"
  BY DEF IsClip, IsMlv, Last
<1>7. \A k \in 1..Len(to) : k # c => q[k] = to[k]
  <2>1. q \in Path /\ Plain(to) \in Path /\ Len(Plain(to)) = Len(to)
        /\ \A k \in 1..Len(to) : k # c => Plain(to)[k] = to[k]
    BY <1>1, PlainNames DEF Kept
  <2>2. \A k \in 1..Len(to) : Plain(to)[k] = q[k]
    BY <2>1, BelowNames
  <2> QED BY <2>1, <2>2
<1>8. \A k \in 1..Len(to) : q[k].ext # "MLD" \/ k > Len(q)
  <2>1. q \in Path /\ Len(q) \in Nat /\ \A k \in 1..Len(q) : q[k].ext # "MLD"
    BY PathNames DEF Kept
  <2> QED BY <1>1, <2>1
<1>9. Len(to) <= Len(q) /\ Len(q) \in Nat
  <2>1. q \in Path /\ Plain(to) \in Path /\ Len(Plain(to)) = Len(to)
    BY <1>1, PlainNames DEF Kept
  <2> QED BY <2>1, BelowNames, PathNames
<1> HIDE DEF F, M, n, c, f
<1>10. ASSUME AtOrBelow(F, M) PROVE FALSE
  <2>1. n <= c /\ \A k \in 1..n : F[k] = M[k]
    BY <1>3, <1>5, <1>10, BelowNames
  <2>2. F[n] = from[n]
    BY <1>1, <1>4, <1>5
  <2>3. n < c
    <3>1. n # c
      BY <1>1, <1>3, <1>6, <2>1, <2>2
    <3> QED BY <1>1, <1>2, <2>1, <3>1
  <2>4. \A k \in 1..n : F[k] = to[k]
    BY <1>1, <1>2, <1>3, <2>1, <2>3
  <2>5. CASE InClip(from)
    <3>1. f \in 1..n /\ f # c /\ f \in 1..Len(to)
      BY <1>1, <1>2, <1>4, <2>3, <2>5
    <3>2. q[f].ext = "MLD" /\ ~(f > Len(q))
      BY <1>1, <1>5, <1>7, <1>9, <2>4, <2>5, <3>1
    <3> QED BY <1>8, <3>1, <3>2
  <2>6. CASE ~InClip(from)
    <3>1. F = from /\ Len(from) <= Len(to) /\ \A k \in 1..Len(from) : from[k] = to[k]
      BY <1>1, <1>2, <1>5, <2>3, <2>4, <2>6 DEF n
    <3> QED BY <1>1, <3>1, BelowNames
  <2> QED BY <2>5, <2>6
<1> QED BY <1>10 DEF F, M
-----------------------------------------------------------------------------
(* Requests and what is kept.                                              *)

(* A rename takes along what is followed, and leaves the rest. *)
LEMMA RenameStays ==
  ASSUME TypeOK, SavedInv, NEW from \in UserPaths, NEW to \in UserPaths, Rename(from, to),
         NEW q \in DOMAIN saved'
  PROVE  StaysOn(disk', q, saved'[q])
<1> DEFINE F == Real(from)
           T == Real(to)
           P == Plain(from)
           Q == Plain(to)
<1>1. /\ IsDisk(disk) /\ F \in Path /\ F # <<>> /\ T \in Path /\ T # <<>> /\ P \in Path /\ Q \in Path
      /\ to \in Path /\ to # <<>>
  BY UserPath DEF TypeOK
<1>2. /\ disk' = rename(disk, F, T)
      /\ saved' = IF Renames(disk, F, T) THEN TakeAlong(from, to) ELSE saved
      /\ ~AtOrBelow(from, to) /\ ~IsVirtual(to) /\ Lookup(Above(to)) = "dir"
  BY DEF Rename
<1>3. \A p \in DOMAIN saved :
        /\ StaysOn(disk, p, saved[p]) /\ Kept(p) /\ Real(p) \in DOMAIN disk /\ disk[Real(p)] = saved[p]
        /\ InClip(p) => mlv_file(p) \in DOMAIN disk
  BY DEF SavedInv, StaysOn
<1>4. CASE ~Renames(disk, F, T)
  <2>1. disk' = disk /\ saved' = saved
    BY <1>2, <1>4 DEF rename
  <2> QED BY <1>3, <2>1
<1>5. CASE Renames(disk, F, T)
  <2>1. saved' = TakeAlong(from, to) /\ AreSaved(saved)
    BY <1>2, <1>5 DEF TypeOK, AreSaved
  <2>2. /\ \A p \in DOMAIN disk : AtOrBelow(F, p) =>
             MovedPath(p, F, T) \in DOMAIN disk' /\ disk'[MovedPath(p, F, T)] = disk[p]
        /\ \A p \in DOMAIN disk : ~AtOrBelow(F, p) =>
             p \in DOMAIN disk' /\ (~AtOrBelow(T, p) => disk'[p] = disk[p])
    <3> HIDE DEF F, T
    <3>1. IsDisk(disk) /\ F \in Path /\ F # <<>> /\ T \in Path /\ T # <<>> /\ Renames(disk, F, T)
      BY <1>1, <1>5
    <3> DEFINE E == rename(disk, F, T)
    <3>2. /\ \A p \in DOMAIN disk : AtOrBelow(F, p) =>
               MovedPath(p, F, T) \in DOMAIN E /\ E[MovedPath(p, F, T)] = disk[p]
          /\ \A p \in DOMAIN disk : ~AtOrBelow(F, p) =>
               p \in DOMAIN E /\ (~AtOrBelow(T, p) => E[p] = disk[p])
      BY <3>1, RenameMoves
    <3>3. disk' = E
      BY <1>2
    <3> HIDE DEF E
    <3> QED BY <3>2, <3>3
  <2>3. CASE q \in DOMAIN saved /\ q \notin GivenUp(from) /\ q \notin GivenUp(to) /\ saved'[q] = saved[q]
    <3>1. ~AtOrBelow(F, Real(q)) /\ ~AtOrBelow(T, Real(q)) /\ ~(InClip(q) /\ AtOrBelow(F, mlv_file(q)))
      BY <2>3, IsGivenUp
    <3> HIDE DEF F, T
    <3>2. /\ Real(q) \in DOMAIN disk' /\ disk'[Real(q)] = saved[q]
          /\ InClip(q) => mlv_file(q) \in DOMAIN disk'
      BY <1>3, <2>2, <2>3, <3>1
    <3> QED BY <1>3, <2>3, <3>2, StillStays
  <2>4. CASE \E p \in DOMAIN saved : /\ MovesAlong(p, from, to)
                                     /\ q = MovedPath(p, P, Q)
                                     /\ saved'[q] = saved[p]
    <3>1. PICK p \in DOMAIN saved : /\ MovesAlong(p, from, to)
                                    /\ q = MovedPath(p, P, Q)
                                    /\ saved'[q] = saved[p]
      BY <2>4
    <3>2. Kept(p) /\ Real(p) \in DOMAIN disk /\ disk[Real(p)] = saved[p]
      BY <1>3
    <3>3. /\ Kept(q) /\ AtOrBelow(F, Real(p)) /\ Real(q) = MovedPath(Real(p), F, T)
          /\ InClip(q) <=> InClip(to)
          /\ InClip(q) => /\ ClipAt(q) = ClipAt(to) /\ ClipAt(to) < Len(to)
                          /\ mlv_file(q) = mlv_file(to)
          /\ AtOrBelow(Q, q)
      BY <3>1, <3>2, MovedReal
    <3>4. Real(q) \in DOMAIN disk' /\ disk'[Real(q)] = saved[p]
      <4> HIDE DEF F, T, P, Q
      <4> QED BY <2>2, <3>2, <3>3
    <3>5. ASSUME InClip(q)
          PROVE  mlv_file(q) \in DOMAIN disk' /\ q[ClipAt(q) + 1].ext \notin {"dng", "wav"}
      <4>1. /\ InClip(to) /\ ClipAt(q) = ClipAt(to) /\ ClipAt(to) < Len(to) /\ mlv_file(q) = mlv_file(to)
            /\ ClipAt(to) \in 1..Len(to) /\ Len(to) \in Nat
        BY <1>1, <3>3, <3>5, ClipPlace, PathNames
      <4>2. OnWay(to)
        BY <1>1, <1>2, DirOnWay
      <4>3. mlv_file(to) \in DOMAIN disk /\ to[ClipAt(to) + 1].ext \notin {"dng", "wav"}
        BY <1>1, <1>2, <4>1, <4>2, ClipOnWay
      <4>4. ~IsClip(Last(from))
        BY <3>1 DEF MovesAlong
      <4>5. ~AtOrBelow(F, mlv_file(to))
        BY <1>2, <3>3, <4>1, <4>4, ClipStays
      <4>6. mlv_file(q) \in DOMAIN disk'
        BY <2>2, <4>1, <4>3, <4>5
      <4>7. q[ClipAt(to) + 1] = to[ClipAt(to) + 1]
        <5>1. ClipAt(to) + 1 \in 1..Len(to) /\ ClipAt(to) + 1 # ClipAt(to)
          BY <4>1
        <5>2. Len(Q) = Len(to) /\ \A k \in 1..Len(to) : k # ClipAt(to) => Q[k] = to[k]
          BY <1>1, <4>1, PlainNames
        <5>3. \A k \in 1..Len(Q) : Q[k] = q[k]
          BY <1>1, <3>3, BelowNames DEF Kept
        <5> HIDE DEF Q
        <5> QED BY <5>1, <5>2, <5>3
      <4> QED BY <4>1, <4>3, <4>6, <4>7
    <3> QED BY <3>1, <3>3, <3>4, <3>5 DEF StaysOn
  <2> QED BY <2>1, <2>3, <2>4, TakenAlong
<1> QED BY <1>4, <1>5

(* A directory that is removed and took a clip's place has a clip's name. *)
LEMMA ClipNamed ==
  ASSUME NEW path \in Path, path # <<>>, Last(Real(path)).ext = "MLV"
  PROVE  IsClip(Last(path))
<1> DEFINE n == Len(path)
           c == ClipAt(path)
<1>1. n \in Nat /\ n > 0 /\ Real(path) \in Path /\ Len(Real(path)) = n
  BY PathNames, RealNames
<1>2. Real(path)[n].ext = "MLV"
  BY <1>1 DEF Last
<1>3. ~InClip(path) => Real(path) = path
  BY RealNames
<1>4. InClip(path) => c \in 1..n /\ IsClip(path[c]) /\ \A k \in 1..n : k # c => Real(path)[k] = path[k]
  BY ClipPlace, RealNames
<1> HIDE DEF n, c
<1>5. path[n].ext = "MLV" => IsClip(path[n])
  BY DEF IsClip, IsMlv
<1>6. IsClip(path[n])
  BY <1>1, <1>2, <1>3, <1>4, <1>5
<1> QED BY <1>6 DEF Last, n

(* Requests leave alone what is kept, or it is given up with them. *)
LEMMA SavedStep ==
  ASSUME TypeOK, SavedInv, [Next]_vars
  PROVE  SavedInv'
<1>1. \A p \in DOMAIN saved :
        /\ StaysOn(disk, p, saved[p]) /\ Kept(p) /\ Real(p) \in DOMAIN disk /\ disk[Real(p)] = saved[p]
        /\ InClip(p) => mlv_file(p) \in DOMAIN disk
  BY DEF SavedInv, StaysOn
<1>2. \A p \in DOMAIN saved : saved[p] # Dir
  BY ConstantsAssumption DEF TypeOK, Files
<1>3. IsDisk(disk)
  BY DEF TypeOK
<1> DEFINE Goal == \A p \in DOMAIN saved' : StaysOn(disk', p, saved'[p])
<1>4. ASSUME Extends(disk, disk'), saved' = saved PROVE Goal
  BY <1>1, <1>4, StillStays DEF Extends
<1>5. ASSUME NEW path \in UserPaths, Create(path) PROVE Goal
  <2> DEFINE R == Real(path)
             D == check_mld_exists(disk, R)
  <2>1. /\ R \in Path /\ R # <<>> /\ R \notin DOMAIN disk /\ OnWay(path) /\ Extends(disk, disk')
        /\ path \in Path /\ path # <<>>
    BY <1>5, UserPath, NewPath, NewExtends DEF Create
  <2>2. /\ disk' = creat(D, R) /\ IsDisk(D)
        /\ saved' = IF IsFileOn(disk', R) THEN Save(path, Empty) ELSE saved
    BY <1>3, <1>5, <2>1, CheckDisk DEF Create
  <2>3. CASE IsFileOn(disk', R)
    <3>1. saved' = Save(path, Empty)
      BY <2>2, <2>3
    <3>2. disk'[R] = Empty
      <4> HIDE DEF D, R
      <4> QED BY <2>1, <2>2, <2>3, Created
    <3>3. /\ DOMAIN disk \cup {Real(path)} \subseteq DOMAIN disk' /\ disk'[Real(path)] = Empty
          /\ \A q \in DOMAIN disk : q # Real(path) => disk'[q] = disk[q]
      BY <2>1, <2>3, <3>2 DEF Extends, IsFileOn
    <3> QED BY <2>1, <3>1, <3>3, WriteStays
  <2>4. CASE ~IsFileOn(disk', R)
    BY <1>4, <2>1, <2>2, <2>4
  <2> QED BY <2>3, <2>4
<1>6. ASSUME NEW path \in UserPaths, Write(path) PROVE Goal
  <2>1. PICK content \in Notes \cup {Empty} :
          disk' = [disk EXCEPT ![Real(path)] = content] /\ saved' = Save(path, content)
    BY <1>6 DEF Write
  <2>2. Real(path) \in DOMAIN disk /\ OnWay(path)
    BY <1>6, OneChange
  <2>3. /\ DOMAIN disk \cup {Real(path)} \subseteq DOMAIN disk' /\ disk'[Real(path)] = content
        /\ \A q \in DOMAIN disk : q # Real(path) => disk'[q] = disk[q]
    BY <2>1, <2>2
  <2> QED BY <2>1, <2>2, <2>3, WriteStays
<1>7. ASSUME NEW path \in UserPaths, NEW p \in DOMAIN saved, p \notin GivenUp(path)
      PROVE  Real(p) # Real(path) /\ (InClip(p) => mlv_file(p) # Real(path))
  <2>1. Real(path) \in Path
    BY UserPath
  <2> QED BY <1>7, <2>1, AtSelf, IsGivenUp
<1>8. ASSUME NEW path \in UserPaths, Unlink(path) PROVE Goal
  <2>1. saved' = GiveUp(path)
    BY <1>8 DEF Unlink
  <2>2. \A q \in DOMAIN disk : q # Real(path) => q \in DOMAIN disk' /\ disk'[q] = disk[q]
    BY <1>8, OneChange
  <2>3. ASSUME NEW p \in DOMAIN saved' PROVE StaysOn(disk', p, saved'[p])
    <3>1. p \in DOMAIN saved /\ p \notin GivenUp(path) /\ saved'[p] = saved[p]
      BY <2>1 DEF GiveUp, Without
    <3>2. Real(p) # Real(path) /\ (InClip(p) => mlv_file(p) # Real(path))
      BY <1>7, <3>1
    <3> QED BY <1>1, <2>2, <3>1, <3>2, StillStays
  <2> QED BY <2>3
<1>9. ASSUME NEW path \in UserPaths, Rmdir(path) PROVE Goal
  <2>1. saved' = IF IsClip(Last(path)) /\ disk' # disk THEN GiveUp(path) ELSE saved
    BY <1>9 DEF Rmdir
  <2>2. \A q \in DOMAIN disk : q # Real(path) => q \in DOMAIN disk' /\ disk'[q] = disk[q]
    BY <1>9, OneChange
  <2>3. disk' = disk \/ IsDirOn(disk, Real(path))
    BY <1>9, OneChange
  <2>4. path \in Path /\ path # <<>> /\ Real(path) # <<>>
    BY UserPath
  <2>5. CASE disk' = disk
    BY <1>1, <2>1, <2>5
  <2>6. CASE disk' # disk /\ IsClip(Last(path))
    <3>1. saved' = GiveUp(path)
      BY <2>1, <2>6
    <3>2. ASSUME NEW p \in DOMAIN saved' PROVE StaysOn(disk', p, saved'[p])
      <4>1. p \in DOMAIN saved /\ p \notin GivenUp(path) /\ saved'[p] = saved[p]
        BY <3>1 DEF GiveUp, Without
      <4>2. Real(p) # Real(path) /\ (InClip(p) => mlv_file(p) # Real(path))
        BY <1>7, <4>1
      <4> QED BY <1>1, <2>2, <4>1, <4>2, StillStays
    <3> QED BY <3>2
  <2>7. CASE disk' # disk /\ ~IsClip(Last(path))
    <3>1. saved' = saved /\ disk[Real(path)] = Dir
      BY <2>1, <2>3, <2>4, <2>7 DEF IsDirOn
    <3>2. ASSUME NEW p \in DOMAIN saved PROVE StaysOn(disk', p, saved[p])
      <4>1. Real(p) # Real(path)
        BY <1>1, <1>2, <3>1
      <4>2. InClip(p) => mlv_file(p) # Real(path)
        <5>1. InClip(p) => Last(mlv_file(p)).ext = "MLV"
          BY <1>1, MlvNames DEF Kept, Last
        <5> QED BY <2>4, <2>7, <5>1, ClipNamed
      <4> QED BY <1>1, <2>2, <4>1, <4>2, StillStays
    <3> QED BY <3>1, <3>2
  <2> QED BY <2>5, <2>6, <2>7
<1>10. ASSUME NEW path \in UserPaths, Mkdir(path) \/ CopyIn(path) PROVE Goal
  <2>1. Extends(disk, disk')
    BY <1>10, NewExtends
  <2> QED BY <1>4, <1>10, <2>1 DEF Mkdir, CopyIn
<1>11. ASSUME NEW move \in Moves, Rename(move[1], move[2]) PROVE Goal
  BY <1>11, UserMove, RenameStays
<1>12. ASSUME disk' = disk, saved' = saved PROVE Goal
  BY <1>1, <1>12
<1>13. ASSUME NEW path \in UserPaths, Stat(path) PROVE Goal
  BY <1>12, <1>13 DEF Stat
<1> HIDE DEF Goal
<1>14. SetNameScheme => Goal
  BY <1>12 DEF SetNameScheme
<1>15. UNCHANGED vars => Goal
  BY <1>12 DEF vars
<1>16. Goal
  BY <1>5, <1>6, <1>8, <1>9, <1>10, <1>11, <1>13, <1>14, <1>15 DEF Next
<1> QED BY <1>16, StaysNext DEF Goal

(* What a user has written is there, as it was written last, and is listed *)
(* in its clip, until the user removes it or renames a directory above it: *)
(* mlvfs_resolve_path and mlvfs_resolve_virtual lead no other request to   *)
(* it, whatever the names and under both naming schemes.                   *)
THEOREM SavedAlwaysStays == Spec => []SavedStays
<1>1. TypeOK /\ SavedInv /\ [Next]_vars => SavedInv'
  BY SavedStep
<1>2. TypeOK /\ SavedInv => SavedStays
  BY SavedFound
<1> QED BY <1>1, <1>2, SavedInit, TypeCorrect, PTL DEF Spec
-----------------------------------------------------------------------------
(* What is listed.                                                         *)

(* Names in a listing are neither those of hidden directories nor, with    *)
(* the long names of clips, those of recordings.                           *)
IsShown(name) == name \in Names /\ name.ext # "MLD" /\ (name_scheme = 1 => name.ext # "MLV")
ShownPath(p) == p \in Path /\ \A k \in 1..Len(p) : IsShown(p[k])

(* The names that are listed of a directory of the disk. *)
LEMMA EntriesAre ==
  ASSUME TypeOK, NEW L, NEW all \in BOOLEAN
  PROVE  /\ \A name \in Entries(L, all) :
              /\ IsShown(name)
              /\ \E r \in DOMAIN disk : /\ r \in Path /\ r # <<>> /\ Above(r) = L
                                        /\ Last(r) \in Names /\ name = ShownAs(L, Last(r))
         /\ IsFiniteSet(Entries(L, all))
<1> DEFINE S == {q \in DOMAIN disk : /\ Above(q) = L
                                     /\ ~IsMld(Last(q))
                                     /\ all \/ IsMlv(Last(q)) \/ IsDirOn(disk, q)}
           N == {Last(q) : q \in S}
           E == {ShownAs(L, name) : name \in N}
           f == [q \in S |-> Last(q)]
           g == [name \in N |-> ShownAs(L, name)]
<1>1. Entries(L, all) = E
  BY DEF Entries
<1>2. ASSUME NEW q \in S
      PROVE  /\ q \in DOMAIN disk /\ q \in Path /\ q # <<>> /\ Above(q) = L
             /\ Last(q) \in Names /\ Last(q).ext # "MLD"
  BY AboveNames DEF TypeOK, IsDisk, IsMld
<1>3. ASSUME NEW name \in Names, name.ext # "MLD" PROVE IsShown(ShownAs(L, name))
  <2>1. CASE name_scheme = 0 \/ ~IsMlv(name)
    BY <1>3, <2>1 DEF ShownAs, IsShown, IsMlv
  <2>2. CASE ~(name_scheme = 0 \/ ~IsMlv(name))
    <3> DEFINE x == IF IsReadable(Append(L, name)) THEN "clip" ELSE "other"
    <3>1. ShownAs(L, name) = [stem |-> name.stem, ext |-> x] /\ x \in {"clip", "other"}
      BY <2>2 DEF ShownAs
    <3> HIDE DEF x
    <3> QED BY <1>3, <3>1 DEF IsShown, Names, Exts
  <2> QED BY <2>1, <2>2
<1>4. S \subseteq DOMAIN disk /\ IsFiniteSet(DOMAIN disk)
  BY DEF TypeOK, IsDisk
<1>5. f \in [S -> N] /\ N = {f[q] : q \in S} /\ g \in [N -> E] /\ E = {g[name] : name \in N}
  OBVIOUS
<1>6. \A name \in E : \E q \in S : name = ShownAs(L, Last(q))
  OBVIOUS
<1> HIDE DEF S, N, E, f, g
<1>7. IsFiniteSet(S)
  BY <1>4, FS_Subset
<1>8. IsFiniteSet(N)
  BY <1>5, <1>7, FiniteImage
<1>9. IsFiniteSet(E)
  BY <1>5, <1>8, FiniteImage
<1>10. ASSUME NEW name \in E
       PROVE  /\ IsShown(name)
              /\ \E r \in DOMAIN disk : /\ r \in Path /\ r # <<>> /\ Above(r) = L
                                        /\ Last(r) \in Names /\ name = ShownAs(L, Last(r))
  <2>1. PICK q \in S : name = ShownAs(L, Last(q))
    BY <1>6
  <2> QED BY <1>2, <1>3, <2>1
<1> QED BY <1>1, <1>9, <1>10

(* The listing of a path: the frames of a clip, and what is in a directory *)
(* of the disk.                                                            *)
LEMMA ListingIs ==
  ASSUME TypeOK, NEW p \in Path
  PROVE  /\ \A name \in readdir(p) :
              \/ IsClipDir(p) /\ name \in Names /\ name.ext \in {"dng", "wav"}
              \/ \E all \in BOOLEAN : name \in Entries(ListedDir(p), all)
         /\ \A name \in readdir(p) : IsShown(name)
         /\ IsFiniteSet(readdir(p))
<1> DEFINE stem == Last(p).stem
           V == [stem : {stem}, ext : {"dng", "wav"}]
           L == ListedDir(p)
<1>1. \A all \in BOOLEAN : IsFiniteSet(Entries(L, all)) /\ \A name \in Entries(L, all) : IsShown(name)
  BY EntriesAre
<1>2. IsFiniteSet(V)
  <2> DEFINE a == [stem |-> stem, ext |-> "dng"]
             b == [stem |-> stem, ext |-> "wav"]
  <2>1. /\ a \in V /\ a.stem = stem /\ a.ext = "dng"
        /\ b \in V /\ b.stem = stem /\ b.ext = "wav"
    OBVIOUS
  <2> HIDE DEF a, b, stem
  <2>2. \A r \in V : r.stem = stem /\ (r.ext = "dng" \/ r.ext = "wav")
    OBVIOUS
  <2>3. \A r \in V : \A s \in V : r.stem = s.stem /\ r.ext = s.ext => r = s
    OBVIOUS
  <2> HIDE DEF V
  <2>4. \A r \in V : r = a \/ r = b
    BY <2>1, <2>2, <2>3
  <2>5. V = {a} \cup {b}
    BY <2>1, <2>4
  <2>6. IsFiniteSet({a})
    BY FS_Singleton
  <2> QED BY <2>5, <2>6, FS_AddElement
<1>3. IsClipDir(p) => \A name \in V : name \in Names /\ name.ext \in {"dng", "wav"}
  <2>1. IsClipDir(p) => Last(p) \in Names
    BY AboveNames DEF IsClipDir
  <2> QED BY <2>1 DEF Names, Exts
<1>4. \/ readdir(p) = {}
      \/ IsClipDir(p) /\ readdir(p) = V \cup Entries(L, TRUE)
      \/ readdir(p) = Entries(L, FALSE)
  BY DEF readdir
<1> HIDE DEF V, L
<1>5. CASE readdir(p) = {}
  BY <1>5, FS_EmptySet
<1>6. CASE IsClipDir(p) /\ readdir(p) = V \cup Entries(L, TRUE)
  <2>1. IsFiniteSet(readdir(p))
    BY <1>1, <1>2, <1>6, FS_Union
  <2>2. \A name \in readdir(p) : name \in V \/ name \in Entries(L, TRUE)
    BY <1>6
  <2>3. \A name \in V : IsShown(name)
    BY <1>3, <1>6 DEF IsShown
  <2> QED BY <1>1, <1>3, <1>6, <2>1, <2>2, <2>3 DEF L
<1>7. CASE readdir(p) = Entries(L, FALSE)
  BY <1>1, <1>7 DEF L
<1> QED BY <1>4, <1>5, <1>6, <1>7

(* What a name in a directory stands for on the disk. *)
LEMMA RealBehind ==
  ASSUME NEW p \in Path, NEW name \in Names
  PROVE  LET q == Append(p, name)
             mlv == [stem |-> name.stem, ext |-> "MLV"]
         IN  /\ q \in Path /\ q # <<>> /\ Above(q) = p /\ Last(q) = name
             /\ ListedDir(p) \in Path
             /\ ~InClip(p) /\ IsClip(name) => Real(q) = Append(ListedDir(p), mlv)
             /\ ~(~InClip(p) /\ IsClip(name)) => Real(q) = Append(ListedDir(p), name)
             /\ IsVirtual(q) <=> IsClipDir(p) /\ name.ext \in {"dng", "wav"}
             /\ IsClipDir(p) => mlv_file(q) = mlv_file(p)
             /\ Named(Append(ListedDir(p), name), "MLV") = Append(ListedDir(p), mlv)
<1> DEFINE q == Append(p, name)
           mlv == [stem |-> name.stem, ext |-> "MLV"]
           L == ListedDir(p)
           n == Len(p)
           c == ClipAt(p)
<1>1. n \in Nat /\ DOMAIN p = 1..n /\ mlv \in Names /\ (p # <<>> <=> n > 0)
  BY PathNames DEF Names, Exts
<1>2. q \in Path /\ Len(q) = n + 1 /\ (\A k \in 1..n : q[k] = p[k]) /\ q[n + 1] = name
  BY NameBehind
<1>3. mlv.stem = name.stem /\ mlv.ext = "MLV"
  OBVIOUS
<1> HIDE DEF q, mlv
<1>4. q # <<>> /\ Last(q) = name
  BY <1>1, <1>2, PathNames DEF Last
<1>5. Above(q) = p
  <2>1. Above(q) \in Path /\ Len(Above(q)) = n /\ \A k \in 1..n : Above(q)[k] = q[k]
    <3>1. Len(q) - 1 = n
      BY <1>1, <1>2
    <3> QED BY <1>2, <1>4, <3>1, AboveNames
  <2> QED BY <1>2, <2>1, SamePath
<1>6. /\ Real(p) \in Path /\ Len(Real(p)) = n
      /\ ~InClip(p) => Real(p) = p
      /\ InClip(p) => /\ c \in 1..n
                      /\ \A k \in 1..n : k # c => Real(p)[k] = p[k]
                      /\ c < n => Real(p)[c].stem = p[c].stem /\ Real(p)[c].ext = "MLD"
  BY RealNames, ClipPlace
<1>7. IsClipDir(p) <=> InClip(p) /\ c = n
  <2>1. InClip(p) => c \in 1..n
    BY <1>6
  <2>2. InClip(p) => p # <<>>
    BY <1>1, <2>1
  <2> QED BY <2>2, BehindClip DEF IsClipDir
<1>8. /\ L \in Path /\ Len(L) = n
      /\ ~InClip(p) => L = p
      /\ InClip(p) => /\ \A k \in 1..n : k # c => L[k] = p[k]
                      /\ L[c].stem = p[c].stem /\ L[c].ext = "MLD"
  <2>1. CASE IsClipDir(p)
    <3>1. L = Named(mlv_file(p), "MLD") /\ InClip(p) /\ c = n
      BY <1>7, <2>1 DEF ListedDir, IsClipDir
    <3>2. /\ mlv_file(p) \in Path \ {<<>>} /\ Len(mlv_file(p)) = n
          /\ \A k \in 1..n - 1 : mlv_file(p)[k] = p[k]
          /\ mlv_file(p)[n].stem = p[n].stem
      BY <3>1, MlvNames
    <3>3. /\ L \in Path /\ Len(L) = n /\ \A k \in 1..n - 1 : L[k] = mlv_file(p)[k]
          /\ L[n].stem = mlv_file(p)[n].stem /\ L[n].ext = "MLD"
      <4> DEFINE M == mlv_file(p)
      <4>1. L = Named(M, "MLD") /\ M \in Path /\ M # <<>> /\ Len(M) = n /\ "MLD" \in Exts
        BY <3>1, <3>2 DEF Exts
      <4> HIDE DEF L, n, c, M
      <4>2. /\ Named(M, "MLD") \in Path /\ Len(Named(M, "MLD")) = Len(M)
            /\ \A k \in 1..Len(M) - 1 : Named(M, "MLD")[k] = M[k]
            /\ Named(M, "MLD")[Len(M)].stem = M[Len(M)].stem
            /\ Named(M, "MLD")[Len(M)].ext = "MLD"
        BY <4>1, NamedNames
      <4>3. /\ L \in Path /\ Len(L) = n /\ \A k \in 1..n - 1 : L[k] = M[k]
            /\ L[n].stem = M[n].stem /\ L[n].ext = "MLD"
        BY <4>1, <4>2
      <4> QED BY <4>3 DEF M
    <3> HIDE DEF L, n, c
    <3> QED BY <1>1, <3>1, <3>2, <3>3
  <2>2. CASE ~IsClipDir(p)
    <3>1. L = Real(p)
      <4>1. CASE p = <<>>
        <5>1. ~InClip(p)
          BY <1>1, <4>1 DEF InClip
        <5> QED BY <1>6, <4>1, <5>1 DEF ListedDir
      <4>2. CASE p # <<>>
        BY <2>2, <4>2 DEF ListedDir
      <4> QED BY <4>1, <4>2
    <3> HIDE DEF L, n, c
    <3> QED BY <1>1, <1>6, <1>7, <2>2, <3>1
  <2> QED BY <2>1, <2>2
<1>9. \A x \in Names : /\ Append(L, x) \in Path /\ Len(Append(L, x)) = n + 1
                       /\ \A k \in 1..n : Append(L, x)[k] = L[k]
                       /\ Append(L, x)[n + 1] = x
  <2> HIDE DEF L, n
  <2> QED BY <1>8, NameBehind
<1> HIDE DEF L, n, c
<1>10. /\ InClip(p) => InClip(q) /\ ClipAt(q) = c /\ mlv_file(q) = mlv_file(p)
       /\ ~InClip(p) /\ IsClip(name) => InClip(q) /\ ClipAt(q) = n + 1
       /\ ~InClip(p) /\ ~IsClip(name) => ~InClip(q)
  <2>1. CASE InClip(p)
    <3>1. ClipAt(p) <= Len(q) /\ \A k \in 1..ClipAt(p) : q[k] = p[k]
      BY <1>1, <1>2, <1>6, <2>1 DEF c
    <3> QED BY <1>2, <2>1, <3>1, SameClip DEF c
  <2>2. CASE ~InClip(p)
    <3>1. \A k \in 1..n : ~IsClip(q[k])
      BY <1>1, <1>2, <2>2 DEF InClip
    <3>2. IsClip(name) => InClip(q) /\ ClipAt(q) = n + 1
      <4>1. n + 1 \in 1..Len(q) /\ \A k \in 1..(n + 1) - 1 : ~IsClip(q[k])
        BY <1>1, <1>2, <3>1
      <4> QED BY <1>2, <4>1, ClipAtIs
    <3>3. ~IsClip(name) => ~InClip(q)
      <4>1. DOMAIN q = 1..n + 1 /\ \A k \in 1..n + 1 : k \in 1..n \/ k = n + 1
        BY <1>1, <1>2, PathNames
      <4> QED BY <1>2, <3>1, <4>1 DEF InClip
    <3> QED BY <2>2, <3>2, <3>3
  <2> QED BY <2>1, <2>2
<1>11. /\ Real(q) \in Path /\ Len(Real(q)) = n + 1
       /\ ~InClip(q) => Real(q) = q
       /\ InClip(q) => /\ \A k \in 1..n + 1 : k # ClipAt(q) => Real(q)[k] = q[k]
                       /\ ClipAt(q) = n + 1 =>
                            Real(q)[n + 1].stem = q[n + 1].stem /\ Real(q)[n + 1].ext = "MLV"
                       /\ ClipAt(q) < n + 1 =>
                            Real(q)[ClipAt(q)].stem = q[ClipAt(q)].stem /\ Real(q)[ClipAt(q)].ext = "MLD"
  BY <1>2, RealNames
<1>12. \A k \in 1..n + 1 : Real(q)[k] \in Names
  BY <1>11, PathNames
<1>13. \A k \in 1..n : L[k] \in Names
  BY <1>8, PathNames
<1>14. \A k \in 1..n + 1 : k \in 1..n \/ k = n + 1
  BY <1>1
<1>15. n + 1 \in 1..n + 1 /\ \A k \in 1..n : k \in 1..n + 1 /\ k # n + 1
  BY <1>1
<1>16. \A k \in 1..n : Real(q)[k] = L[k]
  <2>1. CASE InClip(p)
    <3>1. InClip(q) /\ ClipAt(q) = c /\ c < n + 1 /\ c \in 1..n
      BY <1>1, <1>6, <1>10, <2>1
    <3>2. Real(q)[c] = L[c]
      BY <1>2, <1>8, <1>11, <1>12, <1>13, <1>15, <2>1, <3>1, SameName
    <3> QED BY <1>2, <1>8, <1>11, <1>15, <2>1, <3>1, <3>2
  <2>2. CASE ~InClip(p) /\ IsClip(name)
    BY <1>2, <1>8, <1>10, <1>11, <1>15, <2>2
  <2>3. CASE ~InClip(p) /\ ~IsClip(name)
    BY <1>2, <1>8, <1>10, <1>11, <2>3
  <2> QED BY <2>1, <2>2, <2>3
<1>17. ASSUME ~InClip(p), IsClip(name) PROVE Real(q) = Append(L, mlv)
  <2>1. Real(q)[n + 1] = mlv
    <3>1. Real(q)[n + 1].stem = mlv.stem /\ Real(q)[n + 1].ext = mlv.ext
      BY <1>2, <1>3, <1>10, <1>11, <1>17
    <3> QED BY <1>1, <1>12, <1>15, <3>1, SameName
  <2> DEFINE r == Append(L, mlv)
  <2>2. r \in Path /\ Len(r) = n + 1 /\ (\A k \in 1..n : r[k] = L[k]) /\ r[n + 1] = mlv
    BY <1>1, <1>9
  <2> HIDE DEF r
  <2>3. \A k \in 1..n + 1 : Real(q)[k] = r[k]
    BY <1>14, <1>16, <2>1, <2>2
  <2>4. Real(q) = r
    BY <1>11, <2>2, <2>3, SamePath
  <2> QED BY <2>4 DEF r
<1>18. ASSUME ~(~InClip(p) /\ IsClip(name)) PROVE Real(q) = Append(L, name)
  <2>1. Real(q)[n + 1] = name
    <3>1. InClip(q) => ClipAt(q) # n + 1
      BY <1>1, <1>6, <1>10, <1>18
    <3> QED BY <1>2, <1>11, <1>15, <3>1
  <2> DEFINE r == Append(L, name)
  <2>2. r \in Path /\ Len(r) = n + 1 /\ (\A k \in 1..n : r[k] = L[k]) /\ r[n + 1] = name
    BY <1>1, <1>9
  <2> HIDE DEF r
  <2>3. \A k \in 1..n + 1 : Real(q)[k] = r[k]
    BY <1>14, <1>16, <2>1, <2>2
  <2>4. Real(q) = r
    BY <1>11, <2>2, <2>3, SamePath
  <2> QED BY <2>4 DEF r
<1>19. IsVirtual(q) <=> IsClipDir(p) /\ name.ext \in {"dng", "wav"}
  <2>1. IsVirtual(q) <=> InClip(q) /\ n + 1 = ClipAt(q) + 1 /\ name.ext \in {"dng", "wav"}
    BY <1>2, <1>4, VirtualNames
  <2>2. InClip(p) => (n + 1 = c + 1 <=> c = n)
    BY <1>1, <1>6
  <2>3. n + 1 # (n + 1) + 1
    BY <1>1
  <2> QED BY <1>7, <1>10, <2>1, <2>2, <2>3
<1>20. Named(Append(L, name), "MLV") = Append(L, mlv)
  <2> DEFINE r == Append(L, name)
  <2>1. r \in Path /\ Len(r) = n + 1 /\ (\A k \in 1..n : r[k] = L[k]) /\ r[n + 1] = name
    BY <1>9
  <2> HIDE DEF r
  <2>2. r # <<>> /\ (n + 1) - 1 = n
    BY <1>1, <2>1, PathNames
  <2>3. Above(r) = L /\ Last(r) = name
    <3>1. Above(r) \in Path /\ Len(Above(r)) = n /\ \A k \in 1..n : Above(r)[k] = r[k]
      <4>1. Len(r) - 1 = n
        BY <2>1, <2>2
      <4> QED BY <2>1, <2>2, <4>1, AboveNames
    <3> QED BY <1>8, <2>1, <3>1, SamePath DEF Last
  <2>4. Named(r, "MLV") = Append(L, mlv)
    BY <2>3 DEF Named, mlv
  <2> QED BY <2>4 DEF r
<1> QED BY <1>2, <1>4, <1>5, <1>7, <1>8, <1>10, <1>17, <1>18, <1>19, <1>20 DEF q, mlv, L
(* Every name in a listing is found, but the odd ones. *)
LEMMA ListedFound ==
  ASSUME TypeOK, NEW p \in Path, Lookup(p) = "dir", NEW name \in readdir(p)
  PROVE  Lookup(Append(p, name)) # "none" \/ IsOddName(p, name)
<1> DEFINE q == Append(p, name)
           L == ListedDir(p)
           mlv == [stem |-> name.stem, ext |-> "MLV"]
<1>1. name \in Names /\ (name_scheme = 1 => name.ext # "MLV") /\ name_scheme \in {0, 1}
  BY ListingIs DEF IsShown, TypeOK
<1>2. /\ q \in Path /\ q # <<>> /\ Above(q) = p /\ Last(q) = name /\ L \in Path
      /\ ~InClip(p) /\ IsClip(name) => Real(q) = Append(L, mlv)
      /\ ~(~InClip(p) /\ IsClip(name)) => Real(q) = Append(L, name)
      /\ IsVirtual(q) <=> IsClipDir(p) /\ name.ext \in {"dng", "wav"}
      /\ IsClipDir(p) => mlv_file(q) = mlv_file(p)
      /\ Named(Append(L, name), "MLV") = Append(L, mlv)
  BY <1>1, RealBehind
<1> HIDE DEF q, L
<1>3. Lookup(q) = getattr(q)
  BY <1>2, DirOnWay
<1>4. IsVirtual(q) /\ IsReadable(mlv_file(q)) => getattr(q) = "file"
  BY <1>2 DEF getattr, IsFrame
<1>5. ~IsVirtual(q) /\ Real(q) \in DOMAIN disk => getattr(q) # "none"
  BY <1>2 DEF getattr
<1>6. CASE IsClipDir(p) /\ name.ext \in {"dng", "wav"}
  <2>1. CASE IsReadable(mlv_file(p))
    BY <1>2, <1>3, <1>4, <1>6, <2>1 DEF q
  <2>2. CASE ~IsReadable(mlv_file(p))
    BY <1>6, <2>2 DEF IsOddName
  <2> QED BY <2>1, <2>2
<1>7. CASE ~(IsClipDir(p) /\ name.ext \in {"dng", "wav"})
  <2>1. ~IsVirtual(q)
    BY <1>2, <1>7
  <2>2. PICK all \in BOOLEAN : name \in Entries(L, all)
    BY <1>7, ListingIs DEF L
  <2>3. PICK r \in DOMAIN disk : /\ r \in Path /\ r # <<>> /\ Above(r) = L
                                 /\ Last(r) \in Names /\ name = ShownAs(L, Last(r))
    BY <2>2, EntriesAre
  <2>4. r = Append(L, Last(r))
    <3> DEFINE s == Append(L, Last(r))
    <3>1. s \in Path /\ Len(s) = Len(L) + 1 /\ (\A k \in 1..Len(L) : s[k] = L[k]) /\ s[Len(L) + 1] = Last(r)
      BY <1>2, <2>3, NameBehind
    <3>2. Len(L) = Len(r) - 1 /\ (\A k \in 1..Len(r) - 1 : L[k] = r[k]) /\ Last(r) = r[Len(r)]
      BY <2>3, AboveNames
    <3>3. Len(r) \in Nat /\ Len(r) > 0
      BY <2>3, PathNames
    <3> HIDE DEF s
    <3>4. Len(s) = Len(r) /\ \A k \in 1..Len(s) : s[k] = r[k]
      BY <3>1, <3>2, <3>3
    <3>5. s = r
      BY <2>3, <3>1, <3>4, SamePath
    <3> QED BY <3>5 DEF s
  <2>5. CASE name_scheme = 0 \/ ~IsMlv(Last(r))
    <3>1. name = Last(r)
      BY <2>3, <2>5 DEF ShownAs
    <3>2. CASE ~(~InClip(p) /\ IsClip(name))
      BY <1>2, <1>3, <1>5, <2>1, <2>3, <2>4, <3>1, <3>2 DEF q
    <3>3. CASE ~InClip(p) /\ IsClip(name) /\ name.ext = "MLV"
      <4>1. name = mlv
        BY <1>1, <3>3, SameName DEF Names, Exts
      <4> QED BY <1>2, <1>3, <1>5, <2>1, <2>3, <2>4, <3>1, <3>3, <4>1 DEF q
    <3>4. CASE ~InClip(p) /\ IsClip(name) /\ name.ext # "MLV"
      <4>1. name_scheme = 1 /\ name.ext = "clip"
        BY <3>4 DEF IsClip, IsMlv
      <4>2. Append(L, name) \in DOMAIN disk
        BY <2>3, <2>4, <3>1
      <4> QED BY <4>1, <4>2 DEF IsOddName, L
    <3> QED BY <3>2, <3>3, <3>4
  <2>6. CASE ~(name_scheme = 0 \/ ~IsMlv(Last(r)))
    <3>1. name_scheme = 1 /\ Last(r).ext = "MLV"
      BY <1>1, <2>6 DEF IsMlv
    <3>2. name = [stem |-> Last(r).stem, ext |-> IF IsReadable(r) THEN "clip" ELSE "other"]
      BY <2>3, <2>4, <2>6 DEF ShownAs
    <3>3. /\ name.stem = Last(r).stem
          /\ IsReadable(r) => name.ext = "clip"
          /\ ~IsReadable(r) => name.ext = "other"
      BY <3>2
    <3>4. mlv = Last(r)
      <4>1. mlv \in Names /\ mlv.stem = Last(r).stem /\ mlv.ext = "MLV"
        BY <1>1, <3>3 DEF Names, Exts
      <4> HIDE DEF mlv
      <4> QED BY <2>3, <3>1, <4>1, SameName
    <3>5. CASE ~IsReadable(r)
      <4>1. Named(Append(ListedDir(p), name), "MLV") = r
        BY <1>2, <2>4, <3>4 DEF L
      <4> QED BY <2>3, <3>1, <3>5, <4>1 DEF IsOddName
    <3>6. CASE IsReadable(r)
      <4>1. name.ext = "clip" /\ IsClip(name)
        BY <3>1, <3>3, <3>6 DEF IsClip
      <4>2. CASE InClip(p)
        BY <3>1, <4>1, <4>2 DEF IsOddName
      <4>3. CASE ~InClip(p)
        <5>1. Real(q) = r
          BY <1>2, <2>4, <3>4, <4>1, <4>3
        <5> QED BY <1>3, <1>5, <2>1, <2>3, <5>1 DEF q
      <4> QED BY <4>2, <4>3
    <3> QED BY <3>5, <3>6
  <2> QED BY <2>5, <2>6
<1> QED BY <1>6, <1>7

(* No two paths of shown names stand for the same on the disk. *)
LEMMA RealOnce ==
  ASSUME TypeOK, NEW p, NEW q, ShownPath(p), ShownPath(q), Real(p) = Real(q)
  PROVE  p = q
<1> DEFINE R == Real(p)
           n == Len(p)
           b == ClipAt(p)
           c == ClipAt(q)
<1>1. /\ p \in Path /\ q \in Path /\ n \in Nat
      /\ \A k \in 1..n : p[k] \in Names /\ p[k].ext # "MLD" /\ (name_scheme = 1 => p[k].ext # "MLV")
      /\ \A k \in 1..Len(q) : q[k] \in Names /\ q[k].ext # "MLD" /\ (name_scheme = 1 => q[k].ext # "MLV")
  BY PathNames DEF ShownPath, IsShown
<1>2. /\ R \in Path /\ Len(R) = n
      /\ ~InClip(p) => R = p
      /\ InClip(p) => /\ b \in 1..n /\ IsClip(p[b])
                      /\ \A k \in 1..n : k # b => R[k] = p[k]
                      /\ b = n => R[b].stem = p[b].stem /\ R[b].ext = "MLV"
                      /\ b < n => R[b].stem = p[b].stem /\ R[b].ext = "MLD"
  BY <1>1, RealNames, ClipPlace
<1>3. /\ Len(R) = Len(q)
      /\ ~InClip(q) => R = q
      /\ InClip(q) => /\ c \in 1..Len(q) /\ IsClip(q[c])
                      /\ \A k \in 1..Len(q) : k # c => R[k] = q[k]
                      /\ c = Len(q) => R[c].stem = q[c].stem /\ R[c].ext = "MLV"
                      /\ c < Len(q) => R[c].stem = q[c].stem /\ R[c].ext = "MLD"
  BY <1>1, RealNames, ClipPlace
<1>4. Len(q) = n
  BY <1>2, <1>3
<1>5. \A k \in 1..n : IsClip(p[k]) /\ IsClip(q[k]) => p[k].ext = q[k].ext
  <2>1. \A k \in 1..n : IsClip(p[k]) => p[k].ext = "MLV" \/ (name_scheme = 1 /\ p[k].ext = "clip")
    BY DEF IsClip, IsMlv
  <2>2. \A k \in 1..n : IsClip(q[k]) => q[k].ext = "MLV" \/ (name_scheme = 1 /\ q[k].ext = "clip")
    BY DEF IsClip, IsMlv
  <2> QED BY <1>1, <1>4, <2>1, <2>2
<1>7. /\ ~InClip(p) => \A k \in 1..n : p[k].ext # "MLV"
      /\ ~InClip(q) => \A k \in 1..n : q[k].ext # "MLV"
  BY <1>1, <1>4, PathNames DEF InClip, IsClip, IsMlv
<1> HIDE DEF R, n, b, c
<1>8. InClip(p) /\ InClip(q) => b = c
  <2>1. SUFFICES ASSUME InClip(p), InClip(q) PROVE b = c
    OBVIOUS
  <2>2. CASE b < n
    <3>1. c = b
      BY <1>1, <1>2, <1>3, <1>4, <2>1, <2>2
    <3> QED BY <3>1
  <2>3. CASE b = n
    <3>1. c = n
      <4>1. ASSUME c < n PROVE FALSE
        <5>1. R[c].ext = "MLD" /\ R[c] = p[c] /\ c \in 1..n
          BY <1>1, <1>2, <1>3, <1>4, <2>1, <2>3, <4>1
        <5> QED BY <1>1, <5>1
      <4> QED BY <1>1, <1>3, <1>4, <2>1, <4>1
    <3> QED BY <2>3, <3>1
  <2> QED BY <1>1, <1>2, <2>1, <2>2, <2>3
<1>9. InClip(p) <=> InClip(q)
  <2>1. ASSUME InClip(p), ~InClip(q) PROVE FALSE
    <3>1. R = q /\ (R[b].ext = "MLV" \/ R[b].ext = "MLD") /\ b \in 1..n
      BY <1>1, <1>2, <1>3, <2>1
    <3> QED BY <1>1, <1>4, <1>7, <2>1, <3>1
  <2>2. ASSUME ~InClip(p), InClip(q) PROVE FALSE
    <3>1. R = p /\ (R[c].ext = "MLV" \/ R[c].ext = "MLD") /\ c \in 1..n
      BY <1>1, <1>2, <1>3, <1>4, <2>2
    <3> QED BY <1>1, <1>7, <2>2, <3>1
  <2> QED BY <2>1, <2>2
<1>10. \A k \in 1..n : p[k] = q[k]
  <2>1. CASE ~InClip(p)
    BY <1>2, <1>3, <1>9, <2>1
  <2>2. CASE InClip(p)
    <3>1. p[b] = q[b]
      <4>1. R[b].stem = p[b].stem /\ R[b].stem = q[b].stem /\ b \in 1..n /\ p[b].ext = q[b].ext
        BY <1>1, <1>2, <1>3, <1>4, <1>5, <1>8, <1>9, <2>2
      <4> QED BY <1>1, <1>4, <4>1, SameName
    <3> QED BY <1>2, <1>3, <1>4, <1>8, <1>9, <2>2, <3>1
  <2> QED BY <2>1, <2>2
<1> QED BY <1>1, <1>4, <1>10, SamePath DEF n

(* What is shown in finitely many directories: finitely many paths. *)
LEMMA ShownAre ==
  ASSUME TypeOK, NEW dirs, IsFiniteSet(dirs), \A p \in dirs : ShownPath(p)
  PROVE  /\ IsFiniteSet(Shown(dirs))
         /\ \A q \in Shown(dirs) :
              /\ ShownPath(q)
              /\ Above(q) \in dirs /\ Last(q) \in readdir(Above(q)) /\ q = Append(Above(q), Last(q))
<1> DEFINE S(p) == {Append(p, name) : name \in readdir(p)}
           U == {S(p) : p \in dirs}
<1>1. \A p \in dirs : p \in Path
  BY DEF ShownPath
<1>2. ASSUME NEW p \in dirs
      PROVE  /\ IsFiniteSet(S(p))
             /\ \A q \in S(p) : \E name \in readdir(p) : q = Append(p, name)
  <2> DEFINE f == [name \in readdir(p) |-> Append(p, name)]
  <2>1. IsFiniteSet(readdir(p))
    BY <1>1, ListingIs
  <2>2. f \in [readdir(p) -> S(p)] /\ S(p) = {f[name] : name \in readdir(p)}
    OBVIOUS
  <2>3. IsFiniteSet(S(p))
    <3> HIDE DEF f, S
    <3> QED BY <2>1, <2>2, FiniteImage
  <2> QED BY <2>3
<1>3. IsFiniteSet(U)
  <2> DEFINE g == [p \in dirs |-> S(p)]
  <2>1. g \in [dirs -> U] /\ U = {g[p] : p \in dirs}
    OBVIOUS
  <2> HIDE DEF g, U
  <2> QED BY <2>1, FiniteImage
<1>4. Shown(dirs) = UNION U
  BY DEF Shown
<1>5. \A T \in U : \E p \in dirs : T = S(p)
  OBVIOUS
<1> HIDE DEF S, U
<1>6. IsFiniteSet(UNION U)
  <2>1. \A T \in U : IsFiniteSet(T)
    BY <1>2, <1>5
  <2> QED BY <1>3, <2>1, FS_UNION
<1>7. ASSUME NEW q \in Shown(dirs)
      PROVE  /\ ShownPath(q)
             /\ Above(q) \in dirs /\ Last(q) \in readdir(Above(q)) /\ q = Append(Above(q), Last(q))
  <2>1. PICK p \in dirs : \E name \in readdir(p) : q = Append(p, name)
    BY <1>2, <1>4, <1>5
  <2>2. PICK name \in readdir(p) : q = Append(p, name)
    BY <2>1
  <2>3. p \in Path /\ IsShown(name) /\ name \in Names
    BY <1>1, ListingIs DEF IsShown
  <2>4. Above(q) = p /\ Last(q) = name
    BY <2>2, <2>3, RealBehind
  <2>5. q \in Path /\ Len(q) = Len(p) + 1 /\ (\A k \in 1..Len(p) : q[k] = p[k]) /\ q[Len(p) + 1] = name
    BY <2>2, <2>3, NameBehind
  <2>6. \A k \in 1..Len(q) : IsShown(q[k])
    <3>1. \A k \in 1..Len(p) : IsShown(p[k])
      BY DEF ShownPath
    <3>2. Len(p) \in Nat
      BY <2>3, PathNames
    <3>3. \A k \in 1..Len(q) : k \in 1..Len(p) \/ k = Len(p) + 1
      BY <2>5, <3>2
    <3> QED BY <2>3, <2>5, <3>1, <3>3
  <2> QED BY <2>2, <2>4, <2>5, <2>6 DEF ShownPath
<1> QED BY <1>4, <1>6, <1>7

(* One level more. *)
NextDirs(dirs) == dirs \cup {p \in Shown(dirs) : Lookup(p) = "dir"}

DirsSound(dirs) == IsFiniteSet(dirs) /\ \A p \in dirs : ShownPath(p) /\ Lookup(p) = "dir"

(* Finitely many directories show finitely many. *)
LEMMA NextSound ==
  ASSUME TypeOK, NEW dirs, DirsSound(dirs)
  PROVE  DirsSound(NextDirs(dirs))
<1> DEFINE T == {p \in Shown(dirs) : Lookup(p) = "dir"}
<1>1. IsFiniteSet(Shown(dirs)) /\ \A p \in Shown(dirs) : ShownPath(p)
  BY ShownAre DEF DirsSound
<1>2. IsFiniteSet(T) /\ \A p \in T : ShownPath(p) /\ Lookup(p) = "dir"
  BY <1>1, FS_Subset
<1>3. NextDirs(dirs) = dirs \cup T
  BY DEF NextDirs
<1> HIDE DEF T
<1> QED BY <1>2, <1>3, FS_Union DEF DirsSound

(* The directories that a user finds, level by level. *)
LEMMA ShownDirsIs ==
  ASSUME TypeOK
  PROVE  ShownDirs[0] = {<<>>} /\ \A k \in Nat : ShownDirs[k + 1] = NextDirs(ShownDirs[k])
<1> DEFINE X == SUBSET Path
           g == [dirs \in X |-> NextDirs(dirs)]
<1>1. {<<>>} \in X
  BY DEF Path
<1>2. ASSUME NEW dirs \in X PROVE NextDirs(dirs) \in X
  <2>1. ASSUME NEW p \in dirs, NEW name \in readdir(p) PROVE Append(p, name) \in Path
    BY ListingIs, NameBehind DEF IsShown
  <2>2. ASSUME NEW q \in Shown(dirs) PROVE q \in Path
    <3>1. PICK S \in {{Append(p, name) : name \in readdir(p)} : p \in dirs} : q \in S
      BY DEF Shown
    <3>2. PICK p \in dirs : S = {Append(p, name) : name \in readdir(p)}
      BY <3>1
    <3>3. PICK name \in readdir(p) : q = Append(p, name)
      BY <3>1, <3>2
    <3> QED BY <2>1, <3>3
  <2> QED BY <2>2 DEF NextDirs
<1>3. g \in [X -> X]
  <2> HIDE DEF X
  <2> QED BY <1>2
<1>4. PICK f \in [Nat -> X] : f[0] = {<<>>} /\ \A k \in Nat : f[k + 1] = g[f[k]]
  <2>1. \E f \in [Nat -> X] : Iterates(f, {<<>>}, g)
    <3> HIDE DEF g, X
    <3> QED BY <1>1, <1>3, Iteration, Zenon
  <2> QED BY <2>1 DEF Iterates
<1>5. \A k \in Nat : f[k + 1] = NextDirs(f[k])
  <2> HIDE DEF X
  <2> QED BY <1>4
<1> HIDE DEF g, X
<1>6. ASSUME NEW k \in Nat
      PROVE  f[k] = IF k = 0 THEN {<<>>}
                    ELSE f[k - 1] \cup {p \in Shown(f[k - 1]) : Lookup(p) = "dir"}
  <2>1. CASE k = 0
    BY <1>4, <2>1
  <2>2. CASE k # 0
    <3>1. k - 1 \in Nat /\ (k - 1) + 1 = k
      BY <2>2
    <3>2. f[k] = NextDirs(f[k - 1])
      BY <1>5, <3>1
    <3> QED BY <2>2, <3>2 DEF NextDirs
  <2> QED BY <2>1, <2>2
<1>7. f = [k \in Nat |-> IF k = 0 THEN {<<>>}
                         ELSE f[k - 1] \cup {p \in Shown(f[k - 1]) : Lookup(p) = "dir"}]
  <2>1. f = [k \in Nat |-> f[k]]
    BY <1>4
  <2> QED BY <1>6, <2>1
<1>8. ShownDirs = [k \in Nat |-> IF k = 0 THEN {<<>>}
                    ELSE ShownDirs[k - 1] \cup {p \in Shown(ShownDirs[k - 1]) : Lookup(p) = "dir"}]
  BY <1>7 DEF ShownDirs
<1>9. ShownDirs[0] = {<<>>}
  BY <1>8
<1>10. ASSUME NEW k \in Nat
       PROVE  ShownDirs[k + 1] = NextDirs(ShownDirs[k])
  <2>1. k + 1 \in Nat /\ k + 1 # 0 /\ (k + 1) - 1 = k
    OBVIOUS
  <2>2. ShownDirs[k + 1] =
          IF k + 1 = 0 THEN {<<>>}
          ELSE ShownDirs[(k + 1) - 1] \cup {p \in Shown(ShownDirs[(k + 1) - 1]) : Lookup(p) = "dir"}
    BY <1>8, <2>1
  <2> QED BY <2>1, <2>2 DEF NextDirs
<1> QED BY <1>9, <1>10

(* Whatever is found by listing is a path of names that are shown. *)
LEMMA ShownDirsSound ==
  ASSUME TypeOK, NEW depth \in Nat
  PROVE  DirsSound(ShownDirs[depth])
<1> DEFINE S == {k \in Nat : DirsSound(ShownDirs[k])}
<1>1. 0 \in S
  <2>1. IsFiniteSet({<<>>})
    BY FS_Singleton
  <2>2. <<>> \in Path /\ Len(<<>>) = 0
    BY DEF Path
  <2>3. ShownPath(<<>>)
    BY <2>2 DEF ShownPath
  <2>4. Lookup(<<>>) = "dir"
    BY <2>2 DEF Lookup, getattr
  <2> QED BY <2>1, <2>3, <2>4, ShownDirsIs DEF DirsSound
<1>2. ASSUME NEW k \in Nat, k \in S PROVE k + 1 \in S
  BY <1>2, ShownDirsIs, NextSound
<1> HIDE DEF S
<1>3. Nat \subseteq S
  BY <1>1, <1>2, SetInduction
<1> QED BY <1>3 DEF S

(* Every name in a listing is there when it is asked for, but the odd      *)
(* ones, and no file of the disk is shown under two paths.                 *)
LEMMA AllListed ==
  ASSUME TypeOK
  PROVE  ListedResolves
<1> DEFINE dirs   == ShownDirs[Depth]
           shown  == Shown(dirs)
           there  == {p \in shown : Lookup(p) # "none"}
           stored == {p \in there : ~IsVirtual(p)}
           reals  == {Real(p) : p \in stored}
           f      == [p \in stored |-> Real(p)]
<1>1. DirsSound(dirs)
  BY ShownDirsSound DEF Depth
<1> HIDE DEF dirs
<1>2. /\ IsFiniteSet(shown)
      /\ \A q \in shown :
           /\ ShownPath(q)
           /\ Above(q) \in dirs /\ Last(q) \in readdir(Above(q)) /\ q = Append(Above(q), Last(q))
  BY <1>1, ShownAre DEF DirsSound
<1>3. ASSUME NEW p \in shown \ there PROVE IsOddName(Above(p), Last(p))
  <2>1. /\ Lookup(p) = "none" /\ p = Append(Above(p), Last(p))
        /\ Above(p) \in dirs /\ Last(p) \in readdir(Above(p))
    BY <1>2
  <2>2. Above(p) \in Path /\ Lookup(Above(p)) = "dir"
    BY <1>1, <2>1 DEF DirsSound, ShownPath
  <2> QED BY <2>1, <2>2, ListedFound
<1>4. stored \subseteq shown
  OBVIOUS
<1>5. f \in [stored -> reals] /\ reals = {f[p] : p \in stored} /\ \A p \in stored : f[p] = Real(p)
  OBVIOUS
<1>6. IsFiniteSet(stored)
  BY <1>2, <1>4, FS_Subset
<1> HIDE DEF shown, stored, reals, f
<1>7. \A p \in stored : \A q \in stored : f[p] = f[q] => p = q
  BY <1>2, <1>4, <1>5, RealOnce
<1>8. Cardinality(reals) = Cardinality(stored)
  BY <1>5, <1>6, <1>7, FiniteImage
<1> QED BY <1>3, <1>8 DEF ListedResolves, dirs, shown, stored, reals

(* What mlvfs_readdir makes up mlvfs_getattr takes apart, in whichever     *)
(* naming scheme and whatever is on the disk.                              *)
THEOREM ListedAlwaysResolves == Spec => []ListedResolves
<1>1. TypeOK => ListedResolves
  BY AllListed
<1> QED BY <1>1, TypeCorrect, PTL
=============================================================================
