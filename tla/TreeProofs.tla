----------------------------- MODULE TreeProofs -----------------------------
(***************************************************************************)
(* Proofs about Tree and Walker, for any threads, names, contents,         *)
(* requests and bounds, and for any finite set of paths.                   *)
(***************************************************************************)
EXTENDS Walker, SequenceTheorems, FiniteSetTheorems, WellFoundedInduction, TLAPS

-----------------------------------------------------------------------------
(* Paths *)

AllNames == Names \cup OwnNames
Walkways == Seq(AllNames)

(* A prefix agrees with the sequence as far as it goes. *)
LEMMA PrefixDef ==
    ASSUME NEW S, NEW s \in Seq(S), NEW t \in Seq(S)
    PROVE  IsPrefix(s, t) <=> Len(s) <= Len(t) /\ \A i \in 1..Len(s) : s[i] = t[i]
<1>1. ASSUME Len(s) <= Len(t)
      PROVE  SubSeq(s, 1, Len(s)) = SubSeq(t, 1, Len(s)) <=> \A i \in 1..Len(s) : s[i] = t[i]
  <2>1. SubSeq(s, 1, Len(s)) = s
    BY SubSeqFull
  <2>2. \A i \in 1..Len(s) : t[i] \in S
    BY <1>1
  <2>3. /\ SubSeq(t, 1, Len(s)) \in Seq(S)
        /\ Len(SubSeq(t, 1, Len(s))) = Len(s)
        /\ \A i \in 1..Len(s) : SubSeq(t, 1, Len(s))[i] = t[i]
    BY <2>2, SubSeqProperties, Len(s) \in Nat, LenProperties
  <2> QED
    BY <2>1, <2>3, SeqEqual
<1> QED
  BY <1>1 DEF IsPrefix

(* What it is to be under, and within, another path. *)
LEMMA UnderDef ==
    ASSUME NEW q \in Walkways, NEW r \in Walkways
    PROVE  /\ Under(q, r) <=> Len(r) <= Len(q) /\ \A i \in 1..Len(r) : q[i] = r[i]
           /\ Within(q, r) <=> Under(q, r) /\ Len(r) < Len(q)
           /\ Len(q) \in Nat /\ Len(r) \in Nat
<1>1. Under(q, r) <=> Len(r) <= Len(q) /\ \A i \in 1..Len(r) : q[i] = r[i]
  BY PrefixDef DEF Under, Walkways
<1>2. Len(q) \in Nat /\ Len(r) \in Nat
  BY LenProperties DEF Walkways
<1>3. Within(q, r) <=> Under(q, r) /\ r # q
  BY DEF Within, Under, IsStrictPrefix
<1>4. ASSUME Under(q, r), Len(r) = Len(q)
      PROVE  r = q
  BY <1>1, <1>4, SeqEqual DEF Walkways
<1> QED
  BY <1>1, <1>2, <1>3, <1>4

(* A path seen from src and put under dst, name by name *)
LEMMA MovedDef ==
    ASSUME NEW q \in Walkways, NEW src \in Walkways, NEW dst \in Walkways, Under(q, src)
    PROVE  /\ Moved(q, src, dst) \in Walkways
           /\ Len(Moved(q, src, dst)) = Len(dst) + Len(q) - Len(src)
           /\ \A i \in 1..Len(dst) : Moved(q, src, dst)[i] = dst[i]
           /\ \A i \in (Len(src) + 1)..Len(q) :
                  Moved(q, src, dst)[i + Len(dst) - Len(src)] = q[i]
<1> DEFINE rest == SubSeq(q, Len(src) + 1, Len(q))
<1>1. Len(src) <= Len(q) /\ Len(q) \in Nat /\ Len(src) \in Nat /\ Len(dst) \in Nat
  BY UnderDef
<1>2. \A i \in (Len(src) + 1)..Len(q) : q[i] \in AllNames
  BY <1>1 DEF Walkways
<1>3. /\ rest \in Walkways /\ Len(rest) = Len(q) - Len(src)
      /\ \A i \in 1..(Len(q) - Len(src)) : rest[i] = q[Len(src) + i]
  <2>1. /\ rest \in Seq(AllNames)
        /\ Len(rest) = IF Len(src) + 1 <= Len(q) THEN Len(q) - (Len(src) + 1) + 1 ELSE 0
        /\ \A i \in 1 .. Len(q) - (Len(src) + 1) + 1 : rest[i] = q[Len(src) + 1 + i - 1]
    BY <1>1, <1>2, SubSeqProperties
  <2> QED
    BY <2>1, <1>1 DEF Walkways
<1> HIDE DEF rest
<1>4. /\ dst \o rest \in Walkways /\ Len(dst \o rest) = Len(dst) + Len(rest)
      /\ \A i \in 1..(Len(dst) + Len(rest)) :
             (dst \o rest)[i] = IF i <= Len(dst) THEN dst[i] ELSE rest[i - Len(dst)]
  BY <1>3, ConcatProperties DEF Walkways
<1>5. Moved(q, src, dst) = dst \o rest
  BY DEF Moved, rest
<1>6. \A i \in 1..Len(dst) : (dst \o rest)[i] = dst[i]
  BY <1>4, <1>3, <1>1
<1>7. ASSUME NEW i \in (Len(src) + 1)..Len(q)
      PROVE  (dst \o rest)[i + Len(dst) - Len(src)] = q[i]
  <2>1. /\ i + Len(dst) - Len(src) \in 1..(Len(dst) + Len(rest))
        /\ ~(i + Len(dst) - Len(src) <= Len(dst))
        /\ i + Len(dst) - Len(src) - Len(dst) = i - Len(src)
        /\ i - Len(src) \in 1..(Len(q) - Len(src)) /\ Len(src) + (i - Len(src)) = i
    BY <1>1, <1>3
  <2>2. (dst \o rest)[i + Len(dst) - Len(src)] = rest[i - Len(src)]
    BY <1>4, <2>1
  <2> QED
    BY <2>1, <2>2, <1>3
<1> QED
  BY <1>1, <1>3, <1>4, <1>5, <1>6, <1>7
IsPlaced(m, q, src, dst) ==
    /\ m \in Walkways /\ Len(m) = Len(dst) + Len(q) - Len(src)
    /\ \A i \in 1..Len(dst) : m[i] = dst[i]
    /\ \A i \in (Len(src) + 1)..Len(q) : m[i + Len(dst) - Len(src)] = q[i]

LEMMA MovedPlaced ==
    ASSUME NEW q \in Walkways, NEW src \in Walkways, NEW dst \in Walkways, Under(q, src)
    PROVE  IsPlaced(Moved(q, src, dst), q, src, dst)
BY MovedDef DEF IsPlaced

(* Being under is an order, and of two paths over one entry one is over    *)
(* the other.                                                              *)
LEMMA UnderOrder ==
    ASSUME NEW q \in Walkways, NEW r \in Walkways
    PROVE  /\ Under(q, q)
           /\ Under(q, r) /\ Under(r, q) => q = r
           /\ Under(q, r) <=> q = r \/ Within(q, r)
           /\ ~(Within(q, r) /\ Under(r, q))
<1>1. Under(q, r) /\ Len(q) = Len(r) => q = r
  BY UnderDef, SeqEqual DEF Walkways
<1>2. Under(q, q) /\ (q = r => Under(q, r))
  BY UnderDef
<1> QED
  BY <1>1, <1>2, UnderDef

LEMMA UnderTransitive ==
    ASSUME NEW q \in Walkways, NEW r \in Walkways, NEW s \in Walkways
    PROVE  /\ Under(q, r) /\ Under(r, s) => Under(q, s)
           /\ Within(q, r) /\ Under(r, s) => Within(q, s)
           /\ Under(q, r) /\ Within(r, s) => Within(q, s)
           /\ Under(s, q) /\ Under(s, r) => Under(q, r) \/ Within(r, q)
BY UnderDef

(* A path that is moved keeps its place below what moves, and its name     *)
(* unless it is what moves.                                                *)
LEMMA MovedUnder ==
    ASSUME NEW q \in Walkways, NEW src \in Walkways, NEW dst \in Walkways, Under(q, src)
    PROVE  /\ Under(Moved(q, src, dst), dst)
           /\ q # src => Within(Moved(q, src, dst), dst) /\ Last(Moved(q, src, dst)) = Last(q)
           /\ q = src => Moved(q, src, dst) = dst
<1> DEFINE m == Moved(q, src, dst)
<1>1. /\ m \in Walkways /\ Len(m) = Len(dst) + Len(q) - Len(src)
      /\ \A i \in 1..Len(dst) : m[i] = dst[i]
      /\ \A i \in (Len(src) + 1)..Len(q) : m[i + Len(dst) - Len(src)] = q[i]
  BY MovedDef
<1> HIDE DEF m
<1>2. Len(src) <= Len(q) /\ Len(q) \in Nat /\ Len(src) \in Nat /\ Len(dst) \in Nat
  BY UnderDef
<1>3. Under(m, dst)
  BY <1>1, <1>2, UnderDef
<1>4. ASSUME q # src
      PROVE  Within(m, dst) /\ Last(m) = Last(q)
  <2>1. Len(src) < Len(q)
    BY <1>4, UnderOrder, UnderDef
  <2>2. Within(m, dst)
    BY <2>1, <1>1, <1>2, <1>3, UnderDef
  <2>3. Len(q) \in (Len(src) + 1)..Len(q) /\ Len(m) = Len(q) + Len(dst) - Len(src)
    BY <2>1, <1>1, <1>2
  <2> QED
    BY <2>2, <2>3, <1>1 DEF Last
<1>5. ASSUME q = src
      PROVE  m = dst
  <2>1. Len(m) = Len(dst)
    BY <1>5, <1>1, <1>2
  <2>2. Under(dst, m)
    BY <1>1, <1>2, <2>1, UnderDef
  <2> QED
    BY <2>2, <1>1, <1>3, UnderOrder
<1> QED
  BY <1>3, <1>4, <1>5 DEF m

(* What is moved there and back is where it was.                           *)
LEMMA MovedBack ==
    ASSUME NEW q \in Walkways, NEW src \in Walkways, NEW dst \in Walkways, Under(q, src)
    PROVE  Moved(Moved(q, src, dst), dst, src) = q
<1> DEFINE m == Moved(q, src, dst)
           b == Moved(m, dst, src)
<1>1. /\ m \in Walkways /\ Len(m) = Len(dst) + Len(q) - Len(src)
      /\ \A i \in (Len(src) + 1)..Len(q) : m[i + Len(dst) - Len(src)] = q[i]
  BY MovedDef
<1>2. Under(m, dst)
  BY MovedUnder
<1> HIDE DEF m
<1>0. IsPlaced(b, m, dst, src)
  BY <1>1, <1>2, MovedPlaced
<1> HIDE DEF b
<1>3. /\ b \in Walkways /\ Len(b) = Len(src) + Len(m) - Len(dst)
      /\ \A i \in 1..Len(src) : b[i] = src[i]
      /\ \A i \in (Len(dst) + 1)..Len(m) : b[i + Len(src) - Len(dst)] = m[i]
  BY <1>0 DEF IsPlaced
<1>4. /\ Len(src) <= Len(q) /\ Len(q) \in Nat /\ Len(src) \in Nat /\ Len(dst) \in Nat
      /\ \A i \in 1..Len(src) : q[i] = src[i]
  BY UnderDef
<1>5. Len(b) = Len(q)
  BY <1>1, <1>3, <1>4
<1>6. ASSUME NEW i \in (Len(src) + 1)..Len(q)
      PROVE  b[i] = q[i]
  <2>1. i + Len(dst) - Len(src) \in (Len(dst) + 1)..Len(m)
    BY <1>1, <1>4
  <2>2. b[(i + Len(dst) - Len(src)) + Len(src) - Len(dst)] = m[i + Len(dst) - Len(src)]
    BY <2>1, <1>3
  <2>3. (i + Len(dst) - Len(src)) + Len(src) - Len(dst) = i
    BY <1>4
  <2> QED
    BY <2>2, <2>3, <1>1
<1>7. \A i \in 1..Len(b) : b[i] = q[i]
  BY <1>3, <1>4, <1>5, <1>6
<1> QED
  BY <1>3, <1>5, <1>7, SeqEqual DEF Walkways, b, m

(* Moving keeps the order of what is moved.                                *)
LEMMA MovedOrder ==
    ASSUME NEW q \in Walkways, NEW r \in Walkways, NEW src \in Walkways, NEW dst \in Walkways,
           Under(q, src), Under(r, src)
    PROVE  /\ Under(q, r) <=> Under(Moved(q, src, dst), Moved(r, src, dst))
           /\ Within(q, r) <=> Within(Moved(q, src, dst), Moved(r, src, dst))
           /\ q = r <=> Moved(q, src, dst) = Moved(r, src, dst)
<1>0. ASSUME NEW a \in Walkways, NEW b \in Walkways, NEW s \in Walkways, NEW d \in Walkways,
             Under(a, s), Under(b, s), Under(a, b)
      PROVE  Under(Moved(a, s, d), Moved(b, s, d))
  <2> DEFINE m == Moved(a, s, d)
             n == Moved(b, s, d)
  <2>0. IsPlaced(m, a, s, d) /\ IsPlaced(n, b, s, d)
    BY <1>0, MovedPlaced
  <2> HIDE DEF m, n
  <2>1. /\ m \in Walkways /\ Len(m) = Len(d) + Len(a) - Len(s)
        /\ \A i \in 1..Len(d) : m[i] = d[i]
        /\ \A i \in (Len(s) + 1)..Len(a) : m[i + Len(d) - Len(s)] = a[i]
    BY <2>0 DEF IsPlaced
  <2>2. /\ n \in Walkways /\ Len(n) = Len(d) + Len(b) - Len(s)
        /\ \A i \in 1..Len(d) : n[i] = d[i]
        /\ \A i \in (Len(s) + 1)..Len(b) : n[i + Len(d) - Len(s)] = b[i]
    BY <2>0 DEF IsPlaced
  <2>3. /\ Len(s) <= Len(a) /\ Len(s) <= Len(b) /\ Len(b) <= Len(a)
        /\ Len(a) \in Nat /\ Len(b) \in Nat /\ Len(s) \in Nat /\ Len(d) \in Nat
        /\ \A i \in 1..Len(b) : a[i] = b[i]
    BY <1>0, UnderDef
  <2>4. ASSUME NEW i \in (Len(d) + 1)..Len(n)
        PROVE  m[i] = n[i]
    <3>1. /\ i + Len(s) - Len(d) \in (Len(s) + 1)..Len(b)
          /\ i + Len(s) - Len(d) \in (Len(s) + 1)..Len(a)
          /\ i + Len(s) - Len(d) \in 1..Len(b)
          /\ (i + Len(s) - Len(d)) + Len(d) - Len(s) = i
      BY <2>2, <2>3
    <3>2. n[i] = b[i + Len(s) - Len(d)]
      BY <3>1, <2>2
    <3>3. m[i] = a[i + Len(s) - Len(d)]
      BY <3>1, <2>1
    <3> QED
      BY <3>1, <3>2, <3>3, <2>3
  <2>5. ASSUME NEW i \in 1..Len(n)
        PROVE  m[i] = n[i]
    <3>1. CASE i <= Len(d)
      BY <3>1, <2>1, <2>2, <2>3
    <3>2. CASE ~(i <= Len(d))
      <4>1. i \in (Len(d) + 1)..Len(n)
        BY <3>2, <2>2, <2>3
      <4> QED
        BY <4>1, <2>4
    <3> QED
      BY <3>1, <3>2
  <2> QED
    BY <2>1, <2>2, <2>3, <2>5, UnderDef DEF m, n
<1>1. /\ Moved(q, src, dst) \in Walkways /\ Moved(r, src, dst) \in Walkways
      /\ Under(Moved(q, src, dst), dst) /\ Under(Moved(r, src, dst), dst)
      /\ Moved(Moved(q, src, dst), dst, src) = q /\ Moved(Moved(r, src, dst), dst, src) = r
  BY MovedDef, MovedUnder, MovedBack
<1>2. Under(q, r) <=> Under(Moved(q, src, dst), Moved(r, src, dst))
  <2>1. Under(q, r) => Under(Moved(q, src, dst), Moved(r, src, dst))
    BY <1>0
  <2>2. ASSUME Under(Moved(q, src, dst), Moved(r, src, dst))
        PROVE  Under(Moved(Moved(q, src, dst), dst, src), Moved(Moved(r, src, dst), dst, src))
    BY <1>0, <1>1, <2>2
  <2> QED
    BY <2>1, <2>2, <1>1
<1>3. q = r <=> Moved(q, src, dst) = Moved(r, src, dst)
  BY <1>1
<1> QED
  BY <1>1, <1>2, <1>3, UnderOrder

(* Two moves that go the same way                                          *)
LEMMA MovedThrough ==
    ASSUME NEW q \in Walkways, NEW r \in Walkways, NEW src \in Walkways, NEW dst \in Walkways,
           Under(r, src), Under(q, r)
    PROVE  Moved(q, r, Moved(r, src, dst)) = Moved(q, src, dst)
<1> DEFINE n == Moved(r, src, dst)
           m == Moved(q, src, dst)
           x == Moved(q, r, n)
<1>0. Under(q, src)
  BY UnderTransitive
<1>1. /\ n \in Walkways /\ Len(n) = Len(dst) + Len(r) - Len(src)
      /\ \A i \in 1..Len(dst) : n[i] = dst[i]
      /\ \A i \in (Len(src) + 1)..Len(r) : n[i + Len(dst) - Len(src)] = r[i]
  <2>1. IsPlaced(n, r, src, dst)
    BY MovedPlaced
  <2> HIDE DEF n
  <2> QED
    BY <2>1 DEF IsPlaced
<1>2. /\ m \in Walkways /\ Len(m) = Len(dst) + Len(q) - Len(src) /\ Under(m, n)
      /\ \A i \in (Len(src) + 1)..Len(q) : m[i + Len(dst) - Len(src)] = q[i]
  <2>1. Under(r, src) /\ Under(q, src) /\ Under(q, r)
    BY <1>0
  <2>2. Under(m, n)
    BY <2>1, MovedOrder
  <2> QED
    BY <2>2, <1>0, MovedDef
<1> HIDE DEF n, m
<1>p. IsPlaced(x, q, r, n)
  BY <1>1, MovedPlaced
<1> HIDE DEF x
<1>3. /\ x \in Walkways /\ Len(x) = Len(n) + Len(q) - Len(r)
      /\ \A i \in 1..Len(n) : x[i] = n[i]
      /\ \A i \in (Len(r) + 1)..Len(q) : x[i + Len(n) - Len(r)] = q[i]
  BY <1>p DEF IsPlaced
<1>4. /\ Len(src) <= Len(r) /\ Len(r) <= Len(q) /\ Len(q) \in Nat /\ Len(r) \in Nat
      /\ Len(src) \in Nat /\ Len(dst) \in Nat
  BY UnderDef
<1>5. Len(x) = Len(m)
  BY <1>1, <1>2, <1>3, <1>4
<1>6. \A i \in 1..Len(n) : x[i] = m[i]
  <2>1. \A i \in 1..Len(n) : m[i] = n[i]
    BY <1>1, <1>2, UnderDef
  <2> QED
    BY <2>1, <1>3
<1>7. ASSUME NEW i \in (Len(n) + 1)..Len(m)
      PROVE  x[i] = m[i]
  <2>1. /\ i + Len(r) - Len(n) \in (Len(r) + 1)..Len(q)
        /\ i + Len(r) - Len(n) \in (Len(src) + 1)..Len(q)
        /\ (i + Len(r) - Len(n)) + Len(n) - Len(r) = i
        /\ (i + Len(r) - Len(n)) + Len(dst) - Len(src) = i
    BY <1>1, <1>2, <1>4
  <2>2. x[i] = q[i + Len(r) - Len(n)]
    BY <2>1, <1>3
  <2>3. m[i] = q[i + Len(r) - Len(n)]
    BY <2>1, <1>2
  <2> QED
    BY <2>2, <2>3
<1>8. \A i \in 1..Len(x) : x[i] = m[i]
  BY <1>1, <1>4, <1>5, <1>6, <1>7
<1> QED
  BY <1>2, <1>3, <1>5, <1>8, SeqEqual DEF Walkways, x, m, n
(* The path above an entry                                                 *)
LEMMA ParentFacts ==
    ASSUME NEW q \in Walkways, q # <<>>
    PROVE  /\ Parent(q) \in Walkways /\ Len(Parent(q)) = Len(q) - 1
           /\ Within(q, Parent(q)) /\ Last(q) \in AllNames
           /\ q = Append(Parent(q), Last(q))
           /\ \A r \in Walkways : Within(q, r) => Under(Parent(q), r)
<1>1. Len(q) \in Nat /\ Len(q) > 0
  BY EmptySeq, LenProperties DEF Walkways
<1>2. \A i \in 1..Len(q) : q[i] \in AllNames
  BY DEF Walkways
<1>3. /\ Parent(q) \in Walkways /\ Len(Parent(q)) = Len(q) - 1
      /\ \A i \in 1..(Len(q) - 1) : Parent(q)[i] = q[i]
  <2>1. \A i \in 1..(Len(q) - 1) : q[i] \in AllNames
    BY <1>1, <1>2
  <2>2. Parent(q) = SubSeq(q, 1, Len(q) - 1)
    BY DEF Parent, Front
  <2>3. /\ SubSeq(q, 1, Len(q) - 1) \in Seq(AllNames)
        /\ Len(SubSeq(q, 1, Len(q) - 1)) = IF 1 <= Len(q) - 1 THEN Len(q) - 1 - 1 + 1 ELSE 0
        /\ \A i \in 1 .. Len(q) - 1 - 1 + 1 : SubSeq(q, 1, Len(q) - 1)[i] = q[1 + i - 1]
    BY <1>1, <2>1, SubSeqProperties
  <2>4. Parent(q) \in Walkways
    BY <2>2, <2>3 DEF Walkways
  <2>6. Len(Parent(q)) = Len(q) - 1
    <3>1. CASE 1 <= Len(q) - 1
      BY <1>1, <2>2, <2>3, <3>1
    <3>2. CASE ~(1 <= Len(q) - 1)
      <4>1. \A n \in Nat : n > 0 /\ ~(1 <= n - 1) => n - 1 = 0
        OBVIOUS
      <4>2. Len(q) - 1 = 0
        BY <1>1, <3>2, <4>1
      <4>3. Len(Parent(q)) = 0
        BY <2>2, <2>3, <3>2
      <4> QED
        BY <4>2, <4>3
    <3> QED
      BY <3>1, <3>2
  <2>5. ASSUME NEW i \in 1..(Len(q) - 1)
        PROVE  Parent(q)[i] = q[i]
    BY <1>1, <2>2, <2>3
  <2> QED
    BY <2>4, <2>5, <2>6
<1>4. Within(q, Parent(q))
  BY <1>1, <1>3, UnderDef
<1>5. Last(q) \in AllNames
  BY <1>1, <1>2 DEF Last
<1>6. q = Append(Parent(q), Last(q))
  <2>1. /\ Append(Parent(q), Last(q)) \in Seq(AllNames)
        /\ Len(Append(Parent(q), Last(q))) = Len(Parent(q)) + 1
        /\ \A i \in 1..Len(Parent(q)) : Append(Parent(q), Last(q))[i] = Parent(q)[i]
        /\ Append(Parent(q), Last(q))[Len(Parent(q)) + 1] = Last(q)
    BY <1>3, <1>5, AppendProperties DEF Walkways
  <2>2. Len(Append(Parent(q), Last(q))) = Len(q)
    BY <2>1, <1>3, <1>1
  <2>3. ASSUME NEW i \in 1..Len(q)
        PROVE  q[i] = Append(Parent(q), Last(q))[i]
    <3>1. CASE i = Len(q)
      BY <3>1, <2>1, <1>3, <1>1 DEF Last
    <3>2. CASE i # Len(q)
      <4>1. i \in 1..(Len(q) - 1)
        BY <3>2, <1>1
      <4> QED
        BY <4>1, <2>1, <1>3
    <3> QED
      BY <3>1, <3>2
  <2> QED
    BY <2>1, <2>2, <2>3, SeqEqual DEF Walkways
<1>7. ASSUME NEW r \in Walkways, Within(q, r)
      PROVE  Under(Parent(q), r)
  <2>1. Len(r) < Len(q) /\ Len(r) \in Nat /\ \A i \in 1..Len(r) : q[i] = r[i]
    BY <1>7, UnderDef
  <2>2. Len(r) <= Len(Parent(q)) /\ \A i \in 1..Len(r) : Parent(q)[i] = r[i]
    BY <2>1, <1>1, <1>3
  <2> QED
    BY <2>2, <1>3, UnderDef
<1> QED
  BY <1>3, <1>4, <1>5, <1>6, <1>7

LEMMA AppendFacts ==
    ASSUME NEW p \in Walkways, NEW n \in AllNames
    PROVE  /\ Append(p, n) \in Walkways /\ Append(p, n) # <<>>
           /\ Parent(Append(p, n)) = p /\ Last(Append(p, n)) = n
<1> DEFINE q == Append(p, n)
<1>1. /\ q \in Walkways /\ q # <<>> /\ Len(q) = Len(p) + 1
      /\ \A i \in 1..Len(p) : q[i] = p[i]
      /\ q[Len(p) + 1] = n
  BY AppendProperties DEF Walkways
<1> HIDE DEF q
<1>2. Last(q) = n
  BY <1>1 DEF Last
<1>3. q = Append(Parent(q), Last(q)) /\ Parent(q) \in Walkways /\ Last(q) \in AllNames
  BY <1>1, ParentFacts
<1>4. Append(Parent(q), Last(q)) = Append(p, n)
  BY <1>3 DEF q
<1>5. Parent(q) = p
  BY <1>3, <1>4, AppendInjective DEF Walkways
<1> QED
  BY <1>1, <1>2, <1>5 DEF q

(* The paths of the root, and those a caller may name                      *)
Given == {q \in Paths : ~Own(q)}

LEMMA PathsAreWalkways ==
    /\ Paths \subseteq Walkways /\ <<>> \notin Paths /\ <<>> \in Walkways
    /\ Given \subseteq Paths /\ Visible \subseteq Given /\ IsFiniteSet(Paths)
BY PathsAssumption DEF Walkways, AllNames, Given, Visible

(* With a path come those above it.                                        *)
LEMMA PathAbove ==
    ASSUME NEW q \in Paths, NEW r \in Walkways, r # <<>>, Under(q, r)
    PROVE  r \in Paths
<1>1. q \in Walkways
  BY PathsAreWalkways
<1>2. Len(r) \in 1..Len(q)
  BY <1>1, UnderDef, EmptySeq DEF Walkways
<1>3. SubSeq(q, 1, Len(r)) = SubSeq(r, 1, Len(r))
  BY DEF Under, IsPrefix
<1>4. SubSeq(r, 1, Len(r)) = r
  BY SubSeqFull DEF Walkways
<1>5. SubSeq(q, 1, Len(r)) \in Paths
  BY <1>2, PathsAssumption
<1> QED
  BY <1>3, <1>4, <1>5

LEMMA ParentPath ==
    ASSUME NEW q \in Paths
    PROVE  Parent(q) \in Walkways /\ (Parent(q) # <<>> => Parent(q) \in Paths) /\ q # <<>>
<1>1. q \in Walkways /\ q # <<>>
  BY PathsAreWalkways
<1>2. Parent(q) \in Walkways /\ Under(q, Parent(q))
  BY <1>1, ParentFacts, UnderOrder
<1> QED
  BY <1>1, <1>2, PathAbove

(* The names operations make for themselves are nobody else's.             *)
LEMMA OwnNamesFacts ==
    /\ OwnNames \subseteq AllNames
    /\ \A n \in Ids : Copying[n] \in OwnNames /\ Replaced[n] \in OwnNames
    /\ \A m, n \in Ids : /\ Copying[m] # Replaced[n]
                         /\ Copying[m] = Copying[n] => m = n
                         /\ Replaced[m] = Replaced[n] => m = n
BY NamesAssumption DEF OwnNames, AllNames

LEMMA OwnFacts ==
    ASSUME NEW q \in Walkways
    PROVE  /\ q # <<>> /\ Last(q) \in OwnNames => Own(q)
           /\ \A r \in Walkways : Under(q, r) /\ Own(r) => Own(q)
           /\ ~Own(<<>>)
<1>1. ASSUME q # <<>>, Last(q) \in OwnNames
      PROVE  Own(q)
  <2>1. Len(q) \in 1..Len(q)
    BY <1>1, EmptySeq DEF Walkways
  <2> QED
    BY <2>1, <1>1 DEF Own, Last
<1>2. ASSUME NEW r \in Walkways, Under(q, r), Own(r)
      PROVE  Own(q)
  <2>1. PICK i \in 1..Len(r) : r[i] \in OwnNames
    BY <1>2 DEF Own
  <2>2. i \in 1..Len(q) /\ q[i] = r[i]
    BY <1>2, UnderDef
  <2> QED
    BY <2>1, <2>2 DEF Own
<1>3. ~Own(<<>>)
  BY DEF Own
<1> QED
  BY <1>1, <1>2, <1>3

(* What is moved from one given name to another has no name but given ones *)
(* when it had none before.                                                *)
LEMMA OwnMoved ==
    ASSUME NEW q \in Walkways, NEW src \in Walkways, NEW dst \in Walkways,
           Under(q, src), ~Own(q), ~Own(dst)
    PROVE  ~Own(Moved(q, src, dst))
<1> DEFINE m == Moved(q, src, dst)
<1>1. /\ m \in Walkways /\ Len(m) = Len(dst) + Len(q) - Len(src)
      /\ \A i \in 1..Len(dst) : m[i] = dst[i]
      /\ \A i \in (Len(src) + 1)..Len(q) : m[i + Len(dst) - Len(src)] = q[i]
  BY MovedPlaced DEF IsPlaced
<1> HIDE DEF m
<1>2. Len(src) <= Len(q) /\ Len(q) \in Nat /\ Len(src) \in Nat /\ Len(dst) \in Nat
  BY UnderDef
<1>3. ASSUME NEW i \in 1..Len(m)
      PROVE  m[i] \notin OwnNames
  <2>1. CASE i <= Len(dst)
    BY <2>1, <1>1, <1>2 DEF Own
  <2>2. CASE ~(i <= Len(dst))
    <3>1. /\ i + Len(src) - Len(dst) \in (Len(src) + 1)..Len(q)
          /\ i + Len(src) - Len(dst) \in 1..Len(q)
          /\ (i + Len(src) - Len(dst)) + Len(dst) - Len(src) = i
      BY <2>2, <1>1, <1>2
    <3>2. m[i] = q[i + Len(src) - Len(dst)]
      BY <3>1, <1>1
    <3> QED
      BY <3>1, <3>2 DEF Own
  <2> QED
    BY <2>1, <2>2
<1> QED
  BY <1>3 DEF Own, m

(* A name of its own beside an entry: what is above it is above the entry, *)
(* and it is above no entry that a caller may name.                        *)
LEMMA Beside ==
    ASSUME NEW q \in Given, NEW o \in OwnNames
    PROVE  LET s == Append(Parent(q), o) IN
           /\ s \in Paths /\ Own(s) /\ Last(s) = o /\ Parent(s) = Parent(q)
           /\ \A r \in Given : ~Under(r, s) /\ (Under(s, r) <=> Within(q, r))
           /\ \A r \in Walkways : Within(s, r) <=> Within(q, r)
<1> DEFINE s == Append(Parent(q), o)
<1>1. q \in Paths /\ ~Own(q) /\ q \in Walkways /\ q # <<>>
  BY PathsAreWalkways DEF Given
<1>2. s \in Paths
  BY <1>1, PathsAssumption
<1>3. Parent(q) \in Walkways /\ Within(q, Parent(q)) /\ \A r \in Walkways : Within(q, r) => Under(Parent(q), r)
  BY <1>1, ParentFacts
<1>4. s \in Walkways /\ s # <<>> /\ Parent(s) = Parent(q) /\ Last(s) = o
  BY <1>3, AppendFacts, OwnNamesFacts
<1>5. Own(s)
  BY <1>4, OwnFacts
<1>6. Within(s, Parent(s)) /\ \A r \in Walkways : Within(s, r) => Under(Parent(s), r)
  BY <1>4, ParentFacts
<1> HIDE DEF s
<1>7. \A r \in Walkways : Within(s, r) <=> Within(q, r)
  BY <1>1, <1>3, <1>4, <1>6, UnderTransitive
<1>8. ASSUME NEW r \in Given
      PROVE  ~Under(r, s) /\ (Under(s, r) <=> Within(q, r))
  <2>1. r \in Walkways /\ ~Own(r)
    BY PathsAreWalkways DEF Given
  <2>2. ~Under(r, s)
    BY <2>1, <1>4, <1>5, OwnFacts
  <2>3. s # r
    BY <2>1, <1>5
  <2> QED
    BY <2>1, <2>2, <2>3, <1>4, <1>7, UnderOrder
<1> QED
  BY <1>2, <1>4, <1>5, <1>7, <1>8 DEF s
-----------------------------------------------------------------------------
(* The work of a thread *)

CopyPcs == {"copy", "dir", "file", "mkdir", "list", "next", "open", "temp", "data",
            "backup", "commit", "swap", "undo", "unback", "drop"}
OpPcs   == CopyPcs \cup {"rename", "delete", "deltree", "clear", "create", "close",
                         "mkone", "mkdir1", "done"}
WalkPcs == {"walkdir", "entry", "pop", "makedir", "export", "done"}

OpFields == {"id", "pc", "op", "src", "dst", "over", "from", "to", "todo", "had", "data",
             "dir", "alone", "before", "ok"}
WalkFields == {"id", "pc", "op", "src", "opt", "alone", "before", "ok", "counting", "dir",
               "raw", "seen", "stack", "got", "copied"}

(* An entry to be copied, with its target                                  *)
ToCopy(src, dst) ==
    {e \in [from: Given, to: Given, dir: BOOLEAN] :
        Under(e.from, src) /\ e.to = Moved(e.from, src, dst)}

(* Where an operation stands goes with what it is: it only gets to a step  *)
(* that replaces a file when it may overwrite.                             *)
PcFits(j) ==
    /\ j.pc \in CopyPcs => j.op \in {"copy", "move"}
    /\ j.pc = "rename" => j.op \in {"rename", "move"}
    /\ j.pc = "delete" => j.op \in {"delete", "move"}
    /\ j.pc \in {"deltree", "clear"} => j.op \in {"deltree", "move"}
    /\ j.pc \in {"create", "close"} => j.op = "create"
    /\ j.pc \in {"mkone", "mkdir1"} => j.op = "mkone"
    /\ j.pc \in {"backup", "swap", "undo", "unback"} => j.over
    /\ j.pc \in {"open", "temp", "data"} /\ j.had => j.over
    /\ j.pc \in {"temp", "data"} => j.data \in Old \cup {Empty}

(* The work of one operation: it is at an entry under its source and at    *)
(* the place of that entry under its target, and so is all that is left.   *)
OpJob(j) ==
    /\ OpFields \subseteq DOMAIN j /\ j.pc \in OpPcs /\ j.id \in Ids /\ j.op \in Ops
    /\ j.src \in Given /\ j.dst \in Given /\ j.over \in BOOLEAN /\ j.had \in BOOLEAN
    /\ j.from \in Given /\ Under(j.from, j.src)
    /\ j.to \in Given /\ j.to = Moved(j.from, j.src, j.dst)
    /\ j.todo \in Seq(ToCopy(j.src, j.dst))
    /\ PcFits(j)

WalkJob(j) ==
    /\ WalkFields \subseteq DOMAIN j /\ j.pc \in WalkPcs /\ j.id \in Ids
    /\ j.op \in {"list", "export"} /\ j.alone = FALSE

JobOK(j) == j = Idle \/ OpJob(j) \/ WalkJob(j)

(* The job goes on, but for who else is at work.                           *)
SameWork(k, j) ==
    /\ DOMAIN k = DOMAIN j
    /\ \A f \in DOMAIN j : f \notin {"alone", "before"} => k[f] = j[f]

LEMMA DisturbedSame ==
    ASSUME NEW j, JobOK(j)
    PROVE  SameWork(Disturbed(j), j) /\ JobOK(Disturbed(j)) /\ Disturbed(j).pc = j.pc
<1>1. CASE j = Idle
  BY <1>1 DEF Idle, Disturbed, SameWork, JobOK
<1>2. CASE OpJob(j)
  <2>1. OpFields \subseteq DOMAIN j /\ j.pc # "idle"
    BY <1>2 DEF OpJob, OpPcs, CopyPcs
  <2>2. Disturbed(j) = [j EXCEPT !.alone = FALSE, !.before = <<>>]
    BY <2>1 DEF Disturbed
  <2>3. SameWork(Disturbed(j), j)
    BY <2>1, <2>2 DEF SameWork, OpFields
  <2>4. OpJob(Disturbed(j))
    BY <1>2, <2>1, <2>3 DEF OpJob, SameWork, PcFits, OpFields
  <2> QED
    BY <2>1, <2>3, <2>4 DEF JobOK, SameWork, OpFields
<1>3. CASE WalkJob(j)
  <2>1. WalkFields \subseteq DOMAIN j /\ j.pc # "idle"
    BY <1>3 DEF WalkJob, WalkPcs
  <2>2. Disturbed(j) = [j EXCEPT !.alone = FALSE, !.before = <<>>]
    BY <2>1 DEF Disturbed
  <2>3. SameWork(Disturbed(j), j) /\ Disturbed(j).alone = FALSE
    BY <2>1, <2>2 DEF SameWork, WalkFields
  <2>4. WalkJob(Disturbed(j))
    BY <1>3, <2>1, <2>3 DEF WalkJob, SameWork, WalkFields
  <2> QED
    BY <2>1, <2>3, <2>4 DEF JobOK, SameWork, WalkFields
<1> QED
  BY <1>1, <1>2, <1>3 DEF JobOK

JobsOK == DOMAIN job = Threads /\ \A t \in Threads : JobOK(job[t])

(* One thread goes on.                                                     *)
LEMMA GotoJobs ==
    ASSUME JobsOK, NEW t \in Threads, NEW d, Goto(t, d)
    PROVE  /\ DOMAIN job' = Threads /\ job'[t] = With(d, job[t])
           /\ \A u \in Threads \ {t} : /\ SameWork(job'[u], job[u]) /\ JobOK(job'[u])
                                       /\ job'[u].pc = job[u].pc
                                       /\ job'[u] = Disturbed(job[u])
<1>1. DOMAIN job' = Threads /\ job'[t] = With(d, job[t])
  BY DEF Goto
<1>2. \A u \in Threads \ {t} : job'[u] = Disturbed(job[u])
  BY DEF Goto
<1> QED
  BY <1>1, <1>2, DisturbedSame DEF JobsOK

(* A step of an operation that changes only its place in the code          *)
LEMMA OpAt ==
    ASSUME NEW j, OpJob(j), NEW p \in OpPcs, PcFits(With([pc |-> p], j))
    PROVE  OpJob(With([pc |-> p], j)) /\ With([pc |-> p], j).pc = p
BY DEF OpJob, With, OpFields

LEMMA OpEnd ==
    ASSUME NEW j, OpJob(j), NEW ok
    PROVE  OpJob(With([pc |-> "done", ok |-> ok], j)) /\ With([pc |-> "done", ok |-> ok], j).pc = "done"
<1>1. PcFits(With([pc |-> "done", ok |-> ok], j))
  BY DEF PcFits, CopyPcs, OpJob, With, OpFields
<1> QED
  BY <1>1 DEF OpJob, With, OpFields, OpPcs

LEMMA WalkEnd ==
    ASSUME NEW j, WalkJob(j), NEW ok
    PROVE  WalkJob(With([pc |-> "done", ok |-> ok], j)) /\ With([pc |-> "done", ok |-> ok], j).pc = "done"
BY DEF WalkJob, With, WalkFields, WalkPcs
-----------------------------------------------------------------------------
(* What a step does to the work of its thread *)

Keeps(k, j) ==
    k.id = j.id /\ k.op = j.op /\ k.src = j.src /\ k.dst = j.dst /\ k.over = j.over

SamePlace(k, j) == k.from = j.from /\ k.to = j.to

OthersKeep(t) ==
    /\ DOMAIN job' = Threads
    /\ \A u \in Threads \ {t} :
          /\ SameWork(job'[u], job[u]) /\ JobOK(job'[u]) /\ job'[u].pc = job[u].pc
          /\ job'[u] = Disturbed(job[u])

(* The operation of t goes on.                                             *)
Goes(t) ==
    /\ OpJob(job[t]) /\ OpJob(job'[t]) /\ Keeps(job'[t], job[t])
    /\ OthersKeep(t)

LEMMA AtOp ==
    ASSUME JobsOK, NEW t \in Threads, job[t].pc \in OpPcs \ {"done"}
    PROVE  OpJob(job[t])
<1>1. JobOK(job[t])
  BY DEF JobsOK
<1>2. job[t] # Idle
  BY DEF Idle, OpPcs, CopyPcs
<1>3. ~WalkJob(job[t])
  BY DEF WalkJob, WalkPcs, OpPcs, CopyPcs
<1> QED
  BY <1>1, <1>2, <1>3 DEF JobOK

LEMMA GoesTo ==
    ASSUME JobsOK, NEW t \in Threads, OpJob(job[t]), NEW p \in OpPcs,
           Goto(t, [pc |-> p]), PcFits(With([pc |-> p], job[t]))
    PROVE  Goes(t) /\ job'[t].pc = p /\ SamePlace(job'[t], job[t])
<1>1. OthersKeep(t) /\ job'[t] = With([pc |-> p], job[t])
  BY GotoJobs DEF OthersKeep
<1>2. OpJob(job'[t]) /\ job'[t].pc = p
  BY <1>1, OpAt
<1>3. Keeps(job'[t], job[t]) /\ SamePlace(job'[t], job[t])
  BY <1>1 DEF Keeps, SamePlace, With, OpJob, OpFields
<1> QED
  BY <1>1, <1>2, <1>3 DEF Goes

LEMMA GoesToEnd ==
    ASSUME JobsOK, NEW t \in Threads, OpJob(job[t]), NEW ok, End(t, ok)
    PROVE  /\ Goes(t) /\ job'[t].pc = "done" /\ SamePlace(job'[t], job[t])
           /\ job'[t].ok = ok
<1>1. OthersKeep(t) /\ job'[t] = With([pc |-> "done", ok |-> ok], job[t])
  BY GotoJobs DEF OthersKeep, End
<1>2. OpJob(job'[t]) /\ job'[t].pc = "done"
  BY <1>1, OpEnd
<1>3. Keeps(job'[t], job[t]) /\ SamePlace(job'[t], job[t]) /\ job'[t].ok = ok
  BY <1>1 DEF Keeps, SamePlace, With, OpJob, OpFields
<1> QED
  BY <1>1, <1>2, <1>3 DEF Goes

LEMMA CopyEntryJob ==
    ASSUME JobsOK, NEW t \in Threads, CopyEntry(t)
    PROVE  Goes(t) /\ job'[t].pc \in {"done", "dir", "file"} /\ SamePlace(job'[t], job[t])
<1>1. OpJob(job[t]) /\ job[t].pc = "copy"
  BY AtOp DEF CopyEntry, At, OpPcs, CopyPcs
<1>2. PcFits(With([pc |-> "dir"], job[t])) /\ PcFits(With([pc |-> "file"], job[t]))
  BY <1>1 DEF PcFits, CopyPcs, OpJob, With, OpFields
<1>3. End(t, FALSE) \/ \E p \in {"dir", "file"} : Goto(t, [pc |-> p])
  BY DEF CopyEntry, Fails
<1> QED
  BY <1>1, <1>2, <1>3, GoesTo, GoesToEnd DEF OpPcs, CopyPcs

LEMMA CopyDirectoryJob ==
    ASSUME JobsOK, NEW t \in Threads, CopyDirectory(t)
    PROVE  Goes(t) /\ job'[t].pc \in {"done", "list", "mkdir"} /\ SamePlace(job'[t], job[t])
<1>1. OpJob(job[t]) /\ job[t].pc = "dir"
  BY AtOp DEF CopyDirectory, At, OpPcs, CopyPcs
<1>2. PcFits(With([pc |-> "list"], job[t])) /\ PcFits(With([pc |-> "mkdir"], job[t]))
  BY <1>1 DEF PcFits, CopyPcs, OpJob, With, OpFields
<1>3. End(t, FALSE) \/ \E p \in {"list", "mkdir"} : Goto(t, [pc |-> p])
  BY DEF CopyDirectory
<1> QED
  BY <1>1, <1>2, <1>3, GoesTo, GoesToEnd DEF OpPcs, CopyPcs

LEMMA CopyMkdirJob ==
    ASSUME JobsOK, NEW t \in Threads, CopyMkdir(t)
    PROVE  Goes(t) /\ job'[t].pc \in {"done", "list"} /\ SamePlace(job'[t], job[t])
<1>1. OpJob(job[t]) /\ job[t].pc = "mkdir"
  BY AtOp DEF CopyMkdir, At, OpPcs, CopyPcs
<1>2. PcFits(With([pc |-> "list"], job[t]))
  BY <1>1 DEF PcFits, CopyPcs, OpJob, With, OpFields
<1>3. End(t, FALSE) \/ Goto(t, [pc |-> "list"])
  BY DEF CopyMkdir, Fails
<1> QED
  BY <1>1, <1>2, <1>3, GoesTo, GoesToEnd DEF OpPcs, CopyPcs

LEMMA CopyUnbackJob ==
    ASSUME JobsOK, NEW t \in Threads, CopyUnback(t)
    PROVE  Goes(t) /\ job'[t].pc \in {"done", "next"} /\ SamePlace(job'[t], job[t])
<1>1. OpJob(job[t]) /\ job[t].pc = "unback"
  BY AtOp DEF CopyUnback, At, OpPcs, CopyPcs
<1>2. PcFits(With([pc |-> "next"], job[t]))
  BY <1>1 DEF PcFits, CopyPcs, OpJob, With, OpFields
<1>3. End(t, FALSE) \/ Goto(t, [pc |-> "next"])
  BY DEF CopyUnback, Fails
<1> QED
  BY <1>1, <1>2, <1>3, GoesTo, GoesToEnd DEF OpPcs, CopyPcs

LEMMA CopyTempJob ==
    ASSUME JobsOK, NEW t \in Threads, CopyTemp(t)
    PROVE  Goes(t) /\ job'[t].pc \in {"done", "data"} /\ SamePlace(job'[t], job[t])
<1>1. OpJob(job[t]) /\ job[t].pc = "temp"
  BY AtOp DEF CopyTemp, At, OpPcs, CopyPcs
<1>2. PcFits(With([pc |-> "data"], job[t]))
  BY <1>1 DEF PcFits, CopyPcs, OpJob, With, OpFields
<1>3. End(t, FALSE) \/ Goto(t, [pc |-> "data"])
  BY DEF CopyTemp, Fails
<1> QED
  BY <1>1, <1>2, <1>3, GoesTo, GoesToEnd DEF OpPcs, CopyPcs

LEMMA CopyDataJob ==
    ASSUME JobsOK, NEW t \in Threads, CopyData(t)
    PROVE  Goes(t) /\ job'[t].pc \in {"drop", "backup", "commit"} /\ SamePlace(job'[t], job[t])
<1>1. OpJob(job[t]) /\ job[t].pc = "data"
  BY AtOp DEF CopyData, At, OpPcs, CopyPcs
<1>2. /\ PcFits(With([pc |-> "drop"], job[t])) /\ PcFits(With([pc |-> "commit"], job[t]))
      /\ job[t].had => PcFits(With([pc |-> "backup"], job[t]))
  BY <1>1 DEF PcFits, CopyPcs, OpJob, With, OpFields
<1>3. \/ Goto(t, [pc |-> "drop"]) \/ Goto(t, [pc |-> "commit"])
      \/ job[t].had /\ Goto(t, [pc |-> "backup"])
  BY DEF CopyData
<1> QED
  BY <1>1, <1>2, <1>3, GoesTo DEF OpPcs, CopyPcs

LEMMA CopyDropJob ==
    ASSUME JobsOK, NEW t \in Threads, CopyDrop(t)
    PROVE  Goes(t) /\ job'[t].pc = "done" /\ SamePlace(job'[t], job[t])
<1>1. OpJob(job[t]) /\ End(t, FALSE)
  BY AtOp DEF CopyDrop, At, OpPcs, CopyPcs
<1> QED
  BY <1>1, GoesToEnd

LEMMA DeleteFileJob ==
    ASSUME JobsOK, NEW t \in Threads, DeleteFile(t)
    PROVE  Goes(t) /\ job'[t].pc = "done" /\ SamePlace(job'[t], job[t])
<1>1. OpJob(job[t])
  BY AtOp DEF DeleteFile, At, OpPcs, CopyPcs
<1>2. End(t, FALSE) \/ End(t, TRUE)
  BY DEF DeleteFile, Fails
<1> QED
  BY <1>1, <1>2, GoesToEnd

LEMMA DeleteDirectoryTreeJob ==
    ASSUME JobsOK, NEW t \in Threads, DeleteDirectoryTree(t)
    PROVE  Goes(t) /\ job'[t].pc \in {"done", "clear"} /\ SamePlace(job'[t], job[t])
<1>1. OpJob(job[t]) /\ job[t].pc = "deltree"
  BY AtOp DEF DeleteDirectoryTree, At, OpPcs, CopyPcs
<1>2. PcFits(With([pc |-> "clear"], job[t]))
  BY <1>1 DEF PcFits, CopyPcs, OpJob, With, OpFields
<1>3. End(t, FALSE) \/ Goto(t, [pc |-> "clear"])
  BY DEF DeleteDirectoryTree
<1> QED
  BY <1>1, <1>2, <1>3, GoesTo, GoesToEnd DEF OpPcs, CopyPcs

LEMMA RemoveAllJob ==
    ASSUME JobsOK, NEW t \in Threads, RemoveAll(t)
    PROVE  Goes(t) /\ job'[t].pc \in {"done", "clear"} /\ SamePlace(job'[t], job[t])
<1>1. OpJob(job[t]) /\ job[t].pc = "clear"
  BY AtOp DEF RemoveAll, At, OpPcs, CopyPcs
<1>2. PcFits(With([pc |-> "clear"], job[t]))
  BY <1>1 DEF PcFits, CopyPcs, OpJob, With, OpFields
<1>3. End(t, FALSE) \/ End(t, TRUE) \/ Goto(t, [pc |-> "clear"])
  BY DEF RemoveAll, Fails
<1> QED
  BY <1>1, <1>2, <1>3, GoesTo, GoesToEnd DEF OpPcs, CopyPcs

LEMMA CreateEmptyFileJob ==
    ASSUME JobsOK, NEW t \in Threads, CreateEmptyFile(t)
    PROVE  Goes(t) /\ job'[t].pc \in {"done", "close"} /\ SamePlace(job'[t], job[t])
<1>1. OpJob(job[t]) /\ job[t].pc = "create"
  BY AtOp DEF CreateEmptyFile, At, OpPcs, CopyPcs
<1>2. PcFits(With([pc |-> "close"], job[t]))
  BY <1>1 DEF PcFits, CopyPcs, OpJob, With, OpFields
<1>3. End(t, FALSE) \/ Goto(t, [pc |-> "close"])
  BY DEF CreateEmptyFile, Fails
<1> QED
  BY <1>1, <1>2, <1>3, GoesTo, GoesToEnd DEF OpPcs, CopyPcs

LEMMA CloseEmptyFileJob ==
    ASSUME JobsOK, NEW t \in Threads, CloseEmptyFile(t)
    PROVE  Goes(t) /\ job'[t].pc = "done" /\ SamePlace(job'[t], job[t])
<1>1. OpJob(job[t])
  BY AtOp DEF CloseEmptyFile, At, OpPcs, CopyPcs
<1>2. End(t, FALSE) \/ End(t, TRUE)
  BY DEF CloseEmptyFile
<1> QED
  BY <1>1, <1>2, GoesToEnd

LEMMA CreateDirectoryJob ==
    ASSUME JobsOK, NEW t \in Threads, CreateDirectory(t)
    PROVE  Goes(t) /\ job'[t].pc = "mkdir1" /\ SamePlace(job'[t], job[t])
<1>1. OpJob(job[t]) /\ job[t].pc = "mkone"
  BY AtOp DEF CreateDirectory, At, OpPcs, CopyPcs
<1>2. PcFits(With([pc |-> "mkdir1"], job[t]))
  BY <1>1 DEF PcFits, CopyPcs, OpJob, With, OpFields
<1>3. Goto(t, [pc |-> "mkdir1"])
  BY DEF CreateDirectory
<1> QED
  BY <1>1, <1>2, <1>3, GoesTo DEF OpPcs, CopyPcs

LEMMA MkdirJob ==
    ASSUME JobsOK, NEW t \in Threads, Mkdir(t)
    PROVE  Goes(t) /\ job'[t].pc = "done" /\ SamePlace(job'[t], job[t])
<1>1. OpJob(job[t])
  BY AtOp DEF Mkdir, OpPcs, CopyPcs
<1>2. End(t, FALSE) \/ End(t, TRUE)
  BY DEF Mkdir, Fails
<1> QED
  BY <1>1, <1>2, GoesToEnd
(* The contents there are, and where unfinished ones may be                *)
Unfinished == {Copying[n] : n \in Ids}
TreeType   == tree \in [Paths -> Old \cup {Empty, None, Dir} \cup Unfinished]
PartialsInPlace ==
    \A q \in Paths, n \in Ids : tree[q] = Copying[n] => Last(q) = Copying[n]

LEMMA GivenIsComplete ==
    ASSUME TreeType, PartialsInPlace, NEW q \in Given, IsFile(tree[q])
    PROVE  tree[q] \in Old \cup {Empty}
<1>1. q \in Paths /\ q \in Walkways /\ q # <<>> /\ ~Own(q)
  BY PathsAreWalkways DEF Given
<1>2. Last(q) \notin OwnNames
  BY <1>1, OwnFacts
<1>3. \A n \in Ids : tree[q] # Copying[n]
  BY <1>1, <1>2, OwnNamesFacts DEF PartialsInPlace
<1> QED
  BY <1>1, <1>3 DEF TreeType, IsFile, Unfinished

LEMMA CopyFileJob ==
    ASSUME JobsOK, NEW t \in Threads, CopyFile(t)
    PROVE  /\ Goes(t) /\ job'[t].pc \in {"done", "open"} /\ SamePlace(job'[t], job[t])
           /\ job'[t].pc = "open" => tree[job[t].to] # Dir /\ job'[t].had = (tree[job[t].to] # None)
<1>1. OpJob(job[t]) /\ job[t].pc = "file"
  BY AtOp DEF CopyFile, At, OpPcs, CopyPcs
<1>2. CASE End(t, FALSE)
  BY <1>1, <1>2, GoesToEnd
<1>3. CASE /\ Goto(t, [pc |-> "open", had |-> tree[job[t].to] # None])
           /\ ~(tree[job[t].to] = Dir \/ (IsFile(tree[job[t].to]) /\ ~job[t].over))
  <2> DEFINE h == tree[job[t].to] # None
  <2>1. h \in BOOLEAN /\ (h => job[t].over) /\ tree[job[t].to] # Dir
    BY <1>3, <1>1 DEF IsFile, OpJob
  <2> HIDE DEF h
  <2>2. OthersKeep(t) /\ job'[t] = With([pc |-> "open", had |-> h], job[t])
    BY <1>3, GotoJobs DEF OthersKeep, h
  <2>3. PcFits(job'[t])
    BY <1>1, <2>1, <2>2 DEF PcFits, CopyPcs, OpJob, With, OpFields
  <2>4. OpJob(job'[t]) /\ job'[t].pc = "open" /\ job'[t].had = h
    BY <1>1, <2>1, <2>2, <2>3 DEF OpJob, With, OpFields, OpPcs, CopyPcs
  <2>5. Keeps(job'[t], job[t]) /\ SamePlace(job'[t], job[t])
    BY <1>1, <2>2 DEF Keeps, SamePlace, With, OpJob, OpFields
  <2> QED
    BY <1>1, <2>1, <2>2, <2>4, <2>5 DEF Goes, h
<1> QED
  BY <1>2, <1>3 DEF CopyFile

LEMMA CopyOpenJob ==
    ASSUME JobsOK, TreeType, PartialsInPlace, NEW t \in Threads, CopyOpen(t)
    PROVE  /\ Goes(t) /\ job'[t].pc \in {"done", "temp"} /\ SamePlace(job'[t], job[t])
           /\ job'[t].pc = "temp" => /\ IsFile(tree[job[t].from]) /\ job'[t].data = tree[job[t].from]
                                     /\ job'[t].had = job[t].had
<1>1. OpJob(job[t]) /\ job[t].pc = "open"
  BY AtOp DEF CopyOpen, At, OpPcs, CopyPcs
<1>2. CASE End(t, FALSE)
  BY <1>1, <1>2, GoesToEnd
<1>3. CASE IsFile(tree[job[t].from]) /\ Goto(t, [pc |-> "temp", data |-> tree[job[t].from]])
  <2> DEFINE d == tree[job[t].from]
  <2>1. d \in Old \cup {Empty}
    BY <1>1, <1>3, GivenIsComplete DEF OpJob
  <2> HIDE DEF d
  <2>2. OthersKeep(t) /\ job'[t] = With([pc |-> "temp", data |-> d], job[t])
    BY <1>3, GotoJobs DEF OthersKeep, d
  <2>3. PcFits(job'[t])
    BY <1>1, <2>1, <2>2 DEF PcFits, CopyPcs, OpJob, With, OpFields
  <2>4. OpJob(job'[t]) /\ job'[t].pc = "temp" /\ job'[t].data = d /\ job'[t].had = job[t].had
    BY <1>1, <2>2, <2>3 DEF OpJob, With, OpFields, OpPcs, CopyPcs
  <2>5. Keeps(job'[t], job[t]) /\ SamePlace(job'[t], job[t])
    BY <1>1, <2>2 DEF Keeps, SamePlace, With, OpJob, OpFields
  <2> QED
    BY <1>1, <1>3, <2>2, <2>4, <2>5 DEF Goes, d
<1> QED
  BY <1>2, <1>3 DEF CopyOpen

(* The next entry is one of those that were left.                          *)
LEMMA CopyNextJob ==
    ASSUME JobsOK, NEW t \in Threads, CopyNext(t)
    PROVE  /\ Goes(t) /\ job'[t].pc \in {"done", "deltree", "delete", "dir", "file"}
           /\ job'[t].pc \in {"dir", "file"} =>
                 /\ job[t].todo # <<>> /\ job'[t].todo = Tail(job[t].todo)
                 /\ job'[t].from = Head(job[t].todo).from /\ job'[t].to = Head(job[t].todo).to
                 /\ job'[t].pc = "dir" <=> Head(job[t].todo).dir
           /\ job'[t].pc \in {"done", "deltree", "delete"} => job[t].todo = <<>>
<1> DEFINE j == job[t]
<1>1. OpJob(j) /\ j.pc = "next"
  BY AtOp DEF CopyNext, At, OpPcs, CopyPcs
<1>2. CASE j.todo = <<>>
  <2>1. j.op = "move" => PcFits(With([pc |-> "deltree"], j)) /\ PcFits(With([pc |-> "delete"], j))
    BY <1>1 DEF PcFits, CopyPcs, OpJob, With, OpFields
  <2>2. \/ End(t, TRUE)
        \/ j.op = "move" /\ \E p \in {"deltree", "delete"} : Goto(t, [pc |-> p])
    BY <1>2 DEF CopyNext
  <2> QED
    BY <1>1, <1>2, <2>1, <2>2, GoesTo, GoesToEnd DEF OpPcs, CopyPcs
<1>3. CASE j.todo # <<>>
  <2> DEFINE h == Head(j.todo)
             p == IF h.dir THEN "dir" ELSE "file"
  <2>1. h \in ToCopy(j.src, j.dst) /\ Tail(j.todo) \in Seq(ToCopy(j.src, j.dst))
    BY <1>1, <1>3, HeadTailProperties DEF OpJob
  <2>2. /\ h.from \in Given /\ h.to \in Given /\ h.dir \in BOOLEAN
        /\ Under(h.from, j.src) /\ h.to = Moved(h.from, j.src, j.dst)
    BY <2>1 DEF ToCopy
  <2>3. OthersKeep(t)
    BY <1>3, GotoJobs DEF CopyNext, OthersKeep
  <2>4. job'[t] = With([pc |-> p, from |-> h.from, to |-> h.to, todo |-> Tail(j.todo)], j)
    BY <1>3, GotoJobs DEF CopyNext
  <2>5. p \in {"dir", "file"} /\ (p = "dir" <=> h.dir)
    BY <2>2
  <2> HIDE DEF p, h
  <2>6. /\ job'[t].pc = p /\ job'[t].from = h.from /\ job'[t].to = h.to
        /\ job'[t].todo = Tail(j.todo) /\ Keeps(job'[t], j)
    BY <1>1, <2>4 DEF With, OpJob, OpFields, Keeps
  <2>7. PcFits(job'[t])
    BY <1>1, <2>4, <2>5 DEF PcFits, CopyPcs, OpJob, With, OpFields
  <2>8. OpJob(job'[t])
    <3>1. /\ OpFields \subseteq DOMAIN job'[t] /\ job'[t].had = j.had
      BY <1>1, <2>4 DEF With, OpJob, OpFields
    <3>2. job'[t].pc \in OpPcs
      BY <2>5, <2>6 DEF OpPcs, CopyPcs
    <3> QED
      BY <1>1, <2>1, <2>2, <2>6, <2>7, <3>1, <3>2 DEF OpJob, Keeps
  <2> QED
    BY <1>1, <1>3, <2>3, <2>5, <2>6, <2>8 DEF Goes, h
<1> QED
  BY <1>2, <1>3

(* What a listing adds is to be copied to the place it has in the target.  *)
LEMMA ListedToCopy ==
    ASSUME NEW j, OpJob(j), CanList(j), TreeType,
           NEW c \in Listed(tree, j.from)
    PROVE  /\ c \in Given /\ Under(c, j.src) /\ Within(c, j.from) /\ Parent(c) = j.from
           /\ Moved(c, j.src, j.dst) \in Given
           /\ [from |-> c, to |-> Moved(c, j.src, j.dst), dir |-> tree[c] = Dir]
                 \in ToCopy(j.src, j.dst)
<1>1. c \in Visible /\ c \in Given /\ Parent(c) = j.from /\ ~Own(c)
  BY PathsAreWalkways DEF Listed, Children, Given
<1>2. /\ c \in Walkways /\ c # <<>> /\ j.src \in Walkways /\ j.dst \in Walkways /\ j.from \in Walkways
      /\ ~Own(j.dst) /\ Under(j.from, j.src)
  BY <1>1, PathsAreWalkways DEF OpJob, Given
<1>3. Within(c, j.from)
  BY <1>1, <1>2, ParentFacts
<1>4. Under(c, j.src)
  BY <1>2, <1>3, UnderTransitive, UnderOrder
<1>5. Moved(c, j.src, j.dst) \in Given
  <2>1. Moved(c, j.src, j.dst) \in Paths
    BY DEF CanList
  <2>2. ~Own(Moved(c, j.src, j.dst))
    BY <1>1, <1>2, <1>4, OwnMoved
  <2> QED
    BY <2>1, <2>2 DEF Given
<1> QED
  BY <1>1, <1>3, <1>4, <1>5 DEF ToCopy

LEMMA SequenceOf ==
    ASSUME NEW S, NEW n \in Nat, NEW f \in [1..n -> S]
    PROVE  f \in Seq(S) /\ Len(f) = n
<1>1. f \in Seq(S)
  BY SeqDef
<1> QED
  BY <1>1, LenProperties

LEMMA CopyListJob ==
    ASSUME JobsOK, TreeType, NEW t \in Threads, CopyList(t)
    PROVE  /\ Goes(t) /\ job'[t].pc \in {"done", "next"} /\ SamePlace(job'[t], job[t])
           /\ job'[t].pc = "next" =>
                 /\ tree[job[t].from] = Dir /\ CanList(job[t])
                 /\ \E order \in SetToSeqs(Listed(tree, job[t].from)) :
                       job'[t].todo = [i \in 1..Len(order) |->
                                         [from |-> order[i], to |-> Moved(order[i], job[t].src, job[t].dst),
                                          dir |-> tree[order[i]] = Dir]] \o job[t].todo
<1> DEFINE j == job[t]
<1>1. OpJob(j) /\ j.pc = "list"
  BY AtOp DEF CopyList, At, OpPcs, CopyPcs
<1>2. CASE End(t, FALSE)
  BY <1>1, <1>2, GoesToEnd
<1>3. ASSUME CanList(j), NEW order \in SetToSeqs(Listed(tree, j.from)),
             Goto(t, [pc |-> "next",
                      todo |-> [i \in 1..Len(order) |->
                                  [from |-> order[i], to |-> Moved(order[i], j.src, j.dst),
                                   dir |-> tree[order[i]] = Dir]] \o j.todo])
      PROVE  /\ Goes(t) /\ job'[t].pc = "next" /\ SamePlace(job'[t], j)
             /\ job'[t].todo = [i \in 1..Len(order) |->
                                  [from |-> order[i], to |-> Moved(order[i], j.src, j.dst),
                                   dir |-> tree[order[i]] = Dir]] \o j.todo
  <2> DEFINE e(q) == [from |-> q, to |-> Moved(q, j.src, j.dst), dir |-> tree[q] = Dir]
             added == [i \in 1..Len(order) |-> e(order[i])]
             todo == added \o j.todo
  <2>1. /\ Len(order) \in Nat /\ DOMAIN order = 1..Len(order)
        /\ \A i \in 1..Len(order) : order[i] \in Listed(tree, j.from)
    <3>1. IsFiniteSet(Listed(tree, j.from))
      BY PathsAreWalkways, FS_Subset DEF Listed, Children
    <3>2. Cardinality(Listed(tree, j.from)) \in Nat
      BY <3>1, FS_CardinalityType
    <3>3. order \in [1..Cardinality(Listed(tree, j.from)) -> Listed(tree, j.from)]
      BY DEF SetToSeqs
    <3>4. order \in Seq(Listed(tree, j.from)) /\ Len(order) = Cardinality(Listed(tree, j.from))
      BY <3>2, <3>3, SequenceOf
    <3> QED
      BY <3>2, <3>3, <3>4
  <2>2. \A i \in 1..Len(order) : e(order[i]) \in ToCopy(j.src, j.dst)
    BY <1>1, <1>3, <2>1, ListedToCopy
  <2>3. added \in Seq(ToCopy(j.src, j.dst))
    <3>1. added \in [1..Len(order) -> ToCopy(j.src, j.dst)]
      BY <2>2
    <3> QED
      BY <3>1, <2>1, SequenceOf
  <2>4. todo \in Seq(ToCopy(j.src, j.dst))
    BY <1>1, <2>3, ConcatProperties DEF OpJob
  <2>5. OthersKeep(t) /\ job'[t] = With([pc |-> "next", todo |-> todo], j)
    BY <1>3, GotoJobs DEF OthersKeep
  <2> HIDE DEF todo
  <2>6. PcFits(job'[t])
    BY <1>1, <2>5 DEF PcFits, CopyPcs, OpJob, With, OpFields
  <2>7. OpJob(job'[t]) /\ job'[t].pc = "next" /\ job'[t].todo = todo
    BY <1>1, <2>4, <2>5, <2>6 DEF OpJob, With, OpFields, OpPcs, CopyPcs
  <2>8. Keeps(job'[t], j) /\ SamePlace(job'[t], j)
    BY <1>1, <2>5 DEF Keeps, SamePlace, With, OpJob, OpFields
  <2> QED
    BY <1>1, <2>5, <2>7, <2>8 DEF Goes, todo
<1> QED
  BY <1>2, <1>3 DEF CopyList, CanList
LEMMA AfterRenameJob ==
    ASSUME JobsOK, NEW t \in Threads, job[t].pc \in Renames, NEW ok \in BOOLEAN, AfterRename(t, ok)
    PROVE  /\ Goes(t) /\ SamePlace(job'[t], job[t])
           /\ job[t].pc = "rename" => job'[t].pc = "done" /\ job'[t].ok = ok
           /\ job[t].pc = "commit" => job'[t].pc = IF ok THEN "next" ELSE "drop"
           /\ job[t].pc = "backup" => job'[t].pc = IF ok THEN "swap" ELSE "drop"
           /\ job[t].pc = "swap" => job'[t].pc = IF ok THEN "unback" ELSE "undo"
           /\ job[t].pc = "undo" => job'[t].pc = "drop"
<1> DEFINE j == job[t]
<1>1. OpJob(j)
  BY AtOp DEF Renames, OpPcs, CopyPcs
<1>2. CASE j.pc = "rename"
  <2>1. End(t, ok)
    BY <1>2 DEF AfterRename
  <2> QED
    BY <1>1, <1>2, <2>1, GoesToEnd
<1>3. ASSUME NEW p \in {"next", "drop", "swap", "unback", "undo"}, Goto(t, [pc |-> p]),
             j.pc # "rename", p \in {"swap", "unback", "undo"} => j.pc \in {"backup", "swap"}
      PROVE  Goes(t) /\ SamePlace(job'[t], job[t]) /\ job'[t].pc = p
  <2>1. j.op \in {"copy", "move"} /\ (j.pc \in {"backup", "swap"} => j.over)
    BY <1>1, <1>3 DEF OpJob, PcFits, Renames, CopyPcs
  <2>2. PcFits(With([pc |-> p], j))
    BY <1>1, <1>3, <2>1 DEF PcFits, CopyPcs, OpJob, With, OpFields
  <2> QED
    BY <1>1, <1>3, <2>2, GoesTo DEF OpPcs, CopyPcs
<1>4. CASE j.pc = "commit"
  <2>1. Goto(t, [pc |-> IF ok THEN "next" ELSE "drop"])
    BY <1>4 DEF AfterRename
  <2> QED
    BY <1>4, <2>1, <1>3
<1>5. CASE j.pc = "backup"
  <2>1. Goto(t, [pc |-> IF ok THEN "swap" ELSE "drop"])
    BY <1>5 DEF AfterRename
  <2> QED
    BY <1>5, <2>1, <1>3
<1>6. CASE j.pc = "swap"
  <2>1. Goto(t, [pc |-> IF ok THEN "unback" ELSE "undo"])
    BY <1>6 DEF AfterRename
  <2> QED
    BY <1>6, <2>1, <1>3
<1>7. CASE j.pc = "undo"
  <2>1. Goto(t, [pc |-> "drop"])
    BY <1>7 DEF AfterRename
  <2> QED
    BY <1>7, <2>1, <1>3
<1> QED
  BY <1>2, <1>4, <1>5, <1>6, <1>7 DEF Renames

(* An operation begins at its source and its target.                       *)
LEMMA BeginJob ==
    ASSUME JobsOK, calls \in Nat, NEW t \in Threads, NEW r \in Requests, Begin(t, r)
    PROVE  /\ job[t] = Idle /\ OpJob(job'[t]) /\ OthersKeep(t) /\ job'[t].id = calls + 1
           /\ job'[t].pc \in {"copy", "rename", "delete", "deltree", "create", "mkone"}
           /\ job'[t].todo = <<>> /\ job'[t].from = job'[t].src /\ job'[t].to = job'[t].dst
           /\ job'[t].had = FALSE /\ job'[t].dir = (tree[job'[t].src] = Dir)
           /\ job'[t].alone = (\A u \in Threads : job[u].pc = "idle")
           /\ job'[t].alone => job'[t].before = tree
           /\ job'[t].pc = FirstStep(job'[t])
<1> DEFINE alone == \A u \in Threads : job[u].pc = "idle"
           d == Job(r, alone)
           k == With(d, Idle)
<1>1. job[t] = Idle
  BY DEF Begin, JobsOK, JobOK, OpJob, WalkJob, OpPcs, CopyPcs, WalkPcs
<1>2. OthersKeep(t) /\ job'[t] = k
  BY <1>1, GotoJobs DEF Begin, OthersKeep
<1>3. r.op \in Ops /\ r.over \in BOOLEAN /\ r.src \in Given /\ r.dst \in Given
  BY RequestsAssumption DEF Given
<1>4. calls + 1 \in Ids
  BY NamesAssumption DEF Begin, Ids
<1>5. alone \in BOOLEAN /\ (alone => d.before = tree)
  BY DEF Job
<1> HIDE DEF alone
<1>6. /\ k.id = calls + 1 /\ k.pc = FirstStep(r) /\ k.op = r.op /\ k.src = r.src /\ k.dst = r.dst
      /\ k.over = r.over /\ k.from = r.src /\ k.to = r.dst /\ k.todo = <<>> /\ k.had = FALSE
      /\ k.dir = (tree[r.src] = Dir) /\ k.alone = alone /\ k.before = d.before
      /\ OpFields \subseteq DOMAIN k
  BY DEF With, Job, Idle, OpFields
<1> HIDE DEF k
<1>7. k.pc \in {"copy", "rename", "delete", "deltree", "create", "mkone"}
  BY <1>3, <1>6 DEF FirstStep, Ops
<1>8. PcFits(k)
  BY <1>3, <1>6, <1>7 DEF PcFits, FirstStep, CopyPcs, Ops
<1>9. OpJob(k)
  <2>1. r.src \in Walkways /\ r.dst \in Walkways
    BY <1>3, PathsAreWalkways
  <2>2. Under(r.src, r.src) /\ Moved(r.src, r.src, r.dst) = r.dst
    BY <2>1, UnderOrder, MovedUnder
  <2>3. <<>> \in Seq(ToCopy(r.src, r.dst))
    BY EmptySeq
  <2>4. k.pc \in OpPcs
    BY <1>7 DEF OpPcs, CopyPcs
  <2> QED
    BY <1>3, <1>4, <1>6, <1>8, <2>2, <2>3, <2>4 DEF OpJob
<1>10. k.pc = FirstStep(k)
  BY <1>6 DEF FirstStep
<1> QED
  BY <1>1, <1>2, <1>5, <1>6, <1>7, <1>9, <1>10 DEF alone

LEMMA AnswerJob ==
    ASSUME JobsOK, NEW t \in Threads, Answer(t)
    PROVE  /\ DOMAIN job' = Threads /\ job'[t] = Idle
           /\ \A u \in Threads \ {t} : job'[u] = job[u]
BY DEF Answer, JobsOK

LEMMA CrashJob ==
    ASSUME Crash
    PROVE  DOMAIN job' = Threads /\ \A t \in Threads : job'[t] = Idle
BY DEF Crash
-----------------------------------------------------------------------------
(* What a step of a walk does to the work of its thread *)

KeepsWalk(k, j) ==
    k.id = j.id /\ k.op = j.op /\ k.src = j.src /\ k.opt = j.opt

WalkGoes(t) ==
    /\ WalkJob(job[t]) /\ WalkJob(job'[t]) /\ KeepsWalk(job'[t], job[t])
    /\ OthersKeep(t)

LEMMA AtWalk ==
    ASSUME JobsOK, NEW t \in Threads, job[t].pc \in WalkPcs \ {"done"}
    PROVE  WalkJob(job[t])
<1>1. JobOK(job[t])
  BY DEF JobsOK
<1>2. job[t] # Idle
  BY DEF Idle, WalkPcs
<1>3. ~OpJob(job[t])
  BY DEF OpJob, OpPcs, CopyPcs, WalkPcs
<1> QED
  BY <1>1, <1>2, <1>3 DEF JobOK

(* A walk whose step changes neither what it was asked nor its number      *)
LEMMA WalkGoesOn ==
    ASSUME JobsOK, NEW t \in Threads, WalkJob(job[t]), NEW d, Goto(t, d),
           DOMAIN d \cap {"id", "op", "src", "opt", "alone"} = {},
           "pc" \in DOMAIN d => d.pc \in WalkPcs
    PROVE  WalkGoes(t) /\ job'[t] = With(d, job[t])
<1>1. OthersKeep(t) /\ job'[t] = With(d, job[t])
  BY GotoJobs DEF OthersKeep
<1>2. WalkFields \subseteq DOMAIN job[t] /\ WalkFields \subseteq DOMAIN job'[t]
  BY <1>1 DEF WalkJob, With
<1>3. /\ KeepsWalk(job'[t], job[t]) /\ job'[t].alone = job[t].alone
      /\ job'[t].pc = IF "pc" \in DOMAIN d THEN d.pc ELSE job[t].pc
  BY <1>1, <1>2 DEF With, KeepsWalk, WalkFields
<1>4. WalkJob(job'[t])
  BY <1>2, <1>3 DEF WalkJob, KeepsWalk
<1> QED
  BY <1>1, <1>3, <1>4 DEF WalkGoes

LEMMA WalkGoesEnd ==
    ASSUME JobsOK, NEW t \in Threads, WalkJob(job[t]), NEW ok, End(t, ok)
    PROVE  WalkGoes(t) /\ job'[t] = With([pc |-> "done", ok |-> ok], job[t])
<1>1. Goto(t, [pc |-> "done", ok |-> ok])
  BY DEF End
<1> QED
  BY <1>1, WalkGoesOn DEF WalkPcs

LEMMA AskWalkJob ==
    ASSUME JobsOK, calls \in Nat, NEW t \in Threads, NEW r \in Walks, AskWalk(t, r)
    PROVE  /\ job[t] = Idle /\ OthersKeep(t) /\ WalkJob(job'[t])
           /\ job'[t].id = calls + 1 /\ job'[t].op = r.op /\ job'[t].src = r.src /\ job'[t].opt = r
           /\ job'[t].pc = "walkdir" /\ job'[t].counting = (r.op = "export")
           /\ job'[t].copied = <<>>
<1>1. job[t] = Idle
  BY DEF AskWalk, JobsOK, JobOK, OpJob, WalkJob, OpPcs, CopyPcs, WalkPcs
<1>2. OthersKeep(t) /\ job'[t] = With(Walk(r), Idle)
  BY <1>1, GotoJobs DEF AskWalk, OthersKeep
<1>3. r.op \in {"list", "export"} /\ calls + 1 \in Ids
  BY WalksAssumption, NamesAssumption DEF AskWalk, Ids
<1>4. /\ job'[t].id = calls + 1 /\ job'[t].op = r.op /\ job'[t].src = r.src /\ job'[t].opt = r
      /\ job'[t].pc = "walkdir" /\ job'[t].alone = FALSE /\ job'[t].counting = (r.op = "export")
      /\ job'[t].copied = <<>> /\ WalkFields \subseteq DOMAIN job'[t]
  BY <1>2 DEF With, Walk, Idle, WalkFields
<1> QED
  BY <1>1, <1>2, <1>3, <1>4 DEF WalkJob, WalkPcs

LEMMA WalkDirJob ==
    ASSUME JobsOK, NEW t \in Threads, WalkDir(t)
    PROVE  WalkGoes(t)
<1>1. WalkJob(job[t])
  BY AtWalk DEF WalkDir, At, WalkPcs
<1>2. CASE End(t, FALSE)
  BY <1>1, <1>2, WalkGoesEnd
<1>3. CASE Opens(t, job[t].src, [pc |-> "entry", stack |-> <<>>, got |-> <<>>])
  <2> DEFINE d == With([pc |-> "entry", stack |-> <<>>, got |-> <<>>],
                       [dir |-> job[t].src, raw |-> <<>>, seen |-> {}])
  <2>1. Goto(t, d)
    BY <1>3 DEF Opens
  <2>2. DOMAIN d = {"pc", "stack", "got", "dir", "raw", "seen"} /\ d.pc = "entry"
    BY DEF With
  <2> HIDE DEF d
  <2> QED
    BY <1>1, <2>1, <2>2, WalkGoesOn DEF WalkPcs
<1> QED
  BY <1>2, <1>3 DEF WalkDir

LEMMA LoadNextBatchJob ==
    ASSUME JobsOK, NEW t \in Threads, LoadNextBatch(t)
    PROVE  WalkGoes(t)
<1>1. WalkJob(job[t])
  BY AtWalk DEF LoadNextBatch, Outside, WalkPcs
<1>2. CASE End(t, FALSE)
  BY <1>1, <1>2, WalkGoesEnd
<1>3. CASE Goto(t, [pc |-> "pop"])
  BY <1>1, <1>3, WalkGoesOn DEF WalkPcs
<1>4. ASSUME NEW raw, NEW seen, Goto(t, [raw |-> raw, seen |-> seen])
      PROVE  WalkGoes(t)
  BY <1>1, <1>4, WalkGoesOn DEF WalkPcs
<1> QED
  BY <1>2, <1>3, <1>4 DEF LoadNextBatch

LEMMA LoadNextDirectoryJob ==
    ASSUME JobsOK, NEW t \in Threads, LoadNextDirectory(t)
    PROVE  WalkGoes(t)
<1>1. WalkJob(job[t])
  BY AtWalk DEF LoadNextDirectory, Outside, WalkPcs
<1>2. CASE End(t, FALSE) \/ End(t, TRUE)
  BY <1>1, <1>2, WalkGoesEnd
<1>3. CASE Goto(t, [pc |-> "walkdir", counting |-> FALSE])
  BY <1>1, <1>3, WalkGoesOn DEF WalkPcs
<1>4. CASE Opens(t, Last(job[t].stack), [pc |-> "entry", stack |-> Front(job[t].stack)])
  <2> DEFINE d == With([pc |-> "entry", stack |-> Front(job[t].stack)],
                       [dir |-> Last(job[t].stack), raw |-> <<>>, seen |-> {}])
  <2>1. Goto(t, d)
    BY <1>4 DEF Opens
  <2>2. DOMAIN d = {"pc", "stack", "dir", "raw", "seen"} /\ d.pc = "entry"
    BY DEF With
  <2> HIDE DEF d
  <2> QED
    BY <1>1, <2>1, <2>2, WalkGoesOn DEF WalkPcs
<1> QED
  BY <1>2, <1>3, <1>4 DEF LoadNextDirectory

LEMMA ProcessEntryJob ==
    ASSUME JobsOK, NEW t \in Threads, ProcessEntry(t)
    PROVE  WalkGoes(t)
<1>1. WalkJob(job[t])
  BY AtWalk DEF ProcessEntry, Outside, WalkPcs
<1>2. CASE End(t, FALSE)
  BY <1>1, <1>2, WalkGoesEnd
<1>3. CASE Goto(t, [raw |-> Tail(job[t].raw)])
  BY <1>1, <1>3, WalkGoesOn DEF WalkPcs
<1>4. AfterEntry(t) \in WalkPcs
  BY DEF AfterEntry, WalkPcs
<1>5. ASSUME NEW raw, NEW got, NEW stack,
             Goto(t, [raw |-> raw, got |-> got, stack |-> stack, pc |-> AfterEntry(t)])
      PROVE  WalkGoes(t)
  BY <1>1, <1>4, <1>5, WalkGoesOn
<1> QED
  BY <1>2, <1>3, <1>5 DEF ProcessEntry

LEMMA VisitJob ==
    ASSUME JobsOK, NEW t \in Threads, Visit(t)
    PROVE  WalkGoes(t)
<1>1. WalkJob(job[t])
  BY AtWalk DEF Visit, WalkPcs
<1>2. CASE End(t, FALSE)
  BY <1>1, <1>2, WalkGoesEnd
<1>3. CASE Goto(t, [pc |-> "entry"])
  BY <1>1, <1>3, WalkGoesOn DEF WalkPcs
<1>4. ASSUME NEW copied, Goto(t, [pc |-> "entry", copied |-> copied])
      PROVE  WalkGoes(t)
  BY <1>1, <1>4, WalkGoesOn DEF WalkPcs
<1> QED
  BY <1>2, <1>3, <1>4 DEF Visit

(* A step of a walk changes no entry, and leaves the lock alone.           *)
LEMMA WalkStepJob ==
    ASSUME JobsOK, calls \in Nat, NEW t \in Threads, WalkStep(t)
    PROVE  /\ UNCHANGED <<tree, renaming>>
           /\ \/ WalkGoes(t) /\ calls' = calls
              \/ /\ job[t] = Idle /\ OthersKeep(t) /\ WalkJob(job'[t]) /\ job'[t].id = calls + 1
                 /\ calls' = calls + 1 /\ calls < MaxCalls
<1>1. CASE \E r \in Walks : AskWalk(t, r)
  BY <1>1, AskWalkJob DEF AskWalk
<1>2. CASE WalkDir(t)
  BY <1>2, WalkDirJob DEF WalkDir, At, Pass, Fault
<1>3. CASE LoadNextBatch(t)
  BY <1>3, LoadNextBatchJob DEF LoadNextBatch, Outside, Pass, Fault
<1>4. CASE LoadNextDirectory(t)
  BY <1>4, LoadNextDirectoryJob DEF LoadNextDirectory, Outside, Pass, Fault
<1>5. CASE ProcessEntry(t)
  BY <1>5, ProcessEntryJob DEF ProcessEntry, Outside, Pass, Fault
<1>6. CASE Visit(t)
  BY <1>6, VisitJob DEF Visit, Pass, Fault
<1> QED
  BY <1>1, <1>2, <1>3, <1>4, <1>5, <1>6 DEF WalkStep
-----------------------------------------------------------------------------
(* The inductive invariant of the tree *)

(* No two operations have the same number, and so none the names of another *)
IdsOK ==
    /\ calls \in 0..MaxCalls
    /\ \A t \in Threads : job[t] # Idle => job[t].id \in 1..calls
    /\ \A t, u \in Threads : t # u /\ job[t] # Idle /\ job[u] # Idle => job[t].id # job[u].id

(* There is a directory at every path above an entry.                      *)
Rooted == \A q, r \in Paths : tree[q] # None /\ Within(q, r) => tree[r] = Dir

TempsAreFiles == \A q \in Paths, n \in Ids : Last(q) = Copying[n] => tree[q] # Dir

(* From the renames on, what an operation copies is complete.               *)
Finished ==
    \A t \in Threads :
        OpJob(job[t]) /\ job[t].pc \in {"backup", "commit", "swap", "undo", "unback"} =>
            \A q \in Paths : tree[q] # Copying[job[t].id]

(* While a rename has the lock, its target stays free of files.             *)
RenameHeld ==
    renaming # Nobody =>
        /\ renaming \in Threads /\ job[renaming].pc \in Renames
        /\ RenameFrom(renaming) # RenameTo(renaming)
        /\ tree[RenameTo(renaming)] \in {None, Dir}

TreeInv ==
    /\ JobsOK /\ IdsOK /\ TreeType /\ Rooted /\ PartialsInPlace /\ TempsAreFiles
    /\ Finished /\ RenameHeld
(* An operation is at given names, and beside one with names of its own.   *)
LEMMA OpPaths ==
    ASSUME NEW t \in Threads, OpJob(job[t])
    PROVE  /\ TempPath(t) \in Paths /\ BackupPath(t) \in Paths
           /\ Own(TempPath(t)) /\ Own(BackupPath(t))
           /\ Last(TempPath(t)) = Copying[job[t].id] /\ Last(BackupPath(t)) = Replaced[job[t].id]
           /\ Parent(TempPath(t)) = Parent(job[t].to) /\ Parent(BackupPath(t)) = Parent(job[t].to)
           /\ \A r \in Given : ~Under(r, TempPath(t)) /\ ~Under(r, BackupPath(t))
           /\ \A r \in Walkways : /\ Within(TempPath(t), r) <=> Within(job[t].to, r)
                                  /\ Within(BackupPath(t), r) <=> Within(job[t].to, r)
           /\ job[t].to \in Given /\ job[t].from \in Given /\ job[t].src \in Given /\ job[t].dst \in Given
           /\ Under(job[t].to, job[t].dst) /\ Under(job[t].from, job[t].src)
<1>1. job[t].to \in Given /\ Copying[job[t].id] \in OwnNames /\ Replaced[job[t].id] \in OwnNames
  BY OwnNamesFacts DEF OpJob
<1>2. Under(job[t].to, job[t].dst)
  BY PathsAreWalkways, MovedUnder DEF OpJob
<1> QED
  BY <1>1, <1>2, Beside DEF TempPath, BackupPath, OpJob

LEMMA RenamePaths ==
    ASSUME NEW t \in Threads, OpJob(job[t]), job[t].pc \in Renames
    PROVE  /\ RenameFrom(t) \in Paths /\ RenameTo(t) \in Paths
           /\ RenameFrom(t) \in Walkways /\ RenameTo(t) \in Walkways
BY OpPaths, PathsAreWalkways DEF RenameFrom, RenameTo, Given, Renames

(* A call under the root's lock finds it free.                             *)
LEMMA LockFree ==
    ASSUME RenameHeld, NEW t \in Threads, Locked(t), job[t].pc \notin Renames
    PROVE  renaming = Nobody
BY DEF RenameHeld, Locked

(* The ways in which an operation changes the tree                         *)
MakesDirs(t) ==
    /\ job[t].pc = "mkdir" /\ CanMkdirAll(tree, job[t].to) /\ tree' = MkdirAll(tree, job[t].to)
MakesTemp(t) ==
    /\ job[t].pc = "temp" /\ CanMkdirAll(tree, Parent(job[t].to))
    /\ tree' = [MkdirAll(tree, Parent(job[t].to)) EXCEPT ![TempPath(t)] = Partial(job[t].id)]
    /\ job'[t].pc = "data"
Completes(t) ==
    /\ job[t].pc = "data"
    /\ tree' = [q \in Paths |-> IF tree[q] = Partial(job[t].id) THEN job[t].data ELSE tree[q]]
MakesFile(t) ==
    /\ job[t].pc = "create" /\ CanMkdirAll(tree, Parent(job[t].dst)) /\ tree[job[t].dst] = None
    /\ tree' = [MkdirAll(tree, Parent(job[t].dst)) EXCEPT ![job[t].dst] = Empty]
Removes(t) ==
    \E q \in Paths :
        /\ Children(tree, q) = {} /\ tree' = RemoveEntry(tree, q)
        /\ \/ MayRemove(t, q) \/ ClosesOver(t, q)
           \/ job[t].pc = "drop" /\ q = TempPath(t)
RenamesEntry(t) ==
    /\ renaming = t /\ CanRename(tree, RenameFrom(t), RenameTo(t))
    /\ tree' = RenameEntry(tree, RenameFrom(t), RenameTo(t))
MakesDir(t) ==
    /\ job[t].pc = "mkdir1" /\ tree[job[t].dst] = None /\ ParentIsDir(tree, job[t].dst)
    /\ tree' = [tree EXCEPT ![job[t].dst] = Dir]

ChangesAlone(t) == MakesDirs(t) \/ MakesTemp(t) \/ Completes(t) \/ MakesFile(t) \/ Removes(t)

(* What a step of an operation does: it changes the tree in one of these   *)
(* ways, all but two of them while no rename has the lock.                 *)
OpStep(t) ==
    /\ Goes(t) /\ calls' = calls
    /\ \/ tree' = tree /\ renaming' = renaming /\ job'[t].pc \notin Renames
          /\ renaming # t
       \/ tree' = tree /\ renaming' = renaming /\ renaming = Nobody
       \/ tree' = tree /\ renaming = t /\ renaming' = Nobody
       \/ ChangesAlone(t) /\ renaming = Nobody /\ renaming' = Nobody
       \/ RenamesEntry(t) /\ renaming' = Nobody
       \/ MakesDir(t) /\ renaming' = renaming /\ job'[t].pc = "done"

LEMMA CopyStep ==
    ASSUME TreeInv, NEW t \in Threads,
           \/ CopyEntry(t) \/ CopyDirectory(t) \/ CopyMkdir(t) \/ CopyList(t) \/ CopyNext(t)
           \/ CopyFile(t) \/ CopyOpen(t) \/ CopyTemp(t) \/ CopyData(t)
    PROVE  OpStep(t) /\ renaming = Nobody
<1> USE DEF TreeInv
<1>1. ASSUME NEW p \in OpPcs \ Renames, At(t, p)
      PROVE  calls' = calls /\ renaming = Nobody /\ job[t].pc = p
  BY <1>1, LockFree DEF At
<1>2. CASE CopyEntry(t)
  <2>1. calls' = calls /\ renaming = Nobody
    BY <1>2, <1>1 DEF CopyEntry, OpPcs, CopyPcs, Renames
  <2> QED
    BY <1>2, <2>1, CopyEntryJob DEF CopyEntry, OpStep, Pass, Fails
<1>3. CASE CopyDirectory(t)
  <2>1. calls' = calls /\ renaming = Nobody
    BY <1>3, <1>1 DEF CopyDirectory, OpPcs, CopyPcs, Renames
  <2> QED
    BY <1>3, <2>1, CopyDirectoryJob DEF CopyDirectory, OpStep, Pass
<1>4. CASE CopyMkdir(t)
  <2>1. calls' = calls /\ renaming = Nobody /\ job[t].pc = "mkdir"
    BY <1>4, <1>1 DEF CopyMkdir, OpPcs, CopyPcs, Renames
  <2> QED
    BY <1>4, <2>1, CopyMkdirJob DEF CopyMkdir, OpStep, Pass, Fault, Fails, ChangesAlone, MakesDirs
<1>5. CASE CopyList(t)
  <2>1. calls' = calls /\ renaming = Nobody
    BY <1>5, <1>1 DEF CopyList, OpPcs, CopyPcs, Renames
  <2> QED
    BY <1>5, <2>1, CopyListJob DEF CopyList, OpStep, Pass, Fault
<1>6. CASE CopyNext(t)
  <2>1. calls' = calls /\ renaming = Nobody
    BY <1>6, <1>1 DEF CopyNext, OpPcs, CopyPcs, Renames
  <2> QED
    BY <1>6, <2>1, CopyNextJob DEF CopyNext, OpStep, Pass
<1>7. CASE CopyFile(t)
  <2>1. calls' = calls /\ renaming = Nobody
    BY <1>7, <1>1 DEF CopyFile, OpPcs, CopyPcs, Renames
  <2> QED
    BY <1>7, <2>1, CopyFileJob DEF CopyFile, OpStep, Pass
<1>8. CASE CopyOpen(t)
  <2>1. calls' = calls /\ renaming = Nobody
    BY <1>8, <1>1 DEF CopyOpen, OpPcs, CopyPcs, Renames
  <2> QED
    BY <1>8, <2>1, CopyOpenJob DEF CopyOpen, OpStep, Pass, Fault
<1>9. CASE CopyTemp(t)
  <2>1. calls' = calls /\ renaming = Nobody /\ job[t].pc = "temp"
    BY <1>9, <1>1 DEF CopyTemp, OpPcs, CopyPcs, Renames
  <2>2. Goes(t) /\ job'[t].pc \in {"done", "data"}
    BY <1>9, CopyTempJob
  <2>3. tree' = tree \/ MakesTemp(t)
    <3>1. ASSUME Goto(t, [pc |-> "data"])
          PROVE  job'[t].pc = "data"
      <4>1. job'[t] = With([pc |-> "data"], job[t])
        BY <3>1, GotoJobs
      <4> QED
        BY <4>1 DEF With
    <3> QED
      BY <1>9, <2>1, <3>1 DEF CopyTemp, MakesTemp, Fails
  <2>4. renaming' = renaming
    BY <1>9 DEF CopyTemp, Pass, Fault
  <2> QED
    BY <2>1, <2>2, <2>3, <2>4 DEF OpStep, ChangesAlone
<1>10. CASE CopyData(t)
  <2>1. calls' = calls /\ renaming = Nobody /\ job[t].pc = "data"
    BY <1>10, <1>1 DEF CopyData, OpPcs, CopyPcs, Renames
  <2> QED
    BY <1>10, <2>1, CopyDataJob DEF CopyData, OpStep, Pass, Fault, ChangesAlone, Completes
<1> QED
  BY <1>2, <1>3, <1>4, <1>5, <1>6, <1>7, <1>8, <1>9, <1>10

LEMMA OtherStep ==
    ASSUME TreeInv, NEW t \in Threads,
           \/ CopyDrop(t) \/ CopyUnback(t) \/ DeleteFile(t) \/ DeleteDirectoryTree(t) \/ RemoveAll(t)
           \/ CreateEmptyFile(t) \/ CloseEmptyFile(t) \/ CreateDirectory(t)
    PROVE  OpStep(t) /\ renaming = Nobody
<1> USE DEF TreeInv
<1>1. ASSUME NEW p \in OpPcs \ Renames, At(t, p)
      PROVE  calls' = calls /\ renaming = Nobody /\ job[t].pc = p
  BY <1>1, LockFree DEF At
<1>2. CASE CopyDrop(t)
  <2>1. calls' = calls /\ renaming = Nobody /\ job[t].pc = "drop"
    BY <1>2, <1>1 DEF CopyDrop, OpPcs, CopyPcs, Renames
  <2>2. TempPath(t) \in Paths
    BY <1>2, CopyDropJob, OpPaths DEF Goes
  <2> QED
    BY <1>2, <2>1, <2>2, CopyDropJob DEF CopyDrop, OpStep, Pass, Fault, ChangesAlone, Removes, CanRemove
<1>3. CASE CopyUnback(t)
  <2>1. calls' = calls /\ renaming = Nobody /\ job[t].pc = "unback"
    BY <1>3, <1>1 DEF CopyUnback, OpPcs, CopyPcs, Renames
  <2>2. BackupPath(t) \in Paths
    BY <1>3, CopyUnbackJob, OpPaths DEF Goes
  <2>3. MayRemove(t, BackupPath(t))
    BY <2>1 DEF MayRemove
  <2> QED
    BY <1>3, <2>1, <2>2, <2>3, CopyUnbackJob
    DEF CopyUnback, OpStep, Pass, Fault, Fails, ChangesAlone, Removes, CanRemove
<1>4. CASE DeleteFile(t)
  <2>1. calls' = calls /\ renaming = Nobody /\ job[t].pc = "delete"
    BY <1>4, <1>1 DEF DeleteFile, OpPcs, CopyPcs, Renames
  <2>2. job[t].src \in Paths
    BY <1>4, DeleteFileJob, OpPaths DEF Goes, Given
  <2>3. MayRemove(t, job[t].src)
    BY <2>1 DEF MayRemove
  <2> QED
    BY <1>4, <2>1, <2>2, <2>3, DeleteFileJob
    DEF DeleteFile, OpStep, Pass, Fault, Fails, ChangesAlone, Removes, CanRemove
<1>5. CASE DeleteDirectoryTree(t)
  <2>1. calls' = calls /\ renaming = Nobody
    BY <1>5, <1>1 DEF DeleteDirectoryTree, OpPcs, CopyPcs, Renames
  <2> QED
    BY <1>5, <2>1, DeleteDirectoryTreeJob DEF DeleteDirectoryTree, OpStep, Pass
<1>6. CASE RemoveAll(t)
  <2>1. calls' = calls /\ renaming = Nobody /\ job[t].pc = "clear"
    BY <1>6, <1>1 DEF RemoveAll, OpPcs, CopyPcs, Renames
  <2>2. Goes(t) /\ job[t].src \in Paths /\ job[t].src \in Walkways
    BY <1>6, RemoveAllJob, OpPaths, PathsAreWalkways DEF Goes
  <2>3. \A c \in Paths : Within(c, job[t].src) \/ c = job[t].src => MayRemove(t, c)
    BY <2>1, <2>2, PathsAreWalkways, UnderOrder DEF MayRemove
  <2>4. tree' = tree \/ Removes(t)
    BY <1>6, <2>2, <2>3 DEF RemoveAll, Fails, Removes, CanRemove
  <2>5. renaming' = renaming
    BY <1>6 DEF RemoveAll, Pass, Fault
  <2> QED
    BY <2>1, <2>2, <2>4, <2>5 DEF OpStep, ChangesAlone
<1>7. CASE CreateEmptyFile(t)
  <2>1. calls' = calls /\ renaming = Nobody /\ job[t].pc = "create"
    BY <1>7, <1>1 DEF CreateEmptyFile, OpPcs, CopyPcs, Renames
  <2> QED
    BY <1>7, <2>1, CreateEmptyFileJob DEF CreateEmptyFile, OpStep, Pass, Fails, ChangesAlone, MakesFile
<1>8. CASE CloseEmptyFile(t)
  <2>1. calls' = calls /\ renaming = Nobody /\ job[t].pc = "close"
    BY <1>8, <1>1 DEF CloseEmptyFile, OpPcs, CopyPcs, Renames
  <2>2. job[t].dst \in Paths
    BY <1>8, CloseEmptyFileJob, OpPaths DEF Goes, Given
  <2>3. faults' = faults + 1 => MayRemove(t, job[t].dst) \/ ClosesOver(t, job[t].dst)
    BY <2>1 DEF MayRemove, ClosesOver
  <2> QED
    BY <1>8, <2>1, <2>2, <2>3, CloseEmptyFileJob
    DEF CloseEmptyFile, OpStep, Pass, Fault, ChangesAlone, Removes, CanRemove
<1>9. CASE CreateDirectory(t)
  <2>1. calls' = calls /\ renaming = Nobody
    BY <1>9, <1>1 DEF CreateDirectory, OpPcs, CopyPcs, Renames
  <2> QED
    BY <1>9, <2>1, CreateDirectoryJob DEF CreateDirectory, OpStep, Pass
<1> QED
  BY <1>2, <1>3, <1>4, <1>5, <1>6, <1>7, <1>8, <1>9

LEMMA MkdirStep ==
    ASSUME TreeInv, NEW t \in Threads, Mkdir(t)
    PROVE  OpStep(t) /\ renaming # t
<1>1. job[t].pc = "mkdir1" /\ calls' = calls /\ renaming' = renaming
  BY DEF Mkdir, Pass
<1>2. renaming # t
  BY <1>1, NamesAssumption DEF TreeInv, RenameHeld, Renames
<1>3. Goes(t) /\ job'[t].pc = "done"
  BY MkdirJob DEF TreeInv
<1>4. tree' = tree \/ MakesDir(t)
  BY <1>1 DEF Mkdir, Fails, MakesDir
<1> QED
  BY <1>1, <1>2, <1>3, <1>4 DEF OpStep, Renames

(* The two halves of a rename.                                             *)
LEMMA RenameStep ==
    ASSUME TreeInv, NEW t \in Threads, RenameCheck(t) \/ RenameDo(t)
    PROVE  \/ OpStep(t)
           \/ /\ UNCHANGED <<tree, job, calls>> /\ renaming = Nobody /\ renaming' = t
              /\ job[t].pc \in Renames /\ RenameFrom(t) # RenameTo(t) /\ tree[RenameTo(t)] = None
<1>1. CASE RenameCheck(t)
  <2>1. job[t].pc \in Renames /\ renaming = Nobody /\ calls' = calls /\ tree' = tree
    BY <1>1 DEF RenameCheck
  <2>2. CASE RenameFrom(t) # RenameTo(t) /\ tree[RenameTo(t)] = None
    BY <1>1, <2>1, <2>2 DEF RenameCheck
  <2>3. CASE ~(RenameFrom(t) # RenameTo(t) /\ tree[RenameTo(t)] = None)
    <3>1. AfterRename(t, RenameFrom(t) = RenameTo(t)) /\ renaming' = renaming
      BY <1>1, <2>3 DEF RenameCheck
    <3>2. Goes(t)
      BY <2>1, <3>1, AfterRenameJob DEF TreeInv
    <3> QED
      BY <2>1, <3>1, <3>2 DEF OpStep
  <2> QED
    BY <2>2, <2>3
<1>2. CASE RenameDo(t)
  <2>1. renaming = t /\ renaming' = Nobody /\ calls' = calls /\ job[t].pc \in Renames
    BY <1>2, NamesAssumption DEF RenameDo, TreeInv, RenameHeld
  <2>2. \E ok \in BOOLEAN : AfterRename(t, ok)
    BY <1>2 DEF RenameDo
  <2>3. Goes(t)
    BY <2>1, <2>2, AfterRenameJob DEF TreeInv
  <2>4. tree' = tree \/ RenamesEntry(t)
    BY <1>2, <2>1 DEF RenameDo, RenamesEntry
  <2> QED
    BY <2>1, <2>3, <2>4 DEF OpStep
<1> QED
  BY <1>1, <1>2
-----------------------------------------------------------------------------
(* What the calls of the root leave                                        *)

LEMMA Names4 ==
    /\ None # Dir /\ Empty \notin {None, Dir} /\ \A x \in Old : x \notin {None, Dir}
    /\ \A n \in Ids : /\ Copying[n] \notin {None, Dir} /\ Copying[n] \notin Old \cup {Empty}
                      /\ Copying[n] \in Unfinished
BY StartAssumption, OwnNamesFacts DEF None, Dir, Empty, Unfinished

(* On the way from an entry down to one below it there is one right below. *)
LEMMA ChildToward ==
    ASSUME NEW q \in Walkways, NEW r \in Paths, Within(r, q)
    PROVE  \E c \in Paths : Parent(c) = q /\ Under(r, c) /\ Within(c, q)
<1> DEFINE c == SubSeq(r, 1, Len(q) + 1)
<1>1. r \in Walkways /\ r # <<>>
  BY PathsAreWalkways
<1>2. /\ Len(q) < Len(r) /\ Len(q) \in Nat /\ Len(r) \in Nat
      /\ \A i \in 1..Len(q) : r[i] = q[i]
  BY <1>1, UnderDef
<1>3. Len(q) + 1 \in 1..Len(r)
  BY <1>2
<1>4. c \in Paths /\ c \in Walkways /\ c # <<>>
  BY <1>3, PathsAssumption, PathsAreWalkways
<1>5. Len(c) = Len(q) + 1 /\ \A i \in 1..(Len(q) + 1) : c[i] = r[i]
  <2>1. \A i \in 1..(Len(q) + 1) : r[i] \in AllNames
    BY <1>1, <1>2 DEF Walkways
  <2>2. /\ Len(c) = IF 1 <= Len(q) + 1 THEN Len(q) + 1 - 1 + 1 ELSE 0
        /\ \A i \in 1 .. Len(q) + 1 - 1 + 1 : c[i] = r[1 + i - 1]
    BY <1>2, <2>1, SubSeqProperties
  <2>3. ASSUME NEW i \in 1..(Len(q) + 1)
        PROVE  c[i] = r[i]
    BY <1>2, <2>2
  <2>4. Len(c) = Len(q) + 1
    <3>1. 1 <= Len(q) + 1
      BY <1>2
    <3> HIDE DEF c
    <3>2. Len(c) = Len(q) + 1 - 1 + 1
      BY <3>1, <2>2
    <3> QED
      BY <3>2, <1>2
  <2> QED
    BY <2>3, <2>4
<1> HIDE DEF c
<1>6. Under(r, c)
  BY <1>1, <1>2, <1>4, <1>5, UnderDef
<1>7. Within(c, q)
  BY <1>2, <1>4, <1>5, UnderDef
<1>8. /\ Under(Parent(c), q) /\ Parent(c) \in Walkways /\ Len(Parent(c)) = Len(c) - 1
  BY <1>4, <1>7, ParentFacts
<1>9. Parent(c) = q
  <2>1. Len(Parent(c)) = Len(q)
    BY <1>2, <1>5, <1>8
  <2>2. ~Within(Parent(c), q)
    BY <1>2, <1>8, <2>1, UnderDef
  <2> QED
    BY <1>8, <2>2, UnderOrder
<1> QED
  BY <1>4, <1>6, <1>7, <1>9

(* With no entry right below there is none below at all.                   *)
LEMMA NothingBelow ==
    ASSUME Rooted, NEW q \in Paths, Children(tree, q) = {} \/ tree[q] # Dir
    PROVE  \A r \in Paths : Within(r, q) => tree[r] = None
<1> SUFFICES ASSUME NEW r \in Paths, Within(r, q), tree[r] # None
             PROVE  FALSE
  OBVIOUS
<1>1. tree[q] = Dir
  BY DEF Rooted
<1>2. PICK c \in Paths : Parent(c) = q /\ Under(r, c)
  BY ChildToward, PathsAreWalkways
<1>3. tree[c] # None
  <2>1. c = r \/ Within(r, c)
    BY <1>2, UnderOrder, PathsAreWalkways
  <2> QED
    BY <2>1, Names4 DEF Rooted
<1>4. c \in Children(tree, q)
  BY <1>2, <1>3 DEF Children
<1> QED
  BY <1>1, <1>4

TreeGood == TreeType /\ Rooted /\ PartialsInPlace /\ TempsAreFiles

(* A file a caller may name is left alone by t, or t was asked to change it. *)
AskedOf(t) ==
    \A q \in Given : IsFile(tree[q]) /\ tree'[q] # tree[q] =>
        AskedToRemove(job[t], q) \/ ClosesOver(t, q)

(* A content that is lost is lost by a last step of t, or by its failing   *)
(* Close.                                                                  *)
LostBy(t) ==
    \A v \in Contents(tree) \ Contents(tree') :
        \E q \in Paths : tree[q] = v /\ tree'[q] = None /\ (MayRemove(t, q) \/ ClosesOver(t, q))

(* The contents that count are in entries without a temporary name.        *)
LEMMA ContentAt ==
    ASSUME TreeType, NEW v \in Contents(tree)
    PROVE  \E q \in Paths : /\ tree[q] = v /\ IsFile(v) /\ v \notin Unfinished
                            /\ \A n \in Ids : Last(q) # Copying[n]
<1>1. PICK q \in Paths : tree[q] = v /\ ~\E n \in Ids : Last(q) = Copying[n]
  BY DEF Contents
<1>2. v \in Old \cup {Empty}
  BY DEF Contents
<1> QED
  BY <1>1, <1>2, Names4 DEF IsFile, Unfinished

LEMMA ContentThere ==
    ASSUME TreeType, NEW v \in Contents(tree), NEW tr, NEW q \in Paths, tr[q] = v,
           \A n \in Ids : Last(q) # Copying[n]
    PROVE  v \in Contents(tr)
BY DEF Contents

(* Directories made on the way to p                                        *)
LEMMA MkdirAllEntries ==
    ASSUME TreeType, NEW p \in Walkways, CanMkdirAll(tree, p)
    PROVE  /\ MkdirAll(tree, p) \in [Paths -> Old \cup {Empty, None, Dir} \cup Unfinished]
           /\ \A q \in Paths : /\ Under(p, q) => MkdirAll(tree, p)[q] = Dir /\ tree[q] \in {None, Dir}
                               /\ ~Under(p, q) => MkdirAll(tree, p)[q] = tree[q]
BY DEF TreeType, MkdirAll, CanMkdirAll

LEMMA MakesDirsGood ==
    ASSUME TreeGood, NEW t \in Threads, OpJob(job[t]), MakesDirs(t)
    PROVE  /\ TreeGood' /\ AskedOf(t) /\ LostBy(t)
           /\ \A q \in Paths : IsFile(tree[q]) \/ IsFile(tree'[q]) => tree'[q] = tree[q]
           /\ \A q \in Paths : tree[q] # None => tree'[q] = tree[q]
<1> DEFINE p == job[t].to
<1> USE DEF TreeGood
<1>1. p \in Given /\ p \in Walkways
  BY PathsAreWalkways DEF OpJob
<1>2. /\ tree' \in [Paths -> Old \cup {Empty, None, Dir} \cup Unfinished]
      /\ \A q \in Paths : /\ Under(p, q) => tree'[q] = Dir /\ tree[q] \in {None, Dir}
                          /\ ~Under(p, q) => tree'[q] = tree[q]
  BY <1>1, MkdirAllEntries DEF MakesDirs
<1>3. /\ \A q \in Paths : tree[q] # None => tree'[q] = tree[q]
      /\ \A q \in Paths : IsFile(tree[q]) \/ IsFile(tree'[q]) => tree'[q] = tree[q]
  BY <1>2, Names4 DEF IsFile
<1>4. Rooted'
  <2> SUFFICES ASSUME NEW q \in Paths, NEW r \in Paths, tree'[q] # None, Within(q, r)
               PROVE  tree'[r] = Dir
    BY DEF Rooted
  <2>1. CASE Under(p, q)
    <3>1. Under(p, r)
      BY <1>1, <2>1, UnderTransitive, UnderOrder, PathsAreWalkways
    <3> QED
      BY <3>1, <1>2
  <2>2. CASE ~Under(p, q)
    BY <2>2, <1>2 DEF Rooted
  <2> QED
    BY <2>1, <2>2
<1>5. PartialsInPlace'
  BY <1>2, Names4 DEF PartialsInPlace
<1>6. TempsAreFiles'
  <2> SUFFICES ASSUME NEW q \in Paths, NEW n \in Ids, Last(q) = Copying[n]
               PROVE  tree'[q] # Dir
    BY DEF TempsAreFiles
  <2>1. Own(q)
    BY OwnFacts, OwnNamesFacts, PathsAreWalkways
  <2>2. ~Under(p, q)
    BY <1>1, <2>1, OwnFacts, PathsAreWalkways DEF Given
  <2> QED
    BY <2>2, <1>2 DEF TempsAreFiles
<1>7. AskedOf(t)
  BY <1>3, PathsAreWalkways DEF AskedOf
<1>8. LostBy(t)
  <2> SUFFICES ASSUME NEW v \in Contents(tree)
               PROVE  v \in Contents(tree')
    BY DEF LostBy
  <2> QED
    BY <1>3, ContentAt, ContentThere
<1> QED
  BY <1>2, <1>3, <1>4, <1>5, <1>6, <1>7, <1>8 DEF TreeType

(* A new file x at s, with the directories on the way to it                 *)
Adds(s, x) ==
    /\ s \in Paths /\ CanMkdirAll(tree, Parent(s)) /\ tree[s] # Dir
    /\ tree' = [MkdirAll(tree, Parent(s)) EXCEPT ![s] = x]

LEMMA AddsEntries ==
    ASSUME TreeGood, NEW s \in Paths, NEW x \in Old \cup {Empty} \cup Unfinished, Adds(s, x)
    PROVE  /\ TreeType' /\ Rooted' /\ tree'[s] = x
           /\ \A q \in Paths : /\ q # s /\ Within(s, q) => tree'[q] = Dir /\ tree[q] \in {None, Dir}
                               /\ q # s /\ ~Within(s, q) => tree'[q] = tree[q]
                               /\ q # s /\ tree[q] # None => tree'[q] = tree[q]
<1> USE DEF TreeGood
<1>1. s \in Walkways /\ s # <<>> /\ Parent(s) \in Walkways /\ Within(s, Parent(s))
  BY PathsAreWalkways, ParentFacts
<1>2. \A q \in Paths : Within(s, q) <=> Under(Parent(s), q)
  BY <1>1, ParentFacts, UnderTransitive, PathsAreWalkways
<1>3. /\ MkdirAll(tree, Parent(s)) \in [Paths -> Old \cup {Empty, None, Dir} \cup Unfinished]
      /\ \A q \in Paths : /\ Under(Parent(s), q) => MkdirAll(tree, Parent(s))[q] = Dir /\ tree[q] \in {None, Dir}
                          /\ ~Under(Parent(s), q) => MkdirAll(tree, Parent(s))[q] = tree[q]
  BY <1>1, MkdirAllEntries DEF Adds
<1>4. tree' \in [Paths -> Old \cup {Empty, None, Dir} \cup Unfinished] /\ tree'[s] = x
  BY <1>3 DEF Adds
<1>5. \A q \in Paths : /\ q # s /\ Within(s, q) => tree'[q] = Dir /\ tree[q] \in {None, Dir}
                       /\ q # s /\ ~Within(s, q) => tree'[q] = tree[q]
  BY <1>2, <1>3 DEF Adds
<1>6. \A q \in Paths : q # s /\ tree[q] # None => tree'[q] = tree[q]
  BY <1>5
<1>7. Rooted'
  <2> SUFFICES ASSUME NEW q \in Paths, NEW r \in Paths, tree'[q] # None, Within(q, r)
               PROVE  tree'[r] = Dir
    BY DEF Rooted
  <2>0. q \in Walkways /\ r \in Walkways
    BY PathsAreWalkways
  <2>1. CASE q = s
    <3>1. r # s
      BY <2>0, <2>1, UnderOrder
    <3> QED
      BY <2>1, <3>1, <1>5
  <2>2. CASE q # s /\ Within(s, q)
    <3>1. Within(s, r)
      BY <2>0, <2>2, <1>1, UnderTransitive, UnderOrder
    <3>2. r # s
      BY <2>0, <3>1, <1>1, UnderOrder
    <3> QED
      BY <3>1, <3>2, <1>5
  <2>3. CASE q # s /\ ~Within(s, q)
    <3>1. tree[r] = Dir
      BY <2>3, <1>5 DEF Rooted
    <3>2. r # s
      BY <3>1 DEF Adds
    <3> QED
      BY <3>1, <3>2, <1>6, Names4
  <2> QED
    BY <2>1, <2>2, <2>3
<1> QED
  BY <1>4, <1>5, <1>6, <1>7 DEF TreeType

(* Only the creation of a temporary file makes an unfinished one.          *)
StaysFinished(t) ==
    \A n \in Ids : (\A q \in Paths : tree[q] # Copying[n]) /\ (job[t].pc = "temp" => n # job[t].id) =>
                       \A q \in Paths : tree'[q] # Copying[n]

StepGood(t) == TreeGood' /\ AskedOf(t) /\ LostBy(t) /\ StaysFinished(t)

(* A call that keeps every file where it is                                *)
LEMMA FilesStay ==
    ASSUME TreeGood, NEW t \in Threads, NEW s \in Paths,
           \A q \in Paths : q # s /\ IsFile(tree[q]) => tree'[q] = tree[q],
           IsFile(tree[s]) => \E n \in Ids : Last(s) = Copying[n]
    PROVE  AskedOf(t) /\ LostBy(t)
<1>1. AskedOf(t)
  <2> SUFFICES ASSUME NEW q \in Given, IsFile(tree[q])
               PROVE  tree'[q] = tree[q]
    BY DEF AskedOf
  <2>1. q \in Paths /\ q \in Walkways /\ q # <<>> /\ ~Own(q)
    BY PathsAreWalkways DEF Given
  <2>2. q # s
    BY <2>1, OwnFacts, OwnNamesFacts
  <2> QED
    BY <2>1, <2>2
<1>2. LostBy(t)
  <2> SUFFICES ASSUME NEW v \in Contents(tree)
               PROVE  v \in Contents(tree')
    BY DEF LostBy
  <2>1. PICK q \in Paths : tree[q] = v /\ IsFile(v) /\ \A n \in Ids : Last(q) # Copying[n]
    BY ContentAt DEF TreeGood
  <2>2. tree'[q] = v
    BY <2>1
  <2> QED
    BY <2>1, <2>2, ContentThere DEF TreeGood
<1> QED
  BY <1>1, <1>2

LEMMA MakesDirsStep ==
    ASSUME TreeGood, NEW t \in Threads, OpJob(job[t]), MakesDirs(t)
    PROVE  StepGood(t)
<1>1. /\ TreeGood' /\ AskedOf(t) /\ LostBy(t)
      /\ \A q \in Paths : IsFile(tree[q]) \/ IsFile(tree'[q]) => tree'[q] = tree[q]
  BY MakesDirsGood
<1>2. StaysFinished(t)
  BY <1>1, Names4 DEF StaysFinished, IsFile
<1> QED
  BY <1>1, <1>2 DEF StepGood

LEMMA MakesTempStep ==
    ASSUME TreeGood, NEW t \in Threads, OpJob(job[t]), MakesTemp(t)
    PROVE  StepGood(t)
<1> DEFINE s == TempPath(t)
           i == job[t].id
<1> USE DEF TreeGood
<1>1. /\ s \in Paths /\ Own(s) /\ Last(s) = Copying[i] /\ i \in Ids /\ job[t].to \in Given
      /\ Parent(s) = Parent(job[t].to)
      /\ \A r \in Walkways : Within(s, r) <=> Within(job[t].to, r)
  BY OpPaths DEF OpJob
<1>2. Copying[i] \in Unfinished /\ tree[s] # Dir
  BY <1>1, Names4 DEF TempsAreFiles
<1>3. Adds(s, Copying[i])
  BY <1>1, <1>2 DEF MakesTemp, Adds, Partial
<1> HIDE DEF s, i
<1>4. /\ TreeType' /\ Rooted' /\ tree'[s] = Copying[i]
      /\ \A q \in Paths : /\ q # s /\ Within(s, q) => tree'[q] = Dir /\ tree[q] \in {None, Dir}
                          /\ q # s /\ ~Within(s, q) => tree'[q] = tree[q]
                          /\ q # s /\ tree[q] # None => tree'[q] = tree[q]
  BY <1>1, <1>2, <1>3, AddsEntries
<1>5. \A q \in Paths : tree'[q] \in {tree[q], Dir} \/ q = s
  BY <1>4
<1>6. PartialsInPlace'
  <2> SUFFICES ASSUME NEW q \in Paths, NEW n \in Ids, tree'[q] = Copying[n]
               PROVE  Last(q) = Copying[n]
    BY DEF PartialsInPlace
  <2>1. CASE q = s
    BY <2>1, <1>1, <1>4
  <2>2. CASE q # s
    BY <2>2, <1>5, Names4 DEF PartialsInPlace
  <2> QED
    BY <2>1, <2>2
<1>7. TempsAreFiles'
  <2> SUFFICES ASSUME NEW q \in Paths, NEW n \in Ids, Last(q) = Copying[n]
               PROVE  tree'[q] # Dir
    BY DEF TempsAreFiles
  <2>1. Own(q) /\ q \in Walkways
    BY OwnFacts, OwnNamesFacts, PathsAreWalkways
  <2>2. ~Within(s, q)
    <3>1. job[t].to \in Walkways /\ ~Own(job[t].to)
      BY <1>1, PathsAreWalkways DEF Given
    <3> QED
      BY <3>1, <2>1, <1>1, OwnFacts, UnderOrder
  <2>3. CASE q = s
    BY <2>3, <1>1, <1>4, Names4
  <2>4. CASE q # s
    BY <2>2, <2>4, <1>4 DEF TempsAreFiles
  <2> QED
    BY <2>3, <2>4
<1>8. AskedOf(t) /\ LostBy(t)
  <2>1. \A q \in Paths : q # s /\ IsFile(tree[q]) => tree'[q] = tree[q]
    BY <1>4 DEF IsFile
  <2> QED
    BY <2>1, <1>1, FilesStay
<1>9. StaysFinished(t)
  <2> SUFFICES ASSUME NEW n \in Ids, \A q \in Paths : tree[q] # Copying[n], n # i,
                      NEW q \in Paths
               PROVE  tree'[q] # Copying[n]
    BY DEF StaysFinished, MakesTemp, i
  <2>1. Copying[n] # Copying[i] /\ Copying[n] # Dir
    BY <1>1, OwnNamesFacts, Names4
  <2> QED
    BY <2>1, <1>4, <1>5
<1> QED
  BY <1>4, <1>6, <1>7, <1>8, <1>9 DEF StepGood

LEMMA MakesFileStep ==
    ASSUME TreeGood, NEW t \in Threads, OpJob(job[t]), MakesFile(t)
    PROVE  StepGood(t)
<1> DEFINE s == job[t].dst
<1> USE DEF TreeGood
<1>1. s \in Given /\ s \in Paths /\ s \in Walkways /\ ~Own(s)
  BY PathsAreWalkways DEF OpJob, Given
<1>2. tree[s] = None
  BY DEF MakesFile
<1>3. Adds(s, Empty)
  BY <1>1, <1>2, Names4 DEF MakesFile, Adds
<1> HIDE DEF s
<1>4. /\ TreeType' /\ Rooted' /\ tree'[s] = Empty
      /\ \A q \in Paths : /\ q # s /\ Within(s, q) => tree'[q] = Dir /\ tree[q] \in {None, Dir}
                          /\ q # s /\ ~Within(s, q) => tree'[q] = tree[q]
                          /\ q # s /\ tree[q] # None => tree'[q] = tree[q]
  BY <1>1, <1>3, AddsEntries
<1>5. \A q \in Paths : tree'[q] \in {tree[q], Dir, Empty}
  BY <1>4
<1>6. PartialsInPlace'
  BY <1>5, Names4 DEF PartialsInPlace
<1>7. TempsAreFiles'
  <2> SUFFICES ASSUME NEW q \in Paths, NEW n \in Ids, Last(q) = Copying[n]
               PROVE  tree'[q] # Dir
    BY DEF TempsAreFiles
  <2>1. Own(q) /\ q \in Walkways
    BY OwnFacts, OwnNamesFacts, PathsAreWalkways
  <2>2. ~Within(s, q)
    BY <2>1, <1>1, OwnFacts, UnderOrder
  <2>3. q # s
    BY <2>1, <1>1
  <2> QED
    BY <2>2, <2>3, <1>4 DEF TempsAreFiles
<1>8. AskedOf(t) /\ LostBy(t)
  <2>1. \A q \in Paths : q # s /\ IsFile(tree[q]) => tree'[q] = tree[q]
    BY <1>4 DEF IsFile
  <2> QED
    BY <2>1, <1>1, <1>2, FilesStay DEF IsFile
<1>9. StaysFinished(t)
  BY <1>5, Names4 DEF StaysFinished
<1> QED
  BY <1>4, <1>6, <1>7, <1>8, <1>9 DEF StepGood

LEMMA CompletesStep ==
    ASSUME TreeGood, NEW t \in Threads, OpJob(job[t]), Completes(t)
    PROVE  StepGood(t) /\ \A q \in Paths : tree'[q] # Copying[job[t].id]
<1> DEFINE i == job[t].id
<1> USE DEF TreeGood
<1>1. i \in Ids /\ job[t].data \in Old \cup {Empty}
  BY DEF OpJob, PcFits, Completes
<1>2. \A q \in Paths : /\ tree[q] = Copying[i] => tree'[q] = job[t].data
                       /\ tree[q] # Copying[i] => tree'[q] = tree[q]
  BY DEF Completes, Partial
<1>3. /\ Copying[i] \notin {None, Dir} /\ job[t].data \notin {None, Dir}
      /\ \A n \in Ids : job[t].data # Copying[n]
  BY <1>1, Names4
<1>4. TreeType'
  BY <1>1 DEF TreeType, Completes
<1> HIDE DEF i
<1>5. \A q \in Paths : (tree'[q] = Dir <=> tree[q] = Dir) /\ (tree'[q] = None <=> tree[q] = None)
  BY <1>2, <1>3
<1>6. Rooted' /\ TempsAreFiles'
  BY <1>5 DEF Rooted, TempsAreFiles
<1>7. PartialsInPlace' /\ StaysFinished(t)
  BY <1>2, <1>3 DEF PartialsInPlace, StaysFinished
<1>8. AskedOf(t)
  <2> SUFFICES ASSUME NEW q \in Given
               PROVE  tree'[q] = tree[q]
    BY DEF AskedOf
  <2>1. q \in Paths /\ q \in Walkways /\ q # <<>> /\ ~Own(q)
    BY PathsAreWalkways DEF Given
  <2>2. tree[q] # Copying[i]
    BY <2>1, <1>1, OwnFacts, OwnNamesFacts DEF PartialsInPlace
  <2> QED
    BY <2>1, <2>2, <1>2
<1>9. LostBy(t)
  <2> SUFFICES ASSUME NEW v \in Contents(tree)
               PROVE  v \in Contents(tree')
    BY DEF LostBy
  <2>1. PICK q \in Paths : /\ tree[q] = v /\ v \notin Unfinished
                           /\ \A n \in Ids : Last(q) # Copying[n]
    BY ContentAt
  <2>2. tree'[q] = v
    BY <2>1, <1>1, <1>2 DEF Unfinished
  <2> QED
    BY <2>1, <2>2, ContentThere
<1>10. \A q \in Paths : tree'[q] # Copying[i]
  BY <1>1, <1>2, <1>3
<1> QED
  BY <1>4, <1>6, <1>7, <1>8, <1>9, <1>10 DEF StepGood, i

LEMMA MakesDirStep ==
    ASSUME TreeGood, NEW t \in Threads, OpJob(job[t]), MakesDir(t)
    PROVE  StepGood(t)
<1> DEFINE s == job[t].dst
<1> USE DEF TreeGood
<1>1. s \in Given /\ s \in Paths /\ s \in Walkways /\ ~Own(s)
  BY PathsAreWalkways DEF OpJob, Given
<1>2. tree[s] = None /\ (\A r \in Paths : Within(s, r) => tree[r] = Dir)
  BY DEF MakesDir, ParentIsDir
<1>3. tree'[s] = Dir /\ \A q \in Paths : q # s => tree'[q] = tree[q]
  BY <1>1 DEF MakesDir, TreeType
<1>4. TreeType'
  BY DEF MakesDir, TreeType
<1> HIDE DEF s
<1>5. Rooted'
  <2> SUFFICES ASSUME NEW q \in Paths, NEW r \in Paths, tree'[q] # None, Within(q, r)
               PROVE  tree'[r] = Dir
    BY DEF Rooted
  <2>1. CASE r = s
    BY <2>1, <1>3
  <2>2. CASE r # s /\ q = s
    BY <2>2, <1>2, <1>3
  <2>3. CASE r # s /\ q # s
    BY <2>3, <1>3 DEF Rooted
  <2> QED
    BY <2>1, <2>2, <2>3
<1>6. PartialsInPlace' /\ StaysFinished(t)
  BY <1>3, Names4 DEF PartialsInPlace, StaysFinished
<1>7. TempsAreFiles'
  <2> SUFFICES ASSUME NEW q \in Paths, NEW n \in Ids, Last(q) = Copying[n]
               PROVE  tree'[q] # Dir
    BY DEF TempsAreFiles
  <2>1. Own(q)
    BY OwnFacts, OwnNamesFacts, PathsAreWalkways
  <2> QED
    BY <2>1, <1>1, <1>3 DEF TempsAreFiles
<1>8. AskedOf(t) /\ LostBy(t)
  BY <1>1, <1>2, <1>3, FilesStay DEF IsFile
<1> QED
  BY <1>4, <1>5, <1>6, <1>7, <1>8 DEF StepGood

LEMMA RemovesStep ==
    ASSUME TreeGood, NEW t \in Threads, OpJob(job[t]), Removes(t)
    PROVE  StepGood(t)
<1> USE DEF TreeGood
<1>1. PICK s \in Paths :
        /\ Children(tree, s) = {} /\ tree' = RemoveEntry(tree, s)
        /\ MayRemove(t, s) \/ ClosesOver(t, s) \/ (job[t].pc = "drop" /\ s = TempPath(t))
  BY DEF Removes
<1>2. tree'[s] = None /\ (\A q \in Paths : q # s => tree'[q] = tree[q])
  BY <1>1 DEF RemoveEntry, TreeType
<1>3. TreeType'
  BY <1>1 DEF RemoveEntry, TreeType
<1>4. Rooted'
  <2>1. \A q \in Paths : Within(q, s) => tree[q] = None
    BY <1>1, NothingBelow
  <2> SUFFICES ASSUME NEW q \in Paths, NEW r \in Paths, tree'[q] # None, Within(q, r)
               PROVE  tree'[r] = Dir
    BY DEF Rooted
  <2>2. q # s /\ tree'[q] = tree[q]
    BY <1>2
  <2>3. r # s
    BY <2>1, <2>2
  <2> QED
    BY <2>2, <2>3, <1>2 DEF Rooted
<1>5. PartialsInPlace' /\ TempsAreFiles' /\ StaysFinished(t)
  BY <1>2, Names4 DEF PartialsInPlace, TempsAreFiles, StaysFinished
<1>6. OpPcs \cap {"idle"} = {} /\ job[t].pc \in OpPcs
  BY DEF OpPcs, CopyPcs, OpJob
<1>7. AskedOf(t)
  <2> SUFFICES ASSUME s \in Given
               PROVE  AskedToRemove(job[t], s) \/ ClosesOver(t, s)
    BY <1>2, PathsAreWalkways DEF AskedOf
  <2>1. s # TempPath(t) /\ s # BackupPath(t)
    BY OpPaths DEF Given
  <2>2. \/ job[t].pc = "delete" /\ s = job[t].src
        \/ job[t].pc = "clear" /\ Under(s, job[t].src)
        \/ job[t].pc = "close" /\ s = job[t].dst /\ tree[s] = Empty
        \/ ClosesOver(t, s)
    BY <2>1, <1>1 DEF MayRemove
  <2>3. s \in Walkways /\ Under(s, s)
    BY PathsAreWalkways, UnderOrder
  <2>4. PcFits(job[t])
    BY DEF OpJob
  <2> QED
    BY <2>2, <2>3, <2>4 DEF AskedToRemove, PcFits
<1>8. LostBy(t)
  <2> SUFFICES ASSUME NEW v \in Contents(tree), v \notin Contents(tree')
               PROVE  \E q \in Paths : tree[q] = v /\ tree'[q] = None /\ (MayRemove(t, q) \/ ClosesOver(t, q))
    BY DEF LostBy
  <2>1. PICK q \in Paths : tree[q] = v /\ \A n \in Ids : Last(q) # Copying[n]
    BY ContentAt
  <2>2. tree'[q] # v
    BY <2>1, ContentThere
  <2>3. q = s
    BY <2>1, <2>2, <1>2
  <2>4. s # TempPath(t)
    BY <2>1, <2>3, OpPaths DEF OpJob
  <2> QED
    BY <2>1, <2>3, <2>4, <1>1, <1>2
<1> QED
  BY <1>3, <1>4, <1>5, <1>7, <1>8 DEF StepGood

(* The two places of a rename are apart, and nothing is below the new one. *)
RenamePlaces(f, g) ==
    /\ f \in Paths /\ g \in Paths /\ f # g /\ tree[f] # None /\ ~Within(g, f)
    /\ tree[g] \in {None, Dir}
    /\ \A r \in Paths : Within(g, r) => tree[r] = Dir
    /\ tree[g] = Dir => Children(tree, g) = {}
    /\ \A r \in Paths : Under(r, f) /\ tree[r] # None => Moved(r, f, g) \in Paths

LEMMA RenameApart ==
    ASSUME TreeGood, NEW f, NEW g, RenamePlaces(f, g)
    PROVE  /\ f \in Walkways /\ g \in Walkways
           /\ \A r \in Paths : Within(r, g) => tree[r] = None
           /\ \A r \in Walkways : ~(Under(r, f) /\ Under(r, g))
           /\ \A r \in Walkways : Within(g, r) => ~Under(r, f) /\ ~Under(r, g)
<1> USE DEF RenamePlaces, TreeGood
<1>1. f \in Walkways /\ g \in Walkways
  BY PathsAreWalkways
<1>2. \A r \in Paths : Within(r, g) => tree[r] = None
  BY NothingBelow
<1>3. ~Under(f, g) /\ ~Under(g, f)
  BY <1>1, <1>2, UnderOrder
<1>4. \A r \in Walkways : ~(Under(r, f) /\ Under(r, g))
  BY <1>1, <1>3, UnderTransitive, UnderOrder
<1>5. \A r \in Walkways : Within(g, r) => ~Under(r, f) /\ ~Under(r, g)
  BY <1>1, <1>3, UnderTransitive, UnderOrder
<1> QED
  BY <1>1, <1>2, <1>4, <1>5

(* Where each entry is after a rename                                      *)
LEMMA RenameEntries ==
    ASSUME TreeGood, NEW f, NEW g, RenamePlaces(f, g), tree' = RenameEntry(tree, f, g)
    PROVE  /\ TreeType'
           /\ \A r \in Paths : Under(r, g) /\ tree'[r] # None =>
                 /\ Moved(r, g, f) \in Paths /\ tree'[r] = tree[Moved(r, g, f)]
                 /\ Under(Moved(r, g, f), f)
                 /\ r = g => Moved(r, g, f) = f
                 /\ r # g => Last(r) = Last(Moved(r, g, f))
           /\ \A r \in Paths : Under(r, f) => tree'[r] = None
           /\ \A r \in Paths : ~Under(r, f) /\ ~Under(r, g) => tree'[r] = tree[r]
           /\ \A r \in Paths : Under(r, f) /\ tree[r] # None =>
                 /\ Moved(r, f, g) \in Paths /\ tree'[Moved(r, f, g)] = tree[r]
                 /\ r = f => Moved(r, f, g) = g
                 /\ r # f => Last(Moved(r, f, g)) = Last(r)
<1>1. /\ f \in Walkways /\ g \in Walkways
      /\ \A r \in Walkways : ~(Under(r, f) /\ Under(r, g))
  BY RenameApart
<1>2. TreeType'
  BY DEF TreeGood, TreeType, RenameEntry
<1>3. \A r \in Paths : tree'[r] = IF Under(r, g)
                                  THEN IF Moved(r, g, f) \in Paths THEN tree[Moved(r, g, f)] ELSE None
                                  ELSE IF Under(r, f) THEN None ELSE tree[r]
  BY DEF RenameEntry
<1>4. ASSUME NEW r \in Paths, Under(r, g), tree'[r] # None
      PROVE  /\ Moved(r, g, f) \in Paths /\ tree'[r] = tree[Moved(r, g, f)]
             /\ Under(Moved(r, g, f), f)
             /\ r = g => Moved(r, g, f) = f
             /\ r # g => Last(r) = Last(Moved(r, g, f))
  <2>1. Moved(r, g, f) \in Paths /\ tree'[r] = tree[Moved(r, g, f)]
    BY <1>3, <1>4
  <2>2. r \in Walkways
    BY PathsAreWalkways
  <2> QED
    BY <1>1, <1>4, <2>1, <2>2, MovedUnder
<1>5. ASSUME NEW r \in Paths, Under(r, f), tree[r] # None
      PROVE  /\ Moved(r, f, g) \in Paths /\ tree'[Moved(r, f, g)] = tree[r]
             /\ r = f => Moved(r, f, g) = g
             /\ r # f => Last(Moved(r, f, g)) = Last(r)
  <2>1. r \in Walkways /\ Moved(r, f, g) \in Paths
    BY <1>5, PathsAreWalkways DEF RenamePlaces
  <2>2. Under(Moved(r, f, g), g) /\ Moved(Moved(r, f, g), g, f) = r
    BY <1>1, <1>5, <2>1, MovedUnder, MovedBack
  <2>3. tree'[Moved(r, f, g)] = tree[r]
    BY <1>3, <2>1, <2>2
  <2> QED
    BY <1>1, <1>5, <2>1, <2>3, MovedUnder
<1>6. ASSUME NEW r \in Paths, Under(r, f)
      PROVE  tree'[r] = None
  BY <1>1, <1>3, <1>6, PathsAreWalkways
<1> QED
  BY <1>2, <1>3, <1>4, <1>5, <1>6

LEMMA RenameRooted ==
    ASSUME TreeGood, NEW f, NEW g, RenamePlaces(f, g), tree' = RenameEntry(tree, f, g)
    PROVE  Rooted'
<1> SUFFICES ASSUME NEW q \in Paths, NEW r \in Paths, tree'[q] # None, Within(q, r)
             PROVE  tree'[r] = Dir
  BY DEF Rooted
<1>1. q \in Walkways /\ r \in Walkways /\ f \in Walkways /\ g \in Walkways /\ f # <<>>
  BY RenameApart, PathsAreWalkways DEF RenamePlaces
<1>2. CASE Under(q, g) /\ Under(r, g)
  <2> DEFINE m == Moved(q, g, f)
             n == Moved(r, g, f)
  <2>1. m \in Paths /\ tree[m] # None /\ Under(n, f) /\ n \in Walkways
    <3>1. Moved(q, g, f) \in Paths /\ tree'[q] = tree[Moved(q, g, f)]
      BY <1>2, RenameEntries
    <3>2. Under(n, f) /\ n \in Walkways
      BY <1>1, <1>2, MovedUnder, MovedDef
    <3> QED
      BY <3>1, <3>2
  <2>2. Within(m, n)
    BY <1>1, <1>2, MovedOrder
  <2>3. n # <<>>
    BY <1>1, <2>1, UnderDef, EmptySeq DEF Walkways
  <2>4. n \in Paths
    BY <2>1, <2>2, <2>3, PathAbove, UnderOrder, PathsAreWalkways
  <2>5. tree[n] = Dir
    BY <2>1, <2>2, <2>4 DEF TreeGood, Rooted
  <2> QED
    BY <2>4, <2>5, <1>2 DEF RenameEntry
<1>3. CASE Under(q, g) /\ ~Under(r, g)
  <2>1. Within(g, r)
    BY <1>1, <1>3, UnderOrder, UnderTransitive
  <2>2. tree[r] = Dir /\ ~Under(r, f)
    BY <1>1, <2>1, RenameApart DEF RenamePlaces
  <2> QED
    BY <1>3, <2>2, RenameEntries
<1>4. CASE ~Under(q, g)
  <2>1. ~Under(q, f) /\ tree'[q] = tree[q]
    BY <1>4, RenameEntries
  <2>2. tree[r] = Dir
    BY <2>1 DEF TreeGood, Rooted
  <2>3. ~Under(r, f) /\ ~Under(r, g)
    BY <1>1, <1>4, <2>1, UnderTransitive, UnderOrder
  <2> QED
    BY <2>2, <2>3, RenameEntries
<1> QED
  BY <1>2, <1>3, <1>4

(* What each rename of an operation is of and to                           *)
LEMMA RenameNames ==
    ASSUME TreeGood, Finished, NEW t \in Threads, OpJob(job[t]), job[t].pc \in Renames
    PROVE  /\ \A n \in Ids : tree[RenameFrom(t)] # Copying[n]
           /\ \A n \in Ids : Last(RenameTo(t)) # Copying[n]
           /\ \A q \in Given : Under(q, RenameFrom(t)) => AskedToRemove(job[t], q)
<1> DEFINE j == job[t]
<1>1. /\ Last(TempPath(t)) = Copying[j.id] /\ Last(BackupPath(t)) = Replaced[j.id]
      /\ TempPath(t) \in Paths /\ BackupPath(t) \in Paths /\ j.id \in Ids
      /\ j.to \in Given /\ j.src \in Given /\ j.dst \in Given /\ Under(j.to, j.dst)
      /\ \A r \in Given : ~Under(r, TempPath(t)) /\ ~Under(r, BackupPath(t))
  BY OpPaths DEF OpJob
<1>2. \A q \in Given, n \in Ids : Last(q) # Copying[n] /\ tree[q] # Copying[n]
  <2> SUFFICES ASSUME NEW q \in Given, NEW n \in Ids
               PROVE  Last(q) # Copying[n] /\ tree[q] # Copying[n]
    OBVIOUS
  <2>1. q \in Paths /\ q \in Walkways /\ q # <<>> /\ ~Own(q)
    BY PathsAreWalkways DEF Given
  <2> QED
    BY <2>1, OwnFacts, OwnNamesFacts DEF TreeGood, PartialsInPlace
<1>3. \A n \in Ids : Last(BackupPath(t)) # Copying[n] /\ tree[BackupPath(t)] # Copying[n]
  BY <1>1, OwnNamesFacts DEF TreeGood, PartialsInPlace
<1>4. PcFits(j)
  BY DEF OpJob
<1>5. CASE j.pc = "rename"
  <2>1. RenameFrom(t) = j.src /\ RenameTo(t) = j.dst
    BY <1>5 DEF RenameFrom, RenameTo
  <2>2. \A q \in Given : Under(q, j.src) => AskedToRemove(job[t], q)
    BY <1>5, <1>4 DEF AskedToRemove, PcFits
  <2> QED
    BY <2>1, <2>2, <1>1, <1>2
<1>6. CASE j.pc \in {"commit", "swap"}
  <2>1. RenameFrom(t) = TempPath(t) /\ RenameTo(t) = j.to
    BY <1>6 DEF RenameFrom, RenameTo
  <2>2. \A n \in Ids : tree[TempPath(t)] # Copying[n]
    BY <1>1, <1>6, OwnNamesFacts DEF TreeGood, PartialsInPlace, Finished
  <2> QED
    BY <2>1, <2>2, <1>1, <1>2
<1>7. CASE j.pc = "backup"
  <2>1. RenameFrom(t) = j.to /\ RenameTo(t) = BackupPath(t)
    BY <1>7 DEF RenameFrom, RenameTo
  <2>2. ASSUME NEW q \in Given, Under(q, j.to)
        PROVE  AskedToRemove(job[t], q)
    <3>1. Under(q, j.dst)
      BY <2>2, <1>1, UnderTransitive, PathsAreWalkways
    <3> QED
      BY <3>1, <1>7, <1>4 DEF AskedToRemove, PcFits, CopyPcs
  <2> QED
    BY <2>1, <2>2, <1>1, <1>2, <1>3
<1>8. CASE j.pc = "undo"
  <2>1. RenameFrom(t) = BackupPath(t) /\ RenameTo(t) = j.to
    BY <1>8 DEF RenameFrom, RenameTo
  <2> QED
    BY <2>1, <1>1, <1>2, <1>3
<1> QED
  BY <1>5, <1>6, <1>7, <1>8 DEF Renames

LEMMA RenamesEntryStep ==
    ASSUME TreeGood, Finished, RenameHeld, NEW t \in Threads, OpJob(job[t]), RenamesEntry(t)
    PROVE  StepGood(t)
<1> DEFINE f == RenameFrom(t)
           g == RenameTo(t)
<1>1. job[t].pc \in Renames /\ f # g /\ tree[g] \in {None, Dir}
  BY NamesAssumption DEF RenamesEntry, RenameHeld
<1>2. RenamePlaces(f, g)
  BY <1>1, RenamePaths DEF RenamesEntry, CanRename, RenamePlaces, ParentIsDir
<1>3. tree' = RenameEntry(tree, f, g)
  BY DEF RenamesEntry
<1>4. /\ \A n \in Ids : tree[f] # Copying[n]
      /\ \A n \in Ids : Last(g) # Copying[n]
      /\ \A q \in Given : Under(q, f) => AskedToRemove(job[t], q)
  BY <1>1, RenameNames
<1> HIDE DEF f, g
<1>5. TreeType' /\ Rooted'
  BY <1>2, <1>3, RenameEntries, RenameRooted
<1>6. PartialsInPlace' /\ TempsAreFiles'
  <2>1. ASSUME NEW q \in Paths, NEW n \in Ids, tree'[q] = Copying[n]
        PROVE  Last(q) = Copying[n]
    <3>0. tree'[q] # None
      BY <2>1, Names4
    <3>1. CASE Under(q, g)
      BY <3>0, <3>1, <2>1, <1>2, <1>3, <1>4, RenameEntries DEF TreeGood, PartialsInPlace
    <3>2. CASE ~Under(q, g)
      BY <3>0, <3>2, <2>1, <1>2, <1>3, RenameEntries DEF TreeGood, PartialsInPlace
    <3> QED
      BY <3>1, <3>2
  <2>2. ASSUME NEW q \in Paths, NEW n \in Ids, Last(q) = Copying[n], tree'[q] = Dir
        PROVE  FALSE
    <3>0. tree'[q] # None
      BY <2>2, Names4
    <3>1. CASE Under(q, g)
      BY <3>0, <3>1, <2>2, <1>2, <1>3, <1>4, RenameEntries DEF TreeGood, TempsAreFiles
    <3>2. CASE ~Under(q, g)
      BY <3>0, <3>2, <2>2, <1>2, <1>3, RenameEntries DEF TreeGood, TempsAreFiles
    <3> QED
      BY <3>1, <3>2
  <2> QED
    BY <2>1, <2>2 DEF PartialsInPlace, TempsAreFiles
<1>7. StaysFinished(t)
  <2> SUFFICES ASSUME NEW n \in Ids, \A q \in Paths : tree[q] # Copying[n], NEW q \in Paths
               PROVE  tree'[q] # Copying[n]
    BY DEF StaysFinished
  <2> QED
    BY <1>2, <1>3, RenameEntries, Names4
<1>8. \A q \in Paths : IsFile(tree[q]) => ~Under(q, g)
  BY <1>1, <1>2, RenameApart, UnderOrder, PathsAreWalkways DEF IsFile
<1>9. AskedOf(t)
  BY <1>2, <1>3, <1>4, <1>8, RenameEntries, PathsAreWalkways DEF AskedOf
<1>10. LostBy(t)
  <2> SUFFICES ASSUME NEW v \in Contents(tree)
               PROVE  v \in Contents(tree')
    BY DEF LostBy
  <2>1. PICK q \in Paths : tree[q] = v /\ IsFile(v) /\ \A n \in Ids : Last(q) # Copying[n]
    BY ContentAt DEF TreeGood
  <2>2. CASE Under(q, f)
    <3> DEFINE m == Moved(q, f, g)
    <3>1. m \in Paths /\ tree'[m] = v /\ (m = g \/ Last(m) = Last(q))
      BY <2>1, <2>2, <1>2, <1>3, RenameEntries DEF IsFile
    <3>2. \A n \in Ids : Last(m) # Copying[n]
      BY <3>1, <2>1, <1>4
    <3> QED
      BY <3>1, <3>2, ContentThere DEF TreeGood
  <2>3. CASE ~Under(q, f)
    <3>1. tree'[q] = v
      BY <2>1, <2>3, <1>2, <1>3, <1>8, RenameEntries
    <3> QED
      BY <3>1, <2>1, ContentThere DEF TreeGood
  <2> QED
    BY <2>2, <2>3
<1> QED
  BY <1>5, <1>6, <1>7, <1>9, <1>10 DEF StepGood, TreeGood
-----------------------------------------------------------------------------
(* The invariant holds all the time *)

FinishedPcs == {"backup", "commit", "swap", "undo", "unback"}

(* The steps that lead to the renames come from one that completes the copy. *)
StaysComplete(t) ==
    job'[t].pc \in FinishedPcs => job[t].pc \in FinishedPcs \/ Completes(t)

LEMMA StepStaysComplete ==
    ASSUME TreeInv, NEW t \in Threads,
           \/ CopyEntry(t) \/ CopyDirectory(t) \/ CopyMkdir(t) \/ CopyList(t) \/ CopyNext(t)
           \/ CopyFile(t) \/ CopyOpen(t) \/ CopyTemp(t) \/ CopyData(t)
           \/ CopyDrop(t) \/ CopyUnback(t) \/ DeleteFile(t) \/ DeleteDirectoryTree(t) \/ RemoveAll(t)
           \/ CreateEmptyFile(t) \/ CloseEmptyFile(t) \/ CreateDirectory(t) \/ Mkdir(t)
           \/ RenameCheck(t) \/ RenameDo(t)
    PROVE  StaysComplete(t)
<1> USE DEF TreeInv, FinishedPcs
<1>1. CASE \/ CopyEntry(t) \/ CopyDirectory(t) \/ CopyMkdir(t) \/ CopyUnback(t) \/ CopyTemp(t)
           \/ CopyDrop(t)
  BY <1>1, CopyEntryJob, CopyDirectoryJob, CopyMkdirJob, CopyUnbackJob, CopyTempJob, CopyDropJob
  DEF StaysComplete
<1>2. CASE CopyList(t) \/ CopyNext(t) \/ CopyFile(t) \/ CopyOpen(t)
  BY <1>2, CopyListJob, CopyNextJob, CopyFileJob, CopyOpenJob DEF StaysComplete
<1>3. CASE \/ DeleteFile(t) \/ DeleteDirectoryTree(t) \/ RemoveAll(t) \/ CreateEmptyFile(t)
           \/ CloseEmptyFile(t) \/ CreateDirectory(t) \/ Mkdir(t)
  BY <1>3, DeleteFileJob, DeleteDirectoryTreeJob, RemoveAllJob, CreateEmptyFileJob,
     CloseEmptyFileJob, CreateDirectoryJob, MkdirJob DEF StaysComplete
<1>4. CASE CopyData(t)
  <2>1. job[t].pc = "data"
    BY <1>4 DEF CopyData, At
  <2>2. CASE Goto(t, [pc |-> "drop"])
    <3>1. job'[t] = With([pc |-> "drop"], job[t])
      BY <2>2, GotoJobs
    <3>2. job'[t].pc = "drop"
      BY <3>1 DEF With
    <3> QED
      BY <3>2 DEF StaysComplete
  <2> QED
    BY <1>4, <2>1, <2>2 DEF CopyData, Completes, StaysComplete
<1>5. CASE RenameCheck(t) \/ RenameDo(t)
  <2>1. job[t].pc \in Renames
    BY <1>5, NamesAssumption DEF RenameCheck, RenameDo, RenameHeld
  <2>2. job' = job \/ \E ok \in BOOLEAN : AfterRename(t, ok)
    BY <1>5 DEF RenameCheck, RenameDo
  <2>3. CASE job[t].pc = "rename"
    BY <2>1, <2>2, <2>3, AfterRenameJob DEF StaysComplete
  <2>4. CASE job[t].pc # "rename"
    BY <2>1, <2>4 DEF StaysComplete, Renames
  <2> QED
    BY <2>3, <2>4
<1> QED
  BY <1>1, <1>2, <1>3, <1>4, <1>5

(* The kinds of steps, as far as the tree and the numbers are concerned    *)
TakesLock(t) ==
    /\ UNCHANGED <<tree, job, calls>> /\ renaming = Nobody /\ renaming' = t
    /\ job[t].pc \in Renames /\ RenameFrom(t) # RenameTo(t) /\ tree[RenameTo(t)] = None

Starts(t) ==
    /\ UNCHANGED <<tree, renaming>> /\ calls < MaxCalls /\ calls' = calls + 1
    /\ job[t] = Idle /\ OthersKeep(t) /\ JobOK(job'[t]) /\ job'[t] # Idle
    /\ job'[t].id = calls + 1 /\ job'[t].pc \notin FinishedPcs

Answers(t) ==
    /\ UNCHANGED <<tree, renaming, calls>> /\ job[t].pc = "done"
    /\ DOMAIN job' = Threads /\ job'[t] = Idle /\ \A u \in Threads \ {t} : job'[u] = job[u]

Crashes ==
    /\ UNCHANGED <<tree, calls>> /\ renaming' = Nobody
    /\ DOMAIN job' = Threads /\ \A t \in Threads : job'[t] = Idle

Walks1(t) == UNCHANGED <<tree, renaming, calls>> /\ WalkGoes(t)

(* What a step of an operation is                                          *)
LEMMA OpKinds ==
    ASSUME TreeInv, NEW t \in Threads, Step(t)
    PROVE  \/ OpStep(t) /\ StaysComplete(t)
           \/ TakesLock(t) \/ (Starts(t) /\ OpJob(job'[t])) \/ Answers(t)
<1> USE DEF TreeInv
<1>0. calls \in Nat
  BY NamesAssumption DEF IdsOK
<1>1. CASE \/ CopyEntry(t) \/ CopyDirectory(t) \/ CopyMkdir(t) \/ CopyList(t) \/ CopyNext(t)
           \/ CopyFile(t) \/ CopyOpen(t) \/ CopyTemp(t) \/ CopyData(t)
  BY <1>1, CopyStep, StepStaysComplete
<1>2. CASE \/ CopyDrop(t) \/ CopyUnback(t) \/ DeleteFile(t) \/ DeleteDirectoryTree(t) \/ RemoveAll(t)
           \/ CreateEmptyFile(t) \/ CloseEmptyFile(t) \/ CreateDirectory(t)
  BY <1>2, OtherStep, StepStaysComplete
<1>3. CASE Mkdir(t)
  BY <1>3, MkdirStep, StepStaysComplete
<1>4. CASE RenameCheck(t) \/ RenameDo(t)
  BY <1>4, RenameStep, StepStaysComplete DEF TakesLock
<1>5. CASE \E r \in Requests : Begin(t, r)
  <2>1. PICK r \in Requests : Begin(t, r)
    BY <1>5
  <2>2. UNCHANGED <<tree, renaming>> /\ calls < MaxCalls /\ calls' = calls + 1
    BY <2>1 DEF Begin
  <2>3. job[t] = Idle /\ OpJob(job'[t]) /\ OthersKeep(t) /\ job'[t].id = calls + 1
    BY <1>0, <2>1, BeginJob
  <2>4. job'[t].pc \in {"copy", "rename", "delete", "deltree", "create", "mkone"}
    BY <1>0, <2>1, BeginJob
  <2> QED
    BY <2>2, <2>3, <2>4 DEF Starts, JobOK, FinishedPcs, Idle
<1>6. CASE Answer(t)
  BY <1>6, AnswerJob DEF Answer, Answers
<1> QED
  BY <1>1, <1>2, <1>3, <1>4, <1>5, <1>6 DEF Step

(* The same, with the steps of walks                                       *)
LEMMA StepKinds ==
    ASSUME TreeInv, NEW t \in Threads, Step(t) \/ WalkStep(t)
    PROVE  \/ OpStep(t) /\ StaysComplete(t)
           \/ TakesLock(t) \/ Starts(t) \/ Answers(t) \/ Walks1(t)
<1>0. calls \in Nat
  BY NamesAssumption DEF TreeInv, IdsOK
<1>1. CASE WalkStep(t)
  <2>1. ASSUME WalkJob(job'[t])
        PROVE  JobOK(job'[t]) /\ job'[t] # Idle /\ job'[t].pc \notin FinishedPcs
    BY <2>1 DEF JobOK, WalkJob, WalkPcs, Idle, FinishedPcs
  <2> QED
    BY <1>0, <1>1, <2>1, WalkStepJob DEF TreeInv, Starts, Walks1
<1> QED
  BY <1>1, OpKinds

(* Every step of an operation is good.                                     *)
LEMMA OpStepGood ==
    ASSUME TreeInv, NEW t \in Threads, OpStep(t)
    PROVE  StepGood(t) /\ (Completes(t) => \A q \in Paths : tree'[q] # Copying[job[t].id])
<1>0. TreeGood /\ Finished /\ RenameHeld /\ OpJob(job[t])
  BY DEF TreeInv, TreeGood, OpStep, Goes
<1>1. CASE tree' = tree
  <2>1. TreeGood' /\ AskedOf(t) /\ LostBy(t) /\ StaysFinished(t)
    BY <1>0, <1>1 DEF TreeGood, TreeType, Rooted, PartialsInPlace, TempsAreFiles, AskedOf, LostBy,
                      StaysFinished, Contents
  <2> QED
    BY <1>0, <2>1, CompletesStep DEF StepGood
<1>2. CASE ChangesAlone(t) \/ RenamesEntry(t) \/ MakesDir(t)
  BY <1>0, <1>2, MakesDirsStep, MakesTempStep, CompletesStep, MakesFileStep, RemovesStep,
     RenamesEntryStep, MakesDirStep DEF ChangesAlone
<1> QED
  BY <1>1, <1>2 DEF OpStep

LEMMA SameRename ==
    ASSUME NEW t \in Threads, OpJob(job[t]), SameWork(job'[t], job[t])
    PROVE  RenameFrom(t)' = RenameFrom(t) /\ RenameTo(t)' = RenameTo(t)
<1>1. /\ job'[t].pc = job[t].pc /\ job'[t].id = job[t].id /\ job'[t].to = job[t].to
      /\ job'[t].src = job[t].src /\ job'[t].dst = job[t].dst
  BY DEF OpJob, SameWork, OpFields
<1> QED
  BY <1>1 DEF RenameFrom, RenameTo, TempPath, BackupPath

(* A thread is idle, or at work with a number.                             *)
LEMMA IdleOrAtWork ==
    ASSUME NEW j, JobOK(j)
    PROVE  (j = Idle <=> j.pc = "idle") /\ (j # Idle => "id" \in DOMAIN j /\ j.id \in Ids)
BY DEF JobOK, OpJob, WalkJob, Idle, OpPcs, CopyPcs, WalkPcs, OpFields, WalkFields

(* The numbers stay apart when no thread gets a new one.                   *)
LEMMA SameIds ==
    ASSUME JobsOK, IdsOK, calls' = calls, NEW t \in Threads, OthersKeep(t),
           job[t] # Idle, job'[t].id = job[t].id
    PROVE  IdsOK'
<1>1. ASSUME NEW u \in Threads, job'[u] # Idle
      PROVE  job[u] # Idle /\ job'[u].id = job[u].id
  <2>1. CASE u = t
    BY <2>1
  <2>2. CASE u # t
    <3>1. /\ SameWork(job'[u], job[u]) /\ JobOK(job'[u]) /\ JobOK(job[u])
          /\ job'[u].pc = job[u].pc
      BY <2>2 DEF OthersKeep, JobsOK
    <3>2. job[u] # Idle
      BY <1>1, <3>1, IdleOrAtWork
    <3> QED
      BY <3>1, <3>2, IdleOrAtWork DEF SameWork
  <2> QED
    BY <2>1, <2>2
<1> QED
  BY <1>1 DEF IdsOK

LEMMA OpStepInv ==
    ASSUME TreeInv, NEW t \in Threads, OpStep(t), StaysComplete(t)
    PROVE  TreeInv'
<1> USE DEF TreeInv
<1>1. Goes(t) /\ OpJob(job[t]) /\ OpJob(job'[t]) /\ OthersKeep(t) /\ calls' = calls
  BY DEF OpStep, Goes
<1>2. StepGood(t)
  BY OpStepGood
<1>3. JobsOK'
  BY <1>1 DEF OthersKeep, JobsOK, JobOK
<1>4. job[t] # Idle /\ job'[t].id = job[t].id
  BY <1>1 DEF Goes, Keeps, OpJob, OpPcs, CopyPcs, Idle
<1>5. IdsOK'
  BY <1>1, <1>4, SameIds
<1>6. Finished'
  <2> SUFFICES ASSUME NEW u \in Threads, OpJob(job'[u]), job'[u].pc \in FinishedPcs
               PROVE  \A q \in Paths : tree'[q] # Copying[job'[u].id]
    BY DEF Finished, FinishedPcs
  <2>1. CASE u = t
    <3>1. CASE Completes(t)
      BY <2>1, <3>1, <1>4, OpStepGood
    <3>2. CASE job[t].pc \in FinishedPcs
      <4>1. \A q \in Paths : tree[q] # Copying[job[t].id]
        BY <1>1, <3>2 DEF Finished, FinishedPcs
      <4>2. job[t].id \in Ids /\ job[t].pc # "temp"
        BY <1>1, <3>2 DEF OpJob, FinishedPcs
      <4> QED
        BY <2>1, <4>1, <4>2, <1>2, <1>4 DEF StepGood, StaysFinished
    <3> QED
      BY <2>1, <3>1, <3>2 DEF StaysComplete
  <2>2. CASE u # t
    <3>1. job'[u].pc = job[u].pc /\ SameWork(job'[u], job[u])
      BY <2>2, <1>1 DEF OthersKeep
    <3>2. OpJob(job[u])
      BY <3>1, AtOp DEF FinishedPcs, OpPcs, CopyPcs
    <3>3. job'[u].id = job[u].id /\ job[u] # Idle /\ job[u].id \in Ids
      BY <3>1, <3>2 DEF SameWork, OpJob, OpFields, OpPcs, CopyPcs, Idle
    <3>4. job[u].id # job[t].id
      BY <2>2, <3>3, <1>4 DEF IdsOK
    <3>5. \A q \in Paths : tree[q] # Copying[job[u].id]
      BY <3>1, <3>2 DEF Finished, FinishedPcs
    <3> QED
      BY <3>3, <3>4, <3>5, <1>2 DEF StepGood, StaysFinished
  <2> QED
    BY <2>1, <2>2
<1>7. RenameHeld'
  <2> SUFFICES ASSUME renaming' # Nobody
               PROVE  /\ renaming' \in Threads /\ job'[renaming'].pc \in Renames
                      /\ RenameFrom(renaming)' # RenameTo(renaming)'
                      /\ tree'[RenameTo(renaming)'] \in {None, Dir}
    BY DEF RenameHeld
  <2>1. renaming' = renaming /\ renaming # t
    <3>1. MakesDir(t) => job[t].pc \notin Renames
      BY DEF MakesDir, Renames
    <3> QED
      BY <3>1 DEF OpStep, RenameHeld
  <2>2. PICK u \in Threads : u = renaming /\ u # t
    BY <2>1 DEF RenameHeld
  <2>3. /\ job[u].pc \in Renames /\ RenameFrom(u) # RenameTo(u) /\ tree[RenameTo(u)] \in {None, Dir}
        /\ renaming # Nobody
    BY <2>1, <2>2 DEF RenameHeld
  <2>4. job'[u].pc = job[u].pc /\ SameWork(job'[u], job[u])
    BY <2>2, <1>1 DEF OthersKeep
  <2>5. OpJob(job[u])
    BY <2>3, AtOp DEF Renames, OpPcs, CopyPcs
  <2>6. RenameFrom(u)' = RenameFrom(u) /\ RenameTo(u)' = RenameTo(u)
    BY <2>4, <2>5, SameRename
  <2>7. tree'[RenameTo(u)] \in {None, Dir}
    <3>1. tree' = tree \/ MakesDir(t)
      BY <2>1, <2>2, <2>3 DEF OpStep
    <3>2. RenameTo(u) \in Paths
      BY <2>3, <2>5, RenamePaths
    <3> QED
      BY <2>3, <3>1, <3>2 DEF MakesDir, TreeType
  <2>8. RenameFrom(renaming)' = RenameFrom(u)' /\ RenameTo(renaming)' = RenameTo(u)'
    BY <2>1, <2>2 DEF RenameFrom, RenameTo, TempPath, BackupPath
  <2> QED
    BY <2>1, <2>2, <2>3, <2>4, <2>6, <2>7, <2>8
<1> QED
  BY <1>2, <1>3, <1>5, <1>6, <1>7 DEF StepGood, TreeGood

(* A step that leaves the tree alone, while the others keep their work      *)
LEMMA QuietInv ==
    ASSUME TreeInv, NEW t \in Threads, UNCHANGED <<tree, renaming>>, IdsOK',
           DOMAIN job' = Threads, JobOK(job'[t]), job'[t].pc \notin FinishedPcs, renaming # t,
           \A u \in Threads \ {t} : /\ SameWork(job'[u], job[u]) /\ JobOK(job'[u])
                                    /\ job'[u].pc = job[u].pc
    PROVE  TreeInv'
<1> USE DEF TreeInv
<1>1. JobsOK'
  BY DEF JobsOK
<1>2. TreeType' /\ Rooted' /\ PartialsInPlace' /\ TempsAreFiles'
  BY DEF TreeType, Rooted, PartialsInPlace, TempsAreFiles
<1>3. Finished'
  <2> SUFFICES ASSUME NEW u \in Threads, OpJob(job'[u]), job'[u].pc \in FinishedPcs
               PROVE  \A q \in Paths : tree[q] # Copying[job'[u].id]
    BY DEF Finished, FinishedPcs
  <2>1. u # t
    OBVIOUS
  <2>2. OpJob(job[u]) /\ job[u].pc \in FinishedPcs
    BY <2>1, AtOp DEF FinishedPcs, OpPcs, CopyPcs
  <2>3. job'[u].id = job[u].id
    BY <2>1, <2>2 DEF SameWork, OpJob, OpFields
  <2> QED
    BY <2>2, <2>3 DEF Finished, FinishedPcs
<1>4. RenameHeld'
  <2> SUFFICES ASSUME renaming # Nobody
               PROVE  /\ renaming \in Threads /\ job'[renaming].pc \in Renames
                      /\ RenameFrom(renaming)' # RenameTo(renaming)'
                      /\ tree[RenameTo(renaming)'] \in {None, Dir}
    BY DEF RenameHeld
  <2>2. PICK u \in Threads : u = renaming /\ u # t
    BY DEF RenameHeld
  <2>3. /\ job[u].pc \in Renames /\ RenameFrom(u) # RenameTo(u) /\ tree[RenameTo(u)] \in {None, Dir}
    BY <2>2 DEF RenameHeld
  <2>4. job'[u].pc = job[u].pc /\ SameWork(job'[u], job[u])
    BY <2>2
  <2>5. OpJob(job[u])
    BY <2>3, AtOp DEF Renames, OpPcs, CopyPcs
  <2>6. RenameFrom(u)' = RenameFrom(u) /\ RenameTo(u)' = RenameTo(u)
    BY <2>4, <2>5, SameRename
  <2>8. RenameFrom(renaming)' = RenameFrom(u)' /\ RenameTo(renaming)' = RenameTo(u)'
    BY <2>2 DEF RenameFrom, RenameTo, TempPath, BackupPath
  <2> QED
    BY <2>2, <2>3, <2>4, <2>6, <2>8
<1> QED
  BY <1>1, <1>2, <1>3, <1>4

(* No thread that is not at a rename has the lock for one.                 *)
LEMMA NotRenaming ==
    ASSUME RenameHeld, NEW t \in Threads, job[t].pc \notin Renames
    PROVE  renaming # t
BY NamesAssumption DEF RenameHeld

LEMMA StartsInv ==
    ASSUME TreeInv, NEW t \in Threads, Starts(t)
    PROVE  TreeInv'
<1>1. renaming # t
  BY NotRenaming DEF TreeInv, Starts, Idle, Renames
<1>2. ASSUME NEW u \in Threads, u # t, job'[u] # Idle
      PROVE  job[u] # Idle /\ job'[u].id = job[u].id
  <2>1. /\ SameWork(job'[u], job[u]) /\ JobOK(job'[u]) /\ JobOK(job[u]) /\ job'[u].pc = job[u].pc
    BY <1>2 DEF TreeInv, JobsOK, OthersKeep, Starts
  <2>2. job[u] # Idle
    BY <1>2, <2>1, IdleOrAtWork
  <2> QED
    BY <2>1, <2>2, IdleOrAtWork DEF SameWork
<1>3. calls \in 0..MaxCalls /\ calls' = calls + 1 /\ calls < MaxCalls /\ MaxCalls \in Nat
  BY NamesAssumption DEF TreeInv, IdsOK, Starts
<1>4. job'[t].id = calls + 1
  BY DEF Starts
<1>5. \A u \in Threads : u # t /\ job'[u] # Idle => job'[u].id \in 1..calls
  BY <1>2 DEF TreeInv, IdsOK
<1>6. \A u \in Threads : job'[u] # Idle => job'[u].id \in 1..calls'
  BY <1>3, <1>4, <1>5
<1>7. ASSUME NEW u \in Threads, NEW w \in Threads, u # w, job'[u] # Idle, job'[w] # Idle
      PROVE  job'[u].id # job'[w].id
  <2>1. CASE u # t /\ w # t
    BY <2>1, <1>2, <1>7 DEF TreeInv, IdsOK
  <2>2. CASE u = t
    BY <2>2, <1>3, <1>4, <1>5, <1>7
  <2>3. CASE w = t
    BY <2>3, <1>3, <1>4, <1>5, <1>7
  <2> QED
    BY <2>1, <2>2, <2>3
<1>8. IdsOK'
  BY <1>3, <1>6, <1>7 DEF IdsOK
<1> QED
  BY <1>1, <1>8, QuietInv DEF Starts, OthersKeep

LEMMA WalksInv ==
    ASSUME TreeInv, NEW t \in Threads, Walks1(t)
    PROVE  TreeInv'
<1>1. WalkJob(job[t]) /\ WalkJob(job'[t]) /\ job'[t].id = job[t].id /\ OthersKeep(t)
  BY DEF Walks1, WalkGoes, KeepsWalk
<1>2. job[t] # Idle /\ job[t].pc \notin Renames /\ job'[t].pc \notin FinishedPcs
  BY <1>1 DEF WalkJob, WalkPcs, Idle, Renames, FinishedPcs
<1>3. IdsOK' /\ renaming # t
  BY <1>1, <1>2, SameIds, NotRenaming DEF TreeInv, Walks1
<1> QED
  BY <1>1, <1>2, <1>3, QuietInv DEF Walks1, OthersKeep, JobOK

LEMMA AnswersInv ==
    ASSUME TreeInv, NEW t \in Threads, Answers(t)
    PROVE  TreeInv'
<1>1. renaming # t
  BY NotRenaming DEF TreeInv, Answers, Renames
<1>2. IdsOK'
  BY DEF TreeInv, IdsOK, Answers
<1>3. JobOK(job'[t]) /\ job'[t].pc \notin FinishedPcs
  BY DEF Answers, JobOK, Idle, FinishedPcs
<1>4. \A u \in Threads \ {t} : /\ SameWork(job'[u], job[u]) /\ JobOK(job'[u])
                               /\ job'[u].pc = job[u].pc
  BY DEF TreeInv, JobsOK, Answers, SameWork
<1> QED
  BY <1>1, <1>2, <1>3, <1>4, QuietInv DEF Answers

LEMMA TakesLockInv ==
    ASSUME TreeInv, NEW t \in Threads, TakesLock(t)
    PROVE  TreeInv'
<1> USE DEF TreeInv, TakesLock
<1>1. JobsOK' /\ IdsOK' /\ TreeType' /\ Rooted' /\ PartialsInPlace' /\ TempsAreFiles' /\ Finished'
  BY DEF JobsOK, IdsOK, TreeType, Rooted, PartialsInPlace, TempsAreFiles, Finished
<1>2. RenameFrom(renaming)' = RenameFrom(t) /\ RenameTo(renaming)' = RenameTo(t)
  BY DEF RenameFrom, RenameTo, TempPath, BackupPath
<1>3. RenameHeld'
  BY <1>2 DEF RenameHeld
<1> QED
  BY <1>1, <1>3

LEMMA CrashesInv ==
    ASSUME TreeInv, Crashes
    PROVE  TreeInv'
<1> USE DEF TreeInv, Crashes
<1>1. JobsOK' /\ IdsOK'
  BY DEF JobsOK, IdsOK, JobOK
<1>2. TreeType' /\ Rooted' /\ PartialsInPlace' /\ TempsAreFiles'
  BY DEF TreeType, Rooted, PartialsInPlace, TempsAreFiles
<1>3. Finished'
  BY DEF Finished, Idle
<1>4. RenameHeld'
  BY DEF RenameHeld
<1> QED
  BY <1>1, <1>2, <1>3, <1>4

LEMMA TreeInvInit ==
    ASSUME WalkerInit
    PROVE  TreeInv
<1> USE DEF WalkerInit, Init
<1>1. JobsOK /\ IdsOK /\ Finished /\ RenameHeld
  BY NamesAssumption DEF JobsOK, JobOK, IdsOK, Finished, RenameHeld, Idle
<1>2. \A q \in Paths : tree[q] = IF q \in DOMAIN Start THEN Start[q] ELSE None
  OBVIOUS
<1>3. TreeType
  BY StartAssumption DEF TreeType
<1>4. Rooted
  BY <1>2, StartAssumption DEF Rooted
<1>5. PartialsInPlace
  BY <1>2, StartAssumption, Names4 DEF PartialsInPlace
<1>6. TempsAreFiles
  <2> SUFFICES ASSUME NEW q \in Paths, NEW n \in Ids, Last(q) = Copying[n]
               PROVE  tree[q] # Dir
    BY DEF TempsAreFiles
  <2>1. Own(q)
    BY OwnFacts, OwnNamesFacts, PathsAreWalkways
  <2>2. q \notin DOMAIN Start
    BY <2>1, StartAssumption
  <2> QED
    BY <2>2, <1>2, Names4
<1> QED
  BY <1>1, <1>3, <1>4, <1>5, <1>6 DEF TreeInv

(* A step of the walkers' system is a step of a thread or the crash.       *)
LEMMA StepOfThread ==
    ASSUME WalkerNext
    PROVE  (\E t \in Threads : Step(t) \/ WalkStep(t)) \/ Crashes
BY CrashJob DEF WalkerNext, TreeStep, Next, Crashes, Crash

LEMMA TreeInvNext ==
    ASSUME TreeInv, [WalkerNext]_allVars
    PROVE  TreeInv'
<1>1. CASE Crashes
  BY <1>1, CrashesInv
<1>2. CASE UNCHANGED allVars
  BY <1>2 DEF allVars, vars, TreeInv, JobsOK, IdsOK, TreeType, Rooted, PartialsInPlace, TempsAreFiles,
              Finished, RenameHeld, RenameFrom, RenameTo, TempPath, BackupPath
<1>3. ASSUME NEW t \in Threads, Step(t) \/ WalkStep(t)
      PROVE  TreeInv'
  BY <1>3, StepKinds, OpStepInv, TakesLockInv, StartsInv, AnswersInv, WalksInv
<1> QED
  BY <1>1, <1>2, <1>3, StepOfThread

(* The tree is one at all times (every entry has its directories above it), *)
(* unfinished copies are nowhere but in their temporary files and are        *)
(* complete before they are renamed, and the target a rename found free is   *)
(* without a file until the rename is made.                                  *)
THEOREM TreeIsSound ==
    WalkerSpec => []TreeInv
<1>1. WalkerInit => TreeInv
  BY TreeInvInit
<1>2. TreeInv /\ [WalkerNext]_allVars => TreeInv'
  BY TreeInvNext
<1> QED
  BY <1>1, <1>2, PTL DEF WalkerSpec

(* NothingUnasked: a file changes only when an operation in progress was    *)
(* asked to change it, or by the failing Close of a creation whose empty    *)
(* file was replaced (ClosesOver).                                          *)
THEOREM NothingUnaskedHolds ==
    WalkerSpec => NothingUnasked
<1> DEFINE A == \A q \in Visible : IsFile(tree[q]) /\ tree'[q] # tree[q] =>
                    \E t \in Threads : AskedToRemove(job[t], q) \/ ClosesOver(t, q)
<1>1. TreeInv /\ [WalkerNext]_allVars => [A]_vars
  <2> SUFFICES ASSUME TreeInv, WalkerNext
               PROVE  A
    BY DEF allVars
  <2>1. CASE tree' = tree
    BY <2>1
  <2>2. ASSUME NEW t \in Threads, OpStep(t)
        PROVE  A
    <3>1. AskedOf(t)
      BY <2>2, OpStepGood DEF StepGood
    <3> QED
      BY <3>1, PathsAreWalkways DEF AskedOf
  <2> QED
    BY <2>1, <2>2, StepOfThread, StepKinds DEF Crashes, TakesLock, Starts, Answers, Walks1
<1> QED
  BY <1>1, TreeIsSound, PTL DEF WalkerSpec, NothingUnasked

(* NothingLost: a content leaves the root by the last step of a deletion or *)
(* of a replacement that is complete, or by the failing Close of a creation *)
(* whose empty file was replaced (ClosesOver).                              *)
THEOREM NothingLostHolds ==
    WalkerSpec => NothingLost
<1> DEFINE A == \A v \in Contents(tree) \ Contents(tree') :
                    \E t \in Threads, q \in Paths :
                        tree[q] = v /\ tree'[q] = None /\ (MayRemove(t, q) \/ ClosesOver(t, q))
<1>1. TreeInv /\ [WalkerNext]_allVars => [A]_vars
  <2> SUFFICES ASSUME TreeInv, WalkerNext
               PROVE  A
    BY DEF allVars
  <2>1. CASE tree' = tree
    BY <2>1
  <2>2. ASSUME NEW t \in Threads, OpStep(t)
        PROVE  A
    <3>1. LostBy(t)
      BY <2>2, OpStepGood DEF StepGood
    <3> QED
      BY <3>1 DEF LostBy
  <2> QED
    BY <2>1, <2>2, StepOfThread, StepKinds DEF Crashes, TakesLock, Starts, Answers, Walks1
<1> QED
  BY <1>1, TreeIsSound, PTL DEF WalkerSpec, NothingLost
-----------------------------------------------------------------------------
(* The inductive invariant of the walks *)

Items(s) == {s[i] : i \in 1..Len(s)}
Once(s)  == \A i, k \in 1..Len(s) : s[i] = s[k] => i = k

OpenPcs == {"entry", "pop", "makedir", "export"}

(* What was read of the open directory and not yet looked at               *)
RawItems == [name: AllNames, dir: BOOLEAN]
NamesLeft(j) == {j.raw[i].name : i \in 1..Len(j.raw)}

(* A walk is one that was asked for.                                       *)
AskedFor(j) ==
    /\ j.opt \in Walks /\ j.opt.src = j.src /\ j.opt.op = j.op
    /\ j.counting \in BOOLEAN /\ (j.counting => j.op = "export")

(* What it holds while it goes on                                          *)
Holds(j) ==
    /\ j.dir \in Walkways /\ j.raw \in Seq(RawItems)
    /\ j.stack \in Seq(Paths) /\ j.got \in Seq(Paths)
    /\ j.pc \in {"makedir", "export"} => j.op = "export" /\ ~j.counting /\ j.got # <<>>
    /\ j.pc = "pop" => j.raw = <<>>

(* Each entry was returned once, after the directory it is in.             *)
Returned(j) ==
    /\ Once(j.got)
    /\ \A q \in Items(j.got) : Within(q, j.src) /\ (Parent(q) = j.src \/ Parent(q) \in Items(j.got))

(* The directories to open were returned, and nothing in them.             *)
ToOpen(j) ==
    /\ Once(j.stack) /\ Items(j.stack) \subseteq Items(j.got)
    /\ j.dir = j.src \/ j.dir \in Items(j.got)
    /\ j.dir \notin Items(j.stack)
    /\ \A q \in Items(j.got) : Parent(q) \notin Items(j.stack)

(* Of the open directory, what was read is returned, skipped or left.      *)
Reading(j) ==
    /\ \A i, k \in 1..Len(j.raw) : j.raw[i].name = j.raw[k].name => i = k
    /\ NamesLeft(j) \subseteq j.seen
    /\ \A q \in Items(j.got) : Parent(q) = j.dir => Last(q) \in j.seen /\ Last(q) \notin NamesLeft(j)

(* A directory with an entry that stayed is open at its place, ...          *)
InPlace(t) == \A q \in there[t] : Parent(q) = job[t].dir => handle[t] = job[t].dir

(* ... and what was read of an entry that stayed is so still.              *)
ReadTrue(t) == LET j == job[t] IN
    \A i \in 1..Len(j.raw) :
        Append(j.dir, j.raw[i].name) \in there[t] =>
            j.raw[i].dir = (tree[Append(j.dir, j.raw[i].name)] = Dir)

(* An entry the walk owes, in a directory it has returned, was returned,   *)
(* is left of the open directory, or is in one that is still to be opened. *)
Covered(t) == LET j == job[t] IN
    \A q \in Owed(t) :
        Parent(q) = j.src \/ Parent(q) \in Items(j.got) =>
            \/ q \in Items(j.got)
            \/ Parent(q) = j.dir /\ (Last(q) \in j.seen => Last(q) \in NamesLeft(j))
            \/ Parent(q) \in Items(j.stack)

AtEnd(t) == LET j == job[t] IN
    j.pc = "pop" => \A q \in there[t] : Parent(q) = j.dir => Last(q) \in j.seen

(* An exported file that stayed has been copied as it is.                  *)
Exported(t) == LET j == job[t] IN
    j.op = "export" /\ ~j.counting =>
        \A q \in there[t] : IsFile(tree[q]) /\ q \in Items(j.got) =>
            \/ q \in DOMAIN j.copied /\ j.copied[q] = tree[q]
            \/ j.pc = "export" /\ q = Last(j.got)

Complete(t) == LET j == job[t] IN
    /\ Owed(t) \subseteq Items(j.got) /\ j.got \in Seq(Paths) /\ Once(j.got)
    /\ j.op = "export" =>
         \A q \in Owed(t) : IsFile(tree[q]) => q \in DOMAIN j.copied /\ j.copied[q] = tree[q]

WalkOK(t) ==
    Walking(job[t]) =>
        /\ AskedFor(job[t])
        /\ there[t] \subseteq {q \in Paths : tree[q] # None}
        /\ job[t].pc \in OpenPcs =>
              /\ Holds(job[t]) /\ Returned(job[t]) /\ ToOpen(job[t]) /\ Reading(job[t])
              /\ InPlace(t) /\ ReadTrue(t) /\ Covered(t) /\ AtEnd(t) /\ Exported(t)
        /\ job[t].pc = "done" /\ job[t].ok => Complete(t)

WalkInv ==
    /\ DOMAIN handle = Threads /\ DOMAIN there = Threads
    /\ \A t \in Threads : WalkOK(t)

(* One more, and one less                                                  *)
LEMMA ItemsAppend ==
    ASSUME NEW S, NEW s \in Seq(S), NEW x \in S
    PROVE  /\ Append(s, x) \in Seq(S) /\ Append(s, x) # <<>> /\ Last(Append(s, x)) = x
           /\ Items(Append(s, x)) = Items(s) \cup {x}
           /\ Once(s) /\ x \notin Items(s) => Once(Append(s, x))
<1> DEFINE r == Append(s, x)
<1>1. /\ r \in Seq(S) /\ r # <<>> /\ Len(r) = Len(s) + 1 /\ Len(s) \in Nat
      /\ \A i \in 1..Len(s) : r[i] = s[i]
      /\ r[Len(s) + 1] = x
  BY AppendProperties, LenProperties
<1> HIDE DEF r
<1>2. Last(r) = x
  BY <1>1 DEF Last
<1>3. Items(r) = Items(s) \cup {x}
  <2>1. 1..Len(r) = 1..Len(s) \cup {Len(s) + 1}
    BY <1>1
  <2> QED
    BY <1>1, <2>1 DEF Items
<1>4. ASSUME Once(s), x \notin Items(s)
      PROVE  Once(r)
  BY <1>1, <1>4 DEF Once, Items
<1> QED
  BY <1>1, <1>2, <1>3, <1>4 DEF r

LEMMA ItemsFront ==
    ASSUME NEW S, NEW s \in Seq(S), s # <<>>
    PROVE  /\ Front(s) \in Seq(S) /\ Last(s) \in S
           /\ Items(s) = Items(Front(s)) \cup {Last(s)}
           /\ Once(s) => Once(Front(s)) /\ Last(s) \notin Items(Front(s))
<1>1. Len(s) \in Nat /\ Len(s) > 0 /\ \A i \in 1..Len(s) : s[i] \in S
  BY EmptySeq, LenProperties
<1>2. /\ Front(s) \in Seq(S) /\ Len(Front(s)) = Len(s) - 1
      /\ \A i \in 1..(Len(s) - 1) : Front(s)[i] = s[i]
  <2>1. \A i \in 1..(Len(s) - 1) : s[i] \in S
    BY <1>1
  <2>2. Front(s) = SubSeq(s, 1, Len(s) - 1)
    BY DEF Front
  <2>3. /\ SubSeq(s, 1, Len(s) - 1) \in Seq(S)
        /\ Len(SubSeq(s, 1, Len(s) - 1)) = IF 1 <= Len(s) - 1 THEN Len(s) - 1 - 1 + 1 ELSE 0
        /\ \A i \in 1 .. Len(s) - 1 - 1 + 1 : SubSeq(s, 1, Len(s) - 1)[i] = s[1 + i - 1]
    BY <1>1, <2>1, SubSeqProperties
  <2>4. Len(Front(s)) = Len(s) - 1
    <3>1. CASE 1 <= Len(s) - 1
      BY <1>1, <2>2, <2>3, <3>1
    <3>2. CASE ~(1 <= Len(s) - 1)
      <4>1. \A n \in Nat : n > 0 /\ ~(1 <= n - 1) => n - 1 = 0
        OBVIOUS
      <4>2. Len(s) - 1 = 0
        BY <1>1, <3>2, <4>1
      <4>3. Len(Front(s)) = 0
        BY <2>2, <2>3, <3>2
      <4> QED
        BY <4>2, <4>3
    <3> QED
      BY <3>1, <3>2
  <2>5. ASSUME NEW i \in 1..(Len(s) - 1)
        PROVE  Front(s)[i] = s[i]
    BY <1>1, <2>2, <2>3
  <2> QED
    BY <2>2, <2>3, <2>4, <2>5
<1>3. Last(s) = s[Len(s)]
  BY DEF Last
<1>4. Items(s) = Items(Front(s)) \cup {Last(s)}
  <2>1. 1..Len(s) = 1..(Len(s) - 1) \cup {Len(s)}
    BY <1>1
  <2> QED
    BY <1>2, <1>3, <2>1 DEF Items
<1>5. ASSUME Once(s)
      PROVE  Once(Front(s)) /\ Last(s) \notin Items(Front(s))
  BY <1>1, <1>2, <1>3, <1>5 DEF Once, Items
<1> QED
  BY <1>1, <1>2, <1>3, <1>4, <1>5

LEMMA ItemsTail ==
    ASSUME NEW S, NEW s \in Seq(S), s # <<>>
    PROVE  /\ Tail(s) \in Seq(S) /\ Len(Tail(s)) = Len(s) - 1 /\ Len(s) \in Nat /\ Len(s) > 0
           /\ Head(s) \in S /\ Head(s) = s[1]
           /\ \A i \in 1..(Len(s) - 1) : Tail(s)[i] = s[i + 1]
<1>1. Len(s) \in Nat /\ Len(s) > 0 /\ \A i \in 1..Len(s) : s[i] \in S
  BY EmptySeq, LenProperties
<1> QED
  BY <1>1, HeadTailProperties

(* What was read, without the first                                        *)
LEMMA NamesAfterFirst ==
    ASSUME NEW j, NEW k, j.raw \in Seq(RawItems), j.raw # <<>>, k.raw = Tail(j.raw),
           \A i, n \in 1..Len(j.raw) : j.raw[i].name = j.raw[n].name => i = n
    PROVE  /\ k.raw \in Seq(RawItems) /\ Head(j.raw) \in RawItems
           /\ NamesLeft(j) = NamesLeft(k) \cup {Head(j.raw).name}
           /\ Head(j.raw).name \notin NamesLeft(k)
           /\ \A i, n \in 1..Len(k.raw) : k.raw[i].name = k.raw[n].name => i = n
           /\ \A i \in 1..Len(k.raw) : \E n \in 1..Len(j.raw) : k.raw[i] = j.raw[n]
           /\ \E n \in 1..Len(j.raw) : Head(j.raw) = j.raw[n]
<1>1. /\ k.raw \in Seq(RawItems) /\ Len(k.raw) = Len(j.raw) - 1 /\ Len(j.raw) \in Nat /\ Len(j.raw) > 0
      /\ Head(j.raw) \in RawItems /\ Head(j.raw) = j.raw[1]
      /\ \A i \in 1..(Len(j.raw) - 1) : k.raw[i] = j.raw[i + 1]
  BY ItemsTail
<1>2. NamesLeft(j) = NamesLeft(k) \cup {Head(j.raw).name}
  <2>1. ASSUME NEW n \in NamesLeft(j)
        PROVE  n \in NamesLeft(k) \cup {Head(j.raw).name}
    <3>1. PICK i \in 1..Len(j.raw) : n = j.raw[i].name
      BY <2>1 DEF NamesLeft
    <3>2. CASE i = 1
      BY <3>1, <3>2, <1>1
    <3>3. CASE i # 1
      <4>1. i - 1 \in 1..Len(k.raw) /\ k.raw[i - 1] = j.raw[i]
        BY <3>3, <1>1
      <4> QED
        BY <3>1, <4>1 DEF NamesLeft
    <3> QED
      BY <3>2, <3>3
  <2>2. ASSUME NEW n \in NamesLeft(k)
        PROVE  n \in NamesLeft(j)
    <3>1. PICK i \in 1..Len(k.raw) : n = k.raw[i].name
      BY <2>2 DEF NamesLeft
    <3>2. i + 1 \in 1..Len(j.raw) /\ k.raw[i] = j.raw[i + 1]
      BY <1>1
    <3> QED
      BY <3>1, <3>2 DEF NamesLeft
  <2>3. Head(j.raw).name \in NamesLeft(j)
    BY <1>1 DEF NamesLeft
  <2> QED
    BY <2>1, <2>2, <2>3
<1>3. Head(j.raw).name \notin NamesLeft(k)
  <2> SUFFICES ASSUME NEW i \in 1..Len(k.raw), Head(j.raw).name = k.raw[i].name
               PROVE  FALSE
    BY DEF NamesLeft
  <2>1. i + 1 \in 1..Len(j.raw) /\ 1 \in 1..Len(j.raw) /\ k.raw[i] = j.raw[i + 1] /\ i + 1 # 1
    BY <1>1
  <2> QED
    BY <2>1, <1>1
<1>4. ASSUME NEW i \in 1..Len(k.raw), NEW n \in 1..Len(k.raw), k.raw[i].name = k.raw[n].name
      PROVE  i = n
  <2>1. /\ i + 1 \in 1..Len(j.raw) /\ n + 1 \in 1..Len(j.raw)
        /\ k.raw[i] = j.raw[i + 1] /\ k.raw[n] = j.raw[n + 1]
    BY <1>1
  <2>2. i + 1 = n + 1
    BY <1>4, <2>1
  <2> QED
    BY <2>2, <1>1
<1>5. \A i \in 1..Len(k.raw) : i + 1 \in 1..Len(j.raw) /\ k.raw[i] = j.raw[i + 1]
  BY <1>1
<1>6. 1 \in 1..Len(j.raw) /\ Head(j.raw) = j.raw[1]
  BY <1>1
<1> QED
  BY <1>1, <1>2, <1>3, <1>4, <1>5, <1>6

(* A set of numbers has a least one.                                       *)
LEMMA LeastNatural ==
    ASSUME NEW S, S \subseteq Nat, S # {}
    PROVE  \E m \in S : \A n \in S : m <= n
<1>1. PICK m \in S : \A n \in S : ~ (<<n, m>> \in OpToRel(<, Nat))
  BY NatLessThanWellFounded, WFMin
<1>2. \A n \in S : ~(n < m)
  BY <1>1 DEF OpToRel
<1> QED
  BY <1>2
LEMMA ItemsNone ==
    ASSUME NEW S
    PROVE  <<>> \in Seq(S) /\ Items(<<>>) = {} /\ Once(<<>>) /\ Len(<<>>) = 0
<1>1. <<>> \in Seq(S) /\ Len(<<>>) = 0
  BY EmptySeq
<1>2. 1..0 = {}
  OBVIOUS
<1> QED
  BY <1>1, <1>2 DEF Items, Once

(* A walk that others do not touch, in a tree they change, stays sound as  *)
(* long as its directory stays open in place.                              *)
LEMMA WalkStays ==
    ASSUME NEW t \in Threads, WalkJob(job[t]), SameWork(job'[t], job[t]), WalkOK(t),
           there'[t] = {q \in there[t] : tree'[q] = tree[q]},
           InPlace(t) => InPlace(t)'
    PROVE  WalkOK(t)'
<1> DEFINE j == job[t]
           k == job'[t]
<1>1. /\ k.op = j.op /\ k.src = j.src /\ k.opt = j.opt /\ k.pc = j.pc /\ k.ok = j.ok
      /\ k.counting = j.counting /\ k.dir = j.dir /\ k.raw = j.raw /\ k.seen = j.seen
      /\ k.stack = j.stack /\ k.got = j.got /\ k.copied = j.copied
  BY DEF WalkJob, WalkFields, SameWork
<1>2. SUFFICES ASSUME Walking(k)
               PROVE  WalkOK(t)'
  BY DEF WalkOK
<1>3. Walking(j)
  BY <1>1, <1>2 DEF Walking
<1>4. there'[t] \subseteq there[t] /\ \A q \in there'[t] : tree'[q] = tree[q]
  OBVIOUS
<1>5. Owed(t)' \subseteq Owed(t) /\ Owed(t)' \subseteq there'[t]
  BY <1>1, <1>4 DEF Owed
<1>6. AskedFor(k)
  BY <1>1, <1>3 DEF WalkOK, AskedFor
<1>7. there'[t] \subseteq {q \in Paths : tree'[q] # None}
  BY <1>3, <1>4 DEF WalkOK
<1>8. ASSUME k.pc \in OpenPcs
      PROVE  /\ Holds(k) /\ Returned(k) /\ ToOpen(k) /\ Reading(k)
             /\ InPlace(t)' /\ ReadTrue(t)' /\ Covered(t)' /\ AtEnd(t)' /\ Exported(t)'
  <2>0. /\ Holds(j) /\ Returned(j) /\ ToOpen(j) /\ Reading(j)
        /\ InPlace(t) /\ ReadTrue(t) /\ Covered(t) /\ AtEnd(t) /\ Exported(t)
    BY <1>1, <1>3, <1>8 DEF WalkOK
  <2>1. Holds(k)
    BY <1>1, <2>0 DEF Holds
  <2>2. Returned(k)
    BY <1>1, <2>0 DEF Returned
  <2>3. ToOpen(k)
    BY <1>1, <2>0 DEF ToOpen
  <2>4. NamesLeft(k) = NamesLeft(j)
    BY <1>1 DEF NamesLeft
  <2>5. Reading(k)
    BY <1>1, <2>0, <2>4 DEF Reading
  <2>6. ReadTrue(t)'
    BY <1>1, <1>4, <2>0 DEF ReadTrue
  <2>7. Covered(t)'
    BY <1>1, <1>5, <2>0, <2>4 DEF Covered
  <2>8. AtEnd(t)'
    BY <1>1, <1>4, <2>0 DEF AtEnd
  <2>9. Exported(t)'
    BY <1>1, <1>4, <2>0 DEF Exported
  <2> QED
    BY <2>0, <2>1, <2>2, <2>3, <2>5, <2>6, <2>7, <2>8, <2>9
<1>9. ASSUME k.pc = "done", k.ok
      PROVE  Complete(t)'
  <2>1. Complete(t)
    BY <1>1, <1>3, <1>9 DEF WalkOK
  <2> QED
    BY <1>1, <1>4, <1>5, <2>1 DEF Complete
<1> QED
  BY <1>6, <1>7, <1>8, <1>9 DEF WalkOK

(* An open directory with an entry that stays in place stays there itself. *)
LEMMA FollowsStays ==
    ASSUME TreeInv, TreeInv', NEW q \in Paths, tree[q] # None, tree'[q] = tree[q],
           tree' = tree \/ \E u \in Threads : OpStep(u)
    PROVE  Follows(Parent(q)) = Parent(q)
<1> DEFINE h == Parent(q)
<1>1. q \in Walkways /\ q # <<>> /\ h \in Walkways /\ Within(q, h) /\ Under(q, h)
  BY PathsAreWalkways, ParentFacts, UnderOrder
<1>2. h \in Paths => tree'[h] = Dir
  BY <1>1 DEF TreeInv, Rooted
<1> HIDE DEF h
<1>3. CASE ~(renaming # Nobody /\ renaming' = Nobody /\ tree' # tree)
  BY <1>2, <1>3 DEF Follows, h
<1>4. CASE renaming # Nobody /\ renaming' = Nobody /\ tree' # tree
  <2>1. PICK u \in Threads : OpStep(u)
    BY <1>4
  <2>2. RenamesEntry(u) /\ renaming = u
    BY <1>4, <2>1 DEF OpStep, RenamesEntry
  <2> DEFINE f == RenameFrom(u)
             g == RenameTo(u)
  <2>3. TreeGood /\ OpJob(job[u]) /\ RenameHeld /\ job[u].pc \in Renames
    BY <2>1, <2>2, <1>4 DEF TreeInv, TreeGood, OpStep, Goes, RenameHeld
  <2>4. RenamePlaces(f, g)
    <3>1. f \in Paths /\ g \in Paths
      BY <2>3, RenamePaths
    <3>2. f # g /\ tree[g] \in {None, Dir}
      BY <1>4, <2>2, <2>3 DEF RenameHeld
    <3> QED
      BY <3>1, <3>2, <2>2 DEF RenamesEntry, RenamePlaces, CanRename, ParentIsDir
  <2>5. tree' = RenameEntry(tree, f, g)
    BY <2>2 DEF RenamesEntry
  <2>6. f \in Walkways /\ g \in Walkways /\ \A r \in Paths : Within(r, g) => tree[r] = None
    BY <2>3, <2>4, RenameApart
  <2>7. \A r \in Paths : Under(r, f) => tree'[r] = None
    BY <2>3, <2>4, <2>5, RenameEntries
  <2> HIDE DEF f, g
  <2>8. ~Under(h, f)
    BY <1>1, <2>6, <2>7, UnderTransitive
  <2>9. ~Under(h, g)
    BY <1>1, <2>6, UnderTransitive
  <2> QED
    BY <1>4, <2>2, <2>8, <2>9 DEF Follows, h, f, g
<1> QED
  BY <1>3, <1>4

LEMMA IdleWalk ==
    ASSUME NEW j, JobOK(j)
    PROVE  Walking(j) <=> WalkJob(j)
BY DEF Walking, JobOK, OpJob, WalkJob, Idle, Ops, OpPcs, CopyPcs, WalkPcs

LEMMA SameWalking ==
    ASSUME NEW j, NEW k, JobOK(j), SameWork(k, j)
    PROVE  Walking(k) <=> Walking(j)
BY DEF Walking, SameWork, JobOK, OpJob, WalkJob, Idle, OpFields, WalkFields, Ops, OpPcs, CopyPcs, WalkPcs

(* A step of an operation leaves the walks sound.                          *)
LEMMA TreeStepWalks ==
    ASSUME TreeInv, TreeInv', WalkInv, TreeStep, Observe
    PROVE  WalkInv'
<1> USE DEF TreeInv
<1>1. DOMAIN handle' = Threads /\ DOMAIN there' = Threads
  BY DEF TreeStep, Observe
<1>2. ASSUME NEW t \in Threads, Walking(job'[t])
      PROVE  WalkJob(job[t]) /\ SameWork(job'[t], job[t])
  <2>1. CASE Crash
    <3>1. job'[t] = Idle
      BY <2>1, CrashJob
    <3> QED
      BY <3>1, <1>2 DEF Walking, Idle
  <2>2. ASSUME NEW u \in Threads, Step(u)
        PROVE  WalkJob(job[t]) /\ SameWork(job'[t], job[t])
    <3>0. JobOK(job[t]) /\ JobOK(job'[t])
      BY DEF JobsOK
    <3>1. ASSUME OthersKeep(u), OpJob(job'[u])
          PROVE  WalkJob(job[t]) /\ SameWork(job'[t], job[t])
      <4>1. CASE t = u
        BY <1>2, <3>1, <4>1 DEF OpJob, Walking, Ops
      <4>2. CASE t # u
        BY <1>2, <3>0, <3>1, <4>2, IdleWalk, SameWalking DEF OthersKeep
      <4> QED
        BY <4>1, <4>2
    <3>2. CASE OpStep(u)
      BY <3>1, <3>2 DEF OpStep, Goes
    <3>3. CASE Starts(u) /\ OpJob(job'[u])
      BY <3>1, <3>3 DEF Starts
    <3>4. CASE TakesLock(u)
      BY <1>2, <3>0, <3>4, IdleWalk DEF TakesLock, SameWork
    <3>5. CASE Answers(u)
      <4>1. t # u
        BY <1>2, <3>5 DEF Answers, Walking, Idle
      <4>2. job'[t] = job[t]
        BY <3>5, <4>1 DEF Answers
      <4> QED
        BY <1>2, <3>0, <4>2, IdleWalk DEF SameWork
    <3> QED
      BY <2>2, <3>2, <3>3, <3>4, <3>5, OpKinds
  <2> QED
    BY <2>1, <2>2 DEF TreeStep, Next
<1>3. tree' = tree \/ \E u \in Threads : OpStep(u)
  <2>1. CASE Crash
    BY <2>1 DEF Crash
  <2>2. ASSUME NEW u \in Threads, Step(u)
        PROVE  tree' = tree \/ OpStep(u)
    BY <2>2, OpKinds DEF TakesLock, Starts, Answers
  <2> QED
    BY <2>1, <2>2 DEF TreeStep, Next
<1>4. ASSUME NEW t \in Threads
      PROVE  WalkOK(t)'
  <2>1. SUFFICES ASSUME Walking(job'[t])
                 PROVE  WalkOK(t)'
    BY DEF WalkOK
  <2>2. WalkJob(job[t]) /\ SameWork(job'[t], job[t])
    BY <1>2, <2>1
  <2>3. Walking(job[t]) /\ JobOK(job[t])
    BY <2>2, IdleWalk DEF JobOK
  <2>4. there'[t] = {q \in there[t] : tree'[q] = tree[q]}
    BY <2>1, <2>3 DEF Observe
  <2>5. handle'[t] = Follows(handle[t])
    BY <2>1 DEF TreeStep
  <2>6. WalkOK(t) /\ there[t] \subseteq {q \in Paths : tree[q] # None}
    BY <2>3 DEF WalkInv, WalkOK
  <2>7. job'[t].dir = job[t].dir
    BY <2>2 DEF SameWork, WalkJob, WalkFields
  <2>8. ASSUME InPlace(t), NEW q \in there'[t], Parent(q) = job'[t].dir
        PROVE  handle'[t] = job'[t].dir
    <3>1. q \in there[t] /\ q \in Paths /\ tree[q] # None /\ tree'[q] = tree[q]
      BY <2>4, <2>6
    <3>2. handle[t] = Parent(q)
      BY <2>7, <2>8, <3>1 DEF InPlace
    <3>3. Follows(Parent(q)) = Parent(q)
      BY <1>3, <3>1, FollowsStays
    <3> QED
      BY <2>5, <2>8, <3>2, <3>3
  <2>9. InPlace(t) => InPlace(t)'
    BY <2>8 DEF InPlace
  <2> QED
    BY <2>2, <2>4, <2>6, <2>9, WalkStays
<1> QED
  BY <1>1, <1>4 DEF WalkInv

(* A walk goes on, in a tree that stays as it is.                          *)
WalksOn(t) ==
    /\ WalkGoes(t) /\ WalkOK(t) /\ Walking(job[t])
    /\ UNCHANGED tree /\ there'[t] = there[t]

LEMMA WalkFailed ==
    ASSUME NEW t \in Threads, WalksOn(t), job'[t] = With([pc |-> "done", ok |-> FALSE], job[t])
    PROVE  WalkOK(t)'
<1> DEFINE j == job[t]
           k == job'[t]
<1>1. /\ k.op = j.op /\ k.src = j.src /\ k.opt = j.opt /\ k.counting = j.counting
      /\ k.pc = "done" /\ k.ok = FALSE
  BY DEF WalksOn, WalkGoes, WalkJob, WalkFields, With
<1>2. AskedFor(j) /\ there[t] \subseteq {q \in Paths : tree[q] # None}
  BY DEF WalksOn, WalkOK
<1>3. AskedFor(k)
  BY <1>1, <1>2 DEF AskedFor
<1>4. there'[t] \subseteq {q \in Paths : tree'[q] # None}
  BY <1>2 DEF WalksOn
<1>5. k.pc \notin OpenPcs
  BY <1>1 DEF OpenPcs
<1> QED
  BY <1>1, <1>3, <1>4, <1>5 DEF WalkOK

(* Where a walk may be asked for                                           *)
LEMMA WalkSource ==
    ASSUME NEW j, AskedFor(j)
    PROVE  j.src \in Walkways
BY PathsAreWalkways, WalksAssumption DEF AskedFor

LEMMA WalkDirWalks ==
    ASSUME WalkInv, NEW t \in Threads, WalkDir(t), JobsOK, WalksOn(t)
    PROVE  WalkOK(t)'
<1> DEFINE j == job[t]
           k == job'[t]
<1>0. WalkJob(j) /\ AskedFor(j) /\ there[t] \subseteq {q \in Paths : tree[q] # None}
  BY DEF WalksOn, WalkGoes, WalkOK
<1>1. CASE End(t, FALSE)
  BY <1>0, <1>1, WalkGoesEnd, WalkFailed
<1>2. CASE Opens(t, j.src, [pc |-> "entry", stack |-> <<>>, got |-> <<>>])
  <2>1. k = With(With([pc |-> "entry", stack |-> <<>>, got |-> <<>>],
                      [dir |-> j.src, raw |-> <<>>, seen |-> {}]), j)
    BY <1>2, GotoJobs DEF Opens
  <2>2. /\ k.op = j.op /\ k.src = j.src /\ k.opt = j.opt /\ k.counting = j.counting
        /\ k.pc = "entry" /\ k.stack = <<>> /\ k.got = <<>> /\ k.dir = j.src /\ k.raw = <<>> /\ k.seen = {}
    BY <1>0, <2>1 DEF WalkJob, WalkFields, With
  <2>3. handle'[t] = j.src
    BY <1>2 DEF Opens, WalkInv
  <2>4. AskedFor(k) /\ k.src \in Walkways
    BY <1>0, <2>2, WalkSource DEF AskedFor
  <2>5. there'[t] \subseteq {q \in Paths : tree'[q] # None}
    BY <1>0 DEF WalksOn
  <2>6. Holds(k)
    BY <2>2, <2>4, ItemsNone DEF Holds
  <2>7. Returned(k)
    BY <2>2, ItemsNone DEF Returned
  <2>8. ToOpen(k)
    BY <2>2, ItemsNone DEF ToOpen
  <2>9. Reading(k)
    BY <2>2, ItemsNone DEF Reading, NamesLeft
  <2>10. InPlace(t)'
    BY <2>2, <2>3 DEF InPlace
  <2>11. ReadTrue(t)'
    BY <2>2, ItemsNone DEF ReadTrue
  <2>12. Covered(t)'
    BY <2>2, ItemsNone DEF Covered
  <2>13. AtEnd(t)'
    BY <2>2 DEF AtEnd
  <2>14. Exported(t)'
    BY <2>2, ItemsNone DEF Exported
  <2> QED
    BY <2>2, <2>4, <2>5, <2>6, <2>7, <2>8, <2>9, <2>10, <2>11, <2>12, <2>13, <2>14 DEF WalkOK
<1> QED
  BY <1>1, <1>2 DEF WalkDir

(* An order of a finite set gives each of its elements once.               *)
LEMMA OrderFacts ==
    ASSUME NEW S, IsFiniteSet(S), NEW order \in SetToSeqs(S)
    PROVE  /\ order \in Seq(S) /\ Items(order) = S
           /\ \A i, n \in 1..Len(order) : order[i] = order[n] => i = n
<1> DEFINE c == Cardinality(S)
<1>1. c \in Nat
  BY FS_CardinalityType
<1>2. order \in [1..c -> S] /\ \A i, n \in 1..c : i # n => order[i] # order[n]
  BY DEF SetToSeqs
<1> HIDE DEF c
<1>3. order \in Seq(S) /\ Len(order) = c
  BY <1>1, <1>2, SequenceOf
<1>4. order \in Injection(1..c, S)
  BY <1>2 DEF Injection, IsInjective
<1>5. Cardinality(1..c) = c
  BY <1>1, FS_Interval
<1>6. order \in Surjection(1..c, S)
  BY <1>4, <1>5, FS_Injection DEF c
<1>7. Items(order) = S
  BY <1>2, <1>3, <1>6 DEF Items, Surjection
<1> QED
  BY <1>2, <1>3, <1>7

LEMMA UnreadFinite ==
    ASSUME NEW t
    PROVE  IsFiniteSet(Unread(t)) /\ Unread(t) \subseteq AllNames /\ Unread(t) \cap job[t].seen = {}
<1> DEFINE C == Children(tree, handle[t])
           f == [c \in C |-> Last(c)]
           L == {Last(c) : c \in C}
<1>1. C \subseteq Paths /\ IsFiniteSet(C)
  BY PathsAreWalkways, FS_Subset DEF Children
<1>2. f \in Surjection(C, L)
  BY DEF Surjection
<1>3. IsFiniteSet(L)
  BY <1>1, <1>2, FS_Surjection
<1>4. L \subseteq AllNames
  BY <1>1, PathsAreWalkways, ParentFacts
<1>5. Unread(t) = L \ job[t].seen
  BY DEF Unread
<1> QED
  BY <1>3, <1>4, <1>5, FS_Subset

LEMMA LoadNextBatchWalks ==
    ASSUME WalkInv, NEW t \in Threads, LoadNextBatch(t), JobsOK, WalksOn(t)
    PROVE  WalkOK(t)'
<1> DEFINE j == job[t]
           k == job'[t]
<1>0. /\ WalkJob(j) /\ AskedFor(j) /\ there[t] \subseteq {q \in Paths : tree[q] # None}
      /\ j.pc = "entry" /\ j.raw = <<>> /\ handle' = handle
      /\ tree' = tree /\ there'[t] = there[t]
  BY DEF WalksOn, WalkGoes, WalkOK, LoadNextBatch, Outside
<1>1. /\ Holds(j) /\ Returned(j) /\ ToOpen(j) /\ Reading(j)
      /\ InPlace(t) /\ ReadTrue(t) /\ Covered(t) /\ AtEnd(t) /\ Exported(t)
  BY <1>0 DEF WalksOn, WalkOK, OpenPcs
<1>2. CASE End(t, FALSE)
  BY <1>0, <1>2, WalkGoesEnd, WalkFailed
<1>3. CASE Goto(t, [pc |-> "pop"]) /\ handle[t] # Gone /\ Unread(t) = {}
  <2>1. k = With([pc |-> "pop"], j)
    BY <1>3, GotoJobs
  <2>2. /\ k.op = j.op /\ k.src = j.src /\ k.opt = j.opt /\ k.counting = j.counting
        /\ k.pc = "pop" /\ k.stack = j.stack /\ k.got = j.got /\ k.dir = j.dir /\ k.raw = j.raw
        /\ k.seen = j.seen /\ k.copied = j.copied
    BY <1>0, <2>1 DEF WalkJob, WalkFields, With
  <2>3. AskedFor(k)
    BY <1>0, <2>2 DEF AskedFor
  <2>4. Owed(t)' = Owed(t) /\ NamesLeft(k) = NamesLeft(j)
    BY <1>0, <2>2 DEF Owed, NamesLeft
  <2>5. Holds(k) /\ Returned(k) /\ ToOpen(k)
    BY <1>0, <1>1, <2>2 DEF Holds, Returned, ToOpen
  <2>6. Reading(k)
    BY <1>1, <2>2, <2>4 DEF Reading
  <2>7. InPlace(t)' /\ ReadTrue(t)'
    BY <1>0, <1>1, <2>2 DEF InPlace, ReadTrue
  <2>8. Covered(t)'
    BY <1>1, <2>2, <2>4 DEF Covered
  <2>9. AtEnd(t)'
    <3> SUFFICES ASSUME NEW q \in there[t], Parent(q) = j.dir
                 PROVE  Last(q) \in j.seen
      BY <1>0, <2>2 DEF AtEnd
    <3>1. handle[t] = Parent(q) /\ q \in Paths /\ tree[q] # None
      BY <1>0, <1>1 DEF InPlace
    <3>2. q \in Children(tree, handle[t])
      BY <3>1 DEF Children
    <3> QED
      BY <1>3, <3>2 DEF Unread
  <2>10. Exported(t)'
    BY <1>0, <1>1, <2>2 DEF Exported
  <2> QED
    BY <1>0, <2>2, <2>3, <2>5, <2>6, <2>7, <2>8, <2>9, <2>10 DEF WalkOK
<1>4. ASSUME NEW names \in SUBSET Unread(t), NEW order \in SetToSeqs(names),
             Goto(t, [raw |-> [i \in 1..Len(order) |->
                                 [name |-> order[i], dir |-> tree[Append(handle[t], order[i])] = Dir]],
                      seen |-> j.seen \cup names])
      PROVE  WalkOK(t)'
  <2> DEFINE read == [i \in 1..Len(order) |->
                        [name |-> order[i], dir |-> tree[Append(handle[t], order[i])] = Dir]]
  <2>1. k = With([raw |-> read, seen |-> j.seen \cup names], j)
    BY <1>4, GotoJobs
  <2>2. /\ k.op = j.op /\ k.src = j.src /\ k.opt = j.opt /\ k.counting = j.counting
        /\ k.pc = j.pc /\ k.stack = j.stack /\ k.got = j.got /\ k.dir = j.dir /\ k.raw = read
        /\ k.seen = j.seen \cup names /\ k.copied = j.copied
    BY <1>0, <2>1 DEF WalkJob, WalkFields, With
  <2>3. IsFiniteSet(names) /\ names \subseteq AllNames /\ names \cap j.seen = {}
    BY UnreadFinite, FS_Subset
  <2>4. /\ order \in Seq(names) /\ Items(order) = names /\ Len(order) \in Nat
        /\ \A i, n \in 1..Len(order) : order[i] = order[n] => i = n
        /\ \A i \in 1..Len(order) : order[i] \in names
    BY <2>3, OrderFacts, LenProperties
  <2>5. read \in Seq(RawItems) /\ Len(read) = Len(order)
    <3>1. read \in [1..Len(order) -> RawItems]
      BY <2>3, <2>4 DEF RawItems
    <3> QED
      BY <3>1, <2>4, SequenceOf
  <2>6. \A i \in 1..Len(order) :
            read[i].name = order[i] /\ read[i].dir = (tree[Append(handle[t], order[i])] = Dir)
    OBVIOUS
  <2> HIDE DEF read
  <2>7. NamesLeft(j) = {} /\ NamesLeft(k) = names
    <3>1. NamesLeft(j) = {}
      BY <1>0, ItemsNone DEF NamesLeft
    <3>2. NamesLeft(k) = names
      BY <2>2, <2>4, <2>5, <2>6 DEF NamesLeft, Items
    <3> QED
      BY <3>1, <3>2
  <2>8. AskedFor(k) /\ Owed(t)' = Owed(t)
    BY <1>0, <2>2 DEF AskedFor, Owed
  <2>9. Holds(k) /\ Returned(k) /\ ToOpen(k)
    BY <1>0, <1>1, <2>2, <2>5 DEF Holds, Returned, ToOpen
  <2>10. Reading(k)
    <3>1. \A i, n \in 1..Len(k.raw) : k.raw[i].name = k.raw[n].name => i = n
      BY <2>2, <2>4, <2>5, <2>6
    <3>2. NamesLeft(k) \subseteq k.seen
      BY <2>2, <2>7
    <3>3. \A q \in Items(k.got) : Parent(q) = k.dir => Last(q) \in k.seen /\ Last(q) \notin NamesLeft(k)
      BY <1>1, <2>2, <2>3, <2>7 DEF Reading
    <3> QED
      BY <3>1, <3>2, <3>3 DEF Reading
  <2>11. InPlace(t)'
    BY <1>0, <1>1, <2>2 DEF InPlace
  <2>12. ReadTrue(t)'
    <3> SUFFICES ASSUME NEW i \in 1..Len(order), Append(j.dir, order[i]) \in there[t]
                 PROVE  (tree[Append(handle[t], order[i])] = Dir) = (tree[Append(j.dir, order[i])] = Dir)
      BY <1>0, <2>2, <2>5, <2>6 DEF ReadTrue
    <3>1. j.dir \in Walkways /\ order[i] \in AllNames
      BY <1>1, <2>3, <2>4 DEF Holds
    <3>2. Parent(Append(j.dir, order[i])) = j.dir
      BY <3>1, AppendFacts
    <3> QED
      BY <1>1, <3>2 DEF InPlace
  <2>13. Covered(t)'
    <3> SUFFICES ASSUME NEW q \in Owed(t), Parent(q) = j.src \/ Parent(q) \in Items(j.got)
                 PROVE  \/ q \in Items(j.got)
                        \/ Parent(q) = j.dir /\ (Last(q) \in j.seen \cup names => Last(q) \in names)
                        \/ Parent(q) \in Items(j.stack)
      BY <2>2, <2>7, <2>8 DEF Covered
    <3> QED
      BY <1>1, <2>7 DEF Covered
  <2>14. AtEnd(t)' /\ Exported(t)'
    BY <1>0, <1>1, <2>2 DEF AtEnd, Exported
  <2> QED
    BY <1>0, <2>2, <2>8, <2>9, <2>10, <2>11, <2>12, <2>13, <2>14 DEF WalkOK
<1>5. CASE \E names \in kSubset(Min({Batch, Cardinality(Unread(t))}), Unread(t)) :
             \E order \in SetToSeqs(names) :
               Goto(t, [raw |-> [i \in 1..Len(order) |->
                                   [name |-> order[i], dir |-> tree[Append(handle[t], order[i])] = Dir]],
                        seen |-> j.seen \cup names])
  BY <1>4, <1>5 DEF kSubset
<1> QED
  BY <1>2, <1>3, <1>5 DEF LoadNextBatch

(* When no directory is left to be opened, nothing the walk owes is left: a *)
(* shortest path it had not returned would be in a directory it has read.  *)
LEMMA NothingLeft ==
    ASSUME NEW t \in Threads, AskedFor(job[t]), there[t] \subseteq {q \in Paths : tree[q] # None},
           Covered(t), AtEnd(t), job[t].pc = "pop", job[t].raw = <<>>, job[t].stack = <<>>
    PROVE  Owed(t) \subseteq Items(job[t].got)
<1> DEFINE j == job[t]
           Missed == Owed(t) \ Items(j.got)
           Lengths == {Len(q) : q \in Missed}
<1>1. Owed(t) \subseteq there[t] /\ Owed(t) \subseteq Paths /\ Paths \subseteq Walkways
  BY PathsAreWalkways DEF Owed
<1>2. Items(j.stack) = {} /\ NamesLeft(j) = {}
  BY ItemsNone DEF NamesLeft
<1>3. SUFFICES ASSUME Missed # {}
               PROVE  FALSE
  OBVIOUS
<1>4. Lengths \subseteq Nat /\ Lengths # {}
  <2>1. \A q \in Missed : Len(q) \in Nat
    BY <1>1, LenProperties DEF Walkways
  <2> QED
    BY <1>3, <2>1
<1>5. PICK m \in Lengths : \A n \in Lengths : m <= n
  BY <1>4, LeastNatural
<1>6. PICK q \in Missed : m = Len(q)
  BY <1>5
<1>7. \A r \in Missed : Len(q) <= Len(r)
  BY <1>5, <1>6
<1>8. ~(Parent(q) = j.src \/ Parent(q) \in Items(j.got))
  <2> SUFFICES ASSUME Parent(q) = j.src \/ Parent(q) \in Items(j.got)
               PROVE  FALSE
    OBVIOUS
  <2>1. Parent(q) = j.dir /\ (Last(q) \in j.seen => Last(q) \in NamesLeft(j))
    BY <1>2 DEF Covered
  <2>2. Last(q) \in j.seen
    BY <1>1, <2>1 DEF AtEnd
  <2> QED
    BY <1>2, <2>1, <2>2
<1> DEFINE r == Parent(q)
<1>9. /\ q \in Walkways /\ q # <<>> /\ j.src \in Walkways /\ Within(q, j.src) /\ r # j.src
      /\ q \in Owed(t) /\ q \in Paths
  BY <1>1, <1>8, WalkSource, PathsAreWalkways DEF Owed
<1>10. r \in Walkways /\ Len(r) = Len(q) - 1 /\ Within(q, r) /\ Under(r, j.src)
  BY <1>9, ParentFacts
<1> HIDE DEF r
<1>11. Within(r, j.src) /\ r \in Paths /\ Under(q, r)
  <2>1. Within(r, j.src)
    BY <1>9, <1>10, UnderOrder
  <2>2. r # <<>>
    BY <2>1, <1>9, <1>10, UnderDef, EmptySeq DEF Walkways
  <2>3. Under(q, r)
    BY <1>9, <1>10, UnderOrder
  <2> QED
    BY <1>9, <1>10, <2>1, <2>2, <2>3, PathAbove
<1>12. r \in Owed(t)
  <2>1. r \in there[t] /\ j.opt.recursive
    BY <1>9, <1>11 DEF Owed, r
  <2>2. ASSUME NEW s \in Paths, Under(r, s), Within(s, j.src)
        PROVE  s \in there[t] /\ (j.opt.hidden \/ Last(s) \notin Hidden \cup OwnNames)
    <3>1. Under(q, s)
      BY <1>9, <1>10, <1>11, <2>2, UnderTransitive, PathsAreWalkways
    <3> QED
      BY <1>9, <2>2, <3>1 DEF Owed
  <2> QED
    BY <1>11, <2>1, <2>2 DEF Owed
<1>13. r \in Missed
  BY <1>8, <1>12 DEF r
<1>14. Len(q) \in Nat /\ Len(q) <= Len(r)
  BY <1>7, <1>9, <1>13, LenProperties DEF Walkways
<1> QED
  BY <1>10, <1>14

LEMMA LoadNextDirectoryWalks ==
    ASSUME WalkInv, NEW t \in Threads, LoadNextDirectory(t), JobsOK, WalksOn(t)
    PROVE  WalkOK(t)'
<1> DEFINE j == job[t]
           k == job'[t]
<1>0. /\ WalkJob(j) /\ AskedFor(j) /\ there[t] \subseteq {q \in Paths : tree[q] # None}
      /\ j.pc = "pop" /\ tree' = tree /\ there'[t] = there[t]
  BY DEF WalksOn, WalkGoes, WalkOK, LoadNextDirectory, Outside
<1>1. /\ Holds(j) /\ Returned(j) /\ ToOpen(j) /\ Reading(j) /\ j.raw = <<>>
      /\ InPlace(t) /\ ReadTrue(t) /\ Covered(t) /\ AtEnd(t) /\ Exported(t)
  BY <1>0 DEF WalksOn, WalkOK, OpenPcs, Holds
<1>2. CASE End(t, FALSE)
  BY <1>0, <1>2, WalkGoesEnd, WalkFailed
<1>3. CASE Goto(t, [pc |-> "walkdir", counting |-> FALSE])
  <2>1. k = With([pc |-> "walkdir", counting |-> FALSE], j)
    BY <1>3, GotoJobs
  <2>2. k.op = j.op /\ k.src = j.src /\ k.opt = j.opt /\ k.counting = FALSE /\ k.pc = "walkdir"
    BY <1>0, <2>1 DEF WalkJob, WalkFields, With
  <2>3. AskedFor(k) /\ k.pc \notin OpenPcs /\ k.pc # "done"
    BY <1>0, <2>2 DEF AskedFor, OpenPcs
  <2> QED
    BY <1>0, <2>3 DEF WalkOK
<1>4. CASE End(t, TRUE) /\ j.stack = <<>> /\ ~j.counting
  <2>1. k = With([pc |-> "done", ok |-> TRUE], j)
    BY <1>0, <1>4, WalkGoesEnd
  <2>2. /\ k.op = j.op /\ k.src = j.src /\ k.opt = j.opt /\ k.counting = j.counting
        /\ k.pc = "done" /\ k.got = j.got /\ k.copied = j.copied
    BY <1>0, <2>1 DEF WalkJob, WalkFields, With
  <2>3. AskedFor(k) /\ k.pc \notin OpenPcs /\ Owed(t)' = Owed(t)
    BY <1>0, <2>2 DEF AskedFor, OpenPcs, Owed
  <2>4. Owed(t) \subseteq Items(j.got)
    BY <1>0, <1>1, <1>4, NothingLeft
  <2>5. Complete(t)'
    <3>1. j.got \in Seq(Paths) /\ Once(j.got)
      BY <1>1 DEF Holds, Returned
    <3>2. ASSUME j.op = "export", NEW q \in Owed(t), IsFile(tree[q])
          PROVE  q \in DOMAIN j.copied /\ j.copied[q] = tree[q]
      <4>1. q \in there[t] /\ q \in Items(j.got)
        BY <2>4 DEF Owed
      <4> QED
        BY <1>0, <1>1, <1>4, <3>2, <4>1 DEF Exported
    <3> QED
      BY <1>0, <2>2, <2>3, <2>4, <3>1, <3>2 DEF Complete
  <2> QED
    BY <1>0, <2>2, <2>3, <2>5 DEF WalkOK
<1>5. CASE Opens(t, Last(j.stack), [pc |-> "entry", stack |-> Front(j.stack)]) /\ j.stack # <<>>
  <2> DEFINE d == Last(j.stack)
  <2>1. k = With(With([pc |-> "entry", stack |-> Front(j.stack)],
                      [dir |-> d, raw |-> <<>>, seen |-> {}]), j)
    BY <1>5, GotoJobs DEF Opens
  <2>2. /\ k.op = j.op /\ k.src = j.src /\ k.opt = j.opt /\ k.counting = j.counting
        /\ k.pc = "entry" /\ k.stack = Front(j.stack) /\ k.got = j.got /\ k.dir = d
        /\ k.raw = <<>> /\ k.seen = {} /\ k.copied = j.copied
    BY <1>0, <2>1 DEF WalkJob, WalkFields, With
  <2>3. handle'[t] = d
    BY <1>5 DEF Opens, WalkInv
  <2>4. j.stack \in Seq(Paths) /\ Once(j.stack) /\ Items(j.stack) \subseteq Items(j.got)
    BY <1>1 DEF Holds, ToOpen
  <2>5. /\ Front(j.stack) \in Seq(Paths) /\ d \in Paths
        /\ Items(j.stack) = Items(Front(j.stack)) \cup {d}
        /\ Once(Front(j.stack)) /\ d \notin Items(Front(j.stack))
    BY <1>5, <2>4, ItemsFront
  <2> HIDE DEF d
  <2>6. AskedFor(k) /\ Owed(t)' = Owed(t) /\ NamesLeft(j) = {}
    BY <1>0, <1>1, <2>2, ItemsNone DEF AskedFor, Owed, NamesLeft
  <2>7. Holds(k)
    BY <1>1, <2>2, <2>5, ItemsNone, PathsAreWalkways DEF Holds
  <2>8. Returned(k)
    BY <1>1, <2>2 DEF Returned
  <2>9. ToOpen(k)
    BY <1>1, <2>2, <2>4, <2>5 DEF ToOpen
  <2>10. Reading(k)
    <3>1. \A q \in Items(j.got) : Parent(q) # d
      BY <1>1, <2>5 DEF ToOpen
    <3> QED
      BY <2>2, <3>1, ItemsNone DEF Reading, NamesLeft
  <2>11. InPlace(t)' /\ ReadTrue(t)' /\ AtEnd(t)'
    BY <2>2, <2>3, ItemsNone DEF InPlace, ReadTrue, AtEnd
  <2>12. Covered(t)'
    <3> SUFFICES ASSUME NEW q \in Owed(t), Parent(q) = j.src \/ Parent(q) \in Items(j.got)
                 PROVE  \/ q \in Items(j.got) \/ Parent(q) = d
                        \/ Parent(q) \in Items(Front(j.stack))
      BY <2>2, <2>6 DEF Covered
    <3>1. ~(Parent(q) = j.dir /\ (Last(q) \in j.seen => Last(q) \in NamesLeft(j)))
      BY <1>0, <1>1, <2>6 DEF AtEnd, Owed
    <3> QED
      BY <1>1, <2>5, <3>1 DEF Covered
  <2>13. Exported(t)'
    BY <1>0, <1>1, <2>2 DEF Exported
  <2> QED
    BY <1>0, <2>2, <2>6, <2>7, <2>8, <2>9, <2>10, <2>11, <2>12, <2>13 DEF WalkOK
<1> QED
  BY <1>2, <1>3, <1>4, <1>5 DEF LoadNextDirectory

(* The entry a walk is at: it has a place in the open directory, and was   *)
(* not returned before.                                                    *)
LEMMA EntryFacts ==
    ASSUME NEW t \in Threads, AskedFor(job[t]), Holds(job[t]), Returned(job[t]), ToOpen(job[t]),
           Reading(job[t]), job[t].raw # <<>>
    PROVE  LET j == job[t] IN
           /\ Entry(t) \in Walkways /\ Parent(Entry(t)) = j.dir /\ Last(Entry(t)) = Head(j.raw).name
           /\ Entry(t) = Append(j.dir, Head(j.raw).name) /\ Head(j.raw).name \in NamesLeft(j)
           /\ Within(Entry(t), j.src) /\ Entry(t) # j.src /\ Entry(t) # j.dir
           /\ Entry(t) \notin Items(j.got) /\ Entry(t) \notin Items(j.stack)
<1> DEFINE j == job[t]
           e == Entry(t)
<1>1. /\ Head(j.raw) \in RawItems /\ Head(j.raw).name \in NamesLeft(j)
      /\ \A i, n \in 1..Len(j.raw) : j.raw[i].name = j.raw[n].name => i = n
  <2>1. j.raw \in Seq(RawItems)
    BY DEF Holds
  <2>2. Head(j.raw) \in RawItems /\ Head(j.raw) = j.raw[1] /\ 1 \in 1..Len(j.raw)
    BY <2>1, ItemsTail
  <2> QED
    BY <2>2 DEF NamesLeft, Reading
<1>2. j.dir \in Walkways /\ Head(j.raw).name \in AllNames /\ e = Append(j.dir, Head(j.raw).name)
  BY <1>1 DEF Holds, RawItems, Entry
<1>3. e \in Walkways /\ e # <<>> /\ Parent(e) = j.dir /\ Last(e) = Head(j.raw).name
  BY <1>2, AppendFacts
<1> HIDE DEF e
<1>4. Within(e, j.dir)
  BY <1>3, ParentFacts
<1>5. j.src \in Walkways
  BY WalkSource
<1>6. j.dir = j.src \/ Within(j.dir, j.src)
  BY DEF ToOpen, Returned
<1>7. Within(e, j.src)
  BY <1>2, <1>3, <1>4, <1>5, <1>6, UnderTransitive, UnderOrder
<1>8. e # j.src /\ e # j.dir
  <2>1. e # j.src
    BY <1>3, <1>5, <1>7, UnderOrder
  <2>2. e # j.dir
    BY <1>2, <1>3, <1>4, UnderOrder
  <2> QED
    BY <2>1, <2>2
<1>9. e \notin Items(j.got)
  BY <1>1, <1>3 DEF Reading
<1>10. e \notin Items(j.stack)
  BY <1>9 DEF ToOpen
<1> QED
  BY <1>1, <1>2, <1>3, <1>7, <1>8, <1>9, <1>10 DEF e

LEMMA SkippedWalks ==
    ASSUME NEW t \in Threads, Skipped(t), job'[t] = With([raw |-> Tail(job[t].raw)], job[t]),
           job[t].pc = "entry", job[t].raw # <<>>, handle' = handle, WalksOn(t)
    PROVE  WalkOK(t)'
<1> DEFINE j == job[t]
           k == job'[t]
           h == Head(j.raw)
<1>0. /\ WalkJob(j) /\ AskedFor(j) /\ there[t] \subseteq {q \in Paths : tree[q] # None}
      /\ tree' = tree /\ there'[t] = there[t]
  BY DEF WalksOn, WalkGoes, WalkOK
<1>1. /\ Holds(j) /\ Returned(j) /\ ToOpen(j) /\ Reading(j)
      /\ InPlace(t) /\ ReadTrue(t) /\ Covered(t) /\ AtEnd(t) /\ Exported(t)
  BY DEF WalksOn, WalkOK, OpenPcs
<1>2. /\ k.op = j.op /\ k.src = j.src /\ k.opt = j.opt /\ k.counting = j.counting
      /\ k.pc = j.pc /\ k.stack = j.stack /\ k.got = j.got /\ k.dir = j.dir /\ k.raw = Tail(j.raw)
      /\ k.seen = j.seen /\ k.copied = j.copied
  BY <1>0 DEF WalkJob, WalkFields, With
<1>3. /\ j.raw \in Seq(RawItems)
      /\ \A i, n \in 1..Len(j.raw) : j.raw[i].name = j.raw[n].name => i = n
  BY <1>1 DEF Holds, Reading
<1>4. /\ k.raw \in Seq(RawItems)
      /\ NamesLeft(j) = NamesLeft(k) \cup {h.name} /\ h.name \notin NamesLeft(k)
      /\ \A i, n \in 1..Len(k.raw) : k.raw[i].name = k.raw[n].name => i = n
      /\ \A i \in 1..Len(k.raw) : \E n \in 1..Len(j.raw) : k.raw[i] = j.raw[n]
  BY <1>2, <1>3, NamesAfterFirst
<1>5. Last(Entry(t)) = h.name /\ Entry(t) = Append(j.dir, h.name)
  BY <1>0, <1>1, EntryFacts
<1> HIDE DEF h
<1>6. AskedFor(k) /\ Owed(t)' = Owed(t)
  BY <1>0, <1>2 DEF AskedFor, Owed
<1>7. Holds(k) /\ Returned(k) /\ ToOpen(k)
  BY <1>0, <1>1, <1>2, <1>4 DEF Holds, Returned, ToOpen
<1>8. Reading(k)
  BY <1>1, <1>2, <1>4 DEF Reading
<1>9. InPlace(t)' /\ AtEnd(t)' /\ Exported(t)'
  BY <1>0, <1>1, <1>2 DEF InPlace, AtEnd, Exported
<1>10. ReadTrue(t)'
  <2> SUFFICES ASSUME NEW i \in 1..Len(k.raw), Append(j.dir, k.raw[i].name) \in there[t]
               PROVE  k.raw[i].dir = (tree[Append(j.dir, k.raw[i].name)] = Dir)
    BY <1>0, <1>2 DEF ReadTrue
  <2>1. PICK n \in 1..Len(j.raw) : k.raw[i] = j.raw[n]
    BY <1>4
  <2> QED
    BY <1>1, <2>1 DEF ReadTrue
<1>11. Covered(t)'
  <2> SUFFICES ASSUME NEW q \in Owed(t), Parent(q) = j.dir, Last(q) = h.name
               PROVE  FALSE
    BY <1>1, <1>2, <1>4, <1>6 DEF Covered
  <2>1. q \in Paths /\ q \in Walkways /\ q # <<>> /\ Within(q, j.src)
    BY <1>0, PathsAreWalkways DEF Owed
  <2>2. Under(q, q) /\ ~j.opt.hidden /\ Last(q) \in Hidden \cup OwnNames
    BY <1>5, <2>1, UnderOrder DEF Skipped
  <2> QED
    BY <2>1, <2>2 DEF Owed
<1> QED
  BY <1>0, <1>2, <1>6, <1>7, <1>8, <1>9, <1>10, <1>11 DEF WalkOK

Returns(t) ==
    job'[t] = With([raw |-> Tail(job[t].raw), got |-> Append(job[t].got, Entry(t)),
                    stack |-> IF Descends(t) THEN Append(job[t].stack, Entry(t)) ELSE job[t].stack,
                    pc |-> AfterEntry(t)], job[t])

LEMMA ReturnedWalks ==
    ASSUME Rooted, NEW t \in Threads, Exists(Entry(t)), Returns(t),
           job[t].pc = "entry", job[t].raw # <<>>, handle' = handle, WalksOn(t)
    PROVE  WalkOK(t)'
<1> DEFINE j == job[t]
           k == job'[t]
           h == Head(j.raw)
           e == Entry(t)
           desc == h.dir /\ j.opt.recursive
<1>0. /\ WalkJob(j) /\ AskedFor(j) /\ there[t] \subseteq {q \in Paths : tree[q] # None}
      /\ tree' = tree /\ there'[t] = there[t]
  BY DEF WalksOn, WalkGoes, WalkOK
<1>1. /\ Holds(j) /\ Returned(j) /\ ToOpen(j) /\ Reading(j)
      /\ InPlace(t) /\ ReadTrue(t) /\ Covered(t) /\ AtEnd(t) /\ Exported(t)
  BY DEF WalksOn, WalkOK, OpenPcs
<1>2. /\ k.op = j.op /\ k.src = j.src /\ k.opt = j.opt /\ k.counting = j.counting
      /\ k.pc = AfterEntry(t) /\ k.dir = j.dir /\ k.raw = Tail(j.raw)
      /\ k.got = Append(j.got, e)
      /\ k.stack = (IF desc THEN Append(j.stack, e) ELSE j.stack)
      /\ k.seen = j.seen /\ k.copied = j.copied
  BY <1>0 DEF Returns, WalkJob, WalkFields, With, Descends
<1>3. /\ j.raw \in Seq(RawItems)
      /\ \A i, n \in 1..Len(j.raw) : j.raw[i].name = j.raw[n].name => i = n
  BY <1>1 DEF Holds, Reading
<1>4. /\ k.raw \in Seq(RawItems) /\ h \in RawItems
      /\ NamesLeft(j) = NamesLeft(k) \cup {h.name} /\ h.name \notin NamesLeft(k)
      /\ \A i, n \in 1..Len(k.raw) : k.raw[i].name = k.raw[n].name => i = n
      /\ \A i \in 1..Len(k.raw) : \E n \in 1..Len(j.raw) : k.raw[i] = j.raw[n]
      /\ \E n \in 1..Len(j.raw) : h = j.raw[n]
  <2>1. k.raw = Tail(j.raw)
    BY <1>2
  <2> QED
    BY <1>3, <2>1, NamesAfterFirst
<1>5. /\ e \in Walkways /\ Parent(e) = j.dir /\ Last(e) = h.name
      /\ e = Append(j.dir, h.name) /\ h.name \in NamesLeft(j)
      /\ Within(e, j.src) /\ e # j.src /\ e # j.dir
      /\ e \notin Items(j.got) /\ e \notin Items(j.stack) /\ e \in Paths
  BY <1>0, <1>1, EntryFacts DEF Exists
<1>6. AfterEntry(t) = IF j.op = "list" \/ j.counting THEN "entry"
                      ELSE IF h.dir THEN "makedir" ELSE "export"
  BY DEF AfterEntry
<1>7. e \in there[t] => h.dir = (tree[e] = Dir)
  <2>1. PICK n \in 1..Len(j.raw) : h = j.raw[n]
    BY <1>4
  <2>2. Append(j.dir, j.raw[n].name) = e /\ j.raw[n].dir = h.dir
    BY <1>5, <2>1
  <2> QED
    BY <1>1, <2>1, <2>2 DEF ReadTrue
<1> HIDE DEF h, e, desc
<1>8. /\ k.got \in Seq(Paths) /\ k.got # <<>> /\ Last(k.got) = e
      /\ Items(k.got) = Items(j.got) \cup {e} /\ Once(k.got)
  <2>1. j.got \in Seq(Paths) /\ Once(j.got)
    BY <1>1 DEF Holds, Returned
  <2>2. k.got = Append(j.got, e) /\ e \in Paths /\ e \notin Items(j.got)
    BY <1>2, <1>5
  <2> QED
    BY <2>1, <2>2, ItemsAppend
<1>9. /\ k.stack \in Seq(Paths) /\ Once(k.stack)
      /\ Items(k.stack) = (IF desc THEN Items(j.stack) \cup {e} ELSE Items(j.stack))
  <2>1. j.stack \in Seq(Paths) /\ Once(j.stack)
    BY <1>1 DEF Holds, ToOpen
  <2>2. CASE desc
    <3>1. k.stack = Append(j.stack, e) /\ e \in Paths /\ e \notin Items(j.stack)
      BY <1>2, <1>5, <2>2
    <3> QED
      BY <2>1, <2>2, <3>1, ItemsAppend
  <2>3. CASE ~desc
    BY <1>2, <2>1, <2>3
  <2> QED
    BY <2>2, <2>3
<1>10. AskedFor(k) /\ Owed(t)' = Owed(t)
  BY <1>0, <1>2 DEF AskedFor, Owed
<1>11. Holds(k)
  <2>1. j.op \in {"list", "export"}
    BY <1>0 DEF WalkJob
  <2> QED
    BY <1>1, <1>2, <1>4, <1>6, <1>8, <1>9, <2>1 DEF Holds
<1>12. Returned(k)
  BY <1>1, <1>2, <1>5, <1>8 DEF Returned, ToOpen
<1>13. ToOpen(k)
  <2>1. Items(k.stack) \subseteq Items(k.got)
    BY <1>1, <1>8, <1>9 DEF ToOpen
  <2>2. k.dir = k.src \/ k.dir \in Items(k.got)
    BY <1>1, <1>2, <1>8 DEF ToOpen
  <2>3. k.dir \notin Items(k.stack)
    BY <1>1, <1>2, <1>5, <1>9 DEF ToOpen
  <2>4. ASSUME NEW q \in Items(k.got)
        PROVE  Parent(q) \notin Items(k.stack)
    <3>1. Parent(q) \notin Items(j.stack)
      BY <1>1, <1>5, <1>8, <2>4 DEF ToOpen
    <3>2. Parent(q) # e
      BY <1>1, <1>5, <1>8, <2>4 DEF Returned
    <3> QED
      BY <1>9, <3>1, <3>2
  <2> QED
    BY <1>9, <2>1, <2>2, <2>3, <2>4 DEF ToOpen
<1>14. Reading(k)
  <2>1. \A q \in Items(k.got) : Parent(q) = k.dir => Last(q) \in k.seen /\ Last(q) \notin NamesLeft(k)
    BY <1>1, <1>2, <1>4, <1>5, <1>8 DEF Reading
  <2>2. NamesLeft(k) \subseteq k.seen
    BY <1>1, <1>2, <1>4 DEF Reading
  <2> QED
    BY <1>4, <2>1, <2>2 DEF Reading
<1>15. InPlace(t)' /\ AtEnd(t)'
  BY <1>0, <1>1, <1>2, <1>6 DEF InPlace, AtEnd
<1>16. ReadTrue(t)'
  <2> SUFFICES ASSUME NEW i \in 1..Len(k.raw), Append(j.dir, k.raw[i].name) \in there[t]
               PROVE  k.raw[i].dir = (tree[Append(j.dir, k.raw[i].name)] = Dir)
    BY <1>0, <1>2 DEF ReadTrue
  <2>1. PICK n \in 1..Len(j.raw) : k.raw[i] = j.raw[n]
    BY <1>4
  <2> QED
    BY <1>1, <2>1 DEF ReadTrue
<1>17. Covered(t)'
  <2> SUFFICES ASSUME NEW q \in Owed(t), Parent(q) = j.src \/ Parent(q) \in Items(k.got)
               PROVE  \/ q \in Items(k.got)
                      \/ Parent(q) = j.dir /\ (Last(q) \in j.seen => Last(q) \in NamesLeft(k))
                      \/ Parent(q) \in Items(k.stack)
    BY <1>2, <1>10 DEF Covered
  <2>0. /\ q \in there[t] /\ q \in Paths /\ tree[q] # None /\ Within(q, j.src)
        /\ q \in Walkways /\ q # <<>>
    BY <1>0, PathsAreWalkways DEF Owed
  <2>1. CASE Parent(q) = e
    <3>1. Under(q, e) /\ Within(q, e)
      BY <2>0, <2>1, ParentFacts, UnderOrder
    <3>2. j.opt.recursive /\ e \in there[t]
      BY <1>5, <2>1, <3>1 DEF Owed
    <3>3. tree[e] = Dir
      BY <1>5, <2>0, <3>1 DEF Rooted
    <3>4. desc
      BY <1>7, <3>2, <3>3 DEF desc
    <3> QED
      BY <1>9, <2>1, <3>4
  <2>2. CASE Parent(q) # e
    <3>1. \/ q \in Items(j.got)
          \/ Parent(q) = j.dir /\ (Last(q) \in j.seen => Last(q) \in NamesLeft(j))
          \/ Parent(q) \in Items(j.stack)
      BY <1>1, <1>8, <2>2 DEF Covered
    <3>2. ASSUME Parent(q) = j.dir, Last(q) = h.name
          PROVE  q = e
      BY <1>5, <2>0, <3>2, ParentFacts
    <3> QED
      BY <1>4, <1>8, <1>9, <3>1, <3>2
  <2> QED
    BY <2>1, <2>2
<1>18. Exported(t)'
  <2> SUFFICES ASSUME j.op = "export", ~j.counting, NEW q \in there[t], IsFile(tree[q]), q \in Items(k.got)
               PROVE  \/ q \in DOMAIN j.copied /\ j.copied[q] = tree[q]
                      \/ k.pc = "export" /\ q = Last(k.got)
    BY <1>0, <1>2 DEF Exported
  <2>1. CASE q = e
    <3>1. ~h.dir
      BY <1>7, <2>1 DEF IsFile
    <3>2. k.pc = "export"
      BY <1>2, <1>6, <3>1
    <3> QED
      BY <1>8, <2>1, <3>2
  <2>2. CASE q # e
    BY <1>1, <1>8, <2>2 DEF Exported
  <2> QED
    BY <2>1, <2>2
<1>19. k.pc # "done"
  BY <1>2, <1>6
<1> QED
  BY <1>0, <1>2, <1>10, <1>11, <1>12, <1>13, <1>14, <1>15, <1>16, <1>17, <1>18, <1>19 DEF WalkOK

LEMMA ProcessEntryWalks ==
    ASSUME TreeInv, NEW t \in Threads, ProcessEntry(t), WalksOn(t)
    PROVE  WalkOK(t)'
<1> DEFINE j == job[t]
<1>0. WalkJob(j) /\ j.pc = "entry" /\ j.raw # <<>> /\ handle' = handle /\ JobsOK /\ Rooted
  BY DEF WalksOn, WalkGoes, ProcessEntry, Outside, TreeInv
<1>1. CASE End(t, FALSE)
  BY <1>0, <1>1, WalkGoesEnd, WalkFailed
<1>2. CASE Skipped(t) /\ Goto(t, [raw |-> Tail(j.raw)])
  <2>1. job'[t] = With([raw |-> Tail(j.raw)], j)
    BY <1>0, <1>2, GotoJobs
  <2> QED
    BY <1>0, <1>2, <2>1, SkippedWalks
<1>3. ASSUME Exists(Entry(t)),
             Goto(t, [raw |-> Tail(j.raw), got |-> Append(j.got, Entry(t)),
                      stack |-> IF Descends(t) THEN Append(j.stack, Entry(t)) ELSE j.stack,
                      pc |-> AfterEntry(t)])
      PROVE  WalkOK(t)'
  <2>1. Returns(t)
    BY <1>0, <1>3, GotoJobs DEF Returns
  <2> QED
    BY <1>0, <1>3, <2>1, ReturnedWalks
<1> QED
  BY <1>1, <1>2, <1>3 DEF ProcessEntry

LEMMA VisitWalks ==
    ASSUME WalkInv, NEW t \in Threads, Visit(t), JobsOK, WalksOn(t)
    PROVE  WalkOK(t)'
<1> DEFINE j == job[t]
           k == job'[t]
           x == Last(j.got)
<1>0. /\ WalkJob(j) /\ AskedFor(j) /\ there[t] \subseteq {q \in Paths : tree[q] # None}
      /\ j.pc \in {"makedir", "export"} /\ handle' = handle /\ tree' = tree /\ there'[t] = there[t]
  BY DEF WalksOn, WalkGoes, WalkOK, Visit
<1>1. /\ Holds(j) /\ Returned(j) /\ ToOpen(j) /\ Reading(j)
      /\ InPlace(t) /\ ReadTrue(t) /\ Covered(t) /\ AtEnd(t) /\ Exported(t)
  BY <1>0 DEF WalksOn, WalkOK, OpenPcs
<1>2. CASE End(t, FALSE)
  BY <1>0, <1>2, WalkGoesEnd, WalkFailed
<1>3. ASSUME k.op = j.op, k.src = j.src, k.opt = j.opt, k.counting = j.counting,
             k.pc = "entry", k.stack = j.stack, k.got = j.got, k.dir = j.dir, k.raw = j.raw,
             k.seen = j.seen, Exported(t)'
      PROVE  WalkOK(t)'
  <2>1. AskedFor(k)
    BY <1>0, <1>3 DEF AskedFor
  <2>2. Owed(t)' = Owed(t) /\ NamesLeft(k) = NamesLeft(j)
    BY <1>0, <1>3 DEF Owed, NamesLeft
  <2>3. Holds(k) /\ Returned(k) /\ ToOpen(k)
    BY <1>1, <1>3 DEF Holds, Returned, ToOpen
  <2>4. Reading(k)
    BY <1>1, <1>3, <2>2 DEF Reading
  <2>5. InPlace(t)' /\ ReadTrue(t)' /\ AtEnd(t)'
    BY <1>0, <1>1, <1>3 DEF InPlace, ReadTrue, AtEnd
  <2>6. Covered(t)'
    BY <1>1, <1>3, <2>2 DEF Covered
  <2> QED
    BY <1>0, <1>3, <2>1, <2>3, <2>4, <2>5, <2>6 DEF WalkOK
<1>4. CASE Goto(t, [pc |-> "entry"]) /\ j.pc = "makedir"
  <2>1. k = With([pc |-> "entry"], j)
    BY <1>4, GotoJobs
  <2>2. /\ k.op = j.op /\ k.src = j.src /\ k.opt = j.opt /\ k.counting = j.counting
        /\ k.pc = "entry" /\ k.stack = j.stack /\ k.got = j.got /\ k.dir = j.dir /\ k.raw = j.raw
        /\ k.seen = j.seen /\ k.copied = j.copied
    BY <1>0, <2>1 DEF WalkJob, WalkFields, With
  <2>3. Exported(t)'
    BY <1>0, <1>1, <1>4, <2>2 DEF Exported
  <2> QED
    BY <1>3, <2>2, <2>3
<1>5. CASE Goto(t, [pc |-> "entry", copied |-> With([p \in {x} |-> tree[p]], j.copied)]) /\ j.pc = "export"
  <2> DEFINE c == With([p \in {x} |-> tree[p]], j.copied)
  <2>0. \A q : (q = x \/ q \in DOMAIN j.copied) =>
                 q \in DOMAIN c /\ c[q] = IF q = x THEN tree[x] ELSE j.copied[q]
    BY DEF With
  <2> HIDE DEF c
  <2>1. k = With([pc |-> "entry", copied |-> c], j)
    BY <1>5, GotoJobs DEF c
  <2>2. /\ k.op = j.op /\ k.src = j.src /\ k.opt = j.opt /\ k.counting = j.counting
        /\ k.pc = "entry" /\ k.stack = j.stack /\ k.got = j.got /\ k.dir = j.dir /\ k.raw = j.raw
        /\ k.seen = j.seen /\ k.copied = c
    BY <1>0, <2>1 DEF WalkJob, WalkFields, With
  <2>3. Exported(t)'
    <3> SUFFICES ASSUME j.op = "export", ~j.counting, NEW q \in there[t], IsFile(tree[q]), q \in Items(j.got)
                 PROVE  q \in DOMAIN c /\ c[q] = tree[q]
      BY <1>0, <2>2 DEF Exported
    <3>1. q = x \/ (q \in DOMAIN j.copied /\ j.copied[q] = tree[q])
      BY <1>1 DEF Exported
    <3> QED
      BY <2>0, <3>1
  <2> QED
    BY <1>3, <2>2, <2>3
<1> QED
  BY <1>2, <1>4, <1>5 DEF Visit

LEMMA AskWalkWalks ==
    ASSUME JobsOK, calls \in Nat, NEW t \in Threads, NEW r \in Walks, AskWalk(t, r), Observe
    PROVE  WalkOK(t)'
<1> DEFINE k == job'[t]
<1>1. /\ job[t] = Idle /\ WalkJob(k) /\ k.op = r.op /\ k.src = r.src /\ k.opt = r
      /\ k.pc = "walkdir" /\ k.counting = (r.op = "export")
  BY AskWalkJob
<1>2. AskedFor(k)
  BY <1>1 DEF AskedFor
<1>3. there'[t] \subseteq {q \in Paths : tree'[q] # None}
  BY <1>1 DEF Observe, Walking, Idle
<1>4. k.pc \notin OpenPcs /\ k.pc # "done"
  BY <1>1 DEF OpenPcs
<1> QED
  BY <1>2, <1>3, <1>4 DEF WalkOK

(* A step of a walk keeps all walks sound.                                 *)
LEMMA WalkStepWalks ==
    ASSUME TreeInv, TreeInv', WalkInv, NEW t \in Threads, WalkStep(t), Observe
    PROVE  WalkInv'
<1>0. JobsOK /\ JobsOK' /\ calls \in Nat /\ Rooted
  BY NamesAssumption DEF TreeInv, IdsOK
<1>1. DOMAIN handle' = Threads /\ DOMAIN there' = Threads /\ \A u \in Threads \ {t} : handle'[u] = handle[u]
  <2>1. DOMAIN there' = Threads
    BY DEF Observe
  <2>2. handle' = handle \/ \E q : handle' = [handle EXCEPT ![t] = q]
    BY DEF WalkStep, AskWalk, WalkDir, LoadNextBatch, LoadNextDirectory, ProcessEntry, Visit, Opens
  <2> QED
    BY <2>1, <2>2 DEF WalkInv
<1>2. tree' = tree /\ OthersKeep(t) /\ (WalkGoes(t) \/ job[t] = Idle)
  BY <1>0, WalkStepJob DEF WalkGoes
<1>3. ASSUME NEW u \in Threads, u # t
      PROVE  WalkOK(u)'
  <2>1. SUFFICES ASSUME Walking(job'[u])
                 PROVE  WalkOK(u)'
    BY DEF WalkOK
  <2>2. SameWork(job'[u], job[u]) /\ JobOK(job[u])
    BY <1>0, <1>2, <1>3 DEF OthersKeep, JobsOK
  <2>3. Walking(job[u]) /\ WalkJob(job[u])
    BY <2>1, <2>2, SameWalking, IdleWalk
  <2>4. WalkOK(u)
    BY DEF WalkInv
  <2>5. there'[u] = {q \in there[u] : tree'[q] = tree[q]}
    BY <2>1, <2>3 DEF Observe
  <2>6. InPlace(u) => InPlace(u)'
    <3>1. job'[u].dir = job[u].dir /\ handle'[u] = handle[u]
      BY <1>1, <1>3, <2>2, <2>3 DEF SameWork, WalkJob, WalkFields
    <3>2. there'[u] \subseteq there[u]
      BY <2>5
    <3> QED
      BY <3>1, <3>2 DEF InPlace
  <2> QED
    BY <2>2, <2>3, <2>4, <2>5, <2>6, WalkStays
<1>4. WalkOK(t)'
  <2>1. CASE \E r \in Walks : AskWalk(t, r)
    BY <1>0, <2>1, AskWalkWalks
  <2>2. CASE ~\E r \in Walks : AskWalk(t, r)
    <3>0. job[t].pc # "idle"
      BY <2>2 DEF WalkStep, WalkDir, At, LoadNextBatch, LoadNextDirectory, ProcessEntry, Outside, Visit
    <3>1. WalkGoes(t)
      BY <1>2, <3>0 DEF Idle
    <3>2. Walking(job[t]) /\ Walking(job'[t])
      BY <3>1, IdleWalk DEF WalkGoes, JobOK
    <3>3. WalkOK(t)
      BY DEF WalkInv
    <3>4. there[t] \subseteq {q \in Paths : tree[q] # None}
      BY <3>2, <3>3 DEF WalkOK
    <3>5. there'[t] = there[t]
      BY <1>2, <3>2, <3>4 DEF Observe
    <3>6. WalksOn(t)
      BY <1>2, <3>1, <3>2, <3>3, <3>5 DEF WalksOn
    <3> QED
      BY <1>0, <2>2, <3>6, WalkDirWalks, LoadNextBatchWalks, LoadNextDirectoryWalks, ProcessEntryWalks,
         VisitWalks DEF WalkStep
  <2> QED
    BY <2>1, <2>2
<1> QED
  BY <1>1, <1>3, <1>4 DEF WalkInv

LEMMA WalkInvNext ==
    ASSUME TreeInv, TreeInv', WalkInv, [WalkerNext]_allVars
    PROVE  WalkInv'
<1>1. CASE TreeStep /\ Observe
  BY <1>1, TreeStepWalks
<1>2. ASSUME NEW t \in Threads, WalkStep(t), Observe
      PROVE  WalkInv'
  BY <1>2, WalkStepWalks
<1>3. CASE UNCHANGED allVars
  <2>1. UNCHANGED <<tree, job, handle, there>>
    BY <1>3 DEF allVars, vars
  <2>2. ASSUME NEW t \in Threads
        PROVE  WalkOK(t)'
    <3>1. WalkOK(t)
      BY DEF WalkInv
    <3> QED
      BY <2>1, <3>1 DEF WalkOK, InPlace, ReadTrue, Covered, AtEnd, Exported, Complete, Owed
  <2> QED
    BY <2>1, <2>2 DEF WalkInv
<1> QED
  BY <1>1, <1>2, <1>3 DEF WalkerNext

(* What every walk has returned and still has to read, whatever other      *)
(* threads have done to the tree since it began                            *)
THEOREM WalksAreSound ==
    WalkerSpec => [](TreeInv /\ WalkInv)
<1>1. WalkerInit => WalkInv
  <2> SUFFICES ASSUME WalkerInit
               PROVE  WalkInv
    OBVIOUS
  <2>1. \A t \in Threads : ~Walking(job[t])
    BY DEF WalkerInit, Init, Walking, Idle
  <2> QED
    BY <2>1 DEF WalkerInit, WalkInv, WalkOK
<1>2. TreeInv /\ TreeInv' /\ WalkInv /\ [WalkerNext]_allVars => WalkInv'
  BY WalkInvNext
<1> QED
  BY <1>1, <1>2, TreeIsSound, PTL DEF WalkerSpec

(* WalksAreComplete: a listing or an export that ends without an error has *)
(* returned, once each, every entry that was in place all the time, and    *)
(* the export has copied the files among them.                             *)
THEOREM WalksComplete ==
    WalkerSpec => []WalksAreComplete
<1>1. WalkInv => WalksAreComplete
  <2> SUFFICES ASSUME WalkInv, NEW t \in Threads, Walking(job[t]), job[t].pc = "done", job[t].ok
               PROVE  /\ Owed(t) \subseteq {job[t].got[i] : i \in DOMAIN job[t].got}
                      /\ \A i, k \in DOMAIN job[t].got : job[t].got[i] = job[t].got[k] => i = k
                      /\ job[t].op = "export" =>
                           \A q \in Owed(t) : IsFile(tree[q]) =>
                               q \in DOMAIN job[t].copied /\ job[t].copied[q] = tree[q]
    BY DEF WalksAreComplete
  <2>1. Complete(t)
    BY DEF WalkInv, WalkOK
  <2>2. DOMAIN job[t].got = 1..Len(job[t].got)
    BY <2>1, LenProperties DEF Complete
  <2> QED
    BY <2>1, <2>2 DEF Complete, Items, Once
<1> QED
  BY <1>1, WalksAreSound, PTL
-----------------------------------------------------------------------------
(* Copies, moves and renames                                               *)

(* A name of operation n is in the path.                                    *)
Bears(q, n) == \E i \in 1..Len(q) : q[i] \in {Copying[n], Replaced[n]}

(* An operation that has not begun has left nothing.                       *)
Fresh == \A n \in Ids, q \in Paths : n > calls /\ Bears(q, n) => tree[q] = None

(* An operation at work alone, with the tree it found                      *)
Alone(t) == OpJob(job[t]) /\ job[t].alone

AloneOK(t) == LET j == job[t] IN
    /\ \A u \in Threads \ {t} : job[u] = Idle
    /\ \A q, r \in Paths : j.before[q] # None /\ Within(q, r) => j.before[r] = Dir
    /\ \A q \in Paths : Bears(q, j.id) => j.before[q] = None

(* What a copy gives the entry at q                                        *)
Due(j, q) ==
    IF \E s \in Taken(j) : Moved(s, j.src, j.dst) = q
    THEN j.before[CHOOSE s \in Taken(j) : Moved(s, j.src, j.dst) = q]
    ELSE IF Within(j.dst, q) THEN Dir ELSE j.before[q]

(* Still to be copied: s is at or below an entry that is waited for.        *)
Pending(j, s) ==
    \/ j.pc # "next" /\ Under(s, j.from)
    \/ \E i \in 1..Len(j.todo) : Under(s, j.todo[i].from)

(* The paths at which the copy of a file is under way                      *)
Aside(t) ==
    (IF job[t].pc \in {"data", "backup", "commit", "swap", "undo"} THEN {TempPath(t)} ELSE {})
    \cup (IF job[t].pc \in {"swap", "undo", "unback"} THEN {BackupPath(t)} ELSE {})
    \cup (IF job[t].pc \in {"swap", "undo"} THEN {job[t].to} ELSE {})

OldOrNewEntries(t) == LET j == job[t] IN
    \A q \in Paths \ Aside(t) : tree[q] \in {j.before[q], Due(j, q)}

CopiedOrPending(t) == LET j == job[t] IN
    \A s \in Taken(j) :
        Pending(j, s) \/ (Moved(s, j.src, j.dst) \in Paths /\ tree[Moved(s, j.src, j.dst)] = j.before[s])

ItemsTaken(j) ==
    /\ j.from \in Taken(j)
    /\ \A i \in 1..Len(j.todo) : j.todo[i].from \in Taken(j)
                                  /\ (j.todo[i].dir <=> j.before[j.todo[i].from] = Dir)

DirPcs  == {"dir", "mkdir", "list"}
FilePcs == {"file", "open", "temp", "data", "backup", "commit", "swap", "undo", "unback"}
WorkPcs == DirPcs \cup FilePcs \cup {"next"}

AtPlace(t) == LET j == job[t] IN
    /\ j.pc \in DirPcs => j.before[j.from] = Dir
    /\ j.pc = "list" => tree[j.to] = Dir
    /\ j.pc \in FilePcs => IsFile(j.before[j.from])
    /\ j.pc \in {"open", "temp", "data", "backup", "commit"} => tree[j.to] # Dir
    /\ j.pc \in FilePcs \ {"file", "open"} => j.data = j.before[j.from]
    /\ j.pc = "data" => tree[TempPath(t)] = Copying[j.id]
    /\ j.pc \in {"backup", "commit", "swap", "undo"} => tree[TempPath(t)] = j.data
    /\ j.pc \in {"swap", "undo"} => /\ tree[j.to] = None /\ IsFile(tree[BackupPath(t)])
                                    /\ tree[BackupPath(t)] \in {j.before[j.to], Due(j, j.to)}
    /\ j.pc = "undo" => faults >= 1
    /\ j.pc = "unback" => tree[j.to] = j.data

SeparatePaths(j) == j.src # j.dst /\ ~Within(j.dst, j.src) /\ ~Within(j.src, j.dst)

CopyingOK(t) == LET j == job[t] IN
    /\ FirstStep(j) = "copy" /\ SeparatePaths(j) /\ j.before[j.src] # None
    /\ ItemsTaken(j) /\ OldOrNewEntries(t) /\ CopiedOrPending(t) /\ AtPlace(t)

DeletingOK(t) == LET j == job[t] IN
    /\ SeparatePaths(j) /\ j.op = "move"
    /\ \A q \in Paths : IF Under(q, j.src) THEN tree[q] \in {j.before[q], None} /\ After(j)[q] = None
                        ELSE tree[q] = After(j)[q]

FilesKept(t) == LET j == job[t] IN
    faults <= 1 => \A q \in Visible : IsFile(j.before[q]) => tree[q] \in {j.before[q], After(j)[q]}

ExactOK(t) == LET j == job[t] IN
    /\ j.pc = "rename" => FirstStep(j) = "rename" /\ tree = j.before
    /\ j.pc = "copy" => /\ FirstStep(j) = "copy" /\ tree = j.before
                        /\ j.from = j.src /\ j.to = j.dst /\ j.todo = <<>>
    /\ j.pc \in WorkPcs /\ ~Within(j.src, j.dst) => CopyingOK(t)
    /\ j.pc = "drop" /\ ~Within(j.src, j.dst) => FilesKept(t)
    /\ j.op = "move" /\ j.pc \in {"delete", "deltree", "clear"} /\ ~Within(j.src, j.dst) => DeletingOK(t)
    /\ j.pc = "done" /\ j.op \in {"copy", "move", "rename"} /\ ~Within(j.src, j.dst) =>
          IF j.ok THEN j.src = j.dst \/ tree = After(j) ELSE FilesKept(t)

(* What is not to be overwritten is there when the source is below it, so   *)
(* that nothing is done.                                                   *)
AboveOK(t) == LET j == job[t] IN
    j.op \in {"copy", "move", "rename"} /\ Within(j.src, j.dst) /\ ~MergesAbove(j) =>
        /\ tree = j.before /\ j.pc \in {"copy", "dir", "file", "rename", "done"}
        /\ j.pc \in {"copy", "dir", "file"} => j.to = j.dst
        /\ j.pc \in {"dir", "file"} => tree[j.dst] = Dir
        /\ j.pc = "done" => ~j.ok

CopyInv ==
    /\ faults \in Nat /\ Fresh
    /\ \A t \in Threads : Alone(t) => AloneOK(t) /\ ExactOK(t) /\ AboveOK(t)
-----------------------------------------------------------------------------
(* Names of operations in paths *)

LEMMA GivenBears ==
    ASSUME NEW q \in Walkways, ~Own(q), NEW n \in Ids
    PROVE  ~Bears(q, n)
BY OwnNamesFacts DEF Bears, Own

(* A name of another operation beside a given entry                        *)
LEMMA BesideBears ==
    ASSUME NEW q \in Given, NEW m \in Ids, NEW n \in Ids, m # n, NEW o \in {Copying[m], Replaced[m]}
    PROVE  ~Bears(Append(Parent(q), o), n)
<1> DEFINE p == Parent(q)
           s == Append(p, o)
<1>1. q \in Walkways /\ q # <<>> /\ ~Own(q) /\ o \in AllNames
  BY PathsAreWalkways, OwnNamesFacts DEF Given
<1>2. p \in Walkways /\ ~Own(p)
  BY <1>1, ParentFacts, OwnFacts, UnderOrder
<1>3. Len(s) = Len(p) + 1 /\ s[Len(p) + 1] = o /\ \A i \in 1..Len(p) : s[i] = p[i]
  BY <1>1, <1>2, AppendProperties DEF Walkways
<1>4. Len(p) \in Nat
  BY <1>2, LenProperties DEF Walkways
<1>5. ~Bears(p, n)
  BY <1>2, GivenBears
<1>6. o \notin {Copying[n], Replaced[n]}
  BY OwnNamesFacts
<1> HIDE DEF s, p
<1>7. \A i \in 1..Len(s) : s[i] \notin {Copying[n], Replaced[n]}
  BY <1>3, <1>4, <1>5, <1>6 DEF Bears
<1> QED
  BY <1>7 DEF Bears, s, p

(* A name that is in a path that was moved, and not in the place it was     *)
(* moved to, was there before.                                             *)
LEMMA MovedBears ==
    ASSUME NEW q \in Walkways, NEW src \in Walkways, NEW dst \in Walkways, NEW n \in Ids,
           Under(q, src), Bears(Moved(q, src, dst), n), ~Bears(dst, n)
    PROVE  Bears(q, n)
<1> DEFINE m == Moved(q, src, dst)
<1>1. /\ m \in Walkways /\ Len(m) = Len(dst) + Len(q) - Len(src)
      /\ \A i \in 1..Len(dst) : m[i] = dst[i]
      /\ \A i \in (Len(src) + 1)..Len(q) : m[i + Len(dst) - Len(src)] = q[i]
  BY MovedPlaced DEF IsPlaced
<1>2. PICK i \in 1..Len(m) : m[i] \in {Copying[n], Replaced[n]}
  BY DEF Bears
<1> HIDE DEF m
<1>3. Len(src) <= Len(q) /\ Len(q) \in Nat /\ Len(src) \in Nat /\ Len(dst) \in Nat
  BY UnderDef
<1>4. ~(i <= Len(dst))
  <2> SUFFICES ASSUME i <= Len(dst)
               PROVE  FALSE
    OBVIOUS
  <2>1. i \in Nat /\ i >= 1
    BY <1>1, <1>2, <1>3
  <2>2. i \in 1..Len(dst)
    BY <2>1, <1>3
  <2>3. dst[i] \in {Copying[n], Replaced[n]}
    BY <1>1, <1>2, <2>2
  <2> QED
    BY <2>2, <2>3 DEF Bears
<1>5. /\ i + Len(src) - Len(dst) \in (Len(src) + 1)..Len(q)
      /\ i + Len(src) - Len(dst) \in 1..Len(q)
      /\ (i + Len(src) - Len(dst)) + Len(dst) - Len(src) = i
  BY <1>1, <1>2, <1>3, <1>4
<1>6. m[i] = q[i + Len(src) - Len(dst)]
  BY <1>1, <1>5
<1> QED
  BY <1>2, <1>5, <1>6 DEF Bears

(* What an operation that has not begun would have made is not there.       *)
LEMMA FreshStep ==
    ASSUME TreeInv, Fresh, NEW t \in Threads, OpStep(t)
    PROVE  Fresh'
<1> SUFFICES ASSUME NEW n \in Ids, NEW q \in Paths, n > calls, Bears(q, n)
             PROVE  tree'[q] = None
  BY DEF Fresh, OpStep, Bears
<1>1. tree[q] = None /\ q \in Walkways
  BY PathsAreWalkways DEF Fresh
<1>2. OpJob(job[t]) /\ job[t].id \in 1..calls /\ calls \in Nat
  BY NamesAssumption DEF OpStep, Goes, TreeInv, IdsOK, OpJob, OpPcs, CopyPcs, Idle
<1>3. job[t].id \in Ids /\ job[t].id # n
  BY <1>2 DEF OpJob
<1>4. ~Own(job[t].to) /\ job[t].to \in Walkways /\ job[t].to \in Given
      /\ ~Own(job[t].dst) /\ job[t].dst \in Walkways /\ ~Own(job[t].src) /\ job[t].src \in Walkways
  BY <1>2, PathsAreWalkways DEF OpJob, Given
<1>5. Own(q)
  BY <1>1, GivenBears
<1>6. ~Under(job[t].to, q) /\ ~Under(job[t].dst, q)
  BY <1>1, <1>4, <1>5, OwnFacts
<1>7. ~Bears(TempPath(t), n) /\ ~Bears(BackupPath(t), n)
  BY <1>3, <1>4, BesideBears DEF TempPath, BackupPath
<1>8. q # TempPath(t)
  BY <1>7
<1>9. ASSUME NEW p \in Given
      PROVE  Under(Parent(p), q) => Under(p, q)
  <2>1. p \in Walkways /\ p # <<>>
    BY PathsAreWalkways
  <2> QED
    BY <1>1, <2>1, ParentFacts, UnderTransitive, UnderOrder
<1>10. CASE MakesDirs(t)
  BY <1>1, <1>6, <1>10 DEF MakesDirs, MkdirAll
<1>11. CASE MakesTemp(t)
  BY <1>1, <1>4, <1>6, <1>8, <1>9, <1>11 DEF MakesTemp, MkdirAll
<1>12. CASE Completes(t)
  <2>1. None # Partial(job[t].id)
    BY <1>3, Names4 DEF Partial
  <2> QED
    BY <1>1, <1>12, <2>1 DEF Completes
<1>13. CASE MakesFile(t)
  <2>1. job[t].dst \in Given /\ q # job[t].dst
    BY <1>2, <1>4, <1>5 DEF OpJob
  <2> QED
    BY <1>1, <1>6, <1>9, <1>13, <2>1 DEF MakesFile, MkdirAll
<1>14. CASE Removes(t)
  BY <1>1, <1>14 DEF Removes, RemoveEntry, TreeInv, TreeType
<1>15. CASE MakesDir(t)
  BY <1>1, <1>4, <1>5, <1>15 DEF MakesDir, TreeInv, TreeType
<1>16. CASE RenamesEntry(t)
  <2> DEFINE f == RenameFrom(t)
             g == RenameTo(t)
  <2>1. job[t].pc \in Renames
    BY <1>16, NamesAssumption DEF RenamesEntry, TreeInv, RenameHeld
  <2>2. f \in Walkways /\ g \in Walkways
    BY <1>2, <2>1, RenamePaths
  <2>3. ~Bears(g, n)
    BY <1>4, <1>7, <2>1, GivenBears DEF RenameTo, Renames
  <2>4. tree'[q] = IF Under(q, g) THEN IF Moved(q, g, f) \in Paths THEN tree[Moved(q, g, f)] ELSE None
                   ELSE IF Under(q, f) THEN None ELSE tree[q]
    BY <1>16 DEF RenamesEntry, RenameEntry
  <2>5. ASSUME Under(q, g), Moved(q, g, f) \in Paths
        PROVE  tree[Moved(q, g, f)] = None
    <3>1. Moved(Moved(q, g, f), f, g) = q /\ Under(Moved(q, g, f), f) /\ Moved(q, g, f) \in Walkways
      BY <1>1, <2>2, <2>5, MovedBack, MovedUnder, MovedDef
    <3>2. Bears(Moved(q, g, f), n)
      BY <2>2, <2>3, <3>1, MovedBears
    <3> QED
      BY <2>5, <3>2 DEF Fresh
  <2> QED
    BY <1>1, <2>4, <2>5
<1> QED
  BY <1>1, <1>10, <1>11, <1>12, <1>13, <1>14, <1>15, <1>16 DEF OpStep, ChangesAlone
-----------------------------------------------------------------------------
(* What a step leaves of the work of a copy *)

SameStart(k, j) == k.alone = j.alone /\ k.before = j.before
SameList(k, j)  == k.todo = j.todo /\ k.data = j.data

LEMMA GotoPc ==
    ASSUME JobsOK, NEW t \in Threads, OpJob(job[t]), NEW p, Goto(t, [pc |-> p])
    PROVE  /\ job'[t].pc = p /\ SamePlace(job'[t], job[t]) /\ Keeps(job'[t], job[t])
           /\ SameStart(job'[t], job[t]) /\ SameList(job'[t], job[t])
<1>1. job'[t] = With([pc |-> p], job[t])
  BY GotoJobs
<1> QED
  BY <1>1 DEF With, OpJob, OpFields, SamePlace, Keeps, SameStart, SameList

LEMMA GotoEnd ==
    ASSUME JobsOK, NEW t \in Threads, OpJob(job[t]), NEW ok, End(t, ok)
    PROVE  /\ job'[t].pc = "done" /\ job'[t].ok = ok /\ Keeps(job'[t], job[t])
           /\ SameStart(job'[t], job[t])
<1>1. job'[t] = With([pc |-> "done", ok |-> ok], job[t])
  BY GotoJobs DEF End
<1> QED
  BY <1>1 DEF With, OpJob, OpFields, Keeps, SameStart

LEMMA CopyListStart ==
    ASSUME JobsOK, NEW t \in Threads, OpJob(job[t]), NEW todo, Goto(t, [pc |-> "next", todo |-> todo])
    PROVE  /\ job'[t].pc = "next" /\ job'[t].todo = todo /\ SamePlace(job'[t], job[t])
           /\ Keeps(job'[t], job[t]) /\ SameStart(job'[t], job[t])
<1>1. job'[t] = With([pc |-> "next", todo |-> todo], job[t])
  BY GotoJobs
<1> QED
  BY <1>1 DEF With, OpJob, OpFields, SamePlace, Keeps, SameStart

LEMMA CopyNextStart ==
    ASSUME JobsOK, NEW t \in Threads, OpJob(job[t]), NEW p, NEW f, NEW g, NEW todo,
           Goto(t, [pc |-> p, from |-> f, to |-> g, todo |-> todo])
    PROVE  /\ job'[t].pc = p /\ job'[t].from = f /\ job'[t].to = g /\ job'[t].todo = todo
           /\ Keeps(job'[t], job[t]) /\ SameStart(job'[t], job[t])
<1>1. job'[t] = With([pc |-> p, from |-> f, to |-> g, todo |-> todo], job[t])
  BY GotoJobs
<1> QED
  BY <1>1 DEF With, OpJob, OpFields, Keeps, SameStart

LEMMA CopyFileStart ==
    ASSUME JobsOK, NEW t \in Threads, OpJob(job[t]), NEW h, Goto(t, [pc |-> "open", had |-> h])
    PROVE  /\ job'[t].pc = "open" /\ SamePlace(job'[t], job[t]) /\ Keeps(job'[t], job[t])
           /\ SameStart(job'[t], job[t]) /\ SameList(job'[t], job[t])
<1>1. job'[t] = With([pc |-> "open", had |-> h], job[t])
  BY GotoJobs
<1> QED
  BY <1>1 DEF With, OpJob, OpFields, SamePlace, Keeps, SameStart, SameList

LEMMA CopyOpenStart ==
    ASSUME JobsOK, NEW t \in Threads, OpJob(job[t]), NEW x, Goto(t, [pc |-> "temp", data |-> x])
    PROVE  /\ job'[t].pc = "temp" /\ job'[t].data = x /\ job'[t].todo = job[t].todo
           /\ SamePlace(job'[t], job[t]) /\ Keeps(job'[t], job[t]) /\ SameStart(job'[t], job[t])
<1>1. job'[t] = With([pc |-> "temp", data |-> x], job[t])
  BY GotoJobs
<1> QED
  BY <1>1 DEF With, OpJob, OpFields, SamePlace, Keeps, SameStart

(* A step of an operation keeps what it began with.                        *)
OpAction(t) ==
    \/ CopyEntry(t) \/ CopyDirectory(t) \/ CopyMkdir(t) \/ CopyList(t) \/ CopyNext(t)
    \/ CopyFile(t) \/ CopyOpen(t) \/ CopyTemp(t) \/ CopyData(t)
    \/ RenameCheck(t) \/ RenameDo(t) \/ CopyDrop(t) \/ CopyUnback(t)
    \/ DeleteFile(t) \/ DeleteDirectoryTree(t) \/ RemoveAll(t)
    \/ CreateEmptyFile(t) \/ CloseEmptyFile(t) \/ CreateDirectory(t) \/ Mkdir(t)

LEMMA StartKept ==
    ASSUME TreeInv, NEW t \in Threads, OpAction(t), OpJob(job[t])
    PROVE  UNCHANGED job \/ SameStart(job'[t], job[t])
<1> USE DEF TreeInv
<1>1. ASSUME (\E p : Goto(t, [pc |-> p])) \/ (\E ok : End(t, ok))
      PROVE  SameStart(job'[t], job[t])
  BY <1>1, GotoPc, GotoEnd
<1>2. CASE CopyEntry(t) \/ CopyDirectory(t) \/ CopyMkdir(t) \/ CopyTemp(t) \/ CopyData(t)
  BY <1>1, <1>2 DEF CopyEntry, CopyDirectory, CopyMkdir, CopyTemp, CopyData, Fails
<1>3. CASE CopyDrop(t) \/ CopyUnback(t) \/ DeleteFile(t) \/ DeleteDirectoryTree(t) \/ RemoveAll(t)
  BY <1>1, <1>3 DEF CopyDrop, CopyUnback, DeleteFile, DeleteDirectoryTree, RemoveAll, Fails
<1>4. CASE CreateEmptyFile(t) \/ CloseEmptyFile(t) \/ CreateDirectory(t) \/ Mkdir(t)
  BY <1>1, <1>4 DEF CreateEmptyFile, CloseEmptyFile, CreateDirectory, Mkdir, Fails
<1>5. CASE RenameCheck(t) \/ RenameDo(t)
  <2>1. UNCHANGED job \/ \E ok : AfterRename(t, ok)
    BY <1>5 DEF RenameCheck, RenameDo
  <2>2. ASSUME NEW ok, AfterRename(t, ok)
        PROVE  (\E p : Goto(t, [pc |-> p])) \/ (\E b : End(t, b))
    BY <2>2 DEF AfterRename
  <2> QED
    BY <2>1, <2>2, <1>1
<1>6. CASE CopyList(t)
  BY <1>1, <1>6, CopyListStart DEF CopyList
<1>7. CASE CopyNext(t)
  <2>1. CASE job[t].todo = <<>>
    BY <1>1, <1>7, <2>1 DEF CopyNext
  <2>2. CASE job[t].todo # <<>>
    <3>1. \E p, f, g, todo : Goto(t, [pc |-> p, from |-> f, to |-> g, todo |-> todo])
      BY <1>7, <2>2 DEF CopyNext
    <3> QED
      BY <3>1, CopyNextStart
  <2> QED
    BY <2>1, <2>2
<1>8. CASE CopyFile(t)
  BY <1>1, <1>8, CopyFileStart DEF CopyFile
<1>9. CASE CopyOpen(t)
  BY <1>1, <1>9, CopyOpenStart DEF CopyOpen
<1> QED
  BY <1>2, <1>3, <1>4, <1>5, <1>6, <1>7, <1>8, <1>9 DEF OpAction
-----------------------------------------------------------------------------
(* Operations alone *)

AllAloneOK == \A t \in Threads : Alone(t) => AloneOK(t)

LEMMA ActionKinds ==
    ASSUME TreeInv, NEW t \in Threads, OpAction(t)
    PROVE  OpJob(job[t]) /\ (TakesLock(t) \/ (OpStep(t) /\ (UNCHANGED job \/ SameStart(job'[t], job[t]))))
<1>1. OpStep(t) \/ TakesLock(t)
  <2>1. CASE RenameCheck(t) \/ RenameDo(t)
    BY <2>1, RenameStep DEF TakesLock
  <2>2. CASE ~(RenameCheck(t) \/ RenameDo(t))
    BY <2>2, CopyStep, OtherStep, MkdirStep DEF OpAction
  <2> QED
    BY <2>1, <2>2
<1>2. OpJob(job[t])
  <2>1. CASE OpStep(t)
    BY <2>1 DEF OpStep, Goes
  <2>2. CASE TakesLock(t)
    BY <2>2, AtOp DEF TreeInv, TakesLock, Renames, OpPcs, CopyPcs
  <2> QED
    BY <1>1, <2>1, <2>2
<1> QED
  BY <1>1, <1>2, StartKept

(* Whoever takes a step, no other thread is alone.                         *)
LEMMA NotAlone ==
    ASSUME JobsOK, NEW t \in Threads, OthersKeep(t), NEW u \in Threads, u # t
    PROVE  ~Alone(u)' /\ (job[u] = Idle => job'[u] = Idle)
<1>1. job'[u] = Disturbed(job[u]) /\ JobOK(job[u])
  BY DEF OthersKeep, JobsOK
<1>2. CASE job[u] = Idle
  <2>1. job'[u] = Idle
    BY <1>1, <1>2 DEF Disturbed, Idle
  <2> QED
    BY <2>1 DEF Alone, OpJob, OpPcs, CopyPcs, Idle
<1>3. CASE job[u] # Idle
  <2>1. job[u].pc # "idle" /\ "alone" \in DOMAIN job[u]
    BY <1>1, <1>3 DEF JobOK, OpJob, WalkJob, OpPcs, CopyPcs, WalkPcs, OpFields, WalkFields
  <2>2. job'[u] = [job[u] EXCEPT !.alone = FALSE, !.before = <<>>]
    BY <1>1, <2>1 DEF Disturbed
  <2>3. job'[u].alone = FALSE
    BY <2>1, <2>2
  <2> QED
    BY <1>3, <2>3 DEF Alone
<1> QED
  BY <1>2, <1>3

(* The start of an operation                                               *)
LEMMA BeginAlone ==
    ASSUME TreeInv, Fresh, NEW t \in Threads, NEW r \in Requests, Begin(t, r), Alone(t)'
    PROVE  AloneOK(t)'
<1>1. calls \in Nat
  BY NamesAssumption DEF TreeInv, IdsOK
<1>2. /\ OthersKeep(t) /\ job'[t].id = calls + 1 /\ OpJob(job'[t])
      /\ job'[t].alone = (\A u \in Threads : job[u].pc = "idle")
      /\ job'[t].alone => job'[t].before = tree
  BY <1>1, BeginJob DEF TreeInv
<1>3. (\A u \in Threads : job[u].pc = "idle") /\ job'[t].before = tree
  BY <1>2 DEF Alone
<1>4. \A u \in Threads : job[u] = Idle
  BY <1>3, IdleOrAtWork DEF TreeInv, JobsOK
<1>5. \A u \in Threads \ {t} : job'[u] = Idle
  BY <1>2, <1>4, NotAlone DEF TreeInv
<1>6. job'[t].id \in Ids /\ job'[t].id > calls
  BY <1>1, <1>2 DEF OpJob
<1>7. \A q \in Paths : Bears(q, job'[t].id) => tree[q] = None
  BY <1>6 DEF Fresh
<1>8. \A q, r2 \in Paths : tree[q] # None /\ Within(q, r2) => tree[r2] = Dir
  BY DEF TreeInv, Rooted
<1> QED
  BY <1>3, <1>5, <1>7, <1>8 DEF AloneOK, Bears

LEMMA AloneNext ==
    ASSUME TreeInv, Fresh, AllAloneOK, [WalkerNext]_allVars
    PROVE  Fresh' /\ AllAloneOK'
<1> USE DEF TreeInv
<1>1. CASE UNCHANGED allVars
  BY <1>1 DEF allVars, vars, Fresh, Bears, AllAloneOK, Alone, AloneOK
<1>2. CASE Crashes
  <2>1. Fresh'
    BY <1>2 DEF Crashes, Fresh, Bears
  <2>2. \A u \in Threads : ~Alone(u)'
    BY <1>2 DEF Crashes, Alone, OpJob, OpPcs, CopyPcs, Idle
  <2> QED
    BY <2>1, <2>2 DEF AllAloneOK
<1>3. ASSUME NEW t \in Threads, OpAction(t)
      PROVE  Fresh' /\ AllAloneOK'
  <2>1. CASE TakesLock(t)
    BY <2>1 DEF TakesLock, Fresh, Bears, AllAloneOK, Alone, AloneOK
  <2>2. CASE OpStep(t) /\ (UNCHANGED job \/ SameStart(job'[t], job[t]))
    <3>1. Fresh'
      BY <2>2, FreshStep
    <3>2. OthersKeep(t) /\ OpJob(job[t]) /\ job'[t].id = job[t].id /\ SameStart(job'[t], job[t])
      BY <2>2 DEF OpStep, Goes, Keeps, SameStart
    <3>3. ASSUME NEW u \in Threads, Alone(u)'
          PROVE  AloneOK(u)'
      <4>1. u = t
        BY <3>2, <3>3, NotAlone
      <4>2. AloneOK(t)
        BY <3>2, <3>3, <4>1 DEF AllAloneOK, Alone, SameStart
      <4>3. \A v \in Threads \ {t} : job'[v] = Idle
        BY <3>2, <4>2, NotAlone DEF AloneOK
      <4> QED
        BY <3>2, <4>1, <4>2, <4>3 DEF AloneOK, SameStart, Bears
    <3> QED
      BY <3>1, <3>3 DEF AllAloneOK
  <2> QED
    BY <1>3, <2>1, <2>2, ActionKinds
<1>4. ASSUME NEW t \in Threads, NEW r \in Requests, Begin(t, r)
      PROVE  Fresh' /\ AllAloneOK'
  <2>0. calls \in Nat
    BY NamesAssumption DEF IdsOK
  <2>1. OthersKeep(t) /\ calls' = calls + 1 /\ tree' = tree
    BY <1>4, <2>0, BeginJob DEF Begin
  <2>2. Fresh'
    BY <2>0, <2>1 DEF Fresh, Bears, Ids
  <2>3. \A u \in Threads : Alone(u)' => u = t
    BY <2>1, NotAlone
  <2> QED
    BY <1>4, <2>2, <2>3, BeginAlone DEF AllAloneOK
<1>5. ASSUME NEW t \in Threads, Answer(t)
      PROVE  Fresh' /\ AllAloneOK'
  <2>1. job'[t] = Idle /\ \A u \in Threads \ {t} : job'[u] = job[u]
    BY <1>5, AnswerJob
  <2>2. Fresh'
    BY <1>5 DEF Answer, Fresh, Bears
  <2>3. ASSUME NEW u \in Threads, Alone(u)'
        PROVE  AloneOK(u)'
    <3>1. u # t
      BY <2>1, <2>3 DEF Alone, OpJob, OpPcs, CopyPcs, Idle
    <3>2. job'[u] = job[u] /\ AloneOK(u)
      BY <2>1, <2>3, <3>1 DEF AllAloneOK, Alone
    <3> QED
      BY <2>1, <3>2 DEF AloneOK, Bears
  <2> QED
    BY <2>2, <2>3 DEF AllAloneOK
<1>6. ASSUME NEW t \in Threads, WalkStep(t)
      PROVE  Fresh' /\ AllAloneOK'
  <2>0. calls \in Nat
    BY NamesAssumption DEF IdsOK
  <2>1. OthersKeep(t) /\ WalkJob(job'[t]) /\ tree' = tree /\ calls' \in {calls, calls + 1}
    BY <1>6, <2>0, WalkStepJob DEF WalkGoes
  <2>2. Fresh'
    BY <2>0, <2>1 DEF Fresh, Bears, Ids
  <2>3. \A u \in Threads : ~Alone(u)'
    BY <2>1, NotAlone DEF Alone, OpJob, WalkJob, Ops
  <2> QED
    BY <2>2, <2>3 DEF AllAloneOK
<1> QED
  BY <1>1, <1>2, <1>3, <1>4, <1>5, <1>6, StepOfThread DEF Step, OpAction
-----------------------------------------------------------------------------
(* What a copy takes along, and what it gives each entry                    *)

LEMMA JobPaths ==
    ASSUME NEW j, OpJob(j)
    PROVE  /\ j.src \in Walkways /\ j.dst \in Walkways /\ j.from \in Walkways /\ j.to \in Walkways
           /\ j.src \in Paths /\ j.dst \in Paths /\ j.from \in Paths /\ j.to \in Paths
           /\ ~Own(j.src) /\ ~Own(j.dst) /\ ~Own(j.from) /\ ~Own(j.to)
           /\ Under(j.from, j.src) /\ Under(j.to, j.dst) /\ j.to = Moved(j.from, j.src, j.dst)
<1>1. j.src \in Given /\ j.dst \in Given /\ j.from \in Given /\ j.to \in Given
      /\ Under(j.from, j.src) /\ j.to = Moved(j.from, j.src, j.dst)
  BY DEF OpJob
<1>2. j.src \in Walkways /\ j.dst \in Walkways /\ j.from \in Walkways /\ j.to \in Walkways
  BY <1>1, PathsAreWalkways
<1>3. Under(j.to, j.dst)
  BY <1>1, <1>2, MovedUnder
<1> QED
  BY <1>1, <1>2, <1>3 DEF Given

(* Source and target have nothing in common.                               *)
LEMMA PathsApart ==
    ASSUME NEW j, OpJob(j), SeparatePaths(j), NEW q \in Walkways, Under(q, j.src)
    PROVE  ~Under(q, j.dst) /\ ~Within(j.dst, q)
<1>1. j.src \in Walkways /\ j.dst \in Walkways
  BY JobPaths
<1>2. ~Under(j.src, j.dst) /\ ~Under(j.dst, j.src)
  BY <1>1, UnderOrder DEF SeparatePaths
<1> QED
  BY <1>1, <1>2, UnderTransitive, UnderOrder

LEMMA TakenFacts ==
    ASSUME NEW j, OpJob(j), NEW s \in Taken(j)
    PROVE  /\ s \in Paths /\ s \in Walkways /\ Under(s, j.src) /\ j.before[s] # None
           /\ Moved(s, j.src, j.dst) \in Walkways /\ Under(Moved(s, j.src, j.dst), j.dst)
           /\ Moved(Moved(s, j.src, j.dst), j.dst, j.src) = s
           /\ FirstStep(j) = "copy" => ~Own(s) /\ ~Own(Moved(s, j.src, j.dst))
<1>1. s \in Paths /\ s \in Walkways /\ Under(s, j.src) /\ j.before[s] # None
  BY PathsAreWalkways DEF Taken
<1>2. /\ Moved(s, j.src, j.dst) \in Walkways /\ Under(Moved(s, j.src, j.dst), j.dst)
      /\ Moved(Moved(s, j.src, j.dst), j.dst, j.src) = s
  <2>1. j.src \in Walkways /\ j.dst \in Walkways
    BY JobPaths
  <2>2. Moved(s, j.src, j.dst) \in Walkways
    BY <1>1, <2>1, MovedDef
  <2>3. Under(Moved(s, j.src, j.dst), j.dst)
    BY <1>1, <2>1, MovedUnder
  <2>4. Moved(Moved(s, j.src, j.dst), j.dst, j.src) = s
    BY <1>1, <2>1, MovedBack
  <2> QED
    BY <2>2, <2>3, <2>4
<1>3. ASSUME FirstStep(j) = "copy"
      PROVE  ~Own(s)
  <2>1. s = j.src \/ Within(s, j.src)
    BY <1>1, JobPaths, UnderOrder
  <2>2. Within(s, j.src) => s \in Visible
    BY <1>1, <1>3, UnderOrder DEF Taken
  <2> QED
    BY <2>1, <2>2, JobPaths DEF Visible
<1> QED
  BY <1>1, <1>2, <1>3, JobPaths, OwnMoved

LEMMA DueMoved ==
    ASSUME NEW j, OpJob(j), NEW s \in Taken(j)
    PROVE  Due(j, Moved(s, j.src, j.dst)) = j.before[s]
<1> DEFINE q == Moved(s, j.src, j.dst)
           c == CHOOSE r \in Taken(j) : Moved(r, j.src, j.dst) = q
<1>1. c \in Taken(j) /\ Moved(c, j.src, j.dst) = q
  OBVIOUS
<1>2. c = s
  BY <1>1, TakenFacts
<1> QED
  BY <1>2 DEF Due

LEMMA DueElse ==
    ASSUME NEW j, OpJob(j), NEW q, ~(\E s \in Taken(j) : Moved(s, j.src, j.dst) = q)
    PROVE  Due(j, q) = IF Within(j.dst, q) THEN Dir ELSE j.before[q]
BY DEF Due

(* The source, and what operations have of their own, is not the target of  *)
(* anything.                                                               *)
LEMMA DueUnder ==
    ASSUME NEW j, OpJob(j), SeparatePaths(j), NEW q \in Paths, Under(q, j.src)
    PROVE  Due(j, q) = j.before[q]
<1>1. q \in Walkways /\ ~Under(q, j.dst) /\ ~Within(j.dst, q)
  BY PathsApart, PathsAreWalkways
<1>2. ~(\E s \in Taken(j) : Moved(s, j.src, j.dst) = q)
  BY <1>1, TakenFacts
<1> QED
  BY <1>1, <1>2, DueElse

LEMMA DueOwn ==
    ASSUME NEW j, OpJob(j), FirstStep(j) = "copy", NEW q \in Paths, Own(q)
    PROVE  Due(j, q) = j.before[q]
<1>1. q \in Walkways /\ ~Within(j.dst, q)
  BY JobPaths, OwnFacts, UnderOrder, PathsAreWalkways
<1>2. ~(\E s \in Taken(j) : Moved(s, j.src, j.dst) = q)
  BY TakenFacts
<1> QED
  BY <1>1, <1>2, DueElse

BeforeRooted(j) == \A q, r \in Paths : j.before[q] # None /\ Within(q, r) => j.before[r] = Dir

(* With an entry the directories above it are taken along.                 *)
LEMMA TakenAbove ==
    ASSUME NEW j, OpJob(j), BeforeRooted(j), NEW s \in Taken(j), NEW r \in Paths,
           Within(s, r), Under(r, j.src)
    PROVE  r \in Taken(j) /\ j.before[r] = Dir
<1>1. s \in Paths /\ s \in Walkways /\ j.before[s] # None /\ r \in Walkways
  BY TakenFacts, PathsAreWalkways
<1>2. j.before[r] = Dir
  BY <1>1 DEF BeforeRooted
<1>3. ASSUME FirstStep(j) = "copy", NEW p \in Paths, Under(r, p), Within(p, j.src)
      PROVE  p \in Visible
  <2>1. Under(s, p)
    BY <1>1, <1>3, UnderTransitive, UnderOrder, PathsAreWalkways
  <2> QED
    BY <1>3, <2>1 DEF Taken
<1> QED
  BY <1>2, <1>3, Names4 DEF Taken

(* Above the place of an entry that is taken there are to be directories.   *)
LEMMA DueAbove ==
    ASSUME NEW j, OpJob(j), BeforeRooted(j), NEW s \in Taken(j), NEW r \in Paths,
           Within(Moved(s, j.src, j.dst), r)
    PROVE  Due(j, r) = Dir
<1> DEFINE m == Moved(s, j.src, j.dst)
<1>1. s \in Walkways /\ r \in Walkways /\ r # <<>> /\ m \in Walkways /\ Under(m, j.dst)
      /\ Under(s, j.src) /\ Moved(m, j.dst, j.src) = s /\ s \in Paths
  BY TakenFacts, PathsAreWalkways
<1>2. j.src \in Walkways /\ j.dst \in Walkways /\ j.src # <<>>
  BY JobPaths, PathsAreWalkways
<1> HIDE DEF m
<1>3. CASE Under(r, j.dst)
  <2> DEFINE p == Moved(r, j.dst, j.src)
  <2>1. p \in Walkways /\ Under(p, j.src) /\ Moved(p, j.src, j.dst) = r
    <3>1. p \in Walkways
      BY <1>1, <1>2, <1>3, MovedDef
    <3>2. Under(p, j.src)
      BY <1>1, <1>2, <1>3, MovedUnder
    <3>3. Moved(p, j.src, j.dst) = r
      BY <1>1, <1>2, <1>3, MovedBack
    <3> QED
      BY <3>1, <3>2, <3>3
  <2>2. Within(s, p)
    BY <1>1, <1>2, <1>3, MovedOrder DEF m
  <2> HIDE DEF p
  <2>3. p # <<>>
    BY <1>2, <2>1, UnderDef, EmptySeq DEF Walkways
  <2>4. p \in Paths
    BY <1>1, <2>1, <2>2, <2>3, PathAbove, UnderOrder
  <2>5. p \in Taken(j) /\ j.before[p] = Dir
    BY <2>1, <2>2, <2>4, TakenAbove
  <2> QED
    BY <2>1, <2>5, DueMoved
<1>4. CASE ~Under(r, j.dst)
  <2>1. Within(j.dst, r)
    BY <1>1, <1>2, <1>4, UnderTransitive, UnderOrder DEF m
  <2>2. ~(\E p \in Taken(j) : Moved(p, j.src, j.dst) = r)
    BY <1>4, TakenFacts
  <2> QED
    BY <2>1, <2>2, DueElse
<1> QED
  BY <1>3, <1>4

(* What a move leaves, and a copy                                          *)
LEMMA AfterDue ==
    ASSUME NEW j, OpJob(j), SeparatePaths(j), NEW q \in Paths
    PROVE  /\ ~Under(q, j.src) \/ j.op = "copy" => After(j)[q] = Due(j, q)
           /\ Under(q, j.src) /\ j.op # "copy" => After(j)[q] = None
<1>1. q \in Walkways
  BY PathsAreWalkways
<1>2. CASE ~Under(q, j.src) \/ j.op = "copy"
  BY <1>2 DEF After, Due
<1>3. CASE Under(q, j.src) /\ j.op # "copy"
  <2>1. ~(\E s \in Taken(j) : Moved(s, j.src, j.dst) = q)
    BY <1>1, <1>3, PathsApart, TakenFacts
  <2> QED
    BY <1>3, <2>1 DEF After
<1> QED
  BY <1>2, <1>3

(* These depend on what was asked for and on the tree before.              *)
LEMMA SameDue ==
    ASSUME NEW j, NEW k, Keeps(k, j), SameStart(k, j)
    PROVE  /\ Taken(k) = Taken(j) /\ After(k) = After(j) /\ FirstStep(k) = FirstStep(j)
           /\ \A q : Due(k, q) = Due(j, q)
           /\ SeparatePaths(k) = SeparatePaths(j)
           /\ k.id = j.id /\ k.op = j.op /\ k.src = j.src /\ k.dst = j.dst /\ k.before = j.before
<1>1. /\ k.op = j.op /\ k.src = j.src /\ k.dst = j.dst /\ k.over = j.over /\ k.before = j.before
      /\ k.id = j.id
  BY DEF Keeps, SameStart
<1>2. FirstStep(k) = FirstStep(j)
  BY <1>1 DEF FirstStep
<1>3. Taken(k) = Taken(j)
  BY <1>1, <1>2 DEF Taken
<1>4. After(k) = After(j) /\ \A q : Due(k, q) = Due(j, q)
  BY <1>1, <1>3 DEF After, Due
<1> QED
  BY <1>1, <1>2, <1>3, <1>4 DEF SeparatePaths
-----------------------------------------------------------------------------
(* The tree under one operation that copies                                *)

(* What the steps of a copy start from                                     *)
Ready(t) ==
    /\ TreeInv /\ faults \in Nat /\ OpJob(job[t]) /\ AloneOK(t)

LEMMA ReadyFacts ==
    ASSUME NEW t \in Threads, Ready(t)
    PROVE  /\ JobsOK /\ OpJob(job[t]) /\ BeforeRooted(job[t]) /\ TreeType /\ Rooted /\ faults \in Nat
           /\ job[t].id \in Ids
           /\ \A q \in Paths : Bears(q, job[t].id) => job[t].before[q] = None
BY DEF Ready, TreeInv, AloneOK, BeforeRooted, OpJob

LEMMA OwnPaths ==
    ASSUME NEW t \in Threads, OpJob(job[t])
    PROVE  /\ TempPath(t) \in Paths /\ BackupPath(t) \in Paths /\ TempPath(t) # BackupPath(t)
           /\ Own(TempPath(t)) /\ Own(BackupPath(t))
           /\ Bears(TempPath(t), job[t].id) /\ Bears(BackupPath(t), job[t].id)
           /\ job[t].to # TempPath(t) /\ job[t].to # BackupPath(t)
           /\ ~Within(job[t].to, TempPath(t)) /\ ~Within(job[t].to, BackupPath(t))
<1>1. /\ TempPath(t) \in Paths /\ BackupPath(t) \in Paths
      /\ Own(TempPath(t)) /\ Own(BackupPath(t))
      /\ Last(TempPath(t)) = Copying[job[t].id] /\ Last(BackupPath(t)) = Replaced[job[t].id]
      /\ \A r \in Given : ~Under(r, TempPath(t)) /\ ~Under(r, BackupPath(t))
      /\ job[t].to \in Given
  BY OpPaths
<1>2. ASSUME NEW q \in Paths, Last(q) \in {Copying[job[t].id], Replaced[job[t].id]}
      PROVE  Bears(q, job[t].id)
  <2>1. q \in Walkways /\ q # <<>>
    BY PathsAreWalkways
  <2>2. Len(q) \in 1..Len(q)
    BY <2>1, EmptySeq, LenProperties DEF Walkways
  <2> QED
    BY <1>2, <2>2 DEF Bears, Last
<1>3. Copying[job[t].id] # Replaced[job[t].id]
  BY OwnNamesFacts DEF OpJob
<1>4. ~Own(job[t].to) /\ job[t].to \in Walkways
  BY JobPaths
<1> QED
  BY <1>1, <1>2, <1>3, <1>4, PathsAreWalkways, UnderOrder

LEMMA SamePaths ==
    ASSUME NEW t \in Threads, Keeps(job'[t], job[t]), SamePlace(job'[t], job[t])
    PROVE  TempPath(t)' = TempPath(t) /\ BackupPath(t)' = BackupPath(t)
BY DEF Keeps, SamePlace, TempPath, BackupPath

(* A path with a name of the operation holds nothing but what the copy of   *)
(* a file has put there.                                                   *)
LEMMA OwnEmpty ==
    ASSUME NEW t \in Threads, Ready(t), CopyingOK(t), NEW q \in Paths, Bears(q, job[t].id), q \notin Aside(t)
    PROVE  tree[q] = None
<1>1. Own(q)
  BY ReadyFacts, GivenBears, PathsAreWalkways
<1>2. Due(job[t], q) = job[t].before[q]
  BY <1>1, ReadyFacts, DueOwn DEF CopyingOK
<1>3. tree[q] \in {job[t].before[q], Due(job[t], q)}
  BY DEF CopyingOK, OldOrNewEntries
<1> QED
  BY <1>2, <1>3, ReadyFacts

(* The source stays as it was.                                             *)
LEMMA SourceStays ==
    ASSUME NEW t \in Threads, Ready(t), CopyingOK(t), NEW q \in Paths, Under(q, job[t].src), ~Own(q)
    PROVE  tree[q] = job[t].before[q]
<1>1. q \notin Aside(t)
  <2>1. q # job[t].to
    BY JobPaths, PathsApart, ReadyFacts, PathsAreWalkways DEF CopyingOK
  <2> QED
    BY <2>1, ReadyFacts, OwnPaths DEF Aside
<1>2. Due(job[t], q) = job[t].before[q]
  BY DueUnder, ReadyFacts DEF CopyingOK
<1> QED
  BY <1>1, <1>2 DEF CopyingOK, OldOrNewEntries

(* A file under a name, and nothing under another                          *)
LEMMA FileRename ==
    ASSUME Rooted, TreeType, NEW f \in Paths, NEW g \in Paths, f # g, IsFile(tree[f]), tree[g] = None,
           tree' = RenameEntry(tree, f, g)
    PROVE  \A q \in Paths : tree'[q] = IF q = g THEN tree[f] ELSE IF q = f THEN None ELSE tree[q]
<1> SUFFICES ASSUME NEW q \in Paths
             PROVE  tree'[q] = IF q = g THEN tree[f] ELSE IF q = f THEN None ELSE tree[q]
  OBVIOUS
<1>1. q \in Walkways /\ f \in Walkways /\ g \in Walkways
  BY PathsAreWalkways
<1>2. tree'[q] = IF Under(q, g) THEN IF Moved(q, g, f) \in Paths THEN tree[Moved(q, g, f)] ELSE None
                 ELSE IF Under(q, f) THEN None ELSE tree[q]
  BY DEF RenameEntry
<1>3. tree[f] # None /\ tree[f] # Dir /\ None # Dir
  BY Names4 DEF IsFile
<1>4. \A r \in Paths : Within(r, f) \/ Within(r, g) => tree[r] = None
  BY <1>3 DEF Rooted
<1>5. CASE q = g
  BY <1>1, <1>2, <1>5, MovedUnder, UnderOrder
<1>6. CASE Within(q, g)
  <2>1. Within(Moved(q, g, f), f) /\ Under(q, g) /\ q # g
    BY <1>1, <1>6, MovedUnder, UnderOrder
  <2>2. tree'[q] = None
    BY <1>2, <1>4, <2>1
  <2> QED
    BY <1>3, <1>4, <1>6, <2>1, <2>2
<1>7. CASE ~Under(q, g)
  BY <1>1, <1>2, <1>4, <1>7, UnderOrder
<1> QED
  BY <1>1, <1>5, <1>6, <1>7, UnderOrder

LEMMA FileMayRename ==
    ASSUME Rooted, NEW f \in Paths, NEW g \in Paths, IsFile(tree[f]), tree[g] = None,
           ~Within(g, f), \A r \in Walkways : Within(f, r) <=> Within(g, r)
    PROVE  CanRename(tree, f, g)
<1>1. f \in Walkways /\ g \in Walkways
  BY PathsAreWalkways
<1>2. tree[f] # None /\ tree[f] # Dir /\ None # Dir
  BY Names4 DEF IsFile
<1>3. ParentIsDir(tree, g)
  BY <1>2, PathsAreWalkways DEF ParentIsDir, Rooted
<1>4. ASSUME NEW r \in Paths, Under(r, f), tree[r] # None
      PROVE  Moved(r, f, g) \in Paths
  <2>1. r \in Walkways
    BY PathsAreWalkways
  <2>2. ~Within(r, f)
    BY <1>2, <1>4 DEF Rooted
  <2>3. r = f
    BY <1>1, <1>4, <2>1, <2>2, UnderOrder
  <2> QED
    BY <1>1, <1>4, <2>3, MovedUnder
<1> QED
  BY <1>2, <1>3, <1>4 DEF CanRename, IsFile

(* Once a copy has failed nothing that can be seen has another content      *)
(* than before or than it was to have.                                     *)
LEMMA FilesKeptFrom ==
    ASSUME NEW t \in Threads, OpJob(job[t]), SeparatePaths(job[t]), FirstStep(job[t]) = "copy",
           OpJob(job'[t]), Keeps(job'[t], job[t]), SameStart(job'[t], job[t]),
           faults' <= 1 => \A q \in Visible : \/ tree'[q] \in {job[t].before[q], Due(job[t], q)}
                                              \/ tree'[q] = None /\ Under(q, job[t].src) /\ job[t].op # "copy"
    PROVE  FilesKept(t)'
<1>1. SUFFICES ASSUME faults' <= 1, NEW q \in Visible, IsFile(job'[t].before[q])
               PROVE  tree'[q] \in {job'[t].before[q], After(job'[t])[q]}
  BY DEF FilesKept
<1>2. job'[t].before = job[t].before /\ After(job'[t]) = After(job[t])
  BY SameDue
<1>3. q \in Paths /\ q \in Walkways
  BY PathsAreWalkways
<1>4. /\ ~Under(q, job[t].src) \/ job[t].op = "copy" => After(job[t])[q] = Due(job[t], q)
      /\ Under(q, job[t].src) /\ job[t].op # "copy" => After(job[t])[q] = None
  BY <1>3, AfterDue
<1>5. Under(q, job[t].src) => Due(job[t], q) = job[t].before[q]
  BY <1>3, DueUnder
<1>6. \/ tree'[q] \in {job[t].before[q], Due(job[t], q)}
      \/ tree'[q] = None /\ Under(q, job[t].src) /\ job[t].op # "copy"
  BY <1>1
<1> QED
  BY <1>2, <1>4, <1>5, <1>6

(* What can be seen is nothing an operation has of its own.                 *)
LEMMA VisibleGiven ==
    ASSUME NEW t \in Threads, OpJob(job[t]), NEW q \in Visible
    PROVE  q \in Paths /\ ~Own(q) /\ q # TempPath(t) /\ q # BackupPath(t)
BY OwnPaths DEF Visible

LEMMA FailsQuietly ==
    ASSUME NEW t \in Threads, Ready(t), CopyingOK(t), job[t].pc \notin {"swap", "undo"},
           OpJob(job'[t]), Keeps(job'[t], job[t]), SameStart(job'[t], job[t]),
           \A q \in Visible : tree'[q] = tree[q]
    PROVE  FilesKept(t)'
<1>1. \A q \in Visible : q \in Paths \ Aside(t)
  BY VisibleGiven, ReadyFacts DEF Aside
<1>2. \A q \in Visible : tree'[q] \in {job[t].before[q], Due(job[t], q)}
  BY <1>1 DEF CopyingOK, OldOrNewEntries
<1>3. OpJob(job[t]) /\ SeparatePaths(job[t]) /\ FirstStep(job[t]) = "copy"
  BY ReadyFacts DEF CopyingOK
<1>4. faults' <= 1 => \A q \in Visible : \/ tree'[q] \in {job[t].before[q], Due(job[t], q)}
                                         \/ tree'[q] = None /\ Under(q, job[t].src) /\ job[t].op # "copy"
  BY <1>2
<1> QED
  BY <1>3, <1>4, FilesKeptFrom

(* A copy that goes on with the same entry                                 *)
LEMMA CopyStays ==
    ASSUME NEW t \in Threads, Ready(t), CopyingOK(t), job[t].pc # "next", job'[t].pc # "next",
           Keeps(job'[t], job[t]), SameStart(job'[t], job[t]), SamePlace(job'[t], job[t]),
           job'[t].todo = job[t].todo,
           \A q \in Paths \ Aside(t)' : tree'[q] \in {job[t].before[q], Due(job[t], q)},
           \A q \in Paths : (\E s \in Taken(job[t]) : /\ Moved(s, job[t].src, job[t].dst) = q
                                                      /\ ~Under(s, job[t].from))
                            /\ tree[q] # None => tree'[q] = tree[q],
           AtPlace(t)'
    PROVE  CopyingOK(t)'
<1> DEFINE j == job[t]
           k == job'[t]
<1>1. /\ Taken(k) = Taken(j) /\ FirstStep(k) = FirstStep(j) /\ \A q : Due(k, q) = Due(j, q)
      /\ SeparatePaths(k) = SeparatePaths(j)
      /\ k.src = j.src /\ k.dst = j.dst /\ k.before = j.before
  BY SameDue
<1>2. k.from = j.from /\ k.to = j.to /\ k.todo = j.todo
  BY DEF SamePlace
<1>3. OldOrNewEntries(t)'
  BY <1>1 DEF OldOrNewEntries
<1>4. \A s : Pending(k, s) <=> Pending(j, s)
  BY <1>2 DEF Pending
<1>5. CopiedOrPending(t)'
  <2> SUFFICES ASSUME NEW s \in Taken(j), ~Pending(j, s)
               PROVE  /\ Moved(s, j.src, j.dst) \in Paths
                      /\ tree'[Moved(s, j.src, j.dst)] = j.before[s]
    BY <1>1, <1>4 DEF CopiedOrPending
  <2>1. Moved(s, j.src, j.dst) \in Paths /\ tree[Moved(s, j.src, j.dst)] = j.before[s]
    BY DEF CopyingOK, CopiedOrPending
  <2>2. ~Under(s, j.from) /\ j.before[s] # None
    BY TakenFacts, ReadyFacts DEF Pending
  <2> QED
    BY <2>1, <2>2
<1>6. ItemsTaken(k)
  BY <1>1, <1>2 DEF CopyingOK, ItemsTaken
<1> QED
  BY <1>1, <1>3, <1>5, <1>6 DEF CopyingOK

(* A copy that has done with an entry                                      *)
LEMMA CopyDone ==
    ASSUME NEW t \in Threads, Ready(t), CopyingOK(t), job[t].pc # "next", job'[t].pc = "next",
           Keeps(job'[t], job[t]), SameStart(job'[t], job[t]), SamePlace(job'[t], job[t]),
           job'[t].todo = job[t].todo, IsFile(job[t].before[job[t].from]),
           \A q \in Paths : tree'[q] \in {job[t].before[q], Due(job[t], q)},
           \A q \in Paths : (\E s \in Taken(job[t]) : /\ Moved(s, job[t].src, job[t].dst) = q
                                                      /\ ~Under(s, job[t].from))
                            /\ tree[q] # None => tree'[q] = tree[q],
           tree'[job[t].to] = job[t].before[job[t].from]
    PROVE  CopyingOK(t)'
<1> DEFINE j == job[t]
           k == job'[t]
<1>1. /\ Taken(k) = Taken(j) /\ FirstStep(k) = FirstStep(j) /\ \A q : Due(k, q) = Due(j, q)
      /\ SeparatePaths(k) = SeparatePaths(j)
      /\ k.src = j.src /\ k.dst = j.dst /\ k.before = j.before
  BY SameDue
<1>2. k.from = j.from /\ k.to = j.to /\ k.todo = j.todo
  BY DEF SamePlace
<1>3. OldOrNewEntries(t)'
  BY <1>1 DEF OldOrNewEntries
<1>4. \A s : Pending(j, s) => Pending(k, s) \/ Under(s, j.from)
  BY <1>2 DEF Pending
<1>5. CopiedOrPending(t)'
  <2> SUFFICES ASSUME NEW s \in Taken(j), ~Pending(k, s)
               PROVE  /\ Moved(s, j.src, j.dst) \in Paths
                      /\ tree'[Moved(s, j.src, j.dst)] = j.before[s]
    BY <1>1 DEF CopiedOrPending
  <2>1. CASE Under(s, j.from)
    <3>1. s \in Paths /\ s \in Walkways /\ j.before[s] # None /\ j.from \in Paths /\ j.from \in Walkways
          /\ j.to = Moved(j.from, j.src, j.dst) /\ j.to \in Paths
      BY TakenFacts, JobPaths, ReadyFacts
    <3>2. ~Within(s, j.from)
      BY <3>1, ReadyFacts DEF BeforeRooted, IsFile
    <3>3. s = j.from
      BY <2>1, <3>1, <3>2, UnderOrder
    <3> QED
      BY <3>1, <3>3
  <2>2. CASE ~Under(s, j.from)
    <3>1. Moved(s, j.src, j.dst) \in Paths /\ tree[Moved(s, j.src, j.dst)] = j.before[s]
      BY <1>4, <2>2 DEF CopyingOK, CopiedOrPending
    <3>2. j.before[s] # None
      BY TakenFacts, ReadyFacts
    <3> QED
      BY <2>2, <3>1, <3>2
  <2> QED
    BY <2>1, <2>2
<1>6. ItemsTaken(k)
  BY <1>1, <1>2 DEF CopyingOK, ItemsTaken
<1>7. AtPlace(t)'
  BY DEF AtPlace, DirPcs, FilePcs
<1> QED
  BY <1>1, <1>3, <1>5, <1>6, <1>7 DEF CopyingOK

(* What is to hold after a step by where the operation is then              *)
LEMMA AtWork ==
    ASSUME NEW t \in Threads, job'[t].pc \in WorkPcs,
           ~Within(job'[t].src, job'[t].dst) => CopyingOK(t)'
    PROVE  ExactOK(t)'
BY DEF ExactOK, WorkPcs, DirPcs, FilePcs

LEMMA AtFailure ==
    ASSUME NEW t \in Threads, job'[t].pc = "drop" \/ (job'[t].pc = "done" /\ ~job'[t].ok),
           ~Within(job'[t].src, job'[t].dst) => FilesKept(t)'
    PROVE  ExactOK(t)'
BY DEF ExactOK, WorkPcs, DirPcs, FilePcs

LEMMA AtSuccess ==
    ASSUME NEW t \in Threads, job'[t].pc = "done", job'[t].ok,
           ~Within(job'[t].src, job'[t].dst) => job'[t].src = job'[t].dst \/ tree' = After(job'[t])
    PROVE  ExactOK(t)'
BY DEF ExactOK, WorkPcs, DirPcs, FilePcs

LEMMA AtDeletion ==
    ASSUME NEW t \in Threads, job'[t].pc \in {"delete", "deltree", "clear"},
           ~Within(job'[t].src, job'[t].dst) => DeletingOK(t)'
    PROVE  ExactOK(t)'
BY DEF ExactOK, WorkPcs, DirPcs, FilePcs

(* A step of the operation of t, by what it leaves                          *)
GoesOn(t) ==
    /\ OpJob(job[t]) /\ OpJob(job'[t]) /\ Keeps(job'[t], job[t]) /\ SameStart(job'[t], job[t])

LEMMA WorkFails ==
    ASSUME NEW t \in Threads, Ready(t), ExactOK(t), job[t].pc \in WorkPcs \ {"swap", "undo"},
           GoesOn(t), job'[t].pc = "drop" \/ (job'[t].pc = "done" /\ ~job'[t].ok),
           \A q \in Visible : tree'[q] = tree[q]
    PROVE  ExactOK(t)'
<1>1. job'[t].src = job[t].src /\ job'[t].dst = job[t].dst
  BY DEF GoesOn, Keeps
<1>2. ASSUME ~Within(job[t].src, job[t].dst)
      PROVE  FilesKept(t)'
  <2>1. CopyingOK(t)
    BY <1>2 DEF ExactOK
  <2> QED
    BY <2>1, FailsQuietly DEF GoesOn
<1> QED
  BY <1>1, <1>2, AtFailure

(* CopyEntry                                                               *)
LEMMA CopyEntryExact ==
    ASSUME NEW t \in Threads, Ready(t), ExactOK(t), CopyEntry(t)
    PROVE  ExactOK(t)'
<1> DEFINE j == job[t]
           k == job'[t]
<1>1. JobsOK /\ OpJob(j) /\ BeforeRooted(j) /\ j.pc = "copy" /\ faults' = faults /\ tree' = tree
  BY ReadyFacts DEF CopyEntry, At, Pass, Fails
<1>2. FirstStep(j) = "copy" /\ tree = j.before /\ j.from = j.src /\ j.to = j.dst /\ j.todo = <<>>
  BY <1>1 DEF ExactOK
<1>3. CASE End(t, FALSE)
  <2>1. OpJob(k) /\ k.pc = "done" /\ k.ok = FALSE /\ Keeps(k, j) /\ SameStart(k, j)
    BY <1>1, <1>3, GotoEnd, GoesToEnd DEF Goes
  <2>2. k.before = j.before
    BY <2>1 DEF SameStart
  <2>3. FilesKept(t)'
    BY <1>1, <1>2, <2>2 DEF FilesKept
  <2> QED
    BY <2>1, <2>3, AtFailure
<1>4. CASE /\ j.src # j.dst /\ ~Within(j.dst, j.src) /\ tree[j.src] # None
           /\ Goto(t, [pc |-> IF tree[j.src] = Dir THEN "dir" ELSE "file"])
  <2> DEFINE p == IF tree[j.src] = Dir THEN "dir" ELSE "file"
  <2>1. k.pc = p /\ SamePlace(k, j) /\ Keeps(k, j) /\ SameStart(k, j) /\ SameList(k, j)
    BY <1>1, <1>4, GotoPc
  <2>2. /\ Taken(k) = Taken(j) /\ FirstStep(k) = FirstStep(j) /\ \A q : Due(k, q) = Due(j, q)
        /\ SeparatePaths(k) = SeparatePaths(j)
        /\ k.src = j.src /\ k.dst = j.dst /\ k.before = j.before /\ k.op = j.op
    BY <2>1, SameDue
  <2>3. k.from = j.src /\ k.to = j.dst /\ k.todo = <<>>
    BY <1>2, <2>1 DEF SamePlace, SameList
  <2>4. j.src \in Taken(j)
    <3>1. j.src \in Walkways /\ j.src \in Paths
      BY <1>1, JobPaths
    <3>2. \A r \in Paths : ~(Under(j.src, r) /\ Within(r, j.src))
      BY <3>1, UnderOrder, PathsAreWalkways
    <3> QED
      BY <1>2, <1>4, <3>1, <3>2, UnderOrder DEF Taken
  <2>5. \A s \in Taken(j) : Pending(k, s)
    <3>1. k.pc # "next"
      BY <2>1
    <3> QED
      BY <3>1, <2>3, TakenFacts, <1>1 DEF Pending
  <2>6. AtPlace(t)'
    <3>1. k.pc = "dir" => k.before[k.from] = Dir
      BY <1>2, <2>1, <2>2, <2>3
    <3>2. k.pc = "file" => IsFile(k.before[k.from])
      BY <1>2, <1>4, <2>1, <2>2, <2>3 DEF IsFile
    <3>3. k.pc \in {"dir", "file"}
      BY <2>1
    <3> QED
      BY <3>1, <3>2, <3>3 DEF AtPlace, DirPcs, FilePcs
  <2>7. ItemsTaken(k)
    BY <2>2, <2>3, <2>4 DEF ItemsTaken
  <2>8. OldOrNewEntries(t)' /\ CopiedOrPending(t)'
    BY <1>1, <1>2, <2>2, <2>5 DEF OldOrNewEntries, CopiedOrPending
  <2>9. ~Within(k.src, k.dst) => CopyingOK(t)'
    <3>1. ~Within(k.src, k.dst) => SeparatePaths(k)
      BY <1>4, <2>2 DEF SeparatePaths
    <3>2. FirstStep(k) = "copy" /\ k.before[k.src] # None
      BY <1>2, <1>4, <2>2
    <3> QED
      BY <3>1, <3>2, <2>6, <2>7, <2>8 DEF CopyingOK
  <2>10. k.pc \in WorkPcs
    BY <2>1 DEF WorkPcs, DirPcs, FilePcs
  <2> QED
    BY <2>9, <2>10, AtWork
<1> QED
  BY <1>3, <1>4 DEF CopyEntry, Fails

(* A copy that goes on with the same entry, or has done with it             *)
LEMMA WorkStays ==
    ASSUME NEW t \in Threads, Ready(t), ExactOK(t), job[t].pc \in WorkPcs \ {"next"},
           GoesOn(t), job'[t].pc \in WorkPcs \ {"next"}, SamePlace(job'[t], job[t]),
           job'[t].todo = job[t].todo,
           CopyingOK(t) =>
               /\ \A q \in Paths \ Aside(t)' : tree'[q] \in {job[t].before[q], Due(job[t], q)}
               /\ \A q \in Paths : (\E s \in Taken(job[t]) : /\ Moved(s, job[t].src, job[t].dst) = q
                                                             /\ ~Under(s, job[t].from))
                                   /\ tree[q] # None => tree'[q] = tree[q]
               /\ AtPlace(t)'
    PROVE  ExactOK(t)'
<1>1. job'[t].src = job[t].src /\ job'[t].dst = job[t].dst /\ Keeps(job'[t], job[t])
      /\ SameStart(job'[t], job[t])
  BY DEF GoesOn, Keeps
<1>2. ASSUME ~Within(job[t].src, job[t].dst)
      PROVE  CopyingOK(t)'
  <2>1. CopyingOK(t)
    BY <1>2 DEF ExactOK
  <2> QED
    BY <1>1, <2>1, CopyStays
<1> QED
  BY <1>1, <1>2, AtWork

LEMMA CopyDirectoryExact ==
    ASSUME NEW t \in Threads, Ready(t), ExactOK(t), CopyDirectory(t)
    PROVE  ExactOK(t)'
<1> DEFINE j == job[t]
           k == job'[t]
<1>1. JobsOK /\ OpJob(j) /\ j.pc = "dir" /\ tree' = tree /\ j.pc \in WorkPcs
  BY ReadyFacts DEF CopyDirectory, At, WorkPcs, DirPcs
<1>2. CASE End(t, FALSE)
  <2>1. GoesOn(t) /\ k.pc = "done" /\ k.ok = FALSE
    BY <1>1, <1>2, GotoEnd, GoesToEnd DEF Goes, GoesOn
  <2> QED
    BY <1>1, <2>1, WorkFails
<1>3. CASE /\ ~IsFile(tree[j.to])
           /\ Goto(t, [pc |-> IF tree[j.to] = Dir THEN "list" ELSE "mkdir"])
  <2> DEFINE p == IF tree[j.to] = Dir THEN "list" ELSE "mkdir"
  <2>1. k.pc = p /\ SamePlace(k, j) /\ Keeps(k, j) /\ SameStart(k, j) /\ SameList(k, j)
    BY <1>1, <1>3, GotoPc
  <2>2. GoesOn(t)
    BY <1>1, <2>1, CopyDirectoryJob DEF Goes, GoesOn
  <2>3. k.pc \in WorkPcs \ {"next"} /\ k.pc \in {"list", "mkdir"} /\ k.todo = j.todo
        /\ k.from = j.from /\ k.to = j.to /\ k.before = j.before
    BY <2>1 DEF WorkPcs, DirPcs, SamePlace, SameList, SameStart
  <2>4. ASSUME CopyingOK(t)
        PROVE  /\ \A q \in Paths \ Aside(t)' : tree'[q] \in {j.before[q], Due(j, q)}
               /\ AtPlace(t)'
    <3>1. j.before[j.from] = Dir
      BY <1>1, <2>4 DEF CopyingOK, AtPlace, DirPcs
    <3>2. AtPlace(t)'
      BY <1>1, <2>1, <2>3, <3>1 DEF AtPlace, DirPcs, FilePcs
    <3>3. Aside(t) = {}
      BY <1>1 DEF Aside
    <3> QED
      BY <1>1, <2>4, <3>2, <3>3 DEF CopyingOK, OldOrNewEntries
  <2> QED
    BY <1>1, <2>1, <2>2, <2>3, <2>4, WorkStays
<1> QED
  BY <1>2, <1>3 DEF CopyDirectory

LEMMA CopyMkdirExact ==
    ASSUME NEW t \in Threads, Ready(t), ExactOK(t), CopyMkdir(t)
    PROVE  ExactOK(t)'
<1> DEFINE j == job[t]
           k == job'[t]
<1>1. JobsOK /\ OpJob(j) /\ BeforeRooted(j) /\ TreeType /\ j.pc = "mkdir" /\ j.pc \in WorkPcs
  BY ReadyFacts DEF CopyMkdir, At, WorkPcs, DirPcs
<1>2. CASE tree' = tree /\ End(t, FALSE)
  <2>1. GoesOn(t) /\ k.pc = "done" /\ k.ok = FALSE
    BY <1>1, <1>2, GotoEnd, GoesToEnd DEF Goes, GoesOn
  <2> QED
    BY <1>1, <1>2, <2>1, WorkFails
<1>3. CASE CanMkdirAll(tree, j.to) /\ tree' = MkdirAll(tree, j.to) /\ Goto(t, [pc |-> "list"])
  <2>1. k.pc = "list" /\ SamePlace(k, j) /\ Keeps(k, j) /\ SameStart(k, j) /\ SameList(k, j)
    BY <1>1, <1>3, GotoPc
  <2>2. GoesOn(t)
    BY <1>1, <2>1, CopyMkdirJob DEF Goes, GoesOn
  <2>3. k.pc \in WorkPcs \ {"next"} /\ k.todo = j.todo
        /\ k.from = j.from /\ k.to = j.to /\ k.before = j.before
    BY <2>1 DEF WorkPcs, DirPcs, SamePlace, SameList, SameStart
  <2>4. j.to \in Walkways /\ j.to \in Paths /\ j.to = Moved(j.from, j.src, j.dst)
    BY <1>1, JobPaths
  <2>5. \A q \in Paths : /\ Under(j.to, q) => tree'[q] = Dir /\ tree[q] \in {None, Dir}
                         /\ ~Under(j.to, q) => tree'[q] = tree[q]
    BY <1>1, <1>3, <2>4, MkdirAllEntries
  <2>6. ASSUME CopyingOK(t)
        PROVE  /\ \A q \in Paths : tree'[q] \in {j.before[q], Due(j, q)}
               /\ AtPlace(t)'
    <3>1. j.before[j.from] = Dir /\ j.from \in Taken(j)
      BY <1>1, <2>6 DEF CopyingOK, AtPlace, DirPcs, ItemsTaken
    <3>2. tree'[j.to] = Dir
      BY <2>4, <2>5, UnderOrder
    <3>3. AtPlace(t)'
      BY <2>1, <2>3, <3>1, <3>2 DEF AtPlace, DirPcs, FilePcs
    <3>4. Aside(t) = {}
      BY <1>1 DEF Aside
    <3>5. ASSUME NEW q \in Paths
          PROVE  tree'[q] \in {j.before[q], Due(j, q)}
      <4>1. CASE q = j.to
        BY <1>1, <2>4, <3>1, <3>2, <4>1, DueMoved
      <4>2. CASE Within(j.to, q)
        <5>1. Due(j, q) = Dir
          BY <1>1, <2>4, <3>1, <4>2, DueAbove
        <5>2. Under(j.to, q)
          BY <2>4, <4>2, UnderOrder, PathsAreWalkways
        <5> QED
          BY <2>5, <5>1, <5>2
      <4>3. CASE ~Under(j.to, q)
        BY <2>5, <2>6, <3>4, <4>3 DEF CopyingOK, OldOrNewEntries
      <4> QED
        BY <2>4, <4>1, <4>2, <4>3, UnderOrder, PathsAreWalkways
    <3> QED
      BY <3>3, <3>5
  <2>7. \A q \in Paths : tree[q] # None => tree'[q] = tree[q]
    BY <2>5
  <2> QED
    BY <1>1, <2>1, <2>2, <2>3, <2>6, <2>7, WorkStays
<1> QED
  BY <1>2, <1>3 DEF CopyMkdir, Fails

(* What a listing adds to what is to be copied                             *)
Added(j, order) ==
    [i \in 1..Len(order) |->
        [from |-> order[i], to |-> Moved(order[i], j.src, j.dst), dir |-> tree[order[i]] = Dir]]

ListsAll(j, todo) ==
    /\ \A i \in 1..Len(todo) :
          \/ \E c \in Listed(tree, j.from) : todo[i].from = c /\ (todo[i].dir <=> tree[c] = Dir)
          \/ \E m \in 1..Len(j.todo) : todo[i] = j.todo[m]
    /\ \A c \in Listed(tree, j.from) : \E i \in 1..Len(todo) : todo[i].from = c
    /\ \A m \in 1..Len(j.todo) : \E i \in 1..Len(todo) : todo[i] = j.todo[m]

LEMMA ListedItems ==
    ASSUME NEW j, OpJob(j), TreeType, CanList(j), NEW order \in SetToSeqs(Listed(tree, j.from))
    PROVE  ListsAll(j, Added(j, order) \o j.todo)
<1> DEFINE e(q) == [from |-> q, to |-> Moved(q, j.src, j.dst), dir |-> tree[q] = Dir]
           added == [i \in 1..Len(order) |-> e(order[i])]
           S == ToCopy(j.src, j.dst)
           todo == added \o j.todo
<1>1. /\ order \in Seq(Listed(tree, j.from)) /\ Items(order) = Listed(tree, j.from)
  <2>1. IsFiniteSet(Listed(tree, j.from))
    BY PathsAreWalkways, FS_Subset DEF Listed, Children
  <2> QED
    BY <2>1, OrderFacts
<1>2. Len(order) \in Nat /\ \A i \in 1..Len(order) : order[i] \in Listed(tree, j.from)
  BY <1>1, LenProperties
<1>3. added \in Seq(S) /\ Len(added) = Len(order) /\ \A i \in 1..Len(order) : added[i] = e(order[i])
  <2>1. \A i \in 1..Len(order) : e(order[i]) \in S
    BY <1>2, ListedToCopy
  <2>2. added \in [1..Len(order) -> S]
    BY <2>1
  <2> QED
    BY <2>2, <1>2, SequenceOf
<1>4. j.todo \in Seq(S) /\ Len(j.todo) \in Nat
  BY LenProperties DEF OpJob
<1>5. todo = Added(j, order) \o j.todo
  BY DEF Added
<1> HIDE DEF added, S
<1>6. /\ Len(todo) = Len(order) + Len(j.todo)
      /\ \A i \in 1..(Len(order) + Len(j.todo)) :
            todo[i] = IF i <= Len(order) THEN added[i] ELSE j.todo[i - Len(order)]
  <2>1. /\ Len(added \o j.todo) = Len(added) + Len(j.todo)
        /\ \A i \in 1..(Len(added) + Len(j.todo)) :
              (added \o j.todo)[i] = IF i <= Len(added) THEN added[i] ELSE j.todo[i - Len(added)]
    <3>1. added \in Seq(S) /\ j.todo \in Seq(S)
      BY <1>3, <1>4
    <3> QED
      BY <3>1, ConcatProperties
  <2> QED
    BY <1>3, <2>1
<1> HIDE DEF todo
<1>7. ASSUME NEW i \in 1..Len(todo)
      PROVE  \/ \E c \in Listed(tree, j.from) : todo[i].from = c /\ (todo[i].dir <=> tree[c] = Dir)
             \/ \E m \in 1..Len(j.todo) : todo[i] = j.todo[m]
  <2>1. CASE i <= Len(order)
    <3>1. i \in 1..Len(order) /\ todo[i] = e(order[i]) /\ order[i] \in Listed(tree, j.from)
      BY <1>2, <1>3, <1>4, <1>6, <2>1
    <3>2. todo[i].from = order[i]
      BY <3>1
    <3>3. e(order[i]).dir <=> tree[order[i]] = Dir
      OBVIOUS
    <3>4. todo[i].dir <=> tree[order[i]] = Dir
      BY ONLY <3>1, <3>3, Zenon
    <3> QED
      BY <3>1, <3>2, <3>4
  <2>2. CASE ~(i <= Len(order))
    <3>1. i - Len(order) \in 1..Len(j.todo) /\ todo[i] = j.todo[i - Len(order)]
      BY <1>2, <1>4, <1>6, <2>2
    <3> QED
      BY <3>1
  <2> QED
    BY <2>1, <2>2
<1>8. ASSUME NEW c \in Listed(tree, j.from)
      PROVE  \E i \in 1..Len(todo) : todo[i].from = c
  <2>1. PICK i \in 1..Len(order) : order[i] = c
    BY <1>1 DEF Items
  <2>2. i \in 1..Len(todo) /\ i <= Len(order)
    BY <1>2, <1>4, <1>6
  <2>3. todo[i] = e(c)
    BY <1>3, <1>6, <2>1, <2>2
  <2> QED
    BY <2>2, <2>3
<1>9. ASSUME NEW m \in 1..Len(j.todo)
      PROVE  \E i \in 1..Len(todo) : todo[i] = j.todo[m]
  <2>1. m + Len(order) \in 1..Len(todo) /\ ~(m + Len(order) <= Len(order)) /\ (m + Len(order)) - Len(order) = m
    BY <1>2, <1>4, <1>6
  <2> QED
    BY <1>6, <2>1
<1> QED
  BY <1>5, <1>7, <1>8, <1>9 DEF ListsAll

(* Everything taken along from a directory is in its listing.               *)
LEMMA ListedTaken ==
    ASSUME NEW t \in Threads, Ready(t), CopyingOK(t)
    PROVE  LET j == job[t] IN
           /\ \A c \in Listed(tree, j.from) :
                 c \in Taken(j) /\ tree[c] = j.before[c] /\ c \in Walkways
           /\ \A s \in Taken(j) : Within(s, j.from) =>
                 \E c \in Listed(tree, j.from) : Under(s, c)
<1> DEFINE j == job[t]
<1>1. /\ OpJob(j) /\ BeforeRooted(j) /\ j.from \in Taken(j) /\ FirstStep(j) = "copy"
      /\ j.from \in Walkways /\ j.src \in Walkways /\ Under(j.from, j.src) /\ j.from # <<>>
  BY ReadyFacts, JobPaths, PathsAreWalkways DEF CopyingOK, ItemsTaken
<1>2. ASSUME NEW c \in Listed(tree, j.from)
      PROVE  c \in Taken(j) /\ tree[c] = j.before[c] /\ c \in Walkways
  <2>1. c \in Visible /\ c \in Paths /\ Parent(c) = j.from /\ tree[c] # None /\ ~Own(c)
    BY DEF Listed, Children, Visible
  <2>2. c \in Walkways /\ Within(c, j.from) /\ \A r \in Walkways : Within(c, r) => Under(j.from, r)
    BY <2>1, PathsAreWalkways, ParentFacts
  <2>3. Under(c, j.src)
    BY <1>1, <2>2, UnderTransitive, UnderOrder
  <2>4. tree[c] = j.before[c]
    BY <2>1, <2>3, SourceStays
  <2>5. ASSUME NEW r \in Paths, Under(c, r), Within(r, j.src)
        PROVE  r \in Visible
    <3>1. r = c \/ Under(j.from, r)
      BY <2>2, <2>5, UnderOrder, PathsAreWalkways
    <3> QED
      BY <1>1, <2>1, <2>5, <3>1 DEF Taken
  <2> QED
    BY <2>1, <2>2, <2>3, <2>4, <2>5 DEF Taken
<1>3. ASSUME NEW s \in Taken(j), Within(s, j.from)
      PROVE  \E c \in Listed(tree, j.from) : Under(s, c)
  <2>1. s \in Paths /\ s \in Walkways /\ j.before[s] # None
    BY <1>1, TakenFacts
  <2>2. PICK c \in Paths : Parent(c) = j.from /\ Under(s, c) /\ Within(c, j.from)
    BY <1>1, <1>3, <2>1, ChildToward
  <2>3. c \in Walkways /\ Under(c, j.src) /\ Within(c, j.src)
    BY <1>1, <2>2, PathsAreWalkways, UnderTransitive, UnderOrder
  <2>4. c \in Taken(j)
    BY <1>1, <2>1, <2>2, <2>3, TakenAbove, UnderOrder
  <2>5. c \in Visible
    <3>1. Under(c, c)
      BY <2>3, UnderOrder
    <3> QED
      BY <1>1, <2>2, <2>3, <2>4, <3>1 DEF Taken
  <2>6. tree[c] = j.before[c] /\ j.before[c] # None
    BY <1>1, <2>3, <2>4, <2>5, SourceStays, TakenFacts
  <2>7. c \in Listed(tree, j.from)
    BY <2>2, <2>5, <2>6 DEF Listed, Children
  <2> QED
    BY <2>2, <2>7
<1> QED
  BY <1>2, <1>3

LEMMA CopyListExact ==
    ASSUME NEW t \in Threads, Ready(t), ExactOK(t), CopyList(t)
    PROVE  ExactOK(t)'
<1> DEFINE j == job[t]
           k == job'[t]
<1>1. JobsOK /\ OpJob(j) /\ BeforeRooted(j) /\ TreeType /\ j.pc = "list" /\ tree' = tree /\ j.pc \in WorkPcs
  BY ReadyFacts DEF CopyList, At, WorkPcs, DirPcs
<1>2. CASE End(t, FALSE)
  <2>1. GoesOn(t) /\ k.pc = "done" /\ k.ok = FALSE
    BY <1>1, <1>2, GotoEnd, GoesToEnd DEF Goes, GoesOn
  <2> QED
    BY <1>1, <2>1, WorkFails
<1>3. ASSUME CanList(j), NEW order \in SetToSeqs(Listed(tree, j.from)), NEW todo,
             todo = Added(j, order) \o j.todo,
             Goto(t, [pc |-> "next", todo |-> todo])
      PROVE  ExactOK(t)'
  <2>1. ListsAll(j, todo)
    BY <1>1, <1>3, ListedItems
  <2>2. /\ k.pc = "next" /\ k.todo = todo /\ SamePlace(k, j) /\ Keeps(k, j) /\ SameStart(k, j)
    BY <1>1, <1>3, CopyListStart
  <2>3. /\ Taken(k) = Taken(j) /\ FirstStep(k) = FirstStep(j) /\ \A q : Due(k, q) = Due(j, q)
        /\ SeparatePaths(k) = SeparatePaths(j)
        /\ k.src = j.src /\ k.dst = j.dst /\ k.before = j.before
    BY <2>2, SameDue
  <2>4. k.from = j.from /\ k.to = j.to /\ Aside(t) = {}
    BY <1>1, <2>2 DEF SamePlace, Aside
  <2>5. ASSUME CopyingOK(t)
        PROVE  CopyingOK(t)'
    <3>1. /\ \A c \in Listed(tree, j.from) : c \in Taken(j) /\ tree[c] = j.before[c] /\ c \in Walkways
          /\ \A s \in Taken(j) : Within(s, j.from) => \E c \in Listed(tree, j.from) : Under(s, c)
      BY <2>5, ListedTaken
    <3>2. ItemsTaken(j) /\ j.before[j.from] = Dir /\ tree[j.to] = Dir
      BY <1>1, <2>5 DEF CopyingOK, AtPlace, DirPcs
    <3>3. ItemsTaken(k)
      <4>1. ASSUME NEW i \in 1..Len(todo)
            PROVE  todo[i].from \in Taken(j) /\ (todo[i].dir <=> j.before[todo[i].from] = Dir)
        <5>1. CASE \E c \in Listed(tree, j.from) : todo[i].from = c /\ (todo[i].dir <=> tree[c] = Dir)
          BY <3>1, <5>1
        <5>2. CASE \E m \in 1..Len(j.todo) : todo[i] = j.todo[m]
          BY <3>2, <5>2 DEF ItemsTaken
        <5> QED
          BY <2>1, <5>1, <5>2 DEF ListsAll
      <4> QED
        BY <2>2, <2>3, <2>4, <3>2, <4>1 DEF ItemsTaken
    <3>4. OldOrNewEntries(t)'
      BY <1>1, <2>3, <2>4, <2>5 DEF CopyingOK, OldOrNewEntries
    <3>5. ASSUME NEW s \in Taken(j), ~Pending(k, s)
          PROVE  /\ Moved(s, j.src, j.dst) \in Paths
                 /\ tree[Moved(s, j.src, j.dst)] = j.before[s]
      <4>1. s \in Walkways /\ j.from \in Walkways /\ j.to \in Paths /\ j.to = Moved(j.from, j.src, j.dst)
        BY <1>1, TakenFacts, JobPaths
      <4>2. ~Within(s, j.from)
        <5>1. \A c \in Listed(tree, j.from) : ~Under(s, c)
          BY <2>1, <2>2, <3>5 DEF Pending, ListsAll
        <5> QED
          BY <3>1, <5>1
      <4>3. \A m \in 1..Len(j.todo) : ~Under(s, j.todo[m].from)
        BY <2>1, <2>2, <3>5 DEF Pending, ListsAll
      <4>4. CASE s = j.from
        BY <3>2, <4>1, <4>4
      <4>5. CASE ~Under(s, j.from)
        <5>1. ~Pending(j, s)
          BY <4>3, <4>5 DEF Pending
        <5> QED
          BY <2>5, <5>1 DEF CopyingOK, CopiedOrPending
      <4> QED
        BY <4>1, <4>2, <4>4, <4>5, UnderOrder
    <3>6. CopiedOrPending(t)'
      BY <1>1, <2>3, <3>5 DEF CopiedOrPending
    <3>7. AtPlace(t)'
      BY <2>2 DEF AtPlace, DirPcs, FilePcs
    <3> QED
      BY <2>3, <2>5, <3>3, <3>4, <3>6, <3>7 DEF CopyingOK
  <2>6. k.pc \in WorkPcs /\ (~Within(k.src, k.dst) => CopyingOK(t)')
    BY <1>1, <2>2, <2>3, <2>5 DEF WorkPcs, ExactOK
  <2> QED
    BY <2>6, AtWork
<1>4. End(t, FALSE) \/ \E order \in SetToSeqs(Listed(tree, j.from)) : \E todo :
          /\ CanList(j)
          /\ todo = Added(j, order) \o j.todo
          /\ Goto(t, [pc |-> "next", todo |-> todo])
  BY DEF CopyList, Added
<1> QED
  BY <1>2, <1>3, <1>4

(* Once nothing is left to be copied everything is as it is to be.          *)
LEMMA AllCopied ==
    ASSUME NEW t \in Threads, Ready(t), CopyingOK(t), job[t].pc = "next", job[t].todo = <<>>, NEW q \in Paths
    PROVE  tree[q] = Due(job[t], q)
<1> DEFINE j == job[t]
<1>1. JobsOK /\ OpJob(j) /\ BeforeRooted(j) /\ TreeType /\ Rooted
  BY ReadyFacts
<1>2. tree[q] \in {j.before[q], Due(j, q)}
  BY DEF CopyingOK, OldOrNewEntries, Aside
<1>3. \A s \in Taken(j) : Moved(s, j.src, j.dst) \in Paths /\ tree[Moved(s, j.src, j.dst)] = j.before[s]
  <2>1. \A s : ~Pending(j, s)
    BY DEF Pending
  <2> QED
    BY <2>1 DEF CopyingOK, CopiedOrPending
<1>4. CASE \E s \in Taken(j) : Moved(s, j.src, j.dst) = q
  BY <1>1, <1>3, <1>4, DueMoved
<1>5. CASE ~\E s \in Taken(j) : Moved(s, j.src, j.dst) = q
  <2>1. Due(j, q) = IF Within(j.dst, q) THEN Dir ELSE j.before[q]
    BY <1>1, <1>5, DueElse
  <2>2. ASSUME Within(j.dst, q)
        PROVE  tree[q] = Dir
    <3>1. j.src \in Paths /\ j.src \in Walkways /\ j.dst \in Paths /\ j.dst \in Walkways
      BY <1>1, JobPaths
    <3>2. j.src \in Taken(j)
      <4>1. \A r \in Paths : ~(Under(j.src, r) /\ Within(r, j.src))
        BY <3>1, UnderOrder, PathsAreWalkways
      <4>2. Under(j.src, j.src) /\ j.before[j.src] # None
        BY <3>1, UnderOrder DEF CopyingOK
      <4> QED
        BY <3>1, <4>1, <4>2 DEF Taken
    <3>3. Moved(j.src, j.src, j.dst) = j.dst
      BY <3>1, MovedUnder, UnderOrder
    <3>4. tree[j.dst] # None
      BY <1>1, <1>3, <3>2, <3>3, TakenFacts
    <3> QED
      BY <1>1, <2>2, <3>1, <3>4 DEF Rooted
  <2> QED
    BY <1>2, <2>1, <2>2
<1> QED
  BY <1>4, <1>5

LEMMA CopyNextExact ==
    ASSUME NEW t \in Threads, Ready(t), ExactOK(t), CopyNext(t)
    PROVE  ExactOK(t)'
<1> DEFINE j == job[t]
           k == job'[t]
<1>1. JobsOK /\ OpJob(j) /\ TreeType /\ j.pc = "next" /\ tree' = tree /\ j.op \in {"copy", "move"}
      /\ Aside(t) = {}
  BY ReadyFacts DEF CopyNext, At, OpJob, PcFits, CopyPcs, Aside
<1>2. ~Within(j.src, j.dst) => CopyingOK(t)
  BY <1>1 DEF ExactOK, WorkPcs
<1>3. CASE j.todo = <<>>
  <2>1. ASSUME CopyingOK(t), NEW q \in Paths
        PROVE  /\ tree[q] = Due(j, q) /\ SeparatePaths(j)
               /\ ~Under(q, j.src) \/ j.op = "copy" => tree[q] = After(j)[q]
               /\ Under(q, j.src) => tree[q] = j.before[q]
               /\ Under(q, j.src) /\ j.op # "copy" => After(j)[q] = None
    <3>1. tree[q] = Due(j, q)
      BY <1>1, <1>3, <2>1, AllCopied
    <3>2. SeparatePaths(j)
      BY <2>1 DEF CopyingOK
    <3> QED
      BY <1>1, <3>1, <3>2, AfterDue, DueUnder
  <2>2. CASE j.op # "move" /\ End(t, TRUE)
    <3>1. k.pc = "done" /\ k.ok = TRUE /\ Keeps(k, j) /\ SameStart(k, j)
      BY <1>1, <2>2, GotoEnd
    <3>2. After(k) = After(j) /\ k.src = j.src /\ k.dst = j.dst
      BY <3>1, SameDue
    <3>3. ASSUME CopyingOK(t)
          PROVE  tree = After(j)
      <4>1. \A q \in Paths : tree[q] = After(j)[q]
        BY <1>1, <2>1, <2>2, <3>3
      <4>2. After(j) = [q \in Paths |-> After(j)[q]] /\ tree = [q \in Paths |-> tree[q]]
        BY <1>1 DEF After, TreeType
      <4> QED
        BY <4>1, <4>2
    <3> QED
      BY <1>1, <1>2, <3>1, <3>2, <3>3, AtSuccess
  <2>3. CASE j.op = "move" /\ Goto(t, [pc |-> IF j.dir THEN "deltree" ELSE "delete"])
    <3> DEFINE p == IF j.dir THEN "deltree" ELSE "delete"
    <3>1. k.pc = p /\ Keeps(k, j) /\ SameStart(k, j)
      BY <1>1, <2>3, GotoPc
    <3>2. After(k) = After(j) /\ k.src = j.src /\ k.dst = j.dst /\ k.op = j.op /\ k.before = j.before
          /\ SeparatePaths(k) = SeparatePaths(j)
      BY <3>1, SameDue
    <3>3. ASSUME CopyingOK(t)
          PROVE  DeletingOK(t)'
      <4>1. SeparatePaths(k)
        BY <3>2, <3>3 DEF CopyingOK
      <4>2. \A q \in Paths : /\ ~Under(q, j.src) => tree[q] = After(j)[q]
                             /\ Under(q, j.src) => tree[q] = j.before[q] /\ After(j)[q] = None
        BY <2>1, <2>3, <3>3
      <4> QED
        BY <1>1, <2>3, <3>2, <4>1, <4>2 DEF DeletingOK
    <3>4. k.pc \in {"delete", "deltree", "clear"}
      BY <3>1
    <3> QED
      BY <1>2, <3>2, <3>3, <3>4, AtDeletion
  <2> QED
    BY <1>3, <2>2, <2>3 DEF CopyNext
<1>4. CASE j.todo # <<>>
  <2> DEFINE h == Head(j.todo)
             p == IF h.dir THEN "dir" ELSE "file"
             f == h.from
             g == h.to
             rest == Tail(j.todo)
  <2>1. Goto(t, [pc |-> p, from |-> f, to |-> g, todo |-> rest])
    BY <1>4 DEF CopyNext
  <2>2. /\ k.pc = (IF h.dir THEN "dir" ELSE "file") /\ k.from = h.from /\ k.to = h.to /\ k.todo = Tail(j.todo)
        /\ Keeps(k, j) /\ SameStart(k, j)
    <3> HIDE DEF p, f, g, rest
    <3>1. /\ k.pc = p /\ k.from = f /\ k.to = g /\ k.todo = rest
          /\ Keeps(k, j) /\ SameStart(k, j)
      BY <1>1, <2>1, CopyNextStart
    <3> QED
      BY <3>1 DEF p, f, g, rest
  <2>3. /\ Taken(k) = Taken(j) /\ FirstStep(k) = FirstStep(j) /\ \A q : Due(k, q) = Due(j, q)
        /\ SeparatePaths(k) = SeparatePaths(j)
        /\ k.src = j.src /\ k.dst = j.dst /\ k.before = j.before
    BY <2>2, SameDue
  <2>4. /\ Len(j.todo) \in Nat /\ Len(j.todo) >= 1 /\ h = j.todo[1] /\ Len(Tail(j.todo)) = Len(j.todo) - 1
        /\ \A i \in 1..(Len(j.todo) - 1) : Tail(j.todo)[i] = j.todo[i + 1]
    <3>1. j.todo \in Seq(ToCopy(j.src, j.dst))
      BY <1>1 DEF OpJob
    <3> QED
      BY <1>4, <3>1, HeadTailProperties, EmptySeq, LenProperties
  <2> HIDE DEF h
  <2>5. ASSUME CopyingOK(t)
        PROVE  CopyingOK(t)'
    <3>1. h.from \in Taken(j) /\ (h.dir <=> j.before[h.from] = Dir) /\ j.before[h.from] # None
      <4>1. h.from \in Taken(j) /\ (h.dir <=> j.before[h.from] = Dir)
        <5>1. 1 \in 1..Len(j.todo)
          BY <2>4
        <5> QED
          BY <2>4, <2>5, <5>1 DEF CopyingOK, ItemsTaken
      <4> QED
        BY <1>1, <4>1, TakenFacts
    <3>2. k.pc \in {"dir", "file"} /\ (k.pc = "dir" <=> h.dir)
      BY <2>2
    <3>3. ItemsTaken(k)
      <4>1. ASSUME NEW i \in 1..Len(k.todo)
            PROVE  i + 1 \in 1..Len(j.todo) /\ k.todo[i] = j.todo[i + 1]
        BY <2>2, <2>4
      <4> QED
        BY <2>2, <2>3, <2>5, <3>1, <4>1 DEF CopyingOK, ItemsTaken
    <3>4. OldOrNewEntries(t)'
      <4>1. \A q \in Paths : tree[q] \in {j.before[q], Due(j, q)}
        BY <1>1, <2>5 DEF CopyingOK, OldOrNewEntries
      <4> QED
        BY <1>1, <2>3, <4>1 DEF OldOrNewEntries
    <3>5. ASSUME NEW s \in Taken(j), Pending(j, s)
          PROVE  Pending(k, s)
      <4>1. PICK i \in 1..Len(j.todo) : Under(s, j.todo[i].from)
        BY <1>1, <3>5 DEF Pending
      <4>2. CASE i = 1
        BY <2>2, <2>4, <3>2, <4>1, <4>2 DEF Pending
      <4>3. CASE i # 1
        <5>1. i - 1 \in 1..(Len(j.todo) - 1) /\ (i - 1) + 1 = i
          BY <2>4, <4>1, <4>3
        <5>2. i - 1 \in 1..Len(k.todo) /\ k.todo[i - 1] = j.todo[i]
          BY <2>2, <2>4, <5>1
        <5> QED
          BY <4>1, <5>2 DEF Pending
      <4> QED
        BY <4>2, <4>3
    <3>6. CopiedOrPending(t)'
      BY <1>1, <2>3, <2>5, <3>5 DEF CopyingOK, CopiedOrPending
    <3>7. AtPlace(t)'
      <4>1. k.pc = "dir" => k.before[k.from] = Dir
        BY <2>2, <2>3, <3>1, <3>2
      <4>2. k.pc = "file" => IsFile(k.before[k.from])
        BY <2>2, <2>3, <3>1, <3>2 DEF IsFile
      <4> QED
        BY <3>2, <4>1, <4>2 DEF AtPlace, DirPcs, FilePcs
    <3> QED
      BY <2>3, <2>5, <3>3, <3>4, <3>6, <3>7 DEF CopyingOK
  <2>6. k.pc \in WorkPcs
    BY <2>2 DEF WorkPcs, DirPcs, FilePcs
  <2> QED
    BY <1>2, <2>3, <2>5, <2>6, AtWork
<1> QED
  BY <1>3, <1>4

LEMMA CopyFileExact ==
    ASSUME NEW t \in Threads, Ready(t), ExactOK(t), CopyFile(t)
    PROVE  ExactOK(t)'
<1> DEFINE j == job[t]
           k == job'[t]
<1>1. JobsOK /\ OpJob(j) /\ j.pc = "file" /\ tree' = tree /\ j.pc \in WorkPcs
  BY ReadyFacts DEF CopyFile, At, WorkPcs, FilePcs
<1>2. CASE End(t, FALSE)
  <2>1. GoesOn(t) /\ k.pc = "done" /\ k.ok = FALSE
    BY <1>1, <1>2, GotoEnd, GoesToEnd DEF Goes, GoesOn
  <2> QED
    BY <1>1, <2>1, WorkFails
<1>3. CASE tree[j.to] # Dir /\ Goto(t, [pc |-> "open", had |-> tree[j.to] # None])
  <2>1. k.pc = "open" /\ SamePlace(k, j) /\ Keeps(k, j) /\ SameStart(k, j) /\ SameList(k, j)
    BY <1>1, <1>3, CopyFileStart
  <2>2. GoesOn(t)
    BY <1>1, <2>1, CopyFileJob DEF Goes, GoesOn
  <2>3. k.pc \in WorkPcs \ {"next"} /\ k.todo = j.todo
        /\ k.from = j.from /\ k.to = j.to /\ k.before = j.before
    BY <2>1 DEF WorkPcs, FilePcs, SamePlace, SameList, SameStart
  <2>4. ASSUME CopyingOK(t)
        PROVE  /\ \A q \in Paths \ Aside(t)' : tree'[q] \in {j.before[q], Due(j, q)}
               /\ AtPlace(t)'
    <3>1. IsFile(j.before[j.from])
      BY <1>1, <2>4 DEF CopyingOK, AtPlace, FilePcs
    <3>2. AtPlace(t)'
      BY <1>1, <1>3, <2>1, <2>3, <3>1 DEF AtPlace, DirPcs, FilePcs
    <3>3. Aside(t) = {}
      BY <1>1 DEF Aside
    <3> QED
      BY <1>1, <2>4, <3>2, <3>3 DEF CopyingOK, OldOrNewEntries
  <2> QED
    BY <1>1, <2>1, <2>2, <2>3, <2>4, WorkStays
<1> QED
  BY <1>2, <1>3 DEF CopyFile

LEMMA CopyOpenExact ==
    ASSUME NEW t \in Threads, Ready(t), ExactOK(t), CopyOpen(t)
    PROVE  ExactOK(t)'
<1> DEFINE j == job[t]
           k == job'[t]
<1>1. JobsOK /\ OpJob(j) /\ j.pc = "open" /\ tree' = tree /\ j.pc \in WorkPcs
  BY ReadyFacts DEF CopyOpen, At, WorkPcs, FilePcs
<1>2. CASE End(t, FALSE)
  <2>1. GoesOn(t) /\ k.pc = "done" /\ k.ok = FALSE
    BY <1>1, <1>2, GotoEnd, GoesToEnd DEF Goes, GoesOn
  <2> QED
    BY <1>1, <2>1, WorkFails
<1>3. ASSUME NEW x, x = tree[j.from], Goto(t, [pc |-> "temp", data |-> x])
      PROVE  ExactOK(t)'
  <2>1. k.pc = "temp" /\ k.data = x /\ k.todo = j.todo /\ SamePlace(k, j) /\ Keeps(k, j) /\ SameStart(k, j)
    BY <1>1, <1>3, CopyOpenStart
  <2>2. GoesOn(t)
    BY <1>1, <2>1, CopyOpenJob DEF Goes, GoesOn, Ready, TreeInv
  <2>3. k.pc \in WorkPcs \ {"next"}
        /\ k.from = j.from /\ k.to = j.to /\ k.before = j.before
    BY <2>1 DEF WorkPcs, FilePcs, SamePlace, SameStart
  <2>4. ASSUME CopyingOK(t)
        PROVE  /\ \A q \in Paths \ Aside(t)' : tree'[q] \in {j.before[q], Due(j, q)}
               /\ AtPlace(t)'
    <3>1. IsFile(j.before[j.from]) /\ tree[j.to] # Dir
      BY <1>1, <2>4 DEF CopyingOK, AtPlace, FilePcs
    <3>2. x = j.before[j.from]
      BY <1>1, <1>3, <2>4, JobPaths, SourceStays
    <3>3. AtPlace(t)'
      BY <1>1, <2>1, <2>3, <3>1, <3>2 DEF AtPlace, DirPcs, FilePcs
    <3>4. Aside(t) = {}
      BY <1>1 DEF Aside
    <3> QED
      BY <1>1, <2>4, <3>3, <3>4 DEF CopyingOK, OldOrNewEntries
  <2> QED
    BY <1>1, <2>1, <2>2, <2>3, <2>4, WorkStays
<1> QED
  BY <1>2, <1>3 DEF CopyOpen

(* The entries of a copy are no names of its own.                          *)
LEMMA PlacesApart ==
    ASSUME NEW t \in Threads, Ready(t), CopyingOK(t), NEW s \in Taken(job[t]), ~Under(s, job[t].from)
    PROVE  LET q == Moved(s, job[t].src, job[t].dst) IN
           q # TempPath(t) /\ q # BackupPath(t) /\ q # job[t].to
<1> DEFINE j == job[t]
           q == Moved(s, j.src, j.dst)
<1>1. OpJob(j) /\ FirstStep(j) = "copy"
  BY ReadyFacts DEF CopyingOK
<1>2. ~Own(q) /\ Moved(q, j.dst, j.src) = s /\ s \in Walkways
  BY <1>1, TakenFacts
<1>3. j.from \in Walkways /\ Moved(j.to, j.dst, j.src) = j.from
  <2>1. j.from \in Walkways /\ j.src \in Walkways /\ j.dst \in Walkways /\ Under(j.from, j.src)
        /\ j.to = Moved(j.from, j.src, j.dst)
    BY <1>1, JobPaths
  <2> QED
    BY <2>1, MovedBack
<1> HIDE DEF q
<1>4. q # j.to
  BY <1>2, <1>3, UnderOrder
<1> QED
  BY <1>1, <1>2, <1>4, OwnPaths DEF q

LEMMA CopyTempExact ==
    ASSUME NEW t \in Threads, Ready(t), ExactOK(t), CopyTemp(t)
    PROVE  ExactOK(t)'
<1> DEFINE j == job[t]
           k == job'[t]
           s == TempPath(t)
<1>1. JobsOK /\ OpJob(j) /\ BeforeRooted(j) /\ j.pc = "temp" /\ j.pc \in WorkPcs
  BY ReadyFacts DEF CopyTemp, At, WorkPcs, FilePcs
<1>2. CASE tree' = tree /\ End(t, FALSE)
  <2>1. GoesOn(t) /\ k.pc = "done" /\ k.ok = FALSE
    BY <1>1, <1>2, GotoEnd, GoesToEnd DEF Goes, GoesOn
  <2> QED
    BY <1>1, <1>2, <2>1, WorkFails
<1>3. CASE /\ CanMkdirAll(tree, Parent(j.to))
           /\ tree' = [MkdirAll(tree, Parent(j.to)) EXCEPT ![TempPath(t)] = Partial(j.id)]
           /\ Goto(t, [pc |-> "data"])
  <2>1. k.pc = "data" /\ SamePlace(k, j) /\ Keeps(k, j) /\ SameStart(k, j) /\ SameList(k, j)
    BY <1>1, <1>3, GotoPc
  <2>2. GoesOn(t)
    BY <1>1, <2>1, CopyTempJob DEF Goes, GoesOn
  <2>3. k.pc \in WorkPcs \ {"next"} /\ k.todo = j.todo /\ k.data = j.data /\ k.id = j.id
        /\ k.from = j.from /\ k.to = j.to /\ k.before = j.before
    BY <2>1 DEF WorkPcs, FilePcs, SamePlace, SameList, SameStart, Keeps
  <2>4. TempPath(t)' = s /\ Aside(t)' = {s} /\ Aside(t) = {}
    BY <1>1, <2>1, SamePaths DEF Aside
  <2>5. /\ s \in Paths /\ s # j.to /\ Own(s) /\ Bears(s, j.id) /\ ~Within(j.to, s) /\ j.to \in Paths /\ j.to \in Walkways
        /\ j.to = Moved(j.from, j.src, j.dst)
    BY <1>1, OwnPaths, JobPaths
  <2>6. /\ Parent(s) = Parent(j.to) /\ \A r \in Walkways : Within(s, r) <=> Within(j.to, r)
    BY <1>1, OpPaths
  <2>7. /\ tree'[s] = Copying[j.id]
        /\ \A q \in Paths : /\ q # s /\ Within(s, q) => tree'[q] = Dir /\ tree[q] \in {None, Dir}
                            /\ q # s /\ ~Within(s, q) => tree'[q] = tree[q]
                            /\ q # s /\ tree[q] # None => tree'[q] = tree[q]
    <3>1. TreeGood /\ tree[s] # Dir /\ j.id \in Ids
      <4>1. Last(s) = Copying[j.id] /\ j.id \in Ids
        BY <1>1, OpPaths DEF OpJob
      <4> QED
        BY <2>5, <4>1 DEF Ready, TreeInv, TreeGood, TempsAreFiles
    <3>2. Adds(s, Copying[j.id])
      BY <1>3, <2>5, <2>6, <3>1 DEF Adds, Partial
    <3>3. Copying[j.id] \in Unfinished
      BY <3>1 DEF Unfinished
    <3> QED
      BY <2>5, <3>1, <3>2, <3>3, AddsEntries
  <2>8. ASSUME CopyingOK(t)
        PROVE  /\ \A q \in Paths \ Aside(t)' : tree'[q] \in {j.before[q], Due(j, q)}
               /\ \A q \in Paths : (\E r \in Taken(j) : Moved(r, j.src, j.dst) = q /\ ~Under(r, j.from))
                                   /\ tree[q] # None => tree'[q] = tree[q]
               /\ AtPlace(t)'
    <3>1. IsFile(j.before[j.from]) /\ j.data = j.before[j.from] /\ tree[j.to] # Dir /\ j.from \in Taken(j)
      BY <1>1, <2>8 DEF CopyingOK, AtPlace, FilePcs, ItemsTaken
    <3>2. tree'[j.to] = tree[j.to]
      BY <2>5, <2>6, <2>7, UnderOrder
    <3>3. AtPlace(t)'
      BY <2>1, <2>3, <2>4, <2>7, <3>1, <3>2 DEF AtPlace, DirPcs, FilePcs
    <3>4. ASSUME NEW q \in Paths, q # s
          PROVE  tree'[q] \in {j.before[q], Due(j, q)}
      <4>1. CASE Within(s, q)
        <5>1. Within(Moved(j.from, j.src, j.dst), q)
          BY <2>5, <2>6, <4>1, PathsAreWalkways
        <5>2. Due(j, q) = Dir
          BY <1>1, <3>1, <5>1, DueAbove
        <5> QED
          BY <2>7, <3>4, <4>1, <5>2
      <4>2. CASE ~Within(s, q)
        BY <2>4, <2>7, <2>8, <3>4, <4>2 DEF CopyingOK, OldOrNewEntries
      <4> QED
        BY <4>1, <4>2
    <3>5. ASSUME NEW q \in Paths, \E r \in Taken(j) : Moved(r, j.src, j.dst) = q /\ ~Under(r, j.from),
                 tree[q] # None
          PROVE  tree'[q] = tree[q]
      <4>1. q # s
        BY <2>8, <3>5, PlacesApart
      <4> QED
        BY <2>7, <3>5, <4>1
    <3> QED
      BY <2>4, <3>3, <3>4, <3>5
  <2> HIDE DEF s
  <2> QED
    BY <1>1, <2>1, <2>2, <2>3, <2>8, WorkStays
<1> QED
  BY <1>2, <1>3 DEF CopyTemp, Fails

LEMMA CopyDataExact ==
    ASSUME NEW t \in Threads, Ready(t), ExactOK(t), CopyData(t)
    PROVE  ExactOK(t)'
<1> DEFINE j == job[t]
           k == job'[t]
           s == TempPath(t)
<1>1. JobsOK /\ OpJob(j) /\ j.pc = "data" /\ j.pc \in WorkPcs
  BY ReadyFacts DEF CopyData, At, WorkPcs, FilePcs
<1>2. CASE tree' = tree /\ Goto(t, [pc |-> "drop"])
  <2>1. k.pc = "drop" /\ Keeps(k, j) /\ SameStart(k, j)
    BY <1>1, <1>2, GotoPc
  <2>2. GoesOn(t)
    BY <1>1, <2>1, CopyDataJob DEF Goes, GoesOn
  <2> QED
    BY <1>1, <1>2, <2>1, <2>2, WorkFails
<1>3. CASE /\ tree' = [q \in Paths |-> IF tree[q] = Partial(job[t].id) THEN j.data ELSE tree[q]]
           /\ Goto(t, [pc |-> IF j.had THEN "backup" ELSE "commit"])
  <2> DEFINE p == IF j.had THEN "backup" ELSE "commit"
  <2>1. k.pc = p /\ SamePlace(k, j) /\ Keeps(k, j) /\ SameStart(k, j) /\ SameList(k, j)
    BY <1>1, <1>3, GotoPc
  <2>2. GoesOn(t)
    BY <1>1, <2>1, CopyDataJob DEF Goes, GoesOn
  <2>3. k.pc \in WorkPcs \ {"next"} /\ k.pc \in {"backup", "commit"}
        /\ k.todo = j.todo /\ k.data = j.data /\ k.id = j.id
        /\ k.from = j.from /\ k.to = j.to /\ k.before = j.before
    BY <2>1 DEF WorkPcs, FilePcs, SamePlace, SameList, SameStart, Keeps
  <2>4. TempPath(t)' = s /\ Aside(t)' = {s} /\ Aside(t) = {s}
    BY <1>1, <2>1, <2>3, SamePaths DEF Aside
  <2>5. s \in Paths /\ s # j.to /\ j.to \in Paths
    BY <1>1, OwnPaths, JobPaths
  <2>6. ASSUME CopyingOK(t)
        PROVE  /\ \A q \in Paths \ Aside(t)' : tree'[q] \in {j.before[q], Due(j, q)}
               /\ \A q \in Paths : (\E r \in Taken(j) : Moved(r, j.src, j.dst) = q /\ ~Under(r, j.from))
                                   /\ tree[q] # None => tree'[q] = tree[q]
               /\ AtPlace(t)'
    <3>1. /\ IsFile(j.before[j.from]) /\ j.data = j.before[j.from] /\ tree[j.to] # Dir
          /\ tree[s] = Copying[j.id]
      BY <1>1, <2>6 DEF CopyingOK, AtPlace, FilePcs
    <3>2. ASSUME NEW q \in Paths, tree[q] = Copying[j.id]
          PROVE  q = s
      <4>1. q \in Walkways /\ q # <<>> /\ Last(q) = Copying[j.id]
        BY <1>1, <3>2, PathsAreWalkways DEF Ready, TreeInv, PartialsInPlace, OpJob
      <4>2. Len(q) \in 1..Len(q)
        BY <4>1, EmptySeq, LenProperties DEF Walkways
      <4>3. Bears(q, j.id)
        BY <4>1, <4>2 DEF Bears, Last
      <4>4. Copying[j.id] # None
        BY <1>1, Names4 DEF OpJob
      <4> QED
        BY <2>4, <2>6, <3>2, <4>3, <4>4, OwnEmpty
    <3>3. tree'[s] = j.data /\ \A q \in Paths : q # s => tree'[q] = tree[q]
      BY <1>3, <2>5, <3>1, <3>2 DEF Partial
    <3>4. AtPlace(t)'
      BY <2>3, <2>4, <2>5, <3>1, <3>3 DEF AtPlace, DirPcs, FilePcs
    <3>5. ASSUME NEW q \in Paths, \E r \in Taken(j) : Moved(r, j.src, j.dst) = q /\ ~Under(r, j.from)
          PROVE  tree'[q] = tree[q]
      <4>1. q # s
        BY <2>6, <3>5, PlacesApart
      <4> QED
        BY <3>3, <4>1
    <3>6. \A q \in Paths \ Aside(t)' : tree'[q] \in {j.before[q], Due(j, q)}
      BY <2>4, <2>6, <3>3 DEF CopyingOK, OldOrNewEntries
    <3> QED
      BY <3>4, <3>5, <3>6
  <2> HIDE DEF s, p
  <2> QED
    BY <1>1, <2>1, <2>2, <2>3, <2>6, WorkStays
<1> QED
  BY <1>2, <1>3 DEF CopyData

(* The answer to a rename of a copy                                        *)
LEMMA AfterRenameStart ==
    ASSUME NEW t \in Threads, Ready(t), job[t].pc \in Renames \ {"rename"}, NEW ok \in BOOLEAN, AfterRename(t, ok)
    PROVE  /\ GoesOn(t) /\ SamePlace(job'[t], job[t]) /\ SameList(job'[t], job[t])
           /\ job[t].pc = "commit" => job'[t].pc = IF ok THEN "next" ELSE "drop"
           /\ job[t].pc = "backup" => job'[t].pc = IF ok THEN "swap" ELSE "drop"
           /\ job[t].pc = "swap" => job'[t].pc = IF ok THEN "unback" ELSE "undo"
           /\ job[t].pc = "undo" => job'[t].pc = "drop"
<1>1. \E p : Goto(t, [pc |-> p])
  BY DEF AfterRename, Renames
<1>2. SameList(job'[t], job[t]) /\ SameStart(job'[t], job[t])
  BY <1>1, ReadyFacts, GotoPc
<1>3. job[t].pc \in Renames /\ JobsOK
  BY ReadyFacts
<1> QED
  BY <1>2, <1>3, AfterRenameJob DEF Goes, GoesOn

(* A refused rename, or one that fails, but for those that free the place   *)
(* of the target and fill it again                                         *)
LEMMA RenameRefused ==
    ASSUME NEW t \in Threads, Ready(t), ExactOK(t), job[t].pc \in {"commit", "backup"},
           AfterRename(t, FALSE), tree' = tree
    PROVE  ExactOK(t)'
<1>1. GoesOn(t) /\ job'[t].pc = "drop"
  BY AfterRenameStart DEF Renames
<1> QED
  BY <1>1, WorkFails DEF WorkPcs, FilePcs

LEMMA RenameCheckSame ==
    ASSUME NEW t \in Threads, ExactOK(t), UNCHANGED <<tree, job, faults>>
    PROVE  ExactOK(t)'
BY DEF ExactOK, CopyingOK, OldOrNewEntries, CopiedOrPending, AtPlace, Aside, TempPath, BackupPath, DeletingOK, FilesKept

LEMMA RenameCheckExact ==
    ASSUME NEW t \in Threads, Ready(t), ExactOK(t), RenameCheck(t)
    PROVE  ExactOK(t)'
<1> DEFINE j == job[t]
           k == job'[t]
<1>1. JobsOK /\ OpJob(j) /\ j.pc \in Renames /\ tree' = tree /\ faults' = faults
  BY ReadyFacts DEF RenameCheck
<1>2. CASE job' = job
  BY <1>1, <1>2, RenameCheckSame
<1>3. ASSUME RenameFrom(t) = RenameTo(t) \/ tree[RenameTo(t)] # None,
             AfterRename(t, RenameFrom(t) = RenameTo(t))
      PROVE  ExactOK(t)'
  <2>1. /\ j.to # TempPath(t) /\ j.to # BackupPath(t) /\ TempPath(t) # BackupPath(t)
    BY <1>1, OwnPaths
  <2>2. CASE j.pc \in {"commit", "backup"}
    <3>1. RenameFrom(t) # RenameTo(t)
      BY <2>1, <2>2 DEF RenameFrom, RenameTo
    <3>2. AfterRename(t, FALSE)
      BY <1>3, <3>1
    <3> QED
      BY <1>1, <2>2, <3>2, RenameRefused
  <2>3. CASE j.pc \in {"swap", "undo"}
    <3>1. RenameFrom(t) # RenameTo(t) /\ RenameTo(t) = j.to
      BY <2>1, <2>3 DEF RenameFrom, RenameTo
    <3>2. tree[j.to] # None
      BY <1>3, <3>1
    <3>3. ~CopyingOK(t)
      BY <2>3, <3>2 DEF CopyingOK, AtPlace
    <3>4. Within(j.src, j.dst)
      BY <2>3, <3>3 DEF ExactOK, WorkPcs, FilePcs
    <3>5. AfterRename(t, FALSE)
      BY <1>3, <3>1
    <3>6. GoesOn(t) /\ k.pc \in {"undo", "drop"}
      BY <1>1, <2>3, <3>5, AfterRenameStart DEF Renames
    <3>7. Within(k.src, k.dst)
      BY <3>4, <3>6 DEF GoesOn, Keeps
    <3> QED
      BY <3>6, <3>7, AtWork, AtFailure DEF WorkPcs, FilePcs
  <2>4. CASE j.pc = "rename"
    <3>1. RenameFrom(t) = j.src /\ RenameTo(t) = j.dst
      BY <2>4 DEF RenameFrom, RenameTo
    <3>2. End(t, j.src = j.dst)
      BY <1>3, <2>4, <3>1 DEF AfterRename
    <3>3. k.pc = "done" /\ k.ok = (j.src = j.dst) /\ Keeps(k, j) /\ SameStart(k, j)
      BY <1>1, <3>2, GotoEnd
    <3>4. k.src = j.src /\ k.dst = j.dst /\ k.before = j.before
      BY <3>3 DEF Keeps, SameStart
    <3>5. tree = j.before
      BY <2>4 DEF ExactOK
    <3>6. CASE j.src = j.dst
      <4>1. k.ok
        BY <3>3, <3>6
      <4> QED
        BY <3>3, <3>4, <3>6, <4>1, AtSuccess
    <3>7. CASE j.src # j.dst
      <4>1. ~k.ok
        BY <3>3, <3>7
      <4>2. FilesKept(t)'
        BY <1>1, <3>4, <3>5 DEF FilesKept
      <4> QED
        BY <3>3, <4>1, <4>2, AtFailure
    <3> QED
      BY <3>6, <3>7
  <2> QED
    BY <1>1, <2>2, <2>3, <2>4 DEF Renames
<1> QED
  BY <1>2, <1>3 DEF RenameCheck

CopyRenames == {"commit", "backup", "swap", "undo"}

(* The renames of a copy are of files, to names that are free.              *)
LEMMA CopyRename ==
    ASSUME NEW t \in Threads, Ready(t), CopyingOK(t), renaming = t, job[t].pc \in CopyRenames
    PROVE  LET f == RenameFrom(t)
               g == RenameTo(t) IN
           /\ f \in Paths /\ g \in Paths /\ f # g
           /\ {f, g} \in {{TempPath(t), job[t].to}, {BackupPath(t), job[t].to}}
           /\ tree[g] = None
           /\ job[t].pc # "backup" => IsFile(tree[f])
           /\ IsFile(tree[f]) => CanRename(tree, f, g)
           /\ tree[f] # None => IsFile(tree[f])
           /\ IsFile(tree[f]) /\ tree' = RenameEntry(tree, f, g) =>
                 \A q \in Paths : tree'[q] = IF q = g THEN tree[f] ELSE IF q = f THEN None ELSE tree[q]
<1> DEFINE j == job[t]
           f == RenameFrom(t)
           g == RenameTo(t)
           a == TempPath(t)
           b == BackupPath(t)
<1>1. OpJob(j) /\ Rooted /\ TreeType /\ RenameHeld /\ renaming # Nobody
  BY ReadyFacts, NamesAssumption DEF Ready, TreeInv
<1>2. /\ a \in Paths /\ b \in Paths /\ a # b /\ j.to # a /\ j.to # b /\ Bears(b, j.id)
      /\ ~Within(j.to, a) /\ ~Within(j.to, b) /\ j.to \in Paths /\ j.to \in Walkways
  BY <1>1, OwnPaths, JobPaths
<1>3. \A r \in Walkways : (Within(a, r) <=> Within(j.to, r)) /\ (Within(b, r) <=> Within(j.to, r))
  BY <1>1, OpPaths
<1>4. ~Within(a, j.to) /\ ~Within(b, j.to)
  BY <1>2, <1>3, UnderOrder
<1>5. /\ j.pc \in {"commit", "swap"} => f = a /\ g = j.to
      /\ j.pc = "backup" => f = j.to /\ g = b
      /\ j.pc = "undo" => f = b /\ g = j.to
      /\ j.pc \in {"commit", "swap", "backup", "undo"}
  BY DEF RenameFrom, RenameTo, CopyRenames
<1>6. tree[g] \in {None, Dir}
  BY <1>1 DEF RenameHeld
<1>7. tree[g] = None
  <2>1. CASE j.pc = "commit"
    BY <1>5, <1>6, <2>1 DEF CopyingOK, AtPlace
  <2>2. CASE j.pc \in {"swap", "undo"}
    BY <1>5, <2>2 DEF CopyingOK, AtPlace
  <2>3. CASE j.pc = "backup"
    <3>1. b \notin Aside(t)
      BY <1>2, <2>3 DEF Aside
    <3> QED
      BY <1>2, <1>5, <2>3, <3>1, OwnEmpty
  <2> QED
    BY <1>5, <2>1, <2>2, <2>3
<1>8. (j.pc # "backup" => IsFile(tree[f])) /\ (tree[f] # None => IsFile(tree[f]))
  <2>1. CASE j.pc \in {"commit", "swap"}
    <3>1. tree[a] = j.before[j.from] /\ IsFile(j.before[j.from])
      BY <2>1 DEF CopyingOK, AtPlace, FilePcs
    <3> QED
      BY <1>5, <2>1, <3>1
  <2>2. CASE j.pc = "undo"
    BY <1>5, <2>2 DEF CopyingOK, AtPlace
  <2>3. CASE j.pc = "backup"
    BY <1>5, <2>3 DEF CopyingOK, AtPlace, IsFile
  <2> QED
    BY <1>5, <2>1, <2>2, <2>3
<1>9. /\ f \in Paths /\ g \in Paths /\ f # g /\ {f, g} \in {{a, j.to}, {b, j.to}}
      /\ ~Within(g, f) /\ \A r \in Walkways : Within(f, r) <=> Within(g, r)
  BY <1>2, <1>3, <1>4, <1>5
<1> HIDE DEF f, g
<1>10. IsFile(tree[f]) => CanRename(tree, f, g)
  BY <1>1, <1>7, <1>9, FileMayRename
<1>11. IsFile(tree[f]) /\ tree' = RenameEntry(tree, f, g) =>
         \A q \in Paths : tree'[q] = IF q = g THEN tree[f] ELSE IF q = f THEN None ELSE tree[q]
  BY <1>1, <1>7, <1>9, FileRename
<1> QED
  BY <1>7, <1>8, <1>9, <1>10, <1>11 DEF f, g

(* A rename of a copy that is made                                         *)
CopyRenamed(t) ==
    /\ renaming = t /\ CanRename(tree, RenameFrom(t), RenameTo(t))
    /\ tree' = RenameEntry(tree, RenameFrom(t), RenameTo(t)) /\ faults' = faults
    /\ AfterRename(t, TRUE)

LEMMA RenamedEntries ==
    ASSUME NEW t \in Threads, Ready(t), CopyingOK(t), CopyRenamed(t), job[t].pc \in CopyRenames
    PROVE  /\ IsFile(tree[RenameFrom(t)])
           /\ \A q \in Paths : tree'[q] = IF q = RenameTo(t) THEN tree[RenameFrom(t)]
                                          ELSE IF q = RenameFrom(t) THEN None ELSE tree[q]
           /\ \A q \in Paths : (\E s \in Taken(job[t]) : /\ Moved(s, job[t].src, job[t].dst) = q
                                                         /\ ~Under(s, job[t].from))
                               => tree'[q] = tree[q]
<1>1. IsFile(tree[RenameFrom(t)])
  <2>1. tree[RenameFrom(t)] # None
    BY DEF CopyRenamed, CanRename
  <2> QED
    BY <2>1, CopyRename DEF CopyRenamed
<1>2. \A q \in Paths : tree'[q] = IF q = RenameTo(t) THEN tree[RenameFrom(t)]
                                  ELSE IF q = RenameFrom(t) THEN None ELSE tree[q]
  BY <1>1, CopyRename DEF CopyRenamed
<1>3. {RenameFrom(t), RenameTo(t)} \subseteq {TempPath(t), BackupPath(t), job[t].to}
  BY CopyRename DEF CopyRenamed
<1>4. ASSUME NEW q \in Paths, \E s \in Taken(job[t]) : /\ Moved(s, job[t].src, job[t].dst) = q
                                                       /\ ~Under(s, job[t].from)
      PROVE  q \notin {TempPath(t), BackupPath(t), job[t].to}
  BY <1>4, PlacesApart
<1> QED
  BY <1>1, <1>2, <1>3, <1>4

LEMMA WorkDone ==
    ASSUME NEW t \in Threads, Ready(t), ExactOK(t), job[t].pc \in FilePcs,
           GoesOn(t), job'[t].pc = "next", SamePlace(job'[t], job[t]), job'[t].todo = job[t].todo,
           CopyingOK(t) =>
               /\ \A q \in Paths : tree'[q] \in {job[t].before[q], Due(job[t], q)}
               /\ \A q \in Paths : (\E s \in Taken(job[t]) : /\ Moved(s, job[t].src, job[t].dst) = q
                                                             /\ ~Under(s, job[t].from))
                                   /\ tree[q] # None => tree'[q] = tree[q]
               /\ tree'[job[t].to] = job[t].before[job[t].from]
    PROVE  ExactOK(t)'
<1>1. job'[t].src = job[t].src /\ job'[t].dst = job[t].dst /\ Keeps(job'[t], job[t])
      /\ SameStart(job'[t], job[t])
  BY DEF GoesOn, Keeps
<1>2. ASSUME ~Within(job[t].src, job[t].dst)
      PROVE  CopyingOK(t)'
  <2>1. CopyingOK(t)
    BY <1>2 DEF ExactOK, WorkPcs
  <2>2. IsFile(job[t].before[job[t].from]) /\ job[t].pc # "next"
    BY <2>1 DEF CopyingOK, AtPlace, FilePcs
  <2> QED
    BY <1>1, <2>1, <2>2, CopyDone
<1> QED
  BY <1>1, <1>2, AtWork DEF WorkPcs

LEMMA CommitExact ==
    ASSUME NEW t \in Threads, Ready(t), ExactOK(t), job[t].pc = "commit", CopyRenamed(t)
    PROVE  ExactOK(t)'
<1> DEFINE j == job[t]
           k == job'[t]
<1>1. OpJob(j) /\ j.id \in Ids /\ BeforeRooted(j)
  BY ReadyFacts
<1>2. GoesOn(t) /\ SamePlace(k, j) /\ SameList(k, j) /\ k.pc = "next"
  BY AfterRenameStart DEF CopyRenamed, Renames
<1>3. RenameFrom(t) = TempPath(t) /\ RenameTo(t) = j.to /\ Aside(t) = {TempPath(t)}
  BY DEF RenameFrom, RenameTo, Aside
<1>4. TempPath(t) \in Paths /\ Own(TempPath(t)) /\ Bears(TempPath(t), j.id) /\ j.to # TempPath(t)
      /\ j.to \in Paths /\ j.to = Moved(j.from, j.src, j.dst)
  BY <1>1, OwnPaths, JobPaths
<1>5. ASSUME CopyingOK(t)
      PROVE  /\ \A q \in Paths : tree'[q] \in {j.before[q], Due(j, q)}
             /\ \A q \in Paths : (\E s \in Taken(j) : Moved(s, j.src, j.dst) = q /\ ~Under(s, j.from))
                                 /\ tree[q] # None => tree'[q] = tree[q]
             /\ tree'[j.to] = j.before[j.from]
  <2>1. /\ \A q \in Paths : tree'[q] = IF q = j.to THEN tree[TempPath(t)]
                                       ELSE IF q = TempPath(t) THEN None ELSE tree[q]
        /\ \A q \in Paths : (\E s \in Taken(j) : Moved(s, j.src, j.dst) = q /\ ~Under(s, j.from))
                            => tree'[q] = tree[q]
    BY <1>3, <1>5, RenamedEntries DEF CopyRenames
  <2>2. tree[TempPath(t)] = j.before[j.from] /\ j.from \in Taken(j)
    BY <1>5 DEF CopyingOK, AtPlace, FilePcs, ItemsTaken
  <2>3. Due(j, j.to) = j.before[j.from]
    BY <1>1, <1>4, <2>2, DueMoved
  <2>4. j.before[TempPath(t)] = None
    BY <1>4, ReadyFacts
  <2>5. \A q \in Paths \ {TempPath(t)} : tree[q] \in {j.before[q], Due(j, q)}
    BY <1>3, <1>5 DEF CopyingOK, OldOrNewEntries
  <2> QED
    BY <1>4, <2>1, <2>2, <2>3, <2>4, <2>5
<1>6. j.pc \in FilePcs /\ k.todo = j.todo
  BY <1>2 DEF FilePcs, SameList
<1> QED
  BY <1>2, <1>5, <1>6, WorkDone

LEMMA BackupExact ==
    ASSUME NEW t \in Threads, Ready(t), ExactOK(t), job[t].pc = "backup", CopyRenamed(t)
    PROVE  ExactOK(t)'
<1> DEFINE j == job[t]
           k == job'[t]
<1>1. OpJob(j) /\ j.id \in Ids /\ BeforeRooted(j)
  BY ReadyFacts
<1>2. GoesOn(t) /\ SamePlace(k, j) /\ SameList(k, j) /\ k.pc = "swap"
  BY AfterRenameStart DEF CopyRenamed, Renames
<1>3. RenameFrom(t) = j.to /\ RenameTo(t) = BackupPath(t) /\ Aside(t) = {TempPath(t)}
  BY DEF RenameFrom, RenameTo, Aside
<1>4. /\ TempPath(t) \in Paths /\ BackupPath(t) \in Paths /\ TempPath(t) # BackupPath(t)
      /\ j.to # TempPath(t) /\ j.to # BackupPath(t) /\ j.to \in Paths
  BY <1>1, OwnPaths, JobPaths
<1>5. /\ TempPath(t)' = TempPath(t) /\ BackupPath(t)' = BackupPath(t)
      /\ k.from = j.from /\ k.to = j.to /\ k.before = j.before /\ k.data = j.data /\ k.todo = j.todo
  BY <1>2, SamePaths DEF GoesOn, SamePlace, SameList, SameStart
<1>6. Aside(t)' = {TempPath(t), BackupPath(t), j.to}
  BY <1>2, <1>5 DEF Aside
<1>7. ASSUME CopyingOK(t)
      PROVE  /\ \A q \in Paths \ Aside(t)' : tree'[q] \in {j.before[q], Due(j, q)}
             /\ \A q \in Paths : (\E s \in Taken(j) : Moved(s, j.src, j.dst) = q /\ ~Under(s, j.from))
                                 /\ tree[q] # None => tree'[q] = tree[q]
             /\ AtPlace(t)'
  <2>1. /\ IsFile(tree[j.to])
        /\ \A q \in Paths : tree'[q] = IF q = BackupPath(t) THEN tree[j.to]
                                       ELSE IF q = j.to THEN None ELSE tree[q]
        /\ \A q \in Paths : (\E s \in Taken(j) : Moved(s, j.src, j.dst) = q /\ ~Under(s, j.from))
                            => tree'[q] = tree[q]
    BY <1>3, <1>7, RenamedEntries DEF CopyRenames
  <2>2. tree[TempPath(t)] = j.data /\ j.data = j.before[j.from] /\ IsFile(j.before[j.from])
    BY <1>7 DEF CopyingOK, AtPlace, FilePcs
  <2>3. \A q \in Paths \ {TempPath(t)} : tree[q] \in {j.before[q], Due(j, q)}
    BY <1>3, <1>7 DEF CopyingOK, OldOrNewEntries
  <2>4. /\ tree'[TempPath(t)] = j.data /\ tree'[j.to] = None /\ IsFile(tree'[BackupPath(t)])
        /\ tree'[BackupPath(t)] \in {j.before[j.to], Due(j, j.to)}
    BY <1>4, <2>1, <2>2, <2>3
  <2>5. Due(k, j.to) = Due(j, j.to)
    BY <1>2, SameDue DEF GoesOn
  <2>6. AtPlace(t)'
    BY <1>2, <1>5, <2>2, <2>4, <2>5 DEF AtPlace, DirPcs, FilePcs
  <2>7. \A q \in Paths \ Aside(t)' : tree'[q] \in {j.before[q], Due(j, q)}
    BY <1>6, <2>1, <2>3
  <2> QED
    BY <2>1, <2>6, <2>7
<1>8. j.pc \in WorkPcs \ {"next"} /\ k.pc \in WorkPcs \ {"next"} /\ k.todo = j.todo
  BY <1>2, <1>5 DEF FilePcs, WorkPcs
<1> QED
  BY <1>2, <1>7, <1>8, WorkStays

LEMMA SwapExact ==
    ASSUME NEW t \in Threads, Ready(t), ExactOK(t), job[t].pc = "swap", CopyRenamed(t)
    PROVE  ExactOK(t)'
<1> DEFINE j == job[t]
           k == job'[t]
<1>1. OpJob(j) /\ j.id \in Ids /\ BeforeRooted(j)
  BY ReadyFacts
<1>2. GoesOn(t) /\ SamePlace(k, j) /\ SameList(k, j) /\ k.pc = "unback"
  BY AfterRenameStart DEF CopyRenamed, Renames
<1>3. RenameFrom(t) = TempPath(t) /\ RenameTo(t) = j.to /\ Aside(t) = {TempPath(t), BackupPath(t), j.to}
  BY DEF RenameFrom, RenameTo, Aside
<1>4. /\ TempPath(t) \in Paths /\ BackupPath(t) \in Paths /\ TempPath(t) # BackupPath(t)
      /\ j.to # TempPath(t) /\ j.to # BackupPath(t) /\ j.to \in Paths /\ Bears(TempPath(t), j.id)
      /\ j.to = Moved(j.from, j.src, j.dst)
  BY <1>1, OwnPaths, JobPaths
<1>5. /\ TempPath(t)' = TempPath(t) /\ BackupPath(t)' = BackupPath(t)
      /\ k.from = j.from /\ k.to = j.to /\ k.before = j.before /\ k.data = j.data /\ k.todo = j.todo
  BY <1>2, SamePaths DEF GoesOn, SamePlace, SameList, SameStart
<1>6. Aside(t)' = {BackupPath(t)}
  BY <1>2, <1>5 DEF Aside
<1>7. ASSUME CopyingOK(t)
      PROVE  /\ \A q \in Paths \ Aside(t)' : tree'[q] \in {j.before[q], Due(j, q)}
             /\ \A q \in Paths : (\E s \in Taken(j) : Moved(s, j.src, j.dst) = q /\ ~Under(s, j.from))
                                 /\ tree[q] # None => tree'[q] = tree[q]
             /\ AtPlace(t)'
  <2>1. /\ \A q \in Paths : tree'[q] = IF q = j.to THEN tree[TempPath(t)]
                                       ELSE IF q = TempPath(t) THEN None ELSE tree[q]
        /\ \A q \in Paths : (\E s \in Taken(j) : Moved(s, j.src, j.dst) = q /\ ~Under(s, j.from))
                            => tree'[q] = tree[q]
    BY <1>3, <1>7, RenamedEntries DEF CopyRenames
  <2>2. /\ tree[TempPath(t)] = j.data /\ j.data = j.before[j.from] /\ IsFile(j.before[j.from])
        /\ j.from \in Taken(j)
    BY <1>7 DEF CopyingOK, AtPlace, FilePcs, ItemsTaken
  <2>3. \A q \in Paths \ {TempPath(t), BackupPath(t), j.to} : tree[q] \in {j.before[q], Due(j, q)}
    BY <1>3, <1>7 DEF CopyingOK, OldOrNewEntries
  <2>4. Due(j, j.to) = j.before[j.from] /\ j.before[TempPath(t)] = None
    BY <1>1, <1>4, <2>2, DueMoved, ReadyFacts
  <2>5. AtPlace(t)'
    <3>1. tree'[j.to] = j.data
      BY <1>4, <2>1, <2>2
    <3> QED
      BY <1>2, <1>5, <2>2, <3>1 DEF AtPlace, DirPcs, FilePcs
  <2>6. \A q \in Paths \ Aside(t)' : tree'[q] \in {j.before[q], Due(j, q)}
    BY <1>4, <1>6, <2>1, <2>2, <2>3, <2>4
  <2> QED
    BY <2>1, <2>5, <2>6
<1>8. j.pc \in WorkPcs \ {"next"} /\ k.pc \in WorkPcs \ {"next"} /\ k.todo = j.todo
  BY <1>2, <1>5 DEF FilePcs, WorkPcs
<1> QED
  BY <1>2, <1>7, <1>8, WorkStays

LEMMA UndoExact ==
    ASSUME NEW t \in Threads, Ready(t), ExactOK(t), job[t].pc = "undo", CopyRenamed(t)
    PROVE  ExactOK(t)'
<1> DEFINE j == job[t]
           k == job'[t]
<1>1. OpJob(j)
  BY ReadyFacts
<1>2. GoesOn(t) /\ k.pc = "drop" /\ k.src = j.src /\ k.dst = j.dst
  BY AfterRenameStart DEF CopyRenamed, Renames, GoesOn, Keeps
<1>3. RenameFrom(t) = BackupPath(t) /\ RenameTo(t) = j.to /\ Aside(t) = {TempPath(t), BackupPath(t), j.to}
  BY DEF RenameFrom, RenameTo, Aside
<1>4. ASSUME CopyingOK(t)
      PROVE  FilesKept(t)'
  <2>1. \A q \in Paths : tree'[q] = IF q = j.to THEN tree[BackupPath(t)]
                                    ELSE IF q = BackupPath(t) THEN None ELSE tree[q]
    BY <1>3, <1>4, RenamedEntries DEF CopyRenames
  <2>2. tree[BackupPath(t)] \in {j.before[j.to], Due(j, j.to)}
    BY <1>4 DEF CopyingOK, AtPlace
  <2>3. \A q \in Paths \ {TempPath(t), BackupPath(t), j.to} : tree[q] \in {j.before[q], Due(j, q)}
    BY <1>3, <1>4 DEF CopyingOK, OldOrNewEntries
  <2>4. \A q \in Visible : q \in Paths /\ q # TempPath(t) /\ q # BackupPath(t)
    BY <1>1, VisibleGiven
  <2>5. \A q \in Visible : tree'[q] \in {j.before[q], Due(j, q)}
    BY <2>1, <2>2, <2>3, <2>4
  <2>6. SeparatePaths(j) /\ FirstStep(j) = "copy"
    BY <1>4 DEF CopyingOK
  <2>7. faults' <= 1 => \A q \in Visible : \/ tree'[q] \in {j.before[q], Due(j, q)}
                                           \/ tree'[q] = None /\ Under(q, j.src) /\ j.op # "copy"
    BY <2>5
  <2> QED
    BY <1>2, <2>6, <2>7, FilesKeptFrom DEF GoesOn
<1>5. ~Within(j.src, j.dst) => CopyingOK(t)
  BY DEF ExactOK, WorkPcs, FilePcs
<1> QED
  BY <1>2, <1>4, <1>5, AtFailure

(* A rename to the freed place that fails                                  *)
LEMMA SwapFailsExact ==
    ASSUME NEW t \in Threads, Ready(t), ExactOK(t), job[t].pc \in {"swap", "undo"}, renaming = t,
           AfterRename(t, FALSE), tree' = tree,
           \/ faults' = faults + 1
           \/ ~CanRename(tree, RenameFrom(t), RenameTo(t)) /\ faults' = faults
    PROVE  ExactOK(t)'
<1> DEFINE j == job[t]
           k == job'[t]
<1>1. OpJob(j) /\ faults \in Nat
  BY ReadyFacts
<1>2. /\ GoesOn(t) /\ SamePlace(k, j) /\ SameList(k, j) /\ k.src = j.src /\ k.dst = j.dst
      /\ j.pc = "swap" => k.pc = "undo"
      /\ j.pc = "undo" => k.pc = "drop"
  BY AfterRenameStart DEF Renames, GoesOn, Keeps
<1>3. CopyingOK(t) => faults' = faults + 1
  <2>1. ASSUME CopyingOK(t)
        PROVE  CanRename(tree, RenameFrom(t), RenameTo(t))
    BY <2>1, CopyRename DEF CopyRenames
  <2> QED
    BY <2>1
<1>4. ~Within(j.src, j.dst) => CopyingOK(t)
  BY DEF ExactOK, WorkPcs, FilePcs
<1>5. CASE j.pc = "swap"
  <2>1. /\ TempPath(t)' = TempPath(t) /\ BackupPath(t)' = BackupPath(t)
        /\ k.from = j.from /\ k.to = j.to /\ k.before = j.before /\ k.data = j.data /\ k.todo = j.todo
    BY <1>2, SamePaths DEF GoesOn, SamePlace, SameList, SameStart
  <2>2. Aside(t)' = Aside(t)
    BY <1>2, <1>5, <2>1 DEF Aside
  <2>3. ASSUME CopyingOK(t)
        PROVE  AtPlace(t)' /\ \A q \in Paths \ Aside(t)' : tree'[q] \in {j.before[q], Due(j, q)}
    <3>1. /\ tree[TempPath(t)] = j.data /\ j.data = j.before[j.from] /\ IsFile(j.before[j.from])
          /\ tree[j.to] = None /\ IsFile(tree[BackupPath(t)])
          /\ tree[BackupPath(t)] \in {j.before[j.to], Due(j, j.to)}
      BY <1>5, <2>3 DEF CopyingOK, AtPlace, FilePcs
    <3>2. faults' >= 1
      BY <1>1, <1>3, <2>3
    <3>3. Due(k, j.to) = Due(j, j.to)
      BY <1>2, SameDue DEF GoesOn
    <3>4. AtPlace(t)'
      BY <1>2, <1>5, <2>1, <3>1, <3>2, <3>3 DEF AtPlace, DirPcs, FilePcs
    <3> QED
      BY <2>2, <2>3, <3>4 DEF CopyingOK, OldOrNewEntries
  <2>4. j.pc \in WorkPcs \ {"next"} /\ k.pc \in WorkPcs \ {"next"}
    BY <1>2, <1>5 DEF WorkPcs, FilePcs
  <2> QED
    BY <1>2, <2>1, <2>3, <2>4, WorkStays
<1>6. CASE j.pc = "undo"
  <2>1. CopyingOK(t) => faults >= 1
    BY <1>6 DEF CopyingOK, AtPlace
  <2>2. CopyingOK(t) => ~(faults' <= 1)
    BY <1>1, <1>3, <2>1
  <2>3. CopyingOK(t) => FilesKept(t)'
    BY <2>2 DEF FilesKept
  <2> QED
    BY <1>2, <1>4, <1>6, <2>3, AtFailure
<1> QED
  BY <1>5, <1>6

(* The rename of an entry, with all that is below it                        *)
LEMMA RenamedExact ==
    ASSUME NEW t \in Threads, Ready(t), ExactOK(t), job[t].pc = "rename", renaming = t,
           CanRename(tree, job[t].src, job[t].dst), SeparatePaths(job[t]),
           tree' = RenameEntry(tree, job[t].src, job[t].dst)
    PROVE  tree' = After(job[t])
<1> DEFINE j == job[t]
<1>1. /\ OpJob(j) /\ Rooted /\ TreeType /\ j.src \in Walkways /\ j.dst \in Walkways
      /\ j.src \in Paths /\ j.dst \in Paths
  BY ReadyFacts, JobPaths
<1>2. FirstStep(j) = "rename" /\ tree = j.before /\ j.op # "copy"
  BY <1>1 DEF ExactOK, OpJob, PcFits
<1>3. /\ tree[j.src] # None /\ ParentIsDir(tree, j.dst)
      /\ tree[j.dst] = Dir => Children(tree, j.dst) = {}
      /\ tree[j.dst] \in {None, Dir}
  <2>1. RenameHeld /\ renaming # Nobody /\ RenameTo(t) = j.dst
    BY NamesAssumption DEF Ready, TreeInv, RenameTo
  <2> QED
    BY <2>1 DEF CanRename, RenameHeld
<1>4. \A s \in Paths : Under(s, j.src) /\ tree[s] # None <=> s \in Taken(j)
  BY <1>2 DEF Taken
<1>5. ASSUME NEW q \in Paths
      PROVE  tree'[q] = After(j)[q]
  <2> DEFINE p == Moved(q, j.dst, j.src)
  <2>1. q \in Walkways
    BY PathsAreWalkways
  <2>2. tree'[q] = IF Under(q, j.dst) THEN IF p \in Paths THEN tree[p] ELSE None
                   ELSE IF Under(q, j.src) THEN None ELSE tree[q]
    BY DEF RenameEntry
  <2>3. Under(q, j.dst) => Under(p, j.src) /\ Moved(p, j.src, j.dst) = q
    BY <1>1, <2>1, MovedUnder, MovedBack
  <2> HIDE DEF p
  <2>4. CASE \E s \in Taken(j) : Moved(s, j.src, j.dst) = q
    <3>1. PICK s \in Taken(j) : Moved(s, j.src, j.dst) = q
      BY <2>4
    <3>2. s \in Paths /\ Under(q, j.dst) /\ p = s
      BY <1>1, <3>1, TakenFacts DEF p
    <3>3. ~Under(q, j.src)
      BY <1>1, <2>1, <3>2, PathsApart
    <3>4. After(j)[q] = j.before[s]
      BY <1>1, <3>1, <3>3, AfterDue, DueMoved
    <3> QED
      BY <1>2, <2>2, <3>2, <3>4
  <2>5. CASE ~\E s \in Taken(j) : Moved(s, j.src, j.dst) = q
    <3>1. Due(j, q) = IF Within(j.dst, q) THEN Dir ELSE j.before[q]
      BY <1>1, <2>5, DueElse
    <3>2. CASE Under(q, j.dst)
      <4>1. tree'[q] = None
        BY <1>4, <2>2, <2>3, <2>5, <3>2
      <4>2. q # j.dst
        <5>1. j.src \in Taken(j) /\ Moved(j.src, j.src, j.dst) = j.dst
          BY <1>1, <1>3, <1>4, UnderOrder, MovedUnder
        <5> QED
          BY <2>5, <5>1
      <4>3. tree[q] = None
        <5>1. Children(tree, j.dst) = {} \/ tree[j.dst] # Dir
          BY <1>3
        <5>2. Within(q, j.dst)
          BY <1>1, <2>1, <3>2, <4>2, UnderOrder
        <5> QED
          BY <1>1, <5>1, <5>2, NothingBelow
      <4>4. ~Under(q, j.src) /\ ~Within(j.dst, q)
        BY <1>1, <2>1, <3>2, PathsApart, UnderOrder
      <4>5. After(j)[q] = j.before[q]
        BY <1>1, <3>1, <4>4, AfterDue
      <4> QED
        BY <1>2, <4>1, <4>3, <4>5
    <3>3. CASE ~Under(q, j.dst) /\ Under(q, j.src)
      BY <1>1, <1>2, <2>2, <3>3, AfterDue
    <3>4. CASE ~Under(q, j.dst) /\ ~Under(q, j.src)
      <4>1. tree'[q] = tree[q] /\ After(j)[q] = Due(j, q)
        BY <1>1, <2>2, <3>4, AfterDue
      <4>2. Within(j.dst, q) => tree[q] = Dir
        BY <1>3 DEF ParentIsDir
      <4> QED
        BY <1>2, <3>1, <4>1, <4>2
    <3> QED
      BY <3>2, <3>3, <3>4
  <2> QED
    BY <2>4, <2>5
<1>6. tree' = [q \in Paths |-> tree'[q]] /\ After(j) = [q \in Paths |-> After(j)[q]]
  BY DEF RenameEntry, After
<1> QED
  BY <1>5, <1>6

LEMMA RenameDoExact ==
    ASSUME NEW t \in Threads, Ready(t), ExactOK(t), RenameDo(t)
    PROVE  ExactOK(t)'
<1> DEFINE j == job[t]
           k == job'[t]
<1>1. JobsOK /\ OpJob(j) /\ renaming = t /\ j.pc \in Renames
  BY ReadyFacts, NamesAssumption DEF RenameDo, Ready, TreeInv, RenameHeld
<1>2. CASE /\ CanRename(tree, RenameFrom(t), RenameTo(t))
           /\ tree' = RenameEntry(tree, RenameFrom(t), RenameTo(t))
           /\ AfterRename(t, TRUE) /\ faults' = faults
  <2>1. CopyRenamed(t)
    BY <1>1, <1>2 DEF CopyRenamed
  <2>2. CASE j.pc = "rename"
    <3>1. RenameFrom(t) = j.src /\ RenameTo(t) = j.dst /\ End(t, TRUE)
      BY <1>2, <2>2 DEF RenameFrom, RenameTo, AfterRename
    <3>2. k.pc = "done" /\ k.ok = TRUE /\ Keeps(k, j) /\ SameStart(k, j)
      BY <1>1, <3>1, GotoEnd
    <3>3. After(k) = After(j) /\ k.src = j.src /\ k.dst = j.dst
      BY <3>2, SameDue
    <3>4. ASSUME ~Within(j.src, j.dst)
          PROVE  tree' = After(j)
      <4>1. SeparatePaths(j)
        <5>1. ~Within(j.dst, j.src)
          BY <1>2, <3>1 DEF CanRename
        <5>2. j.src # j.dst
          BY <1>1, <3>1, NamesAssumption DEF Ready, TreeInv, RenameHeld
        <5> QED
          BY <3>4, <5>1, <5>2 DEF SeparatePaths
      <4> QED
        BY <1>1, <1>2, <2>2, <3>1, <4>1, RenamedExact
    <3> QED
      BY <3>2, <3>3, <3>4, AtSuccess
  <2> QED
    BY <1>1, <2>1, <2>2, CommitExact, BackupExact, SwapExact, UndoExact DEF Renames
<1>3. CASE /\ AfterRename(t, FALSE) /\ tree' = tree
           /\ \/ faults' = faults + 1
              \/ ~CanRename(tree, RenameFrom(t), RenameTo(t)) /\ faults' = faults
  <2>1. CASE j.pc = "rename"
    <3>1. End(t, FALSE)
      BY <1>3, <2>1 DEF AfterRename
    <3>2. k.pc = "done" /\ k.ok = FALSE /\ Keeps(k, j) /\ SameStart(k, j)
      BY <1>1, <3>1, GotoEnd
    <3>3. tree' = k.before
      BY <1>3, <2>1, <3>2 DEF ExactOK, SameStart
    <3>4. FilesKept(t)'
      BY <3>3 DEF FilesKept
    <3> QED
      BY <3>2, <3>4, AtFailure
  <2>2. CASE j.pc \in {"commit", "backup"}
    BY <1>3, <2>2, RenameRefused
  <2>3. CASE j.pc \in {"swap", "undo"}
    BY <1>1, <1>3, <2>3, SwapFailsExact
  <2> QED
    BY <1>1, <2>1, <2>2, <2>3 DEF Renames
<1> QED
  BY <1>2, <1>3 DEF RenameDo

LEMMA CopyDropExact ==
    ASSUME NEW t \in Threads, Ready(t), ExactOK(t), CopyDrop(t)
    PROVE  ExactOK(t)'
<1> DEFINE j == job[t]
           k == job'[t]
<1>1. JobsOK /\ OpJob(j) /\ j.pc = "drop" /\ End(t, FALSE) /\ faults \in Nat
  BY ReadyFacts DEF CopyDrop, At
<1>2. k.pc = "done" /\ k.ok = FALSE /\ Keeps(k, j) /\ SameStart(k, j)
  BY <1>1, GotoEnd
<1>3. After(k) = After(j) /\ k.src = j.src /\ k.dst = j.dst /\ k.before = j.before
  BY <1>2, SameDue
<1>4. \A q \in Visible : tree'[q] = tree[q]
  <2>1. \A q \in Visible : q \in Paths /\ q # TempPath(t)
    BY <1>1, VisibleGiven
  <2>2. TreeType
    BY ReadyFacts
  <2> QED
    BY <2>1, <2>2 DEF CopyDrop, RemoveEntry, TreeType
<1>5. faults' \in {faults, faults + 1}
  BY DEF CopyDrop, Pass, Fault
<1>6. faults' <= 1 => faults <= 1
  BY <1>1, <1>5
<1>7. ASSUME ~Within(j.src, j.dst)
      PROVE  FilesKept(t)'
  <2>1. FilesKept(t)
    BY <1>1, <1>7 DEF ExactOK
  <2> QED
    BY <1>3, <1>4, <1>6, <2>1 DEF FilesKept
<1> QED
  BY <1>2, <1>3, <1>7, AtFailure

LEMMA CopyUnbackExact ==
    ASSUME NEW t \in Threads, Ready(t), ExactOK(t), CopyUnback(t)
    PROVE  ExactOK(t)'
<1> DEFINE j == job[t]
           k == job'[t]
           b == BackupPath(t)
<1>1. JobsOK /\ OpJob(j) /\ TreeType /\ j.pc = "unback" /\ j.pc \in WorkPcs /\ j.pc \in FilePcs
  BY ReadyFacts DEF CopyUnback, At, WorkPcs, FilePcs
<1>2. CASE tree' = tree /\ End(t, FALSE)
  <2>1. GoesOn(t) /\ k.pc = "done" /\ k.ok = FALSE
    BY <1>1, <1>2, GotoEnd, GoesToEnd DEF Goes, GoesOn
  <2> QED
    BY <1>1, <1>2, <2>1, WorkFails
<1>3. CASE tree' = RemoveEntry(tree, b) /\ Goto(t, [pc |-> "next"])
  <2>1. k.pc = "next" /\ SamePlace(k, j) /\ Keeps(k, j) /\ SameStart(k, j) /\ SameList(k, j)
    BY <1>1, <1>3, GotoPc
  <2>2. GoesOn(t) /\ k.todo = j.todo
    BY <1>1, <2>1, CopyUnbackJob DEF Goes, GoesOn, SameList
  <2>3. b \in Paths /\ b # j.to /\ Bears(b, j.id) /\ j.to \in Paths /\ Aside(t) = {b}
    BY <1>1, OwnPaths, JobPaths DEF Aside
  <2>4. \A q \in Paths : tree'[q] = IF q = b THEN None ELSE tree[q]
    BY <1>1, <1>3, <2>3 DEF RemoveEntry, TreeType
  <2>5. ASSUME CopyingOK(t)
        PROVE  /\ \A q \in Paths : tree'[q] \in {j.before[q], Due(j, q)}
               /\ \A q \in Paths : (\E s \in Taken(j) : Moved(s, j.src, j.dst) = q /\ ~Under(s, j.from))
                                   /\ tree[q] # None => tree'[q] = tree[q]
               /\ tree'[j.to] = j.before[j.from]
    <3>1. tree[j.to] = j.before[j.from]
      BY <1>1, <2>5 DEF CopyingOK, AtPlace, FilePcs
    <3>2. j.before[b] = None
      BY <2>3, ReadyFacts
    <3>3. \A q \in Paths \ {b} : tree[q] \in {j.before[q], Due(j, q)}
      BY <2>3, <2>5 DEF CopyingOK, OldOrNewEntries
    <3>4. ASSUME NEW q \in Paths, \E s \in Taken(j) : Moved(s, j.src, j.dst) = q /\ ~Under(s, j.from)
          PROVE  tree'[q] = tree[q]
      <4>1. q # b
        BY <2>5, <3>4, PlacesApart
      <4> QED
        BY <2>4, <4>1
    <3>5. tree'[j.to] = j.before[j.from]
      BY <2>3, <2>4, <3>1
    <3>6. \A q \in Paths : tree'[q] \in {j.before[q], Due(j, q)}
      BY <2>4, <3>2, <3>3
    <3> QED
      BY <3>4, <3>5, <3>6
  <2> HIDE DEF b
  <2> QED
    BY <1>1, <2>1, <2>2, <2>5, WorkDone
<1> QED
  BY <1>2, <1>3 DEF CopyUnback, Fails

(* The deletion of what was moved                                          *)
LEMMA DeletionFails ==
    ASSUME NEW t \in Threads, Ready(t), ~Within(job[t].src, job[t].dst) => DeletingOK(t), tree' = tree, End(t, FALSE)
    PROVE  ExactOK(t)'
<1> DEFINE j == job[t]
           k == job'[t]
<1>1. k.pc = "done" /\ k.ok = FALSE /\ Keeps(k, j) /\ SameStart(k, j)
  BY ReadyFacts, GotoEnd
<1>2. After(k) = After(j) /\ k.src = j.src /\ k.dst = j.dst /\ k.before = j.before
  BY <1>1, SameDue
<1>3. ASSUME DeletingOK(t)
      PROVE  FilesKept(t)'
  <2>1. \A q \in Paths : tree[q] \in {j.before[q], After(j)[q]}
    BY <1>3 DEF DeletingOK
  <2>2. Visible \subseteq Paths
    BY DEF Visible
  <2> QED
    BY <1>2, <2>1, <2>2 DEF FilesKept
<1> QED
  BY <1>1, <1>2, <1>3, AtFailure

LEMMA DeletionDone ==
    ASSUME NEW t \in Threads, Ready(t), ~Within(job[t].src, job[t].dst) => DeletingOK(t),
           Children(tree, job[t].src) = {}, tree' = RemoveEntry(tree, job[t].src), End(t, TRUE)
    PROVE  ExactOK(t)'
<1> DEFINE j == job[t]
           k == job'[t]
<1>1. k.pc = "done" /\ k.ok = TRUE /\ Keeps(k, j) /\ SameStart(k, j)
  BY ReadyFacts, GotoEnd
<1>2. After(k) = After(j) /\ k.src = j.src /\ k.dst = j.dst /\ k.before = j.before
  BY <1>1, SameDue
<1>3. OpJob(j) /\ Rooted /\ TreeType /\ j.src \in Paths /\ j.src \in Walkways
  BY ReadyFacts, JobPaths
<1>4. ASSUME DeletingOK(t)
      PROVE  tree' = After(j)
  <2>1. ASSUME NEW q \in Paths
        PROVE  tree'[q] = After(j)[q]
    <3>1. tree'[q] = IF q = j.src THEN None ELSE tree[q]
      BY <1>3 DEF RemoveEntry, TreeType
    <3>2. CASE Under(q, j.src)
      <4>1. After(j)[q] = None
        BY <1>4, <3>2 DEF DeletingOK
      <4>2. Within(q, j.src) => tree[q] = None
        BY <1>3, NothingBelow
      <4> QED
        BY <1>3, <3>1, <3>2, <4>1, <4>2, UnderOrder, PathsAreWalkways
    <3>3. CASE ~Under(q, j.src)
      <4>1. q # j.src
        BY <1>3, <3>3, UnderOrder
      <4> QED
        BY <1>4, <3>1, <3>3, <4>1 DEF DeletingOK
    <3> QED
      BY <3>2, <3>3
  <2>2. tree' = [q \in Paths |-> tree'[q]] /\ After(j) = [q \in Paths |-> After(j)[q]]
    BY <1>3 DEF RemoveEntry, TreeType, After
  <2> QED
    BY <2>1, <2>2
<1> QED
  BY <1>1, <1>2, <1>4, AtSuccess

LEMMA DeletionGoesOn ==
    ASSUME NEW t \in Threads, Ready(t), ~Within(job[t].src, job[t].dst) => DeletingOK(t), Goto(t, [pc |-> "clear"]),
           \/ tree' = tree
           \/ \E c \in Paths : Within(c, job[t].src) /\ tree' = RemoveEntry(tree, c)
    PROVE  ExactOK(t)'
<1> DEFINE j == job[t]
           k == job'[t]
<1>1. k.pc = "clear" /\ Keeps(k, j) /\ SameStart(k, j)
  BY ReadyFacts, GotoPc
<1>2. /\ After(k) = After(j) /\ k.src = j.src /\ k.dst = j.dst /\ k.before = j.before /\ k.op = j.op
      /\ SeparatePaths(k) = SeparatePaths(j)
  BY <1>1, SameDue
<1>3. ASSUME DeletingOK(t)
      PROVE  DeletingOK(t)'
  <2>1. \A q \in Paths : tree'[q] = tree[q] \/ (tree'[q] = None /\ Under(q, j.src))
    <3>1. ASSUME NEW c \in Paths, Within(c, j.src), tree' = RemoveEntry(tree, c), NEW q \in Paths
          PROVE  tree'[q] = tree[q] \/ (tree'[q] = None /\ Under(q, j.src))
      <4>1. tree'[q] = IF q = c THEN None ELSE tree[q]
        BY <3>1, ReadyFacts DEF RemoveEntry, TreeType
      <4>2. Under(c, j.src)
        BY <3>1, ReadyFacts, JobPaths, PathsAreWalkways, UnderOrder
      <4> QED
        BY <4>1, <4>2
    <3> QED
      BY <3>1
  <2> QED
    BY <1>2, <1>3, <2>1 DEF DeletingOK
<1> QED
  BY <1>1, <1>2, <1>3, AtDeletion

(* Operations that copy and move nothing                                   *)
LEMMA OtherExact ==
    ASSUME NEW t \in Threads, OpJob(job'[t]), job'[t].op \notin {"copy", "move", "rename"}
    PROVE  ExactOK(t)'
<1>1. job'[t].pc \notin CopyPcs /\ job'[t].pc # "rename"
  BY DEF OpJob, PcFits
<1> QED
  BY <1>1 DEF ExactOK, WorkPcs, DirPcs, FilePcs, CopyPcs

LEMMA DeleteExact ==
    ASSUME NEW t \in Threads, Ready(t), ExactOK(t), job[t].op = "move",
           DeleteFile(t) \/ DeleteDirectoryTree(t) \/ RemoveAll(t)
    PROVE  ExactOK(t)'
<1>1. /\ job[t].pc \in {"delete", "deltree", "clear"}
      /\ \/ tree' = tree /\ End(t, FALSE)
         \/ /\ Children(tree, job[t].src) = {} /\ tree' = RemoveEntry(tree, job[t].src) /\ End(t, TRUE)
         \/ /\ Goto(t, [pc |-> "clear"])
            /\ tree' = tree \/ \E c \in Paths : Within(c, job[t].src) /\ tree' = RemoveEntry(tree, c)
  BY DEF DeleteFile, DeleteDirectoryTree, RemoveAll, At, CanRemove, Fails
<1>2. ~Within(job[t].src, job[t].dst) => DeletingOK(t)
  BY <1>1 DEF ExactOK
<1> QED
  BY <1>1, <1>2, DeletionFails, DeletionDone, DeletionGoesOn

LEMMA BeginExact ==
    ASSUME TreeInv, NEW t \in Threads, NEW r \in Requests, Begin(t, r), job'[t].alone
    PROVE  ExactOK(t)'
<1>1. JobsOK /\ calls \in Nat /\ tree' = tree
  BY NamesAssumption DEF TreeInv, IdsOK, Begin
<1>2. /\ OpJob(job'[t])
      /\ job'[t].pc \in {"copy", "rename", "delete", "deltree", "create", "mkone"}
      /\ job'[t].todo = <<>> /\ job'[t].from = job'[t].src /\ job'[t].to = job'[t].dst
      /\ job'[t].before = tree /\ job'[t].pc = FirstStep(job'[t])
  BY <1>1, BeginJob
<1>3. job'[t].pc \in {"delete", "deltree"} => job'[t].op # "move"
  BY <1>2 DEF FirstStep
<1> QED
  BY <1>1, <1>2, <1>3 DEF ExactOK, WorkPcs, DirPcs, FilePcs
-----------------------------------------------------------------------------
(* Every step                                                              *)

LEMMA OpActionExact ==
    ASSUME NEW t \in Threads, Ready(t), ExactOK(t), OpAction(t)
    PROVE  ExactOK(t)'
<1>1. JobsOK /\ OpJob(job[t])
  BY ReadyFacts
<1>2. CASE CopyEntry(t) \/ CopyDirectory(t) \/ CopyMkdir(t) \/ CopyList(t) \/ CopyNext(t)
  BY <1>2, CopyEntryExact, CopyDirectoryExact, CopyMkdirExact, CopyListExact, CopyNextExact
<1>3. CASE CopyFile(t) \/ CopyOpen(t) \/ CopyTemp(t) \/ CopyData(t) \/ CopyDrop(t) \/ CopyUnback(t)
  BY <1>3, CopyFileExact, CopyOpenExact, CopyTempExact, CopyDataExact, CopyDropExact, CopyUnbackExact
<1>4. CASE RenameCheck(t) \/ RenameDo(t)
  BY <1>4, RenameCheckExact, RenameDoExact
<1>5. CASE DeleteFile(t) \/ DeleteDirectoryTree(t) \/ RemoveAll(t)
  <2>1. CASE job[t].op = "move"
    BY <1>5, <2>1, DeleteExact
  <2>2. CASE job[t].op # "move"
    <3>1. job[t].pc \in {"delete", "deltree", "clear"}
      BY <1>5 DEF DeleteFile, DeleteDirectoryTree, RemoveAll, At
    <3>2. job[t].op \in {"delete", "deltree"}
      BY <1>1, <2>2, <3>1 DEF OpJob, PcFits
    <3>3. OpJob(job'[t]) /\ job'[t].op = job[t].op
      BY <1>1, <1>5, DeleteFileJob, DeleteDirectoryTreeJob, RemoveAllJob DEF Goes, Keeps
    <3> QED
      BY <3>2, <3>3, OtherExact
  <2> QED
    BY <2>1, <2>2
<1>6. CASE CreateEmptyFile(t) \/ CloseEmptyFile(t) \/ CreateDirectory(t) \/ Mkdir(t)
  <2>1. job[t].pc \in {"create", "close", "mkone", "mkdir1"}
    BY <1>6 DEF CreateEmptyFile, CloseEmptyFile, CreateDirectory, Mkdir, At
  <2>2. job[t].op \in {"create", "mkone"}
    BY <1>1, <2>1 DEF OpJob, PcFits
  <2>3. OpJob(job'[t]) /\ job'[t].op = job[t].op
    BY <1>1, <1>6, CreateEmptyFileJob, CloseEmptyFileJob, CreateDirectoryJob, MkdirJob DEF Goes, Keeps
  <2> QED
    BY <2>2, <2>3, OtherExact
<1> QED
  BY <1>2, <1>3, <1>4, <1>5, <1>6 DEF OpAction

(* Only RenameCheck takes the lock.                                        *)
LEMMA LockFaults ==
    ASSUME NEW t \in Threads, OpAction(t), TakesLock(t)
    PROVE  faults' = faults
<1>1. renaming = Nobody /\ renaming' = t /\ t # Nobody
  BY NamesAssumption DEF TakesLock
<1>2. CASE CopyEntry(t) \/ CopyDirectory(t) \/ CopyMkdir(t) \/ CopyList(t) \/ CopyNext(t)
  BY <1>1, <1>2 DEF CopyEntry, CopyDirectory, CopyMkdir, CopyList, CopyNext, Pass, Fault
<1>3. CASE CopyFile(t) \/ CopyOpen(t) \/ CopyTemp(t) \/ CopyData(t) \/ CopyDrop(t) \/ CopyUnback(t)
  BY <1>1, <1>3 DEF CopyFile, CopyOpen, CopyTemp, CopyData, CopyDrop, CopyUnback, Pass, Fault
<1>4. CASE RenameCheck(t) \/ RenameDo(t)
  BY <1>1, <1>4 DEF RenameCheck, RenameDo
<1>5. CASE DeleteFile(t) \/ DeleteDirectoryTree(t) \/ RemoveAll(t)
  BY <1>1, <1>5 DEF DeleteFile, DeleteDirectoryTree, RemoveAll, Pass, Fault
<1>6. CASE CreateEmptyFile(t) \/ CloseEmptyFile(t) \/ CreateDirectory(t) \/ Mkdir(t)
  BY <1>1, <1>6 DEF CreateEmptyFile, CloseEmptyFile, CreateDirectory, Mkdir, Pass, Fault
<1> QED
  BY <1>2, <1>3, <1>4, <1>5, <1>6 DEF OpAction

LEMMA ActionFaults ==
    ASSUME faults \in Nat, NEW t \in Threads, OpAction(t)
    PROVE  faults' \in Nat
<1>1. Pass \/ Fault \/ UNCHANGED faults => faults' \in Nat
  BY DEF Pass, Fault
<1>2. CASE CopyEntry(t) \/ CopyDirectory(t) \/ CopyMkdir(t) \/ CopyList(t) \/ CopyNext(t)
  BY <1>1, <1>2 DEF CopyEntry, CopyDirectory, CopyMkdir, CopyList, CopyNext
<1>3. CASE CopyFile(t) \/ CopyOpen(t) \/ CopyTemp(t) \/ CopyData(t) \/ CopyDrop(t) \/ CopyUnback(t)
  BY <1>1, <1>3 DEF CopyFile, CopyOpen, CopyTemp, CopyData, CopyDrop, CopyUnback
<1>4. CASE RenameCheck(t) \/ RenameDo(t)
  <2>1. faults' = faults \/ faults' = faults + 1
    BY <1>4 DEF RenameCheck, RenameDo
  <2> QED
    BY <2>1
<1>5. CASE DeleteFile(t) \/ DeleteDirectoryTree(t) \/ RemoveAll(t)
  BY <1>1, <1>5 DEF DeleteFile, DeleteDirectoryTree, RemoveAll
<1>6. CASE CreateEmptyFile(t) \/ CloseEmptyFile(t) \/ CreateDirectory(t) \/ Mkdir(t)
  BY <1>1, <1>6 DEF CreateEmptyFile, CloseEmptyFile, CreateDirectory, Mkdir
<1> QED
  BY <1>2, <1>3, <1>4, <1>5, <1>6 DEF OpAction

LEMMA FaultsNat ==
    ASSUME faults \in Nat, [WalkerNext]_allVars
    PROVE  faults' \in Nat
<1>1. CASE UNCHANGED allVars
  BY <1>1 DEF allVars, vars
<1>2. CASE Crash
  BY <1>2 DEF Crash
<1>3. ASSUME NEW t \in Threads, Step(t)
      PROVE  faults' \in Nat
  BY <1>3, ActionFaults DEF Step, OpAction, Begin, Answer
<1>4. ASSUME NEW t \in Threads, WalkStep(t)
      PROVE  faults' \in Nat
  <2>1. Pass \/ Fault \/ UNCHANGED faults
    BY <1>4 DEF WalkStep, AskWalk, WalkDir, LoadNextBatch, LoadNextDirectory, ProcessEntry, Visit
  <2> QED
    BY <2>1 DEF Pass, Fault
<1> QED
  BY <1>1, <1>2, <1>3, <1>4 DEF WalkerNext, TreeStep, Next

(* Nothing has changed for the operation of t.                             *)
LEMMA SameExact ==
    ASSUME NEW t \in Threads, ExactOK(t), job'[t] = job[t], UNCHANGED <<tree, faults>>
    PROVE  ExactOK(t)'
BY DEF ExactOK, CopyingOK, OldOrNewEntries, CopiedOrPending, AtPlace, Aside, TempPath, BackupPath, DeletingOK, FilesKept

LEMMA SameAbove ==
    ASSUME NEW t \in Threads, AboveOK(t), job'[t] = job[t], UNCHANGED tree
    PROVE  AboveOK(t)'
BY DEF AboveOK

(* A step that gives up or goes on at the same place                       *)
LEMMA RefusedAbove ==
    ASSUME NEW t \in Threads, Ready(t), AboveOK(t), UNCHANGED tree,
           OpJob(job'[t]), Keeps(job'[t], job[t]), SameStart(job'[t], job[t]),
           \/ job'[t].pc = "done" /\ ~job'[t].ok
           \/ /\ job[t].pc = "copy" /\ job'[t].pc \in {"dir", "file"} /\ SamePlace(job'[t], job[t])
              /\ tree[job[t].src] # None
    PROVE  AboveOK(t)'
<1> DEFINE j == job[t]
           k == job'[t]
<1> SUFFICES ASSUME k.op \in {"copy", "move", "rename"}, Within(k.src, k.dst), ~MergesAbove(k)
             PROVE  /\ tree = k.before /\ k.pc \in {"copy", "dir", "file", "rename", "done"}
                    /\ k.pc \in {"copy", "dir", "file"} => k.to = k.dst
                    /\ k.pc \in {"dir", "file"} => tree[k.dst] = Dir
                    /\ k.pc = "done" => ~k.ok
  BY DEF AboveOK
<1>1. j.op \in {"copy", "move", "rename"} /\ Within(j.src, j.dst) /\ ~MergesAbove(j)
  BY DEF Keeps, MergesAbove, FirstStep
<1>2. tree = k.before /\ (j.pc = "copy" => j.to = j.dst)
  BY <1>1 DEF AboveOK, SameStart
<1>3. tree[j.src] # None => tree[j.dst] = Dir
  BY <1>1, ReadyFacts, JobPaths DEF Rooted
<1> QED
  BY <1>2, <1>3 DEF Keeps, SamePlace

LEMMA ActionAbove ==
    ASSUME NEW t \in Threads, Ready(t), AboveOK(t), OpAction(t), GoesOn(t)
    PROVE  AboveOK(t)'
<1> DEFINE j == job[t]
           k == job'[t]
<1>1. /\ JobsOK /\ OpJob(j) /\ OpJob(k) /\ Keeps(k, j) /\ SameStart(k, j) /\ Rooted
      /\ j.src \in Paths /\ j.dst \in Paths /\ j.src \in Walkways /\ j.dst \in Walkways
  BY ReadyFacts, JobPaths DEF GoesOn
<1> SUFFICES ASSUME j.op \in {"copy", "move", "rename"}, Within(j.src, j.dst), ~MergesAbove(j)
             PROVE  AboveOK(t)'
  BY <1>1 DEF AboveOK, Keeps, MergesAbove, FirstStep
<1>2. /\ tree = j.before /\ j.pc \in {"copy", "dir", "file", "rename", "done"}
      /\ j.pc \in {"copy", "dir", "file"} => j.to = j.dst
      /\ j.pc \in {"dir", "file"} => tree[j.dst] = Dir
  BY DEF AboveOK
<1>3. j.pc \in {"copy", "dir", "file"} => ~j.over
  BY <1>1 DEF OpJob, PcFits, CopyPcs, MergesAbove, FirstStep
<1>4. ASSUME End(t, FALSE), UNCHANGED tree
      PROVE  AboveOK(t)'
  <2>1. k.pc = "done" /\ k.ok = FALSE
    BY <1>1, <1>4, GotoEnd
  <2> QED
    BY <1>1, <1>4, <2>1, RefusedAbove
<1>5. CASE CopyEntry(t)
  <2>1. CASE Fails(t)
    BY <1>4, <2>1 DEF Fails
  <2>2. CASE ~Fails(t)
    <3>1. /\ j.pc = "copy" /\ tree[j.src] # None /\ UNCHANGED tree
          /\ Goto(t, [pc |-> IF tree[j.src] = Dir THEN "dir" ELSE "file"])
      BY <1>5, <2>2 DEF CopyEntry, At
    <3>2. k.pc \in {"dir", "file"} /\ SamePlace(k, j)
      BY <1>1, <3>1, GotoPc
    <3> QED
      BY <1>1, <3>1, <3>2, RefusedAbove
  <2> QED
    BY <2>1, <2>2
<1>6. CASE CopyDirectory(t)
  <2>1. j.pc = "dir" /\ UNCHANGED tree
    BY <1>6 DEF CopyDirectory, At
  <2>2. tree[j.to] = Dir /\ ~j.over
    BY <1>2, <1>3, <2>1
  <2>3. End(t, FALSE)
    BY <1>6, <2>2 DEF CopyDirectory
  <2> QED
    BY <1>4, <2>1, <2>3
<1>7. CASE CopyFile(t)
  <2>1. j.pc = "file" /\ UNCHANGED tree
    BY <1>7 DEF CopyFile, At
  <2>2. tree[j.to] = Dir
    BY <1>2, <2>1
  <2>3. End(t, FALSE)
    BY <1>7, <2>2 DEF CopyFile
  <2> QED
    BY <1>4, <2>1, <2>3
<1>8. ASSUME j.pc = "rename"
      PROVE  RenameFrom(t) = j.src /\ RenameTo(t) = j.dst /\ j.src # j.dst
  BY <1>1, <1>8, UnderOrder DEF RenameFrom, RenameTo
<1>9. CASE RenameCheck(t)
  <2>1. j.pc = "rename" /\ UNCHANGED tree
    BY <1>2, <1>9 DEF RenameCheck, Renames
  <2>2. CASE UNCHANGED job
    BY <2>1, <2>2, SameAbove
  <2>3. CASE AfterRename(t, FALSE)
    BY <1>4, <2>1, <2>3 DEF AfterRename
  <2> QED
    BY <1>8, <1>9, <2>1, <2>2, <2>3 DEF RenameCheck
<1>10. CASE RenameDo(t)
  <2>1. j.pc = "rename"
    <3>1. renaming = t
      BY <1>10 DEF RenameDo
    <3>2. j.pc \in Renames
      BY <3>1, NamesAssumption DEF Ready, TreeInv, RenameHeld
    <3> QED
      BY <1>2, <3>2 DEF Renames
  <2>2. ~CanRename(tree, j.src, j.dst)
    <3> SUFFICES ASSUME tree[j.src] # None, tree[j.dst] = Dir => Children(tree, j.dst) = {}
                 PROVE  FALSE
      BY DEF CanRename
    <3>1. tree[j.dst] = Dir
      BY <1>1 DEF Rooted
    <3>2. PICK c \in Paths : Parent(c) = j.dst /\ Under(j.src, c)
      BY <1>1, ChildToward
    <3>3. c \in Walkways
      BY PathsAreWalkways
    <3>4. tree[c] # None
      <4>1. CASE c = j.src
        BY <4>1
      <4>2. CASE c # j.src
        <5>1. Within(j.src, c)
          BY <1>1, <3>2, <3>3, <4>2, UnderOrder
        <5> QED
          BY <1>1, <5>1 DEF Rooted, Dir, None
      <4> QED
        BY <4>1, <4>2
    <3> QED
      BY <3>1, <3>2, <3>4 DEF Children
  <2>3. AfterRename(t, FALSE) /\ UNCHANGED tree
    BY <1>8, <1>10, <2>1, <2>2 DEF RenameDo
  <2> QED
    BY <1>4, <2>1, <2>3 DEF AfterRename
<1>11. CASE \/ CopyMkdir(t) \/ CopyList(t) \/ CopyNext(t) \/ CopyOpen(t) \/ CopyTemp(t) \/ CopyData(t)
            \/ CopyDrop(t) \/ CopyUnback(t)
  BY <1>2, <1>11 DEF CopyMkdir, CopyList, CopyNext, CopyOpen, CopyTemp, CopyData, CopyDrop, CopyUnback, At
<1>12. CASE \/ DeleteFile(t) \/ DeleteDirectoryTree(t) \/ RemoveAll(t)
            \/ CreateEmptyFile(t) \/ CloseEmptyFile(t) \/ CreateDirectory(t) \/ Mkdir(t)
  BY <1>2, <1>12 DEF DeleteFile, DeleteDirectoryTree, RemoveAll, CreateEmptyFile, CloseEmptyFile,
                     CreateDirectory, Mkdir, At
<1> QED
  BY <1>5, <1>6, <1>7, <1>9, <1>10, <1>11, <1>12 DEF OpAction

LEMMA BeginAbove ==
    ASSUME TreeInv, NEW t \in Threads, NEW r \in Requests, Begin(t, r), job'[t].alone
    PROVE  AboveOK(t)'
<1>1. JobsOK /\ calls \in Nat /\ tree' = tree
  BY NamesAssumption DEF TreeInv, IdsOK, Begin
<1>2. /\ job'[t].to = job'[t].dst /\ job'[t].before = tree
      /\ job'[t].pc \in {"copy", "rename", "delete", "deltree", "create", "mkone"}
      /\ job'[t].pc = FirstStep(job'[t])
  BY <1>1, BeginJob
<1>3. job'[t].op \in {"copy", "move", "rename"} => job'[t].pc \in {"copy", "rename"}
  BY <1>2 DEF FirstStep
<1> QED
  BY <1>1, <1>2, <1>3 DEF AboveOK

LEMMA CopyInvNext ==
    ASSUME TreeInv, CopyInv, [WalkerNext]_allVars
    PROVE  CopyInv'
<1>1. faults \in Nat /\ Fresh /\ AllAloneOK
  BY DEF CopyInv, AllAloneOK
<1>2. faults' \in Nat /\ Fresh' /\ AllAloneOK'
  BY <1>1, FaultsNat, AloneNext
<1> SUFFICES ASSUME NEW u \in Threads, Alone(u)'
             PROVE  ExactOK(u)' /\ AboveOK(u)'
  BY <1>2 DEF CopyInv, AllAloneOK
<1>3. Alone(u) => AloneOK(u) /\ ExactOK(u) /\ AboveOK(u)
  BY DEF CopyInv
<1>4. CASE UNCHANGED <<tree, job, faults>>
  <2>1. Alone(u)
    BY <1>4 DEF Alone
  <2> QED
    BY <1>3, <1>4, <2>1, SameExact, SameAbove
<1>5. CASE Crashes
  BY <1>5 DEF Crashes, Alone, OpJob, OpPcs, CopyPcs, Idle
<1>6. ASSUME NEW t \in Threads, OpAction(t)
      PROVE  ExactOK(u)' /\ AboveOK(u)'
  <2>1. CASE TakesLock(t)
    BY <1>4, <1>6, <2>1, LockFaults DEF TakesLock
  <2>2. CASE OpStep(t) /\ (UNCHANGED job \/ SameStart(job'[t], job[t]))
    <3>1. OthersKeep(t) /\ JobsOK /\ OpJob(job[t])
      BY <2>2 DEF OpStep, Goes, TreeInv
    <3>2. u = t
      BY <3>1, NotAlone
    <3>3. job'[t].alone = job[t].alone
      BY <2>2 DEF SameStart
    <3>4. Alone(t)
      BY <3>1, <3>2, <3>3 DEF Alone
    <3>5. Ready(t) /\ ExactOK(t) /\ AboveOK(t)
      BY <1>1, <1>3, <3>1, <3>2, <3>4 DEF Ready
    <3>6. GoesOn(t)
      BY <2>2 DEF GoesOn, OpStep, Goes, SameStart
    <3> QED
      BY <1>6, <3>2, <3>5, <3>6, OpActionExact, ActionAbove
  <2> QED
    BY <1>6, <2>1, <2>2, ActionKinds
<1>7. ASSUME NEW t \in Threads, NEW r \in Requests, Begin(t, r)
      PROVE  ExactOK(u)' /\ AboveOK(u)'
  <2>0. JobsOK /\ calls \in Nat
    BY NamesAssumption DEF TreeInv, IdsOK
  <2>1. OthersKeep(t)
    BY <1>7, <2>0, BeginJob
  <2>2. u = t /\ job'[t].alone
    BY <2>0, <2>1, NotAlone DEF Alone
  <2> QED
    BY <1>7, <2>2, BeginExact, BeginAbove
<1>8. ASSUME NEW t \in Threads, Answer(t)
      PROVE  ExactOK(u)' /\ AboveOK(u)'
  <2>1. job'[t] = Idle /\ \A v \in Threads \ {t} : job'[v] = job[v]
    BY <1>8, AnswerJob DEF TreeInv
  <2>2. u # t
    BY <2>1 DEF Alone, OpJob, OpPcs, CopyPcs, Idle
  <2>3. job'[u] = job[u] /\ Alone(u) /\ UNCHANGED <<tree, faults>>
    BY <1>8, <2>1, <2>2 DEF Alone, Answer
  <2> QED
    BY <1>3, <2>3, SameExact, SameAbove
<1>9. ASSUME NEW t \in Threads, WalkStep(t)
      PROVE  ExactOK(u)' /\ AboveOK(u)'
  <2>0. JobsOK /\ calls \in Nat
    BY NamesAssumption DEF TreeInv, IdsOK
  <2>1. OthersKeep(t) /\ WalkJob(job'[t])
    BY <1>9, <2>0, WalkStepJob DEF WalkGoes
  <2> QED
    BY <2>0, <2>1, NotAlone DEF Alone, OpJob, WalkJob, Ops
<1>10. CASE UNCHANGED allVars
  BY <1>4, <1>10 DEF allVars, vars
<1> QED
  BY <1>5, <1>6, <1>7, <1>8, <1>9, <1>10, StepOfThread DEF Step, OpAction

LEMMA CopyInvInit ==
    ASSUME WalkerInit
    PROVE  CopyInv
<1>1. Fresh
  <2> SUFFICES ASSUME NEW n \in Ids, NEW q \in Paths, Bears(q, n)
               PROVE  tree[q] = None
    BY DEF Fresh
  <2>1. Own(q)
    BY GivenBears, PathsAreWalkways
  <2>2. q \notin DOMAIN Start
    BY <2>1, StartAssumption
  <2> QED
    BY <2>2 DEF WalkerInit, Init
<1>2. \A t \in Threads : ~Alone(t)
  BY DEF WalkerInit, Init, Alone, OpJob, OpPcs, CopyPcs, Idle
<1> QED
  BY <1>1, <1>2 DEF CopyInv, WalkerInit, Init

(* While an operation is alone, every entry is the one it found or the one  *)
(* the operation is to leave there, what it has not copied yet is still     *)
(* waited for, and nothing but the files it is at has a name of its own.    *)
THEOREM CopiesAreSound ==
    WalkerSpec => []CopyInv
<1>1. WalkerInit => CopyInv
  BY CopyInvInit
<1>2. TreeInv /\ CopyInv /\ [WalkerNext]_allVars => CopyInv'
  BY CopyInvNext
<1> QED
  BY <1>1, <1>2, TreeIsSound, PTL DEF WalkerSpec

(* CopiesAreExact: a copy, a move or a rename alone that succeeds leaves    *)
(* exactly the tree that was asked for; one that fails after one failing    *)
(* call leaves every file as it was or as it was to be.                     *)
THEOREM CopiesExact ==
    WalkerSpec => []CopiesAreExact
<1>1. TreeInv /\ CopyInv => CopiesAreExact
  <2> SUFFICES ASSUME TreeInv, CopyInv, NEW t \in Threads,
                      job[t].pc = "done", job[t].alone, job[t].op \in {"copy", "move", "rename"},
                      ~MergesAbove(job[t])
               PROVE  IF job[t].ok THEN job[t].src = job[t].dst \/ tree = After(job[t]) ELSE FilesKept(t)
    BY DEF CopiesAreExact, FilesKept
  <2>1. OpJob(job[t])
    BY DEF TreeInv, JobsOK, JobOK, Idle, WalkJob
  <2>2. ExactOK(t) /\ AboveOK(t)
    BY <2>1 DEF CopyInv, Alone
  <2>3. CASE ~Within(job[t].src, job[t].dst)
    BY <2>2, <2>3 DEF ExactOK
  <2>4. CASE Within(job[t].src, job[t].dst)
    <3>1. tree = job[t].before /\ ~job[t].ok
      BY <2>2, <2>4 DEF AboveOK
    <3> QED
      BY <3>1 DEF FilesKept
  <2> QED
    BY <2>3, <2>4
<1> QED
  BY <1>1, TreeIsSound, CopiesAreSound, PTL
=============================================================================
