--------------------------- MODULE PfsZonesProofs ---------------------------
(* Lemmas about the zones of a PFS filesystem, for partitions, reserved      *)
(* zones and segments of every size: what the search for free zones finds,   *)
(* and what becomes of the bitmaps and their counts.                        *)
EXTENDS PfsZones, FiniteSetTheorems, SequenceTheorems, WellFoundedInduction, TLAPS

-----------------------------------------------------------------------------
(* Minima, induction and loops.                                            *)

LEMMA MinFacts ==
  ASSUME NEW S, S \subseteq Nat, S # {}
  PROVE  Min(S) \in S /\ \A y \in S : Min(S) <= y
  <1> DEFINE R == OpToRel(<, Nat)
  <1>1. IsWellFoundedOn(R, Nat)
    BY NatLessThanWellFounded
  <1>2. \A x, y \in Nat : x < y => <<x, y>> \in R
    BY DEF OpToRel
  <1> HIDE DEF R
  <1>3. PICK x \in S : \A y \in S : ~(<<y, x>> \in R)
    BY <1>1, WFMin
  <1>4. ASSUME NEW y \in S PROVE x <= y
    <2>1. x \in Nat /\ y \in Nat /\ ~(y < x)
      BY <1>2, <1>3
    <2> QED
      BY <2>1
  <1>5. Min(S) = CHOOSE x1 \in S : \A y \in S : x1 <= y
    BY DEF Min
  <1> QED
    BY <1>4, <1>5

LEMMA MaxFacts ==
  ASSUME NEW n \in Nat, NEW S, S \subseteq 0 .. n, S # {}
  PROVE  Max(S) \in S /\ \A y \in S : y <= Max(S)
  <1> DEFINE T == {n - x : x \in S}
  <1>0. \A x \in S : x \in 0 .. n
    OBVIOUS
  <1>1. T \subseteq Nat /\ T # {}
    <2>1. \A x \in S : n - x \in Nat
      BY <1>0
    <2>2. T # {}
      OBVIOUS
    <2> QED
      BY <2>1, <2>2
  <1>2. Min(T) \in T /\ \A y \in T : Min(T) <= y
    BY <1>1, MinFacts
  <1>3. PICK x \in S : Min(T) = n - x
    BY <1>2
  <1>4. ASSUME NEW y \in S PROVE y <= x
    <2>1. Min(T) <= n - y
      BY <1>2
    <2>2. x \in 0 .. n /\ y \in 0 .. n
      BY <1>0
    <2> QED
      BY <2>1, <2>2, <1>3
  <1>5. Max(S) = CHOOSE x1 \in S : \A y \in S : x1 >= y
    BY DEF Max
  <1>6. \E x1 \in S : \A y \in S : x1 >= y
    BY <1>4
  <1>7. Max(S) \in S /\ \A y \in S : Max(S) >= y
    BY <1>5, <1>6
  <1> QED
    BY <1>7

LEMMA Induction ==
  ASSUME NEW S, 0 \in S, \A n \in Nat : n \in S => n + 1 \in S
  PROVE  Nat \subseteq S
  <1> SUFFICES ASSUME Nat \ S # {} PROVE FALSE
    OBVIOUS
  <1> DEFINE m == Min(Nat \ S)
  <1>1. m \in Nat \ S /\ \A y \in Nat \ S : m <= y
    BY MinFacts
  <1> HIDE DEF m
  <1>2. m - 1 \in Nat /\ m - 1 \notin Nat \ S
    BY <1>1
  <1> QED
    BY <1>1, <1>2
\* A loop of m turns has a value after each of them.
IsLoop(x, step, m, g) == g = [k \in 0 .. m |-> IF k = 0 THEN x ELSE step[<<k, g[k - 1]>>]]

LEMMA LoopExists ==
  ASSUME NEW x, NEW step, NEW m \in Nat
  PROVE  \E g : IsLoop(x, step, m, g)
  <1> DEFINE Fits(g, n) == g = [k \in 0 .. n |-> IF k = 0 THEN x ELSE step[<<k, g[k - 1]>>]]
             S == {n \in Nat : \E g : Fits(g, n)}
  <1>1. 0 \in S
    <2> DEFINE g == [k \in 0 .. 0 |-> x]
    <2>1. Fits(g, 0)
      OBVIOUS
    <2> QED
      BY <2>1
  <1>2. ASSUME NEW n \in Nat, n \in S PROVE n + 1 \in S
    <2>1. PICK g : Fits(g, n)
      BY <1>2
    <2> DEFINE h == [k \in 0 .. n + 1 |-> IF k = n + 1 THEN step[<<n + 1, g[n]>>] ELSE g[k]]
    <2>2. \A k \in 0 .. n : h[k] = g[k]
      OBVIOUS
    <2>3. \A k \in 0 .. n : g[k] = IF k = 0 THEN x ELSE step[<<k, g[k - 1]>>]
      BY <2>1
    <2>4. h[n + 1] = step[<<n + 1, g[n]>>]
      OBVIOUS
    <2>a. h = [k \in 0 .. n + 1 |-> h[k]]
      OBVIOUS
    <2> HIDE DEF h
    <2>5. \A k \in 0 .. n + 1 : h[k] = IF k = 0 THEN x ELSE step[<<k, h[k - 1]>>]
      <3> TAKE k \in 0 .. n + 1
      <3>1. CASE k = n + 1
        <4>1. k - 1 = n /\ k # 0 /\ n \in 0 .. n
          BY <3>1
        <4> QED
          BY <4>1, <3>1, <2>2, <2>4
      <3>2. CASE k \in 1 .. n
        <4>1. k - 1 \in 0 .. n /\ k \in 0 .. n /\ k # 0
          BY <3>2
        <4> QED
          BY <4>1, <2>2, <2>3
      <3>3. CASE k = 0
        <4>1. 0 \in 0 .. n
          OBVIOUS
        <4> QED
          BY <4>1, <3>3, <2>2, <2>3
      <3> QED
        BY <3>1, <3>2, <3>3
    <2>6. Fits(h, n + 1)
      BY <2>5, <2>a
    <2> QED
      BY <2>6
  <1> HIDE DEF S
  <1>3. Nat \subseteq S
    BY <1>1, <1>2, Induction
  <1> QED
    BY <1>3 DEF S, IsLoop

-----------------------------------------------------------------------------
(* A volume whose bitmaps mark the zones of its partitions only, the       *)
(* reserved ones among them, and whose counts are right or too high.       *)

Run(bi) == bi.num .. bi.num + bi.cnt - 1
Within(bi) == bi \in Segments /\ bi.num + bi.cnt <= Size[bi.sub]

GoodVolume(v) ==
    /\ v \in [used : [Subs -> SUBSET Nat], free : [Subs -> Int]]
    /\ \A s \in Subs : Reserved[s] \subseteq v.used[s] /\ v.used[s] \subseteq ZonesOf(s)

UsedOf(v)     == UNION {{<<s, z>> : z \in v.used[s]} : s \in Subs}
ReservedZones == UNION {{<<s, z>> : z \in Reserved[s]} : s \in Subs}
Zeros(v, s)   == ZonesOf(s) \ v.used[s]
FreeEnough(v) == \A s \in Subs : v.free[s] >= Cardinality(Zeros(v, s))
FreeExact(v)  == \A s \in Subs : v.free[s] = Cardinality(Zeros(v, s))

LEMMA InUsed ==
  ASSUME NEW v, NEW x
  PROVE  x \in UsedOf(v) <=> \E s \in Subs : \E z \in v.used[s] : x = <<s, z>>
  BY DEF UsedOf

LEMMA InCovers ==
  ASSUME NEW bi, NEW x
  PROVE  x \in Covers(bi) <=> \E z \in Run(bi) : x = <<bi.sub, z>>
  BY DEF Covers, Run

LEMMA SizeFacts ==
  /\ \A s \in Subs : Size[s] \in Nat /\ Size[s] > 0 /\ 0 \in Reserved[s]
  /\ \A s \in Subs : Reserved[s] \subseteq ZonesOf(s)
  /\ Subs = 0 .. NumSubs /\ NumSubs \in Nat /\ 0 \in Subs
  /\ InodeMax \in Nat /\ InodeMax > 1 /\ IndirectMax \in Nat /\ IndirectMax > 1
  /\ CountMax \in Nat /\ CountMax > 0
  BY ZonesAssumption DEF Subs

LEMMA ZerosFinite ==
  ASSUME NEW v, NEW s \in Subs
  PROVE  IsFiniteSet(Zeros(v, s)) /\ Cardinality(Zeros(v, s)) \in Nat
  <1>0. Size[s] - 1 \in Int /\ 0 \in Int
    BY SizeFacts
  <1>1. IsFiniteSet(ZonesOf(s))
    BY <1>0, FS_Interval DEF ZonesOf
  <1>2. IsFiniteSet(Zeros(v, s))
    BY <1>1, FS_Difference DEF Zeros
  <1> QED
    BY <1>2, FS_CardinalityType

LEMMA RunFacts ==
  ASSUME NEW bi, Within(bi)
  PROVE  /\ bi.sub \in Subs /\ bi.num \in Nat /\ bi.cnt \in Nat
         /\ Run(bi) \subseteq ZonesOf(bi.sub) /\ Run(bi) \subseteq Nat
         /\ IsFiniteSet(Run(bi)) /\ Cardinality(Run(bi)) = bi.cnt
  <1>1. bi.sub \in Subs /\ bi.num \in Nat /\ bi.cnt \in Nat /\ Size[bi.sub] \in Nat
    BY SizeFacts DEF Within, Segments
  <1>2. Run(bi) \subseteq ZonesOf(bi.sub) /\ Run(bi) \subseteq Nat
    BY <1>1 DEF Run, ZonesOf, Within
  <1>3. IsFiniteSet(Run(bi)) /\ Cardinality(Run(bi)) = bi.cnt
    <2> DEFINE a == bi.num
               b == bi.num + bi.cnt - 1
    <2>1. a \in Int /\ b \in Int /\ (IF a > b THEN 0 ELSE b - a + 1) = bi.cnt
      BY <1>1
    <2>2. Run(bi) = a .. b
      BY DEF Run
    <2> HIDE DEF a, b
    <2>3. IsFiniteSet(a .. b) /\ Cardinality(a .. b) = IF a > b THEN 0 ELSE b - a + 1
      BY <2>1, FS_Interval
    <2> QED
      BY <2>1, <2>2, <2>3
  <1> QED
    BY <1>1, <1>2, <1>3

\* A segment of zones that are free is taken.
LEMMA MarkTakes ==
  ASSUME NEW v, GoodVolume(v), NEW bi, Within(bi), Covers(bi) \cap UsedOf(v) = {}
  PROVE  /\ GoodVolume(Mark(v, bi))
         /\ UsedOf(Mark(v, bi)) = UsedOf(v) \cup Covers(bi)
         /\ FreeEnough(v) => FreeEnough(Mark(v, bi))
         /\ FreeExact(v) => FreeExact(Mark(v, bi))
  <1> DEFINE w == Mark(v, bi)
  <1>1. /\ bi.sub \in Subs /\ bi.num \in Nat /\ bi.cnt \in Nat
        /\ Run(bi) \subseteq ZonesOf(bi.sub) /\ Run(bi) \subseteq Nat
        /\ IsFiniteSet(Run(bi)) /\ Cardinality(Run(bi)) = bi.cnt
    BY RunFacts
  <1>2. v.used \in [Subs -> SUBSET Nat] /\ v.free \in [Subs -> Int]
    BY DEF GoodVolume
  <1>3. /\ w.used = [v.used EXCEPT ![bi.sub] = @ \cup Run(bi)]
        /\ w.free = [v.free EXCEPT ![bi.sub] = @ - bi.cnt]
        /\ w \in [used : [Subs -> SUBSET Nat], free : [Subs -> Int]]
    BY <1>1, <1>2 DEF Mark, Run
  <1> HIDE DEF w
  <1>4. /\ \A s \in Subs : w.used[s] = IF s = bi.sub THEN v.used[s] \cup Run(bi) ELSE v.used[s]
        /\ \A s \in Subs : w.free[s] = IF s = bi.sub THEN v.free[s] - bi.cnt ELSE v.free[s]
    BY <1>1, <1>2, <1>3
  <1>5. GoodVolume(w)
    BY <1>1, <1>3, <1>4 DEF GoodVolume
  <1>6. UsedOf(w) = UsedOf(v) \cup Covers(bi)
    <2>1. ASSUME NEW x, x \in UsedOf(w) PROVE x \in UsedOf(v) \cup Covers(bi)
      <3>1. PICK s \in Subs : \E z \in w.used[s] : x = <<s, z>>
        BY <2>1, InUsed
      <3>2. PICK z \in w.used[s] : x = <<s, z>>
        BY <3>1
      <3> QED
        BY <3>2, <1>4, InUsed, InCovers
    <2>2. ASSUME NEW x, x \in UsedOf(v) PROVE x \in UsedOf(w)
      <3>1. PICK s \in Subs : \E z \in v.used[s] : x = <<s, z>>
        BY <2>2, InUsed
      <3>2. PICK z \in v.used[s] : x = <<s, z>>
        BY <3>1
      <3>3. z \in w.used[s]
        BY <3>2, <1>4
      <3> QED
        BY <3>2, <3>3, InUsed
    <2>3. ASSUME NEW x, x \in Covers(bi) PROVE x \in UsedOf(w)
      <3>1. PICK z \in Run(bi) : x = <<bi.sub, z>>
        BY <2>3, InCovers
      <3>2. z \in w.used[bi.sub]
        BY <3>1, <1>1, <1>4
      <3> QED
        BY <3>1, <3>2, <1>1, InUsed
    <2> QED
      BY <2>1, <2>2, <2>3
  <1>7. Run(bi) \subseteq Zeros(v, bi.sub)
    <2> SUFFICES ASSUME NEW z \in Run(bi), z \in v.used[bi.sub] PROVE FALSE
      BY <1>1 DEF Zeros
    <2>1. <<bi.sub, z>> \in Covers(bi) /\ <<bi.sub, z>> \in UsedOf(v)
      BY <1>1, InUsed, InCovers
    <2> QED
      BY <2>1
  <1>8. \A s \in Subs : Cardinality(Zeros(w, s)) =
           IF s = bi.sub THEN Cardinality(Zeros(v, s)) - bi.cnt ELSE Cardinality(Zeros(v, s))
    <2> TAKE s \in Subs
    <2>1. CASE s = bi.sub
      <3>1. Zeros(w, s) = Zeros(v, s) \ Run(bi) /\ Zeros(v, s) \cap Run(bi) = Run(bi)
        BY <2>1, <1>4, <1>7 DEF Zeros
      <3>2. Cardinality(Zeros(v, s) \ Run(bi)) =
               Cardinality(Zeros(v, s)) - Cardinality(Zeros(v, s) \cap Run(bi))
        BY ZerosFinite, FS_Difference
      <3> QED
        BY <3>1, <3>2, <2>1, <1>1
    <2>2. CASE s # bi.sub
      BY <2>2, <1>4 DEF Zeros
    <2> QED
      BY <2>1, <2>2
  <1>9. \A s \in Subs : Cardinality(Zeros(v, s)) \in Nat /\ v.free[s] \in Int
    BY ZerosFinite, <1>2
  <1>10. (FreeEnough(v) => FreeEnough(w)) /\ (FreeExact(v) => FreeExact(w))
    BY <1>1, <1>4, <1>8, <1>9 DEF FreeEnough, FreeExact
  <1> QED
    BY <1>5, <1>6, <1>10 DEF w

\* A segment is given back, and counted, whether or not its zones were in use.
LEMMA FreeReturns ==
  ASSUME NEW v, GoodVolume(v), NEW bi, Within(bi), Covers(bi) \cap ReservedZones = {}
  PROVE  /\ GoodVolume(FreeBlockSegment(v, bi))
         /\ UsedOf(FreeBlockSegment(v, bi)) = UsedOf(v) \ Covers(bi)
         /\ FreeEnough(v) => FreeEnough(FreeBlockSegment(v, bi))
         /\ FreeExact(v) /\ Covers(bi) \subseteq UsedOf(v) => FreeExact(FreeBlockSegment(v, bi))
  <1> DEFINE w == FreeBlockSegment(v, bi)
  <1>1. /\ bi.sub \in Subs /\ bi.num \in Nat /\ bi.cnt \in Nat
        /\ Run(bi) \subseteq ZonesOf(bi.sub) /\ Run(bi) \subseteq Nat
        /\ IsFiniteSet(Run(bi)) /\ Cardinality(Run(bi)) = bi.cnt
    BY RunFacts
  <1>2. v.used \in [Subs -> SUBSET Nat] /\ v.free \in [Subs -> Int]
    BY DEF GoodVolume
  <1>3. /\ w.used = [v.used EXCEPT ![bi.sub] = @ \ Run(bi)]
        /\ w.free = [v.free EXCEPT ![bi.sub] = @ + bi.cnt]
        /\ w \in [used : [Subs -> SUBSET Nat], free : [Subs -> Int]]
    BY <1>1, <1>2 DEF FreeBlockSegment, Run
  <1> HIDE DEF w
  <1>4. /\ \A s \in Subs : w.used[s] = IF s = bi.sub THEN v.used[s] \ Run(bi) ELSE v.used[s]
        /\ \A s \in Subs : w.free[s] = IF s = bi.sub THEN v.free[s] + bi.cnt ELSE v.free[s]
    BY <1>1, <1>2, <1>3
  <1>a. Run(bi) \cap Reserved[bi.sub] = {}
    <2> SUFFICES ASSUME NEW z \in Run(bi), z \in Reserved[bi.sub] PROVE FALSE
      OBVIOUS
    <2>1. <<bi.sub, z>> \in Covers(bi) /\ <<bi.sub, z>> \in ReservedZones
      BY <1>1, InCovers DEF ReservedZones
    <2> QED
      BY <2>1
  <1>5. GoodVolume(w)
    BY <1>1, <1>3, <1>4, <1>a DEF GoodVolume
  <1>6. UsedOf(w) = UsedOf(v) \ Covers(bi)
    <2>1. ASSUME NEW x, x \in UsedOf(w) PROVE x \in UsedOf(v) \ Covers(bi)
      <3>1. PICK s \in Subs : \E z \in w.used[s] : x = <<s, z>>
        BY <2>1, InUsed
      <3>2. PICK z \in w.used[s] : x = <<s, z>>
        BY <3>1
      <3>3. z \in v.used[s] /\ ~(s = bi.sub /\ z \in Run(bi))
        BY <3>2, <1>4
      <3>4. x \notin Covers(bi)
        BY <3>2, <3>3, InCovers
      <3> QED
        BY <3>2, <3>3, <3>4, InUsed
    <2>2. ASSUME NEW x, x \in UsedOf(v), x \notin Covers(bi) PROVE x \in UsedOf(w)
      <3>1. PICK s \in Subs : \E z \in v.used[s] : x = <<s, z>>
        BY <2>2, InUsed
      <3>2. PICK z \in v.used[s] : x = <<s, z>>
        BY <3>1
      <3>3. ~(s = bi.sub /\ z \in Run(bi))
        BY <3>2, <2>2, InCovers
      <3>4. z \in w.used[s]
        BY <3>2, <3>3, <1>4
      <3> QED
        BY <3>2, <3>4, InUsed
    <2> QED
      BY <2>1, <2>2
  <1>7. \A s \in Subs : s # bi.sub => Zeros(w, s) = Zeros(v, s)
    BY <1>4 DEF Zeros
  <1>8. /\ Zeros(w, bi.sub) = Zeros(v, bi.sub) \cup Run(bi)
        /\ Cardinality(Zeros(w, bi.sub)) =
              Cardinality(Zeros(v, bi.sub)) + bi.cnt - Cardinality(Zeros(v, bi.sub) \cap Run(bi))
        /\ Cardinality(Zeros(v, bi.sub) \cap Run(bi)) \in Nat
    <2>1. Zeros(w, bi.sub) = Zeros(v, bi.sub) \cup Run(bi)
      BY <1>1, <1>4 DEF Zeros
    <2>2. IsFiniteSet(Zeros(v, bi.sub) \cap Run(bi))
      BY <1>1, FS_Intersection
    <2> QED
      BY <2>1, <2>2, <1>1, ZerosFinite, FS_Union, FS_CardinalityType
  <1>9. \A s \in Subs : Cardinality(Zeros(v, s)) \in Nat /\ v.free[s] \in Int
    BY ZerosFinite, <1>2
  <1>10. FreeEnough(v) => FreeEnough(w)
    <2> SUFFICES ASSUME FreeEnough(v), NEW s \in Subs PROVE w.free[s] >= Cardinality(Zeros(w, s))
      BY DEF FreeEnough
    <2>1. v.free[s] >= Cardinality(Zeros(v, s))
      BY DEF FreeEnough
    <2>2. CASE s = bi.sub
      BY <2>1, <2>2, <1>1, <1>4, <1>8, <1>9
    <2>3. CASE s # bi.sub
      BY <2>1, <2>3, <1>4, <1>7
    <2> QED
      BY <2>2, <2>3
  <1>11. ASSUME FreeExact(v), Covers(bi) \subseteq UsedOf(v) PROVE FreeExact(w)
    <2>1. Zeros(v, bi.sub) \cap Run(bi) = {}
      <3> SUFFICES ASSUME NEW z \in Run(bi), z \in Zeros(v, bi.sub) PROVE FALSE
        OBVIOUS
      <3>1. <<bi.sub, z>> \in UsedOf(v)
        BY <1>11, InCovers
      <3>2. PICK s \in Subs : \E y \in v.used[s] : <<bi.sub, z>> = <<s, y>>
        BY <3>1, InUsed
      <3> QED
        BY <3>2 DEF Zeros
    <2>2. Cardinality(Zeros(v, bi.sub) \cap Run(bi)) = 0
      BY <2>1, FS_EmptySet
    <2> SUFFICES ASSUME NEW s \in Subs PROVE w.free[s] = Cardinality(Zeros(w, s))
      BY DEF FreeExact
    <2>3. v.free[s] = Cardinality(Zeros(v, s))
      BY <1>11 DEF FreeExact
    <2>4. CASE s = bi.sub
      BY <2>2, <2>3, <2>4, <1>1, <1>4, <1>8, <1>9
    <2>5. CASE s # bi.sub
      BY <2>3, <2>5, <1>4, <1>7
    <2> QED
      BY <2>4, <2>5
  <1> QED
    BY <1>5, <1>6, <1>10, <1>11 DEF w
-----------------------------------------------------------------------------
(* The search for free zones.                                              *)

\* The most a count of 16 bits holds.
Widest == 65535

LEMMA MinOfTwo ==
  ASSUME NEW a \in Int, NEW b \in Int
  PROVE  Min({a, b}) = IF a <= b THEN a ELSE b
  <1> DEFINE m == IF a <= b THEN a ELSE b
  <1>1. m \in {a, b} /\ \A y \in {a, b} : m <= y
    OBVIOUS
  <1>2. \A x \in {a, b} : (\A y \in {a, b} : x <= y) => x = m
    OBVIOUS
  <1> HIDE DEF m
  <1>3. Min({a, b}) = CHOOSE x \in {a, b} : \A y \in {a, b} : x <= y
    BY DEF Min
  <1>4. Min({a, b}) = m
    BY <1>1, <1>2, <1>3
  <1> QED
    BY <1>4 DEF m

LEMMA MaxOfTwo ==
  ASSUME NEW a \in Int, NEW b \in Int
  PROVE  Max({a, b}) = IF a >= b THEN a ELSE b
  <1> DEFINE m == IF a >= b THEN a ELSE b
  <1>1. m \in {a, b} /\ \A y \in {a, b} : m >= y
    OBVIOUS
  <1>2. \A x \in {a, b} : (\A y \in {a, b} : x >= y) => x = m
    OBVIOUS
  <1> HIDE DEF m
  <1>3. Max({a, b}) = CHOOSE x \in {a, b} : \A y \in {a, b} : x >= y
    BY DEF Max
  <1>4. Max({a, b}) = m
    BY <1>1, <1>2, <1>3
  <1> QED
    BY <1>4 DEF m

\* How many zones the search looks for at first.
LEMMA WantedFacts ==
  ASSUME NEW mc \in Int, NEW n \in Nat, n > 0
  PROVE  /\ Max({Min({mc, 32}), n}) \in Nat /\ Max({Min({mc, 32}), n}) > 0
         /\ n <= Widest => Max({Min({mc, 32}), n}) <= Widest
  <1>1. Min({mc, 32}) = IF mc <= 32 THEN mc ELSE 32
    BY MinOfTwo
  <1>2. Min({mc, 32}) \in Int /\ Min({mc, 32}) <= 32
    BY <1>1
  <1>3. Max({Min({mc, 32}), n}) = IF Min({mc, 32}) >= n THEN Min({mc, 32}) ELSE n
    BY <1>2, MaxOfTwo
  <1> QED
    BY <1>2, <1>3 DEF Widest

LEMMA HalvesFacts ==
  ASSUME NEW c \in Nat, c > 0
  PROVE  /\ Halves(c) \subseteq 1 .. c
         /\ c <= Widest => 1 \in Halves(c)
  <1>1. ASSUME NEW d \in Powers PROVE c \div d \in 0 .. c
    BY DEF Powers
  <1>2. Halves(c) \subseteq 1 .. c
    BY <1>1 DEF Halves
  <1>3. ASSUME c <= Widest PROVE \E d \in Powers : c \div d = 1
    <2>1. \E d \in Powers : d <= c /\ c < 2 * d
      BY <1>3, SMT DEF Powers, Widest
    <2>2. PICK d \in Powers : d <= c /\ c < 2 * d
      BY <2>1
    <2>3. c \div d = 1
      BY <2>2 DEF Powers
    <2> QED
      BY <2>3
  <1> QED
    BY <1>2, <1>3 DEF Halves

LEMMA BestFits ==
  ASSUME NEW v, GoodVolume(v), NEW s \in Subs, NEW from \in Nat, NEW c \in Nat, c > 0,
         NEW most \in Nat, most > 0, Fitting(v, s, from, c) # {}
  PROVE  LET found == Best(v, s, from, c, most)
         IN /\ Within(found) /\ found.cnt \in 1 .. most
            /\ Covers(found) \cap UsedOf(v) = {}
  <1> DEFINE n == Max(Fitting(v, s, from, c))
             p == Min(Places(v, s, from, n))
             k == Min({n, most})
             found == Best(v, s, from, c, most)
  <1>1. found = Segment(s, p, k)
    BY DEF Best
  <1> HIDE DEF found, k
  <1>2. Fitting(v, s, from, c) \subseteq 0 .. c
    BY HalvesFacts DEF Fitting
  <1>3. n \in Fitting(v, s, from, c)
    BY <1>2, MaxFacts
  <1> HIDE DEF n, p
  <1>4. n \in 1 .. c /\ Places(v, s, from, n) # {}
    BY <1>3, HalvesFacts DEF Fitting
  <1>5. Places(v, s, from, n) \subseteq Nat
    BY <1>4, SizeFacts DEF Places
  <1>6. p \in Places(v, s, from, n)
    BY <1>4, <1>5, MinFacts DEF p
  <1>7. p \in Nat /\ p + n <= Size[s] /\ (p .. p + n - 1) \cap v.used[s] = {}
    BY <1>4, <1>6, SizeFacts DEF Places
  <1>8. k \in 1 .. most /\ k <= n
    BY <1>4, MinOfTwo DEF k
  <1>9. found.sub = s /\ found.num = p /\ found.cnt = k /\ found \in Segments
    BY <1>1, <1>7, <1>8 DEF Segment, Segments
  <1>10. Within(found)
    BY <1>4, <1>7, <1>8, <1>9, SizeFacts DEF Within
  <1>11. Run(found) \cap v.used[s] = {}
    BY <1>4, <1>7, <1>8, <1>9 DEF Run
  <1>12. Covers(found) \cap UsedOf(v) = {}
    <2> SUFFICES ASSUME NEW x \in Covers(found), x \in UsedOf(v) PROVE FALSE
      OBVIOUS
    <2>1. PICK z \in Run(found) : x = <<found.sub, z>>
      BY InCovers
    <2>2. PICK t \in Subs : \E y \in v.used[t] : x = <<t, y>>
      BY InUsed
    <2> QED
      BY <2>1, <2>2, <1>9, <1>11
  <1> QED
    BY <1>8, <1>9, <1>10, <1>12 DEF found

\* Where not even one zone fits there is none.
LEMMA NothingFits ==
  ASSUME NEW v, GoodVolume(v), FreeEnough(v), NEW s \in Subs, NEW c \in Nat, c > 0, c <= Widest,
         Fitting(v, s, 0, c) = {}
  PROVE  v.used[s] = ZonesOf(s)
  <1>0. v.used[s] \subseteq ZonesOf(s)
    BY DEF GoodVolume
  <1> SUFFICES ASSUME NEW z \in Zeros(v, s) PROVE FALSE
    BY <1>0 DEF Zeros
  <1>1. Cardinality(Zeros(v, s)) > 0
    BY ZerosFinite, FS_EmptySet
  <1>2. v.free[s] \in Int /\ v.free[s] >= Cardinality(Zeros(v, s)) /\ Cardinality(Zeros(v, s)) \in Nat
    BY ZerosFinite DEF FreeEnough, GoodVolume
  <1>3. v.free[s] >= 1
    BY <1>1, <1>2
  <1>4. z \in 0 .. Size[s] - 1 /\ z \notin v.used[s] /\ Size[s] \in Nat
    BY SizeFacts DEF Zeros, ZonesOf
  <1>5. z .. z + 1 - 1 = {z}
    BY <1>4
  <1>6. z \in Places(v, s, 0, 1)
    BY <1>4, <1>5 DEF Places
  <1>7. 1 \in Fitting(v, s, 0, c)
    BY <1>3, <1>6, HalvesFacts DEF Fitting
  <1> QED
    BY <1>7

\* The partitions are tried one after the other, around to the one before the first.
Around(a, k) == (a + k) % (NumSubs + 1)

LEMMA SubsInTurn ==
  ASSUME NEW a \in Subs
  PROVE  /\ \A k \in Nat : Around(a, k) \in Subs
         /\ \A s \in Subs : \E k \in 1 .. NumSubs + 1 : Around(a, k) = s
  <1>1. NumSubs \in Nat /\ a \in 0 .. NumSubs /\ Subs = 0 .. NumSubs
    BY SizeFacts
  <1> DEFINE N == NumSubs + 1
  <1>2. N \in Nat /\ N > 0 /\ a \in 0 .. N - 1 /\ Subs = 0 .. N - 1
    BY <1>1
  <1> HIDE DEF N
  <1>3. \A k \in Nat : (a + k) % N \in 0 .. N - 1
    BY <1>2
  <1>4. \A s \in 0 .. N - 1 : s % N = s
    BY <1>2
  <1>5. \A s \in 0 .. N - 1 : (s + N) % N = s
    BY <1>2
  <1>6. ASSUME NEW s \in 0 .. N - 1 PROVE \E k \in 1 .. N : (a + k) % N = s
    <2>1. CASE s > a
      <3>1. s - a \in 1 .. N /\ a + (s - a) = s
        BY <1>2, <2>1
      <3> QED
        BY <3>1, <1>4
    <2>2. CASE s <= a
      <3>1. s - a + N \in 1 .. N /\ a + (s - a + N) = s + N
        BY <1>2, <2>2
      <3> QED
        BY <3>1, <1>5
    <2> QED
      BY <2>1, <2>2, <1>2
  <1> QED
    BY <1>2, <1>3, <1>6 DEF N, Around

\* What the search finds is free, and not longer than what was asked for; it
\* finds something while there is a free zone.
LEMMA SearchFinds ==
  ASSUME NEW v, GoodVolume(v), FreeEnough(v), NEW mc \in Int,
         NEW bi, bi.sub \in Subs, bi.num \in Nat, bi.cnt \in Nat, bi.cnt > 0, bi.cnt <= Widest
  PROVE  LET r == SearchFreeZone(v, bi, mc)
         IN \/ /\ r # NoSpace /\ Within(r.bi) /\ r.bi.cnt \in 1 .. bi.cnt
               /\ Covers(r.bi) \cap UsedOf(v) = {} /\ r.vol = Mark(v, r.bi)
            \/ r = NoSpace /\ \A s \in Subs : v.used[s] = ZonesOf(s)
  <1> DEFINE c       == Wanted(bi, mc)
             Sub(k)  == (bi.sub + k) % (NumSubs + 1)
             From(k) == IF k = 0 THEN bi.num ELSE 0
             turns   == {k \in 0 .. NumSubs + 1 : Fitting(v, Sub(k), From(k), c) # {}}
             found   == Best(v, Sub(Min(turns)), From(Min(turns)), c, bi.cnt)
             r       == SearchFreeZone(v, bi, mc)
  <1>0. bi.cnt \in Nat /\ bi.cnt > 0 /\ bi.cnt <= Widest
    OBVIOUS
  <1>1. c \in Nat /\ c > 0 /\ c <= Widest
    BY <1>0, WantedFacts DEF Wanted
  <1>2. r = IF turns = {} THEN NoSpace ELSE [vol |-> Mark(v, found), bi |-> found]
    BY SMT DEF SearchFreeZone
  <1>a. \A k \in 0 .. NumSubs + 1 : k \in Nat
    OBVIOUS
  <1>3. \A k \in 0 .. NumSubs + 1 : Sub(k) \in Subs /\ From(k) \in Nat
    BY <1>a, SubsInTurn DEF Around
  <1>4. \A s \in Subs : \E k \in 1 .. NumSubs + 1 : Sub(k) = s
    <2>1. \A s \in Subs : \E k \in 1 .. NumSubs + 1 : Around(bi.sub, k) = s
      BY SubsInTurn
    <2> QED
      BY <2>1 DEF Around
  <1>5. \A k \in 1 .. NumSubs + 1 : k \in 0 .. NumSubs + 1 /\ From(k) = 0
    BY SizeFacts
  <1> HIDE DEF c, r, Sub, From
  <1>6. CASE turns = {}
    <2>1. r = NoSpace
      BY <1>2, <1>6
    <2>2. ASSUME NEW s \in Subs PROVE v.used[s] = ZonesOf(s)
      <3>1. PICK k \in 1 .. NumSubs + 1 : Sub(k) = s
        BY <1>4
      <3>2. Fitting(v, s, 0, c) = {}
        BY <3>1, <1>5, <1>6
      <3> QED
        BY <3>2, <1>1, NothingFits
    <2> QED
      BY <2>1, <2>2 DEF r
  <1>7. CASE turns # {}
    <2> DEFINE k == Min(turns)
    <2>1. turns \subseteq Nat
      BY <1>a
    <2>2. k \in turns
      BY <1>7, <2>1, MinFacts
    <2> HIDE DEF k
    <2>3. k \in 0 .. NumSubs + 1 /\ Fitting(v, Sub(k), From(k), c) # {}
      BY <2>2
    <2>4. Sub(k) \in Subs /\ From(k) \in Nat
      BY <1>3, <2>3
    <2>5. found = Best(v, Sub(k), From(k), c, bi.cnt)
      BY DEF k
    <2> HIDE DEF turns, found
    <2>6. Within(found) /\ found.cnt \in 1 .. bi.cnt /\ Covers(found) \cap UsedOf(v) = {}
      BY <1>0, <1>1, <2>3, <2>4, <2>5, BestFits
    <2>7. r.vol = Mark(v, found) /\ r.bi = found
      BY <1>2, <1>7
    <2>8. r # NoSpace
      BY <1>0, <2>6, <2>7 DEF NoSpace, Segment
    <2> QED
      BY <2>6, <2>7, <2>8 DEF r
  <1> QED
    BY <1>6, <1>7

\* What follows a segment and is free, as far as it may be added to it.
LEMMA AdditionalFits ==
  ASSUME NEW v, GoodVolume(v), NEW bi, Within(bi), bi.cnt <= CountMax, NEW count \in Nat
  PROVE  LET n == Additional(v, bi, count)
             more == Segment(bi.sub, bi.num + bi.cnt, n)
         IN /\ n \in 0 .. count /\ bi.cnt + n <= CountMax
            /\ Within(more) /\ Covers(more) \cap UsedOf(v) = {}
  <1> DEFINE end  == bi.num + bi.cnt
             most == Min({count, CountMax - bi.cnt, Size[bi.sub] - end})
             T    == {n \in 0 .. most : end .. end + n - 1 \cap v.used[bi.sub] = {}}
             n0   == Additional(v, bi, count)
             more == Segment(bi.sub, end, n0)
  <1>1. bi.sub \in Subs /\ bi.num \in Nat /\ bi.cnt \in Nat /\ Size[bi.sub] \in Nat /\ CountMax \in Nat
    BY RunFacts, SizeFacts
  <1>2. end \in Nat /\ Size[bi.sub] - end \in Nat /\ CountMax - bi.cnt \in Nat
    BY <1>1 DEF Within
  <1> HIDE DEF end
  <1>3. /\ most \in Nat /\ most <= count /\ most <= CountMax - bi.cnt /\ most <= Size[bi.sub] - end
    <2>1. {count, CountMax - bi.cnt, Size[bi.sub] - end} \subseteq Nat
      BY <1>2
    <2> QED
      BY <2>1, MinFacts
  <1>4. n0 = Max(T)
    BY DEF Additional, end
  <1> HIDE DEF most, n0
  <1>5. T \subseteq 0 .. most /\ 0 \in T
    <2>1. end .. end + 0 - 1 = {}
      BY <1>2
    <2> QED
      BY <2>1, <1>3
  <1>6. n0 \in T
    BY <1>3, <1>4, <1>5, MaxFacts
  <1>7. n0 \in 0 .. most /\ end .. end + n0 - 1 \cap v.used[bi.sub] = {}
    BY <1>6
  <1>8. n0 \in 0 .. count /\ bi.cnt + n0 <= CountMax /\ end + n0 <= Size[bi.sub]
    BY <1>1, <1>2, <1>3, <1>7
  <1>9. more.sub = bi.sub /\ more.num = end /\ more.cnt = n0 /\ more \in Segments
    BY <1>1, <1>2, <1>8 DEF Segment, Segments
  <1> HIDE DEF more
  <1>10. Within(more)
    BY <1>8, <1>9 DEF Within
  <1>11. Covers(more) \cap UsedOf(v) = {}
    <2> SUFFICES ASSUME NEW x \in Covers(more), x \in UsedOf(v) PROVE FALSE
      OBVIOUS
    <2>1. PICK z \in Run(more) : x = <<more.sub, z>>
      BY InCovers
    <2>2. PICK s \in Subs : \E y \in v.used[s] : x = <<s, y>>
      BY InUsed
    <2> QED
      BY <2>1, <2>2, <1>7, <1>9 DEF Run
  <1> QED
    BY <1>8, <1>10, <1>11 DEF n0, more, end
-----------------------------------------------------------------------------
(* The segments of an inode: apart from each other, and its descriptors     *)
(* one zone each.                                                          *)

GoodSegment(bi) == Within(bi) /\ bi.cnt \in 1 .. CountMax
GoodSegments(segs) ==
    /\ segs \in Seq(Segments) /\ Len(segs) > 0
    /\ \A i \in 1 .. Len(segs) : GoodSegment(segs[i]) /\ (IsDescriptor(i) => segs[i].cnt = 1)
    /\ \A i, j \in 1 .. Len(segs) : i # j => Covers(segs[i]) \cap Covers(segs[j]) = {}

Total(segs) == UNION {Covers(segs[i]) : i \in DOMAIN segs}
Descriptors(n) == {i \in 1 .. n : IsDescriptor(i)}

LEMMA SegmentsFacts ==
  ASSUME NEW segs \in Seq(Segments)
  PROVE  /\ Len(segs) \in Nat /\ DOMAIN segs = 1 .. Len(segs)
         /\ \A i \in 1 .. Len(segs) : /\ segs[i] \in Segments /\ segs[i].cnt \in Nat
                                      /\ segs[i].sub \in Subs /\ segs[i].num \in Nat
         /\ \A x : x \in Total(segs) <=> \E i \in 1 .. Len(segs) : x \in Covers(segs[i])
  <1>1. Len(segs) \in Nat /\ DOMAIN segs = 1 .. Len(segs)
    BY LenProperties
  <1>2. \A i \in 1 .. Len(segs) : segs[i] \in Segments
    BY ElementOfSeq
  <1>3. \A x : x \in Total(segs) <=> \E i \in 1 .. Len(segs) : x \in Covers(segs[i])
    BY <1>1 DEF Total
  <1> QED
    BY <1>1, <1>2, <1>3 DEF Segments

\* A descriptor is not followed by another one.
LEMMA DescriptorNext ==
  ASSUME NEW i \in Nat, i > 0, IsDescriptor(i)
  PROVE  ~IsDescriptor(i + 1)
  <1>1. InodeMax \in Nat /\ InodeMax > 1 /\ IndirectMax \in Nat /\ IndirectMax > 1
    BY SizeFacts
  <1>2. CASE i = 1
    BY <1>1, <1>2 DEF IsDescriptor
  <1>3. CASE i > InodeMax /\ (i - 1 - InodeMax) % IndirectMax = 0
    <2> DEFINE x == i - 1 - InodeMax
               m == IndirectMax
    <2>1. x \in Nat /\ m \in Nat /\ m > 1 /\ x % m = 0
      BY <1>1, <1>3
    <2>2. (i + 1) - 1 - InodeMax = x + 1 /\ i + 1 # 1
      BY <1>1
    <2> HIDE DEF x, m
    <2>4. (x + 1) % m # 0
      <3> SUFFICES ASSUME (x + 1) % m = 0 PROVE FALSE
        OBVIOUS
      <3> DEFINE a == x \div m
                 b == (x + 1) \div m
      <3>1. a \in Int /\ x = m * a
        BY <2>1
      <3>2. b \in Int /\ x + 1 = m * b
        BY <2>1
      <3> HIDE DEF a, b
      <3>3. b - a \in Int /\ m * (b - a) = 1
        BY <2>1, <3>1, <3>2
      <3>4. \A d \in Int : d <= 0 => m * d <= 0
        BY <2>1
      <3>5. \A d \in Int : d >= 1 => m * d >= m
        BY <2>1
      <3> QED
        BY <3>3, <3>4, <3>5, <2>1
    <2> QED
      BY <2>2, <2>4 DEF IsDescriptor, m
  <1> QED
    BY <1>2, <1>3 DEF IsDescriptor

LEMMA CoversCount ==
  ASSUME NEW bi, Within(bi)
  PROVE  IsFiniteSet(Covers(bi)) /\ Cardinality(Covers(bi)) = bi.cnt
  <1> DEFINE f == [z \in Run(bi) |-> <<bi.sub, z>>]
  <1>1. f \in Bijection(Run(bi), Covers(bi))
    <2>1. f \in [Run(bi) -> Covers(bi)]
      BY InCovers
    <2>2. \A y, z \in DOMAIN f : f[y] = f[z] => y = z
      OBVIOUS
    <2>3. \A x \in Covers(bi) : \E z \in Run(bi) : f[z] = x
      BY InCovers
    <2> QED
      BY <2>1, <2>2, <2>3 DEF Bijection, Injection, Surjection, IsInjective
  <1>2. ExistsBijection(Run(bi), Covers(bi))
    BY <1>1 DEF ExistsBijection
  <1> QED
    BY <1>2, RunFacts, FS_Bijection

\* The zones of data, counted segment by segment.
LEMMA ZonesUpToFacts ==
  ASSUME NEW segs \in Seq(Segments)
  PROVE  /\ ZonesUpTo(segs) \in [0 .. Len(segs) -> Nat]
         /\ ZonesUpTo(segs)[0] = 0
         /\ \A k \in 1 .. Len(segs) :
               ZonesUpTo(segs)[k] = ZonesUpTo(segs)[k - 1] + IF IsDescriptor(k) THEN 0 ELSE segs[k].cnt
  <1> DEFINE n == Len(segs)
             Add(k) == IF IsDescriptor(k) THEN 0 ELSE segs[k].cnt
             step == [p \in (0 .. n) \X Nat |-> p[2] + (IF p[1] = 0 THEN 0 ELSE Add(p[1]))]
  <1>1. n \in Nat /\ \A k \in 1 .. n : Add(k) \in Nat
    BY SegmentsFacts
  <1> HIDE DEF n, Add
  <1>3. \A k \in 1 .. n : \A c \in Nat : step[<<k, c>>] = c + Add(k)
    BY <1>1
  <1> HIDE DEF step
  <1>a. PICK g : IsLoop(0, step, n, g)
    BY <1>1, LoopExists
  <1>2. g = [k \in 0 .. n |-> IF k = 0 THEN 0 ELSE step[<<k, g[k - 1]>>]]
    BY <1>a DEF IsLoop
  <1>4. g[0] = 0 /\ \A k \in 1 .. n : g[k] = step[<<k, g[k - 1]>>]
    BY <1>1, <1>2
  <1> DEFINE S == {k \in Nat : k <= n => g[k] \in Nat}
  <1>5. 0 \in S
    BY <1>4
  <1>6. ASSUME NEW k \in Nat, k \in S PROVE k + 1 \in S
    <2> SUFFICES ASSUME k + 1 <= n PROVE g[k + 1] \in Nat
      OBVIOUS
    <2>1. k + 1 \in 1 .. n /\ (k + 1) - 1 = k /\ g[k] \in Nat
      BY <1>1, <1>6
    <2>2. g[k + 1] = g[k] + Add(k + 1)
      BY <2>1, <1>3, <1>4
    <2> QED
      BY <2>1, <2>2, <1>1
  <1> HIDE DEF S
  <1>7. Nat \subseteq S
    BY <1>5, <1>6, Induction
  <1>8. \A k \in 0 .. n : g[k] \in Nat
    BY <1>7, <1>1 DEF S
  <1>9. \A k \in 1 .. n : g[k] = g[k - 1] + Add(k)
    <2> TAKE k \in 1 .. n
    <2>1. k - 1 \in 0 .. n
      BY <1>1
    <2> QED
      BY <2>1, <1>3, <1>4, <1>8
  <1>10. g = [k \in 0 .. n |-> IF k = 0 THEN 0 ELSE g[k - 1] + Add(k)]
    <2>1. g = [k \in 0 .. n |-> g[k]]
      BY <1>2
    <2>2. \A k \in 0 .. n : g[k] = IF k = 0 THEN 0 ELSE g[k - 1] + Add(k)
      <3> TAKE k \in 0 .. n
      <3>1. CASE k = 0
        BY <3>1, <1>4
      <3>2. CASE k # 0
        <4>1. k \in 1 .. n
          BY <3>2, <1>1
        <4> QED
          BY <4>1, <3>2, <1>9
      <3> QED
        BY <3>1, <3>2
    <2> QED
      BY <2>1, <2>2
  <1> DEFINE upto == ZonesUpTo(segs)
  <1>11. upto = CHOOSE h : h = [k \in 0 .. n |-> IF k = 0 THEN 0 ELSE h[k - 1] + Add(k)]
    BY DEF ZonesUpTo, n, Add
  <1> HIDE DEF upto
  <1>12. upto = [k \in 0 .. n |-> IF k = 0 THEN 0 ELSE upto[k - 1] + Add(k)]
    BY <1>10, <1>11
  <1>13. upto[0] = 0 /\ \A k \in 1 .. n : upto[k] = upto[k - 1] + Add(k)
    BY <1>1, <1>12
  <1> DEFINE U == {k \in Nat : k <= n => upto[k] \in Nat}
  <1>14. 0 \in U
    BY <1>13
  <1>15. ASSUME NEW k \in Nat, k \in U PROVE k + 1 \in U
    <2> SUFFICES ASSUME k + 1 <= n PROVE upto[k + 1] \in Nat
      OBVIOUS
    <2>1. k + 1 \in 1 .. n /\ (k + 1) - 1 = k /\ upto[k] \in Nat
      BY <1>1, <1>15
    <2>2. upto[k + 1] = upto[k] + Add(k + 1)
      BY <2>1, <1>13
    <2> QED
      BY <2>1, <2>2, <1>1
  <1> HIDE DEF U
  <1>16. Nat \subseteq U
    BY <1>14, <1>15, Induction
  <1>17. \A k \in 0 .. n : upto[k] \in Nat
    BY <1>16, <1>1 DEF U
  <1>18. upto \in [0 .. n -> Nat]
    BY <1>12, <1>17
  <1>19. /\ upto \in [0 .. n -> Nat] /\ upto[0] = 0
         /\ \A k \in 1 .. n : upto[k] = upto[k - 1] + Add(k)
    BY <1>13, <1>18
  <1> QED
    BY <1>19 DEF upto, n, Add
LEMMA DescriptorsCount ==
  ASSUME NEW n \in Nat
  PROVE  /\ IsFiniteSet(Descriptors(n)) /\ Cardinality(Descriptors(n)) \in Nat
         /\ Descriptors(0) = {}
         /\ Cardinality(Descriptors(n + 1)) =
               Cardinality(Descriptors(n)) + IF IsDescriptor(n + 1) THEN 1 ELSE 0
  <1>1. IsFiniteSet(Descriptors(n))
    <2>1. IsFiniteSet(1 .. n) /\ Descriptors(n) \in SUBSET (1 .. n)
      BY FS_Interval DEF Descriptors
    <2> QED
      BY <2>1, FS_Subset
  <1>2. Cardinality(Descriptors(n)) \in Nat
    BY <1>1, FS_CardinalityType
  <1>3. Descriptors(0) = {}
    BY DEF Descriptors
  <1>4. CASE IsDescriptor(n + 1)
    <2>1. Descriptors(n + 1) = Descriptors(n) \cup {n + 1} /\ n + 1 \notin Descriptors(n)
      BY <1>4 DEF Descriptors
    <2> QED
      BY <2>1, <1>1, <1>2, <1>3, <1>4, FS_AddElement
  <1>5. CASE ~IsDescriptor(n + 1)
    <2>1. Descriptors(n + 1) = Descriptors(n)
      BY <1>5 DEF Descriptors
    <2> QED
      BY <2>1, <1>1, <1>2, <1>3, <1>5
  <1> QED
    BY <1>4, <1>5

\* An inode owns its data and its descriptors, and each zone once.
LEMMA TotalCount ==
  ASSUME NEW segs, GoodSegments(segs)
  PROVE  /\ IsFiniteSet(Total(segs))
         /\ Cardinality(Total(segs)) = DataZones(segs) + Cardinality(Descriptors(Len(segs)))
  <1> DEFINE n == Len(segs)
             First(k) == UNION {Covers(segs[i]) : i \in 1 .. k}
             Z == ZonesUpTo(segs)
             D(k) == Cardinality(Descriptors(k))
             S == {k \in Nat : k <= n => IsFiniteSet(First(k)) /\ Cardinality(First(k)) = Z[k] + D(k)}
  <1>1. /\ segs \in Seq(Segments) /\ n \in Nat /\ DOMAIN segs = 1 .. n
        /\ \A i \in 1 .. n : Within(segs[i]) /\ segs[i].cnt \in Nat /\ (IsDescriptor(i) => segs[i].cnt = 1)
        /\ \A i, j \in 1 .. n : i # j => Covers(segs[i]) \cap Covers(segs[j]) = {}
    BY SegmentsFacts, SizeFacts DEF GoodSegments, GoodSegment
  <1>2. /\ Z \in [0 .. n -> Nat] /\ Z[0] = 0
        /\ \A k \in 1 .. n : Z[k] = Z[k - 1] + IF IsDescriptor(k) THEN 0 ELSE segs[k].cnt
    BY <1>1, ZonesUpToFacts
  <1>3. D(0) = 0 /\ \A k \in Nat : D(k) \in Nat /\ D(k + 1) = D(k) + IF IsDescriptor(k + 1) THEN 1 ELSE 0
    BY DescriptorsCount, FS_EmptySet
  <1> HIDE DEF n, Z, D
  <1>4. 0 \in S
    <2>1. First(0) = {}
      OBVIOUS
    <2> HIDE DEF First
    <2>2. IsFiniteSet(First(0)) /\ Cardinality(First(0)) = 0
      BY <2>1, FS_EmptySet
    <2> QED
      BY <2>2, <1>2, <1>3
  <1>5. ASSUME NEW k \in Nat, k \in S PROVE k + 1 \in S
    <2> SUFFICES ASSUME k + 1 <= n
                 PROVE  IsFiniteSet(First(k + 1)) /\ Cardinality(First(k + 1)) = Z[k + 1] + D(k + 1)
      OBVIOUS
    <2>1. k + 1 \in 1 .. n /\ (k + 1) - 1 = k /\ k <= n /\ k \in 0 .. n
      BY <1>1
    <2>2. IsFiniteSet(First(k)) /\ Cardinality(First(k)) = Z[k] + D(k)
      BY <1>5, <2>1
    <2>3. First(k + 1) = First(k) \cup Covers(segs[k + 1])
      <3>1. 1 .. k + 1 = (1 .. k) \cup {k + 1}
        BY <2>1
      <3> QED
        BY <3>1
    <2>4. First(k) \cap Covers(segs[k + 1]) = {}
      <3>1. \A i \in 1 .. k : i \in 1 .. n /\ i # k + 1
        BY <1>1, <2>1
      <3>2. \A i \in 1 .. k : Covers(segs[i]) \cap Covers(segs[k + 1]) = {}
        BY <3>1, <2>1, <1>1
      <3> QED
        BY <3>2
    <2> HIDE DEF First
    <2>5. IsFiniteSet(Covers(segs[k + 1])) /\ Cardinality(Covers(segs[k + 1])) = segs[k + 1].cnt
      BY <2>1, <1>1, CoversCount
    <2>6. /\ IsFiniteSet(First(k + 1))
          /\ Cardinality(First(k + 1)) =
                Cardinality(First(k)) + segs[k + 1].cnt - Cardinality(First(k) \cap Covers(segs[k + 1]))
      BY <2>2, <2>3, <2>5, FS_Union
    <2>7. Cardinality(First(k) \cap Covers(segs[k + 1])) = 0
      BY <2>4, FS_EmptySet
    <2>8. Z[k + 1] = Z[k] + IF IsDescriptor(k + 1) THEN 0 ELSE segs[k + 1].cnt
      BY <2>1, <1>2
    <2>9. D(k + 1) = D(k) + IF IsDescriptor(k + 1) THEN 1 ELSE 0
      BY <1>3
    <2>10. Z[k] \in Nat /\ D(k) \in Nat /\ segs[k + 1].cnt \in Nat
      BY <2>1, <1>1, <1>2, <1>3
    <2>11. IsDescriptor(k + 1) => segs[k + 1].cnt = 1
      BY <2>1, <1>1
    <2>12. Cardinality(First(k + 1)) = Z[k] + D(k) + segs[k + 1].cnt
      BY <2>2, <2>6, <2>7, <2>10
    <2>13. CASE IsDescriptor(k + 1)
      BY <2>6, <2>8, <2>9, <2>10, <2>11, <2>12, <2>13
    <2>14. CASE ~IsDescriptor(k + 1)
      BY <2>6, <2>8, <2>9, <2>10, <2>12, <2>14
    <2> QED
      BY <2>13, <2>14
  <1> HIDE DEF S, First
  <1>6. Nat \subseteq S
    BY <1>4, <1>5, Induction
  <1>7. IsFiniteSet(First(n)) /\ Cardinality(First(n)) = Z[n] + D(n)
    BY <1>1, <1>6 DEF S
  <1>8. First(n) = Total(segs)
    BY <1>1 DEF First, Total
  <1>9. IsFiniteSet(Total(segs)) /\ Cardinality(Total(segs)) = Z[n] + D(n)
    BY <1>7, <1>8
  <1> QED
    BY <1>9 DEF DataZones, n, Z, D

\* A segment is added behind the others.
LEMMA SegmentAppended ==
  ASSUME NEW segs \in Seq(Segments), segs = <<>> \/ GoodSegments(segs), NEW bi, GoodSegment(bi),
         IsDescriptor(Len(segs) + 1) => bi.cnt = 1, Covers(bi) \cap Total(segs) = {}
  PROVE  /\ GoodSegments(Append(segs, bi))
         /\ Total(Append(segs, bi)) = Total(segs) \cup Covers(bi)
  <1> DEFINE n == Len(segs)
             new == Append(segs, bi)
  <1>1. n \in Nat /\ DOMAIN segs = 1 .. n
    BY SegmentsFacts
  <1>2. bi \in Segments
    BY DEF GoodSegment, Within
  <1>3. /\ new \in Seq(Segments) /\ Len(new) = n + 1
        /\ \A i \in 1 .. n : new[i] = segs[i]
        /\ new[n + 1] = bi
    BY <1>2, AppendProperties
  <1>4. DOMAIN new = 1 .. n + 1
    BY <1>3, SegmentsFacts
  <1>5. /\ \A i \in 1 .. n : GoodSegment(segs[i]) /\ (IsDescriptor(i) => segs[i].cnt = 1)
        /\ \A i, j \in 1 .. n : i # j => Covers(segs[i]) \cap Covers(segs[j]) = {}
    BY <1>1 DEF GoodSegments
  <1>6. \A i \in 1 .. n : Covers(segs[i]) \cap Covers(bi) = {}
    BY <1>1, SegmentsFacts
  <1> HIDE DEF n, new
  <1>7. \A i \in 1 .. n + 1 : i \in 1 .. n \/ i = n + 1
    BY <1>1
  <1>8. \A i \in 1 .. n + 1 : GoodSegment(new[i]) /\ (IsDescriptor(i) => new[i].cnt = 1)
    BY <1>3, <1>5, <1>7 DEF n
  <1>9. ASSUME NEW i \in 1 .. n + 1, NEW j \in 1 .. n + 1, i # j PROVE Covers(new[i]) \cap Covers(new[j]) = {}
    <2>1. CASE i \in 1 .. n /\ j \in 1 .. n
      <3>1. new[i] = segs[i] /\ new[j] = segs[j]
        BY <1>3, <2>1
      <3> QED
        BY <3>1, <1>5, <1>9, <2>1
    <2>2. CASE i = n + 1 /\ j \in 1 .. n
      <3>1. new[i] = bi /\ new[j] = segs[j]
        BY <1>3, <2>2
      <3> QED
        BY <3>1, <1>6, <2>2
    <2>3. CASE i \in 1 .. n /\ j = n + 1
      <3>1. new[i] = segs[i] /\ new[j] = bi
        BY <1>3, <2>3
      <3> QED
        BY <3>1, <1>6, <2>3
    <2> QED
      BY <1>7, <1>9, <2>1, <2>2, <2>3
  <1>10. GoodSegments(new)
    BY <1>1, <1>3, <1>8, <1>9 DEF GoodSegments
  <1>11. Total(new) = Total(segs) \cup Covers(bi)
    <2>1. ASSUME NEW x, x \in Total(new) PROVE x \in Total(segs) \cup Covers(bi)
      <3>1. PICK i \in 1 .. n + 1 : x \in Covers(new[i])
        BY <2>1, <1>4 DEF Total
      <3> QED
        BY <3>1, <1>1, <1>3, <1>7 DEF Total
    <2>2. ASSUME NEW x, x \in Total(segs) PROVE x \in Total(new)
      <3>1. PICK i \in 1 .. n : x \in Covers(segs[i])
        BY <2>2, <1>1 DEF Total
      <3>2. i \in 1 .. n + 1 /\ x \in Covers(new[i])
        BY <3>1, <1>1, <1>3
      <3> QED
        BY <3>2, <1>4 DEF Total
    <2>3. ASSUME NEW x, x \in Covers(bi) PROVE x \in Total(new)
      <3>1. n + 1 \in 1 .. n + 1 /\ x \in Covers(new[n + 1])
        BY <2>3, <1>1, <1>3
      <3> QED
        BY <3>1, <1>4 DEF Total
    <2> QED
      BY <2>1, <2>2, <2>3
  <1> QED
    BY <1>10, <1>11 DEF new
LEMMA RunSplit ==
  ASSUME NEW a \in Nat, NEW c \in Nat, NEW n \in Nat
  PROVE  /\ a .. a + (c + n) - 1 = (a .. a + c - 1) \cup (a + c .. a + c + n - 1)
         /\ (a .. a + c - 1) \cap (a + c .. a + c + n - 1) = {}
  OBVIOUS

\* The last segment grows by the zones that follow it.
LEMMA SegmentGrown ==
  ASSUME NEW segs, GoodSegments(segs), NEW n \in Nat,
         IsDescriptor(Len(segs)) => n = 0, segs[Len(segs)].cnt + n <= CountMax,
         NEW more, more = Segment(segs[Len(segs)].sub, segs[Len(segs)].num + segs[Len(segs)].cnt, n),
         Within(more), Covers(more) \cap Total(segs) = {}
  PROVE  LET new == [segs EXCEPT ![Len(segs)].cnt = @ + n]
         IN GoodSegments(new) /\ Len(new) = Len(segs) /\ Total(new) = Total(segs) \cup Covers(more)
  <1> DEFINE l == Len(segs)
             b == [segs[l] EXCEPT !.cnt = @ + n]
             new == [segs EXCEPT ![l] = b]
  <1>1. segs \in Seq(Segments) /\ l \in Nat /\ l > 0 /\ l \in 1 .. l /\ DOMAIN segs = 1 .. l
    BY SegmentsFacts DEF GoodSegments
  <1>2. /\ segs[l] \in Segments /\ segs[l].sub \in Subs /\ segs[l].num \in Nat /\ segs[l].cnt \in Nat
        /\ Within(segs[l]) /\ segs[l].cnt \in 1 .. CountMax /\ (IsDescriptor(l) => segs[l].cnt = 1)
    BY <1>1, SegmentsFacts DEF GoodSegments, GoodSegment
  <1> DEFINE bi == segs[l]
  <1> HIDE DEF l
  <1>3. b \in Segments /\ b.sub = bi.sub /\ b.num = bi.num /\ b.cnt = bi.cnt + n
    BY <1>2 DEF Segments
  <1> HIDE DEF b
  <1>4. more.sub = bi.sub /\ more.num = bi.num + bi.cnt /\ more.cnt = n
    BY DEF Segment, l
  <1>a. Size[bi.sub] \in Nat /\ CountMax \in Nat
    BY <1>2, SizeFacts
  <1>5. GoodSegment(b)
    <2>1. b.num + b.cnt <= Size[b.sub]
      <3>1. more.num + more.cnt <= Size[more.sub]
        BY DEF Within
      <3>2. bi.num \in Nat /\ bi.cnt \in Nat
        BY <1>2
      <3> HIDE DEF bi
      <3>3. b.num + b.cnt = more.num + more.cnt
        BY <3>2, <1>3, <1>4
      <3> QED
        BY <3>1, <3>3, <1>3, <1>4
    <2>2. b.cnt \in 1 .. CountMax
      BY <1>2, <1>3, <1>a DEF l
    <2> QED
      BY <1>3, <2>1, <2>2 DEF GoodSegment, Within
  <1>6. Covers(b) = Covers(bi) \cup Covers(more)
    <2>1. Run(b) = Run(bi) \cup Run(more)
      <3>1. /\ Run(bi) = bi.num .. bi.num + bi.cnt - 1
            /\ Run(b) = bi.num .. bi.num + (bi.cnt + n) - 1
            /\ Run(more) = bi.num + bi.cnt .. bi.num + bi.cnt + n - 1
        BY <1>3, <1>4 DEF Run
      <3> QED
        BY <3>1, <1>2, RunSplit
    <2> QED
      BY <2>1, <1>3, <1>4, InCovers
  <1>7. /\ new \in Seq(Segments) /\ Len(new) = l /\ DOMAIN new = 1 .. l
        /\ \A i \in 1 .. l : new[i] = IF i = l THEN b ELSE segs[i]
    <2>1. /\ new \in Seq(Segments) /\ Len(new) = l
          /\ \A i \in 1 .. l : new[i] = IF i = l THEN b ELSE segs[i]
      BY <1>1, <1>3, ExceptSeq DEF l
    <2>2. DOMAIN new = 1 .. l
      BY <2>1, SegmentsFacts
    <2> QED
      BY <2>1, <2>2
  <1>8. /\ \A i \in 1 .. l : GoodSegment(segs[i]) /\ (IsDescriptor(i) => segs[i].cnt = 1)
        /\ \A i, j \in 1 .. l : i # j => Covers(segs[i]) \cap Covers(segs[j]) = {}
    BY DEF GoodSegments, l
  <1>9. \A i \in 1 .. l : Covers(segs[i]) \cap Covers(more) = {}
    BY <1>1 DEF Total
  <1> HIDE DEF new
  <1>10. \A i \in 1 .. l : GoodSegment(new[i]) /\ (IsDescriptor(i) => new[i].cnt = 1)
    <2> TAKE i \in 1 .. l
    <2>1. CASE i = l
      <3>1. new[i] = b /\ (IsDescriptor(i) => b.cnt = 1)
        BY <2>1, <1>2, <1>3, <1>7 DEF l
      <3> QED
        BY <3>1, <1>5
    <2>2. CASE i # l
      BY <2>2, <1>7, <1>8
    <2> QED
      BY <2>1, <2>2
  <1>11. \A i, j \in 1 .. l : i # j => Covers(new[i]) \cap Covers(new[j]) = {}
    <2> TAKE i, j \in 1 .. l
    <2>1. CASE i = l /\ j # l
      BY <2>1, <1>6, <1>7, <1>8, <1>9
    <2>2. CASE j = l /\ i # l
      BY <2>2, <1>6, <1>7, <1>8, <1>9
    <2>3. CASE i # l /\ j # l
      BY <2>3, <1>7, <1>8
    <2> QED
      BY <2>1, <2>2, <2>3
  <1>12. GoodSegments(new)
    BY <1>1, <1>7, <1>10, <1>11 DEF GoodSegments
  <1>13. Total(new) = Total(segs) \cup Covers(more)
    <2>1. ASSUME NEW x, x \in Total(new) PROVE x \in Total(segs) \cup Covers(more)
      <3>1. PICK i \in 1 .. l : x \in Covers(new[i])
        BY <2>1, <1>7 DEF Total
      <3>2. CASE i = l
        BY <3>1, <3>2, <1>1, <1>6, <1>7 DEF Total
      <3>3. CASE i # l
        BY <3>1, <3>3, <1>1, <1>7 DEF Total
      <3> QED
        BY <3>2, <3>3
    <2>2. ASSUME NEW x, x \in Total(segs) PROVE x \in Total(new)
      <3>1. PICK i \in 1 .. l : x \in Covers(segs[i])
        BY <2>2, <1>1 DEF Total
      <3>2. x \in Covers(new[i])
        <4>1. CASE i = l
          BY <3>1, <4>1, <1>6, <1>7
        <4>2. CASE i # l
          BY <3>1, <4>2, <1>7
        <4> QED
          BY <4>1, <4>2
      <3> QED
        BY <3>1, <3>2, <1>7 DEF Total
    <2>3. ASSUME NEW x, x \in Covers(more) PROVE x \in Total(new)
      <3>1. l \in 1 .. l /\ x \in Covers(new[l])
        BY <2>3, <1>1, <1>6, <1>7
      <3> QED
        BY <3>1, <1>7 DEF Total
    <2> QED
      BY <2>1, <2>2, <2>3
  <1>14. new = [segs EXCEPT ![Len(segs)].cnt = @ + n]
    BY <1>1 DEF new, b, l
  <1>15. GoodSegments(new) /\ Len(new) = Len(segs) /\ Total(new) = Total(segs) \cup Covers(more)
    BY <1>7, <1>12, <1>13 DEF l
  <1> QED
    BY <1>14, <1>15

\* What pfsFreeZones keeps and what it gives back, when segment k stays but for
\* j zones.
KeptSegments(segs, k, j) == [SubSeq(segs, 1, k) EXCEPT ![k].cnt = @ - j]
CutEnd(segs, k, j) == Segment(segs[k].sub, segs[k].num + segs[k].cnt - j, j)
CutSegments(segs, k, j) == (IF j > 0 THEN <<CutEnd(segs, k, j)>> ELSE <<>>) \o SubSeq(segs, k + 1, Len(segs))

LEMMA SegmentsCut ==
  ASSUME NEW segs, GoodSegments(segs), NEW k \in 1 .. Len(segs), NEW j \in Nat, j < segs[k].cnt
  PROVE  LET new  == KeptSegments(segs, k, j)
             list == CutSegments(segs, k, j)
         IN /\ GoodSegments(new) /\ Len(new) = k
            /\ list \in Seq(Segments) /\ \A i \in 1 .. Len(list) : Within(list[i])
            /\ \A i, m \in 1 .. Len(list) : i # m => Covers(list[i]) \cap Covers(list[m]) = {}
            /\ Total(new) \cup Total(list) = Total(segs) /\ Total(new) \cap Total(list) = {}
  <1> DEFINE l == Len(segs)
             bi == segs[k]
             off == CutEnd(segs, k, j)
             b == [bi EXCEPT !.cnt = @ - j]
             head == SubSeq(segs, 1, k)
             new == [head EXCEPT ![k] = b]
             tail == SubSeq(segs, k + 1, l)
             list == (IF j > 0 THEN <<off>> ELSE <<>>) \o tail
  <1>1. segs \in Seq(Segments) /\ l \in Nat /\ DOMAIN segs = 1 .. l /\ k \in 1 .. l /\ k \in Nat
    BY SegmentsFacts DEF GoodSegments
  <1>2. /\ \A i \in 1 .. l : GoodSegment(segs[i]) /\ (IsDescriptor(i) => segs[i].cnt = 1) /\ Within(segs[i])
        /\ \A i, m \in 1 .. l : i # m => Covers(segs[i]) \cap Covers(segs[m]) = {}
        /\ \A i \in 1 .. l : segs[i] \in Segments
    BY <1>1, SegmentsFacts DEF GoodSegments, GoodSegment
  <1>3. /\ bi \in Segments /\ bi.sub \in Subs /\ bi.num \in Nat /\ bi.cnt \in Nat
        /\ Within(bi) /\ bi.cnt \in 1 .. CountMax /\ Size[bi.sub] \in Nat /\ (IsDescriptor(k) => bi.cnt = 1)
    BY <1>1, <1>2, SizeFacts DEF GoodSegment, Segments
  <1> HIDE DEF l, bi
  <1>4. b \in Segments /\ b.sub = bi.sub /\ b.num = bi.num /\ b.cnt = bi.cnt - j
    BY <1>3 DEF Segments, bi
  <1>5. off \in Segments /\ off.sub = bi.sub /\ off.num = bi.num + bi.cnt - j /\ off.cnt = j
    BY <1>3 DEF Segments, Segment, bi, CutEnd
  <1> HIDE DEF b, off
  <1>a. j < bi.cnt /\ bi.num + bi.cnt <= Size[bi.sub] /\ CountMax \in Nat
    BY <1>3, SizeFacts DEF Within, bi
  <1>b. ASSUME NEW c \in Nat, c = bi.cnt - j PROVE c \in 1 .. CountMax /\ bi.num + c <= Size[bi.sub]
    <2>1. c >= 1 /\ c <= bi.cnt
      BY <1>3, <1>a, <1>b
    <2>2. c <= CountMax
      BY <2>1, <1>3, <1>a
    <2> QED
      BY <2>1, <2>2, <1>3, <1>a
  <1>c. b.cnt \in Nat
    BY <1>4 DEF Segments
  <1>d. GoodSegment(b)
    BY <1>b, <1>c, <1>4 DEF GoodSegment, Within
  <1>e. IsDescriptor(k) => b.cnt = 1
    BY <1>3, <1>4, <1>a
  <1>f. off.num + off.cnt <= Size[off.sub]
    BY <1>3, <1>5, <1>a
  <1>6. GoodSegment(b) /\ (IsDescriptor(k) => b.cnt = 1) /\ Within(off)
    BY <1>5, <1>d, <1>e, <1>f DEF Within
  <1>7. Covers(bi) = Covers(b) \cup Covers(off) /\ Covers(b) \cap Covers(off) = {}
    <2>1. Run(bi) = Run(b) \cup Run(off) /\ Run(b) \cap Run(off) = {}
      <3>1. bi.cnt - j \in Nat /\ (bi.cnt - j) + j = bi.cnt /\ bi.num + (bi.cnt - j) = bi.num + bi.cnt - j
        BY <1>3, <1>a
      <3>2. /\ Run(bi) = bi.num .. bi.num + ((bi.cnt - j) + j) - 1
            /\ Run(b) = bi.num .. bi.num + (bi.cnt - j) - 1
            /\ Run(off) = bi.num + (bi.cnt - j) .. bi.num + (bi.cnt - j) + j - 1
        BY <3>1, <1>4, <1>5 DEF Run
      <3> QED
        BY <3>1, <3>2, <1>3, RunSplit
    <2> QED
      BY <2>1, <1>4, <1>5, InCovers
  <1>8. /\ head \in Seq(Segments) /\ Len(head) = k
        /\ \A i \in 1 .. k : head[i] = segs[i]
    BY <1>1, SubSeqProperties
  <1>9. /\ tail \in Seq(Segments) /\ Len(tail) = l - k
        /\ \A i \in 1 .. l - k : tail[i] = segs[k + i]
    <2>1. /\ tail \in Seq(Segments) /\ Len(tail) = IF k + 1 <= l THEN l - (k + 1) + 1 ELSE 0
          /\ \A i \in 1 .. l - (k + 1) + 1 : tail[i] = segs[k + 1 + i - 1]
      BY <1>1, SubSeqProperties DEF l
    <2> QED
      BY <2>1, <1>1
  <1> HIDE DEF head, tail
  <1>10. /\ new \in Seq(Segments) /\ Len(new) = k /\ DOMAIN new = 1 .. k
         /\ \A i \in 1 .. k : new[i] = IF i = k THEN b ELSE segs[i]
    <2>0. k \in 1 .. Len(head)
      BY <1>1, <1>8
    <2>1. /\ new \in Seq(Segments) /\ Len(new) = k
          /\ \A i \in 1 .. k : new[i] = IF i = k THEN b ELSE segs[i]
      BY <2>0, <1>4, <1>8, ExceptSeq
    <2>2. DOMAIN new = 1 .. k
      BY <2>1, SegmentsFacts
    <2> QED
      BY <2>1, <2>2
  <1> DEFINE d == IF j > 0 THEN 1 ELSE 0
  <1>11. /\ list \in Seq(Segments) /\ Len(list) = d + (l - k) /\ DOMAIN list = 1 .. d + (l - k)
         /\ j > 0 => list[1] = off
         /\ \A i \in 1 .. l - k : list[d + i] = segs[k + i]
    <2>1. CASE j > 0
      <3>1. <<off>> \in Seq(Segments) /\ Len(<<off>>) = 1 /\ <<off>>[1] = off
        BY <1>5
      <3>2. list = <<off>> \o tail
        BY <2>1
      <3> HIDE DEF list
      <3>3. /\ list \in Seq(Segments) /\ Len(list) = 1 + (l - k)
            /\ \A i \in 1 .. 1 + (l - k) : list[i] = IF i <= 1 THEN <<off>>[i] ELSE tail[i - 1]
        BY <3>1, <3>2, <1>9, ConcatProperties
      <3>4. DOMAIN list = 1 .. 1 + (l - k)
        BY <3>3, SegmentsFacts
      <3>5. list[1] = off
        BY <3>1, <3>3, <1>1
      <3>6. \A i \in 1 .. l - k : list[1 + i] = segs[k + i]
        <4> TAKE i \in 1 .. l - k
        <4>1. 1 + i \in 1 .. 1 + (l - k) /\ ~(1 + i <= 1) /\ (1 + i) - 1 = i
          BY <1>1
        <4> QED
          BY <4>1, <3>3, <1>9
      <3> QED
        BY <2>1, <3>3, <3>4, <3>5, <3>6
    <2>2. CASE ~(j > 0)
      <3>1. list = tail
        BY <2>2, <1>9, ConcatEmptySeq
      <3> HIDE DEF list
      <3>2. DOMAIN list = 1 .. l - k
        BY <3>1, <1>9, SegmentsFacts
      <3>3. \A i \in 1 .. l - k : 0 + i = i
        BY <1>1
      <3>4. 0 + (l - k) = l - k
        BY <1>1
      <3> QED
        BY <2>2, <3>1, <3>2, <3>3, <3>4, <1>9
    <2> QED
      BY <2>1, <2>2
  <1> HIDE DEF list, new
  <1>12. \A i \in 1 .. Len(list) : (j > 0 /\ i = 1 /\ list[i] = off)
                                   \/ \E m \in k + 1 .. l : i = d + m - k /\ list[i] = segs[m]
    <2> TAKE i \in 1 .. Len(list)
    <2>1. CASE j > 0 /\ i = 1
      BY <2>1, <1>11
    <2>2. CASE ~(j > 0 /\ i = 1)
      <3>1. i - d \in 1 .. l - k /\ d + (i - d) = i /\ k + (i - d) \in k + 1 .. l
        BY <2>2, <1>1, <1>11
      <3>2. list[i] = segs[k + (i - d)]
        BY <3>1, <1>11
      <3>3. i = d + (k + (i - d)) - k
        BY <1>1, <1>11
      <3> QED
        BY <3>1, <3>2, <3>3
    <2> QED
      BY <2>1, <2>2
  <1>13. \A m \in k + 1 .. l : \E i \in 1 .. Len(list) : list[i] = segs[m]
    <2> TAKE m \in k + 1 .. l
    <2>1. m - k \in 1 .. l - k /\ k + (m - k) = m /\ d + (m - k) \in 1 .. d + (l - k)
      BY <1>1
    <2> QED
      BY <2>1, <1>11
  <1> DEFINE n == Len(list)
  <1>14. n \in Nat /\ (j > 0 => 1 \in 1 .. n) /\ DOMAIN list = 1 .. n
    BY <1>1, <1>11
  <1> HIDE DEF n, d
  <1>15. \A m \in k + 1 .. l : m \in 1 .. l /\ m # k
    BY <1>1
  <1>16. \A i \in 1 .. k : i \in 1 .. l /\ i \notin k + 1 .. l
    BY <1>1
  <1>17. \A i \in 1 .. n : Within(list[i])
    BY <1>2, <1>6, <1>12, <1>15 DEF n
  <1>18. \A m \in k + 1 .. l : Covers(segs[m]) \cap Covers(off) = {} /\ Covers(segs[m]) \cap Covers(b) = {}
    BY <1>1, <1>2, <1>7, <1>15 DEF bi
  <1>19. \A i, m \in 1 .. n : i # m => Covers(list[i]) \cap Covers(list[m]) = {}
    <2> SUFFICES ASSUME NEW i \in 1 .. n, NEW m \in 1 .. n, i # m
                 PROVE  Covers(list[i]) \cap Covers(list[m]) = {}
      OBVIOUS
    <2>1. CASE \E p \in k + 1 .. l : i = d + p - k /\ list[i] = segs[p]
      <3>1. PICK p \in k + 1 .. l : i = d + p - k /\ list[i] = segs[p]
        BY <2>1
      <3>2. CASE j > 0 /\ m = 1 /\ list[m] = off
        BY <3>1, <3>2, <1>18
      <3>3. CASE \E q \in k + 1 .. l : m = d + q - k /\ list[m] = segs[q]
        <4>1. PICK q \in k + 1 .. l : m = d + q - k /\ list[m] = segs[q]
          BY <3>3
        <4>2. p # q
          BY <3>1, <4>1
        <4> QED
          BY <3>1, <4>1, <4>2, <1>2, <1>15
      <3> QED
        BY <3>2, <3>3, <1>12 DEF n
    <2>2. CASE j > 0 /\ i = 1 /\ list[i] = off
      <3>1. PICK q \in k + 1 .. l : m = d + q - k /\ list[m] = segs[q]
        BY <2>2, <1>12 DEF n
      <3> QED
        BY <2>2, <3>1, <1>18
    <2> QED
      BY <2>1, <2>2, <1>12 DEF n
  <1>20. GoodSegments(new)
    <2>1. \A i \in 1 .. k : GoodSegment(new[i]) /\ (IsDescriptor(i) => new[i].cnt = 1)
      BY <1>2, <1>6, <1>10, <1>16
    <2>2. \A i \in 1 .. k : Covers(new[i]) \subseteq Covers(segs[i])
      BY <1>7, <1>10 DEF bi
    <2>3. \A i, m \in 1 .. k : i # m => Covers(new[i]) \cap Covers(new[m]) = {}
      BY <2>2, <1>2, <1>16
    <2>4. k > 0
      BY <1>1
    <2> QED
      BY <2>1, <2>3, <2>4, <1>10 DEF GoodSegments
  <1>21. Total(list) \cap Total(new) = {}
    <2> SUFFICES ASSUME NEW x \in Total(list), x \in Total(new) PROVE FALSE
      OBVIOUS
    <2>1. PICK i \in 1 .. n : x \in Covers(list[i])
      BY <1>14 DEF Total
    <2>2. PICK m \in 1 .. k : x \in Covers(new[m])
      BY <1>10 DEF Total
    <2>3. CASE m = k
      <3>1. x \in Covers(b)
        BY <2>2, <2>3, <1>10
      <3> QED
        BY <3>1, <2>1, <1>7, <1>12, <1>18 DEF n
    <2>4. CASE m # k
      <3>1. x \in Covers(segs[m]) /\ m \in 1 .. l
        BY <2>2, <2>4, <1>10, <1>16
      <3>2. CASE list[i] = off
        BY <3>1, <3>2, <2>1, <2>4, <1>1, <1>2, <1>7 DEF bi
      <3>3. CASE \E p \in k + 1 .. l : list[i] = segs[p]
        BY <3>1, <3>3, <2>1, <2>2, <1>2, <1>15, <1>16
      <3> QED
        BY <3>2, <3>3, <1>12 DEF n
    <2> QED
      BY <2>3, <2>4
  <1>22. ASSUME NEW x, x \in Total(segs) PROVE x \in Total(new) \cup Total(list)
    <2>1. PICK i \in 1 .. l : x \in Covers(segs[i])
      BY <1>22, <1>1 DEF Total
    <2>2. CASE i < k
      <3>1. i \in 1 .. k /\ new[i] = segs[i]
        BY <2>2, <1>1, <1>10
      <3> QED
        BY <2>1, <3>1, <1>10 DEF Total
    <2>3. CASE i = k
      <3>1. x \in Covers(b) \/ x \in Covers(off)
        BY <2>1, <2>3, <1>7 DEF bi
      <3>2. CASE x \in Covers(b)
        <4>1. k \in 1 .. k /\ new[k] = b
          BY <1>1, <1>10
        <4> QED
          BY <3>2, <4>1, <1>10 DEF Total
      <3>3. CASE x \in Covers(off)
        <4>1. j > 0
          <5>1. PICK z \in Run(off) : TRUE
            BY <3>3, InCovers
          <5> QED
            BY <5>1, <1>3, <1>5 DEF Run
        <4> QED
          BY <3>3, <4>1, <1>11, <1>14 DEF Total
      <3> QED
        BY <3>1, <3>2, <3>3
    <2>4. CASE i > k
      <3>1. i \in k + 1 .. l
        BY <2>4, <1>1
      <3>2. PICK m \in 1 .. n : list[m] = segs[i]
        BY <3>1, <1>13 DEF n
      <3> QED
        BY <2>1, <3>2, <1>14 DEF Total
    <2> QED
      BY <2>2, <2>3, <2>4, <1>1
  <1>23. ASSUME NEW x, x \in Total(list) PROVE x \in Total(segs)
    <2>1. PICK i \in 1 .. n : x \in Covers(list[i])
      BY <1>23, <1>14 DEF Total
    <2>2. CASE list[i] = off
      BY <2>1, <2>2, <1>1, <1>7 DEF Total, bi
    <2>3. CASE \E p \in k + 1 .. l : list[i] = segs[p]
      BY <2>1, <2>3, <1>1, <1>15 DEF Total
    <2> QED
      BY <2>2, <2>3, <1>12 DEF n
  <1>24. ASSUME NEW x, x \in Total(new) PROVE x \in Total(segs)
    <2>1. PICK i \in 1 .. k : x \in Covers(new[i])
      BY <1>24, <1>10 DEF Total
    <2>2. x \in Covers(segs[i]) /\ i \in 1 .. l
      BY <2>1, <1>7, <1>10, <1>16 DEF bi
    <2> QED
      BY <2>2, <1>1 DEF Total
  <1>25. Total(new) \cup Total(list) = Total(segs)
    BY <1>22, <1>23, <1>24
  <1>26. new = KeptSegments(segs, k, j)
    <2>1. head[k] = bi /\ k \in DOMAIN head
      BY <1>1, <1>8, SegmentsFacts DEF bi
    <2> QED
      BY <2>1 DEF new, b, head, KeptSegments
  <1>27. list = CutSegments(segs, k, j)
    BY DEF list, tail, l, off, CutSegments
  <1>28. /\ GoodSegments(new) /\ Len(new) = k
         /\ list \in Seq(Segments) /\ \A i \in 1 .. Len(list) : Within(list[i])
         /\ \A i, m \in 1 .. Len(list) : i # m => Covers(list[i]) \cap Covers(list[m]) = {}
         /\ Total(new) \cup Total(list) = Total(segs) /\ Total(new) \cap Total(list) = {}
    BY <1>10, <1>11, <1>17, <1>19, <1>20, <1>21, <1>25 DEF n
  <1> QED
    BY <1>26, <1>27, <1>28

LEMMA FreeSegmentsUnfold ==
  ASSUME NEW v \in [used : [Subs -> SUBSET Nat], free : [Subs -> Int]], NEW list \in Seq(Segments)
  PROVE  \E after : /\ FreeSegments(v, list) = after[Len(list)] /\ after[0] = v
                    /\ \A k \in 1 .. Len(list) : after[k] = FreeBlockSegment(after[k - 1], list[k])
  <1> DEFINE n == Len(list)
             Volumes == [used : [Subs -> SUBSET Nat], free : [Subs -> Int]]
             step == [p \in (1 .. n) \X Volumes |-> FreeBlockSegment(p[2], list[p[1]])]
  <1>1. n \in Nat /\ \A k \in 1 .. n : list[k].sub \in Subs /\ list[k].num \in Nat /\ list[k].cnt \in Nat
    BY SegmentsFacts
  <1>2. ASSUME NEW k \in 1 .. n, NEW w \in Volumes PROVE FreeBlockSegment(w, list[k]) \in Volumes
    <2> DEFINE bi == list[k]
    <2>1. bi.sub \in Subs /\ bi.num \in Nat /\ bi.cnt \in Nat
      BY <1>1
    <2> HIDE DEF bi
    <2>2. w.used \in [Subs -> SUBSET Nat] /\ w.free \in [Subs -> Int]
      OBVIOUS
    <2>3. [w.used EXCEPT ![bi.sub] = @ \ (bi.num .. bi.num + bi.cnt - 1)] \in [Subs -> SUBSET Nat]
      BY <2>1, <2>2
    <2>4. [w.free EXCEPT ![bi.sub] = @ + bi.cnt] \in [Subs -> Int]
      BY <2>1, <2>2
    <2>5. FreeBlockSegment(w, bi) \in Volumes
      BY <2>3, <2>4 DEF FreeBlockSegment
    <2> QED
      BY <2>5 DEF bi
  <1>3. \A k \in 1 .. n : \A w \in Volumes : step[<<k, w>>] = FreeBlockSegment(w, list[k])
    OBVIOUS
  <1>4. v \in Volumes
    OBVIOUS
  <1> HIDE DEF n, step, Volumes
  <1>5. PICK g : IsLoop(v, step, n, g)
    BY <1>1, LoopExists
  <1>6. g = [k \in 0 .. n |-> IF k = 0 THEN v ELSE step[<<k, g[k - 1]>>]]
    BY <1>5 DEF IsLoop
  <1>7. g[0] = v /\ \A k \in 1 .. n : g[k] = step[<<k, g[k - 1]>>]
    BY <1>1, <1>6
  <1> DEFINE S == {k \in Nat : k <= n => g[k] \in Volumes}
  <1>8. 0 \in S
    BY <1>4, <1>7
  <1>9. ASSUME NEW k \in Nat, k \in S PROVE k + 1 \in S
    <2> SUFFICES ASSUME k + 1 <= n PROVE g[k + 1] \in Volumes
      OBVIOUS
    <2>1. k + 1 \in 1 .. n /\ (k + 1) - 1 = k /\ g[k] \in Volumes
      BY <1>1, <1>9
    <2>2. g[k + 1] = step[<<k + 1, g[k]>>]
      BY <2>1, <1>7
    <2> QED
      BY <2>1, <2>2, <1>2, <1>3
  <1> HIDE DEF S
  <1>10. Nat \subseteq S
    BY <1>8, <1>9, Induction
  <1>11. \A k \in 0 .. n : g[k] \in Volumes
    BY <1>1, <1>10 DEF S
  <1>12. \A k \in 1 .. n : g[k] = FreeBlockSegment(g[k - 1], list[k])
    <2> TAKE k \in 1 .. n
    <2>1. k - 1 \in 0 .. n
      BY <1>1
    <2> QED
      BY <2>1, <1>3, <1>7, <1>11
  <1>13. g = [k \in 0 .. n |-> IF k = 0 THEN v ELSE FreeBlockSegment(g[k - 1], list[k])]
    <2>1. g = [k \in 0 .. n |-> g[k]]
      BY <1>6
    <2>2. \A k \in 0 .. n : g[k] = IF k = 0 THEN v ELSE FreeBlockSegment(g[k - 1], list[k])
      <3> TAKE k \in 0 .. n
      <3>1. CASE k = 0
        BY <3>1, <1>7
      <3>2. CASE k # 0
        <4>1. k \in 1 .. n
          BY <3>2, <1>1
        <4> QED
          BY <4>1, <3>2, <1>12
      <3> QED
        BY <3>1, <3>2
    <2> QED
      BY <2>1, <2>2
  <1> DEFINE after == CHOOSE h : h = [k \in 0 .. n |-> IF k = 0 THEN v ELSE FreeBlockSegment(h[k - 1], list[k])]
  <1>14. after = [k \in 0 .. n |-> IF k = 0 THEN v ELSE FreeBlockSegment(after[k - 1], list[k])]
    BY <1>13
  <1>15. FreeSegments(v, list) = after[n]
    BY DEF FreeSegments, n
  <1> HIDE DEF after
  <1>16. after[0] = v /\ \A k \in 1 .. n : after[k] = FreeBlockSegment(after[k - 1], list[k])
    BY <1>1, <1>14
  <1>17. /\ FreeSegments(v, list) = after[n] /\ after[0] = v
         /\ \A k \in 1 .. n : after[k] = FreeBlockSegment(after[k - 1], list[k])
    BY <1>15, <1>16
  <1> QED
    BY <1>17 DEF n

\* A list of segments is given back, one after the other: the counts stay right
\* when each of their zones was in use and is listed once.
LEMMA FreeSegmentsReturn ==
  ASSUME NEW v, GoodVolume(v), FreeEnough(v),
         NEW list \in Seq(Segments), \A i \in 1 .. Len(list) : Within(list[i]),
         Total(list) \cap ReservedZones = {}
  PROVE  LET w == FreeSegments(v, list)
         IN /\ GoodVolume(w) /\ FreeEnough(w) /\ UsedOf(w) = UsedOf(v) \ Total(list)
            /\ /\ FreeExact(v) /\ Total(list) \subseteq UsedOf(v)
               /\ \A i, j \in 1 .. Len(list) : i # j => Covers(list[i]) \cap Covers(list[j]) = {}
               => FreeExact(w)
  <1> DEFINE n == Len(list)
             First(k) == UNION {Covers(list[i]) : i \in 1 .. k}
             Once == /\ FreeExact(v) /\ Total(list) \subseteq UsedOf(v)
                     /\ \A i, j \in 1 .. n : i # j => Covers(list[i]) \cap Covers(list[j]) = {}
             P(k, w) == /\ GoodVolume(w) /\ FreeEnough(w) /\ UsedOf(w) = UsedOf(v) \ First(k)
                        /\ Once => FreeExact(w)
  <1>1. n \in Nat /\ DOMAIN list = 1 .. n
    BY SegmentsFacts
  <1>2. v \in [used : [Subs -> SUBSET Nat], free : [Subs -> Int]]
    BY DEF GoodVolume
  <1>3. PICK after : /\ FreeSegments(v, list) = after[n] /\ after[0] = v
                     /\ \A k \in 1 .. n : after[k] = FreeBlockSegment(after[k - 1], list[k])
    BY <1>2, FreeSegmentsUnfold
  <1>4. \A i \in 1 .. n : Within(list[i]) /\ Covers(list[i]) \cap ReservedZones = {}
    BY <1>1 DEF Total
  <1>5. Once => FreeExact(v) /\ \A i \in 1 .. n : Covers(list[i]) \subseteq UsedOf(v)
    BY <1>1 DEF Total
  <1>6. Once => \A i, j \in 1 .. n : i # j => Covers(list[i]) \cap Covers(list[j]) = {}
    OBVIOUS
  <1> DEFINE S == {k \in Nat : k <= n => P(k, after[k])}
  <1>7. 0 \in S
    <2>1. First(0) = {}
      OBVIOUS
    <2>2. P(0, v)
      BY <2>1, <1>5
    <2> HIDE DEF P
    <2> QED
      BY <2>2, <1>3
  <1> HIDE DEF n, Once
  <1>8. ASSUME NEW k \in Nat, k \in S PROVE k + 1 \in S
    <2> SUFFICES ASSUME k + 1 <= n PROVE P(k + 1, after[k + 1])
      OBVIOUS
    <2>1. k + 1 \in 1 .. n /\ (k + 1) - 1 = k /\ k <= n
      BY <1>1
    <2>2. P(k, after[k])
      BY <1>8, <2>1
    <2> DEFINE w == after[k]
               bi == list[k + 1]
    <2>3. after[k + 1] = FreeBlockSegment(w, bi)
      BY <2>1, <1>3
    <2>4. Within(bi) /\ Covers(bi) \cap ReservedZones = {}
      BY <2>1, <1>4
    <2>5. First(k + 1) = First(k) \cup Covers(bi)
      <3>1. 1 .. k + 1 = (1 .. k) \cup {k + 1}
        BY <2>1
      <3> QED
        BY <3>1
    <2>6. Once => Covers(bi) \subseteq UsedOf(v) /\ Covers(bi) \cap First(k) = {}
      <3> SUFFICES ASSUME Once PROVE Covers(bi) \subseteq UsedOf(v) /\ Covers(bi) \cap First(k) = {}
        OBVIOUS
      <3>1. \A i \in 1 .. k : i \in 1 .. n /\ i # k + 1
        BY <1>1, <2>1
      <3>2. \A i \in 1 .. k : Covers(list[i]) \cap Covers(bi) = {}
        BY <3>1, <2>1, <1>6
      <3>3. Covers(bi) \subseteq UsedOf(v)
        BY <2>1, <1>5
      <3> QED
        BY <3>2, <3>3
    <2> HIDE DEF w, bi, First
    <2>7. GoodVolume(w) /\ FreeEnough(w) /\ UsedOf(w) = UsedOf(v) \ First(k) /\ (Once => FreeExact(w))
      BY <2>2 DEF w
    <2>8. /\ GoodVolume(FreeBlockSegment(w, bi))
          /\ UsedOf(FreeBlockSegment(w, bi)) = UsedOf(w) \ Covers(bi)
          /\ FreeEnough(FreeBlockSegment(w, bi))
          /\ FreeExact(w) /\ Covers(bi) \subseteq UsedOf(w) => FreeExact(FreeBlockSegment(w, bi))
      BY <2>4, <2>7, FreeReturns
    <2>9. UsedOf(FreeBlockSegment(w, bi)) = UsedOf(v) \ First(k + 1)
      BY <2>5, <2>7, <2>8
    <2>10. Once => FreeExact(FreeBlockSegment(w, bi))
      BY <2>6, <2>7, <2>8
    <2> QED
      BY <2>3, <2>8, <2>9, <2>10
  <1> HIDE DEF S
  <1>9. Nat \subseteq S
    BY <1>7, <1>8, Induction
  <1>10. P(n, after[n])
    BY <1>1, <1>9 DEF S
  <1>11. First(n) = Total(list)
    BY <1>1 DEF Total
  <1> QED
    BY <1>3, <1>10, <1>11 DEF n, Once

\* All of an inode is given back when it lists its segments itself; its
\* own zone twice, and none of those the descriptors list, when it does not.
LEMMA InodeBlocksReturn ==
  ASSUME NEW v, GoodVolume(v), FreeEnough(v), NEW segs, GoodSegments(segs),
         Total(segs) \cap ReservedZones = {}
  PROVE  LET w == FreeInodeBlocks(v, segs)
         IN /\ GoodVolume(w) /\ FreeEnough(w)
            /\ UsedOf(v) \ Total(segs) \subseteq UsedOf(w)
            /\ Len(segs) <= InodeMax => /\ UsedOf(w) = UsedOf(v) \ Total(segs)
                                        /\ FreeExact(v) /\ Total(segs) \subseteq UsedOf(v) => FreeExact(w)
  <1> DEFINE l == Len(segs)
             w == FreeInodeBlocks(v, segs)
             k == Min({InodeMax, l})
             list == SubSeq(segs, 1, k) \o (IF l > InodeMax THEN <<segs[1]>> ELSE <<>>)
  <1>1. segs \in Seq(Segments) /\ l \in Nat /\ l > 0 /\ DOMAIN segs = 1 .. l
    BY SegmentsFacts DEF GoodSegments
  <1>2. \A i \in 1 .. l : segs[i] \in Segments /\ Within(segs[i])
    BY <1>1, SegmentsFacts DEF GoodSegments, GoodSegment
  <1>3. \A i, j \in 1 .. l : i # j => Covers(segs[i]) \cap Covers(segs[j]) = {}
    BY DEF GoodSegments
  <1>4. w = FreeSegments(v, list)
    BY DEF FreeInodeBlocks
  <1> HIDE DEF l, w
  <1>5. k = IF InodeMax <= l THEN InodeMax ELSE l
    BY <1>1, SizeFacts, MinOfTwo
  <1>6. k \in 1 .. l /\ InodeMax \in Nat
    BY <1>1, <1>5, SizeFacts
  <1> HIDE DEF k
  <1>7. CASE l <= InodeMax
    <2>1. k = l /\ ~(l > InodeMax)
      BY <1>1, <1>5, <1>6, <1>7
    <2>2. list = segs
      <3>1. SubSeq(segs, 1, l) = segs
        BY <1>1, SubSeqFull DEF l
      <3> QED
        BY <2>1, <3>1, <1>1, ConcatEmptySeq
    <2> HIDE DEF list
    <2>3. /\ GoodVolume(w) /\ FreeEnough(w) /\ UsedOf(w) = UsedOf(v) \ Total(segs)
          /\ FreeExact(v) /\ Total(segs) \subseteq UsedOf(v) => FreeExact(w)
      BY <2>2, <1>1, <1>2, <1>3, <1>4, FreeSegmentsReturn DEF l
    <2> QED
      BY <2>3 DEF w, l
  <1>8. CASE l > InodeMax
    <2> DEFINE head == SubSeq(segs, 1, k)
    <2>1. /\ head \in Seq(Segments) /\ Len(head) = k /\ \A i \in 1 .. k : head[i] = segs[i]
      BY <1>1, <1>2, <1>6, SubSeqProperties
    <2>2. <<segs[1]>> \in Seq(Segments) /\ Len(<<segs[1]>>) = 1 /\ <<segs[1]>>[1] = segs[1]
      BY <1>1, <1>2
    <2>3. list = head \o <<segs[1]>>
      BY <1>8
    <2> HIDE DEF list, head
    <2>4. /\ list \in Seq(Segments) /\ Len(list) = k + 1
          /\ \A i \in 1 .. k + 1 : list[i] = IF i <= k THEN head[i] ELSE <<segs[1]>>[i - k]
      BY <2>1, <2>2, <2>3, ConcatProperties
    <2>5. \A i \in 1 .. Len(list) : \E m \in 1 .. l : list[i] = segs[m]
      <3> TAKE i \in 1 .. Len(list)
      <3>1. CASE i <= k
        <4>1. i \in 1 .. k /\ i \in 1 .. l
          BY <3>1, <1>1, <1>6, <2>4
        <4> QED
          BY <4>1, <3>1, <2>1, <2>4
      <3>2. CASE ~(i <= k)
        <4>1. i - k = 1 /\ 1 \in 1 .. l
          BY <3>2, <1>1, <1>6, <2>4
        <4> QED
          BY <4>1, <3>2, <2>2, <2>4
      <3> QED
        BY <3>1, <3>2
    <2>6. \A i \in 1 .. Len(list) : Within(list[i])
      BY <2>5, <1>2
    <2>7. Total(list) \subseteq Total(segs)
      <3>1. DOMAIN list = 1 .. Len(list) /\ DOMAIN segs = 1 .. l
        BY <2>4, <1>1, LenProperties DEF l
      <3>2. \A i \in DOMAIN list : \E m \in DOMAIN segs : Covers(list[i]) = Covers(segs[m])
        BY <3>1, <2>5
      <3> QED
        BY <3>2, Zenon DEF Total
    <2>8. /\ GoodVolume(w) /\ FreeEnough(w) /\ UsedOf(w) = UsedOf(v) \ Total(list)
      BY <2>4, <2>6, <2>7, <1>4, FreeSegmentsReturn
    <2>9. ~(l <= InodeMax)
      BY <1>1, <1>6, <1>8
    <2>10. UsedOf(v) \ Total(segs) \subseteq UsedOf(w)
      BY <2>7, <2>8
    <2> QED
      BY <2>8, <2>9, <2>10 DEF w, l
  <1> QED
    BY <1>1, <1>6, <1>7, <1>8

-----------------------------------------------------------------------------
(* Where the data of a file is: one segment after the other.               *)

\* "b" goes on from where "a" ends.
Begins(V, a, b) == \E r \in Seq(V) : b = a \o r

LEMMA BeginsOn ==
  ASSUME NEW V, NEW a \in Seq(V)
  PROVE  /\ Begins(V, a, a)
         /\ \A b \in Seq(V) : Begins(V, a, b) => IsPrefix(a, b)
         /\ \A r \in Seq(V) : Begins(V, a, a \o r)
         /\ \A b \in Seq(V) : \A r \in Seq(V) : Begins(V, a, b) => Begins(V, a, b \o r)
  <1>1. Begins(V, a, a)
    <2>1. <<>> \in Seq(V) /\ a \o <<>> = a
      BY ConcatEmptySeq
    <2> QED
      BY <2>1 DEF Begins
  <1>2. ASSUME NEW b \in Seq(V), Begins(V, a, b) PROVE IsPrefix(a, b)
    <2>1. PICK r \in Seq(V) : b = a \o r
      BY <1>2 DEF Begins
    <2>2. Len(a) \in Nat /\ SubSeq(a, 1, Len(a)) = a
      BY LenProperties, SubSeqFull
    <2>3. SubSeq(b, 1, Len(a)) = a
      <3>1. CASE Len(a) = 0
        <4>1. SubSeq(b, 1, 0) = <<>> /\ SubSeq(a, 1, 0) = <<>>
          BY SubSeqEmpty
        <4> QED
          BY <3>1, <4>1, <2>2
      <3>2. CASE Len(a) # 0
        <4>1. 1 \in 1 .. Len(a) /\ Len(a) \in 1 .. Len(a)
          BY <3>2, <2>2
        <4>2. SubSeq(a \o r, 1, Len(a)) = SubSeq(a, 1, Len(a))
          BY <4>1, SubSeqOfConcat1
        <4> QED
          BY <4>2, <2>1, <2>2
      <3> QED
        BY <3>1, <3>2
    <2>4. Len(a) <= Len(b)
      <3>1. Len(b) = Len(a) + Len(r) /\ Len(a) \in Nat /\ Len(r) \in Nat
        BY <2>1, ConcatProperties, LenProperties
      <3> QED
        BY <3>1
    <2> QED
      BY <2>2, <2>3, <2>4 DEF IsPrefix
  <1>3. ASSUME NEW b \in Seq(V), NEW r \in Seq(V), Begins(V, a, b) PROVE Begins(V, a, b \o r)
    <2>1. PICK q \in Seq(V) : b = a \o q
      BY <1>3 DEF Begins
    <2>2. b \o r = a \o (q \o r) /\ q \o r \in Seq(V)
      BY <2>1, ConcatAssociative, ConcatProperties
    <2> QED
      BY <2>2 DEF Begins
  <1>4. ASSUME NEW r \in Seq(V) PROVE Begins(V, a, a \o r)
    BY DEF Begins
  <1> QED
    BY <1>1, <1>2, <1>3, <1>4

LEMMA BeginsAfter ==
  ASSUME NEW V, NEW c \in Seq(V), NEW a \in Seq(V), NEW b \in Seq(V), Begins(V, a, b)
  PROVE  Begins(V, c \o a, c \o b)
  <1>1. PICK r \in Seq(V) : b = a \o r
    BY DEF Begins
  <1>2. c \o b = (c \o a) \o r
    BY <1>1, ConcatAssociative
  <1> QED
    BY <1>2 DEF Begins

\* The sequences of "q" one after the other, up to each.
Joined(V, q, g) ==
    /\ g \in [1 .. Len(q) -> Seq(V)]
    /\ g[1] = q[1]
    /\ \A i \in 2 .. Len(q) : g[i] = g[i - 1] \o q[i]

LEMMA FlattenFacts ==
  ASSUME NEW V, NEW q \in Seq(Seq(V)), Len(q) >= 1
  PROVE  \E g : Joined(V, q, g) /\ FlattenSeq(q) = g[Len(q)]
  <1> DEFINE n == Len(q)
             step == [p \in (1 .. n) \X Seq(V) |-> p[2] \o q[p[1]]]
             flat == CHOOSE h : h = [i \in 1 .. n |-> IF i = 1 THEN q[i] ELSE h[i - 1] \o q[i]]
  <1>1. n \in Nat /\ n >= 1 /\ \A i \in 1 .. n : q[i] \in Seq(V)
    BY LenProperties, ElementOfSeq
  <1>2. FlattenSeq(q) = flat[n]
    BY <1>1 DEF FlattenSeq
  <1> HIDE DEF n, flat
  <1>3. \A k \in 1 .. n : \A c \in Seq(V) : step[<<k, c>>] = c \o q[k]
    OBVIOUS
  <1> HIDE DEF step
  <1>4. PICK g : IsLoop(<<>>, step, n, g)
    BY <1>1, LoopExists
  <1>5. g = [k \in 0 .. n |-> IF k = 0 THEN <<>> ELSE step[<<k, g[k - 1]>>]]
    BY <1>4 DEF IsLoop
  <1>6. g[0] = <<>> /\ \A k \in 1 .. n : g[k] = step[<<k, g[k - 1]>>]
    BY <1>1, <1>5
  <1> DEFINE S == {k \in Nat : k <= n => g[k] \in Seq(V)}
  <1>7. 0 \in S
    <2>1. g[0] \in Seq(V)
      BY <1>6, EmptySeq
    <2> QED
      BY <2>1
  <1>8. ASSUME NEW k \in Nat, k \in S PROVE k + 1 \in S
    <2> SUFFICES ASSUME k + 1 <= n PROVE g[k + 1] \in Seq(V)
      OBVIOUS
    <2>1. k + 1 \in 1 .. n /\ (k + 1) - 1 = k /\ g[k] \in Seq(V)
      BY <1>1, <1>8
    <2>2. g[k + 1] = g[k] \o q[k + 1] /\ q[k + 1] \in Seq(V)
      BY <2>1, <1>1, <1>3, <1>6
    <2> QED
      BY <2>1, <2>2, ConcatProperties
  <1> HIDE DEF S
  <1>9. \A k \in 0 .. n : g[k] \in Seq(V)
    <2>1. Nat \subseteq S
      BY <1>7, <1>8, Induction
    <2> QED
      BY <2>1, <1>1 DEF S
  <1>10. \A k \in 1 .. n : g[k] = g[k - 1] \o q[k]
    <2> TAKE k \in 1 .. n
    <2>1. k - 1 \in 0 .. n
      BY <1>1
    <2> QED
      BY <2>1, <1>3, <1>6, <1>9
  <1>11. g[1] = q[1]
    <2>1. 1 \in 1 .. n /\ 1 - 1 = 0
      BY <1>1
    <2>2. g[1] = <<>> \o q[1] /\ q[1] \in Seq(V)
      BY <2>1, <1>1, <1>6, <1>10
    <2> QED
      BY <2>2, ConcatEmptySeq
  <1> DEFINE h == [i \in 1 .. n |-> g[i]]
  <1>12. h = [i \in 1 .. n |-> IF i = 1 THEN q[i] ELSE h[i - 1] \o q[i]]
    <2>1. \A i \in 1 .. n : g[i] = IF i = 1 THEN q[i] ELSE h[i - 1] \o q[i]
      <3> TAKE i \in 1 .. n
      <3>1. CASE i = 1
        BY <3>1, <1>11
      <3>2. CASE i # 1
        <4>1. i - 1 \in 1 .. n
          BY <3>2, <1>1
        <4>2. h[i - 1] = g[i - 1]
          BY <4>1
        <4> HIDE DEF h
        <4> QED
          BY <4>2, <3>2, <1>10
      <3> QED
        BY <3>1, <3>2
    <2> QED
      BY <2>1
  <1> HIDE DEF h
  <1>13. flat = [i \in 1 .. n |-> IF i = 1 THEN q[i] ELSE flat[i - 1] \o q[i]]
    BY <1>12 DEF flat
  <1>14. flat[1] = q[1] /\ \A i \in 2 .. n : flat[i] = flat[i - 1] \o q[i]
    <2>1. 1 \in 1 .. n /\ \A i \in 2 .. n : i \in 1 .. n /\ i # 1
      BY <1>1
    <2> DEFINE At(i) == IF i = 1 THEN q[i] ELSE flat[i - 1] \o q[i]
    <2>2. \A i \in 1 .. n : flat[i] = At(i)
      <3>1. flat = [i \in 1 .. n |-> At(i)]
        BY <1>13
      <3> HIDE DEF At
      <3> QED
        BY <3>1
    <2> QED
      BY <2>1, <2>2, Zenon
  <1> DEFINE T == {k \in Nat : k + 1 <= n => flat[k + 1] \in Seq(V)}
  <1>15. 0 \in T
    <2>1. 0 + 1 = 1 /\ 1 \in 1 .. n
      BY <1>1
    <2> QED
      BY <2>1, <1>1, <1>14
  <1>16. ASSUME NEW k \in Nat, k \in T PROVE k + 1 \in T
    <2> SUFFICES ASSUME (k + 1) + 1 <= n PROVE flat[(k + 1) + 1] \in Seq(V)
      OBVIOUS
    <2>1. (k + 1) + 1 \in 2 .. n /\ (k + 1) + 1 \in 1 .. n /\ ((k + 1) + 1) - 1 = k + 1 /\ k + 1 <= n
      BY <1>1
    <2>2. flat[k + 1] \in Seq(V)
      BY <2>1, <1>16
    <2>3. flat[(k + 1) + 1] = flat[k + 1] \o q[(k + 1) + 1] /\ q[(k + 1) + 1] \in Seq(V)
      BY <2>1, <1>1, <1>14
    <2> QED
      BY <2>2, <2>3, ConcatProperties
  <1> HIDE DEF T
  <1>17. \A i \in 1 .. n : flat[i] \in Seq(V)
    <2>1. Nat \subseteq T
      BY <1>15, <1>16, Induction
    <2> SUFFICES ASSUME NEW i \in 1 .. n PROVE flat[i] \in Seq(V)
      OBVIOUS
    <2>2. i - 1 \in Nat /\ (i - 1) + 1 = i /\ i <= n
      BY <1>1
    <2> QED
      BY <2>1, <2>2 DEF T
  <1>18. flat \in [1 .. n -> Seq(V)]
    BY <1>13, <1>17
  <1>19. Joined(V, q, flat)
    BY <1>14, <1>18 DEF Joined, n
  <1> QED
    BY <1>2, <1>19 DEF n

LEMMA FlattenIsSeq ==
  ASSUME NEW V, NEW q \in Seq(Seq(V)), Len(q) >= 1
  PROVE  FlattenSeq(q) \in Seq(V)
  <1>1. PICK g : Joined(V, q, g) /\ FlattenSeq(q) = g[Len(q)]
    BY FlattenFacts
  <1>2. Len(q) \in 1 .. Len(q)
    BY LenProperties
  <1>3. g[Len(q)] \in Seq(V)
    BY <1>1, <1>2 DEF Joined
  <1> QED
    BY <1>1, <1>3

\* A sequence that goes on from where another ends, part by part.
LEMMA FlattenBegins ==
  ASSUME NEW V, NEW p \in Seq(Seq(V)), NEW q \in Seq(Seq(V)), Len(p) >= 1, Len(p) <= Len(q),
         \A i \in 1 .. Len(p) - 1 : q[i] = p[i], Begins(V, p[Len(p)], q[Len(p)])
  PROVE  Begins(V, FlattenSeq(p), FlattenSeq(q))
  <1> DEFINE l == Len(p)
             n == Len(q)
  <1>1. l \in Nat /\ n \in Nat /\ l >= 1 /\ l <= n
    BY LenProperties
  <1>2. (\A i \in 1 .. l : p[i] \in Seq(V)) /\ (\A i \in 1 .. n : q[i] \in Seq(V))
    BY ElementOfSeq
  <1>3. PICK g : Joined(V, p, g) /\ FlattenSeq(p) = g[l]
    BY <1>1, FlattenFacts
  <1>4. PICK h : Joined(V, q, h) /\ FlattenSeq(q) = h[n]
    BY <1>1, FlattenFacts
  <1>5. (\A i \in 1 .. l : g[i] \in Seq(V)) /\ g[1] = p[1] /\ \A i \in 2 .. l : g[i] = g[i - 1] \o p[i]
    BY <1>3 DEF Joined
  <1>6. (\A i \in 1 .. n : h[i] \in Seq(V)) /\ h[1] = q[1] /\ \A i \in 2 .. n : h[i] = h[i - 1] \o q[i]
    BY <1>4 DEF Joined
  <1>p. (\A i \in 1 .. l - 1 : q[i] = p[i]) /\ Begins(V, p[l], q[l])
    OBVIOUS
  <1> HIDE DEF l, n
  <1> DEFINE S == {i \in Nat : i + 1 <= l - 1 => h[i + 1] = g[i + 1]}
  <1>7. 0 \in S
    <2> SUFFICES ASSUME 1 <= l - 1 PROVE h[1] = g[1]
      OBVIOUS
    <2>1. 1 \in 1 .. l - 1
      BY <1>1
    <2> QED
      BY <2>1, <1>5, <1>6, <1>p
  <1>8. ASSUME NEW i \in Nat, i \in S PROVE i + 1 \in S
    <2> SUFFICES ASSUME (i + 1) + 1 <= l - 1 PROVE h[(i + 1) + 1] = g[(i + 1) + 1]
      OBVIOUS
    <2>1. /\ i + 1 <= l - 1 /\ ((i + 1) + 1) - 1 = i + 1
          /\ (i + 1) + 1 \in 2 .. l /\ (i + 1) + 1 \in 2 .. n /\ (i + 1) + 1 \in 1 .. l - 1
      BY <1>1
    <2>2. h[i + 1] = g[i + 1]
      BY <2>1, <1>8
    <2> QED
      BY <2>1, <2>2, <1>5, <1>6, <1>p
  <1> HIDE DEF S
  <1>9. \A i \in 1 .. l - 1 : h[i] = g[i]
    <2>1. Nat \subseteq S
      BY <1>7, <1>8, Induction
    <2> SUFFICES ASSUME NEW i \in 1 .. l - 1 PROVE h[i] = g[i]
      OBVIOUS
    <2>2. i - 1 \in Nat /\ (i - 1) + 1 = i /\ i <= l - 1
      BY <1>1
    <2> QED
      BY <2>1, <2>2 DEF S
  <1>10. Begins(V, g[l], h[l])
    <2>1. CASE l = 1
      BY <2>1, <1>5, <1>6, <1>p
    <2>2. CASE l # 1
      <3>1. l \in 2 .. l /\ l \in 2 .. n /\ l - 1 \in 1 .. l - 1 /\ l - 1 \in 1 .. l /\ l \in 1 .. l /\ l \in 1 .. n
        BY <2>2, <1>1
      <3>2. g[l] = g[l - 1] \o p[l] /\ h[l] = g[l - 1] \o q[l]
        BY <3>1, <1>5, <1>6, <1>9
      <3>3. g[l - 1] \in Seq(V) /\ p[l] \in Seq(V) /\ q[l] \in Seq(V)
        BY <3>1, <1>2, <1>5
      <3>4. Begins(V, g[l - 1] \o p[l], g[l - 1] \o q[l])
        BY <3>3, <1>p, BeginsAfter
      <3> QED
        BY <3>2, <3>4, Zenon
    <2> QED
      BY <2>1, <2>2
  <1>11. g[l] \in Seq(V)
    BY <1>1, <1>5
  <1> DEFINE T == {i \in Nat : l + i <= n => Begins(V, g[l], h[l + i])}
  <1>12. 0 \in T
    <2>1. l + 0 = l
      BY <1>1
    <2> QED
      BY <2>1, <1>10
  <1>13. ASSUME NEW i \in Nat, i \in T PROVE i + 1 \in T
    <2> SUFFICES ASSUME l + (i + 1) <= n PROVE Begins(V, g[l], h[l + (i + 1)])
      OBVIOUS
    <2>1. /\ l + i <= n /\ (l + (i + 1)) - 1 = l + i /\ l + (i + 1) \in 2 .. n
          /\ l + (i + 1) \in 1 .. n /\ l + i \in 1 .. n
      BY <1>1
    <2>2. Begins(V, g[l], h[l + i]) /\ h[l + i] \in Seq(V) /\ q[l + (i + 1)] \in Seq(V)
      BY <2>1, <1>2, <1>6, <1>13
    <2>3. h[l + (i + 1)] = h[l + i] \o q[l + (i + 1)]
      BY <2>1, <1>6
    <2> QED
      BY <2>2, <2>3, <1>11, BeginsOn
  <1> HIDE DEF T
  <1>14. Begins(V, g[l], h[n])
    <2>1. Nat \subseteq T
      BY <1>12, <1>13, Induction
    <2>2. n - l \in Nat /\ l + (n - l) = n /\ l + (n - l) <= n
      BY <1>1
    <2> QED
      BY <2>1, <2>2 DEF T
  <1> QED
    BY <1>3, <1>4, <1>14

\* What a segment adds to the zones of the data.
Adding(i, bi) == IF IsDescriptor(i) THEN <<>> ELSE [k \in 1 .. bi.cnt |-> <<bi.sub, bi.num + k - 1>>]
ZonePairs == Subs \X Int

LEMMA AddingFacts ==
  ASSUME NEW i, NEW bi \in Segments
  PROVE  /\ Adding(i, bi) \in Seq(ZonePairs)
         /\ Len(Adding(i, bi)) = IF IsDescriptor(i) THEN 0 ELSE bi.cnt
         /\ ~IsDescriptor(i) => \A k \in 1 .. bi.cnt : Adding(i, bi)[k] = <<bi.sub, bi.num + k - 1>>
  <1>1. bi.sub \in Subs /\ bi.num \in Nat /\ bi.cnt \in Nat
    BY DEF Segments
  <1>2. CASE IsDescriptor(i)
    BY <1>2, EmptySeq DEF Adding
  <1>3. CASE ~IsDescriptor(i)
    <2> DEFINE n == bi.cnt
               s == [k \in 1 .. n |-> <<bi.sub, bi.num + k - 1>>]
    <2>1. \A k \in 1 .. n : <<bi.sub, bi.num + k - 1>> \in ZonePairs
      BY <1>1 DEF ZonePairs
    <2>2. n \in Nat
      BY <1>1
    <2>3. Adding(i, bi) = s
      BY <1>3 DEF Adding
    <2> HIDE DEF n
    <2>4. s \in [1 .. n -> ZonePairs]
      BY <2>1
    <2>5. s \in Seq(ZonePairs) /\ Len(s) = n /\ \A k \in 1 .. n : s[k] = <<bi.sub, bi.num + k - 1>>
      BY <2>2, <2>4, SeqDef
    <2> QED
      BY <1>3, <2>3, <2>5 DEF n
  <1> QED
    BY <1>2, <1>3

\* The zones of a file as sequences, one for each of its segments.
ByExtent(segs) == [i \in 1 .. Len(segs) |-> Adding(i, segs[i])]

LEMMA ByExtentFacts ==
  ASSUME NEW segs \in Seq(Segments)
  PROVE  /\ FileZones(segs) = FlattenSeq(ByExtent(segs))
         /\ ByExtent(segs) \in Seq(Seq(ZonePairs)) /\ Len(ByExtent(segs)) = Len(segs)
         /\ \A i \in 1 .. Len(segs) : ByExtent(segs)[i] = Adding(i, segs[i])
  <1> DEFINE n == Len(segs)
             p == ByExtent(segs)
  <1>1. n \in Nat /\ \A i \in 1 .. n : segs[i] \in Segments
    BY SegmentsFacts
  <1>2. FileZones(segs) = FlattenSeq(p)
    BY DEF FileZones, ByExtent, Adding
  <1>3. p = [i \in 1 .. n |-> Adding(i, segs[i])]
    BY DEF ByExtent
  <1> HIDE DEF p, n
  <1>4. \A i \in 1 .. n : Adding(i, segs[i]) \in Seq(ZonePairs)
    BY <1>1, AddingFacts
  <1>5. p \in [1 .. n -> Seq(ZonePairs)] /\ \A i \in 1 .. n : p[i] = Adding(i, segs[i])
    BY <1>3, <1>4
  <1>6. p \in Seq(Seq(ZonePairs)) /\ Len(p) = n
    BY <1>1, <1>5, SeqDef
  <1> QED
    BY <1>2, <1>5, <1>6 DEF p, n

\* "t" lists the segments "s" lists, the last of them with as many zones or more,
\* and may go on after it.
Grows(s, t) ==
    /\ Len(s) <= Len(t)
    /\ \A i \in 1 .. Len(s) : /\ t[i].sub = s[i].sub /\ t[i].num = s[i].num /\ t[i].cnt >= s[i].cnt
                              /\ i < Len(s) => t[i].cnt = s[i].cnt

LEMMA GrowsFacts ==
  ASSUME NEW s \in Seq(Segments), NEW t \in Seq(Segments), NEW u \in Seq(Segments)
  PROVE  Grows(s, s) /\ (Grows(s, t) /\ Grows(t, u) => Grows(s, u))
  <1>1. /\ Len(s) \in Nat /\ \A i \in 1 .. Len(s) : s[i].cnt \in Nat
        /\ Len(t) \in Nat /\ \A i \in 1 .. Len(t) : t[i].cnt \in Nat
        /\ Len(u) \in Nat /\ \A i \in 1 .. Len(u) : u[i].cnt \in Nat
    BY SegmentsFacts
  <1>2. Grows(s, s)
    BY <1>1 DEF Grows
  <1>3. ASSUME Grows(s, t), Grows(t, u) PROVE Grows(s, u)
    <2>1. Len(s) <= Len(t) /\ Len(t) <= Len(u) /\ Len(s) <= Len(u)
      BY <1>1, <1>3 DEF Grows
    <2>2. ASSUME NEW i \in 1 .. Len(s)
          PROVE  /\ u[i].sub = s[i].sub /\ u[i].num = s[i].num /\ u[i].cnt >= s[i].cnt
                 /\ i < Len(s) => u[i].cnt = s[i].cnt
      <3>1. i \in 1 .. Len(t) /\ i \in 1 .. Len(u) /\ (i < Len(s) => i < Len(t))
        BY <1>1, <2>1
      <3>2. /\ t[i].sub = s[i].sub /\ t[i].num = s[i].num /\ t[i].cnt >= s[i].cnt
            /\ i < Len(s) => t[i].cnt = s[i].cnt
        BY <1>3 DEF Grows
      <3>3. /\ u[i].sub = t[i].sub /\ u[i].num = t[i].num /\ u[i].cnt >= t[i].cnt
            /\ i < Len(t) => u[i].cnt = t[i].cnt
        BY <1>3, <3>1 DEF Grows
      <3>4. s[i].cnt \in Nat /\ t[i].cnt \in Nat /\ u[i].cnt \in Nat
        BY <1>1, <3>1
      <3> QED
        BY <3>1, <3>2, <3>3, <3>4
    <2> QED
      BY <2>1, <2>2 DEF Grows
  <1> QED
    BY <1>2, <1>3

\* Appending a segment, adding zones to the last one, or taking the end of the
\* list away leaves the zones before it where they are.
LEMMA GrowsAppended ==
  ASSUME NEW s \in Seq(Segments), NEW bi \in Segments
  PROVE  Append(s, bi) \in Seq(Segments) /\ Grows(s, Append(s, bi))
  <1> DEFINE t == Append(s, bi)
             n == Len(s)
  <1>1. n \in Nat /\ \A i \in 1 .. n : s[i].cnt \in Nat
    BY SegmentsFacts
  <1>2. t \in Seq(Segments) /\ Len(t) = n + 1 /\ \A i \in 1 .. n : t[i] = s[i]
    BY AppendProperties
  <1> HIDE DEF t, n
  <1>3. n <= Len(t) /\ \A i \in 1 .. n : t[i].cnt >= s[i].cnt
    BY <1>1, <1>2
  <1> QED
    BY <1>2, <1>3 DEF Grows, t, n

LEMMA GrowsGrown ==
  ASSUME NEW s \in Seq(Segments), Len(s) > 0, NEW n \in Nat
  PROVE  Grows(s, [s EXCEPT ![Len(s)].cnt = @ + n])
  <1> DEFINE l == Len(s)
             b == [s[l] EXCEPT !.cnt = s[l].cnt + n]
             t == [s EXCEPT ![l] = b]
  <1>1. l \in Nat /\ l \in 1 .. l /\ \A i \in 1 .. l : s[i] \in Segments /\ s[i].cnt \in Nat
    BY SegmentsFacts
  <1>2. b \in Segments /\ b.sub = s[l].sub /\ b.num = s[l].num /\ b.cnt = s[l].cnt + n
    BY <1>1 DEF Segments
  <1>3. t = [s EXCEPT ![Len(s)].cnt = @ + n]
    OBVIOUS
  <1> HIDE DEF b, l
  <1>4. Len(t) = l /\ \A i \in 1 .. l : t[i] = IF i = l THEN b ELSE s[i]
    BY <1>1, <1>2, ExceptSeq DEF l
  <1> HIDE DEF t
  <1>5. ASSUME NEW i \in 1 .. l
        PROVE  /\ t[i].sub = s[i].sub /\ t[i].num = s[i].num /\ t[i].cnt >= s[i].cnt
               /\ i < l => t[i].cnt = s[i].cnt
    <2>1. CASE i = l
      <3>1. t[i] = b /\ s[l].cnt \in Nat
        BY <2>1, <1>1, <1>4
      <3> QED
        BY <3>1, <2>1, <1>1, <1>2
    <2>2. CASE i # l
      <3>1. t[i] = s[i] /\ s[i].cnt \in Nat
        BY <2>2, <1>1, <1>4
      <3> QED
        BY <3>1
    <2> QED
      BY <2>1, <2>2
  <1>6. l <= Len(t)
    BY <1>1, <1>4
  <1>7. Grows(s, t)
    BY <1>5, <1>6 DEF Grows, l
  <1> QED
    BY <1>3, <1>7

LEMMA GrowsCut ==
  ASSUME NEW s \in Seq(Segments), NEW k \in 1 .. Len(s), NEW j \in Nat, j < s[k].cnt
  PROVE  Grows(KeptSegments(s, k, j), s)
  <1> DEFINE b == [s[k] EXCEPT !.cnt = s[k].cnt - j]
             h == SubSeq(s, 1, k)
             t == [h EXCEPT ![k] = b]
  <1>1. k \in Nat /\ k \in 1 .. k /\ k \in Int /\ 1 \in Int /\ k <= Len(s) /\ k >= 1
    BY SegmentsFacts
  <1>2. \A i \in 1 .. k : i \in 1 .. Len(s) /\ s[i] \in Segments /\ s[i].cnt \in Nat
    BY <1>1, SegmentsFacts
  <1>3. h \in Seq(Segments) /\ Len(h) = k /\ \A i \in 1 .. k : h[i] = s[i]
    <2>1. /\ h \in Seq(Segments) /\ Len(h) = IF 1 <= k THEN k - 1 + 1 ELSE 0
          /\ \A i \in 1 .. k - 1 + 1 : h[i] = s[1 + i - 1]
      BY <1>1, <1>2, SubSeqProperties
    <2> HIDE DEF h
    <2>2. 1 <= k /\ k - 1 + 1 = k /\ \A i \in 1 .. k : 1 + i - 1 = i
      BY <1>1
    <2>3. Len(h) = k /\ \A i \in 1 .. k : h[i] = s[1 + i - 1]
      BY <2>1, <2>2
    <2>4. ASSUME NEW i \in 1 .. k PROVE h[i] = s[i]
      <3>1. h[i] = s[1 + i - 1]
        BY <2>3, Zenon
      <3>2. 1 + i - 1 = i
        BY <1>1
      <3> QED
        BY <3>1, <3>2, Zenon
    <2> QED
      BY <2>1, <2>3, <2>4
  <1>4. b \in Segments /\ b.sub = s[k].sub /\ b.num = s[k].num /\ b.cnt = s[k].cnt - j
    <2> DEFINE c == s[k].cnt - j
    <2>1. s[k] \in Segments /\ s[k].cnt \in Nat
      BY <1>1, <1>2
    <2>2. c \in Nat
      BY <2>1
    <2> HIDE DEF c
    <2>3. b = [s[k] EXCEPT !.cnt = c]
      BY DEF c
    <2>4. b \in Segments /\ b.sub = s[k].sub /\ b.num = s[k].num /\ b.cnt = c
      BY <2>1, <2>2, <2>3 DEF Segments
    <2> QED
      BY <2>4 DEF c
  <1>5. t = KeptSegments(s, k, j)
    <2>1. h[k].cnt = s[k].cnt /\ h[k] = s[k]
      BY <1>1, <1>3
    <2> QED
      BY <2>1 DEF KeptSegments
  <1> HIDE DEF b, h
  <1>6. Len(t) = k /\ \A i \in 1 .. k : t[i] = IF i = k THEN b ELSE h[i]
    BY <1>1, <1>3, <1>4, ExceptSeq
  <1> HIDE DEF t
  <1>7. ASSUME NEW i \in 1 .. k
        PROVE  /\ s[i].sub = t[i].sub /\ s[i].num = t[i].num /\ s[i].cnt >= t[i].cnt
               /\ i < k => s[i].cnt = t[i].cnt
    <2>1. CASE i = k
      <3>1. t[i] = b /\ s[k].cnt \in Nat
        BY <2>1, <1>1, <1>2, <1>6
      <3> QED
        BY <3>1, <2>1, <1>1, <1>4
    <2>2. CASE i # k
      <3>1. t[i] = s[i] /\ s[i].cnt \in Nat
        BY <2>2, <1>2, <1>3, <1>6
      <3> QED
        BY <3>1
    <2> QED
      BY <2>1, <2>2
  <1>8. Grows(t, s)
    BY <1>1, <1>6, <1>7 DEF Grows
  <1> QED
    BY <1>5, <1>8

\* A file that grows keeps its data where it is.
LEMMA GrowsBegins ==
  ASSUME NEW s \in Seq(Segments), NEW t \in Seq(Segments), Len(s) > 0, Grows(s, t)
  PROVE  IsPrefix(FileZones(s), FileZones(t))
  <1> DEFINE p == ByExtent(s)
             q == ByExtent(t)
             l == Len(s)
  <1>1. /\ FileZones(s) = FlattenSeq(p) /\ FileZones(t) = FlattenSeq(q)
        /\ p \in Seq(Seq(ZonePairs)) /\ Len(p) = l /\ \A i \in 1 .. l : p[i] = Adding(i, s[i])
        /\ q \in Seq(Seq(ZonePairs)) /\ Len(q) = Len(t) /\ \A i \in 1 .. Len(t) : q[i] = Adding(i, t[i])
    BY ByExtentFacts
  <1>2. /\ l \in Nat /\ l >= 1 /\ Len(t) \in Nat /\ l <= Len(t)
        /\ \A i \in 1 .. l : s[i] \in Segments
        /\ \A i \in 1 .. Len(t) : t[i] \in Segments
    BY SegmentsFacts DEF Grows
  <1>3. \A i \in 1 .. l : /\ t[i].sub = s[i].sub /\ t[i].num = s[i].num /\ t[i].cnt >= s[i].cnt
                          /\ i < l => t[i].cnt = s[i].cnt
    BY DEF Grows
  <1> HIDE DEF p, q, l
  <1>4. \A i \in 1 .. l - 1 : q[i] = p[i]
    <2> TAKE i \in 1 .. l - 1
    <2>1. i \in 1 .. l /\ i \in 1 .. Len(t) /\ i < l
      BY <1>2
    <2>2. t[i].sub = s[i].sub /\ t[i].num = s[i].num /\ t[i].cnt = s[i].cnt
      BY <2>1, <1>3
    <2>3. Adding(i, t[i]) = Adding(i, s[i])
      BY <2>2 DEF Adding
    <2> QED
      BY <2>1, <2>3, <1>1
  <1>5. Begins(ZonePairs, p[l], q[l])
    <2>0. l \in 1 .. l /\ l \in 1 .. Len(t)
      BY <1>2
    <2>1. p[l] = Adding(l, s[l]) /\ q[l] = Adding(l, t[l]) /\ s[l] \in Segments /\ t[l] \in Segments
      BY <2>0, <1>1, <1>2
    <2>2. p[l] \in Seq(ZonePairs) /\ q[l] \in Seq(ZonePairs)
      BY <2>1, AddingFacts
    <2>3. CASE IsDescriptor(l)
      <3>1. q[l] = p[l]
        BY <2>1, <2>3 DEF Adding
      <3> QED
        BY <3>1, <2>2, BeginsOn
    <2>4. CASE ~IsDescriptor(l)
      <3> DEFINE c == s[l].cnt
                 d == t[l].cnt
                 bi == Segment(s[l].sub, s[l].num + c, d - c)
                 r == Adding(l, bi)
      <3>1. /\ t[l].sub = s[l].sub /\ t[l].num = s[l].num /\ d >= c
            /\ s[l].sub \in Subs /\ s[l].num \in Nat /\ c \in Nat /\ d \in Nat
        BY <2>0, <2>1, <1>3 DEF Segments
      <3> HIDE DEF c, d
      <3>2. bi \in Segments /\ bi.sub = s[l].sub /\ bi.num = s[l].num + c /\ bi.cnt = d - c
        <4>1. s[l].num + c \in Nat /\ d - c \in Nat
          BY <3>1
        <4> QED
          BY <3>1, <4>1 DEF Segment, Segments
      <3> HIDE DEF bi
      <3>3. /\ r \in Seq(ZonePairs) /\ Len(r) = bi.cnt
            /\ \A k \in 1 .. bi.cnt : r[k] = <<bi.sub, bi.num + k - 1>>
        BY <2>4, <3>2, AddingFacts
      <3>4. Len(p[l]) = c /\ \A k \in 1 .. c : p[l][k] = <<s[l].sub, s[l].num + k - 1>>
        BY <2>1, <2>4, AddingFacts DEF c
      <3>5. Len(q[l]) = d /\ \A k \in 1 .. d : q[l][k] = <<t[l].sub, t[l].num + k - 1>>
        BY <2>1, <2>4, AddingFacts DEF d
      <3> HIDE DEF r
      <3> DEFINE w == p[l] \o r
      <3>6. /\ w \in Seq(ZonePairs) /\ Len(w) = Len(p[l]) + Len(r)
            /\ \A k \in 1 .. Len(p[l]) + Len(r) : w[k] = IF k <= Len(p[l]) THEN p[l][k] ELSE r[k - Len(p[l])]
        BY <2>2, <3>3, ConcatProperties
      <3> HIDE DEF w
      <3>7. Len(w) = d /\ \A k \in 1 .. d : w[k] = IF k <= c THEN p[l][k] ELSE r[k - c]
        <4>1. c + (d - c) = d
          BY <3>1
        <4> QED
          BY <4>1, <3>2, <3>3, <3>4, <3>6
      <3>8. \A k \in 1 .. d : w[k] = q[l][k]
        <4> TAKE k \in 1 .. d
        <4>1. CASE k <= c
          <5>1. k \in 1 .. c
            BY <4>1, <3>1
          <5> QED
            BY <4>1, <5>1, <3>1, <3>4, <3>5, <3>7
        <4>2. CASE ~(k <= c)
          <5>1. k - c \in 1 .. d - c /\ (s[l].num + c) + (k - c) - 1 = s[l].num + k - 1
            BY <4>2, <3>1
          <5>2. r[k - c] = <<s[l].sub, s[l].num + k - 1>>
            BY <5>1, <3>2, <3>3
          <5> QED
            BY <4>2, <5>2, <3>1, <3>5, <3>7
        <4> QED
          BY <4>1, <4>2
      <3>9. q[l] = w
        BY <2>2, <3>5, <3>6, <3>7, <3>8, SeqEqual
      <3>10. \E x \in Seq(ZonePairs) : q[l] = p[l] \o x
        BY <3>3, <3>9 DEF w
      <3> QED
        BY <3>10, Zenon DEF Begins
    <2> QED
      BY <2>3, <2>4
  <1>6. Begins(ZonePairs, FlattenSeq(p), FlattenSeq(q))
    BY <1>1, <1>2, <1>4, <1>5, FlattenBegins
  <1>7. FlattenSeq(p) \in Seq(ZonePairs) /\ FlattenSeq(q) \in Seq(ZonePairs)
    BY <1>1, <1>2, FlattenIsSeq
  <1> QED
    BY <1>1, <1>6, <1>7, BeginsOn

\* There are as many zones of data as the segments have.
LEMMA FileZonesCount ==
  ASSUME NEW s \in Seq(Segments), Len(s) > 0
  PROVE  Len(FileZones(s)) = DataZones(s) /\ FileZones(s) \in Seq(ZonePairs)
  <1> DEFINE p == ByExtent(s)
             n == Len(s)
             Z == ZonesUpTo(s)
  <1>1. /\ FileZones(s) = FlattenSeq(p) /\ p \in Seq(Seq(ZonePairs)) /\ Len(p) = n
        /\ \A i \in 1 .. n : p[i] = Adding(i, s[i])
    BY ByExtentFacts
  <1>2. n \in Nat /\ n >= 1 /\ \A i \in 1 .. n : s[i] \in Segments /\ s[i].cnt \in Nat
    BY SegmentsFacts
  <1>3. /\ Z \in [0 .. n -> Nat] /\ Z[0] = 0
        /\ \A k \in 1 .. n : Z[k] = Z[k - 1] + IF IsDescriptor(k) THEN 0 ELSE s[k].cnt
    BY ZonesUpToFacts
  <1>4. DataZones(s) = Z[n]
    BY DEF DataZones
  <1> HIDE DEF p, n, Z
  <1>5. PICK g : Joined(ZonePairs, p, g) /\ FlattenSeq(p) = g[n]
    BY <1>1, <1>2, FlattenFacts
  <1>6. /\ \A i \in 1 .. n : g[i] \in Seq(ZonePairs)
        /\ g[1] = p[1] /\ \A i \in 2 .. n : g[i] = g[i - 1] \o p[i]
    BY <1>1, <1>5 DEF Joined
  <1>7. \A i \in 1 .. n : p[i] \in Seq(ZonePairs) /\ Len(p[i]) = IF IsDescriptor(i) THEN 0 ELSE s[i].cnt
    BY <1>1, <1>2, AddingFacts
  <1>8. \A i \in 1 .. n : Z[i] = Z[i - 1] + Len(p[i])
    BY <1>3, <1>7
  <1> DEFINE S == {i \in Nat : i + 1 <= n => Len(g[i + 1]) = Z[i + 1]}
  <1>9. 0 \in S
    <2>1. 1 \in 1 .. n /\ 1 - 1 = 0 /\ 0 + 1 = 1
      BY <1>2
    <2>2. Z[1] = Z[0] + Len(p[1]) /\ Len(p[1]) \in Nat
      BY <2>1, <1>7, <1>8, LenProperties
    <2>3. Len(g[1]) = Z[1]
      BY <2>2, <1>3, <1>6
    <2> QED
      BY <2>1, <2>3
  <1>10. ASSUME NEW i \in Nat, i \in S PROVE i + 1 \in S
    <2> SUFFICES ASSUME (i + 1) + 1 <= n PROVE Len(g[(i + 1) + 1]) = Z[(i + 1) + 1]
      OBVIOUS
    <2>1. /\ i + 1 <= n /\ ((i + 1) + 1) - 1 = i + 1 /\ i + 1 \in 1 .. n
          /\ (i + 1) + 1 \in 2 .. n /\ (i + 1) + 1 \in 1 .. n
      BY <1>2
    <2>2. Len(g[i + 1]) = Z[i + 1]
      BY <2>1, <1>10
    <2>3. /\ g[(i + 1) + 1] = g[i + 1] \o p[(i + 1) + 1]
          /\ g[i + 1] \in Seq(ZonePairs) /\ p[(i + 1) + 1] \in Seq(ZonePairs)
      BY <2>1, <1>6, <1>7
    <2>4. Len(g[(i + 1) + 1]) = Len(g[i + 1]) + Len(p[(i + 1) + 1])
      BY <2>3, ConcatProperties
    <2> QED
      BY <2>1, <2>2, <2>4, <1>8
  <1> HIDE DEF S
  <1>11. Len(g[n]) = Z[n] /\ g[n] \in Seq(ZonePairs)
    <2>1. Nat \subseteq S
      BY <1>9, <1>10, Induction
    <2>2. n - 1 \in Nat /\ (n - 1) + 1 = n /\ (n - 1) + 1 <= n /\ n \in 1 .. n
      BY <1>2
    <2> QED
      BY <2>1, <2>2, <1>6 DEF S
  <1> QED
    BY <1>1, <1>4, <1>5, <1>11

=============================================================================
