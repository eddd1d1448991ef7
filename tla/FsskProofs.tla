----------------------------- MODULE FsskProofs -----------------------------
(* Theorems about fssk, for every well formed filesystem, any number and     *)
(* sizes of sub-partitions, any percentage that is accepted to stay free,    *)
(* and any number of losses of power and of transfers that fail.             *)
EXTENDS Fssk, PfsZonesProofs

-----------------------------------------------------------------------------
(* Sums and what is to be removed.                                         *)

LEMMA FsskFacts ==
  /\ \A d \in Images : WellFormed(d)
  /\ MinFree \in Nat /\ MinFree >= 3 /\ MaxDepth \in Nat /\ MaxFaults \in Nat
  /\ CountMax <= Widest
  BY FsskAssumption DEF Widest

\* A sum over 1 .. n is what the loop computes.
LEMMA SumToFacts ==
  ASSUME NEW f, NEW n \in Nat, \A s \in 1 .. n : f[s] \in Int
  PROVE  \E g : /\ g \in [0 .. n -> Int] /\ SumTo(f, n) = g[n] /\ g[0] = 0
                /\ \A k \in 1 .. n : g[k] = g[k - 1] + f[k]
  <1> DEFINE step == [p \in (1 .. n) \X Int |-> p[2] + f[p[1]]]
  <1>1. \A k \in 1 .. n : \A c \in Int : step[<<k, c>>] = c + f[k]
    OBVIOUS
  <1> HIDE DEF step
  <1>2. PICK g : IsLoop(0, step, n, g)
    BY LoopExists
  <1>3. g = [k \in 0 .. n |-> IF k = 0 THEN 0 ELSE step[<<k, g[k - 1]>>]]
    BY <1>2 DEF IsLoop
  <1>4. g[0] = 0 /\ \A k \in 1 .. n : g[k] = step[<<k, g[k - 1]>>]
    BY <1>3
  <1> DEFINE S == {k \in Nat : k <= n => g[k] \in Int}
  <1>5. 0 \in S
    BY <1>4
  <1>6. ASSUME NEW k \in Nat, k \in S PROVE k + 1 \in S
    <2> SUFFICES ASSUME k + 1 <= n PROVE g[k + 1] \in Int
      OBVIOUS
    <2>1. k + 1 \in 1 .. n /\ (k + 1) - 1 = k /\ g[k] \in Int
      BY <1>6
    <2>2. g[k + 1] = step[<<k + 1, g[k]>>]
      BY <2>1, <1>4
    <2> QED
      BY <2>1, <2>2, <1>1
  <1> HIDE DEF S
  <1>7. Nat \subseteq S
    BY <1>5, <1>6, Induction
  <1>8. \A k \in 0 .. n : g[k] \in Int
    BY <1>7 DEF S
  <1>9. \A k \in 1 .. n : g[k] = g[k - 1] + f[k]
    <2> TAKE k \in 1 .. n
    <2>1. k - 1 \in 0 .. n
      OBVIOUS
    <2> QED
      BY <2>1, <1>1, <1>4, <1>8
  <1>10. g = [k \in 0 .. n |-> IF k = 0 THEN 0 ELSE g[k - 1] + f[k]]
    <2>1. g = [k \in 0 .. n |-> g[k]]
      BY <1>3
    <2>2. \A k \in 0 .. n : g[k] = IF k = 0 THEN 0 ELSE g[k - 1] + f[k]
      BY <1>4, <1>9
    <2> QED
      BY <2>1, <2>2
  <1> DEFINE sum == CHOOSE h : h = [s \in 0 .. n |-> IF s = 0 THEN 0 ELSE h[s - 1] + f[s]]
  <1>11. sum = [s \in 0 .. n |-> IF s = 0 THEN 0 ELSE sum[s - 1] + f[s]]
    BY <1>10
  <1>12. SumTo(f, n) = sum[n]
    BY DEF SumTo
  <1> HIDE DEF sum
  <1>13. sum[0] = 0 /\ \A k \in 1 .. n : sum[k] = sum[k - 1] + f[k]
    BY <1>11
  <1> DEFINE T == {k \in Nat : k <= n => sum[k] = g[k]}
  <1>14. 0 \in T
    BY <1>4, <1>13
  <1>15. ASSUME NEW k \in Nat, k \in T PROVE k + 1 \in T
    <2> SUFFICES ASSUME k + 1 <= n PROVE sum[k + 1] = g[k + 1]
      OBVIOUS
    <2>1. k + 1 \in 1 .. n /\ (k + 1) - 1 = k /\ sum[k] = g[k]
      BY <1>15
    <2> QED
      BY <2>1, <1>9, <1>13
  <1> HIDE DEF T
  <1>16. Nat \subseteq T
    BY <1>14, <1>15, Induction
  <1>17. sum[n] = g[n]
    BY <1>16 DEF T
  <1>18. g \in [0 .. n -> Int]
    BY <1>3, <1>8
  <1> QED
    BY <1>4, <1>9, <1>12, <1>17, <1>18

LEMMA SumStep ==
  ASSUME NEW f, NEW n \in Nat, \A s \in 1 .. n + 1 : f[s] \in Int
  PROVE  /\ SumTo(f, n) \in Int /\ SumTo(f, 0) = 0
         /\ SumTo(f, n + 1) = SumTo(f, n) + f[n + 1]
  <1>0. n + 1 \in Nat /\ \A s \in 1 .. n : s \in 1 .. n + 1
    OBVIOUS
  <1>1. PICK g : /\ g \in [0 .. n -> Int] /\ SumTo(f, n) = g[n] /\ g[0] = 0
                 /\ \A k \in 1 .. n : g[k] = g[k - 1] + f[k]
    BY <1>0, SumToFacts
  <1>2. PICK h : /\ h \in [0 .. n + 1 -> Int] /\ SumTo(f, n + 1) = h[n + 1] /\ h[0] = 0
                 /\ \A k \in 1 .. n + 1 : h[k] = h[k - 1] + f[k]
    BY <1>0, SumToFacts
  <1>3. PICK e : SumTo(f, 0) = e[0] /\ e[0] = 0
    <2>1. 0 \in Nat /\ \A s \in 1 .. 0 : f[s] \in Int
      OBVIOUS
    <2> QED
      BY <2>1, SumToFacts
  <1> DEFINE S == {k \in Nat : k <= n => g[k] = h[k]}
  <1>4. 0 \in S
    BY <1>1, <1>2
  <1>5. ASSUME NEW k \in Nat, k \in S PROVE k + 1 \in S
    <2> SUFFICES ASSUME k + 1 <= n PROVE g[k + 1] = h[k + 1]
      OBVIOUS
    <2>1. k + 1 \in 1 .. n /\ k + 1 \in 1 .. n + 1 /\ (k + 1) - 1 = k /\ g[k] = h[k]
      BY <1>5
    <2> QED
      BY <2>1, <1>1, <1>2
  <1> HIDE DEF S
  <1>6. Nat \subseteq S
    BY <1>4, <1>5, Induction
  <1>7. g[n] = h[n]
    BY <1>6 DEF S
  <1>8. h[n + 1] = h[n] + f[n + 1]
    <2>1. n + 1 \in 1 .. n + 1 /\ (n + 1) - 1 = n
      OBVIOUS
    <2> QED
      BY <2>1, <1>2
  <1>9. g[n] \in Int
    BY <1>1
  <1> QED
    BY <1>1, <1>2, <1>3, <1>7, <1>8, <1>9

LEMMA SumIsInt ==
  ASSUME NEW f, NEW n \in Nat, \A s \in 1 .. n : f[s] \in Int
  PROVE  SumTo(f, n) \in Int
  BY SumToFacts

\* Each of them counts.
LEMMA SumGrows ==
  ASSUME NEW f, NEW m \in Nat, \A s \in 1 .. m : f[s] \in Nat /\ f[s] > 0
  PROVE  /\ \A k \in 0 .. m : SumTo(f, k) \in Nat
         /\ \A k \in 0 .. m : k < m => SumTo(f, k) < SumTo(f, m)
  <1> DEFINE S == {k \in Nat : k <= m => SumTo(f, k) \in Nat /\ \A i \in 0 .. k : i < k => SumTo(f, i) < SumTo(f, k)}
  <1>1. 0 \in S
    <2>1. SumTo(f, 0) = 0
      <3>1. 0 \in Nat /\ \A s \in 1 .. 0 : f[s] \in Int
        OBVIOUS
      <3>2. PICK g : SumTo(f, 0) = g[0] /\ g[0] = 0
        BY <3>1, SumToFacts
      <3> QED
        BY <3>2
    <2> QED
      BY <2>1
  <1>2. ASSUME NEW k \in Nat, k \in S PROVE k + 1 \in S
    <2> SUFFICES ASSUME k + 1 <= m
                 PROVE  SumTo(f, k + 1) \in Nat /\ \A i \in 0 .. k + 1 : i < k + 1 => SumTo(f, i) < SumTo(f, k + 1)
      OBVIOUS
    <2>1. k <= m /\ k + 1 \in 1 .. m /\ \A s \in 1 .. k + 1 : s \in 1 .. m
      OBVIOUS
    <2>2. SumTo(f, k) \in Nat /\ \A i \in 0 .. k : i < k => SumTo(f, i) < SumTo(f, k)
      BY <1>2, <2>1
    <2>3. \A s \in 1 .. k + 1 : f[s] \in Int
      BY <2>1
    <2>4. SumTo(f, k + 1) = SumTo(f, k) + f[k + 1]
      BY <2>3, SumStep
    <2>5. f[k + 1] \in Nat /\ f[k + 1] > 0
      BY <2>1
    <2>6. \A i \in 0 .. k + 1 : i < k + 1 => i = k \/ (i \in 0 .. k /\ i < k)
      OBVIOUS
    <2>7. ASSUME NEW i \in 0 .. k + 1, i < k + 1 PROVE SumTo(f, i) < SumTo(f, k + 1)
      <3>1. CASE i = k
        BY <3>1, <2>2, <2>4, <2>5
      <3>2. CASE i \in 0 .. k /\ i < k
        <4>1. SumTo(f, i) < SumTo(f, k)
          BY <3>2, <2>2
        <4>2. SumTo(f, i) \in Int
          <5>1. i \in Nat /\ \A s \in 1 .. i : s \in 1 .. k + 1
            BY <3>2
          <5> QED
            BY <5>1, <2>3, SumIsInt
        <4> QED
          BY <4>1, <4>2, <2>2, <2>4, <2>5
      <3> QED
        BY <3>1, <3>2, <2>6, <2>7
    <2>8. SumTo(f, k + 1) \in Nat
      BY <2>2, <2>4, <2>5
    <2> QED
      BY <2>7, <2>8
  <1> HIDE DEF S
  <1>3. Nat \subseteq S
    BY <1>1, <1>2, Induction
  <1>4. \A k \in 0 .. m : SumTo(f, k) \in Nat
    BY <1>3 DEF S
  <1>5. \A k \in 0 .. m : k < m => SumTo(f, k) < SumTo(f, m)
    BY <1>3 DEF S
  <1> QED
    BY <1>4, <1>5

\* What is in the first n + 1 of the sets of f.
Pairs(f, n) == UNION {{s} \X f[s] : s \in 0 .. n}

LEMMA InPairs ==
  ASSUME NEW f, NEW n, NEW x
  PROVE  x \in Pairs(f, n) <=> \E s \in 0 .. n : \E z \in f[s] : x = <<s, z>>
  <1>1. ASSUME x \in Pairs(f, n) PROVE \E s \in 0 .. n : \E z \in f[s] : x = <<s, z>>
    <2>1. PICK s \in 0 .. n : x \in {s} \X f[s]
      BY <1>1 DEF Pairs
    <2>2. x[2] \in f[s] /\ x = <<s, x[2]>>
      BY <2>1
    <2> QED
      BY <2>2
  <1>2. ASSUME NEW s \in 0 .. n, NEW z \in f[s], x = <<s, z>> PROVE x \in Pairs(f, n)
    <2>1. x \in {s} \X f[s]
      BY <1>2
    <2> QED
      BY <2>1 DEF Pairs
  <1> QED
    BY <1>1, <1>2

\* They are as many as the sum of their numbers.
LEMMA PairsCount ==
  ASSUME NEW n \in Nat, NEW f, \A s \in 0 .. n : IsFiniteSet(f[s]), NEW g, \A s \in 0 .. n : g[s] = Cardinality(f[s])
  PROVE  IsFiniteSet(Pairs(f, n)) /\ Cardinality(Pairs(f, n)) = g[0] + SumTo(g, n)
  <1> DEFINE P(k) == IsFiniteSet(Pairs(f, k)) /\ Cardinality(Pairs(f, k)) = g[0] + SumTo(g, k) /\ SumTo(g, k) \in Int
             S == {k \in Nat : k <= n => P(k)}
  <1>1. \A s \in 0 .. n : g[s] \in Nat
    BY FS_CardinalityType
  <1>2. ASSUME NEW s \in 0 .. n
        PROVE  IsFiniteSet({s} \X f[s]) /\ Cardinality({s} \X f[s]) = g[s]
    <2>1. IsFiniteSet({s}) /\ Cardinality({s}) = 1
      BY FS_Singleton
    <2>2. IsFiniteSet({s} \X f[s]) /\ Cardinality({s} \X f[s]) = Cardinality({s}) * Cardinality(f[s])
      BY <2>1, FS_Product
    <2> QED
      BY <1>1, <2>1, <2>2
  <1>3. 0 \in S
    <2>1. SumTo(g, 0) = 0
      <3>1. 0 \in Nat /\ \A s \in 1 .. 0 : g[s] \in Int
        OBVIOUS
      <3>2. PICK h : SumTo(g, 0) = h[0] /\ h[0] = 0
        BY <3>1, SumToFacts
      <3> QED
        BY <3>2
    <2>2. Pairs(f, 0) = {0} \X f[0]
      <3>1. 0 .. 0 = {0}
        OBVIOUS
      <3> QED
        BY <3>1 DEF Pairs
    <2>3. 0 \in 0 .. n
      OBVIOUS
    <2>4. g[0] \in Nat
      BY <1>1, <2>3
    <2> QED
      BY <1>2, <2>1, <2>2, <2>3, <2>4
  <1>4. ASSUME NEW k \in Nat, k \in S PROVE k + 1 \in S
    <2> SUFFICES ASSUME k + 1 <= n PROVE P(k + 1)
      OBVIOUS
    <2>1. P(k)
      BY <1>4
    <2>2. k + 1 \in 0 .. n /\ 0 \in 0 .. n
      OBVIOUS
    <2>3. Pairs(f, k + 1) = Pairs(f, k) \cup ({k + 1} \X f[k + 1])
      <3>1. 0 .. k + 1 = (0 .. k) \cup {k + 1}
        OBVIOUS
      <3> QED
        BY <3>1 DEF Pairs
    <2>4. Pairs(f, k) \cap ({k + 1} \X f[k + 1]) = {}
      <3> SUFFICES ASSUME NEW x \in Pairs(f, k), x \in {k + 1} \X f[k + 1] PROVE FALSE
        OBVIOUS
      <3>1. x[1] = k + 1
        OBVIOUS
      <3>2. PICK s \in 0 .. k : \E z \in f[s] : x = <<s, z>>
        BY InPairs
      <3>3. x[1] = s
        BY <3>2
      <3> QED
        BY <3>1, <3>3
    <2>5. SumTo(g, k + 1) = SumTo(g, k) + g[k + 1]
      <3>1. \A s \in 1 .. k + 1 : g[s] \in Int
        BY <1>1
      <3> QED
        BY <3>1, SumStep
    <2> DEFINE A == Pairs(f, k)
               B == {k + 1} \X f[k + 1]
    <2>6. IsFiniteSet(B) /\ Cardinality(B) = g[k + 1]
      BY <1>2, <2>2
    <2>7. g[k + 1] \in Int /\ g[0] \in Int
      BY <1>1, <2>2
    <2> HIDE DEF A, B
    <2>8. IsFiniteSet(A) /\ Cardinality(A) = g[0] + SumTo(g, k) /\ SumTo(g, k) \in Int
      BY <2>1 DEF A
    <2>9. IsFiniteSet(A \cup B) /\ Cardinality(A \cup B) = Cardinality(A) + Cardinality(B) - Cardinality(A \cap B)
      BY <2>6, <2>8, FS_Union
    <2>10. A \cap B = {} /\ Pairs(f, k + 1) = A \cup B
      BY <2>3, <2>4 DEF A, B
    <2>11. Cardinality(A \cap B) = 0
      BY <2>10, FS_EmptySet
    <2> QED
      BY <2>5, <2>6, <2>7, <2>8, <2>9, <2>10, <2>11
  <1> HIDE DEF S, P
  <1>5. Nat \subseteq S
    BY <1>3, <1>4, Induction
  <1>6. P(n)
    BY <1>5 DEF S
  <1> QED
    BY <1>6 DEF P

\* What fsskCalculateSpaceToRemove finds leaves more free zones than go: the free
\* percentage is over what stays, and all zones of what goes have been set aside.
LEMMA SpaceFacts ==
  ASSUME NEW free, \A s \in Subs : free[s] \in Int, NEW subs \in Subs
  PROVE  LET n == CalculateSpaceToRemove(free, subs)
         IN  n \in 0 .. subs /\ (n > 0 => free[0] + SumTo(free, subs - n) > SumTo(Size, subs) - SumTo(Size, subs - n))
  <1> DEFINE zfree(n)  == free[0] + SumTo(free, subs - n) - (SumTo(Size, subs) - SumTo(Size, subs - n))
             Enough(n) == zfree(n) >= 0 /\ (zfree(n) * 100) \div (Size[0] + SumTo(Size, subs - n)) >= MinFree
             S == {n \in 0 .. subs : \A k \in 1 .. n : Enough(k)}
             n0 == CalculateSpaceToRemove(free, subs)
  <1>1. n0 = Max(S)
    BY DEF CalculateSpaceToRemove
  <1>2. subs \in Nat /\ Subs = 0 .. NumSubs /\ subs <= NumSubs /\ NumSubs \in Nat
    BY SizeFacts
  <1>3. 0 \in S
    BY <1>2
  <1> HIDE DEF Enough
  <1>4. n0 \in S
    <2>1. S \subseteq 0 .. subs /\ S # {}
      BY <1>3
    <2> HIDE DEF S, n0
    <2> QED
      BY <1>1, <1>2, <2>1, MaxFacts
  <1>5. n0 \in 0 .. subs /\ \A k \in 1 .. n0 : Enough(k)
    BY <1>4
  <1> HIDE DEF S, n0
  <1>6. ASSUME n0 > 0 PROVE free[0] + SumTo(free, subs - n0) > SumTo(Size, subs) - SumTo(Size, subs - n0)
    <2>1. n0 \in 1 .. n0 /\ subs - n0 \in Nat /\ subs - n0 \in 0 .. subs /\ subs - n0 < subs
      BY <1>2, <1>5, <1>6
    <2>2. Enough(n0)
      BY <1>5, <2>1
    <2> DEFINE z == zfree(n0)
               a == SumTo(Size, subs - n0)
               b == SumTo(Size, subs)
               c == SumTo(free, subs - n0)
               d == Size[0] + a
    <2>3. \A s \in 1 .. subs : s \in Subs /\ Size[s] \in Nat /\ Size[s] > 0
      BY <1>2, SizeFacts
    <2>4. a \in Nat /\ b \in Nat /\ a < b
      <3>1. /\ \A k \in 0 .. subs : SumTo(Size, k) \in Nat
            /\ \A k \in 0 .. subs : k < subs => SumTo(Size, k) < SumTo(Size, subs)
        BY <1>2, <2>3, SumGrows
      <3>2. subs \in 0 .. subs
        BY <1>2
      <3> QED
        BY <2>1, <3>1, <3>2
    <2>5. c \in Int
      <3>1. \A s \in 1 .. subs - n0 : free[s] \in Int
        BY <1>2, <2>1
      <3> QED
        BY <2>1, <3>1, SumIsInt
    <2>6. free[0] \in Int /\ Size[0] \in Nat /\ Size[0] > 0
      BY SizeFacts
    <2>7. z = free[0] + c - (b - a)
      OBVIOUS
    <2>8. z >= 0 /\ (z * 100) \div d >= MinFree
      BY <2>2 DEF Enough
    <2> HIDE DEF z, a, b, c, zfree
    <2>9. z \in Int /\ d \in Nat /\ d > 0
      BY <2>4, <2>5, <2>6, <2>7
    <2> HIDE DEF d
    <2>10. 0 \div d = 0
      BY <2>9
    <2>11. z # 0
      <3> SUFFICES ASSUME z = 0 PROVE FALSE
        OBVIOUS
      <3>1. z * 100 = 0
        OBVIOUS
      <3>2. 0 >= MinFree
        BY <2>8, <2>10, <3>1
      <3> QED
        BY <3>2, FsskFacts
    <2>12. free[0] + c > b - a
      BY <2>4, <2>5, <2>6, <2>7, <2>8, <2>9, <2>11
    <2> QED
      BY <2>12 DEF a, b, c
  <1> QED
    BY <1>5, <1>6 DEF n0

-----------------------------------------------------------------------------
(* The search for zones in what stays.                                     *)

\* What is found is free, not longer than what was asked for, and in a partition
\* that stays; nothing is found only if no zone that stays is free.
LEMMA SpecialFinds ==
  ASSUME GoodVolume(vol), FreeEnough(vol), main \in Subs, parts \in 0 .. main, NEW mc \in Int,
         NEW bi, bi.num \in Nat, bi.cnt \in Nat, bi.cnt > 0, bi.cnt <= CountMax
  PROVE  LET r == SearchFreeZoneSpecial(bi, mc)
         IN \/ /\ r # NoSpace /\ Within(r.bi) /\ r.bi.cnt \in 1 .. bi.cnt /\ r.bi.sub \in 0 .. main - parts
               /\ Covers(r.bi) \cap UsedOf(vol) = {} /\ r.vol = Mark(vol, r.bi)
            \/ r = NoSpace /\ \A s \in 0 .. main - parts : vol.used[s] = ZonesOf(s)
  <1> DEFINE stay    == main - parts + 1
             c       == Wanted(bi, mc)
             From(k) == IF k = 0 THEN bi.num ELSE 0
             turns   == {k \in 0 .. stay : Fitting(vol, k % stay, From(k), c) # {}}
             found   == Best(vol, Min(turns) % stay, From(Min(turns)), c, bi.cnt)
             r       == SearchFreeZoneSpecial(bi, mc)
  <1>0. bi.cnt \in Nat /\ bi.cnt > 0 /\ bi.cnt <= Widest /\ Widest \in Nat
    BY FsskFacts, SizeFacts DEF Widest
  <1>1. c \in Nat /\ c > 0 /\ c <= Widest
    BY <1>0, WantedFacts DEF Wanted
  <1>2. r = IF turns = {} THEN NoSpace ELSE [vol |-> Mark(vol, found), bi |-> found]
    BY SMT DEF SearchFreeZoneSpecial
  <1>3. stay \in Nat /\ stay > 0 /\ stay - 1 = main - parts /\ 0 .. stay - 1 \subseteq Subs
    BY SizeFacts
  <1> HIDE DEF c, r, stay
  <1>4. \A k \in 0 .. stay : k \in Nat /\ k % stay \in 0 .. stay - 1 /\ From(k) \in Nat
    BY <1>3
  <1>5. \A s \in 0 .. stay - 1 : \E k \in 1 .. stay : k % stay = s
    <2> TAKE s \in 0 .. stay - 1
    <2>1. CASE s = 0
      <3>1. stay % stay = 0 /\ stay \in 1 .. stay
        BY <1>3
      <3> QED
        BY <2>1, <3>1
    <2>2. CASE s # 0
      <3>1. s % stay = s /\ s \in 1 .. stay
        BY <1>3, <2>2
      <3> QED
        BY <3>1
    <2> QED
      BY <2>1, <2>2
  <1>6. \A k \in 1 .. stay : k \in 0 .. stay /\ From(k) = 0
    BY <1>3
  <1> HIDE DEF From
  <1>7. CASE turns = {}
    <2>1. r = NoSpace
      BY <1>2, <1>7
    <2>2. ASSUME NEW s \in 0 .. stay - 1 PROVE vol.used[s] = ZonesOf(s)
      <3>1. PICK k \in 1 .. stay : k % stay = s
        BY <1>5
      <3>2. Fitting(vol, s, 0, c) = {}
        BY <3>1, <1>6, <1>7
      <3>3. s \in Subs
        BY <1>3
      <3> QED
        BY <3>2, <3>3, <1>1, NothingFits
    <2> QED
      BY <2>1, <2>2, <1>3 DEF r
  <1>8. CASE turns # {}
    <2> DEFINE k == Min(turns)
               s == k % stay
    <2>1. turns \subseteq Nat
      BY <1>4
    <2>2. k \in turns
      BY <1>8, <2>1, MinFacts
    <2> HIDE DEF k
    <2>3. k \in 0 .. stay /\ Fitting(vol, s, From(k), c) # {}
      BY <2>2
    <2>4. s \in 0 .. stay - 1 /\ s \in Subs /\ From(k) \in Nat
      BY <1>3, <1>4, <2>3
    <2>5. found = Best(vol, s, From(k), c, bi.cnt)
      BY DEF k
    <2> HIDE DEF turns, found, s
    <2>6. Within(found) /\ found.cnt \in 1 .. bi.cnt /\ Covers(found) \cap UsedOf(vol) = {}
      BY <1>0, <1>1, <2>3, <2>4, <2>5, BestFits
    <2>7. found.sub = s
      BY <2>5 DEF Best, Segment
    <2>8. r.vol = Mark(vol, found) /\ r.bi = found
      BY <1>2, <1>8
    <2>9. r # NoSpace
      BY <1>0, <2>6, <2>8 DEF NoSpace, Segment
    <2> QED
      BY <2>4, <2>6, <2>7, <2>8, <2>9, <1>3 DEF r
  <1> QED
    BY <1>7, <1>8

-----------------------------------------------------------------------------
(* What is guarded: the directories that the walk gets to, and the inodes   *)
(* with all of their zones in the main partition.                          *)

GoodPlace(bi) == Within(bi) /\ bi.cnt <= CountMax
GoodInode(x) ==
    /\ x.n \in Nat /\ x.n > 0 /\ x.data \in Seq(Segments) /\ Len(x.data) > 0
    /\ \A i \in 1 .. Len(x.data) : GoodPlace(x.data[i])

FirstSector(d, x) == Range(d.dir[x][1])
ClosedIn(o, S) == Root \in S /\ \A y \in S : FirstSector(o, y) \cap DOMAIN o.dir \subseteq S
SeenDirs(o)    == {x \in DOMAIN o.dir : \A S \in SUBSET DOMAIN o.dir : ClosedIn(o, S) => x \in S}
MainInodes(o)  == {x \in DOMAIN o.inode : \A z \in Owned(o, x) : z[1] = 0}
Guarded(o)     == SeenDirs(o) \cup MainInodes(o)
GuardedZones(o) == ReservedZones \cup UNION {Owned(o, x) : x \in Guarded(o)}

LEMMA SeenFacts ==
  ASSUME NEW o, Root \in DOMAIN o.dir
  PROVE  /\ Root \in SeenDirs(o) /\ SeenDirs(o) \subseteq DOMAIN o.dir
         /\ \A x \in SeenDirs(o) : \A y \in FirstSector(o, x) : y \in DOMAIN o.dir => y \in SeenDirs(o)
         /\ \A S \in SUBSET DOMAIN o.dir : ClosedIn(o, S) => SeenDirs(o) \subseteq S
  BY Zenon DEF SeenDirs, ClosedIn

\* The segments an inode lists, those of data[] and the zero ones behind it.
LEMMA DataFacts ==
  ASSUME NEW x, GoodInode(x)
  PROVE  /\ Data(x) \in Seq(Segments) /\ Len(Data(x)) = x.n /\ DOMAIN Data(x) = 1 .. x.n
         /\ Len(x.data) \in Nat
         /\ \A i \in 1 .. x.n : /\ Data(x)[i] = IF i <= Len(x.data) THEN x.data[i] ELSE Segment(0, 0, 0)
                                /\ GoodPlace(Data(x)[i]) /\ Data(x)[i].cnt \in Nat
                                /\ i > Len(x.data) => Covers(Data(x)[i]) = {}
  <1>1. x.n \in Nat /\ x.data \in Seq(Segments) /\ Len(x.data) \in Nat
    BY DEF GoodInode
  <1>2. GoodPlace(Segment(0, 0, 0)) /\ Segment(0, 0, 0) \in Segments /\ Covers(Segment(0, 0, 0)) = {}
    <2>1. Segment(0, 0, 0) \in Segments
      BY SizeFacts DEF Segment, Segments
    <2>2. Segment(0, 0, 0).sub = 0 /\ Segment(0, 0, 0).num = 0 /\ Segment(0, 0, 0).cnt = 0
      BY DEF Segment
    <2> HIDE DEF Segment
    <2> QED
      BY <2>1, <2>2, SizeFacts DEF GoodPlace, Within, Covers
  <1>3. \A i \in 1 .. Len(x.data) : x.data[i] \in Segments /\ GoodPlace(x.data[i])
    BY <1>1 DEF GoodInode
  <1>4. \A i \in 1 .. x.n : Data(x)[i] = IF i <= Len(x.data) THEN x.data[i] ELSE Segment(0, 0, 0)
    BY DEF Data
  <1>5. \A i \in 1 .. x.n : Data(x)[i] \in Segments /\ GoodPlace(Data(x)[i])
    BY <1>1, <1>2, <1>3, <1>4
  <1>6. Data(x) = [i \in 1 .. x.n |-> Data(x)[i]]
    BY DEF Data
  <1>7. Data(x) \in [1 .. x.n -> Segments]
    BY <1>5, <1>6
  <1>8. Data(x) \in Seq(Segments) /\ Len(Data(x)) = x.n
    BY <1>1, <1>7
  <1>9. \A i \in 1 .. x.n : Data(x)[i].cnt \in Nat
    BY <1>5 DEF Segments
  <1>10. \A i \in 1 .. x.n : i > Len(x.data) => Covers(Data(x)[i]) = {}
    BY <1>1, <1>2, <1>4
  <1> QED
    BY <1>1, <1>4, <1>5, <1>6, <1>8, <1>9, <1>10

LEMMA OwnedFacts ==
  ASSUME NEW d, NEW x, GoodInode(d.inode[x])
  PROVE  /\ Owned(d, x) = Total(Data(d.inode[x]))
         /\ \A z : z \in Owned(d, x) <=> \E i \in 1 .. d.inode[x].n : z \in Covers(Data(d.inode[x])[i])
         /\ \A z \in Owned(d, x) : \E i \in 1 .. Len(d.inode[x].data) : i <= d.inode[x].n /\ z \in Covers(d.inode[x].data[i])
  <1> DEFINE y == d.inode[x]
  <1>1. \A z : z \in Owned(d, x) <=> \E i \in 1 .. y.n : z \in Covers(Data(y)[i])
    BY DEF Owned
  <1>2. DOMAIN Data(y) = 1 .. y.n
    BY DataFacts
  <1>3. Owned(d, x) = Total(Data(y))
    BY <1>1, <1>2 DEF Total
  <1>4. ASSUME NEW z \in Owned(d, x) PROVE \E i \in 1 .. Len(y.data) : i <= y.n /\ z \in Covers(y.data[i])
    <2>1. PICK i \in 1 .. y.n : z \in Covers(Data(y)[i])
      BY <1>1
    <2>2. y.n \in Nat /\ Len(y.data) \in Nat
      BY DataFacts DEF GoodInode
    <2>3. /\ Data(y)[i] = IF i <= Len(y.data) THEN y.data[i] ELSE Segment(0, 0, 0)
          /\ i > Len(y.data) => Covers(Data(y)[i]) = {}
      BY DataFacts
    <2> QED
      BY <2>1, <2>2, <2>3
  <1> QED
    BY <1>1, <1>3, <1>4

\* A directory has an inode that says so.
LEMMA ModeOf ==
  ASSUME NEW o, WellFormed(o), NEW x \in DOMAIN o.dir
  PROVE  x \in DOMAIN o.inode /\ o.inode[x].mode = "dir"
  <1>1. DOMAIN o.dir \subseteq DOMAIN o.inode
    BY Zenon DEF WellFormed
  <1>2. \A y \in DOMAIN o.inode : o.inode[y].mode = IF y \in DOMAIN o.dir THEN "dir" ELSE "file"
    BY Zenon DEF WellFormed
  <1> QED
    BY <1>1, <1>2

\* What a filesystem with nothing wrong in it has for each of its inodes.
LEMMA WellFormedFacts ==
  ASSUME NEW o, WellFormed(o)
  PROVE  /\ Root \in DOMAIN o.dir /\ DOMAIN o.dir \subseteq DOMAIN o.inode
         /\ \A x \in DOMAIN o.inode :
               /\ GoodInode(o.inode[x]) /\ o.inode[x].n = Len(o.inode[x].data)
               /\ o.inode[x].mode = IF x \in DOMAIN o.dir THEN "dir" ELSE "file"
               /\ x \in Owned(o, x) /\ Owned(o, x) \subseteq UsedOf(o) /\ Owned(o, x) \cap ReservedZones = {}
               /\ x \in Covers(o.inode[x].data[1])
               /\ \A i \in 1 .. o.inode[x].n : o.inode[x].data[i].cnt > 0
               /\ \A i, j \in 1 .. o.inode[x].n : i # j => Covers(o.inode[x].data[i]) \cap Covers(o.inode[x].data[j]) = {}
         /\ \A x, y \in DOMAIN o.inode : x # y => Owned(o, x) \cap Owned(o, y) = {}
         /\ \A x \in DOMAIN o.dir : o.dir[x] \in Seq(Seq(DOMAIN o.inode)) /\ o.dir[x] # <<>>
  <1>1. /\ Root \in DOMAIN o.dir /\ DOMAIN o.dir \subseteq DOMAIN o.inode
        /\ \A x, y \in DOMAIN o.inode : x # y => Owned(o, x) \cap Owned(o, y) = {}
        /\ \A x \in DOMAIN o.dir : o.dir[x] \in Seq(Seq(DOMAIN o.inode)) /\ o.dir[x] # <<>>
    BY Zenon DEF WellFormed
  <1>2. ASSUME NEW x \in DOMAIN o.inode
        PROVE  /\ GoodInode(o.inode[x]) /\ o.inode[x].n = Len(o.inode[x].data)
               /\ o.inode[x].mode = IF x \in DOMAIN o.dir THEN "dir" ELSE "file"
               /\ x \in Owned(o, x) /\ Owned(o, x) \subseteq UsedOf(o) /\ Owned(o, x) \cap ReservedZones = {}
               /\ x \in Covers(o.inode[x].data[1])
               /\ \A i \in 1 .. o.inode[x].n : o.inode[x].data[i].cnt > 0
               /\ \A i, j \in 1 .. o.inode[x].n : i # j => Covers(o.inode[x].data[i]) \cap Covers(o.inode[x].data[j]) = {}
    <2> DEFINE y == o.inode[x]
    <2>1. /\ y.mode = IF x \in DOMAIN o.dir THEN "dir" ELSE "file"
          /\ y.data \in Seq(Segments) /\ y.n = Len(y.data) /\ y.n > 0
          /\ \A i \in 1 .. y.n : y.data[i].cnt \in 1 .. CountMax /\ y.data[i].num + y.data[i].cnt <= Size[y.data[i].sub]
          /\ x = <<y.data[1].sub, y.data[1].num>>
          /\ Marked(o, Owned(o, x)) /\ \A z \in Owned(o, x) : z[2] \notin Reserved[z[1]]
      BY DEF WellFormed
    <2> HIDE DEF y
    <2>2. y.n \in Nat /\ \A i \in 1 .. y.n : y.data[i] \in Segments
      BY <2>1
    <2>3. \A i \in 1 .. y.n : GoodPlace(y.data[i]) /\ y.data[i].cnt > 0
      BY <2>1, <2>2, SizeFacts DEF GoodPlace, Within
    <2>4. GoodInode(y)
      BY <2>1, <2>2, <2>3 DEF GoodInode
    <2>5. 1 \in 1 .. y.n /\ y.data[1].num \in Nat /\ y.data[1].cnt > 0 /\ y.data[1].cnt \in Nat
      BY <2>1, <2>2, <2>3 DEF Segments
    <2>6. x \in Covers(y.data[1])
      <3>1. y.data[1].num \in y.data[1].num .. y.data[1].num + y.data[1].cnt - 1
        BY <2>5
      <3> QED
        BY <2>1, <3>1 DEF Covers
    <2>7. Data(y)[1] = y.data[1]
      <3>1. 1 <= Len(y.data)
        BY <2>1, <2>2
      <3> QED
        BY <2>4, <2>5, <3>1, DataFacts
    <2>8. x \in Owned(o, x)
      BY <2>4, <2>5, <2>6, <2>7, OwnedFacts DEF y
    <2>9. ASSUME NEW z \in Owned(o, x)
          PROVE  /\ z[1] \in Subs /\ z = <<z[1], z[2]>>
      <3>1. PICK i \in 1 .. Len(y.data) : z \in Covers(y.data[i])
        BY <2>4, OwnedFacts DEF y
      <3>2. y.data[i].sub \in Subs
        BY <2>1, <2>2, <3>1 DEF Segments
      <3>3. PICK n \in Run(y.data[i]) : z = <<y.data[i].sub, n>>
        BY <3>1, InCovers
      <3> QED
        BY <3>2, <3>3
    <2>10. Owned(o, x) \subseteq UsedOf(o)
      BY <2>1, <2>9 DEF Marked, UsedOf
    <2>11. Owned(o, x) \cap ReservedZones = {}
      <3> SUFFICES ASSUME NEW z \in Owned(o, x), z \in ReservedZones PROVE FALSE
        OBVIOUS
      <3>1. PICK s \in Subs : z \in {<<s, n>> : n \in Reserved[s]}
        BY DEF ReservedZones
      <3>2. PICK n \in Reserved[s] : z = <<s, n>>
        BY <3>1
      <3>3. z[1] = s /\ z[2] = n
        BY <3>2
      <3>4. z[2] \notin Reserved[z[1]]
        BY <2>1
      <3> QED
        BY <3>2, <3>3, <3>4
    <2>12. \A i \in 1 .. y.n : y.data[i].cnt > 0
      BY <2>3
    <2>14. \A i, j \in 1 .. y.n : i # j => Covers(y.data[i]) \cap Covers(y.data[j]) = {}
      BY Zenon DEF WellFormed, y
    <2>13. y.n = Len(y.data) /\ y.mode = IF x \in DOMAIN o.dir THEN "dir" ELSE "file"
      BY <2>1
    <2> QED
      BY <2>4, <2>6, <2>8, <2>10, <2>11, <2>12, <2>13, <2>14, Zenon DEF y
  <1> QED
    BY <1>1, <1>2

LEMMA GuardedFacts ==
  ASSUME NEW o, WellFormed(o)
  PROVE  /\ Guarded(o) \subseteq DOMAIN o.inode /\ SeenDirs(o) \subseteq Guarded(o) /\ MainInodes(o) \subseteq Guarded(o)
         /\ \A x \in Guarded(o) : x \in GuardedZones(o) /\ Owned(o, x) \subseteq GuardedZones(o)
         /\ ReservedZones \subseteq GuardedZones(o)
         /\ \A x \in DOMAIN o.inode \ Guarded(o) : Owned(o, x) \cap GuardedZones(o) = {}
         /\ \A z \in GuardedZones(o) : z \in ReservedZones \/ \E x \in Guarded(o) : z \in Owned(o, x)
  <1>1. Root \in DOMAIN o.dir /\ DOMAIN o.dir \subseteq DOMAIN o.inode
    BY WellFormedFacts
  <1>2. SeenDirs(o) \subseteq DOMAIN o.inode /\ MainInodes(o) \subseteq DOMAIN o.inode
    BY <1>1 DEF SeenDirs, MainInodes
  <1>3. /\ Guarded(o) \subseteq DOMAIN o.inode /\ SeenDirs(o) \subseteq Guarded(o) /\ MainInodes(o) \subseteq Guarded(o)
    BY <1>2 DEF Guarded
  <1>4. /\ \A x \in Guarded(o) : Owned(o, x) \subseteq GuardedZones(o)
        /\ ReservedZones \subseteq GuardedZones(o)
        /\ \A z \in GuardedZones(o) : z \in ReservedZones \/ \E x \in Guarded(o) : z \in Owned(o, x)
    BY DEF GuardedZones
  <1>5. \A x \in DOMAIN o.inode : x \in Owned(o, x) /\ Owned(o, x) \cap ReservedZones = {}
    BY WellFormedFacts
  <1>6. \A x, y \in DOMAIN o.inode : x # y => Owned(o, x) \cap Owned(o, y) = {}
    BY WellFormedFacts
  <1>7. ASSUME NEW x \in DOMAIN o.inode \ Guarded(o) PROVE Owned(o, x) \cap GuardedZones(o) = {}
    <2> SUFFICES ASSUME NEW z \in Owned(o, x), z \in GuardedZones(o) PROVE FALSE
      OBVIOUS
    <2>1. CASE z \in ReservedZones
      BY <2>1, <1>5
    <2>2. CASE \E y \in Guarded(o) : z \in Owned(o, y)
      <3>1. PICK y \in Guarded(o) : z \in Owned(o, y)
        BY <2>2
      <3>2. y \in DOMAIN o.inode /\ y # x
        BY <1>3
      <3> QED
        BY <3>1, <3>2, <1>6
    <2> QED
      BY <2>1, <2>2, <1>4
  <1> QED
    BY <1>3, <1>4, <1>5, <1>7

-----------------------------------------------------------------------------
(* A tree in which what is guarded is as it was: "o" is what it was at     *)
(* first, "d" what it is now.                                              *)

Apart(o, data) == \A i \in 1 .. Len(data) : Covers(data[i]) \cap GuardedZones(o) = {}

GuardedStay(o, d) == Guarded(o) \subseteq DOMAIN d.inode /\ \A x \in Guarded(o) : d.inode[x] = o.inode[x]

OthersApart(o, d) ==
    \A x \in DOMAIN d.inode : GoodInode(d.inode[x]) /\ (x \notin Guarded(o) => Apart(o, d.inode[x].data))

SameShape(o, d) ==
    /\ DOMAIN d.dir = DOMAIN o.dir
    /\ \A x \in DOMAIN o.dir :
        /\ d.dir[x] \in Seq(Seq(DOMAIN d.inode)) /\ Len(d.dir[x]) = Len(o.dir[x])
        /\ \A k \in 1 .. Len(o.dir[x]) : Len(d.dir[x][k]) = Len(o.dir[x][k])

\* Only an entry that the walk gets to, of an inode that is not guarded, changes.
EntriesStay(o, d) ==
    \A x \in DOMAIN o.dir : \A k \in 1 .. Len(o.dir[x]) : \A j \in 1 .. Len(o.dir[x][k]) :
        o.dir[x][k][j] \in Guarded(o) \/ x \notin SeenDirs(o) \/ k # 1 => d.dir[x][k][j] = o.dir[x][k][j]

DirsAreSeen(o, d) ==
    \A x \in SeenDirs(o) : \A y \in FirstSector(d, x) : d.inode[y].mode = "dir" => y \in SeenDirs(o)

Tree(o, d) == GuardedStay(o, d) /\ OthersApart(o, d) /\ SameShape(o, d) /\ EntriesStay(o, d) /\ DirsAreSeen(o, d)

LEMMA TreeSame ==
  ASSUME NEW o, NEW d, NEW e, Tree(o, d), e.inode = d.inode, e.dir = d.dir
  PROVE  Tree(o, e)
  BY DEF Tree, GuardedStay, OthersApart, SameShape, EntriesStay, DirsAreSeen, FirstSector

FineDir(o, d, x) ==
    /\ x \in DOMAIN d.dir /\ d.dir[x] \in Seq(Seq(DOMAIN d.inode))
    /\ Len(o.dir[x]) \in Nat /\ 1 \in 1 .. Len(o.dir[x]) /\ Len(d.dir[x]) = Len(o.dir[x])
    /\ \A k \in 1 .. Len(o.dir[x]) : /\ d.dir[x][k] \in Seq(DOMAIN d.inode)
                                     /\ Len(d.dir[x][k]) = Len(o.dir[x][k]) /\ Len(d.dir[x][k]) \in Nat
                                     /\ DOMAIN d.dir[x][k] = 1 .. Len(d.dir[x][k])
    /\ \A y : y \in FirstSector(d, x) <=> \E j \in 1 .. Len(d.dir[x][1]) : y = d.dir[x][1][j]
    /\ FirstSector(d, x) \subseteq DOMAIN d.inode

\* The sectors of a directory.
LEMMA SectorFacts ==
  ASSUME NEW o, WellFormed(o), NEW d, SameShape(o, d)
  PROVE  \A x \in DOMAIN o.dir : FineDir(o, d, x)
  <1> SUFFICES ASSUME NEW x \in DOMAIN o.dir PROVE FineDir(o, d, x)
    OBVIOUS
  <1>1. o.dir[x] \in Seq(Seq(DOMAIN o.inode)) /\ o.dir[x] # <<>>
    BY WellFormedFacts
  <1>2. Len(o.dir[x]) \in Nat /\ Len(o.dir[x]) > 0
    BY <1>1
  <1>3. /\ x \in DOMAIN d.dir /\ d.dir[x] \in Seq(Seq(DOMAIN d.inode)) /\ Len(d.dir[x]) = Len(o.dir[x])
        /\ \A k \in 1 .. Len(o.dir[x]) : Len(d.dir[x][k]) = Len(o.dir[x][k])
    BY DEF SameShape
  <1>4. \A k \in 1 .. Len(o.dir[x]) : d.dir[x][k] \in Seq(DOMAIN d.inode)
    BY <1>2, <1>3
  <1>5. \A k \in 1 .. Len(o.dir[x]) : Len(d.dir[x][k]) \in Nat /\ DOMAIN d.dir[x][k] = 1 .. Len(d.dir[x][k])
    BY <1>4
  <1>6. 1 \in 1 .. Len(o.dir[x])
    BY <1>2
  <1>7. \A y : y \in FirstSector(d, x) <=> \E j \in 1 .. Len(d.dir[x][1]) : y = d.dir[x][1][j]
    BY <1>5, <1>6 DEF FirstSector, Range
  <1>8. \A j \in 1 .. Len(d.dir[x][1]) : d.dir[x][1][j] \in DOMAIN d.inode
    BY <1>4, <1>6
  <1>9. FirstSector(d, x) \subseteq DOMAIN d.inode
    BY <1>7, <1>8
  <1> QED
    BY <1>2, <1>3, <1>4, <1>5, <1>6, <1>7, <1>9 DEF FineDir

LEMMA TreeAtFirst ==
  ASSUME NEW o, WellFormed(o)
  PROVE  Tree(o, o)
  <1>1. Guarded(o) \subseteq DOMAIN o.inode
    BY GuardedFacts
  <1>2. ASSUME NEW x \in DOMAIN o.inode, x \notin Guarded(o) PROVE Apart(o, o.inode[x].data)
    <2> DEFINE y == o.inode[x]
    <2>1. GoodInode(y) /\ y.n = Len(y.data) /\ Owned(o, x) \cap GuardedZones(o) = {}
      BY <1>2, WellFormedFacts, GuardedFacts
    <2>2. y.n \in Nat /\ \A i \in 1 .. y.n : Data(y)[i] = y.data[i]
      BY <2>1, DataFacts DEF GoodInode
    <2>3. \A i \in 1 .. y.n : Covers(Data(y)[i]) \subseteq Owned(o, x)
      BY <2>1, OwnedFacts
    <2> QED
      BY <2>1, <2>2, <2>3 DEF Apart
  <1>3. \A x \in DOMAIN o.inode : GoodInode(o.inode[x])
    BY WellFormedFacts
  <1>4. GuardedStay(o, o) /\ OthersApart(o, o)
    BY <1>1, <1>2, <1>3 DEF GuardedStay, OthersApart
  <1>5. \A x \in DOMAIN o.dir : o.dir[x] \in Seq(Seq(DOMAIN o.inode))
    BY WellFormedFacts
  <1>6. SameShape(o, o) /\ EntriesStay(o, o)
    BY <1>5 DEF SameShape, EntriesStay
  <1>7. ASSUME NEW x \in SeenDirs(o), NEW y \in FirstSector(o, x), o.inode[y].mode = "dir" PROVE y \in SeenDirs(o)
    <2>1. Root \in DOMAIN o.dir
      BY WellFormedFacts
    <2>2. x \in DOMAIN o.dir
      BY <2>1, SeenFacts
    <2>3. y \in DOMAIN o.inode
      <3>1. FineDir(o, o, x)
        BY <1>6, <2>2, SectorFacts
      <3> QED
        BY <3>1 DEF FineDir
    <2>4. y \in DOMAIN o.dir
      BY <1>7, <2>3, WellFormedFacts
    <2> QED
      BY <2>1, <2>4, SeenFacts
  <1> QED
    BY <1>4, <1>6, <1>7 DEF Tree, DirsAreSeen

LEMMA SeqOfMembers ==
  ASSUME NEW S, NEW T, NEW s \in Seq(S), \A k \in 1 .. Len(s) : s[k] \in T
  PROVE  s \in Seq(T)
  OBVIOUS

WithEntry(dirs, D, j, new) == [dirs EXCEPT ![D][1][j] = new]

\* An inode that is not guarded gets another place.
LEMMA TreeMoved ==
  ASSUME NEW o, WellFormed(o), NEW d, Tree(o, d),
         NEW D \in SeenDirs(o), NEW j \in 1 .. Len(d.dir[D][1]),
         d.inode[d.dir[D][1][j]].mode # "dir", d.dir[D][1][j] \notin MainInodes(o),
         NEW new, new \notin Guarded(o), NEW node, GoodInode(node), node.mode = "file", Apart(o, node.data),
         NEW e, e.inode = WithInode(d.inode, new, node), e.dir = WithEntry(d.dir, D, j, new)
  PROVE  Tree(o, e)
  <1> DEFINE this == d.dir[D][1][j]
  <1>a. GuardedStay(o, d) /\ OthersApart(o, d) /\ SameShape(o, d) /\ EntriesStay(o, d) /\ DirsAreSeen(o, d)
    BY DEF Tree
  <1>b. SeenDirs(o) \subseteq DOMAIN o.dir
    BY SeenFacts, WellFormedFacts
  <1>c. D \in DOMAIN o.dir
    BY <1>b
  <1>d. SameShape(o, d)
    BY <1>a
  <1>e. \A x \in DOMAIN o.dir : FineDir(o, d, x)
    BY <1>d, SectorFacts
  <1>f. FineDir(o, d, D)
    BY <1>c, <1>e
  <1>1. /\ DOMAIN e.inode = DOMAIN d.inode \cup {new} /\ e.inode[new] = node
        /\ \A x \in DOMAIN d.inode : x # new => e.inode[x] = d.inode[x]
    BY DEF WithInode
  <1>2. GuardedStay(o, e)
    BY <1>1, <1>a DEF GuardedStay
  <1>3. OthersApart(o, e)
    BY <1>1, <1>a DEF OthersApart
  <1>4. /\ D \in DOMAIN d.dir /\ d.dir[D] \in Seq(Seq(DOMAIN d.inode))
        /\ 1 \in 1 .. Len(d.dir[D]) /\ Len(d.dir[D]) \in Nat
        /\ \A k \in 1 .. Len(d.dir[D]) : d.dir[D][k] \in Seq(DOMAIN d.inode)
        /\ 1 \in DOMAIN d.dir[D] /\ j \in DOMAIN d.dir[D][1]
    BY <1>f DEF FineDir
  <1> DEFINE sector == [d.dir[D][1] EXCEPT ![j] = new]
             list   == [d.dir[D] EXCEPT ![1] = sector]
  <1>5. /\ DOMAIN e.dir = DOMAIN d.dir /\ e.dir[D] = list
        /\ \A x \in DOMAIN d.dir : x # D => e.dir[x] = d.dir[x]
    BY <1>4 DEF WithEntry
  <1>6. /\ sector \in Seq(DOMAIN e.inode) /\ Len(sector) = Len(d.dir[D][1])
        /\ sector[j] = new /\ \A i \in 1 .. Len(d.dir[D][1]) : i # j => sector[i] = d.dir[D][1][i]
    <2>1. d.dir[D][1] \in Seq(DOMAIN d.inode)
      BY <1>4
    <2>2. d.dir[D][1] \in Seq(DOMAIN e.inode) /\ new \in DOMAIN e.inode
      BY <2>1, <1>1
    <2> QED
      BY <2>2, <1>4
  <1> HIDE DEF sector
  <1>7. /\ list \in Seq(Seq(DOMAIN e.inode)) /\ Len(list) = Len(d.dir[D]) /\ list[1] = sector
        /\ \A k \in 1 .. Len(d.dir[D]) : k # 1 => list[k] = d.dir[D][k]
    <2>1. \A k \in 1 .. Len(d.dir[D]) : d.dir[D][k] \in Seq(DOMAIN e.inode)
      <3>1. ASSUME NEW s \in Seq(DOMAIN d.inode) PROVE s \in Seq(DOMAIN e.inode)
        BY <1>1
      <3> QED
        BY <1>4, <3>1
    <2>2. d.dir[D] \in Seq(Seq(DOMAIN e.inode))
      BY <1>4, <2>1, SeqOfMembers
    <2> QED
      BY <2>2, <1>4, <1>6
  <1> HIDE DEF list
  <1>8. SameShape(o, e)
    <2>1. ASSUME NEW x \in DOMAIN o.dir
          PROVE  /\ e.dir[x] \in Seq(Seq(DOMAIN e.inode)) /\ Len(e.dir[x]) = Len(o.dir[x])
                 /\ \A k \in 1 .. Len(o.dir[x]) : Len(e.dir[x][k]) = Len(o.dir[x][k])
      <3>1. /\ x \in DOMAIN d.dir /\ d.dir[x] \in Seq(Seq(DOMAIN d.inode))
            /\ Len(o.dir[x]) \in Nat /\ Len(d.dir[x]) = Len(o.dir[x])
            /\ \A k \in 1 .. Len(o.dir[x]) : d.dir[x][k] \in Seq(DOMAIN d.inode) /\ Len(d.dir[x][k]) = Len(o.dir[x][k])
        BY <1>e DEF FineDir
      <3>2. CASE x = D
        <4>1. e.dir[x] \in Seq(Seq(DOMAIN e.inode)) /\ Len(e.dir[x]) = Len(o.dir[x])
          BY <3>1, <3>2, <1>5, <1>7
        <4>2. ASSUME NEW k \in 1 .. Len(o.dir[x]) PROVE Len(e.dir[x][k]) = Len(o.dir[x][k])
          <5>1. CASE k = 1
            BY <5>1, <3>1, <3>2, <1>5, <1>6, <1>7
          <5>2. CASE k # 1
            BY <5>2, <3>1, <3>2, <1>5, <1>7
          <5> QED
            BY <5>1, <5>2
        <4> QED
          BY <4>1, <4>2
      <3>3. CASE x # D
        <4>1. e.dir[x] = d.dir[x]
          BY <3>1, <3>3, <1>5
        <4>2. ASSUME NEW s \in Seq(DOMAIN d.inode) PROVE s \in Seq(DOMAIN e.inode)
          BY <1>1
        <4>3. \A k \in 1 .. Len(d.dir[x]) : d.dir[x][k] \in Seq(DOMAIN e.inode)
          BY <3>1, <4>2
        <4>4. d.dir[x] \in Seq(Seq(DOMAIN e.inode))
          BY <3>1, <4>3, SeqOfMembers
        <4> QED
          BY <3>1, <4>1, <4>4
      <3> QED
        BY <3>2, <3>3
    <2>2. DOMAIN e.dir = DOMAIN o.dir
      BY <1>5, <1>a DEF SameShape
    <2> QED
      BY <2>1, <2>2 DEF SameShape
  <1>9. \A x \in DOMAIN o.dir : \A k \in 1 .. Len(o.dir[x]) : \A i \in 1 .. Len(o.dir[x][k]) :
           ~(x = D /\ k = 1 /\ i = j) => e.dir[x][k][i] = d.dir[x][k][i]
    <2> TAKE x \in DOMAIN o.dir
    <2> TAKE k \in 1 .. Len(o.dir[x])
    <2> TAKE i \in 1 .. Len(o.dir[x][k])
    <2>1. x \in DOMAIN d.dir /\ Len(d.dir[x]) = Len(o.dir[x]) /\ Len(d.dir[x][k]) = Len(o.dir[x][k])
      BY <1>e DEF FineDir
    <2>2. CASE x # D
      BY <2>1, <2>2, <1>5
    <2>3. CASE x = D /\ k # 1
      BY <2>1, <2>3, <1>5, <1>7
    <2>4. CASE x = D /\ k = 1
      BY <2>1, <2>4, <1>5, <1>6, <1>7
    <2> QED
      BY <2>2, <2>3, <2>4
  <1>10. o.dir[D][1][j] \notin Guarded(o)
    <2> SUFFICES ASSUME o.dir[D][1][j] \in Guarded(o) PROVE FALSE
      OBVIOUS
    <2>1. 1 \in 1 .. Len(o.dir[D]) /\ Len(d.dir[D][1]) = Len(o.dir[D][1])
      BY <1>f DEF FineDir
    <2>2. this = o.dir[D][1][j] /\ this \in Guarded(o)
      <3>1. EntriesStay(o, d)
        BY <1>a
      <3>2. j \in 1 .. Len(o.dir[D][1])
        BY <2>1
      <3>3. d.dir[D][1][j] = o.dir[D][1][j]
        BY <2>1, <3>1, <3>2, <1>c DEF EntriesStay
      <3> QED
        BY <3>3
    <2>3. d.inode[this] = o.inode[this]
      BY <2>2, <1>a DEF GuardedStay
    <2>4. this \in SeenDirs(o)
      BY <2>2 DEF Guarded
    <2>5. this \in DOMAIN o.dir
      BY <1>b, <2>4
    <2>6. o.inode[this].mode = "dir"
      BY <2>5, ModeOf
    <2> QED
      BY <2>3, <2>6
  <1>11. EntriesStay(o, e)
    <2> SUFFICES ASSUME NEW x \in DOMAIN o.dir, NEW k \in 1 .. Len(o.dir[x]), NEW i \in 1 .. Len(o.dir[x][k]),
                        o.dir[x][k][i] \in Guarded(o) \/ x \notin SeenDirs(o) \/ k # 1
                 PROVE  e.dir[x][k][i] = o.dir[x][k][i]
      BY DEF EntriesStay
    <2>1. ~(x = D /\ k = 1 /\ i = j)
      BY <1>10
    <2>2. d.dir[x][k][i] = o.dir[x][k][i]
      <3>1. EntriesStay(o, d)
        BY <1>a
      <3> QED
        BY <3>1 DEF EntriesStay
    <2> QED
      BY <2>1, <2>2, <1>9
  <1>12. DirsAreSeen(o, e)
    <2> SUFFICES ASSUME NEW x \in SeenDirs(o), NEW y \in FirstSector(e, x), e.inode[y].mode = "dir"
                 PROVE  y \in SeenDirs(o)
      BY DEF DirsAreSeen
    <2>1. x \in DOMAIN o.dir
      BY <1>b
    <2>a. FineDir(o, e, x) /\ FineDir(o, d, x)
      BY <2>1, <1>8, <1>e, SectorFacts
    <2>2. PICK i \in 1 .. Len(e.dir[x][1]) : y = e.dir[x][1][i]
      BY <2>a DEF FineDir
    <2>3. y # new
      BY <1>1
    <2>4. /\ 1 \in 1 .. Len(o.dir[x]) /\ Len(e.dir[x][1]) = Len(o.dir[x][1]) /\ Len(d.dir[x][1]) = Len(o.dir[x][1])
          /\ FirstSector(d, x) \subseteq DOMAIN d.inode
          /\ \A z : z \in FirstSector(d, x) <=> \E l \in 1 .. Len(d.dir[x][1]) : z = d.dir[x][1][l]
      BY <2>a DEF FineDir
    <2>5. ~(x = D /\ 1 = 1 /\ i = j)
      BY <2>2, <2>3, <1>5, <1>6, <1>7
    <2>6. y = d.dir[x][1][i]
      BY <2>1, <2>2, <2>4, <2>5, <1>9
    <2>7. y \in FirstSector(d, x) /\ y \in DOMAIN d.inode
      BY <2>2, <2>4, <2>6
    <2>8. d.inode[y].mode = "dir"
      BY <2>3, <2>7, <1>1
    <2> QED
      BY <2>7, <2>8, <1>a DEF DirsAreSeen
  <1> QED
    BY <1>2, <1>3, <1>8, <1>11, <1>12 DEF Tree

-----------------------------------------------------------------------------
(* What is copied and freed, and what is found on the way.                 *)

LiesPast(x, b) == \E i \in 1 .. x.n : Data(x)[i].sub > b
Fits(d, b, x) == \A z \in Owned(d, x) : z[1] <= b

\* What has to be moved is not guarded.
LEMMA MovedNotGuarded ==
  ASSUME NEW o, WellFormed(o), NEW d, Tree(o, d), NEW x, d.inode[x].mode # "dir",
         NEW b \in Nat, LiesPast(d.inode[x], b)
  PROVE  x \notin Guarded(o)
  <1> SUFFICES ASSUME x \in Guarded(o) PROVE FALSE
    OBVIOUS
  <1>1. d.inode[x] = o.inode[x]
    BY DEF Tree, GuardedStay
  <1>2. x \in DOMAIN o.inode
    BY GuardedFacts
  <1>3. /\ GoodInode(o.inode[x]) /\ o.inode[x].n = Len(o.inode[x].data)
        /\ o.inode[x].mode = IF x \in DOMAIN o.dir THEN "dir" ELSE "file"
        /\ \A i \in 1 .. o.inode[x].n : o.inode[x].data[i].cnt > 0
    BY <1>2, WellFormedFacts
  <1>4. x \notin SeenDirs(o)
    <2> SUFFICES ASSUME x \in SeenDirs(o) PROVE FALSE
      OBVIOUS
    <2>1. x \in DOMAIN o.dir
      BY WellFormedFacts, SeenFacts
    <2> QED
      BY <2>1, <1>1, <1>3
  <1>5. \A z \in Owned(o, x) : z[1] = 0
    BY <1>4 DEF Guarded, MainInodes
  <1> DEFINE y == o.inode[x]
  <1>6. PICK i \in 1 .. y.n : Data(y)[i].sub > b
    BY <1>1 DEF LiesPast
  <1>7. Data(y)[i] = y.data[i] /\ Data(y)[i] \in Segments
    <2>1. y.n \in Nat /\ i <= Len(y.data)
      BY <1>3 DEF GoodInode
    <2>2. Data(y)[i] = (IF i <= Len(y.data) THEN y.data[i] ELSE Segment(0, 0, 0)) /\ GoodPlace(Data(y)[i])
      BY <1>3, DataFacts
    <2> QED
      BY <2>1, <2>2 DEF GoodPlace, Within
  <1> DEFINE bi == Data(y)[i]
  <1>8. bi.cnt \in Nat /\ bi.cnt > 0 /\ bi.num \in Nat /\ bi.sub \in Subs
    <2>1. y.data[i].cnt > 0
      BY <1>3
    <2> QED
      BY <1>7, <2>1 DEF Segments
  <1> HIDE DEF bi
  <1>9. <<bi.sub, bi.num>> \in Covers(bi)
    <2>1. bi.num \in bi.num .. bi.num + bi.cnt - 1
      BY <1>8
    <2> QED
      BY <2>1 DEF Covers
  <1>10. <<bi.sub, bi.num>> \in Owned(o, x)
    BY <1>3, <1>9, OwnedFacts DEF bi
  <1>11. bi.sub = 0
    BY <1>5, <1>10
  <1>12. bi.sub > b
    BY <1>6 DEF bi
  <1> QED
    BY <1>11, <1>12

LEMMA FitsWhenNotMoved ==
  ASSUME NEW d, NEW x, GoodInode(d.inode[x]), NEW b \in Int, ~LiesPast(d.inode[x], b)
  PROVE  Fits(d, b, x)
  <1> SUFFICES ASSUME NEW z \in Owned(d, x) PROVE z[1] <= b
    BY DEF Fits
  <1> DEFINE y == d.inode[x]
  <1>1. PICK i \in 1 .. y.n : z \in Covers(Data(y)[i])
    BY OwnedFacts
  <1>2. GoodPlace(Data(y)[i])
    BY DataFacts
  <1>3. Data(y)[i].sub \in Subs /\ Subs = 0 .. NumSubs /\ NumSubs \in Nat
    BY <1>2, SizeFacts DEF GoodPlace, Within, Segments
  <1>4. ~(Data(y)[i].sub > b)
    BY DEF LiesPast
  <1>5. z[1] = Data(y)[i].sub
    BY <1>1 DEF Covers
  <1> QED
    BY <1>3, <1>4, <1>5

\* The zones of an inode that is apart from what is guarded are given back.
LEMMA FreesKeep ==
  ASSUME NEW o, WellFormed(o), NEW v, GoodVolume(v), FreeEnough(v), GuardedZones(o) \subseteq UsedOf(v),
         NEW x, GoodInode(x), Apart(o, x.data)
  PROVE  LET w == FreeSegments(v, Data(x))
         IN GoodVolume(w) /\ FreeEnough(w) /\ GuardedZones(o) \subseteq UsedOf(w)
  <1> DEFINE list == Data(x)
  <1>1. /\ list \in Seq(Segments) /\ Len(list) = x.n /\ DOMAIN list = 1 .. x.n
        /\ Len(x.data) \in Nat
        /\ \A i \in 1 .. x.n : /\ list[i] = IF i <= Len(x.data) THEN x.data[i] ELSE Segment(0, 0, 0)
                               /\ GoodPlace(list[i]) /\ list[i].cnt \in Nat
                               /\ i > Len(x.data) => Covers(list[i]) = {}
    BY DataFacts
  <1> HIDE DEF list
  <1>2. x.n \in Nat
    BY DEF GoodInode
  <1>3. \A i \in 1 .. x.n : Covers(list[i]) \cap GuardedZones(o) = {}
    BY <1>1, <1>2 DEF Apart
  <1>4. Total(list) \cap GuardedZones(o) = {}
    BY <1>1, <1>3 DEF Total
  <1>5. Total(list) \cap ReservedZones = {}
    BY <1>4, GuardedFacts
  <1>6. \A i \in 1 .. Len(list) : Within(list[i])
    BY <1>1 DEF GoodPlace
  <1> DEFINE w == FreeSegments(v, list)
  <1>7. GoodVolume(w) /\ FreeEnough(w) /\ UsedOf(w) = UsedOf(v) \ Total(list)
    BY <1>1, <1>5, <1>6, FreeSegmentsReturn
  <1> HIDE DEF w
  <1>8. GuardedZones(o) \subseteq UsedOf(w)
    BY <1>4, <1>7
  <1> QED
    BY <1>7, <1>8 DEF w, list

LEMMA TakesKeep ==
  ASSUME NEW o, NEW v, GoodVolume(v), FreeEnough(v), GuardedZones(o) \subseteq UsedOf(v),
         NEW bi, Within(bi), Covers(bi) \cap UsedOf(v) = {}
  PROVE  /\ GoodVolume(Mark(v, bi)) /\ FreeEnough(Mark(v, bi)) /\ GuardedZones(o) \subseteq UsedOf(Mark(v, bi))
         /\ Covers(bi) \cap GuardedZones(o) = {}
  BY MarkTakes

\* What is copied to free zones leaves the others as they are.
LEMMA CopiedKeeps ==
  ASSUME NEW v, GoodVolume(v), NEW Z, Z \subseteq UsedOf(v), \A z \in Z : z \in DOMAIN content /\ content[z] = z,
         NEW from, NEW to, Within(to), Covers(to) \cap UsedOf(v) = {}, NEW n \in Nat, n <= to.cnt
  PROVE  \A z \in Z : z \in DOMAIN Copied(from, to, n) /\ Copied(from, to, n)[z] = z
  <1> SUFFICES ASSUME NEW z \in Z PROVE z \in DOMAIN Copied(from, to, n) /\ Copied(from, to, n)[z] = z
    OBVIOUS
  <1>1. PICK s \in Subs : \E k \in v.used[s] : z = <<s, k>>
    BY InUsed
  <1>2. PICK k \in v.used[s] : z = <<s, k>>
    BY <1>1
  <1>3. k \in Nat /\ to.num \in Nat /\ to.cnt \in Nat
    BY DEF GoodVolume, Within, Segments
  <1>4. z \notin Covers(to)
    OBVIOUS
  <1>5. ~(z[1] = to.sub /\ z[2] - to.num \in 0 .. n - 1)
    <2> SUFFICES ASSUME s = to.sub, k - to.num \in 0 .. n - 1 PROVE FALSE
      BY <1>2
    <2>1. k \in to.num .. to.num + to.cnt - 1
      BY <1>3
    <2> QED
      BY <2>1, <1>2, <1>4 DEF Covers
  <1>6. z \in DOMAIN content /\ content[z] = z
    OBVIOUS
  <1> QED
    BY <1>5, <1>6 DEF Copied

\* So does what is copied of it until a transfer fails.
LEMMA CutKeeps ==
  ASSUME NEW v, GoodVolume(v), NEW Z, Z \subseteq UsedOf(v), \A z \in Z : z \in DOMAIN content /\ content[z] = z,
         NEW from, NEW to, Within(to), Covers(to) \cap UsedOf(v) = {}, NEW k \in Nat, k < to.cnt, CopyCut(from, to, k)
  PROVE  \A z \in Z : z \in DOMAIN content' /\ content'[z] = z
  <1> DEFINE c == Copied(from, to, k)
             t == <<to.sub, to.num + k>>
  <1>1. to.cnt \in Nat /\ to.num \in Nat /\ to.sub \in Subs
    BY RunFacts
  <1>2. k <= to.cnt
    BY <1>1
  <1>3. \A z \in Z : z \in DOMAIN c /\ c[z] = z
    BY <1>2, CopiedKeeps
  <1>4. content' = c \/ content' = [c EXCEPT ![t] = Torn]
    BY DEF CopyCut
  <1>5. t \in Covers(to)
    <2>1. to.num + k \in to.num .. to.num + to.cnt - 1
      BY <1>1
    <2> QED
      BY <2>1 DEF Covers
  <1>6. t \notin Z
    BY <1>5
  <1> HIDE DEF c, t
  <1> QED
    BY <1>3, <1>4, <1>6

\* A segment with the zones that follow it.
LEMMA GrownPlace ==
  ASSUME NEW bi, Within(bi), NEW n \in Nat, NEW more, more = Segment(bi.sub, bi.num + bi.cnt, n), Within(more),
         bi.cnt + n <= CountMax
  PROVE  LET new == [bi EXCEPT !.cnt = @ + n]
         IN /\ GoodPlace(new) /\ Covers(new) = Covers(bi) \cup Covers(more)
            /\ new.sub = bi.sub /\ new.num = bi.num /\ new.cnt = bi.cnt + n
  <1> DEFINE new == [bi EXCEPT !.cnt = @ + n]
  <1>1. bi \in Segments /\ bi.num \in Nat /\ bi.cnt \in Nat /\ bi.sub \in Subs
    BY DEF Within, Segments
  <1>2. new \in Segments /\ new.sub = bi.sub /\ new.num = bi.num /\ new.cnt = bi.cnt + n
    BY <1>1 DEF Segments
  <1>3. more.sub = bi.sub /\ more.num = bi.num + bi.cnt /\ more.cnt = n
    BY DEF Segment
  <1> HIDE DEF new
  <1>4. GoodPlace(new)
    <2>1. more.num + more.cnt <= Size[more.sub] /\ Size[bi.sub] \in Nat
      BY <1>1, SizeFacts DEF Within
    <2> HIDE DEF Segment
    <2>2. new.num + new.cnt <= Size[new.sub]
      BY <1>1, <1>2, <1>3, <2>1
    <2> QED
      BY <1>2, <2>2 DEF GoodPlace, Within
  <1>5. /\ bi.num .. bi.num + (bi.cnt + n) - 1 = (bi.num .. bi.num + bi.cnt - 1) \cup (bi.num + bi.cnt .. bi.num + bi.cnt + n - 1)
    BY <1>1, RunSplit
  <1>6. Run(new) = Run(bi) \cup Run(more)
    BY <1>1, <1>2, <1>3, <1>5 DEF Run
  <1>7. Covers(new) = Covers(bi) \cup Covers(more)
    BY <1>2, <1>3, <1>6 DEF Covers, Run
  <1> QED
    BY <1>2, <1>4, <1>7 DEF new

\* The zones of the partitions up to b, those of them that are free, and those of
\* the partitions after b up to m.
PlacesTo(b) == Pairs([s \in Subs |-> ZonesOf(s)], b)
FreeTo(v, b) == PlacesTo(b) \ UsedOf(v)
Between(b, m) == PlacesTo(m) \ PlacesTo(b)

LEMMA InPlaces ==
  ASSUME NEW b \in Subs, NEW x
  PROVE  x \in PlacesTo(b) <=> \E s \in 0 .. b : \E z \in ZonesOf(s) : x = <<s, z>>
  <1> DEFINE f == [s \in Subs |-> ZonesOf(s)]
  <1>1. \A s \in 0 .. b : f[s] = ZonesOf(s)
    BY SizeFacts
  <1> HIDE DEF f
  <1>2. x \in Pairs(f, b) <=> \E s \in 0 .. b : \E z \in f[s] : x = <<s, z>>
    BY InPairs
  <1> QED
    BY <1>1, <1>2 DEF PlacesTo, f

LEMMA PlacesCount ==
  ASSUME NEW b \in Subs
  PROVE  IsFiniteSet(PlacesTo(b)) /\ Cardinality(PlacesTo(b)) = Size[0] + SumTo(Size, b)
  <1> DEFINE f == [s \in Subs |-> ZonesOf(s)]
  <1>1. b \in Nat /\ \A s \in 0 .. b : s \in Subs /\ Size[s] \in Nat /\ Size[s] > 0
    BY SizeFacts
  <1>2. ASSUME NEW s \in 0 .. b PROVE IsFiniteSet(f[s]) /\ Size[s] = Cardinality(f[s])
    <2> DEFINE e == Size[s] - 1
    <2>1. e \in Int /\ e >= 0 /\ 0 \in Int /\ e - 0 + 1 = Size[s] /\ f[s] = 0 .. e
      BY <1>1 DEF ZonesOf
    <2> HIDE DEF e, f
    <2>2. IsFiniteSet(0 .. e) /\ Cardinality(0 .. e) = IF 0 > e THEN 0 ELSE e - 0 + 1
      BY <2>1, FS_Interval
    <2> QED
      BY <2>1, <2>2
  <1> HIDE DEF f
  <1>3. IsFiniteSet(Pairs(f, b)) /\ Cardinality(Pairs(f, b)) = Size[0] + SumTo(Size, b)
    BY <1>1, <1>2, PairsCount
  <1> QED
    BY <1>3 DEF PlacesTo, f

LEMMA FreeCount ==
  ASSUME NEW v, GoodVolume(v), FreeExact(v), NEW b \in Subs
  PROVE  IsFiniteSet(FreeTo(v, b)) /\ Cardinality(FreeTo(v, b)) = v.free[0] + SumTo(v.free, b)
  <1> DEFINE f == [s \in Subs |-> Zeros(v, s)]
             g == v.free
  <1>1. b \in Nat /\ \A s \in 0 .. b : s \in Subs
    BY SizeFacts
  <1>2. \A s \in 0 .. b : f[s] = Zeros(v, s) /\ IsFiniteSet(f[s]) /\ g[s] = Cardinality(f[s])
    BY <1>1, ZerosFinite DEF FreeExact
  <1> HIDE DEF f, g
  <1>3. IsFiniteSet(Pairs(f, b)) /\ Cardinality(Pairs(f, b)) = g[0] + SumTo(g, b)
    BY <1>1, <1>2, PairsCount
  <1>4. ASSUME NEW x PROVE x \in FreeTo(v, b) <=> x \in Pairs(f, b)
    <2>1. x \in Pairs(f, b) <=> \E s \in 0 .. b : \E z \in f[s] : x = <<s, z>>
      BY InPairs
    <2>2. x \in PlacesTo(b) <=> \E s \in 0 .. b : \E z \in ZonesOf(s) : x = <<s, z>>
      BY InPlaces
    <2>3. x \in UsedOf(v) <=> \E s \in Subs : \E z \in v.used[s] : x = <<s, z>>
      BY InUsed
    <2>4. \A s \in 0 .. b : \A z : z \in f[s] <=> z \in ZonesOf(s) /\ z \notin v.used[s]
      BY <1>2 DEF Zeros
    <2>5. ASSUME x \in FreeTo(v, b) PROVE x \in Pairs(f, b)
      <3>1a. PICK s \in 0 .. b : \E z \in ZonesOf(s) : x = <<s, z>>
        BY <2>2, <2>5 DEF FreeTo
      <3>1. PICK z \in ZonesOf(s) : x = <<s, z>>
        BY <3>1a
      <3>2. z \notin v.used[s]
        BY <1>1, <2>3, <2>5, <3>1 DEF FreeTo
      <3> QED
        BY <2>1, <2>4, <3>1, <3>2
    <2>6. ASSUME x \in Pairs(f, b) PROVE x \in FreeTo(v, b)
      <3>1a. PICK s \in 0 .. b : \E z \in f[s] : x = <<s, z>>
        BY <2>1, <2>6
      <3>1. PICK z \in f[s] : x = <<s, z>>
        BY <3>1a
      <3>2. z \in ZonesOf(s) /\ z \notin v.used[s]
        BY <2>4, <3>1
      <3>3. x \notin UsedOf(v)
        <4> SUFFICES ASSUME x \in UsedOf(v) PROVE FALSE
          OBVIOUS
        <4>1a. PICK t \in Subs : \E y \in v.used[t] : x = <<t, y>>
          BY <2>3
        <4>1. PICK y \in v.used[t] : x = <<t, y>>
          BY <4>1a
        <4>2. t = s /\ y = z
          BY <3>1, <4>1
        <4> QED
          BY <3>2, <4>1, <4>2
      <3> QED
        BY <2>2, <3>1, <3>2, <3>3 DEF FreeTo
    <2> QED
      BY <2>5, <2>6
  <1>5. FreeTo(v, b) = Pairs(f, b)
    BY <1>4
  <1> QED
    BY <1>3, <1>5 DEF g

LEMMA BetweenCount ==
  ASSUME NEW m \in Subs, NEW b \in 0 .. m
  PROVE  /\ b \in Subs /\ IsFiniteSet(Between(b, m))
         /\ Cardinality(Between(b, m)) = SumTo(Size, m) - SumTo(Size, b)
  <1>1. b \in Subs /\ m \in Nat /\ b \in Nat /\ b <= m
    BY SizeFacts
  <1> DEFINE A == PlacesTo(m)
             B == PlacesTo(b)
  <1>2. /\ IsFiniteSet(A) /\ Cardinality(A) = Size[0] + SumTo(Size, m)
        /\ IsFiniteSet(B) /\ Cardinality(B) = Size[0] + SumTo(Size, b)
    BY <1>1, PlacesCount
  <1>3. B \subseteq A
    <2> SUFFICES ASSUME NEW x \in B PROVE x \in A
      OBVIOUS
    <2>1a. PICK s \in 0 .. b : \E z \in ZonesOf(s) : x = <<s, z>>
      BY <1>1, InPlaces
    <2>1. PICK z \in ZonesOf(s) : x = <<s, z>>
      BY <2>1a
    <2>2. s \in 0 .. m
      BY <1>1
    <2> QED
      BY <2>1, <2>2, InPlaces
  <1> HIDE DEF A, B
  <1>4. IsFiniteSet(A \ B) /\ Cardinality(A \ B) = Cardinality(A) - Cardinality(A \cap B)
    BY <1>2, FS_Difference
  <1>5. A \cap B = B
    BY <1>3
  <1>6. Size[0] \in Int /\ SumTo(Size, m) \in Int /\ SumTo(Size, b) \in Int
    <2>1. /\ \A s \in 1 .. m : s \in Subs /\ Size[s] \in Int
          /\ \A s \in 1 .. b : s \in Subs /\ Size[s] \in Int
      BY <1>1, SizeFacts
    <2>2. SumTo(Size, m) \in Int /\ SumTo(Size, b) \in Int
      BY <1>1, <2>1, SumIsInt
    <2> QED
      BY <2>2, SizeFacts
  <1> QED
    BY <1>1, <1>2, <1>4, <1>5, <1>6 DEF Between, A, B

\* More zones are free up to b than are left to be moved.
Roomy(v, b, L) == IsFiniteSet(L) /\ Cardinality(L) < Cardinality(FreeTo(v, b))

LEMMA FreeFinite ==
  ASSUME NEW v, NEW b \in Subs
  PROVE  IsFiniteSet(FreeTo(v, b)) /\ Cardinality(FreeTo(v, b)) \in Nat
  BY PlacesCount, FS_Difference, FS_CardinalityType DEF FreeTo

LEMMA RoomAtStart ==
  ASSUME NEW v, GoodVolume(v), FreeExact(v), NEW m \in Subs, NEW n \in 0 .. m,
         v.free[0] + SumTo(v.free, m - n) > SumTo(Size, m) - SumTo(Size, m - n)
  PROVE  Roomy(v, m - n, Between(m - n, m))
  <1>1. m - n \in 0 .. m
    BY SizeFacts
  <1> DEFINE b == m - n
  <1>2. b \in 0 .. m /\ v.free[0] + SumTo(v.free, b) > SumTo(Size, m) - SumTo(Size, b)
    BY <1>1
  <1> HIDE DEF b
  <1>3. b \in Subs /\ IsFiniteSet(Between(b, m)) /\ Cardinality(Between(b, m)) = SumTo(Size, m) - SumTo(Size, b)
    BY <1>2, BetweenCount
  <1>4. Cardinality(FreeTo(v, b)) = v.free[0] + SumTo(v.free, b)
    BY <1>3, FreeCount
  <1>5. Roomy(v, b, Between(b, m))
    BY <1>2, <1>3, <1>4 DEF Roomy
  <1> QED
    BY <1>5 DEF b

\* A zone is free.
LEMMA RoomyIsNotFull ==
  ASSUME NEW v, NEW b \in Subs, NEW L, Roomy(v, b, L)
  PROVE  ~ \A s \in 0 .. b : v.used[s] = ZonesOf(s)
  <1> SUFFICES ASSUME \A r \in 0 .. b : v.used[r] = ZonesOf(r) PROVE FALSE
    OBVIOUS
  <1>1. FreeTo(v, b) = {}
    <2> SUFFICES ASSUME NEW x \in PlacesTo(b) PROVE x \in UsedOf(v)
      BY DEF FreeTo
    <2>1a. PICK s \in 0 .. b : \E z \in ZonesOf(s) : x = <<s, z>>
      BY InPlaces
    <2>1. PICK z \in ZonesOf(s) : x = <<s, z>>
      BY <2>1a
    <2>2. s \in Subs /\ z \in v.used[s]
      BY <2>1, SizeFacts
    <2> QED
      BY <2>1, <2>2, InUsed
  <1>2. Cardinality(FreeTo(v, b)) = 0
    BY <1>1, FS_EmptySet
  <1>3. Cardinality(L) \in Nat
    BY FS_CardinalityType DEF Roomy
  <1> QED
    BY <1>2, <1>3 DEF Roomy

\* What is taken is no more than what is moved with it.
LEMMA RoomyOn ==
  ASSUME NEW v, GoodVolume(v), NEW b \in Subs, NEW L, Roomy(v, b, L),
         NEW bi, Within(bi), Covers(bi) \cap UsedOf(v) = {},
         NEW B, B \subseteq L, Cardinality(B) >= bi.cnt, NEW M, M \subseteq L \ B
  PROVE  Roomy(Mark(v, bi), b, M)
  <1> DEFINE A == FreeTo(v, b)
             C == Covers(bi)
  <1>1. FreeTo(Mark(v, bi), b) = A \ C
    BY MarkTakes DEF FreeTo
  <1>2. IsFiniteSet(C) /\ Cardinality(C) = bi.cnt /\ bi.cnt \in Nat
    BY CoversCount, RunFacts
  <1>3. IsFiniteSet(A) /\ Cardinality(A) \in Nat
    BY FreeFinite
  <1> HIDE DEF A, C
  <1>4. IsFiniteSet(A \ C) /\ Cardinality(A \ C) = Cardinality(A) - Cardinality(A \cap C)
    BY <1>3, FS_Difference
  <1>5. IsFiniteSet(A \cap C) /\ Cardinality(A \cap C) <= bi.cnt /\ Cardinality(A \cap C) \in Nat
    <2>1. A \cap C \in SUBSET C
      OBVIOUS
    <2>2. IsFiniteSet(A \cap C) /\ Cardinality(A \cap C) <= Cardinality(C)
      BY <1>2, <2>1, FS_Subset
    <2> QED
      BY <1>2, <2>2, FS_CardinalityType
  <1>6. IsFiniteSet(L) /\ Cardinality(L) < Cardinality(A) /\ Cardinality(L) \in Nat
    BY FS_CardinalityType DEF Roomy, A
  <1>7. IsFiniteSet(L \ B) /\ Cardinality(L \ B) = Cardinality(L) - Cardinality(L \cap B) /\ Cardinality(L \ B) \in Nat
    BY <1>6, FS_Difference, FS_CardinalityType
  <1>8. L \cap B = B /\ Cardinality(B) \in Nat
    <2>1. B \in SUBSET L
      OBVIOUS
    <2>2. IsFiniteSet(B)
      BY <1>6, <2>1, FS_Subset
    <2> QED
      BY <2>2, FS_CardinalityType
  <1>9. IsFiniteSet(M) /\ Cardinality(M) <= Cardinality(L \ B) /\ Cardinality(M) \in Nat
    <2>1. M \in SUBSET (L \ B)
      OBVIOUS
    <2> QED
      BY <1>7, <2>1, FS_Subset, FS_CardinalityType
  <1>10. Cardinality(M) < Cardinality(A \ C)
    BY <1>2, <1>3, <1>4, <1>5, <1>6, <1>7, <1>8, <1>9
  <1> QED
    BY <1>1, <1>9, <1>10 DEF Roomy

-----------------------------------------------------------------------------
(* The walk: what it has been through is done.                             *)

Frames(o) == [dir : SeenDirs(o), j : Nat \ {0}]

Finished(o, d, b, E) ==
    /\ E \subseteq SeenDirs(o)
    /\ \A x \in E : \A y \in FirstSector(d, x) : Fits(d, b, y) /\ (y \in SeenDirs(o) => y \in E)
Done(o, d, b) == UNION {E \in SUBSET SeenDirs(o) : Finished(o, d, b, E)}

\* A directory on the stack is being walked, but for it all that the entries
\* before the next ones lead to is done.
Settled(o, d, b, st, l, i) ==
    LET y == d.dir[st[l].dir][1][i]
    IN  /\ Fits(d, b, y)
        /\ y \in SeenDirs(o) =>
              y \in Done(o, d, b) \/ (l < Len(st) /\ i = st[l].j - 1 /\ y = st[l + 1].dir)
Walked(o, d, b, st) ==
    /\ Fits(d, b, Root)
    /\ st = <<>> => Root \in Done(o, d, b)
    /\ st # <<>> => st[1].dir = Root
    /\ \A l \in 1 .. Len(st) : \A i \in 1 .. st[l].j - 1 : Settled(o, d, b, st, l, i)

LEMMA DoneFacts ==
  ASSUME NEW o, NEW d, NEW b
  PROVE  /\ Finished(o, d, b, Done(o, d, b))
         /\ \A E : Finished(o, d, b, E) => E \subseteq Done(o, d, b)
  <1>1. Done(o, d, b) \subseteq SeenDirs(o)
    BY DEF Done
  <1>2. ASSUME NEW x \in Done(o, d, b), NEW y \in FirstSector(d, x)
        PROVE  Fits(d, b, y) /\ (y \in SeenDirs(o) => y \in Done(o, d, b))
    <2>1. PICK E \in SUBSET SeenDirs(o) : Finished(o, d, b, E) /\ x \in E
      BY DEF Done
    <2>2. Fits(d, b, y) /\ (y \in SeenDirs(o) => y \in E)
      BY <2>1 DEF Finished
    <2> QED
      BY <2>1, <2>2 DEF Done
  <1>3. ASSUME NEW E, Finished(o, d, b, E) PROVE E \subseteq Done(o, d, b)
    <2>1. E \in SUBSET SeenDirs(o)
      BY <1>3 DEF Finished
    <2> QED
      BY <2>1, <1>3 DEF Done
  <1> QED
    BY <1>1, <1>2, <1>3 DEF Finished

\* A directory of which all entries have been looked at is done.
LEMMA DirectoryDone ==
  ASSUME NEW o, NEW d, NEW b, NEW x \in SeenDirs(o),
         \A y \in FirstSector(d, x) : Fits(d, b, y) /\ (y \in SeenDirs(o) => y \in Done(o, d, b))
  PROVE  x \in Done(o, d, b)
  <1> DEFINE E == Done(o, d, b) \cup {x}
  <1>1. /\ Done(o, d, b) \subseteq SeenDirs(o)
        /\ \A e \in Done(o, d, b) : \A y \in FirstSector(d, e) : Fits(d, b, y) /\ (y \in SeenDirs(o) => y \in Done(o, d, b))
    BY DoneFacts DEF Finished
  <1>2. Finished(o, d, b, E)
    BY <1>1 DEF Finished
  <1> HIDE DEF E
  <1>3. E \subseteq Done(o, d, b)
    BY <1>2, DoneFacts
  <1> QED
    BY <1>3 DEF E

\* When the root is done, so is every directory the walk gets to.
LEMMA AllDone ==
  ASSUME NEW o, WellFormed(o), NEW d, Tree(o, d), NEW b, Fits(d, b, Root), Root \in Done(o, d, b)
  PROVE  \A x \in SeenDirs(o) : /\ \A y \in FirstSector(d, x) : Fits(d, b, y)
                                /\ \A z \in Owned(o, x) : z[1] <= b
  <1> DEFINE S == {x \in Done(o, d, b) : Fits(d, b, x)}
  <1>1. Root \in DOMAIN o.dir
    BY WellFormedFacts
  <1>2. SeenDirs(o) \subseteq DOMAIN o.dir
    BY <1>1, SeenFacts
  <1>3. Finished(o, d, b, Done(o, d, b))
    BY DoneFacts
  <1>4. S \in SUBSET DOMAIN o.dir /\ S \subseteq SeenDirs(o)
    BY <1>2, <1>3 DEF Finished
  <1>5. ASSUME NEW x \in S, NEW y \in FirstSector(o, x), y \in DOMAIN o.dir PROVE y \in S
    <2>1. x \in SeenDirs(o) /\ x \in DOMAIN o.dir
      BY <1>2, <1>4
    <2>2. y \in SeenDirs(o)
      BY <1>1, <1>5, <2>1, SeenFacts
    <2>3. SameShape(o, o) /\ SameShape(o, d) /\ EntriesStay(o, d)
      BY TreeAtFirst DEF Tree
    <2>4. FineDir(o, o, x) /\ FineDir(o, d, x)
      BY <2>1, <2>3, SectorFacts
    <2>5. PICK j \in 1 .. Len(o.dir[x][1]) : y = o.dir[x][1][j]
      BY <2>4 DEF FineDir
    <2>6. 1 \in 1 .. Len(o.dir[x]) /\ Len(d.dir[x][1]) = Len(o.dir[x][1])
      BY <2>4 DEF FineDir
    <2>7. d.dir[x][1][j] = y
      <3>1. o.dir[x][1][j] \in Guarded(o)
        BY <2>2, <2>5 DEF Guarded
      <3> QED
        BY <2>1, <2>3, <2>5, <2>6, <3>1 DEF EntriesStay
    <2>8. y \in FirstSector(d, x)
      BY <2>4, <2>5, <2>6, <2>7 DEF FineDir
    <2> QED
      BY <2>2, <2>8, <1>3 DEF Finished
  <1>6. Root \in S
    OBVIOUS
  <1> HIDE DEF S
  <1>7. ClosedIn(o, S)
    BY <1>5, <1>6 DEF ClosedIn
  <1>8. SeenDirs(o) \subseteq S
    BY <1>1, <1>4, <1>7, SeenFacts
  <1>9. ASSUME NEW x \in SeenDirs(o)
        PROVE  (\A y \in FirstSector(d, x) : Fits(d, b, y)) /\ \A z \in Owned(o, x) : z[1] <= b
    <2>1. x \in Done(o, d, b) /\ Fits(d, b, x)
      BY <1>8 DEF S
    <2>2. \A y \in FirstSector(d, x) : Fits(d, b, y)
      BY <2>1, <1>3 DEF Finished
    <2>3. d.inode[x] = o.inode[x]
      BY DEF Tree, GuardedStay, Guarded
    <2>4. Owned(d, x) = Owned(o, x)
      BY <2>3 DEF Owned
    <2> QED
      BY <2>1, <2>2, <2>4 DEF Fits
  <1> QED
    BY <1>9

NextEntry(st) == [st EXCEPT ![Len(st)].j = @ + 1]
Beginning(x)  == [dir |-> x, j |-> 1]

LEMMA FrontFacts ==
  ASSUME NEW S, NEW s \in Seq(S), s # <<>>
  PROVE  /\ Len(s) \in Nat /\ Len(s) >= 1 /\ Len(Front(s)) = Len(s) - 1 /\ Front(s) \in Seq(S)
         /\ \A l \in 1 .. Len(s) - 1 : Front(s)[l] = s[l]
         /\ Len(s) = 1 => Front(s) = <<>>
  <1>1. Len(s) \in Nat /\ Len(s) >= 1
    OBVIOUS
  <1> DEFINE n == Len(s) - 1
  <1>2. Front(s) = SubSeq(s, 1, n)
    BY DEF Front
  <1>3. n \in Nat /\ n <= Len(s) /\ n = Len(s) - 1
    BY <1>1
  <1> HIDE DEF n
  <1>4. /\ SubSeq(s, 1, n) \in Seq(S) /\ Len(SubSeq(s, 1, n)) = n
        /\ \A l \in 1 .. n : SubSeq(s, 1, n)[l] = s[l]
    BY <1>1, <1>3
  <1>5. Len(s) = 1 => SubSeq(s, 1, n) = <<>>
    BY <1>3, <1>4
  <1> QED
    BY <1>1, <1>2, <1>3, <1>4, <1>5

LEMMA FrameFacts ==
  ASSUME NEW o
  PROVE  /\ \A f \in Frames(o) : /\ f.j \in Nat /\ f.j >= 1 /\ f.dir \in SeenDirs(o)
                                  /\ [f EXCEPT !.j = @ + 1] \in Frames(o)
                                  /\ [f EXCEPT !.j = @ + 1].dir = f.dir
                                  /\ [f EXCEPT !.j = @ + 1].j = f.j + 1
         /\ \A x \in SeenDirs(o) : Beginning(x) \in Frames(o)
         /\ \A x : Beginning(x).dir = x /\ Beginning(x).j = 1
  BY DEF Frames, Beginning

LEMMA NextEntryFacts ==
  ASSUME NEW S, NEW st \in Seq(S), st # <<>>, NEW f, f = [st[Len(st)] EXCEPT !.j = @ + 1], f \in S
  PROVE  /\ NextEntry(st) \in Seq(S) /\ Len(NextEntry(st)) = Len(st)
         /\ \A l \in 1 .. Len(st) : l # Len(st) => NextEntry(st)[l] = st[l]
         /\ NextEntry(st)[Len(st)] = f
  <1>1. NextEntry(st) = [st EXCEPT ![Len(st)] = f]
    BY DEF NextEntry
  <1> QED
    BY <1>1

LEMMA Appended ==
  ASSUME NEW S, NEW s \in Seq(S), NEW e \in S
  PROVE  /\ Append(s, e) \in Seq(S) /\ Len(Append(s, e)) = Len(s) + 1 /\ Len(s) \in Nat
         /\ Append(s, e)[Len(s) + 1] = e /\ \A l \in 1 .. Len(s) : Append(s, e)[l] = s[l]
  OBVIOUS

\* fsskCheckFiles goes on to the next entry, or into a directory.
Stepped(o, st, y, N, on, next) ==
    /\ N \in Nat /\ N >= 1 /\ N = Len(st)
    /\ on \in Seq(Frames(o)) /\ Len(on) = N
    /\ \A l \in 1 .. N : st[l].j \in Nat /\ st[l].j >= 1
    /\ \A l \in 1 .. N : l # N => on[l] = st[l]
    /\ on[N].dir = st[N].dir /\ on[N].j = st[N].j + 1
    /\ next \in Seq(Frames(o)) /\ Len(next) = N + 1
    /\ next[N + 1].dir = y /\ next[N + 1].j = 1 /\ \A l \in 1 .. N : next[l] = on[l]

LEMMA SteppedOn ==
  ASSUME NEW o, NEW st \in Seq(Frames(o)), st # <<>>, NEW y \in SeenDirs(o)
  PROVE  Stepped(o, st, y, Len(st), NextEntry(st), Append(NextEntry(st), Beginning(y)))
  <1> DEFINE N    == Len(st)
             on   == NextEntry(st)
             e    == Beginning(y)
             next == Append(on, e)
             f    == [st[N] EXCEPT !.j = @ + 1]
  <1>1. N \in Nat /\ N >= 1 /\ N \in 1 .. N /\ \A l \in 1 .. N : st[l] \in Frames(o)
    OBVIOUS
  <1>2. \A l \in 1 .. N : st[l].j \in Nat /\ st[l].j >= 1
    BY <1>1, FrameFacts
  <1>3. f \in Frames(o) /\ f.dir = st[N].dir /\ f.j = st[N].j + 1
    BY <1>1, FrameFacts
  <1>4. on \in Seq(Frames(o)) /\ Len(on) = N /\ on[N] = f /\ \A l \in 1 .. N : l # N => on[l] = st[l]
    <2> HIDE DEF f
    <2>1. /\ NextEntry(st) \in Seq(Frames(o)) /\ Len(NextEntry(st)) = Len(st)
          /\ \A l \in 1 .. Len(st) : l # Len(st) => NextEntry(st)[l] = st[l]
          /\ NextEntry(st)[Len(st)] = f
      BY <1>3, NextEntryFacts DEF f
    <2> QED
      BY <2>1
  <1>5. e \in Frames(o) /\ e.dir = y /\ e.j = 1
    BY FrameFacts
  <1> HIDE DEF on, e, f
  <1>6. /\ next \in Seq(Frames(o)) /\ Len(next) = Len(on) + 1
        /\ next[Len(on) + 1] = e /\ \A l \in 1 .. Len(on) : next[l] = on[l]
    BY <1>4, <1>5, Appended
  <1> HIDE DEF next
  <1>7. Len(next) = N + 1 /\ next[N + 1] = e /\ \A l \in 1 .. N : next[l] = on[l]
    BY <1>4, <1>6
  <1>8. on[N].dir = st[N].dir /\ on[N].j = st[N].j + 1 /\ next[N + 1].dir = y /\ next[N + 1].j = 1
    BY <1>3, <1>4, <1>5, <1>7
  <1>9. N = Len(st)
    OBVIOUS
  <1> HIDE DEF N
  <1>10. next \in Seq(Frames(o)) /\ N \in Nat /\ N >= 1
    BY <1>1, <1>6
  <1>11. Stepped(o, st, y, N, on, next)
    BY <1>2, <1>4, <1>7, <1>8, <1>9, <1>10, Zenon DEF Stepped
  <1> QED
    BY <1>11 DEF N, on, e, next

\* Entry j of the directory on top of "st" is settled in "next", which goes on
\* with the entry after it or with the directory it leads to.
LEMMA WalkedFrom ==
  ASSUME NEW o, NEW d, NEW b, NEW st, Walked(o, d, b, st), NEW N \in Nat, N >= 1, Len(st) = N, st # <<>>,
         \A l \in 1 .. N : st[l].j \in Nat,
         NEW y, y = d.dir[st[N].dir][1][st[N].j], Fits(d, b, y),
         NEW next, NEW M \in {N, N + 1}, Len(next) = M, next # <<>>,
         \A l \in 1 .. N : l # N => next[l] = st[l], next[N].dir = st[N].dir, next[N].j = st[N].j + 1,
         y \in SeenDirs(o) => M = N + 1,
         M = N + 1 => next[N + 1].dir = y /\ next[N + 1].j = 1
  PROVE  Walked(o, d, b, next)
  <1>1. st[1].dir = Root /\ Fits(d, b, Root) /\ \A l \in 1 .. N : \A i \in 1 .. st[l].j - 1 : Settled(o, d, b, st, l, i)
    BY DEF Walked
  <1>2. next[1].dir = Root
    BY <1>1
  <1>3. ASSUME NEW l \in 1 .. M, NEW i \in 1 .. next[l].j - 1 PROVE Settled(o, d, b, next, l, i)
    <2>1. CASE l = N + 1
      BY <2>1
    <2>2. CASE l \in 1 .. N /\ l # N
      <3>1. l + 1 \in 1 .. N
        BY <2>2
      <3>2. next[l] = st[l]
        BY <2>2
      <3>3. next[l + 1].dir = st[l + 1].dir
        BY <3>1
      <3>4. Settled(o, d, b, st, l, i)
        BY <2>2, <3>2, <1>1
      <3>5. l < Len(next)
        BY <2>2
      <3> QED
        BY <3>2, <3>3, <3>4, <3>5 DEF Settled
    <2>3. CASE l = N /\ i = st[N].j
      <3>1. d.dir[next[l].dir][1][i] = y
        BY <2>3
      <3>2. y \in SeenDirs(o) => l < Len(next) /\ i = next[l].j - 1 /\ y = next[l + 1].dir
        <4>1. st[N].j \in Nat
          BY <2>3
        <4>2. next[l].j - 1 = st[N].j
          BY <2>3, <4>1
        <4>3. y \in SeenDirs(o) => M = N + 1
          OBVIOUS
        <4>4. M = N + 1 => next[N + 1].dir = y
          OBVIOUS
        <4>5. M = N + 1 => N < Len(next)
          OBVIOUS
        <4> QED
          BY <2>3, <4>2, <4>3, <4>4, <4>5
      <3> QED
        BY <3>1, <3>2 DEF Settled
    <2>4. CASE l = N /\ i # st[N].j
      <3>1. st[N].j \in Nat /\ i \in 1 .. st[N].j - 1
        BY <2>4
      <3>2. Settled(o, d, b, st, N, i)
        BY <3>1, <1>1
      <3>3. next[l].dir = st[N].dir /\ ~(N < Len(st)) /\ l = N
        BY <2>4
      <3> QED
        BY <3>2, <3>3 DEF Settled
    <2> QED
      BY <2>1, <2>2, <2>3, <2>4
  <1> QED
    BY <1>1, <1>2, <1>3 DEF Walked

LEMMA WalkedOn ==
  ASSUME NEW o, NEW d, NEW b, NEW st \in Seq(Frames(o)), st # <<>>, Walked(o, d, b, st),
         Fits(d, b, d.dir[st[Len(st)].dir][1][st[Len(st)].j])
  PROVE  LET y    == d.dir[st[Len(st)].dir][1][st[Len(st)].j]
             next == IF y \in SeenDirs(o) THEN Append(NextEntry(st), Beginning(y)) ELSE NextEntry(st)
         IN  next \in Seq(Frames(o)) /\ Walked(o, d, b, next)
  <1> DEFINE N    == Len(st)
             y    == d.dir[st[N].dir][1][st[N].j]
             on   == NextEntry(st)
             next == IF y \in SeenDirs(o) THEN Append(on, Beginning(y)) ELSE on
  <1>1. CASE y \in SeenDirs(o)
    <2> DEFINE n == Append(on, Beginning(y))
    <2>1. /\ N \in Nat /\ N >= 1
          /\ on \in Seq(Frames(o)) /\ Len(on) = N
          /\ \A l \in 1 .. N : st[l].j \in Nat /\ st[l].j >= 1
          /\ \A l \in 1 .. N : l # N => on[l] = st[l]
          /\ on[N].dir = st[N].dir /\ on[N].j = st[N].j + 1
          /\ n \in Seq(Frames(o)) /\ Len(n) = N + 1
          /\ n[N + 1].dir = y /\ n[N + 1].j = 1 /\ \A l \in 1 .. N : n[l] = on[l]
      <3>1. Stepped(o, st, y, N, on, n)
        BY <1>1, SteppedOn
      <3> HIDE DEF n, on, y, N
      <3> QED
        BY <3>1, Zenon DEF Stepped
    <2> HIDE DEF n, on
    <2>2. Fits(d, b, y)
      OBVIOUS
    <2>3. y = d.dir[st[N].dir][1][st[N].j]
      OBVIOUS
    <2> HIDE DEF y, N
    <2>4. N \in 1 .. N /\ N + 1 \in {N, N + 1} /\ n # <<>>
      BY <2>1
    <2>5. \A l \in 1 .. N : l # N => n[l] = st[l]
      BY <2>1
    <2>6. n[N].dir = st[N].dir /\ n[N].j = st[N].j + 1
      BY <2>1, <2>4
    <2>7. Walked(o, d, b, n)
      <3>1. Len(st) = N
        BY DEF N
      <3> QED
        BY <2>1, <2>2, <2>3, <2>4, <2>5, <2>6, <3>1, WalkedFrom
    <2> QED
      BY <1>1, <2>1, <2>7 DEF n, y, N, on
  <1>2. CASE y \notin SeenDirs(o)
    <2>a. PICK x : x \in SeenDirs(o)
      <3>1. st[Len(st)] \in Frames(o)
        OBVIOUS
      <3> QED
        BY <3>1, FrameFacts
    <2>1. /\ N \in Nat /\ N >= 1
          /\ on \in Seq(Frames(o)) /\ Len(on) = N
          /\ \A l \in 1 .. N : st[l].j \in Nat /\ st[l].j >= 1
          /\ \A l \in 1 .. N : l # N => on[l] = st[l]
          /\ on[N].dir = st[N].dir /\ on[N].j = st[N].j + 1
      <3>1. Stepped(o, st, x, N, on, Append(on, Beginning(x)))
        BY <2>a, SteppedOn
      <3> HIDE DEF on, y, N
      <3> QED
        BY <3>1, Zenon DEF Stepped
    <2> HIDE DEF on
    <2>2. Fits(d, b, y)
      OBVIOUS
    <2>3. y = d.dir[st[N].dir][1][st[N].j]
      OBVIOUS
    <2> HIDE DEF y, N
    <2>4. N \in {N, N + 1} /\ on # <<>> /\ N # N + 1
      BY <2>1
    <2>5. Walked(o, d, b, on)
      <3>1. Len(st) = N
        BY DEF N
      <3>2. y \in SeenDirs(o) => N = N + 1
        BY <1>2
      <3> QED
        BY <2>1, <2>2, <2>3, <2>4, <3>1, <3>2, WalkedFrom
    <2> QED
      BY <1>2, <2>1, <2>5 DEF y, N, on
  <1> QED
    BY <1>1, <1>2

\* A directory is left when it is done.
LEMMA WalkedUp ==
  ASSUME NEW o, WellFormed(o), NEW d, Tree(o, d), NEW b, NEW st \in Seq(Frames(o)), st # <<>>, Walked(o, d, b, st),
         st[Len(st)].j > Len(d.dir[st[Len(st)].dir][1])
  PROVE  Walked(o, d, b, Front(st))
  <1> DEFINE N == Len(st)
             D == st[N].dir
  <1>1. N \in Nat /\ N >= 1 /\ N \in 1 .. N /\ \A l \in 1 .. N : st[l] \in Frames(o)
    OBVIOUS
  <1>2. \A l \in 1 .. N : st[l].j \in Nat /\ st[l].j >= 1 /\ st[l].dir \in SeenDirs(o)
    BY <1>1, FrameFacts
  <1>3. D \in SeenDirs(o) /\ D \in DOMAIN o.dir
    BY <1>1, <1>2, WellFormedFacts, SeenFacts
  <1>4. FineDir(o, d, D)
    <2>1. SameShape(o, d)
      BY DEF Tree
    <2> QED
      BY <2>1, <1>3, SectorFacts
  <1>5. ASSUME NEW y \in FirstSector(d, D) PROVE Fits(d, b, y) /\ (y \in SeenDirs(o) => y \in Done(o, d, b))
    <2>1. PICK i \in 1 .. Len(d.dir[D][1]) : y = d.dir[D][1][i]
      BY <1>4 DEF FineDir
    <2>2. Len(d.dir[D][1]) \in Nat
      BY <1>4 DEF FineDir
    <2>3. i \in 1 .. st[N].j - 1
      BY <2>2, <1>1, <1>2
    <2>4. Settled(o, d, b, st, N, i)
      BY <2>3, <1>1 DEF Walked
    <2>5. ~(N < Len(st))
      BY <1>1
    <2> QED
      BY <2>1, <2>4, <2>5 DEF Settled
  <1>6. D \in Done(o, d, b)
    BY <1>3, <1>5, DirectoryDone
  <1> DEFINE up == Front(st)
  <1>7. Len(up) = N - 1 /\ \A l \in 1 .. N - 1 : up[l] = st[l]
    BY FrontFacts
  <1>8. Fits(d, b, Root) /\ st[1].dir = Root
    BY DEF Walked
  <1> HIDE DEF up
  <1>9. up = <<>> => Root \in Done(o, d, b)
    <2> SUFFICES ASSUME up = <<>> PROVE Root \in Done(o, d, b)
      OBVIOUS
    <2>1. Len(up) = 0
      OBVIOUS
    <2>2. N = 1
      BY <2>1, <1>1, <1>7
    <2> QED
      BY <2>2, <1>6, <1>8
  <1>10. up # <<>> => up[1].dir = Root
    <2> SUFFICES ASSUME up # <<>> PROVE up[1].dir = Root
      OBVIOUS
    <2>1. N # 1
      <3> SUFFICES ASSUME N = 1 PROVE FALSE
        OBVIOUS
      <3>1. up = <<>>
        BY FrontFacts DEF up
      <3> QED
        BY <3>1
    <2>2. 1 \in 1 .. N - 1
      <3>1. N \in Nat /\ N >= 1
        BY <1>1
      <3> HIDE DEF N
      <3> QED
        BY <2>1, <3>1
    <2> QED
      BY <2>2, <1>7, <1>8
  <1>11. ASSUME NEW l \in 1 .. Len(up), NEW i \in 1 .. up[l].j - 1 PROVE Settled(o, d, b, up, l, i)
    <2>1. l \in 1 .. N - 1 /\ l \in 1 .. N /\ up[l] = st[l]
      BY <1>1, <1>7
    <2>2. Settled(o, d, b, st, l, i)
      BY <2>1 DEF Walked
    <2>3. CASE l = N - 1
      <3>1. st[l + 1].dir = D
        BY <2>3, <1>1
      <3> QED
        BY <2>1, <2>2, <3>1, <1>6 DEF Settled
    <2>4. CASE l # N - 1
      <3>1. l + 1 \in 1 .. N - 1 /\ l < Len(up)
        BY <2>1, <2>4, <1>1, <1>7
      <3>2. up[l + 1] = st[l + 1]
        BY <3>1, <1>7
      <3> QED
        BY <2>1, <2>2, <3>1, <3>2 DEF Settled
    <2> QED
      BY <2>3, <2>4
  <1> QED
    BY <1>8, <1>9, <1>10, <1>11 DEF Walked, up

-----------------------------------------------------------------------------
(* What is reached from the root.                                          *)

Onwards(d, A) == A \cup UNION {Entries(d, x) : x \in A \cap DOMAIN d.dir}
Levels(d, reach) ==
    reach[0] = {Root} /\ \A n \in 1 .. MaxDepth : reach[n] = Onwards(d, reach[n - 1])

LEMMA ReachedUnfold ==
  ASSUME NEW d
  PROVE  \E reach : Reached(d) = reach[MaxDepth] /\ Levels(d, reach)
  <1> DEFINE E(A)   == Onwards(d, A)
             V      == SUBSET ({Root} \cup UNION {Entries(d, x) : x \in DOMAIN d.dir})
             step   == [p \in (1 .. MaxDepth) \X V |-> E(p[2])]
             reach  == CHOOSE h : h = [n \in 0 .. MaxDepth |-> IF n = 0 THEN {Root} ELSE E(h[n - 1])]
  <1>0. MaxDepth \in Nat
    BY FsskFacts
  <1>1. \A A \in V : E(A) \in V
    BY DEF Onwards
  <1>2. {Root} \in V
    OBVIOUS
  <1>3. \A k \in 1 .. MaxDepth : \A A \in V : step[<<k, A>>] = E(A)
    OBVIOUS
  <1> HIDE DEF E, V, step
  <1>4. PICK g : IsLoop({Root}, step, MaxDepth, g)
    BY <1>0, LoopExists
  <1>5. /\ g = [k \in 0 .. MaxDepth |-> g[k]]
        /\ g[0] = {Root} /\ \A k \in 1 .. MaxDepth : g[k] = step[<<k, g[k - 1]>>]
    <2>1. g = [k \in 0 .. MaxDepth |-> IF k = 0 THEN {Root} ELSE step[<<k, g[k - 1]>>]]
      BY <1>4 DEF IsLoop
    <2>2. 0 \in 0 .. MaxDepth /\ \A k \in 1 .. MaxDepth : k \in 0 .. MaxDepth /\ k # 0
      BY <1>0
    <2> QED
      BY <2>1, <2>2
  <1> DEFINE S == {k \in Nat : k <= MaxDepth => g[k] \in V}
  <1>6. 0 \in S
    BY <1>2, <1>5
  <1>7. ASSUME NEW k \in Nat, k \in S PROVE k + 1 \in S
    <2> SUFFICES ASSUME k + 1 <= MaxDepth PROVE g[k + 1] \in V
      OBVIOUS
    <2>1. k + 1 \in 1 .. MaxDepth /\ (k + 1) - 1 = k /\ g[k] \in V
      BY <1>0, <1>7
    <2>2. g[k + 1] = step[<<k + 1, g[k]>>]
      BY <2>1, <1>5
    <2> QED
      BY <2>1, <2>2, <1>1, <1>3
  <1> HIDE DEF S
  <1>8. Nat \subseteq S
    BY <1>6, <1>7, Induction
  <1>9. \A k \in 0 .. MaxDepth : g[k] \in V
    BY <1>0, <1>8 DEF S
  <1>10. \A k \in 1 .. MaxDepth : g[k] = E(g[k - 1])
    <2> TAKE k \in 1 .. MaxDepth
    <2>1. k - 1 \in 0 .. MaxDepth
      BY <1>0
    <2> QED
      BY <2>1, <1>3, <1>5, <1>9
  <1>11. g = [n \in 0 .. MaxDepth |-> IF n = 0 THEN {Root} ELSE E(g[n - 1])]
    <2>1. \A n \in 0 .. MaxDepth : g[n] = IF n = 0 THEN {Root} ELSE E(g[n - 1])
      <3>1. \A n \in 0 .. MaxDepth : n = 0 \/ n \in 1 .. MaxDepth
        BY <1>0
      <3> QED
        BY <3>1, <1>5, <1>10
    <2> QED
      BY <2>1, <1>5
  <1>12. reach = [n \in 0 .. MaxDepth |-> IF n = 0 THEN {Root} ELSE E(reach[n - 1])]
    BY <1>11
  <1>13. Reached(d) = reach[MaxDepth]
    BY DEF Reached, E, Onwards
  <1> HIDE DEF reach
  <1>14. reach[0] = {Root} /\ \A n \in 1 .. MaxDepth : reach[n] = E(reach[n - 1])
    <2>1. 0 \in 0 .. MaxDepth /\ \A n \in 1 .. MaxDepth : n \in 0 .. MaxDepth /\ n # 0
      BY <1>0
    <2> QED
      BY <2>1, <1>12
  <1> QED
    BY <1>13, <1>14 DEF E, Levels

\* An inode that is reached is the root or an entry of a directory.
LEMMA ReachedFacts ==
  ASSUME NEW d
  PROVE  Reached(d) \subseteq {Root} \cup UNION {Entries(d, x) : x \in DOMAIN d.dir}
  <1> DEFINE V == {Root} \cup UNION {Entries(d, x) : x \in DOMAIN d.dir}
  <1>0. MaxDepth \in Nat
    BY FsskFacts
  <1>1. PICK reach : Reached(d) = reach[MaxDepth] /\ Levels(d, reach)
    BY ReachedUnfold
  <1> DEFINE S == {n \in Nat : n <= MaxDepth => reach[n] \subseteq V}
  <1>2. 0 \in S
    BY <1>1 DEF Levels
  <1>3. ASSUME NEW n \in Nat, n \in S PROVE n + 1 \in S
    <2> SUFFICES ASSUME n + 1 <= MaxDepth PROVE reach[n + 1] \subseteq V
      OBVIOUS
    <2>1. n + 1 \in 1 .. MaxDepth /\ (n + 1) - 1 = n /\ reach[n] \subseteq V
      BY <1>0, <1>3
    <2>2. reach[n + 1] = Onwards(d, reach[n])
      BY <2>1, <1>1 DEF Levels
    <2>3. Onwards(d, reach[n]) \subseteq V
      BY <2>1 DEF Onwards
    <2> QED
      BY <2>1, <2>2, <2>3
  <1> HIDE DEF S
  <1>4. Nat \subseteq S
    BY <1>2, <1>3, Induction
  <1>5. reach[MaxDepth] \subseteq V
    BY <1>0, <1>4 DEF S
  <1> QED
    BY <1>1, <1>5

\* The way to what is guarded stays as it was.
LEMMA ReachedStays ==
  ASSUME NEW o, WellFormed(o), NEW d, Tree(o, d), NEW x \in Reached(o), x \in Guarded(o)
  PROVE  x \in Reached(d)
  <1> DEFINE Keeps(A, B) == \A y \in A : y \in DOMAIN o.dir \/ y \in Guarded(o) => y \in B
  <1>0. MaxDepth \in Nat /\ Root \in DOMAIN o.dir /\ DOMAIN d.dir = DOMAIN o.dir
    BY FsskFacts, WellFormedFacts DEF Tree, SameShape
  <1>1. PICK p : Reached(o) = p[MaxDepth] /\ Levels(o, p)
    BY ReachedUnfold
  <1>2. PICK q : Reached(d) = q[MaxDepth] /\ Levels(d, q)
    BY ReachedUnfold
  <1>3. ASSUME NEW D \in DOMAIN o.dir, NEW y \in Entries(o, D), y \in DOMAIN o.dir \/ y \in Guarded(o)
        PROVE  y \in Entries(d, D)
    <2>1. SameShape(o, o) /\ SameShape(o, d) /\ EntriesStay(o, d)
      BY TreeAtFirst DEF Tree
    <2>2. FineDir(o, o, D) /\ FineDir(o, d, D)
      BY <2>1, SectorFacts
    <2>3. PICK k \in 1 .. Len(o.dir[D]) : y \in Range(o.dir[D][k])
      BY DEF Entries
    <2>4. PICK j \in 1 .. Len(o.dir[D][k]) : y = o.dir[D][k][j]
      BY <2>2, <2>3 DEF FineDir, Range
    <2>5. y \in Guarded(o) \/ D \notin SeenDirs(o) \/ k # 1
      <3> SUFFICES ASSUME y \in DOMAIN o.dir, D \in SeenDirs(o), k = 1 PROVE y \in Guarded(o)
        BY <1>3
      <3>1. y \in FirstSector(o, D)
        BY <2>3 DEF FirstSector
      <3>2. y \in SeenDirs(o)
        BY <3>1, <1>0, SeenFacts
      <3> QED
        BY <3>2 DEF Guarded
    <2>6. d.dir[D][k][j] = y
      BY <2>1, <2>4, <2>5 DEF EntriesStay
    <2>7. k \in 1 .. Len(d.dir[D]) /\ j \in DOMAIN d.dir[D][k]
      BY <2>2 DEF FineDir
    <2>8. y \in Range(d.dir[D][k])
      BY <2>6, <2>7 DEF Range
    <2> QED
      BY <2>7, <2>8 DEF Entries
  <1> DEFINE S == {n \in Nat : n <= MaxDepth => Keeps(p[n], q[n])}
  <1>4. 0 \in S
    BY <1>1, <1>2 DEF Levels
  <1>5. ASSUME NEW n \in Nat, n \in S PROVE n + 1 \in S
    <2> SUFFICES ASSUME n + 1 <= MaxDepth PROVE Keeps(p[n + 1], q[n + 1])
      OBVIOUS
    <2>1. n + 1 \in 1 .. MaxDepth /\ (n + 1) - 1 = n /\ Keeps(p[n], q[n])
      BY <1>0, <1>5
    <2>2. /\ p[n + 1] = p[n] \cup UNION {Entries(o, y) : y \in p[n] \cap DOMAIN o.dir}
          /\ q[n + 1] = q[n] \cup UNION {Entries(d, y) : y \in q[n] \cap DOMAIN d.dir}
      BY <2>1, <1>1, <1>2 DEF Levels, Onwards
    <2> SUFFICES ASSUME NEW y \in p[n + 1], y \in DOMAIN o.dir \/ y \in Guarded(o) PROVE y \in q[n + 1]
      OBVIOUS
    <2>3. CASE y \in p[n]
      BY <2>1, <2>2, <2>3
    <2>4. CASE \E D \in p[n] \cap DOMAIN o.dir : y \in Entries(o, D)
      <3>1. PICK D \in p[n] \cap DOMAIN o.dir : y \in Entries(o, D)
        BY <2>4
      <3>2. D \in q[n] \cap DOMAIN d.dir
        BY <3>1, <2>1, <1>0
      <3>3. y \in Entries(d, D)
        BY <3>1, <1>3
      <3> QED
        BY <3>2, <3>3, <2>2
    <2> QED
      BY <2>2, <2>3, <2>4
  <1> HIDE DEF S
  <1>6. Nat \subseteq S
    BY <1>4, <1>5, Induction
  <1>7. Keeps(p[MaxDepth], q[MaxDepth])
    <2> HIDE DEF Keeps
    <2> QED
      BY <1>0, <1>6 DEF S
  <1> QED
    BY <1>1, <1>2, <1>7

\* When the directories have one sector each, the walk gets to all of them.
LEMMA AllSeen ==
  ASSUME NEW o, WellFormed(o), OneSector(o)
  PROVE  SeenDirs(o) = DOMAIN o.dir
  <1>1. Root \in DOMAIN o.dir
    BY WellFormedFacts
  <1>2. /\ Root \in SeenDirs(o) /\ SeenDirs(o) \subseteq DOMAIN o.dir
        /\ \A x \in SeenDirs(o) : \A y \in FirstSector(o, x) : y \in DOMAIN o.dir => y \in SeenDirs(o)
    BY <1>1, SeenFacts
  <1>3. ASSUME NEW x \in DOMAIN o.dir PROVE Entries(o, x) = FirstSector(o, x)
    <2>1. Len(o.dir[x]) = 1
      BY DEF OneSector
    <2>2. 1 .. Len(o.dir[x]) = {1}
      BY <2>1
    <2> QED
      BY <2>2 DEF Entries, FirstSector
  <1>4. \A x \in SeenDirs(o) : Entries(o, x) \cap DOMAIN o.dir \subseteq SeenDirs(o)
    BY <1>2, <1>3
  <1>5. \A S \in SUBSET DOMAIN o.dir :
          Root \in S /\ (\A x \in S : Entries(o, x) \cap DOMAIN o.dir \subseteq S) => S = DOMAIN o.dir
    BY Zenon DEF WellFormed
  <1> QED
    BY <1>2, <1>4, <1>5

-----------------------------------------------------------------------------
(* The invariant.                                                          *)

\* The metadata of the mount is what the filesystem has, or will have.
Live == pc \in {"open", "root", "walk", "move", "segment", "copy", "failed", "backup", "main"}

SuperInv ==
    /\ main \in Subs /\ present \in Subs /\ backup \in Nat /\ parts \in Nat
    /\ main <= present /\ backup <= present
    /\ Live => parts <= main
    /\ pc = "main" => backup = main - parts
    /\ pc = "delete" => main + parts <= present /\ backup + parts <= present

GoodBits(u) ==
    /\ u \in [Subs -> SUBSET Nat]
    /\ \A s \in Subs : Reserved[s] \subseteq u[s] /\ u[s] \subseteq ZonesOf(s)
GoodDisk(o, d) ==
    /\ d = [inode |-> d.inode, dir |-> d.dir, used |-> d.used]
    /\ Tree(o, d) /\ GoodBits(d.used) /\ GuardedZones(o) \subseteq UsedOf(d)
GoodCache(o, d, v) ==
    Tree(o, d) /\ GoodVolume(v) /\ FreeEnough(v) /\ GuardedZones(o) \subseteq UsedOf(v)

\* What a mount would find, whenever: the directories that the walk gets to and
\* what lies in the main partition are as they were.
DiskInv ==
    /\ first \in Images /\ GoodDisk(first, disk)
    /\ \A z \in GuardedZones(first) : z \in DOMAIN content /\ content[z] = z
    /\ \A x \in SeenDirs(first) : \A z \in Owned(first, x) : z[1] <= main
CacheInv == Live => GoodCache(first, fs, vol)

StackInv ==
    /\ pc \notin {"walk", "move", "segment", "copy", "failed", "hung"} => stack = <<>>
    /\ Walking => stack \in Seq(Frames(first))
    /\ Walking \/ pc \in {"open", "root", "backup", "main"} => lastError = FALSE
    /\ lastError \in BOOLEAN /\ stopFlag \in BOOLEAN
    /\ mv = [old |-> mv.old, new |-> mv.new, data |-> mv.data, n |-> mv.n, i |-> mv.i, rest |-> mv.rest, wrapped |-> mv.wrapped]

WalkInv == pc = "walk" /\ ~stopFlag => Walked(first, fs, main - parts, stack)

\* What is left behind when the walk is over.
Emptied(o, d, b) ==
    \A x \in SeenDirs(o) : /\ \A y \in FirstSector(d, x) : Fits(d, b, y)
                           /\ \A z \in Owned(o, x) : z[1] <= b
EndInv == pc \in {"backup", "main"} =>
    disk.inode = fs.inode /\ disk.dir = fs.dir /\ Fits(fs, main - parts, Root) /\ Emptied(first, fs, main - parts)

\* The entry that is moved is the next one of the directory on top.
AtEntry(d, st) == st # <<>> /\ st[Len(st)].j <= Len(d.dir[st[Len(st)].dir][1])
Entry(d, st)   == d.dir[st[Len(st)].dir][1][st[Len(st)].j]
Moves(d, st, b, m) ==
    AtEntry(d, st) /\ m.old = Entry(d, st) /\ d.inode[m.old].mode # "dir" /\ LiesPast(d.inode[m.old], b)
GoodCopy(o, m) ==
    GoodInode(m) /\ Apart(o, m.data) /\ m.new = <<m.data[1].sub, m.data[1].num>> /\ m.data[1].cnt > 0
MoveInv == pc \in {"move", "segment", "copy"} =>
    /\ Moves(fs, stack, main - parts, mv)
    /\ pc # "move" => GoodCopy(first, mv) /\ mv.i \in 1 .. fs.inode[mv.old].n
    /\ pc = "move" => mv.rest = Segment(0, 0, 0) /\ ~mv.wrapped
    /\ pc = "copy" => mv.rest \in Segments /\ mv.rest.cnt <= CountMax

\* A file that is as it was at first, and lies in what is removed with all zones.
AllGoes(o, d, x, b, m) ==
    x \in DOMAIN o.inode /\ d.inode[x] = o.inode[x] /\ \A z \in Owned(o, x) : z[1] \in b + 1 .. m
\* What is left to be moved: the segments after the i-th, and the rest of that one.
LeftOf(x, i, rest) == Covers(rest) \cup UNION {Covers(Data(x)[k]) : k \in i + 1 .. x.n}

\* The segments of an inode lie in the partitions, and apart.
Parted(y) ==
    /\ y.n \in Nat /\ \A k \in 1 .. y.n : Within(Data(y)[k])
    /\ \A k, j \in 1 .. y.n : k # j => Covers(Data(y)[k]) \cap Covers(Data(y)[j]) = {}
\* As many zones go of what is left.
Takes(before, Z, n, after) == Z \subseteq before /\ Cardinality(Z) = n /\ after \subseteq before \ Z

\* There is room for all that lies in what is removed, and for what is left of it.
RoomFor(o, d, v, b, top, m) ==
    ~m.wrapped /\ AllGoes(o, d, m.old, b, top) =>
        /\ Roomy(v, b, LeftOf(d.inode[m.old], m.i, m.rest))
        /\ Covers(m.rest) \subseteq Covers(Data(d.inode[m.old])[m.i])
RoomInv ==
    /\ pc = "open" => FreeExact(vol)
    /\ pc \in {"root", "walk", "move"} => Roomy(vol, main - parts, Between(main - parts, main))
    /\ pc \in {"segment", "copy"} => RoomFor(first, fs, vol, main - parts, main, mv)

HangInv == pc = "hung" =>
    \/ stack = <<>> \/ (AtEntry(fs, stack) /\ fs.inode[Entry(fs, stack)].mode = "dir")
    \/ lastError \/ mv.wrapped \/ ~AllGoes(first, fs, mv.old, main - parts, main)

IInv == SuperInv /\ DiskInv /\ CacheInv /\ StackInv /\ WalkInv /\ EndInv /\ MoveInv /\ RoomInv /\ HangInv

-----------------------------------------------------------------------------
(* What follows from it.                                                   *)

LEMMA FirstFacts ==
  ASSUME DiskInv
  PROVE  WellFormed(first) /\ Tree(first, disk)
  BY FsskFacts DEF DiskInv, GoodDisk

LEMMA KeptWhenInv ==
  ASSUME DiskInv
  PROVE  UnmovedKept
  <1> SUFFICES ASSUME NEW x \in Reached(first), \A z \in Owned(first, x) : z[1] = 0
               PROVE  /\ x \in Reached(disk) /\ disk.inode[x] = first.inode[x]
                      /\ Marked(disk, Owned(first, x)) /\ \A z \in Owned(first, x) : content[z] = z
    BY DEF UnmovedKept
  <1>1. WellFormed(first) /\ Tree(first, disk)
    BY FirstFacts
  <1>2. x \in DOMAIN first.inode
    <2>1. x = Root \/ \E D \in DOMAIN first.dir : x \in Entries(first, D)
      BY ReachedFacts
    <2>2. CASE x = Root
      BY <2>2, <1>1, WellFormedFacts
    <2>3. CASE \E D \in DOMAIN first.dir : x \in Entries(first, D)
      <3>1. PICK D \in DOMAIN first.dir : x \in Entries(first, D)
        BY <2>3
      <3>2. first.dir[D] \in Seq(Seq(DOMAIN first.inode))
        BY <1>1, WellFormedFacts
      <3>3. PICK k \in 1 .. Len(first.dir[D]) : x \in Range(first.dir[D][k])
        BY <3>1 DEF Entries
      <3>4. first.dir[D][k] \in Seq(DOMAIN first.inode)
        BY <3>2
      <3> HIDE DEF Range
      <3>5. Range(first.dir[D][k]) \subseteq DOMAIN first.inode
        BY <3>4 DEF Range
      <3> QED
        BY <3>3, <3>5
    <2> QED
      BY <2>1, <2>2, <2>3
  <1>3. x \in Guarded(first)
    BY <1>2 DEF Guarded, MainInodes
  <1>4. x \in Reached(disk)
    BY <1>1, <1>3, ReachedStays
  <1>5. disk.inode[x] = first.inode[x]
    BY <1>1, <1>3 DEF Tree, GuardedStay
  <1>6. Owned(first, x) \subseteq GuardedZones(first)
    BY <1>1, <1>3, GuardedFacts
  <1>7. Owned(first, x) \subseteq UsedOf(disk) /\ \A z \in Owned(first, x) : content[z] = z
    BY <1>6 DEF DiskInv, GoodDisk
  <1>8. Marked(disk, Owned(first, x))
    <2> SUFFICES ASSUME NEW z \in Owned(first, x) PROVE z[2] \in disk.used[z[1]]
      BY DEF Marked
    <2>1. PICK s \in Subs : \E k \in disk.used[s] : z = <<s, k>>
      BY <1>7, InUsed
    <2> QED
      BY <2>1
  <1> QED
    BY <1>4, <1>5, <1>7, <1>8

\* When the walk is over, nothing that is reached lies in what is removed.
LEMMA EmptyWhenInv ==
  ASSUME DiskInv, EndInv, pc = "main", OneSector(first)
  PROVE  \A x \in Reached(disk) : \A z \in Owned(disk, x) : z[1] <= main - parts
  <1>1. WellFormed(first) /\ Tree(first, disk)
    BY FirstFacts
  <1>2. /\ disk.inode = fs.inode /\ disk.dir = fs.dir
        /\ Fits(fs, main - parts, Root) /\ Emptied(first, fs, main - parts)
    BY DEF EndInv
  <1>3. SeenDirs(first) = DOMAIN first.dir
    BY <1>1, AllSeen
  <1>4. SameShape(first, disk)
    BY <1>1 DEF Tree
  <1> SUFFICES ASSUME NEW x \in Reached(disk), NEW z \in Owned(disk, x) PROVE z[1] <= main - parts
    OBVIOUS
  <1>5. Owned(fs, x) = Owned(disk, x)
    BY <1>2 DEF Owned
  <1>6. x = Root \/ \E D \in DOMAIN disk.dir : x \in Entries(disk, D)
    BY ReachedFacts
  <1>7. CASE x = Root
    BY <1>2, <1>5, <1>7 DEF Fits
  <1>8. CASE \E D \in DOMAIN disk.dir : x \in Entries(disk, D)
    <2>1. PICK D \in DOMAIN disk.dir : x \in Entries(disk, D)
      BY <1>8
    <2>2. D \in DOMAIN first.dir /\ D \in SeenDirs(first)
      BY <2>1, <1>3, <1>4 DEF SameShape
    <2>3. Len(disk.dir[D]) = 1
      BY <2>2, <1>4 DEF SameShape, OneSector
    <2>4. 1 .. Len(disk.dir[D]) = {1}
      BY <2>3
    <2>5. x \in FirstSector(disk, D)
      BY <2>1, <2>4 DEF Entries, FirstSector
    <2>6. x \in FirstSector(fs, D)
      BY <2>5, <1>2 DEF FirstSector
    <2>7. Fits(fs, main - parts, x)
      BY <2>2, <2>6, <1>2 DEF Emptied
    <2> QED
      BY <2>7, <1>5 DEF Fits
  <1> QED
    BY <1>6, <1>7, <1>8

LEMMA HangWhenInv ==
  ASSUME HangInv
  PROVE  HangsOnlyOnData
  <1>1. Top = stack[Len(stack)]
    BY DEF Top, Last
  <1>2. AtEntry(fs, stack) => Len(Seen) >= Top.j
    BY <1>1 DEF AtEntry, Seen
  <1>3. Entry(fs, stack) = This
    BY <1>1 DEF Entry, Seen, This
  <1>4. ~AllGoes(first, fs, mv.old, main - parts, main) =>
           \/ mv.old \notin DOMAIN first.inode \/ fs.inode[mv.old] # first.inode[mv.old]
           \/ \E z \in Owned(first, mv.old) : z[1] \notin main - parts + 1 .. main
    BY DEF AllGoes
  <1> QED
    BY <1>2, <1>3, <1>4 DEF HangInv, HangsOnlyOnData

-----------------------------------------------------------------------------
(* The start.                                                              *)

LEMMA InitInv ==
  ASSUME Init
  PROVE  IInv
  <1>1. /\ disk \in Images /\ first = disk /\ main = NumSubs /\ backup = NumSubs /\ present = NumSubs
        /\ lastError = FALSE /\ pc = "closed" /\ parts = 0 /\ stack = <<>> /\ stopFlag = FALSE /\ mv = NotMoving
        /\ content = [z \in UNION {{s} \X ZonesOf(s) : s \in Subs} |-> z]
    BY DEF Init
  <1>2. WellFormed(first)
    BY <1>1, FsskFacts
  <1>3. SuperInv
    BY <1>1, SizeFacts DEF SuperInv, Live
  <1>4. Tree(first, disk)
    BY <1>1, <1>2, TreeAtFirst
  <1>5. /\ disk = [inode |-> disk.inode, dir |-> disk.dir, used |-> disk.used]
        /\ disk.used \in [Subs -> SUBSET Nat]
        /\ \A s \in Subs : Reserved[s] \subseteq disk.used[s] /\ disk.used[s] \subseteq ZonesOf(s)
    BY <1>1, <1>2, Zenon DEF WellFormed
  <1>6. GuardedZones(first) \subseteq UsedOf(disk)
    <2> SUFFICES ASSUME NEW z \in GuardedZones(first) PROVE z \in UsedOf(disk)
      OBVIOUS
    <2>1. CASE z \in ReservedZones
      <3>1. PICK s \in Subs : z \in {<<s, n>> : n \in Reserved[s]}
        BY <2>1 DEF ReservedZones
      <3>2. PICK n \in Reserved[s] : z = <<s, n>>
        BY <3>1
      <3>3. n \in disk.used[s]
        BY <1>5
      <3> QED
        BY <3>2, <3>3, InUsed
    <2>2. CASE \E x \in Guarded(first) : z \in Owned(first, x)
      <3>1. PICK x \in Guarded(first) : z \in Owned(first, x)
        BY <2>2
      <3>2. x \in DOMAIN first.inode
        BY <1>2, GuardedFacts
      <3>3. Owned(first, x) \subseteq UsedOf(first)
        BY <3>2, <1>2, WellFormedFacts
      <3> QED
        BY <3>1, <3>3, <1>1
    <2> QED
      BY <2>1, <2>2, <1>2, GuardedFacts
  <1>7. \A z \in GuardedZones(first) : z \in DOMAIN content /\ content[z] = z
    <2> TAKE z \in GuardedZones(first)
    <2>1. PICK s \in Subs : \E n \in disk.used[s] : z = <<s, n>>
      BY <1>6, InUsed
    <2>2. PICK n \in disk.used[s] : z = <<s, n>>
      BY <2>1
    <2>3. n \in ZonesOf(s)
      BY <1>5
    <2>4. z \in {s} \X ZonesOf(s)
      BY <2>2, <2>3
    <2>5. z \in UNION {{t} \X ZonesOf(t) : t \in Subs}
      BY <2>4
    <2> QED
      BY <2>5, <1>1
  <1>8. \A x \in SeenDirs(first) : \A z \in Owned(first, x) : z[1] <= main
    <2> TAKE x \in SeenDirs(first)
    <2> TAKE z \in Owned(first, x)
    <2>1. x \in DOMAIN first.inode
      BY <1>2, GuardedFacts
    <2>2. z \in UsedOf(first)
      BY <2>1, <1>2, WellFormedFacts
    <2>3. PICK s \in Subs : \E n \in first.used[s] : z = <<s, n>>
      BY <2>2, InUsed
    <2> QED
      BY <2>3, <1>1, SizeFacts
  <1>9. DiskInv
    BY <1>1, <1>4, <1>5, <1>6, <1>7, <1>8 DEF DiskInv, GoodDisk, GoodBits
  <1>10. StackInv
    BY <1>1 DEF StackInv, Walking, NotMoving
  <1>11. CacheInv /\ WalkInv /\ EndInv /\ MoveInv /\ RoomInv /\ HangInv
    BY <1>1 DEF CacheInv, Live, WalkInv, EndInv, MoveInv, RoomInv, HangInv
  <1> QED
    BY <1>3, <1>9, <1>10, <1>11 DEF IInv

-----------------------------------------------------------------------------
(* One step: the mount, the super blocks and the end.                      *)

LEMMA SubsInt ==
  NumSubs \in Nat /\ Subs = 0 .. NumSubs
  BY SizeFacts

\* The zones of an inode are in partitions that there are.
LEMMA OwnedInSubs ==
  ASSUME DiskInv, NEW x \in SeenDirs(first), NEW z \in Owned(first, x)
  PROVE  z[1] \in Int
  <1>1. WellFormed(first)
    BY FirstFacts
  <1>2. x \in DOMAIN first.inode
    BY <1>1, GuardedFacts
  <1>3. z \in UsedOf(first)
    BY <1>1, <1>2, WellFormedFacts
  <1>4. PICK s \in Subs : \E n \in first.used[s] : z = <<s, n>>
    BY <1>3, InUsed
  <1> QED
    BY <1>4, SubsInt

\* A mount counts the zeros of the bitmaps.
LEMMA MountCounts ==
  ASSUME NEW u, GoodBits(u)
  PROVE  LET v == [used |-> u, free |-> CalcFreeZones(u)]
         IN  GoodVolume(v) /\ FreeExact(v) /\ FreeEnough(v)
  <1> DEFINE v == [used |-> u, free |-> CalcFreeZones(u)]
  <1>1. u \in [Subs -> SUBSET Nat] /\ \A s \in Subs : Reserved[s] \subseteq u[s] /\ u[s] \subseteq ZonesOf(s)
    BY DEF GoodBits
  <1>2. ASSUME NEW s \in Subs
        PROVE  Size[s] - Cardinality(u[s]) = Cardinality(ZonesOf(s) \ u[s]) /\ Size[s] - Cardinality(u[s]) \in Int
               /\ Cardinality(ZonesOf(s) \ u[s]) \in Nat
    <2>1. Size[s] \in Nat /\ Size[s] > 0
      BY SizeFacts
    <2>2. IsFiniteSet(ZonesOf(s)) /\ Cardinality(ZonesOf(s)) = Size[s]
      <3> DEFINE e == Size[s] - 1
      <3>1. e \in Int /\ e >= 0 /\ 0 \in Int /\ e - 0 + 1 = Size[s]
        BY <2>1
      <3>2. ZonesOf(s) = 0 .. e
        BY DEF ZonesOf
      <3> HIDE DEF e
      <3>3. IsFiniteSet(0 .. e) /\ Cardinality(0 .. e) = IF 0 > e THEN 0 ELSE e - 0 + 1
        BY <3>1, FS_Interval
      <3> QED
        BY <3>1, <3>2, <3>3
    <2>3. u[s] \subseteq ZonesOf(s) /\ IsFiniteSet(u[s])
      BY <1>1, <2>2, FS_Subset
    <2>4. Cardinality(u[s]) \in Nat
      BY <2>3, FS_CardinalityType
    <2>5. /\ IsFiniteSet(ZonesOf(s) \ u[s]) /\ Cardinality(ZonesOf(s) \ u[s]) \in Nat
      BY <2>2, FS_Difference, FS_CardinalityType
    <2>6. Cardinality(ZonesOf(s) \ u[s]) = Cardinality(ZonesOf(s)) - Cardinality(ZonesOf(s) \cap u[s])
      BY <2>2, FS_Difference
    <2>7. ZonesOf(s) \cap u[s] = u[s]
      BY <2>3
    <2>8. Cardinality(ZonesOf(s) \ u[s]) = Size[s] - Cardinality(u[s])
      BY <2>2, <2>6, <2>7
    <2> HIDE DEF ZonesOf
    <2> QED
      BY <2>1, <2>4, <2>5, <2>8
  <1>3. v.used = u /\ v.free \in [Subs -> Int] /\ \A s \in Subs : v.free[s] = Cardinality(ZonesOf(s) \ u[s])
    BY <1>2 DEF CalcFreeZones
  <1>4. v \in [used : [Subs -> SUBSET Nat], free : [Subs -> Int]]
    BY <1>1, <1>3
  <1>5. \A s \in Subs : Cardinality(Zeros(v, s)) \in Nat
    BY ZerosFinite
  <1> HIDE DEF v
  <1>6. GoodVolume(v)
    BY <1>1, <1>3, <1>4 DEF GoodVolume
  <1>7. FreeExact(v)
    BY <1>3 DEF FreeExact, Zeros
  <1>8. FreeEnough(v)
    BY <1>5, <1>7 DEF FreeExact, FreeEnough
  <1> QED
    BY <1>6, <1>7, <1>8 DEF v

LEMMA OpenStep ==
  ASSUME IInv, Open
  PROVE  IInv'
  <1>a. main = present /\ pc' = "open" /\ parts' = 0 /\ lastError' = FALSE /\ stack' = stack /\ stopFlag' = FALSE
    BY DEF Open
  <1>b. /\ fs' = [inode |-> disk.inode, dir |-> disk.dir]
        /\ vol' = [used |-> disk.used, free |-> CalcFreeZones(disk.used)]
    BY DEF Open
  <1>1. SuperInv'
    BY <1>a, SubsInt DEF IInv, Open, SuperInv, Live, supers
  <1>2. DiskInv'
    BY DEF IInv, Open, DiskInv, SuperInv, metadata, supers
  <1>3. CacheInv'
    <2>1. Tree(first, disk) /\ GoodBits(disk.used) /\ GuardedZones(first) \subseteq UsedOf(disk)
      BY DEF IInv, DiskInv, GoodDisk
    <2> DEFINE v == [used |-> disk.used, free |-> CalcFreeZones(disk.used)]
               f == [inode |-> disk.inode, dir |-> disk.dir]
    <2>2. GoodVolume(v) /\ FreeExact(v) /\ FreeEnough(v)
      BY <2>1, MountCounts
    <2>3. UsedOf(v) = UsedOf(disk)
      BY DEF UsedOf
    <2>4. f.inode = disk.inode /\ f.dir = disk.dir
      OBVIOUS
    <2> HIDE DEF f
    <2>5. Tree(first, f)
      BY <2>1, <2>4, TreeSame
    <2> HIDE DEF v
    <2>6. GoodCache(first, f, v)
      BY <2>1, <2>2, <2>3, <2>5 DEF GoodCache
    <2>7. vol' = v /\ fs' = f /\ first' = first
      BY <1>b DEF v, f, Open
    <2> QED
      BY <2>6, <2>7 DEF CacheInv
  <1>4. StackInv'
    BY DEF IInv, Open, StackInv, Walking, metadata, supers
  <1>5. WalkInv'
    BY DEF IInv, Open, WalkInv, StackInv, metadata, supers
  <1>6. EndInv'
    BY DEF IInv, Open, EndInv, StackInv, metadata, supers
  <1>7. MoveInv'
    BY DEF IInv, Open, MoveInv, metadata, supers
  <1>8. RoomInv'
    <2>1. GoodBits(disk.used)
      BY DEF IInv, DiskInv, GoodDisk
    <2> DEFINE v == [used |-> disk.used, free |-> CalcFreeZones(disk.used)]
    <2>2. FreeExact(v)
      BY <2>1, MountCounts
    <2> HIDE DEF v
    <2>3. vol' = v
      BY <1>b DEF v
    <2>4. FreeExact(vol)'
      BY <2>2, <2>3
    <2> QED
      BY <1>a, <2>4 DEF RoomInv
  <1>9. HangInv'
    BY DEF IInv, Open, HangInv, metadata, supers
  <1> QED
    BY <1>1, <1>2, <1>3, <1>4, <1>5, <1>6, <1>7, <1>8, <1>9 DEF IInv

\* The bitmaps of the sub-partitions that are not counted are written anew.
LEMMA FormatSubsStep ==
  ASSUME IInv, FormatSubs
  PROVE  IInv'
  <1>a. pc = "closed" /\ main < present /\ pc' = "formatted"
    BY DEF FormatSubs
  <1>1. SuperInv'
    BY SubsInt DEF IInv, FormatSubs, SuperInv, Live, metadata, supers
  <1>2. DiskInv'
    <2> DEFINE u == [s \in Subs |-> IF s \in main + 1 .. present THEN Reserved[s] ELSE disk.used[s]]
    <2>1. GoodDisk(first, disk) /\ WellFormed(first) /\ main \in Subs
      BY FirstFacts DEF IInv, DiskInv, SuperInv
    <2>2. /\ disk = [inode |-> disk.inode, dir |-> disk.dir, used |-> disk.used]
          /\ Tree(first, disk) /\ GoodBits(disk.used) /\ GuardedZones(first) \subseteq UsedOf(disk)
      BY <2>1 DEF GoodDisk
    <2>3. disk' = [disk EXCEPT !.used = u]
      BY DEF FormatSubs
    <2> HIDE DEF u
    <2>4. disk' = [inode |-> disk.inode, dir |-> disk.dir, used |-> u]
      BY <2>2, <2>3
    <2> DEFINE e == [inode |-> disk.inode, dir |-> disk.dir, used |-> u]
    <2>5. e.inode = disk.inode /\ e.dir = disk.dir /\ e.used = u /\ e = [inode |-> e.inode, dir |-> e.dir, used |-> e.used]
      OBVIOUS
    <2> HIDE DEF e
    <2>6. Tree(first, e)
      BY <2>2, <2>5, TreeSame
    <2>7. GoodBits(u)
      <3>1. Reserved \in [Subs -> SUBSET Nat] /\ \A s \in Subs : Reserved[s] \subseteq ZonesOf(s)
        BY ZonesAssumption
      <3> QED
        BY <2>2, <3>1 DEF GoodBits, u
    <2>8. ASSUME NEW z \in GuardedZones(first) PROVE z \in UsedOf(e)
      <3>1. PICK s \in Subs : \E n \in disk.used[s] : z = <<s, n>>
        BY <2>2, InUsed
      <3>2. PICK n \in disk.used[s] : z = <<s, n>>
        BY <3>1
      <3>3. n \in u[s]
        <4>1. CASE z \in ReservedZones
          <5>1. PICK t \in Subs : z \in {<<t, k>> : k \in Reserved[t]}
            BY <4>1 DEF ReservedZones
          <5>2. n \in Reserved[s]
            BY <5>1, <3>2
          <5> QED
            BY <5>2, <2>7 DEF GoodBits
        <4>2. CASE \E x \in Guarded(first) : z \in Owned(first, x)
          <5>1. PICK x \in Guarded(first) : z \in Owned(first, x)
            BY <4>2
          <5>2. z[1] <= main
            <6>1. CASE x \in SeenDirs(first)
              BY <5>1, <6>1 DEF IInv, DiskInv
            <6>2. CASE x \in MainInodes(first)
              <7>1. z[1] = 0
                BY <5>1, <6>2 DEF MainInodes
              <7> QED
                BY <7>1, <2>1, SubsInt
            <6> QED
              BY <6>1, <6>2 DEF Guarded
          <5>3. s \notin main + 1 .. present
            BY <3>2, <5>2, <2>1, SubsInt
          <5> QED
            BY <3>2, <5>3 DEF u
        <4> QED
          BY <4>1, <4>2, <2>1, GuardedFacts
      <3> QED
        BY <2>5, <3>2, <3>3, InUsed
    <2>9. GoodDisk(first, e)
      BY <2>5, <2>6, <2>7, <2>8 DEF GoodDisk
    <2>10. disk' = e /\ first' = first /\ content' = content /\ main' = main
      BY <2>4 DEF e, FormatSubs, supers
    <2> QED
      BY <2>9, <2>10 DEF IInv, DiskInv
  <1>3. CacheInv'
    BY DEF IInv, FormatSubs, CacheInv, Live, metadata, supers
  <1>4. StackInv'
    BY DEF IInv, FormatSubs, StackInv, Walking, metadata, supers
  <1>5. WalkInv'
    BY DEF IInv, FormatSubs, WalkInv, StackInv, metadata, supers
  <1>6. EndInv'
    BY DEF IInv, FormatSubs, EndInv, StackInv, metadata, supers
  <1>7. MoveInv'
    BY DEF IInv, FormatSubs, MoveInv, metadata, supers
  <1>8. RoomInv'
    BY DEF IInv, FormatSubs, RoomInv, metadata, supers
  <1>9. HangInv'
    BY DEF IInv, FormatSubs, HangInv, metadata, supers
  <1> QED
    BY <1>1, <1>2, <1>3, <1>4, <1>5, <1>6, <1>7, <1>8, <1>9 DEF IInv

LEMMA CountSubsStep ==
  ASSUME IInv, CountSubs
  PROVE  IInv'
  <1>1. SuperInv'
    BY SubsInt DEF IInv, CountSubs, SuperInv, Live, metadata, supers
  <1>2. DiskInv'
    <2>1. first' = first /\ disk' = disk /\ content' = content /\ main' = present
      BY DEF CountSubs, metadata
    <2>2. main \in Subs /\ present \in Subs /\ main <= present
      BY DEF IInv, SuperInv
    <2>3. \A x \in SeenDirs(first) : \A z \in Owned(first, x) : z[1] <= present
      <3> TAKE x \in SeenDirs(first)
      <3> TAKE z \in Owned(first, x)
      <3>1. z[1] <= main
        BY DEF IInv, DiskInv
      <3>2. z[1] \in Int
        BY OwnedInSubs DEF IInv
      <3> QED
        BY <2>2, <3>1, <3>2, SubsInt
    <2> QED
      BY <2>1, <2>3 DEF IInv, DiskInv
  <1>3. CacheInv'
    BY DEF IInv, CountSubs, CacheInv, Live, metadata, supers
  <1>4. StackInv'
    BY DEF IInv, CountSubs, StackInv, Walking, metadata, supers
  <1>5. WalkInv'
    BY DEF IInv, CountSubs, WalkInv, StackInv, metadata, supers
  <1>6. EndInv'
    BY DEF IInv, CountSubs, EndInv, StackInv, metadata, supers
  <1>7. MoveInv'
    BY DEF IInv, CountSubs, MoveInv, metadata, supers
  <1>8. RoomInv'
    BY DEF IInv, CountSubs, RoomInv, metadata, supers
  <1>9. HangInv'
    BY DEF IInv, CountSubs, HangInv, metadata, supers
  <1> QED
    BY <1>1, <1>2, <1>3, <1>4, <1>5, <1>6, <1>7, <1>8, <1>9 DEF IInv

LEMMA CountSubsInBackupStep ==
  ASSUME IInv, CountSubsInBackup
  PROVE  IInv'
  <1>1. SuperInv'
    BY SubsInt DEF IInv, CountSubsInBackup, SuperInv, Live, metadata, supers
  <1>2. DiskInv'
    BY DEF IInv, CountSubsInBackup, DiskInv, SuperInv, metadata, supers
  <1>3. CacheInv'
    BY DEF IInv, CountSubsInBackup, CacheInv, Live, metadata, supers
  <1>4. StackInv'
    BY DEF IInv, CountSubsInBackup, StackInv, Walking, metadata, supers
  <1>5. WalkInv'
    BY DEF IInv, CountSubsInBackup, WalkInv, StackInv, metadata, supers
  <1>6. EndInv'
    BY DEF IInv, CountSubsInBackup, EndInv, StackInv, metadata, supers
  <1>7. MoveInv'
    BY DEF IInv, CountSubsInBackup, MoveInv, metadata, supers
  <1>8. RoomInv'
    BY DEF IInv, CountSubsInBackup, RoomInv, metadata, supers
  <1>9. HangInv'
    BY DEF IInv, CountSubsInBackup, HangInv, metadata, supers
  <1> QED
    BY <1>1, <1>2, <1>3, <1>4, <1>5, <1>6, <1>7, <1>8, <1>9 DEF IInv

LEMMA OpenFailsStep ==
  ASSUME IInv, OpenFails
  PROVE  IInv'
  <1>1. SuperInv'
    BY SubsInt DEF IInv, OpenFails, SuperInv, Live, metadata, supers
  <1>2. DiskInv'
    BY DEF IInv, OpenFails, DiskInv, SuperInv, metadata, supers
  <1>3. CacheInv'
    BY DEF IInv, OpenFails, CacheInv, Live, metadata, supers
  <1>4. StackInv'
    BY DEF IInv, OpenFails, StackInv, Walking, metadata, supers
  <1>5. WalkInv'
    BY DEF IInv, OpenFails, WalkInv, StackInv, metadata, supers
  <1>6. EndInv'
    BY DEF IInv, OpenFails, EndInv, StackInv, metadata, supers
  <1>7. MoveInv'
    BY DEF IInv, OpenFails, MoveInv, metadata, supers
  <1>8. RoomInv'
    BY DEF IInv, OpenFails, RoomInv, metadata, supers
  <1>9. HangInv'
    BY DEF IInv, OpenFails, HangInv, metadata, supers
  <1> QED
    BY <1>1, <1>2, <1>3, <1>4, <1>5, <1>6, <1>7, <1>8, <1>9 DEF IInv

LEMMA CloseStep ==
  ASSUME IInv, Close
  PROVE  IInv'
  <1>a. /\ pc = "ended" /\ pc' = "closed" /\ disk' = disk /\ parts' = 0 /\ lastError' = FALSE /\ stopFlag' = FALSE
        /\ content' = content /\ main' = main /\ backup' = backup /\ present' = present /\ first' = first
        /\ stack' = stack /\ mv' = mv
    BY DEF Close, Forgotten, supers
  <1>1. SuperInv'
    BY <1>a DEF IInv, SuperInv, Live
  <1>2. DiskInv'
    BY <1>a DEF IInv, DiskInv
  <1>3. CacheInv'
    BY <1>a DEF CacheInv, Live
  <1>4. StackInv'
    BY <1>a DEF IInv, StackInv, Walking
  <1>5. WalkInv'
    BY <1>a DEF WalkInv
  <1>6. EndInv'
    BY <1>a DEF EndInv
  <1>7. MoveInv'
    BY <1>a DEF MoveInv
  <1>8. RoomInv'
    BY <1>a DEF RoomInv
  <1>9. HangInv'
    BY <1>a DEF HangInv
  <1> QED
    BY <1>1, <1>2, <1>3, <1>4, <1>5, <1>6, <1>7, <1>8, <1>9 DEF IInv

LEMMA StopStep ==
  ASSUME IInv, Stop
  PROVE  IInv'
  <1>1. SuperInv'
    BY SubsInt DEF IInv, Stop, SuperInv, Live, metadata, supers
  <1>2. DiskInv'
    BY DEF IInv, Stop, DiskInv, SuperInv, metadata, supers
  <1>3. CacheInv'
    BY DEF IInv, Stop, CacheInv, Live, metadata, supers
  <1>4. StackInv'
    BY DEF IInv, Stop, StackInv, Walking, metadata, supers
  <1>5. WalkInv'
    BY DEF IInv, Stop, WalkInv, StackInv, metadata, supers
  <1>6. EndInv'
    BY DEF IInv, Stop, EndInv, StackInv, metadata, supers
  <1>7. MoveInv'
    BY DEF IInv, Stop, MoveInv, metadata, supers
  <1>8. RoomInv'
    BY DEF IInv, Stop, RoomInv, metadata, supers
  <1>9. HangInv'
    BY DEF IInv, Stop, HangInv, metadata, supers
  <1> QED
    BY <1>1, <1>2, <1>3, <1>4, <1>5, <1>6, <1>7, <1>8, <1>9 DEF IInv

LEMMA SegmentMovedStep ==
  ASSUME IInv, SegmentMoved
  PROVE  IInv'
  <1>1. SuperInv'
    BY SubsInt DEF IInv, SegmentMoved, SuperInv, Live, metadata, supers
  <1>2. DiskInv'
    BY DEF IInv, SegmentMoved, DiskInv, SuperInv, metadata, supers
  <1>3. CacheInv'
    BY DEF IInv, SegmentMoved, CacheInv, Live, metadata, supers
  <1>4. StackInv'
    BY DEF IInv, SegmentMoved, StackInv, Walking, metadata, supers
  <1>5. WalkInv'
    BY DEF IInv, SegmentMoved, WalkInv, StackInv, metadata, supers
  <1>6. EndInv'
    BY DEF IInv, SegmentMoved, EndInv, StackInv, metadata, supers
  <1>7. MoveInv'
    BY DEF IInv, SegmentMoved, MoveInv, metadata, supers
  <1>8. RoomInv'
    BY DEF IInv, SegmentMoved, RoomInv, metadata, supers
  <1>9. HangInv'
    BY DEF IInv, SegmentMoved, HangInv, metadata, supers
  <1> QED
    BY <1>1, <1>2, <1>3, <1>4, <1>5, <1>6, <1>7, <1>8, <1>9 DEF IInv

LEMMA GiveUpStep ==
  ASSUME IInv, GiveUp
  PROVE  IInv'
  <1>1. SuperInv'
    BY SubsInt DEF IInv, GiveUp, SuperInv, Live, metadata, supers
  <1>2. DiskInv'
    BY DEF IInv, GiveUp, DiskInv, SuperInv, metadata, supers
  <1>3. CacheInv'
    BY DEF IInv, GiveUp, CacheInv, Live, metadata, supers
  <1>4. StackInv'
    BY DEF IInv, GiveUp, StackInv, Walking, metadata, supers
  <1>5. WalkInv'
    BY DEF IInv, GiveUp, WalkInv, StackInv, metadata, supers
  <1>6. EndInv'
    BY DEF IInv, GiveUp, EndInv, StackInv, metadata, supers
  <1>7. MoveInv'
    BY DEF IInv, GiveUp, MoveInv, metadata, supers
  <1>8. RoomInv'
    BY DEF IInv, GiveUp, RoomInv, metadata, supers
  <1>9. HangInv'
    BY DEF IInv, GiveUp, HangInv, metadata, supers
  <1> QED
    BY <1>1, <1>2, <1>3, <1>4, <1>5, <1>6, <1>7, <1>8, <1>9 DEF IInv

LEMMA UpdateBackupStep ==
  ASSUME IInv, UpdateBackup
  PROVE  IInv'
  <1>a. pc = "backup" /\ pc' = "main" /\ backup' = main - parts
    BY DEF UpdateBackup
  <1>1. SuperInv'
    <2>1. main \in 0 .. NumSubs /\ parts \in Nat /\ parts <= main /\ main <= present /\ present \in 0 .. NumSubs
      BY <1>a, SubsInt DEF IInv, SuperInv, Live
    <2>2. main - parts \in Nat /\ main - parts <= present
      BY <2>1, SubsInt
    <2>3. main' = main /\ present' = present /\ parts' = parts
      BY DEF UpdateBackup
    <2> QED
      BY <1>a, <2>1, <2>2, <2>3, SubsInt DEF SuperInv, Live
  <1>2. DiskInv'
    BY DEF IInv, UpdateBackup, DiskInv, SuperInv, metadata, supers
  <1>3. CacheInv'
    BY DEF IInv, UpdateBackup, CacheInv, Live, metadata, supers
  <1>4. StackInv'
    BY DEF IInv, UpdateBackup, StackInv, Walking, metadata, supers
  <1>5. WalkInv'
    BY DEF IInv, UpdateBackup, WalkInv, StackInv, metadata, supers
  <1>6. EndInv'
    BY DEF IInv, UpdateBackup, EndInv, StackInv, metadata, supers
  <1>7. MoveInv'
    BY DEF IInv, UpdateBackup, MoveInv, metadata, supers
  <1>8. RoomInv'
    BY DEF IInv, UpdateBackup, RoomInv, metadata, supers
  <1>9. HangInv'
    BY DEF IInv, UpdateBackup, HangInv, metadata, supers
  <1> QED
    BY <1>1, <1>2, <1>3, <1>4, <1>5, <1>6, <1>7, <1>8, <1>9 DEF IInv

LEMMA UpdateMainStep ==
  ASSUME IInv, UpdateMain
  PROVE  IInv'
  <1>a. pc = "main" /\ pc' = "delete" /\ main' = main - parts
    BY DEF UpdateMain
  <1>1. SuperInv'
    <2>1. main \in 0 .. NumSubs /\ parts \in Nat /\ parts <= main /\ main <= present /\ present \in 0 .. NumSubs
          /\ backup = main - parts /\ backup <= present /\ backup \in Nat
      BY <1>a, SubsInt DEF IInv, SuperInv, Live
    <2>2. /\ main - parts \in 0 .. NumSubs /\ main - parts <= present
          /\ (main - parts) + parts <= present /\ backup + parts <= present
      BY <2>1, SubsInt
    <2>3. backup' = backup /\ present' = present /\ parts' = parts
      BY DEF UpdateMain
    <2> QED
      BY <1>a, <2>1, <2>2, <2>3, SubsInt DEF SuperInv, Live
  <1>2. DiskInv'
    <2>1. Emptied(first, fs, main - parts)
      BY <1>a DEF IInv, EndInv
    <2>2. \A x \in SeenDirs(first) : \A z \in Owned(first, x) : z[1] <= main - parts
      BY <2>1 DEF Emptied
    <2>3. first' = first /\ disk' = disk /\ content' = content
      BY DEF UpdateMain, metadata
    <2> QED
      BY <1>a, <2>2, <2>3 DEF IInv, DiskInv
  <1>3. CacheInv'
    BY DEF IInv, UpdateMain, CacheInv, Live, metadata, supers
  <1>4. StackInv'
    BY DEF IInv, UpdateMain, StackInv, Walking, metadata, supers
  <1>5. WalkInv'
    BY DEF IInv, UpdateMain, WalkInv, StackInv, metadata, supers
  <1>6. EndInv'
    BY DEF IInv, UpdateMain, EndInv, StackInv, metadata, supers
  <1>7. MoveInv'
    BY DEF IInv, UpdateMain, MoveInv, metadata, supers
  <1>8. RoomInv'
    BY DEF IInv, UpdateMain, RoomInv, metadata, supers
  <1>9. HangInv'
    BY DEF IInv, UpdateMain, HangInv, metadata, supers
  <1> QED
    BY <1>1, <1>2, <1>3, <1>4, <1>5, <1>6, <1>7, <1>8, <1>9 DEF IInv

LEMMA DeleteSubStep ==
  ASSUME IInv, DeleteSub
  PROVE  IInv'
  <1>a. pc = "delete" /\ pc' = pc /\ parts > 0 /\ parts' = parts - 1 /\ present' \in {present, present - 1}
    BY DEF DeleteSub
  <1>1. SuperInv'
    <2>1. /\ main \in 0 .. NumSubs /\ parts \in Nat /\ main <= present /\ present \in 0 .. NumSubs /\ backup \in Nat
          /\ main + parts <= present /\ backup + parts <= present
      BY <1>a, SubsInt DEF IInv, SuperInv
    <2>2. /\ present' \in 0 .. NumSubs /\ main <= present' /\ backup <= present' /\ parts' \in Nat
          /\ main + parts' <= present' /\ backup + parts' <= present'
      BY <1>a, <2>1, SubsInt
    <2>3. main' = main /\ backup' = backup
      BY DEF DeleteSub
    <2> QED
      BY <1>a, <2>1, <2>2, <2>3, SubsInt DEF SuperInv, Live
  <1>2. DiskInv'
    BY DEF IInv, DeleteSub, DiskInv, SuperInv, metadata, supers
  <1>3. CacheInv'
    BY DEF IInv, DeleteSub, CacheInv, Live, metadata, supers
  <1>4. StackInv'
    BY DEF IInv, DeleteSub, StackInv, Walking, metadata, supers
  <1>5. WalkInv'
    BY DEF IInv, DeleteSub, WalkInv, StackInv, metadata, supers
  <1>6. EndInv'
    BY DEF IInv, DeleteSub, EndInv, StackInv, metadata, supers
  <1>7. MoveInv'
    BY DEF IInv, DeleteSub, MoveInv, metadata, supers
  <1>8. RoomInv'
    BY DEF IInv, DeleteSub, RoomInv, metadata, supers
  <1>9. HangInv'
    BY DEF IInv, DeleteSub, HangInv, metadata, supers
  <1> QED
    BY <1>1, <1>2, <1>3, <1>4, <1>5, <1>6, <1>7, <1>8, <1>9 DEF IInv

LEMMA SubsDeletedStep ==
  ASSUME IInv, SubsDeleted
  PROVE  IInv'
  <1>1. SuperInv'
    BY SubsInt DEF IInv, SubsDeleted, SuperInv, Live, metadata, supers
  <1>2. DiskInv'
    BY DEF IInv, SubsDeleted, DiskInv, SuperInv, metadata, supers
  <1>3. CacheInv'
    BY DEF IInv, SubsDeleted, CacheInv, Live, metadata, supers
  <1>4. StackInv'
    BY DEF IInv, SubsDeleted, StackInv, Walking, metadata, supers
  <1>5. WalkInv'
    BY DEF IInv, SubsDeleted, WalkInv, StackInv, metadata, supers
  <1>6. EndInv'
    BY DEF IInv, SubsDeleted, EndInv, StackInv, metadata, supers
  <1>7. MoveInv'
    BY DEF IInv, SubsDeleted, MoveInv, metadata, supers
  <1>8. RoomInv'
    BY DEF IInv, SubsDeleted, RoomInv, metadata, supers
  <1>9. HangInv'
    BY DEF IInv, SubsDeleted, HangInv, metadata, supers
  <1> QED
    BY <1>1, <1>2, <1>3, <1>4, <1>5, <1>6, <1>7, <1>8, <1>9 DEF IInv

\* What stays has more free zones than there are in what goes.
LEMMA StartStep ==
  ASSUME IInv, Start
  PROVE  IInv'
  <1> DEFINE n == CalculateSpaceToRemove(vol.free, main)
  <1>a. pc = "open" /\ parts' = n /\ pc' = IF n = 0 THEN "ended" ELSE "root"
    BY DEF Start
  <1>b. main \in Subs /\ GoodVolume(vol) /\ FreeExact(vol) /\ stack = <<>> /\ lastError = FALSE
    BY <1>a DEF IInv, SuperInv, CacheInv, Live, GoodCache, RoomInv, StackInv
  <1>c. /\ n \in 0 .. main
        /\ n > 0 => vol.free[0] + SumTo(vol.free, main - n) > SumTo(Size, main) - SumTo(Size, main - n)
    <2>1. \A s \in Subs : vol.free[s] \in Int
      BY <1>b DEF GoodVolume
    <2> QED
      BY <1>b, <2>1, SpaceFacts
  <1>d. main' = main /\ vol' = vol
    BY DEF Start, metadata, supers
  <1> HIDE DEF n
  <1>1. SuperInv'
    <2>1. main \in 0 .. NumSubs /\ n \in Nat /\ n <= main
      BY <1>b, <1>c, SubsInt
    <2>2. backup' = backup /\ present' = present
      BY DEF Start, supers
    <2> QED
      BY <1>a, <1>d, <2>1, <2>2, SubsInt DEF IInv, SuperInv, Live
  <1>2. DiskInv'
    BY DEF IInv, Start, DiskInv, SuperInv, metadata, supers
  <1>3. CacheInv'
    BY DEF IInv, Start, CacheInv, Live, metadata, supers
  <1>4. StackInv'
    BY DEF IInv, Start, StackInv, Walking, metadata, supers
  <1>5. WalkInv'
    BY DEF IInv, Start, WalkInv, StackInv, metadata, supers
  <1>6. EndInv'
    BY DEF IInv, Start, EndInv, StackInv, metadata, supers
  <1>7. MoveInv'
    BY DEF IInv, Start, MoveInv, metadata, supers
  <1>8. RoomInv'
    <2>1. CASE n = 0
      BY <2>1, <1>a DEF RoomInv
    <2>2. CASE n # 0
      <3>1. Roomy(vol, main - n, Between(main - n, main))
        BY <2>2, <1>b, <1>c, RoomAtStart
      <3> QED
        BY <2>2, <3>1, <1>a, <1>d DEF RoomInv
    <2> QED
      BY <2>1, <2>2
  <1>9. HangInv'
    BY DEF IInv, Start, HangInv, metadata, supers
  <1> QED
    BY <1>1, <1>2, <1>3, <1>4, <1>5, <1>6, <1>7, <1>8, <1>9 DEF IInv

-----------------------------------------------------------------------------
(* One step: the walk.                                                     *)

LEMMA WalkedBegins ==
  ASSUME NEW o, Root \in SeenDirs(o), NEW d, NEW b, Fits(d, b, Root)
  PROVE  <<Beginning(Root)>> \in Seq(Frames(o)) /\ Walked(o, d, b, <<Beginning(Root)>>)
  <1> DEFINE e  == Beginning(Root)
             st == <<e>>
  <1>1. e \in Frames(o) /\ e.dir = Root /\ e.j = 1
    BY FrameFacts
  <1> HIDE DEF e
  <1>2. st \in Seq(Frames(o)) /\ Len(st) = 1 /\ st[1] = e /\ st # <<>>
    BY <1>1
  <1> HIDE DEF st
  <1>3. ASSUME NEW l \in 1 .. Len(st), NEW i \in 1 .. st[l].j - 1 PROVE FALSE
    <2>1. l = 1
      BY <1>2
    <2>2. i \in 1 .. 1 - 1
      BY <2>1, <1>1, <1>2
    <2> QED
      BY <2>2
  <1>4. Walked(o, d, b, st)
    BY <1>1, <1>2, <1>3 DEF Walked
  <1> QED
    BY <1>2, <1>4 DEF st, e

\* An entry of the directory on top: its inode, and whether it is a directory.
LEMMA EntryFacts ==
  ASSUME NEW o, WellFormed(o), NEW d, Tree(o, d), NEW st \in Seq(Frames(o)), AtEntry(d, st)
  PROVE  /\ st[Len(st)].dir \in SeenDirs(o) /\ st[Len(st)].j \in 1 .. Len(d.dir[st[Len(st)].dir][1])
         /\ Entry(d, st) \in DOMAIN d.inode /\ GoodInode(d.inode[Entry(d, st)])
         /\ d.inode[Entry(d, st)].mode = "dir" <=> Entry(d, st) \in SeenDirs(o)
  <1> DEFINE f == st[Len(st)]
             D == f.dir
             y == Entry(d, st)
  <1>1. st # <<>> /\ f.j <= Len(d.dir[D][1]) /\ y = d.dir[D][1][f.j]
    BY DEF AtEntry, Entry
  <1>2. f \in Frames(o)
    BY <1>1
  <1>3. f.j \in Nat /\ f.j >= 1 /\ D \in SeenDirs(o)
    BY <1>2, FrameFacts
  <1>4. D \in DOMAIN o.dir
    BY <1>3, WellFormedFacts, SeenFacts
  <1>5. FineDir(o, d, D)
    BY <1>4, SectorFacts DEF Tree
  <1> HIDE DEF f
  <1>6. Len(d.dir[D][1]) \in Nat
    BY <1>5 DEF FineDir
  <1>7. f.j \in 1 .. Len(d.dir[D][1])
    BY <1>1, <1>3, <1>6
  <1>8. y \in FirstSector(d, D) /\ y \in DOMAIN d.inode
    BY <1>1, <1>5, <1>7 DEF FineDir
  <1>9. GoodInode(d.inode[y])
    BY <1>8 DEF Tree, OthersApart
  <1>10. ASSUME y \in SeenDirs(o) PROVE d.inode[y].mode = "dir"
    <2>1. d.inode[y] = o.inode[y]
      BY <1>10 DEF Tree, GuardedStay, Guarded
    <2>2. y \in DOMAIN o.dir /\ y \in DOMAIN o.inode
      BY <1>10, WellFormedFacts, SeenFacts
    <2>3. o.inode[y].mode = IF y \in DOMAIN o.dir THEN "dir" ELSE "file"
      BY <2>2, WellFormedFacts
    <2> QED
      BY <2>1, <2>2, <2>3
  <1>11. ASSUME d.inode[y].mode = "dir" PROVE y \in SeenDirs(o)
    <2>1. DirsAreSeen(o, d)
      BY DEF Tree
    <2> QED
      BY <2>1, <1>3, <1>8, <1>11 DEF DirsAreSeen
  <1> QED
    BY <1>3, <1>7, <1>8, <1>9, <1>10, <1>11 DEF f

LEMMA TopFacts ==
  /\ stack # <<>> /\ Top.j <= Len(Seen) <=> AtEntry(fs, stack)
  /\ This = Entry(fs, stack) /\ Onward = NextEntry(stack) /\ Top = stack[Len(stack)] /\ Seen = fs.dir[Top.dir][1]
  /\ \A x : HasSpaceToFree(x) <=> LiesPast(x, main - parts)
  BY DEF Top, Last, Seen, This, AtEntry, Entry, Onward, NextEntry, HasSpaceToFree, LiesPast

\* What the cache holds can be written.
LEMMA MetaGood ==
  ASSUME GoodCache(first, fs, vol)
  PROVE  GoodDisk(first, Meta)
  <1> DEFINE e == [inode |-> fs.inode, dir |-> fs.dir, used |-> vol.used]
  <1>1. Meta = e /\ e.inode = fs.inode /\ e.dir = fs.dir /\ e.used = vol.used
        /\ e = [inode |-> e.inode, dir |-> e.dir, used |-> e.used]
    BY DEF Meta
  <1> HIDE DEF e
  <1>2. Tree(first, e)
    BY <1>1, TreeSame DEF GoodCache
  <1>3. GoodBits(e.used)
    BY <1>1 DEF GoodCache, GoodVolume, GoodBits
  <1>4. UsedOf(e) = UsedOf(vol)
    BY <1>1 DEF UsedOf
  <1>5. GoodDisk(first, e)
    BY <1>1, <1>2, <1>3, <1>4 DEF GoodDisk, GoodCache
  <1> QED
    BY <1>1, <1>5

LEMMA CheckRootStep ==
  ASSUME IInv, CheckRoot
  PROVE  IInv'
  <1> DEFINE b == main - parts
  <1>a. pc = "root" /\ stack = <<>> /\ mv' = mv /\ stopFlag' = stopFlag
    BY DEF CheckRoot, IInv, StackInv
  <1>b. \/ pc' = "hung" /\ stack' = stack
        \/ pc' = "walk" /\ stack' = <<Beginning(Root)>> /\ ~LiesPast(fs.inode[Root], b)
    BY TopFacts DEF CheckRoot, Beginning
  <1>c. fs' = fs /\ vol' = vol /\ disk' = disk /\ main' = main /\ parts' = parts /\ first' = first
    BY DEF CheckRoot, metadata, supers
  <1>d. WellFormed(first) /\ Tree(first, fs) /\ main \in Subs /\ parts \in Nat
    BY <1>a, FirstFacts DEF IInv, CacheInv, Live, GoodCache, SuperInv
  <1>e. pc' = "walk" => stack' \in Seq(Frames(first)) /\ Walked(first, fs, b, stack')
    <2> SUFFICES ASSUME pc' = "walk" PROVE stack' \in Seq(Frames(first)) /\ Walked(first, fs, b, stack')
      OBVIOUS
    <2>1. Root \in SeenDirs(first)
      BY <1>d, WellFormedFacts, SeenFacts
    <2>2. GoodInode(fs.inode[Root])
      BY <1>d, <2>1 DEF Tree, GuardedStay, OthersApart, Guarded
    <2>3. stack' = <<Beginning(Root)>> /\ ~LiesPast(fs.inode[Root], b)
      BY <1>b
    <2>4. b \in Int
      BY <1>d, SubsInt
    <2> HIDE DEF b
    <2>5. Fits(fs, b, Root)
      BY <2>2, <2>3, <2>4, FitsWhenNotMoved
    <2> QED
      BY <2>1, <2>3, <2>5, WalkedBegins
  <1>f. lastError = FALSE /\ lastError' = lastError
    BY <1>a DEF IInv, StackInv, CheckRoot
  <1>1. SuperInv'
    BY SubsInt DEF IInv, CheckRoot, SuperInv, Live, metadata, supers
  <1>2. DiskInv'
    BY DEF IInv, CheckRoot, DiskInv, SuperInv, metadata, supers
  <1>3. CacheInv'
    BY DEF IInv, CheckRoot, CacheInv, Live, metadata, supers
  <1>4. StackInv'
    BY <1>a, <1>b, <1>c, <1>e, <1>f DEF IInv, StackInv, Walking
  <1>5. WalkInv'
    BY <1>b, <1>c, <1>e DEF WalkInv
  <1>6. EndInv'
    BY DEF IInv, CheckRoot, EndInv, StackInv, metadata, supers
  <1>7. MoveInv'
    BY DEF IInv, CheckRoot, MoveInv, metadata, supers
  <1>8. RoomInv'
    BY <1>a, <1>b, <1>c DEF IInv, RoomInv
  <1>9. HangInv'
    BY <1>a, <1>b DEF HangInv
  <1> QED
    BY <1>1, <1>2, <1>3, <1>4, <1>5, <1>6, <1>7, <1>8, <1>9 DEF IInv

LEMMA CheckFileStep ==
  ASSUME IInv, CheckFile
  PROVE  IInv'
  <1> DEFINE b == main - parts
             y == Entry(fs, stack)
  <1>a. /\ pc = "walk" /\ ~stopFlag /\ stopFlag' = stopFlag /\ stack # <<>> /\ AtEntry(fs, stack)
        /\ fs' = fs /\ vol' = vol /\ disk' = disk /\ main' = main /\ backup' = backup /\ present' = present
        /\ parts' = parts /\ first' = first /\ content' = content /\ lastError' = lastError
    BY TopFacts DEF CheckFile, metadata, supers
  <1>b. /\ WellFormed(first) /\ Tree(first, fs) /\ main \in Subs /\ parts \in Nat /\ GoodCache(first, fs, vol)
        /\ stack \in Seq(Frames(first)) /\ Walked(first, fs, b, stack) /\ lastError = FALSE
        /\ mv = [old |-> mv.old, new |-> mv.new, data |-> mv.data, n |-> mv.n, i |-> mv.i, rest |-> mv.rest, wrapped |-> mv.wrapped]
    BY <1>a, FirstFacts DEF IInv, CacheInv, Live, GoodCache, SuperInv, StackInv, WalkInv, Walking
  <1>c. /\ y \in DOMAIN fs.inode /\ GoodInode(fs.inode[y])
        /\ fs.inode[y].mode = "dir" <=> y \in SeenDirs(first)
    BY <1>a, <1>b, EntryFacts
  <1> DEFINE next == IF y \in SeenDirs(first) THEN Append(NextEntry(stack), Beginning(y)) ELSE NextEntry(stack)
  <1>d. \/ pc' = "failed" /\ stack' = stack /\ mv' = mv
        \/ pc' = "hung" /\ stack' = stack /\ mv' = mv /\ fs.inode[y].mode = "dir"
        \/ /\ pc' = "move" /\ stack' = stack /\ mv' = [NotMoving EXCEPT !.old = y]
           /\ LiesPast(fs.inode[y], b) /\ fs.inode[y].mode # "dir"
        \/ pc' = pc /\ stack' = next /\ mv' = mv /\ ~LiesPast(fs.inode[y], b)
    <2>1. This = y /\ Onward = NextEntry(stack) /\ \A x : HasSpaceToFree(x) <=> LiesPast(x, b)
      BY TopFacts
    <2> HIDE DEF y, b
    <2>2. \/ pc' = "failed" /\ stack' = stack /\ mv' = mv
          \/ pc' = "hung" /\ stack' = stack /\ mv' = mv /\ fs.inode[y].mode = "dir"
          \/ /\ pc' = "move" /\ stack' = stack /\ mv' = [NotMoving EXCEPT !.old = y]
             /\ LiesPast(fs.inode[y], b) /\ fs.inode[y].mode # "dir"
          \/ /\ pc' = pc /\ mv' = mv /\ ~LiesPast(fs.inode[y], b)
             /\ stack' = IF fs.inode[y].mode = "dir" THEN Append(NextEntry(stack), [dir |-> y, j |-> 1]) ELSE NextEntry(stack)
      BY <2>1 DEF CheckFile
    <2>3. Beginning(y) = [dir |-> y, j |-> 1]
      BY DEF Beginning
    <2> QED
      BY <2>2, <2>3, <1>c
  <1>e. pc' = "walk" => stack' \in Seq(Frames(first)) /\ Walked(first, fs, b, stack')
    <2> SUFFICES ASSUME pc' = "walk" PROVE stack' \in Seq(Frames(first)) /\ Walked(first, fs, b, stack')
      OBVIOUS
    <2>1. stack' = next /\ ~LiesPast(fs.inode[y], b)
      BY <1>d
    <2>2. b \in Int
      BY <1>b, SubsInt
    <2>3. y = fs.dir[stack[Len(stack)].dir][1][stack[Len(stack)].j]
      BY DEF Entry
    <2> HIDE DEF b, y
    <2>4. Fits(fs, b, y)
      BY <2>1, <2>2, <1>c, FitsWhenNotMoved
    <2> HIDE DEF next
    <2>5. Fits(fs, b, fs.dir[stack[Len(stack)].dir][1][stack[Len(stack)].j])
      BY <2>3, <2>4
    <2>6. next \in Seq(Frames(first)) /\ Walked(first, fs, b, next)
      BY <1>a, <1>b, <2>3, <2>5, WalkedOn DEF next
    <2> QED
      BY <2>1, <2>6
  <1>f. /\ pc' \in {"walk", "failed", "hung", "move"}
        /\ pc' # "walk" => stack' = stack
        /\ pc' # "move" => mv' = mv
        /\ pc' = "move" => mv' = [NotMoving EXCEPT !.old = y] /\ LiesPast(fs.inode[y], b) /\ fs.inode[y].mode # "dir"
        /\ pc' = "hung" => fs.inode[y].mode = "dir"
    BY <1>a, <1>d
  <1>g. mv' = [old |-> mv'.old, new |-> mv'.new, data |-> mv'.data, n |-> mv'.n, i |-> mv'.i, rest |-> mv'.rest,
               wrapped |-> mv'.wrapped]
    BY <1>b, <1>f DEF NotMoving
  <1> HIDE DEF b, y, next
  <1>1. SuperInv'
    BY <1>a, <1>f DEF IInv, SuperInv, Live
  <1>2. DiskInv'
    BY <1>a DEF IInv, DiskInv
  <1>3. CacheInv'
    BY <1>a, <1>b DEF CacheInv
  <1>4. StackInv'
    <2>1. stack' \in Seq(Frames(first))
      BY <1>b, <1>e, <1>f
    <2>2. lastError \in BOOLEAN /\ stopFlag \in BOOLEAN
      BY DEF IInv, StackInv
    <2> QED
      BY <1>a, <1>b, <1>f, <1>g, <2>1, <2>2 DEF StackInv, Walking
  <1>5. WalkInv'
    <2>1. pc' = "walk" => Walked(first, fs, b, stack')
      BY <1>e
    <2> QED
      BY <1>a, <2>1 DEF WalkInv, b
  <1>6. EndInv'
    BY <1>f DEF EndInv
  <1>7. MoveInv'
    <2> SUFFICES ASSUME pc' = "move" PROVE Moves(fs, stack, b, mv') /\ mv'.rest = Segment(0, 0, 0) /\ ~mv'.wrapped
      BY <1>a, <1>f DEF MoveInv, b
    <2>1. mv'.old = y /\ mv'.rest = Segment(0, 0, 0) /\ ~mv'.wrapped
      BY <1>f DEF NotMoving
    <2>2. mv'.old = Entry(fs, stack) /\ LiesPast(fs.inode[mv'.old], b) /\ fs.inode[mv'.old].mode # "dir"
      BY <1>f, <2>1 DEF y
    <2> QED
      BY <1>a, <2>1, <2>2 DEF Moves
  <1>8. RoomInv'
    BY <1>a, <1>f DEF IInv, RoomInv
  <1>9. HangInv'
    BY <1>a, <1>f DEF HangInv, y
  <1> QED
    BY <1>1, <1>2, <1>3, <1>4, <1>5, <1>6, <1>7, <1>8, <1>9 DEF IInv

LEMMA LeaveDirectoryStep ==
  ASSUME IInv, LeaveDirectory
  PROVE  IInv'
  <1> DEFINE b == main - parts
  <1>a. /\ pc = "walk" /\ pc' = pc /\ stopFlag' = stopFlag /\ stack # <<>> /\ stack' = Front(stack) /\ mv' = mv
        /\ fs' = fs /\ vol' = vol /\ disk' = disk /\ main' = main /\ backup' = backup /\ present' = present
        /\ parts' = parts /\ first' = first /\ content' = content /\ lastError' = lastError
        /\ stopFlag \/ Top.j > Len(Seen)
    BY DEF LeaveDirectory, metadata, supers
  <1>b. /\ WellFormed(first) /\ Tree(first, fs) /\ stack \in Seq(Frames(first))
        /\ ~stopFlag => Walked(first, fs, b, stack)
    BY <1>a, FirstFacts DEF IInv, CacheInv, Live, GoodCache, StackInv, WalkInv, Walking
  <1>c. stack' \in Seq(Frames(first))
    BY <1>a, <1>b, FrontFacts
  <1>d. ~stopFlag => Walked(first, fs, b, stack')
    <2> SUFFICES ASSUME ~stopFlag PROVE Walked(first, fs, b, Front(stack))
      BY <1>a
    <2>1. stack[Len(stack)].j > Len(fs.dir[stack[Len(stack)].dir][1])
      BY <1>a, TopFacts
    <2> HIDE DEF b
    <2> QED
      BY <1>a, <1>b, <2>1, WalkedUp
  <1> HIDE DEF b
  <1>1. SuperInv'
    BY SubsInt DEF IInv, LeaveDirectory, SuperInv, Live, metadata, supers
  <1>2. DiskInv'
    BY DEF IInv, LeaveDirectory, DiskInv, SuperInv, metadata, supers
  <1>3. CacheInv'
    BY DEF IInv, LeaveDirectory, CacheInv, Live, metadata, supers
  <1>4. StackInv'
    BY <1>a, <1>c DEF IInv, StackInv, Walking
  <1>5. WalkInv'
    BY <1>a, <1>d DEF WalkInv, b
  <1>6. EndInv'
    BY DEF IInv, LeaveDirectory, EndInv, StackInv, metadata, supers
  <1>7. MoveInv'
    BY DEF IInv, LeaveDirectory, MoveInv, metadata, supers
  <1>8. RoomInv'
    BY DEF IInv, LeaveDirectory, RoomInv, metadata, supers
  <1>9. HangInv'
    BY DEF IInv, LeaveDirectory, HangInv, metadata, supers
  <1> QED
    BY <1>1, <1>2, <1>3, <1>4, <1>5, <1>6, <1>7, <1>8, <1>9 DEF IInv

LEMMA ReadFailsStep ==
  ASSUME IInv, ReadFails
  PROVE  IInv'
  <1>a. /\ (pc = "root" /\ pc' = "ended") \/ (pc = "walk" /\ pc' = "failed")
        /\ lastError' = TRUE /\ fs' = fs /\ vol' = vol /\ disk' = disk /\ content' = content /\ main' = main
        /\ backup' = backup /\ present' = present /\ first' = first /\ parts' = parts /\ stack' = stack /\ mv' = mv
        /\ stopFlag' = stopFlag
    BY DEF ReadFails, metadata, supers
  <1>1. SuperInv'
    BY <1>a DEF IInv, SuperInv, Live
  <1>2. DiskInv'
    BY <1>a DEF IInv, DiskInv
  <1>3. CacheInv'
    BY <1>a DEF IInv, CacheInv, Live
  <1>4. StackInv'
    BY <1>a DEF IInv, StackInv, Walking
  <1>5. WalkInv'
    BY <1>a DEF WalkInv
  <1>6. EndInv'
    BY <1>a DEF EndInv
  <1>7. MoveInv'
    BY <1>a DEF MoveInv
  <1>8. RoomInv'
    BY <1>a DEF RoomInv
  <1>9. HangInv'
    BY <1>a DEF HangInv
  <1> QED
    BY <1>1, <1>2, <1>3, <1>4, <1>5, <1>6, <1>7, <1>8, <1>9 DEF IInv

LEMMA WriteBackStep ==
  ASSUME IInv, WriteBack
  PROVE  IInv'
  <1>a. Walking /\ disk' = Meta /\ pc' = pc
    BY DEF WriteBack
  <1>b. GoodDisk(first, Meta)
    BY <1>a, MetaGood DEF IInv, CacheInv, Live, Walking
  <1>c. first' = first /\ content' = content /\ main' = main
    BY DEF WriteBack, supers
  <1>1. SuperInv'
    BY SubsInt DEF IInv, WriteBack, SuperInv, Live, metadata, supers
  <1>2. DiskInv'
    BY <1>a, <1>b, <1>c DEF IInv, DiskInv
  <1>3. CacheInv'
    BY DEF IInv, WriteBack, CacheInv, Live, metadata, supers
  <1>4. StackInv'
    BY DEF IInv, WriteBack, StackInv, Walking, metadata, supers
  <1>5. WalkInv'
    BY DEF IInv, WriteBack, WalkInv, StackInv, metadata, supers
  <1>6. EndInv'
    BY <1>a DEF EndInv, Walking
  <1>7. MoveInv'
    BY DEF IInv, WriteBack, MoveInv, metadata, supers
  <1>8. RoomInv'
    BY DEF IInv, WriteBack, RoomInv, metadata, supers
  <1>9. HangInv'
    BY DEF IInv, WriteBack, HangInv, metadata, supers
  <1> QED
    BY <1>1, <1>2, <1>3, <1>4, <1>5, <1>6, <1>7, <1>8, <1>9 DEF IInv

\* Nothing is in what is removed when the walk is over and was not stopped.
LEMMA FlushStep ==
  ASSUME IInv, Flush
  PROVE  IInv'
  <1> DEFINE b == main - parts
  <1>a. /\ pc = "failed" \/ (pc = "walk" /\ stack = <<>>)
        /\ disk' = (IF lastError THEN disk ELSE Meta)
        /\ pc' = (IF pc = "failed" \/ stopFlag THEN "ended" ELSE "backup")
        /\ stack' = <<>> /\ mv' = NotMoving /\ stopFlag' = stopFlag
        /\ fs' = fs /\ vol' = vol /\ main' = main /\ backup' = backup /\ present' = present
        /\ parts' = parts /\ first' = first /\ content' = content /\ lastError' = lastError
    BY DEF Flush, Written, supers
  <1>b. /\ WellFormed(first) /\ Tree(first, fs) /\ GoodDisk(first, Meta) /\ GoodDisk(first, disk)
        /\ GoodCache(first, fs, vol)
    BY <1>a, FirstFacts, MetaGood DEF IInv, CacheInv, Live, GoodCache, DiskInv
  <1>c. pc' = "backup" => /\ disk'.inode = fs.inode /\ disk'.dir = fs.dir
                          /\ Fits(fs, b, Root) /\ Emptied(first, fs, b) /\ lastError = FALSE
    <2> SUFFICES ASSUME pc = "walk", stack = <<>>, ~stopFlag
                 PROVE  /\ disk'.inode = fs.inode /\ disk'.dir = fs.dir
                        /\ Fits(fs, b, Root) /\ Emptied(first, fs, b) /\ lastError = FALSE
      BY <1>a
    <2>1. lastError = FALSE
      BY DEF IInv, StackInv, Walking
    <2>2. disk'.inode = fs.inode /\ disk'.dir = fs.dir
      BY <2>1, <1>a DEF Meta
    <2>3. Walked(first, fs, b, stack)
      BY DEF IInv, WalkInv
    <2> HIDE DEF b
    <2>4. Fits(fs, b, Root) /\ Root \in Done(first, fs, b)
      BY <2>3 DEF Walked
    <2>5. Emptied(first, fs, b)
      BY <1>b, <2>4, AllDone DEF Emptied
    <2> QED
      BY <2>1, <2>2, <2>4, <2>5
  <1> HIDE DEF b
  <1>1. SuperInv'
    BY <1>a, SubsInt DEF IInv, SuperInv, Live
  <1>2. DiskInv'
    BY <1>a, <1>b DEF IInv, DiskInv
  <1>3. CacheInv'
    BY <1>a, <1>b DEF CacheInv
  <1>4. StackInv'
    BY <1>a, <1>c DEF IInv, StackInv, Walking, NotMoving
  <1>5. WalkInv'
    BY <1>a DEF WalkInv
  <1>6. EndInv'
    BY <1>a, <1>c DEF EndInv, b
  <1>7. MoveInv'
    BY <1>a DEF MoveInv
  <1>8. RoomInv'
    BY <1>a DEF RoomInv
  <1>9. HangInv'
    BY <1>a DEF HangInv
  <1> QED
    BY <1>1, <1>2, <1>3, <1>4, <1>5, <1>6, <1>7, <1>8, <1>9 DEF IInv

LEMMA CrashStep ==
  ASSUME IInv, Crash
  PROVE  IInv'
  <1>a. /\ pc' = "closed" /\ stack' = <<>> /\ mv' = NotMoving /\ parts' = 0 /\ stopFlag' = FALSE
        /\ main' = main /\ backup' = backup /\ present' = present
        /\ first' = first /\ content' = content /\ lastError' = FALSE
    BY DEF Crash, Forgotten, supers
  <1>b. GoodDisk(first, disk)'
    <2>1. disk' = disk \/ (disk' = Meta /\ (pc = "failed" \/ pc = "walk"))
      BY DEF Crash
    <2>2. CASE disk' = disk
      BY <2>2, <1>a DEF IInv, DiskInv
    <2>3. CASE disk' = Meta /\ (pc = "failed" \/ pc = "walk")
      <3>1. GoodDisk(first, Meta)
        BY <2>3, MetaGood DEF IInv, CacheInv, Live
      <3> QED
        BY <2>3, <3>1, <1>a
    <2> QED
      BY <2>1, <2>2, <2>3
  <1>1. SuperInv'
    BY <1>a DEF IInv, SuperInv, Live
  <1>2. DiskInv'
    BY <1>a, <1>b DEF IInv, DiskInv
  <1>3. CacheInv'
    BY <1>a DEF CacheInv, Live
  <1>4. StackInv'
    BY <1>a DEF IInv, StackInv, Walking, NotMoving
  <1>5. WalkInv'
    BY <1>a DEF WalkInv
  <1>6. EndInv'
    BY <1>a DEF EndInv
  <1>7. MoveInv'
    BY <1>a DEF MoveInv
  <1>8. RoomInv'
    BY <1>a DEF RoomInv
  <1>9. HangInv'
    BY <1>a DEF HangInv
  <1> QED
    BY <1>1, <1>2, <1>3, <1>4, <1>5, <1>6, <1>7, <1>8, <1>9 DEF IInv

-----------------------------------------------------------------------------
(* Room for what is moved.                                                 *)

\* The segments of an inode as it was at first.
LEMMA PartsOf ==
  ASSUME NEW o, WellFormed(o), NEW x \in DOMAIN o.inode
  PROVE  LET y == o.inode[x]
         IN /\ y.n \in Nat /\ 1 \in 1 .. y.n /\ x \in Covers(Data(y)[1])
            /\ \A i \in 1 .. y.n : Covers(Data(y)[i]) \subseteq Owned(o, x) /\ Within(Data(y)[i])
            /\ \A i, j \in 1 .. y.n : i # j => Covers(Data(y)[i]) \cap Covers(Data(y)[j]) = {}
            /\ \A z \in Owned(o, x) : \E i \in 1 .. y.n : z \in Covers(Data(y)[i])
  <1> DEFINE y == o.inode[x]
  <1>1. /\ GoodInode(y) /\ y.n = Len(y.data) /\ x \in Covers(y.data[1])
        /\ \A i, j \in 1 .. y.n : i # j => Covers(y.data[i]) \cap Covers(y.data[j]) = {}
    BY WellFormedFacts
  <1>2. \A z : z \in Owned(o, x) <=> \E i \in 1 .. y.n : z \in Covers(Data(y)[i])
    BY <1>1, OwnedFacts
  <1> HIDE DEF y
  <1>3. y.n \in Nat /\ y.n > 0
    BY <1>1 DEF GoodInode
  <1>4. 1 \in 1 .. y.n
    BY <1>3
  <1>5. \A i \in 1 .. y.n : Data(y)[i] = y.data[i] /\ Within(Data(y)[i])
    BY <1>1, <1>3, DataFacts DEF GoodPlace
  <1>6. x \in Covers(Data(y)[1]) /\ \A i, j \in 1 .. y.n : i # j => Covers(Data(y)[i]) \cap Covers(Data(y)[j]) = {}
    BY <1>1, <1>4, <1>5
  <1> QED
    BY <1>2, <1>3, <1>4, <1>5, <1>6 DEF y

LEMMA GoingFits ==
  ASSUME NEW o, WellFormed(o), NEW d, NEW x, NEW m \in Subs, NEW b \in 0 .. m, AllGoes(o, d, x, b, m)
  PROVE  Owned(o, x) \subseteq Between(b, m)
  <1>1. x \in DOMAIN o.inode /\ \A z \in Owned(o, x) : z[1] \in b + 1 .. m
    BY DEF AllGoes
  <1> SUFFICES ASSUME NEW z \in Owned(o, x) PROVE z \in Between(b, m)
    OBVIOUS
  <1> DEFINE y == o.inode[x]
  <1>2. PICK i \in 1 .. y.n : z \in Covers(Data(y)[i]) /\ Within(Data(y)[i])
    BY <1>1, PartsOf
  <1> DEFINE bi == Data(y)[i]
  <1> HIDE DEF bi
  <1>3. PICK k \in Run(bi) : z = <<bi.sub, k>>
    BY <1>2, InCovers DEF bi
  <1>4. k \in ZonesOf(bi.sub)
    BY <1>2, <1>3, RunFacts DEF bi
  <1>5. z[1] = bi.sub
    BY <1>3
  <1>6. b \in Subs /\ bi.sub \in b + 1 .. m /\ m \in Nat /\ b \in Nat
    BY <1>1, <1>5, SizeFacts
  <1>7. z \in PlacesTo(m)
    <2>1. bi.sub \in 0 .. m
      BY <1>6
    <2> QED
      BY <1>3, <1>4, <2>1, InPlaces
  <1>8. z \notin PlacesTo(b)
    <2> SUFFICES ASSUME z \in PlacesTo(b) PROVE FALSE
      OBVIOUS
    <2>1. PICK s \in 0 .. b : \E w \in ZonesOf(s) : z = <<s, w>>
      BY <1>6, InPlaces
    <2>2. z[1] = s
      BY <2>1
    <2> QED
      BY <1>5, <1>6, <2>2
  <1> QED
    BY <1>7, <1>8 DEF Between

\* The first zone of a file is moved: what is left is the rest of what goes.
LEMMA FirstTaken ==
  ASSUME NEW o, WellFormed(o), NEW d, NEW x, NEW m \in Subs, NEW b \in 0 .. m, AllGoes(o, d, x, b, m),
         NEW rest, rest = Segment(0, 0, 0)
  PROVE  /\ {x} \subseteq Between(b, m) /\ Cardinality({x}) = 1
         /\ LeftOf(d.inode[x], 1, rest) \subseteq Between(b, m) \ {x}
         /\ Covers(rest) \subseteq Covers(Data(d.inode[x])[1])
  <1> DEFINE y == d.inode[x]
  <1>1. x \in DOMAIN o.inode /\ y = o.inode[x]
    BY DEF AllGoes
  <1>2. Owned(o, x) \subseteq Between(b, m)
    BY GoingFits
  <1>3. /\ y.n \in Nat /\ 1 \in 1 .. y.n /\ x \in Covers(Data(y)[1])
        /\ \A i \in 1 .. y.n : Covers(Data(y)[i]) \subseteq Owned(o, x)
        /\ \A i, j \in 1 .. y.n : i # j => Covers(Data(y)[i]) \cap Covers(Data(y)[j]) = {}
    BY <1>1, PartsOf
  <1> HIDE DEF y
  <1>4. Covers(rest) = {}
    <2>1. rest.num = 0 /\ rest.cnt = 0
      BY DEF Segment
    <2>2. rest.num .. rest.num + rest.cnt - 1 = {}
      BY <2>1
    <2> QED
      BY <2>2 DEF Covers
  <1>5. ASSUME NEW z \in LeftOf(y, 1, rest) PROVE z \in Owned(o, x) /\ z # x
    <2>1. PICK k \in 1 + 1 .. y.n : z \in Covers(Data(y)[k])
      BY <1>4, <1>5 DEF LeftOf
    <2>2. k \in 1 .. y.n /\ k # 1
      BY <1>3
    <2> QED
      BY <1>3, <2>1, <2>2
  <1>6. x \in Owned(o, x)
    BY <1>3
  <1> QED
    BY <1>2, <1>4, <1>5, <1>6, FS_Singleton DEF y

\* What is left, zone by zone.
LEMMA InLeft ==
  ASSUME NEW y, NEW i, NEW r, NEW z
  PROVE  z \in LeftOf(y, i, r) <=> z \in Covers(r) \/ \E k \in i + 1 .. y.n : z \in Covers(Data(y)[k])
  BY DEF LeftOf

\* The first n zones of the next segment are moved.
LEMMA SegmentTaken ==
  ASSUME NEW y, Parted(y), NEW i \in Nat, i + 1 \in 1 .. y.n, NEW s, s = Data(y)[i + 1], NEW n \in 0 .. s.cnt, NEW r
  PROVE  LET rest == Segment(s.sub, s.num + n, s.cnt - n)
         IN /\ Takes(LeftOf(y, i, r), Covers(Segment(s.sub, s.num, n)), n, LeftOf(y, i + 1, rest))
            /\ Covers(rest) \subseteq Covers(s)
  <1> DEFINE Q    == Segment(s.sub, s.num, n)
             rest == Segment(s.sub, s.num + n, s.cnt - n)
  <1>1. /\ y.n \in Nat /\ Within(s)
        /\ \A k, j \in 1 .. y.n : k # j => Covers(Data(y)[k]) \cap Covers(Data(y)[j]) = {}
    BY DEF Parted
  <1>2. s.sub \in Subs /\ s.num \in Nat /\ s.cnt \in Nat /\ s.num + s.cnt <= Size[s.sub] /\ Size[s.sub] \in Nat
    BY <1>1, RunFacts, SizeFacts DEF Within
  <1>3. n \in Nat /\ n <= s.cnt /\ s.num + n \in Nat /\ s.cnt - n \in Nat
    BY <1>2
  <1>4. /\ Q.sub = s.sub /\ Q.num = s.num /\ Q.cnt = n /\ Q \in Segments
        /\ rest.sub = s.sub /\ rest.num = s.num + n /\ rest.cnt = s.cnt - n
    BY <1>2, <1>3 DEF Segment, Segments
  <1> HIDE DEF Q, rest
  <1>5. Within(Q)
    <2>1. Q.num + Q.cnt <= Size[Q.sub]
      BY <1>2, <1>3, <1>4
    <2> QED
      BY <1>4, <2>1 DEF Within
  <1>6. Cardinality(Covers(Q)) = n
    BY <1>4, <1>5, CoversCount
  <1>7. /\ s.num .. s.num + n - 1 \subseteq s.num .. s.num + s.cnt - 1
        /\ s.num + n .. (s.num + n) + (s.cnt - n) - 1 \subseteq s.num .. s.num + s.cnt - 1
        /\ (s.num .. s.num + n - 1) \cap (s.num + n .. (s.num + n) + (s.cnt - n) - 1) = {}
    BY <1>2, <1>3
  <1>8. Covers(Q) \subseteq Covers(s) /\ Covers(rest) \subseteq Covers(s) /\ Covers(Q) \cap Covers(rest) = {}
    BY <1>4, <1>7 DEF Covers
  <1>9. i + 1 \in i + 1 .. y.n
    BY <1>1
  <1>10. ASSUME NEW z \in Covers(s) PROVE z \in LeftOf(y, i, r)
    BY <1>9, <1>10, InLeft
  <1>11. ASSUME NEW z \in LeftOf(y, i + 1, rest) PROVE z \in LeftOf(y, i, r) /\ z \notin Covers(Q)
    <2>1. CASE z \in Covers(rest)
      BY <2>1, <1>8, <1>10
    <2>2. CASE \E k \in i + 1 + 1 .. y.n : z \in Covers(Data(y)[k])
      <3>1. PICK k \in i + 1 + 1 .. y.n : z \in Covers(Data(y)[k])
        BY <2>2
      <3>2. k \in i + 1 .. y.n /\ k \in 1 .. y.n /\ k # i + 1
        BY <1>1
      <3>3. z \in LeftOf(y, i, r)
        BY <3>1, <3>2, InLeft
      <3>4. z \notin Covers(s)
        BY <1>1, <3>1, <3>2
      <3> QED
        BY <1>8, <3>3, <3>4
    <2> QED
      BY <1>11, <2>1, <2>2, InLeft
  <1> QED
    BY <1>6, <1>8, <1>10, <1>11 DEF Q, rest, Takes

\* The first c zones of the rest of a segment are moved; one more is forgotten.
LEMMA RestTaken ==
  ASSUME NEW y, Parted(y), NEW i \in 1 .. y.n, NEW r \in Segments, Covers(r) \subseteq Covers(Data(y)[i]),
         NEW c \in 1 .. r.cnt, c # r.cnt
  PROVE  LET rest == Segment(r.sub, r.num + c, r.cnt - c - 1)
         IN /\ Takes(LeftOf(y, i, r), Covers(Segment(r.sub, r.num, c)), c, LeftOf(y, i, rest))
            /\ Covers(rest) \subseteq Covers(Data(y)[i])
  <1> DEFINE Q    == Segment(r.sub, r.num, c)
             rest == Segment(r.sub, r.num + c, r.cnt - c - 1)
             s    == Data(y)[i]
  <1>1. /\ y.n \in Nat /\ Within(s)
        /\ \A k, j \in 1 .. y.n : k # j => Covers(Data(y)[k]) \cap Covers(Data(y)[j]) = {}
    BY DEF Parted
  <1> HIDE DEF s
  <1>2. r.sub \in Subs /\ r.num \in Nat /\ r.cnt \in Nat /\ c \in Nat /\ c > 0 /\ c < r.cnt
    BY DEF Segments
  <1>3. s.sub \in Subs /\ s.num \in Nat /\ s.cnt \in Nat /\ s.num + s.cnt <= Size[s.sub] /\ Size[s.sub] \in Nat
    BY <1>1, RunFacts, SizeFacts DEF Within
  <1>4. r.sub = s.sub /\ r.num + r.cnt - 1 <= s.num + s.cnt - 1
    <2>1. r.num + r.cnt - 1 \in r.num .. r.num + r.cnt - 1
      BY <1>2
    <2>2. <<r.sub, r.num + r.cnt - 1>> \in Covers(s)
      BY <2>1 DEF Covers, s
    <2>3. PICK k \in Run(s) : <<r.sub, r.num + r.cnt - 1>> = <<s.sub, k>>
      BY <2>2, InCovers
    <2>4. k \in s.num .. s.num + s.cnt - 1 /\ k = r.num + r.cnt - 1 /\ r.sub = s.sub
      BY <2>3 DEF Run
    <2> QED
      BY <2>4, <1>3
  <1>5. /\ Q.sub = r.sub /\ Q.num = r.num /\ Q.cnt = c /\ Q \in Segments
        /\ rest.sub = r.sub /\ rest.num = r.num + c /\ rest.cnt = r.cnt - c - 1
    BY <1>2 DEF Segment, Segments
  <1> HIDE DEF Q, rest
  <1>6. Within(Q)
    <2>1. r.num + c <= Size[r.sub]
      BY <1>2, <1>3, <1>4
    <2> QED
      BY <1>5, <2>1 DEF Within
  <1>7. Cardinality(Covers(Q)) = c
    BY <1>5, <1>6, CoversCount
  <1>8. /\ r.num .. r.num + c - 1 \subseteq r.num .. r.num + r.cnt - 1
        /\ r.num + c .. (r.num + c) + (r.cnt - c - 1) - 1 \subseteq r.num .. r.num + r.cnt - 1
        /\ (r.num .. r.num + c - 1) \cap (r.num + c .. (r.num + c) + (r.cnt - c - 1) - 1) = {}
    BY <1>2
  <1>9. Covers(Q) \subseteq Covers(r) /\ Covers(rest) \subseteq Covers(r) /\ Covers(Q) \cap Covers(rest) = {}
    BY <1>5, <1>8 DEF Covers
  <1>10. ASSUME NEW z \in Covers(r) PROVE z \in LeftOf(y, i, r)
    BY <1>10, InLeft
  <1>11. ASSUME NEW z \in LeftOf(y, i, rest) PROVE z \in LeftOf(y, i, r) /\ z \notin Covers(Q)
    <2>1. CASE z \in Covers(rest)
      BY <2>1, <1>9, <1>10
    <2>2. CASE \E k \in i + 1 .. y.n : z \in Covers(Data(y)[k])
      <3>1. PICK k \in i + 1 .. y.n : z \in Covers(Data(y)[k])
        BY <2>2
      <3>2. k \in 1 .. y.n /\ k # i
        BY <1>1
      <3>3. z \in LeftOf(y, i, r)
        BY <3>1, InLeft
      <3>4. z \notin Covers(s)
        BY <1>1, <3>1, <3>2 DEF s
      <3> QED
        BY <1>9, <3>3, <3>4 DEF s
    <2> QED
      BY <1>11, <2>1, <2>2, InLeft
  <1> QED
    BY <1>7, <1>9, <1>10, <1>11 DEF Q, rest, s, Takes

\* What holds whenever an inode is being moved.
LEMMA MovingFacts ==
  ASSUME IInv, pc \in {"move", "segment", "copy"}
  PROVE  /\ WellFormed(first) /\ Tree(first, fs) /\ GoodVolume(vol) /\ FreeEnough(vol)
         /\ GuardedZones(first) \subseteq UsedOf(vol)
         /\ \A z \in GuardedZones(first) : z \in DOMAIN content /\ content[z] = z
         /\ main \in Subs /\ parts \in 0 .. main /\ main - parts \in Subs /\ lastError = FALSE
         /\ Moves(fs, stack, main - parts, mv) /\ fs.inode[mv.old].mode # "dir"
         /\ Top.dir \in SeenDirs(first) /\ Top.j \in 1 .. Len(fs.dir[Top.dir][1]) /\ mv.old = fs.dir[Top.dir][1][Top.j]
         /\ Top.dir[2] \in Nat
         /\ GoodInode(fs.inode[mv.old]) /\ mv.old \notin Guarded(first) /\ Apart(first, fs.inode[mv.old].data)
         /\ NumberBlocks(fs.inode[mv.old]) \in Int
         /\ mv = [old |-> mv.old, new |-> mv.new, data |-> mv.data, n |-> mv.n, i |-> mv.i, rest |-> mv.rest, wrapped |-> mv.wrapped]
  <1> DEFINE x == fs.inode[mv.old]
  <1>1. /\ WellFormed(first) /\ GoodCache(first, fs, vol)
        /\ \A z \in GuardedZones(first) : z \in DOMAIN content /\ content[z] = z
    BY FirstFacts DEF IInv, CacheInv, Live, DiskInv
  <1>2. Tree(first, fs) /\ GoodVolume(vol) /\ FreeEnough(vol) /\ GuardedZones(first) \subseteq UsedOf(vol)
    BY <1>1 DEF GoodCache
  <1>3. main \in Subs /\ parts \in Nat /\ parts <= main
    BY DEF IInv, SuperInv, Live
  <1>4. parts \in 0 .. main /\ main - parts \in Subs /\ main - parts \in Nat
    BY <1>3, SubsInt
  <1>5. /\ lastError = FALSE /\ stack \in Seq(Frames(first))
        /\ mv = [old |-> mv.old, new |-> mv.new, data |-> mv.data, n |-> mv.n, i |-> mv.i, rest |-> mv.rest, wrapped |-> mv.wrapped]
    BY DEF IInv, StackInv, Walking
  <1>6. Moves(fs, stack, main - parts, mv)
    BY DEF IInv, MoveInv
  <1>7. /\ AtEntry(fs, stack) /\ mv.old = Entry(fs, stack) /\ x.mode # "dir" /\ LiesPast(x, main - parts)
    BY <1>6 DEF Moves
  <1>8. /\ stack[Len(stack)].dir \in SeenDirs(first)
        /\ stack[Len(stack)].j \in 1 .. Len(fs.dir[stack[Len(stack)].dir][1])
        /\ GoodInode(fs.inode[Entry(fs, stack)]) /\ Entry(fs, stack) \in DOMAIN fs.inode
    BY <1>1, <1>2, <1>5, <1>7, EntryFacts
  <1>9. Top = stack[Len(stack)] /\ Entry(fs, stack) = fs.dir[Top.dir][1][Top.j]
    BY TopFacts DEF Entry
  <1>10. mv.old \notin Guarded(first)
    BY <1>1, <1>2, <1>4, <1>7, MovedNotGuarded
  <1>11. Apart(first, x.data)
    BY <1>2, <1>7, <1>8, <1>10 DEF Tree, OthersApart
  <1>12. Top.dir[2] \in Nat
    <2>1. Top.dir \in SeenDirs(first)
      BY <1>8, <1>9
    <2> DEFINE D == Top.dir
    <2> HIDE DEF D
    <2>2. D \in SeenDirs(first)
      BY <2>1 DEF D
    <2>3. D \in DOMAIN first.inode
      BY <2>2, <1>1, GuardedFacts
    <2>4. D \in UsedOf(first)
      BY <2>3, <1>1, WellFormedFacts
    <2>5. PICK s \in Subs : \E n \in first.used[s] : D = <<s, n>>
      BY <2>4, InUsed
    <2>6. first.used[s] \subseteq Nat
      BY <1>1 DEF WellFormed
    <2>7. D[2] \in Nat
      BY <2>5, <2>6
    <2> QED
      BY <2>7 DEF D
  <1>13. NumberBlocks(x) \in Int
    <2>1. GoodInode(x)
      BY <1>7, <1>8
    <2> HIDE DEF x
    <2>2. x.n \in Nat /\ \A i \in 1 .. x.n : Data(x)[i].cnt \in Int
      BY <2>1, DataFacts DEF GoodInode
    <2> DEFINE f == [k \in 1 .. x.n |-> Data(x)[k].cnt]
    <2>3. \A s \in 1 .. x.n : f[s] \in Int
      BY <2>2
    <2> HIDE DEF f
    <2>4. SumTo(f, x.n) \in Int
      BY <2>2, <2>3, SumIsInt
    <2> QED
      BY <2>4 DEF f, NumberBlocks
  <1> QED
    BY <1>1, <1>2, <1>3, <1>4, <1>5, <1>6, <1>7, <1>8, <1>9, <1>10, <1>11, <1>12, <1>13

\* A step of the move takes zones, copies and lists them.
LEMMA MovingStep ==
  ASSUME IInv, pc \in {"move", "segment", "copy"}, pc' \in {"segment", "copy", "failed", "hung"},
         fs' = fs, disk' = disk, main' = main, backup' = backup, present' = present,
         lastError' \in BOOLEAN, pc' \in {"segment", "copy"} => lastError' = lastError, first' = first, parts' = parts, stack' = stack, stopFlag' = stopFlag,
         GoodVolume(vol'), FreeEnough(vol'), GuardedZones(first) \subseteq UsedOf(vol'),
         \A z \in GuardedZones(first) : z \in DOMAIN content' /\ content'[z] = z,
         mv' = [old |-> mv'.old, new |-> mv'.new, data |-> mv'.data, n |-> mv'.n, i |-> mv'.i, rest |-> mv'.rest,
               wrapped |-> mv'.wrapped],
         pc' \in {"segment", "copy"} =>
             mv'.old = mv.old /\ GoodCopy(first, mv') /\ mv'.i \in 1 .. fs.inode[mv.old].n,
         pc' = "copy" => mv'.rest \in Segments /\ mv'.rest.cnt <= CountMax,
         pc' \in {"segment", "copy"} => RoomFor(first, fs, vol', main - parts, main, mv'),
         pc' = "hung" => lastError' \/ mv'.wrapped \/ ~AllGoes(first, fs, mv'.old, main - parts, main)
  PROVE  IInv'
  <1>a. Tree(first, fs) /\ Moves(fs, stack, main - parts, mv)
    BY MovingFacts
  <1>1. SuperInv'
    BY DEF IInv, SuperInv, Live
  <1>2. DiskInv'
    BY DEF IInv, DiskInv
  <1>3. CacheInv'
    <2>1. GoodCache(first, fs, vol')
      BY <1>a DEF GoodCache
    <2> QED
      BY <2>1 DEF CacheInv
  <1>4. StackInv'
    BY DEF IInv, StackInv, Walking
  <1>5. WalkInv'
    BY DEF WalkInv
  <1>6. EndInv'
    BY DEF EndInv
  <1>7. MoveInv'
    <2> SUFFICES ASSUME pc' \in {"segment", "copy"} PROVE MoveInv'
      BY DEF MoveInv
    <2>1. Moves(fs, stack, main - parts, mv')
      BY <1>a DEF Moves
    <2> QED
      BY <2>1 DEF MoveInv
  <1>8. RoomInv'
    BY DEF RoomInv
  <1>9. HangInv'
    BY DEF HangInv
  <1> QED
    BY <1>1, <1>2, <1>3, <1>4, <1>5, <1>6, <1>7, <1>8, <1>9 DEF IInv

\* The zone of an inode that is moved is taken from what stays, where one is free.
LEMMA FirstZoneFacts ==
  ASSUME IInv, pc = "move"
  PROVE  /\ FirstZone # NoSpace /\ Within(FirstZone.bi) /\ FirstZone.bi.cnt = 1
         /\ Covers(FirstZone.bi) \cap UsedOf(vol) = {} /\ FirstZone.vol = Mark(vol, FirstZone.bi)
         /\ Covers(FirstZone.bi) \cap GuardedZones(first) = {}
         /\ GoodVolume(FirstZone.vol) /\ FreeEnough(FirstZone.vol) /\ GuardedZones(first) \subseteq UsedOf(FirstZone.vol)
         /\ \A z \in GuardedZones(first) : z \in DOMAIN Copied(OldZone, FirstZone.bi, 1)
               /\ Copied(OldZone, FirstZone.bi, 1)[z] = z
  <1> DEFINE x  == fs.inode[mv.old]
             b  == main - parts
             bi == Segment(Top.dir[1], Top.dir[2], 1)
             nb == NumberBlocks(x)
             f  == FirstZone
             t  == f.bi
  <1>1. f = SearchFreeZoneSpecial(bi, nb)
    BY DEF FirstZone
  <1>b. /\ WellFormed(first) /\ GoodVolume(vol) /\ FreeEnough(vol) /\ GuardedZones(first) \subseteq UsedOf(vol)
        /\ \A z \in GuardedZones(first) : z \in DOMAIN content /\ content[z] = z
        /\ main \in Subs /\ parts \in 0 .. main /\ b \in Subs /\ nb \in Int
    BY MovingFacts
  <1>c. bi.num \in Nat /\ bi.cnt = 1 /\ bi.cnt \in Nat /\ bi.cnt > 0 /\ bi.cnt <= CountMax
    <2>1. Top.dir[2] \in Nat
      BY MovingFacts
    <2>2. bi.num = Top.dir[2] /\ bi.cnt = 1
      BY DEF Segment
    <2> QED
      BY <2>1, <2>2, SizeFacts
  <1>d. Roomy(vol, b, Between(b, main))
    BY DEF IInv, RoomInv
  <1> HIDE DEF bi, nb, f
  <1>e. \/ /\ f # NoSpace /\ Within(f.bi) /\ f.bi.cnt \in 1 .. bi.cnt /\ f.bi.sub \in 0 .. b
           /\ Covers(f.bi) \cap UsedOf(vol) = {} /\ f.vol = Mark(vol, f.bi)
        \/ f = NoSpace /\ \A s \in 0 .. b : vol.used[s] = ZonesOf(s)
    BY <1>1, <1>b, <1>c, SpecialFinds
  <1>f. ~ \A s \in 0 .. b : vol.used[s] = ZonesOf(s)
    BY <1>b, <1>d, RoomyIsNotFull
  <1> HIDE DEF b
  <1>g. f # NoSpace /\ Within(t) /\ t.cnt = 1 /\ Covers(t) \cap UsedOf(vol) = {} /\ f.vol = Mark(vol, t)
    BY <1>c, <1>e, <1>f
  <1> HIDE DEF t
  <1>h. /\ GoodVolume(Mark(vol, t)) /\ FreeEnough(Mark(vol, t)) /\ GuardedZones(first) \subseteq UsedOf(Mark(vol, t))
        /\ Covers(t) \cap GuardedZones(first) = {}
    BY <1>b, <1>g, TakesKeep
  <1>i. \A z \in GuardedZones(first) : z \in DOMAIN Copied(OldZone, t, 1) /\ Copied(OldZone, t, 1)[z] = z
    <2>1. 1 \in Nat /\ 1 <= t.cnt
      BY <1>g
    <2> QED
      BY <1>b, <1>g, <2>1, CopiedKeeps
  <1> QED
    BY <1>g, <1>h, <1>i DEF f, t

\* The copy of an inode has one zone, and room for what it lists is still there.
LEMMA MoveBeginStep ==
  ASSUME IInv, MoveBegin
  PROVE  IInv'
  <1> DEFINE x == fs.inode[mv.old]
             b == main - parts
             f == FirstZone
             t == f.bi
             c == Copied(OldZone, t, 1)
             m == [mv EXCEPT !.new = <<t.sub, t.num>>, !.n = 1, !.i = 1, !.data = [x.data EXCEPT ![1] = t]]
  <1>a. /\ pc = "move" /\ fs' = fs /\ disk' = disk /\ main' = main /\ backup' = backup /\ present' = present
        /\ lastError' = lastError /\ first' = first /\ parts' = parts /\ stack' = stack /\ stopFlag' = stopFlag
        /\ f # NoSpace => vol' = f.vol /\ content' = c /\ mv' = m /\ pc' = "segment"
    BY DEF MoveBegin, supers
  <1>b. /\ WellFormed(first) /\ GoodVolume(vol) /\ lastError = FALSE
        /\ main \in Subs /\ parts \in 0 .. main /\ b \in Subs /\ GoodInode(x) /\ Apart(first, x.data)
        /\ mv = [old |-> mv.old, new |-> mv.new, data |-> mv.data, n |-> mv.n, i |-> mv.i, rest |-> mv.rest, wrapped |-> mv.wrapped]
    BY <1>a, MovingFacts
  <1>c. Roomy(vol, b, Between(b, main)) /\ mv.rest = Segment(0, 0, 0)
    BY <1>a DEF IInv, RoomInv, MoveInv
  <1>g. f # NoSpace /\ Within(t) /\ t.cnt = 1 /\ Covers(t) \cap UsedOf(vol) = {} /\ f.vol = Mark(vol, t)
    BY <1>a, FirstZoneFacts
  <1>h. /\ GoodVolume(Mark(vol, t)) /\ FreeEnough(Mark(vol, t)) /\ GuardedZones(first) \subseteq UsedOf(Mark(vol, t))
        /\ Covers(t) \cap GuardedZones(first) = {}
    <2>1. /\ GoodVolume(f.vol) /\ FreeEnough(f.vol) /\ GuardedZones(first) \subseteq UsedOf(f.vol)
          /\ Covers(t) \cap GuardedZones(first) = {}
      BY <1>a, FirstZoneFacts
    <2> QED
      BY <1>g, <2>1
  <1>i. \A z \in GuardedZones(first) : z \in DOMAIN c /\ c[z] = z
    BY <1>a, FirstZoneFacts
  <1> HIDE DEF f, t, c, x, b
  <1>k. /\ m = [old |-> m.old, new |-> m.new, data |-> m.data, n |-> m.n, i |-> m.i, rest |-> m.rest, wrapped |-> m.wrapped]
        /\ m.old = mv.old /\ m.new = <<t.sub, t.num>> /\ m.n = 1 /\ m.i = 1 /\ m.data = [x.data EXCEPT ![1] = t]
        /\ m.rest = mv.rest
    <2> DEFINE data == [x.data EXCEPT ![1] = t]
               new  == <<t.sub, t.num>>
    <2>1. m = [mv EXCEPT !.new = new, !.n = 1, !.i = 1, !.data = data]
      OBVIOUS
    <2> HIDE DEF data, new, m
    <2>2. m = [old |-> mv.old, new |-> new, data |-> data, n |-> 1, i |-> 1, rest |-> mv.rest, wrapped |-> mv.wrapped]
      BY <2>1, <1>b
    <2> QED
      BY <2>2 DEF data, new
  <1> HIDE DEF m
  <1>l. /\ m.data \in Seq(Segments) /\ Len(m.data) = Len(x.data) /\ Len(x.data) \in Nat /\ Len(x.data) > 0
        /\ m.data[1] = t /\ \A i \in 1 .. Len(x.data) : i # 1 => m.data[i] = x.data[i]
    <2>1. x.data \in Seq(Segments) /\ Len(x.data) > 0 /\ t \in Segments
      BY <1>b, <1>g DEF GoodInode, Within, t
    <2> QED
      BY <1>k, <2>1
  <1>m. GoodPlace(t) /\ t.cnt > 0
    <2>1. Within(t) /\ t.cnt = 1
      BY <1>g DEF t
    <2> QED
      BY <2>1, SizeFacts DEF GoodPlace
  <1>n. GoodCopy(first, m)
    <2>1. \A i \in 1 .. Len(m.data) : GoodPlace(m.data[i])
      <3> TAKE i \in 1 .. Len(m.data)
      <3>1. i \in 1 .. Len(x.data)
        BY <1>l
      <3>2. GoodPlace(x.data[i])
        BY <3>1, <1>b DEF GoodInode
      <3> QED
        BY <3>1, <3>2, <1>l, <1>m
    <2>2. GoodInode(m)
      BY <2>1, <1>k, <1>l DEF GoodInode
    <2>3. Apart(first, m.data)
      BY <1>b, <1>h, <1>l DEF Apart
    <2> QED
      BY <2>2, <2>3, <1>k, <1>l, <1>m DEF GoodCopy
  <1>o. m.i \in 1 .. x.n
    BY <1>b, <1>k DEF GoodInode
  <1>j. RoomFor(first, fs, Mark(vol, t), b, main, m)
    <2> SUFFICES ASSUME AllGoes(first, fs, m.old, b, main)
                 PROVE  /\ Roomy(Mark(vol, t), b, LeftOf(x, 1, m.rest))
                        /\ Covers(m.rest) \subseteq Covers(Data(x)[1])
      BY <1>k DEF RoomFor, x
    <2>1. b \in 0 .. main
      BY <1>b, SubsInt DEF b
    <2> DEFINE y == mv.old
               G == Between(b, main)
               L == LeftOf(x, 1, m.rest)
    <2>2. /\ {y} \subseteq G /\ Cardinality({y}) = 1 /\ L \subseteq G \ {y}
          /\ Covers(m.rest) \subseteq Covers(Data(x)[1])
      BY <1>b, <1>c, <1>k, <2>1, FirstTaken DEF x
    <2> HIDE DEF y, G, L
    <2>3. Cardinality({y}) >= t.cnt
      BY <1>g, <2>2
    <2>4. Roomy(vol, b, G)
      BY <1>c DEF G
    <2>5. Roomy(Mark(vol, t), b, L)
      BY <1>b, <1>g, <2>2, <2>3, <2>4, RoomyOn
    <2> QED
      BY <2>2, <2>5 DEF L
  <1>p. vol' = Mark(vol, t) /\ content' = c /\ mv' = m /\ pc' = "segment"
    BY <1>a, <1>g DEF t
  <1>q. m.i \in 1 .. fs.inode[mv.old].n /\ RoomFor(first, fs, Mark(vol, t), main - parts, main, m)
    BY <1>j, <1>o DEF x, b
  <1>r. lastError' \in BOOLEAN
    BY <1>a, <1>b
  <1> QED
    BY <1>a, <1>h, <1>i, <1>k, <1>n, <1>p, <1>q, <1>r, MovingStep

\* A zone that is given back was not guarded.
LEMMA MoveBeginFailsStep ==
  ASSUME IInv, MoveBeginFails
  PROVE  IInv'
  <1> DEFINE f == FirstZone
             t == f.bi
             w == FreeBlockSegment(f.vol, t)
  <1>a. /\ pc = "move" /\ fs' = fs /\ disk' = disk /\ main' = main /\ backup' = backup /\ present' = present
        /\ first' = first /\ parts' = parts /\ stack' = stack /\ stopFlag' = stopFlag /\ mv' = mv
        /\ vol' = w /\ pc' = "failed"
        /\ \/ CopyCut(OldZone, t, 0) /\ lastError' = lastError
           \/ content' = Copied(OldZone, t, 1) /\ lastError' \in BOOLEAN
    BY DEF MoveBeginFails, supers
  <1>b. /\ WellFormed(first) /\ GoodVolume(vol) /\ GuardedZones(first) \subseteq UsedOf(vol) /\ lastError = FALSE
        /\ \A z \in GuardedZones(first) : z \in DOMAIN content /\ content[z] = z
        /\ mv = [old |-> mv.old, new |-> mv.new, data |-> mv.data, n |-> mv.n, i |-> mv.i, rest |-> mv.rest, wrapped |-> mv.wrapped]
    BY <1>a, MovingFacts
  <1>c. /\ Within(t) /\ t.cnt = 1 /\ Covers(t) \cap UsedOf(vol) = {}
        /\ GoodVolume(f.vol) /\ FreeEnough(f.vol) /\ GuardedZones(first) \subseteq UsedOf(f.vol)
        /\ Covers(t) \cap GuardedZones(first) = {}
        /\ \A z \in GuardedZones(first) : z \in DOMAIN Copied(OldZone, t, 1) /\ Copied(OldZone, t, 1)[z] = z
    BY <1>a, FirstZoneFacts
  <1> HIDE DEF f, t
  <1>d. GoodVolume(w) /\ FreeEnough(w) /\ UsedOf(w) = UsedOf(f.vol) \ Covers(t)
    <2>1. Covers(t) \cap ReservedZones = {}
      BY <1>b, <1>c, GuardedFacts
    <2> QED
      BY <1>c, <2>1, FreeReturns
  <1>e. GuardedZones(first) \subseteq UsedOf(w)
    BY <1>c, <1>d
  <1> HIDE DEF w
  <1>f. \A z \in GuardedZones(first) : z \in DOMAIN content' /\ content'[z] = z
    <2>1. CASE CopyCut(OldZone, t, 0)
      <3>1. 0 \in Nat /\ 0 < t.cnt
        BY <1>c
      <3> QED
        BY <1>b, <1>c, <2>1, <3>1, CutKeeps
    <2>2. CASE content' = Copied(OldZone, t, 1)
      BY <1>c, <2>2
    <2> QED
      BY <1>a, <2>1, <2>2
  <1>g. lastError' \in BOOLEAN
    BY <1>a, <1>b
  <1> QED
    BY <1>a, <1>b, <1>d, <1>e, <1>f, <1>g, MovingStep

LEMMA SearchFailsStep ==
  ASSUME IInv, SearchFails
  PROVE  IInv'
  <1>a. /\ pc \in {"move", "copy"} /\ pc' = "hung" /\ lastError' = TRUE
        /\ fs' = fs /\ vol' = vol /\ disk' = disk /\ content' = content /\ main' = main /\ backup' = backup
        /\ present' = present /\ first' = first /\ parts' = parts /\ stack' = stack /\ mv' = mv /\ stopFlag' = stopFlag
    BY DEF SearchFails, metadata, supers
  <1>b. /\ GoodVolume(vol) /\ FreeEnough(vol) /\ GuardedZones(first) \subseteq UsedOf(vol)
        /\ \A z \in GuardedZones(first) : z \in DOMAIN content /\ content[z] = z
        /\ mv = [old |-> mv.old, new |-> mv.new, data |-> mv.data, n |-> mv.n, i |-> mv.i, rest |-> mv.rest, wrapped |-> mv.wrapped]
    BY <1>a, MovingFacts
  <1> QED
    BY <1>a, <1>b, MovingStep

\* The first zones of the copy grow by the ones behind them.
LEMMA GrownCopy ==
  ASSUME NEW o, NEW old, GoodCopy(o, old), NEW n \in Nat, NEW more,
         more = Segment(old.data[1].sub, old.data[1].num + old.data[1].cnt, n), Within(more),
         old.data[1].cnt + n <= CountMax, Covers(more) \cap GuardedZones(o) = {},
         NEW new, new.new = old.new, new.n = old.n, 
         new.data = [old.data EXCEPT ![1] = [old.data[1] EXCEPT !.cnt = old.data[1].cnt + n]]
  PROVE  GoodCopy(o, new)
  <1> DEFINE d == old.data[1]
             e == [d EXCEPT !.cnt = d.cnt + n]
  <1>1. /\ old.n \in Nat /\ old.n > 0 /\ old.data \in Seq(Segments) /\ Len(old.data) > 0 /\ Len(old.data) \in Nat
        /\ \A i \in 1 .. Len(old.data) : GoodPlace(old.data[i]) /\ Covers(old.data[i]) \cap GuardedZones(o) = {}
        /\ old.new = <<d.sub, d.num>> /\ d.cnt > 0
    BY DEF GoodCopy, GoodInode, Apart
  <1>2. 1 \in 1 .. Len(old.data) /\ Within(d) /\ d.cnt \in Nat
    <2>1. 1 \in 1 .. Len(old.data)
      BY <1>1
    <2>2. Within(d)
      BY <1>1, <2>1 DEF GoodPlace
    <2> QED
      BY <2>1, <2>2, RunFacts
  <1>3. new.data = [old.data EXCEPT ![1] = e]
    OBVIOUS
  <1>4. Within(d) /\ n \in Nat /\ more = Segment(d.sub, d.num + d.cnt, n) /\ Within(more) /\ d.cnt + n <= CountMax
    BY <1>2
  <1>0. Covers(d) \cap GuardedZones(o) = {}
    BY <1>1, <1>2
  <1> HIDE DEF d
  <1>5. GoodPlace(e) /\ Covers(e) = Covers(d) \cup Covers(more) /\ e.sub = d.sub /\ e.num = d.num /\ e.cnt = d.cnt + n
    BY <1>4, GrownPlace
  <1> HIDE DEF e
  <1>6. Covers(e) \cap GuardedZones(o) = {}
    BY <1>0, <1>5
  <1>7. e \in Segments
    BY <1>5 DEF GoodPlace, Within
  <1>8. /\ new.data \in Seq(Segments) /\ Len(new.data) = Len(old.data) /\ new.data[1] = e
        /\ \A i \in 1 .. Len(old.data) : i # 1 => new.data[i] = old.data[i]
    BY <1>1, <1>3, <1>7
  <1>9. \A i \in 1 .. Len(new.data) : GoodPlace(new.data[i]) /\ Covers(new.data[i]) \cap GuardedZones(o) = {}
    BY <1>1, <1>5, <1>6, <1>8
  <1>10. GoodInode(new) /\ Apart(o, new.data)
    BY <1>1, <1>8, <1>9 DEF GoodInode, Apart
  <1>11. new.new = <<new.data[1].sub, new.data[1].num>> /\ new.data[1].cnt > 0
    <2>1. e.cnt > 0
      BY <1>1, <1>2, <1>5
    <2> QED
      BY <1>1, <1>5, <1>8, <2>1
  <1> QED
    BY <1>10, <1>11 DEF GoodCopy

\* A segment of the inode is moved behind what the copy has, as far as there is room.
LEMMA MoveSegmentStep ==
  ASSUME IInv, MoveSegment
  PROVE  IInv'
  <1> DEFINE x == fs.inode[mv.old]
             b == Data(x)[mv.i + 1]
             d == mv.data[1]
             n == IF mv.n = 1 THEN 0 ELSE Additional(vol, d, b.cnt)
             more == Segment(d.sub, d.num + d.cnt, n)
             rest == Segment(b.sub, b.num + n, b.cnt - n)
             data == [mv.data EXCEPT ![1] = [mv.data[1] EXCEPT !.cnt = mv.data[1].cnt + n]]
             m == [mv EXCEPT !.i = @ + 1, !.data[1].cnt = @ + n, !.rest = rest]
             w == Mark(vol, more)
  <1>a. /\ pc = "segment" /\ mv.i < x.n
        /\ fs' = fs /\ disk' = disk /\ main' = main /\ backup' = backup /\ present' = present
        /\ lastError' = lastError /\ first' = first /\ parts' = parts /\ stack' = stack /\ stopFlag' = stopFlag
        /\ mv' = m
        /\ \/ content' = Copied(b, more, n) /\ vol' = w /\ pc' = "copy"
           \/ vol' = FreeSegments(w, Data(m)) /\ pc' = "failed" /\ \E k \in 0 .. n - 1 : CopyCut(b, more, k)
    BY DEF MoveSegment, supers, Expanded, Fails, Undone
  <1>b. /\ WellFormed(first) /\ GoodVolume(vol) /\ FreeEnough(vol) /\ GuardedZones(first) \subseteq UsedOf(vol)
        /\ \A z \in GuardedZones(first) : z \in DOMAIN content /\ content[z] = z
        /\ main - parts \in Subs /\ GoodInode(x) /\ lastError = FALSE
        /\ mv = [old |-> mv.old, new |-> mv.new, data |-> mv.data, n |-> mv.n, i |-> mv.i, rest |-> mv.rest, wrapped |-> mv.wrapped]
    BY <1>a, MovingFacts
  <1>c. GoodCopy(first, mv) /\ mv.i \in 1 .. x.n
    BY <1>a DEF IInv, MoveInv
  <1>d. RoomFor(first, fs, vol, main - parts, main, mv)
    BY <1>a DEF IInv, RoomInv
  <1>e. x.n \in Nat /\ mv.i + 1 \in 1 .. x.n
    <2>1. x.n \in Nat /\ mv.i \in 1 .. x.n /\ mv.i < x.n
      BY <1>a, <1>b, <1>c DEF GoodInode
    <2> HIDE DEF x
    <2> QED
      BY <2>1
  <1> HIDE DEF m, w, rest, more, data
  <1>f. GoodPlace(b) /\ b.cnt \in Nat /\ b.num \in Nat /\ b.sub \in Subs
    <2>1. GoodPlace(b) /\ b.cnt \in Nat
      BY <1>b, <1>e, DataFacts
    <2> QED
      BY <2>1 DEF GoodPlace, Within, Segments
  <1>g. Within(d) /\ d.cnt <= CountMax /\ d.cnt \in Nat /\ d.num \in Nat /\ d.sub \in Subs
    <2>1. Len(mv.data) > 0 /\ mv.data \in Seq(Segments) /\ \A i \in 1 .. Len(mv.data) : GoodPlace(mv.data[i])
      BY <1>c DEF GoodCopy, GoodInode
    <2>2. 1 \in 1 .. Len(mv.data)
      BY <2>1
    <2> QED
      BY <2>1, <2>2 DEF GoodPlace, Within, Segments
  <1> HIDE DEF x, b, d
  <1>h. /\ n \in 0 .. b.cnt /\ d.cnt + n <= CountMax /\ Within(more) /\ Covers(more) \cap UsedOf(vol) = {}
        /\ mv.n = 1 => n = 0
    <2>1. CASE mv.n = 1
      <3>1. n = 0
        BY <2>1
      <3> HIDE DEF n
      <3>2. more.sub = d.sub /\ more.num = d.num + d.cnt /\ more.cnt = 0 /\ more \in Segments
        BY <3>1, <1>g DEF more, Segment, Segments
      <3>3. Covers(more) = {}
        BY <3>2, <1>g DEF Covers
      <3>4. Within(more)
        BY <3>2, <1>g, SizeFacts DEF Within
      <3> QED
        BY <3>1, <3>3, <3>4, <1>f, <1>g
    <2>2. CASE mv.n # 1
      <3>1. n = Additional(vol, d, b.cnt)
        BY <2>2
      <3> QED
        BY <3>1, <2>2, <1>b, <1>f, <1>g, AdditionalFits DEF more
    <2> QED
      BY <2>1, <2>2
  <1>i. n \in Nat /\ more.cnt = n
    BY <1>h DEF more, Segment
  <1>j. rest \in Segments /\ rest.cnt <= CountMax
    <2>1. rest.sub = b.sub /\ rest.num = b.num + n /\ rest.cnt = b.cnt - n
          /\ rest = [sub |-> b.sub, num |-> b.num + n, cnt |-> b.cnt - n]
      BY DEF rest, Segment
    <2> HIDE DEF n
    <2>2. b.num + n \in Nat /\ b.cnt - n \in Nat /\ b.cnt - n <= b.cnt
      BY <1>f, <1>h
    <2>3. b.cnt <= CountMax
      BY <1>f DEF GoodPlace
    <2> QED
      BY <2>1, <2>2, <2>3, <1>f, SizeFacts DEF Segments
  <1> HIDE DEF n
  <1>k. /\ GoodVolume(w) /\ FreeEnough(w) /\ GuardedZones(first) \subseteq UsedOf(w)
        /\ Covers(more) \cap GuardedZones(first) = {}
    BY <1>b, <1>h, TakesKeep DEF w
  <1>l. \A z \in GuardedZones(first) : z \in DOMAIN content' /\ content'[z] = z
    <2>1. /\ GoodVolume(vol) /\ GuardedZones(first) \subseteq UsedOf(vol) /\ n \in Nat /\ n <= more.cnt
          /\ \A z \in GuardedZones(first) : z \in DOMAIN content /\ content[z] = z
          /\ Within(more) /\ Covers(more) \cap UsedOf(vol) = {}
      BY <1>b, <1>h, <1>i
    <2>2. CASE content' = Copied(b, more, n)
      BY <2>1, <2>2, CopiedKeeps
    <2>3. ASSUME NEW k \in 0 .. n - 1, CopyCut(b, more, k)
          PROVE  \A z \in GuardedZones(first) : z \in DOMAIN content' /\ content'[z] = z
      <3>1. k \in Nat /\ k < more.cnt
        BY <1>i
      <3> QED
        BY <2>1, <2>3, <3>1, CutKeeps
    <2> QED
      BY <1>a, <2>2, <2>3
  <1>m. /\ m = [old |-> m.old, new |-> m.new, data |-> m.data, n |-> m.n, i |-> m.i, rest |-> m.rest, wrapped |-> m.wrapped]
        /\ m.old = mv.old /\ m.new = mv.new /\ m.n = mv.n /\ m.i = mv.i + 1 /\ m.rest = rest
        /\ m.data = data /\ m.wrapped = mv.wrapped
    <2> DEFINE i == mv.i + 1
    <2>1. m = [mv EXCEPT !.i = i, !.data = data, !.rest = rest]
      <3>1. m = [mv EXCEPT !.i = i, !.data[1].cnt = mv.data[1].cnt + n, !.rest = rest]
        BY DEF m
      <3>2. [mv EXCEPT !.i = i, !.data[1].cnt = mv.data[1].cnt + n, !.rest = rest]
            = [mv EXCEPT !.i = i, !.data = data, !.rest = rest]
        BY DEF data
      <3> QED
        BY <3>1, <3>2
    <2> HIDE DEF i
    <2>2. m = [old |-> mv.old, new |-> mv.new, data |-> data, n |-> mv.n, i |-> i, rest |-> rest,
               wrapped |-> mv.wrapped]
      <3> DEFINE q == [old |-> mv.old, new |-> mv.new, data |-> mv.data, n |-> mv.n, i |-> mv.i, rest |-> mv.rest,
                       wrapped |-> mv.wrapped]
      <3>1. m = [q EXCEPT !.i = i, !.data = data, !.rest = rest]
        BY <2>1, <1>b
      <3> QED
        BY <3>1
    <2> QED
      BY <2>2 DEF i
  <1>n. GoodCopy(first, m)
    <2>1. m.data = [mv.data EXCEPT ![1] = [mv.data[1] EXCEPT !.cnt = mv.data[1].cnt + n]]
      BY <1>m DEF data
    <2>2. more = Segment(mv.data[1].sub, mv.data[1].num + mv.data[1].cnt, n) /\ mv.data[1].cnt + n <= CountMax
      BY <1>h DEF more, d
    <2> QED
      BY <1>c, <1>h, <1>i, <1>k, <1>m, <2>1, <2>2, GrownCopy
  <1>o. RoomFor(first, fs, w, main - parts, main, m)
    <2> SUFFICES ASSUME ~mv.wrapped, AllGoes(first, fs, mv.old, main - parts, main)
                 PROVE  /\ Roomy(w, main - parts, LeftOf(x, mv.i + 1, rest))
                        /\ Covers(rest) \subseteq Covers(b)
      BY <1>m DEF RoomFor, x, b
    <2>1. Roomy(vol, main - parts, LeftOf(x, mv.i, mv.rest))
      BY <1>d DEF RoomFor, x
    <2>2. mv.old \in DOMAIN first.inode /\ x = first.inode[mv.old] /\ mv.i \in Nat /\ n \in 0 .. b.cnt
      BY <1>c, <1>h DEF AllGoes, x
    <2> DEFINE i == mv.i
               r == mv.rest
               Q == Covers(Segment(b.sub, b.num, n))
    <2>3. b = Data(x)[i + 1] /\ rest = Segment(b.sub, b.num + n, b.cnt - n)
      BY DEF b, rest
    <2> HIDE DEF i, r
    <2>4. /\ Q \subseteq LeftOf(x, i, r) /\ Cardinality(Q) = n
          /\ LeftOf(x, i + 1, rest) \subseteq LeftOf(x, i, r) \ Q
          /\ Covers(rest) \subseteq Covers(b)
      <3>1. i \in Nat /\ i + 1 \in 1 .. x.n
        BY <1>e, <2>2 DEF i
      <3>2. Parted(x)
        BY <1>b, <2>2, PartsOf DEF Parted
      <3>3. /\ Takes(LeftOf(x, i, r), Covers(Segment(b.sub, b.num, n)), n,
                     LeftOf(x, i + 1, Segment(b.sub, b.num + n, b.cnt - n)))
            /\ Covers(Segment(b.sub, b.num + n, b.cnt - n)) \subseteq Covers(b)
        BY <2>2, <2>3, <3>1, <3>2, SegmentTaken
      <3> QED
        BY <2>3, <3>3 DEF Takes
    <2>5. Cardinality(Q) >= more.cnt
      BY <1>i, <2>4
    <2> DEFINE L == LeftOf(x, i, r)
               M == LeftOf(x, i + 1, rest)
    <2>6. Roomy(vol, main - parts, L)
      BY <2>1 DEF i, r
    <2> HIDE DEF Q, L, M
    <2>7. Q \subseteq L /\ M \subseteq L \ Q
      BY <2>4 DEF L, M
    <2>8. Roomy(w, main - parts, M)
      BY <1>b, <1>h, <2>5, <2>6, <2>7, RoomyOn DEF w
    <2> QED
      BY <2>4, <2>8 DEF M, i
  <1>p. CASE vol' = w /\ pc' = "copy"
    <2>1. m.i \in 1 .. fs.inode[mv.old].n /\ m.rest \in Segments /\ m.rest.cnt <= CountMax
      BY <1>e, <1>j, <1>m DEF x
    <2> QED
      BY <1>a, <1>b, <1>k, <1>l, <1>m, <1>n, <1>o, <1>p, <2>1, MovingStep
  <1>q. CASE vol' = FreeSegments(w, Data(m)) /\ pc' = "failed"
    <2>1. GoodInode(m) /\ Apart(first, m.data)
      BY <1>n DEF GoodCopy
    <2>2. /\ GoodVolume(FreeSegments(w, Data(m))) /\ FreeEnough(FreeSegments(w, Data(m)))
          /\ GuardedZones(first) \subseteq UsedOf(FreeSegments(w, Data(m)))
      BY <1>b, <1>k, <2>1, FreesKeep
    <2> QED
      BY <1>a, <1>b, <1>l, <1>m, <1>q, <2>2, MovingStep
  <1> QED
    BY <1>a, <1>p, <1>q

\* What is stored behind the first segment of the copy.
LEMMA StoredCopy ==
  ASSUME NEW o, NEW old, GoodCopy(o, old), NEW k \in Nat, k > 1, NEW t, GoodPlace(t), Covers(t) \cap GuardedZones(o) = {},
         NEW new, new.new = old.new, new.n = old.n + 1, new.data = Store(old.data, k, t)
  PROVE  GoodCopy(o, new) /\ new.n > 1
  <1>1. /\ old.n \in Nat /\ old.n > 0 /\ old.data \in Seq(Segments) /\ Len(old.data) > 0 /\ Len(old.data) \in Nat
        /\ \A i \in 1 .. Len(old.data) : GoodPlace(old.data[i]) /\ Covers(old.data[i]) \cap GuardedZones(o) = {}
        /\ old.new = <<old.data[1].sub, old.data[1].num>> /\ old.data[1].cnt > 0
    BY DEF GoodCopy, GoodInode, Apart
  <1>2. t \in Segments
    BY DEF GoodPlace, Within
  <1>3. /\ new.data \in Seq(Segments) /\ Len(new.data) \in Nat /\ Len(new.data) > 0 /\ new.data[1] = old.data[1]
        /\ \A i \in 1 .. Len(new.data) : new.data[i] = t \/ (i \in 1 .. Len(old.data) /\ new.data[i] = old.data[i])
    <2>1. CASE k <= Len(old.data)
      <3>1. new.data = [old.data EXCEPT ![k] = t] /\ k \in 1 .. Len(old.data) /\ k # 1 /\ 1 \in 1 .. Len(old.data)
        BY <1>1, <2>1 DEF Store
      <3>2. new.data \in Seq(Segments) /\ Len(new.data) = Len(old.data) /\ DOMAIN old.data = 1 .. Len(old.data)
        BY <1>1, <1>2, <3>1
      <3>3. \A i \in 1 .. Len(old.data) : new.data[i] = IF i = k THEN t ELSE old.data[i]
        BY <3>1, <3>2
      <3> QED
        BY <1>1, <3>1, <3>2, <3>3
    <2>2. CASE ~(k <= Len(old.data))
      <3>1. new.data = Append(old.data, t)
        BY <2>2 DEF Store
      <3> QED
        BY <1>1, <1>2, <3>1
    <2> QED
      BY <2>1, <2>2
  <1>4. \A i \in 1 .. Len(new.data) : GoodPlace(new.data[i]) /\ Covers(new.data[i]) \cap GuardedZones(o) = {}
    BY <1>1, <1>3
  <1>5. GoodInode(new) /\ Apart(o, new.data)
    BY <1>1, <1>3, <1>4 DEF GoodInode, Apart
  <1> QED
    BY <1>1, <1>3, <1>5 DEF GoodCopy

\* What did not fit is moved to what stays, where there is room for it.
LEMMA CopyRestStep ==
  ASSUME IInv, CopyRest
  PROVE  IInv'
  <1> DEFINE x  == fs.inode[mv.old]
             b  == main - parts
             d  == mv.data[1]
             bi == Segment(d.sub, d.num + d.cnt, mv.rest.cnt)
             nb == NumberBlocks(x)
             f  == SearchFreeZoneSpecial(bi, nb)
             t  == f.bi
             data == Store(mv.data, x.n + 1, t)
             rest == Segment(mv.rest.sub, mv.rest.num + t.cnt, (mv.rest.cnt - t.cnt - 1) % (CountMax + 1))
             m == [mv EXCEPT !.data = data, !.n = @ + 1, !.rest = rest, !.wrapped = @ \/ t.cnt = mv.rest.cnt]
  <1>a. /\ pc = "copy" /\ mv.rest.cnt # 0
        /\ fs' = fs /\ disk' = disk /\ main' = main /\ backup' = backup /\ present' = present
        /\ lastError' = lastError /\ first' = first /\ parts' = parts /\ stack' = stack /\ stopFlag' = stopFlag
        /\ \/ f = NoSpace /\ pc' = "hung" /\ vol' = vol /\ content' = content /\ mv' = mv
           \/ f # NoSpace /\ content' = Copied(mv.rest, t, t.cnt) /\ vol' = f.vol /\ mv' = m /\ pc' = pc
           \/ /\ f # NoSpace /\ vol' = FreeSegments(f.vol, Data(m)) /\ mv' = m /\ pc' = "failed"
              /\ \E k \in 0 .. t.cnt - 1 : CopyCut(mv.rest, t, k)
    BY DEF CopyRest, supers, Fails, Undone
  <1>b. /\ WellFormed(first) /\ GoodVolume(vol) /\ FreeEnough(vol) /\ GuardedZones(first) \subseteq UsedOf(vol)
        /\ \A z \in GuardedZones(first) : z \in DOMAIN content /\ content[z] = z
        /\ main \in Subs /\ parts \in 0 .. main /\ GoodInode(x) /\ nb \in Int
        /\ b \in Subs /\ lastError = FALSE
        /\ mv = [old |-> mv.old, new |-> mv.new, data |-> mv.data, n |-> mv.n, i |-> mv.i, rest |-> mv.rest, wrapped |-> mv.wrapped]
    BY <1>a, MovingFacts
  <1>c. GoodCopy(first, mv) /\ mv.i \in 1 .. x.n /\ mv.rest \in Segments /\ mv.rest.cnt <= CountMax
    BY <1>a DEF IInv, MoveInv
  <1>d. RoomFor(first, fs, vol, b, main, mv)
    BY <1>a DEF IInv, RoomInv
  <1>e. mv.rest.cnt \in Nat /\ mv.rest.cnt > 0 /\ mv.rest.num \in Nat /\ mv.rest.sub \in Subs
    <2>1. mv.rest \in Segments /\ mv.rest.cnt # 0
      BY <1>a, <1>c
    <2> QED
      BY <2>1 DEF Segments
  <1>f. x.n + 1 \in Nat /\ x.n + 1 > 1 /\ mv.n \in Nat /\ mv.n > 0
    <2>1. x.n \in Nat /\ x.n > 0
      BY <1>b DEF GoodInode
    <2>2. mv.n \in Nat /\ mv.n > 0
      BY <1>c DEF GoodCopy, GoodInode
    <2> HIDE DEF x
    <2> QED
      BY <2>1, <2>2
  <1> HIDE DEF m, rest, data
  <1>g. bi.num \in Nat /\ bi.cnt = mv.rest.cnt /\ bi.cnt \in Nat /\ bi.cnt > 0 /\ bi.cnt <= CountMax
    <2>1. Len(mv.data) > 0 /\ mv.data \in Seq(Segments)
      BY <1>c DEF GoodCopy, GoodInode
    <2>2. d \in Segments
      BY <2>1
    <2>3. d.num \in Nat /\ d.cnt \in Nat
      BY <2>2 DEF Segments
    <2> HIDE DEF d
    <2>4. bi.num = d.num + d.cnt /\ bi.cnt = mv.rest.cnt
      BY DEF Segment
    <2> QED
      BY <1>c, <1>e, <2>3, <2>4
  <1> HIDE DEF d, bi, nb
  <1>h. \/ /\ f # NoSpace /\ Within(f.bi) /\ f.bi.cnt \in 1 .. bi.cnt /\ f.bi.sub \in 0 .. main - parts
           /\ Covers(f.bi) \cap UsedOf(vol) = {} /\ f.vol = Mark(vol, f.bi)
        \/ f = NoSpace /\ \A s \in 0 .. main - parts : vol.used[s] = ZonesOf(s)
    BY <1>b, <1>g, SpecialFinds
  <1> HIDE DEF f
  <1>i. CASE f = NoSpace
    <2>1. \A s \in 0 .. b : vol.used[s] = ZonesOf(s)
      BY <1>h, <1>i
    <2>2. ASSUME ~mv.wrapped, AllGoes(first, fs, mv.old, b, main) PROVE FALSE
      <3>1. Roomy(vol, b, LeftOf(fs.inode[mv.old], mv.i, mv.rest))
        BY <1>d, <2>2 DEF RoomFor
      <3> HIDE DEF b
      <3> QED
        BY <1>b, <2>1, <3>1, RoomyIsNotFull
    <2>3. mv.wrapped \/ ~AllGoes(first, fs, mv.old, main - parts, main)
      BY <2>2
    <2>4. pc' = "hung" /\ vol' = vol /\ content' = content /\ mv' = mv
      BY <1>a, <1>i
    <2> QED
      BY <1>a, <1>b, <2>3, <2>4, MovingStep
  <1>j. CASE f # NoSpace
    <2>1. Within(t) /\ t.cnt \in 1 .. mv.rest.cnt /\ Covers(t) \cap UsedOf(vol) = {} /\ f.vol = Mark(vol, t)
      BY <1>g, <1>h, <1>j
    <2> DEFINE w == Mark(vol, t)
    <2> HIDE DEF t
    <2>2. /\ GoodVolume(w) /\ FreeEnough(w) /\ GuardedZones(first) \subseteq UsedOf(w)
          /\ Covers(t) \cap GuardedZones(first) = {}
      BY <1>b, <2>1, TakesKeep
    <2> HIDE DEF w
    <2>3. t.cnt \in Nat /\ t.cnt <= t.cnt /\ t.cnt <= mv.rest.cnt /\ GoodPlace(t)
      <3>1. t.cnt \in Nat /\ t.cnt <= mv.rest.cnt
        BY <1>e, <2>1
      <3>2. t.cnt <= CountMax
        BY <1>c, <1>e, <3>1, SizeFacts
      <3> QED
        BY <2>1, <3>1, <3>2 DEF GoodPlace
    <2>4. \A z \in GuardedZones(first) : z \in DOMAIN content' /\ content'[z] = z
      <3>1. /\ GoodVolume(vol) /\ GuardedZones(first) \subseteq UsedOf(vol)
            /\ \A z \in GuardedZones(first) : z \in DOMAIN content /\ content[z] = z
            /\ Within(t) /\ Covers(t) \cap UsedOf(vol) = {} /\ t.cnt \in Nat /\ t.cnt <= t.cnt
        BY <1>b, <2>1, <2>3
      <3>2. CASE content' = Copied(mv.rest, t, t.cnt)
        BY <3>1, <3>2, CopiedKeeps
      <3>3. ASSUME NEW k \in 0 .. t.cnt - 1, CopyCut(mv.rest, t, k)
            PROVE  \A z \in GuardedZones(first) : z \in DOMAIN content' /\ content'[z] = z
        <4>1. k \in Nat /\ k < t.cnt
          BY <3>1
        <4> QED
          BY <3>1, <3>3, <4>1, CutKeeps
      <3> QED
        BY <1>a, <1>j, <3>2, <3>3 DEF t
    <2>5. rest \in Segments /\ rest.cnt <= CountMax
      <3> DEFINE left == (mv.rest.cnt - t.cnt - 1) % (CountMax + 1)
      <3>1. left \in Nat /\ left <= CountMax
        BY <1>e, <2>3, SizeFacts
      <3> HIDE DEF left
      <3>2. rest = [sub |-> mv.rest.sub, num |-> mv.rest.num + t.cnt, cnt |-> left]
        BY DEF rest, Segment, left
      <3>3. mv.rest.num + t.cnt \in Nat
        BY <1>e, <2>3
      <3> QED
        BY <1>e, <3>1, <3>2, <3>3 DEF Segments
    <2>6. /\ m = [old |-> m.old, new |-> m.new, data |-> m.data, n |-> m.n, i |-> m.i, rest |-> m.rest, wrapped |-> m.wrapped]
          /\ m.old = mv.old /\ m.new = mv.new /\ m.n = mv.n + 1 /\ m.i = mv.i /\ m.rest = rest /\ m.data = data
          /\ m.wrapped = (mv.wrapped \/ t.cnt = mv.rest.cnt)
      <3> DEFINE n == mv.n + 1
                 g == mv.wrapped \/ t.cnt = mv.rest.cnt
      <3>1. m = [mv EXCEPT !.data = data, !.n = n, !.rest = rest, !.wrapped = g]
        BY DEF m
      <3> HIDE DEF n, g
      <3>2. m = [old |-> mv.old, new |-> mv.new, data |-> data, n |-> n, i |-> mv.i, rest |-> rest, wrapped |-> g]
        BY <3>1, <1>b
      <3> QED
        BY <3>2 DEF n, g
    <2>7. GoodCopy(first, m) /\ m.n > 1
      <3> DEFINE k == x.n + 1
      <3>1. k \in Nat /\ k > 1 /\ m.data = Store(mv.data, k, t)
        BY <1>f, <2>6 DEF data
      <3> HIDE DEF k
      <3> QED
        BY <1>c, <2>2, <2>3, <2>6, <3>1, StoredCopy
    <2>8. m.i \in 1 .. fs.inode[mv.old].n /\ m.rest \in Segments /\ m.rest.cnt <= CountMax
      BY <1>c, <2>5, <2>6, <2>7
    <2>12. RoomFor(first, fs, w, main - parts, main, m)
      <3> SUFFICES ASSUME ~mv.wrapped, t.cnt # mv.rest.cnt, AllGoes(first, fs, mv.old, main - parts, main)
                   PROVE  /\ Roomy(w, main - parts, LeftOf(x, mv.i, rest))
                          /\ Covers(rest) \subseteq Covers(Data(x)[mv.i])
        BY <2>6 DEF RoomFor, x
      <3> DEFINE i == mv.i
                 r == mv.rest
                 Q == Covers(Segment(r.sub, r.num, t.cnt))
                 L == LeftOf(x, i, r)
                 M == LeftOf(x, i, rest)
      <3>1. Roomy(vol, main - parts, L) /\ Covers(r) \subseteq Covers(Data(x)[i])
        BY <1>d DEF RoomFor, x, b
      <3>2. mv.old \in DOMAIN first.inode /\ x = first.inode[mv.old] /\ i \in 1 .. x.n /\ r \in Segments
        BY <1>c DEF AllGoes, x
      <3>3. t.cnt \in 1 .. r.cnt /\ t.cnt # r.cnt /\ r.cnt \in Nat /\ r.cnt <= CountMax /\ CountMax \in Nat
        BY <1>c, <1>e, <2>1, SizeFacts
      <3>4. rest = Segment(r.sub, r.num + t.cnt, r.cnt - t.cnt - 1)
        <4>1. r.cnt - t.cnt - 1 \in 0 .. CountMax
          BY <3>3
        <4>2. (r.cnt - t.cnt - 1) % (CountMax + 1) = r.cnt - t.cnt - 1
          BY <3>3, <4>1
        <4> QED
          BY <4>2 DEF rest
      <3> HIDE DEF i, r
      <3>5. /\ Q \subseteq L /\ Cardinality(Q) = t.cnt /\ M \subseteq L \ Q
            /\ Covers(rest) \subseteq Covers(Data(x)[i])
        <4>1. Parted(x)
          <5>1. WellFormed(first) /\ mv.old \in DOMAIN first.inode /\ x = first.inode[mv.old]
            BY <1>b, <3>2
          <5> HIDE DEF x
          <5> QED
            BY <5>1, PartsOf DEF Parted
        <4>2. /\ Takes(LeftOf(x, i, r), Covers(Segment(r.sub, r.num, t.cnt)), t.cnt,
                       LeftOf(x, i, Segment(r.sub, r.num + t.cnt, r.cnt - t.cnt - 1)))
              /\ Covers(Segment(r.sub, r.num + t.cnt, r.cnt - t.cnt - 1)) \subseteq Covers(Data(x)[i])
          BY <3>1, <3>2, <3>3, <4>1, RestTaken
        <4> QED
          BY <3>4, <4>2 DEF Takes
      <3>6. Cardinality(Q) >= t.cnt
        BY <2>3, <3>5
      <3> HIDE DEF Q, L, M
      <3>7. Roomy(w, main - parts, M)
        BY <1>b, <2>1, <3>1, <3>5, <3>6, RoomyOn DEF w, b
      <3> QED
        BY <3>5, <3>7 DEF M, i
    <2>9. CASE vol' = w /\ mv' = m /\ pc' = "copy"
      BY <1>a, <1>b, <2>2, <2>4, <2>6, <2>7, <2>8, <2>9, <2>12, MovingStep
    <2>10. CASE vol' = FreeSegments(w, Data(m)) /\ mv' = m /\ pc' = "failed"
      <3>1. GoodInode(m) /\ Apart(first, m.data)
        BY <2>7 DEF GoodCopy
      <3>2. /\ GoodVolume(FreeSegments(w, Data(m))) /\ FreeEnough(FreeSegments(w, Data(m)))
            /\ GuardedZones(first) \subseteq UsedOf(FreeSegments(w, Data(m)))
        BY <1>b, <2>2, <3>1, FreesKeep
      <3> QED
        BY <1>a, <1>b, <2>4, <2>6, <2>10, <3>2, MovingStep
    <2>11. f.vol = w
      BY <2>1 DEF w
    <2> QED
      BY <1>a, <1>j, <2>9, <2>10, <2>11
  <1> QED
    BY <1>i, <1>j

\* The entry gets the new inode, and the zones of the old one are free.
LEMMA MoveEndStep ==
  ASSUME IInv, MoveEnd
  PROVE  IInv'
  <1> DEFINE D == Top.dir
             j == Top.j
             x == fs.inode[mv.old]
             node  == [mode |-> "file", data |-> mv.data, n |-> mv.n]
             moved == [inode |-> WithInode(fs.inode, mv.new, node), dir |-> [fs.dir EXCEPT ![D][1][j] = mv.new]]
             freed == FreeSegments(vol, Data(x))
             e     == [inode |-> moved.inode, dir |-> moved.dir, used |-> freed.used]
  <1>a. /\ pc = "segment" /\ fs' = moved /\ vol' = freed /\ disk' \in {disk, e} /\ lastError' = TRUE /\ pc' = "failed"
        /\ content' = content /\ main' = main /\ backup' = backup /\ present' = present
        /\ first' = first /\ parts' = parts /\ stack' = stack /\ mv' = mv /\ stopFlag' = stopFlag
    BY DEF MoveEnd, supers
  <1>b. /\ WellFormed(first) /\ Tree(first, fs) /\ GoodVolume(vol) /\ FreeEnough(vol)
        /\ GuardedZones(first) \subseteq UsedOf(vol)
        /\ fs.inode[mv.old].mode # "dir" /\ mv.old \notin Guarded(first)
        /\ D \in SeenDirs(first) /\ j \in 1 .. Len(fs.dir[D][1]) /\ mv.old = fs.dir[D][1][j]
        /\ GoodInode(x) /\ Apart(first, x.data)
    BY <1>a, MovingFacts
  <1>c. GoodCopy(first, mv)
    BY <1>a DEF IInv, MoveInv
  <1> HIDE DEF D, j, freed
  <1>d. GoodVolume(freed) /\ FreeEnough(freed) /\ GuardedZones(first) \subseteq UsedOf(freed)
    BY <1>b, FreesKeep DEF freed
  <1>e. mv.new \notin Guarded(first)
    <2> DEFINE d == mv.data[1]
    <2>1. /\ Len(mv.data) > 0 /\ mv.data \in Seq(Segments) /\ mv.new = <<d.sub, d.num>> /\ d.cnt > 0
          /\ \A i \in 1 .. Len(mv.data) : Covers(mv.data[i]) \cap GuardedZones(first) = {}
      BY <1>c DEF GoodCopy, GoodInode, Apart
    <2>2. 1 \in 1 .. Len(mv.data)
      BY <2>1
    <2>3. d \in Segments /\ Covers(d) \cap GuardedZones(first) = {}
      BY <2>1, <2>2
    <2> HIDE DEF d
    <2>4. d.num \in Nat /\ d.cnt \in Nat /\ d.cnt > 0
      BY <2>1, <2>3 DEF Segments
    <2>5. d.num \in d.num .. d.num + d.cnt - 1
      BY <2>4
    <2>6. mv.new \in Covers(d)
      BY <2>1, <2>5 DEF Covers
    <2> QED
      BY <1>b, <2>3, <2>6, GuardedFacts
  <1>f. GoodInode(node) /\ node.mode = "file" /\ Apart(first, node.data)
    BY <1>c DEF GoodCopy, GoodInode
  <1> HIDE DEF node
  <1>g. moved.inode = WithInode(fs.inode, mv.new, node) /\ moved.dir = [fs.dir EXCEPT ![D][1][j] = mv.new]
    OBVIOUS
  <1> HIDE DEF moved
  <1>h. fs.inode[fs.dir[D][1][j]].mode # "dir" /\ fs.dir[D][1][j] \notin MainInodes(first)
    BY <1>b DEF Guarded
  <1>i. Tree(first, moved)
    <2> DEFINE new == mv.new
    <2>1. /\ WellFormed(first) /\ Tree(first, fs) /\ D \in SeenDirs(first) /\ j \in 1 .. Len(fs.dir[D][1])
          /\ fs.inode[fs.dir[D][1][j]].mode # "dir" /\ fs.dir[D][1][j] \notin MainInodes(first)
          /\ new \notin Guarded(first) /\ GoodInode(node) /\ node.mode = "file" /\ Apart(first, node.data)
      BY <1>b, <1>e, <1>f, <1>h
    <2>2. moved.inode = WithInode(fs.inode, new, node)
      BY <1>g
    <2>3. moved.dir = WithEntry(fs.dir, D, j, new)
      BY <1>g DEF WithEntry
    <2> HIDE DEF new, x
    <2> QED
      BY <2>1, <2>2, <2>3, TreeMoved
  <1>j. GoodDisk(first, e)
    <2>1. e = [inode |-> e.inode, dir |-> e.dir, used |-> e.used] /\ e.inode = moved.inode /\ e.dir = moved.dir
          /\ e.used = freed.used
      OBVIOUS
    <2> HIDE DEF e
    <2>2. Tree(first, e)
      BY <1>i, <2>1, TreeSame
    <2>3. GoodBits(e.used)
      BY <1>d, <2>1 DEF GoodVolume, GoodBits
    <2>4. UsedOf(e) = UsedOf(freed)
      BY <2>1 DEF UsedOf
    <2> QED
      BY <1>d, <2>1, <2>2, <2>3, <2>4 DEF GoodDisk
  <1> HIDE DEF e, x
  <1>1. SuperInv'
    BY <1>a DEF IInv, SuperInv, Live
  <1>2. DiskInv'
    BY <1>a, <1>j DEF IInv, DiskInv
  <1>3. CacheInv'
    <2>1. GoodCache(first, moved, freed)
      BY <1>d, <1>i DEF GoodCache
    <2> QED
      BY <1>a, <2>1 DEF CacheInv
  <1>4. StackInv'
    BY <1>a DEF IInv, StackInv, Walking
  <1>5. WalkInv'
    BY <1>a DEF WalkInv
  <1>6. EndInv'
    BY <1>a DEF EndInv
  <1>7. MoveInv'
    BY <1>a DEF MoveInv
  <1>8. RoomInv'
    BY <1>a DEF RoomInv
  <1>9. HangInv'
    BY <1>a DEF HangInv
  <1> QED
    BY <1>1, <1>2, <1>3, <1>4, <1>5, <1>6, <1>7, <1>8, <1>9 DEF IInv

LEMMA NextInv ==
  ASSUME IInv, [Next]_vars
  PROVE  IInv'
  <1>1. CASE Next
    <2>1. CASE FsskThread
      BY <2>1, StartStep, CheckRootStep, CheckFileStep, LeaveDirectoryStep, ReadFailsStep, MoveBeginStep,
         MoveBeginFailsStep, SearchFailsStep, MoveSegmentStep, CopyRestStep,
         SegmentMovedStep, MoveEndStep, FlushStep, GiveUpStep, UpdateBackupStep, UpdateMainStep, DeleteSubStep,
         SubsDeletedStep DEF FsskThread
    <2>2. CASE ~FsskThread
      BY <1>1, <2>2, OpenStep, FormatSubsStep, CountSubsStep, CountSubsInBackupStep, OpenFailsStep, CloseStep, StopStep, WriteBackStep,
         CrashStep DEF Next
    <2> QED
      BY <2>1, <2>2
  <1>2. CASE UNCHANGED vars
    <2>a. /\ fs' = fs /\ vol' = vol /\ disk' = disk /\ content' = content /\ main' = main /\ backup' = backup
          /\ present' = present /\ lastError' = lastError /\ first' = first /\ pc' = pc /\ parts' = parts
          /\ stack' = stack /\ mv' = mv /\ stopFlag' = stopFlag
      BY <1>2 DEF vars
    <2>1. SuperInv'
      BY <2>a DEF IInv, SuperInv, Live
    <2>2. DiskInv'
      BY <2>a DEF IInv, DiskInv
    <2>3. CacheInv'
      BY <2>a DEF IInv, CacheInv, Live
    <2>4. StackInv'
      BY <2>a DEF IInv, StackInv, Walking
    <2>5. WalkInv'
      BY <2>a DEF IInv, WalkInv
    <2>6. EndInv'
      BY <2>a DEF IInv, EndInv
    <2>7. MoveInv'
      BY <2>a DEF IInv, MoveInv
    <2>8. RoomInv'
      BY <2>a DEF IInv, RoomInv
    <2>9. HangInv'
      BY <2>a DEF IInv, HangInv
    <2> QED
      BY <2>1, <2>2, <2>3, <2>4, <2>5, <2>6, <2>7, <2>8, <2>9 DEF IInv
  <1> QED
    BY <1>1, <1>2

-----------------------------------------------------------------------------
(* The theorems.                                                           *)

\* The invariant holds in every state.
THEOREM FsskInvariant == Spec => []IInv
  <1>1. Init => IInv
    BY InitInv
  <1>2. IInv /\ [Next]_vars => IInv'
    BY NextInv
  <1> QED
    BY <1>1, <1>2, PTL DEF Spec

\* Whenever the power fails, a mount finds no more sub-partitions counted than
\* there are, in the super block and in its backup.
THEOREM FsskMountable == Spec => []Mountable
  <1>1. IInv => Mountable
    BY DEF IInv, SuperInv, Mountable
  <1> QED
    BY <1>1, FsskInvariant, PTL

\* What lies in the main partition is kept: inodes, zones and contents.
THEOREM FsskUnmovedKept == Spec => []UnmovedKept
  <1>1. IInv => UnmovedKept
    BY KeptWhenInv DEF IInv
  <1> QED
    BY <1>1, FsskInvariant, PTL

\* There is room for all that has to be moved: the thread goes round without end for
\* a file that lies in what is removed, as it was at first and with all its zones,
\* only if a bitmap cannot be read or the count of what is left to copy has wrapped.
THEOREM FsskHangsOnlyOnData == Spec => []HangsOnlyOnData
  <1>1. IInv => HangsOnlyOnData
    BY HangWhenInv DEF IInv
  <1> QED
    BY <1>1, FsskInvariant, PTL

\* The super block stops counting a sub-partition only when nothing is in it.
THEOREM FsskRemovedIsEmpty == Spec => RemovedIsEmpty
  <1> DEFINE Step == main' < main /\ OneSector(first) =>
                        \A x \in Reached(disk) : \A z \in Owned(disk, x) : z[1] <= main'
  <1>1. ASSUME IInv, [Next]_vars PROVE Step
    <2> SUFFICES ASSUME main' < main, OneSector(first)
                 PROVE  \A x \in Reached(disk) : \A z \in Owned(disk, x) : z[1] <= main'
      OBVIOUS
    <2>1. main \in Int /\ present \in Int /\ main <= present
      BY <1>1, SubsInt DEF IInv, SuperInv
    <2>2. main' # main /\ main' # present
      BY <2>1
    <2>3. UpdateMain
      BY <1>1, <2>2 DEF Next, FsskThread, vars, supers, metadata, Open, FormatSubs, CountSubs, CountSubsInBackup, OpenFails, Close,
         Stop, WriteBack, Start, CheckRoot, CheckFile, LeaveDirectory, ReadFails, MoveBegin, MoveBeginFails, SearchFails, MoveSegment, CopyRest, SegmentMoved, MoveEnd,
         Flush, GiveUp, UpdateBackup, DeleteSub, SubsDeleted, Crash
    <2>4. main' = main - parts /\ pc = "main"
      BY <2>3 DEF UpdateMain
    <2> QED
      BY <1>1, <2>4, EmptyWhenInv DEF IInv
  <1>2. [Next]_vars /\ IInv => [Step]_vars
    BY <1>1
  <1> HIDE DEF Step
  <1>3. Spec => [][Step]_vars
    BY <1>2, FsskInvariant, PTL DEF Spec
  <1> QED
    BY <1>3 DEF Step, RemovedIsEmpty

=============================================================================
