--------------------------- MODULE ApaDeleteProofs ---------------------------
(* Lemmas about the chain of headers, for drives of every size: what the    *)
(* walks and the loops of apaDelete compute, and which chain its flushes    *)
(* leave.  Theorems: apaDelete keeps the chain whole and removes nothing    *)
(* but its victim, however often the power fails.                          *)
EXTENDS ApaDelete, FiniteSetTheorems, WellFoundedInduction, TLAPS

-----------------------------------------------------------------------------
(* Minima and induction.                                                   *)

LEMMA MinFacts ==
  ASSUME NEW S, S \subseteq Nat, S # {}
  PROVE  Min(S) \in S /\ \A y \in S : Min(S) <= y
  <1> DEFINE R == OpToRel(<, Nat)
  <1>1. IsWellFoundedOn(R, Nat)
    BY NatLessThanWellFounded
  <1>2. \A x, y \in Nat : x < y => <<x, y>> \in R
    BY DEF OpToRel
  <1> HIDE DEF R
  <1>3. PICK x \in S : \A y \in S : ~(<<y, x>> \in R)
    BY <1>1, WFMin
  <1>4. ASSUME NEW y \in S PROVE x <= y
    <2>1. x \in Nat /\ y \in Nat /\ ~(y < x)
      BY <1>2, <1>3
    <2> QED
      BY <2>1
  <1>5. Min(S) = CHOOSE x1 \in S : \A y \in S : x1 <= y
    BY DEF Min
  <1> QED
    BY <1>4, <1>5

LEMMA MaxFacts ==
  ASSUME NEW n \in Nat, NEW S, S \subseteq 0 .. n, S # {}
  PROVE  Max(S) \in S /\ \A y \in S : y <= Max(S)
  <1> DEFINE T == {n - x : x \in S}
  <1>0. \A x \in S : x \in 0 .. n
    OBVIOUS
  <1>1. T \subseteq Nat /\ T # {}
    <2>1. \A x \in S : n - x \in Nat
      BY <1>0
    <2>2. T # {}
      OBVIOUS
    <2> QED
      BY <2>1, <2>2
  <1>2. Min(T) \in T /\ \A y \in T : Min(T) <= y
    BY <1>1, MinFacts
  <1>3. PICK x \in S : Min(T) = n - x
    BY <1>2
  <1>4. ASSUME NEW y \in S PROVE y <= x
    <2>1. Min(T) <= n - y
      BY <1>2
    <2>2. x \in 0 .. n /\ y \in 0 .. n
      BY <1>0
    <2> QED
      BY <2>1, <2>2, <1>3
  <1>5. Max(S) = CHOOSE x1 \in S : \A y \in S : x1 >= y
    BY DEF Max
  <1>6. \E x1 \in S : \A y \in S : x1 >= y
    BY <1>4
  <1>7. Max(S) \in S /\ \A y \in S : Max(S) >= y
    BY <1>5, <1>6
  <1> QED
    BY <1>7

LEMMA Induction ==
  ASSUME NEW S, 0 \in S, \A n \in Nat : n \in S => n + 1 \in S
  PROVE  Nat \subseteq S
  <1> SUFFICES ASSUME Nat \ S # {} PROVE FALSE
    OBVIOUS
  <1> DEFINE m == Min(Nat \ S)
  <1>1. m \in Nat \ S /\ \A y \in Nat \ S : m <= y
    BY MinFacts
  <1> HIDE DEF m
  <1>2. m - 1 \in Nat /\ m - 1 \notin Nat \ S
    BY <1>1
  <1> QED
    BY <1>1, <1>2

-----------------------------------------------------------------------------
(* Loops.                                                                  *)

LEMMA TurnsUnfold ==
  ASSUME NEW turn, NEW x
  PROVE  /\ Turns(turn, x, 0) = x
         /\ \A n \in Nat : Turns(turn, x, n + 1) = turn[Turns(turn, x, n)]
  <1> DEFINE Fits(g, n) == g = [k \in 0 .. n |-> IF k = 0 THEN x ELSE turn[g[k - 1]]]
             G(n) == CHOOSE g : Fits(g, n)
             S == {n \in Nat : \E g : Fits(g, n)}
  <1>1. Nat \subseteq S
    <2>1. 0 \in S
      <3> DEFINE g == [k \in 0 .. 0 |-> x]
      <3>1. Fits(g, 0)
        OBVIOUS
      <3> QED
        BY <3>1
    <2>2. ASSUME NEW n \in Nat, n \in S PROVE n + 1 \in S
      <3>1. PICK g : Fits(g, n)
        BY <2>2
      <3> DEFINE h == [k \in 0 .. n + 1 |-> IF k = n + 1 THEN turn[g[n]] ELSE g[k]]
      <3>2. \A k \in 0 .. n : h[k] = g[k]
        OBVIOUS
      <3>3. \A k \in 0 .. n : g[k] = IF k = 0 THEN x ELSE turn[g[k - 1]]
        BY <3>1
      <3>4. h[n + 1] = turn[g[n]]
        OBVIOUS
      <3>a. h = [k \in 0 .. n + 1 |-> h[k]]
        OBVIOUS
      <3> HIDE DEF h
      <3>5. \A k \in 0 .. n + 1 : h[k] = IF k = 0 THEN x ELSE turn[h[k - 1]]
        <4> TAKE k \in 0 .. n + 1
        <4>1. CASE k = n + 1
          <5>1. k - 1 = n /\ k # 0 /\ n \in 0 .. n
            BY <4>1
          <5> QED
            BY <5>1, <4>1, <3>2, <3>4
        <4>2. CASE k \in 1 .. n
          <5>1. k - 1 \in 0 .. n /\ k \in 0 .. n /\ k # 0
            BY <4>2
          <5> QED
            BY <5>1, <3>2, <3>3
        <4>3. CASE k = 0
          <5>1. 0 \in 0 .. n
            OBVIOUS
          <5> QED
            BY <5>1, <4>3, <3>2, <3>3
        <4> QED
          BY <4>1, <4>2, <4>3
      <3>6. Fits(h, n + 1)
        BY <3>5, <3>a
      <3> QED
        BY <3>6
    <2> HIDE DEF S
    <2> QED
      BY <2>1, <2>2, Induction
  <1>2. ASSUME NEW n \in Nat
        PROVE  \A k \in 0 .. n : G(n)[k] = IF k = 0 THEN x ELSE turn[G(n)[k - 1]]
    <2>1. \E g : Fits(g, n)
      BY <1>1
    <2>2. Fits(G(n), n)
      BY <2>1
    <2> HIDE DEF G
    <2> QED
      BY <2>2
  <1> HIDE DEF G
  <1> DEFINE f == [n \in Nat |-> G(n)[n]]
             U == {k \in Nat : \A n \in Nat : k <= n => G(n)[k] = f[k]}
  <1>3. Nat \subseteq U
    <2>1. 0 \in U
      <3> SUFFICES ASSUME NEW n \in Nat PROVE G(n)[0] = G(0)[0]
        OBVIOUS
      <3>1. 0 \in 0 .. n /\ 0 \in 0 .. 0
        OBVIOUS
      <3> QED
        BY <3>1, <1>2
    <2>2. ASSUME NEW k \in Nat, k \in U PROVE k + 1 \in U
      <3> SUFFICES ASSUME NEW n \in Nat, k + 1 <= n PROVE G(n)[k + 1] = G(k + 1)[k + 1]
        OBVIOUS
      <3>1. k + 1 \in 0 .. n /\ k + 1 \in 0 .. k + 1 /\ (k + 1) - 1 = k /\ k + 1 # 0 /\ k + 1 \in Nat
        OBVIOUS
      <3>2. G(n)[k + 1] = turn[G(n)[k]] /\ G(k + 1)[k + 1] = turn[G(k + 1)[k]]
        BY <3>1, <1>2
      <3>3. G(n)[k] = f[k] /\ G(k + 1)[k] = f[k]
        BY <2>2, <3>1
      <3> QED
        BY <3>2, <3>3
    <2> HIDE DEF U
    <2> QED
      BY <2>1, <2>2, Induction
  <1>4. f = [n \in Nat |-> IF n = 0 THEN x ELSE turn[f[n - 1]]]
    <2>1. ASSUME NEW n \in Nat PROVE f[n] = IF n = 0 THEN x ELSE turn[f[n - 1]]
      <3>1. n \in 0 .. n
        OBVIOUS
      <3>2. f[n] = IF n = 0 THEN x ELSE turn[G(n)[n - 1]]
        BY <3>1, <1>2
      <3>3. n # 0 => G(n)[n - 1] = f[n - 1]
        <4> SUFFICES ASSUME n # 0 PROVE G(n)[n - 1] = f[n - 1]
          OBVIOUS
        <4>1. n - 1 \in Nat /\ n - 1 <= n
          OBVIOUS
        <4>2. n - 1 \in U
          BY <4>1, <1>3
        <4> QED
          BY <4>1, <4>2
      <3> QED
        BY <3>2, <3>3
    <2>2. f = [n \in Nat |-> f[n]]
      OBVIOUS
    <2> HIDE DEF f
    <2> QED
      BY <2>1, <2>2
  <1> HIDE DEF f, U
  <1> DEFINE after == CHOOSE g : g = [n \in Nat |-> IF n = 0 THEN x ELSE turn[g[n - 1]]]
  <1>5. after = [n \in Nat |-> IF n = 0 THEN x ELSE turn[after[n - 1]]]
    BY <1>4
  <1>6. \A n : Turns(turn, x, n) = after[n]
    BY DEF Turns
  <1> HIDE DEF after
  <1>7. \A n \in Nat : after[n] = IF n = 0 THEN x ELSE turn[after[n - 1]]
    BY <1>5
  <1>8. after[0] = x
    BY <1>7
  <1>9. ASSUME NEW n \in Nat PROVE after[n + 1] = turn[after[n]]
    <2>1. n + 1 \in Nat /\ n + 1 # 0 /\ (n + 1) - 1 = n
      OBVIOUS
    <2> QED
      BY <2>1, <1>7
  <1> QED
    BY <1>6, <1>8, <1>9

\* A loop leaves its locals where its turns lead.
LEMMA TurnsStay ==
  ASSUME NEW turn, NEW S, NEW x \in S, \A y \in S : turn[y] \in S, NEW n \in Nat
  PROVE  Turns(turn, x, n) \in S
  <1> DEFINE T == {k \in Nat : Turns(turn, x, k) \in S}
  <1>1. 0 \in T
    BY TurnsUnfold
  <1>2. ASSUME NEW k \in Nat, k \in T PROVE k + 1 \in T
    <2>1. Turns(turn, x, k) \in S
      BY <1>2
    <2>2. Turns(turn, x, k + 1) \in S
      BY <2>1, TurnsUnfold
    <2> QED
      BY <2>2
  <1> HIDE DEF T
  <1>3. Nat \subseteq T
    BY <1>1, <1>2, Induction
  <1> QED
    BY <1>3 DEF T

-----------------------------------------------------------------------------
(* Chains.                                                                 *)

IsHeader(h) ==
    /\ h = Header(h, h.next, h.prev, h.len)
    /\ h.next \in Addr /\ h.prev \in Addr /\ h.len \in 1 .. Units
    /\ h.type # "unreadable"

IsDrive(d) ==
    /\ d = [a \in Addr |-> d[a]]
    /\ \A a \in Addr : d[a] = Bad \/ IsHeader(d[a])

\* C is the set of the headers of a chain that leads from the MBR to the last
\* partition and back, through partitions that lie one after the other.
IsChain(d, C) ==
    /\ C \subseteq Addr /\ 0 \in C /\ d[0].type = "mbr"
    /\ \A a \in C :
          /\ IsHeader(d[a])
          /\ d[a].next \in C /\ d[d[a].next].prev = a
          /\ d[a].prev \in C /\ d[d[a].prev].next = a
          /\ d[a].next # 0 => d[a].next = a + d[a].len
          /\ a + d[a].len <= Units
    /\ \A x, y \in C : x < y => d[x].next \in 1 .. y

Whole(d) == IsDrive(d) /\ IsChain(d, Reached(d, "next"))

LEMMA SizeFacts == Units \in Nat /\ Units >= 2 /\ Addr \subseteq Nat /\ Bits \in Nat
  BY ChainAssumption DEF Addr

LEMMA HeaderReadable ==
  ASSUME NEW d, IsDrive(d), NEW a \in Addr, IsHeader(d[a])
  PROVE  Readable(d, a)
  BY DEF Readable, IsHeader, IsDrive, Bad

LEMMA FollowTurn ==
  ASSUME NEW d, NEW a \in Nat, NEW S \in SUBSET Nat
  PROVE  Follow(d, "next")[<<a, S>>] =
             IF a \in S THEN <<a, S>>
             ELSE <<IF Readable(d, a) THEN d[a].next ELSE a, S \cup {a}>>
  BY DEF Follow

\* The walk from the MBR meets the whole chain and nothing else.
LEMMA ReachedIsChain ==
  ASSUME NEW d, NEW C, IsDrive(d), IsChain(d, C)
  PROVE  Reached(d, "next") = C
  <1> DEFINE walk(n) == Turns(Follow(d, "next"), <<0, {}>>, n)
             Below(a) == {x \in C : x < a}
             S == {n \in Nat : \/ walk(n)[1] \in C /\ walk(n) = <<walk(n)[1], Below(walk(n)[1])>> /\ n <= walk(n)[1]
                               \/ walk(n) = <<0, C>>}
  <1>0. C \subseteq Nat /\ 0 \in C /\ C \subseteq Addr
    BY SizeFacts DEF IsChain
  <1>1. \A n \in Nat : walk(n + 1) = Follow(d, "next")[walk(n)]
    BY TurnsUnfold
  <1>2. 0 \in S
    <2>1. walk(0) = <<0, {}>>
      BY TurnsUnfold
    <2>2. Below(0) = {}
      <3>1. \A x \in C : ~(x < 0)
        BY <1>0
      <3> QED
        BY <3>1
    <2> HIDE DEF walk, Below
    <2> QED
      BY <2>1, <2>2, <1>0
  <1> HIDE DEF walk
  <1>3. ASSUME NEW n \in Nat, n \in S PROVE n + 1 \in S
    <2>1. CASE walk(n) = <<0, C>>
      <3>0. C \in SUBSET Nat /\ 0 \in Nat
        BY <1>0
      <3>1. Follow(d, "next")[<<0, C>>] = <<0, C>>
        BY <3>0, <1>0, FollowTurn
      <3>2. walk(n + 1) = walk(n)
        BY <3>1, <2>1, <1>1
      <3> QED
        BY <3>2, <2>1
    <2>2. CASE walk(n)[1] \in C /\ walk(n) = <<walk(n)[1], Below(walk(n)[1])>> /\ n <= walk(n)[1]
      <3> DEFINE a == walk(n)[1]
                 b == d[a].next
      <3>1. a \in C /\ walk(n) = <<a, Below(a)>> /\ n <= a /\ a \in Nat
        BY <2>2, <1>0
      <3> HIDE DEF a
      <3>2. Below(a) \in SUBSET Nat /\ a \notin Below(a)
        <4>1. Below(a) \subseteq C /\ ~(a < a)
          BY <3>1
        <4> QED
          BY <4>1, <1>0
      <3> HIDE DEF Below
      <3>3. Readable(d, a)
        BY <3>1, <1>0, HeaderReadable DEF IsChain
      <3>4. walk(n + 1) = <<b, Below(a) \cup {a}>>
        <4>1. Follow(d, "next")[<<a, Below(a)>>] = <<d[a].next, Below(a) \cup {a}>>
          BY <3>1, <3>2, <3>3, FollowTurn
        <4> QED
          BY <4>1, <3>1, <1>1
      <3>5. b \in C /\ b \in Nat
        BY <3>1, <1>0 DEF IsChain
      <3>6. \A x \in C : x > a => b \in 1 .. x
        BY <3>1 DEF IsChain
      <3>7. b # 0 => b > a
        <4>1. b # 0 => b = a + d[a].len
          BY <3>1 DEF IsChain
        <4>2. d[a].len \in 1 .. Units
          BY <3>1 DEF IsChain, IsHeader
        <4> QED
          BY <4>1, <4>2, <3>1
      <3> HIDE DEF b
      <3>8. CASE b = 0
        <4>1. Below(a) \cup {a} = C
          <5>1. \A x \in C : x \in Nat /\ ~(x > a)
            BY <3>6, <3>8, <1>0
          <5>2. \A x \in C : x < a \/ x = a
            BY <5>1, <3>1
          <5> QED
            BY <5>2, <3>1 DEF Below
        <4>2. walk(n + 1) = <<0, C>>
          BY <4>1, <3>4, <3>8
        <4> HIDE DEF Below
        <4> QED
          BY <4>2
      <3>9. CASE b # 0
        <4>1. Below(a) \cup {a} = Below(b)
          <5>1. \A x \in C : (x < a \/ x = a) <=> x < b
            <6> TAKE x \in C
            <6>1. x \in Nat /\ (x > a => b <= x)
              BY <1>0, <3>6
            <6> QED
              BY <6>1, <3>1, <3>5, <3>7, <3>9
          <5> QED
            BY <5>1, <3>1 DEF Below
        <4>2. n + 1 <= b
          BY <3>1, <3>5, <3>7, <3>9
        <4>3. walk(n + 1) = <<b, Below(b)>>
          BY <4>1, <3>4
        <4>4. walk(n + 1)[1] = b
          BY <4>3
        <4> QED
          BY <4>2, <4>3, <4>4, <3>5 DEF S
      <3> QED
        BY <3>8, <3>9
    <2> QED
      BY <1>3, <2>1, <2>2
  <1>4. Units + 1 \in S
    <2> HIDE DEF S
    <2>1. Nat \subseteq S
      BY <1>2, <1>3, Induction
    <2> QED
      BY <2>1, SizeFacts
  <1>5. walk(Units + 1) = <<0, C>>
    <2>1. \A a \in C : a < Units
      BY <1>0, SizeFacts DEF Addr
    <2>2. \A a \in C : ~(Units + 1 <= a)
      BY <2>1, <1>0, SizeFacts
    <2> QED
      BY <2>2, <1>4
  <1> QED
    BY <1>5 DEF Reached, walk

LEMMA ChainIsWhole ==
  ASSUME NEW d, NEW C, IsDrive(d), IsChain(d, C)
  PROVE  Whole(d) /\ Reached(d, "next") = C
  BY ReachedIsChain DEF Whole

LEMMA WholeIsConsistent ==
  ASSUME NEW d, Whole(d)
  PROVE  Consistent(d)
  <1> DEFINE C == Reached(d, "next")
  <1>1. IsDrive(d) /\ IsChain(d, C)
    BY DEF Whole
  <1> HIDE DEF C
  <1>2. \A a \in C : Readable(d, a)
    BY <1>1, HeaderReadable DEF IsChain
  <1> QED
    BY <1>1, <1>2 DEF Consistent, IsChain, C
-----------------------------------------------------------------------------
(* What a flush makes of a chain.                                          *)

\* The links of a chain go up, down, and round at the end.
LEMMA ChainLinks ==
  ASSUME NEW d, NEW C, IsChain(d, C), NEW a \in C
  PROVE  /\ a \in Nat /\ a < Units
         /\ d[a].next \in C /\ d[a].next \in Nat /\ d[d[a].next].prev = a
         /\ d[a].prev \in C /\ d[a].prev \in Nat /\ d[d[a].prev].next = a
         /\ d[a].len \in 1 .. Units /\ a + d[a].len <= Units
         /\ d[a].next # 0 => d[a].next = a + d[a].len /\ a < d[a].next
         /\ a # 0 => d[a].prev + d[d[a].prev].len = a /\ d[a].prev < a
         /\ \A y \in C : a < y => d[a].next # 0 /\ d[a].next <= y
         /\ \A y \in C : y < a => d[y].next # 0 /\ d[y].next <= a
         /\ \A y \in C : d[a].prev < y => y >= a \/ a = 0
  <1>0. C \subseteq Addr /\ Addr \subseteq Nat /\ \A x \in C : x \in Nat /\ x < Units
    BY SizeFacts DEF IsChain, Addr
  <1>1. a \in Nat /\ a < Units
    BY <1>0
  <1>2. d[a].next \in C /\ d[a].next \in Nat /\ d[d[a].next].prev = a
    BY <1>0 DEF IsChain
  <1>3. d[a].prev \in C /\ d[a].prev \in Nat /\ d[d[a].prev].next = a
    BY <1>0 DEF IsChain
  <1>4. \A x \in C : d[x].len \in 1 .. Units /\ x + d[x].len <= Units
    BY DEF IsChain, IsHeader
  <1>5. \A x \in C : d[x].next # 0 => d[x].next = x + d[x].len
    BY DEF IsChain
  <1>6. \A x, y \in C : x < y => d[x].next \in 1 .. y
    BY DEF IsChain
  <1>7. d[a].next # 0 => d[a].next = a + d[a].len /\ a < d[a].next
    BY <1>1, <1>4, <1>5
  <1>8. a # 0 => d[a].prev + d[d[a].prev].len = a /\ d[a].prev < a
    BY <1>1, <1>3, <1>4, <1>5
  <1>9. \A x, y \in C : x < y => d[x].next # 0 /\ d[x].next <= y
    BY <1>0, <1>6
  <1>10. \A y \in C : d[a].prev < y => y >= a \/ a = 0
    BY <1>0, <1>3, <1>9
  <1> QED
    BY <1>1, <1>2, <1>3, <1>4, <1>7, <1>8, <1>9, <1>10

\* A partition at a takes all up to n.
Without(C, a, n) == {x \in C : x <= a \/ x >= n}

LEMMA Splice ==
  ASSUME NEW d, NEW C, IsChain(d, C),
         NEW a \in C, NEW n \in C, a # 0, a < n,
         NEW e, \A x \in C : x # a /\ x # n => e[x] = d[x],
         IsHeader(e[a]), e[a].next = n, e[a].prev = d[a].prev, e[a].len = n - a,
         IsHeader(e[n]), e[n].next = d[n].next, e[n].prev = a, e[n].len = d[n].len
  PROVE  IsChain(e, Without(C, a, n))
  <1> DEFINE W == Without(C, a, n)
  <1>1. \A x \in W : x \in C /\ x \in Nat /\ (x <= a \/ x >= n)
    BY ChainLinks DEF Without
  <1>2. a \in Nat /\ n \in Nat /\ 0 \in C /\ C \subseteq Addr /\ d[0].type = "mbr"
    BY ChainLinks DEF IsChain
  <1>3. \A x \in C : x \in Nat /\ (x <= a \/ x >= n => x \in W)
    BY ChainLinks DEF Without
  <1> HIDE DEF W
  <1>4. W \subseteq Addr /\ 0 \in W /\ e[0].type = "mbr" /\ a \in W /\ n \in W
    BY <1>1, <1>2, <1>3
  <1>5. ASSUME NEW x \in W
        PROVE  e[x].next \in W /\ e[e[x].next].prev = x
    <2>0. x \in C /\ x \in Nat /\ (x <= a \/ x >= n)
      BY <1>1
    <2>1. CASE x = a
      BY <2>1, <1>4
    <2>2. CASE x = n
      <3>1. d[n].next = 0 \/ d[n].next > n
        BY ChainLinks
      <3>2. d[n].next \in C /\ d[d[n].next].prev = n
        BY ChainLinks
      <3>3. d[n].next \in W /\ d[n].next # a /\ d[n].next # n
        BY <3>1, <3>2, <1>2, <1>3
      <3> QED
        BY <2>2, <3>2, <3>3
    <2>3. CASE x < a
      <3>1. d[x].next \in C /\ d[x].next <= a /\ d[d[x].next].prev = x /\ d[x].next \in Nat
        BY <2>0, <2>3, ChainLinks
      <3>2. e[x] = d[x] /\ d[x].next \in W /\ d[x].next # n
        BY <2>0, <2>3, <3>1, <1>2, <1>3
      <3> QED
        BY <3>1, <3>2
    <2>4. CASE x > n
      <3>1. d[x].next \in C /\ (d[x].next = 0 \/ d[x].next > x) /\ d[d[x].next].prev = x
        BY <2>0, ChainLinks
      <3>2. e[x] = d[x] /\ d[x].next \in W /\ d[x].next # n /\ d[x].next # a
        BY <2>0, <2>4, <3>1, <1>2, <1>3
      <3> QED
        BY <3>1, <3>2
    <2> QED
      BY <2>0, <2>1, <2>2, <2>3, <2>4, <1>2
  <1>6. ASSUME NEW x \in W
        PROVE  e[x].prev \in W /\ e[e[x].prev].next = x
    <2>0. x \in C /\ x \in Nat /\ (x <= a \/ x >= n)
      BY <1>1
    <2>1. CASE x = n
      BY <2>1, <1>4
    <2> DEFINE z == d[x].prev
    <2>2. z \in C /\ z \in Nat /\ d[z].next = x /\ (x # 0 => z < x)
      BY <2>0, ChainLinks
    <2>3. ~(a < z /\ z < n /\ x # n)
      <3>1. z < n => d[z].next # 0 /\ d[z].next <= n
        BY <2>2, ChainLinks
      <3> QED
        BY <3>1, <2>0, <2>2, <1>2
    <2>4. ~(z = a /\ x # n)
      <3>1. z < n => d[z].next # 0 /\ d[z].next <= n
        BY <2>2, ChainLinks
      <3> QED
        BY <3>1, <2>0, <2>2, <1>2
    <2>5. x # n => z \in W /\ e[z].next = d[z].next
      BY <2>2, <2>3, <2>4, <1>2, <1>3
    <2>6. x # n => e[x].prev = z
      BY <2>0
    <2> QED
      BY <2>1, <2>2, <2>5, <2>6
  <1>7. ASSUME NEW x \in W
        PROVE  /\ e[x].next # 0 => e[x].next = x + e[x].len
               /\ x + e[x].len <= Units
    <2>0. x \in C /\ (d[x].next # 0 => d[x].next = x + d[x].len) /\ x + d[x].len <= Units
      BY <1>1, ChainLinks
    <2>1. CASE x = a
      <3>1. n < Units
        BY ChainLinks
      <3> QED
        BY <3>1, <2>1, <1>2, SizeFacts
    <2>2. CASE x # a
      <3>1. e[x].next = d[x].next /\ e[x].len = d[x].len
        BY <2>0, <2>2
      <3> QED
        BY <2>0, <3>1
    <2> QED
      BY <2>1, <2>2
  <1>8. \A x \in W : IsHeader(e[x])
    BY <1>1 DEF IsChain
  <1>9. ASSUME NEW x \in W, NEW y \in W, x < y PROVE e[x].next \in 1 .. y
    <2>0. x \in C /\ y \in C /\ x \in Nat /\ y \in Nat /\ (y <= a \/ y >= n)
      BY <1>1
    <2>1. CASE x = a
      BY <2>0, <2>1, <1>2, <1>9
    <2>2. CASE x # a
      <3>1. e[x].next = d[x].next
        BY <2>0, <2>2
      <3> QED
        BY <3>1, <2>0, <1>9 DEF IsChain
    <2> QED
      BY <2>1, <2>2
  <1> QED
    BY <1>4, <1>5, <1>6, <1>7, <1>8, <1>9 DEF IsChain, W
-----------------------------------------------------------------------------
(* apaDeleteFixPrev and apaDeleteFixNext.                                  *)

LEMMA GrownIsDrive ==
  ASSUME NEW d, IsDrive(d), NEW p \in Addr, NEW n \in Addr, p # n,
         IsHeader(d[p]), IsHeader(d[n]), NEW len \in 1 .. Units, p + len = n
  PROVE  LET e == Grown(d, p, len, n)
         IN  /\ IsDrive(e)
             /\ \A x \in Addr : x # p /\ x # n => e[x] = d[x]
             /\ IsHeader(e[p]) /\ e[p].next = n /\ e[p].prev = d[p].prev /\ e[p].len = len
             /\ e[p].type = d[p].type
             /\ IsHeader(e[n]) /\ e[n].next = d[n].next /\ e[n].prev = p /\ e[n].len = d[n].len
             /\ e[n].type = d[n].type
  <1> DEFINE e == Grown(d, p, len, n)
             hp == Header(d[p], n, d[p].prev, len)
             hn == Header(d[n], d[n].next, p, d[n].len)
  <1>1. /\ IsHeader(hp) /\ hp.next = n /\ hp.prev = d[p].prev /\ hp.len = len
        /\ hp.type = d[p].type
    BY DEF IsHeader, Header
  <1>2. /\ IsHeader(hn) /\ hn.next = d[n].next /\ hn.prev = p /\ hn.len = d[n].len
        /\ hn.type = d[n].type
    BY DEF IsHeader, Header
  <1>3. d = [a \in Addr |-> d[a]] /\ \A a \in Addr : d[a] = Bad \/ IsHeader(d[a])
    BY DEF IsDrive
  <1>4. e[p] = hp
    <2>1. e[p] = [[d[p] EXCEPT !.len = len] EXCEPT !.next = n]
      BY <1>3 DEF Grown
    <2>2. d[p] = Header(d[p], d[p].next, d[p].prev, d[p].len)
      BY DEF IsHeader
    <2> QED
      BY <2>1, <2>2 DEF Header
  <1>5. e[n] = hn
    <2>1. e[n] = [d[n] EXCEPT !.prev = p]
      BY <1>3 DEF Grown
    <2>2. d[n] = Header(d[n], d[n].next, d[n].prev, d[n].len)
      BY DEF IsHeader
    <2> QED
      BY <2>1, <2>2 DEF Header
  <1>6. \A x \in Addr : x # p /\ x # n => e[x] = d[x]
    BY <1>3 DEF Grown
  <1>7. e = [a \in Addr |-> e[a]]
    BY <1>3 DEF Grown
  <1> HIDE DEF hp, hn
  <1>8. IsDrive(e)
    BY <1>1, <1>2, <1>3, <1>4, <1>5, <1>6, <1>7 DEF IsDrive
  <1> HIDE DEF e
  <1>9. /\ IsDrive(e)
        /\ \A x \in Addr : x # p /\ x # n => e[x] = d[x]
        /\ IsHeader(e[p]) /\ e[p].next = n /\ e[p].prev = d[p].prev /\ e[p].len = len
        /\ e[p].type = d[p].type
        /\ IsHeader(e[n]) /\ e[n].next = d[n].next /\ e[n].prev = p /\ e[n].len = d[n].len
        /\ e[n].type = d[n].type
    BY <1>1, <1>2, <1>4, <1>5, <1>6, <1>8
  <1> QED
    BY <1>9 DEF e

\* Where the loop of apaDeleteFixPrev may be.
Back(d, C, a) ==
    {g \in C \X (1 .. Units) :
        /\ g[1] # 0 /\ g[1] <= a /\ g[1] + g[2] = a + d[a].len
        /\ \A x \in C : g[1] <= x /\ x < a => IsFree(d[x])}

LEMMA GrowBackStays ==
  ASSUME NEW d, NEW C, IsChain(d, C), NEW a \in C, a # 0, NEW g \in Back(d, C, a)
  PROVE  GrowBack(d)[g] \in Back(d, C, a)
  <1>1. PICK p \in C, len \in 1 .. Units : g = <<p, len>>
    BY DEF Back
  <1>2. /\ p # 0 /\ p <= a /\ p + len = a + d[a].len
        /\ \A x \in C : p <= x /\ x < a => IsFree(d[x])
    BY <1>1 DEF Back
  <1> DEFINE q == d[p].prev
             l == d[q].len
  <1>3. /\ q \in C /\ q \in Nat /\ q + l = p /\ q < p /\ l \in 1 .. Units
        /\ \A y \in C : q < y => y >= p
    BY <1>2, ChainLinks
  <1>4. /\ p \in Nat /\ a \in Nat /\ d[a].len \in 1 .. Units /\ a + d[a].len <= Units
        /\ \A x \in C : x \in Nat
    BY ChainLinks
  <1>5. d[0].type = "mbr" /\ <<p, len>> \in Nat \X Nat
    BY <1>4 DEF IsChain
  <1> DEFINE test == p # 0 /\ Readable(d, q) /\ IsFree(d[q]) /\ Mergeable(q, l + len)
  <1>6. GrowBack(d)[<<p, len>>] = IF test THEN <<q, l + len>> ELSE <<p, len>>
    BY <1>5 DEF GrowBack
  <1>7. CASE ~test
    BY <1>1, <1>6, <1>7
  <1>8. CASE test
    <2>1. q # 0 /\ IsFree(d[q])
      BY <1>5, <1>8 DEF IsFree
    <2> HIDE DEF q, l, test
    <2>2. q <= a /\ q + (l + len) = a + d[a].len
      BY <1>2, <1>3, <1>4
    <2>3. l + len \in 1 .. Units
      BY <2>2, <1>3, <1>4, SizeFacts
    <2>4. ASSUME NEW x \in C, q <= x, x < a PROVE IsFree(d[x])
      <3>1. x = q \/ p <= x
        BY <2>4, <1>3, <1>4
      <3> QED
        BY <3>1, <2>1, <2>4, <1>2
    <2>5. <<q, l + len>> \in Back(d, C, a)
      BY <2>1, <2>2, <2>3, <2>4, <1>3 DEF Back
    <2> QED
      BY <2>5, <1>1, <1>6, <1>8
  <1> QED
    BY <1>7, <1>8

\* It takes free partitions only, one after the other, and writes if it has taken any.
LEMMA FixPrevTakes ==
  ASSUME NEW d, NEW C, IsDrive(d), IsChain(d, C), NEW a \in C, a # 0
  PROVE  LET f == FixPrev(d, a)
         IN  /\ f.ok /\ f.addr \in C /\ f.addr # 0 /\ f.addr <= a
             /\ \A x \in C : f.addr <= x /\ x < a => IsFree(d[x])
             /\ f.addr = a => f.mem = d /\ f.dirty = {}
             /\ f.addr < a => /\ f.mem = Grown(d, f.addr, a + d[a].len - f.addr, d[a].next)
                              /\ f.dirty = {f.addr, d[a].next}
  <1> DEFINE g == Turns(GrowBack(d), <<a, d[a].len>>, Units)
             n == d[a].next
  <1>1. /\ a \in Nat /\ d[a].len \in 1 .. Units /\ n \in C /\ \A x \in C : x \in Nat
        /\ C \subseteq Addr
    BY ChainLinks DEF IsChain
  <1>2. <<a, d[a].len>> \in Back(d, C, a)
    BY <1>1 DEF Back
  <1>3. g \in Back(d, C, a)
    BY <1>2, GrowBackStays, TurnsStay, SizeFacts
  <1> HIDE DEF g
  <1>4. PICK p \in C, len \in 1 .. Units : g = <<p, len>>
    BY <1>3 DEF Back
  <1>5. /\ p # 0 /\ p <= a /\ p + len = a + d[a].len
        /\ \A x \in C : p <= x /\ x < a => IsFree(d[x])
    BY <1>3, <1>4 DEF Back
  <1>6. Readable(d, d[p].prev) /\ Readable(d, n)
    <2>1. d[p].prev \in C
      BY ChainLinks
    <2> QED
      BY <2>1, <1>1, HeaderReadable DEF IsChain
  <1>7. FixPrev(d, a) =
            IF g[2] = d[a].len THEN [ok |-> TRUE, addr |-> g[1], mem |-> d, dirty |-> {}]
            ELSE [ok |-> TRUE, addr |-> g[1], mem |-> Grown(d, g[1], g[2], n), dirty |-> {g[1], n}]
    BY <1>4, <1>6 DEF FixPrev, g
  <1>8. g[1] = p /\ g[2] = len
    BY <1>4
  <1>9. CASE p = a
    <2>1. len = d[a].len
      BY <1>1, <1>5, <1>9
    <2>2. FixPrev(d, a) = [ok |-> TRUE, addr |-> a, mem |-> d, dirty |-> {}]
      BY <2>1, <1>7, <1>8, <1>9
    <2> QED
      BY <2>2, <1>1, <1>5, <1>9
  <1>10. CASE p < a
    <2> DEFINE la == d[a].len
    <2>0. p \in Nat /\ a \in Nat /\ la \in Nat /\ len \in Nat /\ p + len = a + la
      BY <1>1, <1>5
    <2> HIDE DEF la
    <2>1. len # la /\ len = a + la - p
      BY <2>0, <1>10
    <2>2. FixPrev(d, a) = [ok |-> TRUE, addr |-> p, mem |-> Grown(d, p, a + d[a].len - p, n), dirty |-> {p, n}]
      BY <2>1, <1>7, <1>8 DEF la
    <2> QED
      BY <2>2, <1>1, <1>5, <1>10
  <1> QED
    BY <1>1, <1>5, <1>9, <1>10

LEMMA WithoutNothing ==
  ASSUME NEW d, NEW C, IsChain(d, C), NEW a \in C, d[a].next # 0
  PROVE  Without(C, a, d[a].next) = C
  <1>1. a \in Nat /\ \A x \in C : x \in Nat /\ (a < x => d[a].next <= x)
    BY ChainLinks
  <1>2. d[a].next \in Nat
    BY ChainLinks
  <1>3. ASSUME NEW x \in C PROVE x <= a \/ x >= d[a].next
    <2>1. x \in Nat /\ (a < x => d[a].next <= x)
      BY <1>1
    <2> QED
      BY <2>1, <1>1, <1>2
  <1> QED
    BY <1>3 DEF Without

\* What apaDeleteFixPrev leaves is a chain without what was taken.
LEMMA FixPrevChain ==
  ASSUME NEW d, NEW C, IsDrive(d), IsChain(d, C), NEW a \in C, a # 0, d[a].next # 0
  PROVE  LET f == FixPrev(d, a)
             e == f.mem
             W == Without(C, f.addr, d[a].next)
         IN  /\ f.ok /\ f.addr \in W /\ f.addr # 0 /\ f.addr <= a
             /\ \A x \in C : f.addr <= x /\ x < a => IsFree(d[x])
             /\ IsDrive(e) /\ IsChain(e, W)
             /\ f.dirty \subseteq Addr /\ \A x \in Addr : x \notin f.dirty => e[x] = d[x]
             /\ \A x \in W : e[x].type = d[x].type
             /\ e[f.addr].next = d[a].next /\ e[0] = d[0]
             /\ f.addr = a => e = d
  <1> DEFINE f == FixPrev(d, a)
             p == f.addr
             e == f.mem
             n == d[a].next
             W == Without(C, p, n)
  <1>1. /\ f.ok /\ p \in C /\ p # 0 /\ p <= a
        /\ \A x \in C : p <= x /\ x < a => IsFree(d[x])
        /\ p = a => e = d /\ f.dirty = {}
        /\ p < a => /\ e = Grown(d, p, a + d[a].len - p, n)
                    /\ f.dirty = {p, n}
    BY FixPrevTakes
  <1>2. /\ a \in Nat /\ n \in C /\ n \in Nat /\ a < n /\ n = a + d[a].len /\ n < Units
        /\ C \subseteq Addr /\ p \in Nat
    <2>1. /\ a \in Nat /\ n \in C /\ n \in Nat /\ a < n /\ n = a + d[a].len
      BY ChainLinks
    <2>2. \A x \in C : x \in Nat /\ x < Units
      BY ChainLinks
    <2> HIDE DEF f, p, e, n
    <2> QED
      BY <2>1, <2>2, <1>1 DEF IsChain
  <1> HIDE DEF f, p, e, n
  <1>3. p \in W /\ W \subseteq C
    BY <1>1, <1>2 DEF Without
  <1>4. CASE p = a
    <2>1. W = C
      BY <1>4, WithoutNothing DEF n
    <2> QED
      BY <2>1, <1>1, <1>2, <1>3, <1>4 DEF f, p, e, n
  <1>5. CASE p < a
    <2>1. p + (n - p) = n /\ n - p \in 1 .. Units /\ p < n /\ a + d[a].len - p = n - p
      BY <1>1, <1>2, <1>5, SizeFacts, ChainLinks
    <2>2. IsHeader(d[p]) /\ IsHeader(d[n]) /\ p \in Addr /\ n \in Addr
      BY <1>1, <1>2 DEF IsChain
    <2>3. /\ e = Grown(d, p, n - p, n) /\ f.dirty = {p, n}
      BY <1>1, <1>5, <2>1
    <2>4. /\ IsDrive(e)
          /\ \A x \in Addr : x # p /\ x # n => e[x] = d[x]
          /\ IsHeader(e[p]) /\ e[p].next = n /\ e[p].prev = d[p].prev /\ e[p].len = n - p
          /\ e[p].type = d[p].type
          /\ IsHeader(e[n]) /\ e[n].next = d[n].next /\ e[n].prev = p /\ e[n].len = d[n].len
          /\ e[n].type = d[n].type
      <3> DEFINE len == n - p
                 h == Grown(d, p, len, n)
      <3>1. p # n /\ len \in 1 .. Units /\ p + len = n
        BY <2>1, <1>2
      <3> HIDE DEF len
      <3>2. /\ IsDrive(h)
            /\ \A x \in Addr : x # p /\ x # n => h[x] = d[x]
            /\ IsHeader(h[p]) /\ h[p].next = n /\ h[p].prev = d[p].prev /\ h[p].len = len
            /\ h[p].type = d[p].type
            /\ IsHeader(h[n]) /\ h[n].next = d[n].next /\ h[n].prev = p /\ h[n].len = d[n].len
            /\ h[n].type = d[n].type
        BY <2>2, <3>1, GrownIsDrive
      <3> HIDE DEF h
      <3>3. e = h
        BY <2>3 DEF h, len
      <3> QED
        BY <3>2, <3>3 DEF len
    <2>5. \A x \in C : x # p /\ x # n => e[x] = d[x]
      BY <2>4, <1>2
    <2>a. e[0] = d[0]
      <3>1. 0 \in C /\ 0 # p /\ 0 # n
        BY <1>1, <1>2 DEF IsChain
      <3> QED
        BY <3>1, <2>5
    <2>6. IsChain(e, W)
      BY <2>1, <2>4, <2>5, <1>1, <1>2, Splice
    <2>7. \A x \in W : e[x].type = d[x].type
      BY <2>4, <2>5, <1>3
    <2> HIDE DEF W
    <2>8. /\ f.ok /\ p \in W /\ p # 0 /\ p <= a
          /\ \A x \in C : p <= x /\ x < a => IsFree(d[x])
          /\ IsDrive(e) /\ IsChain(e, W)
          /\ f.dirty \subseteq Addr /\ \A x \in Addr : x \notin f.dirty => e[x] = d[x]
          /\ \A x \in W : e[x].type = d[x].type
          /\ e[p].next = n /\ e[0] = d[0]
          /\ p # a
      BY <2>a, <2>2, <2>3, <2>4, <2>6, <2>7, <1>1, <1>2, <1>3, <1>5
    <2> QED
      BY <2>8 DEF f, p, e, n, W
  <1> QED
    BY <1>1, <1>2, <1>4, <1>5

\* Where the loop of apaDeleteFixNext may be.
Fwd(d, C, a) ==
    {g \in C \X (1 .. Units) :
        /\ g[1] # 0 => a < g[1] /\ a + g[2] = g[1]
        /\ a + g[2] <= Units /\ g[2] >= d[a].len
        /\ g[2] = d[a].len => g[1] = d[a].next
        /\ g[1] = d[a].next => g[2] = d[a].len
        /\ \A x \in C : a < x /\ (g[1] = 0 \/ x < g[1]) => IsFree(d[x])}

LEMMA GrowOnStays ==
  ASSUME NEW d, NEW C, IsChain(d, C), NEW a \in C, a # 0, NEW g \in Fwd(d, C, a)
  PROVE  GrowOn(d, a)[g] \in Fwd(d, C, a)
  <1>1. PICK n \in C, len \in 1 .. Units : g = <<n, len>>
    BY DEF Fwd
  <1>2. /\ n # 0 => a < n /\ a + len = n
        /\ a + len <= Units /\ len >= d[a].len
        /\ \A x \in C : a < x /\ (n = 0 \/ x < n) => IsFree(d[x])
    BY <1>1 DEF Fwd
  <1> DEFINE b == d[n].next
             l == d[n].len
  <1>3. /\ b \in C /\ b \in Nat /\ l \in 1 .. Units /\ n + l <= Units
        /\ b # 0 => b = n + l
        /\ \A y \in C : n < y => b # 0 /\ b <= y
    BY ChainLinks
  <1>4. /\ n \in Nat /\ a \in Nat /\ d[a].len \in 1 .. Units
        /\ \A x \in C : x \in Nat
        /\ \A y \in C : a < y => d[a].next # 0 /\ d[a].next <= y
    BY ChainLinks
  <1>5. <<n, len>> \in Nat \X Nat
    BY <1>4
  <1> DEFINE test == n # 0 /\ Readable(d, n) /\ IsFree(d[n]) /\ Mergeable(a, len + l)
  <1>6. GrowOn(d, a)[<<n, len>>] = IF test THEN <<b, len + l>> ELSE <<n, len>>
    BY <1>5 DEF GrowOn
  <1>7. CASE ~test
    BY <1>1, <1>6, <1>7
  <1>8. CASE test
    <2>1. n # 0 /\ IsFree(d[n]) /\ a < n /\ a + len = n
      BY <1>8, <1>2
    <2>a. d[a].next # 0 /\ d[a].next <= n
      BY <2>1, <1>4
    <2> DEFINE la == d[a].len
               na == d[a].next
    <2> HIDE DEF b, l, test, la, na
    <2>2. /\ b # 0 => a < b /\ a + (len + l) = b
          /\ a + (len + l) <= Units /\ len + l > la
      BY <2>1, <1>2, <1>3, <1>4 DEF la
    <2>3. len + l \in 1 .. Units
      BY <2>2, <1>3, <1>4, SizeFacts
    <2>4. b # na
      <3>1. b # 0 => n < b
        BY <2>1, <1>3, <1>4
      <3>2. na \in Nat /\ na # 0 /\ na <= n
        BY <2>a, ChainLinks DEF na
      <3> QED
        BY <3>1, <3>2, <1>3, <1>4
    <2>5. ASSUME NEW x \in C, a < x, b = 0 \/ x < b PROVE IsFree(d[x])
      <3>1. x = n \/ x < n
        BY <2>5, <1>3, <1>4
      <3> QED
        BY <3>1, <2>1, <2>5, <1>2
    <2>6. len + l >= la /\ len + l # la
      BY <2>2, <2>3, <1>4 DEF la
    <2>7. <<b, len + l>> \in Fwd(d, C, a)
      BY <2>2, <2>3, <2>4, <2>5, <2>6, <1>3 DEF Fwd, la, na
    <2> QED
      BY <2>7, <1>1, <1>6, <1>8
  <1> QED
    BY <1>7, <1>8
Taken(d, a, n) == [d EXCEPT ![a] = Header(Empty, n, d[a].prev, n - a), ![n].prev = a]

\* It takes free partitions only; with a partition in use at the end of the drive
\* it stops before it.
LEMMA FixNextTakes ==
  ASSUME NEW d, NEW C, IsDrive(d), IsChain(d, C), NEW a \in C, a # 0, d[a].next # 0, ~FreeTail(d)
  PROVE  \E n \in C :
            LET f == FixNext(d, a)
            IN  /\ f.ok /\ f.addr = a /\ a < n
                /\ \A x \in C : a < x /\ x < n => IsFree(d[x])
                /\ n = d[a].next => f.mem = d /\ f.dirty = {}
                /\ n # d[a].next => /\ f.mem = Taken(d, a, n)
                                    /\ f.dirty = {a, n} /\ n - a # d[a].len
  <1> DEFINE g == Turns(GrowOn(d, a), <<d[a].next, d[a].len>>, Units)
             last == d[0].prev
  <1>1. /\ a \in Nat /\ d[a].len \in 1 .. Units /\ a + d[a].len <= Units
        /\ d[a].next \in C /\ d[a].next = a + d[a].len /\ a < d[a].next
        /\ \A y \in C : y \in Nat /\ (a < y => d[a].next <= y)
    BY ChainLinks
  <1>2. <<d[a].next, d[a].len>> \in Fwd(d, C, a)
    <2>1. \A x \in C : ~(a < x /\ x < d[a].next)
      BY <1>1
    <2> QED
      BY <2>1, <1>1 DEF Fwd
  <1>3. g \in Fwd(d, C, a)
    BY <1>2, GrowOnStays, TurnsStay, SizeFacts
  <1> HIDE DEF g
  <1>4. PICK n \in C, len \in 1 .. Units : g = <<n, len>>
    BY <1>3 DEF Fwd
  <1>5. /\ n # 0 => a < n /\ a + len = n
        /\ len = d[a].len => n = d[a].next
        /\ n = d[a].next => len = d[a].len
        /\ \A x \in C : a < x /\ (n = 0 \/ x < n) => IsFree(d[x])
    BY <1>3, <1>4 DEF Fwd
  <1>6. n # 0
    <2> SUFFICES ASSUME n = 0 PROVE FALSE
      OBVIOUS
    <2>1. 0 \in C
      BY DEF IsChain
    <2>2. last \in C /\ last \in Nat /\ d[last].next = 0
      BY <2>1, ChainLinks
    <2>3. a < last
      <3>1. last < a => d[last].next # 0
        BY <2>2, ChainLinks
      <3> QED
        BY <3>1, <2>2, <1>1
    <2> QED
      BY <2>2, <2>3, <1>1, <1>5 DEF FreeTail
  <1>7. Readable(d, n)
    BY HeaderReadable DEF IsChain
  <1>8. FixNext(d, a) =
            IF g[2] = d[a].len
            THEN [ok |-> TRUE, addr |-> a, mem |-> d, dirty |-> {}]
            ELSE [ok |-> TRUE, addr |-> a, dirty |-> {a, g[1]},
                  mem |-> [d EXCEPT ![a] = Header(Empty, g[1], d[a].prev, g[2]), ![g[1]].prev = a]]
    BY <1>4, <1>7 DEF FixNext, g
  <1>9. g[1] = n /\ g[2] = len /\ a < n /\ n - a = len
    <2>1. a < n /\ a + len = n /\ a \in Nat /\ n \in Nat /\ len \in Nat
      BY <1>1, <1>5, <1>6
    <2>2. n - a = len
      BY <2>1
    <2> QED
      BY <2>1, <2>2, <1>4
  <1>10. CASE n = d[a].next
    <2>1. FixNext(d, a) = [ok |-> TRUE, addr |-> a, mem |-> d, dirty |-> {}]
      BY <1>5, <1>8, <1>9, <1>10
    <2> QED
      BY <2>1, <1>5, <1>9, <1>10
  <1>11. CASE n # d[a].next
    <2>1. len # d[a].len
      BY <1>5, <1>11
    <2>2. FixNext(d, a) = [ok |-> TRUE, addr |-> a, dirty |-> {a, n},
                           mem |-> Taken(d, a, n)]
      BY <2>1, <1>8, <1>9 DEF Taken
    <2> QED
      BY <2>1, <2>2, <1>5, <1>9, <1>11
  <1> QED
    BY <1>10, <1>11

LEMMA FixNextChain ==
  ASSUME NEW d, NEW C, IsDrive(d), IsChain(d, C), NEW a \in C, a # 0, d[a].next # 0, ~FreeTail(d)
  PROVE  \E n \in C :
            LET f == FixNext(d, a)
                e == f.mem
                W == Without(C, a, n)
            IN  /\ f.ok /\ f.addr = a /\ a \in W /\ a < n /\ n \in W
                /\ \A x \in C : a < x /\ x < n => IsFree(d[x])
                /\ IsDrive(e) /\ IsChain(e, W)
                /\ f.dirty \subseteq Addr /\ \A x \in Addr : x \notin f.dirty => e[x] = d[x]
                /\ \A x \in W : x # a => e[x].type = d[x].type
                /\ e[a].next = n /\ e[0] = d[0]
                /\ e[a] = d[a] \/ IsFree(e[a])
  <1>1. PICK n \in C :
            LET f == FixNext(d, a)
            IN  /\ f.ok /\ f.addr = a /\ a < n
                /\ \A x \in C : a < x /\ x < n => IsFree(d[x])
                /\ n = d[a].next => f.mem = d /\ f.dirty = {}
                /\ n # d[a].next => /\ f.mem = Taken(d, a, n)
                                    /\ f.dirty = {a, n} /\ n - a # d[a].len
    BY FixNextTakes
  <1> DEFINE f == FixNext(d, a)
             e == f.mem
             W == Without(C, a, n)
  <1>2. /\ f.ok /\ f.addr = a /\ a < n
        /\ \A x \in C : a < x /\ x < n => IsFree(d[x])
        /\ n = d[a].next => e = d /\ f.dirty = {}
        /\ n # d[a].next => /\ e = Taken(d, a, n)
                            /\ f.dirty = {a, n} /\ n - a # d[a].len
    BY <1>1
  <1> HIDE DEF f, e
  <1>3. a \in Nat /\ n \in Nat /\ n < Units /\ C \subseteq Addr
    BY ChainLinks DEF IsChain
  <1>4. a \in W /\ n \in W /\ W \subseteq C
    BY <1>2, <1>3 DEF Without
  <1>5. CASE n = d[a].next
    <2>1. W = C
      BY <1>5, WithoutNothing
    <2>2. f.dirty \subseteq Addr /\ \A x \in Addr : x \notin f.dirty => e[x] = d[x]
      BY <1>2, <1>5
    <2> HIDE DEF W
    <2>3. /\ f.ok /\ f.addr = a /\ a \in W /\ a < n /\ n \in W
          /\ \A x \in C : a < x /\ x < n => IsFree(d[x])
          /\ IsDrive(e) /\ IsChain(e, W)
          /\ f.dirty \subseteq Addr /\ \A x \in Addr : x \notin f.dirty => e[x] = d[x]
          /\ \A x \in W : x # a => e[x].type = d[x].type
          /\ e[a].next = n /\ e[0] = d[0]
          /\ e[a] = d[a] \/ IsFree(e[a])
      BY <2>1, <2>2, <1>2, <1>4, <1>5
    <2> QED
      BY <2>3 DEF f, e, W
  <1>6. CASE n # d[a].next
    <2> DEFINE h == Header(Empty, n, d[a].prev, n - a)
               k == Header(d[n], d[n].next, a, d[n].len)
    <2>1. e = [d EXCEPT ![a] = h, ![n].prev = a] /\ f.dirty = {a, n}
      BY <1>2, <1>6 DEF Taken
    <2>2. n - a \in 1 .. Units /\ n # a
      BY <1>2, <1>3, SizeFacts
    <2>3. IsHeader(d[a]) /\ IsHeader(d[n]) /\ a \in Addr /\ n \in Addr
      BY <1>3 DEF IsChain
    <2>4. IsHeader(h) /\ h.next = n /\ h.prev = d[a].prev /\ h.len = n - a /\ IsFree(h)
      BY <2>2, <2>3 DEF IsHeader, Header, Empty, IsFree
    <2>5. /\ IsHeader(k) /\ k.next = d[n].next /\ k.prev = a /\ k.len = d[n].len
          /\ k.type = d[n].type
      BY <2>3 DEF IsHeader, Header
    <2>6. d = [x \in Addr |-> d[x]] /\ \A x \in Addr : d[x] = Bad \/ IsHeader(d[x])
      BY DEF IsDrive
    <2> HIDE DEF h
    <2>7. e[n] = k
      <3>1. e[n] = [d[n] EXCEPT !.prev = a]
        BY <2>1, <2>2, <2>3, <2>6
      <3>2. d[n] = Header(d[n], d[n].next, d[n].prev, d[n].len)
        BY <2>3 DEF IsHeader
      <3> QED
        BY <3>1, <3>2 DEF Header
    <2> HIDE DEF k
    <2>8. e[a] = h /\ \A x \in Addr : x # a /\ x # n => e[x] = d[x]
      BY <2>1, <2>2, <2>3, <2>6
    <2>9. e = [x \in Addr |-> e[x]]
      BY <2>1, <2>6
    <2>10. IsDrive(e)
      BY <2>4, <2>5, <2>6, <2>7, <2>8, <2>9 DEF IsDrive
    <2>11. \A x \in C : x # a /\ x # n => e[x] = d[x]
      BY <2>8, <1>3
    <2>a. e[0] = d[0]
      <3>1. 0 \in C /\ 0 # a /\ 0 # n
        BY <1>2, <1>3 DEF IsChain
      <3> QED
        BY <3>1, <2>11
    <2>12. IsChain(e, W)
      BY <2>4, <2>5, <2>7, <2>8, <2>11, <1>2, Splice
    <2>13. \A x \in W : x # a => e[x].type = d[x].type
      BY <2>5, <2>7, <2>11, <1>4
    <2>14. f.dirty \subseteq Addr /\ \A x \in Addr : x \notin f.dirty => e[x] = d[x]
      BY <2>1, <2>3, <2>8
    <2> HIDE DEF W
    <2>15. /\ f.ok /\ f.addr = a /\ a \in W /\ a < n /\ n \in W
           /\ \A x \in C : a < x /\ x < n => IsFree(d[x])
           /\ IsDrive(e) /\ IsChain(e, W)
           /\ f.dirty \subseteq Addr /\ \A x \in Addr : x \notin f.dirty => e[x] = d[x]
           /\ \A x \in W : x # a => e[x].type = d[x].type
           /\ e[a].next = n /\ e[0] = d[0]
           /\ e[a] = d[a] \/ IsFree(e[a])
      BY <2>a, <2>4, <2>8, <2>10, <2>12, <2>13, <2>14, <1>2, <1>4
    <2> QED
      BY <2>15 DEF f, e, W
  <1> QED
    BY <1>5, <1>6
-----------------------------------------------------------------------------
(* The other flushes of apaDelete.                                         *)

Unlinked(d, p) == [d EXCEPT ![p].next = 0, ![0].prev = p]
Emptied(d, a) == [d EXCEPT ![a] = Header(Empty, d[a].next, d[a].prev, d[a].len)]

LEMMA UnlinkLast ==
  ASSUME NEW d, NEW C, IsDrive(d), IsChain(d, C), NEW a \in C, a # 0, d[a].next = 0
  PROVE  LET p == d[a].prev
             e == Unlinked(d, p)
         IN  /\ IsDrive(e) /\ IsChain(e, C \ {a})
             /\ {p, 0} \subseteq Addr /\ \A x \in Addr : x \notin {p, 0} => e[x] = d[x]
             /\ \A x \in C \ {a} : e[x].type = d[x].type
             /\ p \in C \ {a} /\ e[p].next = 0 /\ e[0].prev = p
  <1> DEFINE p == d[a].prev
             e == [d EXCEPT ![p].next = 0, ![0].prev = p]
             h == Header(d[p], 0, IF p = 0 THEN 0 ELSE d[p].prev, d[p].len)
             k == Header(d[0], IF p = 0 THEN 0 ELSE d[0].next, p, d[0].len)
             W == C \ {a}
  <1>1. /\ a \in Nat /\ p \in C /\ p \in Nat /\ d[p].next = a /\ p < a /\ p + d[p].len = a
        /\ d[0].prev = a /\ 0 \in C /\ C \subseteq Addr /\ d[0].type = "mbr"
    BY ChainLinks DEF IsChain
  <1>2. \A y \in C : y \in Nat /\ ~(a < y) /\ (p < y => y >= a)
    BY <1>1, ChainLinks
  <1>3. d = [x \in Addr |-> d[x]] /\ \A x \in Addr : d[x] = Bad \/ IsHeader(d[x])
    BY DEF IsDrive
  <1>4. IsHeader(d[p]) /\ IsHeader(d[0])
    BY <1>1 DEF IsChain
  <1>5. /\ IsHeader(h) /\ h.next = 0 /\ (p # 0 => h.prev = d[p].prev) /\ h.len = d[p].len
        /\ h.type = d[p].type
    BY <1>1, <1>4 DEF IsHeader, Header
  <1>6. /\ IsHeader(k) /\ (p # 0 => k.next = d[0].next) /\ k.prev = p /\ k.len = d[0].len
        /\ k.type = d[0].type
    BY <1>1, <1>4 DEF IsHeader, Header
  <1>7. p = 0 => h = k
    BY <1>1 DEF Header
  <1>a. /\ d[p] = Header(d[p], d[p].next, d[p].prev, d[p].len)
        /\ d[0] = Header(d[0], d[0].next, d[0].prev, d[0].len)
    BY <1>4 DEF IsHeader
  <1>8. e[p] = h
    <2>1. CASE p = 0
      <3>1. e[0] = [[d[0] EXCEPT !.next = 0] EXCEPT !.prev = 0]
        BY <1>1, <1>3, <2>1
      <3> HIDE DEF e
      <3>2. h = Header(d[0], 0, 0, d[0].len)
        BY <2>1
      <3> HIDE DEF h
      <3>3. e[0] = Header(d[0], 0, 0, d[0].len)
        BY <3>1, <1>a DEF Header
      <3> QED
        BY <3>2, <3>3, <2>1
    <2>2. CASE p # 0
      <3>1. e[p] = [d[p] EXCEPT !.next = 0]
        BY <1>1, <1>3, <2>2
      <3> QED
        BY <3>1, <2>2, <1>a DEF Header
    <2> QED
      BY <2>1, <2>2
  <1>9. e[0] = k
    <2>1. CASE p = 0
      BY <1>7, <1>8, <2>1
    <2>2. CASE p # 0
      <3>1. e[0] = [d[0] EXCEPT !.prev = p]
        BY <1>1, <1>3, <2>2
      <3> QED
        BY <3>1, <2>2, <1>a DEF Header
    <2> QED
      BY <2>1, <2>2
  <1>10. \A x \in Addr : x # p /\ x # 0 => e[x] = d[x]
    BY <1>3
  <1>11. e = [x \in Addr |-> e[x]]
    BY <1>3
  <1> HIDE DEF e, h, k
  <1>12. IsDrive(e)
    BY <1>3, <1>5, <1>6, <1>8, <1>9, <1>10, <1>11 DEF IsDrive
  <1>b. \A x \in C : x # p => e[x].next = d[x].next
    BY <1>1, <1>6, <1>9, <1>10
  <1>c. \A x \in C : x # 0 => e[x].prev = d[x].prev
    BY <1>1, <1>5, <1>8, <1>10
  <1>d. \A x \in C : IsHeader(e[x]) /\ e[x].len = d[x].len /\ e[x].type = d[x].type
    BY <1>1, <1>5, <1>6, <1>8, <1>9, <1>10 DEF IsChain
  <1>e. e[p].next = 0 /\ e[0].prev = p
    BY <1>5, <1>6, <1>8, <1>9
  <1>f. \A x \in W : x \in C /\ x # a
    OBVIOUS
  <1>g. p \in W /\ 0 \in W
    BY <1>1
  <1>13. ASSUME NEW x \in W PROVE e[x].next \in W /\ e[e[x].next].prev = x
    <2>1. CASE x = p
      BY <2>1, <1>e, <1>g
    <2>2. CASE x # p
      <3> DEFINE y == d[x].next
      <3>1. y \in C /\ d[y].prev = x
        BY <1>f, ChainLinks
      <3>2. y # a /\ y # 0
        BY <3>1, <2>2, <1>1, <1>f
      <3> QED
        BY <3>1, <3>2, <2>2, <1>b, <1>c, <1>f
    <2> QED
      BY <2>1, <2>2
  <1>14. ASSUME NEW x \in W PROVE e[x].prev \in W /\ e[e[x].prev].next = x
    <2>1. CASE x = 0
      BY <2>1, <1>e, <1>g
    <2>2. CASE x # 0
      <3> DEFINE z == d[x].prev
      <3>1. z \in C /\ d[z].next = x
        BY <1>f, ChainLinks
      <3>2. z # a /\ z # p
        BY <3>1, <2>2, <1>1, <1>f
      <3> QED
        BY <3>1, <3>2, <2>2, <1>b, <1>c, <1>f
    <2> QED
      BY <2>1, <2>2
  <1>15. ASSUME NEW x \in W
         PROVE  (e[x].next # 0 => e[x].next = x + e[x].len) /\ x + e[x].len <= Units
    BY <1>b, <1>d, <1>e, <1>f, ChainLinks
  <1>16. ASSUME NEW x \in W, NEW y \in W, x < y PROVE e[x].next \in 1 .. y
    <2>1. x # p
      <3>1. y \in Nat /\ y # a /\ ~(a < y) /\ (p < y => y >= a)
        BY <1>2, <1>f
      <3> QED
        BY <3>1, <1>1, <1>16
    <2>2. e[x].next = d[x].next
      BY <2>1, <1>b, <1>f
    <2> QED
      BY <2>2, <1>16, <1>f DEF IsChain
  <1>17. W \subseteq Addr /\ e[0].type = "mbr"
    BY <1>1, <1>6, <1>9
  <1>18. IsChain(e, W)
    <2>1. \A x \in W : IsHeader(e[x])
      BY <1>d, <1>f
    <2> HIDE DEF W
    <2> QED
      BY <2>1, <1>g, <1>13, <1>14, <1>15, <1>16, <1>17 DEF IsChain
  <1>19. /\ IsDrive(e) /\ IsChain(e, C \ {a})
         /\ {p, 0} \subseteq Addr /\ \A x \in Addr : x \notin {p, 0} => e[x] = d[x]
         /\ \A x \in C \ {a} : e[x].type = d[x].type
         /\ p \in C \ {a} /\ e[p].next = 0 /\ e[0].prev = p
    BY <1>1, <1>10, <1>12, <1>18, <1>d, <1>e, <1>g
  <1> QED
    BY <1>19 DEF e, Unlinked

LEMMA MakeEmptyChain ==
  ASSUME NEW d, NEW C, IsDrive(d), IsChain(d, C), NEW a \in C, a # 0
  PROVE  LET e == Emptied(d, a)
         IN  /\ IsDrive(e) /\ IsChain(e, C) /\ IsFree(e[a])
             /\ a \in Addr /\ \A x \in Addr : x # a => e[x] = d[x]
             /\ e[a].next = d[a].next
  <1> DEFINE h == Header(Empty, d[a].next, d[a].prev, d[a].len)
             e == [d EXCEPT ![a] = h]
  <1>1. a \in Addr /\ C \subseteq Addr /\ IsHeader(d[a])
    BY DEF IsChain
  <1>2. d = [x \in Addr |-> d[x]] /\ \A x \in Addr : d[x] = Bad \/ IsHeader(d[x])
    BY DEF IsDrive
  <1>3. /\ IsHeader(h) /\ h.next = d[a].next /\ h.prev = d[a].prev /\ h.len = d[a].len /\ IsFree(h)
    BY <1>1 DEF IsHeader, Header, Empty, IsFree
  <1> HIDE DEF h
  <1>4. e[a] = h /\ (\A x \in Addr : x # a => e[x] = d[x]) /\ e = [x \in Addr |-> e[x]]
    BY <1>1, <1>2
  <1> HIDE DEF e
  <1>5. IsDrive(e)
    BY <1>2, <1>3, <1>4 DEF IsDrive
  <1>6. \A x \in C : IsHeader(e[x]) /\ e[x].next = d[x].next /\ e[x].prev = d[x].prev /\ e[x].len = d[x].len
    BY <1>1, <1>3, <1>4 DEF IsChain
  <1>7. e[0].type = "mbr"
    BY <1>1, <1>4 DEF IsChain
  <1>8. IsChain(e, C)
    <2>1. 0 \in C /\ \A x, y \in C : x < y => d[x].next \in 1 .. y
      BY DEF IsChain
    <2>2. ASSUME NEW x \in C
          PROVE  /\ IsHeader(e[x])
                 /\ e[x].next \in C /\ e[e[x].next].prev = x
                 /\ e[x].prev \in C /\ e[e[x].prev].next = x
                 /\ e[x].next # 0 => e[x].next = x + e[x].len
                 /\ x + e[x].len <= Units
      <3>1. /\ d[x].next \in C /\ d[d[x].next].prev = x
            /\ d[x].prev \in C /\ d[d[x].prev].next = x
            /\ d[x].next # 0 => d[x].next = x + d[x].len
            /\ x + d[x].len <= Units
        BY DEF IsChain
      <3>2. e[d[x].next].prev = d[d[x].next].prev /\ e[d[x].prev].next = d[d[x].prev].next
        BY <3>1, <1>6
      <3> QED
        BY <3>1, <3>2, <1>6
    <2>3. \A x, y \in C : x < y => e[x].next \in 1 .. y
      BY <2>1, <1>6
    <2> QED
      BY <1>1, <1>7, <2>1, <2>2, <2>3 DEF IsChain
  <1>9. /\ IsDrive(e) /\ IsChain(e, C) /\ IsFree(e[a])
        /\ a \in Addr /\ \A x \in Addr : x # a => e[x] = d[x]
        /\ e[a].next = d[a].next
    BY <1>1, <1>3, <1>4, <1>5, <1>8
  <1> QED
    BY <1>9 DEF e, h, Emptied
-----------------------------------------------------------------------------
(* The drives a program may find.                                          *)

LEMMA LayoutFacts ==
  ASSUME NEW parts, NEW S \in Layouts(parts)
  PROVE  LET T == Starts(S)
             last == Max(Starts(S))
         IN  /\ T \subseteq 1 .. Units - 1 /\ 1 \in T
             /\ last \in T /\ \A y \in T : y <= last
             /\ \A a \in T :
                   /\ After(S, a) \in 2 .. Units /\ a < After(S, a)
                   /\ a # last => After(S, a) \in T
                   /\ \A y \in T : a < y => After(S, a) <= y
             /\ \A a \in T :
                   /\ Before(S, a) \in T \cup {0} /\ Before(S, a) < a
                   /\ \A y \in T : y < a => y <= Before(S, a)
  <1>1. S \subseteq 1 .. Units /\ 1 \in S /\ Cardinality(S) # 1
    BY DEF Layouts
  <1>2. S # {1}
    BY <1>1, FS_Singleton
  <1> DEFINE T == Starts(S)
             top == Max(S)
             last == Max(T)
  <1>u. Units \in Nat /\ S \subseteq 0 .. Units /\ S # {} /\ S \subseteq Nat
    BY <1>1, SizeFacts
  <1>3. top \in S /\ \A y \in S : y <= top
    BY <1>u, MaxFacts
  <1>4. T = S \ {top}
    BY DEF Starts
  <1> HIDE DEF top
  <1>5. 1 \in T
    <2>1. PICK x \in S : x # 1
      BY <1>1, <1>2
    <2>2. x \in 1 .. Units /\ top \in 1 .. Units /\ x <= top
      BY <1>1, <1>3
    <2> QED
      BY <2>1, <2>2, <1>1, <1>4
  <1>6. T \subseteq 1 .. Units - 1 /\ \A x \in T : x < top
    <2> SUFFICES ASSUME NEW x \in T PROVE x \in 1 .. Units - 1 /\ x < top
      OBVIOUS
    <2>1. x \in 1 .. Units /\ top \in 1 .. Units /\ x <= top /\ x # top
      BY <1>1, <1>3, <1>4
    <2> QED
      BY <2>1, <1>u
  <1> HIDE DEF T
  <1>7. last \in T /\ \A y \in T : y <= last
    <2>1. T \subseteq 0 .. Units /\ T # {}
      BY <1>5, <1>6, <1>u
    <2> QED
      BY <2>1, <1>u, MaxFacts
  <1> HIDE DEF last
  <1>8. ASSUME NEW a \in T
        PROVE  /\ After(S, a) \in 2 .. Units /\ a < After(S, a)
               /\ a # last => After(S, a) \in T
               /\ \A y \in T : a < y => After(S, a) <= y
    <2> DEFINE n == After(S, a)
               U == {x \in S : x > a}
    <2>1. a \in 1 .. Units - 1 /\ a < top /\ top \in U
      BY <1>6, <1>3
    <2>2. U \subseteq Nat /\ U # {}
      BY <2>1, <1>u
    <2>3. n \in U /\ \A y \in U : n <= y
      BY <2>2, MinFacts DEF After
    <2> HIDE DEF n
    <2>4. n \in S /\ n > a /\ \A y \in S : a < y => n <= y
      <3>1. \A y \in S : a < y => y > a
        BY <2>1, <1>u
      <3> QED
        BY <2>3, <3>1
    <2>5. n \in 2 .. Units /\ a < n
      BY <2>1, <2>4, <1>1, <1>u
    <2>6. \A y \in T : a < y => n <= y
      BY <2>4, <1>4
    <2>7. a # last => n \in T
      <3> SUFFICES ASSUME a # last PROVE n # top
        BY <2>4, <1>4
      <3>1. a <= last /\ last \in 1 .. Units - 1 /\ last < top
        BY <1>6, <1>7
      <3>2. n <= last
        BY <3>1, <2>1, <2>6, <1>7
      <3> QED
        BY <3>1, <3>2, <2>5, <1>3, <1>1
    <2> QED
      BY <2>5, <2>6, <2>7 DEF n
  <1>9. ASSUME NEW a \in T
        PROVE  /\ Before(S, a) \in T \cup {0} /\ Before(S, a) < a
               /\ \A y \in T : y < a => y <= Before(S, a)
    <2> DEFINE U == {x \in T : x < a} \cup {0}
    <2>1. a \in 1 .. Units - 1
      BY <1>6
    <2>2. U \subseteq 0 .. Units /\ U # {}
      <3>1. T \subseteq 0 .. Units /\ 0 \in 0 .. Units
        BY <1>6, <1>u
      <3> QED
        BY <3>1
    <2>3. Before(S, a) = Max(U)
      BY DEF Before, T
    <2>4. Max(U) \in U /\ \A y \in U : y <= Max(U)
      BY <2>2, <1>u, MaxFacts
    <2> QED
      BY <2>1, <2>3, <2>4
  <1> QED
    BY <1>5, <1>6, <1>7, <1>8, <1>9 DEF T, last

\* Every drive that a run starts from is a whole chain whose last partition is in
\* use, whatever its size and layout.
LEMMA DriveIsWhole ==
  ASSUME NEW parts, NEW d \in Drives(parts)
  PROVE  Whole(d) /\ ~FreeTail(d)
  <1>0. PICK S \in Layouts(parts) : \E own \in Owners(S) : d = Drive(S, own)
    BY DEF Drives
  <1>1. PICK own \in Owners(S) : d = Drive(S, own)
    BY <1>0
  <1> DEFINE T == Starts(S)
             last == Max(Starts(S))
             C == T \cup {0}
             n(a) == After(S, a)
             p(a) == Before(S, a)
             body(a) == Body(S, own, a)
  <1>2. T \subseteq 1 .. Units - 1 /\ 1 \in T /\ last \in T
    BY LayoutFacts
  <1>3. \A y \in T : y <= last
    BY LayoutFacts
  <1>4. \A a \in T : /\ n(a) \in 2 .. Units /\ a < n(a)
                     /\ a # last => n(a) \in T
                     /\ \A y \in T : a < y => n(a) <= y
    BY LayoutFacts
  <1>5. \A a \in T : /\ p(a) \in T \cup {0} /\ p(a) < a
                     /\ \A y \in T : y < a => y <= p(a)
    BY LayoutFacts
  <1>6. \A a \in T : /\ body(a).type \in {"free", "data"}
                     /\ own[a] # 0 => body(a).type = "data"
    BY DEF Body, Empty
  <1>7. own[last] # 0
    BY DEF Owners
  <1>8. /\ d = [a \in Addr |-> d[a]]
        /\ d[0] = Header([Empty EXCEPT !.type = "mbr"], 1, last, 1)
        /\ \A a \in Addr : a \in T =>
              d[a] = Header(body(a), IF a = last THEN 0 ELSE n(a), p(a), n(a) - a)
        /\ \A a \in Addr : a # 0 /\ a \notin T => d[a] = Bad
    <2> DEFINE h(a) == IF a = 0 THEN Header([Empty EXCEPT !.type = "mbr"], 1, last, 1)
                       ELSE IF a \in T
                       THEN Header(body(a), IF a = last THEN 0 ELSE n(a), p(a), n(a) - a)
                       ELSE Bad
    <2>1. d = [a \in Addr |-> h(a)]
      BY <1>1 DEF Drive
    <2>2. 0 \in Addr /\ 0 \notin T
      BY <1>2, SizeFacts DEF Addr
    <2> HIDE DEF T, last, n, p, body
    <2>3. h(0) = Header([Empty EXCEPT !.type = "mbr"], 1, last, 1)
      OBVIOUS
    <2>4. \A a \in Addr : a \in T =>
            h(a) = Header(body(a), IF a = last THEN 0 ELSE n(a), p(a), n(a) - a)
      BY <2>2
    <2>5. \A a \in Addr : a # 0 /\ a \notin T => h(a) = Bad
      OBVIOUS
    <2> HIDE DEF h
    <2> QED
      BY <2>1, <2>2, <2>3, <2>4, <2>5
  <1>u. Units \in Nat /\ Units >= 2 /\ Addr = 0 .. Units - 1
    BY SizeFacts DEF Addr
  <1> HIDE DEF T, last, n, p, body
  <1>9. /\ d[0].next = 1 /\ d[0].prev = last /\ d[0].len = 1 /\ d[0].type = "mbr"
        /\ d[0] = Header(d[0], d[0].next, d[0].prev, d[0].len)
    BY <1>8 DEF Header, Empty
  <1>10. \A a \in T : /\ d[a].next = (IF a = last THEN 0 ELSE n(a))
                      /\ d[a].prev = p(a) /\ d[a].len = n(a) - a
                      /\ d[a].type = body(a).type
                      /\ d[a] = Header(d[a], d[a].next, d[a].prev, d[a].len)
    <2> TAKE a \in T
    <2>1. a \in Addr
      BY <1>2, <1>u
    <2> QED
      BY <2>1, <1>8 DEF Header
  <1>11. C \subseteq Addr /\ 0 \in C
    BY <1>2, <1>u
  <1>12. IsHeader(d[0])
    BY <1>9, <1>2, <1>u DEF IsHeader
  <1>13. ASSUME NEW a \in T PROVE IsHeader(d[a]) /\ a + d[a].len <= Units
    <2>1. a \in 1 .. Units - 1 /\ n(a) \in 2 .. Units /\ a < n(a)
      BY <1>2, <1>4
    <2>2. n(a) - a \in 1 .. Units /\ a + (n(a) - a) <= Units
      BY <2>1, <1>u
    <2>3. p(a) \in Addr /\ (a # last => n(a) \in Addr) /\ 0 \in Addr
      BY <1>4, <1>5, <1>11
    <2>4. body(a).type # "unreadable"
      BY <1>6
    <2> QED
      BY <2>2, <2>3, <2>4, <1>10 DEF IsHeader
  <1>14. IsDrive(d)
    <2>1. \A a \in Addr : d[a] = Bad \/ IsHeader(d[a])
      BY <1>8, <1>12, <1>13
    <2> QED
      BY <2>1, <1>8 DEF IsDrive
  <1>15. ASSUME NEW a \in T
         PROVE  d[a].next \in C /\ d[d[a].next].prev = a
    <2>1. CASE a = last
      BY <2>1, <1>9, <1>10
    <2>2. CASE a # last
      <3> DEFINE b == n(a)
                 q == p(b)
      <3>1. b \in T /\ d[a].next = b /\ a < b /\ \A y \in T : a < y => b <= y
        BY <2>2, <1>4, <1>10
      <3> HIDE DEF b
      <3>2. d[b].prev = q /\ q \in T \cup {0} /\ q < b /\ a <= q
        BY <3>1, <1>5, <1>10
      <3> HIDE DEF q
      <3>3. a \in 1 .. Units - 1 /\ b \in 1 .. Units - 1 /\ q \in 0 .. Units - 1
        BY <3>1, <3>2, <1>2, <1>u
      <3>4. ~(a < q)
        <4> SUFFICES ASSUME a < q PROVE FALSE
          OBVIOUS
        <4>1. q \in T
          BY <3>2, <3>3
        <4>2. b <= q
          BY <4>1, <3>1
        <4> QED
          BY <4>2, <3>2, <3>3
      <3>5. q = a
        BY <3>2, <3>3, <3>4
      <3> QED
        BY <3>1, <3>2, <3>5
    <2> QED
      BY <2>1, <2>2
  <1>16. ASSUME NEW a \in T
         PROVE  d[a].prev \in C /\ d[d[a].prev].next = a
    <2> DEFINE q == p(a)
    <2>1. d[a].prev = q /\ q \in T \cup {0} /\ q < a /\ \A y \in T : y < a => y <= q
      BY <1>5, <1>10
    <2> HIDE DEF q
    <2>2. a \in 1 .. Units - 1
      BY <1>2
    <2>3. CASE q = 0
      <3>1. ~(1 < a)
        <4> SUFFICES ASSUME 1 < a PROVE FALSE
          OBVIOUS
        <4>1. 1 <= q
          BY <2>1, <1>2
        <4> QED
          BY <4>1, <2>3
      <3>2. a = 1
        BY <3>1, <2>2, <1>u
      <3> QED
        BY <3>2, <2>1, <2>3, <1>9
    <2>4. CASE q \in T
      <3> DEFINE b == n(q)
      <3>1. q \in 1 .. Units - 1 /\ last \in 1 .. Units - 1 /\ a <= last
        BY <2>4, <1>2, <1>3
      <3>2. q # last
        BY <3>1, <2>1, <2>2
      <3>3. b \in T /\ q < b /\ b <= a /\ d[q].next = b
        BY <2>4, <3>2, <2>1, <1>4, <1>10
      <3> HIDE DEF b
      <3>4. b \in 1 .. Units - 1
        BY <3>3, <1>2
      <3>5. ~(b < a)
        <4> SUFFICES ASSUME b < a PROVE FALSE
          OBVIOUS
        <4>1. b <= q
          BY <2>1, <3>3
        <4> QED
          BY <4>1, <3>1, <3>3, <3>4
      <3>6. b = a
        BY <3>3, <3>4, <3>5, <2>2
      <3> QED
        BY <3>3, <3>6, <2>1, <2>4
    <2> QED
      BY <2>1, <2>3, <2>4
  <1>17. ASSUME NEW a \in T PROVE d[a].next # 0 => d[a].next = a + d[a].len
    <2>1. a \in 1 .. Units - 1 /\ n(a) \in 2 .. Units
      BY <1>2, <1>4
    <2> QED
      BY <2>1, <1>10, <1>u
  <1>18. /\ d[0].next \in C /\ d[d[0].next].prev = 0
         /\ d[0].prev \in C /\ d[d[0].prev].next = 0
         /\ d[0].next = 0 + d[0].len /\ 0 + d[0].len <= Units
    <2>1. p(1) \in T \cup {0} /\ p(1) < 1 /\ d[1].prev = p(1)
      BY <1>2, <1>5, <1>10
    <2>2. p(1) = 0
      <3>1. p(1) \in 0 .. Units - 1
        BY <2>1, <1>11, <1>u
      <3> QED
        BY <2>1, <3>1
    <2>3. d[last].next = 0
      BY <1>2, <1>10
    <2> QED
      BY <2>1, <2>2, <2>3, <1>2, <1>9, <1>u
  <1>19. ASSUME NEW x \in C, NEW y \in C, x < y PROVE d[x].next \in 1 .. y
    <2>1. x \in 0 .. Units - 1 /\ y \in 0 .. Units - 1
      BY <1>11, <1>u
    <2>2. y \in T
      BY <2>1, <1>19, <1>u
    <2>3. CASE x = 0
      BY <2>1, <2>3, <1>19, <1>9, <1>u
    <2>4. CASE x \in T
      <3>1. y <= last /\ last \in 1 .. Units - 1
        BY <2>2, <1>2, <1>3
      <3>2. x # last
        BY <3>1, <2>1, <1>19
      <3>3. n(x) <= y /\ n(x) \in 2 .. Units /\ d[x].next = n(x)
        BY <3>2, <2>2, <2>4, <1>19, <1>4, <1>10
      <3> QED
        BY <3>3, <2>1, <1>u
    <2> QED
      BY <2>3, <2>4
  <1>20. IsChain(d, C)
    <2>1. ASSUME NEW a \in C
          PROVE  /\ IsHeader(d[a])
                 /\ d[a].next \in C /\ d[d[a].next].prev = a
                 /\ d[a].prev \in C /\ d[d[a].prev].next = a
                 /\ d[a].next # 0 => d[a].next = a + d[a].len
                 /\ a + d[a].len <= Units
      <3>1. CASE a = 0
        BY <3>1, <1>12, <1>18
      <3>2. CASE a \in T
        BY <3>2, <1>13, <1>15, <1>16, <1>17
      <3> QED
        BY <3>1, <3>2
    <2> HIDE DEF C
    <2> QED
      BY <2>1, <1>9, <1>11, <1>19 DEF IsChain
  <1>21. ~FreeTail(d)
    <2>1. d[last].type = "data"
      BY <1>2, <1>6, <1>7, <1>10 DEF last
    <2> QED
      BY <2>1, <1>9 DEF FreeTail, IsFree
  <1> QED
    BY <1>14, <1>20, <1>21, ChainIsWhole

-----------------------------------------------------------------------------
(* The inductive invariant.                                                *)

Calls == [stage : {"none", "last", "prev", "next", "empty"}, addr : Nat, round : Nat,
          start : Nat, len : Nat]

\* The call under way is at a partition of the chain, its victim or a free one.
\* While it takes the last partitions away the victim is the one it is at, or is
\* gone.  Otherwise what it is at is not the last, and the victim is gone or is
\* where it was and as long as it was.
UnderWay ==
    LET a == del.addr
    IN  /\ a \in Reached(mem, "next") /\ a # 0
        /\ a = del.start \/ IsFree(mem[a])
        /\ del.stage = "last" =>
              mem[a].next = 0 /\ (a = del.start \/ del.start \notin Data(mem))
        /\ del.stage # "last" =>
              /\ mem[a].next # 0 /\ ~FreeTail(mem)
              /\ (a = del.start /\ mem[a].len = del.len) \/ del.start \notin Data(mem)

DriveInv ==
    /\ mem = disk /\ Whole(mem)
    /\ del \in Calls
    /\ del.stage = "none" => del = NotDeleting
    /\ del.stage # "none" => UnderWay
    /\ del.stage = "none" /\ crashes = 0 => ~FreeTail(mem)

DeleteInv ==
    /\ crashes \in Nat /\ (crashes = 0 => ~overTail)
    /\ ~overTail => DriveInv

-----------------------------------------------------------------------------
(* Steps.                                                                  *)

\* A flush puts on the disk what is in memory.
LEMMA FlushWrites ==
  ASSUME mem = disk, NEW e, IsDrive(mem), IsDrive(e),
         NEW S, \A x \in Addr : x \notin S => e[x] = mem[x],
         Flush(S, e)
  PROVE  mem' = e /\ disk' = e
  <1>1. disk' = [x \in Addr |-> e[x]]
    BY DEF Flush
  <1>2. e = [x \in Addr |-> e[x]]
    BY DEF IsDrive
  <1> QED
    BY <1>1, <1>2 DEF Flush

LEMMA DataFacts ==
  ASSUME NEW d, NEW C, IsDrive(d), IsChain(d, C)
  PROVE  \A x : x \in Data(d) <=> x \in C /\ d[x].type = "data"
  <1>1. Reached(d, "next") = C
    BY ReachedIsChain
  <1>2. \A x \in C : Readable(d, x)
    BY HeaderReadable DEF IsChain
  <1> QED
    BY <1>1, <1>2 DEF Data

\* The last partition is not free if it was not and is where it was.
LEMMA TailStays ==
  ASSUME NEW d, NEW C, IsChain(d, C), ~FreeTail(d),
         NEW e, NEW a \in C, e[0] = d[0], e[a].next # 0,
         e[d[0].prev].next = 0, d[0].prev # a => e[d[0].prev].type = d[d[0].prev].type
  PROVE  ~FreeTail(e)
  BY DEF FreeTail, IsFree

LEMMA LastDeleted ==
  ASSUME DeleteInv, ~overTail, DeleteLast, crashes' = crashes, overTail' = overTail
  PROVE  /\ DeleteInv'
         /\ Data(disk) \ Data(disk') \subseteq {del.start}
         /\ del' = NotDeleting => del.start \notin Data(disk')
  <1> DEFINE a == del.addr
             C == Reached(mem, "next")
             p == mem[a].prev
             e == Unlinked(mem, p)
             D == C \ {a}
  <1>1. /\ del.stage = "last" /\ mem = disk /\ IsDrive(mem) /\ IsChain(mem, C)
        /\ a \in C /\ a # 0 /\ mem[a].next = 0
        /\ a = del.start \/ IsFree(mem[a])
        /\ a = del.start \/ del.start \notin Data(mem)
        /\ del \in Calls /\ crashes \in Nat
    BY DEF DeleteInv, DriveInv, UnderWay, DeleteLast, Whole
  <1> HIDE DEF a, C
  <1>2. /\ IsDrive(e) /\ IsChain(e, D)
        /\ {p, 0} \subseteq Addr /\ \A x \in Addr : x \notin {p, 0} => e[x] = mem[x]
        /\ \A x \in D : e[x].type = mem[x].type
        /\ p \in D /\ e[p].next = 0 /\ e[0].prev = p
    <2>1. LET q == mem[a].prev
              u == Unlinked(mem, q)
          IN  /\ IsDrive(u) /\ IsChain(u, C \ {a})
              /\ {q, 0} \subseteq Addr /\ \A x \in Addr : x \notin {q, 0} => u[x] = mem[x]
              /\ \A x \in C \ {a} : u[x].type = mem[x].type
              /\ q \in C \ {a} /\ u[q].next = 0 /\ u[0].prev = q
      <3> HIDE DEF p, e, D
      <3>1. IsDrive(mem) /\ IsChain(mem, C) /\ a \in C /\ a # 0 /\ mem[a].next = 0
        BY <1>1
      <3> QED
        BY <3>1, UnlinkLast, Zenon
    <2> QED
      BY <2>1, Zenon DEF p, e, D
  <1>3. Readable(mem, p)
    <2>1. p \in C /\ IsHeader(mem[p]) /\ p \in Addr
      BY <1>1, <1>2 DEF IsChain
    <2> QED
      BY <2>1, <1>1, HeaderReadable
  <1>4. /\ Flush({p, 0}, e)
        /\ del' = IF IsFree(mem[p]) THEN [del EXCEPT !.addr = p] ELSE NotDeleting
    BY <1>3 DEF DeleteLast, a, Unlinked
  <1>5. \A x : x \in Data(mem) <=> x \in C /\ mem[x].type = "data"
    BY <1>1, DataFacts DEF C
  <1> HIDE DEF e
  <1>6. mem' = e /\ disk' = e
    BY <1>1, <1>2, <1>4, FlushWrites
  <1>7. Whole(e) /\ Reached(e, "next") = D
    BY <1>2, ChainIsWhole
  <1>8. \A x : x \in Data(e) <=> x \in D /\ mem[x].type = "data"
    BY <1>2, DataFacts
  <1>9. del.start \notin Data(e)
    BY <1>1, <1>5, <1>8
  <1>10. Data(mem) \ Data(e) \subseteq {del.start}
    BY <1>1, <1>5, <1>8 DEF IsFree
  <1>11. CASE IsFree(mem[p])
    <2>1. p # 0 /\ p \in Nat
      BY <1>1, <1>2, <1>11, SizeFacts DEF IsChain, IsFree
    <2>2. del' \in Calls /\ del'.addr = p /\ del'.stage = "last" /\ del'.start = del.start
      BY <1>1, <1>4, <1>11, <2>1 DEF Calls
    <2>3. IsFree(e[p])
      BY <1>2, <1>11 DEF IsFree
    <2>4. UnderWay'
      BY <1>2, <1>6, <1>7, <1>9, <2>1, <2>2, <2>3 DEF UnderWay
    <2>5. del' # NotDeleting
      BY <2>2 DEF NotDeleting
    <2>6. DriveInv'
      BY <1>6, <1>7, <2>2, <2>4 DEF DriveInv
    <2> QED
      BY <1>1, <1>6, <1>9, <1>10, <2>5, <2>6 DEF DeleteInv
  <1>12. CASE ~IsFree(mem[p])
    <2>1. ~FreeTail(e)
      BY <1>2, <1>12 DEF FreeTail, IsFree
    <2>2. del' = NotDeleting /\ del' \in Calls /\ del'.stage = "none"
      BY <1>4, <1>12 DEF NotDeleting, Calls
    <2>3. DriveInv'
      BY <1>6, <1>7, <2>1, <2>2 DEF DriveInv
    <2> QED
      BY <1>1, <1>6, <1>9, <1>10, <2>3 DEF DeleteInv
  <1> QED
    BY <1>11, <1>12
\* What the second half of apaDelete is about to do, and what it has around it.
LEMMA InTheMiddle ==
  ASSUME DeleteInv, ~overTail, del.stage \in {"prev", "next", "empty"}
  PROVE  LET a == del.addr
             C == Reached(mem, "next")
         IN  /\ mem = disk /\ IsDrive(mem) /\ IsChain(mem, C)
             /\ a \in C /\ a # 0 /\ mem[a].next # 0 /\ ~FreeTail(mem)
             /\ a = del.start \/ IsFree(mem[a])
             /\ (a = del.start /\ mem[a].len = del.len) \/ del.start \notin Data(mem)
             /\ del \in Calls /\ crashes \in Nat
             /\ \A x : x \in Data(mem) <=> x \in C /\ mem[x].type = "data"
  <1> DEFINE a == del.addr
             C == Reached(mem, "next")
  <1>1. /\ mem = disk /\ IsDrive(mem) /\ IsChain(mem, C)
        /\ a \in C /\ a # 0 /\ mem[a].next # 0 /\ ~FreeTail(mem)
        /\ a = del.start \/ IsFree(mem[a])
        /\ (a = del.start /\ mem[a].len = del.len) \/ del.start \notin Data(mem)
        /\ del \in Calls /\ crashes \in Nat
    BY DEF DeleteInv, DriveInv, UnderWay, Whole
  <1>2. \A x : x \in Data(mem) <=> x \in C /\ mem[x].type = "data"
    BY <1>1, DataFacts
  <1> QED
    BY <1>1, <1>2

LEMMA GrownBack ==
  ASSUME DeleteInv, ~overTail, DeleteFixPrev, crashes' = crashes, overTail' = overTail
  PROVE  /\ DeleteInv'
         /\ Data(disk) \ Data(disk') \subseteq {del.start}
         /\ del' # NotDeleting
  <1> DEFINE a == del.addr
             C == Reached(mem, "next")
             f == FixPrev(mem, a)
             e == f.mem
             n == mem[a].next
             W == Without(C, f.addr, n)
             b == f.addr
  <1>1. /\ mem = disk /\ IsDrive(mem) /\ IsChain(mem, C)
        /\ a \in C /\ a # 0 /\ n # 0 /\ ~FreeTail(mem)
        /\ a = del.start \/ IsFree(mem[a])
        /\ (a = del.start /\ mem[a].len = del.len) \/ del.start \notin Data(mem)
        /\ del \in Calls /\ crashes \in Nat
        /\ \A x : x \in Data(mem) <=> x \in C /\ mem[x].type = "data"
    BY InTheMiddle DEF DeleteFixPrev
  <1> HIDE DEF C
  <1>2. /\ f.ok /\ f.addr \in W /\ f.addr # 0 /\ f.addr <= a
        /\ \A x \in C : f.addr <= x /\ x < a => IsFree(mem[x])
        /\ IsDrive(e) /\ IsChain(e, W)
        /\ f.dirty \subseteq Addr /\ \A x \in Addr : x \notin f.dirty => e[x] = mem[x]
        /\ \A x \in W : e[x].type = mem[x].type
        /\ e[f.addr].next = n /\ e[0] = mem[0]
        /\ f.addr = a => e = mem
    BY <1>1, FixPrevChain
  <1>3. Flush(f.dirty, e) /\ del' = [del EXCEPT !.stage = "next", !.addr = f.addr]
    BY <1>2 DEF DeleteFixPrev, DeleteFixed
  <1>4. mem' = e /\ disk' = e
    BY <1>1, <1>2, <1>3, FlushWrites
  <1> HIDE DEF e
  <1>5. Whole(e) /\ Reached(e, "next") = W /\ \A x : x \in Data(e) <=> x \in W /\ e[x].type = "data"
    BY <1>2, ChainIsWhole, DataFacts
  <1>6. /\ del' \in Calls /\ del'.stage = "next" /\ del'.addr = b
        /\ del'.start = del.start /\ del'.len = del.len
    <2>1. b \in Nat
      BY <1>2, SizeFacts DEF IsChain
    <2> QED
      BY <2>1, <1>1, <1>3 DEF Calls
  <1>7. /\ \A x \in C : x \in Nat
        /\ n \in C /\ a < n /\ a \in Nat /\ n \in Nat
        /\ \A x \in C : a < x => n <= x
    BY <1>1, ChainLinks
  <1>b. b \in C /\ b \in Nat /\ b <= a
    <2>1. b \in C
      BY <1>2 DEF Without
    <2> QED
      BY <2>1, <1>2, <1>7
  <1>w. \A x : x \in W <=> x \in C /\ (x <= b \/ x >= n)
    BY DEF Without
  <1>c. /\ \A x \in W : e[x].type = mem[x].type
        /\ e[b].next = n /\ e[0] = mem[0] /\ b # 0 /\ b \in W
        /\ b = a => e = mem
        /\ 0 \in W /\ e[0].prev \in W
    BY <1>2 DEF IsChain
  <1>t. \A x \in C : b <= x /\ x < a => IsFree(mem[x])
    BY <1>2
  <1> HIDE DEF f, W, n, a, b
  <1>8. \A x \in C : x \in W \/ x = a \/ IsFree(mem[x])
    <2> SUFFICES ASSUME NEW x \in C, x \notin W, x # a PROVE IsFree(mem[x])
      OBVIOUS
    <2>0. x \in Nat
      BY <1>7
    <2>1. b < x /\ x < n
      BY <2>0, <1>w, <1>b, <1>7
    <2>2. ~(a < x)
      BY <2>0, <2>1, <1>7
    <2>3. b <= x /\ x < a
      BY <2>0, <2>1, <2>2, <1>b, <1>7
    <2> QED
      BY <2>3, <1>t
  <1>9. W \subseteq C /\ (b # a => a \notin W)
    BY <1>b, <1>w, <1>7
  <1>10. Data(mem) \ Data(e) \subseteq {del.start}
    BY <1>1, <1>c, <1>5, <1>8 DEF IsFree
  <1>11. (b = del.start /\ e[b].len = del.len) \/ del.start \notin Data(e)
    <2>1. CASE b = a
      BY <2>1, <1>1, <1>c
    <2>2. CASE b # a
      BY <2>2, <1>1, <1>c, <1>5, <1>9
    <2> QED
      BY <2>1, <2>2
  <1>12. b = del.start \/ IsFree(e[b])
    <2>1. CASE b = a
      BY <2>1, <1>1, <1>c
    <2>2. CASE b # a
      <3>1. b <= b /\ b < a
        BY <2>2, <1>b, <1>7
      <3> QED
        BY <3>1, <1>b, <1>c, <1>t DEF IsFree
    <2> QED
      BY <2>1, <2>2
  <1>13. ~FreeTail(e)
    <2> DEFINE q == mem[0].prev
    <2>1. q \in C /\ 0 \in C
      BY <1>1 DEF IsChain
    <2>2. e[0].prev = q /\ q \in W
      BY <1>c
    <2> QED
      BY <1>1, <1>c, <2>2 DEF FreeTail, IsFree
  <1>14. UnderWay'
    BY <1>1, <1>c, <1>4, <1>5, <1>6, <1>11, <1>12, <1>13 DEF UnderWay
  <1>15. DriveInv' /\ del' # NotDeleting
    BY <1>4, <1>5, <1>6, <1>14 DEF DriveInv, NotDeleting
  <1> QED
    BY <1>1, <1>4, <1>10, <1>15 DEF DeleteInv

LEMMA GrownOn ==
  ASSUME DeleteInv, ~overTail, DeleteFixNext, crashes' = crashes, overTail' = overTail
  PROVE  /\ DeleteInv'
         /\ Data(disk) \ Data(disk') \subseteq {del.start}
         /\ del' # NotDeleting
  <1> DEFINE a == del.addr
             C == Reached(mem, "next")
             f == FixNext(mem, a)
             e == f.mem
  <1>1. /\ mem = disk /\ IsDrive(mem) /\ IsChain(mem, C)
        /\ a \in C /\ a # 0 /\ mem[a].next # 0 /\ ~FreeTail(mem)
        /\ a = del.start \/ IsFree(mem[a])
        /\ (a = del.start /\ mem[a].len = del.len) \/ del.start \notin Data(mem)
        /\ del \in Calls /\ crashes \in Nat
        /\ \A x : x \in Data(mem) <=> x \in C /\ mem[x].type = "data"
    BY InTheMiddle DEF DeleteFixNext
  <1> HIDE DEF C
  <1>2. PICK n \in C :
            LET W == Without(C, a, n)
            IN  /\ f.ok /\ f.addr = a /\ a \in W /\ a < n /\ n \in W
                /\ \A x \in C : a < x /\ x < n => IsFree(mem[x])
                /\ IsDrive(e) /\ IsChain(e, W)
                /\ f.dirty \subseteq Addr /\ \A x \in Addr : x \notin f.dirty => e[x] = mem[x]
                /\ \A x \in W : x # a => e[x].type = mem[x].type
                /\ e[a].next = n /\ e[0] = mem[0]
                /\ e[a] = mem[a] \/ IsFree(e[a])
    BY <1>1, FixNextChain
  <1> DEFINE W == Without(C, a, n)
  <1>3. /\ Flush(f.dirty, e)
        /\ \/ del' = [del EXCEPT !.stage = "prev", !.round = 2, !.addr = a]
           \/ del' = [del EXCEPT !.stage = "empty", !.addr = a]
    BY <1>2 DEF DeleteFixNext, DeleteFixed
  <1>4. mem' = e /\ disk' = e
    BY <1>1, <1>2, <1>3, FlushWrites
  <1> HIDE DEF e, f
  <1>5. Whole(e) /\ Reached(e, "next") = W /\ \A x : x \in Data(e) <=> x \in W /\ e[x].type = "data"
    BY <1>2, ChainIsWhole, DataFacts
  <1>6. /\ del' \in Calls /\ del'.stage \in {"prev", "empty"} /\ del'.addr = a
        /\ del'.start = del.start /\ del'.len = del.len
    <2>1. a \in Nat /\ 2 \in Nat
      BY <1>1, ChainLinks
    <2> QED
      BY <2>1, <1>1, <1>3 DEF Calls
  <1>7. /\ \A x \in C : x \in Nat
        /\ a \in Nat /\ n \in Nat /\ n # 0
    <2>1. \A x \in C : x \in Nat
      BY <1>1, ChainLinks
    <2>2. a \in Nat /\ n \in Nat /\ a < n
      BY <2>1, <1>1, <1>2
    <2> HIDE DEF a
    <2> QED
      BY <2>1, <2>2
  <1>w. \A x : x \in W <=> x \in C /\ (x <= a \/ x >= n)
    BY DEF Without
  <1>8. \A x \in C : x \in W \/ IsFree(mem[x])
    <2> SUFFICES ASSUME NEW x \in C, x \notin W PROVE IsFree(mem[x])
      OBVIOUS
    <2>1. a < x /\ x < n
      <3> HIDE DEF a, W
      <3> QED
        BY <1>7, <1>w
    <2> QED
      BY <2>1, <1>2
  <1>9. W \subseteq C
    BY DEF Without
  <1>10. Data(mem) \ Data(e) \subseteq {del.start}
    BY <1>1, <1>2, <1>5, <1>8 DEF IsFree
  <1>11. (a = del.start /\ e[a].len = del.len) \/ del.start \notin Data(e)
    <2>1. CASE e[a] = mem[a]
      BY <2>1, <1>1, <1>2, <1>5, <1>9
    <2>2. CASE IsFree(e[a])
      BY <2>2, <1>1, <1>2, <1>5, <1>9 DEF IsFree
    <2> QED
      BY <2>1, <2>2, <1>2
  <1>12. a = del.start \/ IsFree(e[a])
    BY <1>1, <1>2
  <1>13. ~FreeTail(e)
    <2> DEFINE q == mem[0].prev
    <2>1. q \in C /\ 0 \in C
      BY <1>1 DEF IsChain
    <2>2. e[0].prev = q /\ q \in W /\ e[q].next = 0
      BY <1>2 DEF IsChain
    <2>3. q # a
      BY <2>2, <1>2, <1>7
    <2> QED
      BY <1>1, <1>2, <2>2, <2>3 DEF FreeTail, IsFree
  <1>14. UnderWay'
    BY <1>1, <1>2, <1>4, <1>5, <1>6, <1>7, <1>11, <1>12, <1>13 DEF UnderWay
  <1>15. DriveInv' /\ del' # NotDeleting
    BY <1>4, <1>5, <1>6, <1>14 DEF DriveInv, NotDeleting
  <1> QED
    BY <1>1, <1>4, <1>10, <1>15 DEF DeleteInv

LEMMA MadeEmpty ==
  ASSUME DeleteInv, ~overTail, DeleteMakeEmpty, crashes' = crashes, overTail' = overTail
  PROVE  /\ DeleteInv'
         /\ Data(disk) \ Data(disk') \subseteq {del.start}
         /\ del.start \notin Data(disk')
  <1> DEFINE a == del.addr
             C == Reached(mem, "next")
             e == Emptied(mem, a)
  <1>1. /\ mem = disk /\ IsDrive(mem) /\ IsChain(mem, C)
        /\ a \in C /\ a # 0 /\ mem[a].next # 0 /\ ~FreeTail(mem)
        /\ a = del.start \/ IsFree(mem[a])
        /\ (a = del.start /\ mem[a].len = del.len) \/ del.start \notin Data(mem)
        /\ del \in Calls /\ crashes \in Nat
        /\ \A x : x \in Data(mem) <=> x \in C /\ mem[x].type = "data"
    BY InTheMiddle DEF DeleteMakeEmpty
  <1>2. del' = NotDeleting /\ del' \in Calls /\ del'.stage = "none"
    BY DEF DeleteMakeEmpty, NotDeleting, Calls
  <1>3. CASE a = del.start /\ mem[a].len = del.len
    <2> HIDE DEF C
    <2>1. /\ IsDrive(e) /\ IsChain(e, C) /\ IsFree(e[a])
          /\ a \in Addr /\ \A x \in Addr : x # a => e[x] = mem[x]
          /\ e[a].next = mem[a].next
      BY <1>1, MakeEmptyChain
    <2>2. Flush({a}, e)
      BY <1>3 DEF DeleteMakeEmpty, Emptied
    <2> HIDE DEF e
    <2>3. mem' = e /\ disk' = e
      BY <1>1, <2>1, <2>2, FlushWrites
    <2>4. Whole(e) /\ \A x : x \in Data(e) <=> x \in C /\ e[x].type = "data"
      BY <2>1, ChainIsWhole, DataFacts
    <2>5. C \subseteq Addr
      BY <1>1 DEF IsChain
    <2>6. /\ del.start \notin Data(e)
          /\ Data(mem) \ Data(e) \subseteq {del.start}
      BY <1>1, <1>3, <2>1, <2>4, <2>5 DEF IsFree
    <2>7. ~FreeTail(e)
      <3> DEFINE q == mem[0].prev
      <3>1. q \in C /\ 0 \in C /\ mem[q].next = 0
        BY <1>1 DEF IsChain
      <3>2. q # a /\ e[0] = mem[0] /\ e[q] = mem[q]
        BY <1>1, <2>1, <2>5, <3>1
      <3> QED
        BY <1>1, <3>2 DEF FreeTail, IsFree
    <2>8. DriveInv'
      BY <1>2, <2>3, <2>4, <2>7 DEF DriveInv
    <2> QED
      BY <1>1, <2>3, <2>6, <2>8 DEF DeleteInv
  <1>4. CASE ~(a = del.start /\ mem[a].len = del.len)
    <2>1. mem' = mem /\ disk' = disk
      BY <1>4 DEF DeleteMakeEmpty
    <2>2. DriveInv'
      BY <1>1, <1>2, <2>1 DEF DriveInv, Whole
    <2> QED
      BY <1>1, <1>4, <2>1, <2>2 DEF DeleteInv
  <1> QED
    BY <1>3, <1>4
-----------------------------------------------------------------------------
(* Theorems.                                                               *)

LEMMA Started ==
  ASSUME Init PROVE DeleteInv
  <1>1. Whole(mem) /\ ~FreeTail(mem)
    BY DriveIsWhole DEF Init
  <1>2. NotDeleting \in Calls /\ NotDeleting.stage = "none"
    BY DEF NotDeleting, Calls
  <1> QED
    BY <1>1, <1>2 DEF Init, DeleteInv, DriveInv

LEMMA Called ==
  ASSUME DeleteInv, ~overTail', NEW a \in Data(mem), Delete(a)
  PROVE  DeleteInv' /\ ~overTail
  <1> DEFINE C == Reached(mem, "next")
  <1>1. /\ ~overTail /\ ~FreeTail(mem) /\ mem' = mem /\ disk' = disk /\ crashes' = crashes
        /\ del.stage = "none" /\ del' = Deleting(a)
    BY DEF Delete, NotDeleting
  <1>2. /\ mem = disk /\ Whole(mem) /\ IsDrive(mem) /\ IsChain(mem, C)
    BY <1>1 DEF DeleteInv, DriveInv, Whole
  <1>3. a \in C /\ mem[a].type = "data"
    BY <1>2, DataFacts
  <1>4. a # 0 /\ a \in Nat /\ mem[a].len \in Nat
    <2>1. IsHeader(mem[a]) /\ a \in Addr /\ 0 \in C /\ mem[0].type = "mbr"
      BY <1>2, <1>3, ChainLinks DEF IsChain
    <2>2. a # 0
      BY <1>3, <2>1
    <2> QED
      BY <2>1, <2>2 DEF IsHeader, Addr
  <1>5. /\ del' \in Calls /\ del'.addr = a /\ del'.start = a /\ del'.len = mem[a].len
        /\ del'.stage = IF mem[a].next = 0 THEN "last" ELSE "prev"
    BY <1>1, <1>4 DEF Deleting, Calls
  <1>6. UnderWay'
    BY <1>1, <1>3, <1>4, <1>5 DEF UnderWay
  <1>7. DriveInv'
    BY <1>1, <1>2, <1>5, <1>6 DEF DriveInv, Whole
  <1> QED
    BY <1>1, <1>7 DEF DeleteInv

LEMMA PowerLost ==
  ASSUME DeleteInv, PowerLoss PROVE DeleteInv'
  <1>1. crashes' \in Nat /\ crashes' # 0
    BY DEF DeleteInv, PowerLoss
  <1>2. NotDeleting \in Calls /\ NotDeleting.stage = "none"
    BY DEF NotDeleting, Calls
  <1>3. ~overTail' => DriveInv'
    BY <1>1, <1>2 DEF DeleteInv, DriveInv, PowerLoss, Whole
  <1> QED
    BY <1>1, <1>3 DEF DeleteInv

\* A call made with the last partition free is remembered for ever.
LEMMA OverTailStays ==
  ASSUME [Next]_vars, ~overTail' PROVE ~overTail
  BY DEF Next, Delete, PowerLoss, vars

\* What a step of apaDelete does, and what it may not do.
LEMMA DeleteSteps ==
  ASSUME DeleteInv, ~overTail, DeleteStep, crashes' = crashes, overTail' = overTail
  PROVE  /\ DeleteInv'
         /\ Data(disk) \ Data(disk') \subseteq {del.start}
         /\ del' = NotDeleting => del.start \notin Data(disk')
  <1>1. CASE DeleteLast
    BY <1>1, LastDeleted
  <1>2. CASE DeleteFixPrev
    BY <1>2, GrownBack
  <1>3. CASE DeleteFixNext
    BY <1>3, GrownOn
  <1>4. CASE DeleteMakeEmpty
    BY <1>4, MadeEmpty
  <1> QED
    BY <1>1, <1>2, <1>3, <1>4 DEF DeleteStep

LEMMA DeleteInvStep ==
  ASSUME DeleteInv, [Next]_vars PROVE DeleteInv'
  <1>1. CASE overTail'
    <2>1. crashes' \in Nat /\ (crashes' = 0 => ~overTail')
      <3>1. CASE \E a \in Data(mem) : Delete(a)
        <4>1. PICK a \in Data(mem) : Delete(a)
          BY <3>1
        <4>2. crashes' = crashes /\ (overTail' => overTail \/ FreeTail(mem)) /\ del.stage = "none"
          BY <4>1 DEF Delete, NotDeleting
        <4> QED
          BY <4>2 DEF DeleteInv, DriveInv
      <3>2. CASE DeleteStep /\ UNCHANGED <<overTail, deleted, crashes>>
        BY <3>2 DEF DeleteInv
      <3>3. CASE PowerLoss
        BY <3>3 DEF DeleteInv, PowerLoss
      <3>4. CASE UNCHANGED vars
        BY <3>4 DEF DeleteInv, vars
      <3> QED
        BY <3>1, <3>2, <3>3, <3>4 DEF Next
    <2> QED
      BY <1>1, <2>1 DEF DeleteInv
  <1>2. CASE ~overTail'
    <2>1. CASE \E a \in Data(mem) : Delete(a)
      BY <1>2, <2>1, Called
    <2>2. CASE DeleteStep /\ UNCHANGED <<overTail, deleted, crashes>>
      BY <1>2, <2>2, DeleteSteps
    <2>3. CASE PowerLoss
      BY <2>3, PowerLost
    <2>4. CASE UNCHANGED vars
      BY <2>4 DEF vars, chainVars, DeleteInv, DriveInv, Whole, UnderWay, FreeTail, Data
    <2> QED
      BY <2>1, <2>2, <2>3, <2>4 DEF Next
  <1> QED
    BY <1>1, <1>2

\* The inductive invariant: at every step of apaDelete the disk holds what is in
\* memory, a whole chain, and the partition that the call is at belongs to it.
THEOREM DeleteInductive == Spec => []DeleteInv
  BY Started, DeleteInvStep, PTL DEF Spec

\* Whatever flush of apaDelete the power fails after, on a drive of any size and
\* with partitions of any layout, the chain on the disk is linked both ways and
\* leaves no unit out.
THEOREM ChainAlwaysWhole == Spec => []AlwaysConsistent
  <1>1. DeleteInv => AlwaysConsistent
    <2> SUFFICES ASSUME DeleteInv, ~overTail PROVE TypeOK /\ Consistent(disk)
      BY DEF AlwaysConsistent
    <2>1. mem = disk /\ Whole(disk)
      BY DEF DeleteInv, DriveInv
    <2>2. Consistent(disk)
      BY <2>1, WholeIsConsistent
    <2>3. TypeOK
      BY <2>1 DEF TypeOK, Whole, IsDrive, IsHeader
    <2> QED
      BY <2>2, <2>3
  <1> QED
    BY <1>1, DeleteInductive, PTL

\* As long as the power does not fail, the loop of apaDelete over the last
\* partitions leaves no free one at the end of the drive.
THEOREM NoFreeTailLeft == Spec => []NoFreeTail
  <1>1. DeleteInv => NoFreeTail
    BY DEF DeleteInv, DriveInv, NoFreeTail, NotDeleting
  <1> QED
    BY <1>1, DeleteInductive, PTL

\* No flush of apaDelete takes the data of another partition out of the chain, and
\* when it returns its victim is gone.
THEOREM OnlyVictimLeaves == Spec => OnlyTheVictim
  <1> DEFINE Taken1 ==
        ~overTail' =>
          /\ Data(disk) \ Data(disk') \subseteq {del.start}
          /\ del # NotDeleting /\ del' = NotDeleting /\ crashes' = crashes =>
                del.start \notin Data(disk')
  <1>1. DeleteInv /\ [Next]_vars => [Taken1]_vars
    <2> SUFFICES ASSUME DeleteInv, [Next]_vars, ~overTail'
                 PROVE  /\ Data(disk) \ Data(disk') \subseteq {del.start}
                        /\ del # NotDeleting /\ del' = NotDeleting /\ crashes' = crashes =>
                              del.start \notin Data(disk')
      OBVIOUS
    <2>0. ~overTail
      BY OverTailStays
    <2>1. CASE \E a \in Data(mem) : Delete(a)
      BY <2>1 DEF Delete, Data
    <2>2. CASE DeleteStep /\ UNCHANGED <<overTail, deleted, crashes>>
      BY <2>0, <2>2, DeleteSteps
    <2>3. CASE PowerLoss
      <3>1. disk' = disk /\ crashes' # crashes
        BY <2>3 DEF DeleteInv, PowerLoss
      <3> QED
        BY <3>1 DEF Data
    <2>4. CASE UNCHANGED vars
      BY <2>4 DEF vars, chainVars, Data
    <2> QED
      BY <2>1, <2>2, <2>3, <2>4 DEF Next
  <1> QED
    BY <1>1, DeleteInductive, PTL DEF Spec, OnlyTheVictim
=============================================================================
