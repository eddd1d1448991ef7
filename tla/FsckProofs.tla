----------------------------- MODULE FsckProofs -----------------------------
(* Theorems about fsck, for every well formed filesystem, any number and     *)
(* sizes of partitions, sectors of any size, and any depth of directories.   *)
EXTENDS Fsck, PfsZonesProofs

-----------------------------------------------------------------------------
(* The bitmap that is made holds the partitions one after the other.       *)

LEMMA FsckFacts ==
  /\ NumSubs \in Nat /\ Size \in [Subs -> Nat \ {0}] /\ Reserved \in [Subs -> SUBSET Nat]
  /\ \A s \in Subs : Reserved[s] \subseteq ZonesOf(s)
  /\ FirstZone \in Nat /\ Sector \in Nat \ {0} /\ Align \in Nat \ {0} /\ Sector % Align = 0
  /\ Shortest \in 1 .. Sector /\ MaxDepth \in Nat \ {0}
  BY FsckAssumption, ZonesAssumption

LEMMA ZoneMapFacts ==
  /\ \A s \in 0 .. NumSubs + 1 : ZoneMap[s] \in Nat
  /\ ZoneMap[0] = 0
  /\ \A s \in Subs : ZoneMap[s + 1] = ZoneMap[s] + Size[s]
  <1>0. NumSubs \in Nat /\ Size \in [Subs -> Nat \ {0}]
    BY FsckFacts
  <1> DEFINE step == [p \in (1 .. NumSubs + 1) \X Int |-> p[2] + Size[p[1] - 1]]
  <1>1. \A s \in 1 .. NumSubs + 1 : \A c \in Int : step[<<s, c>>] = c + Size[s - 1]
    OBVIOUS
  <1> HIDE DEF step
  <1>2. PICK g : IsLoop(0, step, NumSubs + 1, g)
    BY <1>0, LoopExists
  <1>3. g = [s \in 0 .. NumSubs + 1 |-> IF s = 0 THEN 0 ELSE step[<<s, g[s - 1]>>]]
    BY <1>2 DEF IsLoop
  <1>4. g[0] = 0 /\ \A s \in 1 .. NumSubs + 1 : g[s] = step[<<s, g[s - 1]>>]
    BY <1>3, <1>0
  <1> DEFINE S == {k \in Nat : k <= NumSubs + 1 => g[k] \in Nat}
  <1>5. 0 \in S
    BY <1>4
  <1>6. ASSUME NEW k \in Nat, k \in S PROVE k + 1 \in S
    <2> SUFFICES ASSUME k + 1 <= NumSubs + 1 PROVE g[k + 1] \in Nat
      OBVIOUS
    <2>1. k + 1 \in 1 .. NumSubs + 1 /\ (k + 1) - 1 = k /\ g[k] \in Nat /\ Size[k] \in Nat
      BY <1>0, <1>6 DEF Subs
    <2>2. g[k + 1] = step[<<k + 1, g[k]>>]
      BY <2>1, <1>4
    <2>3. step[<<k + 1, g[k]>>] = g[k] + Size[(k + 1) - 1]
      BY <2>1, <1>1
    <2> QED
      BY <2>1, <2>2, <2>3
  <1> HIDE DEF S
  <1>7. Nat \subseteq S
    BY <1>5, <1>6, Induction
  <1>8. \A s \in 0 .. NumSubs + 1 : g[s] \in Nat
    BY <1>7, <1>0 DEF S
  <1>9. \A s \in 1 .. NumSubs + 1 : g[s] = g[s - 1] + Size[s - 1]
    <2> TAKE s \in 1 .. NumSubs + 1
    <2>1. s - 1 \in 0 .. NumSubs + 1
      BY <1>0
    <2>2. g[s - 1] \in Int
      BY <2>1, <1>8
    <2>3. step[<<s, g[s - 1]>>] = g[s - 1] + Size[s - 1]
      BY <2>2, <1>1
    <2> QED
      BY <2>3, <1>4
  <1>10. g = [s \in 0 .. NumSubs + 1 |-> IF s = 0 THEN 0 ELSE g[s - 1] + Size[s - 1]]
    <2>1. DOMAIN g = 0 .. NumSubs + 1 /\ g = [s \in DOMAIN g |-> g[s]]
      BY <1>3
    <2>2. \A s \in 0 .. NumSubs + 1 : g[s] = IF s = 0 THEN 0 ELSE g[s - 1] + Size[s - 1]
      <3> TAKE s \in 0 .. NumSubs + 1
      <3>1. s = 0 \/ s \in 1 .. NumSubs + 1
        BY <1>0
      <3> QED
        BY <3>1, <1>4, <1>9
    <2> QED
      BY <2>1, <2>2
  <1>11. ZoneMap = CHOOSE z : z = [s \in 0 .. NumSubs + 1 |-> IF s = 0 THEN 0 ELSE z[s - 1] + Size[s - 1]]
    BY DEF ZoneMap
  <1>12. ZoneMap = [s \in 0 .. NumSubs + 1 |-> IF s = 0 THEN 0 ELSE ZoneMap[s - 1] + Size[s - 1]]
    BY <1>10, <1>11
  <1>13. \A s \in 0 .. NumSubs + 1 : ZoneMap[s] = IF s = 0 THEN 0 ELSE ZoneMap[s - 1] + Size[s - 1]
    BY <1>12
  <1>14. \A k \in Nat : k <= NumSubs + 1 => ZoneMap[k] = g[k]
    <2> DEFINE T == {k \in Nat : k <= NumSubs + 1 => ZoneMap[k] = g[k]}
    <2>1. 0 \in T
      BY <1>4, <1>13, <1>0
    <2>2. ASSUME NEW k \in Nat, k \in T PROVE k + 1 \in T
      <3> SUFFICES ASSUME k + 1 <= NumSubs + 1 PROVE ZoneMap[k + 1] = g[k + 1]
        OBVIOUS
      <3>1. k + 1 \in 1 .. NumSubs + 1 /\ k + 1 \in 0 .. NumSubs + 1 /\ (k + 1) - 1 = k /\ k + 1 # 0
        BY <1>0
      <3>2. ZoneMap[k] = g[k]
        BY <2>2, <3>1, <1>0
      <3>3. ZoneMap[k + 1] = ZoneMap[k] + Size[k]
        BY <3>1, <1>13
      <3>4. g[k + 1] = g[k] + Size[k]
        BY <3>1, <1>9
      <3> QED
        BY <3>2, <3>3, <3>4
    <2> HIDE DEF T
    <2>3. Nat \subseteq T
      BY <2>1, <2>2, Induction
    <2> QED
      BY <2>3 DEF T
  <1>15. \A s \in Subs : s + 1 \in 1 .. NumSubs + 1 /\ s \in 0 .. NumSubs + 1 /\ (s + 1) - 1 = s
    BY <1>0 DEF Subs
  <1>16. \A s \in 0 .. NumSubs + 1 : s \in Nat /\ s <= NumSubs + 1
    BY <1>0
  <1>17. \A s \in 1 .. NumSubs + 1 : s \in Nat /\ s <= NumSubs + 1
    BY <1>0
  <1> QED
    BY <1>0, <1>4, <1>8, <1>9, <1>14, <1>15, <1>16, <1>17

\* A zone has one place in it.
LEMMA ZoneMapOrdered ==
  ASSUME NEW s \in Subs, NEW t \in 0 .. NumSubs + 1, s < t
  PROVE  ZoneMap[s] + Size[s] <= ZoneMap[t]
  <1>0. NumSubs \in Nat /\ s \in 0 .. NumSubs /\ \A r \in Subs : Size[r] \in Nat
    BY FsckFacts DEF Subs
  <1> DEFINE S == {k \in Nat : s + 1 + k <= NumSubs + 1 => ZoneMap[s] + Size[s] <= ZoneMap[s + 1 + k]}
  <1>1. 0 \in S
    <2>1. ZoneMap[s + 1] = ZoneMap[s] + Size[s] /\ s + 1 + 0 = s + 1 /\ ZoneMap[s + 1] \in Nat
      BY <1>0, ZoneMapFacts
    <2> QED
      BY <2>1
  <1>2. ASSUME NEW k \in Nat, k \in S PROVE k + 1 \in S
    <2> SUFFICES ASSUME s + 1 + (k + 1) <= NumSubs + 1 PROVE ZoneMap[s] + Size[s] <= ZoneMap[s + 1 + (k + 1)]
      OBVIOUS
    <2> DEFINE r == s + 1 + k
    <2>1. r \in Subs /\ r + 1 = s + 1 + (k + 1) /\ r \in 0 .. NumSubs + 1 /\ r + 1 \in 0 .. NumSubs + 1
      BY <1>0 DEF Subs
    <2>2. ZoneMap[s] + Size[s] <= ZoneMap[r]
      BY <1>2, <2>1, <1>0
    <2> HIDE DEF r
    <2>3. ZoneMap[r + 1] = ZoneMap[r] + Size[r] /\ Size[r] \in Nat /\ ZoneMap[r] \in Nat /\ ZoneMap[s] \in Nat /\ Size[s] \in Nat
      BY <2>1, <1>0, ZoneMapFacts
    <2>4. ZoneMap[s] + Size[s] <= ZoneMap[r + 1]
      BY <2>2, <2>3
    <2> QED
      BY <2>4, <2>1
  <1> HIDE DEF S
  <1>3. Nat \subseteq S
    BY <1>1, <1>2, Induction
  <1>4. t - s - 1 \in Nat /\ s + 1 + (t - s - 1) = t
    BY <1>0
  <1> QED
    BY <1>3, <1>4, <1>0 DEF S

\* Where zone z of partition s is.
PlaceOf(s, z) == ZoneMap[s] + z

LEMMA PlacesDiffer ==
  ASSUME NEW s \in Subs, NEW t \in Subs, NEW y \in ZonesOf(s), NEW z \in ZonesOf(t),
         PlaceOf(s, y) = PlaceOf(t, z)
  PROVE  s = t /\ y = z
  <1>1. /\ s \in Nat /\ t \in Nat /\ s \in 0 .. NumSubs + 1 /\ t \in 0 .. NumSubs + 1
        /\ Size[s] \in Nat /\ Size[t] \in Nat
    BY FsckFacts DEF Subs
  <1>2. ZoneMap[s] \in Nat /\ ZoneMap[t] \in Nat
    BY <1>1, ZoneMapFacts
  <1>3. y \in Nat /\ y < Size[s] /\ z \in Nat /\ z < Size[t]
    BY <1>1 DEF ZonesOf
  <1>4. ZoneMap[s] + y = ZoneMap[t] + z
    BY DEF PlaceOf
  <1>5. ~(s < t)
    <2> SUFFICES ASSUME s < t PROVE FALSE
      OBVIOUS
    <2>1. ZoneMap[s] + Size[s] <= ZoneMap[t]
      BY <1>1, ZoneMapOrdered
    <2> QED
      BY <2>1, <1>1, <1>2, <1>3, <1>4
  <1>6. ~(t < s)
    <2> SUFFICES ASSUME t < s PROVE FALSE
      OBVIOUS
    <2>1. ZoneMap[t] + Size[t] <= ZoneMap[s]
      BY <1>1, ZoneMapOrdered
    <2> QED
      BY <2>1, <1>1, <1>2, <1>3, <1>4
  <1>7. s = t
    BY <1>5, <1>6, <1>1
  <1> QED
    BY <1>7, <1>2, <1>3, <1>4

LEMMA PlaceInMap ==
  ASSUME NEW s \in Subs, NEW z \in ZonesOf(s)
  PROVE  PlaceOf(s, z) \in 0 .. ZoneMap[NumSubs + 1] - 1
  <1>1. /\ NumSubs \in Nat /\ s \in Nat /\ s < NumSubs + 1 /\ s \in 0 .. NumSubs + 1
        /\ NumSubs + 1 \in 0 .. NumSubs + 1 /\ Size[s] \in Nat
    BY FsckFacts DEF Subs
  <1>2. ZoneMap[s] \in Nat /\ ZoneMap[NumSubs + 1] \in Nat
    BY <1>1, ZoneMapFacts
  <1>3. z \in Nat /\ z < Size[s]
    BY <1>1 DEF ZonesOf
  <1>4. ZoneMap[s] + Size[s] <= ZoneMap[NumSubs + 1]
    BY <1>1, ZoneMapOrdered
  <1> QED
    BY <1>2, <1>3, <1>4, <1>1 DEF PlaceOf

-----------------------------------------------------------------------------
(* Least sets: the entries that are parsed, the inodes that are reached.   *)

LEMMA ParsedFacts ==
  ASSUME NEW sec
  PROVE  /\ Parsed(sec) \subseteq DOMAIN sec
         /\ 0 \in DOMAIN sec => 0 \in Parsed(sec)
         /\ \A o \in Parsed(sec) : o + sec[o].len \in DOMAIN sec => o + sec[o].len \in Parsed(sec)
  <1>1. ASSUME NEW o \in Parsed(sec), o + sec[o].len \in DOMAIN sec
        PROVE  o + sec[o].len \in Parsed(sec)
    <2>1. ASSUME NEW S \in SUBSET DOMAIN sec, 0 \in S, Follows(sec, S)
          PROVE  o + sec[o].len \in S
      <3>1. o \in S
        BY <2>1 DEF Parsed
      <3> QED
        BY <3>1, <2>1, <1>1 DEF Follows
    <2> QED
      BY <2>1, <1>1 DEF Parsed
  <1> QED
    BY <1>1 DEF Parsed

LEMMA ParsedLeast ==
  ASSUME NEW sec, NEW S \in SUBSET DOMAIN sec, 0 \in S, Follows(sec, S)
  PROVE  Parsed(sec) \subseteq S
  BY DEF Parsed

LEMMA NamingFacts ==
  ASSUME NEW f, WellFormed(f), NEW d \in DOMAIN f.dir
  PROVE  /\ Children(f, d) \subseteq DOMAIN f.inode
         /\ \A e \in Naming(f, d) :
               /\ e = <<d, e[2], e[3]>> /\ e[2] \in 1 .. Len(f.dir[d]) /\ e[3] \in Parsed(f.dir[d][e[2]])
               /\ Named(f, e) \in DOMAIN f.inode
         /\ \A k \in 1 .. Len(f.dir[d]) : \A o \in Parsed(f.dir[d][k]) :
               f.dir[d][k][o].of # None /\ f.dir[d][k][o].name \notin Dots => <<d, k, o>> \in Naming(f, d)
  <1>0. f.dir[d] \in Seq(UNION {Range(f.dir[x]) : x \in DOMAIN f.dir})
    BY DEF WellFormed
  <1>1. ASSUME NEW k \in 1 .. Len(f.dir[d]), NEW o \in Parsed(f.dir[d][k])
        PROVE  f.dir[d][k][o].of \in DOMAIN f.inode \cup {None}
    <2>1. SectorOK(f.dir[d][k], DOMAIN f.inode)
      BY <1>0 DEF WellFormed
    <2>2. o \in DOMAIN f.dir[d][k]
      BY ParsedFacts
    <2> QED
      BY <2>1, <2>2 DEF SectorOK
  <1>2. ASSUME NEW e \in Naming(f, d)
        PROVE  /\ e = <<d, e[2], e[3]>> /\ e[2] \in 1 .. Len(f.dir[d]) /\ e[3] \in Parsed(f.dir[d][e[2]])
               /\ Named(f, e) \in DOMAIN f.inode
    <2>1. PICK k \in 1 .. Len(f.dir[d]) : \E o \in Parsed(f.dir[d][k]) : e = <<d, k, o>>
      BY <1>2 DEF Naming
    <2>2. PICK o \in Parsed(f.dir[d][k]) : e = <<d, k, o>>
      BY <2>1
    <2>3. Named(f, e) # None /\ Named(f, e) = f.dir[d][k][o].of
      BY <1>2, <2>2 DEF Naming, Named
    <2> QED
      BY <1>1, <2>1, <2>2, <2>3
  <1>3. ASSUME NEW k \in 1 .. Len(f.dir[d]), NEW o \in Parsed(f.dir[d][k]),
               f.dir[d][k][o].of # None, f.dir[d][k][o].name \notin Dots
        PROVE  <<d, k, o>> \in Naming(f, d)
    BY <1>3 DEF Naming, Named
  <1> QED
    BY <1>2, <1>3 DEF Children

LEMMA BelowFacts ==
  ASSUME NEW f, WellFormed(f), NEW X, X \subseteq DOMAIN f.inode
  PROVE  /\ Below(f, X) \subseteq DOMAIN f.inode
         /\ X \subseteq Below(f, X)
         /\ \A d \in Below(f, X) \cap DOMAIN f.dir : Children(f, d) \subseteq Below(f, X)
  <1> DEFINE kids == [d \in DOMAIN f.dir |-> Children(f, d)]
  <1>0. \A d \in DOMAIN f.dir : kids[d] = Children(f, d) /\ kids[d] \subseteq DOMAIN f.inode
    BY NamingFacts
  <1>1. Below(f, X) = {x \in DOMAIN f.inode : \A S \in SUBSET DOMAIN f.inode :
            X \subseteq S /\ (\A d \in S \cap DOMAIN f.dir : kids[d] \subseteq S) => x \in S}
    BY DEF Below
  <1> HIDE DEF kids
  <1>2. ASSUME NEW d \in Below(f, X) \cap DOMAIN f.dir, NEW x \in kids[d]
        PROVE  x \in Below(f, X)
    <2>1. ASSUME NEW S \in SUBSET DOMAIN f.inode, X \subseteq S, \A c \in S \cap DOMAIN f.dir : kids[c] \subseteq S
          PROVE  x \in S
      <3>1. d \in S
        BY <2>1, <1>1
      <3> QED
        BY <3>1, <2>1, <1>2
    <2>2. x \in DOMAIN f.inode
      BY <1>0, <1>2
    <2> QED
      BY <2>1, <2>2, <1>1
  <1> QED
    BY <1>0, <1>1, <1>2

LEMMA BelowLeast ==
  ASSUME NEW f, NEW X, NEW S \in SUBSET DOMAIN f.inode, X \subseteq S,
         \A d \in S \cap DOMAIN f.dir : Children(f, d) \subseteq S
  PROVE  Below(f, X) \subseteq S
  BY DEF Below

LEMMA ReachedFacts ==
  ASSUME NEW f, WellFormed(f)
  PROVE  /\ Reached(f) \subseteq DOMAIN f.inode /\ Root \in Reached(f) /\ Root \in DOMAIN f.dir
         /\ \A d \in Reached(f) \cap DOMAIN f.dir : \A e \in Naming(f, d) :
               Named(f, e) \in Reached(f) /\ e \in Names(f)
         /\ \A e \in Names(f) : e[1] \in Reached(f) \cap DOMAIN f.dir /\ e \in Naming(f, e[1])
  <1>1. Root \in DOMAIN f.dir /\ Root \in DOMAIN f.inode
    BY DEF WellFormed
  <1>2. /\ Reached(f) \subseteq DOMAIN f.inode /\ Root \in Reached(f)
        /\ \A d \in Reached(f) \cap DOMAIN f.dir : Children(f, d) \subseteq Reached(f)
    BY <1>1, BelowFacts DEF Reached
  <1>3. ASSUME NEW d \in Reached(f) \cap DOMAIN f.dir, NEW e \in Naming(f, d)
        PROVE  Named(f, e) \in Reached(f) /\ e \in Names(f)
    BY <1>2, <1>3 DEF Children, Names
  <1>4. ASSUME NEW e \in Names(f)
        PROVE  e[1] \in Reached(f) \cap DOMAIN f.dir /\ e \in Naming(f, e[1])
    <2>1. PICK d \in Reached(f) \cap DOMAIN f.dir : e \in Naming(f, d)
      BY <1>4 DEF Names
    <2>2. e[1] = d
      BY <2>1, NamingFacts
    <2> QED
      BY <2>1, <2>2
  <1> QED
    BY <1>1, <1>2, <1>3, <1>4

LEMMA TangledFacts ==
  ASSUME NEW f, WellFormed(f)
  PROVE  /\ Tangled(f) \subseteq DOMAIN f.inode
         /\ \A d \in Tangled(f) \cap DOMAIN f.dir : \A e \in Naming(f, d) : Named(f, e) \in Tangled(f)
         /\ \A e, g \in Names(f) : Named(f, e) = Named(f, g) /\ (e # g \/ Named(f, e) = Root) => Named(f, e) \in Tangled(f)
  <1>1. Doubled(f) \subseteq DOMAIN f.inode
    BY DEF Doubled
  <1>2. /\ Tangled(f) \subseteq DOMAIN f.inode /\ Doubled(f) \subseteq Tangled(f)
        /\ \A d \in Tangled(f) \cap DOMAIN f.dir : Children(f, d) \subseteq Tangled(f)
    BY <1>1, BelowFacts DEF Tangled
  <1>3. ASSUME NEW e \in Names(f), NEW g \in Names(f), Named(f, e) = Named(f, g), e # g \/ Named(f, e) = Root
        PROVE  Named(f, e) \in Tangled(f)
    <2>1. Named(f, e) \in DOMAIN f.inode
      BY ReachedFacts, NamingFacts
    <2>2. Named(f, e) \in Doubled(f)
      BY <1>3, <2>1 DEF Doubled
    <2> QED
      BY <2>2, <1>2
  <1>4. ASSUME NEW d \in Tangled(f) \cap DOMAIN f.dir, NEW e \in Naming(f, d)
        PROVE  Named(f, e) \in Tangled(f)
    BY <1>2, <1>4 DEF Children
  <1> QED
    BY <1>2, <1>3, <1>4

-----------------------------------------------------------------------------
(* What fsckCheckFiles changes in a sector of entries.                     *)

LEMMA Multiple ==
  ASSUME NEW n \in Nat \ {0}, NEW a \in Int
  PROVE  a % n = 0 <=> \E p \in Int : a = n * p
  <1>1. ASSUME a % n = 0 PROVE a \div n \in Int /\ a = n * (a \div n)
    BY <1>1
  <1>2. ASSUME NEW p \in Int, a = n * p PROVE a % n = 0
    BY <1>2
  <1> QED
    BY <1>1, <1>2

LEMMA AlignedSum ==
  ASSUME NEW n \in Nat \ {0}, NEW a \in Int, NEW b \in Int, a % n = 0
  PROVE  (a + b) % n = 0 <=> b % n = 0
  <1>0. a + b \in Int
    OBVIOUS
  <1>1. PICK p \in Int : a = n * p
    BY Multiple
  <1>2. ASSUME b % n = 0 PROVE (a + b) % n = 0
    <2>1. PICK q \in Int : b = n * q
      BY <1>2, Multiple
    <2>2. n * p + n * q = n * (p + q) /\ p + q \in Int
      OBVIOUS
    <2>3. a + b = n * (p + q)
      BY <1>1, <2>1, <2>2
    <2> QED
      BY <1>0, <2>2, <2>3, Multiple
  <1>3. ASSUME (a + b) % n = 0 PROVE b % n = 0
    <2>1. PICK r \in Int : a + b = n * r
      BY <1>0, <1>3, Multiple
    <2>2. n * r - n * p = n * (r - p) /\ r - p \in Int /\ n * p \in Int /\ n * r \in Int
      OBVIOUS
    <2>3. b = n * r - n * p
      BY <1>1, <2>1, <2>2
    <2> QED
      BY <2>2, <2>3, Multiple
  <1> QED
    BY <1>2, <1>3

EntryOf(inodes) == [len : Nat, need : Nat, name : STRING, type : Types, of : inodes \cup {None}]
Dotted(e) == e.name \in Dots

\* One entry loses its inode, a dot gets the right one, a length becomes the rest of
\* the sector, or that of the next entry is added to it.
OneMend(sec, new, inodes) ==
    /\ DOMAIN new = DOMAIN sec /\ new \in [DOMAIN sec -> EntryOf(inodes)]
    /\ \A o \in DOMAIN sec :
          /\ new[o].name = sec[o].name /\ new[o].type = sec[o].type
          /\ new[o].of \in {sec[o].of, None} \/ Dotted(sec[o])
          /\ new[o].need <= sec[o].need /\ new[o].need >= Shortest
          /\ \/ new[o].len = sec[o].len
             \/ o + new[o].len = Sector
             \/ o + sec[o].len \in DOMAIN sec /\ new[o].len = sec[o].len + sec[o + sec[o].len].len

\* What the entries of a sector have in common with those it had at the start.
SectorMended(sec, new) ==
    /\ DOMAIN new = DOMAIN sec
    /\ \A o \in DOMAIN sec :
          /\ new[o].name = sec[o].name /\ new[o].type = sec[o].type
          /\ new[o].of \in {sec[o].of, None} \/ Dotted(sec[o])
          /\ new[o].need <= sec[o].need
          /\ new[o].len >= sec[o].len \/ o + new[o].len >= Sector
    /\ \A o \in Parsed(sec) : o + new[o].len \in DOMAIN sec => o + new[o].len \in Parsed(sec)

LEMMA SectorFacts ==
  ASSUME NEW sec, NEW inodes, SectorOK(sec, inodes)
  PROVE  /\ 0 \in DOMAIN sec
         /\ \A o \in DOMAIN sec :
               /\ o \in Nat /\ o < Sector /\ o % Align = 0 /\ Sector - o \in Nat \ {0}
               /\ (Sector - o) % Align = 0
               /\ sec[o] \in EntryOf(inodes) /\ sec[o].len \in Nat /\ sec[o].need \in Nat
               /\ sec[o].need >= Shortest /\ sec[o].need > 0
               /\ sec[o].of \in inodes \cup {None}
               /\ sec[o].len % Align = 0 /\ o + sec[o].len <= Sector => o + sec[o].len \in DOMAIN sec \cup {Sector}
         /\ Parsed(sec) \subseteq DOMAIN sec /\ 0 \in Parsed(sec)
         /\ Sector \notin DOMAIN sec
  <1>1. Sector \in Nat \ {0} /\ Align \in Nat \ {0} /\ Sector % Align = 0 /\ Shortest \in 1 .. Sector
    BY FsckFacts
  <1>2. /\ DOMAIN sec \subseteq 0 .. Sector - 1 /\ 0 \in DOMAIN sec
        /\ sec \in [DOMAIN sec -> EntryOf(inodes)]
        /\ \A o \in DOMAIN sec :
              /\ o % Align = 0 /\ sec[o].need >= Shortest
              /\ sec[o].len % Align = 0 /\ o + sec[o].len <= Sector => o + sec[o].len \in DOMAIN sec \cup {Sector}
    BY DEF SectorOK, EntryOf
  <1>3. ASSUME NEW o \in DOMAIN sec
        PROVE  /\ o \in Nat /\ o < Sector /\ Sector - o \in Nat \ {0} /\ (Sector - o) % Align = 0
               /\ sec[o] \in EntryOf(inodes) /\ sec[o].len \in Nat /\ sec[o].need \in Nat
               /\ sec[o].of \in inodes \cup {None}
    <2>1. o \in Nat /\ o < Sector /\ Sector - o \in Nat \ {0}
      BY <1>1, <1>2
    <2>2. o + (Sector - o) = Sector
      BY <2>1, <1>1
    <2>3. (Sector - o) % Align = 0
      BY <2>1, <2>2, <1>1, <1>2, AlignedSum
    <2>4. sec[o] \in EntryOf(inodes)
      BY <1>2
    <2>5. sec[o].len \in Nat /\ sec[o].need \in Nat /\ sec[o].of \in inodes \cup {None}
      BY <2>4 DEF EntryOf
    <2> QED
      BY <2>1, <2>3, <2>4, <2>5
  <1>4. \A o \in DOMAIN sec : sec[o].need > 0
    BY <1>1, <1>2, <1>3
  <1>5. Parsed(sec) \subseteq DOMAIN sec /\ 0 \in Parsed(sec)
    BY <1>2, ParsedFacts
  <1>6. Sector \notin DOMAIN sec
    BY <1>1, <1>2
  <1>7. 0 \in DOMAIN sec
    BY <1>2
  <1>8. \A o \in DOMAIN sec :
              /\ o % Align = 0 /\ sec[o].need >= Shortest
              /\ sec[o].len % Align = 0 /\ o + sec[o].len <= Sector => o + sec[o].len \in DOMAIN sec \cup {Sector}
    BY <1>2
  <1> QED
    BY <1>3, <1>4, <1>5, <1>6, <1>7, <1>8

\* A mend leaves a sector that can be walked, and no entry is parsed that was not.
LEMMA MendKeeps ==
  ASSUME NEW sec, NEW new, NEW inodes, SectorOK(sec, inodes), OneMend(sec, new, inodes)
  PROVE  SectorOK(new, inodes) /\ Parsed(new) \subseteq Parsed(sec)
  <1>1. Sector \in Nat \ {0} /\ Align \in Nat \ {0} /\ Sector % Align = 0
    BY FsckFacts
  <1>2. /\ DOMAIN new = DOMAIN sec /\ new \in [DOMAIN sec -> EntryOf(inodes)]
        /\ \A o \in DOMAIN sec :
              /\ new[o].need >= Shortest /\ new[o].len \in Nat
              /\ \/ new[o].len = sec[o].len
                 \/ o + new[o].len = Sector
                 \/ o + sec[o].len \in DOMAIN sec /\ new[o].len = sec[o].len + sec[o + sec[o].len].len
    BY DEF OneMend, EntryOf
  <1>3. ASSUME NEW o \in DOMAIN sec, new[o].len % Align = 0, o + new[o].len <= Sector
        PROVE  o + new[o].len \in DOMAIN sec \cup {Sector}
    <2>0. o \in Nat /\ sec[o].len \in Nat /\ o % Align = 0
      BY SectorFacts
    <2>1. CASE new[o].len = sec[o].len
      BY <2>1, <1>3, SectorFacts
    <2>2. CASE o + new[o].len = Sector
      BY <2>2
    <2>3. CASE o + sec[o].len \in DOMAIN sec /\ new[o].len = sec[o].len + sec[o + sec[o].len].len
      <3> DEFINE q == o + sec[o].len
      <3>1. q \in DOMAIN sec /\ q \in Nat /\ q % Align = 0 /\ sec[q].len \in Nat
        BY <2>3, SectorFacts
      <3>2. o + new[o].len = q + sec[q].len
        BY <2>0, <2>3, <3>1
      <3>3. new[o].len \in Nat
        BY <1>2
      <3> HIDE DEF q
      <3>4. (o + new[o].len) % Align = 0
        <4>1. o \in Int /\ new[o].len \in Int
          BY <2>0, <3>3
        <4> QED
          BY <4>1, <2>0, <1>1, <1>3, AlignedSum
      <3>5. sec[q].len % Align = 0
        <4>1. q \in Int /\ sec[q].len \in Int
          BY <3>1
        <4>2. (q + sec[q].len) % Align = 0
          BY <3>2, <3>4
        <4> QED
          BY <4>1, <4>2, <3>1, <1>1, AlignedSum
      <3> QED
        BY <3>1, <3>2, <3>5, <1>3, SectorFacts
    <2> QED
      BY <2>1, <2>2, <2>3, <1>2
  <1>4. SectorOK(new, inodes)
    <2>1. DOMAIN sec \subseteq 0 .. Sector - 1 /\ 0 \in DOMAIN sec
      BY DEF SectorOK
    <2>2. \A o \in DOMAIN sec : o % Align = 0
      BY SectorFacts
    <2> QED
      BY <1>2, <1>3, <2>1, <2>2 DEF SectorOK, EntryOf
  <1>5. Follows(new, Parsed(sec))
    <2> SUFFICES ASSUME NEW o \in Parsed(sec), o + new[o].len \in DOMAIN new
                 PROVE  o + new[o].len \in Parsed(sec)
      BY DEF Follows
    <2>0. o \in DOMAIN sec /\ o \in Nat /\ sec[o].len \in Nat
      BY SectorFacts
    <2>1. CASE new[o].len = sec[o].len
      BY <2>1, <1>2, ParsedFacts
    <2>2. CASE o + new[o].len = Sector
      BY <2>2, <1>2, SectorFacts
    <2>3. CASE o + sec[o].len \in DOMAIN sec /\ new[o].len = sec[o].len + sec[o + sec[o].len].len
      <3> DEFINE q == o + sec[o].len
      <3>1. q \in Parsed(sec) /\ q \in DOMAIN sec
        BY <2>3, ParsedFacts
      <3>2. q \in Nat /\ sec[q].len \in Nat /\ o + new[o].len = q + sec[q].len
        BY <2>0, <2>3, <3>1, SectorFacts
      <3> HIDE DEF q
      <3> QED
        BY <3>1, <3>2, <1>2, ParsedFacts
    <2> QED
      BY <2>0, <2>1, <2>2, <2>3, <1>2
  <1>6. Parsed(new) \subseteq Parsed(sec)
    <2>1. Parsed(sec) \in SUBSET DOMAIN new /\ 0 \in Parsed(sec)
      BY <1>2, SectorFacts
    <2> QED
      BY <2>1, <1>5, ParsedLeast
  <1> QED
    BY <1>4, <1>6

LEMMA MendMended ==
  ASSUME NEW first_, NEW sec, NEW new, NEW inodes,
         SectorOK(first_, inodes), SectorOK(sec, inodes), SectorMended(first_, sec), OneMend(sec, new, inodes)
  PROVE  SectorMended(first_, new)
  <1>1. Sector \in Nat
    BY FsckFacts
  <1>2. /\ DOMAIN new = DOMAIN sec /\ DOMAIN sec = DOMAIN first_
        /\ \A o \in DOMAIN sec :
              /\ new[o].len \in Nat /\ new[o].need \in Nat
              /\ new[o].name = sec[o].name /\ new[o].type = sec[o].type
              /\ new[o].of \in {sec[o].of, None} \/ Dotted(sec[o])
              /\ new[o].need <= sec[o].need
              /\ \/ new[o].len = sec[o].len
                 \/ o + new[o].len = Sector
                 \/ o + sec[o].len \in DOMAIN sec /\ new[o].len = sec[o].len + sec[o + sec[o].len].len
    BY DEF OneMend, EntryOf, SectorMended
  <1>3. /\ \A o \in DOMAIN sec :
              /\ sec[o].name = first_[o].name /\ sec[o].type = first_[o].type
              /\ sec[o].of \in {first_[o].of, None} \/ Dotted(first_[o])
              /\ sec[o].need <= first_[o].need
              /\ sec[o].len >= first_[o].len \/ o + sec[o].len >= Sector
        /\ \A o \in Parsed(first_) : o + sec[o].len \in DOMAIN sec => o + sec[o].len \in Parsed(first_)
    BY <1>2 DEF SectorMended
  <1>4. ASSUME NEW o \in DOMAIN sec
        PROVE  /\ new[o].name = first_[o].name /\ new[o].type = first_[o].type
               /\ new[o].of \in {first_[o].of, None} \/ Dotted(first_[o])
               /\ new[o].need <= first_[o].need
               /\ new[o].len >= first_[o].len \/ o + new[o].len >= Sector
    <2>1. o \in Nat /\ sec[o].len \in Nat /\ sec[o].need \in Nat /\ first_[o].need \in Nat /\ first_[o].len \in Nat
      BY <1>2, SectorFacts
    <2>2. new[o].name = first_[o].name /\ new[o].type = first_[o].type /\ (new[o].of \in {first_[o].of, None} \/ Dotted(first_[o]))
      BY <1>2, <1>3 DEF Dotted
    <2>3. new[o].need <= first_[o].need
      BY <1>2, <1>3, <2>1
    <2>4. new[o].len >= sec[o].len \/ o + new[o].len = Sector
      <3>1. CASE o + sec[o].len \in DOMAIN sec /\ new[o].len = sec[o].len + sec[o + sec[o].len].len
        <4>1. sec[o + sec[o].len].len \in Nat
          BY <3>1, SectorFacts
        <4> QED
          BY <4>1, <3>1, <2>1
      <3> QED
        BY <3>1, <1>2, <2>1
    <2>5. new[o].len >= first_[o].len \/ o + new[o].len >= Sector
      BY <2>4, <2>1, <1>1, <1>2, <1>3
    <2> QED
      BY <2>2, <2>3, <2>5
  <1>5. ASSUME NEW o \in Parsed(first_), o + new[o].len \in DOMAIN first_
        PROVE  o + new[o].len \in Parsed(first_)
    <2>0. o \in DOMAIN sec /\ o \in Nat /\ sec[o].len \in Nat
      BY <1>2, SectorFacts
    <2>1. CASE new[o].len = sec[o].len
      BY <2>1, <1>2, <1>3, <1>5
    <2>2. CASE o + new[o].len = Sector
      BY <2>2, <1>2, <1>5, SectorFacts
    <2>3. CASE o + sec[o].len \in DOMAIN sec /\ new[o].len = sec[o].len + sec[o + sec[o].len].len
      <3> DEFINE q == o + sec[o].len
      <3>1. q \in Parsed(first_) /\ q \in DOMAIN sec
        BY <2>3, <1>3
      <3>2. q \in Nat /\ sec[q].len \in Nat /\ o + new[o].len = q + sec[q].len
        BY <2>0, <2>3, <3>1, SectorFacts
      <3> HIDE DEF q
      <3> QED
        BY <3>1, <3>2, <1>2, <1>3, <1>5
    <2> QED
      BY <2>0, <2>1, <2>2, <2>3, <1>2
  <1> QED
    BY <1>2, <1>4, <1>5 DEF SectorMended

LEMMA LengthMends ==
  ASSUME NEW sec, NEW inodes, SectorOK(sec, inodes), NEW o \in DOMAIN sec
  PROVE  /\ OneMend(sec, [sec EXCEPT ![o].len = Sector - o], inodes)
         /\ [sec EXCEPT ![o].len = Sector - o][o].len = Sector - o
         /\ [sec EXCEPT ![o].len = Sector - o][o].need = sec[o].need
         /\ [sec EXCEPT ![o].len = Sector - o][o].of = sec[o].of
  <1> DEFINE new == [sec EXCEPT ![o].len = Sector - o]
  <1>1. sec \in [DOMAIN sec -> EntryOf(inodes)]
    BY DEF SectorOK, EntryOf
  <1>2. Sector - o \in Nat /\ o + (Sector - o) = Sector
    BY SectorFacts, FsckFacts
  <1>3. DOMAIN new = DOMAIN sec /\ new[o] = [sec[o] EXCEPT !.len = Sector - o] /\ \A p \in DOMAIN sec : p # o => new[p] = sec[p]
    BY <1>1
  <1>4. sec[o] \in EntryOf(inodes)
    BY <1>1
  <1>5. /\ new[o] \in EntryOf(inodes) /\ new[o].len = Sector - o
        /\ new[o].need = sec[o].need /\ new[o].of = sec[o].of /\ new[o].name = sec[o].name
        /\ new[o].type = sec[o].type
    BY <1>2, <1>3, <1>4 DEF EntryOf
  <1> HIDE DEF new
  <1>6. \A p \in DOMAIN sec : new[p] \in EntryOf(inodes)
    BY <1>1, <1>3, <1>5
  <1>7. new = [p \in DOMAIN sec |-> new[p]]
    BY DEF new
  <1>8. new \in [DOMAIN sec -> EntryOf(inodes)]
    BY <1>6, <1>7
  <1>9. ASSUME NEW p \in DOMAIN sec
        PROVE  /\ new[p].name = sec[p].name /\ new[p].of = sec[p].of /\ new[p].type = sec[p].type
               /\ new[p].need <= sec[p].need /\ new[p].need >= Shortest
               /\ new[p].len = sec[p].len \/ p + new[p].len = Sector
    <2>1. sec[p].need \in Nat /\ sec[p].need >= Shortest
      BY SectorFacts
    <2>2. sec[p].need <= sec[p].need
      BY <2>1
    <2> QED
      BY <2>1, <2>2, <1>2, <1>3, <1>5
  <1>10. OneMend(sec, new, inodes)
    BY <1>3, <1>8, <1>9 DEF OneMend
  <1> QED
    BY <1>10, <1>5 DEF new

LEMMA TargetMends ==
  ASSUME NEW sec, NEW inodes, SectorOK(sec, inodes), NEW o \in DOMAIN sec, Dotted(sec[o]), NEW x \in inodes
  PROVE  /\ OneMend(sec, [sec EXCEPT ![o].of = x], inodes)
         /\ [sec EXCEPT ![o].of = x][o].of = x
         /\ \A p \in DOMAIN sec : [sec EXCEPT ![o].of = x][p].len = sec[p].len
         /\ \A p \in DOMAIN sec \ {o} : [sec EXCEPT ![o].of = x][p] = sec[p]
  <1> DEFINE new == [sec EXCEPT ![o].of = x]
  <1>1. sec \in [DOMAIN sec -> EntryOf(inodes)]
    BY DEF SectorOK, EntryOf
  <1>3. DOMAIN new = DOMAIN sec /\ new[o] = [sec[o] EXCEPT !.of = x] /\ \A p \in DOMAIN sec : p # o => new[p] = sec[p]
    BY <1>1
  <1>4. sec[o] \in EntryOf(inodes)
    BY <1>1
  <1>5. /\ new[o] \in EntryOf(inodes) /\ new[o].len = sec[o].len
        /\ new[o].need = sec[o].need /\ new[o].of = x /\ new[o].name = sec[o].name /\ new[o].type = sec[o].type
    BY <1>3, <1>4 DEF EntryOf
  <1> HIDE DEF new
  <1>6. \A p \in DOMAIN sec : new[p] \in EntryOf(inodes)
    BY <1>1, <1>3, <1>5
  <1>7. new = [p \in DOMAIN sec |-> new[p]]
    BY DEF new
  <1>8. new \in [DOMAIN sec -> EntryOf(inodes)]
    BY <1>6, <1>7
  <1>9. ASSUME NEW p \in DOMAIN sec
        PROVE  /\ new[p].name = sec[p].name /\ new[p].type = sec[p].type /\ (new[p].of \in {sec[p].of, None} \/ Dotted(sec[p]))
               /\ new[p].need <= sec[p].need /\ new[p].need >= Shortest
               /\ new[p].len = sec[p].len
    <2>1. sec[p].need \in Nat /\ sec[p].need >= Shortest
      BY SectorFacts
    <2>2. sec[p].need <= sec[p].need
      BY <2>1
    <2> QED
      BY <2>1, <2>2, <1>3, <1>5
  <1>10. OneMend(sec, new, inodes)
    BY <1>3, <1>8, <1>9 DEF OneMend
  <1> QED
    BY <1>10, <1>3, <1>5, <1>9 DEF new

LEMMA FixDEntryMends ==
  ASSUME NEW sec, NEW inodes, SectorOK(sec, inodes), NEW off \in DOMAIN sec
  PROVE  OneMend(sec, FixDEntry(sec, off), inodes) /\ FixDEntry(sec, off)[off].of = None
         /\ FixDEntry(sec, off)[off].len = sec[off].len
  <1> DEFINE new == FixDEntry(sec, off)
  <1>0. Shortest \in Nat
    BY FsckFacts
  <1>1. sec \in [DOMAIN sec -> EntryOf(inodes)]
    BY DEF SectorOK, EntryOf
  <1>2. \A p \in DOMAIN sec : /\ sec[p].need \in Nat /\ sec[p].need >= Shortest /\ sec[p].need <= sec[p].need
                              /\ sec[p].len \in Nat /\ sec[p] \in EntryOf(inodes)
    BY SectorFacts
  <1>3. CASE off = 0
    <2>1. new = [sec EXCEPT ![0].need = Shortest, ![0].of = None]
      BY <1>3 DEF FixDEntry
    <2> HIDE DEF new
    <2>2. /\ DOMAIN new = DOMAIN sec /\ \A p \in DOMAIN sec : p # off => new[p] = sec[p]
          /\ new[off] = [[sec[off] EXCEPT !.need = Shortest] EXCEPT !.of = None]
          /\ new = [p \in DOMAIN sec |-> new[p]]
      BY <2>1, <1>1, <1>3
    <2>3. /\ new[off] \in EntryOf(inodes) /\ new[off].need = Shortest /\ new[off].of = None
          /\ new[off].len = sec[off].len /\ new[off].name = sec[off].name /\ new[off].type = sec[off].type
      BY <2>2, <1>0, <1>2 DEF EntryOf
    <2>4. new \in [DOMAIN sec -> EntryOf(inodes)]
      BY <2>2, <2>3, <1>2
    <2>5. ASSUME NEW p \in DOMAIN sec
          PROVE  /\ new[p].name = sec[p].name /\ new[p].type = sec[p].type /\ new[p].of \in {sec[p].of, None}
                 /\ new[p].need <= sec[p].need /\ new[p].need >= Shortest
                 /\ new[p].len = sec[p].len
      <3>1. CASE p = off
        BY <3>1, <2>3, <1>2, <1>0
      <3>2. CASE p # off
        <4>1. new[p] = sec[p]
          BY <3>2, <2>2
        <4> QED
          BY <4>1, <1>2
      <3> QED
        BY <3>1, <3>2
    <2>6. OneMend(sec, new, inodes)
      BY <2>2, <2>4, <2>5 DEF OneMend
    <2> QED
      BY <2>3, <2>6 DEF new
  <1>4. CASE off # 0
    <2>1. new = [o \in DOMAIN sec |->
            IF o = off THEN [sec[o] EXCEPT !.of = None]
            ELSE IF o \in Before(sec, off) THEN [sec[o] EXCEPT !.len = @ + sec[off].len]
            ELSE sec[o]]
      BY <1>4 DEF FixDEntry
    <2> HIDE DEF new
    <2>2. DOMAIN new = DOMAIN sec /\ new = [p \in DOMAIN sec |-> new[p]] /\ new[off] = [sec[off] EXCEPT !.of = None]
      BY <2>1
    <2>3. ASSUME NEW p \in DOMAIN sec
          PROVE  /\ new[p] \in EntryOf(inodes)
                 /\ new[p].name = sec[p].name /\ new[p].type = sec[p].type /\ new[p].of \in {sec[p].of, None}
                 /\ new[p].need = sec[p].need
                 /\ \/ new[p].len = sec[p].len
                    \/ p + sec[p].len = off /\ p # off /\ new[p].len = sec[p].len + sec[off].len
      <3>1. CASE p = off
        BY <3>1, <2>2, <1>2 DEF EntryOf
      <3>2. CASE p # off /\ p \in Before(sec, off)
        <4>1. new[p] = [sec[p] EXCEPT !.len = sec[p].len + sec[off].len]
          BY <2>1, <3>2, <1>2 DEF EntryOf
        <4>2. p + sec[p].len = off
          BY <3>2 DEF Before
        <4>3. sec[p].len + sec[off].len \in Nat
          BY <1>2
        <4>4. sec[p] \in EntryOf(inodes)
          BY <1>2
        <4>5. /\ new[p] \in EntryOf(inodes) /\ new[p].name = sec[p].name /\ new[p].of = sec[p].of
              /\ new[p].type = sec[p].type
              /\ new[p].need = sec[p].need /\ new[p].len = sec[p].len + sec[off].len
          BY <4>1, <4>3, <4>4 DEF EntryOf
        <4> QED
          BY <4>2, <4>5, <3>2
      <3>3. CASE p # off /\ p \notin Before(sec, off)
        <4>1. new[p] = sec[p]
          BY <2>1, <3>3
        <4> QED
          BY <4>1, <1>2
      <3> QED
        BY <3>1, <3>2, <3>3
    <2>4. new \in [DOMAIN sec -> EntryOf(inodes)]
      BY <2>2, <2>3
    <2>5. new[off].of = None /\ new[off].len = sec[off].len
      BY <2>2, <1>2 DEF EntryOf
    <2>6. OneMend(sec, new, inodes)
      BY <2>2, <2>4, <2>3, <1>2 DEF OneMend
    <2> QED
      BY <2>5, <2>6 DEF new
  <1> QED
    BY <1>3, <1>4

-----------------------------------------------------------------------------
(* A filesystem stays well formed.                                         *)

TreeOK(inode, dir) ==
    /\ inode \in [DOMAIN inode -> [mode : Types, segs : SegmentsOnDisk]]
    /\ dir \in [DOMAIN dir -> Seq(UNION {Range(dir[d]) : d \in DOMAIN dir})]
    /\ Root \in DOMAIN dir
    /\ DOMAIN dir = {x \in DOMAIN inode : inode[x].mode = "dir"}
    /\ \A d \in DOMAIN dir :
          /\ dir[d] # <<>>
          /\ \A k \in DOMAIN dir[d] : SectorOK(dir[d][k], DOMAIN inode)

FieldsOK(f) ==
    /\ f.main \in BOOLEAN /\ f.backup \in BOOLEAN /\ f.num \in Nat /\ f.area \in BOOLEAN
    /\ f.writeError \in BOOLEAN /\ f.errorsFixed \in BOOLEAN /\ f.unreadable \in SUBSET (Nat \X Nat)
    /\ f.badAttrs \in SUBSET DOMAIN f.inode /\ f.badZones \in SUBSET (Nat \X Nat)
    /\ f.bits \in [Subs -> SUBSET Nat] /\ f.stray \in [Subs -> SUBSET Nat]
    /\ \A s \in Subs : f.bits[s] \subseteq ZonesOf(s)
    /\ TreeOK(f.inode, f.dir)

Fields == {"main", "backup", "num", "area", "writeError", "errorsFixed", "unreadable",
           "badAttrs", "badZones", "bits", "stray", "inode", "dir"}
FieldsOf(f) == DOMAIN f = Fields /\ f = [x \in Fields |-> f[x]]

LEMMA WellFormedFields ==
  ASSUME NEW f
  PROVE  WellFormed(f) <=> FieldsOf(f) /\ FieldsOK(f)
  <1> DEFINE N == SUBSET (Nat \X Nat)
             A == SUBSET DOMAIN f.inode
             B == [Subs -> SUBSET Nat]
             I == [DOMAIN f.inode -> [mode : Types, segs : SegmentsOnDisk]]
             D == [DOMAIN f.dir -> Seq(UNION {Range(f.dir[d]) : d \in DOMAIN f.dir})]
             R == [main : BOOLEAN, backup : BOOLEAN, num : Nat, area : BOOLEAN,
                   writeError : BOOLEAN, errorsFixed : BOOLEAN, unreadable : N,
                   badAttrs : A, badZones : N, bits : B, stray : B, inode : I, dir : D]
             T == /\ f.main \in BOOLEAN /\ f.backup \in BOOLEAN /\ f.num \in Nat /\ f.area \in BOOLEAN
                  /\ f.writeError \in BOOLEAN /\ f.errorsFixed \in BOOLEAN /\ f.unreadable \in N
                  /\ f.badAttrs \in A /\ f.badZones \in N /\ f.bits \in B /\ f.stray \in B
                  /\ f.inode \in I /\ f.dir \in D
  <1>1. WellFormed(f) <=> f \in R /\ (\A s \in Subs : f.bits[s] \subseteq ZonesOf(s)) /\ Root \in DOMAIN f.dir
            /\ DOMAIN f.dir = {x \in DOMAIN f.inode : f.inode[x].mode = "dir"}
            /\ \A d \in DOMAIN f.dir :
                 /\ f.dir[d] # <<>>
                 /\ \A k \in DOMAIN f.dir[d] : SectorOK(f.dir[d][k], DOMAIN f.inode)
    BY DEF WellFormed
  <1>2. FieldsOK(f) <=> T /\ (\A s \in Subs : f.bits[s] \subseteq ZonesOf(s)) /\ Root \in DOMAIN f.dir
            /\ DOMAIN f.dir = {x \in DOMAIN f.inode : f.inode[x].mode = "dir"}
            /\ \A d \in DOMAIN f.dir :
                 /\ f.dir[d] # <<>>
                 /\ \A k \in DOMAIN f.dir[d] : SectorOK(f.dir[d][k], DOMAIN f.inode)
    BY DEF FieldsOK, TreeOK
  <1> HIDE DEF N, A, B, I, D
  <1>3. f \in R <=> FieldsOf(f) /\ T
    <2>1. ASSUME f \in R PROVE T
      BY <2>1
    <2>2. ASSUME f \in R PROVE FieldsOf(f)
      BY <2>2 DEF FieldsOf, Fields
    <2>3. ASSUME FieldsOf(f), T PROVE f \in R
      <3>1. f = [main |-> f.main, backup |-> f.backup, num |-> f.num, area |-> f.area,
         writeError |-> f.writeError, errorsFixed |-> f.errorsFixed, unreadable |-> f.unreadable,
         badAttrs |-> f.badAttrs, badZones |-> f.badZones, bits |-> f.bits, stray |-> f.stray,
         inode |-> f.inode, dir |-> f.dir]
        BY <2>3 DEF FieldsOf, Fields
      <3> QED
        BY <3>1, <2>3
    <2> QED
      BY <2>1, <2>2, <2>3
  <1> HIDE DEF R, T
  <1> QED
    BY <1>1, <1>2, <1>3

LEMMA AreaSet ==
  ASSUME NEW f, WellFormed(f)
  PROVE  LET g == [f EXCEPT !.area = TRUE]
         IN  /\ WellFormed(g) /\ g.inode = f.inode /\ g.dir = f.dir /\ g.badZones = f.badZones
             /\ g.bits = f.bits /\ g.stray = f.stray /\ g.writeError = f.writeError
  <1> DEFINE g == [f EXCEPT !.area = TRUE]
  <1>1. FieldsOf(f) /\ FieldsOK(f)
    BY WellFormedFields
  <1>2. FieldsOf(g) /\ g.area = TRUE /\ \A x \in Fields \ {"area"} : g[x] = f[x]
    BY <1>1 DEF FieldsOf, Fields
  <1> HIDE DEF g
  <1>3. FieldsOf(g) /\ FieldsOK(g)
    <2>1. /\ g.main = f.main /\ g.backup = f.backup /\ g.num = f.num
          /\ g.writeError = f.writeError /\ g.errorsFixed = f.errorsFixed /\ g.unreadable = f.unreadable
          /\ g.badAttrs = f.badAttrs /\ g.badZones = f.badZones /\ g.bits = f.bits /\ g.stray = f.stray
          /\ g.inode = f.inode /\ g.dir = f.dir
      BY <1>2 DEF Fields
    <2> QED
      BY <1>1, <1>2, <2>1 DEF FieldsOK
  <1>4. WellFormed(g)
    BY <1>3, WellFormedFields
  <1>5. /\ g.inode = f.inode /\ g.dir = f.dir /\ g.badZones = f.badZones
        /\ g.bits = f.bits /\ g.stray = f.stray /\ g.writeError = f.writeError
    BY <1>2 DEF Fields
  <1> QED
    BY <1>4, <1>5 DEF g

LEMMA TreeFacts ==
  ASSUME NEW f, WellFormed(f)
  PROVE  /\ Root \in DOMAIN f.dir /\ DOMAIN f.dir \subseteq DOMAIN f.inode
         /\ \A x \in DOMAIN f.inode : /\ f.inode[x].mode \in Types /\ f.inode[x].segs \in SegmentsOnDisk
                                      /\ f.inode[x].mode = "dir" <=> x \in DOMAIN f.dir
         /\ \A d \in DOMAIN f.dir :
               /\ f.dir[d] \in Seq(UNION {Range(f.dir[c]) : c \in DOMAIN f.dir})
               /\ Len(f.dir[d]) \in Nat \ {0} /\ DOMAIN f.dir[d] = 1 .. Len(f.dir[d])
               /\ \A k \in 1 .. Len(f.dir[d]) : SectorOK(f.dir[d][k], DOMAIN f.inode)
  <1>1. TreeOK(f.inode, f.dir)
    BY WellFormedFields DEF FieldsOK
  <1>2. ASSUME NEW d \in DOMAIN f.dir
        PROVE  /\ f.dir[d] \in Seq(UNION {Range(f.dir[c]) : c \in DOMAIN f.dir})
               /\ Len(f.dir[d]) \in Nat \ {0} /\ DOMAIN f.dir[d] = 1 .. Len(f.dir[d])
               /\ \A k \in 1 .. Len(f.dir[d]) : SectorOK(f.dir[d][k], DOMAIN f.inode)
    <2>1. f.dir[d] \in Seq(UNION {Range(f.dir[c]) : c \in DOMAIN f.dir}) /\ f.dir[d] # <<>>
      BY <1>1 DEF TreeOK
    <2>2. Len(f.dir[d]) \in Nat \ {0} /\ DOMAIN f.dir[d] = 1 .. Len(f.dir[d])
      BY <2>1
    <2> QED
      BY <1>1, <2>1, <2>2 DEF TreeOK
  <1>3. ASSUME NEW x \in DOMAIN f.inode
        PROVE  /\ f.inode[x].mode \in Types /\ f.inode[x].segs \in SegmentsOnDisk
               /\ f.inode[x].mode = "dir" <=> x \in DOMAIN f.dir
    <2>1. f.inode[x] \in [mode : Types, segs : SegmentsOnDisk]
      BY <1>1 DEF TreeOK
    <2>2. DOMAIN f.dir = {y \in DOMAIN f.inode : f.inode[y].mode = "dir"}
      BY <1>1 DEF TreeOK
    <2> QED
      BY <2>1, <2>2
  <1>4. Root \in DOMAIN f.dir /\ DOMAIN f.dir \subseteq DOMAIN f.inode
    BY <1>1 DEF TreeOK
  <1> QED
    BY <1>2, <1>3, <1>4

\* What only directories and inodes say.
SameRest(f, g) ==
    /\ g.badZones = f.badZones /\ g.writeError = f.writeError /\ g.bits = f.bits /\ g.stray = f.stray

WithSector(f, d, k, sec) == [f EXCEPT !.dir[d][k] = sec]
WithSegments(f, x, n)    == [f EXCEPT !.inode[x].segs = SubSeq(@, 1, n)]
TurnTo(t, a, n)          == [t EXCEPT !.at = a, !.size = n]

LEMMA SectorSet ==
  ASSUME NEW f, WellFormed(f), NEW d \in DOMAIN f.dir, NEW k \in 1 .. Len(f.dir[d]),
         NEW sec, SectorOK(sec, DOMAIN f.inode), NEW g, g = WithSector(f, d, k, sec)
  PROVE  /\ WellFormed(g) /\ SameRest(f, g) /\ g.inode = f.inode /\ DOMAIN g.dir = DOMAIN f.dir
         /\ \A c \in DOMAIN f.dir : Len(g.dir[c]) = Len(f.dir[c]) /\ (c # d => g.dir[c] = f.dir[c])
         /\ g.dir[d][k] = sec /\ \A j \in 1 .. Len(f.dir[d]) : j # k => g.dir[d][j] = f.dir[d][j]
  <1>1. FieldsOf(f) /\ FieldsOK(f)
    BY WellFormedFields
  <1>2. FieldsOf(g) /\ g.dir = [f.dir EXCEPT ![d][k] = sec] /\ \A x \in Fields \ {"dir"} : g[x] = f[x]
    BY <1>1 DEF FieldsOf, Fields, WithSector
  <1> DEFINE D == g.dir
             l == Len(f.dir[d])
             S == UNION {Range(D[c]) : c \in DOMAIN D}
  <1>3. f.dir[d] \in Seq(UNION {Range(f.dir[c]) : c \in DOMAIN f.dir}) /\ l \in Nat \ {0} /\ DOMAIN f.dir[d] = 1 .. l
    BY TreeFacts
  <1>4. /\ DOMAIN D = DOMAIN f.dir /\ D = [c \in DOMAIN f.dir |-> D[c]]
        /\ D[d] = [f.dir[d] EXCEPT ![k] = sec] /\ \A c \in DOMAIN f.dir : c # d => D[c] = f.dir[c]
    <2>1. f.dir = [c \in DOMAIN f.dir |-> f.dir[c]]
      BY WellFormedFields DEF FieldsOK, TreeOK
    <2> QED
      BY <1>2, <2>1
  <1>a. f.dir[d] = [j \in 1 .. l |-> f.dir[d][j]]
    BY <1>3
  <1>5. /\ D[d] = [j \in 1 .. l |-> D[d][j]] /\ D[d][k] = sec
        /\ \A j \in 1 .. l : j # k => D[d][j] = f.dir[d][j]
    <2> DEFINE u == f.dir[d]
    <2>1. D[d] = [u EXCEPT ![k] = sec] /\ u = [j \in 1 .. l |-> u[j]]
      BY <1>4, <1>a
    <2> HIDE DEF D, u
    <2> QED
      BY <2>1 DEF u
  <1>b. \A x \in Fields \ {"dir"} : g[x] = f[x]
    BY <1>2
  <1>c. FieldsOf(g)
    BY <1>2
  <1> HIDE DEF D
  <1>6. \A j \in 1 .. l : D[d][j] \in Range(D[d])
    <2>1. DOMAIN D[d] = 1 .. l
      BY <1>5
    <2> QED
      BY <2>1 DEF Range
  <1>7. ASSUME NEW c \in DOMAIN D PROVE D[c] \in Seq(S) /\ Len(D[c]) = Len(f.dir[c])
    <2>1. CASE c = d
      <3>1. \A j \in 1 .. l : D[d][j] \in S
        BY <1>6, <1>4
      <3>2. D[d] \in [1 .. l -> S]
        BY <3>1, <1>5
      <3>3. D[d] \in Seq(S) /\ Len(D[d]) = l
        BY <3>2, <1>3
      <3> QED
        BY <2>1, <3>3
    <2>2. CASE c # d
      <3>1. D[c] = f.dir[c] /\ f.dir[c] \in Seq(UNION {Range(f.dir[b]) : b \in DOMAIN f.dir})
        BY <2>2, <1>4, TreeFacts
      <3>2. \A j \in 1 .. Len(D[c]) : D[c][j] \in S
        <4>1. DOMAIN D[c] = 1 .. Len(D[c])
          BY <3>1
        <4>2. \A j \in 1 .. Len(D[c]) : D[c][j] \in Range(D[c])
          BY <4>1 DEF Range
        <4> QED
          BY <4>2
      <3>3. D[c] \in Seq(S)
        BY <3>1, <3>2
      <3> QED
        BY <3>1, <3>3
    <2> QED
      BY <2>1, <2>2
  <1>8. ASSUME NEW c \in DOMAIN D
        PROVE  D[c] # <<>> /\ \A j \in DOMAIN D[c] : SectorOK(D[c][j], DOMAIN f.inode)
    <2>1. CASE c = d
      <3>1. DOMAIN D[d] = 1 .. l
        BY <1>5
      <3>2. \A j \in 1 .. l : SectorOK(D[d][j], DOMAIN f.inode)
        BY <1>5, TreeFacts
      <3>3. D[d] # <<>>
        BY <1>3, <1>7, <1>4
      <3> QED
        BY <2>1, <3>1, <3>2, <3>3
    <2>2. CASE c # d
      BY <2>2, <1>4, WellFormedFields DEF FieldsOK, TreeOK
    <2> QED
      BY <2>1, <2>2
  <1>9. /\ g.main = f.main /\ g.backup = f.backup /\ g.num = f.num /\ g.area = f.area
        /\ g.writeError = f.writeError /\ g.errorsFixed = f.errorsFixed /\ g.unreadable = f.unreadable
        /\ g.badAttrs = f.badAttrs /\ g.badZones = f.badZones /\ g.bits = f.bits /\ g.stray = f.stray
        /\ g.inode = f.inode
    BY <1>b DEF Fields
  <1>10. TreeOK(g.inode, D)
    <2>1. TreeOK(f.inode, f.dir)
      BY <1>1 DEF FieldsOK
    <2>2. D \in [DOMAIN D -> Seq(S)]
      BY <1>4, <1>7
    <2> HIDE DEF S
    <2>3. f.inode \in [DOMAIN f.inode -> [mode : Types, segs : SegmentsOnDisk]]
      BY <2>1 DEF TreeOK
    <2>4. Root \in DOMAIN D /\ DOMAIN D = {x \in DOMAIN f.inode : f.inode[x].mode = "dir"}
      BY <2>1, <1>4 DEF TreeOK
    <2> QED
      BY <2>2, <2>3, <2>4, <1>8, <1>9 DEF TreeOK, S
  <1>11. FieldsOK(g)
    BY <1>1, <1>9, <1>10 DEF FieldsOK, D
  <1>12. WellFormed(g)
    BY <1>c, <1>11, WellFormedFields
  <1>13. SameRest(f, g)
    BY <1>9 DEF SameRest
  <1>14. \A c \in DOMAIN f.dir : Len(g.dir[c]) = Len(f.dir[c]) /\ (c # d => g.dir[c] = f.dir[c])
    BY <1>4, <1>7 DEF D
  <1>15. DOMAIN g.dir = DOMAIN f.dir /\ g.dir[d][k] = sec /\ \A j \in 1 .. l : j # k => g.dir[d][j] = f.dir[d][j]
    BY <1>4, <1>5 DEF D
  <1> QED
    BY <1>9, <1>12, <1>13, <1>14, <1>15

LEMMA InodeCut ==
  ASSUME NEW f, WellFormed(f), NEW x \in DOMAIN f.inode, NEW n \in Nat, n <= Len(f.inode[x].segs),
         NEW g, g = WithSegments(f, x, n)
  PROVE  /\ WellFormed(g) /\ SameRest(f, g) /\ g.dir = f.dir /\ DOMAIN g.inode = DOMAIN f.inode
         /\ \A y \in DOMAIN f.inode : y # x => g.inode[y] = f.inode[y]
         /\ g.inode[x].mode = f.inode[x].mode /\ Len(g.inode[x].segs) = n
         /\ \A i \in 1 .. n : g.inode[x].segs[i] = f.inode[x].segs[i]
  <1> DEFINE old == f.inode[x].segs
  <1>1. FieldsOf(f) /\ FieldsOK(f)
    BY WellFormedFields
  <1>2. FieldsOf(g) /\ g.inode = [f.inode EXCEPT ![x].segs = SubSeq(@, 1, n)] /\ \A y \in Fields \ {"inode"} : g[y] = f[y]
    BY <1>1 DEF FieldsOf, Fields, WithSegments
  <1>3. /\ f.inode = [y \in DOMAIN f.inode |-> f.inode[y]]
        /\ \A y \in DOMAIN f.inode : f.inode[y] \in [mode : Types, segs : SegmentsOnDisk]
    BY <1>1 DEF FieldsOK, TreeOK
  <1>4. /\ DOMAIN g.inode = DOMAIN f.inode /\ g.inode = [y \in DOMAIN f.inode |-> g.inode[y]]
        /\ g.inode[x] = [f.inode[x] EXCEPT !.segs = SubSeq(old, 1, n)]
        /\ \A y \in DOMAIN f.inode : y # x => g.inode[y] = f.inode[y]
    <2> DEFINE u == f.inode
    <2>1. g.inode = [u EXCEPT ![x] = [u[x] EXCEPT !.segs = SubSeq(old, 1, n)]]
      BY <1>2
    <2>2. u = [y \in DOMAIN u |-> u[y]]
      BY <1>3
    <2>3. DOMAIN u = DOMAIN f.inode /\ x \in DOMAIN u
      OBVIOUS
    <2> HIDE DEF old
    <2> HIDE DEF u
    <2>4. DOMAIN g.inode = DOMAIN u /\ g.inode = [y \in DOMAIN u |-> g.inode[y]]
      BY <2>1, <2>2
    <2>5. g.inode[x] = [u[x] EXCEPT !.segs = SubSeq(old, 1, n)] /\ \A y \in DOMAIN u : y # x => g.inode[y] = u[y]
      BY <2>1, <2>2, <2>3
    <2> QED
      BY <2>3, <2>4, <2>5 DEF u
  <1>b. \A y \in Fields \ {"inode"} : g[y] = f[y]
    BY <1>2
  <1>c. FieldsOf(g)
    BY <1>2
  <1>5. old \in Seq([sub : Nat, num : Nat, cnt : Nat])
    BY <1>3 DEF SegmentsOnDisk
  <1>6. /\ SubSeq(old, 1, n) \in Seq([sub : Nat, num : Nat, cnt : Nat]) /\ Len(SubSeq(old, 1, n)) = n
        /\ \A i \in 1 .. n : SubSeq(old, 1, n)[i] = old[i]
    <2> HIDE DEF old
    <2>1. n <= Len(old) /\ Len(old) \in Nat
      BY <1>5 DEF old
    <2>2. SubSeq(old, 1, n) = [i \in 1 .. n |-> old[i]]
      BY <1>5, <2>1
    <2> DEFINE Z == [sub : Nat, num : Nat, cnt : Nat]
               v == SubSeq(old, 1, n)
    <2>a. old \in Seq(Z)
      BY <1>5
    <2> HIDE DEF Z, v
    <2>3. \A i \in 1 .. n : old[i] \in Z
      BY <2>a, <2>1
    <2>b. v = [i \in 1 .. n |-> old[i]]
      BY <2>2 DEF v
    <2>4. v \in [1 .. n -> Z]
      BY <2>b, <2>3
    <2>5. v \in Seq(Z) /\ Len(v) = n
      BY <2>4
    <2> QED
      BY <2>b, <2>5 DEF Z, v
  <1>7. g.inode[x].mode = f.inode[x].mode /\ g.inode[x].segs = SubSeq(old, 1, n)
        /\ g.inode[x] \in [mode : Types, segs : SegmentsOnDisk]
    <2>1. SubSeq(old, 1, n) \in SegmentsOnDisk
      BY <1>6 DEF SegmentsOnDisk
    <2>2. f.inode[x] \in [mode : Types, segs : SegmentsOnDisk]
      BY <1>3
    <2> HIDE DEF old
    <2> QED
      BY <1>4, <2>1, <2>2
  <1>9. /\ g.main = f.main /\ g.backup = f.backup /\ g.num = f.num /\ g.area = f.area
        /\ g.writeError = f.writeError /\ g.errorsFixed = f.errorsFixed /\ g.unreadable = f.unreadable
        /\ g.badAttrs = f.badAttrs /\ g.badZones = f.badZones /\ g.bits = f.bits /\ g.stray = f.stray
        /\ g.dir = f.dir
    BY <1>b DEF Fields
  <1>10. TreeOK(g.inode, g.dir)
    <2>1. TreeOK(f.inode, f.dir)
      BY <1>1 DEF FieldsOK
    <2>2. \A y \in DOMAIN f.inode : g.inode[y] \in [mode : Types, segs : SegmentsOnDisk]
      BY <1>3, <1>4, <1>7
    <2>3. g.inode \in [DOMAIN g.inode -> [mode : Types, segs : SegmentsOnDisk]]
      BY <2>2, <1>4
    <2>4. \A y \in DOMAIN f.inode : g.inode[y].mode = f.inode[y].mode
      BY <1>4, <1>7
    <2>5. {y \in DOMAIN g.inode : g.inode[y].mode = "dir"} = {y \in DOMAIN f.inode : f.inode[y].mode = "dir"}
      BY <2>4, <1>4
    <2>6. /\ f.dir \in [DOMAIN f.dir -> Seq(UNION {Range(f.dir[d]) : d \in DOMAIN f.dir})]
          /\ Root \in DOMAIN f.dir
          /\ DOMAIN f.dir = {y \in DOMAIN f.inode : f.inode[y].mode = "dir"}
          /\ \A d \in DOMAIN f.dir :
               /\ f.dir[d] # <<>>
               /\ \A k \in DOMAIN f.dir[d] : SectorOK(f.dir[d][k], DOMAIN g.inode)
      BY <2>1, <1>4 DEF TreeOK
    <2> QED
      BY <2>3, <2>5, <2>6, <1>9 DEF TreeOK
  <1>11. FieldsOK(g)
    BY <1>1, <1>4, <1>9, <1>10 DEF FieldsOK
  <1>12. WellFormed(g)
    BY <1>c, <1>11, WellFormedFields
  <1>13. SameRest(f, g)
    BY <1>9 DEF SameRest
  <1> QED
    BY <1>4, <1>6, <1>7, <1>9, <1>12, <1>13

-----------------------------------------------------------------------------
(* The invariant of HealthyKept.                                           *)

\* A filesystem during a check and at its start: lists of segments were cut, and
\* entries mended.
Mended(f, g) ==
    /\ DOMAIN g.inode = DOMAIN f.inode /\ DOMAIN g.dir = DOMAIN f.dir /\ g.badZones = f.badZones
    /\ \A x \in DOMAIN f.inode :
          /\ g.inode[x].mode = f.inode[x].mode
          /\ Len(g.inode[x].segs) <= Len(f.inode[x].segs)
          /\ \A i \in 1 .. Len(g.inode[x].segs) : g.inode[x].segs[i] = f.inode[x].segs[i]
    /\ \A d \in DOMAIN f.dir :
          /\ Len(g.dir[d]) = Len(f.dir[d])
          /\ \A k \in 1 .. Len(f.dir[d]) : SectorMended(f.dir[d][k], g.dir[d][k])

ControlInv ==
    /\ pc \in {"closed", "open", "ended", "gaveup"} \/ Running
    /\ hasError \in BOOLEAN /\ fixed \in BOOLEAN /\ stopFlag \in BOOLEAN /\ fixing \in BOOLEAN

TreeInv == WellFormed(fs) /\ WellFormed(first) /\ Mended(first, fs)

\* The directories being walked: those below the last are at an entry whose inode
\* is being walked.  Offsets are those the walk of the first filesystem comes to.
Tests  == {"aligned", "enough", "ends", "file", "next"}
Walked == Reached(first) \cap DOMAIN first.dir
Spots == [dir : Walked, parent : Walked, k : Nat, off : Nat, size : Nat, at : Tests]
Offsets(t) == Parsed(first.dir[t.dir][t.k]) \cup {Sector}
PlaceOK(t) ==
    /\ t \in Spots
    /\ t.k \in 1 .. Len(first.dir[t.dir])
    /\ t.off \in Offsets(t)
    /\ t.at # "aligned" => t.off # Sector
    /\ t.at \in {"ends", "file", "next"} => t.size > 0
    /\ t.at \in {"file", "next"} => t.off + t.size \in Offsets(t)

PathInv ==
    /\ stack \in Seq(Spots) /\ Len(stack) <= MaxDepth
    /\ \A n \in 1 .. Len(stack) : PlaceOK(stack[n]) /\ (n < Len(stack) => stack[n].at = "next")
    /\ pc \notin {"walk", "segments"} => stack = <<>>
    /\ pc = "segments" => stack # <<>> /\ Len(stack) < MaxDepth /\ Top.at = "next"

TopInv ==
    pc = "walk" /\ stack # <<>> /\ Top.at \in {"enough", "ends"} =>
        Top.size = Rest \/ (Top.size = This.len /\ This.len % Align = 0)

SegInv ==
    /\ seg \in [ino : DOMAIN first.inode, i : Nat \ {0}]
    /\ pc \in {"root", "segments"} => seg.i - 1 <= Len(Segs(seg.ino))
    /\ pc = "root" => seg.ino = Root

\* The walk is in the inode of the entry it is at.
TypeInv == pc = "segments" => This.type = fs.inode[seg.ino].mode

\* "V" are the inodes whose segments were checked: what the map has is reserved, or
\* theirs, or of the segments before seg.i.
InHand ==
    IF pc \in {"root", "segments"}
    THEN UNION {Covers(first.inode[seg.ino].segs[j]) : j \in 1 .. seg.i - 1} ELSE {}
MapInv(V) ==
    \A g \in map : \E s \in Subs : \E z \in ZonesOf(s) :
        /\ g = PlaceOf(s, z)
        /\ z \in Reserved[s] \/ <<s, z>> \in InHand \/ \E y \in V : <<s, z>> \in Owned(first, y)

\* An inode that is not tangled was met at an entry that every walk of its directory
\* is past, so that it is not met again.
Passed(t, e) == e[2] < t.k \/ (e[2] = t.k /\ (e[3] < t.off \/ (e[3] = t.off /\ t.at = "next")))
MetAt(x, e) == e \in Names(first) /\ Named(first, e) = x
VisitInv(V) ==
    /\ V \subseteq Reached(first)
    /\ pc \in {"open", "attribute", "root"} => V = {}
    /\ pc = "rootchecked" => V = {Root}
    /\ \A n \in 1 .. Len(stack) : stack[n].dir \in V
    /\ \A x \in V \ Tangled(first) : x # Root =>
          \E e : /\ MetAt(x, e) /\ e[1] \in V
                 /\ \A n \in 1 .. Len(stack) : stack[n].dir = e[1] => Passed(stack[n], e)
    /\ \A n, m \in 1 .. Len(stack) : n # m /\ stack[n].dir = stack[m].dir => stack[n].dir \in Tangled(first)
    /\ pc = "segments" =>
          /\ seg.ino \in Reached(first) /\ (seg.ino \in V => seg.ino \in Tangled(first))
          /\ \E e : MetAt(seg.ino, e) /\ e[1] = Top.dir /\ Passed(Top, e)

Excused(x) ==
    \/ ~InsideVolume(first, x) \/ ~Alone(first, x) \/ Owned(first, x) \cap first.badZones # {}
    \/ x \in Tangled(first)
KeptInv == \A x \in DOMAIN fs.inode : fs.inode[x] # first.inode[x] => Excused(x)

HealthInv ==
    /\ ControlInv /\ TreeInv /\ PathInv /\ TopInv /\ SegInv /\ KeptInv
    /\ \E V : VisitInv(V) /\ MapInv(V)

-----------------------------------------------------------------------------
(* The walk of a sector.                                                   *)

LEMMA NamesAt ==
  ASSUME NEW f, WellFormed(f), NEW e \in Names(f)
  PROVE  e[2] \in Nat /\ e[3] \in Nat
  <1>1. e[1] \in DOMAIN f.dir /\ e \in Naming(f, e[1])
    BY ReachedFacts
  <1>2. e[2] \in 1 .. Len(f.dir[e[1]]) /\ e[3] \in Parsed(f.dir[e[1]][e[2]])
    BY <1>1, NamingFacts
  <1>3. SectorOK(f.dir[e[1]][e[2]], DOMAIN f.inode) /\ Len(f.dir[e[1]]) \in Nat
    BY <1>1, <1>2, TreeFacts
  <1>4. e[3] \in DOMAIN f.dir[e[1]][e[2]]
    BY <1>2, <1>3, SectorFacts
  <1>5. e[3] \in Nat
    BY <1>3, <1>4, SectorFacts
  <1>6. e[2] \in Nat
    BY <1>2, <1>3
  <1> QED
    BY <1>5, <1>6

LEMMA MendedItself ==
  ASSUME NEW f, WellFormed(f)
  PROVE  Mended(f, f)
  <1>1. ASSUME NEW d \in DOMAIN f.dir, NEW k \in 1 .. Len(f.dir[d])
        PROVE  SectorMended(f.dir[d][k], f.dir[d][k])
    <2> DEFINE sec == f.dir[d][k]
    <2>1. SectorOK(sec, DOMAIN f.inode)
      BY TreeFacts
    <2> HIDE DEF sec
    <2>2. \A o \in DOMAIN sec : sec[o].need <= sec[o].need /\ sec[o].len >= sec[o].len
      BY <2>1, SectorFacts
    <2> QED
      BY <2>2, ParsedFacts DEF SectorMended, sec
  <1>2. \A x \in DOMAIN f.inode : Len(f.inode[x].segs) <= Len(f.inode[x].segs)
    <2> TAKE x \in DOMAIN f.inode
    <2>1. f.inode[x].segs \in Seq([sub : Nat, num : Nat, cnt : Nat])
      BY TreeFacts DEF SegmentsOnDisk
    <2>2. Len(f.inode[x].segs) \in Nat
      BY <2>1
    <2> QED
      BY <2>2
  <1> QED
    BY <1>1, <1>2 DEF Mended

\* The last directory, and the entry it is at.
LEMMA TopFacts ==
  ASSUME TreeInv, PathInv, stack # <<>>
  PROVE  /\ Len(stack) \in Nat \ {0} /\ Top = stack[Len(stack)] /\ PlaceOK(Top)
         /\ Top.dir \in DOMAIN fs.dir /\ Top.dir \in DOMAIN first.dir /\ Top.dir \in Reached(first)
         /\ Top.parent \in DOMAIN first.dir
         /\ Top.k \in 1 .. Len(Sectors) /\ Len(Sectors) = Len(first.dir[Top.dir])
         /\ SectorOK(Here, DOMAIN fs.inode)
         /\ SectorOK(first.dir[Top.dir][Top.k], DOMAIN fs.inode)
         /\ SectorMended(first.dir[Top.dir][Top.k], Here)
         /\ DOMAIN Here = DOMAIN first.dir[Top.dir][Top.k]
         /\ Top.off # Sector => Top.off \in Parsed(first.dir[Top.dir][Top.k]) /\ Top.off \in DOMAIN Here
                                /\ Top.off \in Nat /\ Top.off < Sector /\ Rest \in Nat \ {0}
         /\ Top.off < Sector <=> Top.off # Sector
         /\ Sector \in Nat
  <1>0. Sector \in Nat
    BY FsckFacts
  <1>1. Len(stack) \in Nat \ {0} /\ Top = stack[Len(stack)]
    BY DEF PathInv, Top, Last
  <1>2. PlaceOK(Top)
    BY <1>1 DEF PathInv
  <1>3. Top \in Spots /\ Top.k \in 1 .. Len(first.dir[Top.dir]) /\ Top.off \in Offsets(Top)
    BY <1>2 DEF PlaceOK
  <1>4. Top.dir \in Reached(first) /\ Top.dir \in DOMAIN first.dir /\ Top.parent \in DOMAIN first.dir
    BY <1>3 DEF Spots, Walked
  <1>5. /\ DOMAIN fs.dir = DOMAIN first.dir /\ DOMAIN fs.inode = DOMAIN first.inode
        /\ Len(fs.dir[Top.dir]) = Len(first.dir[Top.dir])
        /\ SectorMended(first.dir[Top.dir][Top.k], fs.dir[Top.dir][Top.k])
    BY <1>3, <1>4 DEF TreeInv, Mended
  <1>6. SectorOK(first.dir[Top.dir][Top.k], DOMAIN first.inode) /\ SectorOK(fs.dir[Top.dir][Top.k], DOMAIN fs.inode)
    BY <1>3, <1>4, <1>5, TreeFacts DEF TreeInv
  <1>7. DOMAIN Here = DOMAIN first.dir[Top.dir][Top.k]
    BY <1>5 DEF SectorMended, Here, Sectors
  <1>8. ASSUME Top.off # Sector
        PROVE  Top.off \in Parsed(first.dir[Top.dir][Top.k]) /\ Top.off \in DOMAIN Here
               /\ Top.off \in Nat /\ Top.off < Sector /\ Rest \in Nat \ {0}
    <2>1. Top.off \in Parsed(first.dir[Top.dir][Top.k])
      BY <1>3, <1>8 DEF Offsets
    <2>2. Top.off \in DOMAIN first.dir[Top.dir][Top.k]
      BY <2>1, ParsedFacts
    <2> QED
      BY <2>1, <2>2, <1>6, <1>7, SectorFacts DEF Rest
  <1>9. Top.off < Sector <=> Top.off # Sector
    BY <1>0, <1>8
  <1>10. Top.k \in 1 .. Len(Sectors) /\ Len(Sectors) = Len(first.dir[Top.dir]) /\ SectorOK(Here, DOMAIN fs.inode)
        /\ SectorMended(first.dir[Top.dir][Top.k], Here) /\ Top.dir \in DOMAIN fs.dir
        /\ SectorOK(first.dir[Top.dir][Top.k], DOMAIN fs.inode)
    BY <1>3, <1>4, <1>5, <1>6 DEF Sectors, Here
  <1> QED
    BY <1>0, <1>1, <1>2, <1>4, <1>7, <1>8, <1>9, <1>10

LEMMA StackTurned ==
  ASSUME TreeInv, PathInv, stack # <<>>, NEW t, PlaceOK(t), t.dir = Top.dir,
         t.k > Top.k \/ (t.k = Top.k /\ t.off > Top.off)
            \/ (t.k = Top.k /\ t.off = Top.off /\ (Top.at = "next" => t.at = "next")),
         Turn(t), first' = first
  PROVE  /\ stack' \in Seq(Spots) /\ Len(stack') = Len(stack) /\ Top' = t /\ stack' # <<>> /\ Spots' = Spots
         /\ \A n \in 1 .. Len(stack) :
               /\ stack'[n].dir = stack[n].dir /\ PlaceOK(stack[n])' /\ (n < Len(stack) => stack'[n].at = "next")
               /\ \A e \in Names(first) : Passed(stack[n], e) => Passed(stack[n], e)'
  <1> DEFINE l == Len(stack)
  <1>1. l \in Nat \ {0} /\ Top = stack[l] /\ stack \in Seq(Spots)
    BY TopFacts DEF PathInv
  <1>2. t \in Spots /\ t.off \in Nat /\ t.k \in Nat
    BY DEF PlaceOK, Spots
  <1>3. stack' = [stack EXCEPT ![l] = t]
    BY DEF Turn
  <1>4. /\ stack' \in Seq(Spots) /\ Len(stack') = l /\ stack'[l] = t
        /\ \A n \in 1 .. l : n # l => stack'[n] = stack[n]
    <2> DEFINE P == Spots
    <2>1. stack \in Seq(P) /\ t \in P
      BY <1>1, <1>2
    <2> HIDE DEF P
    <2>2. stack' \in Seq(P) /\ Len(stack') = l /\ stack'[l] = t /\ \A n \in 1 .. l : n # l => stack'[n] = stack[n]
      BY <2>1, <1>1, <1>3
    <2> QED
      BY <2>2 DEF P
  <1> HIDE DEF l
  <1>5. Top' = t /\ stack' # <<>>
    BY <1>1, <1>4 DEF Top, Last
  <1>6. ASSUME NEW n \in 1 .. l
        PROVE  stack'[n].dir = stack[n].dir /\ PlaceOK(stack[n])' /\ (n < l => stack'[n].at = "next")
    <2>1. PlaceOK(stack'[n]) /\ (n < l => stack'[n].at = "next") /\ stack'[n].dir = stack[n].dir
      <3>1. CASE n = l
        BY <3>1, <1>1, <1>4
      <3>2. CASE n # l
        <4>1. stack'[n] = stack[n] /\ n < l
          BY <3>2, <1>1, <1>4
        <4> QED
          BY <4>1 DEF PathInv, l
      <3> QED
        BY <3>1, <3>2
    <2>2. PlaceOK(stack'[n]) = PlaceOK(stack[n])'
      BY DEF PlaceOK, Spots, Walked, Offsets
    <2> QED
      BY <2>1, <2>2
  <1>7. ASSUME NEW n \in 1 .. l, NEW e \in Names(first), Passed(stack[n], e) PROVE Passed(stack'[n], e)
    <2>0. e[3] \in Nat /\ e[2] \in Nat
      BY NamesAt DEF TreeInv
    <2>1. CASE n = l
      <3>1. Top.off \in Nat /\ Top.k \in Nat
        BY TopFacts DEF PlaceOK, Spots
      <3>2. Passed(Top, e)
        BY <1>7, <2>1, <1>1
      <3>3. CASE e[2] < t.k
        BY <3>3, <2>1, <1>4 DEF Passed
      <3>4. CASE t.k = Top.k /\ e[2] = Top.k /\ e[3] < Top.off
        <4>1. e[2] = t.k /\ e[3] < t.off
          BY <3>4, <3>1, <2>0, <1>2
        <4> QED
          BY <4>1, <2>1, <1>4 DEF Passed
      <3>5. CASE t.k = Top.k /\ e[2] = Top.k /\ e[3] = Top.off /\ Top.at = "next"
        <4>1. e[2] = t.k /\ (e[3] < t.off \/ (e[3] = t.off /\ t.at = "next"))
          BY <3>5, <3>1, <2>0, <1>2
        <4> QED
          BY <4>1, <2>1, <1>4 DEF Passed
      <3>6. t.k = Top.k \/ t.k > Top.k
        OBVIOUS
      <3>7. e[2] < t.k \/ t.k = Top.k
        BY <3>1, <3>2, <3>6, <2>0, <1>2 DEF Passed
      <3>8. e[2] < t.k \/ (e[2] = Top.k /\ (e[3] < Top.off \/ (e[3] = Top.off /\ Top.at = "next")))
        BY <3>2, <3>7 DEF Passed
      <3> QED
        BY <3>3, <3>4, <3>5, <3>7, <3>8
    <2>2. CASE n # l
      BY <2>2, <1>7, <1>4
    <2> QED
      BY <2>1, <2>2
  <1>8. \A n \in 1 .. l : \A e \in Names(first) : Passed(stack[n], e) => Passed(stack[n], e)'
    BY <1>7 DEF Passed
  <1>9. Spots' = Spots
    BY DEF Spots, Walked
  <1> QED
    BY <1>4, <1>5, <1>6, <1>8, <1>9 DEF l

\* What VisitInv says of the walks, when each is as far as it was, or farther.
PathsVisited(V, path) ==
    /\ V \subseteq Reached(first)
    /\ \A n \in 1 .. Len(path) : path[n].dir \in V
    /\ \A x \in V \ Tangled(first) : x # Root =>
          \E e : /\ MetAt(x, e) /\ e[1] \in V
                 /\ \A n \in 1 .. Len(path) : path[n].dir = e[1] => Passed(path[n], e)
    /\ \A n, m \in 1 .. Len(path) : n # m /\ path[n].dir = path[m].dir => path[n].dir \in Tangled(first)

LEMMA PathsOf ==
  ASSUME NEW V, VisitInv(V)
  PROVE  PathsVisited(V, stack)
  BY DEF VisitInv, PathsVisited

LEMMA PathsGoOn ==
  ASSUME NEW V, NEW old, NEW new, PathsVisited(V, old), Len(new) = Len(old),
         \A n \in 1 .. Len(old) :
            /\ new[n].dir = old[n].dir
            /\ \A e \in Names(first) : Passed(old[n], e) => Passed(new[n], e)
  PROVE  PathsVisited(V, new)
  <1>1. ASSUME NEW x \in V \ Tangled(first), x # Root
        PROVE  \E e : /\ MetAt(x, e) /\ e[1] \in V
                      /\ \A n \in 1 .. Len(new) : new[n].dir = e[1] => Passed(new[n], e)
    <2>1. PICK e : /\ MetAt(x, e) /\ e[1] \in V
                   /\ \A n \in 1 .. Len(old) : old[n].dir = e[1] => Passed(old[n], e)
      BY <1>1 DEF PathsVisited
    <2>2. e \in Names(first)
      BY <2>1 DEF MetAt
    <2> QED
      BY <2>1, <2>2
  <1>2. \A n, m \in 1 .. Len(new) : n # m /\ new[n].dir = new[m].dir => new[n].dir \in Tangled(first)
    BY DEF PathsVisited
  <1>3. V \subseteq Reached(first) /\ \A n \in 1 .. Len(new) : new[n].dir \in V
    BY DEF PathsVisited
  <1> QED
    BY <1>1, <1>2, <1>3 DEF PathsVisited

LEMMA VisitFrom ==
  ASSUME NEW V, first' = first, PathsVisited(V, stack'),
         pc' \in {"open", "attribute", "root"} => V = {},
         pc' = "rootchecked" => V = {Root},
         pc' = "segments" =>
          /\ seg'.ino \in Reached(first) /\ (seg'.ino \in V => seg'.ino \in Tangled(first))
          /\ \E e : MetAt(seg'.ino, e) /\ e[1] = Top'.dir /\ Passed(Top', e)
  PROVE  VisitInv(V)'
  <1>1. \A x, e : MetAt(x, e)' <=> MetAt(x, e)
    BY DEF MetAt
  <1>2. PathsVisited(V, stack')
    OBVIOUS
  <1>3. (\E e : MetAt(seg.ino, e) /\ e[1] = Top.dir /\ Passed(Top, e))' <=>
        \E e : MetAt(seg'.ino, e) /\ e[1] = Top'.dir /\ Passed(Top', e)
    BY DEF MetAt, Passed
  <1> QED
    BY <1>2, <1>3 DEF VisitInv, PathsVisited, MetAt, Passed

LEMMA TurnKeeps ==
  ASSUME TreeInv, PathInv, pc = "walk", stack # <<>>, NEW t, PlaceOK(t), t.dir = Top.dir,
         t.k > Top.k \/ (t.k = Top.k /\ t.off > Top.off)
            \/ (t.k = Top.k /\ t.off = Top.off /\ (Top.at = "next" => t.at = "next")),
         Turn(t), UNCHANGED <<first, pc, seg, map>>
  PROVE  PathInv' /\ Top' = t /\ stack' # <<>> /\ \A V : VisitInv(V) /\ MapInv(V) => VisitInv(V)' /\ MapInv(V)'
  <1>1. /\ stack' \in Seq(Spots) /\ Len(stack') = Len(stack) /\ Top' = t /\ stack' # <<>> /\ Spots' = Spots
        /\ \A n \in 1 .. Len(stack) :
              /\ stack'[n].dir = stack[n].dir /\ PlaceOK(stack[n])' /\ (n < Len(stack) => stack'[n].at = "next")
              /\ \A e \in Names(first) : Passed(stack[n], e) => Passed(stack[n], e)'
    BY StackTurned
  <1>2. PathInv'
    BY <1>1 DEF PathInv
  <1>3. ASSUME NEW V, VisitInv(V), MapInv(V) PROVE VisitInv(V)' /\ MapInv(V)'
    <2>1. MapInv(V)'
      <3>1. InHand' = InHand
        BY DEF InHand
      <3> QED
        BY <1>3, <3>1 DEF MapInv
    <2>2. PathsVisited(V, stack)
      BY <1>3, PathsOf
    <2>3. \A n \in 1 .. Len(stack) : \A e \in Names(first) : Passed(stack[n], e) => Passed(stack'[n], e)
      BY <1>1 DEF Passed
    <2>4. PathsVisited(V, stack')
      BY <1>1, <2>2, <2>3, PathsGoOn
    <2> QED
      BY <2>1, <2>4, VisitFrom
  <1> QED
    BY <1>1, <1>2, <1>3

\* A sector is mended where the walk is.
LEMMA HereMended ==
  ASSUME TreeInv, PathInv, KeptInv, stack # <<>>, NEW new, OneMend(Here, new, DOMAIN fs.inode),
         fs' = SetHere(new), first' = first
  PROVE  /\ TreeInv' /\ KeptInv' /\ SameRest(fs, fs') /\ fs'.inode = fs.inode /\ DOMAIN fs'.dir = DOMAIN fs.dir
         /\ \A c \in DOMAIN fs.dir : Len(fs'.dir[c]) = Len(fs.dir[c]) /\ (c # Top.dir => fs'.dir[c] = fs.dir[c])
         /\ fs'.dir[Top.dir][Top.k] = new
         /\ \A j \in 1 .. Len(Sectors) : j # Top.k => fs'.dir[Top.dir][j] = fs.dir[Top.dir][j]
  <1> DEFINE d == Top.dir
             k == Top.k
  <1>1. /\ d \in DOMAIN fs.dir /\ k \in 1 .. Len(fs.dir[d]) /\ SectorOK(Here, DOMAIN fs.inode)
        /\ SectorOK(first.dir[d][k], DOMAIN fs.inode) /\ SectorMended(first.dir[d][k], Here)
    BY TopFacts DEF Sectors
  <1>2. SectorOK(new, DOMAIN fs.inode) /\ SectorMended(first.dir[d][k], new)
    BY <1>1, MendKeeps, MendMended
  <1>3. WellFormed(fs) /\ WellFormed(first) /\ Mended(first, fs)
    BY DEF TreeInv
  <1>4. fs' = [fs EXCEPT !.dir[d][k] = new]
    BY DEF SetHere
  <1> HIDE DEF d, k
  <1>5. /\ WellFormed(fs') /\ SameRest(fs, fs') /\ fs'.inode = fs.inode /\ DOMAIN fs'.dir = DOMAIN fs.dir
        /\ \A c \in DOMAIN fs.dir : Len(fs'.dir[c]) = Len(fs.dir[c]) /\ (c # d => fs'.dir[c] = fs.dir[c])
        /\ fs'.dir[d][k] = new /\ \A j \in 1 .. Len(fs.dir[d]) : j # k => fs'.dir[d][j] = fs.dir[d][j]
    <2>0. PICK g : g = WithSector(fs, d, k, new)
      OBVIOUS
    <2>1. /\ WellFormed(g) /\ SameRest(fs, g) /\ g.inode = fs.inode /\ DOMAIN g.dir = DOMAIN fs.dir
          /\ \A c \in DOMAIN fs.dir : Len(g.dir[c]) = Len(fs.dir[c]) /\ (c # d => g.dir[c] = fs.dir[c])
          /\ g.dir[d][k] = new /\ \A j \in 1 .. Len(fs.dir[d]) : j # k => g.dir[d][j] = fs.dir[d][j]
      BY <1>1, <1>2, <1>3, <2>0, SectorSet
    <2> QED
      BY <2>0, <2>1, <1>4 DEF WithSector
  <1>6. Mended(first, fs')
    <2>1. ASSUME NEW c \in DOMAIN first.dir
          PROVE  /\ Len(fs'.dir[c]) = Len(first.dir[c])
                 /\ \A j \in 1 .. Len(first.dir[c]) : SectorMended(first.dir[c][j], fs'.dir[c][j])
      <3>1. Len(fs'.dir[c]) = Len(first.dir[c]) /\ Len(fs.dir[c]) = Len(first.dir[c]) /\ c \in DOMAIN fs.dir
        BY <1>3, <1>5 DEF Mended
      <3>2. ASSUME NEW j \in 1 .. Len(first.dir[c]) PROVE SectorMended(first.dir[c][j], fs'.dir[c][j])
        <4>1. CASE c = d /\ j = k
          BY <4>1, <1>2, <1>5
        <4>2. CASE c # d \/ j # k
          <5>1. fs'.dir[c][j] = fs.dir[c][j]
            BY <4>2, <3>1, <1>5
          <5> QED
            BY <5>1, <1>3 DEF Mended
        <4> QED
          BY <4>1, <4>2
      <3> QED
        BY <3>1, <3>2
    <2> QED
      BY <2>1, <1>3, <1>5 DEF Mended, SameRest
  <1>7. TreeInv'
    BY <1>3, <1>5, <1>6 DEF TreeInv
  <1>8. KeptInv'
    BY <1>5 DEF KeptInv, Excused
  <1> QED
    BY <1>5, <1>7, <1>8 DEF d, k, Sectors

LEMMA TurnHealth ==
  ASSUME HealthInv, pc = "walk", stack # <<>>, NEW t, PlaceOK(t), t.dir = Top.dir,
         t.k > Top.k \/ (t.k = Top.k /\ t.off > Top.off)
            \/ (t.k = Top.k /\ t.off = Top.off /\ (Top.at = "next" => t.at = "next")),
         Turn(t), UNCHANGED <<first, fixing, pc, seg, map, stopFlag>>,
         TreeInv', KeptInv', hasError' \in BOOLEAN, fixed' \in BOOLEAN,
         t.at \in {"enough", "ends"} =>
             t.size = Sector - t.off \/ (t.size = fs'.dir[t.dir][t.k][t.off].len /\ t.size % Align = 0)
  PROVE  HealthInv'
  <1>1. PathInv' /\ Top' = t /\ stack' # <<>> /\ \A V : VisitInv(V) /\ MapInv(V) => VisitInv(V)' /\ MapInv(V)'
    BY TurnKeeps DEF HealthInv
  <1>2. (\E V : VisitInv(V) /\ MapInv(V))'
    BY <1>1 DEF HealthInv
  <1>3. TopInv'
    BY <1>1 DEF TopInv, Rest, This, Here, Sectors
  <1>4. SegInv' /\ ControlInv'
    BY DEF HealthInv, SegInv, ControlInv, Running
  <1> QED
    BY <1>1, <1>2, <1>3, <1>4 DEF HealthInv

\* What the tests of an entry leave.
LEMMA TurnPlaces ==
  ASSUME TreeInv, PathInv, stack # <<>>, Top.off # Sector, NEW n \in Nat, NEW a \in Tests,
         a \in {"ends", "file", "next"} => n > 0,
         a \in {"file", "next"} => Top.off + n \in Offsets(Top),
         NEW t, t = TurnTo(Top, a, n)
  PROVE  /\ PlaceOK(t) /\ t.dir = Top.dir /\ t.k = Top.k /\ t.off = Top.off /\ t.at = a /\ t.size = n
         /\ t.parent = Top.parent
  <1>1. PlaceOK(Top) /\ Top \in Spots
    BY TopFacts DEF PlaceOK
  <1>2. /\ t \in Spots /\ t.dir = Top.dir /\ t.k = Top.k /\ t.off = Top.off /\ t.at = a /\ t.size = n
        /\ t.parent = Top.parent
    BY <1>1 DEF Spots, TurnTo
  <1>3. Offsets(t) = Offsets(Top)
    BY <1>2 DEF Offsets
  <1>4. PlaceOK(t)
    BY <1>1, <1>2, <1>3 DEF PlaceOK
  <1> QED
    BY <1>2, <1>4

LEMMA SameFs ==
  ASSUME TreeInv, KeptInv, fs' = fs, first' = first
  PROVE  TreeInv' /\ KeptInv'
  BY DEF TreeInv, KeptInv, Excused

LEMMA FixTypes ==
  ASSUME ControlInv, NEW g, Fix(g)
  PROVE  hasError' \in BOOLEAN /\ fixed' \in BOOLEAN /\ (fs' = g \/ fs' = fs)
  BY DEF ControlInv, Fix, Fixed, NotFixed

LEMMA FineTypes ==
  ASSUME ControlInv, Fine
  PROVE  hasError' \in BOOLEAN /\ fixed' \in BOOLEAN /\ fs' = fs
  BY DEF ControlInv, Fine

\* A test of an entry that finds an error, and one that does not.
LEMMA MendTurn ==
  ASSUME HealthInv, pc = "walk", stack # <<>>, Top.off # Sector, Top.at # "next",
         NEW new, OneMend(Here, new, DOMAIN fs.inode), Fix(SetHere(new)),
         NEW a \in Tests, NEW n \in Nat, n > 0,
         a \in {"file", "next"} => Top.off + n \in Offsets(Top),
         a \in {"enough", "ends"} => n = Rest,
         Turn(TurnTo(Top, a, n)), UNCHANGED <<first, fixing, pc, seg, map, stopFlag>>
  PROVE  HealthInv'
  <1>0. ControlInv /\ TreeInv /\ PathInv /\ KeptInv
    BY DEF HealthInv
  <1>1. PICK t : t = TurnTo(Top, a, n)
    OBVIOUS
  <1>2. PlaceOK(t) /\ t.dir = Top.dir /\ t.k = Top.k /\ t.off = Top.off /\ t.at = a /\ t.size = n
    BY <1>0, <1>1, TurnPlaces
  <1>3. hasError' \in BOOLEAN /\ fixed' \in BOOLEAN /\ (fs' = SetHere(new) \/ fs' = fs)
    BY <1>0, FixTypes
  <1>4. TreeInv' /\ KeptInv'
    BY <1>0, <1>3, HereMended, SameFs
  <1>5. Turn(t) /\ (t.at \in {"enough", "ends"} => t.size = Sector - t.off)
    BY <1>1, <1>2 DEF Rest
  <1> QED
    BY <1>2, <1>3, <1>4, <1>5, TurnHealth

LEMMA FineTurn ==
  ASSUME HealthInv, pc = "walk", stack # <<>>, Top.off # Sector, Top.at # "next", Fine,
         NEW a \in Tests, NEW n \in Nat, a \in {"ends", "file", "next"} => n > 0,
         a \in {"file", "next"} => Top.off + n \in Offsets(Top),
         a \in {"enough", "ends"} => n = Rest \/ (n = This.len /\ n % Align = 0),
         Turn(TurnTo(Top, a, n)), UNCHANGED <<first, fixing, pc, seg, map, stopFlag>>
  PROVE  HealthInv'
  <1>0. ControlInv /\ TreeInv /\ PathInv /\ KeptInv
    BY DEF HealthInv
  <1>1. PICK t : t = TurnTo(Top, a, n)
    OBVIOUS
  <1>2. PlaceOK(t) /\ t.dir = Top.dir /\ t.k = Top.k /\ t.off = Top.off /\ t.at = a /\ t.size = n
    BY <1>0, <1>1, TurnPlaces
  <1>3. fs' = fs /\ TreeInv' /\ KeptInv' /\ hasError' \in BOOLEAN /\ fixed' \in BOOLEAN
    BY <1>0, SameFs, FineTypes
  <1>4. t.at \in {"enough", "ends"} =>
             t.size = Sector - t.off \/ (t.size = fs'.dir[t.dir][t.k][t.off].len /\ t.size % Align = 0)
    BY <1>2, <1>3 DEF This, Here, Sectors, Rest
  <1>5. Turn(t)
    BY <1>1
  <1> QED
    BY <1>2, <1>3, <1>4, <1>5, TurnHealth

LEMMA WalkingFacts ==
  ASSUME HealthInv, NEW at, Walking(at)
  PROVE  /\ pc = "walk" /\ stack # <<>> /\ Top.off # Sector /\ Top.at = at /\ ~stopFlag
         /\ ControlInv /\ TreeInv /\ PathInv /\ KeptInv /\ PlaceOK(Top) /\ Top \in Spots
         /\ Top.off \in Parsed(first.dir[Top.dir][Top.k])
         /\ SectorOK(Here, DOMAIN fs.inode) /\ Top.off \in DOMAIN Here /\ Top.off \in Nat /\ Top.size \in Nat
         /\ Rest \in Nat \ {0} /\ Rest \in Nat /\ Rest > 0 /\ Top.off + Rest = Sector /\ Sector \in Offsets(Top)
         /\ This.len \in Nat /\ This.need \in Nat /\ This.need > 0 /\ This = Here[Top.off]
         /\ (This.len % Align = 0 /\ This.len <= Rest => Top.off + This.len \in Offsets(Top))
  <1>1. pc = "walk" /\ stack # <<>> /\ Top.off < Sector /\ Top.at = at /\ ~stopFlag
    BY DEF Walking
  <1>2. ControlInv /\ TreeInv /\ PathInv /\ KeptInv
    BY DEF HealthInv
  <1>3. /\ PlaceOK(Top) /\ Top.off # Sector /\ Top.off \in Parsed(first.dir[Top.dir][Top.k])
        /\ SectorOK(Here, DOMAIN fs.inode) /\ Top.off \in DOMAIN Here /\ Rest \in Nat \ {0}
        /\ Top.off \in Nat /\ SectorMended(first.dir[Top.dir][Top.k], Here) /\ Sector \in Nat
    BY <1>1, <1>2, TopFacts
  <1>4. Top \in Spots /\ Top.size \in Nat
    BY <1>3 DEF PlaceOK, Spots
  <1>5. /\ This.len \in Nat /\ This.need \in Nat /\ This.need > 0 /\ This = Here[Top.off]
        /\ This.len % Align = 0 /\ Top.off + This.len <= Sector => Top.off + This.len \in DOMAIN Here \cup {Sector}
    BY <1>3, SectorFacts DEF This
  <1>6. ASSUME This.len % Align = 0, This.len <= Rest PROVE Top.off + This.len \in Offsets(Top)
    <2>1. Top.off + This.len <= Sector
      BY <1>3, <1>5, <1>6 DEF Rest
    <2>2. Top.off + This.len \in DOMAIN Here \/ Top.off + This.len = Sector
      BY <2>1, <1>5, <1>6
    <2> QED
      BY <2>2, <1>3, <1>5 DEF Offsets, SectorMended
  <1>7. Top.off + Rest = Sector /\ Sector \in Offsets(Top)
    BY <1>3 DEF Rest, Offsets
  <1> QED
    BY <1>1, <1>2, <1>3, <1>4, <1>5, <1>6, <1>7

LEMMA TestNames ==
  "aligned" \in Tests /\ "enough" \in Tests /\ "ends" \in Tests /\ "file" \in Tests /\ "next" \in Tests
  BY DEF Tests

LEMMA CheckAlignedHealth ==
  ASSUME HealthInv, CheckAligned
  PROVE  HealthInv'
  <1>1. Walking("aligned") /\ UNCHANGED <<first, fixing, pc, seg, map, stopFlag>>
    BY DEF CheckAligned
  <1>2. /\ pc = "walk" /\ stack # <<>> /\ Top.off # Sector /\ Top.at = "aligned" /\ Top.off \in DOMAIN Here
        /\ SectorOK(Here, DOMAIN fs.inode) /\ Rest \in Nat /\ Rest > 0 /\ This.len \in Nat
    BY <1>1, WalkingFacts
  <1>3. CASE This.len % Align = 0
    <2>1. Fine /\ Turn(TurnTo(Top, "enough", This.len))
      BY <1>3 DEF CheckAligned, TurnTo
    <2> QED
      BY <2>1, <1>1, <1>2, <1>3, TestNames, FineTurn
  <1>4. CASE This.len % Align # 0
    <2> DEFINE new == [Here EXCEPT ![Top.off].len = Rest]
    <2>1. Fix(SetHere(new)) /\ Turn(TurnTo(Top, "enough", Rest))
      BY <1>4 DEF CheckAligned, TurnTo
    <2>2. OneMend(Here, new, DOMAIN fs.inode)
      BY <1>2, LengthMends DEF Rest
    <2> HIDE DEF new
    <2> QED
      BY <2>1, <2>2, <1>1, <1>2, TestNames, MendTurn
  <1> QED
    BY <1>3, <1>4

LEMMA CheckEnoughHealth ==
  ASSUME HealthInv, CheckEnough
  PROVE  HealthInv'
  <1>1. Walking("enough") /\ UNCHANGED <<first, fixing, pc, seg, map, stopFlag>>
    BY DEF CheckEnough
  <1>2. /\ pc = "walk" /\ stack # <<>> /\ Top.off # Sector /\ Top.at = "enough" /\ Top.off \in DOMAIN Here
        /\ SectorOK(Here, DOMAIN fs.inode) /\ Rest \in Nat /\ Rest > 0 /\ Top.size \in Nat /\ Top \in Spots
        /\ Top.off + Rest \in Offsets(Top) /\ This.need \in Nat /\ This.need > 0
    BY <1>1, WalkingFacts
  <1>3. Top.size = Rest \/ (Top.size = This.len /\ Top.size % Align = 0)
    BY <1>2 DEF HealthInv, TopInv
  <1>4. CASE Top.size >= This.need
    <2>1. Fine /\ Turn([Top EXCEPT !.at = "ends"])
      BY <1>4 DEF CheckEnough
    <2>2. [Top EXCEPT !.at = "ends"] = TurnTo(Top, "ends", Top.size)
      BY <1>2 DEF Spots, TurnTo
    <2>3. Top.size > 0
      BY <1>2, <1>4
    <2>4. Turn(TurnTo(Top, "ends", Top.size))
      BY <2>1, <2>2
    <2> QED
      BY <2>1, <2>3, <2>4, <1>1, <1>2, <1>3, TestNames, FineTurn
  <1>5. CASE ~(Top.size >= This.need) /\ fixing /\ This.need < Rest
    <2> DEFINE new == [Here EXCEPT ![Top.off].len = Rest]
    <2>1. Fix(SetHere(new)) /\ Turn(TurnTo(Top, "ends", Rest))
      BY <1>5 DEF CheckEnough, TurnTo
    <2>2. OneMend(Here, new, DOMAIN fs.inode)
      BY <1>2, LengthMends DEF Rest
    <2> HIDE DEF new
    <2> QED
      BY <2>1, <2>2, <1>1, <1>2, TestNames, MendTurn
  <1>6. CASE ~(Top.size >= This.need) /\ ~(fixing /\ This.need < Rest)
    <2>1. Fix(SetHere(FixDEntry(Here, Top.off))) /\ Turn(TurnTo(Top, "next", Rest))
      BY <1>6 DEF CheckEnough, TurnTo
    <2>2. OneMend(Here, FixDEntry(Here, Top.off), DOMAIN fs.inode)
      BY <1>2, FixDEntryMends
    <2> QED
      BY <2>1, <2>2, <1>1, <1>2, TestNames, MendTurn
  <1> QED
    BY <1>4, <1>5, <1>6

LEMMA CheckEndHealth ==
  ASSUME HealthInv, CheckEnd
  PROVE  HealthInv'
  <1>1. Walking("ends") /\ UNCHANGED <<first, fixing, pc, seg, map, stopFlag>>
    BY DEF CheckEnd
  <1>2. /\ pc = "walk" /\ stack # <<>> /\ Top.off # Sector /\ Top.at = "ends" /\ Top.off \in DOMAIN Here
        /\ SectorOK(Here, DOMAIN fs.inode) /\ Rest \in Nat /\ Rest > 0 /\ Top.size \in Nat /\ Top \in Spots
        /\ Top.off + Rest \in Offsets(Top) /\ PlaceOK(Top)
        /\ (This.len % Align = 0 /\ This.len <= Rest => Top.off + This.len \in Offsets(Top))
    BY <1>1, WalkingFacts
  <1>3. Top.size = Rest \/ (Top.size = This.len /\ This.len % Align = 0)
    BY <1>2 DEF HealthInv, TopInv
  <1>4. CASE Top.size <= Rest
    <2>1. Fine /\ Turn([Top EXCEPT !.at = "file"])
      BY <1>4 DEF CheckEnd
    <2>2. [Top EXCEPT !.at = "file"] = TurnTo(Top, "file", Top.size)
      BY <1>2 DEF Spots, TurnTo
    <2>3. Top.size > 0 /\ Top.off + Top.size \in Offsets(Top)
      BY <1>2, <1>3, <1>4 DEF PlaceOK
    <2>4. Turn(TurnTo(Top, "file", Top.size))
      BY <2>1, <2>2
    <2> QED
      BY <2>1, <2>3, <2>4, <1>1, <1>2, TestNames, FineTurn
  <1>5. CASE ~(Top.size <= Rest)
    <2>1. Fix(SetHere(FixDEntry(Here, Top.off))) /\ Turn(TurnTo(Top, "next", Rest))
      BY <1>5 DEF CheckEnd, TurnTo
    <2>2. OneMend(Here, FixDEntry(Here, Top.off), DOMAIN fs.inode)
      BY <1>2, FixDEntryMends
    <2> QED
      BY <2>1, <2>2, <1>1, <1>2, TestNames, MendTurn
  <1> QED
    BY <1>4, <1>5

LEMMA CheckDotsHealth ==
  ASSUME HealthInv, CheckDots
  PROVE  HealthInv'
  <1> DEFINE target == IF This.name = "." THEN Top.dir ELSE Top.parent
  <1>1. /\ Walking("file") /\ UNCHANGED <<first, fixing, pc, seg, map, stopFlag>>
        /\ This.of # None /\ This.name \in Dots
        /\ IF This.of = target THEN Fine ELSE Fix(SetHere([Here EXCEPT ![Top.off].of = target]))
        /\ Turn([Top EXCEPT !.at = "next"])
    BY DEF CheckDots
  <1>2. /\ pc = "walk" /\ stack # <<>> /\ Top.off # Sector /\ Top.at = "file" /\ Top.off \in DOMAIN Here
        /\ SectorOK(Here, DOMAIN fs.inode) /\ Top.size \in Nat /\ Top \in Spots
        /\ PlaceOK(Top) /\ This = Here[Top.off] /\ TreeInv /\ PathInv
    BY <1>1, WalkingFacts
  <1>3. Top.size > 0 /\ Top.off + Top.size \in Offsets(Top)
    BY <1>2 DEF PlaceOK
  <1>4. [Top EXCEPT !.at = "next"] = TurnTo(Top, "next", Top.size)
    BY <1>2 DEF Spots, TurnTo
  <1>5. Turn(TurnTo(Top, "next", Top.size))
    BY <1>1, <1>4
  <1>6. target \in DOMAIN fs.inode
    BY <1>2, TopFacts, TreeFacts DEF TreeInv, Mended
  <1>7. CASE This.of = target
    BY <1>7, <1>1, <1>2, <1>3, <1>5, TestNames, FineTurn
  <1>8. CASE This.of # target
    <2> HIDE DEF target
    <2> DEFINE new == [Here EXCEPT ![Top.off].of = target]
    <2>1. Fix(SetHere(new))
      BY <1>8, <1>1 DEF target
    <2>2. OneMend(Here, new, DOMAIN fs.inode)
      BY <1>1, <1>2, <1>6, TargetMends DEF Dotted
    <2> HIDE DEF new
    <2> QED
      BY <2>1, <2>2, <1>1, <1>2, <1>3, <1>5, TestNames, MendTurn
  <1> QED
    BY <1>7, <1>8

LEMMA NextEntryHealth ==
  ASSUME HealthInv, NextEntry
  PROVE  HealthInv'
  <1>1. /\ Walking("next") \/ Walking("file")
        /\ Turn([Top EXCEPT !.off = @ + Top.size, !.at = "aligned"])
        /\ UNCHANGED <<fs, first, fixing, pc, seg, map, hasError, fixed, stopFlag>>
    BY DEF NextEntry
  <1>2. /\ pc = "walk" /\ stack # <<>> /\ Top.at \in {"file", "next"}
        /\ Top.size \in Nat /\ Top \in Spots /\ PlaceOK(Top) /\ ControlInv /\ TreeInv /\ PathInv /\ KeptInv
        /\ Top.off \in Nat
    BY <1>1, WalkingFacts
  <1>3. PICK t : t = [Top EXCEPT !.off = Top.off + Top.size, !.at = "aligned"]
    OBVIOUS
  <1>4. /\ t \in Spots /\ t.dir = Top.dir /\ t.k = Top.k /\ t.off = Top.off + Top.size /\ t.at = "aligned"
    <2>1. Top.off + Top.size \in Nat /\ "aligned" \in Tests
      BY <1>2, TestNames
    <2> QED
      BY <2>1, <1>2, <1>3 DEF Spots
  <1>5. Top.size > 0 /\ Top.off + Top.size \in Offsets(Top) /\ Top.k \in 1 .. Len(first.dir[Top.dir])
    BY <1>2 DEF PlaceOK
  <1>6. Offsets(t) = Offsets(Top)
    BY <1>4 DEF Offsets
  <1>7. PlaceOK(t)
    BY <1>4, <1>5, <1>6 DEF PlaceOK
  <1>8. t.off > Top.off
    BY <1>2, <1>4, <1>5
  <1>9. TreeInv' /\ KeptInv' /\ hasError' \in BOOLEAN /\ fixed' \in BOOLEAN
    BY <1>1, <1>2, SameFs DEF ControlInv
  <1>10. Turn(t)
    BY <1>1, <1>3
  <1> QED
    BY <1>1, <1>2, <1>4, <1>7, <1>8, <1>9, <1>10, TurnHealth

\* The other fields of a filesystem change.
LEMMA OthersSet ==
  ASSUME TreeInv, KeptInv, FieldsOf(fs'), FieldsOK(fs'), fs'.inode = fs.inode, fs'.dir = fs.dir,
         fs'.badZones = fs.badZones, first' = first
  PROVE  TreeInv' /\ KeptInv'
  <1>1. WellFormed(fs')
    BY WellFormedFields
  <1>2. TreeInv'
    BY <1>1 DEF TreeInv, Mended
  <1>3. KeptInv'
    BY DEF KeptInv, Excused
  <1> QED
    BY <1>2, <1>3

LEMMA AttrsSet ==
  ASSUME TreeInv, KeptInv, NEW x, fs' = [fs EXCEPT !.badAttrs = @ \ {x}], first' = first
  PROVE  TreeInv' /\ KeptInv' /\ SameRest(fs, fs') /\ fs'.inode = fs.inode /\ fs'.dir = fs.dir
  <1>1. FieldsOf(fs) /\ FieldsOK(fs)
    BY WellFormedFields DEF TreeInv
  <1>2. FieldsOf(fs') /\ fs'.badAttrs = fs.badAttrs \ {x} /\ \A y \in Fields : y # "badAttrs" => fs'[y] = fs[y]
    BY <1>1 DEF FieldsOf, Fields
  <1>3. /\ fs'.main = fs.main /\ fs'.backup = fs.backup /\ fs'.num = fs.num /\ fs'.area = fs.area
        /\ fs'.writeError = fs.writeError /\ fs'.errorsFixed = fs.errorsFixed /\ fs'.unreadable = fs.unreadable
        /\ fs'.badZones = fs.badZones /\ fs'.bits = fs.bits /\ fs'.stray = fs.stray
        /\ fs'.inode = fs.inode /\ fs'.dir = fs.dir
    BY <1>2 DEF Fields
  <1>4. FieldsOK(fs')
    BY <1>1, <1>2, <1>3 DEF FieldsOK
  <1> QED
    BY <1>2, <1>3, <1>4, OthersSet DEF SameRest

\* The entry the walk is at names an inode, as it did at the start.
LEMMA EntryNames ==
  ASSUME TreeInv, PathInv, stack # <<>>, Top.off # Sector, This.of # None, This.name \notin Dots
  PROVE  /\ MetAt(This.of, <<Top.dir, Top.k, Top.off>>) /\ This.of \in Reached(first)
         /\ This.of \in DOMAIN first.inode
         /\ <<Top.dir, Top.k, Top.off>> \in Naming(first, Top.dir)
  <1> DEFINE d == Top.dir
             k == Top.k
             o == Top.off
             e == <<d, k, o>>
  <1>1. /\ d \in DOMAIN first.dir /\ d \in Reached(first) /\ k \in 1 .. Len(first.dir[d])
        /\ SectorMended(first.dir[d][k], Here) /\ o \in Parsed(first.dir[d][k]) /\ o \in DOMAIN Here
        /\ DOMAIN Here = DOMAIN first.dir[d][k]
    BY TopFacts
  <1>2. first.dir[d][k][o].of = This.of /\ first.dir[d][k][o].name = This.name
    BY <1>1 DEF SectorMended, This, Dotted
  <1>3. e \in Naming(first, d)
    BY <1>1, <1>2, NamingFacts DEF TreeInv
  <1>4. e \in Names(first) /\ Named(first, e) \in Reached(first)
    BY <1>1, <1>3, ReachedFacts DEF TreeInv
  <1>5. Named(first, e) = This.of
    BY <1>2 DEF Named
  <1>6. This.of \in DOMAIN first.inode
    BY <1>3, <1>5, <1>1, NamingFacts DEF TreeInv
  <1> QED
    BY <1>3, <1>4, <1>5, <1>6 DEF MetAt

LEMMA CheckFileHealth ==
  ASSUME HealthInv, CheckFile
  PROVE  HealthInv'
  <1> DEFINE x == This.of
             e0 == <<Top.dir, Top.k, Top.off>>
  <1>1. /\ Walking("file") /\ This.of # None /\ This.name \notin Dots
        /\ Turn([Top EXCEPT !.at = "next"])
        /\ UNCHANGED <<first, fixing, map, stopFlag>>
        /\ IF Len(stack) > MaxDepth - 1
           THEN NotFixed /\ UNCHANGED <<pc, seg>>
           ELSE /\ IF This.type = "file" /\ x \in fs.badAttrs
                   THEN Fix([fs EXCEPT !.badAttrs = @ \ {x}]) ELSE Fine
                /\ pc' = "segments" /\ seg' = [ino |-> x, i |-> 1]
    BY DEF CheckFile
  <1>2. /\ pc = "walk" /\ stack # <<>> /\ Top.off # Sector /\ Top.at = "file"
        /\ Top.size \in Nat /\ Top \in Spots /\ Top.off \in Nat
        /\ PlaceOK(Top) /\ TreeInv /\ PathInv /\ KeptInv /\ ControlInv
    BY <1>1, WalkingFacts
  <1>3. Top.size > 0 /\ Top.off + Top.size \in Offsets(Top)
    BY <1>2 DEF PlaceOK
  <1>4. [Top EXCEPT !.at = "next"] = TurnTo(Top, "next", Top.size)
    BY <1>2 DEF Spots, TurnTo
  <1>5. PICK t : t = TurnTo(Top, "next", Top.size)
    OBVIOUS
  <1>6. PlaceOK(t) /\ t.dir = Top.dir /\ t.k = Top.k /\ t.off = Top.off /\ t.at = "next" /\ t.size = Top.size
    BY <1>2, <1>3, <1>5, TestNames, TurnPlaces
  <1>7. Turn(t)
    BY <1>1, <1>4, <1>5
  <1>8. CASE Len(stack) > MaxDepth - 1
    <2>1. NotFixed /\ UNCHANGED <<pc, seg>>
      BY <1>1, <1>8
    <2>2. TreeInv' /\ KeptInv' /\ hasError' \in BOOLEAN /\ fixed' \in BOOLEAN
      BY <2>1, <1>1, <1>2, SameFs DEF NotFixed, ControlInv
    <2> QED
      BY <2>1, <2>2, <1>1, <1>2, <1>6, <1>7, TurnHealth
  <1>9. CASE ~(Len(stack) > MaxDepth - 1)
    <2>1. /\ pc' = "segments" /\ seg' = [ino |-> x, i |-> 1]
          /\ IF This.type = "file" /\ x \in fs.badAttrs
             THEN Fix([fs EXCEPT !.badAttrs = @ \ {x}]) ELSE Fine
      BY <1>1, <1>9
    <2>2. TreeInv' /\ KeptInv' /\ hasError' \in BOOLEAN /\ fixed' \in BOOLEAN
      <3>1. hasError' \in BOOLEAN /\ fixed' \in BOOLEAN /\ (fs' = [fs EXCEPT !.badAttrs = @ \ {x}] \/ fs' = fs)
        BY <2>1, <1>2, FixTypes, FineTypes
      <3> QED
        BY <3>1, <1>1, <1>2, AttrsSet, SameFs
    <2>3. /\ stack' \in Seq(Spots) /\ Len(stack') = Len(stack) /\ Top' = t /\ stack' # <<>> /\ Spots' = Spots
          /\ \A n \in 1 .. Len(stack) :
                /\ stack'[n].dir = stack[n].dir /\ PlaceOK(stack[n])' /\ (n < Len(stack) => stack'[n].at = "next")
                /\ \A e \in Names(first) : Passed(stack[n], e) => Passed(stack[n], e)'
      BY <1>1, <1>2, <1>6, <1>7, StackTurned
    <2>4. PathInv'
      <3>1. Len(stack) < MaxDepth /\ Len(stack) <= MaxDepth
        BY <1>2, <1>9, FsckFacts, TopFacts
      <3> QED
        BY <2>1, <2>3, <3>1, <1>6 DEF PathInv
    <2>5. /\ MetAt(x, e0) /\ x \in Reached(first) /\ x \in DOMAIN first.inode
          /\ e0 \in Naming(first, Top.dir)
      BY <1>1, <1>2, EntryNames
    <2>6. SegInv'
      <3>1. seg'.ino = x /\ seg'.i = 1 /\ seg' \in [ino : DOMAIN first.inode, i : Nat \ {0}]
        BY <2>1, <2>5
      <3>2. x \in DOMAIN fs'.inode /\ fs'.inode[x].segs \in SegmentsOnDisk
        BY <2>2, <2>5, <1>1, TreeFacts DEF TreeInv, Mended
      <3>3. Len(fs'.inode[x].segs) \in Nat
        BY <3>2 DEF SegmentsOnDisk
      <3>4. seg'.i - 1 <= Len(Segs(seg.ino)')
        BY <3>1, <3>3 DEF Segs
      <3> QED
        BY <3>1, <3>4, <2>1, <1>1 DEF SegInv
    <2>7. PICK V : VisitInv(V) /\ MapInv(V)
      BY DEF HealthInv
    <2>8. MapInv(V)'
      <3>1. InHand = {} /\ InHand' = {}
        BY <2>1, <1>2 DEF InHand
      <3> QED
        BY <2>7, <3>1, <1>1 DEF MapInv
    <2>9. ASSUME x \in V, x \notin Tangled(first) PROVE FALSE
      <3>a. \A e, g \in Names(first) : Named(first, e) = Named(first, g) /\ (e # g \/ Named(first, e) = Root) => Named(first, e) \in Tangled(first)
        BY <1>2, TangledFacts DEF TreeInv
      <3>b. e0 \in Names(first) /\ Named(first, e0) = x
        BY <2>5 DEF MetAt
      <3> HIDE DEF x, e0
      <3>1. x # Root
        BY <3>a, <3>b, <2>9
      <3>2. PICK e : /\ MetAt(x, e) /\ e[1] \in V
                     /\ \A n \in 1 .. Len(stack) : stack[n].dir = e[1] => Passed(stack[n], e)
        BY <2>7, <2>9, <3>1 DEF VisitInv
      <3>3. e = e0
        <4>1. e \in Names(first) /\ Named(first, e) = x
          BY <3>2 DEF MetAt
        <4> QED
          BY <4>1, <3>a, <3>b, <2>9
      <3>4. Passed(Top, e0)
        <4>1. Len(stack) \in Nat \ {0} /\ Top = stack[Len(stack)]
          BY <1>2, TopFacts
        <4>2. e0[1] = Top.dir
          BY DEF e0
        <4> QED
          BY <4>1, <4>2, <3>2, <3>3
      <3>5. Top.k \in Nat /\ ~(Top.k < Top.k) /\ ~(Top.off < Top.off)
        BY <1>2 DEF Spots
      <3> QED
        BY <3>4, <3>5, <1>2 DEF Passed, e0
    <2>10. PathsVisited(V, stack')
      <3>1. PathsVisited(V, stack)
        BY <2>7, PathsOf
      <3>2. \A n \in 1 .. Len(stack) : \A e \in Names(first) : Passed(stack[n], e) => Passed(stack'[n], e)
        BY <2>3 DEF Passed
      <3> QED
        BY <2>3, <3>1, <3>2, PathsGoOn
    <2>11. Passed(t, e0) /\ e0[1] = t.dir
      BY <1>6 DEF Passed
    <2>12. VisitInv(V)'
      <3>1. seg'.ino = x
        BY <2>1
      <3> HIDE DEF x, e0
      <3>2. \E e : MetAt(seg'.ino, e) /\ e[1] = Top'.dir /\ Passed(Top', e)
        BY <3>1, <2>3, <2>5, <2>11
      <3> QED
        BY <3>1, <3>2, <2>1, <2>5, <2>9, <2>10, <1>1, VisitFrom
    <2>13. TopInv' /\ ControlInv'
      BY <2>1, <2>2, <1>1, <1>2 DEF TopInv, ControlInv, Running
    <2> QED
      BY <2>2, <2>4, <2>6, <2>8, <2>12, <2>13 DEF HealthInv
  <1> QED
    BY <1>8, <1>9

-----------------------------------------------------------------------------
(* The check of an inode's segments.                                       *)

LEMMA OnDisk ==
  ASSUME NEW s \in SegmentsOnDisk
  PROVE  Len(s) \in Nat /\ \A i \in 1 .. Len(s) : s[i] \in [sub : Nat, num : Nat, cnt : Nat]
  <1> DEFINE Z == [sub : Nat, num : Nat, cnt : Nat]
  <1>1. s \in Seq(Z)
    BY DEF SegmentsOnDisk
  <1> HIDE DEF Z
  <1>2. Len(s) \in Nat /\ \A i \in 1 .. Len(s) : s[i] \in Z
    BY <1>1
  <1> QED
    BY <1>2 DEF Z

\* Segments are cut at the end, so that the next one is as it was at the start.
LEMMA SegmentAt ==
  ASSUME TreeInv, SegInv, AtSegment
  PROVE  /\ seg.ino \in DOMAIN fs.inode /\ seg.ino \in DOMAIN first.inode
         /\ seg.i \in Nat \ {0} /\ seg.i - 1 \in Nat /\ seg.i - 1 <= Len(fs.inode[seg.ino].segs)
         /\ seg.i \in 1 .. Len(first.inode[seg.ino].segs)
         /\ Bi = first.inode[seg.ino].segs[seg.i] /\ Bi \in [sub : Nat, num : Nat, cnt : Nat]
         /\ Covers(Bi) \subseteq Owned(first, seg.ino)
  <1>1. seg.ino \in DOMAIN first.inode /\ seg.i \in Nat \ {0} /\ DOMAIN fs.inode = DOMAIN first.inode
    BY DEF SegInv, TreeInv, Mended
  <1>2. first.inode[seg.ino].segs \in SegmentsOnDisk /\ fs.inode[seg.ino].segs \in SegmentsOnDisk
    BY <1>1, TreeFacts DEF TreeInv
  <1>3. /\ Len(fs.inode[seg.ino].segs) <= Len(first.inode[seg.ino].segs)
        /\ \A i \in 1 .. Len(fs.inode[seg.ino].segs) : fs.inode[seg.ino].segs[i] = first.inode[seg.ino].segs[i]
    BY <1>1 DEF TreeInv, Mended
  <1>4. seg.i <= Len(fs.inode[seg.ino].segs)
    BY DEF AtSegment, Segs
  <1>5. Len(fs.inode[seg.ino].segs) \in Nat /\ Len(first.inode[seg.ino].segs) \in Nat
    BY <1>2, OnDisk
  <1>6. seg.i \in 1 .. Len(fs.inode[seg.ino].segs) /\ seg.i \in 1 .. Len(first.inode[seg.ino].segs) /\ seg.i - 1 \in Nat
        /\ seg.i - 1 <= Len(fs.inode[seg.ino].segs)
    BY <1>1, <1>3, <1>4, <1>5
  <1>7. Bi = first.inode[seg.ino].segs[seg.i]
    BY <1>3, <1>6 DEF Bi, Segs
  <1>8. first.inode[seg.ino].segs[seg.i] \in [sub : Nat, num : Nat, cnt : Nat]
    BY <1>2, <1>6, OnDisk
  <1>9. Covers(Bi) \subseteq Owned(first, seg.ino)
    BY <1>6, <1>7 DEF Owned
  <1> QED
    BY <1>1, <1>6, <1>7, <1>8, <1>9

LEMMA InHandOwned ==
  ASSUME TreeInv, SegInv
  PROVE  InHand \subseteq Owned(first, seg.ino)
  <1>1. CASE pc \notin {"root", "segments"}
    BY <1>1 DEF InHand
  <1>2. CASE pc \in {"root", "segments"}
    <2>1. seg.ino \in DOMAIN first.inode /\ seg.i \in Nat \ {0} /\ DOMAIN fs.inode = DOMAIN first.inode
          /\ seg.i - 1 <= Len(fs.inode[seg.ino].segs)
      BY <1>2 DEF SegInv, TreeInv, Mended, Segs
    <2>2. Len(fs.inode[seg.ino].segs) <= Len(first.inode[seg.ino].segs)
      BY <2>1 DEF TreeInv, Mended
    <2>3. first.inode[seg.ino].segs \in SegmentsOnDisk /\ fs.inode[seg.ino].segs \in SegmentsOnDisk
      BY <2>1, TreeFacts DEF TreeInv
    <2>4. Len(fs.inode[seg.ino].segs) \in Nat /\ Len(first.inode[seg.ino].segs) \in Nat
      BY <2>3, OnDisk
    <2>5. \A j \in 1 .. seg.i - 1 : j \in 1 .. Len(first.inode[seg.ino].segs)
      BY <2>1, <2>2, <2>4
    <2> QED
      BY <1>2, <2>5 DEF InHand, Owned
  <1> QED
    BY <1>1, <1>2

LEMMA SoundFacts ==
  ASSUME NEW bi \in [sub : Nat, num : Nat, cnt : Nat], ~BadZone(bi)
  PROVE  /\ bi.sub \in Subs /\ bi.cnt > 0 /\ Zones(bi) \subseteq ZonesOf(bi.sub) /\ Zones(bi) \subseteq Nat
         /\ \A z \in Zones(bi) : z \in FirstZone .. Size[bi.sub] - 1 /\ <<bi.sub, z>> \in Covers(bi)
  <1>1. bi.sub \in Subs /\ bi.cnt > 0 /\ bi.num >= FirstZone /\ bi.num + bi.cnt <= Size[bi.sub]
    BY DEF BadZone
  <1>2. Size[bi.sub] \in Nat /\ FirstZone \in Nat /\ bi.num \in Nat /\ bi.cnt \in Nat
    BY <1>1, FsckFacts
  <1>3. \A z \in Zones(bi) : z \in Nat /\ z \in FirstZone .. Size[bi.sub] - 1 /\ z \in 0 .. Size[bi.sub] - 1
    BY <1>1, <1>2 DEF Zones
  <1>4. \A z \in Zones(bi) : <<bi.sub, z>> \in Covers(bi)
    BY DEF Zones, Covers
  <1> QED
    BY <1>1, <1>3, <1>4 DEF ZonesOf

\* fsckCheckFileBitmap marks zones of the partition.
LEMMA MarksSet ==
  ASSUME WellFormed(fs), NEW bi \in [sub : Nat, num : Nat, cnt : Nat], ~BadZone(bi), NEW g, g = WithMarks(bi)
  PROVE  /\ WellFormed(g) /\ g.inode = fs.inode /\ g.dir = fs.dir /\ g.badZones = fs.badZones
         /\ g.writeError = fs.writeError /\ \A s \in Subs : fs.bits[s] \subseteq g.bits[s]
  <1>1. FieldsOf(fs) /\ FieldsOK(fs)
    BY WellFormedFields
  <1>2. bi.sub \in Subs /\ Zones(bi) \subseteq ZonesOf(bi.sub) /\ Zones(bi) \subseteq Nat
    BY SoundFacts
  <1>3. fs.bits \in [Subs -> SUBSET Nat] /\ fs.stray \in [Subs -> SUBSET Nat] /\ \A s \in Subs : fs.bits[s] \subseteq ZonesOf(s)
    BY <1>1 DEF FieldsOK
  <1>4. CASE bi.sub = 0
    <2> DEFINE B == fs.bits
               Z == Zones(bi)
    <2>1. g = [fs EXCEPT !.bits = [B EXCEPT ![0] = @ \cup Z]]
      BY <1>4 DEF WithMarks
    <2>2. B \in [Subs -> SUBSET Nat] /\ Z \subseteq Nat /\ 0 \in Subs /\ Z \subseteq ZonesOf(0)
      BY <1>2, <1>3, <1>4
    <2> HIDE DEF B, Z
    <2>3. PICK C : C = [B EXCEPT ![0] = @ \cup Z]
      OBVIOUS
    <2>4. C \in [Subs -> SUBSET Nat] /\ C[0] = B[0] \cup Z /\ \A s \in Subs : s # 0 => C[s] = B[s]
      BY <2>2, <2>3
    <2>5. FieldsOf(g) /\ g.bits = C /\ \A y \in Fields \ {"bits"} : g[y] = fs[y]
      BY <1>1, <2>1, <2>3 DEF FieldsOf, Fields
    <2>6. /\ g.main = fs.main /\ g.backup = fs.backup /\ g.num = fs.num /\ g.area = fs.area
          /\ g.writeError = fs.writeError /\ g.errorsFixed = fs.errorsFixed /\ g.unreadable = fs.unreadable
          /\ g.badAttrs = fs.badAttrs /\ g.badZones = fs.badZones /\ g.stray = fs.stray
          /\ g.inode = fs.inode /\ g.dir = fs.dir
      BY <2>5 DEF Fields
    <2>7. \A s \in Subs : g.bits[s] \subseteq ZonesOf(s) /\ fs.bits[s] \subseteq g.bits[s]
      BY <2>2, <2>4, <2>5, <1>3 DEF B
    <2>8. FieldsOK(g)
      BY <1>1, <2>4, <2>5, <2>6, <2>7 DEF FieldsOK
    <2> QED
      BY <2>5, <2>6, <2>7, <2>8, WellFormedFields
  <1>5. CASE bi.sub # 0
    <2> DEFINE B == fs.stray
               Z == Zones(bi)
               r == bi.sub
    <2>1. g = [fs EXCEPT !.stray = [B EXCEPT ![r] = @ \cup Z]]
      BY <1>5 DEF WithMarks
    <2>2. B \in [Subs -> SUBSET Nat] /\ Z \subseteq Nat /\ r \in Subs
      BY <1>2, <1>3
    <2> HIDE DEF B, Z, r
    <2>3. PICK C : C = [B EXCEPT ![r] = @ \cup Z]
      OBVIOUS
    <2>4. C \in [Subs -> SUBSET Nat]
      BY <2>2, <2>3
    <2>5. FieldsOf(g) /\ g.stray = C /\ \A y \in Fields \ {"stray"} : g[y] = fs[y]
      BY <1>1, <2>1, <2>3 DEF FieldsOf, Fields
    <2>6. /\ g.main = fs.main /\ g.backup = fs.backup /\ g.num = fs.num /\ g.area = fs.area
          /\ g.writeError = fs.writeError /\ g.errorsFixed = fs.errorsFixed /\ g.unreadable = fs.unreadable
          /\ g.badAttrs = fs.badAttrs /\ g.badZones = fs.badZones /\ g.bits = fs.bits
          /\ g.inode = fs.inode /\ g.dir = fs.dir
      BY <2>5 DEF Fields
    <2>8. FieldsOK(g)
      BY <1>1, <2>4, <2>5, <2>6 DEF FieldsOK
    <2> QED
      BY <2>5, <2>6, <2>8, WellFormedFields
  <1> QED
    BY <1>4, <1>5

LEMMA MapFrom ==
  ASSUME NEW V, MapInv(V), NEW W, V \subseteq W, first' = first, NEW B,
         \A b \in B : b = <<b[1], b[2]>> /\ b[1] \in Subs /\ b[2] \in ZonesOf(b[1]),
         \A g \in map' : g \in map \/ \E b \in B : g = PlaceOf(b[1], b[2]),
         \A b \in InHand \cup B : b \in InHand' \/ \E y \in W : b \in Owned(first, y)
  PROVE  MapInv(W)'
  <1>1. ASSUME NEW g \in map'
        PROVE  \E s \in Subs : \E z \in ZonesOf(s) :
                  /\ g = PlaceOf(s, z)
                  /\ z \in Reserved[s] \/ <<s, z>> \in InHand' \/ \E y \in W : <<s, z>> \in Owned(first', y)
    <2>1. CASE g \in map
      <3>1. PICK s \in Subs : \E z \in ZonesOf(s) :
               /\ g = PlaceOf(s, z)
               /\ z \in Reserved[s] \/ <<s, z>> \in InHand \/ \E y \in V : <<s, z>> \in Owned(first, y)
        BY <2>1 DEF MapInv
      <3>2. PICK z \in ZonesOf(s) :
               /\ g = PlaceOf(s, z)
               /\ z \in Reserved[s] \/ <<s, z>> \in InHand \/ \E y \in V : <<s, z>> \in Owned(first, y)
        BY <3>1
      <3> QED
        BY <3>2
    <2>2. CASE \E b \in B : g = PlaceOf(b[1], b[2])
      <3>1. PICK b \in B : g = PlaceOf(b[1], b[2])
        BY <2>2
      <3>2. b = <<b[1], b[2]>> /\ b[1] \in Subs /\ b[2] \in ZonesOf(b[1])
        BY <3>1
      <3>3. b \in InHand' \/ \E y \in W : b \in Owned(first, y)
        BY <3>1
      <3> QED
        BY <3>1, <3>2, <3>3
    <2> QED
      BY <1>1, <2>1, <2>2
  <1> QED
    BY <1>1 DEF MapInv, PlaceOf

\* What a segment adds to the bitmap that is made.
LEMMA MarkedFacts ==
  ASSUME TreeInv, SegInv, AtSegment, Sound
  PROVE  /\ \A b \in Covers(Bi) : b = <<b[1], b[2]>> /\ b[1] \in Subs /\ b[2] \in ZonesOf(b[1])
         /\ \A g \in Marked(Bi) : g \in map \/ \E b \in Covers(Bi) : g = PlaceOf(b[1], b[2])
  <1>1. Bi \in [sub : Nat, num : Nat, cnt : Nat] /\ ~BadZone(Bi)
    BY SegmentAt DEF Sound
  <1>2. Bi.sub \in Subs /\ Zones(Bi) \subseteq ZonesOf(Bi.sub)
    BY <1>1, SoundFacts
  <1>3. \A b \in Covers(Bi) : \E z \in Zones(Bi) : b = <<Bi.sub, z>>
    BY DEF Covers, Zones
  <1>4. ASSUME NEW g \in Marked(Bi), g \notin map PROVE \E b \in Covers(Bi) : g = PlaceOf(b[1], b[2])
    <2>1. PICK z \in Zones(Bi) : g = ZoneMap[Bi.sub] + z
      BY <1>4 DEF Marked, Global
    <2>2. <<Bi.sub, z>> \in Covers(Bi)
      BY <1>1, SoundFacts
    <2> QED
      BY <2>1, <2>2 DEF PlaceOf
  <1> QED
    BY <1>2, <1>3, <1>4

\* An inode is done, and a directory is walked: its entries were not met before,
\* unless the inode is tangled.
LEMMA PathsAppended ==
  ASSUME TreeInv, PathInv, pc = "segments", NEW V, VisitInv(V), NEW new,
         \/ Len(new) = Len(stack)
         \/ Len(new) = Len(stack) + 1 /\ new[Len(new)].dir = seg.ino,
         \A n \in 1 .. Len(stack) : new[n] = stack[n]
  PROVE  PathsVisited(V \cup {seg.ino}, new)
  <1> DEFINE l == Len(stack)
             y == seg.ino
  <1>1. /\ l \in Nat \ {0} /\ Top = stack[l] /\ stack # <<>>
        /\ y \in Reached(first) /\ (y \in V => y \in Tangled(first))
    BY TopFacts DEF PathInv, VisitInv
  <1>2. PICK e0 : MetAt(y, e0) /\ e0[1] = Top.dir /\ Passed(Top, e0)
    BY DEF VisitInv
  <1>3. \A n \in 1 .. l : stack[n].dir \in V
    BY DEF VisitInv
  <1>4. ASSUME NEW n \in 1 .. Len(new)
        PROVE  (n \in 1 .. l /\ new[n] = stack[n]) \/ (n = l + 1 /\ new[n].dir = y)
    BY <1>1
  <1> HIDE DEF l, y
  <1>5. ASSUME NEW e \in Names(first), e[1] \in Tangled(first)
        PROVE  Named(first, e) \in Tangled(first)
    <2>1. e[1] \in DOMAIN first.dir /\ e \in Naming(first, e[1])
      BY ReachedFacts DEF TreeInv
    <2> QED
      BY <2>1, <1>5, TangledFacts DEF TreeInv
  <1>6. ASSUME NEW x \in V \cup {y}, x \notin Tangled(first), x # Root
        PROVE  \E e : /\ MetAt(x, e) /\ e[1] \in V \cup {y}
                      /\ \A n \in 1 .. Len(new) : new[n].dir = e[1] => Passed(new[n], e)
    <2>1. CASE x \in V
      <3>1. PICK e : /\ MetAt(x, e) /\ e[1] \in V
                     /\ \A n \in 1 .. Len(stack) : stack[n].dir = e[1] => Passed(stack[n], e)
        BY <2>1, <1>6 DEF VisitInv
      <3>2. e[1] # y
        BY <3>1, <1>1, <1>5, <1>6 DEF MetAt
      <3>3. ASSUME NEW n \in 1 .. Len(new), new[n].dir = e[1] PROVE Passed(new[n], e)
        BY <3>1, <3>2, <3>3, <1>4 DEF l
      <3> QED
        BY <3>1, <3>3
    <2>2. CASE x \notin V
      <3>1. x = y /\ e0 \in Names(first) /\ Named(first, e0) = y
        BY <2>2, <1>2, <1>6 DEF MetAt
      <3>2. e0[1] \in V /\ e0[1] # y /\ e0[1] = stack[l].dir
        BY <3>1, <2>2, <1>1, <1>2, <1>3
      <3>3. ASSUME NEW n \in 1 .. Len(new), new[n].dir = e0[1] PROVE Passed(new[n], e0)
        <4>1. n \in 1 .. l /\ new[n] = stack[n]
          BY <3>2, <3>3, <1>4
        <4>2. CASE n = l
          BY <4>1, <4>2, <1>1, <1>2
        <4>3. CASE n # l
          <5>1. stack[n].dir = stack[l].dir /\ l \in 1 .. l
            BY <4>1, <3>2, <3>3, <1>1
          <5>2. stack[n].dir \in Tangled(first)
            BY <4>1, <4>3, <5>1 DEF VisitInv, l
          <5>3. y \in Tangled(first)
            BY <5>1, <5>2, <3>1, <3>2, <1>5
          <5> QED
            BY <5>3, <3>1, <1>6
        <4> QED
          BY <4>2, <4>3
      <3> QED
        BY <3>1, <3>2, <3>3, <1>2
    <2> QED
      BY <2>1, <2>2
  <1>7. ASSUME NEW n \in 1 .. Len(new), NEW m \in 1 .. Len(new), n # m, new[n].dir = new[m].dir
        PROVE  new[n].dir \in Tangled(first)
    <2>1. CASE n \in 1 .. l /\ m \in 1 .. l
      <3>1. new[n] = stack[n] /\ new[m] = stack[m]
        BY <2>1 DEF l
      <3> QED
        BY <2>1, <3>1, <1>7 DEF VisitInv, l
    <2>2. CASE n \notin 1 .. l
      <3>1. new[n].dir = y /\ m \in 1 .. l /\ new[m] = stack[m]
        BY <2>2, <1>4, <1>7, <1>1
      <3> QED
        BY <3>1, <1>1, <1>3, <1>7
    <2>3. CASE m \notin 1 .. l
      <3>1. new[m].dir = y /\ n \in 1 .. l /\ new[n] = stack[n]
        BY <2>3, <1>4, <1>7, <1>1
      <3> QED
        BY <3>1, <1>1, <1>3, <1>7
    <2> QED
      BY <2>1, <2>2, <2>3
  <1>8. V \cup {y} \subseteq Reached(first)
    BY <1>1 DEF VisitInv
  <1>9. \A n \in 1 .. Len(new) : new[n].dir \in V \cup {y}
    BY <1>3, <1>4
  <1> QED
    BY <1>6, <1>7, <1>8, <1>9 DEF PathsVisited, y

\* Walk(d, parent) is at the first entry of a directory.
LEMMA WalkStarts ==
  ASSUME WellFormed(first), NEW d \in Walked, NEW p \in Walked
  PROVE  Walk(d, p) \in Spots /\ PlaceOK(Walk(d, p)) /\ Walk(d, p).dir = d /\ Walk(d, p).at = "aligned"
  <1>1. Walk(d, p) = [dir |-> d, parent |-> p, k |-> 1, off |-> 0, size |-> 0, at |-> "aligned"]
    BY DEF Walk
  <1>2. d \in DOMAIN first.dir /\ Len(first.dir[d]) \in Nat \ {0} /\ 1 \in 1 .. Len(first.dir[d])
    <2>1. d \in DOMAIN first.dir
      BY DEF Walked
    <2>2. Len(first.dir[d]) \in Nat \ {0}
      BY <2>1, TreeFacts
    <2> QED
      BY <2>1, <2>2
  <1>3. 0 \in Parsed(first.dir[d][1])
    BY <1>2, TreeFacts, SectorFacts
  <1>4. Walk(d, p) \in Spots
    BY <1>1, TestNames DEF Spots
  <1>5. Walk(d, p).off \in Offsets(Walk(d, p))
    BY <1>1, <1>3 DEF Offsets
  <1> QED
    BY <1>1, <1>2, <1>4, <1>5 DEF PlaceOK

LEMMA ReturnHealth ==
  ASSUME HealthInv, TypeInv, pc \in {"root", "segments"}, NEW good, Return(good),
         TreeInv', KeptInv', hasError' \in BOOLEAN, fixed' \in BOOLEAN,
         UNCHANGED <<first, fixing, stopFlag>>,
         NEW B, B \subseteq Owned(first, seg.ino),
         \A b \in B : b = <<b[1], b[2]>> /\ b[1] \in Subs /\ b[2] \in ZonesOf(b[1]),
         \A g \in map' : g \in map \/ \E b \in B : g = PlaceOf(b[1], b[2])
  PROVE  HealthInv'
  <1>0. TreeInv /\ PathInv /\ SegInv /\ ControlInv /\ seg' = seg
    BY DEF HealthInv, Return
  <1>1. PICK V : VisitInv(V) /\ MapInv(V)
    BY DEF HealthInv
  <1>2. /\ pc = "segments" => pc' = "walk"
        /\ pc = "root" => pc' \in {"rootchecked", "gaveup"} /\ stack' = stack /\ stack = <<>> /\ seg.ino = Root
    BY <1>0 DEF Return, PathInv, SegInv
  <1>a. PICK W : W = V \cup {seg.ino}
    OBVIOUS
  <1>3. MapInv(W)'
    <2>1. InHand' = {}
      BY <1>2 DEF InHand
    <2>2. \A b \in InHand \cup B : b \in Owned(first, seg.ino)
      BY <1>0, InHandOwned
    <2> QED
      BY <1>1, <1>a, <2>2, MapFrom
  <1>4. SegInv'
    <2>1. seg' \in [ino : DOMAIN first'.inode, i : Nat \ {0}]
      BY <1>0 DEF SegInv
    <2> QED
      BY <2>1, <1>2 DEF SegInv
  <1>5. ControlInv'
    BY <1>0, <1>2 DEF ControlInv, Running
  <1>6. CASE pc = "root"
    <2>1. PathInv'
      <3>1. Spots' = Spots
        BY DEF Spots, Walked
      <3>2. stack' = <<>> /\ stack \in Seq(Spots) /\ Len(stack') = 0 /\ Len(stack) <= MaxDepth
        BY <1>2, <1>6, <1>0 DEF PathInv
      <3> QED
        BY <1>2, <1>6, <3>1, <3>2 DEF PathInv
    <2>2. TopInv'
      BY <1>2, <1>6 DEF TopInv
    <2>3. VisitInv(W)'
      <3>0. V = {} /\ Root \in Reached(first)
        BY <1>0, <1>1, <1>6, ReachedFacts DEF VisitInv, TreeInv
      <3>1. PathsVisited(W, stack')
        BY <3>0, <1>2, <1>6, <1>a DEF PathsVisited
      <3>2. W = {Root}
        BY <3>0, <1>2, <1>6, <1>a
      <3> QED
        BY <3>1, <3>2, <1>2, <1>6, VisitFrom
    <2> QED
      BY <2>1, <2>2, <2>3, <1>3, <1>4, <1>5 DEF HealthInv
  <1>7. CASE pc = "segments"
    <2>1. /\ Len(stack) \in Nat \ {0} /\ Top = stack[Len(stack)] /\ stack # <<>> /\ stack \in Seq(Spots)
          /\ Top.dir \in Walked /\ Len(stack) < MaxDepth /\ Top.at = "next"
          /\ \A n \in 1 .. Len(stack) : PlaceOK(stack[n]) /\ stack[n].at = "next"
      <3>1. /\ stack # <<>> /\ stack \in Seq(Spots) /\ Len(stack) < MaxDepth /\ Top.at = "next"
            /\ \A n \in 1 .. Len(stack) : PlaceOK(stack[n]) /\ (n < Len(stack) => stack[n].at = "next")
        BY <1>0, <1>7 DEF PathInv
      <3>2. Len(stack) \in Nat \ {0} /\ Top = stack[Len(stack)] /\ Top.dir \in Walked
        BY <3>1, <1>0, TopFacts DEF Walked
      <3>3. \A n \in 1 .. Len(stack) : stack[n].at = "next"
        <4> TAKE n \in 1 .. Len(stack)
        <4>1. n < Len(stack) \/ n = Len(stack)
          BY <3>2
        <4> QED
          BY <4>1, <3>1, <3>2
      <3> QED
        BY <3>1, <3>2, <3>3
    <2>2. Spots' = Spots /\ \A t : PlaceOK(t) = PlaceOK(t)'
      BY DEF PlaceOK, Spots, Walked, Offsets
    <2>3. /\ stack' \in Seq(Spots) /\ Len(stack') <= MaxDepth
          /\ \/ stack' = stack
             \/ /\ Len(stack') = Len(stack) + 1 /\ stack'[Len(stack')].dir = seg.ino
                /\ stack'[Len(stack')].at = "aligned" /\ PlaceOK(stack'[Len(stack')])
                /\ \A n \in 1 .. Len(stack) : stack'[n] = stack[n]
      <3>1. CASE fs.inode[seg.ino].mode = "dir"
        <4> DEFINE w == Walk(seg.ino, Top.dir)
        <4>1. stack' = Append(stack, w)
          BY <1>7, <3>1 DEF Return, TypeInv
        <4>2. seg.ino \in Walked
          <5>1. seg.ino \in Reached(first)
            BY <1>1, <1>7 DEF VisitInv
          <5>2. seg.ino \in DOMAIN first.inode /\ first.inode[seg.ino].mode = "dir"
            BY <1>0, <3>1 DEF SegInv, TreeInv, Mended
          <5>3. seg.ino \in DOMAIN first.dir
            BY <1>0, <5>2, TreeFacts DEF TreeInv
          <5> QED
            BY <5>1, <5>3 DEF Walked
        <4>3. w \in Spots /\ PlaceOK(w) /\ w.dir = seg.ino /\ w.at = "aligned"
          BY <4>2, <2>1, <1>0, WalkStarts DEF TreeInv
        <4> HIDE DEF w
        <4>4. Len(stack) + 1 <= MaxDepth
          BY <2>1, FsckFacts
        <4> DEFINE P == Spots
        <4>5. stack \in Seq(P) /\ w \in P
          BY <2>1, <4>3
        <4> HIDE DEF P
        <4>6. /\ stack' \in Seq(P) /\ Len(stack') = Len(stack) + 1 /\ stack'[Len(stack) + 1] = w
              /\ \A n \in 1 .. Len(stack) : stack'[n] = stack[n]
          BY <4>1, <4>5
        <4> QED
          BY <4>3, <4>4, <4>6 DEF P
      <3>2. CASE fs.inode[seg.ino].mode # "dir"
        <4>1. stack' = stack
          BY <1>7, <3>2 DEF Return, TypeInv
        <4> QED
          BY <4>1, <2>1, FsckFacts
      <3> QED
        BY <3>1, <3>2
    <2>4. PathInv'
      <3>1. ASSUME NEW n \in 1 .. Len(stack') PROVE PlaceOK(stack'[n]) /\ (n < Len(stack') => stack'[n].at = "next")
        <4>1. CASE stack' = stack
          BY <4>1, <2>1
        <4>2. CASE stack' # stack
          <5>1. n \in 1 .. Len(stack) \/ n = Len(stack')
            BY <4>2, <2>1, <2>3
          <5>2. CASE n = Len(stack')
            <6>1. Len(stack') \in Nat
              BY <4>2, <2>1, <2>3
            <6> QED
              BY <5>2, <6>1, <4>2, <2>3
          <5>3. CASE n \in 1 .. Len(stack)
            BY <5>3, <4>2, <2>1, <2>3
          <5> QED
            BY <5>1, <5>2, <5>3
        <4> QED
          BY <4>1, <4>2
      <3> QED
        BY <3>1, <2>2, <2>3, <1>2, <1>7 DEF PathInv
    <2>5. TopInv'
      <3>1. Top' = stack'[Len(stack')]
        BY DEF Top, Last
      <3>2. Top'.at \in {"next", "aligned"}
        BY <3>1, <2>1, <2>3
      <3> QED
        BY <3>2 DEF TopInv
    <2>6. VisitInv(W)'
      <3>1. PathsVisited(W, stack')
        <4>1. \/ Len(stack') = Len(stack)
              \/ Len(stack') = Len(stack) + 1 /\ stack'[Len(stack')].dir = seg.ino
          BY <2>3
        <4>2. \A n \in 1 .. Len(stack) : stack'[n] = stack[n]
          BY <2>3
        <4> QED
          BY <4>1, <4>2, <1>0, <1>1, <1>7, <1>a, PathsAppended
      <3> QED
        BY <3>1, <1>2, <1>7, <1>a, VisitFrom
    <2> QED
      BY <2>4, <2>5, <2>6, <1>3, <1>4, <1>5 DEF HealthInv
  <1> QED
    BY <1>6, <1>7

\* A segment that cannot stay excuses its inode.
LEMMA BadZoneExcused ==
  ASSUME TreeInv, SegInv, AtSegment, BadZone(Bi)
  PROVE  Excused(seg.ino)
  <1>1. /\ seg.i \in 1 .. Len(first.inode[seg.ino].segs) /\ Bi = first.inode[seg.ino].segs[seg.i]
        /\ Bi \in [sub : Nat, num : Nat, cnt : Nat]
    BY SegmentAt
  <1>2. PICK b \in [sub : Nat, num : Nat, cnt : Nat] : b = Bi
    BY <1>1
  <1>3. FirstZone \in Nat /\ \A s \in Subs : Size[s] \in Nat
    BY FsckFacts
  <1>4. ~(b.sub \in Subs /\ b.cnt > 0 /\ \A z \in Zones(b) : z \in FirstZone .. Size[b.sub] - 1)
    <2> SUFFICES ASSUME b.sub \in Subs, b.cnt > 0, \A z \in Zones(b) : z \in FirstZone .. Size[b.sub] - 1
                 PROVE  FALSE
      OBVIOUS
    <2>1. b.num \in Nat /\ b.cnt \in Nat /\ b.cnt > 0
      BY <1>2
    <2>2. b.num \in Zones(b) /\ b.num + b.cnt - 1 \in Zones(b)
      BY <2>1 DEF Zones
    <2>3. b.num >= FirstZone /\ b.num + b.cnt - 1 <= Size[b.sub] - 1
      BY <2>1, <2>2, <1>3
    <2>4. b.num + b.cnt <= Size[b.sub]
      BY <2>1, <2>3, <1>3
    <2>5. ~BadZone(b)
      BY <2>1, <2>3, <2>4 DEF BadZone
    <2> QED
      BY <2>5, <1>2
  <1>5. ~InsideVolume(first, seg.ino)
    BY <1>1, <1>2, <1>4 DEF InsideVolume
  <1> QED
    BY <1>5 DEF Excused

LEMMA UnreadableExcused ==
  ASSUME TreeInv, SegInv, AtSegment, Unreadable
  PROVE  Excused(seg.ino)
  <1>1. Covers(Bi) \subseteq Owned(first, seg.ino) /\ Covers(Bi) \cap fs.badZones # {}
    BY SegmentAt DEF Unreadable
  <1>2. fs.badZones = first.badZones
    BY DEF TreeInv, Mended
  <1> QED
    BY <1>1, <1>2 DEF Excused

\* What is in the bitmap already was reserved, or somebody else's.
LEMMA OverlapExcused ==
  ASSUME HealthInv, AtSegment, Sound, Met(Bi) # {}
  PROVE  Excused(seg.ino)
  <1>0. TreeInv /\ SegInv /\ ControlInv
    BY DEF HealthInv
  <1>1. PICK V : VisitInv(V) /\ MapInv(V)
    BY DEF HealthInv
  <1> DEFINE x == seg.ino
             b == Bi
  <1>2. /\ seg.i \in 1 .. Len(first.inode[x].segs) /\ b = first.inode[x].segs[seg.i]
        /\ b \in [sub : Nat, num : Nat, cnt : Nat] /\ Covers(b) \subseteq Owned(first, x)
        /\ seg.i \in Nat \ {0} /\ x \in DOMAIN first.inode
    BY <1>0, SegmentAt
  <1>3. b.sub \in Subs /\ Zones(b) \subseteq ZonesOf(b.sub) /\ \A z \in Zones(b) : <<b.sub, z>> \in Covers(b)
    BY <1>2, SoundFacts DEF Sound
  <1>4. PICK z \in Zones(b) : PlaceOf(b.sub, z) \in map
    BY DEF Met, Global, PlaceOf
  <1> HIDE DEF x, b
  <1>a. PICK s \in Subs : \E y \in ZonesOf(s) :
          /\ PlaceOf(b.sub, z) = PlaceOf(s, y)
          /\ y \in Reserved[s] \/ <<s, y>> \in InHand \/ \E w \in V : <<s, y>> \in Owned(first, w)
    BY <1>1, <1>4 DEF MapInv
  <1>5. PICK y \in ZonesOf(s) :
          /\ PlaceOf(b.sub, z) = PlaceOf(s, y)
          /\ y \in Reserved[s] \/ <<s, y>> \in InHand \/ \E w \in V : <<s, y>> \in Owned(first, w)
    BY <1>a
  <1>6. s = b.sub /\ y = z
    <2>1. z \in ZonesOf(b.sub)
      BY <1>3, <1>4
    <2> QED
      BY <2>1, <1>3, <1>5, PlacesDiffer
  <1>7. <<s, y>> \in Covers(b) /\ <<s, y>> \in Owned(first, x)
    BY <1>2, <1>3, <1>4, <1>6
  <1>8. CASE y \in Reserved[s]
    <2>1. \E p \in Owned(first, x) : ~(p[2] \notin Reserved[p[1]])
      BY <1>7, <1>8
    <2>2. ~Alone(first, x)
      BY <2>1 DEF Alone
    <2> QED
      BY <2>2 DEF Excused, x
  <1>9. CASE <<s, y>> \in InHand
    <2>1. PICK j \in 1 .. seg.i - 1 : <<s, y>> \in Covers(first.inode[x].segs[j])
      BY <1>9 DEF InHand, x
    <2>2. j \in 1 .. Len(first.inode[x].segs) /\ j # seg.i
      <3>1. first.inode[x].segs \in SegmentsOnDisk
        BY <1>0, <1>2, TreeFacts DEF TreeInv
      <3>2. Len(first.inode[x].segs) \in Nat
        BY <3>1, OnDisk
      <3> QED
        BY <3>2, <1>2
    <2>3. Covers(first.inode[x].segs[j]) \cap Covers(first.inode[x].segs[seg.i]) # {}
      BY <2>1, <1>2, <1>7
    <2>4. ~Alone(first, x)
      BY <2>2, <2>3, <1>2 DEF Alone
    <2> QED
      BY <2>4 DEF Excused, x
  <1>10. CASE \E w \in V : <<s, y>> \in Owned(first, w)
    <2>1. PICK w \in V : <<s, y>> \in Owned(first, w)
      BY <1>10
    <2>2. CASE w # x
      <3>1. w \in Reached(first)
        BY <1>1, <2>1 DEF VisitInv
      <3>2. Owned(first, x) \cap Owned(first, w) # {} /\ w \in Reached(first) \ {x}
        BY <3>1, <2>1, <2>2, <1>7
      <3>3. ~Alone(first, x)
        BY <3>2 DEF Alone
      <3> QED
        BY <3>3 DEF Excused, x
    <2>3. CASE w = x
      <3>1. pc \in {"root", "segments"}
        BY DEF AtSegment
      <3>2. pc = "segments"
        BY <2>1, <3>1, <1>1 DEF VisitInv
      <3>3. x \in Tangled(first)
        BY <2>1, <2>3, <3>2, <1>1 DEF VisitInv, x
      <3> QED
        BY <3>3 DEF Excused, x
    <2> QED
      BY <2>2, <2>3
  <1> QED
    BY <1>5, <1>8, <1>9, <1>10

\* fsckFillInode: the rest of the file is removed.
LEMMA CutKeeps ==
  ASSUME TreeInv, KeptInv, SegInv, AtSegment, Excused(seg.ino), first' = first,
         NEW f, WellFormed(f), f.inode = fs.inode, f.dir = fs.dir, f.badZones = fs.badZones,
         fs' = WithSegments(f, seg.ino, seg.i - 1)
  PROVE  TreeInv' /\ KeptInv'
  <1>1. /\ seg.ino \in DOMAIN f.inode /\ seg.i - 1 \in Nat /\ seg.i - 1 <= Len(f.inode[seg.ino].segs)
    BY SegmentAt
  <1>2. PICK x, n : x = seg.ino /\ n = seg.i - 1
    OBVIOUS
  <1>3. /\ WellFormed(fs') /\ SameRest(f, fs') /\ fs'.dir = f.dir /\ DOMAIN fs'.inode = DOMAIN f.inode
        /\ \A y \in DOMAIN f.inode : y # x => fs'.inode[y] = f.inode[y]
        /\ fs'.inode[x].mode = f.inode[x].mode /\ Len(fs'.inode[x].segs) = n
        /\ \A i \in 1 .. n : fs'.inode[x].segs[i] = f.inode[x].segs[i]
    BY <1>1, <1>2, InodeCut
  <1>4. Mended(first, fs')
    <2>0. /\ DOMAIN fs.inode = DOMAIN first.inode /\ DOMAIN fs.dir = DOMAIN first.dir /\ fs.badZones = first.badZones
      BY DEF TreeInv, Mended
    <2>1. ASSUME NEW y \in DOMAIN first.inode
          PROVE  /\ fs'.inode[y].mode = first.inode[y].mode
                 /\ Len(fs'.inode[y].segs) <= Len(first.inode[y].segs)
                 /\ \A i \in 1 .. Len(fs'.inode[y].segs) : fs'.inode[y].segs[i] = first.inode[y].segs[i]
      <3>1. /\ fs.inode[y].mode = first.inode[y].mode
            /\ Len(fs.inode[y].segs) <= Len(first.inode[y].segs)
            /\ \A i \in 1 .. Len(fs.inode[y].segs) : fs.inode[y].segs[i] = first.inode[y].segs[i]
        BY DEF TreeInv, Mended
      <3>2. CASE y # x
        BY <3>1, <3>2, <2>0, <1>3
      <3>3. CASE y = x
        <4>0. fs.inode[y].segs \in SegmentsOnDisk /\ first.inode[y].segs \in SegmentsOnDisk
          BY <2>0, TreeFacts DEF TreeInv
        <4>1. Len(fs.inode[y].segs) \in Nat /\ Len(first.inode[y].segs) \in Nat /\ n \in Nat /\ n <= Len(fs.inode[y].segs)
          BY <4>0, <3>3, <1>1, <1>2, OnDisk
        <4>2. n <= Len(first.inode[y].segs) /\ \A i \in 1 .. n : i \in 1 .. Len(fs.inode[y].segs)
          BY <4>1, <3>1
        <4> QED
          BY <4>1, <4>2, <3>1, <3>3, <1>3
      <3> QED
        BY <3>2, <3>3
    <2>2. \A d \in DOMAIN first.dir :
            /\ Len(fs'.dir[d]) = Len(first.dir[d])
            /\ \A k \in 1 .. Len(first.dir[d]) : SectorMended(first.dir[d][k], fs'.dir[d][k])
      BY <1>3 DEF TreeInv, Mended
    <2> QED
      BY <2>0, <2>1, <2>2, <1>3 DEF Mended, SameRest
  <1>5. TreeInv'
    BY <1>3, <1>4 DEF TreeInv
  <1>6. KeptInv'
    <2>1. ASSUME NEW y \in DOMAIN fs'.inode, fs'.inode[y] # first.inode[y] PROVE Excused(y)
      <3>1. CASE y = x
        BY <3>1, <1>2
      <3>2. CASE y # x
        BY <2>1, <3>2, <1>3 DEF KeptInv
      <3> QED
        BY <3>1, <3>2
    <2> QED
      BY <2>1 DEF KeptInv, Excused
  <1> QED
    BY <1>5, <1>6

LEMMA CheckSegmentHealth ==
  ASSUME HealthInv, TypeInv, CheckSegment
  PROVE  HealthInv'
  <1>1. /\ AtSegment /\ Sound /\ Met(Bi) = {} /\ map' = Marked(Bi) /\ UNCHANGED <<first, fixing, stopFlag>>
        /\ IF Unmarked(Bi) = {} THEN Fine ELSE Fix(WithMarks(Bi))
        /\ IF stopFlag THEN Return(TRUE)
           ELSE seg' = [seg EXCEPT !.i = @ + 1] /\ UNCHANGED <<pc, stack>>
    BY DEF CheckSegment
  <1>2. TreeInv /\ SegInv /\ ControlInv /\ PathInv /\ KeptInv /\ pc \in {"root", "segments"}
    BY <1>1 DEF HealthInv, AtSegment
  <1>3. /\ Bi \in [sub : Nat, num : Nat, cnt : Nat] /\ ~BadZone(Bi) /\ Covers(Bi) \subseteq Owned(first, seg.ino)
        /\ seg.ino \in DOMAIN fs.inode /\ seg.ino \in DOMAIN first.inode /\ seg.i \in Nat \ {0}
        /\ seg.i \in 1 .. Len(first.inode[seg.ino].segs) /\ Bi = first.inode[seg.ino].segs[seg.i]
    BY <1>1, <1>2, SegmentAt DEF Sound
  <1>4. PICK m : m = WithMarks(Bi)
    OBVIOUS
  <1>5. /\ WellFormed(m) /\ m.inode = fs.inode /\ m.dir = fs.dir /\ m.badZones = fs.badZones
    BY <1>2, <1>3, <1>4, MarksSet DEF TreeInv
  <1>6. hasError' \in BOOLEAN /\ fixed' \in BOOLEAN /\ (fs' = fs \/ fs' = m)
    BY <1>1, <1>2, <1>4, FixTypes, FineTypes
  <1>7. TreeInv' /\ KeptInv' /\ fs'.inode = fs.inode
    BY <1>1, <1>2, <1>5, <1>6 DEF TreeInv, KeptInv, Excused, Mended
  <1>8. /\ \A b \in Covers(Bi) : b = <<b[1], b[2]>> /\ b[1] \in Subs /\ b[2] \in ZonesOf(b[1])
        /\ \A g \in map' : g \in map \/ \E b \in Covers(Bi) : g = PlaceOf(b[1], b[2])
    BY <1>1, <1>2, MarkedFacts
  <1>9. CASE stopFlag
    BY <1>9, <1>1, <1>2, <1>3, <1>6, <1>7, <1>8, ReturnHealth
  <1>10. CASE ~stopFlag
    <2>1. seg' = [seg EXCEPT !.i = @ + 1] /\ UNCHANGED <<pc, stack>>
      BY <1>1, <1>10
    <2>2. seg'.ino = seg.ino /\ seg'.i = seg.i + 1 /\ seg' \in [ino : DOMAIN first.inode, i : Nat \ {0}]
      BY <2>1, <1>2, <1>3 DEF SegInv
    <2>3. SegInv'
      <3>1. Len(fs'.inode[seg.ino].segs) \in Nat /\ seg.i <= Len(fs'.inode[seg.ino].segs)
        <4>1. fs.inode[seg.ino].segs \in SegmentsOnDisk
          BY <1>2, <1>3, TreeFacts DEF TreeInv
        <4> QED
          BY <4>1, <1>1, <1>7, OnDisk DEF AtSegment, Segs
      <3>2. seg'.i - 1 <= Len(Segs(seg.ino)')
        BY <3>1, <2>2, <1>3 DEF Segs
      <3> QED
        BY <2>1, <2>2, <3>2, <1>1, <1>2 DEF SegInv
    <2>4. PICK V : VisitInv(V) /\ MapInv(V)
      BY DEF HealthInv
    <2>5. VisitInv(V)'
      <3>1. PathsVisited(V, stack')
        BY <2>1, <2>4, PathsOf
      <3>2. Top' = Top
        BY <2>1 DEF Top
      <3> QED
        BY <3>1, <3>2, <2>1, <2>2, <2>4, <1>1, VisitFrom DEF VisitInv
    <2>6. MapInv(V)'
      <3>1. \A b \in InHand \cup Covers(Bi) : b \in InHand'
        <4>1. \A j \in 1 .. seg.i - 1 : j \in 1 .. seg'.i - 1
          BY <2>2, <1>3
        <4>2. seg.i \in 1 .. seg'.i - 1
          BY <2>2, <1>3
        <4>3. InHand = UNION {Covers(first.inode[seg.ino].segs[j]) : j \in 1 .. seg.i - 1}
          BY <1>2 DEF InHand
        <4>4. InHand' = UNION {Covers(first.inode[seg.ino].segs[j]) : j \in 1 .. seg'.i - 1}
          BY <1>1, <1>2, <2>1, <2>2 DEF InHand
        <4> QED
          BY <4>1, <4>2, <4>3, <4>4, <1>3
      <3> QED
        BY <3>1, <2>4, <1>1, <1>8, MapFrom
    <2>7. PathInv' /\ ControlInv'
      BY <2>1, <1>1, <1>2, <1>6 DEF PathInv, ControlInv, Running, Top, PlaceOK, Spots, Walked, Offsets
    <2>8. TopInv'
      BY <2>1, <1>2 DEF TopInv
    <2> QED
      BY <1>7, <2>3, <2>5, <2>6, <2>7, <2>8 DEF HealthInv
  <1> QED
    BY <1>9, <1>10

LEMMA CutBadSegmentHealth ==
  ASSUME HealthInv, TypeInv, CutBadSegment
  PROVE  HealthInv'
  <1>1. /\ AtSegment /\ (BadZone(Bi) \/ Unreadable) /\ Fix(CutTo(seg.ino, seg.i - 1))
        /\ Return(fixing \/ ~BadZone(Bi)) /\ UNCHANGED <<first, fixing, map, stopFlag>>
    BY DEF CutBadSegment
  <1>2. TreeInv /\ SegInv /\ ControlInv /\ KeptInv /\ pc \in {"root", "segments"}
    BY <1>1 DEF HealthInv, AtSegment
  <1>3. Excused(seg.ino)
    BY <1>1, <1>2, BadZoneExcused, UnreadableExcused
  <1>4. hasError' \in BOOLEAN /\ fixed' \in BOOLEAN /\ (fs' = CutTo(seg.ino, seg.i - 1) \/ fs' = fs)
    BY <1>1, <1>2, FixTypes
  <1>5. TreeInv' /\ KeptInv'
    <2>1. CASE fs' = fs
      BY <2>1, <1>1, <1>2, SameFs
    <2>2. CASE fs' = CutTo(seg.ino, seg.i - 1)
      <3>1. fs' = WithSegments(fs, seg.ino, seg.i - 1) /\ WellFormed(fs)
        BY <2>2, <1>2 DEF CutTo, WithSegments, TreeInv
      <3> QED
        BY <3>1, <1>1, <1>2, <1>3, CutKeeps
    <2> QED
      BY <2>1, <2>2, <1>4
  <1>6. PICK B : B = {}
    OBVIOUS
  <1> QED
    BY <1>1, <1>2, <1>4, <1>5, <1>6, ReturnHealth

LEMMA LeaveUnmarkedHealth ==
  ASSUME HealthInv, TypeInv, LeaveUnmarked
  PROVE  HealthInv'
  <1>1. /\ AtSegment /\ NotFixed /\ Return(FALSE) /\ UNCHANGED <<first, fixing, map, stopFlag>>
    BY DEF LeaveUnmarked
  <1>2. TreeInv /\ ControlInv /\ KeptInv /\ pc \in {"root", "segments"}
    BY <1>1 DEF HealthInv, AtSegment
  <1>3. TreeInv' /\ KeptInv' /\ hasError' \in BOOLEAN /\ fixed' \in BOOLEAN
    BY <1>1, <1>2, SameFs DEF NotFixed, ControlInv
  <1>4. PICK B : B = {}
    OBVIOUS
  <1>5. /\ B \subseteq Owned(first, seg.ino)
        /\ \A b \in B : b = <<b[1], b[2]>> /\ b[1] \in Subs /\ b[2] \in ZonesOf(b[1])
        /\ \A g \in map' : g \in map \/ \E b \in B : g = PlaceOf(b[1], b[2])
    BY <1>1, <1>4
  <1>6. UNCHANGED <<first, fixing, stopFlag>>
    BY <1>1
  <1> QED
    BY <1>1, <1>2, <1>3, <1>5, <1>6, ReturnHealth

LEMMA CutOverlapHealth ==
  ASSUME HealthInv, TypeInv, CutOverlap
  PROVE  HealthInv'
  <1>1. /\ AtSegment /\ Sound /\ Met(Bi) # {} /\ map' = Marked(Bi)
        /\ Fix([WithMarks(Bi) EXCEPT !.inode[seg.ino].segs = SubSeq(@, 1, seg.i - 1)])
        /\ Return(FALSE) /\ UNCHANGED <<first, fixing, stopFlag>>
    BY DEF CutOverlap
  <1>2. TreeInv /\ SegInv /\ ControlInv /\ KeptInv /\ pc \in {"root", "segments"}
    BY <1>1 DEF HealthInv, AtSegment
  <1>3. Excused(seg.ino)
    BY <1>1, OverlapExcused
  <1>4. PICK m : m = WithMarks(Bi)
    OBVIOUS
  <1>5. /\ Bi \in [sub : Nat, num : Nat, cnt : Nat] /\ ~BadZone(Bi) /\ Covers(Bi) \subseteq Owned(first, seg.ino)
    BY <1>1, <1>2, SegmentAt DEF Sound
  <1>6. WellFormed(m) /\ m.inode = fs.inode /\ m.dir = fs.dir /\ m.badZones = fs.badZones
    BY <1>2, <1>4, <1>5, MarksSet DEF TreeInv
  <1>7. hasError' \in BOOLEAN /\ fixed' \in BOOLEAN /\ (fs' = WithSegments(m, seg.ino, seg.i - 1) \/ fs' = fs)
    <2>1. Fix(WithSegments(m, seg.ino, seg.i - 1))
      BY <1>1, <1>4 DEF WithSegments
    <2> QED
      BY <2>1, <1>2, FixTypes
  <1>8. TreeInv' /\ KeptInv'
    <2>1. CASE fs' = fs
      BY <2>1, <1>1, <1>2, SameFs
    <2>2. CASE fs' = WithSegments(m, seg.ino, seg.i - 1)
      BY <2>2, <1>1, <1>2, <1>3, <1>6, CutKeeps
    <2> QED
      BY <2>1, <2>2, <1>7
  <1>9. /\ \A b \in Covers(Bi) : b = <<b[1], b[2]>> /\ b[1] \in Subs /\ b[2] \in ZonesOf(b[1])
        /\ \A g \in map' : g \in map \/ \E b \in Covers(Bi) : g = PlaceOf(b[1], b[2])
    BY <1>1, <1>2, MarkedFacts
  <1> QED
    BY <1>1, <1>2, <1>5, <1>7, <1>8, <1>9, ReturnHealth

LEMMA SegmentsCheckedHealth ==
  ASSUME HealthInv, TypeInv, SegmentsChecked
  PROVE  HealthInv'
  <1>1. /\ pc \in {"root", "segments"} /\ Return(TRUE)
        /\ UNCHANGED <<fs, first, fixing, map, hasError, fixed, stopFlag>>
    BY DEF SegmentsChecked
  <1>2. TreeInv /\ ControlInv /\ KeptInv
    BY DEF HealthInv
  <1>3. TreeInv' /\ KeptInv' /\ hasError' \in BOOLEAN /\ fixed' \in BOOLEAN
    BY <1>1, <1>2, SameFs DEF ControlInv
  <1>4. PICK B : B = {}
    OBVIOUS
  <1>5. /\ B \subseteq Owned(first, seg.ino)
        /\ \A b \in B : b = <<b[1], b[2]>> /\ b[1] \in Subs /\ b[2] \in ZonesOf(b[1])
        /\ \A g \in map' : g \in map \/ \E b \in B : g = PlaceOf(b[1], b[2])
    BY <1>1, <1>4
  <1>6. UNCHANGED <<first, fixing, stopFlag>>
    BY <1>1
  <1> QED
    BY <1>1, <1>2, <1>3, <1>5, <1>6, ReturnHealth

-----------------------------------------------------------------------------
(* The walk from sector to sector, and out of a directory.                 *)

LEMMA NextSectorGoesOn ==
  ASSUME HealthInv, pc = "walk", stack # <<>>, Top.k < Len(Sectors), Fine,
         Turn([Walk(Top.dir, Top.parent) EXCEPT !.k = Top.k + 1]),
         UNCHANGED <<first, fixing, pc, seg, map, stopFlag>>
  PROVE  HealthInv'
  <1>1. ControlInv /\ TreeInv /\ PathInv /\ KeptInv
    BY DEF HealthInv
  <1>2. /\ PlaceOK(Top) /\ Top \in Spots /\ Top.dir \in Walked /\ Top.parent \in Walked /\ Top.k \in Nat
        /\ Top.k \in 1 .. Len(Sectors) /\ Len(Sectors) = Len(first.dir[Top.dir]) /\ Top.dir \in DOMAIN first.dir
    <2>1. PlaceOK(Top) /\ Top.k \in 1 .. Len(Sectors) /\ Len(Sectors) = Len(first.dir[Top.dir])
      BY <1>1, TopFacts
    <2>2. Top \in Spots
      BY <2>1 DEF PlaceOK
    <2> QED
      BY <2>1, <2>2 DEF Spots, Walked
  <1>3. PICK t : t = [Walk(Top.dir, Top.parent) EXCEPT !.k = Top.k + 1]
    OBVIOUS
  <1>4. /\ t \in Spots /\ t.dir = Top.dir /\ t.k = Top.k + 1 /\ t.off = 0 /\ t.at = "aligned" /\ t.size = 0
    <2>1. t = [dir |-> Top.dir, parent |-> Top.parent, k |-> Top.k + 1, off |-> 0, size |-> 0, at |-> "aligned"]
      BY <1>3 DEF Walk
    <2>2. Top.k + 1 \in Nat
      BY <1>2
    <2> QED
      BY <2>1, <2>2, <1>2, TestNames DEF Spots
  <1>5. Len(first.dir[Top.dir]) \in Nat
    BY <1>1, <1>2, TreeFacts DEF TreeInv
  <1>6. t.k \in 1 .. Len(first.dir[t.dir])
    BY <1>2, <1>4, <1>5
  <1>7. 0 \in Parsed(first.dir[t.dir][t.k])
    BY <1>1, <1>2, <1>4, <1>6, TreeFacts, SectorFacts DEF TreeInv
  <1>8. PlaceOK(t)
    BY <1>4, <1>6, <1>7 DEF PlaceOK, Offsets
  <1>9. TreeInv' /\ KeptInv' /\ hasError' \in BOOLEAN /\ fixed' \in BOOLEAN
    BY <1>1, SameFs, FineTypes
  <1>10. Turn(t) /\ t.k > Top.k
    BY <1>2, <1>3, <1>4
  <1> QED
    BY <1>4, <1>8, <1>9, <1>10, TurnHealth

LEMMA FrontHealth ==
  ASSUME HealthInv, pc = "walk", stack # <<>>, stack' = Front(stack), fs' = fs, hasError' \in BOOLEAN,
         fixed' \in BOOLEAN, UNCHANGED <<first, fixing, pc, seg, map, stopFlag>>
  PROVE  HealthInv'
  <1>1. ControlInv /\ TreeInv /\ PathInv /\ KeptInv /\ SegInv
    BY DEF HealthInv
  <1>2. Len(stack) \in Nat \ {0} /\ stack \in Seq(Spots) /\ Len(stack) <= MaxDepth /\ MaxDepth \in Nat
    BY <1>1, TopFacts, FsckFacts DEF PathInv
  <1>3. /\ stack' \in Seq(Spots) /\ Len(stack') = Len(stack) - 1
        /\ \A n \in 1 .. Len(stack') : n \in 1 .. Len(stack) /\ n < Len(stack) /\ stack'[n] = stack[n]
    <2> DEFINE P == Spots
               r == Front(stack)
    <2>1. stack \in Seq(P) /\ Len(stack) \in Nat \ {0}
      BY <1>2
    <2> HIDE DEF P
    <2>2. r = SubSeq(stack, 1, Len(stack) - 1)
      BY DEF Front
    <2> HIDE DEF r
    <2>3. r = [n \in 1 .. Len(stack) - 1 |-> stack[n]]
      BY <2>1, <2>2
    <2>4. \A n \in 1 .. Len(stack) - 1 : n \in 1 .. Len(stack) /\ n < Len(stack) /\ stack[n] \in P
      BY <2>1
    <2>5. r \in [1 .. Len(stack) - 1 -> P]
      BY <2>3, <2>4
    <2>6. r \in Seq(P) /\ Len(r) = Len(stack) - 1
      BY <2>1, <2>5
    <2>7. stack' = r
      BY DEF r
    <2> QED
      BY <2>3, <2>4, <2>6, <2>7 DEF P
  <1>4. Spots' = Spots /\ \A t : PlaceOK(t) = PlaceOK(t)'
    BY DEF PlaceOK, Spots, Walked, Offsets
  <1>5. \A n \in 1 .. Len(stack') : PlaceOK(stack'[n]) /\ stack'[n].at = "next"
    BY <1>1, <1>3 DEF PathInv
  <1>6. PathInv'
    BY <1>2, <1>3, <1>4, <1>5 DEF PathInv
  <1>7. TopInv'
    <2>1. stack' # <<>> => Top'.at = "next"
      <3> SUFFICES ASSUME stack' # <<>> PROVE Top'.at = "next"
        OBVIOUS
      <3>1. Len(stack') \in 1 .. Len(stack')
        BY <1>2, <1>3
      <3>2. Top' = stack'[Len(stack')]
        BY DEF Top, Last
      <3> QED
        BY <3>1, <3>2, <1>5
    <2> QED
      BY <2>1 DEF TopInv
  <1>8. PICK V : VisitInv(V) /\ MapInv(V)
    BY DEF HealthInv
  <1>9. PathsVisited(V, stack')
    <2>1. PathsVisited(V, stack)
      BY <1>8, PathsOf
    <2>2. ASSUME NEW x \in V \ Tangled(first), x # Root
          PROVE  \E e : /\ MetAt(x, e) /\ e[1] \in V
                        /\ \A n \in 1 .. Len(stack') : stack'[n].dir = e[1] => Passed(stack'[n], e)
      <3>1. PICK e : /\ MetAt(x, e) /\ e[1] \in V
                     /\ \A n \in 1 .. Len(stack) : stack[n].dir = e[1] => Passed(stack[n], e)
        BY <2>1, <2>2 DEF PathsVisited
      <3> QED
        BY <3>1, <1>3
    <2>3. \A n, m \in 1 .. Len(stack') : n # m /\ stack'[n].dir = stack'[m].dir => stack'[n].dir \in Tangled(first)
      BY <2>1, <1>3 DEF PathsVisited
    <2>4. V \subseteq Reached(first) /\ \A n \in 1 .. Len(stack') : stack'[n].dir \in V
      BY <2>1, <1>3 DEF PathsVisited
    <2> QED
      BY <2>2, <2>3, <2>4 DEF PathsVisited
  <1>10. VisitInv(V)'
    BY <1>9, VisitFrom
  <1>11. MapInv(V)'
    <2>1. InHand' = InHand
      BY DEF InHand
    <2> QED
      BY <2>1, <1>8 DEF MapInv
  <1>12. TreeInv' /\ KeptInv' /\ SegInv' /\ ControlInv'
    BY <1>1, SameFs DEF SegInv, ControlInv, Running
  <1> QED
    BY <1>6, <1>7, <1>10, <1>11, <1>12 DEF HealthInv

LEMMA NextSectorHealth ==
  ASSUME HealthInv, NextSector
  PROVE  HealthInv'
  <1>1. /\ pc = "walk" /\ stack # <<>> /\ Top.k < Len(Sectors)
        /\ UNCHANGED <<first, fixing, pc, seg, map, stopFlag>>
        /\ IF DataZones(Segs(Top.dir)) > Top.k
           THEN Turn([Walk(Top.dir, Top.parent) EXCEPT !.k = Top.k + 1]) /\ Fine
           ELSE stack' = Front(stack) /\ NotFixed
    BY DEF NextSector
  <1>2. CASE DataZones(Segs(Top.dir)) > Top.k
    BY <1>1, <1>2, NextSectorGoesOn
  <1>3. CASE ~(DataZones(Segs(Top.dir)) > Top.k)
    <2>1. stack' = Front(stack) /\ fs' = fs /\ hasError' \in BOOLEAN /\ fixed' \in BOOLEAN
      BY <1>1, <1>3 DEF NotFixed, HealthInv, ControlInv
    <2> QED
      BY <2>1, <1>1, FrontHealth
  <1> QED
    BY <1>2, <1>3

LEMMA LeaveDirectoryHealth ==
  ASSUME HealthInv, LeaveDirectory
  PROVE  HealthInv'
  <1>1. /\ pc = "walk" /\ stack # <<>> /\ stack' = Front(stack)
        /\ UNCHANGED <<fs, first, fixing, pc, seg, map, hasError, fixed, stopFlag>>
    BY DEF LeaveDirectory
  <1>2. hasError' \in BOOLEAN /\ fixed' \in BOOLEAN
    BY <1>1 DEF HealthInv, ControlInv
  <1> QED
    BY <1>1, <1>2, FrontHealth

LEMMA RootCheckedHealth ==
  ASSUME HealthInv, RootChecked
  PROVE  HealthInv'
  <1>1. /\ pc = "rootchecked" /\ stack' = <<Walk(Root, Root)>> /\ pc' = "walk"
        /\ UNCHANGED <<fs, first, fixing, seg, map, hasError, fixed, stopFlag>>
    BY DEF RootChecked
  <1>2. ControlInv /\ TreeInv /\ PathInv /\ KeptInv /\ SegInv
    BY DEF HealthInv
  <1>3. Root \in Walked
    BY <1>2, ReachedFacts DEF TreeInv, Walked
  <1>4. PICK w : w = Walk(Root, Root)
    OBVIOUS
  <1>5. w \in Spots /\ PlaceOK(w) /\ w.dir = Root /\ w.at = "aligned"
    BY <1>2, <1>3, <1>4, WalkStarts DEF TreeInv
  <1>6. stack' \in Seq(Spots) /\ Len(stack') = 1 /\ stack'[1] = w /\ stack' # <<>>
    <2>1. stack' = <<w>>
      BY <1>1, <1>4
    <2> HIDE DEF Spots
    <2> QED
      BY <2>1, <1>5
  <1>7. Spots' = Spots /\ \A t : PlaceOK(t) = PlaceOK(t)'
    BY <1>1 DEF PlaceOK, Spots, Walked, Offsets
  <1>8. PathInv'
    <2>1. MaxDepth \in Nat \ {0} /\ 1 <= MaxDepth
      BY FsckFacts
    <2>2. \A n \in 1 .. 1 : n = 1 /\ ~(n < 1)
      OBVIOUS
    <2> QED
      BY <2>1, <2>2, <1>1, <1>5, <1>6, <1>7 DEF PathInv
  <1>9. TopInv'
    <2>1. Top' = w
      BY <1>6 DEF Top, Last
    <2> QED
      BY <2>1, <1>5 DEF TopInv
  <1>10. PICK V : VisitInv(V) /\ MapInv(V)
    BY DEF HealthInv
  <1>11. V = {Root} /\ Root \in Reached(first)
    BY <1>1, <1>10, <1>3 DEF VisitInv, Walked
  <1>12. PathsVisited(V, stack')
    <2>1. \A n \in 1 .. Len(stack') : n = 1 /\ stack'[n].dir = Root
      BY <1>5, <1>6
    <2> QED
      BY <2>1, <1>11 DEF PathsVisited
  <1>13. VisitInv(V)'
    BY <1>1, <1>12, VisitFrom
  <1>14. MapInv(V)'
    <2>1. InHand' = InHand
      BY <1>1 DEF InHand
    <2> QED
      BY <2>1, <1>1, <1>10 DEF MapInv
  <1>15. TreeInv' /\ KeptInv' /\ SegInv' /\ ControlInv'
    BY <1>1, <1>2, SameFs DEF SegInv, ControlInv, Running
  <1> QED
    BY <1>8, <1>9, <1>13, <1>14, <1>15 DEF HealthInv

-----------------------------------------------------------------------------
(* The steps that walk nothing.                                            *)

\* The other fields of a filesystem, in one step.
LEMMA FieldsChange ==
  ASSUME WellFormed(fs), FieldsOf(fs'),
         fs'.inode = fs.inode, fs'.dir = fs.dir, fs'.badZones = fs.badZones, fs'.badAttrs = fs.badAttrs,
         fs'.main \in BOOLEAN, fs'.backup \in BOOLEAN, fs'.num \in Nat, fs'.area \in BOOLEAN,
         fs'.writeError \in BOOLEAN, fs'.errorsFixed \in BOOLEAN, fs'.unreadable \in SUBSET (Nat \X Nat),
         fs'.bits \in [Subs -> SUBSET Nat], fs'.stray \in [Subs -> SUBSET Nat],
         \A s \in Subs : fs'.bits[s] \subseteq ZonesOf(s)
  PROVE  WellFormed(fs')
  <1>1. FieldsOK(fs)
    BY WellFormedFields
  <1>2. TreeOK(fs.inode, fs.dir) /\ fs.badAttrs \in SUBSET DOMAIN fs.inode /\ fs.badZones \in SUBSET (Nat \X Nat)
    BY <1>1 DEF FieldsOK
  <1>3. FieldsOK(fs')
    BY <1>2 DEF FieldsOK
  <1> QED
    BY <1>3, WellFormedFields

LEMMA TreeSame ==
  ASSUME TreeInv, KeptInv, WellFormed(fs'), fs'.inode = fs.inode, fs'.dir = fs.dir, fs'.badZones = fs.badZones,
         first' = first
  PROVE  TreeInv' /\ KeptInv'
  BY DEF TreeInv, KeptInv, Excused, Mended

\* No directory is walked before the step or after it.
LEMMA MovesOn ==
  ASSUME HealthInv, pc \notin {"root", "segments"}, stack = <<>>, stack' = <<>>, first' = first, map' = map,
         fixing' = fixing, hasError' \in BOOLEAN, fixed' \in BOOLEAN, stopFlag' \in BOOLEAN, TreeInv', KeptInv',
         seg' = seg \/ seg' = [ino |-> Root, i |-> 1],
         \/ pc' = pc \/ pc' \in {"closed", "compare", "finish", "ended"}
         \/ pc = "open" /\ pc' = "attribute"
         \/ pc = "attribute" /\ pc' = "root" /\ seg' = [ino |-> Root, i |-> 1]
  PROVE  HealthInv'
  <1>1. ControlInv /\ TreeInv /\ PathInv /\ SegInv
    BY DEF HealthInv
  <1>2. PICK V : VisitInv(V) /\ MapInv(V)
    BY DEF HealthInv
  <1>3. ControlInv'
    BY <1>1 DEF ControlInv, Running
  <1>4. seg' \in [ino : DOMAIN first.inode, i : Nat \ {0}] /\ (pc' = "root" => seg'.ino = Root /\ seg'.i = 1)
    <2>1. Root \in DOMAIN first.inode
      BY <1>1, TreeFacts DEF TreeInv
    <2> QED
      BY <1>1, <2>1 DEF SegInv
  <1>5. SegInv'
    <2>1. ASSUME pc' = "root" PROVE seg'.i - 1 <= Len(Segs(seg.ino)')
      <3>1. Root \in DOMAIN fs'.inode /\ WellFormed(fs')
        <4>1. WellFormed(fs')
          BY DEF TreeInv
        <4> QED
          BY <4>1, TreeFacts
      <3>2. fs'.inode[Root].segs \in SegmentsOnDisk
        BY <3>1, TreeFacts
      <3>3. Len(fs'.inode[Root].segs) \in Nat
        BY <3>2, OnDisk
      <3> QED
        BY <2>1, <3>3, <1>4 DEF Segs
    <2> QED
      BY <2>1, <1>4 DEF SegInv
  <1>6. PathInv'
    <2>1. Len(stack') = 0 /\ stack' \in Seq(Spots') /\ MaxDepth \in Nat
      BY FsckFacts
    <2> QED
      BY <2>1 DEF PathInv
  <1>7. TopInv'
    BY DEF TopInv
  <1>8. InHand' = InHand
    <2>1. pc' # "root" => pc' \notin {"root", "segments"}
      OBVIOUS
    <2>2. pc' = "root" => InHand' = {}
      BY <1>4 DEF InHand
    <2>3. InHand = {}
      BY DEF InHand
    <2> QED
      BY <2>1, <2>2, <2>3 DEF InHand
  <1>9. MapInv(V)'
    BY <1>2, <1>8 DEF MapInv
  <1>10. VisitInv(V)'
    <2>1. PathsVisited(V, stack')
      BY <1>2, PathsOf
    <2>2. pc' \in {"open", "attribute", "root"} => V = {}
      BY <1>2 DEF VisitInv
    <2>3. pc' = "rootchecked" => V = {Root}
      BY <1>2 DEF VisitInv
    <2> QED
      BY <2>1, <2>2, <2>3, VisitFrom
  <1> QED
    BY <1>3, <1>5, <1>6, <1>7, <1>9, <1>10 DEF HealthInv

LEMMA FilesCheckedHealth ==
  ASSUME HealthInv, FilesChecked
  PROVE  HealthInv'
  <1>1. /\ pc = "walk" /\ stack = <<>> /\ pc' \in {"compare", "finish"}
        /\ UNCHANGED <<fs, first, fixing, stack, seg, map, hasError, fixed, stopFlag>>
    BY DEF FilesChecked
  <1>2. ControlInv /\ TreeInv /\ KeptInv
    BY DEF HealthInv
  <1>3. TreeInv' /\ KeptInv' /\ hasError' \in BOOLEAN /\ fixed' \in BOOLEAN /\ stopFlag' \in BOOLEAN
    BY <1>1, <1>2, SameFs DEF ControlInv
  <1> QED
    BY <1>1, <1>3, MovesOn

LEMMA FsckStartHealth ==
  ASSUME HealthInv, FsckStart
  PROVE  HealthInv'
  <1>1. /\ pc = "open" /\ pc' = "attribute"
        /\ UNCHANGED <<fs, first, fixing, stack, seg, map, hasError, fixed, stopFlag>>
    BY DEF FsckStart
  <1>2. ControlInv /\ TreeInv /\ KeptInv /\ stack = <<>>
    BY <1>1 DEF HealthInv, PathInv
  <1>3. TreeInv' /\ KeptInv' /\ hasError' \in BOOLEAN /\ fixed' \in BOOLEAN /\ stopFlag' \in BOOLEAN
    BY <1>1, <1>2, SameFs DEF ControlInv
  <1> QED
    BY <1>1, <1>2, <1>3, MovesOn

LEMMA CheckAttributeHealth ==
  ASSUME HealthInv, CheckAttribute
  PROVE  HealthInv'
  <1>1. /\ pc = "attribute" /\ pc' = "root" /\ seg' = [ino |-> Root, i |-> 1]
        /\ IF fs.area THEN Fine ELSE Fix([fs EXCEPT !.area = TRUE])
        /\ UNCHANGED <<first, fixing, stack, map, stopFlag>>
    BY DEF CheckAttribute
  <1>2. ControlInv /\ TreeInv /\ KeptInv /\ stack = <<>>
    BY <1>1 DEF HealthInv, PathInv
  <1>3. hasError' \in BOOLEAN /\ fixed' \in BOOLEAN /\ (fs' = fs \/ fs' = [fs EXCEPT !.area = TRUE])
    BY <1>1, <1>2, FixTypes, FineTypes
  <1>4. TreeInv' /\ KeptInv'
    <2>1. CASE fs' = fs
      BY <2>1, <1>1, <1>2, SameFs
    <2>2. CASE fs' = [fs EXCEPT !.area = TRUE]
      <3>1. WellFormed(fs') /\ fs'.inode = fs.inode /\ fs'.dir = fs.dir /\ fs'.badZones = fs.badZones
        BY <2>2, <1>2, AreaSet DEF TreeInv
      <3> QED
        BY <3>1, <1>1, <1>2, TreeSame
    <2> QED
      BY <2>1, <2>2, <1>3
  <1>5. stopFlag' \in BOOLEAN
    BY <1>1, <1>2 DEF ControlInv
  <1> QED
    BY <1>1, <1>2, <1>3, <1>4, <1>5, MovesOn

LEMMA CompareBitmapHealth ==
  ASSUME HealthInv, CompareBitmap
  PROVE  HealthInv'
  <1>1. /\ pc = "compare" /\ pc' = "finish"
        /\ UNCHANGED <<first, fixing, stack, seg, map, stopFlag>>
        /\ \/ Fine \/ NotFixed
           \/ fs' = [fs EXCEPT !.bits = [s \in Subs |-> Made(s)]] /\ UNCHANGED <<hasError, fixed>>
    BY DEF CompareBitmap
  <1>2. ControlInv /\ TreeInv /\ KeptInv /\ stack = <<>>
    BY <1>1 DEF HealthInv, PathInv
  <1>3. hasError' \in BOOLEAN /\ fixed' \in BOOLEAN /\ stopFlag' \in BOOLEAN
    BY <1>1, <1>2 DEF Fine, NotFixed, ControlInv
  <1>4. TreeInv' /\ KeptInv'
    <2>1. CASE fs' = fs
      BY <2>1, <1>1, <1>2, SameFs
    <2>2. CASE fs' = [fs EXCEPT !.bits = [s \in Subs |-> Made(s)]]
      <3>0. PICK C : C = [s \in Subs |-> Made(s)]
        OBVIOUS
      <3>1. C \in [Subs -> SUBSET Nat] /\ \A s \in Subs : C[s] \subseteq ZonesOf(s)
        <4>1. \A s \in Subs : Made(s) \subseteq ZonesOf(s) /\ ZonesOf(s) \subseteq Nat
          BY FsckFacts DEF Made, ZonesOf
        <4> QED
          BY <4>1, <3>0
      <3>2. FieldsOf(fs) /\ FieldsOK(fs)
        BY <1>2, WellFormedFields DEF TreeInv
      <3>3. FieldsOf(fs') /\ fs'.bits = C /\ \A y \in Fields \ {"bits"} : fs'[y] = fs[y]
        BY <3>0, <3>2, <2>2 DEF FieldsOf, Fields
      <3>4. /\ fs'.main = fs.main /\ fs'.backup = fs.backup /\ fs'.num = fs.num /\ fs'.area = fs.area
            /\ fs'.writeError = fs.writeError /\ fs'.errorsFixed = fs.errorsFixed /\ fs'.unreadable = fs.unreadable
            /\ fs'.badAttrs = fs.badAttrs /\ fs'.badZones = fs.badZones /\ fs'.stray = fs.stray
            /\ fs'.inode = fs.inode /\ fs'.dir = fs.dir
        BY <3>3 DEF Fields
      <3>5. WellFormed(fs')
        BY <3>1, <3>2, <3>3, <3>4, <1>2, FieldsChange DEF FieldsOK, TreeInv
      <3> QED
        BY <3>4, <3>5, <1>1, <1>2, TreeSame
    <2> QED
      BY <2>1, <2>2, <1>1 DEF Fine, NotFixed
  <1> QED
    BY <1>1, <1>2, <1>3, <1>4, MovesOn

LEMMA FinishHealth ==
  ASSUME HealthInv, Finish
  PROVE  HealthInv'
  <1>1. /\ pc = "finish" /\ pc' = "ended"
        /\ fs' = [fs EXCEPT !.writeError = @ /\ (hasError \/ stopFlag), !.errorsFixed = @ \/ fixed]
        /\ UNCHANGED <<first, fixing, stack, seg, map, hasError, fixed, stopFlag>>
    BY DEF Finish
  <1>2. ControlInv /\ TreeInv /\ KeptInv /\ stack = <<>>
    BY <1>1 DEF HealthInv, PathInv
  <1>3. FieldsOf(fs) /\ FieldsOK(fs)
    BY <1>2, WellFormedFields DEF TreeInv
  <1>4. PICK a, b : a = (fs.writeError /\ (hasError \/ stopFlag)) /\ b = (fs.errorsFixed \/ fixed)
    OBVIOUS
  <1>5. a \in BOOLEAN /\ b \in BOOLEAN
    BY <1>4
  <1>6. fs' = [fs EXCEPT !.writeError = a, !.errorsFixed = b]
    BY <1>1, <1>4
  <1>7. FieldsOf(fs') /\ fs'.writeError = a /\ fs'.errorsFixed = b
        /\ \A y \in Fields \ {"writeError", "errorsFixed"} : fs'[y] = fs[y]
    BY <1>3, <1>6 DEF FieldsOf, Fields
  <1>8. /\ fs'.main = fs.main /\ fs'.backup = fs.backup /\ fs'.num = fs.num /\ fs'.area = fs.area
        /\ fs'.unreadable = fs.unreadable /\ fs'.bits = fs.bits
        /\ fs'.badAttrs = fs.badAttrs /\ fs'.badZones = fs.badZones /\ fs'.stray = fs.stray
        /\ fs'.inode = fs.inode /\ fs'.dir = fs.dir
    BY <1>7 DEF Fields
  <1>9. WellFormed(fs')
    BY <1>2, <1>3, <1>5, <1>7, <1>8, FieldsChange DEF FieldsOK, TreeInv
  <1>10. TreeInv' /\ KeptInv'
    BY <1>1, <1>2, <1>8, <1>9, TreeSame
  <1>11. hasError' \in BOOLEAN /\ fixed' \in BOOLEAN /\ stopFlag' \in BOOLEAN
    BY <1>1, <1>2 DEF ControlInv
  <1> QED
    BY <1>1, <1>2, <1>10, <1>11, MovesOn

LEMMA StillVisited ==
  ASSUME NEW V, VisitInv(V), MapInv(V), UNCHANGED <<first, pc, stack, seg, map>>
  PROVE  VisitInv(V)' /\ MapInv(V)'
  <1>1. MapInv(V)'
    <2>1. InHand' = InHand
      BY DEF InHand
    <2> QED
      BY <2>1 DEF MapInv
  <1>2. PathsVisited(V, stack')
    BY PathsOf
  <1>3. Top' = Top
    BY DEF Top
  <1>4. VisitInv(V)'
    BY <1>2, <1>3, VisitFrom DEF VisitInv
  <1> QED
    BY <1>1, <1>4

LEMMA FsckStopHealth ==
  ASSUME HealthInv, FsckStop
  PROVE  HealthInv'
  <1>1. stopFlag' = TRUE /\ UNCHANGED <<fs, first, fixing, pc, stack, seg, map, hasError, fixed>>
    BY DEF FsckStop
  <1>2. ControlInv /\ TreeInv /\ PathInv /\ TopInv /\ SegInv /\ KeptInv
    BY DEF HealthInv
  <1>3. TreeInv' /\ KeptInv'
    BY <1>1, <1>2, SameFs
  <1>4. ControlInv' /\ PathInv' /\ TopInv' /\ SegInv'
    BY <1>1, <1>2 DEF ControlInv, Running, PathInv, TopInv, SegInv, Top, PlaceOK, Spots, Walked, Offsets,
                      Rest, This, Here, Sectors, Segs
  <1>5. PICK V : VisitInv(V) /\ MapInv(V)
    BY DEF HealthInv
  <1>6. VisitInv(V)' /\ MapInv(V)'
    BY <1>1, <1>5, StillVisited
  <1> QED
    BY <1>3, <1>4, <1>6 DEF HealthInv

\* What fsck has written to inodes and bitmaps is lost.
LEMMA Restored ==
  ASSUME TreeInv, first' = first, fs' = [fs EXCEPT !.inode = first.inode, !.bits = first.bits, !.stray = first.stray]
  PROVE  TreeInv' /\ KeptInv'
  <1>1. FieldsOf(fs) /\ FieldsOK(fs) /\ FieldsOK(first)
    BY WellFormedFields DEF TreeInv
  <1>2. /\ FieldsOf(fs') /\ fs'.inode = first.inode /\ fs'.bits = first.bits /\ fs'.stray = first.stray
        /\ \A y \in Fields \ {"inode", "bits", "stray"} : fs'[y] = fs[y]
    BY <1>1 DEF FieldsOf, Fields
  <1>3. /\ fs'.main = fs.main /\ fs'.backup = fs.backup /\ fs'.num = fs.num /\ fs'.area = fs.area
        /\ fs'.writeError = fs.writeError /\ fs'.errorsFixed = fs.errorsFixed
        /\ fs'.unreadable = fs.unreadable /\ fs'.badAttrs = fs.badAttrs /\ fs'.badZones = fs.badZones /\ fs'.dir = fs.dir
    BY <1>2 DEF Fields
  <1>4. /\ DOMAIN fs.inode = DOMAIN first.inode /\ DOMAIN fs.dir = DOMAIN first.dir /\ fs.badZones = first.badZones
    BY DEF TreeInv, Mended
  <1>5. TreeOK(fs'.inode, fs'.dir)
    <2>1. TreeOK(first.inode, first.dir) /\ TreeOK(fs.inode, fs.dir)
      BY <1>1 DEF FieldsOK
    <2>2. /\ fs.dir \in [DOMAIN fs.dir -> Seq(UNION {Range(fs.dir[d]) : d \in DOMAIN fs.dir})]
          /\ Root \in DOMAIN fs.dir
          /\ \A d \in DOMAIN fs.dir :
                /\ fs.dir[d] # <<>>
                /\ \A k \in DOMAIN fs.dir[d] : SectorOK(fs.dir[d][k], DOMAIN first.inode)
      BY <2>1, <1>4 DEF TreeOK
    <2>3. /\ first.inode \in [DOMAIN first.inode -> [mode : Types, segs : SegmentsOnDisk]]
          /\ DOMAIN fs.dir = {x \in DOMAIN first.inode : first.inode[x].mode = "dir"}
      BY <2>1, <1>4 DEF TreeOK
    <2> QED
      BY <2>2, <2>3, <1>2, <1>3 DEF TreeOK
  <1>6. FieldsOK(fs')
    BY <1>1, <1>2, <1>3, <1>4, <1>5 DEF FieldsOK
  <1>7. WellFormed(fs')
    BY <1>2, <1>6, WellFormedFields
  <1>8. Mended(first, fs')
    <2>1. Mended(first, first)
      BY MendedItself DEF TreeInv
    <2> QED
      BY <2>1, <1>2, <1>3, <1>4 DEF Mended, TreeInv
  <1> QED
    BY <1>2, <1>7, <1>8 DEF TreeInv, KeptInv

LEMMA FsckCloseHealth ==
  ASSUME HealthInv, FsckClose
  PROVE  HealthInv'
  <1>1. /\ pc \in {"ended", "gaveup"} /\ pc' = "closed" /\ seg' = [ino |-> Root, i |-> 1]
        /\ UNCHANGED <<first, fixing, stack, map, hasError, fixed, stopFlag>>
        /\ \/ fs' = fs
           \/ fs' = [fs EXCEPT !.inode = first.inode, !.bits = first.bits, !.stray = first.stray]
    BY DEF FsckClose
  <1>2. ControlInv /\ TreeInv /\ KeptInv /\ stack = <<>>
    BY <1>1 DEF HealthInv, PathInv
  <1>3. TreeInv' /\ KeptInv'
    BY <1>1, <1>2, SameFs, Restored
  <1>4. hasError' \in BOOLEAN /\ fixed' \in BOOLEAN /\ stopFlag' \in BOOLEAN
    BY <1>1, <1>2 DEF ControlInv
  <1> QED
    BY <1>1, <1>2, <1>3, <1>4, MovesOn

\* FsckOpen: the super block and the bitmaps are mended, and then it is "first".
LEMMA OpenedTree ==
  ASSUME WellFormed(fs),
         fs' = [fs EXCEPT !.main = TRUE, !.num = Min({fs.num, NumSubs}),
                          !.bits = [s \in Subs |-> fs.bits[s] \cup {z \in ZonesOf(s) : <<s, z>> \in fs.unreadable}],
                          !.unreadable = {}]
  PROVE  WellFormed(fs') /\ fs'.inode = fs.inode /\ fs'.dir = fs.dir
  <1>1. FieldsOf(fs) /\ FieldsOK(fs)
    BY WellFormedFields
  <1>2. PICK n, C : n = Min({fs.num, NumSubs})
                    /\ C = [s \in Subs |-> fs.bits[s] \cup {z \in ZonesOf(s) : <<s, z>> \in fs.unreadable}]
    OBVIOUS
  <1>3. n \in Nat
    <2>1. fs.num \in Nat /\ NumSubs \in Nat
      BY <1>1, FsckFacts DEF FieldsOK
    <2> QED
      BY <2>1, <1>2, MinOfTwo
  <1>4. C \in [Subs -> SUBSET Nat] /\ \A s \in Subs : C[s] \subseteq ZonesOf(s)
    <2>1. \A s \in Subs : fs.bits[s] \subseteq ZonesOf(s) /\ ZonesOf(s) \subseteq Nat
      BY <1>1, FsckFacts DEF FieldsOK, ZonesOf
    <2> QED
      BY <2>1, <1>2
  <1>5. fs' = [fs EXCEPT !.main = TRUE, !.num = n, !.bits = C, !.unreadable = {}]
    BY <1>2
  <1>6. /\ FieldsOf(fs') /\ fs'.main = TRUE /\ fs'.num = n /\ fs'.bits = C /\ fs'.unreadable = {}
        /\ \A y \in Fields \ {"main", "num", "bits", "unreadable"} : fs'[y] = fs[y]
    BY <1>1, <1>5 DEF FieldsOf, Fields
  <1>7. /\ fs'.backup = fs.backup /\ fs'.area = fs.area
        /\ fs'.writeError = fs.writeError /\ fs'.errorsFixed = fs.errorsFixed
        /\ fs'.badAttrs = fs.badAttrs /\ fs'.badZones = fs.badZones /\ fs'.stray = fs.stray
        /\ fs'.inode = fs.inode /\ fs'.dir = fs.dir
    BY <1>6 DEF Fields
  <1>8. WellFormed(fs')
    BY <1>1, <1>3, <1>4, <1>6, <1>7, FieldsChange DEF FieldsOK
  <1> QED
    BY <1>7, <1>8

\* Nothing is walked yet, and only what is reserved is in the bitmap.
LEMMA HealthBegins ==
  ASSUME WellFormed(fs'), first' = fs', pc' \in {"closed", "open"}, stack' = <<>>,
         seg' \in [ino : DOMAIN first'.inode, i : Nat \ {0}],
         map' \subseteq UNION {Global(s, Reserved[s]) : s \in Subs},
         hasError' \in BOOLEAN, fixed' \in BOOLEAN, stopFlag' \in BOOLEAN, fixing' \in BOOLEAN
  PROVE  HealthInv'
  <1>1. Mended(fs', fs')
    BY MendedItself
  <1>2. TreeInv' /\ KeptInv'
    BY <1>1 DEF TreeInv, KeptInv
  <1>3. ControlInv' /\ TopInv' /\ SegInv'
    BY DEF ControlInv, TopInv, SegInv
  <1>4. PathInv'
    <2>1. Len(stack') = 0 /\ stack' \in Seq(Spots') /\ MaxDepth \in Nat
      BY FsckFacts
    <2> QED
      BY <2>1 DEF PathInv
  <1>5. PICK V : V = {}
    OBVIOUS
  <1>6. VisitInv(V)'
    BY <1>5 DEF VisitInv
  <1>7. MapInv(V)'
    <2> SUFFICES ASSUME NEW g \in map'
                 PROVE  \E s \in Subs : \E z \in ZonesOf(s) : g = PlaceOf(s, z) /\ z \in Reserved[s]
      BY DEF MapInv, PlaceOf
    <2>1. PICK s \in Subs : g \in Global(s, Reserved[s])
      OBVIOUS
    <2>2. PICK z \in Reserved[s] : g = ZoneMap[s] + z
      BY <2>1 DEF Global
    <2>3. z \in ZonesOf(s)
      BY <2>2, FsckFacts
    <2> QED
      BY <2>2, <2>3 DEF PlaceOf
  <1> QED
    BY <1>2, <1>3, <1>4, <1>6, <1>7 DEF HealthInv

LEMMA FsckOpenHealth ==
  ASSUME HealthInv, FsckOpen
  PROVE  HealthInv'
  <1>1. /\ pc = "closed" /\ fixing' \in BOOLEAN /\ first' = fs' /\ pc' = "open"
        /\ map' = UNION {Global(s, Reserved[s]) : s \in Subs}
        /\ hasError' = FALSE /\ fixed' = FALSE /\ stopFlag' = FALSE /\ UNCHANGED <<stack, seg>>
        /\ fs' = [fs EXCEPT !.main = TRUE, !.num = Min({fs.num, NumSubs}),
                     !.bits = [s \in Subs |-> fs.bits[s] \cup {z \in ZonesOf(s) : <<s, z>> \in fs.unreadable}],
                     !.unreadable = {}]
    BY DEF FsckOpen
  <1>2. TreeInv /\ PathInv /\ SegInv
    BY DEF HealthInv
  <1>3. stack' = <<>>
    BY <1>1, <1>2 DEF PathInv
  <1>4. WellFormed(fs') /\ fs'.inode = fs.inode
    BY <1>1, <1>2, OpenedTree DEF TreeInv
  <1>5. seg' \in [ino : DOMAIN first'.inode, i : Nat \ {0}]
    BY <1>1, <1>2, <1>4 DEF SegInv, TreeInv, Mended
  <1> QED
    BY <1>1, <1>3, <1>4, <1>5, HealthBegins

LEMMA InitHealth ==
  ASSUME Init
  PROVE  HealthInv
  <1>1. WellFormed(fs) /\ first = fs
    BY FsckAssumption DEF Init
  <1>2. Mended(fs, fs)
    BY <1>1, MendedItself
  <1>3. TreeInv /\ KeptInv
    BY <1>1, <1>2 DEF TreeInv, KeptInv
  <1>4. pc = "closed" /\ stack = <<>> /\ seg = [ino |-> Root, i |-> 1] /\ map = {}
        /\ hasError = FALSE /\ fixed = FALSE /\ stopFlag = FALSE /\ fixing = FALSE
    BY DEF Init
  <1>5. Root \in DOMAIN first.inode
    BY <1>1, TreeFacts
  <1>6. ControlInv /\ TopInv /\ SegInv
    <2>1. seg \in [ino : DOMAIN first.inode, i : Nat \ {0}]
      BY <1>4, <1>5
    <2>2. ControlInv
      BY <1>4 DEF ControlInv
    <2>3. TopInv
      BY <1>4 DEF TopInv
    <2>4. SegInv
      BY <1>4, <2>1 DEF SegInv
    <2> QED
      BY <2>2, <2>3, <2>4
  <1>7. PathInv
    <2>1. Len(stack) = 0 /\ stack \in Seq(Spots) /\ MaxDepth \in Nat
      BY <1>4, FsckFacts
    <2> QED
      BY <2>1, <1>4 DEF PathInv
  <1>8. PICK V : V = {}
    OBVIOUS
  <1>9. VisitInv(V) /\ MapInv(V)
    BY <1>4, <1>8 DEF VisitInv, MapInv
  <1> QED
    BY <1>3, <1>6, <1>7, <1>9 DEF HealthInv

LEMMA FsckStep ==
  ASSUME HealthInv, TypeInv, [Next]_vars
  PROVE  HealthInv'
  <1>1. CASE FsckThread
    BY <1>1, CheckAttributeHealth, CheckSegmentHealth, CutBadSegmentHealth, LeaveUnmarkedHealth, CutOverlapHealth,
       SegmentsCheckedHealth, RootCheckedHealth, NextSectorHealth, LeaveDirectoryHealth, CheckAlignedHealth,
       CheckEnoughHealth, CheckEndHealth, NextEntryHealth, CheckDotsHealth, CheckFileHealth, FilesCheckedHealth,
       CompareBitmapHealth, FinishHealth DEF FsckThread
  <1>2. CASE UNCHANGED vars
    <2>1. UNCHANGED <<fs, first, fixing, pc, stack, seg, map, hasError, fixed, stopFlag>>
      BY <1>2 DEF vars
    <2>2. ControlInv /\ TreeInv /\ PathInv /\ TopInv /\ SegInv /\ KeptInv
      BY DEF HealthInv
    <2>3. TreeInv' /\ KeptInv'
      BY <2>1, <2>2, SameFs
    <2>4. ControlInv' /\ PathInv' /\ TopInv' /\ SegInv'
      BY <2>1, <2>2 DEF ControlInv, Running, PathInv, TopInv, SegInv, Top, PlaceOK, Spots, Walked, Offsets,
                        Rest, This, Here, Sectors, Segs
    <2>5. PICK V : VisitInv(V) /\ MapInv(V)
      BY DEF HealthInv
    <2>6. VisitInv(V)' /\ MapInv(V)'
      BY <2>1, <2>5, StillVisited
    <2> QED
      BY <2>3, <2>4, <2>6 DEF HealthInv
  <1> QED
    BY <1>1, <1>2, FsckOpenHealth, FsckStartHealth, FsckStopHealth, FsckCloseHealth DEF Next

-----------------------------------------------------------------------------
(* Entries are of the type of their inode, and a directory is walked from  *)
(* one that has it.                                                        *)

ParentInv  == \A n \in 1 .. Len(stack) : stack[n].parent \in UpOf(first, stack[n].dir)
EntriesInv == TypesAgree(first) /\ TypeInv /\ ParentInv

LEMMA MendedAgrees ==
  ASSUME NEW f, NEW g, WellFormed(f), Mended(f, g), TypesAgree(f)
  PROVE  TypesAgree(g)
  <1> SUFFICES ASSUME NEW d \in DOMAIN g.dir, NEW k \in 1 .. Len(g.dir[d]), NEW o \in DOMAIN g.dir[d][k],
                      g.dir[d][k][o].of # None, g.dir[d][k][o].name \notin Dots
               PROVE  g.dir[d][k][o].type = g.inode[g.dir[d][k][o].of].mode
    BY DEF TypesAgree
  <1>1. d \in DOMAIN f.dir /\ k \in 1 .. Len(f.dir[d]) /\ SectorMended(f.dir[d][k], g.dir[d][k])
    BY DEF Mended
  <1>2. o \in DOMAIN f.dir[d][k] /\ SectorOK(f.dir[d][k], DOMAIN f.inode)
    BY <1>1, TreeFacts DEF SectorMended
  <1>3. /\ g.dir[d][k][o].type = f.dir[d][k][o].type /\ g.dir[d][k][o].name = f.dir[d][k][o].name
        /\ g.dir[d][k][o].of = f.dir[d][k][o].of
    BY <1>1, <1>2 DEF SectorMended, Dotted
  <1>4. f.dir[d][k][o].of \in DOMAIN f.inode
    BY <1>2, <1>3, SectorFacts
  <1>5. f.dir[d][k][o].type = f.inode[f.dir[d][k][o].of].mode
    BY <1>1, <1>2, <1>3 DEF TypesAgree
  <1>6. g.inode[f.dir[d][k][o].of].mode = f.inode[f.dir[d][k][o].of].mode
    BY <1>4 DEF Mended
  <1> QED
    BY <1>3, <1>5, <1>6

\* What a step may do to the walk.
StackMoves ==
    \/ stack' = stack
    \/ stack # <<>> /\ stack' = Front(stack)
    \/ stack # <<>> /\ \E t : Turn(t) /\ t.dir = Top.dir /\ t.parent = Top.parent
    \/ pc = "segments" /\ stack' = Append(stack, Walk(seg.ino, Top.dir))
    \/ stack' = <<Walk(Root, Root)>>

LEMMA FrontFacts ==
  ASSUME NEW P, NEW s \in Seq(P), s # <<>>
  PROVE  /\ Front(s) \in Seq(P) /\ Len(Front(s)) = Len(s) - 1
         /\ \A n \in 1 .. Len(s) - 1 : Front(s)[n] = s[n]
  <1> DEFINE r == Front(s)
  <1>1. Len(s) \in Nat \ {0}
    OBVIOUS
  <1>2. r = SubSeq(s, 1, Len(s) - 1)
    BY DEF Front
  <1> HIDE DEF r
  <1>3. r = [n \in 1 .. Len(s) - 1 |-> s[n]]
    BY <1>1, <1>2
  <1>4. \A n \in 1 .. Len(s) - 1 : s[n] \in P
    BY <1>1
  <1>5. r \in [1 .. Len(s) - 1 -> P] /\ Len(s) - 1 \in Nat
    BY <1>1, <1>3, <1>4
  <1>6. r \in Seq(P) /\ Len(r) = Len(s) - 1
    BY <1>5
  <1> QED
    BY <1>3, <1>6 DEF r

LEMMA ParentKept ==
  ASSUME HealthInv, ParentInv, first' = first, StackMoves
  PROVE  ParentInv'
  <1>1. TreeInv /\ PathInv /\ stack \in Seq(Spots) /\ Len(stack) \in Nat
    BY DEF HealthInv, PathInv
  <1>2. CASE stack' = stack
    BY <1>2 DEF ParentInv
  <1>3. CASE stack # <<>> /\ stack' = Front(stack)
    <2>1. Len(stack') = Len(stack) - 1 /\ \A n \in 1 .. Len(stack) - 1 : stack'[n] = stack[n]
      BY <1>1, <1>3, FrontFacts
    <2>2. \A n \in 1 .. Len(stack) - 1 : n \in 1 .. Len(stack)
      BY <1>1
    <2> QED
      BY <2>1, <2>2 DEF ParentInv
  <1>4. CASE stack # <<>> /\ \E t : Turn(t) /\ t.dir = Top.dir /\ t.parent = Top.parent
    <2>1. PICK t : Turn(t) /\ t.dir = Top.dir /\ t.parent = Top.parent
      BY <1>4
    <2>2. Len(stack) \in 1 .. Len(stack) /\ Top = stack[Len(stack)]
      BY <1>1, <1>4, TopFacts
    <2>3. stack' = [stack EXCEPT ![Len(stack)] = t]
      BY <2>1 DEF Turn
    <2>4. Len(stack') = Len(stack) /\ stack'[Len(stack)] = t /\ \A n \in 1 .. Len(stack) : n # Len(stack) => stack'[n] = stack[n]
      BY <1>1, <2>2, <2>3
    <2>5. \A n \in 1 .. Len(stack) : stack'[n].dir = stack[n].dir /\ stack'[n].parent = stack[n].parent
      BY <2>1, <2>2, <2>4
    <2> QED
      BY <2>4, <2>5 DEF ParentInv
  <1>5. CASE pc = "segments" /\ stack' = Append(stack, Walk(seg.ino, Top.dir))
    <2>1. PICK w : w = Walk(seg.ino, Top.dir)
      OBVIOUS
    <2>2. w.dir = seg.ino /\ w.parent = Top.dir
      BY <2>1 DEF Walk
    <2>3. Len(stack') = Len(stack) + 1 /\ stack'[Len(stack) + 1] = w /\ \A n \in 1 .. Len(stack) : stack'[n] = stack[n]
      BY <2>1, <1>1, <1>5
    <2>4. Top.dir \in UpOf(first, seg.ino)
      <3>1. PICK V : VisitInv(V)
        BY DEF HealthInv
      <3>2. PICK e : MetAt(seg.ino, e) /\ e[1] = Top.dir
        BY <3>1, <1>5 DEF VisitInv
      <3>3. e \in Names(first) /\ Named(first, e) = seg.ino
        BY <3>2 DEF MetAt
      <3>4. e[1] \in DOMAIN first.dir /\ e \in Naming(first, e[1])
        BY <3>3, <1>1, ReachedFacts DEF TreeInv
      <3> QED
        BY <3>2, <3>3, <3>4 DEF UpOf, Children
    <2>5. ASSUME NEW n \in 1 .. Len(stack') PROVE stack'[n].parent \in UpOf(first, stack'[n].dir)
      <3>1. n \in 1 .. Len(stack) \/ n = Len(stack) + 1
        BY <1>1, <2>3
      <3> QED
        BY <3>1, <2>2, <2>3, <2>4 DEF ParentInv
    <2> QED
      BY <2>5 DEF ParentInv
  <1>6. CASE stack' = <<Walk(Root, Root)>>
    <2>1. Walk(Root, Root).dir = Root /\ Walk(Root, Root).parent = Root
      BY DEF Walk
    <2>2. Len(stack') = 1 /\ stack'[1] = Walk(Root, Root)
      BY <1>6
    <2>3. Root \in UpOf(first, Root)
      BY DEF UpOf
    <2> QED
      BY <2>1, <2>2, <2>3 DEF ParentInv
  <1> QED
    BY <1>2, <1>3, <1>4, <1>5, <1>6 DEF StackMoves

LEMMA ThreadMoves ==
  ASSUME HealthInv, TypeInv, FsckThread
  PROVE  /\ first' = first /\ StackMoves
         /\ pc' = "segments" /\ ~CheckFile =>
               pc = "segments" /\ stack' = stack /\ seg'.ino = seg.ino /\ fs'.dir = fs.dir
  <1>1. TreeInv /\ PathInv /\ SegInv
    BY DEF HealthInv
  <1>2. ASSUME pc = "walk" /\ stack # <<>> PROVE Top \in Spots
    BY <1>1, <1>2, TopFacts DEF PlaceOK
  <1>3. CASE CheckAligned \/ CheckEnough \/ CheckEnd \/ NextEntry \/ CheckDots
    <2>1. stack # <<>> /\ first' = first /\ pc = "walk" /\ pc' = pc
      BY <1>3 DEF CheckAligned, CheckEnough, CheckEnd, NextEntry, CheckDots, Walking
    <2>2. \E a, n, o : Turn([Top EXCEPT !.at = a]) \/ Turn([Top EXCEPT !.at = a, !.size = n]) \/ Turn([Top EXCEPT !.off = o, !.at = a])
      BY <1>3 DEF CheckAligned, CheckEnough, CheckEnd, NextEntry, CheckDots
    <2>3. \A a, n, o : /\ [Top EXCEPT !.at = a].dir = Top.dir /\ [Top EXCEPT !.at = a].parent = Top.parent
                       /\ [Top EXCEPT !.at = a, !.size = n].dir = Top.dir /\ [Top EXCEPT !.at = a, !.size = n].parent = Top.parent
                       /\ [Top EXCEPT !.off = o, !.at = a].dir = Top.dir /\ [Top EXCEPT !.off = o, !.at = a].parent = Top.parent
      BY <1>2, <2>1 DEF Spots
    <2>4. \E t : Turn(t) /\ t.dir = Top.dir /\ t.parent = Top.parent
      <3>1. PICK a, n, o : Turn([Top EXCEPT !.at = a]) \/ Turn([Top EXCEPT !.at = a, !.size = n]) \/ Turn([Top EXCEPT !.off = o, !.at = a])
        BY <2>2
      <3>2. PICK t, u, v : t = [Top EXCEPT !.at = a] /\ u = [Top EXCEPT !.at = a, !.size = n] /\ v = [Top EXCEPT !.off = o, !.at = a]
        OBVIOUS
      <3>3. /\ t.dir = Top.dir /\ t.parent = Top.parent /\ u.dir = Top.dir /\ u.parent = Top.parent
            /\ v.dir = Top.dir /\ v.parent = Top.parent
        BY <3>2, <2>3
      <3>4. Turn(t) \/ Turn(u) \/ Turn(v)
        BY <3>1, <3>2
      <3> QED
        BY <3>3, <3>4
    <2>5. StackMoves
      BY <2>1, <2>4 DEF StackMoves
    <2> QED
      BY <2>1, <2>5
  <1>4. CASE CheckFile
    <2>1. stack # <<>> /\ first' = first /\ pc = "walk" /\ Turn([Top EXCEPT !.at = "next"])
      BY <1>4 DEF CheckFile, Walking
    <2>2. [Top EXCEPT !.at = "next"].dir = Top.dir /\ [Top EXCEPT !.at = "next"].parent = Top.parent
      BY <1>2, <2>1 DEF Spots
    <2> QED
      BY <2>1, <2>2, <1>4 DEF StackMoves
  <1>5. ASSUME NEW good, Return(good), first' = first, pc \in {"root", "segments"}
        PROVE  first' = first /\ StackMoves /\ pc' # "segments"
    BY <1>5 DEF Return, StackMoves
  <1>6. CASE CutBadSegment \/ LeaveUnmarked \/ CutOverlap \/ SegmentsChecked
    BY <1>6, <1>5 DEF CutBadSegment, LeaveUnmarked, CutOverlap, SegmentsChecked, AtSegment
  <1>7. CASE CheckSegment
    <2>1. AtSegment /\ first' = first /\ pc \in {"root", "segments"}
      BY <1>7 DEF CheckSegment, AtSegment
    <2>2. CASE stopFlag
      BY <2>1, <2>2, <1>5, <1>7 DEF CheckSegment
    <2>3. CASE ~stopFlag
      <3>1. seg' = [seg EXCEPT !.i = @ + 1] /\ UNCHANGED <<pc, stack>>
        BY <2>3, <1>7 DEF CheckSegment
      <3>2. seg'.ino = seg.ino
        BY <3>1, <1>1 DEF SegInv
      <3>3. fs'.dir = fs.dir
        <4>1. fs' = fs \/ fs' = WithMarks(Bi)
          BY <1>7 DEF CheckSegment, Fine, Fix, Fixed, NotFixed
        <4>2. Bi \in [sub : Nat, num : Nat, cnt : Nat] /\ ~BadZone(Bi)
          BY <2>1, <1>1, <1>7, SegmentAt DEF CheckSegment, Sound
        <4> QED
          BY <4>1, <4>2, <1>1, MarksSet DEF TreeInv
      <3> QED
        BY <2>1, <3>1, <3>2, <3>3 DEF StackMoves
    <2> QED
      BY <2>2, <2>3
  <1>8. CASE NextSector
    <2>1. /\ stack # <<>> /\ first' = first /\ pc = "walk" /\ pc' = pc
          /\ Turn([Walk(Top.dir, Top.parent) EXCEPT !.k = Top.k + 1]) \/ stack' = Front(stack)
      BY <1>8 DEF NextSector
    <2>2. PICK t : t = [Walk(Top.dir, Top.parent) EXCEPT !.k = Top.k + 1]
      OBVIOUS
    <2>3. t.dir = Top.dir /\ t.parent = Top.parent
      BY <2>2 DEF Walk
    <2> QED
      BY <2>1, <2>2, <2>3 DEF StackMoves
  <1>9. CASE LeaveDirectory \/ RootChecked \/ CheckAttribute \/ FilesChecked \/ CompareBitmap \/ Finish
    BY <1>9 DEF LeaveDirectory, RootChecked, CheckAttribute, FilesChecked, CompareBitmap, Finish, StackMoves
  <1> QED
    BY <1>3, <1>4, <1>6, <1>7, <1>8, <1>9 DEF FsckThread

LEMMA EntriesStep ==
  ASSUME HealthInv, EntriesInv, HealthInv', [Next]_vars
  PROVE  EntriesInv'
  <1>0. TypesAgree(first) /\ TypeInv /\ ParentInv /\ TreeInv /\ TreeInv' /\ PathInv
    BY DEF EntriesInv, HealthInv
  <1>1. ASSUME stack' = stack, seg'.ino = seg.ino, fs'.dir = fs.dir, first' = first, pc' = "segments" => pc = "segments"
        PROVE  TypeInv'
    <2> SUFFICES ASSUME pc' = "segments" PROVE This'.type = fs'.inode[seg'.ino].mode
      BY DEF TypeInv
    <2>1. This' = This /\ This.type = fs.inode[seg.ino].mode
      BY <1>0, <1>1 DEF TypeInv, This, Here, Sectors, Top
    <2>2. seg.ino \in DOMAIN first.inode
      BY DEF HealthInv, SegInv
    <2>3. fs'.inode[seg.ino].mode = fs.inode[seg.ino].mode
      BY <2>2, <1>0, <1>1 DEF TreeInv, Mended
    <2> QED
      BY <2>1, <2>3, <1>1
  <1>2. CASE FsckThread
    <2>1. first' = first /\ StackMoves
      BY <1>0, <1>2, ThreadMoves
    <2>2. ParentInv'
      BY <2>1, <1>0, ParentKept
    <2>3. CASE pc' # "segments"
      BY <2>1, <2>2, <2>3, <1>0 DEF EntriesInv, TypeInv
    <2>4. CASE pc' = "segments" /\ ~CheckFile
      <3>1. pc = "segments" /\ stack' = stack /\ seg'.ino = seg.ino /\ fs'.dir = fs.dir
        BY <2>4, <1>0, <1>2, ThreadMoves
      <3>2. TypeInv'
        BY <3>1, <2>1, <1>1
      <3> QED
        BY <3>2, <2>1, <2>2, <1>0 DEF EntriesInv
    <2>5. CASE pc' = "segments" /\ CheckFile
      <3> DEFINE x == This.of
      <3>1. /\ Walking("file") /\ x # None /\ This.name \notin Dots /\ Turn([Top EXCEPT !.at = "next"])
            /\ seg' = [ino |-> x, i |-> 1] /\ (fs' = fs \/ fs' = [fs EXCEPT !.badAttrs = @ \ {x}])
        BY <2>5 DEF CheckFile, Walking, Fine, Fix, Fixed, NotFixed
      <3>2. /\ stack # <<>> /\ Top.off # Sector /\ Top.off \in DOMAIN Here /\ This = Here[Top.off] /\ Top \in Spots
        BY <3>1, WalkingFacts
      <3>3. fs'.dir = fs.dir
        BY <3>1, <2>1, <1>0, AttrsSet DEF HealthInv
      <3>4. Top'.dir = Top.dir /\ Top'.k = Top.k /\ Top'.off = Top.off
        <4>1. stack \in Seq(Spots) /\ Len(stack) \in Nat \ {0}
          BY <3>2, <1>0, TopFacts DEF PathInv
        <4>2. PICK t : t = [Top EXCEPT !.at = "next"]
          OBVIOUS
        <4>3. stack' = [stack EXCEPT ![Len(stack)] = t]
          BY <4>2, <3>1 DEF Turn
        <4>4. Top' = t
          BY <4>1, <4>3 DEF Top, Last
        <4> QED
          BY <4>2, <4>4, <3>2 DEF Spots
      <3>5. This' = This
        BY <3>3, <3>4 DEF This, Here, Sectors
      <3>6. This.type = fs.inode[x].mode
        <4>1. TypesAgree(fs)
          BY <1>0, MendedAgrees DEF TreeInv
        <4>2. Top.dir \in DOMAIN fs.dir /\ Top.k \in 1 .. Len(fs.dir[Top.dir])
          BY <3>2, <1>0, TopFacts DEF Sectors
        <4> QED
          BY <4>1, <4>2, <3>1, <3>2 DEF TypesAgree, This, Here, Sectors
      <3>7. fs'.inode[x].mode = fs.inode[x].mode
        <4>1. x \in DOMAIN first.inode
          BY <3>1, <3>2, <1>0, EntryNames
        <4> QED
          BY <4>1, <2>1, <1>0 DEF TreeInv, Mended
      <3>8. TypeInv'
        BY <3>1, <3>5, <3>6, <3>7 DEF TypeInv
      <3> QED
        BY <3>8, <2>1, <2>2, <1>0 DEF EntriesInv
    <2> QED
      BY <2>3, <2>4, <2>5
  <1>3. CASE FsckOpen
    <2>1. pc = "closed" /\ pc' = "open" /\ first' = fs' /\ stack' = stack /\ stack = <<>>
      BY <1>0, <1>3 DEF FsckOpen, PathInv
    <2>2. fs'.inode = fs.inode /\ fs'.dir = fs.dir
      <3>1. fs' = [fs EXCEPT !.main = TRUE, !.num = Min({fs.num, NumSubs}),
                            !.bits = [s \in Subs |-> fs.bits[s] \cup {z \in ZonesOf(s) : <<s, z>> \in fs.unreadable}],
                            !.unreadable = {}]
        BY <1>3 DEF FsckOpen
      <3> QED
        BY <3>1, <1>0, OpenedTree DEF TreeInv
    <2>3. TypesAgree(first')
      <3>1. TypesAgree(fs)
        BY <1>0, MendedAgrees DEF TreeInv
      <3> QED
        BY <3>1, <2>1, <2>2 DEF TypesAgree
    <2> QED
      BY <2>1, <2>3 DEF EntriesInv, TypeInv, ParentInv
  <1>4. CASE FsckStart \/ FsckStop \/ UNCHANGED vars
    <2>1. UNCHANGED <<first, stack, seg, fs>> /\ (pc' = "segments" => pc = "segments")
      BY <1>4 DEF FsckStart, FsckStop, vars
    <2>2. TypeInv'
      BY <2>1, <1>1
    <2> QED
      BY <2>1, <2>2, <1>0 DEF EntriesInv, ParentInv
  <1>5. CASE FsckClose
    BY <1>5, <1>0 DEF FsckClose, EntriesInv, TypeInv, ParentInv
  <1> QED
    BY <1>2, <1>3, <1>4, <1>5 DEF Next

\* The walk of fsckCheckFiles stays in the tree, every zone in the bitmap it makes has
\* a source, and an inode that is not tangled is checked once.
THEOREM FsckInvariant == Spec => [](HealthInv /\ EntriesInv)
  <1>1. Init => HealthInv /\ EntriesInv
    <2>1. Init => EntriesInv
      BY FsckAssumption DEF Init, EntriesInv, TypeInv, ParentInv
    <2> QED
      BY <2>1, InitHealth
  <1>2. (HealthInv /\ EntriesInv) /\ [Next]_vars => (HealthInv /\ EntriesInv)'
    BY FsckStep, EntriesStep DEF EntriesInv
  <1> QED
    BY <1>1, <1>2, PTL DEF Spec

\* What the walk has, and the bitmap, is of the right type.
LEMMA HealthTypes ==
  ASSUME HealthInv
  PROVE  TypeOK
  <1>1. ControlInv /\ TreeInv /\ PathInv
    BY DEF HealthInv
  <1>2. map \subseteq 0 .. ZoneMap[NumSubs + 1] - 1
    <2>1. PICK V : MapInv(V)
      BY DEF HealthInv
    <2>2. \A g \in map : \E s \in Subs : \E z \in ZonesOf(s) : g = PlaceOf(s, z)
      BY <2>1 DEF MapInv
    <2>3. \A s \in Subs : \A z \in ZonesOf(s) : PlaceOf(s, z) \in 0 .. ZoneMap[NumSubs + 1] - 1
      BY PlaceInMap
    <2> QED
      BY <2>2, <2>3
  <1>3. \A s \in Subs : fs.bits[s] \subseteq ZonesOf(s)
    BY <1>1 DEF TreeInv, WellFormed
  <1>4. ASSUME NEW n \in 1 .. Len(stack)
        PROVE  /\ stack[n].dir \in DOMAIN fs.dir /\ stack[n].k \in 1 .. Len(fs.dir[stack[n].dir])
               /\ stack[n].off \in DOMAIN fs.dir[stack[n].dir][stack[n].k] \cup {Sector}
    <2> DEFINE t == stack[n]
    <2>1. PlaceOK(t)
      BY <1>1 DEF PathInv
    <2>2. t.dir \in DOMAIN first.dir /\ t.k \in 1 .. Len(first.dir[t.dir])
          /\ t.off \in Parsed(first.dir[t.dir][t.k]) \cup {Sector}
      BY <2>1 DEF PlaceOK, Spots, Walked, Offsets
    <2>3. /\ DOMAIN fs.dir = DOMAIN first.dir /\ Len(fs.dir[t.dir]) = Len(first.dir[t.dir])
          /\ SectorMended(first.dir[t.dir][t.k], fs.dir[t.dir][t.k])
      BY <1>1, <2>2 DEF TreeInv, Mended
    <2>4. DOMAIN fs.dir[t.dir][t.k] = DOMAIN first.dir[t.dir][t.k]
      BY <2>3 DEF SectorMended
    <2> QED
      BY <2>2, <2>3, <2>4, ParsedFacts
  <1> QED
    BY <1>1, <1>2, <1>3, <1>4 DEF TypeOK, ControlInv, PathInv

\* No inode loses segments unless its zones are outside the volume, unreadable or
\* somebody else's, or the tree leads to it twice (fsckCheckDentryInode).
THEOREM FsckHealthyKept == Spec => []HealthyKept
  <1>1. HealthInv => HealthyKept
    BY HealthTypes DEF HealthInv, KeptInv, Excused, HealthyKept
  <1> QED
    BY <1>1, FsckInvariant, PTL

-----------------------------------------------------------------------------
(* The invariant of ClearedMeansSound and DirectoriesMended: what was walked *)
(* is done, and what was checked is in the bitmap, unless an error was left. *)

Clean == ~hasError /\ ~stopFlag /\ ~Skipping(first)

\* The inode of an entry is known, and the entry is as a check of "f0" leaves it.
EntryTidy(f0, d, e) == e.len % Align = 0 /\ e.len >= e.need /\ (e.of # None => LeadsRight(f0, d, e))
EntryDone(f0, K, d, e) ==
    /\ e.of \in K \cup {None} \/ Dotted(e)
    /\ EntryTidy(f0, d, e)
WalkedTo(f0, K, d, sec, n) ==
    /\ \A o \in Parsed(sec) : o < n => EntryDone(f0, K, d, sec[o])
    /\ n \in Parsed(sec) \/ (n = Sector /\ (Fits(sec) => Closed(sec)))

\* The last walk of each directory has done what is before it.
DirDone(f0, K, f, d) == \A k \in 1 .. Len(f.dir[d]) : WalkedTo(f0, K, d, f.dir[d][k], Sector)
Ahead(t) == IF t.at = "next" THEN t.off + t.size ELSE t.off
DoneUpTo(f0, K, f, t) ==
    /\ \A k \in 1 .. t.k - 1 : WalkedTo(f0, K, t.dir, f.dir[t.dir][k], Sector)
    /\ WalkedTo(f0, K, t.dir, f.dir[t.dir][t.k], Ahead(t))
DirsDone(f0, K, W, f, path) ==
    \A d \in W \cap DOMAIN f.dir :
        \/ DirDone(f0, K, f, d)
        \/ \E n \in 1 .. Len(path) :
              /\ path[n].dir = d /\ \A m \in n + 1 .. Len(path) : path[m].dir # d
              /\ DoneUpTo(f0, K, f, path[n])

Known(W) == W \cup IF pc = "segments" THEN {seg.ino} ELSE {}
WalkInv(W) ==
    /\ W \subseteq DOMAIN fs.inode
    /\ pc \in {"open", "attribute", "root"} => W = {}
    /\ pc = "rootchecked" => W = {Root}
    /\ pc \in {"walk", "segments", "compare"} =>
          Root \in W /\ DirsDone(first, Known(W), W, fs, stack)

\* The segments that were checked and stay are in the bitmap, one beside the other.
Zoned(W, x, i) ==
    \/ x \in W /\ i \in 1 .. Len(Segs(x))
    \/ pc \in {"root", "segments"} /\ x = seg.ino /\ i \in 1 .. seg.i - 1
ZonesInv(W) ==
    /\ \A s \in Subs : \A z \in Reserved[s] : PlaceOf(s, z) \in map
    /\ \A x \in DOMAIN fs.inode : \A i \in Nat : Zoned(W, x, i) =>
          /\ ~BadZone(Segs(x)[i])
          /\ \A z \in Zones(Segs(x)[i]) :
                z \notin Reserved[Segs(x)[i].sub] /\ PlaceOf(Segs(x)[i].sub, z) \in map
    /\ \A x, y \in DOMAIN fs.inode : \A i, j \in Nat :
          Zoned(W, x, i) /\ Zoned(W, y, j) /\ (x # y \/ i # j) => Covers(Segs(x)[i]) \cap Covers(Segs(y)[j]) = {}

SizeInv ==
    pc = "walk" /\ stack # <<>> /\ Top.at \in {"enough", "ends", "file"} =>
        /\ Top.size = This.len /\ This.len % Align = 0
        /\ Top.at # "enough" => This.len >= This.need
FitsInv == \A d \in DOMAIN first.dir : \A k \in 1 .. Len(fs.dir[d]) : Fits(first.dir[d][k]) => Fits(fs.dir[d][k])

DirsTidy(f0, f) ==
    \A d \in Reached(f) \cap DOMAIN f.dir : \A k \in 1 .. Len(f.dir[d]) :
        /\ \A o \in Parsed(f.dir[d][k]) : EntryTidy(f0, d, f.dir[d][k][o])
        /\ Fits(f0.dir[d][k]) => Closed(f.dir[d][k])

Checking == pc \in {"open", "attribute", "root", "rootchecked", "walk", "segments", "compare"}
CheckInv == Checking /\ Clean => SizeInv /\ FitsInv /\ \E W : WalkInv(W) /\ ZonesInv(W)
ResultInv ==
    /\ pc \notin {"ended", "closed"} => fs.writeError = first.writeError
    /\ pc = "finish" /\ Clean => FilesSound
    /\ pc \in {"finish", "ended"} /\ Clean => DirsTidy(first, fs)
    /\ pc \in {"ended", "closed"} /\ first.writeError /\ ~fs.writeError /\ ~Skipping(first) => FilesSound
SoundInv == CheckInv /\ ResultInv

-----------------------------------------------------------------------------
(* One entry of a sector after the other.                                  *)

\* Nothing is parsed inside an entry.
LEMMA ParsedChain ==
  ASSUME NEW sec, NEW inodes, SectorOK(sec, inodes), NEW x \in Parsed(sec), NEW y \in Parsed(sec), x < y
  PROVE  x + sec[x].len <= y
  <1> DEFINE Apart(p) == \A q \in Parsed(sec) : p < q => p + sec[p].len <= q
  <1> DEFINE S == {k \in Nat : \A p \in Parsed(sec) : p <= k => Apart(p)}
  <1>1. Parsed(sec) \subseteq DOMAIN sec /\ 0 \in Parsed(sec) /\ \A o \in DOMAIN sec : o \in Nat /\ sec[o].len \in Nat
    BY SectorFacts
  <1>2. ASSUME NEW p \in Parsed(sec), \A r \in Parsed(sec) : r < p => Apart(r)
        PROVE  Apart(p)
    <2> DEFINE T == {z \in DOMAIN sec : z \in Parsed(sec) /\ (z <= p \/ z >= p + sec[p].len)}
    <2>1. 0 \in T
      BY <1>1
    <2>2. ASSUME NEW z \in T, z + sec[z].len \in DOMAIN sec
          PROVE  z + sec[z].len \in T
      <3>1. z \in Parsed(sec) /\ z \in Nat /\ p \in Nat /\ sec[z].len \in Nat /\ sec[p].len \in Nat
        BY <1>1
      <3>2. z + sec[z].len \in Parsed(sec)
        BY <3>1, <2>2, ParsedFacts
      <3>3. CASE z >= p + sec[p].len
        BY <3>1, <3>2, <3>3, <2>2
      <3>4. CASE z = p
        BY <3>1, <3>2, <3>4, <2>2
      <3>5. CASE z < p
        <4>1. z + sec[z].len <= p
          BY <3>1, <3>5, <1>2
        <4> QED
          BY <4>1, <3>1, <3>2, <2>2
      <3> QED
        BY <3>1, <3>3, <3>4, <3>5
    <2>3. T \in SUBSET DOMAIN sec /\ Follows(sec, T)
      BY <2>2 DEF Follows
    <2> HIDE DEF T
    <2>4. Parsed(sec) \subseteq T
      BY <2>1, <2>3, ParsedLeast
    <2>5. \A q \in Parsed(sec) : q <= p \/ q >= p + sec[p].len
      BY <2>4 DEF T
    <2>6. \A q \in Parsed(sec) : q \in Nat /\ p \in Nat /\ sec[p].len \in Nat
      BY <1>1
    <2> QED
      BY <2>5, <2>6
  <1> HIDE DEF Apart
  <1>3. 0 \in S
    BY <1>1, <1>2
  <1>4. ASSUME NEW k \in Nat, k \in S PROVE k + 1 \in S
    <2>1. \A p \in Parsed(sec) : p <= k + 1 => Apart(p)
      <3> TAKE p \in Parsed(sec)
      <3> HAVE p <= k + 1
      <3>1. \A r \in Parsed(sec) : r < p => r <= k
        BY <1>1
      <3>2. \A r \in Parsed(sec) : r < p => Apart(r)
        BY <3>1, <1>4
      <3> QED
        BY <3>2, <1>2
    <2> QED
      BY <2>1
  <1> HIDE DEF S
  <1>5. Nat \subseteq S
    BY <1>3, <1>4, Induction
  <1>6. x \in S /\ x \in Nat
    BY <1>5, <1>1
  <1>7. Apart(x)
    BY <1>6 DEF S
  <1> QED
    BY <1>7 DEF Apart

\* A mend of what is not parsed, or not of a length, leaves the others parsed.
LEMMA ParsedStays ==
  ASSUME NEW sec, NEW new, DOMAIN new = DOMAIN sec, 0 \in DOMAIN sec,
         \A o \in Parsed(sec) : new[o].len = sec[o].len
  PROVE  Parsed(sec) \subseteq Parsed(new)
  <1> SUFFICES ASSUME NEW S \in SUBSET DOMAIN new, 0 \in S, Follows(new, S)
               PROVE  Parsed(sec) \subseteq S
    BY ParsedFacts DEF Parsed
  <1> DEFINE T == S \cap Parsed(sec)
  <1>1. 0 \in T /\ T \in SUBSET DOMAIN sec
    BY ParsedFacts
  <1>2. ASSUME NEW o \in T, o + sec[o].len \in DOMAIN sec PROVE o + sec[o].len \in T
    <2>1. o + sec[o].len \in Parsed(sec)
      BY <1>2, ParsedFacts
    <2>2. new[o].len = sec[o].len
      OBVIOUS
    <2>3. o + new[o].len \in S
      BY <1>2, <2>2 DEF Follows
    <2> QED
      BY <2>1, <2>2, <2>3
  <1>3. Follows(sec, T)
    BY <1>2 DEF Follows
  <1> HIDE DEF T
  <1>4. Parsed(sec) \subseteq T
    BY <1>1, <1>3, ParsedLeast
  <1> QED
    BY <1>4 DEF T

\* The entries before one do not depend on its length.
LEMMA PlaceStays ==
  ASSUME NEW sec, NEW off \in Parsed(sec), NEW n, NEW new, new = [sec EXCEPT ![off].len = n]
  PROVE  off \in Parsed(new)
  <1>0. off \in DOMAIN sec /\ DOMAIN new = DOMAIN sec /\ \A o \in DOMAIN sec : o # off => new[o] = sec[o]
    BY ParsedFacts
  <1> SUFFICES ASSUME NEW S \in SUBSET DOMAIN new, 0 \in S, Follows(new, S), off \notin S
               PROVE  FALSE
    BY <1>0 DEF Parsed
  <1>1. Follows(sec, S)
    BY <1>0 DEF Follows
  <1>2. Parsed(sec) \subseteq S
    BY <1>0, <1>1, ParsedLeast
  <1> QED
    BY <1>2

LEMMA DoneGrows ==
  ASSUME NEW f0, NEW K, NEW L, K \subseteq L, NEW d, NEW sec, NEW n, WalkedTo(f0, K, d, sec, n)
  PROVE  WalkedTo(f0, L, d, sec, n)
  BY DEF WalkedTo, EntryDone

\* A mend of an entry that was done changes only where a dot leads.
LEMMA DoneStays ==
  ASSUME NEW f0, NEW K, NEW d, NEW sec, NEW n, WalkedTo(f0, K, d, sec, n),
         NEW new, NEW inodes, SectorOK(sec, inodes), OneMend(sec, new, inodes),
         n \in Parsed(sec) => n \in Parsed(new),
         \A o \in Parsed(sec) :
            /\ new[o].len = sec[o].len /\ new[o].need = sec[o].need
            /\ new[o].of = sec[o].of \/ new[o].of = None \/ LeadsRight(f0, d, new[o])
  PROVE  WalkedTo(f0, K, d, new, n)
  <1>1. /\ DOMAIN new = DOMAIN sec /\ 0 \in DOMAIN sec /\ Parsed(new) \subseteq Parsed(sec)
        /\ Parsed(sec) \subseteq DOMAIN sec
    BY MendKeeps, SectorFacts DEF OneMend
  <1>2. \A o \in DOMAIN sec : new[o].name = sec[o].name /\ (new[o].of \in {sec[o].of, None} \/ Dotted(sec[o]))
    BY DEF OneMend
  <1>3. ASSUME NEW o \in Parsed(new), o < n PROVE EntryDone(f0, K, d, new[o])
    <2>1. o \in Parsed(sec) /\ o \in DOMAIN sec
      BY <1>1
    <2>2. EntryDone(f0, K, d, sec[o])
      BY <2>1, <1>3 DEF WalkedTo
    <2>3. new[o].of \in K \cup {None} \/ Dotted(new[o])
      BY <2>1, <2>2, <1>2 DEF EntryDone, Dotted
    <2>4. /\ new[o].len = sec[o].len /\ new[o].need = sec[o].need /\ new[o].name = sec[o].name
          /\ new[o].of = sec[o].of \/ new[o].of = None \/ LeadsRight(f0, d, new[o])
      BY <2>1, <1>2
    <2>5. new[o].of # None => LeadsRight(f0, d, new[o])
      BY <2>2, <2>4 DEF EntryDone, EntryTidy, LeadsRight
    <2> QED
      BY <2>2, <2>3, <2>4, <2>5 DEF EntryDone, EntryTidy
  <1>4. CASE n \in Parsed(sec)
    BY <1>3, <1>4 DEF WalkedTo
  <1>5. CASE n \notin Parsed(sec)
    <2>1. n = Sector /\ (Fits(sec) => Closed(sec))
      BY <1>5 DEF WalkedTo
    <2>2. ASSUME Fits(new) PROVE Closed(new)
      <3>0. Parsed(sec) \subseteq Parsed(new)
        BY <1>1, ParsedStays
      <3>4. Fits(sec)
        BY <2>2, <3>0 DEF Fits
      <3>1. PICK o \in Parsed(sec) : o + sec[o].len = Sector
        BY <2>1, <3>4 DEF Closed
      <3>2. o \in Parsed(new)
        BY <3>0
      <3>3. new[o].len = sec[o].len
        OBVIOUS
      <3> QED
        BY <3>1, <3>2, <3>3 DEF Closed
    <2> QED
      BY <1>3, <2>1, <2>2 DEF WalkedTo
  <1> QED
    BY <1>4, <1>5

\* The length of the entry that is looked at is mended.
LEMMA LengthDone ==
  ASSUME NEW f0, NEW K, NEW d, NEW sec, NEW off, WalkedTo(f0, K, d, sec, off),
         NEW inodes, SectorOK(sec, inodes), off \in DOMAIN sec,
         NEW new, new = [sec EXCEPT ![off].len = Sector - off]
  PROVE  WalkedTo(f0, K, d, new, off)
  <1>1. off \in Parsed(sec)
    BY SectorFacts DEF WalkedTo
  <1>2. off \in Parsed(new)
    BY <1>1, PlaceStays
  <1>0. OneMend(sec, new, inodes)
    BY LengthMends
  <1>3. Parsed(new) \subseteq Parsed(sec) /\ Parsed(sec) \subseteq DOMAIN sec
    BY <1>0, MendKeeps, SectorFacts
  <1>4. off \in Nat /\ \A o \in DOMAIN sec : o \in Nat
    BY SectorFacts
  <1>5. \A o \in DOMAIN sec : o < off => new[o] = sec[o]
    BY <1>4
  <1>6. \A o \in Parsed(new) : o < off => EntryDone(f0, K, d, new[o])
    BY <1>3, <1>5 DEF WalkedTo
  <1> QED
    BY <1>2, <1>6 DEF WalkedTo

\* The entry that is looked at is done, and the walk goes on after it.
LEMMA EntryPassed ==
  ASSUME NEW f0, NEW K, NEW L, K \subseteq L, NEW d, NEW sec, NEW off, WalkedTo(f0, K, d, sec, off),
         NEW inodes, SectorOK(sec, inodes), off \in DOMAIN sec, EntryDone(f0, L, d, sec[off]),
         off + sec[off].len \in DOMAIN sec \cup {Sector}
  PROVE  WalkedTo(f0, L, d, sec, off + sec[off].len)
  <1>1. off \in Parsed(sec) /\ off \in Nat /\ sec[off].len \in Nat /\ \A o \in Parsed(sec) : o \in Nat
    BY SectorFacts DEF WalkedTo
  <1>2. \A o \in Parsed(sec) : off < o => off + sec[off].len <= o
    BY <1>1, ParsedChain
  <1>3. WalkedTo(f0, L, d, sec, off)
    BY DoneGrows
  <1>4. \A o \in Parsed(sec) : o < off + sec[off].len => EntryDone(f0, L, d, sec[o])
    <2> TAKE o \in Parsed(sec)
    <2> HAVE o < off + sec[off].len
    <2>1. o < off \/ o = off
      BY <1>1, <1>2
    <2> QED
      BY <2>1, <1>3 DEF WalkedTo
  <1>5. off + sec[off].len \in Parsed(sec) \/ (off + sec[off].len = Sector /\ Closed(sec))
    BY <1>1, ParsedFacts DEF Closed
  <1> QED
    BY <1>4, <1>5 DEF WalkedTo

\* An entry has no inode any more, and none follows it: the entry before it takes
\* its length, which is right where no entry is too long for the sector.
LEMMA FixDEntryDone ==
  ASSUME NEW f0, NEW K, NEW d, NEW sec, NEW off, WalkedTo(f0, K, d, sec, off),
         NEW inodes, SectorOK(sec, inodes), off \in DOMAIN sec,
         \A o \in Parsed(sec) : ~(off < o),
         sec[off].len % Align = 0, sec[off].len >= Sector - off,
         NEW new, new = FixDEntry(sec, off)
  PROVE  WalkedTo(f0, K, d, new, Sector)
  <1>0. OneMend(sec, new, inodes) /\ new[off].of = None /\ new[off].len = sec[off].len
    BY FixDEntryMends
  <1>1. /\ off \in Parsed(sec) /\ off \in Nat /\ \A o \in Parsed(sec) : o \in Nat /\ sec[o].len \in Nat
        /\ DOMAIN new = DOMAIN sec /\ Parsed(sec) \subseteq DOMAIN sec /\ 0 \in Parsed(sec)
        /\ Sector - off \in Nat \ {0} /\ (Sector - off) % Align = 0 /\ Sector \notin DOMAIN sec
    BY <1>0, SectorFacts DEF WalkedTo, OneMend
  <1>2. Parsed(new) \subseteq Parsed(sec)
    BY <1>0, MendKeeps
  <1>3. Sector \in Nat /\ Align \in Nat \ {0} /\ Shortest <= Sector /\ Shortest \in Nat
    BY FsckFacts
  <1>4. ASSUME NEW o \in Parsed(sec), o < off
        PROVE  /\ new[o].of = sec[o].of /\ new[o].name = sec[o].name /\ new[o].need = sec[o].need
               /\ o \notin Before(sec, off) => new[o].len = sec[o].len
               /\ o \in Before(sec, off) => new[o].len = sec[o].len + sec[off].len
    <2>1. off # 0 /\ o # off /\ o \in DOMAIN sec
      BY <1>1, <1>4
    <2>2. new[o] = IF o \in Before(sec, off) THEN [sec[o] EXCEPT !.len = @ + sec[off].len] ELSE sec[o]
      BY <2>1 DEF FixDEntry
    <2>3. sec[o] \in EntryOf(inodes)
      BY <2>1, SectorFacts
    <2> QED
      BY <2>2, <2>3 DEF EntryOf
  <1>5. ASSUME off # 0 PROVE off \notin Parsed(new)
    <2> DEFINE T == Parsed(sec) \ {off}
    <2>1. 0 \in T /\ T \in SUBSET DOMAIN new
      BY <1>1, <1>5
    <2>2. ASSUME NEW z \in T, z + new[z].len \in DOMAIN new PROVE z + new[z].len \in T
      <3>1. z < off /\ z \in Nat /\ sec[z].len \in Nat
        BY <1>1
      <3>2. z \notin Before(sec, off)
        <4> SUFFICES ASSUME z \in Before(sec, off) PROVE FALSE
          OBVIOUS
        <4>1. z + sec[z].len = off /\ new[z].len = sec[z].len + sec[off].len
          BY <3>1, <1>4 DEF Before
        <4>2. z + new[z].len >= Sector
          BY <4>1, <3>1, <1>1, <1>3
        <4>3. z + new[z].len < Sector
          BY <2>2, <1>1, SectorFacts
        <4>4. z + new[z].len \in Nat
          BY <4>1, <3>1, <1>1, SectorFacts
        <4> QED
          BY <4>2, <4>3, <4>4, <1>3
      <3>3. new[z].len = sec[z].len
        BY <3>1, <3>2, <1>4
      <3>4. z + sec[z].len \in Parsed(sec)
        BY <3>3, <2>2, <1>1, ParsedFacts
      <3>5. z + sec[z].len # off
        BY <3>1, <3>2 DEF Before
      <3> QED
        BY <3>3, <3>4, <3>5
    <2>3. Follows(new, T)
      BY <2>2 DEF Follows
    <2> HIDE DEF T
    <2>4. Parsed(new) \subseteq T
      BY <2>1, <2>3, ParsedLeast
    <2> QED
      BY <2>4 DEF T
  <1>6. ASSUME NEW o \in Parsed(new), o < Sector PROVE EntryDone(f0, K, d, new[o])
    <2>1. o \in Parsed(sec) /\ o \in Nat /\ ~(off < o) /\ (o = off \/ o < off)
      BY <1>1, <1>2
    <2>2. CASE o = off
      <3>1. off = 0
        BY <1>5, <2>2
      <3>2. new[0].need = Shortest
        <4>1. sec[0] \in EntryOf(inodes) /\ 0 \in DOMAIN sec
          BY <1>1, SectorFacts
        <4>2. new = [sec EXCEPT ![0].need = Shortest, ![0].of = None]
          BY <3>1 DEF FixDEntry
        <4> QED
          BY <4>1, <4>2 DEF EntryOf
      <3>3. new[0].len % Align = 0 /\ new[0].of = None /\ new[0].len >= Shortest
        BY <3>1, <1>0, <1>1, <1>3
      <3> QED
        BY <3>1, <3>2, <3>3, <2>2 DEF EntryDone, EntryTidy
    <2>3. CASE o < off
      <3>1. EntryDone(f0, K, d, sec[o])
        BY <2>1, <2>3 DEF WalkedTo
      <3>2. new[o].of \in K \cup {None} \/ Dotted(new[o])
        BY <3>1, <2>1, <2>3, <1>4 DEF EntryDone, Dotted
      <3>4. CASE o \notin Before(sec, off)
        <4>1. new[o].of = sec[o].of /\ new[o].name = sec[o].name /\ new[o].need = sec[o].need /\ new[o].len = sec[o].len
          BY <2>1, <2>3, <3>4, <1>4
        <4> QED
          BY <3>1, <3>2, <4>1 DEF EntryDone, EntryTidy, LeadsRight
      <3>5. CASE o \in Before(sec, off)
        <4>1. /\ new[o].of = sec[o].of /\ new[o].name = sec[o].name /\ new[o].need = sec[o].need
              /\ new[o].len = sec[o].len + sec[off].len
          BY <2>1, <2>3, <3>5, <1>4
        <4>2. sec[off].len \in Nat /\ sec[off].len % Align = 0 /\ sec[o].len \in Nat /\ sec[o].need \in Nat
          BY <1>1, <2>1, <3>5, SectorFacts
        <4>3. sec[o].len % Align = 0 /\ sec[o].len >= sec[o].need /\ (sec[o].of # None => LeadsRight(f0, d, sec[o]))
          BY <3>1 DEF EntryDone, EntryTidy
        <4>4. (sec[o].len + sec[off].len) % Align = 0
          BY <4>2, <4>3, <1>3, AlignedSum
        <4>5. sec[o].len + sec[off].len >= sec[o].need
          BY <4>2, <4>3
        <4> QED
          BY <3>2, <4>1, <4>3, <4>4, <4>5 DEF EntryDone, EntryTidy, LeadsRight
      <3> QED
        BY <3>4, <3>5
    <2> QED
      BY <2>1, <2>2, <2>3
  <1>7. ASSUME Fits(new) PROVE Closed(new)
    <2>1. CASE off = 0
      <3>1. 0 \in Parsed(new) /\ new[0].len % Align = 0 /\ new[0].len >= Sector /\ new[0].len \in Nat
        BY <2>1, <1>0, <1>1, <1>3, ParsedFacts
      <3>2. PICK p \in Parsed(new), n \in Nat : p = 0 /\ n = new[p].len
        BY <3>1
      <3>3. p + n <= Sector /\ n >= Sector
        BY <3>1, <3>2, <1>7 DEF Fits
      <3>4. p + n = Sector
        BY <3>2, <3>3, <1>3
      <3> QED
        BY <3>2, <3>4 DEF Closed
    <2>2. CASE off # 0
      <3>1. \E p \in Parsed(sec) : p # off /\ p + sec[p].len = off
        <4> SUFFICES ASSUME \A p \in Parsed(sec) : p # off => p + sec[p].len # off PROVE FALSE
          OBVIOUS
        <4> DEFINE T == Parsed(sec) \ {off}
        <4>1. ASSUME NEW z \in T, z + sec[z].len \in DOMAIN sec PROVE z + sec[z].len \in T
          BY <4>1, ParsedFacts
        <4>2. Follows(sec, T) /\ 0 \in T /\ T \in SUBSET DOMAIN sec
          BY <4>1, <1>1, <2>2 DEF Follows
        <4> HIDE DEF T
        <4>3. Parsed(sec) \subseteq T
          BY <4>2, ParsedLeast
        <4> QED
          BY <4>3, <1>1 DEF T
      <3>2. PICK p \in Parsed(sec) : p # off /\ p + sec[p].len = off
        BY <3>1
      <3>3. p < off /\ p \in Nat /\ sec[p].len \in Nat /\ p \in Before(sec, off)
        BY <3>2, <1>1 DEF Before
      <3>4. \A q \in Before(sec, off) : q = p
        <4> TAKE q \in Before(sec, off)
        <4>1. q \in Parsed(sec) /\ q < off /\ q + sec[q].len = off /\ q \in Nat
          BY <1>1 DEF Before
        <4>2. ~(q < p)
          <5> SUFFICES ASSUME q < p PROVE FALSE
            OBVIOUS
          <5>1. q + sec[q].len <= p
            BY <4>1, <3>2, ParsedChain
          <5> QED
            BY <5>1, <4>1, <3>3, <1>1
        <4>3. ~(p < q)
          <5> SUFFICES ASSUME p < q PROVE FALSE
            OBVIOUS
          <5>1. p + sec[p].len <= q
            BY <4>1, <3>2, ParsedChain
          <5> QED
            BY <5>1, <4>1, <3>2, <3>3
        <4> QED
          BY <4>1, <4>2, <4>3, <3>3
      <3>5. p \in Parsed(new)
        <4> SUFFICES ASSUME NEW S \in SUBSET DOMAIN new, 0 \in S, Follows(new, S), p \notin S PROVE FALSE
          BY <3>2, <1>1 DEF Parsed
        <4> DEFINE T == S \cap Parsed(sec)
        <4>1. ASSUME NEW z \in T, z + sec[z].len \in DOMAIN sec PROVE z + sec[z].len \in T
          <5>1. z # p /\ z \in Nat /\ (z = off \/ z < off)
            BY <1>1
          <5>2. z = off \/ z \notin Before(sec, off)
            BY <5>1, <3>4
          <5>3. new[z].len = sec[z].len
            BY <5>1, <5>2, <1>0, <1>4
          <5> QED
            BY <4>1, <5>3, <1>1, ParsedFacts DEF Follows
        <4>2. Follows(sec, T) /\ 0 \in T /\ T \in SUBSET DOMAIN sec
          BY <4>1, <1>1 DEF Follows
        <4> HIDE DEF T
        <4>3. Parsed(sec) \subseteq T
          BY <4>2, ParsedLeast
        <4> QED
          BY <4>3, <3>2 DEF T
      <3>6. p + new[p].len = Sector
        <4>1. new[p].len = sec[p].len + sec[off].len
          BY <3>3, <1>4
        <4>2. EntryDone(f0, K, d, new[p])
          BY <3>3, <3>5, <1>1, <1>3, <1>6
        <4>3. p + new[p].len <= Sector
          BY <4>2, <3>5, <1>7 DEF Fits, EntryDone, EntryTidy
        <4> QED
          BY <4>1, <4>3, <3>2, <3>3, <1>1, <1>3
      <3> QED
        BY <3>5, <3>6 DEF Closed
    <2> QED
      BY <2>1, <2>2
  <1> QED
    BY <1>6, <1>7 DEF WalkedTo

-----------------------------------------------------------------------------
(* What the walk of a directory has done.                                  *)

LEMMA DirsTurned ==
  ASSUME NEW f0, NEW K, NEW L, K \subseteq L, NEW W, NEW f, NEW g, NEW path, NEW new, NEW l \in Nat \ {0},
         Len(path) = l, Len(new) = l, \A n \in 1 .. l : n # l => new[n] = path[n], new[l].dir = path[l].dir,
         DOMAIN g.dir = DOMAIN f.dir, \A c \in DOMAIN f.dir : c # path[l].dir => g.dir[c] = f.dir[c],
         DirDone(f0, K, f, path[l].dir) => DirDone(f0, L, g, path[l].dir),
         DoneUpTo(f0, K, f, path[l]) => DoneUpTo(f0, L, g, new[l]),
         DirsDone(f0, K, W, f, path)
  PROVE  DirsDone(f0, L, W, g, new)
  <1> SUFFICES ASSUME NEW d \in W \cap DOMAIN f.dir
               PROVE  \/ DirDone(f0, L, g, d)
                      \/ \E n \in 1 .. Len(new) :
                            /\ new[n].dir = d /\ \A m \in n + 1 .. Len(new) : new[m].dir # d
                            /\ DoneUpTo(f0, L, g, new[n])
    BY DEF DirsDone
  <1>0. \A n \in 1 .. l : new[n].dir = path[n].dir
    OBVIOUS
  <1>1. CASE DirDone(f0, K, f, d)
    <2>1. CASE d = path[l].dir
      BY <1>1, <2>1
    <2>2. CASE d # path[l].dir
      <3>1. g.dir[d] = f.dir[d]
        BY <2>2
      <3>2. \A k \in 1 .. Len(g.dir[d]) : WalkedTo(f0, K, d, g.dir[d][k], Sector)
        BY <3>1, <1>1 DEF DirDone
      <3>3. \A k \in 1 .. Len(g.dir[d]) : WalkedTo(f0, L, d, g.dir[d][k], Sector)
        BY <3>2, DoneGrows
      <3> QED
        BY <3>3 DEF DirDone
    <2> QED
      BY <2>1, <2>2
  <1>2. ASSUME NEW n \in 1 .. l, path[n].dir = d, \A m \in n + 1 .. l : path[m].dir # d,
               DoneUpTo(f0, K, f, path[n])
        PROVE  DoneUpTo(f0, L, g, new[n])
    <2>1. CASE n = l
      BY <1>2, <2>1
    <2>2. CASE n # l
      <3>1. l \in n + 1 .. l
        BY <2>2
      <3>2. path[l].dir # d
        BY <3>1, <1>2
      <3>3. g.dir[d] = f.dir[d] /\ new[n] = path[n]
        BY <3>2, <2>2
      <3>4. /\ \A k \in 1 .. path[n].k - 1 : WalkedTo(f0, K, d, g.dir[d][k], Sector)
            /\ WalkedTo(f0, K, d, g.dir[d][path[n].k], Ahead(path[n]))
        BY <3>3, <1>2 DEF DoneUpTo
      <3>5. /\ \A k \in 1 .. path[n].k - 1 : WalkedTo(f0, L, d, g.dir[d][k], Sector)
            /\ WalkedTo(f0, L, d, g.dir[d][path[n].k], Ahead(path[n]))
        BY <3>4, DoneGrows
      <3> QED
        BY <3>3, <3>5, <1>2 DEF DoneUpTo
    <2> QED
      BY <2>1, <2>2
  <1>3. CASE ~DirDone(f0, K, f, d)
    <2>1. PICK n \in 1 .. l : path[n].dir = d /\ (\A m \in n + 1 .. l : path[m].dir # d) /\ DoneUpTo(f0, K, f, path[n])
      BY <1>3 DEF DirsDone
    <2>2. DoneUpTo(f0, L, g, new[n])
      BY <2>1, <1>2
    <2>3. \A m \in n + 1 .. l : m \in 1 .. l
      OBVIOUS
    <2>4. new[n].dir = d /\ \A m \in n + 1 .. l : new[m].dir # d
      BY <1>0, <2>1, <2>3
    <2> QED
      BY <2>2, <2>4
  <1> QED
    BY <1>1, <1>3

\* Only one sector is not as it was.
OnlyHere(f, g, d, k, new) ==
    /\ g.inode = f.inode /\ g.writeError = f.writeError /\ DOMAIN g.dir = DOMAIN f.dir
    /\ \A c \in DOMAIN f.dir : Len(g.dir[c]) = Len(f.dir[c]) /\ (c # d => g.dir[c] = f.dir[c])
    /\ g.dir[d][k] = new /\ \A j \in 1 .. Len(f.dir[d]) : j # k => g.dir[d][j] = f.dir[d][j]

LEMMA HereDone ==
  ASSUME NEW f0, NEW K, NEW L, K \subseteq L, NEW f, NEW g, NEW d \in DOMAIN f.dir,
         NEW k \in 1 .. Len(f.dir[d]), Len(f.dir[d]) \in Nat, NEW new, OnlyHere(f, g, d, k, new),
         NEW t, t.dir = d, t.k = k, NEW u, u.dir = d, u.k = k,
         WalkedTo(f0, K, d, f.dir[d][k], Sector) => WalkedTo(f0, L, d, new, Sector),
         WalkedTo(f0, K, d, f.dir[d][k], Ahead(t)) => WalkedTo(f0, L, d, new, Ahead(u))
  PROVE  /\ DirDone(f0, K, f, d) => DirDone(f0, L, g, d)
         /\ DoneUpTo(f0, K, f, t) => DoneUpTo(f0, L, g, u)
  <1>1. ASSUME NEW j \in 1 .. Len(f.dir[d]), WalkedTo(f0, K, d, f.dir[d][j], Sector)
        PROVE  WalkedTo(f0, L, d, g.dir[d][j], Sector)
    <2>1. CASE j = k
      BY <1>1, <2>1 DEF OnlyHere
    <2>2. CASE j # k
      <3>1. g.dir[d][j] = f.dir[d][j]
        BY <2>2 DEF OnlyHere
      <3> QED
        BY <3>1, <1>1, DoneGrows
    <2> QED
      BY <2>1, <2>2
  <1>2. Len(g.dir[d]) = Len(f.dir[d]) /\ g.dir[d][k] = new
    BY DEF OnlyHere
  <1>3. DirDone(f0, K, f, d) => DirDone(f0, L, g, d)
    BY <1>1, <1>2 DEF DirDone
  <1>4. \A j \in 1 .. k - 1 : j \in 1 .. Len(f.dir[d])
    OBVIOUS
  <1>5. DoneUpTo(f0, K, f, t) => DoneUpTo(f0, L, g, u)
    BY <1>1, <1>2, <1>4 DEF DoneUpTo
  <1> QED
    BY <1>3, <1>5

-----------------------------------------------------------------------------
(* The walk of a sector, in a check that has left no error.                *)

LEMMA ResultGoesOn ==
  ASSUME ResultInv, first' = first, fs'.writeError = fs.writeError,
         pc \notin {"ended", "closed"}, pc' \notin {"ended", "closed", "finish"}
  PROVE  ResultInv'
  BY DEF ResultInv

LEMMA ErrorSound ==
  ASSUME ResultInv', hasError' \/ stopFlag'
  PROVE  SoundInv'
  BY DEF SoundInv, CheckInv, Clean

LEMMA ZonesSame ==
  ASSUME NEW W, ZonesInv(W), fs'.inode = fs.inode, map' = map, pc \notin {"root", "segments"},
         pc' \notin {"root", "segments"} \/ seg'.i = 1
  PROVE  ZonesInv(W)'
  <1>1. \A x, i : Zoned(W, x, i)' => Zoned(W, x, i)
    BY DEF Zoned, Segs
  <1>2. \A x : Segs(x)' = Segs(x)
    BY DEF Segs
  <1>3. \A bi : BadZone(bi)' <=> BadZone(bi)
    BY DEF BadZone
  <1> QED
    BY <1>1, <1>2, <1>3 DEF ZonesInv

\* A test of an entry: the walk stays in its sector.
LEMMA TurnSound ==
  ASSUME HealthInv, SoundInv, pc = "walk", stack # <<>>,
         UNCHANGED <<first, fixing, pc, seg, map, stopFlag>>, hasError => hasError',
         NEW t, Turn(t), t.dir = Top.dir, t.k = Top.k, t \in Spots,
         NEW new, OnlyHere(fs, fs', Top.dir, Top.k, new),
         Clean /\ CheckInv =>
            /\ t.at \in {"enough", "ends", "file"} =>
                  /\ t.size = new[t.off].len /\ new[t.off].len % Align = 0
                  /\ t.at # "enough" => new[t.off].len >= new[t.off].need
            /\ Fits(Here) => Fits(new)
            /\ \A W : LET K == Known(W)
                      IN  /\ WalkedTo(first, K, Top.dir, Here, Sector)
                                => WalkedTo(first, K, Top.dir, new, Sector)
                          /\ WalkedTo(first, K, Top.dir, Here, Ahead(Top))
                                => WalkedTo(first, K, Top.dir, new, Ahead(t))
  PROVE  SoundInv'
  <1>1. TreeInv /\ PathInv /\ stack # <<>>
    BY DEF HealthInv
  <1>2. /\ Len(stack) \in Nat \ {0} /\ Top = stack[Len(stack)] /\ Top.dir \in DOMAIN fs.dir
        /\ Top.k \in 1 .. Len(Sectors) /\ stack \in Seq(Spots) /\ Top.dir \in Walked
        /\ Sectors = fs.dir[Top.dir] /\ Here = fs.dir[Top.dir][Top.k]
    BY <1>1, TopFacts DEF PathInv, Sectors, Here, Walked
  <1>3. Len(fs.dir[Top.dir]) \in Nat
    BY <1>1, <1>2, TreeFacts DEF TreeInv
  <1>4. stack' = [stack EXCEPT ![Len(stack)] = t]
    BY DEF Turn
  <1>5. Len(stack') = Len(stack) /\ stack'[Len(stack)] = t /\ \A n \in 1 .. Len(stack) : n # Len(stack) => stack'[n] = stack[n]
    BY <1>2, <1>4
  <1>6. Top' = t /\ stack' # <<>>
    BY <1>2, <1>5 DEF Top, Last
  <1>7. ResultInv'
    BY ResultGoesOn DEF SoundInv, OnlyHere
  <1> SUFFICES ASSUME Clean' PROVE SizeInv' /\ FitsInv' /\ \E W : (WalkInv(W) /\ ZonesInv(W))'
    BY <1>7 DEF SoundInv, CheckInv
  <1>8. Clean /\ CheckInv /\ Checking
    BY DEF Clean, SoundInv, Checking
  <1>9. SizeInv /\ FitsInv /\ \E W : WalkInv(W) /\ ZonesInv(W)
    BY <1>8 DEF CheckInv
  <1>10. SizeInv'
    <2>1. This' = new[t.off]
      BY <1>6 DEF This, Here, Sectors, OnlyHere
    <2> QED
      BY <2>1, <1>6, <1>8 DEF SizeInv
  <1>11. FitsInv'
    <2> SUFFICES ASSUME NEW d \in DOMAIN first.dir, NEW k \in 1 .. Len(fs'.dir[d]), Fits(first.dir[d][k])
                 PROVE  Fits(fs'.dir[d][k])
      BY DEF FitsInv, Fits
    <2>0. d \in DOMAIN fs.dir
      BY <1>1 DEF TreeInv, Mended
    <2>1. k \in 1 .. Len(fs.dir[d])
      BY <2>0 DEF OnlyHere
    <2>2. Fits(fs.dir[d][k])
      BY <2>1, <1>9 DEF FitsInv
    <2>3. CASE d = Top.dir /\ k = Top.k
      BY <2>2, <2>3, <1>2, <1>8 DEF OnlyHere
    <2>4. CASE ~(d = Top.dir /\ k = Top.k)
      <3>1. fs'.dir[d][k] = fs.dir[d][k]
        BY <2>0, <2>1, <2>4 DEF OnlyHere
      <3> QED
        BY <2>2, <3>1
    <2> QED
      BY <2>3, <2>4
  <1>12. PICK W : WalkInv(W) /\ ZonesInv(W)
    BY <1>9
  <1>13. ZonesInv(W)'
    BY <1>12, ZonesSame DEF OnlyHere
  <1>14. WalkInv(W)'
    <2> DEFINE K == Known(W)
    <2> DEFINE f0 == first
    <2>1. Known(W)' = K
      BY DEF Known
    <2>3. /\ WalkedTo(f0, K, Top.dir, Here, Sector) => WalkedTo(f0, K, Top.dir, new, Sector)
          /\ WalkedTo(f0, K, Top.dir, Here, Ahead(Top)) => WalkedTo(f0, K, Top.dir, new, Ahead(t))
      BY <1>8
    <2>4. DirsDone(f0, K, W, fs, stack) /\ Root \in W /\ W \subseteq DOMAIN fs.inode
      BY <1>12 DEF WalkInv
    <2>5. first' = f0
      OBVIOUS
    <2> HIDE DEF K, f0
    <2>6. /\ DirDone(f0, K, fs, Top.dir) => DirDone(f0, K, fs', Top.dir)
          /\ DoneUpTo(f0, K, fs, Top) => DoneUpTo(f0, K, fs', t)
      BY <2>3, <1>2, <1>3, HereDone
    <2>7. DOMAIN fs'.dir = DOMAIN fs.dir /\ (\A c \in DOMAIN fs.dir : c # Top.dir => fs'.dir[c] = fs.dir[c])
          /\ fs'.inode = fs.inode
      BY DEF OnlyHere
    <2>8. DirsDone(f0, K, W, fs', stack')
      BY <2>4, <2>6, <2>7, <1>2, <1>5, DirsTurned
    <2>9. DirsDone(first', Known(W)', W, fs', stack')
      BY <2>1, <2>5, <2>8
    <2> QED
      BY <2>4, <2>7, <2>9 DEF WalkInv
  <1> QED
    BY <1>10, <1>11, <1>13, <1>14

\* A test that finds nothing, and one whose error is fixed or remembered.
LEMMA TurnWhere ==
  ASSUME Top \in Spots, NEW a \in Tests, NEW n \in Nat, NEW t, t = TurnTo(Top, a, n)
  PROVE  /\ t \in Spots /\ t.dir = Top.dir /\ t.k = Top.k /\ t.off = Top.off /\ t.at = a /\ t.size = n
         /\ Ahead(t) = IF a = "next" THEN Top.off + n ELSE Top.off
  BY DEF Spots, TurnTo, Ahead

TestSound(new, a, n) ==
    Clean /\ SizeInv /\ FitsInv /\ fixing \in BOOLEAN =>
        /\ a \in {"enough", "ends", "file"} =>
              /\ n = new[Top.off].len /\ new[Top.off].len % Align = 0
              /\ a # "enough" => new[Top.off].len >= new[Top.off].need
        /\ Fits(Here) => Fits(new)
        /\ \A K : /\ WalkedTo(first, K, Top.dir, Here, Sector)
                        => WalkedTo(first, K, Top.dir, new, Sector)
                  /\ WalkedTo(first, K, Top.dir, Here, Ahead(Top))
                        => WalkedTo(first, K, Top.dir, new, IF a = "next" THEN Top.off + n ELSE Top.off)

LEMMA TestTurns ==
  ASSUME HealthInv, SoundInv, pc = "walk", stack # <<>>, Top.off # Sector, Top \in Spots,
         UNCHANGED <<first, fixing, pc, seg, map, stopFlag>>, hasError => hasError',
         NEW a \in Tests, NEW n \in Nat, Turn(TurnTo(Top, a, n)),
         NEW new, OnlyHere(fs, fs', Top.dir, Top.k, new), TestSound(new, a, n)
  PROVE  SoundInv'
  <1> DEFINE t == TurnTo(Top, a, n)
  <1>1. /\ t \in Spots /\ t.dir = Top.dir /\ t.k = Top.k /\ t.off = Top.off /\ t.at = a /\ t.size = n
        /\ Ahead(t) = IF a = "next" THEN Top.off + n ELSE Top.off
    BY TurnWhere
  <1>2. Turn(t)
    OBVIOUS
  <1> HIDE DEF t
  <1>3. ASSUME Clean, CheckInv
        PROVE  /\ t.at \in {"enough", "ends", "file"} =>
                  /\ t.size = new[t.off].len /\ new[t.off].len % Align = 0
                  /\ t.at # "enough" => new[t.off].len >= new[t.off].need
               /\ Fits(Here) => Fits(new)
               /\ \A W : LET K == Known(W)
                         IN  /\ WalkedTo(first, K, Top.dir, Here, Sector)
                                => WalkedTo(first, K, Top.dir, new, Sector)
                             /\ WalkedTo(first, K, Top.dir, Here, Ahead(Top))
                                => WalkedTo(first, K, Top.dir, new, Ahead(t))
    <2>1. SizeInv /\ FitsInv /\ fixing \in BOOLEAN
      BY <1>3 DEF CheckInv, Checking, HealthInv, ControlInv
    <2> QED
      BY <1>1, <1>3, <2>1 DEF TestSound
  <1> QED
    BY <1>1, <1>2, <1>3, TurnSound

LEMMA FineSound ==
  ASSUME HealthInv, SoundInv, pc = "walk", stack # <<>>, Top.off # Sector, Fine,
         UNCHANGED <<first, fixing, pc, seg, map, stopFlag>>,
         NEW a \in Tests, NEW n \in Nat, Turn(TurnTo(Top, a, n)), TestSound(Here, a, n)
  PROVE  SoundInv'
  <1>1. fs' = fs /\ hasError' = hasError
    BY DEF Fine
  <1>2. OnlyHere(fs, fs', Top.dir, Top.k, Here)
    BY <1>1 DEF OnlyHere, Here, Sectors
  <1>3. Top \in Spots
    BY TopFacts DEF HealthInv, PlaceOK
  <1> QED
    BY <1>1, <1>2, <1>3, TestTurns

LEMMA MendSound ==
  ASSUME HealthInv, SoundInv, pc = "walk", stack # <<>>, Top.off # Sector,
         NEW new, OneMend(Here, new, DOMAIN fs.inode), Fix(SetHere(new)),
         UNCHANGED <<first, fixing, pc, seg, map, stopFlag>>,
         NEW a \in Tests, NEW n \in Nat, Turn(TurnTo(Top, a, n)), fixing => TestSound(new, a, n)
  PROVE  SoundInv'
  <1>1. CASE fixing
    <2>1. fs' = SetHere(new) /\ hasError' = hasError
      BY <1>1 DEF Fix, Fixed
    <2>2. OnlyHere(fs, fs', Top.dir, Top.k, new)
      <3>1. /\ SameRest(fs, fs') /\ fs'.inode = fs.inode /\ DOMAIN fs'.dir = DOMAIN fs.dir
            /\ \A c \in DOMAIN fs.dir : Len(fs'.dir[c]) = Len(fs.dir[c]) /\ (c # Top.dir => fs'.dir[c] = fs.dir[c])
            /\ fs'.dir[Top.dir][Top.k] = new
            /\ \A j \in 1 .. Len(Sectors) : j # Top.k => fs'.dir[Top.dir][j] = fs.dir[Top.dir][j]
        BY <2>1, HereMended DEF HealthInv
      <3> QED
        BY <3>1 DEF OnlyHere, SameRest, Sectors
    <2>3. Top \in Spots
      BY TopFacts DEF HealthInv, PlaceOK
    <2> QED
      BY <1>1, <2>1, <2>2, <2>3, TestTurns
  <1>2. CASE ~fixing
    <2>1. fs' = fs /\ hasError'
      BY <1>2 DEF Fix, NotFixed
    <2>2. ResultInv'
      BY <2>1, ResultGoesOn DEF SoundInv
    <2> QED
      BY <2>1, <2>2, ErrorSound
  <1> QED
    BY <1>1, <1>2

-----------------------------------------------------------------------------
(* Each of the tests.                                                      *)

Lengthened(sec, off) == [sec EXCEPT ![off].len = Sector - off]
LEMMA LengthTest ==
  ASSUME NEW f0, NEW K, NEW d, NEW sec, NEW inodes, SectorOK(sec, inodes), NEW off \in DOMAIN sec,
         ~(sec[off].len % Align = 0 /\ sec[off].len >= sec[off].need),
         NEW new, new = Lengthened(sec, off)
  PROVE  /\ Fits(sec) => Fits(new)
         /\ WalkedTo(f0, K, d, sec, Sector) => WalkedTo(f0, K, d, new, Sector)
         /\ WalkedTo(f0, K, d, sec, off) => WalkedTo(f0, K, d, new, off)
  <1>0. new = [sec EXCEPT ![off].len = Sector - off]
    BY DEF Lengthened
  <1>1. OneMend(sec, new, inodes) /\ new[off].len = Sector - off
    BY LengthMends DEF Lengthened
  <1>2. /\ Parsed(new) \subseteq Parsed(sec) /\ Parsed(sec) \subseteq DOMAIN sec
        /\ \A o \in DOMAIN sec : o # off => new[o] = sec[o]
    BY <1>0, <1>1, MendKeeps, SectorFacts
  <1>3. off \in Nat /\ off < Sector /\ Sector \notin DOMAIN sec /\ Sector \in Nat
    BY SectorFacts, FsckFacts
  <1>4. ASSUME Fits(sec) PROVE Fits(new)
    <2> SUFFICES ASSUME NEW o \in Parsed(new), new[o].len % Align = 0 PROVE o + new[o].len <= Sector
      BY DEF Fits
    <2>1. CASE o = off
      <3>1. off + (Sector - off) <= Sector
        BY <1>3
      <3> QED
        BY <2>1, <3>1, <1>1
    <2>2. CASE o # off
      BY <2>2, <1>2, <1>4 DEF Fits
    <2> QED
      BY <2>1, <2>2
  <1>5. ASSUME WalkedTo(f0, K, d, sec, Sector) PROVE WalkedTo(f0, K, d, new, Sector)
    <2>1. off \notin Parsed(sec)
      <3> SUFFICES ASSUME off \in Parsed(sec) PROVE FALSE
        OBVIOUS
      <3>1. EntryDone(f0, K, d, sec[off])
        BY <1>3, <1>5 DEF WalkedTo
      <3> QED
        BY <3>1 DEF EntryDone, EntryTidy
    <2>2. \A o \in Parsed(sec) : new[o] = sec[o]
      BY <2>1, <1>2
    <2>3. \A o \in Parsed(sec) :
            /\ new[o].len = sec[o].len /\ new[o].need = sec[o].need
            /\ new[o].of = sec[o].of \/ new[o].of = None \/ LeadsRight(f0, d, new[o])
      BY <2>2
    <2>4. Sector \notin Parsed(sec)
      BY <1>2, <1>3
    <2> QED
      BY <1>1, <1>5, <2>3, <2>4, DoneStays
  <1>6. WalkedTo(f0, K, d, sec, off) => WalkedTo(f0, K, d, new, off)
    BY <1>0, LengthDone
  <1> QED
    BY <1>4, <1>5, <1>6

LEMMA FixDEntryTest ==
  ASSUME NEW f0, NEW K, NEW d, NEW sec, NEW inodes, SectorOK(sec, inodes), NEW off \in DOMAIN sec,
         sec[off].len % Align = 0, sec[off].len >= Sector - off,
         NEW new, new = FixDEntry(sec, off)
  PROVE  /\ Fits(sec) => Fits(new)
         /\ WalkedTo(f0, K, d, sec, Sector) => WalkedTo(f0, K, d, new, Sector)
         /\ WalkedTo(f0, K, d, sec, off) => WalkedTo(f0, K, d, new, Sector)
  <1>1. OneMend(sec, new, inodes) /\ new[off].len = sec[off].len
    BY FixDEntryMends
  <1>2. /\ Parsed(new) \subseteq Parsed(sec) /\ Parsed(sec) \subseteq DOMAIN sec
        /\ \A o \in Parsed(sec) : o \in Nat /\ o < Sector /\ sec[o].len \in Nat /\ sec[o].need \in Nat
    BY <1>1, MendKeeps, SectorFacts
  <1>3. off \in Nat /\ off < Sector /\ Sector \notin DOMAIN sec /\ Sector \in Nat /\ sec[off].len \in Nat /\ sec[off].need \in Nat
    BY SectorFacts, FsckFacts
  <1>4. ASSUME NEW o \in Parsed(sec), o # off
        PROVE  \/ new[o] = sec[o]
               \/ off # 0 /\ o \in Before(sec, off) /\ new[o].len = sec[o].len + sec[off].len
               \/ off = 0 /\ new[o] = sec[o]
    <2>1. sec[o] \in EntryOf(inodes) /\ o \in DOMAIN sec
      BY <1>2, SectorFacts
    <2>2. CASE off = 0
      BY <2>1, <2>2, <1>4 DEF FixDEntry
    <2>3. CASE off # 0
      <3>1. new[o] = IF o \in Before(sec, off) THEN [sec[o] EXCEPT !.len = @ + sec[off].len] ELSE sec[o]
        BY <2>1, <2>3, <1>4 DEF FixDEntry
      <3> QED
        BY <3>1, <2>1, <2>3 DEF EntryOf
    <2> QED
      BY <2>2, <2>3
  <1>5. ASSUME NEW o \in Before(sec, off) PROVE off \in Parsed(sec) /\ o + sec[o].len = off /\ o \in Parsed(sec)
    BY ParsedFacts DEF Before
  <1>6. ASSUME Fits(sec) PROVE Fits(new)
    <2> SUFFICES ASSUME NEW o \in Parsed(new), new[o].len % Align = 0 PROVE o + new[o].len <= Sector
      BY DEF Fits
    <2>0. o \in Parsed(sec)
      BY <1>2
    <2>1. CASE o = off
      BY <2>0, <2>1, <1>1, <1>6 DEF Fits
    <2>2. CASE o # off /\ new[o] = sec[o]
      BY <2>0, <2>2, <1>6 DEF Fits
    <2>3. CASE o \in Before(sec, off) /\ new[o].len = sec[o].len + sec[off].len
      <3>1. off \in Parsed(sec) /\ o + sec[o].len = off
        BY <2>3, <1>5
      <3>2. off + sec[off].len <= Sector
        BY <3>1, <1>6 DEF Fits
      <3> QED
        BY <3>1, <3>2, <2>0, <2>3, <1>2, <1>3
    <2> QED
      BY <2>0, <2>1, <2>2, <2>3, <1>4
  <1>7. ASSUME WalkedTo(f0, K, d, sec, off) PROVE WalkedTo(f0, K, d, new, Sector)
    <2>1. off \in Parsed(sec)
      BY <1>3, <1>7 DEF WalkedTo
    <2>2. \A o \in Parsed(sec) : ~(off < o)
      <3> SUFFICES ASSUME NEW o \in Parsed(sec), off < o PROVE FALSE
        OBVIOUS
      <3>1. off + sec[off].len <= o
        BY <2>1, ParsedChain
      <3> QED
        BY <3>1, <1>2, <1>3
    <2> QED
      BY <1>7, <2>2, FixDEntryDone
  <1>8. ASSUME WalkedTo(f0, K, d, sec, Sector) PROVE WalkedTo(f0, K, d, new, Sector)
    <2>1. CASE off \in Parsed(sec)
      <3>1. WalkedTo(f0, K, d, sec, off)
        BY <2>1, <1>2, <1>3, <1>8 DEF WalkedTo
      <3> QED
        BY <3>1, <1>7
    <2>2. CASE off \notin Parsed(sec)
      <3>1. \A o \in Parsed(sec) : new[o] = sec[o]
        BY <2>2, <1>4, <1>5
      <3>2. \A o \in Parsed(sec) :
              /\ new[o].len = sec[o].len /\ new[o].need = sec[o].need
              /\ new[o].of = sec[o].of \/ new[o].of = None \/ LeadsRight(f0, d, new[o])
        BY <3>1
      <3>3. Sector \notin Parsed(sec)
        BY <1>2, <1>3
      <3> QED
        BY <1>1, <1>8, <3>2, <3>3, DoneStays
    <2> QED
      BY <2>1, <2>2
  <1> QED
    BY <1>6, <1>7, <1>8

LEMMA CheckAlignedSound ==
  ASSUME HealthInv, SoundInv, CheckAligned
  PROVE  SoundInv'
  <1>1. Walking("aligned") /\ UNCHANGED <<first, fixing, pc, seg, map, stopFlag>>
    BY DEF CheckAligned
  <1>2. /\ pc = "walk" /\ stack # <<>> /\ Top.off # Sector /\ Top.at = "aligned" /\ Top.off \in DOMAIN Here
        /\ SectorOK(Here, DOMAIN fs.inode) /\ Rest \in Nat /\ This.len \in Nat /\ Top \in Spots
        /\ This = Here[Top.off] /\ Ahead(Top) = Top.off
    BY <1>1, WalkingFacts DEF Ahead
  <1>3. CASE This.len % Align = 0
    <2>1. Fine /\ Turn(TurnTo(Top, "enough", This.len))
      BY <1>3 DEF CheckAligned, TurnTo
    <2>2. TestSound(Here, "enough", This.len)
      BY <1>2, <1>3 DEF TestSound
    <2> QED
      BY <2>1, <2>2, <1>1, <1>2, TestNames, FineSound
  <1>4. CASE This.len % Align # 0
    <2> DEFINE new == [Here EXCEPT ![Top.off].len = Rest]
    <2>1. Fix(SetHere(new)) /\ Turn(TurnTo(Top, "enough", Rest))
      BY <1>4 DEF CheckAligned, TurnTo
    <2>2. OneMend(Here, new, DOMAIN fs.inode) /\ new[Top.off].len = Rest
      BY <1>2, LengthMends DEF Rest
    <2>3. new = Lengthened(Here, Top.off)
      BY DEF Rest, Lengthened
    <2>4. Rest % Align = 0
      BY <1>2, SectorFacts DEF Rest
    <2> HIDE DEF new
    <2>5. \A K : /\ Fits(Here) => Fits(new)
                 /\ WalkedTo(first, K, Top.dir, Here, Sector) => WalkedTo(first, K, Top.dir, new, Sector)
                 /\ WalkedTo(first, K, Top.dir, Here, Top.off) => WalkedTo(first, K, Top.dir, new, Top.off)
      BY <1>2, <1>4, <2>3, LengthTest
    <2>6. TestSound(new, "enough", Rest)
      BY <1>2, <2>2, <2>4, <2>5 DEF TestSound
    <2> QED
      BY <2>1, <2>2, <2>6, <1>1, <1>2, TestNames, MendSound
  <1> QED
    BY <1>3, <1>4

LEMMA CheckEnoughSound ==
  ASSUME HealthInv, SoundInv, CheckEnough
  PROVE  SoundInv'
  <1>1. Walking("enough") /\ UNCHANGED <<first, fixing, pc, seg, map, stopFlag>>
    BY DEF CheckEnough
  <1>2. /\ pc = "walk" /\ stack # <<>> /\ Top.off # Sector /\ Top.at = "enough" /\ Top.off \in DOMAIN Here
        /\ SectorOK(Here, DOMAIN fs.inode) /\ Rest \in Nat /\ Top.size \in Nat /\ Top \in Spots
        /\ This = Here[Top.off] /\ Ahead(Top) = Top.off /\ This.need \in Nat /\ This.len \in Nat
    BY <1>1, WalkingFacts DEF Ahead
  <1>4. CASE Top.size >= This.need
    <2>1. Fine /\ Turn([Top EXCEPT !.at = "ends"])
      BY <1>4 DEF CheckEnough
    <2>2. [Top EXCEPT !.at = "ends"] = TurnTo(Top, "ends", Top.size)
      BY <1>2 DEF Spots, TurnTo
    <2>3. TestSound(Here, "ends", Top.size)
      BY <1>2, <1>4 DEF TestSound, SizeInv
    <2> QED
      BY <2>1, <2>2, <2>3, <1>1, <1>2, TestNames, FineSound
  <1>5. CASE ~(Top.size >= This.need) /\ fixing /\ This.need < Rest
    <2> DEFINE new == [Here EXCEPT ![Top.off].len = Rest]
    <2>1. Fix(SetHere(new)) /\ Turn(TurnTo(Top, "ends", Rest))
      BY <1>5 DEF CheckEnough, TurnTo
    <2>2. OneMend(Here, new, DOMAIN fs.inode) /\ new[Top.off].len = Rest /\ new[Top.off].need = This.need
      BY <1>2, LengthMends DEF Rest
    <2>3. new = Lengthened(Here, Top.off)
      BY DEF Rest, Lengthened
    <2>4. Rest % Align = 0
      BY <1>2, SectorFacts DEF Rest
    <2> HIDE DEF new
    <2>5. ASSUME SizeInv, NEW K
          PROVE  /\ Fits(Here) => Fits(new)
                 /\ WalkedTo(first, K, Top.dir, Here, Sector) => WalkedTo(first, K, Top.dir, new, Sector)
                 /\ WalkedTo(first, K, Top.dir, Here, Top.off) => WalkedTo(first, K, Top.dir, new, Top.off)
      <3>1. ~(Here[Top.off].len >= Here[Top.off].need)
        BY <2>5, <1>2, <1>5 DEF SizeInv
      <3> QED
        BY <1>2, <2>3, <3>1, LengthTest
    <2>6. Rest >= This.need
      BY <1>2, <1>5
    <2>7. TestSound(new, "ends", Rest)
      BY <1>2, <2>2, <2>4, <2>5, <2>6 DEF TestSound
    <2> QED
      BY <2>1, <2>2, <2>7, <1>1, <1>2, TestNames, MendSound
  <1>6. CASE ~(Top.size >= This.need) /\ ~(fixing /\ This.need < Rest)
    <2> DEFINE new == FixDEntry(Here, Top.off)
    <2>1. Fix(SetHere(new)) /\ Turn(TurnTo(Top, "next", Rest))
      BY <1>6 DEF CheckEnough, TurnTo
    <2>2. OneMend(Here, new, DOMAIN fs.inode)
      BY <1>2, FixDEntryMends
    <2> HIDE DEF new
    <2>3. ASSUME fixing, Clean, SizeInv, NEW K
          PROVE  /\ Fits(Here) => Fits(new)
                 /\ WalkedTo(first, K, Top.dir, Here, Sector) => WalkedTo(first, K, Top.dir, new, Sector)
                 /\ WalkedTo(first, K, Top.dir, Here, Top.off) => WalkedTo(first, K, Top.dir, new, Sector)
      <3>1. This.len % Align = 0 /\ This.len < This.need /\ This.need >= Rest
        BY <2>3, <1>2, <1>6 DEF SizeInv
      <3>2. This.len >= Rest
        <4> SUFFICES ASSUME This.len < Rest PROVE FALSE
          BY <1>2
        <4> DEFINE old == first.dir[Top.dir][Top.k]
        <4>1. /\ Top.dir \in Reached(first) \cap DOMAIN first.dir /\ Top.k \in 1 .. Len(first.dir[Top.dir])
              /\ Top.off \in Parsed(old) /\ SectorMended(old, Here) /\ SectorOK(old, DOMAIN fs.inode)
          BY <1>2, TopFacts DEF HealthInv
        <4>2. Top.off \in DOMAIN old
          BY <4>1, ParsedFacts
        <4>3. This.need <= old[Top.off].need /\ (This.len >= old[Top.off].len \/ Top.off + This.len >= Sector)
          BY <4>1, <4>2, <1>2 DEF SectorMended
        <4>4. old[Top.off].len \in Nat /\ old[Top.off].need \in Nat /\ Top.off \in Nat /\ Sector \in Nat
          BY <4>1, <4>2, SectorFacts, FsckFacts
        <4> HIDE DEF old
        <4>5. old[Top.off].len < old[Top.off].need /\ old[Top.off].need >= Sector - Top.off
          <5>1. Rest = Sector - Top.off /\ This.len \in Nat /\ This.need \in Nat
            BY <1>2 DEF Rest
          <5> QED
            BY <5>1, <3>1, <4>3, <4>4
        <4>6. Skipping(first)
          BY <4>1, <4>5 DEF Skipping, old
        <4> QED
          BY <4>6, <2>3 DEF Clean
      <3>3. Here[Top.off].len >= Sector - Top.off
        BY <3>2, <1>2 DEF Rest
      <3> QED
        BY <3>1, <3>3, <1>2, FixDEntryTest DEF new
    <2>4. Top.off + Rest = Sector
      BY <1>1, WalkingFacts
    <2>5. fixing => TestSound(new, "next", Rest)
      BY <1>2, <2>3, <2>4 DEF TestSound
    <2> QED
      BY <2>1, <2>2, <2>5, <1>1, <1>2, TestNames, MendSound
  <1> QED
    BY <1>4, <1>5, <1>6

LEMMA CheckEndSound ==
  ASSUME HealthInv, SoundInv, CheckEnd
  PROVE  SoundInv'
  <1>1. Walking("ends") /\ UNCHANGED <<first, fixing, pc, seg, map, stopFlag>>
    BY DEF CheckEnd
  <1>2. /\ pc = "walk" /\ stack # <<>> /\ Top.off # Sector /\ Top.at = "ends" /\ Top.off \in DOMAIN Here
        /\ SectorOK(Here, DOMAIN fs.inode) /\ Rest \in Nat /\ Top.size \in Nat /\ Top \in Spots
        /\ This = Here[Top.off] /\ Ahead(Top) = Top.off /\ This.need \in Nat /\ This.len \in Nat
    BY <1>1, WalkingFacts DEF Ahead
  <1>4. CASE Top.size <= Rest
    <2>1. Fine /\ Turn([Top EXCEPT !.at = "file"])
      BY <1>4 DEF CheckEnd
    <2>2. [Top EXCEPT !.at = "file"] = TurnTo(Top, "file", Top.size)
      BY <1>2 DEF Spots, TurnTo
    <2>3. TestSound(Here, "file", Top.size)
      BY <1>2, <1>4 DEF TestSound, SizeInv
    <2> QED
      BY <2>1, <2>2, <2>3, <1>1, <1>2, TestNames, FineSound
  <1>5. CASE ~(Top.size <= Rest)
    <2> DEFINE new == FixDEntry(Here, Top.off)
    <2>1. Fix(SetHere(new)) /\ Turn(TurnTo(Top, "next", Rest))
      BY <1>5 DEF CheckEnd, TurnTo
    <2>2. OneMend(Here, new, DOMAIN fs.inode)
      BY <1>2, FixDEntryMends
    <2> HIDE DEF new
    <2>3. ASSUME SizeInv, NEW K
          PROVE  /\ Fits(Here) => Fits(new)
                 /\ WalkedTo(first, K, Top.dir, Here, Sector) => WalkedTo(first, K, Top.dir, new, Sector)
                 /\ WalkedTo(first, K, Top.dir, Here, Top.off) => WalkedTo(first, K, Top.dir, new, Sector)
      <3>1. This.len % Align = 0 /\ This.len > Rest
        BY <2>3, <1>2, <1>5 DEF SizeInv
      <3>2. Here[Top.off].len >= Sector - Top.off
        BY <3>1, <1>2 DEF Rest
      <3> QED
        BY <3>1, <3>2, <1>2, FixDEntryTest DEF new
    <2>4. Top.off + Rest = Sector
      BY <1>1, WalkingFacts
    <2>5. fixing => TestSound(new, "next", Rest)
      BY <1>2, <2>3, <2>4 DEF TestSound
    <2> QED
      BY <2>1, <2>2, <2>5, <1>1, <1>2, TestNames, MendSound
  <1> QED
    BY <1>4, <1>5

\* The end of the entry that is looked at, in a check that has left no error.
LEMMA ThisEnds ==
  ASSUME HealthInv, SizeInv, Walking("file")
  PROVE  /\ Top.size = Here[Top.off].len /\ Top.off + Here[Top.off].len \in DOMAIN Here \cup {Sector}
         /\ Here[Top.off].len % Align = 0 /\ Here[Top.off].len >= Here[Top.off].need
  <1>1. pc = "walk" /\ stack # <<>> /\ Top.at = "file" /\ PlaceOK(Top) /\ TreeInv /\ PathInv
    BY WalkingFacts
  <1>2. Top.size = Here[Top.off].len /\ Here[Top.off].len % Align = 0 /\ Here[Top.off].len >= Here[Top.off].need
    BY <1>1 DEF SizeInv, This
  <1>3. Top.off + Top.size \in Parsed(first.dir[Top.dir][Top.k]) \cup {Sector}
    BY <1>1 DEF PlaceOK, Offsets
  <1>4. Parsed(first.dir[Top.dir][Top.k]) \subseteq DOMAIN Here
    BY <1>1, TopFacts, ParsedFacts
  <1> QED
    BY <1>2, <1>3, <1>4

LEMMA CheckDotsSound ==
  ASSUME HealthInv, EntriesInv, SoundInv, CheckDots
  PROVE  SoundInv'
  <1> DEFINE target == IF This.name = "." THEN Top.dir ELSE Top.parent
  <1> DEFINE sec == Here
  <1> DEFINE off == Top.off
  <1> DEFINE new == [sec EXCEPT ![off].of = target]
  <1>1. /\ Walking("file") /\ UNCHANGED <<first, fixing, pc, seg, map, stopFlag>>
        /\ This.name \in Dots /\ (IF This.of = target THEN Fine ELSE Fix(SetHere(new)))
        /\ Turn([Top EXCEPT !.at = "next"])
    BY DEF CheckDots
  <1>2. /\ pc = "walk" /\ stack # <<>> /\ off # Sector /\ Top.at = "file" /\ off \in DOMAIN sec
        /\ SectorOK(sec, DOMAIN fs.inode) /\ Top.size \in Nat /\ Top \in Spots /\ Ahead(Top) = off
        /\ TreeInv /\ PathInv /\ off \in Nat
    BY <1>1, WalkingFacts DEF Ahead
  <1>4. [Top EXCEPT !.at = "next"] = TurnTo(Top, "next", Top.size)
    BY <1>2 DEF Spots, TurnTo
  <1>5. Turn(TurnTo(Top, "next", Top.size))
    BY <1>1, <1>4
  <1>6. Dotted(sec[off]) /\ sec[off] = This
    BY <1>1 DEF Dotted, This
  <1>7. target \in DOMAIN fs.inode /\ \A e : e.name = sec[off].name /\ e.of = target => LeadsRight(first, Top.dir, e)
    <2>1. Top.dir \in DOMAIN fs.dir /\ Top.parent \in DOMAIN fs.dir
      BY <1>2, TopFacts DEF TreeInv, Mended
    <2>2. DOMAIN fs.dir \subseteq DOMAIN fs.inode
      BY <1>2, TreeFacts DEF TreeInv
    <2>3. Top.parent \in UpOf(first, Top.dir)
      <3>1. Len(stack) \in 1 .. Len(stack) /\ Top = stack[Len(stack)]
        BY <1>2, TopFacts
      <3> QED
        BY <3>1 DEF EntriesInv, ParentInv
    <2>4. sec[off].name = "." => target = Top.dir
      BY <1>6
    <2>5. sec[off].name \in Up => target = Top.parent
      BY <1>6 DEF Up
    <2>6. target \in DOMAIN fs.inode
      BY <2>1, <2>2
    <2> HIDE DEF target
    <2> QED
      BY <2>3, <2>4, <2>5, <2>6 DEF LeadsRight
  <1> HIDE DEF target
  <1>8. CASE This.of = target
    <2>1. ASSUME SizeInv, NEW K, WalkedTo(first, K, Top.dir, sec, off)
          PROVE  WalkedTo(first, K, Top.dir, sec, off + Top.size)
      <3>1. EntryDone(first, K, Top.dir, sec[off])
        BY <2>1, <1>1, <1>6, <1>7, <1>8, ThisEnds DEF EntryDone, EntryTidy
      <3>2. Top.size = sec[off].len /\ off + sec[off].len \in DOMAIN sec \cup {Sector}
        BY <2>1, <1>1, ThisEnds
      <3> HIDE DEF sec, off
      <3> QED
        BY <2>1, <3>1, <3>2, <1>2, EntryPassed
    <2>2. TestSound(Here, "next", Top.size)
      BY <2>1, <1>2 DEF TestSound
    <2> QED
      BY <2>2, <1>1, <1>2, <1>5, <1>8, TestNames, FineSound
  <1>9. CASE This.of # target
    <2>0. DOMAIN new = DOMAIN sec /\ sec[off] \in EntryOf(DOMAIN fs.inode) /\ Parsed(sec) \subseteq DOMAIN sec /\ 0 \in DOMAIN sec
      BY <1>2, SectorFacts
    <2>1. /\ new[off].of = target /\ new[off].name = sec[off].name /\ new[off].len = sec[off].len /\ new[off].need = sec[off].need
          /\ \A p \in DOMAIN sec : p # off => new[p] = sec[p]
      BY <2>0, <1>2 DEF EntryOf
    <2>2. OneMend(sec, new, DOMAIN fs.inode)
      BY <1>2, <1>6, <1>7, TargetMends
    <2>3. Fix(SetHere(new))
      BY <1>1, <1>9
    <2> HIDE DEF new
    <2>4. \A p \in Parsed(sec) : new[p].len = sec[p].len /\ new[p].need = sec[p].need
      BY <2>0, <2>1
    <2>5. \A p \in Parsed(sec) : new[p].of = sec[p].of \/ new[p].of = None \/ LeadsRight(first, Top.dir, new[p])
      BY <2>0, <2>1, <1>7
    <2>6. Parsed(sec) \subseteq Parsed(new) /\ Parsed(new) \subseteq Parsed(sec) /\ SectorOK(new, DOMAIN fs.inode)
      BY <2>0, <2>2, <2>4, <1>2, ParsedStays, MendKeeps
    <2>7. ASSUME NEW K, NEW n, WalkedTo(first, K, Top.dir, sec, n)
          PROVE  WalkedTo(first, K, Top.dir, new, n)
      <3>1. n \in Parsed(sec) => n \in Parsed(new)
        BY <2>6
      <3> HIDE DEF sec, off
      <3> QED
        BY <2>2, <2>4, <2>5, <2>7, <3>1, <1>2, DoneStays
    <2>8. ASSUME SizeInv, NEW K, WalkedTo(first, K, Top.dir, sec, off)
          PROVE  WalkedTo(first, K, Top.dir, new, off + Top.size)
      <3>1. /\ Top.size = new[off].len /\ new[off].len % Align = 0 /\ new[off].len >= new[off].need
            /\ off + new[off].len \in DOMAIN new \cup {Sector}
        BY <2>0, <2>1, <2>8, <1>1, ThisEnds
      <3>2. EntryDone(first, K, Top.dir, new[off])
        BY <2>1, <3>1, <1>6, <1>7 DEF EntryDone, EntryTidy, Dotted
      <3>3. WalkedTo(first, K, Top.dir, new, off)
        BY <2>7, <2>8
      <3>4. off \in DOMAIN new
        BY <2>0, <1>2
      <3> HIDE DEF sec, off
      <3> QED
        BY <2>6, <3>1, <3>2, <3>3, <3>4, EntryPassed
    <2>9. Fits(sec) => Fits(new)
      BY <2>4, <2>6 DEF Fits
    <2>10. TestSound(new, "next", Top.size)
      BY <2>7, <2>8, <2>9, <1>2 DEF TestSound
    <2> QED
      BY <2>2, <2>3, <2>10, <1>1, <1>2, <1>5, TestNames, MendSound
  <1> QED
    BY <1>8, <1>9

LEMMA NextEntrySound ==
  ASSUME HealthInv, SoundInv, NextEntry
  PROVE  SoundInv'
  <1>0. PICK at \in {"next", "file"} : Walking(at) /\ (at = "file" => This.of = None)
    BY DEF NextEntry
  <1>1. /\ pc = "walk" /\ stack # <<>> /\ Top.off # Sector /\ Top.at = at /\ Top.off \in DOMAIN Here
        /\ SectorOK(Here, DOMAIN fs.inode) /\ Top.size \in Nat /\ Top \in Spots /\ Top.off \in Nat
    BY <1>0, WalkingFacts
  <1>7. PICK t : t = [Top EXCEPT !.off = Top.off + Top.size, !.at = "aligned"]
    OBVIOUS
  <1>2. Turn(t) /\ UNCHANGED <<fs, first, fixing, pc, seg, map, hasError, stopFlag>>
    BY <1>7 DEF NextEntry
  <1>3. t \in Spots /\ t.dir = Top.dir /\ t.k = Top.k /\ t.off = Top.off + Top.size /\ t.at = "aligned"
    <2>1. Top.off + Top.size \in Nat /\ "aligned" \in Tests
      BY <1>1, TestNames
    <2> QED
      BY <2>1, <1>1, <1>7 DEF Spots
  <1>4. OnlyHere(fs, fs', Top.dir, Top.k, Here)
    BY <1>2 DEF OnlyHere, Here, Sectors
  <1>5. Ahead(t) = Top.off + Top.size
    BY <1>3 DEF Ahead
  <1>6. ASSUME Clean, CheckInv, NEW K, WalkedTo(first, K, Top.dir, Here, Ahead(Top))
        PROVE  WalkedTo(first, K, Top.dir, Here, Ahead(t))
    <2>1. CASE at = "next"
      BY <2>1, <1>1, <1>5, <1>6 DEF Ahead
    <2>2. CASE at = "file"
      <3>1. SizeInv
        BY <1>1, <1>6 DEF CheckInv, Checking
      <3>2. /\ Top.size = Here[Top.off].len /\ Top.off + Here[Top.off].len \in DOMAIN Here \cup {Sector}
            /\ Here[Top.off].len % Align = 0 /\ Here[Top.off].len >= Here[Top.off].need
        BY <3>1, <2>2, <1>0, ThisEnds
      <3>3. EntryDone(first, K, Top.dir, Here[Top.off])
        BY <2>2, <3>2, <1>0 DEF EntryDone, EntryTidy, This
      <3>4. WalkedTo(first, K, Top.dir, Here, Top.off)
        BY <2>2, <1>1, <1>6 DEF Ahead
      <3>6. WalkedTo(first, K, Top.dir, Here, Top.off + Here[Top.off].len)
        BY <3>2, <3>3, <3>4, <1>1, EntryPassed
      <3> QED
        BY <3>2, <3>6, <1>5
    <2> QED
      BY <2>1, <2>2
  <1> QED
    BY <1>1, <1>2, <1>3, <1>4, <1>6, TurnSound

\* fsckCheckFile: the inode of the entry is known, and its segments are next.
LEMMA CheckFileSound ==
  ASSUME HealthInv, SoundInv, CheckFile
  PROVE  SoundInv'
  <1> DEFINE x == This.of
  <1> DEFINE off == Top.off
  <1>1. /\ Walking("file") /\ x # None /\ Turn([Top EXCEPT !.at = "next"])
        /\ UNCHANGED <<first, fixing, map, stopFlag>>
        /\ IF Len(stack) > MaxDepth - 1
           THEN NotFixed /\ UNCHANGED <<pc, seg>>
           ELSE /\ IF This.type = "file" /\ x \in fs.badAttrs
                   THEN Fix([fs EXCEPT !.badAttrs = @ \ {x}]) ELSE Fine
                /\ pc' = "segments" /\ seg' = [ino |-> x, i |-> 1]
    BY DEF CheckFile
  <1>2. /\ pc = "walk" /\ stack # <<>> /\ off # Sector /\ Top.at = "file" /\ off \in DOMAIN Here
        /\ SectorOK(Here, DOMAIN fs.inode) /\ Top.size \in Nat /\ Top \in Spots /\ Ahead(Top) = off
        /\ TreeInv /\ PathInv /\ KeptInv /\ off \in Nat
    BY <1>1, WalkingFacts DEF Ahead
  <1>3. CASE Len(stack) > MaxDepth - 1
    <2>1. fs' = fs /\ hasError' /\ pc' = pc
      BY <1>1, <1>3 DEF NotFixed
    <2>2. ResultInv'
      BY <2>1, <1>1, <1>2, ResultGoesOn DEF SoundInv
    <2> QED
      BY <2>1, <2>2, ErrorSound
  <1>4. CASE ~(Len(stack) > MaxDepth - 1)
    <2>1. pc' = "segments" /\ seg' = [ino |-> x, i |-> 1]
      BY <1>1, <1>4
    <2>2. /\ fs'.inode = fs.inode /\ fs'.dir = fs.dir /\ fs'.writeError = fs.writeError
          /\ hasError => hasError'
      <3>1. CASE fs' = fs
        BY <3>1, <1>1, <1>4 DEF Fix, Fixed, NotFixed, Fine
      <3>2. CASE fs' # fs
        <4>1. fs' = [fs EXCEPT !.badAttrs = @ \ {x}] /\ hasError' = hasError
          BY <3>2, <1>1, <1>4 DEF Fix, Fixed, NotFixed, Fine
        <4>2. SameRest(fs, fs') /\ fs'.inode = fs.inode /\ fs'.dir = fs.dir
          BY <4>1, <1>1, <1>2, AttrsSet
        <4> QED
          BY <4>1, <4>2 DEF SameRest
      <3> QED
        BY <3>1, <3>2
    <2>3. ResultInv'
      BY <2>1, <2>2, <1>1, <1>2, ResultGoesOn DEF SoundInv
    <2> SUFFICES ASSUME Clean' PROVE SizeInv' /\ FitsInv' /\ \E W : (WalkInv(W) /\ ZonesInv(W))'
      BY <2>3 DEF SoundInv, CheckInv
    <2>4. Clean /\ SizeInv /\ FitsInv /\ \E W : WalkInv(W) /\ ZonesInv(W)
      BY <2>2, <1>1, <1>2 DEF Clean, SoundInv, CheckInv, Checking
    <2>5. SizeInv'
      BY <2>1 DEF SizeInv
    <2>6. FitsInv'
      BY <2>2, <2>4, <1>1 DEF FitsInv
    <2>7. PICK W : WalkInv(W) /\ ZonesInv(W)
      BY <2>4
    <2>8. ZonesInv(W)'
      <3>1. seg'.i = 1
        BY <2>1
      <3> QED
        BY <2>1, <2>2, <2>7, <3>1, <1>1, <1>2, ZonesSame
    <2>9. PICK t : t = TurnTo(Top, "next", Top.size)
      OBVIOUS
    <2>10. [Top EXCEPT !.at = "next"] = t
      BY <2>9, <1>2 DEF Spots, TurnTo
    <2>11. /\ t \in Spots /\ t.dir = Top.dir /\ t.k = Top.k /\ t.off = Top.off /\ t.at = "next" /\ t.size = Top.size
           /\ Ahead(t) = Top.off + Top.size
      BY <2>9, <1>2, TestNames, TurnWhere
    <2>12. /\ Len(stack) \in Nat \ {0} /\ Top = stack[Len(stack)] /\ Top.dir \in DOMAIN fs.dir
           /\ Top.k \in 1 .. Len(fs.dir[Top.dir]) /\ Len(fs.dir[Top.dir]) \in Nat /\ stack \in Seq(Spots)
      BY <1>2, TopFacts, TreeFacts DEF PathInv, Sectors, TreeInv
    <2>13. stack' = [stack EXCEPT ![Len(stack)] = t]
      BY <2>10, <1>1 DEF Turn
    <2>14. Len(stack') = Len(stack) /\ stack'[Len(stack)] = t /\ \A n \in 1 .. Len(stack) : n # Len(stack) => stack'[n] = stack[n]
      BY <2>12, <2>13
    <2>15. WalkInv(W)'
      <3> DEFINE K == Known(W)
      <3> DEFINE L == W \cup {x}
      <3> DEFINE f0 == first
      <3>1. K = W /\ Known(W)' = L
        BY <2>1, <1>2 DEF Known
      <3>2. K \subseteq L
        BY <3>1
      <3>3. DirsDone(f0, K, W, fs, stack) /\ Root \in W /\ W \subseteq DOMAIN fs.inode
        BY <2>7, <1>2 DEF WalkInv
      <3>4. EntryDone(f0, L, Top.dir, Here[off])
        <4>1. This.name # "." /\ This.name \notin Up
          BY DEF CheckFile, Dots
        <4>2. Here[off].len % Align = 0 /\ Here[off].len >= Here[off].need
          BY <2>4, <1>1, ThisEnds
        <4> QED
          BY <4>1, <4>2 DEF EntryDone, EntryTidy, LeadsRight, This
      <3>5. Top.size = Here[off].len /\ off + Here[off].len \in DOMAIN Here \cup {Sector}
        BY <2>4, <1>1, ThisEnds
      <3>6. first' = f0
        BY <1>1
      <3> HIDE DEF K, L, f0
      <3>7. WalkedTo(f0, K, Top.dir, Here, off) => WalkedTo(f0, L, Top.dir, Here, off + Here[off].len)
        BY <3>1, <3>2, <3>4, <3>5, <1>2, EntryPassed
      <3>8. WalkedTo(f0, K, Top.dir, Here, Ahead(Top)) => WalkedTo(f0, L, Top.dir, Here, Ahead(t))
        BY <3>5, <3>7, <2>11, <1>2
      <3>9. OnlyHere(fs, fs', Top.dir, Top.k, Here)
        BY <2>2 DEF OnlyHere, Here, Sectors
      <3>10. /\ WalkedTo(f0, K, Top.dir, fs.dir[Top.dir][Top.k], Sector) => WalkedTo(f0, L, Top.dir, Here, Sector)
             /\ WalkedTo(f0, K, Top.dir, fs.dir[Top.dir][Top.k], Ahead(Top)) => WalkedTo(f0, L, Top.dir, Here, Ahead(t))
        BY <3>2, <3>8, DoneGrows DEF Here, Sectors
      <3>11. /\ DirDone(f0, K, fs, Top.dir) => DirDone(f0, L, fs', Top.dir)
             /\ DoneUpTo(f0, K, fs, Top) => DoneUpTo(f0, L, fs', t)
        BY <3>1, <3>2, <3>9, <3>10, <2>11, <2>12, HereDone
      <3>12. DirsDone(f0, L, W, fs', stack')
        BY <3>1, <3>2, <3>3, <3>11, <2>2, <2>11, <2>12, <2>14, DirsTurned
      <3>13. DirsDone(first', Known(W)', W, fs', stack')
        BY <3>1, <3>6, <3>12
      <3> QED
        BY <3>3, <3>13, <2>1, <2>2 DEF WalkInv
    <2> QED
      BY <2>5, <2>6, <2>8, <2>15
  <1> QED
    BY <1>3, <1>4

-----------------------------------------------------------------------------
(* From sector to sector, and out of a directory.                          *)

LEMMA SameFsSound ==
  ASSUME SoundInv, Checking, fs'.inode = fs.inode, fs'.dir = fs.dir, fs'.writeError = fs.writeError,
         first' = first, map' = map, hasError => hasError', stopFlag => stopFlag',
         pc \notin {"root", "segments"}, pc' \notin {"root", "segments"} \/ seg'.i = 1, pc' \notin {"ended", "closed", "finish"},
         Clean' => SizeInv' /\ \A W : WalkInv(W) => WalkInv(W)'
  PROVE  SoundInv'
  <1>1. ResultInv'
    BY ResultGoesOn DEF SoundInv, Checking
  <1> SUFFICES ASSUME Clean' PROVE SizeInv' /\ FitsInv' /\ \E W : (WalkInv(W) /\ ZonesInv(W))'
    BY <1>1 DEF SoundInv, CheckInv
  <1>2. Clean /\ FitsInv /\ \E W : WalkInv(W) /\ ZonesInv(W)
    BY DEF Clean, SoundInv, CheckInv
  <1>3. FitsInv'
    BY <1>2 DEF FitsInv
  <1>4. PICK W : WalkInv(W) /\ ZonesInv(W)
    BY <1>2
  <1>5. ZonesInv(W)'
    BY <1>4, ZonesSame
  <1> QED
    BY <1>3, <1>4, <1>5

\* The walk of a sector begins.
LEMMA SectorBegins ==
  ASSUME NEW f0, NEW K, NEW d, NEW sec, NEW inodes, SectorOK(sec, inodes)
  PROVE  WalkedTo(f0, K, d, sec, 0)
  <1>1. 0 \in Parsed(sec) /\ \A o \in Parsed(sec) : o \in Nat
    BY SectorFacts
  <1> QED
    BY <1>1 DEF WalkedTo

LEMMA NextSectorSound ==
  ASSUME HealthInv, SoundInv, NextSector
  PROVE  SoundInv'
  <1>1. /\ pc = "walk" /\ stack # <<>> /\ Top.off >= Sector /\ Top.k < Len(Sectors)
        /\ UNCHANGED <<first, fixing, pc, seg, map, stopFlag>>
        /\ IF DataZones(Segs(Top.dir)) > Top.k
           THEN Turn([Walk(Top.dir, Top.parent) EXCEPT !.k = Top.k + 1]) /\ Fine
           ELSE stack' = Front(stack) /\ NotFixed
    BY DEF NextSector
  <1>2. CASE ~(DataZones(Segs(Top.dir)) > Top.k)
    <2>1. fs' = fs /\ hasError'
      BY <1>1, <1>2 DEF NotFixed
    <2>2. ResultInv'
      BY <2>1, <1>1, ResultGoesOn DEF SoundInv
    <2> QED
      BY <2>1, <2>2, ErrorSound
  <1>3. CASE DataZones(Segs(Top.dir)) > Top.k
    <2>1. PICK t : t = [Walk(Top.dir, Top.parent) EXCEPT !.k = Top.k + 1]
      OBVIOUS
    <2>2. Turn(t) /\ fs' = fs /\ hasError' = hasError
      BY <2>1, <1>1, <1>3 DEF Fine
    <2>3. t.dir = Top.dir /\ t.k = Top.k + 1 /\ t.off = 0 /\ t.at = "aligned"
      BY <2>1 DEF Walk
    <2>4. /\ TreeInv /\ PathInv /\ Len(stack) \in Nat \ {0} /\ Top = stack[Len(stack)] /\ PlaceOK(Top)
          /\ Top.dir \in DOMAIN fs.dir /\ Top.k \in 1 .. Len(Sectors) /\ (Top.off < Sector <=> Top.off # Sector)
          /\ Sector \in Nat
      BY <1>1, TopFacts DEF HealthInv
    <2>5. Len(fs.dir[Top.dir]) \in Nat /\ stack \in Seq(Spots) /\ Top.off \in Nat
      BY <2>4, TreeFacts DEF PathInv, TreeInv, PlaceOK, Spots
    <2>6. Top.off = Sector /\ Top.at = "aligned"
      BY <1>1, <2>4, <2>5 DEF PlaceOK
    <2>7. Top.k + 1 \in 1 .. Len(fs.dir[Top.dir])
      BY <1>1, <2>4, <2>5 DEF Sectors
    <2>8. SectorOK(fs.dir[Top.dir][Top.k + 1], DOMAIN fs.inode)
      BY <2>4, <2>7, TreeFacts DEF TreeInv
    <2>9. stack' = [stack EXCEPT ![Len(stack)] = t]
      BY <2>2 DEF Turn
    <2>10. Len(stack') = Len(stack) /\ stack'[Len(stack)] = t /\ \A n \in 1 .. Len(stack) : n # Len(stack) => stack'[n] = stack[n]
      BY <2>4, <2>5, <2>9
    <2>11. Top' = t
      BY <2>4, <2>10 DEF Top, Last
    <2>12. SizeInv'
      BY <2>3, <2>11 DEF SizeInv
    <2>13. ASSUME NEW W, WalkInv(W) PROVE WalkInv(W)'
      <3> DEFINE K == Known(W)
      <3> DEFINE f0 == first
      <3>1. Known(W)' = K /\ first' = f0
        BY <1>1 DEF Known
      <3>2. DirsDone(f0, K, W, fs, stack) /\ Root \in W /\ W \subseteq DOMAIN fs.inode
        BY <2>13, <1>1 DEF WalkInv
      <3> HIDE DEF K, f0
      <3>3. DoneUpTo(f0, K, fs, Top) => DoneUpTo(f0, K, fs, t)
        <4> SUFFICES ASSUME DoneUpTo(f0, K, fs, Top) PROVE DoneUpTo(f0, K, fs, t)
          OBVIOUS
        <4>1. \A k \in 1 .. Top.k - 1 : WalkedTo(f0, K, Top.dir, fs.dir[Top.dir][k], Sector)
          BY DEF DoneUpTo
        <4>2. WalkedTo(f0, K, Top.dir, fs.dir[Top.dir][Top.k], Sector)
          BY <2>6 DEF DoneUpTo, Ahead
        <4>3. \A k \in 1 .. t.k - 1 : k = Top.k \/ k \in 1 .. Top.k - 1
          BY <2>3, <2>4
        <4>4. WalkedTo(f0, K, t.dir, fs.dir[t.dir][t.k], Ahead(t))
          BY <2>3, <2>8, SectorBegins DEF Ahead
        <4> QED
          BY <2>3, <4>1, <4>2, <4>3, <4>4 DEF DoneUpTo
      <3>4. DirsDone(f0, K, W, fs, stack')
        BY <3>1, <3>2, <3>3, <2>3, <2>4, <2>10, DirsTurned
      <3>5. DirsDone(first', Known(W)', W, fs', stack')
        BY <3>1, <3>4, <2>2
      <3> QED
        BY <3>2, <3>5, <1>1, <2>2 DEF WalkInv
    <2> QED
      BY <2>2, <2>12, <2>13, <1>1, SameFsSound DEF Checking
  <1> QED
    BY <1>2, <1>3

LEMMA LeaveDirectorySound ==
  ASSUME HealthInv, SoundInv, LeaveDirectory
  PROVE  SoundInv'
  <1>1. /\ pc = "walk" /\ stack # <<>> /\ stack' = Front(stack)
        /\ stopFlag \/ (Top.off >= Sector /\ Top.k = Len(Sectors))
        /\ UNCHANGED <<fs, first, fixing, pc, seg, map, hasError, fixed, stopFlag>>
    BY DEF LeaveDirectory
  <1>2. CASE stopFlag
    <2>1. ResultInv'
      BY <1>1, ResultGoesOn DEF SoundInv
    <2> QED
      BY <2>1, <1>1, <1>2, ErrorSound
  <1>3. CASE ~stopFlag
    <2>1. /\ TreeInv /\ PathInv /\ Len(stack) \in Nat \ {0} /\ Top = stack[Len(stack)] /\ PlaceOK(Top)
          /\ Top.k \in 1 .. Len(Sectors) /\ (Top.off < Sector <=> Top.off # Sector) /\ Sector \in Nat
      BY <1>1, TopFacts DEF HealthInv
    <2>2. stack \in Seq(Spots) /\ Top.off \in Nat
      BY <2>1 DEF PathInv, PlaceOK, Spots
    <2>3. Top.off = Sector /\ Top.at = "aligned" /\ Top.k = Len(fs.dir[Top.dir])
      BY <1>1, <1>3, <2>1, <2>2 DEF PlaceOK, Sectors
    <2> DEFINE l == Len(stack)
    <2>4. Len(stack') = l - 1 /\ \A n \in 1 .. l - 1 : stack'[n] = stack[n]
      BY <1>1, <2>1, <2>2, FrontFacts
    <2>5. SizeInv'
      <3> SUFFICES ASSUME stack' # <<>> PROVE Top'.at = "next"
        BY DEF SizeInv
      <3>0. stack' \in Seq(Spots)
        BY <1>1, <2>1, <2>2, FrontFacts
      <3>1. l - 1 \in 1 .. l - 1
        BY <3>0, <2>1, <2>4
      <3>2. Top' = stack[l - 1]
        BY <3>1, <2>4 DEF Top, Last
      <3>3. l - 1 \in 1 .. l /\ l - 1 < l
        BY <3>1, <2>1
      <3> QED
        BY <3>2, <3>3, <2>1 DEF PathInv
    <2>6. ASSUME NEW W, WalkInv(W) PROVE WalkInv(W)'
      <3> DEFINE K == Known(W)
      <3> DEFINE f0 == first
      <3>1. Known(W)' = K /\ first' = f0
        BY <1>1 DEF Known
      <3>2. DirsDone(f0, K, W, fs, stack) /\ Root \in W /\ W \subseteq DOMAIN fs.inode
        BY <2>6, <1>1 DEF WalkInv
      <3> HIDE DEF K, f0
      <3>3. ASSUME DoneUpTo(f0, K, fs, Top) PROVE DirDone(f0, K, fs, Top.dir)
        <4>1. \A k \in 1 .. Top.k - 1 : WalkedTo(f0, K, Top.dir, fs.dir[Top.dir][k], Sector)
          BY <3>3 DEF DoneUpTo
        <4>2. WalkedTo(f0, K, Top.dir, fs.dir[Top.dir][Top.k], Sector)
          BY <2>3, <3>3 DEF DoneUpTo, Ahead
        <4>3. \A k \in 1 .. Top.k : k = Top.k \/ k \in 1 .. Top.k - 1
          BY <2>1
        <4> QED
          BY <2>3, <4>1, <4>2, <4>3 DEF DirDone
      <3>4. DirsDone(f0, K, W, fs, stack')
        <4> SUFFICES ASSUME NEW d \in W \cap DOMAIN fs.dir, ~DirDone(f0, K, fs, d)
                     PROVE  \E n \in 1 .. Len(stack') :
                              /\ stack'[n].dir = d /\ \A m \in n + 1 .. Len(stack') : stack'[m].dir # d
                              /\ DoneUpTo(f0, K, fs, stack'[n])
          BY DEF DirsDone
        <4>1. PICK n \in 1 .. l : stack[n].dir = d /\ (\A m \in n + 1 .. l : stack[m].dir # d) /\ DoneUpTo(f0, K, fs, stack[n])
          BY <3>2 DEF DirsDone
        <4>2. n # l
          BY <4>1, <3>3, <2>1
        <4>3. n \in 1 .. l - 1 /\ \A m \in n + 1 .. l - 1 : m \in n + 1 .. l /\ m \in 1 .. l - 1
          BY <4>2, <2>1
        <4>4. stack'[n] = stack[n] /\ \A m \in n + 1 .. l - 1 : stack'[m] = stack[m]
          BY <4>3, <2>4
        <4> QED
          BY <4>1, <4>3, <4>4, <2>4
      <3>5. DirsDone(first', Known(W)', W, fs', stack')
        BY <3>1, <3>4, <1>1
      <3> QED
        BY <3>2, <3>5, <1>1 DEF WalkInv
    <2> QED
      BY <2>5, <2>6, <1>1, SameFsSound DEF Checking
  <1> QED
    BY <1>2, <1>3

LEMMA RootCheckedSound ==
  ASSUME HealthInv, SoundInv, RootChecked
  PROVE  SoundInv'
  <1>1. /\ pc = "rootchecked" /\ stack' = <<Walk(Root, Root)>> /\ pc' = "walk"
        /\ UNCHANGED <<fs, first, fixing, seg, map, hasError, fixed, stopFlag>>
    BY DEF RootChecked
  <1>2. Walk(Root, Root).dir = Root /\ Walk(Root, Root).k = 1 /\ Ahead(Walk(Root, Root)) = 0 /\ Walk(Root, Root).at = "aligned"
    BY DEF Walk, Ahead
  <1>3. Len(stack') = 1 /\ stack'[1] = Walk(Root, Root) /\ Top' = Walk(Root, Root)
    BY <1>1 DEF Top, Last
  <1>4. SizeInv'
    BY <1>2, <1>3 DEF SizeInv
  <1>5. Root \in DOMAIN fs.dir /\ SectorOK(fs.dir[Root][1], DOMAIN fs.inode)
    <2>1. WellFormed(fs)
      BY DEF HealthInv, TreeInv
    <2>2. Root \in DOMAIN fs.dir /\ Len(fs.dir[Root]) \in Nat \ {0}
      BY <2>1, TreeFacts
    <2>3. 1 \in 1 .. Len(fs.dir[Root])
      BY <2>2
    <2> QED
      BY <2>1, <2>2, <2>3, TreeFacts
  <1>6. ASSUME NEW W, WalkInv(W) PROVE WalkInv(W)'
    <2>1. W = {Root} /\ W \subseteq DOMAIN fs.inode
      BY <1>1, <1>6 DEF WalkInv
    <2>2. ASSUME NEW f0, NEW K PROVE DirsDone(f0, K, W, fs, stack')
      <3>1. WalkedTo(f0, K, Root, fs.dir[Root][1], 0)
        BY <1>5, SectorBegins
      <3>2. DoneUpTo(f0, K, fs, stack'[1])
        BY <3>1, <1>2, <1>3 DEF DoneUpTo
      <3> QED
        BY <3>2, <2>1, <1>2, <1>3 DEF DirsDone
    <2>3. DirsDone(first', Known(W)', W, fs', stack')
      BY <2>2, <1>1
    <2> QED
      BY <2>1, <2>3, <1>1 DEF WalkInv
  <1> QED
    BY <1>1, <1>4, <1>6, SameFsSound DEF Checking

-----------------------------------------------------------------------------
(* The segments of an inode.                                               *)

\* The inode is done: its segments end before the one that was looked at.
LEMMA ZonesReturn ==
  ASSUME SegInv, TreeInv, pc \in {"root", "segments"}, pc' \notin {"root", "segments"}, map \subseteq map',
         DOMAIN fs'.inode = DOMAIN fs.inode, NEW W, ZonesInv(W),
         \A y \in DOMAIN fs.inode : y # seg.ino => fs'.inode[y].segs = fs.inode[y].segs,
         Len(fs'.inode[seg.ino].segs) = seg.i - 1,
         \A i \in 1 .. seg.i - 1 : fs'.inode[seg.ino].segs[i] = fs.inode[seg.ino].segs[i],
         NEW V, V = W \cup {seg.ino}
  PROVE  ZonesInv(V)'
  <1>1. ASSUME NEW x \in DOMAIN fs.inode, NEW i, Zoned(V, x, i)'
        PROVE  Zoned(W, x, i) /\ Segs(x)'[i] = Segs(x)[i]
    <2>1. x \in V /\ i \in 1 .. Len(fs'.inode[x].segs)
      BY <1>1 DEF Zoned, Segs
    <2>2. CASE x = seg.ino
      BY <2>1, <2>2 DEF Zoned, Segs
    <2>3. CASE x # seg.ino
      BY <2>1, <2>3 DEF Zoned, Segs
    <2> QED
      BY <2>2, <2>3
  <1>2. \A s \in Subs : \A z \in Reserved[s] : PlaceOf(s, z) \in map'
    BY DEF ZonesInv
  <1>3. ASSUME NEW x \in DOMAIN fs.inode, NEW i \in Nat, Zoned(V, x, i)'
        PROVE  /\ ~BadZone(Segs(x)'[i])
               /\ \A z \in Zones(Segs(x)'[i]) :
                    z \notin Reserved[Segs(x)'[i].sub] /\ PlaceOf(Segs(x)'[i].sub, z) \in map'
    <2>1. Zoned(W, x, i) /\ Segs(x)'[i] = Segs(x)[i]
      BY <1>1, <1>3
    <2>2. /\ ~BadZone(Segs(x)[i])
          /\ \A z \in Zones(Segs(x)[i]) : z \notin Reserved[Segs(x)[i].sub] /\ PlaceOf(Segs(x)[i].sub, z) \in map
      BY <2>1 DEF ZonesInv
    <2> QED
      BY <2>1, <2>2
  <1>4. ASSUME NEW x \in DOMAIN fs.inode, NEW y \in DOMAIN fs.inode, NEW i \in Nat, NEW j \in Nat,
               Zoned(V, x, i)', Zoned(V, y, j)', x # y \/ i # j
        PROVE  Covers(Segs(x)'[i]) \cap Covers(Segs(y)'[j]) = {}
    <2>1. Zoned(W, x, i) /\ Segs(x)'[i] = Segs(x)[i] /\ Zoned(W, y, j) /\ Segs(y)'[j] = Segs(y)[j]
      BY <1>1, <1>4
    <2>2. Covers(Segs(x)[i]) \cap Covers(Segs(y)[j]) = {}
      BY <2>1, <1>4 DEF ZonesInv
    <2> QED
      BY <2>1, <2>2
  <1>5. /\ \A x \in DOMAIN fs'.inode : \A i \in Nat : Zoned(V, x, i)' =>
             /\ ~BadZone(Segs(x)'[i])
             /\ \A z \in Zones(Segs(x)'[i]) :
                    z \notin Reserved[Segs(x)'[i].sub] /\ PlaceOf(Segs(x)'[i].sub, z) \in map'
        /\ \A x, y \in DOMAIN fs'.inode : \A i, j \in Nat :
             Zoned(V, x, i)' /\ Zoned(V, y, j)' /\ (x # y \/ i # j) => Covers(Segs(x)'[i]) \cap Covers(Segs(y)'[j]) = {}
    BY <1>3, <1>4
  <1> QED
    BY <1>2, <1>5 DEF ZonesInv, PlaceOf, BadZone, Zones, Covers

Appended(path, new, d, p) ==
    /\ Len(path) \in Nat /\ Len(new) = Len(path) + 1
    /\ \A n \in 1 .. Len(path) : new[n] = path[n]
    /\ new[Len(path) + 1] = Walk(d, p)
LEMMA DirsAppended ==
  ASSUME NEW f0, NEW W, NEW K, NEW g, NEW path, DirsDone(f0, K, W, g, path),
         NEW d \in DOMAIN g.dir, NEW inodes, SectorOK(g.dir[d][1], inodes),
         NEW p, NEW new, Appended(path, new, d, p)
  PROVE  DirsDone(f0, K, W \cup {d}, g, new)
  <1> DEFINE l == Len(path)
  <1>0. l \in Nat /\ Len(new) = l + 1 /\ new[l + 1] = Walk(d, p) /\ \A n \in 1 .. l : new[n] = path[n]
    BY DEF Appended
  <1>1. Walk(d, p).dir = d /\ Walk(d, p).k = 1 /\ Ahead(Walk(d, p)) = 0
    BY DEF Walk, Ahead
  <1>2. WalkedTo(f0, K, d, g.dir[d][1], 0)
    BY SectorBegins
  <1>3. DoneUpTo(f0, K, g, new[l + 1])
    BY <1>0, <1>1, <1>2 DEF DoneUpTo
  <1>4. ASSUME NEW c \in W \cap DOMAIN g.dir, c # d
        PROVE  \/ DirDone(f0, K, g, c)
               \/ \E n \in 1 .. Len(new) :
                    /\ new[n].dir = c /\ \A m \in n + 1 .. Len(new) : new[m].dir # c
                    /\ DoneUpTo(f0, K, g, new[n])
    <2>1. CASE DirDone(f0, K, g, c)
      BY <2>1
    <2>2. CASE ~DirDone(f0, K, g, c)
      <3>1. PICK n \in 1 .. l : path[n].dir = c /\ (\A m \in n + 1 .. l : path[m].dir # c) /\ DoneUpTo(f0, K, g, path[n])
        BY <2>2 DEF DirsDone
      <3>2. n \in 1 .. l + 1 /\ \A m \in n + 1 .. l + 1 : m = l + 1 \/ (m \in n + 1 .. l /\ m \in 1 .. l)
        BY <1>0
      <3>3. \A m \in n + 1 .. l + 1 : new[m].dir # c
        BY <3>1, <3>2, <1>0, <1>1, <1>4
      <3>4. DoneUpTo(f0, K, g, new[n])
        BY <3>1, <1>0
      <3> QED
        BY <3>1, <3>2, <3>3, <3>4, <1>0
    <2> QED
      BY <2>1, <2>2
  <1>5. new[l + 1].dir = d /\ l + 1 \in 1 .. Len(new) /\ \A m \in (l + 1) + 1 .. Len(new) : new[m].dir # d
    BY <1>0, <1>1
  <1> QED
    BY <1>3, <1>4, <1>5 DEF DirsDone

LEMMA ReturnSound ==
  ASSUME HealthInv, EntriesInv, SoundInv, pc \in {"root", "segments"}, NEW good, Return(good),
         UNCHANGED <<first, stopFlag>>, hasError => hasError',
         fs'.dir = fs.dir, fs'.writeError = fs.writeError, DOMAIN fs'.inode = DOMAIN fs.inode,
         ~hasError' /\ ~stopFlag =>
            /\ map \subseteq map'
            /\ \A y \in DOMAIN fs.inode : y # seg.ino => fs'.inode[y].segs = fs.inode[y].segs
            /\ Len(fs'.inode[seg.ino].segs) = seg.i - 1
            /\ \A i \in 1 .. seg.i - 1 : fs'.inode[seg.ino].segs[i] = fs.inode[seg.ino].segs[i]
  PROVE  SoundInv'
  <1>1. /\ pc' \in {"walk", "rootchecked", "gaveup"} /\ (pc' = "walk" <=> pc = "segments")
        /\ stack' = IF pc = "segments" /\ fs.inode[seg.ino].mode = "dir"
                    THEN Append(stack, Walk(seg.ino, Last(stack).dir)) ELSE stack
    BY DEF Return, EntriesInv, TypeInv, Top
  <1>2. ResultInv'
    BY <1>1, ResultGoesOn DEF SoundInv
  <1> SUFFICES ASSUME Clean', pc' # "gaveup" PROVE SizeInv' /\ FitsInv' /\ \E W : (WalkInv(W) /\ ZonesInv(W))'
    BY <1>2 DEF SoundInv, CheckInv, Checking
  <1>3. Clean /\ FitsInv /\ \E W : WalkInv(W) /\ ZonesInv(W)
    BY DEF Clean, SoundInv, CheckInv, Checking
  <1>4. FitsInv'
    BY <1>3 DEF FitsInv
  <1>5. PICK W : WalkInv(W) /\ ZonesInv(W)
    BY <1>3
  <1>6. PICK V : V = W \cup {seg.ino}
    OBVIOUS
  <1>7. TreeInv /\ PathInv /\ SegInv
    BY DEF HealthInv
  <1>8. ZonesInv(V)'
    <2>1. ~hasError' /\ ~stopFlag /\ pc' \notin {"root", "segments"}
      BY <1>1 DEF Clean
    <2> QED
      BY <2>1, <1>5, <1>6, <1>7, ZonesReturn
  <1>9. seg.ino \in DOMAIN fs.inode /\ (pc = "root" => seg.ino = Root)
    BY <1>7 DEF SegInv, TreeInv, Mended
  <1>10. CASE pc = "root"
    <2>1. V = {Root} /\ pc' = "rootchecked"
      BY <1>1, <1>5, <1>6, <1>9, <1>10 DEF WalkInv
    <2>2. WalkInv(V)'
      BY <2>1, <1>9, <1>10 DEF WalkInv
    <2>3. SizeInv'
      BY <2>1 DEF SizeInv
    <2> QED
      BY <2>2, <2>3, <1>4, <1>8
  <1>11. CASE pc = "segments"
    <2> DEFINE l == Len(stack)
    <2>1. pc' = "walk" /\ l \in Nat \ {0} /\ Top = stack[l] /\ Top.at = "next" /\ stack \in Seq(Spots)
      BY <1>1, <1>7, <1>11, TopFacts DEF PathInv
    <2>2. PICK w : w = Walk(seg.ino, Last(stack).dir)
      OBVIOUS
    <2>3. w.at = "aligned"
      BY <2>2 DEF Walk
    <2>4. Known(W) = V /\ Known(V)' = V
      BY <2>1, <1>6, <1>11 DEF Known
    <2> DEFINE f0 == first
    <2>5. first' = f0
      OBVIOUS
    <2> HIDE DEF f0
    <2>6. DirsDone(f0, V, W, fs, stack) /\ Root \in W /\ W \subseteq DOMAIN fs.inode
      BY <2>4, <1>5, <1>11 DEF WalkInv, f0
    <2>7. CASE fs.inode[seg.ino].mode = "dir"
      <3>1. stack' = Append(stack, w)
        BY <2>2, <2>7, <1>1, <1>11
      <3>2. Len(stack') = l + 1 /\ stack'[l + 1] = w /\ \A n \in 1 .. l : stack'[n] = stack[n]
        BY <2>1, <3>1
      <3>3. Top' = w
        BY <3>2 DEF Top, Last
      <3>4. SizeInv'
        BY <2>3, <3>3 DEF SizeInv
      <3>5. seg.ino \in DOMAIN fs.dir /\ SectorOK(fs.dir[seg.ino][1], DOMAIN fs.inode)
        <4>1. WellFormed(fs)
          BY <1>7 DEF TreeInv
        <4>2. seg.ino \in DOMAIN fs.dir /\ Len(fs.dir[seg.ino]) \in Nat \ {0}
          BY <4>1, <2>7, <1>9, TreeFacts
        <4>3. 1 \in 1 .. Len(fs.dir[seg.ino])
          BY <4>2
        <4> QED
          BY <4>1, <4>2, <4>3, TreeFacts
      <3>6. DirsDone(f0, V, V, fs', stack')
        <4>1. l \in Nat /\ Len(stack) = l
          BY <2>1
        <4>2. Len(stack') = l + 1 /\ (\A n \in 1 .. l : stack'[n] = stack[n]) /\ stack'[l + 1] = Walk(seg.ino, Last(stack).dir)
          BY <2>2, <3>2
        <4>3. DirsDone(f0, V, W, fs, stack)
          BY <2>6
        <4>4. Appended(stack, stack', seg.ino, Last(stack).dir)
          BY <4>1, <4>2 DEF Appended
        <4>5. DirsDone(f0, V, W \cup {seg.ino}, fs, stack')
          BY <2>5, <4>3, <4>4, <3>5, DirsAppended
        <4> QED
          BY <4>5, <1>6 DEF DirsDone, DirDone, DoneUpTo
      <3>7. WalkInv(V)'
        <4>1. DirsDone(first', Known(V)', V, fs', stack')
          BY <3>6, <2>4, <2>5
        <4> QED
          BY <4>1, <2>1, <2>6, <1>6, <1>9 DEF WalkInv
      <3> QED
        BY <3>4, <3>7, <1>4, <1>8
    <2>8. CASE fs.inode[seg.ino].mode # "dir"
      <3>1. stack' = stack /\ Top' = Top
        BY <2>8, <1>1, <1>11 DEF Top, Last
      <3>2. SizeInv'
        BY <2>1, <3>1 DEF SizeInv
      <3>3. seg.ino \notin DOMAIN fs.dir
        BY <2>8, <1>7, <1>9, TreeFacts DEF TreeInv
      <3>4. DirsDone(f0, V, V, fs', stack')
        BY <2>6, <3>1, <3>3, <1>6 DEF DirsDone, DirDone, DoneUpTo
      <3>5. WalkInv(V)'
        <4>1. DirsDone(first', Known(V)', V, fs', stack')
          BY <3>4, <2>4, <2>5
        <4> QED
          BY <4>1, <2>1, <2>6, <1>6, <1>9 DEF WalkInv
      <3> QED
        BY <3>2, <3>5, <1>4, <1>8
    <2> QED
      BY <2>7, <2>8
  <1> QED
    BY <1>10, <1>11

\* What a place of the segment that is looked at has to do with the bitmap.
LEMMA BiPlaces ==
  ASSUME NEW bi \in [sub : Nat, num : Nat, cnt : Nat], ~BadZone(bi), Met(bi) = {}
  PROVE  /\ \A z \in Zones(bi) : PlaceOf(bi.sub, z) \in Marked(bi) /\ PlaceOf(bi.sub, z) \notin map
         /\ map \subseteq Marked(bi)
  <1>1. \A z \in Zones(bi) : PlaceOf(bi.sub, z) \in Global(bi.sub, Zones(bi))
    BY DEF Global, PlaceOf
  <1>2. Marked(bi) = map \cup Global(bi.sub, Zones(bi))
    BY DEF Marked
  <1>3. Global(bi.sub, Zones(bi)) \cap map = {}
    BY DEF Met
  <1> QED
    BY <1>1, <1>2, <1>3

LEMMA ZonesMarked ==
  ASSUME TreeInv, SegInv, AtSegment, ~BadZone(Bi), Met(Bi) = {}, map' = Marked(Bi), fs'.inode = fs.inode, pc' = pc,
         seg'.ino = seg.ino, seg'.i = seg.i + 1, NEW W, ZonesInv(W)
  PROVE  ZonesInv(W)'
  <1>1. /\ Bi \in [sub : Nat, num : Nat, cnt : Nat] /\ seg.ino \in DOMAIN fs.inode /\ seg.i \in Nat \ {0}
        /\ Bi = Segs(seg.ino)[seg.i]
    BY SegmentAt DEF Bi
  <1>2. /\ \A z \in Zones(Bi) : PlaceOf(Bi.sub, z) \in map' /\ PlaceOf(Bi.sub, z) \notin map
        /\ map \subseteq map' /\ Bi.sub \in Subs
    BY <1>1, BiPlaces, SoundFacts
  <1>3. \A x : Segs(x)' = Segs(x)
    BY DEF Segs
  <1>4. \A i \in 1 .. seg'.i - 1 : i \in 1 .. seg.i - 1 \/ i = seg.i
    BY <1>1
  <1>5. \A x, i : Zoned(W, x, i)' => Zoned(W, x, i) \/ (x = seg.ino /\ i = seg.i)
    BY <1>3, <1>4 DEF Zoned
  <1>6. ASSUME NEW s \in Subs, NEW z \in Reserved[s] PROVE PlaceOf(s, z) \in map'
    BY <1>2 DEF ZonesInv
  <1>7. ASSUME NEW x \in DOMAIN fs.inode, NEW i \in Nat, Zoned(W, x, i)'
        PROVE  /\ ~BadZone(Segs(x)[i])
               /\ \A z \in Zones(Segs(x)[i]) :
                    z \notin Reserved[Segs(x)[i].sub] /\ PlaceOf(Segs(x)[i].sub, z) \in map'
    <2>1. CASE Zoned(W, x, i)
      BY <2>1, <1>2 DEF ZonesInv
    <2>2. CASE x = seg.ino /\ i = seg.i
      <3>1. Segs(x)[i] = Bi
        BY <2>2, <1>1
      <3>2. \A z \in Zones(Bi) : z \notin Reserved[Bi.sub]
        BY <1>2 DEF ZonesInv
      <3> QED
        BY <3>1, <3>2, <1>2
    <2> QED
      BY <2>1, <2>2, <1>5, <1>7
  <1>8. ASSUME NEW y \in DOMAIN fs.inode, NEW j \in Nat, Zoned(W, y, j)
        PROVE  Covers(Bi) \cap Covers(Segs(y)[j]) = {}
    <2> SUFFICES ASSUME NEW b \in Covers(Bi), b \in Covers(Segs(y)[j]) PROVE FALSE
      OBVIOUS
    <2>1. PICK z \in Zones(Bi) : b = <<Bi.sub, z>>
      BY DEF Covers, Zones
    <2>2. PICK u \in Zones(Segs(y)[j]) : b = <<Segs(y)[j].sub, u>>
      BY DEF Covers, Zones
    <2>3. Bi.sub = Segs(y)[j].sub /\ z = u
      BY <2>1, <2>2
    <2>4. PlaceOf(Segs(y)[j].sub, u) \in map
      BY <2>2, <1>8 DEF ZonesInv
    <2> QED
      BY <2>1, <2>3, <2>4, <1>2
  <1>9. ASSUME NEW x \in DOMAIN fs.inode, NEW y \in DOMAIN fs.inode, NEW i \in Nat, NEW j \in Nat,
               Zoned(W, x, i)', Zoned(W, y, j)', x # y \/ i # j
        PROVE  Covers(Segs(x)[i]) \cap Covers(Segs(y)[j]) = {}
    <2>1. CASE Zoned(W, x, i) /\ Zoned(W, y, j)
      BY <2>1, <1>9 DEF ZonesInv
    <2>2. CASE Zoned(W, y, j) /\ x = seg.ino /\ i = seg.i
      BY <2>2, <1>1, <1>8
    <2>3. CASE Zoned(W, x, i) /\ y = seg.ino /\ j = seg.i
      <3>1. Covers(Bi) \cap Covers(Segs(x)[i]) = {}
        BY <2>3, <1>8
      <3> QED
        BY <3>1, <2>3, <1>1
    <2> QED
      BY <2>1, <2>2, <2>3, <1>5, <1>9
  <1>10. /\ \A x \in DOMAIN fs'.inode : \A i \in Nat : Zoned(W, x, i)' =>
             /\ ~BadZone(Segs(x)'[i])
             /\ \A z \in Zones(Segs(x)'[i]) :
                    z \notin Reserved[Segs(x)'[i].sub] /\ PlaceOf(Segs(x)'[i].sub, z) \in map'
         /\ \A x, y \in DOMAIN fs'.inode : \A i, j \in Nat :
             Zoned(W, x, i)' /\ Zoned(W, y, j)' /\ (x # y \/ i # j) => Covers(Segs(x)'[i]) \cap Covers(Segs(y)'[j]) = {}
    BY <1>3, <1>7, <1>9
  <1> QED
    BY <1>6, <1>10 DEF ZonesInv, PlaceOf, BadZone, Zones, Covers

LEMMA CheckSegmentSound ==
  ASSUME HealthInv, EntriesInv, SoundInv, CheckSegment
  PROVE  SoundInv'
  <1>1. /\ AtSegment /\ Sound /\ Met(Bi) = {} /\ map' = Marked(Bi) /\ UNCHANGED <<first, fixing, stopFlag>>
        /\ IF Unmarked(Bi) = {} THEN Fine ELSE Fix(WithMarks(Bi))
        /\ Unmarked(Bi) = {} \/ fixing
        /\ IF stopFlag THEN Return(TRUE)
           ELSE seg' = [seg EXCEPT !.i = @ + 1] /\ UNCHANGED <<pc, stack>>
    BY DEF CheckSegment
  <1>2. TreeInv /\ SegInv /\ PathInv /\ pc \in {"root", "segments"}
    BY <1>1 DEF HealthInv, AtSegment
  <1>3. Bi \in [sub : Nat, num : Nat, cnt : Nat] /\ ~BadZone(Bi) /\ seg.i \in Nat \ {0}
    BY <1>1, <1>2, SegmentAt DEF Sound
  <1>4. PICK m : m = WithMarks(Bi)
    OBVIOUS
  <1>5. m.inode = fs.inode /\ m.dir = fs.dir /\ m.writeError = fs.writeError
    BY <1>2, <1>3, <1>4, MarksSet DEF TreeInv
  <1>6. hasError' = hasError /\ (fs' = fs \/ fs' = m)
    BY <1>1, <1>4 DEF Fine, Fix, Fixed
  <1>7. fs'.inode = fs.inode /\ fs'.dir = fs.dir /\ fs'.writeError = fs.writeError
    BY <1>5, <1>6
  <1>8. CASE stopFlag
    <2>1. pc' \in {"walk", "rootchecked", "gaveup"}
      BY <1>1, <1>8 DEF Return
    <2>2. ResultInv'
      BY <2>1, <1>1, <1>2, <1>7, ResultGoesOn DEF SoundInv
    <2> QED
      BY <2>2, <1>1, <1>8, ErrorSound
  <1>9. CASE ~stopFlag
    <2>1. seg' = [seg EXCEPT !.i = @ + 1] /\ UNCHANGED <<pc, stack>>
      BY <1>1, <1>9
    <2>2. seg'.ino = seg.ino /\ seg'.i = seg.i + 1
      BY <2>1, <1>2, <1>3 DEF SegInv
    <2>3. ResultInv'
      BY <2>1, <1>1, <1>2, <1>7, ResultGoesOn DEF SoundInv
    <2> SUFFICES ASSUME Clean' PROVE SizeInv' /\ FitsInv' /\ \E W : (WalkInv(W) /\ ZonesInv(W))'
      BY <2>3 DEF SoundInv, CheckInv
    <2>4. Clean /\ FitsInv /\ \E W : WalkInv(W) /\ ZonesInv(W)
      BY <1>1, <1>2, <1>6 DEF Clean, SoundInv, CheckInv, Checking
    <2>5. FitsInv'
      BY <2>4, <1>1, <1>7 DEF FitsInv
    <2>6. SizeInv'
      BY <2>1, <1>2 DEF SizeInv
    <2>7. PICK W : WalkInv(W) /\ ZonesInv(W)
      BY <2>4
    <2>8. ZonesInv(W)'
      BY <2>1, <2>2, <2>7, <1>1, <1>2, <1>3, <1>7, ZonesMarked
    <2>9. WalkInv(W)'
      <3>1. Known(W)' = Known(W)
        BY <2>1, <2>2 DEF Known
      <3>2. first' = first
        BY <1>1
      <3>3. DirsDone(first, Known(W), W, fs, stack) => DirsDone(first, Known(W), W, fs', stack)
        BY <1>7 DEF DirsDone, DirDone, DoneUpTo
      <3>4. DirsDone(first, Known(W), W, fs, stack) => DirsDone(first', Known(W)', W, fs', stack')
        BY <3>1, <3>2, <3>3, <2>1
      <3> QED
        BY <3>4, <2>1, <2>7, <1>7 DEF WalkInv
    <2> QED
      BY <2>5, <2>6, <2>8, <2>9
  <1> QED
    BY <1>8, <1>9

LEMMA CutBadSegmentSound ==
  ASSUME HealthInv, EntriesInv, SoundInv, CutBadSegment
  PROVE  SoundInv'
  <1>1. /\ AtSegment /\ Fix(CutTo(seg.ino, seg.i - 1))
        /\ Return(fixing \/ ~BadZone(Bi)) /\ UNCHANGED <<first, fixing, map, stopFlag>>
    BY DEF CutBadSegment
  <1>2. TreeInv /\ SegInv /\ pc \in {"root", "segments"}
    BY <1>1 DEF HealthInv, AtSegment
  <1>3. seg.ino \in DOMAIN fs.inode /\ seg.i - 1 \in Nat /\ seg.i - 1 <= Len(fs.inode[seg.ino].segs)
    BY <1>1, <1>2, SegmentAt
  <1>4. CASE ~fixing
    <2>1. fs' = fs /\ hasError' /\ pc' \in {"walk", "rootchecked", "gaveup"}
      BY <1>1, <1>4 DEF Fix, NotFixed, Return
    <2>2. ResultInv'
      BY <2>1, <1>1, <1>2, ResultGoesOn DEF SoundInv
    <2> QED
      BY <2>1, <2>2, ErrorSound
  <1>5. CASE fixing
    <2>1. fs' = WithSegments(fs, seg.ino, seg.i - 1) /\ hasError' = hasError
      BY <1>1, <1>5 DEF Fix, Fixed, CutTo, WithSegments
    <2>4. PICK g : g = WithSegments(fs, seg.ino, seg.i - 1)
      OBVIOUS
    <2>5. WellFormed(fs)
      BY <1>2 DEF TreeInv
    <2>6. /\ g.writeError = fs.writeError /\ g.dir = fs.dir /\ DOMAIN g.inode = DOMAIN fs.inode
          /\ \A y \in DOMAIN fs.inode : y # seg.ino => g.inode[y] = fs.inode[y]
          /\ Len(g.inode[seg.ino].segs) = seg.i - 1
          /\ \A i \in 1 .. seg.i - 1 : g.inode[seg.ino].segs[i] = fs.inode[seg.ino].segs[i]
      BY <2>4, <2>5, <1>3, InodeCut DEF SameRest
    <2>2. /\ fs'.writeError = fs.writeError /\ fs'.dir = fs.dir /\ DOMAIN fs'.inode = DOMAIN fs.inode
          /\ \A y \in DOMAIN fs.inode : y # seg.ino => fs'.inode[y] = fs.inode[y]
          /\ Len(fs'.inode[seg.ino].segs) = seg.i - 1
          /\ \A i \in 1 .. seg.i - 1 : fs'.inode[seg.ino].segs[i] = fs.inode[seg.ino].segs[i]
      BY <2>1, <2>4, <2>6
    <2>3. map \subseteq map' /\ UNCHANGED <<first, stopFlag>>
      BY <1>1
    <2> QED
      BY <2>1, <2>2, <2>3, <1>1, <1>2, ReturnSound
  <1> QED
    BY <1>4, <1>5

LEMMA LeaveUnmarkedSound ==
  ASSUME HealthInv, EntriesInv, SoundInv, LeaveUnmarked
  PROVE  SoundInv'
  <1>1. /\ AtSegment /\ fs' = fs /\ hasError' /\ pc' \in {"walk", "rootchecked", "gaveup"} /\ first' = first
    BY DEF LeaveUnmarked, NotFixed, Return
  <1>2. ResultInv'
    BY <1>1, ResultGoesOn DEF SoundInv, AtSegment
  <1> QED
    BY <1>1, <1>2, ErrorSound

LEMMA CutOverlapSound ==
  ASSUME HealthInv, EntriesInv, SoundInv, CutOverlap
  PROVE  SoundInv'
  <1>1. /\ AtSegment /\ Sound /\ Met(Bi) # {} /\ map' = Marked(Bi)
        /\ Fix([WithMarks(Bi) EXCEPT !.inode[seg.ino].segs = SubSeq(@, 1, seg.i - 1)])
        /\ Return(FALSE) /\ UNCHANGED <<first, fixing, stopFlag>>
    BY DEF CutOverlap
  <1>2. TreeInv /\ SegInv /\ pc \in {"root", "segments"}
    BY <1>1 DEF HealthInv, AtSegment
  <1>3. seg.ino \in DOMAIN fs.inode /\ seg.i - 1 \in Nat /\ seg.i - 1 <= Len(fs.inode[seg.ino].segs)
        /\ Bi \in [sub : Nat, num : Nat, cnt : Nat] /\ ~BadZone(Bi)
    BY <1>1, <1>2, SegmentAt DEF Sound
  <1>4. PICK m : m = WithMarks(Bi)
    OBVIOUS
  <1>5. WellFormed(m) /\ m.inode = fs.inode /\ m.dir = fs.dir /\ m.writeError = fs.writeError
    BY <1>2, <1>3, <1>4, MarksSet DEF TreeInv
  <1>6. CASE ~fixing
    <2>1. fs' = fs /\ hasError' /\ pc' \in {"walk", "rootchecked", "gaveup"}
      BY <1>1, <1>6 DEF Fix, NotFixed, Return
    <2>2. ResultInv'
      BY <2>1, <1>1, <1>2, ResultGoesOn DEF SoundInv
    <2> QED
      BY <2>1, <2>2, ErrorSound
  <1>7. CASE fixing
    <2>1. fs' = WithSegments(m, seg.ino, seg.i - 1) /\ hasError' = hasError
      BY <1>1, <1>4, <1>7 DEF Fix, Fixed, WithSegments
    <2>2. PICK g : g = fs'
      OBVIOUS
    <2>3. /\ SameRest(m, g) /\ g.dir = m.dir /\ DOMAIN g.inode = DOMAIN m.inode
          /\ \A y \in DOMAIN m.inode : y # seg.ino => g.inode[y] = m.inode[y]
          /\ Len(g.inode[seg.ino].segs) = seg.i - 1
          /\ \A i \in 1 .. seg.i - 1 : g.inode[seg.ino].segs[i] = m.inode[seg.ino].segs[i]
      <3>1. g = WithSegments(m, seg.ino, seg.i - 1)
        BY <2>1, <2>2
      <3>2. seg.ino \in DOMAIN m.inode /\ seg.i - 1 \in Nat /\ seg.i - 1 <= Len(m.inode[seg.ino].segs)
        BY <1>3, <1>5
      <3>3. PICK x : x = seg.ino
        OBVIOUS
      <3>4. PICK n : n = seg.i - 1
        OBVIOUS
      <3>5. WellFormed(m) /\ x \in DOMAIN m.inode /\ n \in Nat /\ n <= Len(m.inode[x].segs) /\ g = WithSegments(m, x, n)
        BY <3>1, <3>2, <3>3, <3>4, <1>5
      <3>6. /\ SameRest(m, g) /\ g.dir = m.dir /\ DOMAIN g.inode = DOMAIN m.inode
            /\ \A y \in DOMAIN m.inode : y # x => g.inode[y] = m.inode[y]
            /\ Len(g.inode[x].segs) = n
            /\ \A i \in 1 .. n : g.inode[x].segs[i] = m.inode[x].segs[i]
        BY <3>5, InodeCut
      <3> QED
        BY <3>3, <3>4, <3>6
    <2>4. /\ fs'.writeError = fs.writeError /\ fs'.dir = fs.dir /\ DOMAIN fs'.inode = DOMAIN fs.inode
          /\ \A y \in DOMAIN fs.inode : y # seg.ino => fs'.inode[y] = fs.inode[y]
          /\ Len(fs'.inode[seg.ino].segs) = seg.i - 1
          /\ \A i \in 1 .. seg.i - 1 : fs'.inode[seg.ino].segs[i] = fs.inode[seg.ino].segs[i]
      BY <2>2, <2>3, <1>5 DEF SameRest
    <2>5. map \subseteq map' /\ UNCHANGED <<first, stopFlag>>
      BY <1>1 DEF Marked
    <2> QED
      BY <2>1, <2>4, <2>5, <1>1, <1>2, ReturnSound
  <1> QED
    BY <1>6, <1>7

LEMMA SegmentsCheckedSound ==
  ASSUME HealthInv, EntriesInv, SoundInv, SegmentsChecked
  PROVE  SoundInv'
  <1>1. /\ pc \in {"root", "segments"} /\ Return(TRUE) /\ (~AtSegment \/ stopFlag)
        /\ UNCHANGED <<fs, first, fixing, map, hasError, fixed, stopFlag>>
    BY DEF SegmentsChecked
  <1>2. ASSUME ~hasError' /\ ~stopFlag
        PROVE  /\ map \subseteq map'
               /\ \A y \in DOMAIN fs.inode : y # seg.ino => fs'.inode[y].segs = fs.inode[y].segs
               /\ Len(fs'.inode[seg.ino].segs) = seg.i - 1
               /\ \A i \in 1 .. seg.i - 1 : fs'.inode[seg.ino].segs[i] = fs.inode[seg.ino].segs[i]
    <2>1. ~(seg.i <= Len(Segs(seg.ino))) /\ seg.i - 1 <= Len(Segs(seg.ino)) /\ seg.i \in Nat
      BY <1>1, <1>2 DEF AtSegment, HealthInv, SegInv
    <2>2. Len(Segs(seg.ino)) \in Nat
      <3>1. fs.inode[seg.ino].segs \in SegmentsOnDisk
        BY TreeFacts DEF HealthInv, TreeInv, SegInv, Mended
      <3> QED
        BY <3>1, OnDisk DEF Segs
    <2>3. Len(fs.inode[seg.ino].segs) = seg.i - 1
      BY <2>1, <2>2 DEF Segs
    <2> QED
      BY <2>3, <1>1
  <1> QED
    BY <1>1, <1>2, ReturnSound

-----------------------------------------------------------------------------
(* What comes before the walk and after it.                                *)

LEMMA FsckStartSound ==
  ASSUME HealthInv, SoundInv, FsckStart
  PROVE  SoundInv'
  <1>1. pc = "open" /\ pc' = "attribute" /\ UNCHANGED <<fs, first, fixing, stack, seg, map, hasError, fixed, stopFlag>>
    BY DEF FsckStart
  <1>2. \A W : WalkInv(W) => WalkInv(W)'
    BY <1>1 DEF WalkInv
  <1>3. SizeInv'
    BY <1>1 DEF SizeInv
  <1>4. Checking /\ pc \notin {"root", "segments"} /\ pc' \notin {"root", "segments", "ended", "closed", "finish"}
    BY <1>1 DEF Checking
  <1> QED
    BY <1>1, <1>2, <1>3, <1>4, SameFsSound

LEMMA CheckAttributeSound ==
  ASSUME HealthInv, SoundInv, CheckAttribute
  PROVE  SoundInv'
  <1>1. /\ pc = "attribute" /\ pc' = "root" /\ seg' = [ino |-> Root, i |-> 1]
        /\ IF fs.area THEN Fine ELSE Fix([fs EXCEPT !.area = TRUE])
        /\ UNCHANGED <<first, fixing, stack, map, stopFlag>>
    BY DEF CheckAttribute
  <1>2. PICK m : m = [fs EXCEPT !.area = TRUE]
    OBVIOUS
  <1>3. m.inode = fs.inode /\ m.dir = fs.dir /\ m.writeError = fs.writeError
    BY <1>2, AreaSet DEF HealthInv, TreeInv
  <1>4. (fs' = fs \/ fs' = m) /\ (hasError => hasError')
    BY <1>1, <1>2 DEF Fine, Fix, Fixed, NotFixed
  <1>5. fs'.inode = fs.inode /\ fs'.dir = fs.dir /\ fs'.writeError = fs.writeError
    BY <1>3, <1>4
  <1>6. \A W : WalkInv(W) => WalkInv(W)'
    BY <1>1, <1>5 DEF WalkInv
  <1>7. SizeInv'
    BY <1>1 DEF SizeInv
  <1>8. seg'.i = 1
    BY <1>1
  <1>9. Checking /\ pc \notin {"root", "segments"} /\ pc' \notin {"ended", "closed", "finish"}
    BY <1>1 DEF Checking
  <1> QED
    BY <1>1, <1>4, <1>5, <1>6, <1>7, <1>8, <1>9, SameFsSound

\* What is said of a filesystem is of its inodes, directories and main bitmap.
LEMMA SameSound ==
  ASSUME fs'.inode = fs.inode, fs'.dir = fs.dir
  PROVE  /\ Reached(fs') = Reached(fs)
         /\ \A f0 : DirsTidy(f0, fs) => DirsTidy(f0, fs')
         /\ fs'.bits = fs.bits => (FilesSound => FilesSound')
  <1>1. \A e : Named(fs', e) = Named(fs, e)
    BY DEF Named
  <1>2. \A d : Naming(fs', d) = Naming(fs, d)
    BY <1>1 DEF Naming
  <1>3. \A d : Children(fs', d) = Children(fs, d)
    BY <1>1, <1>2 DEF Children
  <1>4. \A X : Below(fs', X) = Below(fs, X)
    BY <1>3 DEF Below
  <1>5. Reached(fs') = Reached(fs)
    BY <1>4 DEF Reached
  <1>6. \A f0 : DirsTidy(f0, fs) => DirsTidy(f0, fs')
    BY <1>5 DEF DirsTidy
  <1>7. /\ \A x : Owned(fs', x) = Owned(fs, x)
        /\ \A x : InsideVolume(fs, x) => InsideVolume(fs', x)
    BY DEF Owned, InsideVolume
  <1>8. \A x : Alone(fs, x) => Alone(fs', x)
    BY <1>5, <1>7 DEF Alone
  <1>9. ASSUME fs'.bits = fs.bits, FilesSound PROVE FilesSound'
    BY <1>5, <1>7, <1>8, <1>9 DEF FilesSound
  <1> QED
    BY <1>5, <1>6, <1>9

LEMMA FsckStopSound ==
  ASSUME SoundInv, FsckStop
  PROVE  SoundInv'
  <1>1. Running /\ stopFlag' = TRUE /\ UNCHANGED <<fs, first, fixing, pc, stack, seg, map, hasError, fixed>>
    BY DEF FsckStop
  <1>2. pc' \notin {"ended", "closed"} /\ ~(Clean') /\ fs'.writeError = fs.writeError
    BY <1>1 DEF Running, Clean
  <1>3. ResultInv'
    BY <1>1, <1>2 DEF SoundInv, ResultInv
  <1> QED
    BY <1>1, <1>3, ErrorSound

LEMMA FsckCloseSound ==
  ASSUME HealthInv, SoundInv, FsckClose
  PROVE  SoundInv'
  <1>1. /\ pc \in {"ended", "gaveup"} /\ pc' = "closed" /\ UNCHANGED <<first, hasError, stopFlag>>
        /\ fs' = IF pc = "ended" THEN fs
                 ELSE [fs EXCEPT !.inode = first.inode, !.bits = first.bits, !.stray = first.stray]
    BY DEF FsckClose
  <1>2. CheckInv'
    BY <1>1 DEF CheckInv, Checking
  <1>3. CASE pc = "ended"
    <2>1. fs' = fs
      BY <1>1, <1>3
    <2>2. FilesSound => FilesSound'
      BY <2>1, SameSound
    <2>3. ResultInv'
      BY <2>1, <2>2, <1>1, <1>3 DEF SoundInv, ResultInv
    <2> QED
      BY <2>3, <1>2 DEF SoundInv
  <1>4. CASE pc = "gaveup"
    <2>1. FieldsOf(fs)
      BY WellFormedFields DEF HealthInv, TreeInv
    <2>2. fs'.writeError = fs.writeError
      BY <2>1, <1>1, <1>4 DEF FieldsOf, Fields
    <2>3. fs.writeError = first.writeError
      BY <1>4 DEF SoundInv, ResultInv
    <2>4. ResultInv'
      BY <2>2, <2>3, <1>1 DEF ResultInv
    <2> QED
      BY <2>4, <1>2 DEF SoundInv
  <1> QED
    BY <1>1, <1>3, <1>4

LEMMA FilesCheckedSound ==
  ASSUME SoundInv, FilesChecked
  PROVE  SoundInv'
  <1>1. /\ pc = "walk" /\ stack = <<>> /\ pc' = IF ~hasError /\ ~stopFlag THEN "compare" ELSE "finish"
        /\ UNCHANGED <<fs, first, fixing, stack, seg, map, hasError, fixed, stopFlag>>
    BY DEF FilesChecked
  <1>2. CASE hasError \/ stopFlag
    <2>1. fs.writeError = first.writeError /\ ~(Clean')
      BY <1>1, <1>2 DEF SoundInv, ResultInv, Clean
    <2>2. ResultInv'
      BY <2>1, <1>1, <1>2 DEF ResultInv
    <2> QED
      BY <2>2, <1>1, <1>2, ErrorSound
  <1>3. CASE ~hasError /\ ~stopFlag
    <2>1. pc' = "compare"
      BY <1>1, <1>3
    <2>2. ASSUME NEW W, WalkInv(W) PROVE WalkInv(W)'
      <3>1. Known(W)' = Known(W)
        BY <2>1, <1>1 DEF Known
      <3>2. first' = first
        BY <1>1
      <3>3. DirsDone(first, Known(W), W, fs, stack) => DirsDone(first', Known(W)', W, fs', stack')
        BY <3>1, <3>2, <1>1
      <3> QED
        BY <3>3, <2>1, <2>2, <1>1 DEF WalkInv
    <2>3. SizeInv'
      BY <2>1 DEF SizeInv
    <2>4. Checking /\ pc \notin {"root", "segments"} /\ pc' \notin {"root", "segments", "ended", "closed", "finish"}
      BY <2>1, <1>1 DEF Checking
    <2> QED
      BY <2>2, <2>3, <2>4, <1>1, SameFsSound
  <1> QED
    BY <1>2, <1>3

LEMMA FinishSound ==
  ASSUME HealthInv, SoundInv, Finish
  PROVE  SoundInv'
  <1>1. /\ pc = "finish" /\ pc' = "ended" /\ UNCHANGED <<first, hasError, stopFlag>>
        /\ fs' = [fs EXCEPT !.writeError = @ /\ (hasError \/ stopFlag), !.errorsFixed = @ \/ fixed]
    BY DEF Finish
  <1>2. FieldsOf(fs)
    BY WellFormedFields DEF HealthInv, TreeInv
  <1>3. PICK a, b : a = (fs.writeError /\ (hasError \/ stopFlag)) /\ b = (fs.errorsFixed \/ fixed)
    OBVIOUS
  <1>4. fs' = [fs EXCEPT !.writeError = a, !.errorsFixed = b]
    BY <1>1, <1>3
  <1>5. fs'.writeError = a /\ fs'.inode = fs.inode /\ fs'.dir = fs.dir /\ fs'.bits = fs.bits
    BY <1>2, <1>4 DEF FieldsOf, Fields
  <1>6. (DirsTidy(first, fs) => DirsTidy(first', fs')) /\ (FilesSound => FilesSound')
    BY <1>1, <1>5, SameSound
  <1>7. fs.writeError = first.writeError /\ (Clean => FilesSound) /\ (Clean => DirsTidy(first, fs))
    BY <1>1 DEF SoundInv, ResultInv
  <1>8. (Clean' <=> Clean) /\ (Skipping(first') <=> Skipping(first))
    BY <1>1 DEF Clean
  <1>9. ASSUME first'.writeError, ~fs'.writeError, ~Skipping(first') PROVE FilesSound'
    <2>1. ~(hasError \/ stopFlag)
      BY <1>1, <1>3, <1>5, <1>7, <1>9
    <2>2. Clean
      BY <2>1, <1>8, <1>9 DEF Clean
    <2> QED
      BY <2>2, <1>6, <1>7
  <1>10. ResultInv'
    BY <1>1, <1>6, <1>7, <1>8, <1>9 DEF ResultInv
  <1>11. CheckInv'
    BY <1>1 DEF CheckInv, Checking
  <1> QED
    BY <1>10, <1>11 DEF SoundInv

\* Nothing is walked, and what is reserved is in the bitmap.
LEMMA FsckOpenSound ==
  ASSUME FsckOpen
  PROVE  SoundInv'
  <1>1. pc' = "open" /\ first' = fs' /\ map' = UNION {Global(s, Reserved[s]) : s \in Subs}
    BY DEF FsckOpen
  <1>2. ResultInv'
    BY <1>1 DEF ResultInv
  <1>3. SizeInv'
    BY <1>1 DEF SizeInv
  <1>4. FitsInv'
    BY <1>1 DEF FitsInv
  <1>5. PICK W : W = {}
    OBVIOUS
  <1>6. WalkInv(W)'
    BY <1>1, <1>5 DEF WalkInv
  <1>7. ZonesInv(W)'
    <2>1. \A s \in Subs : \A z \in Reserved[s] : PlaceOf(s, z) \in map'
      BY <1>1 DEF PlaceOf, Global
    <2>2. \A x, i : ~(Zoned(W, x, i)')
      BY <1>1, <1>5 DEF Zoned
    <2> QED
      BY <2>1, <2>2 DEF ZonesInv
  <1> QED
    BY <1>2, <1>3, <1>4, <1>6, <1>7 DEF SoundInv, CheckInv

LEMMA InitSound ==
  ASSUME Init
  PROVE  SoundInv
  <1>1. pc = "closed" /\ first = fs
    BY DEF Init
  <1> QED
    BY <1>1 DEF SoundInv, CheckInv, Checking, ResultInv

\* What the root leads to was walked, and its directories are tidy.
LEMMA WalkComplete ==
  ASSUME WellFormed(fs), NEW f0, NEW W \in SUBSET DOMAIN fs.inode, Root \in W,
         \A d \in W \cap DOMAIN fs.dir : DirDone(f0, W, fs, d),
         \A d \in DOMAIN fs.dir : \A k \in 1 .. Len(fs.dir[d]) : Fits(f0.dir[d][k]) => Fits(fs.dir[d][k])
  PROVE  Reached(fs) \subseteq W /\ DirsTidy(f0, fs)
  <1>1. ASSUME NEW d \in W \cap DOMAIN fs.dir, NEW k \in 1 .. Len(fs.dir[d])
        PROVE  /\ WalkedTo(f0, W, d, fs.dir[d][k], Sector)
               /\ \A o \in Parsed(fs.dir[d][k]) : o < Sector /\ EntryDone(f0, W, d, fs.dir[d][k][o])
               /\ Sector \notin Parsed(fs.dir[d][k])
    <2>1. WalkedTo(f0, W, d, fs.dir[d][k], Sector)
      BY DEF DirDone
    <2>2. SectorOK(fs.dir[d][k], DOMAIN fs.inode)
      BY TreeFacts
    <2>3. Sector \notin Parsed(fs.dir[d][k]) /\ \A o \in Parsed(fs.dir[d][k]) : o < Sector
      BY <2>2, SectorFacts
    <2> QED
      BY <2>1, <2>3 DEF WalkedTo
  <1>2. ASSUME NEW d \in W \cap DOMAIN fs.dir PROVE Children(fs, d) \subseteq W
    <2> SUFFICES ASSUME NEW e \in Naming(fs, d) PROVE Named(fs, e) \in W
      BY DEF Children
    <2>1. PICK k \in 1 .. Len(fs.dir[d]) : e \in {<<d, k, o>> : o \in Parsed(fs.dir[d][k])}
      BY DEF Naming
    <2>2. PICK o \in Parsed(fs.dir[d][k]) : e = <<d, k, o>>
      BY <2>1
    <2>3. Named(fs, e) # None /\ fs.dir[d][e[2]][e[3]].name \notin Dots
      BY DEF Naming
    <2>4. Named(fs, e) = fs.dir[d][k][o].of /\ fs.dir[d][k][o].name \notin Dots
      BY <2>2, <2>3 DEF Named
    <2>5. EntryDone(f0, W, d, fs.dir[d][k][o])
      BY <1>1
    <2> QED
      BY <2>3, <2>4, <2>5 DEF EntryDone, Dotted
  <1>3. Reached(fs) \subseteq W
    BY <1>2, BelowLeast DEF Reached
  <1>4. ASSUME NEW d \in Reached(fs) \cap DOMAIN fs.dir, NEW k \in 1 .. Len(fs.dir[d])
        PROVE  /\ \A o \in Parsed(fs.dir[d][k]) : EntryTidy(f0, d, fs.dir[d][k][o])
               /\ Fits(f0.dir[d][k]) => Closed(fs.dir[d][k])
    <2>1. d \in W \cap DOMAIN fs.dir
      BY <1>3
    <2>2. /\ WalkedTo(f0, W, d, fs.dir[d][k], Sector) /\ Sector \notin Parsed(fs.dir[d][k])
          /\ \A o \in Parsed(fs.dir[d][k]) : EntryDone(f0, W, d, fs.dir[d][k][o])
      BY <2>1, <1>1
    <2>3. Fits(fs.dir[d][k]) => Closed(fs.dir[d][k])
      BY <2>2 DEF WalkedTo
    <2> QED
      BY <2>2, <2>3 DEF EntryDone
  <1> QED
    BY <1>3, <1>4 DEF DirsTidy

\* What was checked has no other owner, and the bitmap that was made has it.
LEMMA ZonesSound ==
  ASSUME WellFormed(fs), NEW W \in SUBSET DOMAIN fs.inode, ZonesInv(W), Reached(fs) \subseteq W, NEW x \in Reached(fs)
  PROVE  /\ InsideVolume(fs, x) /\ Alone(fs, x)
         /\ \A z \in Owned(fs, x) : z[1] = 0 => z[2] \in Made(0)
  <1>1. ASSUME NEW y \in Reached(fs), NEW i \in 1 .. Len(fs.inode[y].segs)
        PROVE  /\ i \in Nat /\ Zoned(W, y, i) /\ Segs(y)[i] = fs.inode[y].segs[i]
               /\ fs.inode[y].segs[i] \in [sub : Nat, num : Nat, cnt : Nat]
    <2>1. y \in W /\ y \in DOMAIN fs.inode
      OBVIOUS
    <2>2. fs.inode[y].segs \in SegmentsOnDisk
      BY <2>1, TreeFacts
    <2> QED
      BY <2>1, <2>2, OnDisk DEF Zoned, Segs
  <1>2. ASSUME NEW i \in 1 .. Len(fs.inode[x].segs)
        PROVE  LET bi == fs.inode[x].segs[i]
               IN  /\ bi.sub \in Subs /\ bi.cnt > 0 /\ \A z \in Zones(bi) : z \in FirstZone .. Size[bi.sub] - 1
                   /\ \A z \in Zones(bi) : z \notin Reserved[bi.sub] /\ PlaceOf(bi.sub, z) \in map /\ z \in ZonesOf(bi.sub)
    <2> DEFINE bi == fs.inode[x].segs[i]
    <2>1. Zoned(W, x, i) /\ Segs(x)[i] = bi /\ i \in Nat /\ bi \in [sub : Nat, num : Nat, cnt : Nat] /\ x \in DOMAIN fs.inode
      BY <1>1
    <2>2. ~BadZone(bi) /\ \A z \in Zones(bi) : z \notin Reserved[bi.sub] /\ PlaceOf(bi.sub, z) \in map
      BY <2>1 DEF ZonesInv
    <2> HIDE DEF bi
    <2>3. bi.sub \in Subs /\ bi.cnt > 0 /\ Zones(bi) \subseteq ZonesOf(bi.sub) /\ \A z \in Zones(bi) : z \in FirstZone .. Size[bi.sub] - 1
      BY <2>1, <2>2, SoundFacts
    <2> QED
      BY <2>2, <2>3 DEF bi
  <1>3. InsideVolume(fs, x)
    BY <1>2 DEF InsideVolume
  <1>4. ASSUME NEW y \in Reached(fs), NEW i \in 1 .. Len(fs.inode[x].segs), NEW j \in 1 .. Len(fs.inode[y].segs), x # y \/ i # j
        PROVE  Covers(fs.inode[x].segs[i]) \cap Covers(fs.inode[y].segs[j]) = {}
    <2>1. /\ Zoned(W, x, i) /\ Segs(x)[i] = fs.inode[x].segs[i] /\ i \in Nat
          /\ Zoned(W, y, j) /\ Segs(y)[j] = fs.inode[y].segs[j] /\ j \in Nat
          /\ x \in DOMAIN fs.inode /\ y \in DOMAIN fs.inode
      BY <1>1
    <2>2. Covers(Segs(x)[i]) \cap Covers(Segs(y)[j]) = {}
      BY <2>1, <1>4 DEF ZonesInv
    <2> QED
      BY <2>1, <2>2
  <1>5. ASSUME NEW z \in Owned(fs, x)
        PROVE  z[2] \notin Reserved[z[1]] /\ (z[1] = 0 => z[2] \in Made(0))
    <2>1. PICK i \in 1 .. Len(fs.inode[x].segs) : z \in Covers(fs.inode[x].segs[i])
      BY DEF Owned
    <2> DEFINE bi == fs.inode[x].segs[i]
    <2>2. PICK u \in Zones(bi) : z = <<bi.sub, u>>
      BY <2>1 DEF Covers, Zones
    <2>3. u \notin Reserved[bi.sub] /\ PlaceOf(bi.sub, u) \in map /\ u \in ZonesOf(bi.sub)
      BY <2>2, <1>2
    <2> HIDE DEF bi
    <2>4. ASSUME bi.sub = 0 PROVE u \in Made(0)
      <3>1. PlaceOf(0, u) = u
        <4>1. u \in Nat
          BY <2>3, <2>4, FsckFacts DEF ZonesOf
        <4> QED
          BY <4>1, ZoneMapFacts DEF PlaceOf
      <3> QED
        BY <3>1, <2>3, <2>4 DEF Made
    <2> QED
      BY <2>2, <2>3, <2>4
  <1>6. ASSUME NEW y \in Reached(fs) \ {x} PROVE Owned(fs, x) \cap Owned(fs, y) = {}
    <2> SUFFICES ASSUME NEW z \in Owned(fs, x), z \in Owned(fs, y) PROVE FALSE
      OBVIOUS
    <2>1. PICK i \in 1 .. Len(fs.inode[x].segs) : z \in Covers(fs.inode[x].segs[i])
      BY DEF Owned
    <2>2. PICK j \in 1 .. Len(fs.inode[y].segs) : z \in Covers(fs.inode[y].segs[j])
      BY DEF Owned
    <2> QED
      BY <2>1, <2>2, <1>4
  <1>7. Alone(fs, x)
    BY <1>4, <1>5, <1>6 DEF Alone
  <1> QED
    BY <1>3, <1>5, <1>7

LEMMA CompareBitmapSound ==
  ASSUME HealthInv, SoundInv, CompareBitmap
  PROVE  SoundInv'
  <1> DEFINE C == [s \in Subs |-> Made(s)]
  <1>1. /\ pc = "compare" /\ pc' = "finish" /\ UNCHANGED <<first, fixing, stack, seg, map, stopFlag>>
        /\ IF \A s \in Subs : fs.bits[s] = Made(s) THEN Fine
           ELSE IF fixing THEN fs' = [fs EXCEPT !.bits = C] /\ UNCHANGED <<hasError, fixed>>
           ELSE NotFixed
    BY DEF CompareBitmap
  <1>2. WellFormed(fs) /\ FieldsOf(fs) /\ stack = <<>>
    BY <1>1, WellFormedFields DEF HealthInv, TreeInv, PathInv
  <1>3. PICK m : m = [fs EXCEPT !.bits = C]
    OBVIOUS
  <1> HIDE DEF C
  <1>4. m.inode = fs.inode /\ m.dir = fs.dir /\ m.writeError = fs.writeError /\ m.bits = C
    BY <1>2, <1>3 DEF FieldsOf, Fields
  <1>5. /\ fs' = fs \/ fs' = m
        /\ hasError => hasError'
        /\ ~hasError' => fs' = m \/ (fs' = fs /\ \A s \in Subs : fs.bits[s] = Made(s))
    BY <1>1, <1>3 DEF Fine, NotFixed
  <1>6. fs'.inode = fs.inode /\ fs'.dir = fs.dir /\ fs'.writeError = fs.writeError
    BY <1>4, <1>5
  <1>7. 0 \in Subs
    BY FsckFacts DEF Subs
  <1>8. ~hasError' => fs'.bits[0] = Made(0)
    <2>1. C[0] = Made(0)
      BY <1>7 DEF C
    <2> QED
      BY <2>1, <1>4, <1>5, <1>7
  <1>9. fs.writeError = first.writeError /\ (Clean' => Clean /\ ~hasError')
    BY <1>1, <1>5 DEF SoundInv, ResultInv, Clean
  <1>10. ASSUME Clean'
         PROVE  FilesSound' /\ DirsTidy(first', fs')
    <2>1. CheckInv /\ Clean /\ Checking
      BY <1>1, <1>9, <1>10 DEF SoundInv, Checking
    <2>2. PICK W : WalkInv(W) /\ ZonesInv(W)
      BY <2>1 DEF CheckInv
    <2>3. PICK f0 : f0 = first
      OBVIOUS
    <2>4. Root \in W /\ W \in SUBSET DOMAIN fs.inode /\ DirsDone(f0, W, W, fs, stack)
      <3>1. Known(W) = W
        BY <1>1 DEF Known
      <3> QED
        BY <3>1, <2>2, <2>3, <1>1 DEF WalkInv
    <2>5. \A d \in W \cap DOMAIN fs.dir : DirDone(f0, W, fs, d)
      <3>1. Len(stack) = 0
        BY <1>2
      <3> QED
        BY <3>1, <2>4 DEF DirsDone
    <2>6. Reached(fs) \subseteq W /\ DirsTidy(f0, fs)
      <3>1. FitsInv /\ DOMAIN fs.dir = DOMAIN first.dir
        BY <2>1 DEF CheckInv, HealthInv, TreeInv, Mended
      <3>2. \A d \in DOMAIN fs.dir : \A k \in 1 .. Len(fs.dir[d]) : Fits(f0.dir[d][k]) => Fits(fs.dir[d][k])
        BY <3>1, <2>3 DEF FitsInv
      <3> QED
        BY <3>2, <2>4, <2>5, <1>2, WalkComplete
    <2>7. \A x \in Reached(fs) : /\ InsideVolume(fs, x) /\ Alone(fs, x)
                                 /\ \A z \in Owned(fs, x) : z[1] = 0 => z[2] \in Made(0)
      BY <2>2, <2>4, <2>6, <1>2, ZonesSound
    <2>8. Reached(fs') = Reached(fs) /\ (DirsTidy(f0, fs) => DirsTidy(f0, fs'))
      BY <1>6, SameSound
    <2>9. ASSUME NEW x \in Reached(fs')
          PROVE  /\ InsideVolume(fs', x) /\ Alone(fs', x)
                 /\ \A z \in Owned(fs', x) : z[1] = 0 => z[2] \in fs'.bits[0]
      <3>1. x \in Reached(fs)
        BY <2>8
      <3>2. InsideVolume(fs', x)
        BY <3>1, <2>7, <1>6 DEF InsideVolume
      <3>3. \A y : Owned(fs', y) = Owned(fs, y)
        BY <1>6 DEF Owned
      <3>4. Alone(fs', x)
        BY <3>1, <3>3, <2>7, <2>8, <1>6 DEF Alone
      <3> QED
        BY <3>1, <3>2, <3>3, <3>4, <2>7, <1>8, <1>9, <1>10
    <2>10. FilesSound'
      BY <2>9 DEF FilesSound
    <2> QED
      BY <2>3, <2>6, <2>8, <2>10, <1>1
  <1>11. ResultInv'
    BY <1>1, <1>6, <1>9, <1>10 DEF ResultInv
  <1>12. CheckInv'
    BY <1>1 DEF CheckInv, Checking
  <1> QED
    BY <1>11, <1>12 DEF SoundInv

LEMMA SoundStep ==
  ASSUME HealthInv, EntriesInv, SoundInv, [Next]_vars
  PROVE  SoundInv'
  <1>1. CASE FsckThread
    BY <1>1, CheckAttributeSound, CheckSegmentSound, CutBadSegmentSound, LeaveUnmarkedSound, CutOverlapSound,
       SegmentsCheckedSound, RootCheckedSound, NextSectorSound, LeaveDirectorySound, CheckAlignedSound,
       CheckEnoughSound, CheckEndSound, NextEntrySound, CheckDotsSound, CheckFileSound, FilesCheckedSound,
       CompareBitmapSound, FinishSound DEF FsckThread
  <1>2. CASE UNCHANGED vars
    <2>1. UNCHANGED <<fs, first, fixing, pc, stack, seg, map, hasError, fixed, stopFlag>>
      BY <1>2 DEF vars
    <2>2. Clean' <=> Clean
      BY <2>1 DEF Clean
    <2>3. ResultInv'
      <3>1. (FilesSound => FilesSound') /\ (DirsTidy(first, fs) => DirsTidy(first', fs'))
        BY <2>1, SameSound
      <3> QED
        BY <3>1, <2>1, <2>2 DEF SoundInv, ResultInv
    <2>4. ASSUME Checking, Clean PROVE SizeInv' /\ FitsInv' /\ \E W : (WalkInv(W) /\ ZonesInv(W))'
      <3>1. SizeInv /\ FitsInv /\ \E W : WalkInv(W) /\ ZonesInv(W)
        BY <2>4 DEF SoundInv, CheckInv
      <3>2. Top' = Top /\ This' = This
        BY <2>1 DEF Top, This, Here, Sectors
      <3>3. SizeInv' /\ FitsInv'
        BY <3>1, <3>2, <2>1 DEF SizeInv, FitsInv
      <3>4. PICK W : WalkInv(W) /\ ZonesInv(W)
        BY <3>1
      <3>5. WalkInv(W)'
        <4>1. Known(W)' = Known(W) /\ first' = first
          BY <2>1 DEF Known
        <4>2. DirsDone(first, Known(W), W, fs, stack) => DirsDone(first', Known(W)', W, fs', stack')
          BY <4>1, <2>1
        <4> QED
          BY <4>2, <3>4, <2>1 DEF WalkInv
      <3>6. ZonesInv(W)'
        <4>1. (\A x, i : Zoned(W, x, i)' <=> Zoned(W, x, i)) /\ \A x : Segs(x)' = Segs(x)
          BY <2>1 DEF Zoned, Segs
        <4>2. \A bi : BadZone(bi)' <=> BadZone(bi)
          BY DEF BadZone
        <4>3. ASSUME NEW x \in DOMAIN fs.inode, NEW i \in Nat, Zoned(W, x, i)'
              PROVE  /\ ~(BadZone(Segs(x)[i])')
                     /\ \A z \in Zones(Segs(x)[i]) :
                          z \notin Reserved[Segs(x)[i].sub] /\ PlaceOf(Segs(x)[i].sub, z) \in map'
          BY <4>1, <4>2, <4>3, <3>4, <2>1 DEF ZonesInv
        <4>4. \A x, y \in DOMAIN fs.inode : \A i, j \in Nat :
                 Zoned(W, x, i)' /\ Zoned(W, y, j)' /\ (x # y \/ i # j) => Covers(Segs(x)[i]) \cap Covers(Segs(y)[j]) = {}
          BY <4>1, <3>4 DEF ZonesInv
        <4>5. \A s \in Subs : \A z \in Reserved[s] : PlaceOf(s, z) \in map'
          BY <3>4, <2>1 DEF ZonesInv
        <4> QED
          BY <4>1, <4>3, <4>4, <4>5, <2>1 DEF ZonesInv, PlaceOf, BadZone, Zones, Covers
      <3> QED
        BY <3>3, <3>5, <3>6
    <2> QED
      BY <2>1, <2>2, <2>3, <2>4 DEF SoundInv, CheckInv, Checking
  <1> QED
    BY <1>1, <1>2, FsckOpenSound, FsckStartSound, FsckStopSound, FsckCloseSound DEF Next

\* Until an error is left, the walk has done what it is past, and the segments it has
\* checked are in the bitmap it makes, none with two owners.
THEOREM FsckSoundness == Spec => [](HealthInv /\ EntriesInv /\ SoundInv)
  <1>1. Init => SoundInv
    BY InitSound
  <1>2. HealthInv /\ EntriesInv /\ SoundInv /\ [Next]_vars => SoundInv'
    BY SoundStep
  <1> QED
    BY <1>1, <1>2, FsckInvariant, PTL DEF Spec

\* The error bit of the super block is cleared (FsckThread) only when no zone has two
\* owners and the bitmap has every zone with one, unless entries were skipped.
THEOREM FsckClearedMeansSound == Spec => []ClearedMeansSound
  <1>1. SoundInv => ClearedMeansSound
    <2> SUFFICES ASSUME SoundInv, first.writeError, ~fs.writeError, ~Skipping(first) PROVE FilesSound
      BY DEF ClearedMeansSound
    <2>1. pc \in {"ended", "closed"}
      BY DEF SoundInv, ResultInv
    <2> QED
      BY <2>1 DEF SoundInv, ResultInv
  <1> QED
    BY <1>1, FsckSoundness, PTL

\* After a check that has left no error, and has skipped no entries: every entry is
\* aligned and has room for its name, "." is the directory, ".." a directory that has
\* it, and the entries follow one another up to the end of the sector, if none of it was
\* too long for the sector before (fsckCheckFiles, fsckCheckSelfEntry,
\* fsckCheckParentEntry, fsckFixDEntry).
THEOREM FsckDirectoriesMended == Spec => []DirectoriesMended
  <1>1. SoundInv => DirectoriesMended
    <2> SUFFICES ASSUME SoundInv, pc = "ended", ~hasError, ~stopFlag, ~Skipping(first)
                 PROVE  \A d \in Reached(fs) \cap DOMAIN fs.dir : \A k \in 1 .. Len(fs.dir[d]) :
                            /\ \A o \in Parsed(fs.dir[d][k]) :
                                  LET e == fs.dir[d][k][o]
                                  IN  e.len % Align = 0 /\ e.len >= e.need /\ (e.of # None => LeadsRight(first, d, e))
                            /\ Fits(first.dir[d][k]) => Closed(fs.dir[d][k])
      BY DEF DirectoriesMended
    <2>1. DirsTidy(first, fs)
      BY DEF SoundInv, ResultInv, Clean
    <2> QED
      BY <2>1 DEF DirsTidy, EntryTidy
  <1> QED
    BY <1>1, FsckSoundness, PTL
=============================================================================
