--------------------------- MODULE PfsCacheProofs ---------------------------
(* Theorems about the metadata cache of libpfs, for every number of buffers, *)
(* every set of blocks, both builds, and every choice of transfers that may  *)
(* fail.                                                                     *)
EXTENDS PfsCache, SequenceTheorems, WellFoundedInduction, TLAPS

-----------------------------------------------------------------------------
(* The ring as a sequence.                                                 *)

\* A sequence of buffers without repetitions.
RingOf(s) == {s[k] : k \in DOMAIN s}
IsRing(s) == s \in Seq(Bufs) /\ IsInjective(s)

LEMMA RemoveAtRing ==
  ASSUME NEW s, IsRing(s), NEW k \in DOMAIN s
  PROVE  IsRing(RemoveAt(s, k)) /\ RingOf(RemoveAt(s, k)) = RingOf(s) \ {s[k]}
  <1> DEFINE a == SubSeq(s, 1, k - 1)
             b == SubSeq(s, k + 1, Len(s))
             t == RemoveAt(s, k)
  <1>1. s \in Seq(Bufs) /\ Len(s) \in Nat /\ DOMAIN s = 1 .. Len(s) /\ k \in 1 .. Len(s)
    BY LenProperties DEF IsRing
  <1>2. \A i \in 1 .. k - 1 : s[i] \in Bufs
    BY <1>1, ElementOfSeq
  <1>3. \A i \in k + 1 .. Len(s) : s[i] \in Bufs
    BY <1>1, ElementOfSeq
  <1>4. /\ a \in Seq(Bufs) /\ Len(a) = k - 1
        /\ \A i \in 1 .. k - 1 : a[i] = s[i]
    <2>1. /\ SubSeq(s, 1, k - 1) \in Seq(Bufs)
          /\ Len(SubSeq(s, 1, k - 1)) = IF 1 <= k - 1 THEN k - 1 - 1 + 1 ELSE 0
          /\ \A i \in 1 .. k - 1 - 1 + 1 : SubSeq(s, 1, k - 1)[i] = s[1 + i - 1]
      BY <1>1, <1>2, SubSeqProperties
    <2> QED
      BY <1>1, <2>1
  <1>5. /\ b \in Seq(Bufs) /\ Len(b) = Len(s) - k
        /\ \A i \in 1 .. Len(s) - k : b[i] = s[k + i]
    <2>1. /\ SubSeq(s, k + 1, Len(s)) \in Seq(Bufs)
          /\ Len(SubSeq(s, k + 1, Len(s))) = IF k + 1 <= Len(s) THEN Len(s) - (k + 1) + 1 ELSE 0
          /\ \A i \in 1 .. Len(s) - (k + 1) + 1 : SubSeq(s, k + 1, Len(s))[i] = s[k + 1 + i - 1]
      BY <1>1, <1>3, SubSeqProperties
    <2> QED
      BY <1>1, <2>1
  <1> HIDE DEF a, b
  <1>6. /\ a \o b \in Seq(Bufs) /\ Len(a \o b) = Len(s) - 1
        /\ \A i \in 1 .. Len(s) - 1 : (a \o b)[i] = IF i < k THEN s[i] ELSE s[i + 1]
    <2>1. /\ a \o b \in Seq(Bufs) /\ Len(a \o b) = Len(a) + Len(b)
          /\ \A i \in 1 .. Len(a) + Len(b) : (a \o b)[i] = IF i <= Len(a) THEN a[i] ELSE b[i - Len(a)]
      BY <1>4, <1>5, ConcatProperties
    <2>2. ASSUME NEW i \in 1 .. Len(s) - 1
          PROVE  (a \o b)[i] = IF i < k THEN s[i] ELSE s[i + 1]
      <3>1. CASE i < k
        BY <1>1, <1>4, <1>5, <2>1, <3>1
      <3>2. CASE ~(i < k)
        <4>1. i - (k - 1) \in 1 .. Len(s) - k /\ k + (i - (k - 1)) = i + 1
          BY <1>1, <3>2
        <4>2. (a \o b)[i] = b[i - (k - 1)]
          <5>1. i \in 1 .. Len(a) + Len(b) /\ ~(i <= Len(a)) /\ Len(a) = k - 1
            BY <1>1, <1>4, <1>5, <3>2
          <5> QED
            BY <2>1, <5>1
        <4> QED
          BY <1>5, <3>2, <4>1, <4>2
      <3> QED
        BY <3>1, <3>2
    <2> QED
      BY <1>1, <1>4, <1>5, <2>1, <2>2
  <1>7. t = a \o b
    BY DEF RemoveAt, a, b
  <1> HIDE DEF t
  <1>8. t \in Seq(Bufs) /\ DOMAIN t = 1 .. Len(s) - 1
    BY <1>6, <1>7, LenProperties
  <1>9. \A i \in 1 .. Len(s) - 1 : t[i] = IF i < k THEN s[i] ELSE s[i + 1]
    BY <1>6, <1>7
  <1>10. IsRing(t)
    <2> DEFINE back(i) == IF i < k THEN i ELSE i + 1
    <2>1. \A i \in 1 .. Len(s) - 1 : back(i) \in DOMAIN s /\ t[i] = s[back(i)]
      BY <1>1, <1>9
    <2>2. \A i, j \in 1 .. Len(s) - 1 : back(i) = back(j) => i = j
      BY <1>1
    <2> HIDE DEF back
    <2>3. \A i, j \in DOMAIN s : s[i] = s[j] => i = j
      BY DEF IsRing, IsInjective
    <2>4. \A i, j \in DOMAIN t : t[i] = t[j] => i = j
      BY <1>8, <2>1, <2>2, <2>3
    <2> QED
      BY <1>8, <2>4 DEF IsRing, IsInjective
  <1>11. RingOf(t) \subseteq RingOf(s) \ {s[k]}
    BY <1>1, <1>8, <1>9 DEF IsRing, IsInjective, RingOf
  <1>12. ASSUME NEW j \in DOMAIN s, s[j] # s[k] PROVE s[j] \in RingOf(t)
    <2>1. CASE j < k
      BY <1>1, <1>8, <1>9, <1>12, <2>1 DEF RingOf
    <2>2. CASE j > k
      <3>1. j - 1 \in DOMAIN t /\ t[j - 1] = s[j]
        BY <1>1, <1>8, <1>9, <2>2
      <3> QED
        BY <3>1 DEF RingOf
    <2> QED
      BY <1>1, <1>12, <2>1, <2>2
  <1> QED
    BY <1>10, <1>11, <1>12 DEF RingOf, t

LEMMA AppendRing ==
  ASSUME NEW s, IsRing(s), NEW i \in Bufs, i \notin RingOf(s)
  PROVE  IsRing(Append(s, i)) /\ RingOf(Append(s, i)) = RingOf(s) \cup {i}
  <1> DEFINE t == Append(s, i)
  <1>1. s \in Seq(Bufs) /\ Len(s) \in Nat /\ DOMAIN s = 1 .. Len(s)
    BY LenProperties DEF IsRing
  <1>2. /\ t \in Seq(Bufs) /\ Len(t) = Len(s) + 1
        /\ \A k \in 1 .. Len(s) : t[k] = s[k]
        /\ t[Len(s) + 1] = i
    BY <1>1, AppendProperties
  <1>3. DOMAIN t = 1 .. Len(s) + 1
    BY <1>2, LenProperties
  <1> HIDE DEF t
  <1>4. IsRing(t)
    BY <1>1, <1>2, <1>3 DEF IsRing, IsInjective, RingOf
  <1>5. RingOf(t) \subseteq RingOf(s) \cup {i}
    BY <1>1, <1>2, <1>3 DEF RingOf
  <1>6. \A k \in DOMAIN s : k \in DOMAIN t /\ t[k] = s[k]
    BY <1>1, <1>2, <1>3
  <1>7. Len(s) + 1 \in DOMAIN t
    BY <1>1, <1>3
  <1> QED
    BY <1>2, <1>4, <1>5, <1>6, <1>7 DEF RingOf, t

LEMMA PrependRing ==
  ASSUME NEW s, IsRing(s), NEW i \in Bufs, i \notin RingOf(s)
  PROVE  IsRing(<<i>> \o s) /\ RingOf(<<i>> \o s) = RingOf(s) \cup {i}
  <1> DEFINE t == <<i>> \o s
  <1>1. s \in Seq(Bufs) /\ Len(s) \in Nat /\ DOMAIN s = 1 .. Len(s)
    BY LenProperties DEF IsRing
  <1>2. <<i>> \in Seq(Bufs) /\ Len(<<i>>) = 1 /\ <<i>>[1] = i
    OBVIOUS
  <1>3. /\ t \in Seq(Bufs) /\ Len(t) = Len(s) + 1
        /\ \A k \in 1 .. Len(s) + 1 : t[k] = IF k <= 1 THEN i ELSE s[k - 1]
    BY <1>1, <1>2, ConcatProperties
  <1>4. DOMAIN t = 1 .. Len(s) + 1
    BY <1>3, LenProperties
  <1> HIDE DEF t
  <1>5. IsRing(t)
    <2>1. \A k \in DOMAIN t : k # 1 => k - 1 \in DOMAIN s /\ t[k] = s[k - 1] /\ t[k] # i
      BY <1>1, <1>3, <1>4 DEF RingOf
    <2>2. 1 \in DOMAIN t => t[1] = i
      BY <1>3, <1>4
    <2>3. ASSUME NEW j \in DOMAIN t, NEW k \in DOMAIN t, t[j] = t[k] PROVE j = k
      <3>1. CASE j = 1 \/ k = 1
        BY <2>1, <2>2, <2>3, <3>1
      <3>2. CASE j # 1 /\ k # 1
        <4>1. s[j - 1] = s[k - 1] /\ j - 1 \in DOMAIN s /\ k - 1 \in DOMAIN s
          BY <2>1, <2>3, <3>2
        <4>2. j - 1 = k - 1
          BY <4>1 DEF IsRing, IsInjective
        <4> QED
          BY <1>1, <1>4, <4>2
      <3> QED
        BY <3>1, <3>2
    <2> QED
      BY <1>3, <2>3 DEF IsRing, IsInjective
  <1>6. RingOf(t) \subseteq RingOf(s) \cup {i}
    BY <1>1, <1>3, <1>4 DEF RingOf
  <1>7. \A k \in DOMAIN s : k + 1 \in DOMAIN t /\ t[k + 1] = s[k]
    BY <1>1, <1>3, <1>4
  <1>8. 1 \in DOMAIN t /\ t[1] = i
    BY <1>1, <1>3, <1>4
  <1>9. RingOf(s) \cup {i} \subseteq RingOf(t)
    BY <1>7, <1>8 DEF RingOf
  <1> QED
    BY <1>5, <1>6, <1>9 DEF t

\* The loops over the buffers take the first that is left.
LEMMA FirstExists ==
  ASSUME NEW T, T \subseteq Bufs, T # {}
  PROVE  (CHOOSE i \in T : \A k \in T : i <= k) \in T
  <1> DEFINE R == OpToRel(<, Nat)
  <1>1. T \subseteq Nat
    BY CacheAssumption DEF Bufs
  <1>2. IsWellFoundedOn(R, Nat)
    BY NatLessThanWellFounded
  <1>3. \A x, y \in Nat : x < y => <<x, y>> \in R
    BY DEF OpToRel
  <1> HIDE DEF R
  <1>4. PICK i \in T : \A k \in T : ~(<<k, i>> \in R)
    BY <1>1, <1>2, WFMin
  <1>5. ASSUME NEW k \in T PROVE i <= k
    <2>1. ~(<<k, i>> \in R)
      BY <1>4
    <2>2. k \in Nat /\ i \in Nat
      BY <1>1
    <2>3. ~(k < i)
      BY <1>3, <2>1, <2>2
    <2> QED
      BY <2>2, <2>3
  <1> QED
    BY <1>5

-----------------------------------------------------------------------------
(* The inductive invariant: the buffers with the point of the code that is *)
(* reached, and the types of all the rest.                                 *)

Buffers == [blk : Blocks \cup {NoBlock}, val : Content, dirty : BOOLEAN, nused : 0 .. MaxRefs]
Pcs     == {"off", "restore", "replay", "idle", "slots", "barrier1", "log", "barrier2",
            "write", "reset", "erase", "done", "alloc"}
Disks   == [home : [Blocks -> Content], slot : [Bufs -> Content], log : Logs \cup {NoLog}]
Mays    == [home : [Blocks -> SUBSET Content], slot : [Bufs -> SUBSET Content],
            log : SUBSET (Logs \cup {NoLog})]
Gets    == {"get", "clean"}

Missing(call) == Blk(call) # NoBlock => \A i \in Bufs : buf[i].blk # Blk(call)

RingInv == IsRing(ring) /\ RingOf(ring) = {i \in Bufs : buf[i].nused = 0}

BufInv ==
    /\ buf \in [Bufs -> Buffers] /\ RingInv /\ OneBufferPerBlock
    /\ \A i \in Bufs : buf[i].dirty => buf[i].blk \in Blocks

\* A flush that is made for a get ends with a buffer to reuse and the block
\* still in no buffer; nothing is dirty where the journal is erased or copied.
ControlInv ==
    /\ pc \in Pcs /\ pending \in Calls
    /\ pc \in {"off", "restore", "replay", "reset", "erase", "done", "alloc"} =>
           \A i \in Bufs : ~buf[i].dirty
    /\ pc \in {"idle", "off", "restore", "replay"} => pending = Mount
    /\ pc = "alloc" => Op(pending) \in Gets
    /\ Op(pending) \in Gets => ring # <<>> /\ Missing(pending)

DriveInv ==
    /\ disk \in Disks /\ may \in Mays /\ jlog \in Logs
    /\ lastError \in BOOLEAN /\ undef \subseteq Blocks
    /\ want \in [Blocks -> Content] /\ saved \in [Blocks -> Content]

CacheInv == BufInv /\ ControlInv /\ DriveInv

-----------------------------------------------------------------------------
(* Calls, logs and the ring.                                               *)

LEMMA CallFacts ==
  ASSUME NEW c \in Calls
  PROVE  /\ Blk(c) \in Blocks \cup {NoBlock} /\ Noload(c) \in BOOLEAN
         /\ ~Noload(c) => Blk(c) \in Blocks
         /\ Op(Mount) = "mount" /\ Op(Flush) = "flush" /\ Op(Close) = "close" /\ Op(Clean) = "clean"
         /\ Mount \in Calls /\ Flush \in Calls /\ Close \in Calls /\ Clean \in Calls
  <1>1. ASSUME NEW b \in Blocks, NEW n \in BOOLEAN, c = Get(b, n)
        PROVE  Blk(c) \in Blocks /\ Noload(c) \in BOOLEAN
    <2>1. c[2] = b /\ c[3] = n
      BY <1>1 DEF Get
    <2> QED
      BY <2>1 DEF Blk, Noload
  <1>2. /\ Blk(Clean) = NoBlock /\ Noload(Clean) = TRUE
        /\ Blk(Flush) = NoBlock /\ Noload(Flush) = TRUE
        /\ Blk(Close) = NoBlock /\ Noload(Close) = TRUE
        /\ Blk(Mount) = NoBlock /\ Noload(Mount) = TRUE
    BY DEF Clean, Flush, Close, Mount, Blk, Noload
  <1>3. Op(Mount) = "mount" /\ Op(Flush) = "flush" /\ Op(Close) = "close" /\ Op(Clean) = "clean"
    BY DEF Clean, Flush, Close, Mount, Op
  <1>4. Mount \in Calls /\ Flush \in Calls /\ Close \in Calls /\ Clean \in Calls
    BY DEF Calls
  <1>5. (\E b \in Blocks, n \in BOOLEAN : c = Get(b, n)) \/ c \in {Clean, Flush, Close, Mount}
    BY DEF Calls
  <1> QED
    BY <1>1, <1>2, <1>3, <1>4, <1>5

LEMMA LogFacts ==
  ASSUME NEW j \in Logs
  PROVE  DOMAIN j \subseteq Bufs /\ \A i \in DOMAIN j : j[i] \in Blocks
  BY DEF Logs

LEMMA LogType ==
  ASSUME NEW S \in SUBSET Bufs, NEW j \in [S -> Blocks]
  PROVE  j \in Logs
  BY DEF Logs

LEMMA NoEntryType == NoEntry \in Logs
  BY LogType, NoEntry \in [{} -> Blocks] DEF NoEntry

LEMMA UnlinkedRing ==
  ASSUME RingInv, NEW i \in Bufs
  PROVE  IsRing(Unlinked(i)) /\ RingOf(Unlinked(i)) = RingOf(ring) \ {i}
  <1> DEFINE k == CHOOSE k \in DOMAIN ring : ring[k] = i
  <1>1. CASE Linked(i)
    <2>1. k \in DOMAIN ring /\ ring[k] = i
      BY <1>1 DEF Linked
    <2>2. Unlinked(i) = RemoveAt(ring, k)
      BY <1>1 DEF Unlinked
    <2> HIDE DEF k
    <2> QED
      BY <2>1, <2>2, RemoveAtRing DEF RingInv
  <1>2. CASE ~Linked(i)
    BY <1>2 DEF Linked, Unlinked, RingInv, RingOf
  <1> QED
    BY <1>1, <1>2

LEMMA HeadFacts ==
  ASSUME RingInv, ring # <<>>
  PROVE  Head(ring) \in Bufs /\ buf[Head(ring)].nused = 0
  <1>1. ring \in Seq(Bufs) /\ Head(ring) \in Bufs /\ Len(ring) \in Nat /\ Len(ring) # 0
    BY HeadTailProperties, LenProperties, EmptySeq DEF RingInv, IsRing
  <1>2. 1 \in DOMAIN ring /\ ring[1] = Head(ring)
    BY <1>1, LenProperties
  <1> QED
    BY <1>1, <1>2 DEF RingInv, RingOf

-----------------------------------------------------------------------------
(* Steps that change buffers.                                              *)

LEMMA SetBuffer ==
  ASSUME BufInv, NEW i \in Bufs, NEW b \in Buffers,
         buf' = [buf EXCEPT ![i] = b],
         IsRing(ring'),
         RingOf(ring') = (RingOf(ring) \ {i}) \cup (IF b.nused = 0 THEN {i} ELSE {}),
         b.dirty => b.blk \in Blocks,
         b.blk = buf[i].blk \/ b.blk = NoBlock \/ (\A k \in Bufs : buf[k].blk # b.blk)
  PROVE  BufInv'
  <1>1. /\ buf \in [Bufs -> Buffers] /\ OneBufferPerBlock
        /\ RingOf(ring) = {k \in Bufs : buf[k].nused = 0}
        /\ \A k \in Bufs : buf[k].dirty => buf[k].blk \in Blocks
    BY DEF BufInv, RingInv
  <1>2. /\ buf' \in [Bufs -> Buffers] /\ buf'[i] = b
        /\ \A k \in Bufs : k # i => buf'[k] = buf[k]
    BY <1>1
  <1>3. RingOf(ring') = {k \in Bufs : buf'[k].nused = 0}
    BY <1>1, <1>2
  <1>4. OneBufferPerBlock'
    BY <1>1, <1>2 DEF OneBufferPerBlock
  <1>5. \A k \in Bufs : buf'[k].dirty => buf'[k].blk \in Blocks
    BY <1>1, <1>2
  <1> QED
    BY <1>2, <1>3, <1>4, <1>5 DEF BufInv, RingInv

LEMMA SameBuffers ==
  ASSUME BufInv, UNCHANGED <<buf, ring>>
  PROVE  BufInv'
  BY DEF BufInv, RingInv, OneBufferPerBlock

\* A buffer that is used stays used: the ring does not change.
LEMMA SetUsed ==
  ASSUME BufInv, NEW i \in Bufs, NEW b \in Buffers,
         buf' = [buf EXCEPT ![i] = b], ring' = ring,
         b.nused = 0 <=> buf[i].nused = 0,
         b.dirty => b.blk \in Blocks,
         b.blk = buf[i].blk
  PROVE  BufInv'
  <1>1. IsRing(ring') /\ RingOf(ring) = {k \in Bufs : buf[k].nused = 0}
    BY DEF BufInv, RingInv
  <1>2. RingOf(ring') = (RingOf(ring) \ {i}) \cup (IF b.nused = 0 THEN {i} ELSE {})
    BY <1>1
  <1> QED
    BY <1>1, <1>2, SetBuffer

LEMMA FreeBuffers ==
  ASSUME BufInv, NEW i \in Bufs, Free(i)
  PROVE  BufInv'
  <1> DEFINE n == buf[i].nused - 1
             b == [buf[i] EXCEPT !.nused = n]
  <1>1. /\ buf \in [Bufs -> Buffers] /\ IsRing(ring) /\ i \notin RingOf(ring)
        /\ buf[i].dirty => buf[i].blk \in Blocks
    BY DEF BufInv, RingInv, Free
  <1>2. /\ buf[i].nused \in 0 .. MaxRefs /\ MaxRefs \in Nat /\ buf[i].nused > 0
        /\ buf[i] \in Buffers
    BY <1>1, CacheAssumption DEF Buffers, Free
  <1>3. /\ b \in Buffers /\ b.nused = n
        /\ b.blk = buf[i].blk /\ b.dirty = buf[i].dirty
    BY <1>2 DEF Buffers
  <1>4. buf' = [buf EXCEPT ![i] = b]
    BY <1>1, <1>2 DEF Free, Freed
  <1>5. IsRing(ring') /\ RingOf(ring') = (RingOf(ring) \ {i}) \cup (IF n = 0 THEN {i} ELSE {})
    <2>1. CASE n # 0
      BY <1>1, <2>1 DEF Free, Freed
    <2>2. CASE n = 0 /\ buf[i].blk = NoBlock
      BY <1>1, <2>2, PrependRing DEF Free, Freed
    <2>3. CASE n = 0 /\ buf[i].blk # NoBlock
      BY <1>1, <2>3, AppendRing DEF Free, Freed
    <2> QED
      BY <2>1, <2>2, <2>3
  <1> HIDE DEF b
  <1> QED
    BY <1>1, <1>3, <1>4, <1>5, SetBuffer

LEMMA UsedAddBuffers ==
  ASSUME BufInv, NEW i \in Bufs, UsedAdd(i)
  PROVE  BufInv'
  <1> DEFINE b == [buf[i] EXCEPT !.nused = @ + 1]
  <1>1. buf[i] \in Buffers /\ (buf[i].dirty => buf[i].blk \in Blocks)
    BY DEF BufInv
  <1>2. /\ b \in Buffers /\ b.nused # 0 /\ buf[i].nused # 0
        /\ b.blk = buf[i].blk /\ b.dirty = buf[i].dirty
    BY <1>1, CacheAssumption DEF Buffers, UsedAdd
  <1>3. buf' = [buf EXCEPT ![i] = b] /\ ring' = ring
    BY DEF UsedAdd
  <1> HIDE DEF b
  <1> QED
    BY <1>1, <1>2, <1>3, SetUsed

LEMMA ModifyBuffers ==
  ASSUME BufInv, NEW i \in Bufs, NEW v \in Vals, Modify(i, v)
  PROVE  BufInv'
  <1> DEFINE b == [buf[i] EXCEPT !.val = <<buf[i].blk, v>>, !.dirty = TRUE]
  <1>1. buf \in [Bufs -> Buffers] /\ buf[i] \in Buffers /\ buf[i].blk \in Blocks
    BY DEF BufInv, Buffers, Modify
  <1>2. /\ b \in Buffers /\ b.nused = buf[i].nused /\ b.blk = buf[i].blk
    BY <1>1 DEF Buffers, Content
  <1>3. buf' = [buf EXCEPT ![i] = b] /\ ring' = ring
    BY <1>1 DEF Modify, Buffers
  <1> HIDE DEF b
  <1> QED
    BY <1>1, <1>2, <1>3, SetUsed

LEMMA MarkCleanBuffers ==
  ASSUME BufInv, NEW i \in Bufs, MarkClean(i)
  PROVE  BufInv' /\ buf[i].blk \in Blocks
  <1> DEFINE b == [buf[i] EXCEPT !.dirty = FALSE]
  <1>1. buf[i] \in Buffers /\ buf[i].blk \in Blocks
    BY DEF BufInv, MarkClean
  <1>2. b \in Buffers /\ b.nused = buf[i].nused /\ b.blk = buf[i].blk
    BY <1>1 DEF Buffers
  <1>3. buf' = [buf EXCEPT ![i] = b] /\ ring' = ring
    BY DEF MarkClean
  <1> HIDE DEF b
  <1> QED
    BY <1>1, <1>2, <1>3, SetUsed

LEMMA HitBuffers ==
  ASSUME BufInv, NEW c \in Blocks, Hit(c)
  PROVE  BufInv'
  <1>1. PICK i \in Bufs : /\ buf[i].nused < MaxRefs
                         /\ buf' = [buf EXCEPT ![i].nused = @ + 1]
                         /\ ring' = Unlinked(i)
    BY DEF Hit
  <1> DEFINE b == [buf[i] EXCEPT !.nused = @ + 1]
  <1>2. buf[i] \in Buffers /\ RingInv /\ (buf[i].dirty => buf[i].blk \in Blocks)
    BY DEF BufInv
  <1>3. /\ b \in Buffers /\ b.nused # 0 /\ b.blk = buf[i].blk /\ b.dirty = buf[i].dirty
    BY <1>1, <1>2, CacheAssumption DEF Buffers
  <1>4. buf' = [buf EXCEPT ![i] = b]
    BY <1>1
  <1>5. IsRing(ring') /\ RingOf(ring') = RingOf(ring) \ {i}
    BY <1>1, <1>2, UnlinkedRing
  <1> HIDE DEF b
  <1>6. RingOf(ring') = (RingOf(ring) \ {i}) \cup (IF b.nused = 0 THEN {i} ELSE {})
    BY <1>3, <1>5
  <1> QED
    BY <1>2, <1>3, <1>4, <1>5, <1>6, SetBuffer

\* Taken and NotTaken, for a buffer of the ring.
LEMMA TakenBuffers ==
  ASSUME BufInv, NEW i \in Bufs, NEW call \in Calls, NEW v \in Content,
         Missing(call), Taken(i, call, v)
  PROVE  BufInv' /\ ~buf'[i].dirty
  <1> DEFINE b == [blk |-> Blk(call), val |-> v, dirty |-> FALSE, nused |-> 1]
  <1>1. b \in Buffers /\ b.nused # 0 /\ ~b.dirty /\ b.blk = Blk(call)
    BY CallFacts, CacheAssumption DEF Buffers
  <1>2. buf' = [buf EXCEPT ![i] = b] /\ ring' = Unlinked(i)
    BY DEF Taken
  <1>3. b.blk = NoBlock \/ \A k \in Bufs : buf[k].blk # b.blk
    BY <1>1 DEF Missing
  <1>4. IsRing(ring') /\ RingOf(ring') = RingOf(ring) \ {i}
    BY <1>2, UnlinkedRing DEF BufInv
  <1>5. buf \in [Bufs -> Buffers]
    BY DEF BufInv
  <1> HIDE DEF b
  <1>6. buf'[i] = b
    BY <1>2, <1>5
  <1>7. RingOf(ring') = (RingOf(ring) \ {i}) \cup (IF b.nused = 0 THEN {i} ELSE {})
    BY <1>1, <1>4
  <1> QED
    BY <1>1, <1>2, <1>3, <1>4, <1>6, <1>7, SetBuffer

LEMMA NotTakenBuffers ==
  ASSUME BufInv, NEW i \in Bufs, NotTaken(i)
  PROVE  BufInv' /\ ~buf'[i].dirty
  <1> DEFINE b == [blk |-> NoBlock, val |-> Garbage, dirty |-> FALSE, nused |-> 0]
  <1>1. b \in Buffers /\ b.nused = 0 /\ ~b.dirty /\ b.blk = NoBlock
    BY CacheAssumption DEF Buffers, Content
  <1>2. buf' = [buf EXCEPT ![i] = b] /\ ring' = <<i>> \o Unlinked(i)
    BY DEF NotTaken
  <1>3. IsRing(Unlinked(i)) /\ RingOf(Unlinked(i)) = RingOf(ring) \ {i}
    BY UnlinkedRing DEF BufInv
  <1>4. IsRing(ring') /\ RingOf(ring') = (RingOf(ring) \ {i}) \cup {i}
    BY <1>2, <1>3, PrependRing
  <1>5. buf \in [Bufs -> Buffers]
    BY DEF BufInv
  <1> HIDE DEF b
  <1>6. buf'[i] = b
    BY <1>2, <1>5
  <1>7. RingOf(ring') = (RingOf(ring) \ {i}) \cup (IF b.nused = 0 THEN {i} ELSE {})
    BY <1>1, <1>4
  <1> QED
    BY <1>1, <1>2, <1>4, <1>6, <1>7, SetBuffer

LEMMA AllocateFacts ==
  ASSUME CacheInv, NEW call \in Calls, NEW i \in Bufs, Missing(call), Allocate(i, call)
  PROVE  /\ BufInv' /\ lastError' \in BOOLEAN /\ undef' \subseteq Blocks
         /\ \A k \in Bufs : buf'[k].dirty => buf[k].dirty
  <1>1. /\ BufInv /\ buf \in [Bufs -> Buffers]
        /\ lastError \in BOOLEAN /\ undef \subseteq Blocks
        /\ disk.home \in [Blocks -> Content] /\ buf[i].val \in Content
    BY DEF CacheInv, BufInv, DriveInv, Disks, Buffers
  <1>2. /\ Garbage \in Content /\ RecordErrors \in BOOLEAN
        /\ Blk(call) \in Blocks \cup {NoBlock}
        /\ ~Noload(call) => disk.home[Blk(call)] \in Content
    BY <1>1, CallFacts, CacheAssumption DEF Content
  <1>3. (\E v \in Content : Taken(i, call, v)) \/ NotTaken(i)
    BY <1>1, <1>2 DEF Allocate
  <1>4. BufInv' /\ ~buf'[i].dirty
    BY <1>1, <1>3, TakenBuffers, NotTakenBuffers
  <1>5. \A k \in Bufs : k # i => buf'[k] = buf[k]
    BY <1>1, <1>3 DEF Taken, NotTaken
  <1>6. lastError' \in BOOLEAN
    <2>1. lastError' = lastError \/ lastError' = RecordErrors
      BY DEF Allocate
    <2> QED
      BY <1>1, <1>2, <2>1
  <1>7. undef' \subseteq Blocks
    <2>1. \/ undef' = (undef \ {buf[i].blk}) \cup ({Blk(call)} \ {NoBlock})
          \/ undef' = undef \ {buf[i].blk, Blk(call)}
      BY DEF Allocate
    <2> QED
      BY <1>1, <1>2, <2>1
  <1> QED
    BY <1>4, <1>5, <1>6, <1>7

LEMMA TransferBuffers ==
  ASSUME CacheInv, TransferHome
  PROVE  BufInv' /\ (\A k \in Bufs : buf'[k].blk = buf[k].blk)
  <1> DEFINE i == CHOOSE i \in Dirty : \A k \in Dirty : i <= k
  <1>1. /\ BufInv /\ buf \in [Bufs -> Buffers]
        /\ \A k \in Bufs : buf[k].dirty => buf[k].blk \in Blocks
    BY DEF CacheInv, BufInv
  <1>2. i \in Bufs
    BY FirstExists DEF TransferHome, Dirty
  <1>3. \/ buf' = [buf EXCEPT ![i].dirty = FALSE]
        \/ buf' = [buf EXCEPT ![i].dirty = FALSE,
                              ![i].val = IF RecordErrors THEN Garbage ELSE @]
    BY DEF TransferHome
  <1> HIDE DEF i
  <1>4. PICK v \in Content : buf' = [buf EXCEPT ![i] = [buf[i] EXCEPT !.dirty = FALSE, !.val = v]]
    <2>1. buf[i].val \in Content /\ Garbage \in Content
      BY <1>1, <1>2 DEF Buffers, Content
    <2>2. CASE buf' = [buf EXCEPT ![i].dirty = FALSE]
      BY <1>1, <1>2, <2>1, <2>2 DEF Buffers
    <2>3. CASE buf' = [buf EXCEPT ![i].dirty = FALSE,
                              ![i].val = IF RecordErrors THEN Garbage ELSE @]
      <3>1. CASE RecordErrors
        BY <1>1, <1>2, <2>1, <2>3, <3>1 DEF Buffers
      <3>2. CASE ~RecordErrors
        BY <1>1, <1>2, <2>1, <2>3, <3>2 DEF Buffers
      <3> QED
        BY <3>1, <3>2
    <2> QED
      BY <1>3, <2>2, <2>3
  <1> DEFINE b == [buf[i] EXCEPT !.dirty = FALSE, !.val = v]
  <1>5. /\ b \in Buffers /\ b.nused = buf[i].nused /\ b.blk = buf[i].blk /\ ~b.dirty
    BY <1>1, <1>2 DEF Buffers
  <1>6. buf' = [buf EXCEPT ![i] = b] /\ ring' = ring
    BY <1>4 DEF TransferHome
  <1> HIDE DEF b
  <1>7. buf'[i] = b /\ \A k \in Bufs : k # i => buf'[k] = buf[k]
    BY <1>1, <1>2, <1>6
  <1>8. BufInv'
    BY <1>1, <1>2, <1>5, <1>6, SetUsed
  <1> QED
    BY <1>5, <1>7, <1>8

LEMMA NoBuffersInv ==
  ASSUME buf' = NoBuffers, ring' = [i \in Bufs |-> i]
  PROVE  BufInv' /\ \A i \in Bufs : ~buf'[i].dirty
  <1>1. /\ \A i \in Bufs : buf'[i] = [blk |-> NoBlock, val |-> Garbage, dirty |-> FALSE, nused |-> 0]
        /\ buf' \in [Bufs -> Buffers]
    BY CacheAssumption DEF NoBuffers, Buffers, Content
  <1>2. ring' \in Seq(Bufs) /\ DOMAIN ring' = Bufs /\ \A i \in Bufs : ring'[i] = i
    BY CacheAssumption, SeqDef DEF Bufs
  <1>3. IsRing(ring') /\ RingOf(ring') = Bufs
    BY <1>2 DEF IsRing, IsInjective, RingOf
  <1>4. RingInv'
    BY <1>1, <1>3 DEF RingInv
  <1> QED
    BY <1>1, <1>4 DEF BufInv, OneBufferPerBlock

LEMMA ResetDoneBuffers ==
  ASSUME CacheInv, ResetDone
  PROVE  BufInv' /\ (\A k \in Bufs : ~buf'[k].dirty)
  <1>1. /\ buf \in [Bufs -> Buffers] /\ BufInv /\ ring' = ring
        /\ \A k \in Bufs : ~buf[k].dirty
    BY DEF CacheInv, BufInv, ControlInv, ResetDone
  <1>2. CASE Op(pending) # "close"
    <2>1. buf' = buf
      BY <1>2 DEF ResetDone
    <2> QED
      BY <1>1, <2>1, SameBuffers
  <1>3. CASE Op(pending) = "close"
    <2>1. buf' = [i \in Bufs |-> [buf[i] EXCEPT !.blk = NoBlock]]
      BY <1>3 DEF ResetDone
    <2>2. /\ buf' \in [Bufs -> Buffers]
          /\ \A k \in Bufs : /\ buf'[k].blk = NoBlock /\ ~buf'[k].dirty
                             /\ buf'[k].nused = buf[k].nused
      BY <1>1, <2>1 DEF Buffers
    <2>3. RingInv'
      BY <1>1, <2>2 DEF BufInv, RingInv
    <2> QED
      BY <2>2, <2>3 DEF BufInv, OneBufferPerBlock
  <1> QED
    BY <1>2, <1>3

-----------------------------------------------------------------------------
(* Steps of control.                                                       *)

NoDirty == \A i \in Bufs : ~buf[i].dirty

LEMMA DirtyFacts == Dirty = {} => NoDirty
  BY DEF Dirty, NoDirty

\* A flush, or the second half of a mount, goes on.
LEMMA GoOn ==
  ASSUME ControlInv,
         pc' \in {"slots", "barrier1", "log", "barrier2", "write", "reset", "erase", "done"},
         pending' = pending, ring' = ring, \A k \in Bufs : buf'[k].blk = buf[k].blk,
         pc' \in {"reset", "erase", "done"} => NoDirty'
  PROVE  ControlInv'
  BY DEF ControlInv, Missing, NoDirty, Pcs, Gets

\* A call has ended, or a mount begins.
LEMMA GoBack ==
  ASSUME pc' \in {"off", "idle", "restore", "replay"}, pending' = Mount,
         pc' # "idle" => NoDirty'
  PROVE  ControlInv'
  BY Mount \in Calls, Op(Mount) = "mount" DEF ControlInv, NoDirty, Pcs, Gets, Calls, Mount, Op

LEMMA ClientControl ==
  ASSUME CacheInv, pc = "idle", UNCHANGED <<pc, pending>>
  PROVE  ControlInv'
  <1>1. pc' = "idle" /\ pending' = Mount
    BY DEF CacheInv, ControlInv
  <1> QED
    BY <1>1, GoBack

-----------------------------------------------------------------------------
(* Steps of the drive.                                                     *)

LEMMA BarrierDrive ==
  ASSUME DriveInv, Barrier
  PROVE  disk' \in Disks /\ may' \in Mays
  BY DEF DriveInv, Barrier, MayBe, Disks, Mays

LEMMA HomeDrive ==
  ASSUME DriveInv, NEW b \in Blocks, NEW v \in Content, WriteHome(b, v)
  PROVE  disk' \in Disks /\ may' \in Mays
  <1>1. Garbage \in Content
    BY DEF Content
  <1>2. disk' \in Disks
    BY DEF DriveInv, WriteHome, Disks
  <1>3. may' \in Mays
    BY <1>1 DEF DriveInv, WriteHome, Mays
  <1> QED
    BY <1>2, <1>3

LEMMA SlotsDrive ==
  ASSUME DriveInv, BufInv, WriteSlots
  PROVE  disk' \in Disks /\ may' \in Mays
  <1>1. Garbage \in Content /\ \A i \in Bufs : buf[i].val \in Content
    BY DEF Content, BufInv, Buffers
  <1>2. disk' \in Disks
    BY <1>1 DEF DriveInv, WriteSlots, Disks
  <1>3. may' \in Mays
    BY <1>1 DEF DriveInv, WriteSlots, Mays
  <1> QED
    BY <1>2, <1>3

LEMMA LogDrive ==
  ASSUME DriveInv, WriteLog(jlog)
  PROVE  disk' \in Disks /\ may' \in Mays
  <1>1. disk' \in Disks
    BY DEF DriveInv, WriteLog, Disks
  <1>2. may' \in Mays
    BY DEF DriveInv, WriteLog, Mays
  <1> QED
    BY <1>1, <1>2

LEMMA OneOfEachType ==
  ASSUME NEW D, NEW R, NEW f \in [D -> SUBSET R], NEW g \in OneOfEach(f)
  PROVE  g \in [D -> R]
  BY DEF OneOfEach

LEMMA ImageType ==
  ASSUME NEW d \in Disks
  PROVE  Image(d) \in [Blocks -> Content]
  <1> SUFFICES ASSUME NEW b \in Blocks
               PROVE  (IF d.log # NoLog /\ \E i \in DOMAIN d.log : d.log[i] = b
                       THEN d.slot[CHOOSE i \in DOMAIN d.log : d.log[i] = b]
                       ELSE d.home[b]) \in Content
    BY DEF Image
  <1>1. CASE d.log # NoLog /\ \E i \in DOMAIN d.log : d.log[i] = b
    <2> DEFINE i == CHOOSE i \in DOMAIN d.log : d.log[i] = b
    <2>1. i \in DOMAIN d.log /\ d.log \in Logs
      BY <1>1 DEF Disks
    <2> HIDE DEF i
    <2>2. i \in Bufs
      BY <2>1, LogFacts
    <2>3. d.slot[i] \in Content
      BY <2>2 DEF Disks
    <2> QED
      BY <1>1, <2>3 DEF i
  <1>2. CASE ~(d.log # NoLog /\ \E i \in DOMAIN d.log : d.log[i] = b)
    BY <1>2 DEF Disks
  <1> QED
    BY <1>1, <1>2

LEMMA PowerLossDrive ==
  ASSUME DriveInv, PowerLoss
  PROVE  DriveInv'
  <1>1. /\ may.home \in [Blocks -> SUBSET Content] /\ may.slot \in [Bufs -> SUBSET Content]
        /\ may.log \subseteq Logs \cup {NoLog}
    BY DEF DriveInv, Mays
  <1>2. PICK h \in OneOfEach(may.home), s \in OneOfEach(may.slot), l \in may.log :
               disk' = [home |-> h, slot |-> s, log |-> l]
    BY DEF PowerLoss, Platters
  <1>3. disk' \in Disks
    BY <1>1, <1>2, OneOfEachType DEF Disks
  <1>4. may' \in Mays
    BY <1>3 DEF PowerLoss, MayBe, Disks, Mays
  <1>5. want' \in [Blocks -> Content] /\ saved' \in [Blocks -> Content]
    BY <1>3, ImageType DEF PowerLoss, MemoryLost
  <1>6. jlog' \in Logs /\ lastError' \in BOOLEAN /\ undef' \subseteq Blocks
    BY NoEntryType DEF PowerLoss, MemoryLost
  <1> QED
    BY <1>3, <1>4, <1>5, <1>6 DEF DriveInv

-----------------------------------------------------------------------------
(* Every step preserves the invariant.                                     *)

LEMMA InitInv == Init => CacheInv
  <1> SUFFICES ASSUME Init PROVE CacheInv
    OBVIOUS
  <1>1. /\ \A i \in Bufs : buf[i] = [blk |-> NoBlock, val |-> Garbage, dirty |-> FALSE, nused |-> 0]
        /\ buf \in [Bufs -> Buffers]
    BY CacheAssumption DEF Init, NoBuffers, Buffers, Content
  <1>2. ring \in Seq(Bufs) /\ DOMAIN ring = Bufs /\ \A i \in Bufs : ring[i] = i
    BY CacheAssumption, SeqDef DEF Init, Bufs
  <1>3. IsRing(ring) /\ RingOf(ring) = Bufs
    BY <1>2 DEF IsRing, IsInjective, RingOf
  <1>4. BufInv
    BY <1>1, <1>3 DEF BufInv, RingInv, OneBufferPerBlock
  <1>5. ControlInv
    BY <1>1, Mount \in Calls, Op(Mount) = "mount" DEF Init, ControlInv, Pcs, Gets, Mount, Op, Calls
  <1>6. DriveInv
    <2>1. PICK l \in {NoEntry, NoLog}, v \in Vals :
             disk = [home |-> [b \in Blocks |-> <<b, v>>],
                     slot |-> [i \in Bufs |-> Garbage], log |-> l]
      BY DEF Init
    <2>2. disk \in Disks
      BY <2>1, NoEntryType DEF Disks, Content
    <2>3. may \in Mays
      BY <2>2 DEF Init, MayBe, Disks, Mays
    <2> QED
      BY <2>2, <2>3, NoEntryType DEF Init, DriveInv, Disks
  <1> QED
    BY <1>4, <1>5, <1>6 DEF CacheInv

LEMMA ClientStep ==
  ASSUME CacheInv,
         \/ \E i \in Bufs : Free(i) \/ UsedAdd(i) \/ MarkClean(i) \/ \E v \in Vals : Modify(i, v)
         \/ \E b \in Blocks : Hit(b)
  PROVE  CacheInv'
  <1>1. BufInv /\ DriveInv
    BY DEF CacheInv
  <1>2. ASSUME NEW i \in Bufs, Free(i) PROVE CacheInv'
    <2>1. BufInv'
      BY <1>1, <1>2, FreeBuffers
    <2>2. ControlInv'
      BY <1>2, ClientControl DEF Free
    <2>3. DriveInv'
      BY <1>1, <1>2 DEF Free, DriveInv, drive, hist
    <2> QED
      BY <2>1, <2>2, <2>3 DEF CacheInv
  <1>3. ASSUME NEW i \in Bufs, UsedAdd(i) PROVE CacheInv'
    <2>1. BufInv'
      BY <1>1, <1>3, UsedAddBuffers
    <2>2. ControlInv'
      BY <1>3, ClientControl DEF UsedAdd
    <2>3. DriveInv'
      BY <1>1, <1>3 DEF UsedAdd, DriveInv, drive, hist
    <2> QED
      BY <2>1, <2>2, <2>3 DEF CacheInv
  <1>4. ASSUME NEW i \in Bufs, MarkClean(i) PROVE CacheInv'
    <2>1. BufInv' /\ buf[i].blk \in Blocks
      BY <1>1, <1>4, MarkCleanBuffers
    <2>2. ControlInv'
      BY <1>4, ClientControl DEF MarkClean
    <2>3. want' \in [Blocks -> Content] /\ undef' \subseteq Blocks
      BY <1>1, <1>4, <2>1 DEF MarkClean, DriveInv
    <2>4. DriveInv'
      BY <1>1, <1>4, <2>3 DEF MarkClean, DriveInv, drive
    <2> QED
      BY <2>1, <2>2, <2>4 DEF CacheInv
  <1>5. ASSUME NEW i \in Bufs, NEW v \in Vals, Modify(i, v) PROVE CacheInv'
    <2>1. BufInv' /\ buf[i].blk \in Blocks
      BY <1>1, <1>5, ModifyBuffers DEF BufInv, Buffers, Modify
    <2>2. ControlInv'
      BY <1>5, ClientControl DEF Modify
    <2>3. want' \in [Blocks -> Content] /\ undef' \subseteq Blocks
      BY <1>1, <1>5, <2>1 DEF Modify, DriveInv, Content
    <2>4. DriveInv'
      BY <1>1, <1>5, <2>3 DEF Modify, DriveInv, drive
    <2> QED
      BY <2>1, <2>2, <2>4 DEF CacheInv
  <1>6. ASSUME NEW b \in Blocks, Hit(b) PROVE CacheInv'
    <2>1. BufInv'
      BY <1>1, <1>6, HitBuffers
    <2>2. pc = "idle" /\ UNCHANGED <<lastError, jlog, pc, pending, drive, hist>>
      BY <1>6 DEF Hit
    <2>3. ControlInv'
      BY <2>2, ClientControl
    <2>4. DriveInv'
      BY <1>1, <2>2 DEF DriveInv, drive, hist
    <2> QED
      BY <2>1, <2>3, <2>4 DEF CacheInv
  <1> QED
    BY <1>2, <1>3, <1>4, <1>5, <1>6

\* The first half of a get: the buffer is taken at once, or a flush begins.
LEMMA MissStep ==
  ASSUME CacheInv, NEW call \in Calls, Miss(call)
  PROVE  CacheInv'
  <1>1. /\ BufInv /\ DriveInv /\ ControlInv /\ RingInv
        /\ pc = "idle" /\ Op(call) \in Gets /\ ring # <<>> /\ Missing(call)
        /\ UNCHANGED <<jlog, drive, want, saved>>
    BY DEF CacheInv, BufInv, Miss, Missing, InCache, Gets
  <1>2. Head(ring) \in Bufs
    BY <1>1, HeadFacts
  <1>3. CASE buf[Head(ring)].dirty
    <2>1. pc' = "slots" /\ pending' = call /\ UNCHANGED <<buf, ring, lastError, undef>>
      BY <1>3 DEF Miss
    <2>2. BufInv'
      BY <1>1, <2>1, SameBuffers
    <2>3. ControlInv'
      BY <1>1, <2>1 DEF ControlInv, Missing, Pcs
    <2>4. DriveInv'
      BY <1>1, <2>1 DEF DriveInv, drive
    <2> QED
      BY <2>2, <2>3, <2>4 DEF CacheInv
  <1>4. CASE ~buf[Head(ring)].dirty
    <2>1. Allocate(Head(ring), call) /\ UNCHANGED <<pc, pending>>
      BY <1>4 DEF Miss
    <2>2. BufInv' /\ lastError' \in BOOLEAN /\ undef' \subseteq Blocks
      BY <1>1, <1>2, <2>1, AllocateFacts
    <2>3. ControlInv'
      BY <1>1, <2>1, ClientControl
    <2>4. DriveInv'
      BY <1>1, <2>2 DEF DriveInv, drive
    <2> QED
      BY <2>2, <2>3, <2>4 DEF CacheInv
  <1> QED
    BY <1>3, <1>4

\* The steps of a flush up to the writes of the blocks.
LEMMA FlushStep ==
  ASSUME CacheInv,
         FlushAllDirty(Flush) \/ FlushAllDirty(Close) \/ JournalWrite \/ JournalFlush
            \/ JournalLog \/ JournalFlushed
  PROVE  CacheInv'
  <1>1. BufInv /\ ControlInv /\ DriveInv
    BY DEF CacheInv
  <1>2. ASSUME NEW call \in {Flush, Close}, FlushAllDirty(call) PROVE CacheInv'
    <2>1. UNCHANGED <<buf, ring, lastError, jlog, disk, may, undef, want, saved>>
      BY <1>2 DEF FlushAllDirty, cvars, drive, hist
    <2>2. /\ pc' \in {"reset", "slots"} /\ pending' = call
          /\ pc' = "reset" => NoDirty
      BY <1>2, DirtyFacts DEF FlushAllDirty
    <2>3. call \in Calls /\ Op(call) \notin Gets
      <3>1. Op(Flush) = "flush" /\ Op(Close) = "close"
        BY DEF Flush, Close, Op
      <3> QED
        BY <3>1 DEF Calls, Gets
    <2>4. ControlInv'
      BY <2>1, <2>2, <2>3 DEF ControlInv, NoDirty, Pcs
    <2>5. BufInv' /\ DriveInv'
      BY <1>1, <2>1, SameBuffers DEF DriveInv
    <2> QED
      BY <2>4, <2>5 DEF CacheInv
  <1>3. CASE JournalWrite
    <2>1. /\ UNCHANGED <<buf, ring, lastError, undef, want, saved, pending>>
          /\ pc' \in {"barrier1", "write"}
      BY <1>3 DEF JournalWrite, Goto, cvars, hist
    <2>2. BufInv' /\ ControlInv'
      BY <1>1, <2>1, SameBuffers, GoOn
    <2>3. jlog' \in Logs
      <3>1. \A i \in Dirty : buf[i].blk \in Blocks
        BY <1>1 DEF BufInv, Dirty
      <3>2. [i \in Dirty |-> buf[i].blk] \in [Dirty -> Blocks] /\ Dirty \in SUBSET Bufs
        BY <3>1 DEF Dirty
      <3> QED
        BY <1>3, <3>2, LogType DEF JournalWrite
    <2>4. disk' \in Disks /\ may' \in Mays
      BY <1>1, <1>3, SlotsDrive DEF JournalWrite, drive, DriveInv
    <2> QED
      BY <1>1, <2>1, <2>2, <2>3, <2>4 DEF CacheInv, DriveInv
  <1>4. CASE JournalFlush
    <2>1. /\ UNCHANGED <<buf, ring, lastError, jlog, undef, want, saved, pending>>
          /\ pc' = "log" /\ Barrier
      BY <1>4 DEF JournalFlush, Goto, cvars, hist
    <2> QED
      BY <1>1, <2>1, SameBuffers, GoOn, BarrierDrive DEF CacheInv, DriveInv
  <1>5. CASE JournalLog
    <2>1. /\ UNCHANGED <<buf, ring, lastError, jlog, undef, want, saved, pending>>
          /\ pc' = "barrier2"
      BY <1>5 DEF JournalLog, Goto, cvars, hist
    <2>2. disk' \in Disks /\ may' \in Mays
      BY <1>1, <1>5, LogDrive DEF JournalLog, drive, DriveInv
    <2> QED
      BY <1>1, <2>1, <2>2, SameBuffers, GoOn DEF CacheInv, DriveInv
  <1>6. CASE JournalFlushed
    <2>1. /\ UNCHANGED <<buf, ring, lastError, jlog, undef, want, saved, pending>>
          /\ pc' = "write" /\ Barrier
      BY <1>6 DEF JournalFlushed, Goto, cvars, hist
    <2> QED
      BY <1>1, <2>1, SameBuffers, GoOn, BarrierDrive DEF CacheInv, DriveInv
  <1> QED
    BY <1>2, <1>3, <1>4, <1>5, <1>6

\* The writes of the blocks, the erasure of the journal, and the return.
LEMMA ResetStep ==
  ASSUME CacheInv,
         TransferHome \/ HomeWritten \/ JournalReset \/ JournalErase \/ ResetDone
            \/ AllocAfterFlush
  PROVE  CacheInv'
  <1>1. BufInv /\ ControlInv /\ DriveInv
    BY DEF CacheInv
  <1>2. CASE TransferHome
    <2> DEFINE i == CHOOSE i \in Dirty : \A k \in Dirty : i <= k
    <2>1. /\ UNCHANGED <<ring, jlog, undef, want, saved, pc, pending>> /\ pc = "write"
          /\ lastError' \in {lastError, FALSE, TRUE}
      BY <1>2, CacheAssumption DEF TransferHome, hist
    <2>2. BufInv' /\ ControlInv'
      BY <1>1, <1>2, <2>1, TransferBuffers, GoOn
    <2>3. i \in Dirty /\ Dirty \subseteq Bufs
      BY <1>2, FirstExists DEF TransferHome, Dirty
    <2>4. WriteHome(buf[i].blk, buf[i].val) \/ UNCHANGED drive
      BY <1>2 DEF TransferHome
    <2> HIDE DEF i
    <2>5. buf[i].blk \in Blocks /\ buf[i].val \in Content
      BY <1>1, <2>3 DEF BufInv, Buffers, Dirty
    <2>6. disk' \in Disks /\ may' \in Mays
      BY <1>1, <2>4, <2>5, HomeDrive DEF drive, DriveInv
    <2> QED
      BY <1>1, <2>1, <2>2, <2>6 DEF CacheInv, DriveInv
  <1>3. CASE HomeWritten
    <2>1. /\ UNCHANGED <<buf, ring, lastError, jlog, disk, may, undef, want, saved, pending>>
          /\ pc' = "reset" /\ NoDirty
      BY <1>3, DirtyFacts DEF HomeWritten, Goto, cvars, drive, hist
    <2>2. NoDirty'
      BY <2>1 DEF NoDirty
    <2> QED
      BY <1>1, <2>1, <2>2, SameBuffers, GoOn DEF CacheInv, DriveInv
  <1>4. CASE JournalReset
    <2>1. /\ UNCHANGED <<buf, ring, lastError, undef, want, saved, pending>>
          /\ pc = "reset" /\ pc' = "erase" /\ Barrier /\ jlog' = NoEntry
      BY <1>4 DEF JournalReset, Goto, cvars, hist
    <2>2. NoDirty'
      BY <1>1, <2>1 DEF ControlInv, NoDirty
    <2> QED
      BY <1>1, <2>1, <2>2, SameBuffers, GoOn, BarrierDrive, NoEntryType DEF CacheInv, DriveInv
  <1>5. CASE JournalErase
    <2>1. /\ UNCHANGED <<buf, ring, lastError, jlog, undef, want, saved, pending>>
          /\ pc = "erase" /\ pc' = "done"
      BY <1>5 DEF JournalErase, Goto, cvars, hist
    <2>2. NoDirty'
      BY <1>1, <2>1 DEF ControlInv, NoDirty
    <2>3. disk' \in Disks /\ may' \in Mays
      BY <1>1, <1>5, LogDrive DEF JournalErase, drive, DriveInv
    <2> QED
      BY <1>1, <2>1, <2>2, <2>3, SameBuffers, GoOn DEF CacheInv, DriveInv
  <1>6. CASE ResetDone
    <2>1. /\ UNCHANGED <<ring, lastError, jlog, undef, want>> /\ Barrier
          /\ saved' = saved \/ saved' = want
      BY <1>6 DEF ResetDone
    <2>2. BufInv' /\ NoDirty'
      BY <1>6, ResetDoneBuffers DEF NoDirty
    <2>3. CASE Op(pending) \in Gets
      <3>1. pc' = "alloc" /\ pending' = pending /\ buf' = buf
        BY <1>6, <2>3 DEF ResetDone, Gets
      <3>2. ControlInv'
        BY <1>1, <2>1, <2>2, <2>3, <3>1 DEF ControlInv, NoDirty, Missing, Pcs
      <3> QED
        BY <1>1, <2>1, <2>2, <3>2, BarrierDrive DEF CacheInv, DriveInv
    <2>4. CASE Op(pending) \notin Gets
      <3>1. pc' \in {"off", "idle"} /\ pending' = Mount
        BY <1>6, <2>4 DEF ResetDone, Gets
      <3>2. ControlInv'
        BY <2>2, <3>1, GoBack
      <3> QED
        BY <1>1, <2>1, <2>2, <3>2, BarrierDrive DEF CacheInv, DriveInv
    <2> QED
      BY <2>3, <2>4
  <1>7. CASE AllocAfterFlush
    <2>1. /\ pc = "alloc" /\ Allocate(Head(ring), pending) /\ pc' = "idle" /\ pending' = Mount
          /\ UNCHANGED <<jlog, disk, may, want, saved>>
      BY <1>7 DEF AllocAfterFlush, drive
    <2>2. pending \in Calls /\ ring # <<>> /\ Missing(pending) /\ RingInv
      BY <1>1, <2>1 DEF ControlInv, BufInv
    <2>3. Head(ring) \in Bufs
      BY <2>2, HeadFacts
    <2>4. BufInv' /\ lastError' \in BOOLEAN /\ undef' \subseteq Blocks
      BY <2>1, <2>2, <2>3, AllocateFacts
    <2> QED
      BY <1>1, <2>1, <2>4, GoBack DEF CacheInv, DriveInv
  <1> QED
    BY <1>2, <1>3, <1>4, <1>5, <1>6, <1>7

\* The next mount: what it finds, and what it copies.
LEMMA MountStep ==
  ASSUME CacheInv, Remount \/ JournalRestore \/ Replay \/ Replayed \/ PowerLoss
  PROVE  CacheInv'
  <1>1. BufInv /\ ControlInv /\ DriveInv
    BY DEF CacheInv
  <1>2. CASE Remount
    <2>1. /\ UNCHANGED <<buf, ring, jlog, disk, may, saved>>
          /\ pc = "off" /\ pc' = "restore" /\ pending' = Mount
          /\ lastError' = FALSE /\ undef' = {} /\ want' = saved
      BY <1>2 DEF Remount, drive
    <2>2. NoDirty'
      BY <1>1, <2>1 DEF ControlInv, NoDirty
    <2> QED
      BY <1>1, <2>1, <2>2, SameBuffers, GoBack DEF CacheInv, DriveInv
  <1>3. CASE JournalRestore
    <2>1. /\ UNCHANGED <<buf, ring, lastError, disk, may, undef, want, saved, pending>>
          /\ pc = "restore"
          /\ \/ pc' = "reset" /\ jlog' = jlog
             \/ pc' = "replay" /\ jlog' = disk.log /\ disk.log # NoLog
      <3>1. CASE disk.log = NoLog \/ disk.log = NoEntry
        BY <1>3, <3>1 DEF JournalRestore, Goto, cvars, drive, hist
      <3>2. CASE ~(disk.log = NoLog \/ disk.log = NoEntry)
        BY <1>3, <3>2 DEF JournalRestore, Goto, cvars, drive, hist
      <3> QED
        BY <3>1, <3>2
    <2>2. NoDirty' /\ pending = Mount
      BY <1>1, <2>1 DEF ControlInv, NoDirty
    <2>3. ControlInv'
      BY <1>1, <2>1, <2>2, GoOn, GoBack
    <2>4. jlog' \in Logs
      BY <1>1, <2>1 DEF DriveInv, Disks
    <2> QED
      BY <1>1, <2>1, <2>3, <2>4, SameBuffers DEF CacheInv, DriveInv
  <1>4. CASE Replay
    <2> DEFINE i == CHOOSE i \in DOMAIN jlog : \A k \in DOMAIN jlog : i <= k
    <2>1. /\ UNCHANGED <<buf, ring, lastError, undef, want, saved, pc, pending>>
          /\ pc = "replay"
      BY <1>4 DEF Replay, cvars, hist
    <2>2. NoDirty' /\ pending = Mount
      BY <1>1, <2>1 DEF ControlInv, NoDirty
    <2>3. DOMAIN jlog \subseteq Bufs /\ \A k \in DOMAIN jlog : jlog[k] \in Blocks
      BY <1>1, LogFacts DEF DriveInv
    <2>4. i \in DOMAIN jlog
      BY <1>4, <2>3, FirstExists DEF Replay
    <2>5. /\ jlog' = [k \in DOMAIN jlog \ {i} |-> jlog[k]]
          /\ WriteHome(jlog[i], disk.slot[i]) \/ UNCHANGED drive
      BY <1>4 DEF Replay
    <2> HIDE DEF i
    <2>6. jlog' \in Logs
      <3>1. [k \in DOMAIN jlog \ {i} |-> jlog[k]] \in [DOMAIN jlog \ {i} -> Blocks]
        BY <2>3
      <3>2. DOMAIN jlog \ {i} \in SUBSET Bufs
        BY <2>3
      <3> QED
        BY <2>5, <3>1, <3>2, LogType
    <2>7. jlog[i] \in Blocks /\ disk.slot[i] \in Content
      BY <1>1, <2>3, <2>4 DEF DriveInv, Disks
    <2>8. disk' \in Disks /\ may' \in Mays
      BY <1>1, <2>5, <2>7, HomeDrive DEF drive, DriveInv
    <2> QED
      BY <1>1, <2>1, <2>2, <2>6, <2>8, SameBuffers, GoBack DEF CacheInv, DriveInv
  <1>5. CASE Replayed
    <2>1. /\ UNCHANGED <<buf, ring, lastError, jlog, disk, may, undef, want, saved, pending>>
          /\ pc = "replay" /\ pc' = "reset"
      BY <1>5 DEF Replayed, Goto, cvars, drive, hist
    <2>2. NoDirty'
      BY <1>1, <2>1 DEF ControlInv, NoDirty
    <2> QED
      BY <1>1, <2>1, <2>2, SameBuffers, GoOn DEF CacheInv, DriveInv
  <1>6. CASE PowerLoss
    <2>1. /\ buf' = NoBuffers /\ ring' = [i \in Bufs |-> i]
          /\ pc' = "restore" /\ pending' = Mount
      BY <1>6 DEF PowerLoss, MemoryLost
    <2>2. BufInv' /\ NoDirty'
      BY <2>1, NoBuffersInv DEF NoDirty
    <2> QED
      BY <1>1, <1>6, <2>1, <2>2, GoBack, PowerLossDrive DEF CacheInv
  <1> QED
    BY <1>2, <1>3, <1>4, <1>5, <1>6

LEMMA NextInv == CacheInv /\ [Next]_vars => CacheInv'
  <1> SUFFICES ASSUME CacheInv, [Next]_vars PROVE CacheInv'
    OBVIOUS
  <1>1. CASE Client
    <2>1. \A b \in Blocks, n \in BOOLEAN : Get(b, n) \in Calls
      BY DEF Calls
    <2>2. Clean \in Calls
      BY DEF Calls
    <2>3. ASSUME NEW call \in Calls, Miss(call) PROVE CacheInv'
      BY <2>3, MissStep
    <2> QED
      BY <1>1, <2>1, <2>2, <2>3, ClientStep, FlushStep, MountStep DEF Client
  <1>2. CASE Cache
    BY <1>2, FlushStep, ResetStep, MountStep DEF Cache
  <1>3. CASE PowerLoss
    BY <1>3, MountStep
  <1>4. CASE UNCHANGED vars
    <2>1. /\ UNCHANGED <<buf, ring, lastError, jlog, pc, pending>>
          /\ UNCHANGED <<disk, may, undef, want, saved>>
      BY <1>4 DEF vars, cvars, drive, hist
    <2> QED
      BY <2>1, SameBuffers DEF CacheInv, ControlInv, DriveInv, Missing
  <1> QED
    BY <1>1, <1>2, <1>3, <1>4 DEF Next

-----------------------------------------------------------------------------
(* The theorems.                                                           *)

\* At every point of every call, of a flush, of a mount and of a restart, the
\* buffers, the ring and the drive are as CacheInv says (libpfs, cache.c and
\* journal.c).
THEOREM CacheInductive == Spec => []CacheInv
  BY InitInv, NextInv, PTL DEF Spec

\* A buffer is in the ring, once, exactly when nobody uses it (pfsCacheFree,
\* pfsCacheUnLink, pfsCacheGetData), failed transfers and restarts included.
THEOREM RingCorrect == Spec => []RingIsFree
  <1>1. CacheInv => RingIsFree
    BY DEF CacheInv, BufInv, ControlInv, DriveInv, RingInv, RingIsFree, TypeOK, IsRing, RingOf,
           Buffers, Disks, Pcs
  <1> QED
    BY <1>1, CacheInductive, PTL

\* pfsCacheGetData never gives two buffers to a block, although a flush runs
\* between its look for the block and the choice of the buffer.
THEOREM BlockHasOneBuffer == Spec => []OneBufferPerBlock
  <1>1. CacheInv => OneBufferPerBlock
    BY DEF CacheInv, BufInv
  <1> QED
    BY <1>1, CacheInductive, PTL

-----------------------------------------------------------------------------
(* What a loss of power leaves, and what a get gives, for both builds, any *)
(* number of losses of power, and reads of blocks (pfsCacheTransfer) that   *)
(* may fail.  Writes, and what a mount reads of the journal, are taken to   *)
(* succeed: pfsJournalWrite goes on when they do not, and pfsJournalRestore *)
(* erases a log it could not read or copy.                                 *)
OnlyBlockReadsFail == Faults \subseteq {"read"}

-----------------------------------------------------------------------------
(* The inductive invariant, by the point of the code that is reached.      *)

HomeIs(b, f) == may.home[b] = {f[b]} /\ disk.home[b] = f[b]
Settled(f)   == \A b \in Blocks : HomeIs(b, f)

\* A log that, if it is found, gives every block it names what f says.
Covers(l, b)  == l # NoLog /\ \E i \in DOMAIN l : l[i] = b
Replays(l, f) ==
    l # NoLog => \A i \in DOMAIN l : may.slot[i] = {f[l[i]]} /\ disk.slot[i] = f[l[i]]

\* Whatever is left on the platter, a mount finds f.
Restores(l, f) == Replays(l, f) /\ \A b \in Blocks : ~Covers(l, b) => HomeIs(b, f)

NoJournal(l) == l \in {NoEntry, NoLog}

\* The drive returns one of the things that may be left, and a log names a
\* block once.
MayInv ==
    /\ \A b \in Blocks : disk.home[b] \in may.home[b]
    /\ \A i \in Bufs : disk.slot[i] \in may.slot[i]
    /\ disk.log \in may.log
    /\ \A l \in may.log \cup {jlog} : l # NoLog => IsInjective(l)

\* What a dirty buffer holds is what is to be written, and nothing else is.
DirtyInv ==
    /\ \A i \in Bufs : buf[i].dirty => buf[i].val = want[buf[i].blk]
    /\ ~lastError /\ pc \in {"idle", "slots"} =>
           \A b \in Blocks : want[b] # saved[b] => \E i \in Bufs : buf[i].dirty /\ buf[i].blk = b
    /\ ~lastError /\ pc \in {"barrier1", "log", "barrier2", "write"} =>
           \A b \in Blocks : want[b] # saved[b] => Covers(jlog, b)
    /\ ~lastError /\ pc \in {"alloc", "off", "restore", "replay"} => want = saved

\* Before the log is written there is no journal, and the blocks are at home.
QuietInv ==
    /\ pc \in {"idle", "slots", "barrier1", "log", "alloc", "off"} =>
           Settled(saved) /\ \A l \in may.log : NoJournal(l)
    /\ pc = "off" => may = MayBe(disk)
    /\ lastError => Settled(saved)

\* The journal of a flush.
FlushInv ==
    /\ pc \in {"barrier1", "log", "barrier2"} => jlog = [i \in Dirty |-> buf[i].blk]
    /\ pc = "barrier1" => \A i \in DOMAIN jlog : disk.slot[i] = want[jlog[i]]
    /\ pc \in {"log", "barrier2", "write"} => jlog # NoLog /\ Replays(jlog, want)
    /\ pc = "barrier2" => Settled(saved) /\ disk.log = jlog /\ \A l \in may.log : NoJournal(l) \/ l = jlog
    /\ pc = "write" =>
           /\ disk.log = jlog /\ may.log = {jlog}
           /\ \A i \in Dirty : i \in DOMAIN jlog /\ buf[i].blk = jlog[i]
           /\ ~lastError => /\ Restores(jlog, want)
                            /\ \A i \in DOMAIN jlog \ Dirty : disk.home[jlog[i]] = want[jlog[i]]

\* The journal of a mount.
MountInv ==
    /\ pc \in {"restore", "replay"} => ~lastError
    /\ pc = "restore" => may = MayBe(disk) /\ saved = Image(disk)
    /\ pc = "replay" =>
           /\ disk.log # NoLog /\ may.log = {disk.log} /\ Restores(disk.log, want)
           /\ \A i \in DOMAIN jlog : i \in DOMAIN disk.log /\ jlog[i] = disk.log[i]
           /\ \A i \in DOMAIN disk.log \ DOMAIN jlog : disk.home[disk.log[i]] = want[disk.log[i]]

\* The end of both.
ResetInv ==
    /\ pc = "reset" /\ ~lastError => disk.home = want /\ \A l \in may.log : Restores(l, want)
    /\ pc \in {"erase", "done"} => jlog = NoEntry
    /\ pc \in {"erase", "done"} /\ ~lastError => Settled(want) /\ \A l \in may.log : Replays(l, want)
    /\ pc = "done" => disk.log = NoEntry

CrashInv == MayInv /\ DirtyInv /\ QuietInv /\ FlushInv /\ MountInv /\ ResetInv

\* What is in a buffer is what its block is to hold.
BufferInv ==
    /\ \A i \in Bufs : buf[i].blk # NoBlock /\ buf[i].blk \notin undef => buf[i].val = want[buf[i].blk]
    /\ pc = "off" => \A i \in Bufs : buf[i].blk = NoBlock

-----------------------------------------------------------------------------
(* The drive, and what a mount finds.                                      *)

LEMMA NoJournalReplays ==
  ASSUME NEW l, NoJournal(l)
  PROVE  /\ l # NoLog => l = NoEntry
         /\ \A b : ~Covers(l, b)
         /\ \A f : Replays(l, f)
         /\ l # NoLog => IsInjective(l)
  BY DEF NoJournal, NoEntry, Covers, Replays, IsInjective

\* The second barrier makes the only copy there may be the one there is.
LEMMA BarrierFacts ==
  ASSUME DriveInv, Barrier
  PROVE  /\ disk' = disk /\ may'.log = {disk.log}
         /\ \A b \in Blocks : may'.home[b] = {disk.home[b]}
         /\ \A i \in Bufs : may'.slot[i] = {disk.slot[i]}
  BY DEF Barrier, MayBe

LEMMA ImageOf ==
  ASSUME NEW d \in Disks, NEW f \in [Blocks -> Content],
         d.log # NoLog => \A i \in DOMAIN d.log : d.slot[i] = f[d.log[i]],
         \A b \in Blocks : ~Covers(d.log, b) => d.home[b] = f[b]
  PROVE  Image(d) = f
  <1>1. ASSUME NEW b \in Blocks PROVE Image(d)[b] = f[b]
    <2>1. CASE Covers(d.log, b)
      <3> DEFINE i == CHOOSE i \in DOMAIN d.log : d.log[i] = b
      <3>1. i \in DOMAIN d.log /\ d.log[i] = b
        BY <2>1 DEF Covers
      <3>2. Image(d)[b] = d.slot[i]
        BY <2>1 DEF Image, Covers
      <3> HIDE DEF i
      <3> QED
        BY <2>1, <3>1, <3>2 DEF Covers
    <2>2. CASE ~Covers(d.log, b)
      BY <2>2 DEF Image, Covers
    <2> QED
      BY <2>1, <2>2
  <1>2. Image(d) \in [Blocks -> Content]
    BY ImageType
  <1> QED
    BY <1>1, <1>2

\* The image of a log that names a block once.
LEMMA ImageFacts ==
  ASSUME NEW d \in Disks, d.log # NoLog => IsInjective(d.log)
  PROVE  /\ d.log # NoLog => \A i \in DOMAIN d.log : d.slot[i] = Image(d)[d.log[i]]
         /\ \A b \in Blocks : ~Covers(d.log, b) => d.home[b] = Image(d)[b]
  <1>1. ASSUME d.log # NoLog, NEW i \in DOMAIN d.log PROVE d.slot[i] = Image(d)[d.log[i]]
    <2> DEFINE b == d.log[i]
               k == CHOOSE k \in DOMAIN d.log : d.log[k] = b
    <2>1. b \in Blocks
      BY <1>1, LogFacts DEF Disks
    <2>2. k \in DOMAIN d.log /\ d.log[k] = b
      BY <1>1
    <2>3. Image(d)[b] = d.slot[k]
      BY <1>1, <2>1, <2>2 DEF Image
    <2> HIDE DEF k
    <2>4. k = i
      BY <1>1, <2>2 DEF IsInjective
    <2> QED
      BY <2>3, <2>4
  <1>2. ASSUME NEW b \in Blocks, ~Covers(d.log, b) PROVE d.home[b] = Image(d)[b]
    BY <1>2 DEF Image, Covers
  <1> QED
    BY <1>1, <1>2

LEMMA PlatterFacts ==
  ASSUME DriveInv, NEW d \in Platters
  PROVE  /\ d \in Disks /\ d.log \in may.log
         /\ \A b \in Blocks : d.home[b] \in may.home[b]
         /\ \A i \in Bufs : d.slot[i] \in may.slot[i]
  <1>1. /\ may.home \in [Blocks -> SUBSET Content] /\ may.slot \in [Bufs -> SUBSET Content]
        /\ may.log \subseteq Logs \cup {NoLog}
    BY DEF DriveInv, Mays
  <1>2. PICK h \in OneOfEach(may.home), s \in OneOfEach(may.slot), l \in may.log :
               d = [home |-> h, slot |-> s, log |-> l]
    BY DEF Platters
  <1>3. /\ h \in [Blocks -> Content] /\ \A b \in Blocks : h[b] \in may.home[b]
    BY <1>1, OneOfEachType DEF OneOfEach
  <1>4. /\ s \in [Bufs -> Content] /\ \A i \in Bufs : s[i] \in may.slot[i]
    BY <1>1, OneOfEachType DEF OneOfEach
  <1> QED
    BY <1>1, <1>2, <1>3, <1>4 DEF Disks

LEMMA DiskIsLeft ==
  ASSUME DriveInv, MayInv
  PROVE  disk \in Platters
  <1>1. /\ disk = [home |-> disk.home, slot |-> disk.slot, log |-> disk.log]
        /\ DOMAIN may.home = Blocks /\ DOMAIN may.slot = Bufs
        /\ DOMAIN disk.home = Blocks /\ DOMAIN disk.slot = Bufs
        /\ disk.home \in [Blocks -> Content] /\ disk.slot \in [Bufs -> Content]
    BY DEF DriveInv, Disks, Mays
  <1>2. disk.home \in OneOfEach(may.home)
    <2>1. \A b \in Blocks : disk.home[b] \in UNION {may.home[x] : x \in Blocks}
      BY DEF MayInv
    <2>2. disk.home \in [Blocks -> UNION {may.home[x] : x \in Blocks}]
      BY <1>1, <2>1
    <2> QED
      BY <1>1, <2>2 DEF OneOfEach, MayInv
  <1>3. disk.slot \in OneOfEach(may.slot)
    <2>1. \A i \in Bufs : disk.slot[i] \in UNION {may.slot[x] : x \in Bufs}
      BY DEF MayInv
    <2>2. disk.slot \in [Bufs -> UNION {may.slot[x] : x \in Bufs}]
      BY <1>1, <2>1
    <2> QED
      BY <1>1, <2>2 DEF OneOfEach, MayInv
  <1> QED
    BY <1>1, <1>2, <1>3 DEF Platters, MayInv

-----------------------------------------------------------------------------
(* Steps of the client.                                                    *)

\* A step that ends between two flushes leaves the drive alone.
LEMMA QuietStep ==
  ASSUME CrashInv, pc \in {"idle", "alloc"}, pc' \in {"idle", "slots"},
         UNCHANGED <<disk, may, jlog, saved>>, DirtyInv'
  PROVE  CrashInv'
  <1>1. MayInv'
    BY DEF CrashInv, MayInv
  <1>2. QuietInv'
    BY DEF CrashInv, QuietInv, Settled, HomeIs, NoJournal
  <1>3. FlushInv' /\ MountInv' /\ ResetInv'
    BY DEF FlushInv, MountInv, ResetInv
  <1> QED
    BY <1>1, <1>2, <1>3 DEF CrashInv

\* Buffers that are dirty keep their blocks and contents.
LEMMA SameDirty ==
  ASSUME DirtyInv, pc = "idle", pc' \in {"idle", "slots"}, UNCHANGED <<want, saved>>,
         lastError => lastError', lastError \in BOOLEAN,
         \A k \in Bufs : buf[k].dirty =>
             buf'[k].dirty /\ buf'[k].blk = buf[k].blk,
         \A k \in Bufs : buf'[k].dirty =>
             buf[k].dirty /\ buf'[k].blk = buf[k].blk /\ buf'[k].val = buf[k].val
  PROVE  DirtyInv'
  BY DEF DirtyInv

LEMMA CountedStep ==
  ASSUME CacheInv, CrashInv, NEW i \in Bufs, NEW n,
         pc = "idle", buf' = [buf EXCEPT ![i].nused = n],
         UNCHANGED <<disk, may, jlog, lastError, pc, want, saved>>
  PROVE  CrashInv'
  <1>1. buf \in [Bufs -> Buffers] /\ lastError \in BOOLEAN
    BY DEF CacheInv, BufInv, DriveInv
  <1>2. \A k \in Bufs : /\ buf'[k].dirty = buf[k].dirty /\ buf'[k].blk = buf[k].blk
                        /\ buf'[k].val = buf[k].val
    BY <1>1 DEF Buffers
  <1>3. DirtyInv'
    BY <1>1, <1>2, SameDirty DEF CrashInv
  <1> QED
    BY <1>3, QuietStep

LEMMA ModifyCrash ==
  ASSUME CacheInv, CrashInv, NEW i \in Bufs, NEW v \in Vals, Modify(i, v)
  PROVE  CrashInv'
  <1> DEFINE b == buf[i].blk
  <1>1. /\ buf \in [Bufs -> Buffers] /\ OneBufferPerBlock /\ DirtyInv
        /\ want \in [Blocks -> Content]
        /\ \A k \in Bufs : buf[k].dirty => buf[k].blk \in Blocks
    BY DEF CacheInv, BufInv, DriveInv, CrashInv
  <1>2. /\ b \in Blocks /\ pc = "idle" /\ pc' = "idle"
        /\ buf' = [buf EXCEPT ![i].val = <<b, v>>, ![i].dirty = TRUE]
        /\ want' = [want EXCEPT ![b] = <<b, v>>]
        /\ UNCHANGED <<disk, may, jlog, lastError, saved>>
    BY <1>1 DEF Modify, drive, Buffers
  <1>3. /\ buf'[i].dirty /\ buf'[i].blk = b /\ buf'[i].val = <<b, v>> /\ want'[b] = <<b, v>>
        /\ \A k \in Bufs : k # i => buf'[k] = buf[k]
        /\ \A c \in Blocks : c # b => want'[c] = want[c]
    BY <1>1, <1>2 DEF Buffers
  <1>4. \A k \in Bufs : buf'[k].dirty => buf'[k].val = want'[buf'[k].blk]
    <2> SUFFICES ASSUME NEW k \in Bufs, k # i, buf[k].dirty PROVE buf[k].val = want'[buf[k].blk]
      BY <1>3
    <2>1. buf[k].blk \in Blocks /\ buf[k].blk # b
      BY <1>1, <1>2, CacheAssumption DEF OneBufferPerBlock
    <2> QED
      BY <1>1, <1>3, <2>1 DEF DirtyInv
  <1>5. ~lastError' => \A c \in Blocks : want'[c] # saved'[c] =>
             \E k \in Bufs : buf'[k].dirty /\ buf'[k].blk = c
    BY <1>1, <1>2, <1>3 DEF DirtyInv
  <1>6. DirtyInv'
    BY <1>2, <1>4, <1>5 DEF DirtyInv
  <1> QED
    BY <1>2, <1>6, QuietStep

LEMMA MarkCleanCrash ==
  ASSUME CacheInv, CrashInv, NEW i \in Bufs, MarkClean(i)
  PROVE  CrashInv'
  <1> DEFINE b == buf[i].blk
  <1>1. /\ buf \in [Bufs -> Buffers] /\ OneBufferPerBlock /\ DirtyInv
        /\ want \in [Blocks -> Content]
        /\ \A k \in Bufs : buf[k].dirty => buf[k].blk \in Blocks
    BY DEF CacheInv, BufInv, DriveInv, CrashInv
  <1>2. /\ b \in Blocks /\ pc = "idle" /\ pc' = "idle"
        /\ buf' = [buf EXCEPT ![i].dirty = FALSE]
        /\ want' = [want EXCEPT ![b] = saved[b]]
        /\ UNCHANGED <<disk, may, jlog, lastError, saved>>
    BY <1>1 DEF MarkClean, drive
  <1>3. /\ ~buf'[i].dirty /\ want'[b] = saved[b]
        /\ \A k \in Bufs : k # i => buf'[k] = buf[k]
        /\ \A c \in Blocks : c # b => want'[c] = want[c]
    BY <1>1, <1>2 DEF Buffers
  <1>4. \A k \in Bufs : buf'[k].dirty => buf'[k].val = want'[buf'[k].blk]
    <2> SUFFICES ASSUME NEW k \in Bufs, k # i, buf[k].dirty PROVE buf[k].val = want'[buf[k].blk]
      BY <1>3
    <2>1. buf[k].blk \in Blocks /\ buf[k].blk # b
      BY <1>1, <1>2, CacheAssumption DEF OneBufferPerBlock
    <2> QED
      BY <1>1, <1>3, <2>1 DEF DirtyInv
  <1>5. ~lastError' => \A c \in Blocks : want'[c] # saved'[c] =>
             \E k \in Bufs : buf'[k].dirty /\ buf'[k].blk = c
    BY <1>1, <1>2, <1>3 DEF DirtyInv
  <1>6. DirtyInv'
    BY <1>2, <1>4, <1>5 DEF DirtyInv
  <1> QED
    BY <1>2, <1>6, QuietStep

\* A buffer that is taken over is not dirty: nothing is lost with it.
LEMMA AllocateCrash ==
  ASSUME CacheInv, CrashInv, NEW call \in Calls, NEW i \in Bufs,
         ~buf[i].dirty, Allocate(i, call),
         pc \in {"idle", "alloc"}, pc' = "idle", UNCHANGED <<disk, may, jlog, want, saved>>
  PROVE  CrashInv'
  <1>1. /\ buf \in [Bufs -> Buffers] /\ lastError \in BOOLEAN /\ DirtyInv
        /\ want \in [Blocks -> Content] /\ saved \in [Blocks -> Content]
    BY DEF CacheInv, BufInv, DriveInv, CrashInv
  <1>2. (\E v : Taken(i, call, v)) \/ NotTaken(i)
    BY DEF Allocate
  <1>3. ~buf'[i].dirty /\ \A k \in Bufs : k # i => buf'[k] = buf[k]
    BY <1>1, <1>2 DEF Taken, NotTaken
  <1>4. lastError => lastError'
    BY DEF Allocate
  <1>5. DirtyInv'
    <2>1. CASE pc = "idle"
      BY <1>1, <1>3, <1>4, <2>1, SameDirty
    <2>2. CASE pc = "alloc"
      <3>1. \A k \in Bufs : ~buf'[k].dirty
        BY <1>3, <2>2 DEF CacheInv, ControlInv
      <3>2. ~lastError' => want' = saved'
        BY <1>1, <1>4, <2>2 DEF DirtyInv
      <3> QED
        BY <3>1, <3>2 DEF DirtyInv
    <2> QED
      BY <2>1, <2>2
  <1> QED
    BY <1>5, QuietStep

LEMMA MissCrash ==
  ASSUME CacheInv, CrashInv, NEW call \in Calls, Miss(call)
  PROVE  CrashInv'
  <1>1. /\ pc = "idle" /\ ring # <<>> /\ RingInv /\ lastError \in BOOLEAN
        /\ UNCHANGED <<disk, may, jlog, want, saved>>
    BY DEF CacheInv, BufInv, DriveInv, Miss, drive
  <1>2. Head(ring) \in Bufs
    BY <1>1, HeadFacts
  <1>3. CASE buf[Head(ring)].dirty
    <2>1. pc' = "slots" /\ UNCHANGED <<buf, lastError>>
      BY <1>3 DEF Miss
    <2>2. DirtyInv'
      BY <1>1, <2>1, SameDirty DEF CrashInv
    <2> QED
      BY <1>1, <2>1, <2>2, QuietStep
  <1>4. CASE ~buf[Head(ring)].dirty
    <2>1. Allocate(Head(ring), call) /\ pc' = pc
      BY <1>4 DEF Miss
    <2> QED
      BY <1>1, <1>2, <1>4, <2>1, AllocateCrash
  <1> QED
    BY <1>3, <1>4

-----------------------------------------------------------------------------
(* Steps of a flush.                                                       *)

LEMMA FlushAllDirtyCrash ==
  ASSUME CacheInv, CrashInv, NEW call \in {Flush, Close}, FlushAllDirty(call)
  PROVE  CrashInv'
  <1>1. /\ pc = "idle" /\ UNCHANGED <<buf, lastError, jlog, disk, may, want, saved>>
        /\ pc' = IF Dirty = {} THEN "reset" ELSE "slots"
    BY DEF FlushAllDirty, cvars, drive, hist
  <1>2. /\ MayInv /\ DirtyInv /\ QuietInv /\ disk \in Disks /\ lastError \in BOOLEAN
        /\ want \in [Blocks -> Content] /\ saved \in [Blocks -> Content]
    BY DEF CacheInv, CrashInv, DriveInv
  <1>3. CASE Dirty # {}
    <2>1. pc' = "slots"
      BY <1>1, <1>3
    <2>2. DirtyInv'
      BY <1>1, <1>2, <2>1, SameDirty
    <2> QED
      BY <1>1, <2>1, <2>2, QuietStep
  <1>4. CASE Dirty = {}
    <2>1. pc' = "reset" /\ \A k \in Bufs : ~buf[k].dirty
      BY <1>1, <1>4 DEF Dirty
    <2>2. /\ Settled(saved) /\ \A l \in may.log : NoJournal(l)
          /\ ~lastError => want = saved
      BY <1>1, <1>2, <2>1 DEF QuietInv, DirtyInv
    <2>3. MayInv' /\ QuietInv' /\ DirtyInv'
      BY <1>1, <1>2, <2>1, <2>2 DEF MayInv, QuietInv, DirtyInv, Settled, HomeIs
    <2>4. ~lastError => disk.home = want /\ \A l \in may.log : Restores(l, want)
      BY <1>2, <2>2, NoJournalReplays DEF Settled, HomeIs, Disks, Restores
    <2>5. ResetInv'
      BY <1>1, <2>1, <2>4 DEF ResetInv, Restores, Replays, Covers, HomeIs
    <2>6. FlushInv' /\ MountInv'
      BY <2>1 DEF FlushInv, MountInv
    <2> QED
      BY <2>3, <2>5, <2>6 DEF CrashInv
  <1> QED
    BY <1>3, <1>4

LEMMA JournalWriteCrash ==
  ASSUME OnlyBlockReadsFail, CacheInv, CacheInv', CrashInv, JournalWrite
  PROVE  CrashInv'
  <1>1. /\ pc = "slots" /\ pc' = "barrier1" /\ WriteSlots
        /\ jlog' = [i \in Dirty |-> buf[i].blk]
        /\ UNCHANGED <<buf, lastError, want, saved>>
    BY DEF OnlyBlockReadsFail, JournalWrite, Fails, Goto, cvars, hist
  <1>2. /\ MayInv /\ DirtyInv /\ QuietInv /\ disk \in Disks /\ may \in Mays
        /\ jlog' \in Logs /\ OneBufferPerBlock /\ Dirty \subseteq Bufs
        /\ \A k \in Bufs : buf[k].dirty => buf[k].blk \in Blocks
    BY DEF CacheInv, CrashInv, DriveInv, BufInv, Dirty
  <1>3. /\ disk'.home = disk.home /\ disk'.log = disk.log
        /\ may'.home = may.home /\ may'.log = may.log
        /\ \A i \in Bufs : disk'.slot[i] = buf[i].val /\ buf[i].val \in may'.slot[i]
    BY <1>1, <1>2 DEF WriteSlots, Disks, Mays
  <1>4. \A i, k \in Dirty : buf[i].blk = buf[k].blk => i = k
    BY <1>2, CacheAssumption DEF OneBufferPerBlock, Dirty
  <1>5. /\ IsInjective(jlog') /\ jlog' # NoLog /\ DOMAIN jlog' = Dirty
        /\ \A i \in Dirty : jlog'[i] = buf[i].blk
    BY <1>1, <1>2, <1>4, CacheAssumption DEF IsInjective
  <1>6. MayInv'
    BY <1>2, <1>3, <1>5 DEF MayInv
  <1>7. QuietInv'
    BY <1>1, <1>2, <1>3 DEF QuietInv, Settled, HomeIs
  <1>8. DirtyInv'
    <2>1. \A i \in Bufs : buf[i].dirty => i \in Dirty
      BY DEF Dirty
    <2> QED
      BY <1>1, <1>2, <1>5, <2>1 DEF DirtyInv, Covers
  <1>9. FlushInv'
    <2>1. \A i \in Dirty : disk'.slot[i] = want'[jlog'[i]]
      BY <1>1, <1>2, <1>3, <1>5 DEF DirtyInv, Dirty
    <2>2. Dirty' = Dirty
      BY <1>1 DEF Dirty
    <2> QED
      BY <1>1, <1>5, <2>1, <2>2 DEF FlushInv
  <1>10. MountInv' /\ ResetInv'
    BY <1>1 DEF MountInv, ResetInv
  <1> QED
    BY <1>6, <1>7, <1>8, <1>9, <1>10 DEF CrashInv

LEMMA JournalFlushCrash ==
  ASSUME CacheInv, CrashInv, JournalFlush
  PROVE  CrashInv'
  <1>1. /\ pc = "barrier1" /\ pc' = "log" /\ Barrier
        /\ UNCHANGED <<buf, lastError, jlog, want, saved>>
    BY DEF JournalFlush, Goto, cvars, hist
  <1>2. /\ MayInv /\ DirtyInv /\ QuietInv /\ FlushInv /\ DriveInv
        /\ jlog \in Logs /\ jlog # NoLog
    BY CacheAssumption DEF CacheInv, CrashInv, DriveInv
  <1>3. /\ disk' = disk /\ may'.log = {disk.log}
        /\ \A b \in Blocks : may'.home[b] = {disk.home[b]}
        /\ \A i \in Bufs : may'.slot[i] = {disk.slot[i]}
    BY <1>1, <1>2, BarrierFacts
  <1>4. MayInv'
    BY <1>1, <1>2, <1>3 DEF MayInv
  <1>5. QuietInv'
    BY <1>1, <1>2, <1>3 DEF QuietInv, MayInv, Settled, HomeIs
  <1>6. DirtyInv'
    BY <1>1, <1>2 DEF DirtyInv, Covers
  <1>7. FlushInv'
    <2>1. /\ jlog = [i \in Dirty |-> buf[i].blk] /\ Dirty' = Dirty
          /\ \A i \in DOMAIN jlog : disk.slot[i] = want[jlog[i]]
      BY <1>1, <1>2 DEF FlushInv, Dirty
    <2>2. DOMAIN jlog \subseteq Bufs
      BY <1>2, LogFacts
    <2>3. Replays(jlog, want)'
      BY <1>1, <1>3, <2>1, <2>2 DEF Replays
    <2> QED
      BY <1>1, <1>2, <2>1, <2>3 DEF FlushInv
  <1>8. MountInv' /\ ResetInv'
    BY <1>1 DEF MountInv, ResetInv
  <1> QED
    BY <1>4, <1>5, <1>6, <1>7, <1>8 DEF CrashInv

LEMMA JournalLogCrash ==
  ASSUME OnlyBlockReadsFail, CacheInv, CrashInv, JournalLog
  PROVE  CrashInv'
  <1>1. /\ pc = "log" /\ pc' = "barrier2" /\ WriteLog(jlog)
        /\ UNCHANGED <<buf, lastError, jlog, want, saved>>
    BY DEF OnlyBlockReadsFail, JournalLog, Fails, Goto, cvars, hist
  <1>2. /\ MayInv /\ DirtyInv /\ QuietInv /\ FlushInv /\ disk \in Disks /\ may \in Mays
    BY DEF CacheInv, CrashInv, DriveInv
  <1>3. /\ disk'.home = disk.home /\ disk'.log = jlog /\ disk'.slot = disk.slot
        /\ may'.home = may.home /\ may'.log = may.log \cup {jlog, NoLog} /\ may'.slot = may.slot
    BY <1>1, <1>2 DEF WriteLog, Disks, Mays
  <1>4. MayInv'
    BY <1>1, <1>2, <1>3 DEF MayInv
  <1>5. QuietInv'
    BY <1>1, <1>2, <1>3 DEF QuietInv, Settled, HomeIs
  <1>6. DirtyInv'
    BY <1>1, <1>2 DEF DirtyInv, Covers
  <1>7. FlushInv'
    <2>1. /\ jlog = [i \in Dirty |-> buf[i].blk] /\ Dirty' = Dirty
          /\ jlog # NoLog /\ Replays(jlog, want)
      BY <1>1, <1>2 DEF FlushInv, Dirty
    <2>2. Replays(jlog, want)'
      BY <1>1, <1>3, <2>1 DEF Replays
    <2>3. Settled(saved)' /\ \A l \in may'.log : NoJournal(l) \/ l = jlog'
      BY <1>1, <1>2, <1>3 DEF QuietInv, Settled, HomeIs, NoJournal
    <2> QED
      BY <1>1, <1>3, <2>1, <2>2, <2>3 DEF FlushInv, NoJournal
  <1>8. MountInv' /\ ResetInv'
    BY <1>1 DEF MountInv, ResetInv
  <1> QED
    BY <1>4, <1>5, <1>6, <1>7, <1>8 DEF CrashInv

LEMMA JournalFlushedCrash ==
  ASSUME CacheInv, CrashInv, JournalFlushed
  PROVE  CrashInv'
  <1>1. /\ pc = "barrier2" /\ pc' = "write" /\ Barrier
        /\ UNCHANGED <<buf, lastError, jlog, want, saved>>
    BY DEF JournalFlushed, Goto, cvars, hist
  <1>2. /\ MayInv /\ DirtyInv /\ QuietInv /\ FlushInv /\ DriveInv
    BY DEF CacheInv, CrashInv
  <1>3. /\ disk' = disk /\ may'.log = {jlog} /\ disk.log = jlog
        /\ \A b \in Blocks : may'.home[b] = {disk.home[b]}
        /\ \A i \in Bufs : may'.slot[i] = {disk.slot[i]}
    BY <1>1, <1>2, BarrierFacts DEF FlushInv
  <1>4. MayInv'
    BY <1>1, <1>2, <1>3 DEF MayInv
  <1>5. QuietInv'
    BY <1>1, <1>2, <1>3 DEF QuietInv, MayInv, Settled, HomeIs
  <1>6. DirtyInv'
    BY <1>1, <1>2 DEF DirtyInv, Covers
  <1>7. FlushInv'
    <2>1. /\ DOMAIN jlog = Dirty /\ \A i \in Dirty : jlog[i] = buf[i].blk
          /\ jlog # NoLog /\ Replays(jlog, want) /\ Settled(saved) /\ Dirty' = Dirty
      BY <1>1, <1>2 DEF FlushInv, Dirty
    <2>2. DOMAIN jlog \subseteq Bufs
      BY <1>2, LogFacts DEF DriveInv
    <2>3. Replays(jlog, want)'
      BY <1>1, <1>3, <2>1, <2>2 DEF Replays
    <2>4. ASSUME ~lastError, NEW b \in Blocks, ~Covers(jlog, b) PROVE HomeIs(b, want)'
      BY <1>1, <1>2, <1>3, <2>1, <2>4 DEF DirtyInv, Settled, HomeIs
    <2>5. ~lastError' => Restores(jlog, want)'
      BY <1>1, <2>3, <2>4 DEF Restores, Covers
    <2> QED
      BY <1>1, <1>3, <2>1, <2>3, <2>5 DEF FlushInv
  <1>8. MountInv' /\ ResetInv'
    BY <1>1 DEF MountInv, ResetInv
  <1> QED
    BY <1>4, <1>5, <1>6, <1>7, <1>8 DEF CrashInv

LEMMA TransferHomeCrash ==
  ASSUME OnlyBlockReadsFail, CacheInv, CrashInv, TransferHome
  PROVE  CrashInv'
  <1> DEFINE i == CHOOSE i \in Dirty : \A k \in Dirty : i <= k
             b == buf[i].blk
             v == buf[i].val
  <1>1. /\ pc = "write" /\ pc' = "write" /\ UNCHANGED <<jlog, want, saved, lastError>>
        /\ buf' = [buf EXCEPT ![i].dirty = FALSE]
        /\ \/ ~lastError /\ WriteHome(b, v)
           \/ lastError /\ UNCHANGED <<disk, may>>
    BY DEF OnlyBlockReadsFail, TransferHome, Fails, drive, hist
  <1>2. i \in Dirty /\ Dirty \subseteq Bufs
    BY FirstExists DEF TransferHome, Dirty
  <1> HIDE DEF i
  <1>3. /\ MayInv /\ DirtyInv /\ QuietInv /\ FlushInv /\ disk \in Disks /\ may \in Mays
        /\ buf \in [Bufs -> Buffers] /\ jlog \in Logs /\ lastError \in BOOLEAN
    BY DEF CacheInv, CrashInv, DriveInv, BufInv
  <1>4. /\ i \in DOMAIN jlog /\ b = jlog[i] /\ b \in Blocks /\ v = want[b] /\ v \in Content
    BY <1>1, <1>2, <1>3, LogFacts DEF FlushInv, DirtyInv, Dirty, Buffers
  <1>5. /\ ~buf'[i].dirty /\ \A k \in Bufs : k # i => buf'[k] = buf[k]
        /\ Dirty' = Dirty \ {i}
    BY <1>1, <1>2, <1>3 DEF Buffers, Dirty
  <1>6. DirtyInv'
    BY <1>1, <1>3, <1>5 DEF DirtyInv, Covers
  <1>7. CASE lastError
    <2>1. UNCHANGED <<disk, may>>
      BY <1>1, <1>7
    <2>2. MayInv' /\ QuietInv'
      BY <1>1, <1>3, <2>1 DEF MayInv, QuietInv, Settled, HomeIs
    <2>3. FlushInv'
      BY <1>1, <1>3, <1>5, <1>7, <2>1 DEF FlushInv, Replays
    <2> QED
      BY <1>1, <1>6, <2>2, <2>3 DEF CrashInv, MountInv, ResetInv
  <1>8. CASE ~lastError
    <2>1. /\ disk'.home[b] = v /\ v \in may'.home[b]
          /\ \A c \in Blocks : c # b => disk'.home[c] = disk.home[c] /\ may'.home[c] = may.home[c]
          /\ disk'.log = disk.log /\ disk'.slot = disk.slot
          /\ may'.log = may.log /\ may'.slot = may.slot
      BY <1>1, <1>3, <1>4, <1>8 DEF WriteHome, Disks, Mays
    <2>2. MayInv' /\ QuietInv'
      BY <1>1, <1>3, <1>8, <2>1 DEF MayInv, QuietInv
    <2>3. Restores(jlog, want)'
      <3>1. Restores(jlog, want)
        BY <1>1, <1>3, <1>8 DEF FlushInv
      <3>2. Replays(jlog, want)'
        BY <1>1, <2>1, <3>1 DEF Restores, Replays
      <3>3. ASSUME NEW c \in Blocks, ~Covers(jlog, c) PROVE HomeIs(c, want)'
        <4>1. c # b
          BY <1>1, <1>3, <1>4, <3>3 DEF Covers, FlushInv
        <4> QED
          BY <1>1, <2>1, <3>1, <3>3, <4>1 DEF Restores, HomeIs
      <3> QED
        BY <1>1, <3>2, <3>3 DEF Restores, Covers
    <2>4. ASSUME NEW k \in DOMAIN jlog \ Dirty' PROVE disk'.home[jlog[k]] = want[jlog[k]]
      <3>1. jlog[k] \in Blocks
        BY <1>3, LogFacts
      <3>2. CASE jlog[k] = b
        BY <1>4, <2>1, <3>2
      <3>3. CASE jlog[k] # b
        <4>1. k \in DOMAIN jlog \ Dirty
          BY <1>4, <1>5, <3>3
        <4> QED
          BY <1>1, <1>3, <1>8, <2>1, <3>1, <3>3, <4>1 DEF FlushInv
      <3> QED
        BY <3>2, <3>3
    <2>5. FlushInv'
      BY <1>1, <1>2, <1>3, <1>5, <2>1, <2>3, <2>4 DEF FlushInv, Restores
    <2> QED
      BY <1>1, <1>6, <2>2, <2>5 DEF CrashInv, MountInv, ResetInv
  <1> QED
    BY <1>7, <1>8

\* The end of the writes of a flush, and of a mount's.
LEMMA WrittenStep ==
  ASSUME CacheInv, CrashInv, pc \in {"write", "replay", "restore"}, pc' = "reset",
         UNCHANGED <<lastError, jlog, disk, may, want, saved>>,
         \A k \in Bufs : ~buf'[k].dirty,
         NEW l, may.log = {l}, ~lastError => Restores(l, want),
         ~lastError /\ l # NoLog => \A i \in DOMAIN l : disk.home[l[i]] = want[l[i]]
  PROVE  CrashInv'
  <1>1. /\ MayInv /\ QuietInv /\ disk \in Disks /\ want \in [Blocks -> Content]
    BY DEF CacheInv, CrashInv, DriveInv
  <1>2. MayInv' /\ QuietInv' /\ DirtyInv' /\ FlushInv' /\ MountInv'
    BY <1>1 DEF MayInv, QuietInv, DirtyInv, FlushInv, MountInv, Settled, HomeIs
  <1>3. ASSUME ~lastError PROVE disk.home = want
    <2>1. ASSUME NEW b \in Blocks PROVE disk.home[b] = want[b]
      BY <1>3 DEF Restores, Covers, HomeIs
    <2> QED
      BY <1>1, <2>1 DEF Disks
  <1>4. ResetInv'
    BY <1>3 DEF ResetInv, Restores, Replays, Covers, HomeIs
  <1> QED
    BY <1>2, <1>4 DEF CrashInv

LEMMA HomeWrittenCrash ==
  ASSUME CacheInv, CrashInv, HomeWritten
  PROVE  CrashInv'
  <1>1. /\ pc = "write" /\ pc' = "reset" /\ UNCHANGED <<lastError, jlog, disk, may, want, saved>>
        /\ Dirty = {} /\ buf' = buf
    BY DEF HomeWritten, Goto, cvars, drive, hist
  <1>2. FlushInv /\ \A k \in Bufs : ~buf'[k].dirty
    BY <1>1 DEF CrashInv, Dirty
  <1>3. /\ may.log = {jlog}
        /\ ~lastError => Restores(jlog, want)
        /\ ~lastError => \A i \in DOMAIN jlog : disk.home[jlog[i]] = want[jlog[i]]
    BY <1>1, <1>2 DEF FlushInv
  <1> QED
    BY <1>1, <1>2, <1>3, WrittenStep

LEMMA JournalResetCrash ==
  ASSUME CacheInv, CrashInv, JournalReset
  PROVE  CrashInv'
  <1>1. /\ pc = "reset" /\ pc' = "erase" /\ Barrier /\ jlog' = NoEntry
        /\ UNCHANGED <<buf, lastError, want, saved>>
    BY DEF JournalReset, Goto, cvars, hist
  <1>2. /\ MayInv /\ DirtyInv /\ QuietInv /\ ResetInv /\ DriveInv
    BY DEF CacheInv, CrashInv
  <1>3. /\ disk' = disk /\ may'.log = {disk.log}
        /\ \A b \in Blocks : may'.home[b] = {disk.home[b]}
        /\ \A i \in Bufs : may'.slot[i] = {disk.slot[i]}
    BY <1>1, <1>2, BarrierFacts
  <1>4. MayInv'
    BY <1>1, <1>2, <1>3, NoJournalReplays DEF MayInv, NoJournal
  <1>5. QuietInv'
    BY <1>1, <1>2, <1>3 DEF QuietInv, Settled, HomeIs
  <1>6. DirtyInv'
    BY <1>1, <1>2 DEF DirtyInv
  <1>7. ResetInv'
    <2>1. ASSUME ~lastError PROVE Settled(want)'
      BY <1>1, <1>2, <1>3, <2>1 DEF ResetInv, Settled, HomeIs
    <2>2. ASSUME ~lastError PROVE Replays(disk.log, want)'
      <3>1. Replays(disk.log, want)
        BY <1>1, <1>2, <2>2 DEF ResetInv, Restores, MayInv
      <3>2. disk.log # NoLog => DOMAIN disk.log \subseteq Bufs
        BY <1>2, LogFacts DEF DriveInv, Disks
      <3> QED
        BY <1>1, <1>3, <3>1, <3>2 DEF Replays
    <2> QED
      BY <1>1, <1>3, <2>1, <2>2 DEF ResetInv
  <1> QED
    BY <1>1, <1>4, <1>5, <1>6, <1>7 DEF CrashInv, FlushInv, MountInv

LEMMA JournalEraseCrash ==
  ASSUME OnlyBlockReadsFail, CacheInv, CrashInv, JournalErase
  PROVE  CrashInv'
  <1>1. /\ pc = "erase" /\ pc' = "done" /\ WriteLog(jlog) /\ jlog' = jlog
        /\ UNCHANGED <<buf, lastError, want, saved>>
    BY DEF OnlyBlockReadsFail, JournalErase, Fails, Goto, cvars, hist
  <1>2. /\ MayInv /\ DirtyInv /\ QuietInv /\ ResetInv /\ disk \in Disks /\ may \in Mays
    BY DEF CacheInv, CrashInv, DriveInv
  <1>3. /\ disk'.home = disk.home /\ disk'.log = NoEntry /\ disk'.slot = disk.slot /\ jlog = NoEntry
        /\ may'.home = may.home /\ may'.log = may.log \cup {NoEntry, NoLog} /\ may'.slot = may.slot
    BY <1>1, <1>2 DEF WriteLog, Disks, Mays, ResetInv
  <1>4. MayInv'
    BY <1>1, <1>2, <1>3 DEF MayInv
  <1>5. QuietInv' /\ DirtyInv'
    BY <1>1, <1>2, <1>3 DEF QuietInv, DirtyInv, Settled, HomeIs
  <1>6. ResetInv'
    <2>1. ASSUME ~lastError PROVE Settled(want)'
      BY <1>1, <1>2, <1>3, <2>1 DEF ResetInv, Settled, HomeIs
    <2>2. ASSUME ~lastError, NEW l \in may'.log PROVE Replays(l, want)'
      <3>1. Replays(l, want)
        BY <1>1, <1>2, <1>3, <2>2, NoJournalReplays DEF ResetInv, NoJournal
      <3> QED
        BY <1>1, <1>3, <3>1 DEF Replays
    <2> QED
      BY <1>1, <1>3, <2>1, <2>2 DEF ResetInv
  <1> QED
    BY <1>1, <1>4, <1>5, <1>6 DEF CrashInv, FlushInv, MountInv

LEMMA ResetDoneCrash ==
  ASSUME CacheInv, CrashInv, ResetDone
  PROVE  CrashInv'
  <1>1. /\ pc = "done" /\ pc' \in {"off", "alloc", "idle"} /\ Barrier
        /\ UNCHANGED <<lastError, jlog, want>>
        /\ saved' = IF lastError THEN saved ELSE want
    BY DEF ResetDone
  <1>2. /\ MayInv /\ DirtyInv /\ QuietInv /\ ResetInv /\ DriveInv
        /\ \A k \in Bufs : ~buf'[k].dirty
    BY ResetDoneBuffers DEF CacheInv, CrashInv
  <1>3. /\ disk' = disk /\ may'.log = {NoEntry} /\ disk.log = NoEntry
        /\ \A b \in Blocks : may'.home[b] = {disk.home[b]}
        /\ \A i \in Bufs : may'.slot[i] = {disk.slot[i]}
    BY <1>1, <1>2, BarrierFacts DEF ResetInv
  <1>4. MayInv'
    BY <1>1, <1>2, <1>3, NoJournalReplays DEF MayInv, NoJournal
  <1>5. Settled(saved)'
    <2>1. CASE lastError
      BY <1>1, <1>2, <1>3, <2>1 DEF QuietInv, Settled, HomeIs
    <2>2. CASE ~lastError
      BY <1>1, <1>2, <1>3, <2>2 DEF ResetInv, Settled, HomeIs
    <2> QED
      BY <2>1, <2>2
  <1>6. QuietInv'
    BY <1>1, <1>3, <1>5 DEF QuietInv, NoJournal, Barrier, MayBe
  <1>7. DirtyInv'
    BY <1>1, <1>2 DEF DirtyInv
  <1> QED
    BY <1>1, <1>4, <1>6, <1>7 DEF CrashInv, FlushInv, MountInv, ResetInv

LEMMA AllocAfterFlushCrash ==
  ASSUME CacheInv, CrashInv, AllocAfterFlush
  PROVE  CrashInv'
  <1>1. /\ pc = "alloc" /\ pc' = "idle" /\ Allocate(Head(ring), pending)
        /\ UNCHANGED <<disk, may, jlog, want, saved>>
    BY DEF AllocAfterFlush, drive
  <1>2. /\ pending \in Calls /\ RingInv /\ ring # <<>>
        /\ \A i \in Bufs : ~buf[i].dirty
    BY <1>1 DEF CacheInv, BufInv, ControlInv
  <1>3. Head(ring) \in Bufs
    BY <1>2, HeadFacts
  <1> QED
    BY <1>1, <1>2, <1>3, AllocateCrash

-----------------------------------------------------------------------------
(* Steps of a mount, and the loss of power.                                *)

LEMMA RemountCrash ==
  ASSUME CacheInv, CrashInv, Remount
  PROVE  CrashInv'
  <1>1. /\ pc = "off" /\ pc' = "restore" /\ lastError' = FALSE /\ want' = saved
        /\ UNCHANGED <<buf, jlog, disk, may, saved>>
    BY DEF Remount, drive
  <1>2. /\ MayInv /\ QuietInv /\ disk \in Disks /\ saved \in [Blocks -> Content]
        /\ \A k \in Bufs : ~buf[k].dirty
    BY <1>1 DEF CacheInv, CrashInv, DriveInv, ControlInv
  <1>3. /\ Settled(saved) /\ NoJournal(disk.log) /\ may = MayBe(disk)
    BY <1>1, <1>2 DEF QuietInv, MayInv
  <1>4. saved = Image(disk)
    BY <1>2, <1>3, ImageOf, NoJournalReplays DEF Settled, HomeIs, Replays
  <1>5. MayInv' /\ DirtyInv' /\ QuietInv' /\ MountInv'
    BY <1>1, <1>2, <1>3, <1>4 DEF MayInv, DirtyInv, QuietInv, MountInv, Settled, HomeIs, MayBe
  <1> QED
    BY <1>1, <1>5 DEF CrashInv, FlushInv, ResetInv

\* A drive that has been at rest finds its image again.
LEMMA RestFacts ==
  ASSUME DriveInv, MayInv, may = MayBe(disk)
  PROVE  /\ may.log = {disk.log} /\ Restores(disk.log, Image(disk))
         /\ disk.log # NoLog => \A i \in DOMAIN disk.log : disk.slot[i] = Image(disk)[disk.log[i]]
  <1>1. /\ disk \in Disks /\ may.log = {disk.log} /\ disk.log \in may.log
        /\ \A b \in Blocks : may.home[b] = {disk.home[b]}
        /\ \A i \in Bufs : may.slot[i] = {disk.slot[i]}
    BY DEF DriveInv, MayBe
  <1>2. disk.log # NoLog => IsInjective(disk.log) /\ DOMAIN disk.log \subseteq Bufs
    BY <1>1, LogFacts DEF MayInv, Disks
  <1> QED
    BY <1>1, <1>2, ImageFacts DEF Restores, Replays, HomeIs

LEMMA JournalRestoreCrash ==
  ASSUME OnlyBlockReadsFail, CacheInv, CrashInv, JournalRestore
  PROVE  CrashInv'
  <1>1. pc = "restore" /\ UNCHANGED <<buf, lastError, disk, may, want, saved>>
    BY DEF JournalRestore, cvars, drive, hist
  <1>2. /\ MayInv /\ DirtyInv /\ QuietInv /\ MountInv /\ DriveInv
        /\ \A k \in Bufs : ~buf'[k].dirty
    BY <1>1 DEF CacheInv, CrashInv, ControlInv
  <1>3. ~lastError /\ may = MayBe(disk) /\ want = Image(disk)
    BY <1>1, <1>2 DEF MountInv, DirtyInv
  <1>4. /\ may.log = {disk.log} /\ Restores(disk.log, want)
        /\ disk.log # NoLog => \A i \in DOMAIN disk.log : disk.slot[i] = want[disk.log[i]]
    BY <1>2, <1>3, RestFacts
  <1>5. CASE NoJournal(disk.log)
    <2>1. pc' = "reset" /\ jlog' = jlog
      BY <1>5 DEF JournalRestore, Goto, NoJournal
    <2>2. disk.log # NoLog => \A i \in DOMAIN disk.log : disk.home[disk.log[i]] = want[disk.log[i]]
      BY <1>5, NoJournalReplays DEF NoEntry
    <2> QED
      BY <1>1, <1>2, <1>3, <1>4, <2>1, <2>2, WrittenStep
  <1>6. CASE ~NoJournal(disk.log)
    <2>1. pc' = "replay" /\ jlog' = disk.log /\ disk.log # NoLog
      <3>1. ~Fails("log")
        BY DEF OnlyBlockReadsFail, Fails
      <3> QED
        BY <1>6, <3>1 DEF JournalRestore, Goto, NoJournal
    <2>2. MayInv'
      BY <1>1, <1>2, <2>1 DEF MayInv
    <2>3. DirtyInv' /\ QuietInv'
      BY <1>1, <1>2, <1>3, <2>1 DEF DirtyInv, QuietInv
    <2>4. MountInv'
      BY <1>1, <1>3, <1>4, <2>1 DEF MountInv, Restores, Replays, Covers, HomeIs
    <2> QED
      BY <2>1, <2>2, <2>3, <2>4 DEF CrashInv, FlushInv, ResetInv
  <1> QED
    BY <1>5, <1>6

LEMMA ReplayCrash ==
  ASSUME OnlyBlockReadsFail, CacheInv, CrashInv, Replay
  PROVE  CrashInv'
  <1> DEFINE i == CHOOSE i \in DOMAIN jlog : \A k \in DOMAIN jlog : i <= k
             b == jlog[i]
             v == disk.slot[i]
  <1>1. /\ pc = "replay" /\ pc' = "replay" /\ UNCHANGED <<buf, lastError, want, saved>>
        /\ jlog' = [k \in DOMAIN jlog \ {i} |-> jlog[k]] /\ WriteHome(b, v)
    BY DEF OnlyBlockReadsFail, Replay, Fails, cvars, hist
  <1>2. /\ MayInv /\ DirtyInv /\ QuietInv /\ MountInv /\ disk \in Disks /\ may \in Mays
        /\ jlog \in Logs /\ NoLog \notin Logs /\ \A k \in Bufs : ~buf'[k].dirty
    BY <1>1, CacheAssumption DEF CacheInv, CrashInv, DriveInv, ControlInv
  <1>3. i \in DOMAIN jlog /\ DOMAIN jlog \subseteq Bufs
    BY <1>2, FirstExists, LogFacts DEF Replay
  <1> HIDE DEF i
  <1>4. /\ disk.log # NoLog /\ may.log = {disk.log} /\ Restores(disk.log, want) /\ ~lastError
        /\ i \in DOMAIN disk.log /\ b = disk.log[i] /\ IsInjective(disk.log)
    BY <1>1, <1>2, <1>3 DEF MountInv, MayInv
  <1>5. v = want[b] /\ b \in Blocks /\ v \in Content
    BY <1>2, <1>3, <1>4, LogFacts DEF Restores, Replays, Disks
  <1>6. /\ disk'.home[b] = v /\ v \in may'.home[b]
        /\ \A c \in Blocks : c # b => disk'.home[c] = disk.home[c] /\ may'.home[c] = may.home[c]
        /\ disk'.log = disk.log /\ disk'.slot = disk.slot
        /\ may'.log = may.log /\ may'.slot = may.slot
    BY <1>1, <1>2, <1>5 DEF WriteHome, Disks, Mays
  <1>7. /\ DOMAIN jlog' = DOMAIN jlog \ {i} /\ \A k \in DOMAIN jlog' : jlog'[k] = jlog[k]
    BY <1>1
  <1>8. MayInv'
    <2>1. IsInjective(jlog')
      <3>1. IsInjective(jlog)
        BY <1>2 DEF MayInv
      <3> QED
        BY <1>7, <3>1 DEF IsInjective
    <2> QED
      BY <1>2, <1>6, <2>1 DEF MayInv
  <1>9. DirtyInv' /\ QuietInv'
    BY <1>1, <1>2, <1>4 DEF DirtyInv, QuietInv
  <1>10. Restores(disk.log, want)'
    <2>1. Replays(disk.log, want)'
      BY <1>1, <1>4, <1>6 DEF Restores, Replays
    <2>2. ASSUME NEW c \in Blocks, ~Covers(disk.log, c) PROVE HomeIs(c, want)'
      <3>1. c # b
        BY <1>4, <2>2 DEF Covers
      <3> QED
        BY <1>1, <1>4, <1>6, <2>2, <3>1 DEF Restores, HomeIs
    <2> QED
      BY <1>1, <1>6, <2>1, <2>2 DEF Restores, Covers
  <1>11. ASSUME NEW k \in DOMAIN disk.log \ DOMAIN jlog'
         PROVE  disk'.home[disk.log[k]] = want[disk.log[k]]
    <2>1. disk.log[k] \in Blocks
      BY <1>2, <1>4, LogFacts DEF Disks
    <2>2. CASE disk.log[k] = b
      BY <1>5, <1>6, <2>2
    <2>3. CASE disk.log[k] # b
      <3>1. k \in DOMAIN disk.log \ DOMAIN jlog
        BY <1>4, <1>7, <2>3
      <3> QED
        BY <1>1, <1>2, <1>6, <2>1, <2>3, <3>1 DEF MountInv
    <2> QED
      BY <2>2, <2>3
  <1>12. MountInv'
    BY <1>1, <1>2, <1>4, <1>6, <1>7, <1>10, <1>11 DEF MountInv, Restores
  <1> QED
    BY <1>1, <1>8, <1>9, <1>12 DEF CrashInv, FlushInv, ResetInv

LEMMA ReplayedCrash ==
  ASSUME CacheInv, CrashInv, Replayed
  PROVE  CrashInv'
  <1>1. /\ pc = "replay" /\ pc' = "reset" /\ UNCHANGED <<lastError, jlog, disk, may, want, saved>>
        /\ DOMAIN jlog = {} /\ buf' = buf
    BY DEF Replayed, Goto, cvars, drive, hist
  <1>2. MountInv /\ \A k \in Bufs : ~buf'[k].dirty
    BY <1>1 DEF CacheInv, CrashInv, ControlInv
  <1>3. /\ may.log = {disk.log} /\ Restores(disk.log, want)
        /\ \A i \in DOMAIN disk.log : disk.home[disk.log[i]] = want[disk.log[i]]
    BY <1>1, <1>2 DEF MountInv
  <1> QED
    BY <1>1, <1>2, <1>3, WrittenStep

LEMMA PowerLossCrash ==
  ASSUME CacheInv, CrashInv, PowerLoss
  PROVE  CrashInv'
  <1>1. /\ disk' \in Platters /\ may' = MayBe(disk') /\ pc' = "restore" /\ ~lastError'
        /\ jlog' = NoEntry /\ saved' = Image(disk') /\ want' = saved'
    BY DEF PowerLoss, MemoryLost
  <1>2. DriveInv /\ MayInv /\ \A k \in Bufs : ~buf'[k].dirty
    BY NoBuffersInv DEF CacheInv, CrashInv, PowerLoss, MemoryLost
  <1>3. disk' \in Disks /\ disk'.log \in may.log
    BY <1>1, <1>2, PlatterFacts
  <1>4. MayInv'
    BY <1>1, <1>2, <1>3, NoJournalReplays DEF MayInv, MayBe, NoJournal
  <1>5. DirtyInv' /\ QuietInv' /\ MountInv'
    BY <1>1, <1>2 DEF DirtyInv, QuietInv, MountInv
  <1> QED
    BY <1>1, <1>4, <1>5 DEF CrashInv, FlushInv, ResetInv

LEMMA InitCrash == Init => CrashInv
  <1> SUFFICES ASSUME Init PROVE CrashInv
    OBVIOUS
  <1>1. /\ CacheInv /\ may = MayBe(disk) /\ pc = "restore" /\ ~lastError /\ jlog = NoEntry
        /\ want = disk.home /\ saved = disk.home /\ NoJournal(disk.log)
    <2>1. disk.log \in {NoEntry, NoLog}
      BY DEF Init
    <2> QED
      BY <2>1, InitInv DEF Init, NoJournal
  <1>2. DriveInv /\ disk \in Disks /\ \A k \in Bufs : ~buf[k].dirty
    BY <1>1 DEF CacheInv, DriveInv, ControlInv
  <1>3. saved = Image(disk)
    <2>1. disk.log # NoLog => \A i \in DOMAIN disk.log : disk.slot[i] = disk.home[disk.log[i]]
      BY <1>1, NoJournalReplays DEF NoEntry
    <2> QED
      BY <1>1, <1>2, <2>1, ImageOf, NoJournalReplays DEF Disks
  <1>4. MayInv
    BY <1>1, <1>2, NoJournalReplays DEF MayInv, MayBe, NoJournal
  <1>5. DirtyInv /\ QuietInv /\ MountInv
    BY <1>1, <1>2, <1>3 DEF DirtyInv, QuietInv, MountInv
  <1> QED
    BY <1>1, <1>4, <1>5 DEF CrashInv, FlushInv, ResetInv

LEMMA NextCrash == OnlyBlockReadsFail /\ CacheInv /\ CacheInv' /\ CrashInv /\ [Next]_vars => CrashInv'
  <1> SUFFICES ASSUME OnlyBlockReadsFail, CacheInv, CacheInv', CrashInv, [Next]_vars PROVE CrashInv'
    OBVIOUS
  <1>1. CASE Client
    <2>1. \A b \in Blocks, n \in BOOLEAN : Get(b, n) \in Calls
      BY DEF Calls
    <2>2. Clean \in Calls
      BY DEF Calls
    <2>3. ASSUME NEW call \in Calls, Miss(call) PROVE CrashInv'
      BY <2>3, MissCrash
    <2>4. ASSUME NEW i \in Bufs, Free(i) PROVE CrashInv'
      BY <2>4, CountedStep DEF Free, Freed, drive, hist
    <2>5. ASSUME NEW i \in Bufs, UsedAdd(i) PROVE CrashInv'
      BY <2>5, CountedStep DEF UsedAdd, drive, hist
    <2>6. ASSUME NEW b \in Blocks, Hit(b) PROVE CrashInv'
      BY <2>6, CountedStep DEF Hit, drive, hist
    <2> QED
      BY <1>1, <2>1, <2>2, <2>3, <2>4, <2>5, <2>6, MarkCleanCrash, ModifyCrash,
         FlushAllDirtyCrash, RemountCrash DEF Client
  <1>2. CASE Cache
    BY <1>2, JournalWriteCrash, JournalFlushCrash, JournalLogCrash, JournalFlushedCrash,
       TransferHomeCrash, HomeWrittenCrash, JournalResetCrash, JournalEraseCrash, ResetDoneCrash,
       AllocAfterFlushCrash, JournalRestoreCrash, ReplayCrash, ReplayedCrash DEF Cache
  <1>3. CASE PowerLoss
    BY <1>3, PowerLossCrash
  <1>4. CASE UNCHANGED vars
    <2>1. UNCHANGED <<buf, ring, lastError, jlog, pc, pending, disk, may, undef, want, saved>>
      BY <1>4 DEF vars, cvars, drive, hist
    <2>2. Dirty' = Dirty
      BY <2>1 DEF Dirty
    <2>3. MayInv' /\ DirtyInv' /\ QuietInv'
      BY <2>1 DEF CrashInv, MayInv, DirtyInv, QuietInv, Settled, HomeIs
    <2>4. FlushInv'
      BY <2>1, <2>2 DEF CrashInv, FlushInv, Settled, Restores, Replays, HomeIs
    <2>5. MountInv' /\ ResetInv'
      BY <2>1 DEF CrashInv, MountInv, ResetInv, Settled, Restores, Replays, HomeIs
    <2> QED
      BY <2>3, <2>4, <2>5 DEF CrashInv
  <1> QED
    BY <1>1, <1>2, <1>3, <1>4 DEF Next

-----------------------------------------------------------------------------
(* What the invariant says of a loss of power.                             *)

LEMMA RestoresImage ==
  ASSUME DriveInv, NEW d \in Platters, NEW f \in [Blocks -> Content], Restores(d.log, f)
  PROVE  Image(d) = f
  <1>1. /\ d \in Disks
        /\ \A b \in Blocks : d.home[b] \in may.home[b]
        /\ \A i \in Bufs : d.slot[i] \in may.slot[i]
    BY PlatterFacts
  <1>2. d.log # NoLog => DOMAIN d.log \subseteq Bufs
    BY <1>1, LogFacts DEF Disks
  <1>3. d.log # NoLog => \A i \in DOMAIN d.log : d.slot[i] = f[d.log[i]]
    BY <1>1, <1>2 DEF Restores, Replays
  <1>4. \A b \in Blocks : ~Covers(d.log, b) => d.home[b] = f[b]
    BY <1>1 DEF Restores, HomeIs
  <1> QED
    BY <1>1, <1>3, <1>4, ImageOf

LEMMA CrashIsAtomic == CacheInv /\ CrashInv => LossIsAtomic
  <1> SUFFICES ASSUME CacheInv, CrashInv, ~lastError PROVE LossIsAtomic
    BY DEF LossIsAtomic
  <1>1. /\ MayInv /\ DirtyInv /\ QuietInv /\ FlushInv /\ MountInv /\ ResetInv /\ DriveInv
        /\ want \in [Blocks -> Content] /\ saved \in [Blocks -> Content] /\ pc \in Pcs
    BY DEF CacheInv, CrashInv, DriveInv, ControlInv
  <1>2. \A d \in Platters : d.log \in may.log
    BY <1>1, PlatterFacts
  <1>3. ASSUME NEW d \in Platters,
               pc \in {"idle", "slots", "barrier1", "log", "alloc", "off", "restore", "replay"}
        PROVE  Image(d) = saved
    <2>1. CASE pc \in {"idle", "slots", "barrier1", "log", "alloc", "off"}
      <3>1. Restores(d.log, saved)
        BY <1>1, <1>2, <2>1, NoJournalReplays DEF QuietInv, Settled, Restores
      <3> QED
        BY <1>1, <3>1, RestoresImage
    <2>2. CASE pc = "restore"
      <3>1. Restores(d.log, saved)
        BY <1>1, <1>2, <2>2, RestFacts DEF MountInv
      <3> QED
        BY <1>1, <3>1, RestoresImage
    <2>3. CASE pc = "replay"
      <3>1. Restores(d.log, saved)
        BY <1>1, <1>2, <2>3 DEF MountInv, DirtyInv
      <3> QED
        BY <1>1, <3>1, RestoresImage
    <2> QED
      BY <1>3, <2>1, <2>2, <2>3
  <1>4. ASSUME NEW d \in Platters, pc \in {"barrier2", "write", "reset", "erase", "done"}
        PROVE  Image(d) \in {saved, want}
    <2>1. CASE pc = "barrier2"
      <3>1. /\ Settled(saved) /\ (NoJournal(d.log) \/ d.log = jlog)
            /\ jlog # NoLog /\ Replays(jlog, want)
        BY <1>1, <1>2, <2>1 DEF FlushInv
      <3>2. CASE NoJournal(d.log)
        <4>1. Restores(d.log, saved)
          BY <3>1, <3>2, NoJournalReplays DEF Settled, Restores
        <4> QED
          BY <1>1, <4>1, RestoresImage
      <3>3. CASE d.log = jlog
        <4>1. \A b \in Blocks : ~Covers(jlog, b) => want[b] = saved[b]
          BY <1>1, <2>1 DEF DirtyInv
        <4>2. Restores(jlog, want)
          BY <3>1, <4>1 DEF Settled, HomeIs, Restores
        <4> QED
          BY <1>1, <3>3, <4>2, RestoresImage
      <3> QED
        BY <3>1, <3>2, <3>3
    <2>2. CASE pc = "write"
      <3>1. Restores(d.log, want)
        BY <1>1, <1>2, <2>2 DEF FlushInv
      <3> QED
        BY <1>1, <3>1, RestoresImage
    <2>3. CASE pc = "reset"
      <3>1. Restores(d.log, want)
        BY <1>1, <1>2, <2>3 DEF ResetInv
      <3> QED
        BY <1>1, <3>1, RestoresImage
    <2>4. CASE pc \in {"erase", "done"}
      <3>1. Restores(d.log, want)
        BY <1>1, <1>2, <2>4 DEF ResetInv, Settled, Restores
      <3> QED
        BY <1>1, <3>1, RestoresImage
    <2> QED
      BY <1>4, <2>1, <2>2, <2>3, <2>4
  <1>5. disk \in Platters
    BY <1>1, DiskIsLeft
  <1>6. CASE pc \in {"log", "barrier2", "write", "reset", "erase", "done"}
    BY <1>3, <1>4, <1>6 DEF LossIsAtomic
  <1>7. CASE pc \in {"idle", "slots", "barrier1", "alloc", "off", "restore", "replay"}
    BY <1>3, <1>5, <1>7 DEF LossIsAtomic
  <1> QED
    BY <1>1, <1>6, <1>7 DEF Pcs

-----------------------------------------------------------------------------
(* What a get gives.                                                       *)

ReadsRecorded == OnlyBlockReadsFail /\ ("read" \in Faults => RecordErrors)

LEMMA SameContents ==
  ASSUME BufferInv, UNCHANGED <<want, undef>>, pc' # "off",
         \A k \in Bufs : buf'[k].blk = buf[k].blk /\ buf'[k].val = buf[k].val
  PROVE  BufferInv'
  BY DEF BufferInv

LEMMA NoContents ==
  ASSUME \A k \in Bufs : buf'[k].blk = NoBlock
  PROVE  BufferInv'
  BY DEF BufferInv

LEMMA ModifyContents ==
  ASSUME CacheInv, BufferInv, NEW i \in Bufs, NEW v \in Vals, Modify(i, v)
  PROVE  BufferInv'
  <1> DEFINE b == buf[i].blk
  <1>1. buf \in [Bufs -> Buffers] /\ OneBufferPerBlock /\ want \in [Blocks -> Content]
    BY DEF CacheInv, BufInv, DriveInv
  <1>2. /\ b \in Blocks /\ b # NoBlock /\ pc' = "idle" /\ undef' = undef \ {b}
        /\ buf' = [buf EXCEPT ![i].val = <<b, v>>, ![i].dirty = TRUE]
        /\ want' = [want EXCEPT ![b] = <<b, v>>]
    BY <1>1 DEF Modify, Buffers
  <1>3. /\ buf'[i].blk = b /\ buf'[i].val = want'[b]
        /\ \A k \in Bufs : k # i => buf'[k] = buf[k]
        /\ \A c \in Blocks : c # b => want'[c] = want[c]
    BY <1>1, <1>2 DEF Buffers
  <1>4. \A k \in Bufs : k # i => buf[k].blk # b
    BY <1>1, <1>2 DEF OneBufferPerBlock
  <1>5. ASSUME NEW k \in Bufs, buf'[k].blk # NoBlock, buf'[k].blk \notin undef'
        PROVE  buf'[k].val = want'[buf'[k].blk]
    <2>1. CASE k = i
      BY <1>3, <2>1
    <2>2. CASE k # i
      <3>1. buf'[k] = buf[k] /\ buf[k].blk # b /\ buf[k].blk \in Blocks
        BY <1>1, <1>3, <1>4, <1>5, <2>2 DEF Buffers
      <3>2. undef' = undef \ {b}
        BY <1>2
      <3>3. buf[k].val = want[buf[k].blk]
        BY <1>5, <3>1, <3>2, CacheAssumption DEF BufferInv
      <3> QED
        BY <1>3, <3>1, <3>3
    <2> QED
      BY <2>1, <2>2
  <1> QED
    BY <1>2, <1>5 DEF BufferInv

LEMMA MarkCleanContents ==
  ASSUME CacheInv, BufferInv, NEW i \in Bufs, MarkClean(i)
  PROVE  BufferInv'
  <1> DEFINE b == buf[i].blk
  <1>1. buf \in [Bufs -> Buffers] /\ want \in [Blocks -> Content]
    BY DEF CacheInv, BufInv, DriveInv
  <1>2. /\ pc' = "idle" /\ undef' = undef \cup {b}
        /\ buf' = [buf EXCEPT ![i].dirty = FALSE]
        /\ want' = [want EXCEPT ![b] = saved[b]]
    BY DEF MarkClean
  <1>3. /\ \A k \in Bufs : buf'[k].blk = buf[k].blk /\ buf'[k].val = buf[k].val
        /\ \A c : c # b => want'[c] = want[c]
    BY <1>1, <1>2 DEF Buffers
  <1> QED
    BY <1>2, <1>3 DEF BufferInv

\* The block is read where it was last written: no dirty buffer holds it.
LEMMA AllocateContents ==
  ASSUME ReadsRecorded, CacheInv, CrashInv, BufferInv, NEW call \in Calls, NEW i \in Bufs,
         Missing(call), Allocate(i, call), pc \in {"idle", "alloc"}, pc' = "idle", want' = want
  PROVE  BufferInv'
  <1>1. /\ buf \in [Bufs -> Buffers] /\ OneBufferPerBlock /\ DirtyInv /\ QuietInv
        /\ lastError \in BOOLEAN
    BY DEF CacheInv, BufInv, DriveInv, CrashInv
  <1>2. ~Noload(call) => Blk(call) \in Blocks
    BY CallFacts
  <1>3. /\ \A k \in Bufs : k # i => buf'[k] = buf[k]
        /\ \A k \in Bufs : k # i /\ buf[k].blk # NoBlock =>
               buf[k].blk \notin {buf[i].blk, Blk(call)}
    <2>1. (\E v : Taken(i, call, v)) \/ NotTaken(i)
      BY DEF Allocate
    <2> QED
      BY <1>1, <2>1 DEF Taken, NotTaken, Missing, OneBufferPerBlock
  <1>4. undef \ {buf[i].blk, Blk(call)} \subseteq undef'
    BY DEF Allocate
  <1>5. buf'[i].blk # NoBlock /\ buf'[i].blk \notin undef' => buf'[i].val = want[buf'[i].blk]
    <2>1. CASE Noload(call)
      <3>1. /\ buf'[i].blk = Blk(call)
            /\ Blk(call) # NoBlock => Blk(call) \in undef'
        BY <1>1, <2>1 DEF Allocate, Taken
      <3> QED
        BY <3>1
    <2>2. CASE NotTaken(i)
      <3>1. buf'[i].blk = NoBlock
        BY <1>1, <2>2 DEF NotTaken
      <3> QED
        BY <3>1
    <2>3. CASE ~Noload(call) /\ ~NotTaken(i)
      <3>1. /\ ~lastError /\ Taken(i, call, disk.home[Blk(call)])
        BY <2>3 DEF Allocate, ReadsRecorded, Fails
      <3>2. buf'[i].blk = Blk(call) /\ buf'[i].val = disk.home[Blk(call)] /\ Blk(call) \in Blocks
        BY <1>1, <1>2, <2>3, <3>1 DEF Taken
      <3>3. disk.home[Blk(call)] = saved[Blk(call)]
        BY <1>1, <3>2 DEF QuietInv, Settled, HomeIs
      <3>4. want[Blk(call)] = saved[Blk(call)]
        BY <1>1, <3>1, <3>2, CacheAssumption DEF DirtyInv, Missing
      <3> QED
        BY <3>2, <3>3, <3>4
    <2> QED
      BY <2>1, <2>2, <2>3
  <1> QED
    BY <1>3, <1>4, <1>5 DEF BufferInv

LEMMA MissContents ==
  ASSUME ReadsRecorded, CacheInv, CrashInv, BufferInv, NEW call \in Calls, Miss(call)
  PROVE  BufferInv'
  <1>1. /\ pc = "idle" /\ ring # <<>> /\ RingInv /\ Missing(call) /\ want' = want
    BY DEF CacheInv, BufInv, Miss, Missing, InCache
  <1>2. Head(ring) \in Bufs
    BY <1>1, HeadFacts
  <1>3. CASE buf[Head(ring)].dirty
    BY <1>1, <1>3, SameContents DEF Miss
  <1>4. CASE ~buf[Head(ring)].dirty
    <2>1. Allocate(Head(ring), call) /\ pc' = pc
      BY <1>4 DEF Miss
    <2> QED
      BY <1>1, <1>2, <2>1, AllocateContents
  <1> QED
    BY <1>3, <1>4

LEMMA FlushContents ==
  ASSUME OnlyBlockReadsFail, CacheInv, BufferInv,
         JournalWrite \/ JournalFlush \/ JournalLog \/ JournalFlushed \/ TransferHome
            \/ HomeWritten \/ JournalReset \/ JournalErase \/ ResetDone
  PROVE  BufferInv'
  <1>1. buf \in [Bufs -> Buffers]
    BY DEF CacheInv, BufInv
  <1>2. ASSUME UNCHANGED <<buf, want, undef>>, pc' # "off" PROVE BufferInv'
    BY <1>2, SameContents
  <1>3. CASE TransferHome
    <2> DEFINE i == CHOOSE i \in Dirty : \A k \in Dirty : i <= k
    <2>1. /\ buf' = [buf EXCEPT ![i].dirty = FALSE]
          /\ UNCHANGED <<want, undef>> /\ pc' = "write"
      BY <1>3 DEF OnlyBlockReadsFail, TransferHome, Fails, hist
    <2>2. i \in Bufs
      BY <1>3, FirstExists DEF TransferHome, Dirty
    <2> HIDE DEF i
    <2>3. \A k \in Bufs : buf'[k].blk = buf[k].blk /\ buf'[k].val = buf[k].val
      BY <1>1, <2>1, <2>2 DEF Buffers
    <2> QED
      BY <2>1, <2>3, SameContents
  <1>4. CASE ResetDone
    <2>1. UNCHANGED <<want, undef>>
      BY <1>4 DEF ResetDone
    <2>2. CASE Op(pending) = "close"
      <3>1. \A k \in Bufs : buf'[k].blk = NoBlock
        BY <1>1, <1>4, <2>2 DEF ResetDone, Buffers
      <3> QED
        BY <3>1, NoContents
    <2>3. CASE Op(pending) # "close"
      BY <1>2, <1>4, <2>1, <2>3 DEF ResetDone
    <2> QED
      BY <2>2, <2>3
  <1>5. CASE JournalWrite \/ JournalFlush \/ JournalLog \/ JournalFlushed
                \/ HomeWritten \/ JournalReset \/ JournalErase
    <2>1. UNCHANGED <<buf, want, undef>> /\ pc' # "off"
      BY <1>5 DEF JournalWrite, JournalFlush, JournalLog, JournalFlushed, HomeWritten,
                  JournalReset, JournalErase, Goto, cvars, hist
    <2> QED
      BY <1>2, <2>1
  <1> QED
    BY <1>3, <1>4, <1>5

LEMMA MountContents ==
  ASSUME BufferInv, Remount \/ JournalRestore \/ Replay \/ Replayed \/ PowerLoss
  PROVE  BufferInv'
  <1>1. CASE Remount
    BY <1>1, NoContents DEF Remount, BufferInv
  <1>2. CASE PowerLoss
    <2>1. \A k \in Bufs : buf'[k].blk = NoBlock
      BY <1>2 DEF PowerLoss, MemoryLost, NoBuffers
    <2> QED
      BY <2>1, NoContents
  <1>3. CASE JournalRestore \/ Replay \/ Replayed
    <2>1. UNCHANGED <<buf, want, undef>> /\ pc' # "off"
      BY <1>3 DEF JournalRestore, Replay, Replayed, Goto, cvars, hist
    <2> QED
      BY <2>1, SameContents
  <1> QED
    BY <1>1, <1>2, <1>3

LEMMA NextContents ==
  ReadsRecorded /\ CacheInv /\ CrashInv /\ BufferInv /\ [Next]_vars => BufferInv'
  <1> SUFFICES ASSUME ReadsRecorded, CacheInv, CrashInv, BufferInv, [Next]_vars PROVE BufferInv'
    OBVIOUS
  <1>0. OnlyBlockReadsFail /\ buf \in [Bufs -> Buffers]
    BY DEF ReadsRecorded, CacheInv, BufInv
  <1>1. CASE Client
    <2>1. \A b \in Blocks, n \in BOOLEAN : Get(b, n) \in Calls
      BY DEF Calls
    <2>2. Clean \in Calls
      BY DEF Calls
    <2>3. ASSUME NEW call \in Calls, Miss(call) PROVE BufferInv'
      BY <2>3, MissContents
    <2>4. ASSUME NEW i \in Bufs, NEW n, buf' = [buf EXCEPT ![i].nused = n], pc' = "idle",
                 UNCHANGED <<want, undef>>
          PROVE  BufferInv'
      <3>1. \A k \in Bufs : buf'[k].blk = buf[k].blk /\ buf'[k].val = buf[k].val
        BY <1>0, <2>4 DEF Buffers
      <3> QED
        BY <2>4, <3>1, SameContents
    <2>5. ASSUME NEW i \in Bufs, Free(i) PROVE BufferInv'
      BY <2>4, <2>5 DEF Free, Freed, hist
    <2>6. ASSUME NEW i \in Bufs, UsedAdd(i) PROVE BufferInv'
      BY <2>4, <2>6 DEF UsedAdd, hist
    <2>7. ASSUME NEW b \in Blocks, Hit(b) PROVE BufferInv'
      BY <2>4, <2>7 DEF Hit, hist
    <2>8. ASSUME NEW call, FlushAllDirty(call) PROVE BufferInv'
      <3>1. UNCHANGED <<buf, want, undef>> /\ pc' # "off"
        BY <2>8 DEF FlushAllDirty, cvars, hist
      <3> QED
        BY <3>1, SameContents
    <2> QED
      BY <1>1, <2>1, <2>2, <2>3, <2>5, <2>6, <2>7, <2>8, MarkCleanContents, ModifyContents,
         MountContents DEF Client
  <1>2. CASE Cache
    <2>1. CASE AllocAfterFlush
      <3>1. /\ pc = "alloc" /\ pc' = "idle" /\ Allocate(Head(ring), pending) /\ want' = want
        BY <2>1 DEF AllocAfterFlush
      <3>2. /\ pending \in Calls /\ RingInv /\ ring # <<>> /\ Missing(pending)
        BY <3>1 DEF CacheInv, BufInv, ControlInv
      <3>3. Head(ring) \in Bufs
        BY <3>2, HeadFacts
      <3> QED
        BY <3>1, <3>2, <3>3, AllocateContents
    <2> QED
      BY <1>0, <1>2, <2>1, FlushContents, MountContents DEF Cache
  <1>3. CASE PowerLoss
    BY <1>3, MountContents
  <1>4. CASE UNCHANGED vars
    BY <1>4 DEF vars, cvars, hist, BufferInv
  <1> QED
    BY <1>1, <1>2, <1>3, <1>4 DEF Next

-----------------------------------------------------------------------------
(* The theorems.                                                           *)

\* At every point of a flush and of a mount the journal, what is at home and
\* what may still be torn are as CrashInv says (pfsJournalWrite,
\* pfsJournalRestore, pfsJournalReset), if no transfer fails but reads of blocks.
THEOREM CrashInductive == OnlyBlockReadsFail => (Spec => []CrashInv)
  <1> SUFFICES ASSUME OnlyBlockReadsFail PROVE Spec => []CrashInv
    OBVIOUS
  <1>1. CacheInv /\ CacheInv' /\ CrashInv /\ [Next]_vars => CrashInv'
    BY NextCrash
  <1> QED
    BY <1>1, InitCrash, CacheInductive, PTL DEF Spec

\* Whatever moment the power fails, the next mount finds every change of a
\* flush or none of them, and all once the flush has returned: the order of
\* the writes and barriers of pfsJournalWrite and pfsJournalReset, and the
\* replay of pfsJournalRestore, at any point of which the power may fail again.  No
\* transfer fails but reads of blocks; a log that a mount cannot read is lost.
THEOREM FlushIsAtomic == OnlyBlockReadsFail => (Spec => []LossIsAtomic)
  <1> SUFFICES ASSUME OnlyBlockReadsFail PROVE Spec => []LossIsAtomic
    OBVIOUS
  <1> QED
    BY CrashIsAtomic, CacheInductive, CrashInductive, PTL

\* pfsCacheGetData gives the block's last content, whatever was evicted,
\* flushed and replayed since, if no transfer fails but reads of blocks, and a
\* build in which they do records errors.
THEOREM GetsAreTrue == ReadsRecorded => (Spec => []ReadsAreTrue)
  <1> SUFFICES ASSUME ReadsRecorded PROVE Spec => []ReadsAreTrue
    OBVIOUS
  <1>1. Init => BufferInv
    BY DEF Init, NoBuffers, BufferInv
  <1>2. CacheInv /\ CrashInv /\ BufferInv /\ [Next]_vars => BufferInv'
    BY NextContents
  <1>3. OnlyBlockReadsFail
    BY DEF ReadsRecorded
  <1>4. Spec => []CrashInv
    BY <1>3, CrashInductive
  <1>5. BufferInv => ReadsAreTrue
    BY DEF BufferInv, ReadsAreTrue
  <1> QED
    BY <1>1, <1>2, <1>4, <1>5, CacheInductive, PTL DEF Spec
=============================================================================
