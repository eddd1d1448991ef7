--------------------------- MODULE PfsFileProofs ---------------------------
(* Proofs about the files of a PFS filesystem, for partitions, names and     *)
(* sizes of every kind: no zone has two owners, the bitmaps and their counts *)
(* are right, the search only fails to end when there is no zone left, the  *)
(* directory lists the files there are, each once, and the data of a file   *)
(* stays where it is.                                                       *)
EXTENDS PfsFile, PfsZonesProofs

-----------------------------------------------------------------------------
(* What an operation on one inode has done so far: the volume v uses the    *)
(* zones of the inode x, and besides them those of "base", which it had     *)
(* nothing to do with.                                                     *)

Room(v, x, base, exact, counted) ==
    /\ GoodVolume(v) /\ FreeEnough(v) /\ (exact => FreeExact(v))
    /\ x \in Inodes /\ GoodSegments(x.segs)
    /\ UsedOf(v) = base \cup Total(x.segs) /\ Total(x.segs) \cap base = {}
    /\ counted => Cardinality(Total(x.segs)) = x.number_blocks

LEMMA FileFacts ==
  /\ Root \notin Names /\ Nobody \notin Inodes /\ CountMax >= 2 /\ CountMax \in Nat
  /\ 2 <= Widest /\ Nobody \notin Names /\ Root # Nobody
  <1>1. Root \notin Names /\ Nobody \notin Inodes /\ CountMax >= 2 /\ Nobody \notin Files
    BY FileAssumption, Zenon
  <1>2. CountMax \in Nat /\ 2 <= Widest
    BY SizeFacts DEF Widest
  <1> QED
    BY <1>1, <1>2 DEF Files

LEMMA InodeFields ==
  ASSUME NEW x \in Inodes
  PROVE  /\ x.segs \in Seq(Segments) /\ x.number_blocks \in Int /\ x.number_segdesg \in Int /\ x.size \in Int
         /\ x # Nobody
  BY FileFacts DEF Inodes

\* What may be searched for from the end of a segment is found, or nothing is free.
LEMMA SearchFacts ==
  ASSUME NEW v, GoodVolume(v), FreeEnough(v), NEW mc \in Int,
         NEW sub \in Subs, NEW num \in Nat, NEW count \in Nat, count > 0, count <= 2
  PROVE  LET r == SearchFreeZone(v, Segment(sub, num, count), mc)
         IN \/ /\ r # NoSpace /\ GoodSegment(r.bi) /\ r.bi.cnt \in 1 .. count
               /\ Covers(r.bi) \cap UsedOf(v) = {} /\ r.vol = Mark(v, r.bi)
            \/ r = NoSpace /\ \A s \in Subs : v.used[s] = ZonesOf(s)
  <1> DEFINE bi == Segment(sub, num, count)
             r  == SearchFreeZone(v, bi, mc)
  <1>1. bi.sub = sub /\ bi.num = num /\ bi.cnt = count
    BY DEF Segment
  <1> HIDE DEF bi
  <1>2. count <= Widest
    BY FileFacts DEF Widest
  <1>3. \/ /\ r # NoSpace /\ Within(r.bi) /\ r.bi.cnt \in 1 .. count
           /\ Covers(r.bi) \cap UsedOf(v) = {} /\ r.vol = Mark(v, r.bi)
        \/ r = NoSpace /\ \A s \in Subs : v.used[s] = ZonesOf(s)
    BY <1>1, <1>2, SearchFinds
  <1> HIDE DEF r
  <1>4. r.bi.cnt \in 1 .. count => r.bi.cnt \in 1 .. CountMax
    BY FileFacts
  <1>5. \/ /\ r # NoSpace /\ GoodSegment(r.bi) /\ r.bi.cnt \in 1 .. count
           /\ Covers(r.bi) \cap UsedOf(v) = {} /\ r.vol = Mark(v, r.bi)
        \/ r = NoSpace /\ \A s \in Subs : v.used[s] = ZonesOf(s)
    BY <1>3, <1>4 DEF GoodSegment
  <1> QED
    BY <1>5 DEF r, bi

\* A file that has its first segment.
LEMMA RoomFirst ==
  ASSUME NEW v, GoodVolume(v), FreeEnough(v), NEW exact, exact => FreeExact(v),
         NEW bi, GoodSegment(bi), bi.cnt = 1, Covers(bi) \cap UsedOf(v) = {},
         NEW x \in Inodes, x.segs = <<bi>>, x.number_blocks = 1
  PROVE  Room(Mark(v, bi), x, UsedOf(v), exact, TRUE)
  <1>1. bi \in Segments /\ Within(bi)
    BY DEF GoodSegment, Within
  <1>2. /\ GoodVolume(Mark(v, bi)) /\ UsedOf(Mark(v, bi)) = UsedOf(v) \cup Covers(bi)
        /\ FreeEnough(Mark(v, bi)) /\ (exact => FreeExact(Mark(v, bi)))
    BY <1>1, MarkTakes
  <1>3. Append(<<>>, bi) = <<bi>> /\ <<>> \in Seq(Segments) /\ Total(<<>>) = {} /\ Covers(bi) \cap {} = {}
    BY <1>1 DEF Total
  <1>4. GoodSegments(x.segs) /\ Total(x.segs) = Covers(bi)
    BY <1>3, SegmentAppended
  <1>5. Cardinality(Total(x.segs)) = x.number_blocks
    BY <1>1, <1>4, CoversCount
  <1> QED
    BY <1>2, <1>4, <1>5 DEF Room

\* A segment that is free is added.
LEMMA RoomAppended ==
  ASSUME NEW v, NEW x, NEW base, NEW exact, NEW counted, Room(v, x, base, exact, counted),
         NEW bi, GoodSegment(bi), IsDescriptor(Len(x.segs) + 1) => bi.cnt = 1, Covers(bi) \cap UsedOf(v) = {},
         NEW y \in Inodes, y.segs = Append(x.segs, bi), y.number_blocks = x.number_blocks + bi.cnt
  PROVE  Room(Mark(v, bi), y, base, exact, counted)
  <1>1. bi \in Segments /\ Within(bi) /\ bi.cnt \in Nat
    BY SizeFacts DEF GoodSegment, Within, Segments
  <1>2. /\ GoodVolume(v) /\ FreeEnough(v) /\ (exact => FreeExact(v))
        /\ x \in Inodes /\ GoodSegments(x.segs) /\ x.segs \in Seq(Segments)
        /\ UsedOf(v) = base \cup Total(x.segs) /\ Total(x.segs) \cap base = {}
        /\ counted => Cardinality(Total(x.segs)) = x.number_blocks
    BY InodeFields DEF Room
  <1>3. /\ GoodVolume(Mark(v, bi)) /\ UsedOf(Mark(v, bi)) = UsedOf(v) \cup Covers(bi)
        /\ FreeEnough(Mark(v, bi)) /\ (exact => FreeExact(Mark(v, bi)))
    BY <1>1, <1>2, MarkTakes
  <1>4. Covers(bi) \cap Total(x.segs) = {} /\ Covers(bi) \cap base = {}
    BY <1>2
  <1>5. GoodSegments(y.segs) /\ Total(y.segs) = Total(x.segs) \cup Covers(bi)
    BY <1>2, <1>4, SegmentAppended
  <1>6. UsedOf(Mark(v, bi)) = base \cup Total(y.segs) /\ Total(y.segs) \cap base = {}
    BY <1>2, <1>3, <1>4, <1>5
  <1>7. ASSUME counted PROVE Cardinality(Total(y.segs)) = y.number_blocks
    <2>1. IsFiniteSet(Total(x.segs)) /\ IsFiniteSet(Covers(bi)) /\ Cardinality(Covers(bi)) = bi.cnt
      BY <1>1, <1>2, TotalCount, CoversCount
    <2>2. /\ Total(x.segs) \cap Covers(bi) = {}
          /\ Cardinality(Total(x.segs) \cap Covers(bi)) = 0
      BY <1>4, FS_EmptySet
    <2>3. Cardinality(Total(y.segs)) = Cardinality(Total(x.segs)) + Cardinality(Covers(bi)) - 0
      BY <2>1, <2>2, <1>5, FS_Union
    <2>4. x.number_blocks \in Int
      BY <1>2, InodeFields
    <2> QED
      BY <2>1, <2>3, <2>4, <1>1, <1>2, <1>7
  <1> QED
    BY <1>3, <1>5, <1>6, <1>7 DEF Room

\* pfsBlockExpandSegment takes zones that are free, and counts them.
LEMMA RoomExpanded ==
  ASSUME NEW v, NEW x, NEW base, NEW exact, NEW counted, Room(v, x, base, exact, counted),
         NEW count \in Nat
  PROVE  LET r == ExpandSegment(v, x, count)
         IN Room(r.vol, r.ino, base, exact, counted) /\ r.n \in 0 .. count
  <1> DEFINE l == Len(x.segs)
             bi == x.segs[l]
             n == IF IsDescriptor(l) THEN 0 ELSE Additional(v, bi, count)
             more == Segment(bi.sub, bi.num + bi.cnt, n)
             y == [x EXCEPT !.segs[l].cnt = @ + n, !.number_blocks = @ + n]
  <1>1. /\ GoodVolume(v) /\ FreeEnough(v) /\ (exact => FreeExact(v))
        /\ x \in Inodes /\ GoodSegments(x.segs) /\ x.segs \in Seq(Segments) /\ x.number_blocks \in Int
        /\ UsedOf(v) = base \cup Total(x.segs) /\ Total(x.segs) \cap base = {}
        /\ counted => Cardinality(Total(x.segs)) = x.number_blocks
    BY InodeFields DEF Room
  <1>2. l \in Nat /\ l \in 1 .. l /\ DOMAIN x.segs = 1 .. l
    BY <1>1, SegmentsFacts DEF GoodSegments
  <1>3. /\ bi \in Segments /\ Within(bi) /\ bi.cnt \in Nat /\ bi.cnt <= CountMax
        /\ bi.sub \in Subs /\ bi.num \in Nat
    BY <1>1, <1>2, SizeFacts DEF GoodSegments, GoodSegment, Within, Segments
  <1>4. /\ n \in 0 .. count /\ bi.cnt + n <= CountMax /\ (IsDescriptor(l) => n = 0)
        /\ Within(more) /\ Covers(more) \cap UsedOf(v) = {}
    <2>1. CASE IsDescriptor(l)
      <3>1. n = 0
        BY <2>1
      <3> HIDE DEF n
      <3>2. more.sub = bi.sub /\ more.num = bi.num + bi.cnt /\ more.cnt = 0 /\ more \in Segments
        BY <3>1, <1>3 DEF Segment, Segments
      <3> HIDE DEF more
      <3>3. Within(more)
        BY <3>2, <1>3, SizeFacts DEF Within
      <3>4. Run(more) = {}
        BY <3>2, <1>3 DEF Run
      <3>5. Covers(more) = {}
        BY <3>4, InCovers
      <3> QED
        BY <3>1, <3>3, <3>5, <1>3
    <2>2. CASE ~IsDescriptor(l)
      <3>1. n = Additional(v, bi, count)
        BY <2>2
      <3> HIDE DEF n, bi
      <3> QED
        BY <3>1, <2>2, <1>1, <1>3, AdditionalFits
    <2> QED
      BY <2>1, <2>2
  <1>5. ExpandSegment(v, x, count) = [vol |-> Mark(v, more), n |-> n, ino |-> y]
    BY DEF ExpandSegment, Expanded
  <1> HIDE DEF n
  <1>n. n \in Nat
    BY <1>4
  <1> DEFINE new == [x.segs EXCEPT ![l].cnt = @ + n]
  <1>6. y = [x EXCEPT !.segs = new, !.number_blocks = x.number_blocks + n]
    BY <1>1, <1>2 DEF Inodes
  <1>7. Covers(more) \cap Total(x.segs) = {} /\ Covers(more) \cap base = {}
    BY <1>1, <1>4
  <1>8. GoodSegments(new) /\ Len(new) = l /\ Total(new) = Total(x.segs) \cup Covers(more)
    BY <1>1, <1>4, <1>7, <1>n, SegmentGrown
  <1>9. new \in Seq(Segments)
    BY <1>8 DEF GoodSegments
  <1> HIDE DEF new, y, more
  <1>10. y \in Inodes /\ y.segs = new /\ y.number_blocks = x.number_blocks + n
    <2> DEFINE c == x.number_blocks + n
    <2>1. c \in Int
      BY <1>1, <1>n
    <2> HIDE DEF c
    <2>2. y = [x EXCEPT !.segs = new, !.number_blocks = c]
      BY <1>6 DEF c
    <2>3. y \in Inodes /\ y.segs = new /\ y.number_blocks = c
      BY <2>1, <2>2, <1>1, <1>9 DEF Inodes
    <2> QED
      BY <2>3 DEF c
  <1>11. /\ GoodVolume(Mark(v, more)) /\ UsedOf(Mark(v, more)) = UsedOf(v) \cup Covers(more)
         /\ FreeEnough(Mark(v, more)) /\ (exact => FreeExact(Mark(v, more)))
    BY <1>1, <1>4, MarkTakes
  <1>12. UsedOf(Mark(v, more)) = base \cup Total(y.segs) /\ Total(y.segs) \cap base = {}
    BY <1>1, <1>7, <1>8, <1>10, <1>11
  <1>13. ASSUME counted PROVE Cardinality(Total(y.segs)) = y.number_blocks
    <2>0. more.cnt = n
      BY DEF Segment, more
    <2>1. IsFiniteSet(Total(x.segs)) /\ IsFiniteSet(Covers(more)) /\ Cardinality(Covers(more)) = n
      BY <2>0, <1>1, <1>4, TotalCount, CoversCount
    <2>2. Cardinality(Total(x.segs) \cap Covers(more)) = 0
      BY <1>7, FS_EmptySet
    <2>3. Cardinality(Total(y.segs)) = Cardinality(Total(x.segs)) + Cardinality(Covers(more)) - 0
      BY <2>1, <2>2, <1>8, <1>10, FS_Union
    <2> QED
      BY <2>1, <2>3, <1>1, <1>10, <1>13, <1>n
  <1>14. Room(Mark(v, more), y, base, exact, counted)
    BY <1>8, <1>10, <1>11, <1>12, <1>13 DEF Room
  <1> QED
    BY <1>4, <1>5, <1>14

\* Where pfsFreeZones ends, and how much of that segment it takes for needed.
LEMMA LastNeededFacts ==
  ASSUME NEW segs, GoodSegments(segs), NEW size \in Nat
  PROVE  /\ LastNeeded(segs, size) \in 1 .. Len(segs)
         /\ StillNeeded(segs, size) \in Nat
         /\ StillNeeded(segs, size) < segs[LastNeeded(segs, size)].cnt
  <1> DEFINE l == Len(segs)
             Z == ZonesUpTo(segs)
             T == {l} \cup {i \in 1 .. l : Z[i] >= size}
             n == LastNeeded(segs, size)
             j == size - Z[n - 1]
  <1>1. segs \in Seq(Segments) /\ l \in Nat /\ l > 0
    BY SegmentsFacts DEF GoodSegments
  <1>2. Z \in [0 .. l -> Nat] /\ Z[0] = 0
    BY <1>1, ZonesUpToFacts
  <1>3. n = Min(T)
    BY DEF LastNeeded
  <1>4. StillNeeded(segs, size) = IF size > 0 /\ j < segs[n].cnt THEN j ELSE 0
    BY DEF StillNeeded
  <1>5. \A i \in 1 .. l : segs[i].cnt \in Nat /\ segs[i].cnt > 0
    BY <1>1, SizeFacts DEF GoodSegments, GoodSegment
  <1> HIDE DEF l, Z, n
  <1>6. T \subseteq 1 .. l /\ T # {} /\ 1 .. l \subseteq Nat
    BY <1>1
  <1>7. n \in T /\ \A y \in T : n <= y
    BY <1>3, <1>6, MinFacts
  <1>8. n \in 1 .. l
    BY <1>6, <1>7
  <1>9. Z[n - 1] \in Nat
    BY <1>1, <1>2, <1>8
  <1>10. size > 0 => j \in Nat
    <2> SUFFICES ASSUME size > 0 PROVE size >= Z[n - 1]
      BY <1>9
    <2>1. CASE n = 1
      BY <2>1, <1>2
    <2>2. CASE n # 1
      <3>1. n - 1 \in 1 .. l /\ n - 1 \notin T
        BY <2>2, <1>7, <1>8
      <3> QED
        BY <3>1, <1>9
    <2> QED
      BY <2>1, <2>2
  <1> HIDE DEF j
  <1>11. segs[n].cnt \in Nat /\ segs[n].cnt > 0
    BY <1>5, <1>8
  <1>12. StillNeeded(segs, size) \in Nat /\ StillNeeded(segs, size) < segs[n].cnt
    <2>1. CASE size > 0 /\ j < segs[n].cnt
      BY <2>1, <1>4, <1>10
    <2>2. CASE ~(size > 0 /\ j < segs[n].cnt)
      BY <2>2, <1>4, <1>11
    <2> QED
      BY <2>1, <2>2
  <1> QED
    BY <1>8, <1>12 DEF n, l

\* pfsFreeZones gives back what the file does not list any more.
LEMMA RoomCut ==
  ASSUME NEW v, NEW x, NEW base, NEW exact, NEW counted, Room(v, x, base, exact, counted),
         Total(x.segs) \cap ReservedZones = {}, NEW size \in Nat
  PROVE  Room(Returned(v, x.segs, size), Cut(x, size), base, exact, DataZones(Cut(x, size).segs) = size)
  <1> DEFINE segs == x.segs
             n == LastNeeded(segs, size)
             j == StillNeeded(segs, size)
             off == CutOff(segs, size)
             new == KeptSegments(segs, n, j)
             list == CutSegments(segs, n, j)
             y == Cut(x, size)
             w == Returned(v, segs, size)
             descs == Cardinality(Descriptors(n))
  <1>1. /\ GoodVolume(v) /\ FreeEnough(v) /\ (exact => FreeExact(v))
        /\ x \in Inodes /\ GoodSegments(segs)
        /\ UsedOf(v) = base \cup Total(segs) /\ Total(segs) \cap base = {}
    BY DEF Room
  <1> HIDE DEF segs
  <1>2. /\ n \in 1 .. Len(segs) /\ j \in Nat /\ j < segs[n].cnt
        /\ n \in Nat
    <2>1. Len(segs) \in Nat
      BY <1>1, SegmentsFacts DEF GoodSegments
    <2>2. n \in 1 .. Len(segs) /\ j \in Nat /\ j < segs[n].cnt
      BY <1>1, LastNeededFacts
    <2> HIDE DEF n
    <2> QED
      BY <2>1, <2>2
  <1>3. off = CutEnd(segs, n, j)
    BY DEF CutOff, CutEnd, segs
  <1>4. w = FreeSegments(v, list)
    BY <1>3 DEF Returned, CutSegments, segs
  <1>5. y = [mode |-> "file", number_blocks |-> size + descs, number_segdesg |-> descs, size |-> size, segs |-> new]
    BY DEF Cut, Descriptors, KeptSegments, segs
  <1> HIDE DEF n, j, off, y, w, descs
  <1>6. /\ GoodSegments(new) /\ Len(new) = n
        /\ list \in Seq(Segments) /\ \A i \in 1 .. Len(list) : Within(list[i])
        /\ \A i, m \in 1 .. Len(list) : i # m => Covers(list[i]) \cap Covers(list[m]) = {}
        /\ Total(new) \cup Total(list) = Total(segs) /\ Total(new) \cap Total(list) = {}
    <2>1. LET u == KeptSegments(segs, n, j)
              l == CutSegments(segs, n, j)
          IN /\ GoodSegments(u) /\ Len(u) = n
             /\ l \in Seq(Segments) /\ \A i \in 1 .. Len(l) : Within(l[i])
             /\ \A i, m \in 1 .. Len(l) : i # m => Covers(l[i]) \cap Covers(l[m]) = {}
             /\ Total(u) \cup Total(l) = Total(segs) /\ Total(u) \cap Total(l) = {}
      BY <1>1, <1>2, <1>3, SegmentsCut
    <2> QED
      BY <2>1, Zenon
  <1> HIDE DEF new, list
  <1>7. Total(list) \cap ReservedZones = {} /\ Total(list) \subseteq UsedOf(v)
    BY <1>1, <1>6 DEF segs
  <1>8. /\ GoodVolume(w) /\ FreeEnough(w) /\ UsedOf(w) = UsedOf(v) \ Total(list)
        /\ exact => FreeExact(w)
    <2>1. LET u == FreeSegments(v, list)
          IN /\ GoodVolume(u) /\ FreeEnough(u) /\ UsedOf(u) = UsedOf(v) \ Total(list)
             /\ /\ FreeExact(v) /\ Total(list) \subseteq UsedOf(v)
                /\ \A i, m \in 1 .. Len(list) : i # m => Covers(list[i]) \cap Covers(list[m]) = {}
                => FreeExact(u)
      BY <1>1, <1>6, <1>7, FreeSegmentsReturn
    <2> QED
      BY <2>1, <1>1, <1>4, <1>6, <1>7
  <1>9. descs \in Nat
    BY <1>2, DescriptorsCount DEF descs
  <1>10. new \in Seq(Segments)
    BY <1>6 DEF GoodSegments
  <1>11. size + descs \in Int /\ size \in Int /\ descs \in Int
    BY <1>9
  <1>12. y \in Inodes /\ y.segs = new /\ y.number_blocks = size + descs
    BY <1>5, <1>10, <1>11 DEF Inodes
  <1>13. UsedOf(w) = base \cup Total(new) /\ Total(new) \cap base = {}
    BY <1>1, <1>6, <1>8
  <1>14. DataZones(new) = size => Cardinality(Total(new)) = size + descs
    BY <1>6, TotalCount DEF descs
  <1>15. Room(w, y, base, exact, DataZones(y.segs) = size)
    BY <1>6, <1>8, <1>12, <1>13, <1>14 DEF Room
  <1> QED
    BY <1>15 DEF w, y, segs

-----------------------------------------------------------------------------
(* The inductive invariant: the zones of the files.                        *)

Full == \A s \in Subs : vol.used[s] = ZonesOf(s)

FilesInv ==
    /\ GoodVolume(vol) /\ FreeEnough(vol)
    /\ inode \in [Files -> Inodes \cup {Nobody}] /\ Exists(Root)
    /\ \A f \in Files : Exists(f) =>
          /\ GoodSegments(inode[f].segs)
          /\ f \notin miscut => Cardinality(Owned(f)) = inode[f].number_blocks
    /\ \A f \in Files : Owned(f) \subseteq UsedOf(vol) \ ReservedZones
    /\ \A f, g \in Files : f # g => Owned(f) \cap Owned(g) = {}
    /\ ~lost /\ ~hung => FreeExact(vol) /\ UsedOf(vol) \subseteq ReservedZones \cup UNION {Owned(f) : f \in Files}
    /\ hung => Full

LEMMA ReservedUsed ==
  ASSUME NEW v, GoodVolume(v)
  PROVE  ReservedZones \subseteq UsedOf(v)
  BY DEF GoodVolume, ReservedZones, UsedOf

LEMMA OwnedIs ==
  ASSUME NEW f
  PROVE  Owned(f) = IF Exists(f) THEN Total(inode[f].segs) ELSE {}
  BY DEF Owned, Total

\* Where an operation on one file starts.
LEMMA RoomOf ==
  ASSUME FilesInv, ~hung, NEW f \in Files, Exists(f)
  PROVE  /\ Room(vol, inode[f], UsedOf(vol) \ Owned(f), ~lost, f \notin miscut)
         /\ Owned(f) = Total(inode[f].segs) /\ Owned(f) \cap ReservedZones = {}
         /\ inode[f] \in Inodes
  <1>1. inode[f] \in Inodes
    BY DEF FilesInv, Exists
  <1>2. Owned(f) = Total(inode[f].segs)
    BY OwnedIs
  <1>3. Owned(f) \subseteq UsedOf(vol) \ ReservedZones
    BY DEF FilesInv
  <1>4. /\ GoodVolume(vol) /\ FreeEnough(vol) /\ (~lost => FreeExact(vol))
        /\ GoodSegments(inode[f].segs)
        /\ f \notin miscut => Cardinality(Owned(f)) = inode[f].number_blocks
    BY DEF FilesInv
  <1>5. Room(vol, inode[f], UsedOf(vol) \ Owned(f), ~lost, f \notin miscut)
    BY <1>1, <1>2, <1>3, <1>4 DEF Room
  <1> QED
    BY <1>1, <1>2, <1>3, <1>5

\* ... and where it ends.
LEMMA FilesReplaced ==
  ASSUME FilesInv, ~hung, NEW f \in Files, NEW x,
         Room(vol', x, UsedOf(vol) \ Owned(f), ~lost, f \notin miscut'),
         inode' = [inode EXCEPT ![f] = x], \A g \in Files : g # f => (g \in miscut <=> g \in miscut'),
         UNCHANGED <<hung, lost>>
  PROVE  FilesInv' /\ Exists(f)' /\ (\A g \in Files : g # f => (Exists(g) <=> Exists(g)'))
  <1> DEFINE base == UsedOf(vol) \ Owned(f)
  <1>1. /\ GoodVolume(vol') /\ FreeEnough(vol') /\ (~lost => FreeExact(vol'))
        /\ x \in Inodes /\ GoodSegments(x.segs)
        /\ UsedOf(vol') = base \cup Total(x.segs) /\ Total(x.segs) \cap base = {}
        /\ f \notin miscut' => Cardinality(Total(x.segs)) = x.number_blocks
    BY DEF Room
  <1>2. /\ inode \in [Files -> Inodes \cup {Nobody}] /\ GoodVolume(vol)
        /\ \A g \in Files : Owned(g) \subseteq UsedOf(vol) \ ReservedZones
        /\ \A g, h \in Files : g # h => Owned(g) \cap Owned(h) = {}
    BY DEF FilesInv
  <1>3. x # Nobody
    BY <1>1, InodeFields
  <1>4. /\ inode' \in [Files -> Inodes \cup {Nobody}] /\ inode'[f] = x
        /\ \A g \in Files : g # f => inode'[g] = inode[g]
    BY <1>1, <1>2
  <1>5. Exists(f)' /\ \A g \in Files : g # f => (Exists(g) <=> Exists(g)')
    BY <1>3, <1>4 DEF Exists
  <1>6. Owned(f)' = Total(x.segs)
    BY <1>4, <1>5 DEF Owned, Total
  <1>7. \A g \in Files : g # f => Owned(g)' = Owned(g)
    BY <1>4, <1>5 DEF Owned
  <1>8. ReservedZones \subseteq base
    BY <1>2, ReservedUsed
  <1>9. \A g \in Files : g # f => Owned(g) \subseteq base
    BY <1>2
  <1> HIDE DEF base
  <1>10. \A g \in Files : Owned(g)' \subseteq UsedOf(vol') \ ReservedZones
    BY <1>1, <1>2, <1>6, <1>7, <1>8, <1>9
  <1>11. \A g, h \in Files : g # h => Owned(g)' \cap Owned(h)' = {}
    BY <1>1, <1>2, <1>6, <1>7, <1>9
  <1>12. ASSUME NEW g \in Files, Exists(g)'
         PROVE  /\ GoodSegments(inode'[g].segs)
                /\ g \notin miscut' => Cardinality(Owned(g)') = inode'[g].number_blocks
    <2>1. CASE g = f
      BY <2>1, <1>1, <1>4, <1>6
    <2>2. CASE g # f
      <3>1. Exists(g) /\ inode'[g] = inode[g] /\ Owned(g)' = Owned(g)
        BY <2>2, <1>4, <1>5, <1>7, <1>12
      <3> QED
        BY <3>1, <2>2 DEF FilesInv
    <2> QED
      BY <2>1, <2>2
  <1>13. ~lost => UsedOf(vol') \subseteq ReservedZones \cup UNION {Owned(g)' : g \in Files}
    <2> SUFFICES ASSUME ~lost, NEW z \in UsedOf(vol') PROVE z \in ReservedZones \cup UNION {Owned(g)' : g \in Files}
      OBVIOUS
    <2>1. CASE z \in Total(x.segs)
      BY <2>1, <1>6
    <2>2. CASE z \in base
      <3>1. z \in UsedOf(vol) /\ z \notin Owned(f)
        BY <2>2 DEF base
      <3>2. z \in ReservedZones \cup UNION {Owned(g) : g \in Files}
        BY <3>1 DEF FilesInv
      <3> QED
        BY <3>1, <3>2, <1>7
    <2> QED
      BY <2>1, <2>2, <1>1
  <1>14. Exists(Root)'
    <2>1. Exists(Root) /\ Root \in Files
      BY DEF FilesInv, Files
    <2> QED
      BY <2>1, <1>5
  <1>15. FilesInv'
    BY <1>1, <1>4, <1>10, <1>11, <1>12, <1>13, <1>14 DEF FilesInv
  <1> QED
    BY <1>5, <1>15

-----------------------------------------------------------------------------
(* The steps an operation on a file is made of.                            *)

LEMMA RoomSized ==
  ASSUME NEW v, NEW x, NEW base, NEW exact, NEW counted, Room(v, x, base, exact, counted), NEW c \in Int
  PROVE  Room(v, [x EXCEPT !.size = c], base, exact, counted)
  <1> DEFINE y == [x EXCEPT !.size = c]
  <1>1. x \in Inodes
    BY DEF Room
  <1>2. y \in Inodes /\ y.segs = x.segs /\ y.number_blocks = x.number_blocks
    BY <1>1 DEF Inodes
  <1> HIDE DEF y
  <1>3. Room(v, y, base, exact, counted)
    BY <1>2 DEF Room
  <1> QED
    BY <1>3 DEF y

LEMMA LastSegment ==
  ASSUME NEW segs, GoodSegments(segs)
  PROVE  /\ Len(segs) \in Nat /\ Len(segs) > 0
         /\ \A i \in 1 .. Len(segs) : segs[i] \in Segments /\ segs[i].sub \in Subs /\ segs[i].num \in Nat /\ segs[i].cnt \in Nat
         /\ Last(segs) = segs[Len(segs)]
         /\ Last(segs).sub \in Subs /\ Last(segs).num + Last(segs).cnt \in Nat
  <1>1. segs \in Seq(Segments) /\ Len(segs) > 0
    BY DEF GoodSegments
  <1>2. /\ Len(segs) \in Nat
        /\ \A i \in 1 .. Len(segs) : segs[i] \in Segments /\ segs[i].sub \in Subs /\ segs[i].num \in Nat /\ segs[i].cnt \in Nat
    BY <1>1, SegmentsFacts
  <1>3. Last(segs) = segs[Len(segs)] /\ Len(segs) \in 1 .. Len(segs)
    BY <1>1, <1>2 DEF Last
  <1> QED
    BY <1>1, <1>2, <1>3

\* The search for a segment after the last one, for one zone or for two.
LEMMA SearchOn ==
  ASSUME NEW v, NEW x, NEW base, NEW exact, NEW counted, Room(v, x, base, exact, counted),
         NEW count \in Nat, count > 0, count <= 2
  PROVE  LET r == Search(v, x, count)
         IN \/ /\ r # NoSpace /\ GoodSegment(r.bi) /\ r.bi.cnt \in 1 .. count
               /\ Covers(r.bi) \cap UsedOf(v) = {} /\ r.vol = Mark(v, r.bi)
            \/ r = NoSpace /\ \A s \in Subs : v.used[s] = ZonesOf(s)
  <1> DEFINE l == Last(x.segs)
             num == l.num + l.cnt
  <1>1. GoodVolume(v) /\ FreeEnough(v) /\ x \in Inodes /\ GoodSegments(x.segs)
    BY DEF Room
  <1>2. x.number_blocks \in Int
    BY <1>1, InodeFields
  <1>3. l.sub \in Subs /\ num \in Nat
    BY <1>1, LastSegment
  <1>4. Search(v, x, count) = SearchFreeZone(v, Segment(l.sub, num, count), x.number_blocks)
    BY DEF Search
  <1> HIDE DEF num, l
  <1> QED
    BY <1>1, <1>2, <1>3, <1>4, SearchFacts

LEMMA RoomWithSegment ==
  ASSUME NEW v, NEW x, NEW base, NEW exact, NEW counted, Room(v, x, base, exact, counted),
         NEW bi, GoodSegment(bi), IsDescriptor(Len(x.segs) + 1) => bi.cnt = 1, Covers(bi) \cap UsedOf(v) = {}
  PROVE  /\ Room(Mark(v, bi), WithSegment(x, bi), base, exact, counted)
         /\ bi.cnt = 1 => Room(Mark(v, bi), WithDescriptor(x, bi), base, exact, counted)
         /\ Len(WithDescriptor(x, bi).segs) = Len(x.segs) + 1
  <1>1. x \in Inodes /\ bi \in Segments /\ bi.cnt \in Nat /\ bi.cnt \in Int
    BY DEF Room, GoodSegment, Within, Segments
  <1>2. x.segs \in Seq(Segments) /\ x.number_blocks \in Int /\ x.number_segdesg \in Int
    BY <1>1, InodeFields
  <1> DEFINE y == WithSegment(x, bi)
             z == WithDescriptor(x, bi)
             n == x.number_blocks + bi.cnt
             d == x.number_segdesg + 1
             new == Append(x.segs, bi)
  <1>3. n \in Int /\ d \in Int /\ new \in Seq(Segments)
    BY <1>1, <1>2
  <1>4. Len(new) = Len(x.segs) + 1
    BY <1>1, <1>2
  <1>5. y = [x EXCEPT !.segs = new, !.number_blocks = n]
    BY DEF WithSegment
  <1>6. z = [x EXCEPT !.segs = new, !.number_blocks = n, !.number_segdesg = d]
    BY DEF WithDescriptor
  <1> HIDE DEF y, z, n, d, new
  <1>7. y \in Inodes /\ y.segs = new /\ y.number_blocks = n
    BY <1>1, <1>3, <1>5 DEF Inodes
  <1>8. z \in Inodes /\ z.segs = new /\ z.number_blocks = n
    BY <1>1, <1>3, <1>6 DEF Inodes
  <1>9. Room(Mark(v, bi), y, base, exact, counted)
    BY <1>7, RoomAppended DEF n, new
  <1>10. Room(Mark(v, bi), z, base, exact, counted)
    BY <1>8, RoomAppended DEF n, new
  <1> QED
    BY <1>4, <1>8, <1>9, <1>10 DEF y, z

\* When nothing is free the search does not end, and what was taken before stays.
LEMMA FilesHung ==
  ASSUME FilesInv, GoodVolume(vol'), FreeEnough(vol'), \A s \in Subs : vol'.used[s] = ZonesOf(s),
         hung' = TRUE, UNCHANGED <<inode, miscut, lost>>
  PROVE  FilesInv'
  <1>1. GoodVolume(vol)
    BY DEF FilesInv
  <1>2. UsedOf(vol) \subseteq UsedOf(vol')
    BY <1>1 DEF GoodVolume, UsedOf
  <1>3. \A f \in Files : Owned(f)' = Owned(f) /\ (Exists(f)' <=> Exists(f))
    BY DEF Owned, Exists
  <1>4. \A f \in Files : Owned(f)' \subseteq UsedOf(vol') \ ReservedZones
    BY <1>2, <1>3 DEF FilesInv
  <1>5. \A f, g \in Files : f # g => Owned(f)' \cap Owned(g)' = {}
    BY <1>3 DEF FilesInv
  <1>6. \A f \in Files : Exists(f)' =>
          /\ GoodSegments(inode'[f].segs)
          /\ f \notin miscut' => Cardinality(Owned(f)') = inode'[f].number_blocks
    BY <1>3 DEF FilesInv
  <1>7. Exists(Root)' /\ inode' \in [Files -> Inodes \cup {Nobody}]
    BY <1>3 DEF FilesInv, Files
  <1>8. Full'
    BY DEF Full
  <1> QED
    BY <1>4, <1>5, <1>6, <1>7, <1>8 DEF FilesInv

\* What an operation does to the segments of the files: no list but grows.
OnlyGrow == \A g \in Files : Exists(g) => Exists(g)' /\ Grows(inode[g].segs, inode'[g].segs)

LEMMA SegsOf ==
  ASSUME FilesInv, NEW g \in Files, Exists(g)
  PROVE  inode[g].segs \in Seq(Segments) /\ Len(inode[g].segs) > 0
  BY DEF FilesInv, GoodSegments

LEMMA GrowsReplaced ==
  ASSUME FilesInv, NEW f \in Files, Exists(f), NEW x \in Inodes, Grows(inode[f].segs, x.segs),
         inode' = [inode EXCEPT ![f] = x]
  PROVE  OnlyGrow
  <1>1. inode \in [Files -> Inodes \cup {Nobody}] /\ x # Nobody
    BY InodeFields DEF FilesInv
  <1>2. ASSUME NEW g \in Files, Exists(g) PROVE Exists(g)' /\ Grows(inode[g].segs, inode'[g].segs)
    <2>1. CASE g = f
      <3>1. inode'[g] = x
        BY <1>1, <2>1
      <3> QED
        BY <3>1, <1>1, <2>1 DEF Exists
    <2>2. CASE g # f
      <3>1. inode'[g] = inode[g]
        BY <1>1, <2>2
      <3>2. Grows(inode[g].segs, inode[g].segs)
        BY <1>2, SegsOf, GrowsFacts
      <3> QED
        BY <3>1, <3>2, <1>2 DEF Exists
    <2> QED
      BY <2>1, <2>2
  <1> QED
    BY <1>2 DEF OnlyGrow

LEMMA GrowsKept == ASSUME FilesInv, UNCHANGED inode PROVE OnlyGrow
  <1>1. \A g \in Files : Exists(g) => Exists(g)' /\ inode'[g].segs = inode[g].segs
    BY DEF Exists
  <1>2. \A g \in Files : Exists(g) => Grows(inode[g].segs, inode[g].segs)
    BY SegsOf, GrowsFacts
  <1> QED
    BY <1>1, <1>2 DEF OnlyGrow

LEMMA GrowsExpanded ==
  ASSUME NEW v, NEW x, NEW base, NEW exact, NEW counted, Room(v, x, base, exact, counted),
         NEW count \in Nat
  PROVE  LET r == ExpandSegment(v, x, count)
         IN r.ino \in Inodes /\ Grows(x.segs, r.ino.segs)
  <1> DEFINE l == Len(x.segs)
             n == IF IsDescriptor(l) THEN 0 ELSE Additional(v, x.segs[l], count)
             r == ExpandSegment(v, x, count)
             new == [x.segs EXCEPT ![l].cnt = @ + n]
  <1>1. x \in Inodes /\ x.segs \in Seq(Segments) /\ l > 0
    BY DEF Room, GoodSegments
  <1>2. /\ Room(r.vol, r.ino, base, exact, counted) /\ r.n \in 0 .. count
    BY RoomExpanded
  <1>3. /\ r.n = n /\ r.ino = [x EXCEPT !.segs[l].cnt = @ + n, !.number_blocks = @ + n]
    BY DEF ExpandSegment
  <1>4. r.ino \in Inodes
    BY <1>2 DEF Room
  <1> HIDE DEF r, n
  <1>5. r.ino.segs = new
    BY <1>1, <1>3 DEF Inodes
  <1>6. n \in Nat
    BY <1>2, <1>3
  <1>7. Grows(x.segs, new)
    BY <1>1, <1>6, GrowsGrown
  <1> QED
    BY <1>4, <1>5, <1>7 DEF r

LEMMA GrowsWithSegment ==
  ASSUME NEW x \in Inodes, NEW bi \in Segments
  PROVE  /\ Grows(x.segs, WithSegment(x, bi).segs)
         /\ Grows(x.segs, WithDescriptor(x, bi).segs)
  <1> DEFINE new == Append(x.segs, bi)
  <1>1. x.segs \in Seq(Segments)
    BY InodeFields
  <1>2. Grows(x.segs, new)
    BY <1>1, GrowsAppended
  <1>3. WithSegment(x, bi).segs = new /\ WithDescriptor(x, bi).segs = new
    BY DEF WithSegment, WithDescriptor, Inodes
  <1> QED
    BY <1>2, <1>3

\* The size of a file is not what the zones depend on.
LEMMA FilesSized ==
  ASSUME FilesInv, ~hung, NEW f \in Files, Exists(f), NEW c \in Int,
         inode' = [inode EXCEPT ![f].size = c], UNCHANGED <<vol, miscut, hung, lost>>
  PROVE  FilesInv' /\ (\A g \in Files : Exists(g) <=> Exists(g)') /\ OnlyGrow
  <1> DEFINE y == [inode[f] EXCEPT !.size = c]
  <1>1. Room(vol, inode[f], UsedOf(vol) \ Owned(f), ~lost, f \notin miscut)
    BY RoomOf
  <1>2. Room(vol', y, UsedOf(vol) \ Owned(f), ~lost, f \notin miscut')
    BY <1>1, RoomSized
  <1>3. inode' = [inode EXCEPT ![f] = y]
    BY DEF FilesInv
  <1> HIDE DEF y
  <1>4. FilesInv' /\ Exists(f)' /\ (\A g \in Files : g # f => (Exists(g) <=> Exists(g)'))
    BY <1>2, <1>3, FilesReplaced
  <1>5. y \in Inodes /\ Grows(inode[f].segs, y.segs)
    <2>1. inode[f] \in Inodes /\ inode[f].segs \in Seq(Segments)
      BY SegsOf DEF FilesInv, Exists
    <2>2. y \in Inodes /\ y.segs = inode[f].segs
      BY <2>1 DEF y, Inodes
    <2> QED
      BY <2>1, <2>2, GrowsFacts
  <1>6. OnlyGrow
    BY <1>3, <1>5, GrowsReplaced
  <1> QED
    BY <1>4, <1>6

-----------------------------------------------------------------------------
(* The inductive invariant: the call in progress.                          *)

Calls == [op : {"idle", "write", "named", "enter"}, file : Names \cup {Nobody}, left : 0 .. 2]

CallInv ==
    /\ call \in Calls /\ rot \in Subs /\ hung \in BOOLEAN /\ lost \in BOOLEAN
    /\ call.op = "idle" => call = Idle
    /\ call.op # "idle" => call.file \in Names /\ Exists(call.file)

\* A call goes on as it was, whatever becomes of the zones.
LEMMA CallKept ==
  ASSUME CallInv, UNCHANGED <<call, rot, lost>>, hung' \in BOOLEAN, \A g \in Files : Exists(g) => Exists(g)'
  PROVE  CallInv'
  <1>1. call.op # "idle" => Exists(call.file)'
    BY DEF CallInv, Files
  <1> QED
    BY <1>1 DEF CallInv

LEMMA HangKeeps ==
  ASSUME FilesInv, CallInv, GoodVolume(vol'), FreeEnough(vol'), \A p \in Subs : vol'.used[p] = ZonesOf(p),
         hung' = TRUE, UNCHANGED <<inode, dir, rot, call, miscut, lost>>
  PROVE  FilesInv' /\ CallInv' /\ (\A g \in Files : Exists(g) <=> Exists(g)')
  <1>1. FilesInv'
    BY FilesHung
  <1>2. \A g \in Files : Exists(g) <=> Exists(g)'
    BY DEF Exists
  <1> QED
    BY <1>1, <1>2, CallKept

LEMMA NewSegmentKeeps ==
  ASSUME FilesInv, CallInv, AllocNewSegment
  PROVE  FilesInv' /\ CallInv' /\ (\A g \in Files : Exists(g) <=> Exists(g)') /\ OnlyGrow
  <1>f. PICK f : f = IF call.op = "enter" THEN Root ELSE call.file
    OBVIOUS
  <1> DEFINE ino  == inode[f]
             full == IsDescriptor(Len(ino.segs) + 1)
             d    == IF full THEN Search(vol, ino, 1) ELSE NoSpace
             v1   == IF full THEN d.vol ELSE vol
             i1   == IF full THEN WithDescriptor(ino, d.bi) ELSE ino
             s    == Search(v1, i1, call.left)
             i2   == WithSegment(i1, s.bi)
             left == call.left - s.bi.cnt
             x    == ExpandSegment(s.vol, i2, left)
             base == UsedOf(vol) \ Owned(f)
             counted == f \notin miscut
  <1>0. call.op \in {"write", "enter"} /\ call.left > 0 /\ ~hung
    <2> HIDE DEF ino, full, d, v1, i1, s, i2, left, x, base, counted
    <2>1. AllocNewSegment => call.op \in {"write", "enter"} /\ call.left > 0 /\ ~hung
      BY Zenon DEF AllocNewSegment
    <2> QED
      BY <2>1
  <1>1. /\ call.op \in {"write", "enter"} /\ call.left > 0 /\ ~hung
        /\ full /\ d = NoSpace => Hang(vol)
        /\ ~(full /\ d = NoSpace) /\ s = NoSpace => Hang(v1)
        /\ ~(full /\ d = NoSpace) /\ s # NoSpace =>
              /\ vol' = x.vol /\ inode' = [inode EXCEPT ![f] = x.ino]
              /\ call' = [call EXCEPT !.left = left - x.n]
              /\ UNCHANGED <<dir, rot, hung, miscut, lost>>
    BY <1>f, ZenonT(60) DEF AllocNewSegment
  <1>2. f \in Files /\ Exists(f)
    <2>1. Root \in Files /\ Exists(Root)
      BY DEF FilesInv, Files
    <2>2. call.op = "write" => call.file \in Names /\ Exists(call.file)
      BY DEF CallInv
    <2> QED
      BY <1>f, <1>0, <2>1, <2>2 DEF Files
  <1>3. call.left \in Nat /\ call.left > 0 /\ call.left <= 2
    BY <1>0 DEF CallInv, Calls
  <1>4. Room(vol, ino, base, ~lost, counted)
    BY <1>0, <1>2, RoomOf
  <1> HIDE DEF ino, base, counted
  <1>5. full => \/ /\ d # NoSpace /\ GoodSegment(d.bi) /\ d.bi.cnt = 1
                   /\ Covers(d.bi) \cap UsedOf(vol) = {} /\ d.vol = Mark(vol, d.bi)
                \/ d = NoSpace /\ \A p \in Subs : vol.used[p] = ZonesOf(p)
    <2> SUFFICES ASSUME full PROVE
             \/ /\ d # NoSpace /\ GoodSegment(d.bi) /\ d.bi.cnt = 1
                /\ Covers(d.bi) \cap UsedOf(vol) = {} /\ d.vol = Mark(vol, d.bi)
             \/ d = NoSpace /\ \A p \in Subs : vol.used[p] = ZonesOf(p)
      OBVIOUS
    <2>1. d = Search(vol, ino, 1)
      OBVIOUS
    <2> HIDE DEF d, full
    <2>2. \/ /\ d # NoSpace /\ GoodSegment(d.bi) /\ d.bi.cnt \in 1 .. 1
             /\ Covers(d.bi) \cap UsedOf(vol) = {} /\ d.vol = Mark(vol, d.bi)
          \/ d = NoSpace /\ \A p \in Subs : vol.used[p] = ZonesOf(p)
      BY <1>4, <2>1, SearchOn
    <2>3. d.bi.cnt \in 1 .. 1 => d.bi.cnt = 1
      OBVIOUS
    <2> QED
      BY <2>2, <2>3
  <1>6. CASE full /\ d = NoSpace
    <2>1. vol' = vol /\ hung' = TRUE /\ UNCHANGED <<inode, dir, rot, call, miscut, lost>>
      BY <1>1, <1>6 DEF Hang
    <2>2. GoodVolume(vol') /\ FreeEnough(vol') /\ \A p \in Subs : vol'.used[p] = ZonesOf(p)
      BY <2>1, <1>4, <1>5, <1>6 DEF Room
    <2> QED
      BY <2>1, <2>2, HangKeeps, GrowsKept
  <1>7. CASE ~(full /\ d = NoSpace)
    <2>1. Room(v1, i1, base, ~lost, counted) /\ ~IsDescriptor(Len(i1.segs) + 1)
      <3>1. CASE full
        <4>1. /\ GoodSegment(d.bi) /\ d.bi.cnt = 1
              /\ Covers(d.bi) \cap UsedOf(vol) = {} /\ d.vol = Mark(vol, d.bi)
          BY <3>1, <1>5, <1>7
        <4>2. v1 = d.vol /\ i1 = WithDescriptor(ino, d.bi)
          BY <3>1
        <4>3. IsDescriptor(Len(ino.segs) + 1)
          BY <3>1
        <4> HIDE DEF v1, i1, d, full
        <4>4. /\ Room(Mark(vol, d.bi), WithDescriptor(ino, d.bi), base, ~lost, counted)
              /\ Len(WithDescriptor(ino, d.bi).segs) = Len(ino.segs) + 1
          BY <1>4, <4>1, RoomWithSegment
        <4>5. Len(ino.segs) + 1 \in Nat /\ Len(ino.segs) + 1 > 0
          BY <1>4, LastSegment DEF Room
        <4>6. ~IsDescriptor(Len(ino.segs) + 1 + 1)
          BY <4>3, <4>5, DescriptorNext
        <4> QED
          BY <4>1, <4>2, <4>4, <4>6
      <3>2. CASE ~full
        BY <3>2, <1>4
      <3> QED
        BY <3>1, <3>2
    <2>2. GoodVolume(v1) /\ FreeEnough(v1)
      BY <2>1 DEF Room
    <2>g. Grows(ino.segs, i1.segs)
      <3>1. ino \in Inodes /\ ino.segs \in Seq(Segments)
        BY <1>4, InodeFields DEF Room
      <3>2. CASE full
        <4>1. GoodSegment(d.bi)
          BY <3>2, <1>5, <1>7
        <4>2. d.bi \in Segments
          BY <4>1 DEF GoodSegment, Within
        <4>3. i1 = WithDescriptor(ino, d.bi)
          BY <3>2
        <4> HIDE DEF i1, d, full
        <4> QED
          BY <3>1, <4>2, <4>3, GrowsWithSegment
      <3>3. CASE ~full
        <4>1. i1 = ino
          BY <3>3
        <4> QED
          BY <3>1, <4>1, GrowsFacts
      <3> QED
        BY <3>2, <3>3
    <2> HIDE DEF v1, i1, d, full
    <2>3. \/ /\ s # NoSpace /\ GoodSegment(s.bi) /\ s.bi.cnt \in 1 .. call.left
             /\ Covers(s.bi) \cap UsedOf(v1) = {} /\ s.vol = Mark(v1, s.bi)
          \/ s = NoSpace /\ \A p \in Subs : v1.used[p] = ZonesOf(p)
      BY <1>3, <2>1, SearchOn
    <2> HIDE DEF s
    <2>4. CASE s = NoSpace
      <3>1. vol' = v1 /\ hung' = TRUE /\ UNCHANGED <<inode, dir, rot, call, miscut, lost>>
        BY <1>1, <1>7, <2>4 DEF Hang
      <3>2. GoodVolume(vol') /\ FreeEnough(vol') /\ \A p \in Subs : vol'.used[p] = ZonesOf(p)
        BY <3>1, <2>2, <2>3, <2>4
      <3> QED
        BY <3>1, <3>2, HangKeeps, GrowsKept
    <2>5. CASE s # NoSpace
      <3>1. /\ GoodSegment(s.bi) /\ s.bi.cnt \in 1 .. call.left
            /\ Covers(s.bi) \cap UsedOf(v1) = {} /\ s.vol = Mark(v1, s.bi)
        BY <2>3, <2>5
      <3>2. Room(s.vol, i2, base, ~lost, counted)
        BY <2>1, <3>1, RoomWithSegment
      <3>3. left \in Nat /\ left <= 2
        BY <1>3, <3>1
      <3>g. i1 \in Inodes /\ s.bi \in Segments
        BY <2>1, <3>1 DEF Room, GoodSegment, Within
      <3>h. Grows(i1.segs, i2.segs)
        BY <3>g, GrowsWithSegment
      <3> HIDE DEF left, i2
      <3>4. Room(x.vol, x.ino, base, ~lost, counted) /\ x.n \in 0 .. left
        BY <3>2, <3>3, RoomExpanded
      <3>i. x.ino \in Inodes /\ Grows(i2.segs, x.ino.segs)
        BY <3>2, <3>3, GrowsExpanded
      <3> HIDE DEF x
      <3>j. Grows(ino.segs, x.ino.segs)
        <4>1. /\ ino.segs \in Seq(Segments) /\ i1.segs \in Seq(Segments)
              /\ i2.segs \in Seq(Segments) /\ x.ino.segs \in Seq(Segments)
          BY <1>4, <3>2, <3>g, <3>i, InodeFields DEF Room
        <4>2. Grows(ino.segs, i2.segs)
          BY <2>g, <3>h, <4>1, GrowsFacts
        <4> QED
          BY <3>i, <4>1, <4>2, GrowsFacts
      <3>5. /\ vol' = x.vol /\ inode' = [inode EXCEPT ![f] = x.ino]
            /\ call' = [call EXCEPT !.left = left - x.n]
            /\ UNCHANGED <<dir, rot, hung, miscut, lost>>
        BY <1>1, <1>7, <2>5
      <3>6. Room(vol', x.ino, UsedOf(vol) \ Owned(f), ~lost, f \notin miscut')
        BY <3>4, <3>5 DEF base, counted
      <3>a. inode' = [inode EXCEPT ![f] = x.ino] /\ hung' = hung /\ lost' = lost /\ miscut' = miscut
        BY <3>5
      <3>7. FilesInv' /\ Exists(f)' /\ (\A g \in Files : g # f => (Exists(g) <=> Exists(g)'))
        BY <1>0, <1>2, <3>a, <3>6, FilesReplaced
      <3>8. \A g \in Files : Exists(g) <=> Exists(g)'
        BY <1>2, <3>7
      <3>9. left - x.n \in 0 .. 2
        BY <3>3, <3>4
      <3>10. call' \in Calls /\ call'.op = call.op /\ call'.file = call.file
        BY <3>5, <3>9 DEF CallInv, Calls
      <3>11. call.file \in Names /\ Exists(call.file)'
        BY <1>0, <3>8, <3>10 DEF CallInv, Files, Exists
      <3>12. CallInv'
        BY <1>0, <3>5, <3>7, <3>8, <3>10, <3>11 DEF CallInv
      <3>13. OnlyGrow
        BY <1>2, <3>a, <3>i, <3>j, GrowsReplaced DEF ino
      <3> QED
        BY <3>7, <3>8, <3>12, <3>13
    <2> QED
      BY <2>4, <2>5
  <1> QED
    BY <1>6, <1>7

\* pfsBlockExpandSegment at the start of pfsAllocZones.
LEMMA ExpandKeeps ==
  ASSUME FilesInv, CallInv, ~hung, NEW f \in Files, Exists(f), NEW g \in Names, Exists(g),
         NEW op \in {"write", "enter"}, NEW size \in 1 .. 2,
         vol' = ExpandSegment(vol, inode[f], size).vol,
         inode' = [inode EXCEPT ![f] = ExpandSegment(vol, inode[f], size).ino],
         call' = [op |-> op, file |-> g, left |-> size - ExpandSegment(vol, inode[f], size).n],
         UNCHANGED <<rot, hung, miscut, lost>>
  PROVE  FilesInv' /\ CallInv' /\ (\A h \in Files : Exists(h) <=> Exists(h)') /\ OnlyGrow
  <1> DEFINE x == ExpandSegment(vol, inode[f], size)
             left == size - x.n
  <1>1. Room(vol, inode[f], UsedOf(vol) \ Owned(f), ~lost, f \notin miscut)
    BY RoomOf
  <1>2. Room(x.vol, x.ino, UsedOf(vol) \ Owned(f), ~lost, f \notin miscut) /\ x.n \in 0 .. size
    <2>1. size \in Nat
      OBVIOUS
    <2>2. LET r == ExpandSegment(vol, inode[f], size)
          IN Room(r.vol, r.ino, UsedOf(vol) \ Owned(f), ~lost, f \notin miscut) /\ r.n \in 0 .. size
      BY <1>1, <2>1, RoomExpanded
    <2> QED
      BY <2>2, Zenon DEF x
  <1>g. x.ino \in Inodes /\ Grows(inode[f].segs, x.ino.segs)
    <2>1. size \in Nat
      OBVIOUS
    <2>2. LET r == ExpandSegment(vol, inode[f], size)
          IN r.ino \in Inodes /\ Grows(inode[f].segs, r.ino.segs)
      BY <1>1, <2>1, GrowsExpanded
    <2> QED
      BY <2>2, Zenon DEF x
  <1>3. vol' = x.vol /\ inode' = [inode EXCEPT ![f] = x.ino] /\ call' = [op |-> op, file |-> g, left |-> left]
    OBVIOUS
  <1> HIDE DEF x
  <1>4. left \in 0 .. 2
    BY <1>2
  <1> HIDE DEF left
  <1>5. FilesInv' /\ Exists(f)' /\ (\A h \in Files : h # f => (Exists(h) <=> Exists(h)'))
    BY <1>2, <1>3, FilesReplaced
  <1>6. \A h \in Files : Exists(h) <=> Exists(h)'
    BY <1>5
  <1>7. call' \in Calls /\ call'.op = op /\ call'.file = g
    BY <1>3, <1>4 DEF Calls
  <1>8. Exists(g)'
    BY <1>6 DEF Files
  <1>9. CallInv'
    BY <1>7, <1>8 DEF CallInv, Exists
  <1>10. OnlyGrow
    BY <1>3, <1>g, GrowsReplaced
  <1> QED
    BY <1>5, <1>6, <1>9, <1>10

LEMMA WriteKeeps ==
  ASSUME FilesInv, CallInv, NEW f \in Names, NEW n \in 1 .. 2, Write(f, n)
  PROVE  FilesInv' /\ CallInv' /\ (\A g \in Files : Exists(g) <=> Exists(g)') /\ OnlyGrow
  <1>1. ~hung /\ Exists(f) /\ f \in Files /\ UNCHANGED <<dir, rot, hung, miscut, lost>>
    BY DEF Write, IsFile, Files
  <1>2. inode[f] \in Inodes
    BY <1>1 DEF FilesInv, Exists
  <1>3. CASE HasRoom(inode[f], n)
    <2> DEFINE c == inode[f].size + n
    <2>1. inode' = [inode EXCEPT ![f].size = c] /\ UNCHANGED <<vol, call>>
      BY <1>3 DEF Write
    <2>2. c \in Int
      BY <1>2, InodeFields
    <2> HIDE DEF c
    <2>3. FilesInv' /\ (\A g \in Files : Exists(g) <=> Exists(g)') /\ OnlyGrow
      BY <1>1, <2>1, <2>2, FilesSized
    <2> QED
      BY <1>1, <2>1, <2>3, CallKept DEF CallInv
  <1>4. CASE ~HasRoom(inode[f], n)
    <2>1. /\ vol' = ExpandSegment(vol, inode[f], n).vol
          /\ inode' = [inode EXCEPT ![f] = ExpandSegment(vol, inode[f], n).ino]
          /\ call' = [op |-> "write", file |-> f, left |-> n - ExpandSegment(vol, inode[f], n).n]
      BY <1>4 DEF Write, AllocZones
    <2> QED
      BY <1>1, <2>1, ExpandKeeps
  <1> QED
    BY <1>3, <1>4

LEMMA WrittenKeeps ==
  ASSUME FilesInv, CallInv, NEW n \in 1 .. 2, Written(n)
  PROVE  FilesInv' /\ CallInv' /\ (\A g \in Files : Exists(g) <=> Exists(g)') /\ OnlyGrow
  <1>1. PICK f : f = call.file
    OBVIOUS
  <1>2. ~hung /\ call.op = "write" /\ call' = Idle /\ UNCHANGED <<vol, rot, hung, miscut, lost>>
    BY DEF Written
  <1>3. f \in Files /\ Exists(f)
    BY <1>1, <1>2 DEF CallInv, Files
  <1>4. inode[f] \in Inodes
    BY <1>3 DEF FilesInv, Exists
  <1> DEFINE c == inode[f].size + n
  <1>5. inode' = [inode EXCEPT ![f].size = c]
    BY <1>1 DEF Written
  <1>6. c \in Int
    BY <1>4, InodeFields
  <1> HIDE DEF c
  <1>7. FilesInv' /\ (\A g \in Files : Exists(g) <=> Exists(g)') /\ OnlyGrow
    BY <1>2, <1>3, <1>5, <1>6, FilesSized
  <1>8. CallInv'
    BY <1>2 DEF CallInv, Calls, Idle
  <1> QED
    BY <1>7, <1>8

LEMMA FreeZonesKeeps ==
  ASSUME FilesInv, CallInv, NEW f \in Names, NEW n \in 0 .. MaxSize, FreeZones(f, n)
  PROVE  FilesInv' /\ CallInv' /\ (\A g \in Files : Exists(g) <=> Exists(g)')
  <1>1. ~hung /\ Exists(f) /\ f \in Files /\ UNCHANGED <<dir, rot, call, hung, lost>>
    BY DEF FreeZones, IsFile, Files
  <1>2. n \in Int /\ n \in Nat
    <2>1. MaxSize \in Nat
      BY FileAssumption, Zenon
    <2> QED
      BY <2>1
  <1>3. FilesInv' /\ (\A g \in Files : Exists(g) <=> Exists(g)')
    <2>1. CASE inode[f].number_segdesg + n = inode[f].number_blocks
      <3>1. inode' = [inode EXCEPT ![f].size = n] /\ UNCHANGED <<vol, miscut>>
        BY <2>1 DEF FreeZones
      <3> QED
        BY <1>1, <1>2, <3>1, FilesSized
    <2>2. CASE inode[f].number_segdesg + n # inode[f].number_blocks
      <3> DEFINE x == Cut(inode[f], n)
                 whole == DataZones(x.segs) = n
      <3>1. /\ inode' = [inode EXCEPT ![f] = x] /\ vol' = Returned(vol, inode[f].segs, n)
            /\ miscut' = IF whole THEN miscut \ {f} ELSE miscut \cup {f}
        BY <2>2 DEF FreeZones
      <3>2. /\ Room(vol, inode[f], UsedOf(vol) \ Owned(f), ~lost, f \notin miscut)
            /\ Total(inode[f].segs) \cap ReservedZones = {}
        BY <1>1, RoomOf
      <3>3. Room(vol', x, UsedOf(vol) \ Owned(f), ~lost, whole)
        BY <1>2, <3>1, <3>2, RoomCut
      <3> HIDE DEF x, whole
      <3>4. (f \notin miscut' => whole) /\ \A g \in Files : g # f => (g \in miscut <=> g \in miscut')
        BY <3>1
      <3>5. Room(vol', x, UsedOf(vol) \ Owned(f), ~lost, f \notin miscut')
        BY <3>3, <3>4 DEF Room
      <3>6. FilesInv' /\ Exists(f)' /\ (\A g \in Files : g # f => (Exists(g) <=> Exists(g)'))
        BY <1>1, <3>1, <3>4, <3>5, FilesReplaced
      <3> QED
        BY <1>1, <3>6
    <2> QED
      BY <2>1, <2>2
  <1>4. CallInv'
    BY <1>1, <1>3, CallKept DEF CallInv
  <1> QED
    BY <1>3, <1>4

LEMMA AddEntryKeeps ==
  ASSUME FilesInv, CallInv, DirAddEntry
  PROVE  FilesInv' /\ CallInv' /\ (\A g \in Files : Exists(g) <=> Exists(g)') /\ OnlyGrow
  <1>1. PICK f : f = call.file
    OBVIOUS
  <1>2. call.op = "named" /\ ~hung /\ UNCHANGED <<rot, hung, miscut, lost>>
    BY DEF DirAddEntry
  <1>3. f \in Names /\ Exists(f) /\ Root \in Files /\ Exists(Root)
    BY <1>1, <1>2 DEF CallInv, Files, FilesInv
  <1>4. CASE UNCHANGED <<vol, inode>> /\ call' \in Calls /\ (call'.op = "idle" => call' = Idle)
             /\ (call'.op # "idle" => call'.file = f)
    <2>0. /\ vol' = vol /\ inode' = inode /\ miscut' = miscut /\ hung' = hung /\ lost' = lost
          /\ \A g \in Files : Owned(g)' = Owned(g) /\ (Exists(g)' <=> Exists(g))
      BY <1>2, <1>4 DEF Owned, Exists
    <2>1. FilesInv'
      BY <1>2, <1>3, <2>0 DEF FilesInv
    <2>2. \A g \in Files : Exists(g) <=> Exists(g)'
      BY <1>4 DEF Exists
    <2>3. CallInv'
      BY <1>2, <1>3, <1>4 DEF CallInv, Exists
    <2> QED
      BY <1>4, <2>1, <2>2, <2>3, GrowsKept
  <1>5. CASE /\ vol' = ExpandSegment(vol, inode[Root], 1).vol
             /\ inode' = [inode EXCEPT ![Root] = ExpandSegment(vol, inode[Root], 1).ino]
             /\ call' = [op |-> "enter", file |-> f, left |-> 1 - ExpandSegment(vol, inode[Root], 1).n]
    <2>1. 1 \in 1 .. 2 /\ "enter" \in {"write", "enter"}
      OBVIOUS
    <2> QED
      BY <2>1, <1>2, <1>3, <1>5, ExpandKeeps, Zenon
  <1>6. Idle \in Calls /\ Idle.op = "idle"
    BY DEF Idle, Calls
  <1>7. [op |-> "enter", file |-> f, left |-> 0] \in Calls
    BY <1>3 DEF Calls
  <1> DEFINE enter == [op |-> "enter", file |-> f, left |-> 0]
  <1>8. enter \in Calls /\ enter.op = "enter" /\ enter.file = f
    BY <1>7
  <1>9. \/ call' = Idle /\ UNCHANGED <<vol, inode>>
        \/ call' = enter /\ UNCHANGED <<vol, inode>>
        \/ /\ vol' = ExpandSegment(vol, inode[Root], 1).vol
           /\ inode' = [inode EXCEPT ![Root] = ExpandSegment(vol, inode[Root], 1).ino]
           /\ call' = [op |-> "enter", file |-> f, left |-> 1 - ExpandSegment(vol, inode[Root], 1).n]
    BY <1>1 DEF DirAddEntry
  <1> HIDE DEF enter
  <1> QED
    BY <1>4, <1>5, <1>6, <1>8, <1>9

LEMMA SectorKeeps ==
  ASSUME FilesInv, CallInv, SectorAdded
  PROVE  FilesInv' /\ CallInv' /\ (\A g \in Files : Exists(g) <=> Exists(g)') /\ OnlyGrow
  <1> DEFINE c == inode[Root].size + 1
  <1>1. ~hung /\ inode' = [inode EXCEPT ![Root].size = c] /\ call' = Idle /\ UNCHANGED <<vol, rot, hung, miscut, lost>>
    BY DEF SectorAdded
  <1>2. Root \in Files /\ Exists(Root) /\ inode[Root] \in Inodes
    BY DEF FilesInv, Files, Exists
  <1>3. c \in Int
    BY <1>2, InodeFields
  <1> HIDE DEF c
  <1>4. FilesInv' /\ (\A g \in Files : Exists(g) <=> Exists(g)') /\ OnlyGrow
    BY <1>1, <1>2, <1>3, FilesSized
  <1>5. CallInv'
    BY <1>1 DEF CallInv, Calls, Idle
  <1> QED
    BY <1>4, <1>5

\* pfsGetMaxIndex finds a partition.
LEMMA MaxIndexIsSub == ASSUME GoodVolume(vol) PROVE MaxIndex \in Subs
  <1>1. /\ NumSubs \in Nat /\ Subs = 0 .. NumSubs
        /\ \A s \in Subs : Size[s] \in Nat /\ Size[s] > 0
    BY SizeFacts
  <1>2. \A s \in Subs : vol.free[s] \in Int
    BY DEF GoodVolume
  <1>3. \A s \in Subs : FreePercent(s) \in Int
    BY <1>1, <1>2 DEF FreePercent, Percent
  <1> DEFINE S == {n \in Nat : n <= NumSubs => \E m \in 0 .. n : \A t \in 0 .. n : FreePercent(t) <= FreePercent(m)}
  <1>4. 0 \in S
    <2>1. 0 \in 0 .. 0 /\ \A t \in 0 .. 0 : t = 0
      OBVIOUS
    <2>2. FreePercent(0) <= FreePercent(0)
      BY <1>1, <1>3
    <2> QED
      BY <2>1, <2>2
  <1>5. ASSUME NEW n \in Nat, n \in S PROVE n + 1 \in S
    <2> SUFFICES ASSUME n + 1 <= NumSubs
                 PROVE  \E m \in 0 .. n + 1 : \A t \in 0 .. n + 1 : FreePercent(t) <= FreePercent(m)
      OBVIOUS
    <2>1. PICK m \in 0 .. n : \A t \in 0 .. n : FreePercent(t) <= FreePercent(m)
      <3>1. n <= NumSubs
        BY <1>1
      <3> QED
        BY <3>1, <1>5
    <2>2. /\ m \in 0 .. n + 1 /\ n + 1 \in 0 .. n + 1 /\ m \in Subs /\ n + 1 \in Subs
          /\ \A t \in 0 .. n + 1 : t \in Subs /\ (t \in 0 .. n \/ t = n + 1)
      BY <1>1
    <2>3. CASE FreePercent(n + 1) <= FreePercent(m)
      BY <2>1, <2>2, <2>3
    <2>4. CASE ~(FreePercent(n + 1) <= FreePercent(m))
      <3>1. \A t \in 0 .. n + 1 : FreePercent(t) <= FreePercent(n + 1)
        BY <2>1, <2>2, <2>4, <1>3
      <3> QED
        BY <2>2, <3>1
    <2> QED
      BY <2>3, <2>4
  <1>6. NumSubs \in S
    <2> HIDE DEF S
    <2> QED
      BY <1>1, <1>4, <1>5, Induction
  <1> DEFINE M == {s \in Subs : \A t \in Subs : FreePercent(t) <= FreePercent(s)}
  <1>7. M # {} /\ M \subseteq Nat /\ M \subseteq Subs
    BY <1>1, <1>6
  <1>8. MaxIndex = Min(M)
    BY DEF MaxIndex
  <1> HIDE DEF M
  <1> QED
    BY <1>7, <1>8, MinFacts

\* A file or a directory that has just been made: one segment for its inode, and
\* one for the entries of a directory.
LEMMA RoomMade ==
  ASSUME NEW v, GoodVolume(v), FreeEnough(v), NEW exact, exact => FreeExact(v),
         NEW bi, GoodSegment(bi), bi.cnt = 1, Covers(bi) \cap UsedOf(v) = {}, NEW mode \in {"file", "dir"}
  PROVE  Room(Mark(v, bi), Inode(mode, bi), UsedOf(v), exact, TRUE)
  <1> DEFINE x == Inode(mode, bi)
  <1>1. bi \in Segments /\ bi.cnt \in Int /\ <<bi>> \in Seq(Segments)
    BY DEF GoodSegment, Within
  <1>2. x = [mode |-> mode, segs |-> <<bi>>, number_blocks |-> bi.cnt, number_segdesg |-> 1, size |-> 0]
    BY DEF Inode
  <1>3. x \in Inodes /\ x.segs = <<bi>> /\ x.number_blocks = 1
    BY <1>1, <1>2 DEF Inodes
  <1> HIDE DEF x
  <1>4. Room(Mark(v, bi), x, UsedOf(v), exact, TRUE)
    BY <1>3, RoomFirst
  <1> QED
    BY <1>4 DEF x

\* The search for one zone, from a place in a partition that is there.
LEMMA SearchOne ==
  ASSUME NEW v, GoodVolume(v), FreeEnough(v), NEW mc \in Int, NEW bi \in Segments, bi.cnt = 1
  PROVE  LET r == SearchFreeZone(v, bi, mc)
         IN \/ /\ r # NoSpace /\ GoodSegment(r.bi) /\ r.bi.cnt = 1
               /\ Covers(r.bi) \cap UsedOf(v) = {} /\ r.vol = Mark(v, r.bi)
            \/ r = NoSpace /\ \A s \in Subs : v.used[s] = ZonesOf(s)
  <1>1. bi = Segment(bi.sub, bi.num, 1) /\ bi.sub \in Subs /\ bi.num \in Nat
    BY DEF Segments, Segment
  <1> DEFINE r == SearchFreeZone(v, bi, mc)
  <1>2. r = SearchFreeZone(v, Segment(bi.sub, bi.num, 1), mc)
    BY <1>1
  <1> HIDE DEF r
  <1>3. \/ /\ r # NoSpace /\ GoodSegment(r.bi) /\ r.bi.cnt \in 1 .. 1
           /\ Covers(r.bi) \cap UsedOf(v) = {} /\ r.vol = Mark(v, r.bi)
        \/ r = NoSpace /\ \A s \in Subs : v.used[s] = ZonesOf(s)
    <2>1. 1 \in Nat /\ 1 > 0 /\ 1 <= 2
      OBVIOUS
    <2> QED
      BY <1>1, <1>2, <2>1, SearchFacts
  <1>4. r.bi.cnt \in 1 .. 1 => r.bi.cnt = 1
    OBVIOUS
  <1>5. \/ /\ r # NoSpace /\ GoodSegment(r.bi) /\ r.bi.cnt = 1
           /\ Covers(r.bi) \cap UsedOf(v) = {} /\ r.vol = Mark(v, r.bi)
        \/ r = NoSpace /\ \A s \in Subs : v.used[s] = ZonesOf(s)
    BY <1>3, <1>4
  <1> QED
    BY <1>5 DEF r

LEMMA CreateKeeps ==
  ASSUME FilesInv, CallInv, NEW f \in Names, NEW isdir \in BOOLEAN, InodeCreate(f, isdir)
  PROVE  /\ FilesInv' /\ CallInv'
         /\ \A g \in Files : g # f => (Exists(g) <=> Exists(g)')
         /\ \/ (\A g \in Files : Exists(g) <=> Exists(g)') /\ call' = call
            \/ Exists(f)' /\ call' = [op |-> "named", file |-> f, left |-> 0]
  <1> DEFINE next == IF NumSubs > rot THEN rot + 1 ELSE 0
             sub  == IF FreePercent(next) + 11 <= Percent(AllFree, AllZones) THEN MaxIndex ELSE next
             root == inode[Root].segs[1]
             at   == IF isdir THEN Segment(sub, 0, 1) ELSE Segment(root.sub, root.num, 1)
             s    == SearchFreeZone(vol, at, 2)
             d    == SearchFreeZone(s.vol, s.bi, 0)
             new  == IF isdir THEN [WithSegment(Inode("dir", s.bi), d.bi) EXCEPT !.size = 1]
                     ELSE Inode("file", s.bi)
             make == [op |-> "named", file |-> f, left |-> 0]
  <1>1. ~hung /\ ~Exists(f) /\ call = Idle /\ f \in Files
    BY DEF InodeCreate, Files
  <1>2. s = NoSpace => Hang(vol)
    BY DEF InodeCreate
  <1>a. s # NoSpace /\ isdir /\ d = NoSpace => Hang(s.vol)
    BY DEF InodeCreate
  <1>b. s # NoSpace /\ ~(isdir /\ d = NoSpace) =>
              /\ vol' = (IF isdir THEN d.vol ELSE s.vol)
              /\ inode' = [inode EXCEPT ![f] = new]
              /\ rot' = (IF isdir THEN next ELSE rot)
              /\ call' = make
              /\ UNCHANGED <<dir, hung, miscut, lost>>
    BY DEF InodeCreate
  <1>3. GoodVolume(vol) /\ FreeEnough(vol) /\ (~lost => FreeExact(vol))
    BY <1>1 DEF FilesInv
  <1>4. next \in Subs
    BY SizeFacts DEF CallInv
  <1> HIDE DEF next
  <1>5. sub \in Subs
    BY <1>3, <1>4, MaxIndexIsSub
  <1> HIDE DEF sub
  <1>6. root.sub \in Subs /\ root.num \in Nat
    <2>1. GoodSegments(inode[Root].segs)
      BY DEF FilesInv, Files
    <2>2. 1 \in 1 .. Len(inode[Root].segs)
      BY <2>1, LastSegment
    <2> QED
      BY <2>1, <2>2, LastSegment
  <1> HIDE DEF root
  <1>7. at \in Segments /\ at.cnt = 1
    BY <1>5, <1>6 DEF Segment, Segments
  <1> HIDE DEF at
  <1>8. \/ /\ s # NoSpace /\ GoodSegment(s.bi) /\ s.bi.cnt = 1
           /\ Covers(s.bi) \cap UsedOf(vol) = {} /\ s.vol = Mark(vol, s.bi)
        \/ s = NoSpace /\ \A p \in Subs : vol.used[p] = ZonesOf(p)
    <2>1. LET r == SearchFreeZone(vol, at, 2)
          IN \/ /\ r # NoSpace /\ GoodSegment(r.bi) /\ r.bi.cnt = 1
                /\ Covers(r.bi) \cap UsedOf(vol) = {} /\ r.vol = Mark(vol, r.bi)
             \/ r = NoSpace /\ \A p \in Subs : vol.used[p] = ZonesOf(p)
      <3>1. 2 \in Int
        OBVIOUS
      <3> QED
        BY <3>1, <1>3, <1>7, SearchOne, Zenon
    <2> QED
      BY <2>1, Zenon
  <1> HIDE DEF s
  <1>10. CASE s = NoSpace
    <2>1. vol' = vol /\ hung' = TRUE /\ UNCHANGED <<inode, dir, rot, call, miscut, lost>>
      BY <1>2, <1>10 DEF Hang
    <2>2. GoodVolume(vol') /\ FreeEnough(vol') /\ \A p \in Subs : vol'.used[p] = ZonesOf(p)
      BY <2>1, <1>3, <1>8, <1>10
    <2>3. FilesInv' /\ CallInv' /\ (\A g \in Files : Exists(g) <=> Exists(g)')
      BY <2>1, <2>2, HangKeeps
    <2> QED
      BY <2>1, <2>3
  <1>11. CASE s # NoSpace
    <2>1. /\ GoodSegment(s.bi) /\ s.bi.cnt = 1
          /\ Covers(s.bi) \cap UsedOf(vol) = {} /\ s.vol = Mark(vol, s.bi)
      BY <1>8, <1>11
    <2>2. \A mode \in {"file", "dir"} : Room(s.vol, Inode(mode, s.bi), UsedOf(vol), ~lost, TRUE)
      BY <1>3, <2>1, RoomMade
    <2>3. GoodVolume(s.vol) /\ FreeEnough(s.vol) /\ s.bi \in Segments
      BY <2>1, <2>2 DEF Room, GoodSegment, Within
    <2>4. \/ /\ d # NoSpace /\ GoodSegment(d.bi) /\ d.bi.cnt = 1
             /\ Covers(d.bi) \cap UsedOf(s.vol) = {} /\ d.vol = Mark(s.vol, d.bi)
          \/ d = NoSpace /\ \A p \in Subs : s.vol.used[p] = ZonesOf(p)
      BY <2>1, <2>3, SearchOne
    <2> HIDE DEF d
    <2>5. CASE isdir /\ d = NoSpace
      <3>1. vol' = s.vol /\ hung' = TRUE /\ UNCHANGED <<inode, dir, rot, call, miscut, lost>>
        BY <1>a, <1>11, <2>5 DEF Hang
      <3>2. GoodVolume(vol') /\ FreeEnough(vol') /\ \A p \in Subs : vol'.used[p] = ZonesOf(p)
        BY <3>1, <2>3, <2>4, <2>5
      <3>3. FilesInv' /\ CallInv' /\ (\A g \in Files : Exists(g) <=> Exists(g)')
        BY <3>1, <3>2, HangKeeps
      <3> QED
        BY <3>1, <3>3
    <2>6. CASE ~(isdir /\ d = NoSpace)
      <3>1. Room(IF isdir THEN d.vol ELSE s.vol, new, UsedOf(vol), ~lost, TRUE)
        <4>1. CASE isdir
          <5>1. GoodSegment(d.bi) /\ d.bi.cnt = 1 /\ Covers(d.bi) \cap UsedOf(s.vol) = {} /\ d.vol = Mark(s.vol, d.bi)
            BY <2>4, <2>6, <4>1
          <5> DEFINE x == Inode("dir", s.bi)
                     y == WithSegment(x, d.bi)
          <5>2. Room(s.vol, x, UsedOf(vol), ~lost, TRUE)
            BY <2>2
          <5> HIDE DEF x
          <5>3. Room(d.vol, y, UsedOf(vol), ~lost, TRUE)
            BY <5>1, <5>2, RoomWithSegment
          <5> HIDE DEF y
          <5>4. Room(d.vol, [y EXCEPT !.size = 1], UsedOf(vol), ~lost, TRUE)
            <6>1. 1 \in Int
              OBVIOUS
            <6> QED
              BY <6>1, <5>3, RoomSized, Zenon
          <5> QED
            BY <4>1, <5>4 DEF x, y
        <4>2. CASE ~isdir
          BY <4>2, <2>2
        <4> QED
          BY <4>1, <4>2
      <3> HIDE DEF new
      <3>2. /\ vol' = (IF isdir THEN d.vol ELSE s.vol)
            /\ inode' = [inode EXCEPT ![f] = new]
            /\ rot' = (IF isdir THEN next ELSE rot)
            /\ call' = make
            /\ UNCHANGED <<dir, hung, miscut, lost>>
        BY <1>b, <1>11, <2>6
      <3>3. Owned(f) = {}
        BY <1>1 DEF Owned
      <3>4. Room(vol', new, UsedOf(vol) \ Owned(f), ~lost, f \notin miscut')
        <4>1. UsedOf(vol) \ Owned(f) = UsedOf(vol)
          BY <3>3
        <4>2. Room(vol', new, UsedOf(vol) \ Owned(f), ~lost, TRUE)
          BY <3>1, <3>2, <4>1
        <4> QED
          BY <4>2 DEF Room
      <3>5. FilesInv' /\ Exists(f)' /\ (\A g \in Files : g # f => (Exists(g) <=> Exists(g)'))
        BY <1>1, <3>2, <3>4, FilesReplaced
      <3>6. make \in Calls /\ make.op = "named" /\ make.file = f
        BY DEF Calls
      <3>7. rot' \in Subs
        BY <1>4, <3>2 DEF CallInv
      <3> HIDE DEF make
      <3>8. CallInv'
        BY <3>2, <3>5, <3>6, <3>7 DEF CallInv, Exists
      <3> QED
        BY <3>2, <3>5, <3>8 DEF make
    <2> QED
      BY <2>5, <2>6
  <1> QED
    BY <1>10, <1>11

LEMMA RemoveKeeps ==
  ASSUME FilesInv, CallInv, NEW f \in Names, Exists(f), InodeRemove(f), Len(dir') \in Nat
  PROVE  FilesInv' /\ CallInv' /\ ~Exists(f)' /\ (\A g \in Files : g # f => (Exists(g) <=> Exists(g)'))
  <1> DEFINE segs == inode[f].segs
             c == Len(dir')
             y == [inode[Root] EXCEPT !.size = c]
  <1>1. /\ call = Idle /\ ~hung /\ vol' = FreeInodeBlocks(vol, segs)
        /\ inode' = [inode EXCEPT ![f] = Nobody, ![Root].size = c]
        /\ lost' = (lost \/ Len(segs) > InodeMax) /\ miscut' = miscut \ {f}
        /\ UNCHANGED <<rot, call, hung>>
    BY DEF InodeRemove
  <1>2. f \in Files /\ Root \in Files /\ f # Root /\ Exists(Root)
    BY FileFacts DEF Files, FilesInv
  <1>3. inode \in [Files -> Inodes \cup {Nobody}] /\ inode[Root] \in Inodes
    BY <1>2 DEF FilesInv, Exists
  <1>4. Owned(f) = Total(segs) /\ Owned(f) \cap ReservedZones = {} /\ GoodSegments(segs)
    BY <1>1, <1>2, RoomOf DEF Room
  <1>5. GoodVolume(vol) /\ FreeEnough(vol) /\ Owned(f) \subseteq UsedOf(vol)
    BY <1>2 DEF FilesInv
  <1> HIDE DEF segs
  <1>6. /\ GoodVolume(vol') /\ FreeEnough(vol') /\ UsedOf(vol) \ Owned(f) \subseteq UsedOf(vol')
        /\ Len(segs) <= InodeMax => UsedOf(vol') = UsedOf(vol) \ Owned(f) /\ (FreeExact(vol) => FreeExact(vol'))
    BY <1>1, <1>4, <1>5, InodeBlocksReturn
  <1> HIDE DEF c
  <1>7. c \in Int
    BY DEF c
  <1>8. y \in Inodes /\ y.segs = inode[Root].segs /\ y.number_blocks = inode[Root].number_blocks
    BY <1>3, <1>7 DEF Inodes
  <1>9. inode' = [[inode EXCEPT ![f] = Nobody] EXCEPT ![Root] = y]
    BY <1>1, <1>2, <1>3
  <1> HIDE DEF y
  <1>10. /\ inode' \in [Files -> Inodes \cup {Nobody}] /\ inode'[f] = Nobody /\ inode'[Root] = y
         /\ \A g \in Files : g # f /\ g # Root => inode'[g] = inode[g]
    BY <1>2, <1>3, <1>8, <1>9
  <1>11. ~Exists(f)' /\ (\A g \in Files : g # f => (Exists(g) <=> Exists(g)'))
    BY <1>2, <1>8, <1>10, InodeFields DEF Exists
  <1>12. Owned(f)' = {} /\ \A g \in Files : g # f => Owned(g)' = Owned(g)
    <2>1. Owned(f)' = {}
      BY <1>11 DEF Owned
    <2>2. ASSUME NEW g \in Files, g # f PROVE Owned(g)' = Owned(g)
      <3>1. Exists(g) => inode'[g].segs = inode[g].segs
        BY <2>2, <1>8, <1>10
      <3> QED
        BY <2>2, <3>1, <1>11 DEF Owned
    <2> QED
      BY <2>1, <2>2
  <1>13. ASSUME NEW g \in Files, Exists(g)'
         PROVE  /\ GoodSegments(inode'[g].segs)
                /\ g \notin miscut' => Cardinality(Owned(g)') = inode'[g].number_blocks
    <2>1. g # f /\ Exists(g) /\ Owned(g)' = Owned(g)
      BY <1>11, <1>12, <1>13
    <2>2. inode'[g].segs = inode[g].segs /\ inode'[g].number_blocks = inode[g].number_blocks
      BY <2>1, <1>8, <1>10
    <2>3. g \notin miscut' => g \notin miscut
      BY <1>1, <2>1
    <2> QED
      BY <2>1, <2>2, <2>3 DEF FilesInv
  <1>14. \A g \in Files : Owned(g)' \subseteq UsedOf(vol') \ ReservedZones
    <2> SUFFICES ASSUME NEW g \in Files, g # f PROVE Owned(g) \subseteq UsedOf(vol') \ ReservedZones
      BY <1>12
    <2>1. Owned(g) \subseteq UsedOf(vol) \ ReservedZones /\ Owned(g) \cap Owned(f) = {}
      BY <1>2 DEF FilesInv
    <2> QED
      BY <2>1, <1>6
  <1>15. \A g, h \in Files : g # h => Owned(g)' \cap Owned(h)' = {}
    BY <1>12 DEF FilesInv
  <1>16. ~lost' => FreeExact(vol') /\ UsedOf(vol') \subseteq ReservedZones \cup UNION {Owned(g)' : g \in Files}
    <2> SUFFICES ASSUME ~lost' PROVE FreeExact(vol') /\ UsedOf(vol') \subseteq ReservedZones \cup UNION {Owned(g)' : g \in Files}
      OBVIOUS
    <2>1. Len(segs) \in Nat /\ InodeMax \in Nat
      BY <1>4, LastSegment, SizeFacts
    <2>a. ~lost /\ ~(Len(segs) > InodeMax)
      BY <1>1, Zenon
    <2>2. ~lost /\ Len(segs) <= InodeMax
      BY <2>1, <2>a
    <2>3. FreeExact(vol) /\ UsedOf(vol) \subseteq ReservedZones \cup UNION {Owned(g) : g \in Files}
      BY <2>2, <1>1 DEF FilesInv
    <2>4. ASSUME NEW z \in UsedOf(vol') PROVE z \in ReservedZones \cup UNION {Owned(g)' : g \in Files}
      <3>1. z \in UsedOf(vol) /\ z \notin Owned(f)
        BY <2>2, <2>4, <1>6
      <3> QED
        BY <3>1, <2>3, <1>12
    <2> QED
      BY <2>2, <2>3, <2>4, <1>6
  <1>17. FilesInv'
    <2>1. Exists(Root)' /\ ~hung'
      BY <1>1, <1>2, <1>11
    <2> QED
      BY <2>1, <1>6, <1>10, <1>13, <1>14, <1>15, <1>16 DEF FilesInv
  <1>18. CallInv'
    BY <1>1 DEF CallInv, Idle
  <1> QED
    BY <1>11, <1>17, <1>18

-----------------------------------------------------------------------------
(* A filesystem that has been formatted.                                   *)

LEMMA FormattedFacts ==
  /\ GoodVolume(Formatted) /\ FreeExact(Formatted) /\ FreeEnough(Formatted) /\ UsedOf(Formatted) = ReservedZones
  /\ Formatted.used = Reserved
  <1> DEFINE free == [s \in Subs |-> Size[s] - Cardinality(Reserved[s])]
  <1>1. /\ Reserved \in [Subs -> SUBSET Nat]
        /\ \A s \in Subs : Size[s] \in Nat /\ Size[s] > 0 /\ Reserved[s] \subseteq ZonesOf(s)
    BY SizeFacts, ZonesAssumption
  <1>2. ASSUME NEW s \in Subs
        PROVE  /\ Cardinality(Reserved[s]) \in Nat
               /\ Cardinality(ZonesOf(s) \ Reserved[s]) = Size[s] - Cardinality(Reserved[s])
    <2>1. IsFiniteSet(ZonesOf(s)) /\ Cardinality(ZonesOf(s)) = Size[s]
      <3>1. 0 \in Int /\ Size[s] - 1 \in Int /\ Size[s] - 1 - 0 + 1 = Size[s] /\ ~(0 > Size[s] - 1)
        BY <1>1
      <3>2. IsFiniteSet(0 .. Size[s] - 1) /\ Cardinality(0 .. Size[s] - 1) = Size[s] - 1 - 0 + 1
        BY <3>1, FS_Interval
      <3> QED
        BY <3>1, <3>2 DEF ZonesOf
    <2>2. ZonesOf(s) \cap Reserved[s] = Reserved[s] /\ IsFiniteSet(Reserved[s])
      BY <1>1, <2>1, FS_Subset
    <2>3. Cardinality(ZonesOf(s) \ Reserved[s]) = Cardinality(ZonesOf(s)) - Cardinality(ZonesOf(s) \cap Reserved[s])
      BY <2>1, FS_Difference
    <2>4. Cardinality(Reserved[s]) \in Nat
      BY <2>2, FS_CardinalityType
    <2> QED
      BY <2>1, <2>2, <2>3, <2>4
  <1>3. free \in [Subs -> Int] /\ \A s \in Subs : free[s] = Cardinality(ZonesOf(s) \ Reserved[s])
    <2> DEFINE n(s) == Size[s] - Cardinality(Reserved[s])
    <2>1. \A s \in Subs : n(s) \in Int /\ n(s) = Cardinality(ZonesOf(s) \ Reserved[s])
      BY <1>1, <1>2
    <2>2. free = [s \in Subs |-> n(s)]
      OBVIOUS
    <2> HIDE DEF n, free
    <2> QED
      BY <2>1, <2>2
  <1>4. Formatted = [used |-> Reserved, free |-> free]
    BY DEF Formatted
  <1> HIDE DEF free
  <1>5. Formatted \in [used : [Subs -> SUBSET Nat], free : [Subs -> Int]] /\ Formatted.used = Reserved /\ Formatted.free = free
    BY <1>1, <1>3, <1>4
  <1>6. GoodVolume(Formatted)
    BY <1>1, <1>5 DEF GoodVolume
  <1>7. \A s \in Subs : Zeros(Formatted, s) = ZonesOf(s) \ Reserved[s]
    BY <1>5 DEF Zeros
  <1>8. FreeExact(Formatted)
    BY <1>3, <1>5, <1>7 DEF FreeExact
  <1>9. FreeEnough(Formatted)
    <2>1. \A s \in Subs : Formatted.free[s] \in Int
      BY <1>3, <1>5
    <2> QED
      BY <1>8, <2>1 DEF FreeEnough, FreeExact
  <1>10. UsedOf(Formatted) = ReservedZones
    BY <1>5 DEF UsedOf, ReservedZones
  <1> QED
    BY <1>5, <1>6, <1>8, <1>9, <1>10

\* Two zones are free after a format: the searches for the zone of the root
\* directory's inode and for that of its entries end.
LEMMA TwoZonesFree ==
  ASSUME NEW bi, GoodSegment(bi), bi.cnt = 1
  PROVE  Mark(Formatted, bi).used[0] # ZonesOf(0) /\ Reserved[0] # ZonesOf(0)
  <1>1. PICK y \in ZonesOf(0) \ Reserved[0], z \in ZonesOf(0) \ Reserved[0] : y # z
    BY FileAssumption, Zenon
  <1>2. bi.sub \in Subs /\ bi.num \in Nat
    BY DEF GoodSegment, Within, Segments
  <1>3. 0 \in Subs /\ \A x \in bi.num .. bi.num + bi.cnt - 1 : x = bi.num
    BY <1>2, SizeFacts
  <1>4. Formatted.used = Reserved /\ Reserved \in [Subs -> SUBSET Nat]
    BY FormattedFacts, ZonesAssumption
  <1>5. Mark(Formatted, bi).used = [Reserved EXCEPT ![bi.sub] = @ \cup (bi.num .. bi.num + bi.cnt - 1)]
    BY <1>4 DEF Mark
  <1> DEFINE u == Mark(Formatted, bi).used
             r == bi.num .. bi.num + bi.cnt - 1
  <1>6. u = [Reserved EXCEPT ![bi.sub] = @ \cup r]
    BY <1>5
  <1>7. \A x \in r : x = bi.num
    BY <1>3
  <1> HIDE DEF u, r
  <1>8. y \notin u[0] \/ z \notin u[0]
    BY <1>1, <1>2, <1>3, <1>4, <1>6, <1>7
  <1>9. u[0] # ZonesOf(0) /\ Reserved[0] # ZonesOf(0)
    BY <1>1, <1>8
  <1> QED
    BY <1>9 DEF u

LEMMA AppendToOne ==
  ASSUME NEW S, NEW s \in Seq(S), Len(s) = 1, NEW b \in S
  PROVE  Append(s, b) = <<s[1], b>>
  <1> DEFINE new == Append(s, b)
             t == <<s[1], b>>
  <1>1. 1 \in 1 .. Len(s) /\ Len(s) + 1 = 2 /\ \A i \in 1 .. 2 : i = 1 \/ i = 2
    OBVIOUS
  <1>2. s[1] \in S
    BY <1>1, ElementOfSeq
  <1>3. t \in Seq(S) /\ Len(t) = 2 /\ t[1] = s[1] /\ t[2] = b
    BY <1>2
  <1> HIDE DEF t
  <1>4. new \in Seq(S) /\ Len(new) = Len(s) + 1 /\ (\A i \in 1 .. Len(s) : new[i] = s[i]) /\ new[Len(s) + 1] = b
    <2>1. /\ Append(s, b) \in Seq(S) /\ Len(Append(s, b)) = Len(s) + 1
          /\ (\A i \in 1 .. Len(s) : Append(s, b)[i] = s[i]) /\ Append(s, b)[Len(s) + 1] = b
      <3> HIDE DEF new
      <3> QED
        BY AppendProperties, ZenonT(60)
    <2> QED
      BY <2>1, Zenon DEF new
  <1> HIDE DEF new
  <1>5. Len(new) = 2 /\ new[1] = s[1] /\ new[2] = b
    BY <1>1, <1>4
  <1>6. new = t
    BY <1>1, <1>3, <1>4, <1>5, SeqEqual
  <1> QED
    BY <1>6 DEF new, t

LEMMA PairAppended ==
  ASSUME NEW S, NEW a \in S, NEW b \in S
  PROVE  Append(<<a>>, b) = <<a, b>>
  <1>0. <<a>> \in Seq(S) /\ Len(<<a>>) = 1 /\ <<a>>[1] = a
    OBVIOUS
  <1>1. PICK s \in Seq(S) : s = <<a>> /\ Len(s) = 1 /\ s[1] = a
    BY <1>0
  <1>2. Append(s, b) = <<s[1], b>>
    BY <1>1, AppendToOne
  <1> QED
    BY <1>1, <1>2

LEMMA InitFiles == Init => FilesInv /\ CallInv
  <1> SUFFICES ASSUME Init PROVE FilesInv /\ CallInv
    OBVIOUS
  <1> DEFINE at == Segment(0, 0, 1)
             i == SearchFreeZone(Formatted, at, 1)
             d == SearchFreeZone(i.vol, at, 1)
             x == [mode |-> "dir", segs |-> <<i.bi, d.bi>>, number_blocks |-> 2,
                   number_segdesg |-> 1, size |-> 1]
  <1>1. /\ vol = d.vol /\ inode = [f \in Files |-> IF f = Root THEN x ELSE Nobody]
        /\ rot = 0 /\ call = Idle /\ hung = FALSE /\ miscut = {} /\ lost = FALSE
    BY DEF Init
  <1>2. at \in Segments /\ at.cnt = 1 /\ 1 \in Int /\ 0 \in Subs
    BY SizeFacts DEF Segment, Segments
  <1> HIDE DEF at
  <1>3. GoodVolume(Formatted) /\ FreeExact(Formatted) /\ FreeEnough(Formatted) /\ UsedOf(Formatted) = ReservedZones
    BY FormattedFacts
  <1>4. \/ /\ i # NoSpace /\ GoodSegment(i.bi) /\ i.bi.cnt = 1
           /\ Covers(i.bi) \cap UsedOf(Formatted) = {} /\ i.vol = Mark(Formatted, i.bi)
        \/ i = NoSpace /\ \A p \in Subs : Formatted.used[p] = ZonesOf(p)
    <2>1. LET r == SearchFreeZone(Formatted, at, 1)
          IN \/ /\ r # NoSpace /\ GoodSegment(r.bi) /\ r.bi.cnt = 1
                /\ Covers(r.bi) \cap UsedOf(Formatted) = {} /\ r.vol = Mark(Formatted, r.bi)
             \/ r = NoSpace /\ \A p \in Subs : Formatted.used[p] = ZonesOf(p)
      BY <1>2, <1>3, SearchOne, Zenon
    <2> QED
      BY <2>1, Zenon
  <1> HIDE DEF i
  <1>5. Reserved[0] # ZonesOf(0)
    BY FileAssumption, Zenon
  <1>6. /\ GoodSegment(i.bi) /\ i.bi.cnt = 1
        /\ Covers(i.bi) \cap UsedOf(Formatted) = {} /\ i.vol = Mark(Formatted, i.bi)
    BY <1>2, <1>4, <1>5, FormattedFacts
  <1> DEFINE x1 == Inode("dir", i.bi)
  <1>7. Room(i.vol, x1, ReservedZones, TRUE, TRUE)
    <2>1. "dir" \in {"file", "dir"}
      OBVIOUS
    <2> QED
      BY <2>1, <1>3, <1>6, RoomMade, Zenon
  <1>8. GoodVolume(i.vol) /\ FreeEnough(i.vol)
    BY <1>7 DEF Room
  <1>9. \/ /\ d # NoSpace /\ GoodSegment(d.bi) /\ d.bi.cnt = 1
           /\ Covers(d.bi) \cap UsedOf(i.vol) = {} /\ d.vol = Mark(i.vol, d.bi)
        \/ d = NoSpace /\ \A p \in Subs : i.vol.used[p] = ZonesOf(p)
    <2>1. LET r == SearchFreeZone(i.vol, at, 1)
          IN \/ /\ r # NoSpace /\ GoodSegment(r.bi) /\ r.bi.cnt = 1
                /\ Covers(r.bi) \cap UsedOf(i.vol) = {} /\ r.vol = Mark(i.vol, r.bi)
             \/ r = NoSpace /\ \A p \in Subs : i.vol.used[p] = ZonesOf(p)
      BY <1>2, <1>8, SearchOne, Zenon
    <2> QED
      BY <2>1, Zenon
  <1> HIDE DEF d
  <1>10. i.vol.used[0] # ZonesOf(0)
    BY <1>6, TwoZonesFree
  <1>11. /\ GoodSegment(d.bi) /\ d.bi.cnt = 1
         /\ Covers(d.bi) \cap UsedOf(i.vol) = {} /\ d.vol = Mark(i.vol, d.bi)
    BY <1>2, <1>9, <1>10
  <1>12. x \in Inodes /\ x.segs = <<i.bi, d.bi>> /\ x.number_blocks = 2
    <2>1. <<i.bi, d.bi>> \in Seq(Segments)
      BY <1>6, <1>11 DEF GoodSegment, Within
    <2> QED
      BY <2>1 DEF Inodes
  <1>13. x.segs = Append(x1.segs, d.bi) /\ x.number_blocks = x1.number_blocks + d.bi.cnt
    <2>1. x1.segs = <<i.bi>> /\ x1.number_blocks = 1
      BY <1>6 DEF Inode
    <2>2. i.bi \in Segments /\ d.bi \in Segments
      BY <1>6, <1>11 DEF GoodSegment, Within
    <2>3. Append(<<i.bi>>, d.bi) = <<i.bi, d.bi>>
      BY <2>2, PairAppended
    <2> HIDE DEF x, x1
    <2> QED
      BY <2>1, <2>3, <1>11, <1>12
  <1> HIDE DEF x, x1
  <1>14. Room(vol, x, ReservedZones, TRUE, TRUE)
    BY <1>1, <1>7, <1>11, <1>12, <1>13, RoomAppended
  <1>15. Root \in Files /\ inode[Root] = x /\ \A f \in Files : f # Root => inode[f] = Nobody
    BY <1>1 DEF Files
  <1>16. x # Nobody
    BY <1>12, InodeFields
  <1>17. Owned(Root) = Total(x.segs) /\ \A f \in Files : f # Root => Owned(f) = {}
    BY <1>15, <1>16 DEF Owned, Exists, Total
  <1>18. FilesInv
    <2>1. inode \in [Files -> Inodes \cup {Nobody}]
      BY <1>1, <1>12
    <2>2. /\ GoodVolume(vol) /\ FreeEnough(vol) /\ FreeExact(vol) /\ GoodSegments(x.segs)
          /\ UsedOf(vol) = ReservedZones \cup Total(x.segs) /\ Total(x.segs) \cap ReservedZones = {}
          /\ Cardinality(Total(x.segs)) = x.number_blocks
      BY <1>14 DEF Room
    <2>3. \A f \in Files : Exists(f) <=> f = Root
      BY <1>15, <1>16 DEF Exists
    <2>4. ReservedZones \cup Total(x.segs) \subseteq ReservedZones \cup UNION {Owned(f) : f \in Files}
      BY <1>15, <1>17
    <2> QED
      BY <1>1, <1>15, <1>17, <2>1, <2>2, <2>3, <2>4 DEF FilesInv
  <1>19. CallInv
    <2>1. Idle \in Calls /\ Idle.op = "idle"
      BY DEF Idle, Calls
    <2>2. rot = 0 /\ call = Idle /\ hung = FALSE /\ lost = FALSE
      BY <1>1
    <2> QED
      BY <2>1, <2>2, <1>2 DEF CallInv
  <1> QED
    BY <1>18, <1>19

-----------------------------------------------------------------------------
(* Sequences that lose or gain an element.                                 *)

LEMMA RemoveAtFacts ==
  ASSUME NEW S, NEW s \in Seq(S), NEW i \in 1 .. Len(s)
  PROVE  /\ RemoveAt(s, i) \in Seq(S) /\ Len(RemoveAt(s, i)) = Len(s) - 1
         /\ \A j \in 1 .. Len(s) - 1 : RemoveAt(s, i)[j] = IF j < i THEN s[j] ELSE s[j + 1]
  <1> DEFINE l == Len(s)
             a == SubSeq(s, 1, i - 1)
             b == SubSeq(s, i + 1, l)
             t == RemoveAt(s, i)
  <1>1. l \in Nat /\ \A j \in 1 .. l : s[j] \in S
    BY LenProperties, ElementOfSeq
  <1>2. t = a \o b
    BY DEF RemoveAt
  <1> HIDE DEF l
  <1>3. i \in Int /\ i \in 1 .. l /\ (\A j \in 1 .. i - 1 : j \in 1 .. l) /\ (\A j \in i + 1 .. l : j \in 1 .. l)
    BY <1>1 DEF l
  <1>4. /\ 1 \in Int /\ i - 1 \in Int /\ i + 1 \in Int /\ l \in Int
        /\ \A j \in 1 .. i - 1 : s[j] \in S
        /\ \A j \in i + 1 .. l : s[j] \in S
    BY <1>1, <1>3
  <1>5. a \in Seq(S) /\ Len(a) = i - 1 /\ \A j \in 1 .. i - 1 : a[j] = s[j]
    <2>1. /\ a \in Seq(S) /\ Len(a) = IF 1 <= i - 1 THEN i - 1 - 1 + 1 ELSE 0
          /\ \A j \in 1 .. i - 1 - 1 + 1 : a[j] = s[1 + j - 1]
      BY <1>4, SubSeqProperties
    <2> HIDE DEF a
    <2> QED
      BY <2>1, <1>1, <1>3
  <1>6. b \in Seq(S) /\ Len(b) = l - i /\ \A j \in 1 .. l - i : b[j] = s[i + j]
    <2>1. /\ b \in Seq(S) /\ Len(b) = IF i + 1 <= l THEN l - (i + 1) + 1 ELSE 0
          /\ \A j \in 1 .. l - (i + 1) + 1 : b[j] = s[(i + 1) + j - 1]
      BY <1>4, SubSeqProperties
    <2> HIDE DEF b
    <2>2. l - (i + 1) + 1 = l - i /\ (~(i + 1 <= l) => l - i = 0)
      BY <1>1, <1>3
    <2>3. \A j \in 1 .. l - i : (i + 1) + j - 1 = i + j
      BY <1>1, <1>3
    <2> QED
      BY <2>1, <2>2, <2>3, <1>1, <1>3
  <1> HIDE DEF a, b, t
  <1>7. t \in Seq(S) /\ Len(t) = Len(a) + Len(b)
        /\ \A j \in 1 .. Len(a) + Len(b) : t[j] = IF j <= Len(a) THEN a[j] ELSE b[j - Len(a)]
    BY <1>2, <1>5, <1>6, ConcatProperties
  <1>8. Len(a) + Len(b) = l - 1
    BY <1>1, <1>3, <1>5, <1>6
  <1>9. ASSUME NEW j \in 1 .. l - 1 PROVE t[j] = IF j < i THEN s[j] ELSE s[j + 1]
    <2>0. t[j] = IF j <= Len(a) THEN a[j] ELSE b[j - Len(a)]
      BY <1>7, <1>8
    <2>1. CASE j < i
      <3>1. j \in 1 .. i - 1 /\ j <= Len(a)
        BY <2>1, <1>3, <1>5
      <3> QED
        BY <2>0, <2>1, <3>1, <1>5
    <2>2. CASE ~(j < i)
      <3>1. ~(j <= Len(a)) /\ j - Len(a) \in 1 .. l - i /\ i + (j - Len(a)) = j + 1
        BY <2>2, <1>1, <1>3, <1>5
      <3> QED
        BY <2>0, <2>2, <3>1, <1>6
    <2> QED
      BY <2>1, <2>2
  <1> QED
    BY <1>7, <1>8, <1>9 DEF l, t

\* "t" is "s" with "e" put in at "i".
IsInserted(s, i, e, t) ==
    /\ Len(t) = Len(s) + 1
    /\ \A j \in 1 .. Len(s) + 1 : t[j] = IF j < i THEN s[j] ELSE IF j = i THEN e ELSE s[j - 1]

LEMMA InsertAtFacts ==
  ASSUME NEW S, NEW s \in Seq(S), NEW i \in 1 .. Len(s) + 1, NEW e \in S
  PROVE  InsertAt(s, i, e) \in Seq(S) /\ IsInserted(s, i, e, InsertAt(s, i, e))
  <1> DEFINE l == Len(s)
             a == SubSeq(s, 1, i - 1)
             c == <<e>>
             ac == a \o c
             b == SubSeq(s, i, l)
             t == InsertAt(s, i, e)
  <1>1. l \in Nat /\ \A j \in 1 .. l : s[j] \in S
    BY LenProperties, ElementOfSeq
  <1>2. t = ac \o b
    BY DEF InsertAt
  <1>c. c \in Seq(S) /\ Len(c) = 1 /\ c[1] = e
    OBVIOUS
  <1> HIDE DEF l, c
  <1>3. i \in Int /\ i \in 1 .. l + 1 /\ (\A j \in 1 .. i - 1 : j \in 1 .. l) /\ (\A j \in i .. l : j \in 1 .. l)
    BY <1>1 DEF l
  <1>4. /\ 1 \in Int /\ i - 1 \in Int /\ l \in Int
        /\ \A j \in 1 .. i - 1 : s[j] \in S
        /\ \A j \in i .. l : s[j] \in S
    BY <1>1, <1>3
  <1>5. a \in Seq(S) /\ Len(a) = i - 1 /\ \A j \in 1 .. i - 1 : a[j] = s[j]
    <2>1. /\ a \in Seq(S) /\ Len(a) = IF 1 <= i - 1 THEN i - 1 - 1 + 1 ELSE 0
          /\ \A j \in 1 .. i - 1 - 1 + 1 : a[j] = s[1 + j - 1]
      BY <1>4, SubSeqProperties
    <2> HIDE DEF a
    <2> QED
      BY <2>1, <1>1, <1>3
  <1>6. b \in Seq(S) /\ Len(b) = l - i + 1 /\ \A j \in 1 .. l - i + 1 : b[j] = s[i + j - 1]
    <2>1. /\ b \in Seq(S) /\ Len(b) = IF i <= l THEN l - i + 1 ELSE 0
          /\ \A j \in 1 .. l - i + 1 : b[j] = s[i + j - 1]
      BY <1>3, <1>4, SubSeqProperties
    <2> HIDE DEF b
    <2>2. ~(i <= l) => l - i + 1 = 0
      BY <1>1, <1>3
    <2> QED
      BY <2>1, <2>2
  <1> HIDE DEF a, b, t
  <1>7. ac \in Seq(S) /\ Len(ac) = Len(a) + Len(c)
        /\ \A j \in 1 .. Len(a) + Len(c) : ac[j] = IF j <= Len(a) THEN a[j] ELSE c[j - Len(a)]
    BY <1>c, <1>5, ConcatProperties
  <1> HIDE DEF ac
  <1>8. ac \in Seq(S) /\ Len(ac) = i /\ (\A j \in 1 .. i - 1 : ac[j] = s[j]) /\ ac[i] = e
    <2>1. Len(a) + Len(c) = i /\ i \in 1 .. i /\ ~(i <= Len(a)) /\ i - Len(a) = 1
      BY <1>3, <1>5, <1>c
    <2>2. \A j \in 1 .. i - 1 : j \in 1 .. i /\ j <= Len(a)
      BY <1>3, <1>5
    <2> QED
      BY <2>1, <2>2, <1>5, <1>7, <1>c
  <1>9. t \in Seq(S) /\ Len(t) = Len(ac) + Len(b)
        /\ \A j \in 1 .. Len(ac) + Len(b) : t[j] = IF j <= Len(ac) THEN ac[j] ELSE b[j - Len(ac)]
    BY <1>2, <1>6, <1>8, ConcatProperties
  <1>10. Len(ac) + Len(b) = l + 1
    BY <1>1, <1>3, <1>6, <1>8
  <1>11. ASSUME NEW j \in 1 .. l + 1 PROVE t[j] = IF j < i THEN s[j] ELSE IF j = i THEN e ELSE s[j - 1]
    <2>0. t[j] = IF j <= i THEN ac[j] ELSE b[j - i]
      BY <1>8, <1>9, <1>10
    <2>1. CASE j < i
      <3>1. j \in 1 .. i - 1 /\ j <= i
        BY <2>1, <1>3
      <3> QED
        BY <2>0, <2>1, <3>1, <1>8
    <2>2. CASE j = i
      <3>1. j <= i /\ ~(j < i)
        BY <2>2, <1>3
      <3> QED
        BY <2>0, <2>2, <3>1, <1>8
    <2>3. CASE ~(j < i) /\ j # i
      <3>1. ~(j <= i) /\ j - i \in 1 .. l - i + 1 /\ i + (j - i) - 1 = j - 1
        BY <2>3, <1>1, <1>3
      <3> QED
        BY <2>0, <2>3, <3>1, <1>6
    <2> QED
      BY <2>1, <2>2, <2>3
  <1> QED
    BY <1>9, <1>10, <1>11 DEF l, t, IsInserted

LEMMA FrontFacts ==
  ASSUME NEW S, NEW s \in Seq(S), Len(s) > 0
  PROVE  /\ Front(s) \in Seq(S) /\ Len(Front(s)) = Len(s) - 1
         /\ \A j \in 1 .. Len(s) - 1 : Front(s)[j] = s[j]
  <1> DEFINE l == Len(s)
             t == SubSeq(s, 1, l - 1)
  <1>1. l \in Nat /\ l > 0 /\ \A j \in 1 .. l : s[j] \in S
    BY LenProperties, ElementOfSeq
  <1> HIDE DEF l
  <1>2. 1 \in Int /\ l - 1 \in Int /\ \A j \in 1 .. l - 1 : s[j] \in S
    BY <1>1
  <1>3. /\ t \in Seq(S) /\ Len(t) = IF 1 <= l - 1 THEN l - 1 - 1 + 1 ELSE 0
        /\ \A j \in 1 .. l - 1 - 1 + 1 : t[j] = s[1 + j - 1]
    BY <1>2, SubSeqProperties
  <1>4. Front(s) = t
    BY DEF Front, l, t
  <1> HIDE DEF t
  <1>5. t \in Seq(S) /\ Len(t) = l - 1 /\ \A j \in 1 .. l - 1 : t[j] = s[j]
    BY <1>1, <1>3
  <1> QED
    BY <1>4, <1>5 DEF l

-----------------------------------------------------------------------------
(* Lengths that add up.                                                    *)

Entries == [name : Names \cup {"", ".", ".."}, of : Files \cup {Nobody}, len : Int]

\* w[1], ..., w[k] add up to g[k].
Ends(w, n, g) == /\ g \in [0 .. n -> Int] /\ g[0] = 0
                 /\ \A k \in 1 .. n : g[k] = g[k - 1] + w[k]
Adds(w, n, t) == \E g : Ends(w, n, g) /\ g[n] = t

LEMMA AddsSame ==
  ASSUME NEW n \in Nat, NEW w, NEW t, Adds(w, n, t), NEW v, \A k \in 1 .. n : v[k] = w[k]
  PROVE  Adds(v, n, t)
  BY DEF Adds, Ends

\* One length becomes two.
LEMMA AddsSplit ==
  ASSUME NEW n \in Nat, NEW w, NEW t, Adds(w, n, t), NEW j \in 1 .. n,
         NEW v, v[j] \in Int, v[j + 1] = w[j] - v[j], w[j] \in Int,
         \A k \in 1 .. j - 1 : v[k] = w[k], \A k \in j + 2 .. n + 1 : v[k] = w[k - 1]
  PROVE  Adds(v, n + 1, t)
  <1>1. PICK g : Ends(w, n, g) /\ g[n] = t
    BY DEF Adds
  <1>2. (\A k \in 0 .. n : g[k] \in Int) /\ g[0] = 0 /\ \A k \in 1 .. n : g[k] = g[k - 1] + w[k]
    BY <1>1 DEF Ends
  <1> DEFINE h == [k \in 0 .. n + 1 |-> IF k < j THEN g[k] ELSE IF k = j THEN g[j - 1] + v[j] ELSE g[k - 1]]
  <1>3. /\ \A k \in 0 .. j - 1 : h[k] = g[k]
        /\ h[j] = g[j - 1] + v[j]
        /\ \A k \in j + 1 .. n + 1 : h[k] = g[k - 1]
    OBVIOUS
  <1>4. h \in [0 .. n + 1 -> Int]
    <2>1. ASSUME NEW k \in 0 .. n + 1
          PROVE  (IF k < j THEN g[k] ELSE IF k = j THEN g[j - 1] + v[j] ELSE g[k - 1]) \in Int
      <3>1. CASE k < j
        BY <3>1, <1>2
      <3>2. CASE k = j
        <4>1. j - 1 \in 0 .. n
          OBVIOUS
        <4>2. g[j - 1] \in Int
          BY <4>1, <1>2
        <4> QED
          BY <4>2, <3>2
      <3>3. CASE k > j
        <4>1. k - 1 \in 0 .. n
          BY <3>3
        <4> QED
          BY <4>1, <3>3, <1>2
      <3> QED
        BY <3>1, <3>2, <3>3
    <2> QED
      BY <2>1
  <1> HIDE DEF h
  <1>5. h[0] = 0 /\ h[n + 1] = t
    <2>1. 0 \in 0 .. j - 1 /\ n + 1 \in j + 1 .. n + 1 /\ (n + 1) - 1 = n
      OBVIOUS
    <2> QED
      BY <2>1, <1>1, <1>2, <1>3
  <1>6. ASSUME NEW k \in 1 .. n + 1 PROVE h[k] = h[k - 1] + v[k]
    <2>1. CASE k < j
      <3>1. k \in 0 .. j - 1 /\ k - 1 \in 0 .. j - 1 /\ k \in 1 .. j - 1 /\ k \in 1 .. n
        BY <2>1
      <3> QED
        BY <3>1, <1>2, <1>3
    <2>2. CASE k = j
      <3>1. j - 1 \in 0 .. j - 1
        OBVIOUS
      <3> QED
        BY <3>1, <2>2, <1>3
    <2>3. CASE k = j + 1
      <3>1. j + 1 \in j + 1 .. n + 1 /\ (j + 1) - 1 = j /\ j - 1 \in 0 .. n
        OBVIOUS
      <3>2. h[j + 1] = g[j] /\ g[j] = g[j - 1] + w[j] /\ g[j - 1] \in Int
        BY <3>1, <1>2, <1>3
      <3>3. h[j] = g[j - 1] + v[j]
        BY <1>3
      <3> DEFINE a == g[j - 1]
                 b == w[j]
                 c == v[j]
      <3>4. h[j + 1] = a + b /\ h[j] = a + c /\ v[j + 1] = b - c /\ a \in Int /\ b \in Int /\ c \in Int
        BY <3>2, <3>3
      <3> HIDE DEF a, b, c
      <3>5. a + b = (a + c) + (b - c)
        BY <3>4
      <3> QED
        BY <3>1, <3>4, <3>5, <2>3
    <2>4. CASE k > j + 1
      <3>1. k \in j + 1 .. n + 1 /\ k - 1 \in j + 1 .. n + 1 /\ k \in j + 2 .. n + 1 /\ k - 1 \in 1 .. n
        BY <2>4
      <3> QED
        BY <3>1, <1>2, <1>3
    <2> QED
      BY <2>1, <2>2, <2>3, <2>4
  <1>7. Ends(v, n + 1, h)
    BY <1>4, <1>5, <1>6 DEF Ends
  <1> QED
    BY <1>5, <1>7 DEF Adds

\* Two lengths become one.
LEMMA AddsMerged ==
  ASSUME NEW n \in Nat, NEW w, NEW t, Adds(w, n, t), NEW j \in 2 .. n,
         NEW v, v[j - 1] = w[j - 1] + w[j], w[j - 1] \in Int, w[j] \in Int,
         \A k \in 1 .. j - 2 : v[k] = w[k], \A k \in j .. n - 1 : v[k] = w[k + 1]
  PROVE  Adds(v, n - 1, t)
  <1>1. PICK g : Ends(w, n, g) /\ g[n] = t
    BY DEF Adds
  <1>2. (\A k \in 0 .. n : g[k] \in Int) /\ g[0] = 0 /\ \A k \in 1 .. n : g[k] = g[k - 1] + w[k]
    BY <1>1 DEF Ends
  <1> DEFINE h == [k \in 0 .. n - 1 |-> IF k < j - 1 THEN g[k] ELSE g[k + 1]]
  <1>3. (\A k \in 0 .. j - 2 : h[k] = g[k]) /\ (\A k \in j - 1 .. n - 1 : h[k] = g[k + 1])
    OBVIOUS
  <1>4. h \in [0 .. n - 1 -> Int]
    BY <1>2
  <1> HIDE DEF h
  <1>5. h[0] = 0 /\ h[n - 1] = t
    <2>1. 0 \in 0 .. j - 2 /\ n - 1 \in j - 1 .. n - 1 /\ (n - 1) + 1 = n
      OBVIOUS
    <2> QED
      BY <2>1, <1>1, <1>2, <1>3
  <1>6. ASSUME NEW k \in 1 .. n - 1 PROVE h[k] = h[k - 1] + v[k]
    <2>1. CASE k < j - 1
      <3>1. k \in 0 .. j - 2 /\ k - 1 \in 0 .. j - 2 /\ k \in 1 .. j - 2 /\ k \in 1 .. n
        BY <2>1
      <3> QED
        BY <3>1, <1>2, <1>3
    <2>2. CASE k = j - 1
      <3>1. /\ j - 1 \in j - 1 .. n - 1 /\ (j - 1) + 1 = j /\ j - 2 \in 0 .. j - 2 /\ (j - 1) - 1 = j - 2
            /\ j - 1 \in 1 .. n /\ j \in 1 .. n /\ j - 2 \in 0 .. n
        OBVIOUS
      <3>2. h[j - 1] = g[j] /\ h[j - 2] = g[j - 2]
        BY <3>1, <1>3
      <3>3. g[j] = g[j - 1] + w[j] /\ g[j - 1] = g[j - 2] + w[j - 1] /\ g[j - 2] \in Int
        BY <3>1, <1>2
      <3> DEFINE a == g[j - 2]
                 b == w[j - 1]
                 c == w[j]
      <3>4. h[j - 1] = (a + b) + c /\ h[j - 2] = a /\ v[j - 1] = b + c /\ a \in Int /\ b \in Int /\ c \in Int
        BY <3>2, <3>3
      <3> HIDE DEF a, b, c
      <3>5. (a + b) + c = a + (b + c)
        BY <3>4
      <3> QED
        BY <3>1, <3>4, <3>5, <2>2
    <2>3. CASE k > j - 1
      <3>1. /\ k \in j - 1 .. n - 1 /\ k - 1 \in j - 1 .. n - 1 /\ k \in j .. n - 1
            /\ k + 1 \in 1 .. n /\ (k + 1) - 1 = k /\ (k - 1) + 1 = k
        BY <2>3
      <3> QED
        BY <3>1, <1>2, <1>3
    <2> QED
      BY <2>1, <2>2, <2>3
  <1>7. Ends(v, n - 1, h)
    BY <1>4, <1>5, <1>6 DEF Ends
  <1> QED
    BY <1>5, <1>7 DEF Adds

\* Lengths of at least 1: how many there can be.
LEMMA AddsBound ==
  ASSUME NEW n \in Nat, n >= 1, NEW w, NEW t, Adds(w, n, t),
         \A k \in 1 .. n : w[k] \in Int /\ w[k] >= 1
  PROVE  t >= w[1] + (n - 1)
  <1>1. PICK g : Ends(w, n, g) /\ g[n] = t
    BY DEF Adds
  <1>2. (\A k \in 0 .. n : g[k] \in Int) /\ g[0] = 0 /\ \A k \in 1 .. n : g[k] = g[k - 1] + w[k]
    BY <1>1 DEF Ends
  <1>3. w[1] \in Int /\ g[1] = w[1]
    <2>1. 1 \in 1 .. n /\ 1 - 1 = 0
      OBVIOUS
    <2>2. g[1] = g[0] + w[1] /\ w[1] \in Int
      BY <2>1, <1>2
    <2> QED
      BY <2>2, <1>2
  <1> DEFINE S == {i \in Nat : i + 1 <= n => g[i + 1] >= w[1] + i}
  <1>4. 0 \in S
    <2>1. 0 + 1 = 1 /\ w[1] + 0 = w[1] /\ w[1] >= w[1]
      BY <1>3
    <2> QED
      BY <2>1, <1>3
  <1>5. ASSUME NEW i \in Nat, i \in S PROVE i + 1 \in S
    <2> SUFFICES ASSUME (i + 1) + 1 <= n PROVE g[(i + 1) + 1] >= w[1] + (i + 1)
      OBVIOUS
    <2>1. i + 1 <= n /\ i + 1 \in 0 .. n /\ (i + 1) + 1 \in 1 .. n /\ ((i + 1) + 1) - 1 = i + 1
      OBVIOUS
    <2>2. g[(i + 1) + 1] = g[i + 1] + w[(i + 1) + 1] /\ w[(i + 1) + 1] \in Int /\ w[(i + 1) + 1] >= 1
      BY <2>1, <1>2
    <2>3. g[i + 1] \in Int /\ g[i + 1] >= w[1] + i
      BY <2>1, <1>2, <1>5
    <2> DEFINE a == g[i + 1]
               b == w[(i + 1) + 1]
               c == w[1]
    <2>4. a \in Int /\ b \in Int /\ c \in Int /\ a >= c + i /\ b >= 1
      BY <2>2, <2>3, <1>3
    <2>5. g[(i + 1) + 1] = a + b
      BY <2>2
    <2> HIDE DEF a, b, c
    <2>6. a + b >= c + (i + 1)
      BY <2>4
    <2> QED
      BY <2>5, <2>6 DEF c
  <1> HIDE DEF S
  <1>6. n - 1 \in S
    <2>1. Nat \subseteq S
      BY <1>4, <1>5, Induction
    <2> QED
      BY <2>1
  <1> QED
    BY <1>1, <1>6 DEF S

LEMMA AddsUnique ==
  ASSUME NEW n \in Nat, NEW w, NEW g, Ends(w, n, g), NEW t, Adds(w, n, t)
  PROVE  g[n] = t
  <1>1. PICK h : Ends(w, n, h) /\ h[n] = t
    BY DEF Adds
  <1> DEFINE S == {i \in Nat : i <= n => g[i] = h[i]}
  <1>2. 0 \in S
    BY <1>1 DEF Ends
  <1>3. ASSUME NEW i \in Nat, i \in S PROVE i + 1 \in S
    <2> SUFFICES ASSUME i + 1 <= n PROVE g[i + 1] = h[i + 1]
      OBVIOUS
    <2>1. i + 1 \in 1 .. n /\ (i + 1) - 1 = i /\ i <= n
      OBVIOUS
    <2>2. g[i] = h[i]
      BY <2>1, <1>3
    <2>3. g[i + 1] = g[i] + w[i + 1] /\ h[i + 1] = h[i] + w[i + 1]
      BY <2>1, <1>1 DEF Ends
    <2> QED
      BY <2>2, <2>3
  <1> HIDE DEF S
  <1>4. n \in S
    <2>1. Nat \subseteq S
      BY <1>2, <1>3, Induction
    <2> QED
      BY <2>1
  <1> QED
    BY <1>1, <1>4 DEF S

-----------------------------------------------------------------------------
(* Sectors whose entries tile them.                                        *)

Lengths(s) == [i \in 1 .. Len(s) |-> s[i].len]
Fits(e)    == e.len >= Need[e.name] /\ (e.of = Nobody <=> e.name = "")
Tiled(s)   == Adds(Lengths(s), Len(s), Sector) /\ \A i \in 1 .. Len(s) : Fits(s[i])

LEMMA EntryFacts ==
  ASSUME NEW e \in Entries
  PROVE  /\ e.len \in Int /\ Need[e.name] \in Int /\ Need[e.name] >= 1
         /\ Fits(e) => e.len >= 1
  <1>1. e.len \in Int /\ e.name \in Names \cup {"", ".", ".."}
    BY DEF Entries
  <1>2. Need \in [Names \cup {"", ".", ".."} -> Nat \ {0}]
    BY FileAssumption, Zenon
  <1>3. Need[e.name] \in Nat \ {0}
    BY <1>1, <1>2
  <1> DEFINE a == e.len
             b == Need[e.name]
  <1>4. a \in Int /\ b \in Nat \ {0} /\ (Fits(e) => a >= b)
    BY <1>1, <1>3 DEF Fits
  <1> HIDE DEF a, b
  <1>5. a \in Int /\ b \in Int /\ b >= 1 /\ (Fits(e) => a >= 1)
    BY <1>4
  <1> QED
    BY <1>5 DEF a, b

\* An entry gives way to one of its length.
LEMMA TiledReplaced ==
  ASSUME NEW s \in Seq(Entries), Tiled(s), NEW j \in 1 .. Len(s),
         NEW b \in Entries, b.len = s[j].len, Fits(b),
         NEW t \in Seq(Entries), Len(t) = Len(s), \A i \in 1 .. Len(s) : t[i] = IF i = j THEN b ELSE s[i]
  PROVE  Tiled(t)
  <1> DEFINE w == Lengths(s)
             v == Lengths(t)
             n == Len(s)
  <1>1. n \in Nat /\ Adds(w, n, Sector) /\ \A i \in 1 .. n : Fits(s[i])
    BY LenProperties DEF Tiled
  <1>2. \A i \in 1 .. n : v[i] = w[i]
    <2> TAKE i \in 1 .. n
    <2>1. v[i] = t[i].len /\ w[i] = s[i].len
      BY DEF Lengths
    <2> QED
      BY <2>1
  <1> HIDE DEF w, v
  <1>3. Adds(v, n, Sector)
    BY <1>1, <1>2, AddsSame
  <1>4. \A i \in 1 .. n : Fits(t[i])
    BY <1>1
  <1> QED
    BY <1>3, <1>4 DEF Tiled, v, n

\* An entry gives part of its length to a new one after it.
LEMMA TiledSplit ==
  ASSUME NEW s \in Seq(Entries), Tiled(s), NEW j \in 1 .. Len(s),
         NEW b \in Entries, NEW r \in Entries, r.len = s[j].len - b.len, Fits(b), Fits(r),
         NEW t \in Seq(Entries), Len(t) = Len(s) + 1,
         \A i \in 1 .. Len(s) + 1 : t[i] = IF i < j THEN s[i] ELSE IF i = j THEN b ELSE
                                           IF i = j + 1 THEN r ELSE s[i - 1]
  PROVE  Tiled(t)
  <1> DEFINE w == Lengths(s)
             v == Lengths(t)
             n == Len(s)
  <1>1. n \in Nat /\ Adds(w, n, Sector) /\ \A i \in 1 .. n : Fits(s[i])
    BY LenProperties DEF Tiled
  <1>2. (\A i \in 1 .. n + 1 : v[i] = t[i].len) /\ \A i \in 1 .. n : w[i] = s[i].len
    BY DEF Lengths
  <1>3. j \in Int /\ j \in 1 .. n /\ j \in 1 .. n + 1 /\ j + 1 \in 1 .. n + 1 /\ Len(t) = n + 1
    BY <1>1
  <1>4. t[j] = b /\ t[j + 1] = r
    BY <1>3
  <1>5. ASSUME NEW i \in 1 .. j - 1 PROVE i \in 1 .. n /\ t[i] = s[i]
    BY <1>3
  <1>6. ASSUME NEW i \in j + 2 .. n + 1 PROVE i - 1 \in 1 .. n /\ t[i] = s[i - 1]
    BY <1>3
  <1> HIDE DEF n
  <1>7. \A i \in 1 .. n + 1 : i \in 1 .. j - 1 \/ i = j \/ i = j + 1 \/ i \in j + 2 .. n + 1
    BY <1>1, <1>3
  <1> HIDE DEF w, v
  <1>8. v[j] = b.len /\ v[j + 1] = w[j] - v[j] /\ v[j] \in Int /\ w[j] \in Int
    <2>1. v[j] = b.len /\ v[j + 1] = r.len /\ w[j] = s[j].len
      BY <1>2, <1>3, <1>4
    <2>2. s[j] \in Entries
      BY <1>3, ElementOfSeq DEF n
    <2>3. s[j].len \in Int /\ b.len \in Int
      BY <2>2, EntryFacts
    <2> QED
      BY <2>1, <2>3
  <1>9. \A i \in 1 .. j - 1 : v[i] = w[i]
    <2> SUFFICES ASSUME NEW i \in 1 .. j - 1 PROVE v[i] = w[i]
      OBVIOUS
    <2>1. i \in 1 .. n /\ i \in 1 .. n + 1 /\ t[i] = s[i]
      BY <1>1, <1>5
    <2> QED
      BY <2>1, <1>2
  <1>10. \A i \in j + 2 .. n + 1 : v[i] = w[i - 1]
    <2> SUFFICES ASSUME NEW i \in j + 2 .. n + 1 PROVE v[i] = w[i - 1]
      OBVIOUS
    <2>1. i - 1 \in 1 .. n /\ i \in 1 .. n + 1 /\ t[i] = s[i - 1]
      BY <1>1, <1>3, <1>6
    <2> QED
      BY <2>1, <1>2
  <1>11. Adds(v, n + 1, Sector)
    BY <1>1, <1>3, <1>8, <1>9, <1>10, AddsSplit
  <1>12. \A i \in 1 .. n + 1 : Fits(t[i])
    BY <1>1, <1>4, <1>5, <1>6, <1>7
  <1> QED
    BY <1>3, <1>11, <1>12 DEF Tiled, v

\* An entry goes, and the one before it takes its length.
LEMMA TiledMerged ==
  ASSUME NEW s \in Seq(Entries), Tiled(s), NEW j \in 2 .. Len(s),
         NEW b \in Entries, b.len = s[j - 1].len + s[j].len, Fits(b),
         NEW t \in Seq(Entries), Len(t) = Len(s) - 1,
         \A i \in 1 .. Len(s) - 1 : t[i] = IF i < j - 1 THEN s[i] ELSE IF i = j - 1 THEN b ELSE s[i + 1]
  PROVE  Tiled(t)
  <1> DEFINE w == Lengths(s)
             v == Lengths(t)
             n == Len(s)
  <1>1. n \in Nat /\ Adds(w, n, Sector) /\ \A i \in 1 .. n : Fits(s[i])
    BY LenProperties DEF Tiled
  <1>2. (\A i \in 1 .. n - 1 : v[i] = t[i].len) /\ \A i \in 1 .. n : w[i] = s[i].len
    BY DEF Lengths
  <1>3. j \in Int /\ j \in 2 .. n /\ j \in 1 .. n /\ j - 1 \in 1 .. n /\ j - 1 \in 1 .. n - 1 /\ Len(t) = n - 1
    BY <1>1
  <1>4. t[j - 1] = b
    BY <1>3
  <1>5. ASSUME NEW i \in 1 .. j - 2 PROVE i \in 1 .. n /\ i \in 1 .. n - 1 /\ t[i] = s[i]
    BY <1>1, <1>3
  <1>6. ASSUME NEW i \in j .. n - 1 PROVE i + 1 \in 1 .. n /\ i \in 1 .. n - 1 /\ t[i] = s[i + 1]
    BY <1>1, <1>3
  <1> HIDE DEF n
  <1>7. \A i \in 1 .. n - 1 : i \in 1 .. j - 2 \/ i = j - 1 \/ i \in j .. n - 1
    BY <1>1, <1>3
  <1> HIDE DEF w, v
  <1>8. v[j - 1] = w[j - 1] + w[j] /\ w[j - 1] \in Int /\ w[j] \in Int
    <2>1. v[j - 1] = b.len /\ w[j - 1] = s[j - 1].len /\ w[j] = s[j].len
      BY <1>2, <1>3, <1>4
    <2>2. s[j] \in Entries /\ s[j - 1] \in Entries
      BY <1>3, ElementOfSeq DEF n
    <2>3. s[j].len \in Int /\ s[j - 1].len \in Int
      BY <2>2, EntryFacts
    <2> QED
      BY <2>1, <2>3
  <1>9. \A i \in 1 .. j - 2 : v[i] = w[i]
    BY <1>2, <1>5
  <1>10. \A i \in j .. n - 1 : v[i] = w[i + 1]
    BY <1>2, <1>6
  <1>11. Adds(v, n - 1, Sector)
    BY <1>1, <1>3, <1>8, <1>9, <1>10, AddsMerged
  <1>12. \A i \in 1 .. n - 1 : Fits(t[i])
    BY <1>1, <1>4, <1>5, <1>6, <1>7
  <1> QED
    BY <1>3, <1>11, <1>12 DEF Tiled, v

LEMMA TiledOne ==
  ASSUME NEW x \in Entries, x.len = Sector, Fits(x), NEW t \in Seq(Entries), Len(t) = 1, t[1] = x
  PROVE  Tiled(t)
  <1> DEFINE g == [k \in 0 .. 1 |-> IF k = 0 THEN 0 ELSE Sector]
             v == Lengths(t)
  <1>1. Sector \in Int /\ 1 \in 0 .. 1 /\ 0 \in 0 .. 1 /\ \A k \in 1 .. 1 : k = 1 /\ k - 1 = 0
    <2>1. Sector \in Nat
      BY FileAssumption, Zenon
    <2> QED
      BY <2>1
  <1>2. v[1] = Sector
    <2>1. 1 \in 1 .. Len(t)
      OBVIOUS
    <2> QED
      BY <2>1 DEF Lengths
  <1> HIDE DEF v
  <1>3. g \in [0 .. 1 -> Int] /\ g[0] = 0 /\ g[1] = Sector
    BY <1>1
  <1> HIDE DEF g
  <1>4. Ends(v, 1, g)
    <2>1. \A k \in 1 .. 1 : g[k] = g[k - 1] + v[k]
      <3>1. Sector = 0 + Sector
        BY <1>1
      <3> QED
        BY <3>1, <1>1, <1>2, <1>3
    <2> QED
      BY <1>3, <2>1 DEF Ends
  <1>5. Adds(v, 1, Sector)
    BY <1>3, <1>4 DEF Adds
  <1>6. \A i \in 1 .. 1 : Fits(t[i])
    BY <1>1
  <1> QED
    BY <1>5, <1>6 DEF Tiled, v

\* A sector holds no more entries than bytes, and one that is all of it is alone.
LEMMA TiledShort ==
  ASSUME NEW s \in Seq(Entries), Tiled(s), Len(s) >= 1
  PROVE  Len(s) <= Sector /\ (s[1].len = Sector => Len(s) = 1)
  <1> DEFINE w == Lengths(s)
             n == Len(s)
  <1>1. n \in Nat /\ n >= 1 /\ Adds(w, n, Sector) /\ \A i \in 1 .. n : Fits(s[i]) /\ s[i] \in Entries
    BY LenProperties, ElementOfSeq DEF Tiled
  <1>2. \A i \in 1 .. n : w[i] = s[i].len
    BY DEF Lengths
  <1> HIDE DEF w, n
  <1>3. \A i \in 1 .. n : w[i] \in Int /\ w[i] >= 1
    <2> SUFFICES ASSUME NEW i \in 1 .. n PROVE w[i] \in Int /\ w[i] >= 1
      OBVIOUS
    <2>1. Fits(s[i]) /\ s[i] \in Entries /\ w[i] = s[i].len
      BY <1>1, <1>2
    <2>2. s[i].len \in Int /\ s[i].len >= 1
      BY <2>1, EntryFacts
    <2> QED
      BY <2>1, <2>2
  <1>4. Sector >= w[1] + (n - 1)
    BY <1>1, <1>3, AddsBound
  <1>5. 1 \in 1 .. n /\ Sector \in Nat
    <2>1. Sector \in Nat
      BY FileAssumption, Zenon
    <2> QED
      BY <2>1, <1>1
  <1>6. w[1] \in Int /\ w[1] >= 1 /\ w[1] = s[1].len
    BY <1>2, <1>3, <1>5
  <1> DEFINE a == w[1]
  <1>7. a \in Int /\ a >= 1 /\ Sector >= a + (n - 1) /\ a = s[1].len
    BY <1>4, <1>6
  <1> HIDE DEF a
  <1>8. n <= Sector /\ (a = Sector => n = 1)
    BY <1>1, <1>5, <1>7
  <1> QED
    BY <1>7, <1>8 DEF n

-----------------------------------------------------------------------------
(* The names in a sector, and in a directory.                              *)

InSector(s, n)     == \E i \in 1 .. Len(s) : s[i].name = n
OnceInSector(s, n) == \A i, j \in 1 .. Len(s) : s[i].name = n /\ s[j].name = n => i = j

Listed(d, n) == \E k \in 1 .. Len(d) : InSector(d[k], n)
Once(d, n)   == /\ \A k \in 1 .. Len(d) : OnceInSector(d[k], n)
                /\ \A k, m \in 1 .. Len(d) : InSector(d[k], n) /\ InSector(d[m], n) => k = m

LEMMA Directory ==
  ASSUME NEW d \in Seq(Seq(Entries))
  PROVE  /\ Len(d) \in Nat /\ DOMAIN d = 1 .. Len(d)
         /\ \A k \in 1 .. Len(d) : /\ d[k] \in Seq(Entries) /\ Len(d[k]) \in Nat /\ DOMAIN d[k] = 1 .. Len(d[k])
                                   /\ \A i \in 1 .. Len(d[k]) : d[k][i] \in Entries
  <1>1. Len(d) \in Nat /\ DOMAIN d = 1 .. Len(d)
    BY LenProperties
  <1>2. ASSUME NEW k \in 1 .. Len(d)
        PROVE  /\ d[k] \in Seq(Entries) /\ Len(d[k]) \in Nat /\ DOMAIN d[k] = 1 .. Len(d[k])
               /\ \A i \in 1 .. Len(d[k]) : d[k][i] \in Entries
    <2>1. d[k] \in Seq(Entries)
      BY ElementOfSeq
    <2> QED
      BY <2>1, LenProperties, ElementOfSeq
  <1> QED
    BY <1>1, <1>2

\* The names of a sector when an entry gives way to another.
LEMMA NamesReplaced ==
  ASSUME NEW s \in Seq(Entries), NEW j \in 1 .. Len(s), NEW b \in Entries,
         NEW t \in Seq(Entries), Len(t) = Len(s), \A i \in 1 .. Len(s) : t[i] = IF i = j THEN b ELSE s[i]
  PROVE  /\ \A n : n # s[j].name /\ n # b.name =>
                /\ InSector(t, n) <=> InSector(s, n)
                /\ OnceInSector(s, n) => OnceInSector(t, n)
         /\ s[j].name # b.name /\ OnceInSector(s, s[j].name) => ~InSector(t, s[j].name)
         /\ InSector(t, b.name)
         /\ ~InSector(s, b.name) => OnceInSector(t, b.name)
  <1>1. t[j] = b /\ \A i \in 1 .. Len(s) : i # j => t[i] = s[i]
    OBVIOUS
  <1>2. ASSUME NEW n, n # s[j].name, n # b.name
        PROVE  (InSector(t, n) <=> InSector(s, n)) /\ (OnceInSector(s, n) => OnceInSector(t, n))
    <2>1. \A i \in 1 .. Len(s) : t[i].name = n <=> s[i].name = n
      BY <1>1, <1>2
    <2> QED
      BY <2>1 DEF InSector, OnceInSector
  <1>3. ASSUME s[j].name # b.name, OnceInSector(s, s[j].name) PROVE ~InSector(t, s[j].name)
    BY <1>1, <1>3 DEF InSector, OnceInSector
  <1>4. InSector(t, b.name)
    BY <1>1 DEF InSector
  <1>5. ASSUME ~InSector(s, b.name) PROVE OnceInSector(t, b.name)
    BY <1>1, <1>5 DEF InSector, OnceInSector
  <1> QED
    BY <1>2, <1>3, <1>4, <1>5

\* "t" is "s" with "b" in the place of an entry, and "r" after it.
IsSplit(s, j, b, r, t) ==
    /\ Len(t) = Len(s) + 1
    /\ \A i \in 1 .. Len(s) + 1 : t[i] = IF i < j THEN s[i] ELSE IF i = j THEN b ELSE
                                          IF i = j + 1 THEN r ELSE s[i - 1]

\* The names of a sector when an entry is put after one.
LEMMA NamesSplit ==
  ASSUME NEW s \in Seq(Entries), NEW j \in 1 .. Len(s),
         NEW b \in Entries, NEW r \in Entries, b.name = s[j].name,
         NEW t \in Seq(Entries), IsSplit(s, j, b, r, t)
  PROVE  /\ \A n : n # r.name => /\ InSector(t, n) <=> InSector(s, n)
                                 /\ OnceInSector(s, n) => OnceInSector(t, n)
         /\ InSector(t, r.name)
         /\ ~InSector(s, r.name) => OnceInSector(t, r.name)
  <1> USE DEF IsSplit
  <1> DEFINE l == Len(s)
             from(i) == IF i <= j THEN i ELSE i - 1
             to(i) == IF i <= j THEN i ELSE i + 1
  <1>1. l \in Nat /\ j \in Int /\ j \in 1 .. l /\ j + 1 \in 1 .. l + 1
    BY LenProperties
  <1>2. t[j + 1] = r
    BY <1>1
  <1>3. ASSUME NEW i \in 1 .. l + 1, i # j + 1 PROVE from(i) \in 1 .. l /\ t[i].name = s[from(i)].name
    <2>1. from(i) \in 1 .. l
      BY <1>1, <1>3
    <2>2. t[i] = IF i = j THEN b ELSE s[from(i)]
      BY <1>1, <1>3
    <2>3. i = j => from(i) = j
      BY <1>1
    <2> QED
      BY <2>1, <2>2, <2>3
  <1>4. \A i \in 1 .. l : to(i) \in 1 .. l + 1 /\ to(i) # j + 1 /\ from(to(i)) = i
    BY <1>1
  <1>5. \A i, h \in 1 .. l + 1 : i # j + 1 /\ h # j + 1 /\ from(i) = from(h) => i = h
    BY <1>1
  <1> HIDE DEF l, from, to
  <1>l. Len(t) = l + 1
    BY DEF l
  <1>6. \A i \in 1 .. l : to(i) \in 1 .. l + 1 /\ t[to(i)].name = s[i].name
    <2> SUFFICES ASSUME NEW i \in 1 .. l PROVE to(i) \in 1 .. l + 1 /\ t[to(i)].name = s[i].name
      OBVIOUS
    <2>1. to(i) \in 1 .. l + 1 /\ to(i) # j + 1 /\ from(to(i)) = i
      BY <1>4
    <2>2. t[to(i)].name = s[from(to(i))].name
      BY <2>1, <1>3
    <2> QED
      BY <2>1, <2>2
  <1>7. ASSUME NEW n, n # r.name
        PROVE  (InSector(t, n) <=> InSector(s, n)) /\ (OnceInSector(s, n) => OnceInSector(t, n))
    <2>1. \A i \in 1 .. l + 1 : t[i].name = n => i # j + 1 /\ from(i) \in 1 .. l /\ s[from(i)].name = n
      BY <1>2, <1>3, <1>7
    <2>2. InSector(t, n) => InSector(s, n)
      BY <1>l, <2>1 DEF InSector, l
    <2>3. InSector(s, n) => InSector(t, n)
      BY <1>l, <1>6 DEF InSector, l
    <2>4. ASSUME OnceInSector(s, n) PROVE OnceInSector(t, n)
      <3> SUFFICES ASSUME NEW i \in 1 .. l + 1, NEW h \in 1 .. l + 1, t[i].name = n, t[h].name = n PROVE i = h
        BY <1>l DEF OnceInSector
      <3>1. from(i) = from(h)
        BY <2>1, <2>4 DEF OnceInSector, l
      <3> QED
        BY <3>1, <2>1, <1>5
    <2> QED
      BY <2>2, <2>3, <2>4
  <1>8. InSector(t, r.name)
    BY <1>1, <1>2, <1>l DEF InSector
  <1>9. ASSUME ~InSector(s, r.name) PROVE OnceInSector(t, r.name)
    <2>1. \A i \in 1 .. l + 1 : t[i].name = r.name => i = j + 1
      BY <1>3, <1>9 DEF InSector, l
    <2> QED
      BY <2>1, <1>l DEF OnceInSector
  <1> QED
    BY <1>7, <1>8, <1>9

\* "t" is "s" without an entry, and with "b" in the place of the one before it.
IsMerged(s, j, b, t) ==
    /\ Len(t) = Len(s) - 1
    /\ \A i \in 1 .. Len(s) - 1 : t[i] = IF i < j - 1 THEN s[i] ELSE IF i = j - 1 THEN b ELSE s[i + 1]

\* The names of a sector when an entry goes and the one before it stays.
LEMMA NamesMerged ==
  ASSUME NEW s \in Seq(Entries), NEW j \in 2 .. Len(s), NEW b \in Entries, b.name = s[j - 1].name,
         NEW t \in Seq(Entries), IsMerged(s, j, b, t)
  PROVE  /\ \A n : n # s[j].name => /\ InSector(t, n) <=> InSector(s, n)
                                    /\ OnceInSector(s, n) => OnceInSector(t, n)
         /\ OnceInSector(s, s[j].name) => ~InSector(t, s[j].name)
  <1> USE DEF IsMerged
  <1> DEFINE l == Len(s)
             from(i) == IF i < j THEN i ELSE i + 1
             to(i) == IF i < j THEN i ELSE i - 1
  <1>1. l \in Nat /\ j \in Int /\ j \in 2 .. l /\ j \in 1 .. l
    BY LenProperties
  <1>2. ASSUME NEW i \in 1 .. l - 1 PROVE from(i) \in 1 .. l /\ from(i) # j /\ t[i].name = s[from(i)].name
    <2>1. from(i) \in 1 .. l /\ from(i) # j
      BY <1>1
    <2>2. t[i] = IF i = j - 1 THEN b ELSE s[from(i)]
      BY <1>1
    <2>3. i = j - 1 => from(i) = j - 1
      BY <1>1
    <2> QED
      BY <2>1, <2>2, <2>3
  <1>3. \A i \in 1 .. l : i # j => to(i) \in 1 .. l - 1 /\ from(to(i)) = i
    BY <1>1
  <1>4. \A i, h \in 1 .. l - 1 : from(i) = from(h) => i = h
    BY <1>1
  <1> HIDE DEF l, from, to
  <1>l. Len(t) = l - 1
    BY DEF l
  <1>5. \A i \in 1 .. l : i # j => to(i) \in 1 .. l - 1 /\ t[to(i)].name = s[i].name
    <2> SUFFICES ASSUME NEW i \in 1 .. l, i # j PROVE to(i) \in 1 .. l - 1 /\ t[to(i)].name = s[i].name
      OBVIOUS
    <2>1. to(i) \in 1 .. l - 1 /\ from(to(i)) = i
      BY <1>3
    <2>2. t[to(i)].name = s[from(to(i))].name
      BY <2>1, <1>2
    <2> QED
      BY <2>1, <2>2
  <1>6. ASSUME NEW n, n # s[j].name
        PROVE  (InSector(t, n) <=> InSector(s, n)) /\ (OnceInSector(s, n) => OnceInSector(t, n))
    <2>1. \A i \in 1 .. l - 1 : t[i].name = n => from(i) \in 1 .. l /\ s[from(i)].name = n
      BY <1>2
    <2>2. InSector(t, n) => InSector(s, n)
      BY <1>l, <2>1 DEF InSector, l
    <2>3. InSector(s, n) => InSector(t, n)
      BY <1>l, <1>5, <1>6 DEF InSector, l
    <2>4. ASSUME OnceInSector(s, n) PROVE OnceInSector(t, n)
      <3> SUFFICES ASSUME NEW i \in 1 .. l - 1, NEW h \in 1 .. l - 1, t[i].name = n, t[h].name = n PROVE i = h
        BY <1>l DEF OnceInSector
      <3>1. from(i) = from(h)
        BY <2>1, <2>4 DEF OnceInSector, l
      <3> QED
        BY <3>1, <1>4
    <2> QED
      BY <2>2, <2>3, <2>4
  <1>7. ASSUME OnceInSector(s, s[j].name) PROVE ~InSector(t, s[j].name)
    <2> SUFFICES ASSUME NEW i \in 1 .. l - 1, t[i].name = s[j].name PROVE FALSE
      BY <1>l DEF InSector
    <2>1. from(i) \in 1 .. l /\ from(i) # j /\ s[from(i)].name = s[j].name
      BY <1>2
    <2> QED
      BY <2>1, <1>1, <1>7 DEF OnceInSector, l
  <1> QED
    BY <1>6, <1>7

AllTiled(d) == \A k \in 1 .. Len(d) : Tiled(d[k])

\* One sector is written anew, and keeps the names it had but for "gone", that goes,
\* and "come", that comes.
Renamed(d, e, gone, come) ==
    /\ \A n \in Names : n # gone /\ n # come => /\ Listed(e, n) <=> Listed(d, n)
                                                /\ Once(d, n) => Once(e, n)
    /\ gone \in Names /\ Once(d, gone) => ~Listed(e, gone) /\ Once(e, gone)
    /\ come \in Names => Listed(e, come)
    /\ come \in Names /\ ~Listed(d, come) => Once(e, come)

LEMMA SectorChanged ==
  ASSUME NEW d \in Seq(Seq(Entries)), NEW k \in 1 .. Len(d), NEW t \in Seq(Entries), NEW gone, NEW come,
         \A n \in Names : n # gone /\ n # come =>
            /\ InSector(t, n) <=> InSector(d[k], n)
            /\ OnceInSector(d[k], n) => OnceInSector(t, n),
         gone \in Names => InSector(d[k], gone) /\ (OnceInSector(d[k], gone) => ~InSector(t, gone)),
         come \in Names => InSector(t, come) /\ (~InSector(d[k], come) => OnceInSector(t, come))
  PROVE  LET e == [d EXCEPT ![k] = t]
         IN /\ e \in Seq(Seq(Entries)) /\ Len(e) = Len(d)
            /\ Renamed(d, e, gone, come)
            /\ AllTiled(d) /\ Tiled(t) => AllTiled(e)
  <1> DEFINE e == [d EXCEPT ![k] = t]
  <1>1. /\ e \in Seq(Seq(Entries)) /\ Len(e) = Len(d)
        /\ \A j \in 1 .. Len(d) : e[j] = IF j = k THEN t ELSE d[j]
    BY ExceptSeq
  <1> HIDE DEF e
  <1>2. e[k] = t /\ \A j \in 1 .. Len(d) : j # k => e[j] = d[j]
    BY <1>1
  <1>3. ASSUME NEW n \in Names, n # gone, n # come
        PROVE  (Listed(e, n) <=> Listed(d, n)) /\ (Once(d, n) => Once(e, n))
    <2>1. \A j \in 1 .. Len(d) : InSector(e[j], n) <=> InSector(d[j], n)
      BY <1>2, <1>3
    <2>2. \A j \in 1 .. Len(d) : OnceInSector(d[j], n) => OnceInSector(e[j], n)
      BY <1>2, <1>3
    <2> QED
      BY <1>1, <2>1, <2>2 DEF Listed, Once
  <1>4. ASSUME gone \in Names, Once(d, gone) PROVE ~Listed(e, gone) /\ Once(e, gone)
    <2>1. OnceInSector(d[k], gone) /\ \A j \in 1 .. Len(d) : j # k => ~InSector(d[j], gone)
      BY <1>4 DEF Once
    <2>2. \A j \in 1 .. Len(d) : ~InSector(e[j], gone)
      BY <1>2, <1>4, <2>1
    <2>3. ~Listed(e, gone)
      BY <1>1, <2>2 DEF Listed
    <2>4. \A j \in 1 .. Len(d) : OnceInSector(e[j], gone)
      BY <2>2 DEF OnceInSector, InSector
    <2>5. Once(e, gone)
      BY <1>1, <2>2, <2>4 DEF Once
    <2> QED
      BY <2>3, <2>5
  <1>5. ASSUME come \in Names PROVE Listed(e, come)
    BY <1>1, <1>2, <1>5 DEF Listed
  <1>6. ASSUME come \in Names, ~Listed(d, come) PROVE Once(e, come)
    <2>1. \A j \in 1 .. Len(d) : ~InSector(d[j], come)
      BY <1>6 DEF Listed
    <2>2. \A j \in 1 .. Len(d) : InSector(e[j], come) => j = k
      BY <1>2, <2>1
    <2>3. \A j \in 1 .. Len(d) : OnceInSector(d[j], come)
      BY <2>1 DEF OnceInSector, InSector
    <2>4. OnceInSector(t, come)
      BY <1>6, <2>1
    <2>5. \A j \in 1 .. Len(d) : OnceInSector(e[j], come)
      BY <1>1, <2>3, <2>4
    <2> QED
      BY <1>1, <2>2, <2>5 DEF Once
  <1>7. AllTiled(d) /\ Tiled(t) => AllTiled(e)
    BY <1>1 DEF AllTiled
  <1>8. /\ e \in Seq(Seq(Entries)) /\ Len(e) = Len(d)
        /\ Renamed(d, e, gone, come)
        /\ AllTiled(d) /\ Tiled(t) => AllTiled(e)
    BY <1>1, <1>3, <1>4, <1>5, <1>6, <1>7 DEF Renamed
  <1> QED
    BY <1>8 DEF e

\* A sector is added after the others, with one entry.
LEMMA SectorAppended ==
  ASSUME NEW d \in Seq(Seq(Entries)), NEW x \in Entries
  PROVE  LET e == Append(d, <<x>>)
         IN /\ e \in Seq(Seq(Entries)) /\ Len(e) = Len(d) + 1
            /\ \A n : n # x.name => (Listed(e, n) <=> Listed(d, n)) /\ (Once(d, n) => Once(e, n))
            /\ Listed(e, x.name)
            /\ ~Listed(d, x.name) => Once(e, x.name)
            /\ AllTiled(d) /\ x.len = Sector /\ Fits(x) => AllTiled(e)
  <1> DEFINE s == <<x>>
             e == Append(d, s)
             l == Len(d)
  <1>1. s \in Seq(Entries) /\ Len(s) = 1 /\ s[1] = x
    OBVIOUS
  <1>2. l \in Nat
    BY Directory
  <1> HIDE DEF s
  <1>3. /\ e \in Seq(Seq(Entries)) /\ Len(e) = l + 1
        /\ (\A j \in 1 .. l : e[j] = d[j]) /\ e[l + 1] = s
    BY <1>1, AppendProperties
  <1> HIDE DEF e, l
  <1>4. \A i \in 1 .. Len(s) : i = 1
    BY <1>1
  <1>5. \A n : InSector(s, n) <=> n = x.name
    <2>1. 1 \in 1 .. Len(s)
      BY <1>1
    <2> QED
      BY <1>1, <1>4, <2>1 DEF InSector
  <1>6. \A n : OnceInSector(s, n)
    BY <1>4 DEF OnceInSector
  <1>7. \A j \in 1 .. l + 1 : j \in 1 .. l \/ j = l + 1
    BY <1>2
  <1>8. (\A j \in 1 .. l : j \in 1 .. l + 1) /\ l + 1 \in 1 .. l + 1
    BY <1>2
  <1>9. ASSUME NEW n, n # x.name PROVE (Listed(e, n) <=> Listed(d, n)) /\ (Once(d, n) => Once(e, n))
    <2>1. \A j \in 1 .. l + 1 : InSector(e[j], n) => j \in 1 .. l /\ InSector(d[j], n)
      BY <1>3, <1>5, <1>7, <1>9
    <2>2. \A j \in 1 .. l + 1 : Once(d, n) => OnceInSector(e[j], n)
      BY <1>3, <1>6, <1>7 DEF Once, l
    <2>3. Listed(d, n) => Listed(e, n)
      BY <1>3, <1>8 DEF Listed, l
    <2> QED
      BY <1>3, <2>1, <2>2, <2>3 DEF Listed, Once, l
  <1>10. ASSUME ~Listed(d, x.name) PROVE Once(e, x.name)
    <2>1. \A j \in 1 .. l : ~InSector(d[j], x.name)
      BY <1>10 DEF Listed, l
    <2>2. \A j \in 1 .. l + 1 : InSector(e[j], x.name) => j = l + 1
      BY <1>3, <1>7, <2>1
    <2>3. \A j \in 1 .. l + 1 : OnceInSector(e[j], x.name)
      <3>1. \A j \in 1 .. l : OnceInSector(d[j], x.name)
        BY <2>1 DEF OnceInSector, InSector
      <3> QED
        BY <3>1, <1>3, <1>6, <1>7
    <2> QED
      BY <1>3, <2>2, <2>3 DEF Once
  <1>11. Listed(e, x.name)
    BY <1>3, <1>5, <1>8 DEF Listed
  <1>12. ASSUME AllTiled(d), x.len = Sector, Fits(x) PROVE AllTiled(e)
    <2>1. Tiled(s)
      BY <1>1, <1>12, TiledOne
    <2> QED
      BY <2>1, <1>3, <1>7, <1>12 DEF AllTiled, l
  <1>13. /\ e \in Seq(Seq(Entries)) /\ Len(e) = l + 1
         /\ \A n : n # x.name => (Listed(e, n) <=> Listed(d, n)) /\ (Once(d, n) => Once(e, n))
         /\ Listed(e, x.name)
         /\ ~Listed(d, x.name) => Once(e, x.name)
         /\ AllTiled(d) /\ x.len = Sector /\ Fits(x) => AllTiled(e)
    BY <1>3, <1>9, <1>10, <1>11, <1>12
  <1> QED
    BY <1>13 DEF e, l, s

LEMMA EarliestIsOne ==
  ASSUME NEW P, P \subseteq Nat \X Nat, P # {}
  PROVE  Earliest(P) \in P
  <1> DEFINE K == {p[1] : p \in P}
             k == Min(K)
             J == {p[2] : p \in {q \in P : q[1] = k}}
             j == Min(J)
  <1>0. \A p \in P : p[1] \in Nat /\ p[2] \in Nat /\ p = <<p[1], p[2]>>
    OBVIOUS
  <1>1. K \subseteq Nat /\ K # {}
    BY <1>0
  <1>2. k \in K /\ \A x \in K : k <= x
    BY <1>1, MinFacts
  <1> HIDE DEF k
  <1>3. J \subseteq Nat /\ J # {}
    BY <1>0, <1>2
  <1>4. j \in J /\ \A x \in J : j <= x
    BY <1>3, MinFacts
  <1> HIDE DEF j
  <1>5. PICK p \in P : p[1] = k /\ p[2] = j
    BY <1>4
  <1>6. \A q \in P : p[1] < q[1] \/ (p[1] = q[1] /\ p[2] <= q[2])
    <2> SUFFICES ASSUME NEW q \in P PROVE p[1] < q[1] \/ (p[1] = q[1] /\ p[2] <= q[2])
      OBVIOUS
    <2>1. k <= q[1]
      BY <1>2
    <2>2. q[1] = k => j <= q[2]
      BY <1>4
    <2> QED
      BY <2>1, <2>2, <1>0, <1>5
  <1> QED
    BY <1>6 DEF Earliest

\* A place in the directory that holds an entry.
LEMMA PlaceFacts ==
  ASSUME dir \in Seq(Seq(Entries)), NEW p \in Positions, Holds(p)
  PROVE  /\ p[1] \in 1 .. Len(dir) /\ p[2] \in 1 .. Len(dir[p[1]]) /\ p = <<p[1], p[2]>>
         /\ At(p) = dir[p[1]][p[2]] /\ At(p) \in Entries
  <1>1. PICK k \in DOMAIN dir, j \in 1 .. Sector : p = <<k, j>>
    BY DEF Positions
  <1>2. k \in 1 .. Len(dir) /\ p[1] = k /\ p[2] = j
    BY <1>1, Directory
  <1>3. j \in 1 .. Len(dir[k])
    BY <1>2, Directory DEF Holds
  <1> QED
    BY <1>1, <1>2, <1>3, Directory DEF At

LEMMA PlacesFacts ==
  ASSUME dir \in Seq(Seq(Entries))
  PROVE  Positions \subseteq Nat \X Nat
  <1>1. Sector \in Nat
    BY FileAssumption, Zenon
  <1>2. \A k \in DOMAIN dir : k \in Nat
    BY Directory
  <1> QED
    BY <1>1, <1>2 DEF Positions

LEMMA NeedFacts == \A n \in Names \cup {"", ".", ".."} : Need[n] \in Int
  <1> DEFINE D == Names \cup {"", ".", ".."}
  <1>1. Need \in [D -> Nat \ {0}]
    BY FileAssumption, Zenon
  <1> HIDE DEF D
  <1>2. \A n \in D : Need[n] \in Int
    BY <1>1
  <1> QED
    BY <1>2 DEF D

\* What pfsGetDentry finds has room for the new entry.
LEMMA RoomyFacts ==
  ASSUME NEW p, NEW n \in Names, p \in Roomy(Need[n]), At(p) \in Entries, Fits(At(p))
  PROVE  /\ At(p).name = "" => At(p).len >= Need[n]
         /\ At(p).name # "" => At(p).len - Need[At(p).name] >= Need[n]
  <1> DEFINE a == At(p).len
             b == Need[At(p).name]
             c == Need[n]
  <1>1. a \in Int /\ b \in Int /\ b >= 1
    BY EntryFacts
  <1>2. c \in Int
    BY NeedFacts
  <1>3. (At(p).of # Nobody => a - b >= c) /\ (a < c => a - b >= c)
    BY DEF Roomy
  <1>4. At(p).of = Nobody <=> At(p).name = ""
    BY DEF Fits
  <1> HIDE DEF a, b, c
  <1>5. a >= c
    BY <1>1, <1>2, <1>3
  <1>6. At(p).name # "" => a - b >= c
    BY <1>3, <1>4, Zenon
  <1> QED
    BY <1>5, <1>6 DEF a, b, c

\* pfsDirAddEntry where an entry has room: the new name is added, no other comes or
\* goes, and the sectors stay tiled.
LEMMA SplitAdds ==
  ASSUME dir \in Seq(Seq(Entries)), NEW p \in Positions, Holds(p),
         NEW new \in Entries, new.name \in Names, new.of # Nobody
  PROVE  LET e == Split(p, new)
         IN /\ e \in Seq(Seq(Entries))
            /\ \A n \in Names : n # new.name => (Listed(e, n) <=> Listed(dir, n)) /\ (Once(dir, n) => Once(e, n))
            /\ Listed(e, new.name)
            /\ ~Listed(dir, new.name) => Once(e, new.name)
            /\ AllTiled(dir) /\ p \in Roomy(Need[new.name]) => AllTiled(e)
  <1> DEFINE k == p[1]
             j == p[2]
             s == dir[k]
             old == At(p)
  <1>1. k \in 1 .. Len(dir) /\ j \in 1 .. Len(s) /\ old = s[j] /\ old \in Entries
    BY PlaceFacts
  <1>2. s \in Seq(Entries) /\ Len(s) \in Nat
    BY <1>1, Directory
  <1>3. old.len \in Int /\ old.name \in Names \cup {"", ".", ".."} /\ Need[old.name] \in Int
    BY <1>1, NeedFacts DEF Entries
  <1> DEFINE whole == [new EXCEPT !.len = old.len]
             rest  == [new EXCEPT !.len = old.len - Need[old.name]]
             short == [old EXCEPT !.len = Need[old.name]]
             l == Len(s)
             t == IF old.name = "" THEN [s EXCEPT ![j] = whole]
                  ELSE InsertAt([s EXCEPT ![j] = short], j + 1, rest)
             roomy == Tiled(s) /\ p \in Roomy(Need[new.name])
  <1>4. whole \in Entries /\ whole.name = new.name /\ whole.of = new.of /\ whole.len = old.len
    BY <1>3 DEF Entries
  <1>5. /\ rest \in Entries /\ rest.name = new.name /\ rest.of = new.of
        /\ rest.len = old.len - Need[old.name]
    <2> DEFINE c == old.len - Need[old.name]
    <2>1. c \in Int
      <3> DEFINE a == old.len
                 b == Need[old.name]
      <3>1. a \in Int /\ b \in Int
        BY <1>3
      <3> HIDE DEF a, b
      <3>2. a - b \in Int
        BY <3>1
      <3> QED
        BY <3>2 DEF a, b
    <2> HIDE DEF c
    <2>2. rest = [new EXCEPT !.len = c]
      BY DEF c
    <2>3. rest \in Entries /\ rest.name = new.name /\ rest.of = new.of /\ rest.len = c
      BY <2>1, <2>2 DEF Entries
    <2> QED
      BY <2>3 DEF c
  <1>6. short \in Entries /\ short.name = old.name /\ short.of = old.of /\ short.len = Need[old.name]
    BY <1>1, <1>3 DEF Entries
  <1>7. Split(p, new) = [dir EXCEPT ![k] = t]
    <2>1. [s EXCEPT ![j].len = Need[old.name]] = [s EXCEPT ![j] = short]
      BY <1>1
    <2> HIDE DEF s
    <2> QED
      BY <2>1, <1>1 DEF Split, s
  <1>e. "" \notin Names /\ new.name # ""
    <2>1. "" \notin Names
      BY FileAssumption, Zenon
    <2> QED
      BY <2>1
  <1>r. roomy => /\ Fits(old)
                 /\ old.name = "" => old.len >= Need[new.name]
                 /\ old.name # "" => old.len - Need[old.name] >= Need[new.name]
    <2>1. roomy => Fits(old)
      BY <1>1 DEF Tiled
    <2> QED
      BY <2>1, <1>1, RoomyFacts
  <1> HIDE DEF s, k, j, old, whole, rest, short, roomy
  <1>8. /\ t \in Seq(Entries)
        /\ \A n \in Names : n # new.name => /\ InSector(t, n) <=> InSector(s, n)
                                            /\ OnceInSector(s, n) => OnceInSector(t, n)
        /\ InSector(t, new.name)
        /\ ~InSector(s, new.name) => OnceInSector(t, new.name)
        /\ roomy => Tiled(t)
    <2>1. CASE old.name = ""
      <3>1. t = [s EXCEPT ![j] = whole]
        BY <2>1
      <3> HIDE DEF t
      <3>2. t \in Seq(Entries) /\ Len(t) = l /\ \A i \in 1 .. l : t[i] = IF i = j THEN whole ELSE s[i]
        BY <3>1, <1>1, <1>2, <1>4, ExceptSeq
      <3>3. /\ \A n : n # s[j].name /\ n # whole.name =>
                  /\ InSector(t, n) <=> InSector(s, n)
                  /\ OnceInSector(s, n) => OnceInSector(t, n)
            /\ InSector(t, whole.name)
            /\ ~InSector(s, whole.name) => OnceInSector(t, whole.name)
        <4>1. /\ s \in Seq(Entries) /\ j \in 1 .. Len(s) /\ whole \in Entries
              /\ t \in Seq(Entries) /\ Len(t) = Len(s)
              /\ \A i \in 1 .. Len(s) : t[i] = IF i = j THEN whole ELSE s[i]
          BY <3>2, <1>1, <1>2, <1>4, Zenon
        <4> HIDE DEF l
        <4> QED
          BY <4>1, NamesReplaced
      <3>4. ASSUME roomy PROVE Tiled(t)
        <4>1. Fits(whole)
          BY <3>4, <1>4, <1>e, <1>r, <2>1 DEF Fits
        <4>2. Tiled(s) /\ whole.len = s[j].len
          BY <3>4, <1>1, <1>4 DEF roomy
        <4> QED
          BY <4>1, <4>2, <3>2, <1>1, <1>2, <1>4, TiledReplaced
      <3> QED
        BY <3>2, <3>3, <3>4, <1>1, <1>4, <1>e, <2>1
    <2>2. CASE old.name # ""
      <3> DEFINE m == [s EXCEPT ![j] = short]
      <3>1. /\ m \in Seq(Entries) /\ Len(m) = l
            /\ \A i \in 1 .. l : m[i] = IF i = j THEN short ELSE s[i]
        BY <1>1, <1>2, <1>6, ExceptSeq
      <3>2. t = InsertAt(m, j + 1, rest)
        BY <2>2
      <3> HIDE DEF m, t
      <3>4. j + 1 \in 1 .. Len(m) + 1
        BY <3>1, <1>1, <1>2
      <3>5. /\ t \in Seq(Entries) /\ Len(t) = Len(m) + 1
            /\ \A i \in 1 .. Len(m) + 1 : t[i] = IF i < j + 1 THEN m[i] ELSE IF i = j + 1 THEN rest ELSE m[i - 1]
        <4> DEFINE at == j + 1
        <4>1. at \in 1 .. Len(m) + 1 /\ t = InsertAt(m, at, rest)
          BY <3>2, <3>4
        <4> HIDE DEF at
        <4>2. /\ InsertAt(m, at, rest) \in Seq(Entries) /\ Len(InsertAt(m, at, rest)) = Len(m) + 1
              /\ \A i \in 1 .. Len(m) + 1 : InsertAt(m, at, rest)[i] =
                    IF i < at THEN m[i] ELSE IF i = at THEN rest ELSE m[i - 1]
          <5>1. m \in Seq(Entries) /\ rest \in Entries /\ at \in 1 .. Len(m) + 1
            BY <3>1, <4>1, <1>5, Zenon
          <5>2. InsertAt(m, at, rest) \in Seq(Entries) /\ IsInserted(m, at, rest, InsertAt(m, at, rest))
            BY <5>1, InsertAtFacts
          <5> QED
            BY <5>2 DEF IsInserted
        <4> QED
          BY <4>1, <4>2 DEF at
      <3>6. l \in Nat /\ j \in Int /\ j \in 1 .. l
        BY <1>1, <1>2
      <3> HIDE DEF l
      <3>7. /\ t \in Seq(Entries) /\ Len(t) = l + 1
            /\ \A i \in 1 .. l + 1 : t[i] = IF i < j THEN s[i] ELSE IF i = j THEN short ELSE
                                            IF i = j + 1 THEN rest ELSE s[i - 1]
        <4>1. ASSUME NEW i \in 1 .. l + 1
              PROVE  t[i] = IF i < j THEN s[i] ELSE IF i = j THEN short ELSE IF i = j + 1 THEN rest ELSE s[i - 1]
          <5>1. CASE i < j + 1
            <6>1. i \in 1 .. l /\ (i < j \/ i = j) /\ t[i] = m[i]
              BY <5>1, <3>1, <3>5, <3>6
            <6> QED
              BY <6>1, <3>1, <3>6
          <5>2. CASE i = j + 1
            <6>1. ~(i < j + 1) /\ ~(i < j) /\ i # j /\ t[i] = rest
              BY <5>2, <3>1, <3>5, <3>6
            <6> QED
              BY <6>1, <5>2
          <5>3. CASE i > j + 1
            <6>1. i - 1 \in 1 .. l /\ i - 1 # j /\ ~(i < j) /\ i # j /\ i # j + 1 /\ t[i] = m[i - 1]
              BY <5>3, <3>1, <3>5, <3>6
            <6> QED
              BY <6>1, <3>1
          <5> QED
            BY <5>1, <5>2, <5>3, <3>6
        <4> QED
          BY <4>1, <3>1, <3>5
      <3>8. s \in Seq(Entries) /\ j \in 1 .. Len(s) /\ Len(s) = l /\ short.name = s[j].name
        BY <1>1, <1>2, <1>6 DEF l
      <3>9. /\ \A n : n # rest.name => /\ InSector(t, n) <=> InSector(s, n)
                                       /\ OnceInSector(s, n) => OnceInSector(t, n)
            /\ InSector(t, rest.name)
            /\ ~InSector(s, rest.name) => OnceInSector(t, rest.name)
        <4>1. /\ s \in Seq(Entries) /\ j \in 1 .. Len(s) /\ short \in Entries /\ rest \in Entries
              /\ short.name = s[j].name /\ t \in Seq(Entries)
          BY <3>7, <3>8, <1>5, <1>6, Zenon
        <4>2. IsSplit(s, j, short, rest, t)
          BY <3>7, <3>8, Zenon DEF IsSplit
        <4> QED
          BY <4>1, <4>2, NamesSplit
      <3>10. ASSUME roomy PROVE Tiled(t)
        <4>1. Fits(rest)
          BY <3>10, <1>5, <1>e, <1>r, <2>2 DEF Fits
        <4>2. Fits(short)
          <5> DEFINE u == Need[old.name]
          <5>1. u \in Int
            BY <1>3
          <5> HIDE DEF u
          <5>2. u >= u
            BY <5>1
          <5> QED
            BY <5>2, <3>10, <1>6, <1>r DEF Fits, u
        <4>3. Tiled(s) /\ rest.len = s[j].len - short.len
          BY <3>10, <1>1, <1>5, <1>6 DEF roomy
        <4> QED
          BY <4>1, <4>2, <4>3, <3>7, <3>8, <1>5, <1>6, TiledSplit
      <3> QED
        BY <3>7, <3>9, <3>10, <1>5
    <2> QED
      BY <2>1, <2>2
  <1> HIDE DEF t
  <1> DEFINE e == [dir EXCEPT ![k] = t]
             none == ""
             come == new.name
  <1>9. /\ \A n \in Names : n # none /\ n # come =>
              /\ InSector(t, n) <=> InSector(dir[k], n)
              /\ OnceInSector(dir[k], n) => OnceInSector(t, n)
        /\ none \notin Names
        /\ InSector(t, come) /\ (~InSector(dir[k], come) => OnceInSector(t, come))
    BY <1>8, <1>e DEF s
  <1> HIDE DEF none, come
  <1>10. LET x == [dir EXCEPT ![k] = t]
         IN /\ x \in Seq(Seq(Entries)) /\ Len(x) = Len(dir)
            /\ Renamed(dir, x, none, come)
            /\ AllTiled(dir) /\ Tiled(t) => AllTiled(x)
    BY <1>1, <1>8, <1>9, SectorChanged
  <1> HIDE DEF e
  <1>11. e \in Seq(Seq(Entries)) /\ Renamed(dir, e, none, come) /\ (AllTiled(dir) /\ Tiled(t) => AllTiled(e))
    BY <1>10 DEF e
  <1>12. AllTiled(dir) => Tiled(s)
    BY <1>1 DEF AllTiled, s
  <1>13. come \in Names /\ \A n \in Names : n # none
    BY <1>9 DEF come
  <1>14. /\ e \in Seq(Seq(Entries))
         /\ \A n \in Names : n # come => (Listed(e, n) <=> Listed(dir, n)) /\ (Once(dir, n) => Once(e, n))
         /\ Listed(e, come)
         /\ ~Listed(dir, come) => Once(e, come)
    BY <1>11, <1>13 DEF Renamed
  <1>15. AllTiled(dir) /\ p \in Roomy(Need[new.name]) => AllTiled(e)
    BY <1>8, <1>11, <1>12 DEF roomy
  <1> QED
    BY <1>7, <1>14, <1>15 DEF e, come

\* pfsDirRemoveEntry: the name goes, and no other comes.
LEMMA EntryRemoved ==
  ASSUME dir \in Seq(Seq(Entries)), AllTiled(dir), NEW f \in Names, Once(dir, f), Found(f) # {}
  PROVE  LET e == DirRemoveEntry(f)
         IN /\ e \in Seq(Seq(Entries)) /\ AllTiled(e)
            /\ \A n \in Names : n # f => (Listed(e, n) <=> Listed(dir, n)) /\ (Once(dir, n) => Once(e, n))
            /\ ~Listed(e, f) /\ Once(e, f)
  <1> DEFINE p == Earliest(Found(f))
             k == p[1]
             j == p[2]
             s == dir[k]
             l == Len(s)
             e == DirRemoveEntry(f)
  <1>1. p \in Positions /\ Holds(p) /\ At(p).name = f
    <2>1. Found(f) \subseteq Positions
      BY DEF Found
    <2>2. p \in Found(f)
      BY <2>1, PlacesFacts, EarliestIsOne
    <2> HIDE DEF p
    <2> QED
      BY <2>2 DEF Found
  <1>2. j > 1 => e = [dir EXCEPT ![k] = RemoveAt([s EXCEPT ![j - 1].len = @ + s[j].len], j)]
    BY DEF DirRemoveEntry
  <1>a. ~(j > 1) /\ k = Len(dir) /\ s[1].len = Sector => e = Front(dir)
    BY DEF DirRemoveEntry
  <1>b. ~(j > 1) /\ ~(k = Len(dir) /\ s[1].len = Sector) => e = [dir EXCEPT ![k][1] = Entry("", Nobody, s[1].len)]
    BY DEF DirRemoveEntry
  <1> SUFFICES /\ e \in Seq(Seq(Entries)) /\ AllTiled(e)
               /\ \A n \in Names : n # f => (Listed(e, n) <=> Listed(dir, n)) /\ (Once(dir, n) => Once(e, n))
               /\ ~Listed(e, f) /\ Once(e, f)
    OBVIOUS
  <1> HIDE DEF p, e
  <1>3. k \in 1 .. Len(dir) /\ j \in 1 .. l /\ At(p) = s[j] /\ s[j].name = f
    BY <1>1, PlaceFacts
  <1>4. s \in Seq(Entries) /\ l \in Nat /\ Len(dir) \in Nat /\ \A i \in 1 .. l : s[i] \in Entries
    BY <1>3, Directory
  <1>5. OnceInSector(s, f) /\ InSector(s, f) /\ \A m \in 1 .. Len(dir) : m # k => ~InSector(dir[m], f)
    <2>1. InSector(s, f)
      BY <1>3 DEF InSector
    <2> QED
      BY <2>1, <1>3 DEF Once
  <1>6. j \in Nat /\ j >= 1 /\ j <= l /\ k \in Nat
    BY <1>3, <1>4
  <1>t. Tiled(s) /\ l >= 1
    BY <1>3, <1>6, <1>4 DEF AllTiled
  <1>n. "" \notin Names
    BY FileAssumption, Zenon
  <1> HIDE DEF k, j
  <1>7. ASSUME NEW t \in Seq(Entries), e = [dir EXCEPT ![k] = t], Tiled(t),
               \A n \in Names : n # f => (InSector(t, n) <=> InSector(s, n)) /\ (OnceInSector(s, n) => OnceInSector(t, n)),
               ~InSector(t, f)
        PROVE  /\ e \in Seq(Seq(Entries)) /\ AllTiled(e)
               /\ \A n \in Names : n # f => (Listed(e, n) <=> Listed(dir, n)) /\ (Once(dir, n) => Once(e, n))
               /\ ~Listed(e, f) /\ Once(e, f)
    <2> DEFINE none == ""
    <2>1. /\ \A n \in Names : n # f /\ n # none =>
                /\ InSector(t, n) <=> InSector(dir[k], n)
                /\ OnceInSector(dir[k], n) => OnceInSector(t, n)
          /\ f \in Names => InSector(dir[k], f) /\ (OnceInSector(dir[k], f) => ~InSector(t, f))
          /\ none \in Names => InSector(t, none) /\ (~InSector(dir[k], none) => OnceInSector(t, none))
      BY <1>5, <1>7, <1>n
    <2> HIDE DEF none
    <2>2. LET x == [dir EXCEPT ![k] = t]
          IN /\ x \in Seq(Seq(Entries)) /\ Len(x) = Len(dir)
             /\ Renamed(dir, x, f, none)
             /\ AllTiled(dir) /\ Tiled(t) => AllTiled(x)
      BY <1>3, <1>7, <2>1, SectorChanged, Zenon
    <2>3. e \in Seq(Seq(Entries)) /\ Renamed(dir, e, f, none) /\ AllTiled(e)
      BY <2>2, <1>7
    <2>4. \A n \in Names : n # none
      BY <1>n DEF none
    <2> QED
      BY <2>3, <2>4 DEF Renamed
  <1>8. CASE j > 1
    <2> DEFINE i0 == j - 1
               c == s[i0].len + s[j].len
               b == [s[i0] EXCEPT !.len = c]
               m == [s EXCEPT ![i0] = b]
               t == RemoveAt(m, j)
    <2>1. i0 \in 1 .. l /\ s[i0] \in Entries /\ s[j] \in Entries
      BY <1>3, <1>4, <1>6, <1>8
    <2>2. c \in Int
      <3>1. s[i0].len \in Int /\ s[j].len \in Int
        BY <2>1 DEF Entries
      <3> HIDE DEF i0
      <3> DEFINE u == s[i0].len
                 w == s[j].len
      <3>2. u \in Int /\ w \in Int
        BY <3>1
      <3> HIDE DEF u, w
      <3>3. u + w \in Int
        BY <3>2
      <3> QED
        BY <3>3 DEF u, w
    <2>3. e = [dir EXCEPT ![k] = t]
      <3>1. [s EXCEPT ![j - 1].len = @ + s[j].len] = m
        BY <2>1
      <3>2. e = [dir EXCEPT ![k] = RemoveAt([s EXCEPT ![j - 1].len = @ + s[j].len], j)]
        BY <1>2, <1>8
      <3> QED
        BY <3>1, <3>2
    <2> HIDE DEF c, i0
    <2>4. b \in Entries /\ b.name = s[i0].name /\ b.of = s[i0].of /\ b.len = c
      BY <2>1, <2>2 DEF Entries
    <2>5. Fits(b)
      <3>1. Fits(s[i0]) /\ Fits(s[j])
        BY <1>3, <1>t, <2>1 DEF Tiled
      <3> DEFINE u == s[i0].len
                 w == s[j].len
                 q == Need[s[i0].name]
      <3>2. u \in Int /\ q \in Int /\ u >= q /\ w \in Int /\ w >= 1 /\ c = u + w
        <4>1. u \in Int /\ q \in Int /\ w \in Int /\ w >= 1
          BY <2>1, <3>1, EntryFacts
        <4>2. u >= q
          BY <3>1 DEF Fits
        <4> QED
          BY <4>1, <4>2 DEF c
      <3> HIDE DEF u, w, q
      <3>3. c >= q
        BY <3>2
      <3>4. Need[b.name] = q
        BY <2>4 DEF q
      <3>5. b.of = Nobody <=> b.name = ""
        BY <3>1, <2>4 DEF Fits
      <3> QED
        BY <2>4, <3>3, <3>4, <3>5 DEF Fits
    <2>6. c = s[j - 1].len + s[j].len /\ b.name = s[j - 1].name /\ j \in 2 .. l /\ j \in Int /\ i0 = j - 1
      BY <2>4, <1>4, <1>6, <1>8 DEF c, i0
    <2> HIDE DEF b, s
    <2>7. m \in Seq(Entries) /\ Len(m) = l /\ \A i \in 1 .. l : m[i] = IF i = i0 THEN b ELSE s[i]
      BY <1>4, <2>1, <2>4, ExceptSeq
    <2> HIDE DEF m
    <2>8. /\ t \in Seq(Entries) /\ Len(t) = l - 1
          /\ \A i \in 1 .. l - 1 : t[i] = IF i < j THEN m[i] ELSE m[i + 1]
      <3>1. j \in 1 .. Len(m)
        BY <1>3, <2>7
      <3>2. /\ t \in Seq(Entries) /\ Len(t) = Len(m) - 1
            /\ \A i \in 1 .. Len(m) - 1 : t[i] = IF i < j THEN m[i] ELSE m[i + 1]
        BY <3>1, <2>7, RemoveAtFacts
      <3> QED
        BY <3>2, <2>7
    <2> HIDE DEF t
    <2>9. \A i \in 1 .. l - 1 : t[i] = IF i < j - 1 THEN s[i] ELSE IF i = j - 1 THEN b ELSE s[i + 1]
      <3> SUFFICES ASSUME NEW i \in 1 .. l - 1
                   PROVE  t[i] = IF i < j - 1 THEN s[i] ELSE IF i = j - 1 THEN b ELSE s[i + 1]
        OBVIOUS
      <3>0. l \in Nat
        BY <1>4
      <3> HIDE DEF l
      <3>1. CASE i < j - 1
        <4>1. i \in 1 .. l /\ i < j /\ i # i0
          BY <3>0, <3>1, <2>6
        <4> QED
          BY <4>1, <3>1, <2>7, <2>8
      <3>2. CASE i = j - 1
        <4>1. i \in 1 .. l /\ i < j /\ i = i0 /\ ~(i < j - 1)
          BY <3>0, <3>2, <2>6
        <4>2. t[i] = b
          BY <4>1, <2>7, <2>8
        <4> QED
          BY <4>1, <4>2, <3>2
      <3>3. CASE i > j - 1
        <4>1. i + 1 \in 1 .. l /\ ~(i < j) /\ i + 1 # i0 /\ i # j - 1 /\ ~(i < j - 1)
          BY <3>0, <3>3, <2>6
        <4> QED
          BY <4>1, <2>7, <2>8
      <3> QED
        BY <3>1, <3>2, <3>3, <2>6
    <2>10. Tiled(t)
      BY <1>4, <1>t, <2>4, <2>5, <2>6, <2>8, <2>9, TiledMerged
    <2>m. s \in Seq(Entries) /\ j \in 2 .. Len(s) /\ b \in Entries /\ b.name = s[j - 1].name /\ IsMerged(s, j, b, t)
      BY <1>4, <2>4, <2>6, <2>8, <2>9, Zenon DEF IsMerged
    <2>11. /\ \A n : n # s[j].name => /\ InSector(t, n) <=> InSector(s, n)
                                      /\ OnceInSector(s, n) => OnceInSector(t, n)
           /\ OnceInSector(s, s[j].name) => ~InSector(t, s[j].name)
      BY <2>m, <2>8, NamesMerged
    <2> QED
      BY <1>3, <1>5, <1>7, <2>3, <2>8, <2>10, <2>11
  <1>9. CASE ~(j > 1) /\ k = Len(dir) /\ s[1].len = Sector
    <2>1. e = Front(dir) /\ Len(dir) > 0
      BY <1>a, <1>3, <1>4, <1>9
    <2>a. k = Len(dir)
      BY <1>9
    <2>2. /\ e \in Seq(Seq(Entries)) /\ Len(e) = Len(dir) - 1
          /\ \A m \in 1 .. Len(dir) - 1 : e[m] = dir[m]
      BY <2>1, FrontFacts
    <2>3. \A m \in 1 .. Len(e) : m \in 1 .. Len(dir) /\ m # k /\ e[m] = dir[m]
      BY <2>2, <2>a, <1>4
    <2>4. \A m \in 1 .. Len(dir) : m # k => m \in 1 .. Len(e)
      BY <2>2, <2>a, <1>4
    <2>5. \A n : n # f => ~InSector(s, n)
      <3>1. l = 1
        BY <1>4, <1>9, <1>t, TiledShort
      <3>2. \A i \in 1 .. l : i = j
        BY <3>1, <1>3
      <3> QED
        BY <3>2, <1>3 DEF InSector
    <2>6. ASSUME NEW n \in Names, n # f
          PROVE  (Listed(e, n) <=> Listed(dir, n)) /\ (Once(dir, n) => Once(e, n))
      <3>1. Listed(e, n) => Listed(dir, n)
        BY <2>3 DEF Listed
      <3>2. \A m \in 1 .. Len(dir) : InSector(dir[m], n) => m \in 1 .. Len(e) /\ InSector(e[m], n)
        BY <2>3, <2>4, <2>5, <2>6
      <3>3. Once(dir, n) => Once(e, n)
        BY <2>3 DEF Once
      <3> QED
        BY <3>1, <3>2, <3>3 DEF Listed
    <2>7. \A m \in 1 .. Len(e) : ~InSector(e[m], f)
      BY <2>3, <1>5
    <2>8. ~Listed(e, f) /\ Once(e, f)
      BY <2>7 DEF Listed, Once, OnceInSector, InSector
    <2>9. AllTiled(e)
      BY <2>3 DEF AllTiled
    <2> QED
      BY <2>2, <2>6, <2>8, <2>9
  <1>10. CASE ~(j > 1) /\ ~(k = Len(dir) /\ s[1].len = Sector)
    <2> DEFINE b == Entry("", Nobody, s[j].len)
               t == [s EXCEPT ![j] = b]
    <2>1. j = 1
      BY <1>6, <1>10
    <2>2. e = [dir EXCEPT ![k] = t]
      <3>1. e = [dir EXCEPT ![k][1] = Entry("", Nobody, s[1].len)]
        BY <1>b, <1>10
      <3> QED
        BY <3>1, <2>1, <1>3
    <2>3. b \in Entries /\ b.name = "" /\ b.of = Nobody /\ b.len = s[j].len
      <3>1. s[j] \in Entries
        BY <1>3, <1>4
      <3>2. s[j].len \in Int
        BY <3>1 DEF Entries
      <3> QED
        BY <3>2 DEF Entries, Entry
    <2>4. Fits(b)
      <3>1. s[j].len >= Need[f]
        BY <1>3, <1>t DEF Tiled, Fits
      <3>2. Need[""] <= Need[f]
        BY FileAssumption, Zenon
      <3>3. Need[f] \in Int /\ Need[""] \in Int
        BY NeedFacts
      <3>4. s[j] \in Entries
        BY <1>3, <1>4
      <3>5. s[j].len \in Int
        BY <3>4 DEF Entries
      <3> DEFINE u == s[j].len
                 v == Need[f]
                 w == Need[""]
      <3>6. u >= v /\ w <= v /\ u \in Int /\ v \in Int /\ w \in Int
        BY <3>1, <3>2, <3>3, <3>5
      <3> HIDE DEF u, v, w
      <3>7. u >= w
        BY <3>6
      <3>8. Need[b.name] = w /\ b.len = u
        BY <2>3 DEF u, w
      <3> QED
        BY <2>3, <3>7, <3>8 DEF Fits
    <2>n. b.name \notin Names /\ b.name # f
      BY <2>3, <1>n
    <2> HIDE DEF b, s
    <2>c. j \in 1 .. Len(s) /\ s \in Seq(Entries) /\ b \in Entries
      BY <1>3, <1>4, <2>3
    <2>5. t \in Seq(Entries) /\ Len(t) = l /\ \A i \in 1 .. l : t[i] = IF i = j THEN b ELSE s[i]
      BY <2>c, ExceptSeq
    <2> HIDE DEF t
    <2>6. Tiled(t)
      BY <1>t, <2>3, <2>4, <2>5, <2>c, TiledReplaced
    <2>7. /\ \A n : n # s[j].name /\ n # b.name =>
                /\ InSector(t, n) <=> InSector(s, n)
                /\ OnceInSector(s, n) => OnceInSector(t, n)
          /\ s[j].name # b.name /\ OnceInSector(s, s[j].name) => ~InSector(t, s[j].name)
      BY <2>5, <2>c, NamesReplaced
    <2>8. \A n \in Names : n # b.name
      BY <2>n
    <2> QED
      BY <1>3, <1>5, <1>7, <2>2, <2>5, <2>6, <2>7, <2>8, <2>n
  <1> QED
    BY <1>8, <1>9, <1>10

-----------------------------------------------------------------------------
(* The inductive invariant: the directory lists the files there are, but for *)
(* the one that is being entered, each once, and its entries tile it.      *)

Entering == call.op \in {"named", "enter"}

DirInv ==
    /\ dir \in Seq(Seq(Entries)) /\ AllTiled(dir)
    /\ \A n \in Names : /\ Once(dir, n)
                        /\ Listed(dir, n) <=> Exists(n) /\ ~(Entering /\ call.file = n)

IInv == FilesInv /\ CallInv /\ DirInv

LEMMA DirKept ==
  ASSUME DirInv, UNCHANGED dir, \A g \in Files : Exists(g) <=> Exists(g)',
         Entering' <=> Entering, Entering => call'.file = call.file
  PROVE  DirInv'
  <1>1. \A n \in Names : Listed(dir, n) <=> Exists(n)' /\ ~(Entering' /\ call'.file = n)
    BY DEF DirInv, Files
  <1> QED
    BY <1>1 DEF DirInv

\* pfsGetDentry finds the names that are listed.
LEMMA FoundIsListed ==
  ASSUME dir \in Seq(Seq(Entries)), AllTiled(dir), NEW f
  PROVE  Found(f) # {} <=> Listed(dir, f)
  <1>1. ASSUME Found(f) # {} PROVE Listed(dir, f)
    <2>1. PICK p \in Positions : Holds(p) /\ At(p).name = f
      BY <1>1 DEF Found
    <2>2. p[1] \in 1 .. Len(dir) /\ p[2] \in 1 .. Len(dir[p[1]]) /\ dir[p[1]][p[2]].name = f
      BY <2>1, PlaceFacts
    <2> QED
      BY <2>2 DEF Listed, InSector
  <1>2. ASSUME Listed(dir, f) PROVE Found(f) # {}
    <2>1. PICK k \in 1 .. Len(dir) : \E j \in 1 .. Len(dir[k]) : dir[k][j].name = f
      BY <1>2 DEF Listed, InSector
    <2>2. PICK j \in 1 .. Len(dir[k]) : dir[k][j].name = f
      BY <2>1
    <2>3. /\ k \in DOMAIN dir /\ dir[k] \in Seq(Entries) /\ Len(dir[k]) \in Nat
          /\ DOMAIN dir[k] = 1 .. Len(dir[k]) /\ Tiled(dir[k])
      BY Directory DEF AllTiled
    <2>4. Len(dir[k]) >= 1
      BY <2>3
    <2>5. Len(dir[k]) <= Sector
      BY <2>3, <2>4, TiledShort
    <2>6. Sector \in Nat
      BY FileAssumption, Zenon
    <2>7. j \in 1 .. Sector
      BY <2>3, <2>5, <2>6
    <2> DEFINE p == <<k, j>>
    <2>8. p \in Positions /\ p[1] = k /\ p[2] = j
      BY <2>3, <2>7 DEF Positions
    <2>9. Holds(p) /\ At(p).name = f
      BY <2>2, <2>3, <2>8 DEF Holds, At
    <2> HIDE DEF p
    <2> QED
      BY <2>8, <2>9 DEF Found
  <1> QED
    BY <1>1, <1>2

LEMMA InitDir == Init => DirInv
  <1> SUFFICES ASSUME Init PROVE DirInv
    OBVIOUS
  <1> DEFINE a == Entry(".", Root, Need["."])
             b == Entry("..", Root, Sector - Need["."])
             s == <<a, b>>
             d == <<s>>
  <1>1. dir = d /\ call = Idle
    BY DEF Init
  <1>2. Need["."] \in Int /\ Sector \in Int
    <2>1. Sector \in Nat
      BY FileAssumption, Zenon
    <2>2. "." \in Names \cup {"", ".", ".."}
      OBVIOUS
    <2>3. Need["."] \in Int
      BY <2>2, NeedFacts
    <2> QED
      BY <2>1, <2>3
  <1>3. /\ a \in Entries /\ a.name = "." /\ a.of = Root /\ a.len = Need["."]
        /\ b \in Entries /\ b.name = ".." /\ b.of = Root /\ b.len = Sector - Need["."]
    <2> DEFINE m == Need["."]
               n == Sector - Need["."]
    <2>1. m \in Int /\ n \in Int
      <3>1. Sector \in Int /\ m \in Int
        BY <1>2
      <3> HIDE DEF m
      <3>2. Sector - m \in Int
        BY <3>1
      <3> QED
        BY <3>1, <3>2 DEF m
    <2> HIDE DEF m, n
    <2>2. Entry(".", Root, m) \in Entries /\ Entry("..", Root, n) \in Entries
      BY <2>1 DEF Entry, Entries, Files
    <2>3. /\ Entry(".", Root, m).name = "." /\ Entry(".", Root, m).of = Root /\ Entry(".", Root, m).len = m
          /\ Entry("..", Root, n).name = ".." /\ Entry("..", Root, n).of = Root /\ Entry("..", Root, n).len = n
      BY DEF Entry
    <2> QED
      BY <2>2, <2>3 DEF m, n
  <1> HIDE DEF a, b
  <1>4. s \in Seq(Entries) /\ Len(s) = 2 /\ s[1] = a /\ s[2] = b
    BY <1>3
  <1> HIDE DEF s
  <1>5. d \in Seq(Seq(Entries)) /\ Len(d) = 1 /\ d[1] = s
    BY <1>4
  <1> HIDE DEF d
  <1>6. "." \notin Names /\ ".." \notin Names
    BY FileAssumption, Zenon
  <1>7. (\A k \in 1 .. 1 : k = 1) /\ (\A i \in 1 .. 2 : i = 1 \/ i = 2)
    OBVIOUS
  <1>8. \A n \in Names : \A i \in 1 .. Len(s) : s[i].name # n
    BY <1>3, <1>4, <1>6, <1>7
  <1>9. \A n \in Names : ~InSector(s, n) /\ OnceInSector(s, n)
    BY <1>8 DEF InSector, OnceInSector
  <1>10. \A n \in Names : ~Listed(d, n) /\ Once(d, n)
    BY <1>5, <1>7, <1>9 DEF Listed, Once
  <1>11. Tiled(s)
    <2> DEFINE m == Need["."]
               u == Need[".."]
               g == [k \in 0 .. 2 |-> IF k = 0 THEN 0 ELSE IF k = 1 THEN m ELSE Sector]
               v == Lengths(s)
    <2>1. m \in Int /\ u \in Int /\ Sector \in Int /\ u + m <= Sector
      <3>1. ".." \in Names \cup {"", ".", ".."}
        OBVIOUS
      <3>2. u \in Int
        BY <3>1, NeedFacts
      <3>3. ".." \in Names \cup {".."}
        OBVIOUS
      <3>4. u + m <= Sector
        BY <3>3, FileAssumption, Zenon
      <3> QED
        BY <1>2, <3>2, <3>4
    <2>2. v[1] = m /\ v[2] = Sector - m
      <3>1. 1 \in 1 .. Len(s) /\ 2 \in 1 .. Len(s)
        BY <1>4
      <3>2. v[1] = s[1].len /\ v[2] = s[2].len
        BY <3>1 DEF Lengths
      <3> QED
        BY <3>2, <1>3, <1>4
    <2>3. Fits(a)
      <3> HIDE DEF m
      <3>1. m >= m
        BY <2>1
      <3>2. a.len >= Need[a.name]
        BY <3>1, <1>3 DEF m
      <3> QED
        BY <3>2, <1>3, FileFacts DEF Fits
    <2>4. Fits(b)
      <3> HIDE DEF m, u
      <3>1. Sector - m >= u
        BY <2>1
      <3>2. b.len >= Need[b.name]
        BY <3>1, <1>3 DEF m, u
      <3> QED
        BY <3>2, <1>3, FileFacts DEF Fits
    <2> HIDE DEF m, u, v
    <2>5. g \in [0 .. 2 -> Int] /\ g[0] = 0 /\ g[1] = m /\ g[2] = Sector
      BY <2>1
    <2> HIDE DEF g
    <2>6. \A k \in 1 .. 2 : g[k] = g[k - 1] + v[k]
      <3>1. \A k \in 1 .. 2 : (k = 1 /\ k - 1 = 0) \/ (k = 2 /\ k - 1 = 1)
        OBVIOUS
      <3>2. m = 0 + m /\ Sector = m + (Sector - m)
        BY <2>1
      <3> QED
        BY <2>2, <2>5, <3>1, <3>2
    <2>7. Adds(v, 2, Sector)
      BY <2>5, <2>6 DEF Adds, Ends
    <2>8. \A i \in 1 .. 2 : Fits(s[i])
      BY <1>4, <1>7, <2>3, <2>4
    <2> QED
      BY <1>4, <2>7, <2>8 DEF Tiled, v
  <1>12. AllTiled(d)
    BY <1>5, <1>7, <1>11 DEF AllTiled
  <1>13. \A n \in Names : ~Exists(n)
    BY FileFacts DEF Init, Exists, Files
  <1> QED
    BY <1>1, <1>5, <1>10, <1>12, <1>13 DEF DirInv

LEMMA EntryAdded ==
  ASSUME IInv, DirAddEntry
  PROVE  DirInv'
  <1>1. PICK f : f = call.file
    OBVIOUS
  <1>2. call.op = "named" /\ UNCHANGED <<rot, hung, miscut, lost>>
    BY DEF DirAddEntry
  <1>3. f \in Names /\ Exists(f) /\ f \in Files /\ ~Listed(dir, f) /\ f # Nobody
    BY <1>1, <1>2, FileFacts DEF IInv, CallInv, DirInv, Entering, Files
  <1>e. Entering /\ \A n \in Names : n # f => (Listed(dir, n) <=> Exists(n))
    BY <1>1, <1>2 DEF IInv, DirInv, Entering
  <1>4. \A g \in Files : Exists(g) <=> Exists(g)'
    BY AddEntryKeeps DEF IInv
  <1> DEFINE R == Roomy(Need[f])
             p == Earliest(R)
             new == Entry(f, f, 0)
  <1>5. \/ R # {} /\ dir' = Split(p, new) /\ call' = Idle
        \/ UNCHANGED dir /\ call'.op = "enter" /\ call'.file = f
    BY <1>1 DEF DirAddEntry
  <1>6. CASE R # {} /\ dir' = Split(p, new) /\ call' = Idle
    <2>1. dir \in Seq(Seq(Entries)) /\ AllTiled(dir)
      BY DEF IInv, DirInv
    <2>2. R \subseteq Positions /\ \A q \in R : Holds(q)
      BY DEF Roomy
    <2>3. p \in R
      <3> HIDE DEF R
      <3> QED
        BY <2>1, <2>2, <1>6, PlacesFacts, EarliestIsOne
    <2> HIDE DEF p
    <2>4. new \in Entries /\ new.name = f /\ new.of = f
      <3>1. 0 \in Int /\ f \in Names /\ f \in Files
        BY <1>3
      <3> QED
        BY <3>1 DEF Entry, Entries
    <2> HIDE DEF new
    <2>r. p \in Positions /\ Holds(p) /\ p \in Roomy(Need[new.name])
      BY <2>2, <2>3, <2>4
    <2> HIDE DEF R
    <2>5. LET e == Split(p, new)
          IN /\ e \in Seq(Seq(Entries))
             /\ \A n \in Names : n # new.name => (Listed(e, n) <=> Listed(dir, n)) /\ (Once(dir, n) => Once(e, n))
             /\ Listed(e, new.name)
             /\ ~Listed(dir, new.name) => Once(e, new.name)
             /\ AllTiled(dir) /\ p \in Roomy(Need[new.name]) => AllTiled(e)
      BY <2>1, <2>r, <2>4, <1>3, SplitAdds
    <2>6. /\ dir' \in Seq(Seq(Entries)) /\ AllTiled(dir')
          /\ \A n \in Names : n # f => (Listed(dir', n) <=> Listed(dir, n)) /\ (Once(dir, n) => Once(dir', n))
          /\ Listed(dir', f) /\ Once(dir', f)
      BY <2>1, <2>4, <2>5, <2>r, <1>3, <1>6
    <2>7. ~Entering'
      BY <1>6 DEF Entering, Idle
    <2>8. \A n \in Names : Once(dir', n)
      BY <2>6 DEF IInv, DirInv
    <2>9. \A n \in Names : Listed(dir', n) <=> Exists(n)'
      <3> SUFFICES ASSUME NEW n \in Names PROVE Listed(dir', n) <=> Exists(n)
        BY <1>4 DEF Files
      <3> QED
        BY <2>6, <1>3, <1>e
    <2> QED
      BY <2>6, <2>7, <2>8, <2>9 DEF DirInv
  <1>7. CASE UNCHANGED dir /\ call'.op = "enter" /\ call'.file = f
    <2>1. Entering'
      BY <1>7 DEF Entering
    <2> QED
      BY <2>1, <1>1, <1>4, <1>7, <1>e, DirKept DEF IInv
  <1> QED
    BY <1>5, <1>6, <1>7

LEMMA SectorEntered ==
  ASSUME IInv, SectorAdded
  PROVE  DirInv'
  <1>1. PICK f : f = call.file
    OBVIOUS
  <1> DEFINE x == Entry(f, f, Sector)
  <1>2. call.op = "enter" /\ dir' = Append(dir, <<x>>) /\ call' = Idle
    BY <1>1 DEF SectorAdded
  <1>3. f \in Names /\ Exists(f) /\ f \in Files /\ ~Listed(dir, f) /\ f # Nobody
    BY <1>1, <1>2, FileFacts DEF IInv, CallInv, DirInv, Entering, Files
  <1>e. \A n \in Names : n # f => (Listed(dir, n) <=> Exists(n))
    BY <1>1, <1>2 DEF IInv, DirInv, Entering
  <1>4. \A g \in Files : Exists(g) <=> Exists(g)'
    BY SectorKeeps DEF IInv
  <1>5. x \in Entries /\ x.name = f /\ x.of = f /\ x.len = Sector
    <2>1. Sector \in Nat
      BY FileAssumption, Zenon
    <2>2. Sector \in Int
      BY <2>1
    <2> QED
      BY <2>2, <1>3 DEF Entry, Entries
  <1> HIDE DEF x
  <1>6. dir \in Seq(Seq(Entries)) /\ AllTiled(dir)
    BY DEF IInv, DirInv
  <1>f. Fits(x)
    <2> DEFINE m == Need[f]
               o == Need["."]
    <2>1. m \in Int /\ o \in Int /\ o >= 1
      <3>1. m \in Int /\ "." \in Names \cup {"", ".", ".."}
        BY <1>3, NeedFacts
      <3>2. Need \in [Names \cup {"", ".", ".."} -> Nat \ {0}]
        BY FileAssumption, Zenon
      <3>3. o \in Nat \ {0}
        BY <3>1, <3>2
      <3> HIDE DEF o
      <3>4. o \in Int /\ o >= 1
        BY <3>3
      <3> QED
        BY <3>1, <3>4
    <2>2. m + o <= Sector /\ Sector \in Nat
      <3>1. f \in Names \cup {".."}
        BY <1>3
      <3> QED
        BY <3>1, FileAssumption, Zenon
    <2> HIDE DEF m, o
    <2>3. Sector >= m
      BY <2>1, <2>2
    <2>4. "" \notin Names
      BY FileAssumption, Zenon
    <2>5. x.len >= Need[x.name] /\ x.of # Nobody /\ x.name # ""
      BY <2>3, <2>4, <1>3, <1>5 DEF m
    <2> QED
      BY <2>5 DEF Fits
  <1>7. LET e == Append(dir, <<x>>)
        IN /\ e \in Seq(Seq(Entries)) /\ Len(e) = Len(dir) + 1
           /\ \A n : n # x.name => (Listed(e, n) <=> Listed(dir, n)) /\ (Once(dir, n) => Once(e, n))
           /\ Listed(e, x.name)
           /\ ~Listed(dir, x.name) => Once(e, x.name)
           /\ AllTiled(dir) /\ x.len = Sector /\ Fits(x) => AllTiled(e)
    BY <1>5, <1>6, SectorAppended
  <1>8. /\ dir' \in Seq(Seq(Entries)) /\ AllTiled(dir')
        /\ \A n : n # f => (Listed(dir', n) <=> Listed(dir, n)) /\ (Once(dir, n) => Once(dir', n))
        /\ Listed(dir', f) /\ Once(dir', f)
    BY <1>2, <1>3, <1>5, <1>6, <1>f, <1>7
  <1>9. ~Entering'
    BY <1>2 DEF Entering, Idle
  <1>10. \A n \in Names : Once(dir', n)
    BY <1>8 DEF IInv, DirInv
  <1>11. \A n \in Names : Listed(dir', n) <=> Exists(n)'
    <2> SUFFICES ASSUME NEW n \in Names PROVE Listed(dir', n) <=> Exists(n)
      BY <1>4 DEF Files
    <2> QED
      BY <1>8, <1>3, <1>e
  <1> QED
    BY <1>8, <1>9, <1>10, <1>11 DEF DirInv

LEMMA RemoveStep ==
  ASSUME IInv, NEW f \in Names, InodeRemove(f)
  PROVE  IInv'
  <1>1. call = Idle /\ call' = Idle /\ Found(f) # {} /\ dir' = DirRemoveEntry(f)
    BY DEF InodeRemove
  <1>2. dir \in Seq(Seq(Entries)) /\ AllTiled(dir) /\ Once(dir, f)
    BY DEF IInv, DirInv
  <1>3. Exists(f)
    BY <1>1, <1>2, FoundIsListed DEF IInv, DirInv
  <1>4. LET e == DirRemoveEntry(f)
        IN /\ e \in Seq(Seq(Entries)) /\ AllTiled(e)
           /\ \A n \in Names : n # f => (Listed(e, n) <=> Listed(dir, n)) /\ (Once(dir, n) => Once(e, n))
           /\ ~Listed(e, f) /\ Once(e, f)
    BY <1>1, <1>2, EntryRemoved
  <1>5. /\ dir' \in Seq(Seq(Entries)) /\ AllTiled(dir')
        /\ \A n \in Names : n # f => (Listed(dir', n) <=> Listed(dir, n)) /\ (Once(dir, n) => Once(dir', n))
        /\ ~Listed(dir', f) /\ Once(dir', f)
    BY <1>1, <1>4
  <1>6. Len(dir') \in Nat
    BY <1>5, LenProperties
  <1>7. FilesInv' /\ CallInv' /\ ~Exists(f)' /\ (\A g \in Files : g # f => (Exists(g) <=> Exists(g)'))
    BY <1>3, <1>6, RemoveKeeps DEF IInv
  <1>8. ~Entering /\ ~Entering'
    BY <1>1 DEF Entering, Idle
  <1>9. \A n \in Names : Once(dir', n)
    BY <1>5 DEF IInv, DirInv
  <1>10. \A n \in Names : Listed(dir', n) <=> Exists(n)'
    <2> SUFFICES ASSUME NEW n \in Names PROVE Listed(dir', n) <=> Exists(n)'
      OBVIOUS
    <2>1. CASE n = f
      BY <2>1, <1>5, <1>7
    <2>2. CASE n # f
      <3>1. Listed(dir, n) <=> Exists(n)
        BY <1>8 DEF IInv, DirInv
      <3> QED
        BY <2>2, <3>1, <1>5, <1>7 DEF Files
    <2> QED
      BY <2>1, <2>2
  <1>11. DirInv'
    BY <1>5, <1>8, <1>9, <1>10 DEF DirInv
  <1> QED
    BY <1>7, <1>11 DEF IInv

LEMMA CreateStep ==
  ASSUME IInv, NEW f \in Names, NEW isdir \in BOOLEAN, InodeCreate(f, isdir)
  PROVE  IInv'
  <1>1. /\ FilesInv' /\ CallInv' /\ \A g \in Files : g # f => (Exists(g) <=> Exists(g)')
        /\ \/ (\A g \in Files : Exists(g) <=> Exists(g)') /\ call' = call
           \/ Exists(f)' /\ call' = [op |-> "named", file |-> f, left |-> 0]
    BY CreateKeeps DEF IInv
  <1>2. UNCHANGED dir /\ ~Exists(f) /\ call = Idle
    BY DEF InodeCreate, Hang
  <1>3. CASE (\A g \in Files : Exists(g) <=> Exists(g)') /\ call' = call
    <2>1. DirInv'
      BY <1>2, <1>3, DirKept DEF IInv, Entering
    <2> QED
      BY <2>1, <1>1 DEF IInv
  <1>4. CASE Exists(f)' /\ call' = [op |-> "named", file |-> f, left |-> 0]
    <2>1. call'.file = f /\ Entering' /\ ~Entering
      BY <1>2, <1>4 DEF Entering, Idle
    <2>2. \A n \in Names : Listed(dir, n) <=> Exists(n)
      BY <2>1 DEF IInv, DirInv
    <2>3. \A n \in Names : Listed(dir, n) <=> Exists(n)' /\ n # f
      BY <2>2, <1>1, <1>2 DEF Files
    <2>4. DirInv'
      BY <2>1, <2>3, <1>2 DEF IInv, DirInv
    <2> QED
      BY <2>4, <1>1 DEF IInv
  <1> QED
    BY <1>1, <1>3, <1>4

-----------------------------------------------------------------------------
(* The data of the files that stay.                                        *)

Stays(f) ==
    LET old == FileZones(inode[f].segs)
        new == FileZones(inode'[f].segs)
    IN IsPrefix(old, new) \/ (IsPrefix(new, old) /\ (f \in miscut' \/ Len(new) >= inode'[f].size))

LEMMA GrownStays ==
  ASSUME FilesInv, FilesInv', NEW f \in Files, Exists(f), Exists(f)', Grows(inode[f].segs, inode'[f].segs)
  PROVE  Stays(f)
  <1>1. inode[f].segs \in Seq(Segments) /\ Len(inode[f].segs) > 0
    BY SegsOf
  <1>2. inode'[f].segs \in Seq(Segments)
    BY DEF FilesInv, GoodSegments
  <1>3. IsPrefix(FileZones(inode[f].segs), FileZones(inode'[f].segs))
    BY <1>1, <1>2, GrowsBegins
  <1> QED
    BY <1>3, Zenon DEF Stays

LEMMA SameStays ==
  ASSUME FilesInv, FilesInv', NEW f \in Files, Exists(f), Exists(f)', inode'[f].segs = inode[f].segs
  PROVE  Stays(f)
  <1>1. Grows(inode[f].segs, inode[f].segs)
    BY SegsOf, GrowsFacts
  <1> QED
    BY <1>1, GrownStays

LEMMA CreateStays ==
  ASSUME FilesInv, FilesInv', NEW f \in Names, NEW isdir \in BOOLEAN, InodeCreate(f, isdir),
         NEW g \in Files, Exists(g), Exists(g)'
  PROVE  Stays(g)
  <1>1. ~Exists(f) /\ (UNCHANGED inode \/ \E y : inode' = [inode EXCEPT ![f] = y])
    BY DEF InodeCreate, Hang
  <1>2. inode \in [Files -> Inodes \cup {Nobody}]
    BY DEF FilesInv
  <1>3. inode'[g] = inode[g]
    BY <1>1, <1>2
  <1> QED
    BY <1>3, SameStays

LEMMA RemoveStays ==
  ASSUME FilesInv, FilesInv', NEW f \in Names, InodeRemove(f), NEW g \in Files, Exists(g), Exists(g)'
  PROVE  Stays(g)
  <1>1. PICK c : inode' = [inode EXCEPT ![f] = Nobody, ![Root].size = c]
    BY DEF InodeRemove
  <1>2. /\ inode \in [Files -> Inodes \cup {Nobody}] /\ f \in Files /\ Root \in Files /\ f # Root
        /\ inode[g] \in Inodes
    BY FileFacts DEF FilesInv, Files, Exists
  <1>3. g # f
    BY <1>1, <1>2 DEF Exists
  <1>4. CASE g = Root
    <2>1. inode'[g] = [inode[g] EXCEPT !.size = c]
      BY <1>1, <1>2, <1>4
    <2>2. inode'[g].segs = inode[g].segs
      BY <1>2, <2>1 DEF Inodes
    <2> QED
      BY <2>2, SameStays
  <1>5. CASE g # Root
    <2>1. inode'[g] = inode[g]
      BY <1>1, <1>2, <1>3, <1>5
    <2> QED
      BY <2>1, SameStays
  <1> QED
    BY <1>4, <1>5

LEMMA FreeZonesStays ==
  ASSUME FilesInv, FilesInv', NEW f \in Names, NEW n \in 0 .. MaxSize, FreeZones(f, n),
         NEW g \in Files, Exists(g), Exists(g)'
  PROVE  Stays(g)
  <1>1. inode \in [Files -> Inodes \cup {Nobody}] /\ f \in Files /\ Exists(f) /\ inode[f] \in Inodes
    BY DEF FilesInv, Files, Exists, FreeZones, IsFile
  <1>2. n \in Nat
    <2>1. MaxSize \in Nat
      BY FileAssumption, Zenon
    <2> QED
      BY <2>1
  <1>3. CASE inode[f].number_segdesg + n = inode[f].number_blocks
    <2>1. inode' = [inode EXCEPT ![f].size = n]
      BY <1>3 DEF FreeZones
    <2>2. inode[g] \in Inodes
      BY <1>1 DEF Exists
    <2>3. inode'[g] = IF g = f THEN [inode[g] EXCEPT !.size = n] ELSE inode[g]
      BY <1>1, <2>1
    <2>4. inode'[g].segs = inode[g].segs
      BY <2>2, <2>3 DEF Inodes
    <2> QED
      BY <2>4, SameStays
  <1>4. CASE inode[f].number_segdesg + n # inode[f].number_blocks
    <2> DEFINE segs == inode[f].segs
               k == LastNeeded(segs, n)
               j == StillNeeded(segs, n)
               x == Cut(inode[f], n)
               whole == DataZones(x.segs) = n
    <2>1. /\ inode' = [inode EXCEPT ![f] = x]
          /\ miscut' = IF whole THEN miscut \ {f} ELSE miscut \cup {f}
      BY <1>4 DEF FreeZones
    <2>2. x.segs = KeptSegments(segs, k, j) /\ x.size = n
      BY DEF Cut, KeptSegments
    <2> HIDE DEF x, k, j
    <2>3. CASE g = f
      <3>1. inode'[g] = x /\ inode[g].segs = segs
        BY <1>1, <2>1, <2>3
      <3> HIDE DEF segs
      <3>2. GoodSegments(segs) /\ segs \in Seq(Segments) /\ Len(segs) > 0
        BY <1>1, <2>3, SegsOf DEF FilesInv, segs
      <3>3. k \in 1 .. Len(segs) /\ j \in Nat /\ j < segs[k].cnt
        BY <1>2, <3>2, LastNeededFacts DEF k, j
      <3>4. Grows(x.segs, segs)
        BY <2>2, <3>2, <3>3, GrowsCut
      <3>5. x.segs \in Seq(Segments) /\ Len(x.segs) > 0
        <4>1. GoodSegments(inode'[g].segs)
          BY DEF FilesInv
        <4> QED
          BY <3>1, <4>1 DEF GoodSegments
      <3>6. IsPrefix(FileZones(x.segs), FileZones(segs))
        BY <3>2, <3>4, <3>5, GrowsBegins
      <3>7. Len(FileZones(x.segs)) = DataZones(x.segs)
        BY <3>5, FileZonesCount
      <3>8. f \in miscut' \/ Len(FileZones(x.segs)) >= x.size
        <4>1. CASE whole
          <5>1. Len(FileZones(x.segs)) = n /\ x.size = n
            BY <2>2, <3>7, <4>1
          <5> QED
            BY <5>1, <1>2
        <4>2. CASE ~whole
          BY <2>1, <4>2
        <4> QED
          BY <4>1, <4>2
      <3> HIDE DEF whole
      <3> QED
        BY <2>3, <3>1, <3>6, <3>8, Zenon DEF Stays
    <2>4. CASE g # f
      <3>1. inode'[g] = inode[g]
        BY <1>1, <2>1, <2>4
      <3> QED
        BY <3>1, SameStays
    <2> QED
      BY <2>3, <2>4
  <1> QED
    BY <1>3, <1>4

-----------------------------------------------------------------------------
(* The theorems.                                                           *)

LEMMA StutterKeeps == IInv /\ UNCHANGED vars => IInv'
  <1> SUFFICES ASSUME IInv, UNCHANGED vars PROVE IInv'
    OBVIOUS
  <1>1. /\ vol' = vol /\ inode' = inode /\ dir' = dir /\ rot' = rot /\ call' = call
        /\ hung' = hung /\ miscut' = miscut /\ lost' = lost
    BY DEF vars
  <1>2. \A g \in Files : Owned(g)' = Owned(g) /\ (Exists(g)' <=> Exists(g))
    BY <1>1 DEF Owned, Exists
  <1>3. Exists(Root)'
    BY <1>2 DEF IInv, FilesInv, Files
  <1>4. FilesInv'
    BY <1>1, <1>2, <1>3 DEF IInv, FilesInv, Full
  <1>5. CallInv'
    BY <1>1, <1>2, CallKept DEF IInv, CallInv
  <1>6. DirInv'
    BY <1>1, <1>2, DirKept DEF IInv, Entering
  <1> QED
    BY <1>4, <1>5, <1>6 DEF IInv

\* What the files own is accounted for, the call in progress is about a file
\* there is, the directory lists the files there are, each once, but for the one
\* being entered, and its entries tile its sectors (pfsInodeCreate, pfsAllocZones, pfsFreeZones, pfsInodeRemove and the rest):
\* the steps of every call keep it.
THEOREM FilesInductive == Spec => []IInv
  <1>1. Init => IInv
    BY InitFiles, InitDir DEF IInv
  <1>2. IInv /\ [Next]_vars => IInv'
    <2> SUFFICES ASSUME IInv, [Next]_vars PROVE IInv'
      OBVIOUS
    <2>0. FilesInv /\ CallInv /\ DirInv
      BY DEF IInv
    <2>1. ASSUME NEW f \in Names, NEW isdir \in BOOLEAN, InodeCreate(f, isdir) PROVE IInv'
      BY <2>1, CreateStep
    <2>2. ASSUME NEW f \in Names, NEW n \in 1 .. 2, Write(f, n) PROVE IInv'
      <3>1. FilesInv' /\ CallInv' /\ \A g \in Files : Exists(g) <=> Exists(g)'
        BY <2>0, <2>2, WriteKeeps
      <3>2. ~Entering /\ ~Entering' /\ UNCHANGED dir
        <4>1. call = Idle /\ UNCHANGED dir /\ (call' = call \/ call'.op = "write")
          BY <2>2 DEF Write, AllocZones
        <4> QED
          BY <4>1 DEF Entering, Idle
      <3>3. DirInv'
        BY <2>0, <3>1, <3>2, DirKept
      <3> QED
        BY <3>1, <3>3 DEF IInv
    <2>3. ASSUME NEW f \in Names, NEW n \in 0 .. MaxSize, FreeZones(f, n) PROVE IInv'
      <3>1. FilesInv' /\ CallInv' /\ \A g \in Files : Exists(g) <=> Exists(g)'
        BY <2>0, <2>3, FreeZonesKeeps
      <3>2. UNCHANGED <<dir, call>>
        BY <2>3 DEF FreeZones
      <3>3. DirInv'
        BY <2>0, <3>1, <3>2, DirKept DEF Entering
      <3> QED
        BY <3>1, <3>3 DEF IInv
    <2>4. ASSUME NEW f \in Names, InodeRemove(f) PROVE IInv'
      BY <2>4, RemoveStep
    <2>5. ASSUME NEW n \in 1 .. 2, Written(n) PROVE IInv'
      <3>1. FilesInv' /\ CallInv' /\ \A g \in Files : Exists(g) <=> Exists(g)'
        BY <2>0, <2>5, WrittenKeeps
      <3>2. UNCHANGED dir /\ call' = Idle /\ call.op = "write"
        BY <2>5 DEF Written
      <3>3. ~Entering /\ ~Entering'
        BY <3>2 DEF Entering, Idle
      <3>4. DirInv'
        BY <2>0, <3>1, <3>2, <3>3, DirKept
      <3> QED
        BY <3>1, <3>4 DEF IInv
    <2>6. CASE AllocNewSegment
      <3>1. FilesInv' /\ CallInv' /\ \A g \in Files : Exists(g) <=> Exists(g)'
        BY <2>0, <2>6, NewSegmentKeeps
      <3>2. UNCHANGED dir /\ call'.op = call.op /\ call'.file = call.file
        <4> DEFINE left == call'.left
        <4>1. call \in Calls
          BY <2>0 DEF CallInv
        <4>2. UNCHANGED dir /\ (call' = call \/ \E n : call' = [call EXCEPT !.left = n])
          BY <2>6 DEF AllocNewSegment, Hang
        <4> QED
          BY <4>1, <4>2 DEF Calls
      <3>3. DirInv'
        BY <2>0, <3>1, <3>2, DirKept DEF Entering
      <3> QED
        BY <3>1, <3>3 DEF IInv
    <2>7. CASE DirAddEntry
      BY <2>0, <2>7, AddEntryKeeps, EntryAdded DEF IInv
    <2>8. CASE SectorAdded
      BY <2>0, <2>8, SectorKeeps, SectorEntered DEF IInv
    <2>9. CASE UNCHANGED vars
      BY <2>9, StutterKeeps
    <2> QED
      BY <2>1, <2>2, <2>3, <2>4, <2>5, <2>6, <2>7, <2>8, <2>9 DEF Next
  <1> QED
    BY <1>1, <1>2, PTL DEF Spec

\* No zone is given to two inodes or twice to one, every zone a file owns is
\* marked as in use, and an inode counts its zones (pfsBitmapSearchFreeZone,
\* pfsBlockAllocNewSegment, pfsBitmapFreeInodeBlocks).
THEOREM ZonesHaveOneOwner == Spec => []OneOwner
  <1>1. IInv => OneOwner
    <2> SUFFICES ASSUME FilesInv PROVE OneOwner
      BY DEF IInv
    <2>1. \A f, g \in Files : f # g => Owned(f) \cap Owned(g) = {}
      BY DEF FilesInv
    <2>2. ASSUME NEW f \in Files
          PROVE  /\ DistinctZones(f)
                 /\ Exists(f) /\ f \notin miscut => Cardinality(Owned(f)) = inode[f].number_blocks
      <3>1. Exists(f) => GoodSegments(inode[f].segs)
        BY DEF FilesInv
      <3>2. Exists(f) => DOMAIN inode[f].segs = 1 .. Len(inode[f].segs)
        BY <3>1, SegmentsFacts DEF GoodSegments
      <3>3. DistinctZones(f)
        BY <3>1, <3>2 DEF DistinctZones, GoodSegments
      <3> QED
        BY <3>3 DEF FilesInv
    <2>3. UsedOf(vol) = Used /\ ReservedZones = Kept
      BY DEF UsedOf, Used, ReservedZones, Kept
    <2>4. UNION {Owned(f) : f \in Files} \subseteq Used \ Kept
      BY <2>3 DEF FilesInv
    <2> QED
      BY <2>1, <2>2, <2>4 DEF OneOwner
  <1> QED
    BY <1>1, FilesInductive, PTL

\* Nothing is in use that nobody owns, and free_zone is the number of zeros in
\* the bitmap (pfsBitmapAllocZones, pfsBitmapFreeBlockSegment), until a file
\* with indirect descriptors is removed or no zone is left.
THEOREM FreeCountsAreTrue == Spec => []CountsTrue
  <1>1. IInv => CountsTrue
    <2> SUFFICES ASSUME FilesInv, CallInv PROVE CountsTrue
      BY DEF IInv
    <2>1. GoodVolume(vol)
      BY DEF FilesInv
    <2>2. /\ vol.used \in [Subs -> SUBSET Nat] /\ \A s \in Subs : vol.used[s] \subseteq ZonesOf(s)
          /\ vol.free \in [Subs -> Int]
      BY <2>1 DEF GoodVolume
    <2>3. ASSUME NEW f \in Files, Exists(f), NEW i \in DOMAIN inode[f].segs
          PROVE  LET bi == inode[f].segs[i]
                 IN /\ bi.sub \in Subs /\ bi.cnt \in 1 .. CountMax
                    /\ bi.num .. bi.num + bi.cnt - 1 \subseteq ZonesOf(bi.sub)
      <3> DEFINE bi == inode[f].segs[i]
      <3>1. GoodSegments(inode[f].segs)
        BY <2>3 DEF FilesInv
      <3>2. DOMAIN inode[f].segs = 1 .. Len(inode[f].segs)
        BY <3>1, SegmentsFacts DEF GoodSegments
      <3>3. GoodSegment(bi)
        BY <2>3, <3>1, <3>2 DEF GoodSegments
      <3> HIDE DEF bi
      <3>4. Within(bi) /\ bi.cnt \in 1 .. CountMax
        BY <3>3 DEF GoodSegment
      <3>5. bi.sub \in Subs /\ Run(bi) \subseteq ZonesOf(bi.sub)
        BY <3>4, RunFacts
      <3>6. /\ bi.sub \in Subs /\ bi.cnt \in 1 .. CountMax
            /\ bi.num .. bi.num + bi.cnt - 1 \subseteq ZonesOf(bi.sub)
        BY <3>4, <3>5 DEF Run
      <3> QED
        BY <3>6 DEF bi
    <2>4. rot \in Subs /\ call.op \in {"idle", "write", "named", "enter"} /\ hung \in BOOLEAN
      BY DEF CallInv, Calls
    <2>5. TypeOK
      BY <2>2, <2>3, <2>4 DEF TypeOK
    <2>6. UsedOf(vol) = Used /\ ReservedZones = Kept
      BY DEF UsedOf, Used, ReservedZones, Kept
    <2>7. ASSUME ~lost, ~hung
          PROVE  /\ Used = Kept \cup UNION {Owned(f) : f \in Files}
                 /\ \A s \in Subs : vol.free[s] = Cardinality(ZonesOf(s) \ vol.used[s])
      <3>1. FreeExact(vol) /\ UsedOf(vol) \subseteq ReservedZones \cup UNION {Owned(f) : f \in Files}
        BY <2>7 DEF FilesInv
      <3>2. ReservedZones \subseteq UsedOf(vol) /\ \A f \in Files : Owned(f) \subseteq UsedOf(vol)
        BY <2>1, ReservedUsed DEF FilesInv
      <3>3. Used = Kept \cup UNION {Owned(f) : f \in Files}
        BY <3>1, <3>2, <2>6
      <3> QED
        BY <3>1, <3>3 DEF FreeExact, Zeros
    <2> QED
      BY <2>5, <2>7 DEF CountsTrue
  <1> QED
    BY <1>1, FilesInductive, PTL

\* The search for a free zone goes on for ever only when there is none
\* (pfsBitmapSearchFreeZone, whose counter of partitions never gets below 0).
THEOREM SearchEndsUnlessFull == Spec => []HangsOnlyWhenFull
  <1>1. IInv => HangsOnlyWhenFull
    BY DEF IInv, FilesInv, Full, HangsOnlyWhenFull
  <1> QED
    BY <1>1, FilesInductive, PTL

\* What a sector adds up to is where its last entry ends.
LEMMA EndOfTiled ==
  ASSUME NEW s \in Seq(Entries), Tiled(s)
  PROVE  EndOf(s) = Sector
  <1> DEFINE n == Len(s)
             w == Lengths(s)
             end == CHOOSE h : h = [k \in 0 .. n |-> IF k = 0 THEN 0 ELSE h[k - 1] + s[k].len]
  <1>1. n \in Nat /\ Adds(w, n, Sector) /\ \A k \in 1 .. n : w[k] = s[k].len /\ s[k].len \in Int
    <2>1. n \in Nat /\ Adds(w, n, Sector)
      BY LenProperties DEF Tiled
    <2>2. \A k \in 1 .. n : s[k] \in Entries
      BY ElementOfSeq
    <2> QED
      BY <2>1, <2>2, EntryFacts DEF Lengths
  <1>2. EndOf(s) = end[n]
    BY DEF EndOf
  <1> HIDE DEF n, w, end
  <1>3. PICK g : Ends(w, n, g) /\ g[n] = Sector
    BY <1>1 DEF Adds
  <1>4. g = [k \in 0 .. n |-> IF k = 0 THEN 0 ELSE g[k - 1] + s[k].len]
    <2>1. g = [k \in 0 .. n |-> g[k]]
      BY <1>3 DEF Ends
    <2>2. \A k \in 0 .. n : g[k] = IF k = 0 THEN 0 ELSE g[k - 1] + s[k].len
      <3> TAKE k \in 0 .. n
      <3>1. CASE k = 0
        BY <3>1, <1>3 DEF Ends
      <3>2. CASE k # 0
        <4>1. k \in 1 .. n
          BY <3>2, <1>1
        <4> QED
          BY <4>1, <3>2, <1>1, <1>3 DEF Ends
      <3> QED
        BY <3>1, <3>2
    <2> QED
      BY <2>1, <2>2
  <1>5. end = [k \in 0 .. n |-> IF k = 0 THEN 0 ELSE end[k - 1] + s[k].len]
    BY <1>4 DEF end
  <1>6. end[0] = 0 /\ \A k \in 1 .. n : end[k] = end[k - 1] + s[k].len
    BY <1>1, <1>5
  <1> DEFINE S == {k \in Nat : k <= n => end[k] \in Int}
  <1>7. 0 \in S
    BY <1>6
  <1>8. ASSUME NEW k \in Nat, k \in S PROVE k + 1 \in S
    <2> SUFFICES ASSUME k + 1 <= n PROVE end[k + 1] \in Int
      OBVIOUS
    <2>1. k + 1 \in 1 .. n /\ (k + 1) - 1 = k /\ end[k] \in Int
      BY <1>1, <1>8
    <2>2. end[k + 1] = end[k] + s[k + 1].len /\ s[k + 1].len \in Int
      BY <2>1, <1>1, <1>6
    <2> QED
      BY <2>1, <2>2
  <1> HIDE DEF S
  <1>9. \A k \in 0 .. n : end[k] \in Int
    <2>1. Nat \subseteq S
      BY <1>7, <1>8, Induction
    <2> QED
      BY <2>1, <1>1 DEF S
  <1>10. end \in [0 .. n -> Int]
    BY <1>5, <1>9
  <1>11. Ends(w, n, end)
    BY <1>1, <1>6, <1>10 DEF Ends
  <1>12. end[n] = Sector
    BY <1>1, <1>11, AddsUnique
  <1> QED
    BY <1>2, <1>12

\* The entries of the directory tile its sectors, none shorter than its name
\* needs, and between two calls it names the files there are, each once
\* (pfsDirAddEntry, pfsDirRemoveEntry, and the order of pfsInodeCreate and
\* pfsInodeRemove).
THEOREM DirectoryStaysTrue == Spec => []DirectoryTrue
  <1>1. IInv => DirectoryTrue
    <2> SUFFICES ASSUME CallInv, DirInv PROVE DirectoryTrue
      BY DEF IInv
    <2>1. dir \in Seq(Seq(Entries)) /\ AllTiled(dir)
      BY DEF DirInv
    <2>2. EntriesTile
      <3> SUFFICES ASSUME NEW k \in 1 .. Len(dir)
                   PROVE  /\ EndOf(dir[k]) = Sector
                          /\ \A j \in DOMAIN dir[k] : dir[k][j].len >= Need[dir[k][j].name]
        BY <2>1, Directory DEF EntriesTile
      <3>1. dir[k] \in Seq(Entries) /\ DOMAIN dir[k] = 1 .. Len(dir[k]) /\ Tiled(dir[k])
        BY <2>1, Directory DEF AllTiled
      <3> QED
        BY <3>1, EndOfTiled DEF Tiled, Fits
    <2>3. ASSUME call = Idle, NEW f \in Names PROVE Exists(f) <=> Found(f) # {}
      <3>1. ~Entering
        BY <2>3 DEF Entering, Idle
      <3>2. Listed(dir, f) <=> Exists(f)
        BY <3>1 DEF DirInv
      <3> QED
        BY <3>2, <2>1, FoundIsListed
    <2>4. ASSUME NEW f \in Names, NEW p \in Found(f), NEW q \in Found(f) PROVE p = q
      <3>1. Once(dir, f)
        BY DEF DirInv
      <3>2. \A x \in Found(f) : x \in Positions /\ Holds(x) /\ At(x).name = f
        BY DEF Found
      <3>3. \A x \in Found(f) : /\ x[1] \in 1 .. Len(dir) /\ x[2] \in 1 .. Len(dir[x[1]])
                                /\ x = <<x[1], x[2]>> /\ dir[x[1]][x[2]].name = f
        BY <2>1, <3>2, PlaceFacts
      <3>4. InSector(dir[p[1]], f) /\ InSector(dir[q[1]], f)
        BY <3>3 DEF InSector
      <3>5. p[1] = q[1]
        BY <3>1, <3>3, <3>4 DEF Once
      <3>6. p[2] = q[2]
        BY <3>1, <3>3, <3>5 DEF Once, OnceInSector
      <3> QED
        BY <3>3, <3>5, <3>6
    <2> QED
      BY <2>2, <2>3, <2>4 DEF DirectoryTrue
  <1> QED
    BY <1>1, FilesInductive, PTL

\* What a call does to one file leaves the data of the others where it is, and
\* what is extended or cut keeps the zones of the part that stays, unless it is
\* cut within a segment (pfsBlockExpandSegment, pfsBlockAllocNewSegment, pfsFreeZones).
THEOREM DataStaysInPlace == Spec => DataStays
  <1> DEFINE Step == \A f \in Files : Exists(f) /\ Exists(f)' =>
          LET old == FileZones(inode[f].segs)
              new == FileZones(inode'[f].segs)
          IN IsPrefix(old, new) \/ (IsPrefix(new, old) /\ (f \in miscut' \/ Len(new) >= inode'[f].size))
  <1>1. IInv /\ IInv' /\ [Next]_vars => [Step]_vars
    <2> SUFFICES ASSUME IInv, IInv', Next, NEW g \in Files, Exists(g), Exists(g)' PROVE Stays(g)
      BY DEF Stays
    <2>0. FilesInv /\ CallInv /\ FilesInv'
      BY DEF IInv
    <2>1. ASSUME NEW f \in Names, NEW isdir \in BOOLEAN, InodeCreate(f, isdir) PROVE Stays(g)
      BY <2>0, <2>1, CreateStays
    <2>2. ASSUME NEW f \in Names, NEW n \in 0 .. MaxSize, FreeZones(f, n) PROVE Stays(g)
      BY <2>0, <2>2, FreeZonesStays
    <2>3. ASSUME NEW f \in Names, InodeRemove(f) PROVE Stays(g)
      BY <2>0, <2>3, RemoveStays
    <2>4. CASE OnlyGrow
      BY <2>0, <2>4, GrownStays DEF OnlyGrow
    <2>5. ASSUME NEW f \in Names, NEW n \in 1 .. 2, Write(f, n) PROVE OnlyGrow
      BY <2>0, <2>5, WriteKeeps
    <2>6. ASSUME NEW n \in 1 .. 2, Written(n) PROVE OnlyGrow
      BY <2>0, <2>6, WrittenKeeps
    <2>7. AllocNewSegment => OnlyGrow
      BY <2>0, NewSegmentKeeps
    <2>8. DirAddEntry => OnlyGrow
      BY <2>0, AddEntryKeeps
    <2>9. SectorAdded => OnlyGrow
      BY <2>0, SectorKeeps
    <2> QED
      BY <2>1, <2>2, <2>3, <2>4, <2>5, <2>6, <2>7, <2>8, <2>9 DEF Next
  <1> QED
    BY <1>1, FilesInductive, PTL DEF Spec, DataStays
=============================================================================
