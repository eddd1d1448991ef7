------------------------------ MODULE PfsZones ------------------------------
(***************************************************************************)
(* The zones of a PFS filesystem: which are in use (the bitmaps of the     *)
(* main partition, 0, and of its sub-partitions), how many are free        *)
(* (free_zone of the mount), and the segments of zones inodes are made of. *)
(*                                                                         *)
(* A bitmap is the set of its ones: its chunks and words are read in the   *)
(* order of the zones.  The sum of free_zone is the mount's zfree.         *)
(***************************************************************************)
EXTENDS Integers, Sequences, SequencesExt, FiniteSets, FiniteSetsExt

CONSTANTS
    NumSubs,     \* num_subs: sub-partitions of the main partition
    Size,        \* zones of each partition
    Reserved,    \* zones a format marks in each partition
    InodeMax,    \* PFS_INODE_MAX_BLOCKS: segments an inode lists, 114
    IndirectMax, \* segments an indirect descriptor lists, 123
    CountMax     \* USHRT_MAX, the longest segment

Subs == 0 .. NumSubs
ZonesOf(s) == 0 .. Size[s] - 1

ASSUME ZonesAssumption ==
    /\ NumSubs \in Nat
    /\ Size \in [Subs -> Nat \ {0}]
    /\ Reserved \in [Subs -> SUBSET Nat]
    /\ \A s \in Subs : Reserved[s] \subseteq ZonesOf(s) /\ 0 \in Reserved[s]
    /\ InodeMax \in Nat /\ InodeMax > 1 /\ IndirectMax \in Nat /\ IndirectMax > 1
    /\ CountMax \in Nat \ {0}

\* pfs_blockinfo_t
Segments == [sub : Subs, num : Nat, cnt : Nat]
Segment(s, n, c) == [sub |-> s, num |-> n, cnt |-> c]
Covers(bi) == {<<bi.sub, z>> : z \in bi.num .. bi.num + bi.cnt - 1}

Formatted == [used |-> Reserved, free |-> [s \in Subs |-> Size[s] - Cardinality(Reserved[s])]]

-----------------------------------------------------------------------------
(* Bitmaps.                                                                *)

Mark(vol, bi) ==
    [used |-> [vol.used EXCEPT ![bi.sub] = @ \cup bi.num .. bi.num + bi.cnt - 1],
     free |-> [vol.free EXCEPT ![bi.sub] = @ - bi.cnt]]

\* pfsBitmapFreeBlockSegment: the count grows whether or not the zones were in use.
FreeBlockSegment(vol, bi) ==
    [used |-> [vol.used EXCEPT ![bi.sub] = @ \ (bi.num .. bi.num + bi.cnt - 1)],
     free |-> [vol.free EXCEPT ![bi.sub] = @ + bi.cnt]]

\* pfsBitmapAllocZones: the first place of n free zones, not before "from".
Places(vol, s, from, n) ==
    {p \in from .. Size[s] - n : p .. p + n - 1 \cap vol.used[s] = {}}

\* pfsBitmapAllocateAdditionalZones: how many of "count" more zones follow.
Additional(vol, bi, count) ==
    LET end  == bi.num + bi.cnt
        most == Min({count, CountMax - bi.cnt, Size[bi.sub] - end})
    IN Max({n \in 0 .. most : end .. end + n - 1 \cap vol.used[bi.sub] = {}})

Expanded(vol, bi, n) == Mark(vol, Segment(bi.sub, bi.num + bi.cnt, n))

\* pfsBitmapSearchFreeZone looks for c zones in a row, then for half of them, and
\* so on down to one: c has 16 bits.
Powers    == {1, 2, 4, 8, 16, 32, 64, 128, 256, 512, 1024, 2048, 4096, 8192, 16384, 32768}
Halves(c) == {c \div d : d \in Powers} \ {0}
Fitting(vol, s, from, c) ==
    {n \in Halves(c) : vol.free[s] >= n /\ Places(vol, s, from, n) # {}}

NoSpace == [vol |-> Formatted, bi |-> Segment(0, 0, 0)]

Wanted(bi, max_count) == Max({Min({max_count, 32}), bi.cnt})
Best(vol, s, from, c, most) ==
    LET n == Max(Fitting(vol, s, from, c))
    IN  Segment(s, Min(Places(vol, s, from, n)), Min({n, most}))

\* A slip: the partitions before the first one tried are not tried.
SearchFreeZone_Onward(vol, bi, max_count) ==
    LET c       == Wanted(bi, max_count)
        From(k) == IF k = 0 THEN bi.num ELSE 0
        turns   == {k \in 0 .. NumSubs - bi.sub : Fitting(vol, bi.sub + k, From(k), c) # {}}
        found   == Best(vol, bi.sub + Min(turns), From(Min(turns)), c, bi.cnt)
    IN  IF turns = {} THEN NoSpace ELSE [vol |-> Mark(vol, found), bi |-> found]

\* The first partition is tried from the zone asked for, the others from their
\* start, then the first one again.  Its counter of partitions is unsigned and
\* tested for >= 0: after a turn without success come turns without end, and
\* -ENOSPC is never returned.  NoSpace stands for that loop.
SearchFreeZone(vol, bi, max_count) ==
    LET c       == Wanted(bi, max_count)
        Sub(k)  == (bi.sub + k) % (NumSubs + 1)
        From(k) == IF k = 0 THEN bi.num ELSE 0
        turns   == {k \in 0 .. NumSubs + 1 : Fitting(vol, Sub(k), From(k), c) # {}}
        found   == Best(vol, Sub(Min(turns)), From(Min(turns)), c, bi.cnt)
    IN  IF turns = {} THEN NoSpace ELSE [vol |-> Mark(vol, found), bi |-> found]

-----------------------------------------------------------------------------
(* Inodes.  "segs" lists what data[] of the inode and then of its indirect *)
(* descriptors holds, up to number_data; entry 0 of each (the first, the   *)
(* InodeMax + 1st, ...) is the zone the descriptor itself is in.           *)

\* pfsFixIndex(i - 1) = 0
IsDescriptor(i) == i = 1 \/ (i > InodeMax /\ (i - 1 - InodeMax) % IndirectMax = 0)

Inode(mode, bi) == [mode |-> mode, segs |-> <<bi>>, number_blocks |-> bi.cnt, number_segdesg |-> 1, size |-> 0]

\* How many zones of data the first k segments have.
ZonesUpTo(segs) ==
    LET upto[k \in 0 .. Len(segs)] ==
            IF k = 0 THEN 0 ELSE upto[k - 1] + (IF IsDescriptor(k) THEN 0 ELSE segs[k].cnt)
    IN  upto
DataZones(segs) == ZonesUpTo(segs)[Len(segs)]

\* The zones of the file's data, in the order of the file (pfsInodeSync).
FileZones(segs) ==
    FlattenSeq([i \in 1 .. Len(segs) |->
        IF IsDescriptor(i) THEN <<>>
        ELSE [k \in 1 .. segs[i].cnt |-> <<segs[i].sub, segs[i].num + k - 1>>]])

FreeSegments(vol, segs) ==
    LET after[k \in 0 .. Len(segs)] ==
            IF k = 0 THEN vol ELSE FreeBlockSegment(after[k - 1], segs[k])
    IN  after[Len(segs)]

\* pfsBitmapFreeInodeBlocks looks at entry 0 before it moves on to the indirect
\* descriptor, and then takes number_data from there, where it is 0: the inode's
\* zone is freed twice, and what the descriptors list not at all.
FreeInodeBlocks(vol, segs) ==
    FreeSegments(vol, SubSeq(segs, 1, Min({InodeMax, Len(segs)}))
                      \o (IF Len(segs) > InodeMax THEN <<segs[1]>> ELSE <<>>))

=============================================================================
