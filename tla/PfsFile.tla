------------------------------ MODULE PfsFile ------------------------------
(***************************************************************************)
(* Files and a directory on a PFS filesystem, as libpfs makes, extends,    *)
(* cuts and removes them: the segments of inodes, the entries of the root  *)
(* directory, and the zones both take from the bitmaps.                    *)
(*                                                                         *)
(* The user of the library calls one operation after the other; a call     *)
(* that allocates several segments does so in several steps.  Metadata is  *)
(* what PfsCache keeps, and reads do not fail.                             *)
(***************************************************************************)
EXTENDS PfsZones, Functions

CONSTANTS
    Names,      \* names of files
    Need,       \* bytes of the entry of a name, of "", "." and ".."
    Sector,     \* bytes of a sector of entries
    MaxSize,    \* bound on the size of a file, in zones
    MaxSectors, \* bound on the size of the directory, one sector to a zone
    Nobody      \* no inode, no file

VARIABLES
    vol,   \* bitmaps and counts of free zones
    inode, \* the inode of each name and of the root directory
    dir,   \* the sectors of the root directory, each a list of entries
    rot,   \* inode->subpart of the root directory
    call,  \* the call in progress
    hung,  \* a search for a free zone does not end
    miscut, \* files cut within a segment, that own more or fewer zones than counted
    lost   \* a file with indirect descriptors has been removed

vars == <<vol, inode, dir, rot, call, hung, miscut, lost>>

Root  == "/"
Files == Names \cup {Root}
Idle  == [op |-> "idle", file |-> Nobody, left |-> 0]
Exists(f) == inode[f] # Nobody
IsFile(f) == f \in Names /\ Exists(f) /\ inode[f].mode = "file"

\* pfs_inode_t, as far as it is kept here.
Inodes == [mode : {"file", "dir"}, segs : Seq(Segments),
           number_blocks : Int, number_segdesg : Int, size : Int]

\* A segment is counted with more than one bit, a format finds room for the root
\* directory, and a sector for "." and any other entry ((length + 11) & ~3 bytes,
\* of names of 255 bytes at most; the empty name needs least).
ASSUME FileAssumption ==
    /\ {"", ".", "..", Root} \cap Names = {} /\ Nobody \notin Files
    /\ Need \in [Names \cup {"", ".", ".."} -> Nat \ {0}]
    /\ Sector \in Nat
    /\ \A n \in Names \cup {".."} : Need[n] + Need["."] <= Sector /\ Need[""] <= Need[n]
    /\ MaxSize \in Nat /\ MaxSectors \in Nat \ {0}
    /\ Nobody \notin Inodes
    /\ CountMax >= 2
    /\ \E y, z \in ZonesOf(0) \ Reserved[0] : y # z

Entry(name, of, len) == [name |-> name, of |-> of, len |-> len]

-----------------------------------------------------------------------------
(* pfsFormat: the root directory has its inode, one zone, "." and "..".    *)

Init ==
    LET i == SearchFreeZone(Formatted, Segment(0, 0, 1), 1)
        d == SearchFreeZone(i.vol, Segment(0, 0, 1), 1)
    IN /\ vol = d.vol
       /\ inode = [f \in Files |->
             IF f = Root THEN [mode |-> "dir", segs |-> <<i.bi, d.bi>>, number_blocks |-> 2,
                               number_segdesg |-> 1, size |-> 1]
             ELSE Nobody]
       /\ dir = << <<Entry(".", Root, Need["."]), Entry("..", Root, Sector - Need["."])>> >>
       /\ rot = 0 /\ call = Idle /\ hung = FALSE /\ miscut = {} /\ lost = FALSE

-----------------------------------------------------------------------------
(* Zones of an inode.                                                      *)

\* pfsBlockExpandSegment: the last segment grows, unless it is a descriptor.
ExpandSegment(v, ino, count) ==
    LET l == Len(ino.segs)
        n == IF IsDescriptor(l) THEN 0 ELSE Additional(v, ino.segs[l], count)
    IN [vol |-> Expanded(v, ino.segs[l], n), n |-> n,
        ino |-> [ino EXCEPT !.segs[l].cnt = @ + n, !.number_blocks = @ + n]]

\* A new segment is looked for from the end of the last one.
Search(v, ino, count) ==
    LET l == Last(ino.segs)
    IN SearchFreeZone(v, Segment(l.sub, l.num + l.cnt, count), ino.number_blocks)

WithDescriptor(ino, bi) ==
    [ino EXCEPT !.segs = Append(@, bi), !.number_blocks = @ + bi.cnt, !.number_segdesg = @ + 1]
\* A slip: the segment is written over the last one, number_data is counted up first.
WithSegment_Over(ino, bi) ==
    [ino EXCEPT !.segs = IF IsDescriptor(Len(@)) THEN Append(@, bi) ELSE Append(Front(@), bi),
                !.number_blocks = @ + bi.cnt]

WithSegment(ino, bi) ==
    [ino EXCEPT !.segs = Append(@, bi), !.number_blocks = @ + bi.cnt]

Hang(v) == hung' = TRUE /\ vol' = v /\ UNCHANGED <<inode, dir, rot, call, miscut, lost>>

\* The start of pfsAllocZones (its mode is 0): is there room in the zones?
HasRoom(ino, size) == ino.number_blocks - ino.number_segdesg >= ino.size + size

AllocZones(f, size, op) ==
    LET x == ExpandSegment(vol, inode[f], size)
    IN /\ vol' = x.vol
       /\ inode' = [inode EXCEPT ![f] = x.ino]
       /\ call' = [op |-> op, file |-> f, left |-> size - x.n]

\* One turn of the loop of pfsAllocZones, pfsBlockAllocNewSegment: with the
\* lists full, a new indirect descriptor comes first.
AllocNewSegment ==
    LET f   == IF call.op = "enter" THEN Root ELSE call.file
        ino == inode[f]
        full == IsDescriptor(Len(ino.segs) + 1)
        d   == IF full THEN Search(vol, ino, 1) ELSE NoSpace
        v1  == IF full THEN d.vol ELSE vol
        i1  == IF full THEN WithDescriptor(ino, d.bi) ELSE ino
        s   == Search(v1, i1, call.left)
        i2  == WithSegment(i1, s.bi)
        left == call.left - s.bi.cnt
        x   == ExpandSegment(s.vol, i2, left)
    IN /\ call.op \in {"write", "enter"} /\ call.left > 0 /\ ~hung
       /\ IF full /\ d = NoSpace THEN Hang(vol)
          ELSE IF s = NoSpace THEN Hang(v1)
          ELSE /\ vol' = x.vol
               /\ inode' = [inode EXCEPT ![f] = x.ino]
               /\ call' = [call EXCEPT !.left = left - x.n]
               /\ UNCHANGED <<dir, rot, hung, miscut, lost>>

\* A file is extended by a write, and its size follows.
Write(f, n) ==
    /\ call = Idle /\ ~hung /\ IsFile(f) /\ inode[f].size + n <= MaxSize
    /\ IF HasRoom(inode[f], n)
       THEN inode' = [inode EXCEPT ![f].size = @ + n] /\ UNCHANGED <<vol, call>>
       ELSE AllocZones(f, n, "write")
    /\ UNCHANGED <<dir, rot, hung, miscut, lost>>

Written(n) ==
    /\ call.op = "write" /\ call.left = 0 /\ ~hung
    /\ inode[call.file].size + n <= MaxSize /\ HasRoom(inode[call.file], n)
    /\ inode' = [inode EXCEPT ![call.file].size = @ + n]
    /\ call' = Idle
    /\ UNCHANGED <<vol, dir, rot, hung, miscut, lost>>

\* Where pfsFreeZones ends: the segment the size reaches to, and how many of the
\* zones of that segment the size still needs, 0 if that is all of them.
LastNeeded(segs, size) ==
    Min({Len(segs)} \cup {i \in 1 .. Len(segs) : ZonesUpTo(segs)[i] >= size})
StillNeeded(segs, size) ==
    LET n == LastNeeded(segs, size)
        j == size - ZonesUpTo(segs)[n - 1]
    IN IF size > 0 /\ j < segs[n].cnt THEN j ELSE 0

Cut(ino, size) ==
    LET n     == LastNeeded(ino.segs, size)
        descs == Cardinality({i \in 1 .. n : IsDescriptor(i)})
    IN [mode |-> "file", number_blocks |-> size + descs, number_segdesg |-> descs, size |-> size,
        segs |-> [SubSeq(ino.segs, 1, n) EXCEPT ![n].cnt = @ - StillNeeded(ino.segs, size)]]

\* The end of the segment that is cut.
CutOff(segs, size) ==
    LET bi == segs[LastNeeded(segs, size)]
        j  == StillNeeded(segs, size)
    IN Segment(bi.sub, bi.num + bi.cnt - j, j)

\* A slip: the end of the segment that is cut stays in use.
Returned_WholeSegments(v, segs, size) ==
    FreeSegments(v, SubSeq(segs, LastNeeded(segs, size) + 1, Len(segs)))

\* A slip: what is freed starts after the zones that are needed.
Returned_After(v, segs, size) ==
    LET b  == CutOff(segs, size)
        bi == segs[LastNeeded(segs, size)]
    IN FreeSegments(v, (IF b.cnt > 0 THEN <<[b EXCEPT !.num = bi.num + b.cnt]>> ELSE <<>>)
                       \o SubSeq(segs, LastNeeded(segs, size) + 1, Len(segs)))

Returned(v, segs, size) ==
    FreeSegments(v, (IF StillNeeded(segs, size) > 0 THEN <<CutOff(segs, size)>> ELSE <<>>)
                    \o SubSeq(segs, LastNeeded(segs, size) + 1, Len(segs)))

\* pfsFreeZones, after a file was cut to "size": the segments the size does not
\* reach are freed.  Of the segment it ends in, the zones that are needed are
\* counted off and freed, and the others kept: "miscut" are the files that own
\* another number of zones than their inode says since.
FreeZones(f, size) ==
    LET ino == inode[f]
    IN /\ call = Idle /\ ~hung /\ IsFile(f) /\ size \in 0 .. ino.size
       /\ IF ino.number_segdesg + size = ino.number_blocks
          THEN inode' = [inode EXCEPT ![f].size = size] /\ UNCHANGED <<vol, miscut>>
          ELSE /\ inode' = [inode EXCEPT ![f] = Cut(ino, size)]
               /\ vol' = Returned(vol, ino.segs, size)
               /\ miscut' = IF DataZones(Cut(ino, size).segs) = size THEN miscut \ {f} ELSE miscut \cup {f}
       /\ UNCHANGED <<dir, rot, call, hung, lost>>

-----------------------------------------------------------------------------
(* Entries of the directory.                                               *)

Positions == {<<k, j>> : k \in DOMAIN dir, j \in 1 .. Sector}
Holds(p)  == p[2] \in DOMAIN dir[p[1]]
At(p)     == dir[p[1]][p[2]]
Earliest(P) == CHOOSE p \in P : \A q \in P : p[1] < q[1] \/ (p[1] = q[1] /\ p[2] <= q[2])

\* pfsGetDentry, option 0 and option 1.
Found(name) == {p \in Positions : Holds(p) /\ At(p).name = name}
Roomy(need) == {p \in Positions : Holds(p) /\
    IF At(p).of # Nobody \/ At(p).len < need THEN At(p).len - Need[At(p).name] >= need ELSE TRUE}

\* pfsDirAddEntry gives the new entry what the one it found does not need: an
\* entry without a name is taken as a whole.
Split(p, new) ==
    LET e == At(p)
    IN [dir EXCEPT ![p[1]] =
          IF e.name = "" THEN [@ EXCEPT ![p[2]] = [new EXCEPT !.len = e.len]]
          ELSE InsertAt([@ EXCEPT ![p[2]].len = Need[e.name]], p[2] + 1,
                        [new EXCEPT !.len = e.len - Need[e.name]])]

\* A slip: the entry is looked for in the first sector only.
DirRemoveEntry_First(f) ==
    LET p == Earliest(Found(f))
        k == 1
        s == dir[1]
    IN IF p[2] > 1
       THEN [dir EXCEPT ![k] = RemoveAt([s EXCEPT ![p[2] - 1].len = @ + s[p[2]].len], p[2])]
       ELSE [dir EXCEPT ![k][1] = Entry("", Nobody, @.len)]

\* pfsDirRemoveEntry: the entry before it in the sector takes its place; the
\* first of a sector loses its name, or shortens the directory if it was all
\* there was in the last sector.
DirRemoveEntry(f) ==
    LET p == Earliest(Found(f))
        k == p[1]
        s == dir[k]
    IN IF p[2] > 1
       THEN [dir EXCEPT ![k] = RemoveAt([s EXCEPT ![p[2] - 1].len = @ + s[p[2]].len], p[2])]
       ELSE IF k = Len(dir) /\ s[1].len = Sector THEN Front(dir)
       ELSE [dir EXCEPT ![k][1] = Entry("", Nobody, @.len)]

Percent(a, b) == (a * 100) \div b
FreePercent(s) == Percent(vol.free[s], Size[s])
AllFree == FoldFunction(+, 0, vol.free)
AllZones == FoldFunction(+, 0, Size)

\* pfsGetMaxIndex
MaxIndex == Min({s \in Subs : \A t \in Subs : FreePercent(t) <= FreePercent(s)})

\* pfsInodeCreate: a file is put after the inode of its directory, a directory
\* in the next partition, or the emptiest one if that has become too full.
InodeCreate(f, isdir) ==
    LET next == IF NumSubs > rot THEN rot + 1 ELSE 0
        sub  == IF FreePercent(next) + 11 <= Percent(AllFree, AllZones) THEN MaxIndex ELSE next
        root == inode[Root].segs[1]
        s    == SearchFreeZone(vol, IF isdir THEN Segment(sub, 0, 1)
                                    ELSE Segment(root.sub, root.num, 1), 2)
        d    == SearchFreeZone(s.vol, s.bi, 0)
    IN /\ call = Idle /\ ~hung /\ f \in Names /\ ~Exists(f)
       /\ IF s = NoSpace THEN Hang(vol)
          ELSE IF isdir /\ d = NoSpace THEN Hang(s.vol)
          ELSE /\ vol' = (IF isdir THEN d.vol ELSE s.vol)
               /\ inode' = [inode EXCEPT ![f] =
                     IF isdir THEN [WithSegment(Inode("dir", s.bi), d.bi) EXCEPT !.size = 1]
                     ELSE Inode("file", s.bi)]
               /\ rot' = (IF isdir THEN next ELSE rot)
               /\ call' = [op |-> "named", file |-> f, left |-> 0]
               /\ UNCHANGED <<dir, hung, miscut, lost>>

\* pfsDirAddEntry, the first part: room between the entries, or a new sector.
DirAddEntry ==
    LET f == call.file
        R == Roomy(Need[f])
    IN /\ call.op = "named" /\ ~hung
       /\ \/ /\ R # {}
             /\ dir' = Split(Earliest(R), Entry(f, f, 0))
             /\ call' = Idle
             /\ UNCHANGED <<vol, inode>>
          \/ /\ R = {} /\ Len(dir) < MaxSectors
             /\ IF HasRoom(inode[Root], 1)
                THEN call' = [op |-> "enter", file |-> f, left |-> 0] /\ UNCHANGED <<vol, inode>>
                ELSE LET x == ExpandSegment(vol, inode[Root], 1)
                     IN /\ vol' = x.vol
                        /\ inode' = [inode EXCEPT ![Root] = x.ino]
                        /\ call' = [op |-> "enter", file |-> f, left |-> 1 - x.n]
             /\ UNCHANGED dir
       /\ UNCHANGED <<rot, hung, miscut, lost>>

\* The rest of pfsDirAddEntry: an entry as long as a sector after the others.
SectorAdded ==
    /\ call.op = "enter" /\ call.left = 0 /\ ~hung
    /\ dir' = Append(dir, <<Entry(call.file, call.file, Sector)>>)
    /\ inode' = [inode EXCEPT ![Root].size = @ + 1]
    /\ call' = Idle
    /\ UNCHANGED <<vol, rot, hung, miscut, lost>>

\* pfsInodeRemove
InodeRemove(f) ==
    /\ call = Idle /\ ~hung /\ f \in Names /\ Found(f) # {}
    /\ dir' = DirRemoveEntry(f)
    /\ vol' = FreeInodeBlocks(vol, inode[f].segs)
    /\ inode' = [inode EXCEPT ![f] = Nobody, ![Root].size = Len(dir')]
    /\ lost' = (lost \/ Len(inode[f].segs) > InodeMax)
    /\ miscut' = miscut \ {f}
    /\ UNCHANGED <<rot, call, hung>>

-----------------------------------------------------------------------------
Next ==
    \/ \E f \in Names : \/ \E isdir \in BOOLEAN : InodeCreate(f, isdir)
                        \/ \E n \in 1 .. 2 : Write(f, n)
                        \/ \E n \in 0 .. MaxSize : FreeZones(f, n)
                        \/ InodeRemove(f)
    \/ \E n \in 1 .. 2 : Written(n)
    \/ AllocNewSegment \/ DirAddEntry \/ SectorAdded

Spec == Init /\ [][Next]_vars

-----------------------------------------------------------------------------
(* Properties.                                                             *)

TypeOK ==
    /\ vol.used \in [Subs -> SUBSET Nat] /\ \A s \in Subs : vol.used[s] \subseteq ZonesOf(s)
    /\ vol.free \in [Subs -> Int]
    /\ \A f \in Files : Exists(f) =>
          \A i \in DOMAIN inode[f].segs :
             LET bi == inode[f].segs[i]
             IN /\ bi.sub \in Subs /\ bi.cnt \in 1 .. CountMax
                /\ bi.num .. bi.num + bi.cnt - 1 \subseteq ZonesOf(bi.sub)
    /\ rot \in Subs /\ call.op \in {"idle", "write", "named", "enter"} /\ hung \in BOOLEAN

Owned(f) == IF Exists(f) THEN UNION {Covers(inode[f].segs[i]) : i \in DOMAIN inode[f].segs} ELSE {}
Used     == UNION {{<<s, z>> : z \in vol.used[s]} : s \in Subs}
Kept     == UNION {{<<s, z>> : z \in Reserved[s]} : s \in Subs}

DistinctZones(f) ==
    Exists(f) => \A i, j \in DOMAIN inode[f].segs :
                    i # j => Covers(inode[f].segs[i]) \cap Covers(inode[f].segs[j]) = {}

\* No zone is given to two inodes, or twice to one, none that is owned may be
\* given away again, and number_blocks counts them, but for what pfsFreeZones
\* miscounts (pfsBitmapSearchFreeZone, pfsBitmapAllocateAdditionalZones).
OneOwner ==
    /\ \A f, g \in Files : f # g => Owned(f) \cap Owned(g) = {}
    /\ \A f \in Files : /\ DistinctZones(f)
                       /\ Exists(f) /\ f \notin miscut => Cardinality(Owned(f)) = inode[f].number_blocks
    /\ UNION {Owned(f) : f \in Files} \subseteq Used \ Kept

\* The types hold, and until a file with indirect descriptors is removed (pfsBitmapFreeInodeBlocks),
\* nothing is in use that nobody owns, and free_zone is the number of zeros.
CountsTrue ==
    /\ TypeOK
    /\ ~lost /\ ~hung =>
             /\ Used = Kept \cup UNION {Owned(f) : f \in Files}
             /\ \A s \in Subs : vol.free[s] = Cardinality(ZonesOf(s) \ vol.used[s])

\* Only a filesystem without any free zone makes the search run for ever:
\* the place to start from, and the halving, leave none out.
HangsOnlyWhenFull == hung => \A s \in Subs : vol.used[s] = ZonesOf(s)

\* Where the last of the entries of a sector ends.
EndOf(s) == LET end[k \in 0 .. Len(s)] == IF k = 0 THEN 0 ELSE end[k - 1] + s[k].len
            IN end[Len(s)]

\* The entries tile each sector, none shorter than its name needs (pfsGetDentry
\* gives up a directory in which they do not).
EntriesTile ==
    \A k \in DOMAIN dir :
        /\ EndOf(dir[k]) = Sector
        /\ \A j \in DOMAIN dir[k] : dir[k][j].len >= Need[dir[k][j].name]

\* The entries tile their sectors, and the directory names exactly the files
\* there are, each once (pfsDirAddEntry, pfsDirRemoveEntry).
DirectoryTrue ==
    /\ EntriesTile
    /\ call = Idle => \A f \in Names : /\ Exists(f) <=> Found(f) # {}
                                       /\ \A p, q \in Found(f) : p = q

\* What a call does to one file leaves the data of the others where it is, and
\* extending or cutting a file keeps the zones of the part that stays, unless it is cut
\* within a segment.
DataStays ==
    [][\A f \in Files : Exists(f) /\ Exists(f)' =>
          LET old == FileZones(inode[f].segs)
              new == FileZones(inode'[f].segs)
          IN IsPrefix(old, new) \/ (IsPrefix(new, old) /\ (f \in miscut' \/ Len(new) >= inode'[f].size))]_vars
=============================================================================
