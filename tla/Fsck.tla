-------------------------------- MODULE Fsck --------------------------------
(***************************************************************************)
(* fsck: the check of a PFS filesystem.  FsckOpen looks at the super block *)
(* and the bitmaps; the thread walks the tree of directories, checks every *)
(* segment of every inode against what it has met before, mends entries,   *)
(* and at last replaces the bitmaps by the one it has made.                *)
(*                                                                         *)
(* The filesystem is one record: metadata is written through PfsCache.  A  *)
(* build of fsck records no errors of the drive (PFS_NO_WRITE_ERROR_STAT), *)
(* so that metadata is never found unreadable, only data and attributes.   *)
(***************************************************************************)
EXTENDS PfsZones, TLC

CONSTANTS
    Root,      \* the inode of the root directory
    Images,    \* filesystems a check may start from
    FirstZone, \* the first zone a file may have, 2
    Sector,    \* bytes of a sector of entries, a multiple of Align
    Align,     \* entries are aligned to, 4
    Shortest,  \* bytes of an entry without a name, 8
    MaxDepth   \* FSCK_MAX_PATH_LEVELS

VARIABLES
    fs,       \* inodes, directories, bitmaps, super block
    first,    \* what fs was when the check started
    fixing,   \* FSCK_MODE_WRITE and FSCK_MODE_AUTO, or neither
    pc,       \* where the thread is
    stack,    \* the directories being walked, the place in each
    seg,      \* the inode being checked and the next segment
    map,      \* the bitmap made so far, the partitions one after the other
    hasError, fixed, stopFlag

vars == <<fs, first, fixing, pc, stack, seg, map, hasError, fixed, stopFlag>>

\* Inode 0, and a sector of entries: what is at each offset, if an entry is.  The
\* length and the type share a word.
None == 0
Types == {"dir", "file"}
Entry(len, need, name, type, of) == [len |-> len, need |-> need, name |-> name, type |-> type, of |-> of]

\* What fsckCheckFiles takes for "." and "..": the name is "." alone, or of two
\* characters of which it looks only at the first.
Up == {"..", ".x"}
Dots == {"."} \cup Up

Running  == pc \in {"attribute", "root", "rootchecked", "walk", "segments", "compare", "finish"}
ZoneMap[s \in 0 .. NumSubs + 1] == IF s = 0 THEN 0 ELSE ZoneMap[s - 1] + Size[s - 1]
Global(s, Z) == {ZoneMap[s] + z : z \in Z}
Zones(bi) == bi.num .. bi.num + bi.cnt - 1

\* pfsBitmapReadPartition adds the offset of the main partition's bitmap in the
\* sub-partitions too, where it is in the middle of the data.
MarkedIn(s) == IF s = 0 THEN fs.bits[0] ELSE fs.stray[s]

-----------------------------------------------------------------------------
(* The filesystems a check may start from: inodes with any segments, and   *)
(* directories of sectors with entries of any length at aligned offsets.   *)

SegmentsOnDisk == Seq([sub : Nat, num : Nat, cnt : Nat])

\* "sec" holds the offsets the walk can come to: an entry with a length that is
\* aligned is followed by another one, by the end of the sector, or ends after it.
SectorOK(sec, inodes) ==
    /\ DOMAIN sec \subseteq 0 .. Sector - 1 /\ 0 \in DOMAIN sec
    /\ sec \in [DOMAIN sec -> [len : Nat, need : Nat, name : STRING, type : Types, of : inodes \cup {None}]]
    /\ \A o \in DOMAIN sec :
          /\ o % Align = 0 /\ sec[o].need >= Shortest
          /\ sec[o].len % Align = 0 /\ o + sec[o].len <= Sector =>
                o + sec[o].len \in DOMAIN sec \cup {Sector}

WellFormed(f) ==
    /\ f \in [main : BOOLEAN, backup : BOOLEAN, num : Nat, area : BOOLEAN,
              writeError : BOOLEAN, errorsFixed : BOOLEAN, unreadable : SUBSET (Nat \X Nat),
              badAttrs : SUBSET DOMAIN f.inode, badZones : SUBSET (Nat \X Nat),
              bits : [Subs -> SUBSET Nat], stray : [Subs -> SUBSET Nat],
              inode : [DOMAIN f.inode -> [mode : Types, segs : SegmentsOnDisk]],
              dir : [DOMAIN f.dir -> Seq(UNION {Range(f.dir[d]) : d \in DOMAIN f.dir})]]
    /\ \A s \in Subs : f.bits[s] \subseteq ZonesOf(s)
    /\ Root \in DOMAIN f.dir
    /\ DOMAIN f.dir = {x \in DOMAIN f.inode : f.inode[x].mode = "dir"}
    /\ \A d \in DOMAIN f.dir :
          /\ f.dir[d] # <<>>
          /\ \A k \in DOMAIN f.dir[d] : SectorOK(f.dir[d][k], DOMAIN f.inode)

\* An entry says of its inode what the inode says of itself.  (One that calls a file
\* a directory has fsck walk the data of the file.)
TypesAgree(f) ==
    \A d \in DOMAIN f.dir : \A k \in 1 .. Len(f.dir[d]) : \A o \in DOMAIN f.dir[d][k] :
        LET e == f.dir[d][k][o]
        IN  e.of # None /\ e.name \notin Dots => e.type = f.inode[e.of].mode

ASSUME FsckAssumption ==
    /\ FirstZone \in Nat
    /\ Sector \in Nat \ {0} /\ Align \in Nat \ {0} /\ Sector % Align = 0
    /\ Shortest \in 1 .. Sector /\ MaxDepth \in Nat \ {0}
    /\ \A f \in Images : WellFormed(f) /\ TypesAgree(f)

-----------------------------------------------------------------------------
(* FsckOpen: CheckSuperBlock, fsckCheckBitmap, and the zones that are       *)
(* taken before any file.                                                  *)

Init ==
    /\ fs \in Images /\ first = fs /\ fixing = FALSE
    /\ pc = "closed" /\ stack = <<>> /\ seg = [ino |-> Root, i |-> 1]
    /\ map = {} /\ hasError = FALSE /\ fixed = FALSE /\ stopFlag = FALSE

\* Each may be mended, and the check is not begun when it is not.
SuperBlockRead == fs.main \/ (fs.backup /\ fixing')
SuperBlockFits == fs.num <= NumSubs \/ fixing'
BitmapsRead    == fs.unreadable = {} \/ fixing'

\* What is unreadable of a bitmap is overwritten with ones.  (The count of
\* errors is cleared after all this.)
FsckOpen ==
    /\ pc = "closed" /\ fixing' \in BOOLEAN
    /\ SuperBlockRead /\ SuperBlockFits /\ BitmapsRead
    /\ fs' = [fs EXCEPT !.main = TRUE, !.num = Min({fs.num, NumSubs}),
                        !.bits = [s \in Subs |-> fs.bits[s] \cup {z \in ZonesOf(s) : <<s, z>> \in fs.unreadable}],
                        !.unreadable = {}]
    /\ first' = fs'
    /\ pc' = "open"
    /\ map' = UNION {Global(s, Reserved[s]) : s \in Subs}
    /\ hasError' = FALSE /\ fixed' = FALSE /\ stopFlag' = FALSE
    /\ UNCHANGED <<stack, seg>>

FsckStart == /\ pc = "open" /\ pc' = "attribute"
             /\ UNCHANGED <<fs, first, fixing, stack, seg, map, hasError, fixed, stopFlag>>
FsckStop  == /\ Running /\ ~stopFlag /\ stopFlag' = TRUE
             /\ UNCHANGED <<fs, first, fixing, pc, stack, seg, map, hasError, fixed>>

\* The partition is closed before the cache is flushed: what a thread that gave
\* up has left there is lost.
FsckClose ==
    /\ pc \in {"ended", "gaveup"} /\ pc' = "closed"
    /\ fs' = IF pc = "ended" THEN fs
             ELSE [fs EXCEPT !.inode = first.inode, !.bits = first.bits, !.stray = first.stray]
    /\ seg' = [ino |-> Root, i |-> 1]
    /\ UNCHANGED <<first, fixing, stack, map, hasError, fixed, stopFlag>>

-----------------------------------------------------------------------------
(* fsckPromptUserAction: an error is fixed, or remembered.                 *)

Fixed(new) == fs' = new /\ fixed' = TRUE /\ UNCHANGED hasError
NotFixed   == hasError' = TRUE /\ UNCHANGED <<fs, fixed>>
Fine       == UNCHANGED <<fs, hasError, fixed>>
Fix(new)   == IF fixing THEN Fixed(new) ELSE NotFixed

\* fsckCheckExtendedAttribute
CheckAttribute ==
    /\ pc = "attribute"
    /\ IF fs.area THEN Fine ELSE Fix([fs EXCEPT !.area = TRUE])
    /\ pc' = "root" /\ seg' = [ino |-> Root, i |-> 1]
    /\ UNCHANGED <<first, fixing, stack, map, stopFlag>>

-----------------------------------------------------------------------------
(* fsckCheckDirentryInode, one segment after the other.                    *)

Segs(x) == fs.inode[x].segs

\* fsckFillInode: the rest of the file is removed, its size is left as it was.
CutTo(x, n) == [fs EXCEPT !.inode[x].segs = SubSeq(@, 1, n)]

\* A slip: the last zone of the partition is taken for one after it.
BadZone_Last(bi) == ~(/\ bi.sub \in Subs /\ bi.cnt > 0 /\ bi.num >= FirstZone
                      /\ bi.num + bi.cnt < Size[bi.sub])

BadZone(bi) == ~(/\ bi.sub \in Subs /\ bi.cnt > 0 /\ bi.num >= FirstZone
                 /\ bi.num + bi.cnt <= Size[bi.sub])

Unmarked(bi) == Zones(bi) \ MarkedIn(bi.sub)
Met(bi) == Global(bi.sub, Zones(bi)) \cap map

AtSegment  == pc \in {"root", "segments"} /\ seg.i <= Len(Segs(seg.ino))
Bi         == Segs(seg.ino)[seg.i]
OfFile     == fs.inode[seg.ino].mode = "file" /\ ~IsDescriptor(seg.i)
Unreadable == OfFile /\ Covers(Bi) \cap fs.badZones # {}
Sound      == ~BadZone(Bi) /\ ~Unreadable /\ ~(OfFile /\ stopFlag)

\* fsckCheckZones marks zone after zone, up to the first that is marked already.
Marked(bi) ==
    map \cup IF Met(bi) = {} THEN Global(bi.sub, Zones(bi))
             ELSE {g \in Global(bi.sub, Zones(bi)) : g < Min(Met(bi))}

\* fsckCheckFileBitmap
WithMarks(bi) ==
    IF bi.sub = 0 THEN [fs EXCEPT !.bits[0] = @ \cup Zones(bi)]
    ELSE [fs EXCEPT !.stray[bi.sub] = @ \cup Zones(bi)]

\* The walk of a directory starts: "size" is how far the next entry is, "at" the
\* test that is due.
Walk(d, parent) == [dir |-> d, parent |-> parent, k |-> 1, off |-> 0, size |-> 0, at |-> "aligned"]

\* The walk of the last directory is at an entry.
Top     == Last(stack)
Sectors == fs.dir[Top.dir]
Here    == Sectors[Top.k]
This    == Here[Top.off]
Rest    == Sector - Top.off
Turn(t) == stack' = [stack EXCEPT ![Len(stack)] = t]

\* The inode is done: "good" is the result 0 that only the root needs.  What is
\* wrong with a directory's inode does not keep its entries from being walked.
Return(good) ==
    /\ pc' = IF pc = "segments" THEN "walk" ELSE IF good THEN "rootchecked" ELSE "gaveup"
    /\ stack' = IF pc = "segments" /\ This.type = "dir"
                THEN Append(stack, Walk(seg.ino, Top.dir))
                ELSE stack
    /\ UNCHANGED seg

\* A segment without an error, or with zones that only have to be marked.
CheckSegment ==
    /\ AtSegment /\ Sound /\ (Unmarked(Bi) = {} \/ fixing) /\ Met(Bi) = {}
    /\ IF Unmarked(Bi) = {} THEN Fine ELSE Fix(WithMarks(Bi))
    /\ map' = Marked(Bi)
    /\ IF stopFlag THEN Return(TRUE)
       ELSE seg' = [seg EXCEPT !.i = @ + 1] /\ UNCHANGED <<pc, stack>>
    /\ UNCHANGED <<first, fixing, stopFlag>>

\* "contains a bad zone" and "could not read zone": the file ends before them.
CutBadSegment ==
    /\ AtSegment /\ (BadZone(Bi) \/ Unreadable)
    /\ Fix(CutTo(seg.ino, seg.i - 1))
    /\ Return(fixing \/ ~BadZone(Bi))
    /\ UNCHANGED <<first, fixing, map, stopFlag>>

\* fsckCheckFileBitmap, when it may not mark a zone.
LeaveUnmarked ==
    /\ AtSegment /\ Sound /\ Unmarked(Bi) # {} /\ ~fixing
    /\ NotFixed /\ Return(FALSE)
    /\ UNCHANGED <<first, fixing, map, stopFlag>>

\* "overlapped zone found": what came before it in the segment stays marked.
CutOverlap ==
    /\ AtSegment /\ Sound /\ (Unmarked(Bi) = {} \/ fixing) /\ Met(Bi) # {}
    /\ Fix([WithMarks(Bi) EXCEPT !.inode[seg.ino].segs = SubSeq(@, 1, seg.i - 1)])
    /\ map' = Marked(Bi)
    /\ Return(FALSE)
    /\ UNCHANGED <<first, fixing, stopFlag>>

\* All segments are done, or the reading of a file is stopped.
SegmentsChecked ==
    /\ pc \in {"root", "segments"}
    /\ ~AtSegment \/ (AtSegment /\ OfFile /\ stopFlag /\ ~BadZone(Bi) /\ ~Unreadable)
    /\ Return(TRUE)
    /\ UNCHANGED <<fs, first, fixing, map, hasError, fixed, stopFlag>>

\* CheckRootDirectory returns an inode, or the thread gives up (Return).
RootChecked ==
    /\ pc = "rootchecked"
    /\ stack' = <<Walk(Root, Root)>> /\ pc' = "walk"
    /\ UNCHANGED <<fs, first, fixing, seg, map, hasError, fixed, stopFlag>>

-----------------------------------------------------------------------------
(* fsckCheckFiles, one entry after the other: is its length aligned, is it *)
(* enough for the name, does it end in the sector, and then the file.      *)

SetHere(sec) == [fs EXCEPT !.dir[Top.dir][Top.k] = sec]

\* fsckFixDEntry: the entry before it takes its length, or the first of the
\* sector loses its name; and then it has no inode.
Follows(sec, S) == \A o \in S : o + sec[o].len \in DOMAIN sec => o + sec[o].len \in S
Parsed(sec) == {o \in DOMAIN sec : \A S \in SUBSET DOMAIN sec : 0 \in S /\ Follows(sec, S) => o \in S}
Before(sec, off) == {o \in Parsed(sec) : o < off /\ o + sec[o].len = off}
FixDEntry(sec, off) ==
    IF off = 0 THEN [sec EXCEPT ![0].need = Shortest, ![0].of = None]
    ELSE [o \in DOMAIN sec |->
            IF o = off THEN [sec[o] EXCEPT !.of = None]
            ELSE IF o \in Before(sec, off) THEN [sec[o] EXCEPT !.len = @ + sec[off].len]
            ELSE sec[o]]

Walking(at) == pc = "walk" /\ stack # <<>> /\ Top.off < Sector /\ Top.at = at /\ ~stopFlag

\* A slip: the length is corrected for the walk and not in the sector.
CheckAligned_Kept ==
    /\ Walking("aligned")
    /\ IF This.len % Align = 0
       THEN Fine /\ Turn([Top EXCEPT !.at = "enough", !.size = This.len])
       ELSE Fix(fs) /\ Turn([Top EXCEPT !.at = "enough", !.size = Rest])
    /\ UNCHANGED <<first, fixing, pc, seg, map, stopFlag>>

CheckAligned ==
    /\ Walking("aligned")
    /\ IF This.len % Align = 0
       THEN Fine /\ Turn([Top EXCEPT !.at = "enough", !.size = This.len])
       ELSE Fix(SetHere([Here EXCEPT ![Top.off].len = Rest])) /\ Turn([Top EXCEPT !.at = "enough", !.size = Rest])
    /\ UNCHANGED <<first, fixing, pc, seg, map, stopFlag>>

\* A slip: a length too small for the name is let pass.
CheckEnough_Missing ==
    /\ Walking("enough") /\ Fine /\ Turn([Top EXCEPT !.at = "ends"])
    /\ UNCHANGED <<first, fixing, pc, seg, map, stopFlag>>

\* It takes the rest of the sector, if the name needs less than that.
CheckEnough ==
    /\ Walking("enough")
    /\ IF Top.size >= This.need THEN Fine /\ Turn([Top EXCEPT !.at = "ends"])
       ELSE IF fixing /\ This.need < Rest
       THEN Fix(SetHere([Here EXCEPT ![Top.off].len = Rest])) /\ Turn([Top EXCEPT !.at = "ends", !.size = Rest])
       ELSE Fix(SetHere(FixDEntry(Here, Top.off))) /\ Turn([Top EXCEPT !.at = "next", !.size = Rest])
    /\ UNCHANGED <<first, fixing, pc, seg, map, stopFlag>>

CheckEnd ==
    /\ Walking("ends")
    /\ IF Top.size <= Rest THEN Fine /\ Turn([Top EXCEPT !.at = "file"])
       ELSE Fix(SetHere(FixDEntry(Here, Top.off))) /\ Turn([Top EXCEPT !.at = "next", !.size = Rest])
    /\ UNCHANGED <<first, fixing, pc, seg, map, stopFlag>>

NextEntry ==
    /\ Walking("next") \/ (Walking("file") /\ This.of = None)
    /\ Turn([Top EXCEPT !.off = @ + Top.size, !.at = "aligned"])
    /\ UNCHANGED <<fs, first, fixing, pc, seg, map, hasError, fixed, stopFlag>>

\* fsckCheckSelfEntry, fsckCheckParentEntry: another entry with a name that is taken
\* for ".." is made to lead to the parent too.
CheckDots ==
    LET target == IF This.name = "." THEN Top.dir ELSE Top.parent
    IN /\ Walking("file") /\ This.of # None /\ This.name \in Dots
       /\ IF This.of = target THEN Fine ELSE Fix(SetHere([Here EXCEPT ![Top.off].of = target]))
       /\ Turn([Top EXCEPT !.at = "next"])
       /\ UNCHANGED <<first, fixing, pc, seg, map, stopFlag>>

\* fsckCheckFile, up to the check of the inode.
CheckFile ==
    LET x == This.of
    IN /\ Walking("file") /\ x # None /\ This.name \notin Dots
       /\ Turn([Top EXCEPT !.at = "next"])
       /\ IF Len(stack) > MaxDepth - 1
          THEN NotFixed /\ UNCHANGED <<pc, seg>>
          ELSE /\ IF This.type = "file" /\ x \in fs.badAttrs
                  THEN Fix([fs EXCEPT !.badAttrs = @ \ {x}]) ELSE Fine
               /\ pc' = "segments" /\ seg' = [ino |-> x, i |-> 1]
       /\ UNCHANGED <<first, fixing, map, stopFlag>>

\* The next sector is read; the zones of the directory may be fewer than its
\* size says.
NextSector ==
    /\ pc = "walk" /\ stack # <<>> /\ Top.off >= Sector /\ ~stopFlag /\ Top.k < Len(Sectors)
    /\ IF DataZones(Segs(Top.dir)) > Top.k
       THEN Turn([Walk(Top.dir, Top.parent) EXCEPT !.k = Top.k + 1]) /\ Fine
       ELSE stack' = Front(stack) /\ NotFixed
    /\ UNCHANGED <<first, fixing, pc, seg, map, stopFlag>>

LeaveDirectory ==
    /\ pc = "walk" /\ stack # <<>>
    /\ stopFlag \/ (Top.off >= Sector /\ Top.k = Len(Sectors))
    /\ stack' = Front(stack)
    /\ UNCHANGED <<fs, first, fixing, pc, seg, map, hasError, fixed, stopFlag>>

FilesChecked ==
    /\ pc = "walk" /\ stack = <<>>
    /\ pc' = IF ~hasError /\ ~stopFlag THEN "compare" ELSE "finish"
    /\ UNCHANGED <<fs, first, fixing, stack, seg, map, hasError, fixed, stopFlag>>

-----------------------------------------------------------------------------
(* The end of FsckThread.                                                  *)

\* fsckCompareBitmap reads the map from its start for each partition.  (The
\* v1.10 build does not count what it replaces as an error.)
Made(s) == ZonesOf(s) \cap map
CompareBitmap ==
    /\ pc = "compare"
    /\ IF \A s \in Subs : fs.bits[s] = Made(s) THEN Fine
       ELSE IF fixing THEN fs' = [fs EXCEPT !.bits = [s \in Subs |-> Made(s)]] /\ UNCHANGED <<hasError, fixed>>
       ELSE NotFixed
    /\ pc' = "finish"
    /\ UNCHANGED <<first, fixing, stack, seg, map, stopFlag>>

\* A slip: the error bit is cleared after a check that was stopped.
Finish_Stopped ==
    /\ pc = "finish"
    /\ fs' = [fs EXCEPT !.writeError = @ /\ hasError, !.errorsFixed = @ \/ fixed]
    /\ pc' = "ended"
    /\ UNCHANGED <<first, fixing, stack, seg, map, hasError, fixed, stopFlag>>

\* The super block: the error bit is cleared, ERRORS_FIXED is set.
Finish ==
    /\ pc = "finish"
    /\ fs' = [fs EXCEPT !.writeError = @ /\ (hasError \/ stopFlag), !.errorsFixed = @ \/ fixed]
    /\ pc' = "ended"
    /\ UNCHANGED <<first, fixing, stack, seg, map, hasError, fixed, stopFlag>>

FsckThread ==
    \/ CheckAttribute \/ CheckSegment \/ CutBadSegment \/ LeaveUnmarked \/ CutOverlap
    \/ SegmentsChecked \/ RootChecked \/ NextSector \/ LeaveDirectory
    \/ CheckAligned \/ CheckEnough \/ CheckEnd \/ NextEntry \/ CheckDots \/ CheckFile
    \/ FilesChecked
    \/ CompareBitmap \/ Finish

Next == FsckOpen \/ FsckStart \/ FsckStop \/ FsckClose \/ FsckThread

Spec == Init /\ [][Next]_vars
FairSpec == Spec /\ WF_vars(FsckThread)

-----------------------------------------------------------------------------

\* The entries of directories that name an inode, as <<directory, sector, offset>>.
Named(f, e) == f.dir[e[1]][e[2]][e[3]].of
Naming(f, d) ==
    {e \in UNION {{<<d, k, o>> : o \in Parsed(f.dir[d][k])} : k \in 1 .. Len(f.dir[d])} :
        Named(f, e) # None /\ f.dir[d][e[2]][e[3]].name \notin Dots}
Children(f, d) == {Named(f, e) : e \in Naming(f, d)}

\* What is reached from X, and from the root.
Below(f, X) ==
    LET kids == [d \in DOMAIN f.dir |-> Children(f, d)]
    IN  {x \in DOMAIN f.inode : \A S \in SUBSET DOMAIN f.inode :
            X \subseteq S /\ (\A d \in S \cap DOMAIN f.dir : kids[d] \subseteq S) => x \in S}
Reached(f) == Below(f, {Root})

\* Inodes with two names, or below one that has two: fsck comes to them twice.
Names(f) == UNION {Naming(f, d) : d \in Reached(f) \cap DOMAIN f.dir}
Doubled(f) ==
    {x \in DOMAIN f.inode : \E e, g \in Names(f) :
        Named(f, e) = x /\ Named(f, g) = x /\ (e # g \/ x = Root)}
Tangled(f) == Below(f, Doubled(f))

Owned(f, x) == UNION {Covers(f.inode[x].segs[i]) : i \in 1 .. Len(f.inode[x].segs)}
Alone(f, x) ==
    /\ \A i, j \in 1 .. Len(f.inode[x].segs) : i # j => Covers(f.inode[x].segs[i]) \cap Covers(f.inode[x].segs[j]) = {}
    /\ \A y \in Reached(f) \ {x} : Owned(f, x) \cap Owned(f, y) = {}
    /\ \A z \in Owned(f, x) : z[2] \notin Reserved[z[1]]
InsideVolume(f, x) ==
    \A i \in 1 .. Len(f.inode[x].segs) :
        LET bi == f.inode[x].segs[i]
        IN bi.sub \in Subs /\ bi.cnt > 0 /\ \A z \in Zones(bi) : z \in FirstZone .. Size[bi.sub] - 1

\* Every variable has its type, and the walk is inside the tree.
TypeOK ==
    /\ pc \in {"closed", "open", "ended", "gaveup"} \/ Running
    /\ hasError \in BOOLEAN /\ fixed \in BOOLEAN /\ stopFlag \in BOOLEAN /\ fixing \in BOOLEAN
    /\ map \subseteq 0 .. ZoneMap[NumSubs + 1] - 1
    /\ \A s \in Subs : fs.bits[s] \subseteq ZonesOf(s)
    /\ \A n \in 1 .. Len(stack) :
          /\ stack[n].dir \in DOMAIN fs.dir /\ stack[n].k \in 1 .. Len(fs.dir[stack[n].dir])
          /\ stack[n].off \in DOMAIN fs.dir[stack[n].dir][stack[n].k] \cup {Sector}
    /\ Len(stack) <= MaxDepth

\* An entry too small for its name that cannot have the rest of the sector:
\* fsckCheckFiles skips what follows it.
Skipping(f) ==
    \E d \in Reached(f) \cap DOMAIN f.dir : \E k \in 1 .. Len(f.dir[d]) : \E o \in Parsed(f.dir[d][k]) :
        f.dir[d][k][o].len < f.dir[d][k][o].need /\ f.dir[d][k][o].need >= Sector - o

FilesSound ==
    \A x \in Reached(fs) :
        /\ InsideVolume(fs, x) /\ Alone(fs, x)
        /\ \A z \in Owned(fs, x) : z[1] = 0 => z[2] \in fs.bits[0]

\* README-fsck: the bitmap is compared "against the bitmap that it generates, as
\* it checks through all files", and then the error bit is cleared: no zone has
\* two owners, and every zone with an owner is marked.
AllFilesChecked == first.writeError /\ ~fs.writeError => FilesSound

\* FsckThread clears the error bit of the super block only when no zone has two
\* owners, none is outside its partition, and every zone with an owner is marked
\* in the bitmap, unless entries were skipped: the filesystem may be written again.
ClearedMeansSound ==
    first.writeError /\ ~fs.writeError /\ ~Skipping(first) => FilesSound

\* Where ".." may lead: to a directory with an entry for this one.
UpOf(f, d) == {p \in DOMAIN f.dir : d \in Children(f, p)} \cup (IF d = Root THEN {Root} ELSE {})
LeadsRight(f, d, e) == (e.name = "." => e.of = d) /\ (e.name \in Up => e.of \in UpOf(f, d))

\* No entry ends after its sector: such an entry goes, with its wrong length, to the
\* entry before it, which fsckCheckFiles has already passed.
Fits(sec) == \A o \in Parsed(sec) : sec[o].len % Align = 0 => o + sec[o].len <= Sector
Closed(sec) == \E o \in Parsed(sec) : o + sec[o].len = Sector

\* After a check that has left no error, and has skipped no entries: every entry is
\* aligned and has room for its name, "." is the directory, ".." a directory that has
\* it, and the entries follow one another up to the end of the sector, if none of it
\* was too long for the sector (fsckCheckFiles, fsckFixDEntry).
DirectoriesMended ==
    pc = "ended" /\ ~hasError /\ ~stopFlag /\ ~Skipping(first) =>
        \A d \in Reached(fs) \cap DOMAIN fs.dir : \A k \in 1 .. Len(fs.dir[d]) :
            /\ \A o \in Parsed(fs.dir[d][k]) :
                  LET e == fs.dir[d][k][o]
                  IN  e.len % Align = 0 /\ e.len >= e.need /\ (e.of # None => LeadsRight(first, d, e))
            /\ Fits(first.dir[d][k]) => Closed(fs.dir[d][k])

\* The walk stays inside the tree, and no inode loses segments unless its zones
\* are outside the volume, unreadable or somebody else's, or the tree leads to it
\* twice, however the rest of the filesystem is damaged (fsckCheckDentryInode).
HealthyKept ==
    /\ TypeOK
    /\ \A x \in DOMAIN fs.inode :
        fs.inode[x] # first.inode[x] =>
            \/ ~InsideVolume(first, x) \/ ~Alone(first, x) \/ Owned(first, x) \cap first.badZones # {}
            \/ x \in Tangled(first)

\* The thread ends: WAIT returns.
CheckEnds == (pc = "attribute") ~> (pc \in {"ended", "gaveup"})

=============================================================================
