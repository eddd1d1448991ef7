-------------------------------- MODULE Fssk --------------------------------
(***************************************************************************)
(* fssk: the trimmer of a PFS filesystem.  It counts how many of the last  *)
(* sub-partitions can be given up, walks the tree of directories to move   *)
(* what lies in them, lowers num_subs in the super blocks and deletes the  *)
(* sub-partitions.  Opening it mounts the filesystem (pfsMountSuperBlock), *)
(* which formats the sub-partitions that num_subs does not count.          *)
(*                                                                         *)
(* Metadata is written back as one (PfsCache): "disk" is what a mount      *)
(* would find.  The contents of zones are copied directly.                 *)
(***************************************************************************)
EXTENDS PfsZones

CONSTANTS
    Root,      \* where the inode of the root directory is
    Images,    \* filesystems to start from
    MinFree,   \* minFree, the percentage of zones that stays free
    MaxDepth,  \* FSSK_MAX_PATH_LEVELS
    MaxFaults  \* losses of power and transfers that fail

-----------------------------------------------------------------------------
(* The filesystems fssk is started on.                                     *)

\* data[] up to number_data; what was never written there is zero.
Data(x) == [i \in 1 .. x.n |-> IF i <= Len(x.data) THEN x.data[i] ELSE Segment(0, 0, 0)]
Owned(d, x) == UNION {Covers(bi) : bi \in {Data(d.inode[x])[i] : i \in 1 .. d.inode[x].n}}
Marked(d, Z) == \A z \in Z : z[2] \in d.used[z[1]]

Entries(d, x) == UNION {Range(d.dir[x][k]) : k \in 1 .. Len(d.dir[x])}

\* A tree of directories with nothing wrong in it: every inode is where its first
\* segment is, the zones of an inode are marked and its own.
WellFormed(d) ==
    /\ d = [inode |-> d.inode, dir |-> d.dir, used |-> d.used]
    /\ d.used \in [Subs -> SUBSET Nat]
    /\ \A s \in Subs : Reserved[s] \subseteq d.used[s] /\ d.used[s] \subseteq ZonesOf(s)
    /\ Root \in DOMAIN d.dir /\ DOMAIN d.dir \subseteq DOMAIN d.inode
    /\ \A x \in DOMAIN d.inode :
        /\ d.inode[x].mode = IF x \in DOMAIN d.dir THEN "dir" ELSE "file"
        /\ d.inode[x].data \in Seq(Segments)
        /\ d.inode[x].n = Len(d.inode[x].data) /\ d.inode[x].n > 0
        /\ \A i \in 1 .. d.inode[x].n :
              LET bi == d.inode[x].data[i] IN bi.cnt \in 1 .. CountMax /\ bi.num + bi.cnt <= Size[bi.sub]
        /\ x = <<d.inode[x].data[1].sub, d.inode[x].data[1].num>>
        /\ Marked(d, Owned(d, x)) /\ \A z \in Owned(d, x) : z[2] \notin Reserved[z[1]]
        /\ \A i, j \in 1 .. d.inode[x].n : i # j => Covers(d.inode[x].data[i]) \cap Covers(d.inode[x].data[j]) = {}
    /\ \A x, y \in DOMAIN d.inode : x # y => Owned(d, x) \cap Owned(d, y) = {}
    /\ \A x \in DOMAIN d.dir : d.dir[x] \in Seq(Seq(DOMAIN d.inode)) /\ d.dir[x] # <<>>
    /\ \A S \in SUBSET DOMAIN d.dir :
        Root \in S /\ (\A x \in S : Entries(d, x) \cap DOMAIN d.dir \subseteq S) => S = DOMAIN d.dir

\* fsskRuntimeData.minFree is 3, and no less is accepted.
ASSUME FsskAssumption ==
    /\ \A d \in Images : WellFormed(d)
    /\ CountMax <= 65535
    /\ MinFree \in Nat /\ MinFree >= 3
    /\ MaxDepth \in Nat /\ MaxFaults \in Nat

VARIABLES
    fs, vol,       \* inodes and directories, bitmaps and counts: the cache
    disk,          \* the same as far as it has been written
    content,       \* of each zone: the zone that what is there was first in, or Torn
    main, backup,  \* num_subs in the super block and in its backup
    present,       \* sub-partitions the partition has
    lastError,     \* of the mount: nothing is read or written any more
    first,         \* what disk was at first
    pc, parts,     \* where the thread is, partsDeleted
    stack,         \* the directories being walked, the next entry of each
    mv,            \* the inode being moved
    stopFlag, faults

metadata == <<fs, vol, disk>>
supers   == <<main, backup, present>>
vars == <<fs, vol, disk, content, main, backup, present, lastError, first,
          pc, parts, stack, mv, stopFlag, faults>>

Fault == faults < MaxFaults /\ faults' = faults + 1

Walking == pc \in {"walk", "move", "segment", "copy"}
NotMoving == [old |-> Root, new |-> Root, data |-> <<>>, n |-> 0, i |-> 0, rest |-> Segment(0, 0, 0),
              wrapped |-> FALSE]
Torn == <<>>

Init ==
    /\ disk \in Images /\ first = disk
    /\ fs = [inode |-> disk.inode, dir |-> disk.dir] /\ vol = Formatted
    /\ content = [z \in UNION {{s} \X ZonesOf(s) : s \in Subs} |-> z]
    /\ main = NumSubs /\ backup = NumSubs /\ present = NumSubs
    /\ lastError = FALSE /\ pc = "closed" /\ parts = 0 /\ stack = <<>> /\ mv = NotMoving
    /\ stopFlag = FALSE /\ faults = 0

-----------------------------------------------------------------------------
(* FsskOpen: pfsMountSuperBlock.                                           *)

CalcFreeZones(used) == [s \in Subs |-> Size[s] - Cardinality(used[s])]

Open ==
    /\ pc = "closed" /\ main = present
    /\ fs' = [inode |-> disk.inode, dir |-> disk.dir]
    /\ vol' = [used |-> disk.used, free |-> CalcFreeZones(disk.used)]
    /\ lastError' = FALSE /\ stopFlag' = FALSE /\ parts' = 0 /\ pc' = "open"
    /\ UNCHANGED <<disk, content, supers, first, stack, mv, faults>>

\* pfsUpdateSuperBlock: the bitmaps of what is new, then the super block, then
\* its backup.
FormatSubs ==
    /\ pc = "closed" /\ main < present
    /\ disk' = [disk EXCEPT !.used = [s \in Subs |-> IF s \in main + 1 .. present THEN Reserved[s] ELSE @[s]]]
    /\ pc' = "formatted"
    /\ UNCHANGED <<fs, vol, content, supers, lastError, first, parts, stack, mv, stopFlag, faults>>
CountSubs ==
    /\ pc = "formatted" /\ main' = present /\ pc' = "counted"
    /\ UNCHANGED <<metadata, content, backup, present, lastError, first, parts, stack, mv, stopFlag, faults>>
CountSubsInBackup ==
    /\ pc = "counted" /\ backup' = present /\ pc' = "closed"
    /\ UNCHANGED <<metadata, content, main, present, lastError, first, parts, stack, mv, stopFlag, faults>>

\* pfsMountSuperBlock fails and FsskOpen succeeds, as "result" is the one of getstat:
\* what is asked of this file goes to a mount that is not there, and is not modelled.
OpenFails ==
    /\ pc \in {"closed", "formatted", "counted"} /\ pc' = "astray"
    /\ UNCHANGED <<metadata, content, supers, lastError, first, parts, stack, mv, stopFlag, faults>>

\* The mount and the cache are cleared.
Forgotten ==
    /\ fs' = [inode |-> disk'.inode, dir |-> disk'.dir] /\ vol' = Formatted
    /\ lastError' = FALSE /\ stopFlag' = FALSE /\ parts' = 0

Close ==
    /\ pc = "ended" /\ pc' = "closed" /\ UNCHANGED disk /\ Forgotten
    /\ UNCHANGED <<content, supers, first, stack, mv, faults>>

Stop ==
    /\ Walking /\ ~stopFlag /\ stopFlag' = TRUE
    /\ UNCHANGED <<metadata, content, supers, lastError, first, pc, parts, stack, mv, faults>>

-----------------------------------------------------------------------------
(* What is to be removed and what is to be moved.                          *)

SumTo(f, n) ==
    LET sum[s \in 0 .. n] == IF s = 0 THEN 0 ELSE sum[s - 1] + f[s]
    IN  sum[n]

\* A slip: the zones in use in what is removed need no room elsewhere.
CalculateSpaceToRemove_Full(free, subs) ==
    LET zfree(n) == free[0] + SumTo(free, subs) - (SumTo(free, subs) - SumTo(free, subs - n))
        Enough(n) == (zfree(n) * 100) \div (Size[0] + SumTo(Size, subs - n)) >= MinFree
    IN Max({n \in 0 .. subs : \A k \in 1 .. n : Enough(k)})

\* fsskCalculateSpaceToRemove: a sub-partition counts with all its zones for what
\* has to be moved, and what is free in it is free no more.
CalculateSpaceToRemove(free, subs) ==
    LET zfree(n) == free[0] + SumTo(free, subs - n) - (SumTo(Size, subs) - SumTo(Size, subs - n))
        Enough(n) == zfree(n) >= 0 /\ (zfree(n) * 100) \div (Size[0] + SumTo(Size, subs - n)) >= MinFree
    IN Max({n \in 0 .. subs : \A k \in 1 .. n : Enough(k)})

NumberBlocks(x) == SumTo([k \in 1 .. x.n |-> Data(x)[k].cnt], x.n)

\* A slip: the last sub-partition that stays is taken for one that goes.
HasSpaceToFree_Late(x) == \E i \in 1 .. x.n : Data(x)[i].sub > main - parts + 1

HasSpaceToFree(x) == \E i \in 1 .. x.n : Data(x)[i].sub > main - parts

\* fsckBitmapSearchFreeZoneSpecial: "bi" is in a partition that stays, and its
\* partition, not its zone, is set to 0.  The counter is unsigned as it is in
\* pfsBitmapSearchFreeZone: NoSpace stands for a loop without end.
SearchFreeZoneSpecial(bi, max_count) ==
    LET stay    == main - parts + 1
        c       == Wanted(bi, max_count)
        From(k) == IF k = 0 THEN bi.num ELSE 0
        turns   == {k \in 0 .. stay : Fitting(vol, k % stay, From(k), c) # {}}
        found   == Best(vol, Min(turns) % stay, From(Min(turns)), c, bi.cnt)
    IN  IF turns = {} THEN NoSpace ELSE [vol |-> Mark(vol, found), bi |-> found]

\* A slip: one zone more than was found is copied.
Copied_Past(from, to, n) ==
    [z \in DOMAIN content |->
        IF z[1] = to.sub /\ z[2] - to.num \in 0 .. n /\ from.num + z[2] - to.num < Size[from.sub]
        THEN content[<<from.sub, from.num + z[2] - to.num>>] ELSE content[z]]

\* fsskCopyBlock, as far as the end of the partition that is read.
Copied(from, to, n) ==
    [z \in DOMAIN content |->
        IF z[1] = to.sub /\ z[2] - to.num \in 0 .. n - 1 /\ from.num + z[2] - to.num < Size[from.sub]
        THEN content[<<from.sub, from.num + z[2] - to.num>>] ELSE content[z]]

CopyFits(from, n) == from.num + n <= Size[from.sub]

\* A transfer fails after k zones, as it always does at that end.
CopyCut(from, to, k) ==
    /\ CopyFits(from, k) /\ IF CopyFits(from, k + 1) THEN Fault ELSE UNCHANGED faults
    /\ content' \in {Copied(from, to, k), [Copied(from, to, k) EXCEPT ![<<to.sub, to.num + k>>] = Torn]}

-----------------------------------------------------------------------------
(* FsskThread, fsskCheckFiles, fsskCheckFile.                              *)

Meta == [inode |-> fs.inode, dir |-> fs.dir, used |-> vol.used]

Start ==
    LET n == CalculateSpaceToRemove(vol.free, main)
    IN /\ pc = "open" /\ parts' = n
       /\ pc' = IF n = 0 THEN "ended" ELSE "root"
       /\ UNCHANGED <<metadata, content, supers, lastError, first, stack, mv, stopFlag, faults>>

\* A directory cannot be moved: the loop of fsskCalcLastSub has no end.
CheckRoot ==
    /\ pc = "root"
    /\ IF HasSpaceToFree(fs.inode[Root]) THEN pc' = "hung" /\ UNCHANGED stack
       ELSE pc' = "walk" /\ stack' = <<[dir |-> Root, j |-> 1]>>
    /\ UNCHANGED <<metadata, content, supers, lastError, first, parts, mv, stopFlag, faults>>

\* The entries of a chunk start again at its beginning for each sector of the
\* directory: only the first sector is looked at.
Top    == Last(stack)
Seen   == fs.dir[Top.dir][1]
This   == Seen[Top.j]
Onward == [stack EXCEPT ![Len(stack)].j = @ + 1]

CheckFile ==
    LET x == fs.inode[This]
    IN /\ pc = "walk" /\ stack # <<>> /\ ~stopFlag /\ Top.j <= Len(Seen)
       /\ IF Len(stack) > MaxDepth - 1 THEN pc' = "failed" /\ UNCHANGED <<stack, mv>>
          ELSE IF HasSpaceToFree(x) /\ x.mode = "dir" THEN pc' = "hung" /\ UNCHANGED <<stack, mv>>
          ELSE IF HasSpaceToFree(x) THEN pc' = "move" /\ mv' = [NotMoving EXCEPT !.old = This] /\ UNCHANGED stack
          ELSE /\ stack' = IF x.mode = "dir" THEN Append(Onward, [dir |-> This, j |-> 1]) ELSE Onward
               /\ UNCHANGED <<pc, mv>>
       /\ UNCHANGED <<metadata, content, supers, lastError, first, parts, stopFlag, faults>>

LeaveDirectory ==
    /\ pc = "walk" /\ stack # <<>> /\ (stopFlag \/ Top.j > Len(Seen))
    /\ stack' = Front(stack)
    /\ UNCHANGED <<metadata, content, supers, lastError, first, pc, parts, mv, stopFlag, faults>>

\* An inode or a sector of a directory cannot be read.
ReadFails ==
    /\ \/ pc = "root" /\ pc' = "ended"
       \/ pc = "walk" /\ stack # <<>> /\ pc' = "failed"
    /\ Fault /\ lastError' = TRUE
    /\ UNCHANGED <<metadata, content, supers, first, parts, stack, mv, stopFlag>>

\* A buffer is needed for another block: all that is dirty is written.
WriteBack ==
    /\ Walking /\ ~lastError /\ disk # Meta /\ disk' = Meta
    /\ UNCHANGED <<fs, vol, content, supers, lastError, first, pc, parts, stack, mv, stopFlag, faults>>

-----------------------------------------------------------------------------
(* fsskMoveInode.  The copy of the inode still lists the old segments; what *)
(* is added is stored behind them, each time in the same place.            *)

FirstZone == SearchFreeZoneSpecial(Segment(Top.dir[1], Top.dir[2], 1), NumberBlocks(fs.inode[mv.old]))
OldZone   == Segment(mv.old[1], mv.old[2], 1)

MoveBegin ==
    LET x == fs.inode[mv.old]
        f == FirstZone
    IN /\ pc = "move"
       /\ IF f = NoSpace THEN pc' = "hung" /\ UNCHANGED <<vol, content, mv>>
          ELSE /\ vol' = f.vol
               /\ content' = Copied(OldZone, f.bi, 1)
               /\ mv' = [mv EXCEPT !.new = <<f.bi.sub, f.bi.num>>, !.n = 1, !.i = 1,
                                   !.data = [x.data EXCEPT ![1] = f.bi]]
               /\ pc' = "segment"
       /\ UNCHANGED <<fs, disk, supers, lastError, first, parts, stack, stopFlag, faults>>

\* The zone is not copied, or there is no buffer for the inode: it is given back.
MoveBeginFails ==
    LET f == FirstZone
    IN /\ pc = "move" /\ f # NoSpace
       /\ \/ CopyCut(OldZone, f.bi, 0) /\ UNCHANGED lastError
          \/ content' = Copied(OldZone, f.bi, 1) /\ Fault /\ lastError' \in BOOLEAN
       /\ vol' = FreeBlockSegment(f.vol, f.bi) /\ pc' = "failed"
       /\ UNCHANGED <<fs, disk, supers, first, parts, stack, mv, stopFlag>>

\* A bitmap cannot be read, nor then any other: the search does not end.
SearchFails ==
    /\ pc = "move" \/ (pc = "copy" /\ mv.rest.cnt # 0)
    /\ Fault /\ pc' = "hung" /\ lastError' = TRUE
    /\ UNCHANGED <<metadata, content, supers, first, parts, stack, mv, stopFlag>>

\* pfsBitmapFreeInodeBlocks(clink): the copy lists the zones of the original.
Undone(v, m) == FreeSegments(v, Data(m))
Fails(v, m) == vol' = Undone(v, m) /\ mv' = m /\ pc' = "failed"

\* The zones after the new inode's own are taken first, unless it is the first
\* segment.
MoveSegment ==
    LET x  == fs.inode[mv.old]
        b  == Data(x)[mv.i + 1]
        n  == IF mv.n = 1 THEN 0 ELSE Additional(vol, mv.data[1], b.cnt)
        v  == Expanded(vol, mv.data[1], n)
        m  == [mv EXCEPT !.i = @ + 1, !.data[1].cnt = @ + n, !.rest = Segment(b.sub, b.num + n, b.cnt - n)]
        to == Segment(mv.data[1].sub, mv.data[1].num + mv.data[1].cnt, n)
    IN /\ pc = "segment" /\ mv.i < x.n
       /\ \/ CopyFits(b, n) /\ content' = Copied(b, to, n) /\ vol' = v /\ mv' = m /\ pc' = "copy"
             /\ UNCHANGED faults
          \/ \E k \in 0 .. n - 1 : CopyCut(b, to, k) /\ Fails(v, m)
       /\ UNCHANGED <<fs, disk, supers, lastError, first, parts, stack, stopFlag>>

Store(data, i, bi) == IF i <= Len(data) THEN [data EXCEPT ![i] = bi] ELSE Append(data, bi)

\* The count of what is left is lowered by one more than was copied, and wraps.
CopyRest ==
    LET x == fs.inode[mv.old]
        d == mv.data[1]
        f == SearchFreeZoneSpecial(Segment(d.sub, d.num + d.cnt, mv.rest.cnt), NumberBlocks(x))
        c == f.bi.cnt
        m == [mv EXCEPT !.data = Store(@, x.n + 1, f.bi), !.n = @ + 1,
                        !.rest = Segment(@.sub, @.num + c, (@.cnt - c - 1) % (CountMax + 1)),
                        !.wrapped = @ \/ c = mv.rest.cnt]
    IN /\ pc = "copy" /\ mv.rest.cnt # 0
       /\ \/ f = NoSpace /\ pc' = "hung" /\ UNCHANGED <<vol, content, mv, faults>>
          \/ /\ f # NoSpace /\ CopyFits(mv.rest, c) /\ content' = Copied(mv.rest, f.bi, c)
             /\ vol' = f.vol /\ mv' = m /\ UNCHANGED <<pc, faults>>
          \/ f # NoSpace /\ \E k \in 0 .. c - 1 : CopyCut(mv.rest, f.bi, k) /\ Fails(f.vol, m)
       /\ UNCHANGED <<fs, disk, supers, lastError, first, parts, stack, stopFlag>>

SegmentMoved ==
    /\ pc = "copy" /\ mv.rest.cnt = 0 /\ pc' = "segment"
    /\ UNCHANGED <<metadata, content, supers, lastError, first, parts, stack, mv, stopFlag, faults>>

WithInode(inodes, at, node) == [x \in DOMAIN inodes \cup {at} |-> IF x = at THEN node ELSE inodes[x]]

\* The entry has the new inode, and the old one's zones are free.  Then the new
\* inode is read from where it is not (its partition and its zone are exchanged),
\* which is an error of the mount: from then on nothing is written.
MoveEnd ==
    LET moved == [inode |-> WithInode(fs.inode, mv.new, [mode |-> "file", data |-> mv.data, n |-> mv.n]),
                  dir   |-> [fs.dir EXCEPT ![Top.dir][1][Top.j] = mv.new]]
        freed == FreeSegments(vol, Data(fs.inode[mv.old]))
    IN /\ pc = "segment" /\ mv.i = fs.inode[mv.old].n
       /\ fs' = moved /\ vol' = freed
       /\ disk' \in {disk, [inode |-> moved.inode, dir |-> moved.dir, used |-> freed.used]}
       /\ lastError' = TRUE /\ pc' = "failed"
       /\ UNCHANGED <<content, supers, first, parts, stack, mv, stopFlag, faults>>

-----------------------------------------------------------------------------
(* The end of FsskThread.                                                  *)

Written == IF lastError THEN disk ELSE Meta

\* pfsCacheFlushAllDirty; a walk that failed or was stopped removes nothing.
Flush ==
    /\ pc = "failed" \/ (pc = "walk" /\ stack = <<>>)
    /\ disk' = Written
    /\ pc' = IF pc = "failed" \/ stopFlag THEN "ended" ELSE "backup"
    /\ stack' = <<>> /\ mv' = NotMoving
    /\ UNCHANGED <<fs, vol, content, supers, lastError, first, parts, stopFlag, faults>>

\* A transfer that fails ends the thread.
GiveUp ==
    /\ pc \in {"backup", "main"} /\ pc' = "ended"
    /\ UNCHANGED <<metadata, content, supers, lastError, first, parts, stack, mv, stopFlag, faults>>

UpdateBackup ==
    /\ pc = "backup" /\ backup' = main - parts /\ pc' = "main"
    /\ UNCHANGED <<metadata, content, main, present, lastError, first, parts, stack, mv, stopFlag, faults>>

\* A slip: the sub-partitions are deleted before the super block is written.
UpdateMain_Last ==
    \/ /\ pc = "main" /\ present > main - parts /\ present' = present - 1
       /\ UNCHANGED <<metadata, content, main, backup, lastError, first, pc, parts, stack, mv, stopFlag, faults>>
    \/ /\ pc = "main" /\ present = main - parts /\ main' = present /\ pc' = "ended"
       /\ UNCHANGED <<metadata, content, backup, present, lastError, first, parts, stack, mv, stopFlag, faults>>

UpdateMain ==
    /\ pc = "main" /\ main' = main - parts /\ pc' = "delete"
    /\ UNCHANGED <<metadata, content, backup, present, lastError, first, parts, stack, mv, stopFlag, faults>>

\* HIOCDELSUB, whose result is not looked at.
DeleteSub ==
    /\ pc = "delete" /\ parts > 0 /\ parts' = parts - 1
    /\ present' \in {present, present - 1}
    /\ UNCHANGED <<metadata, content, main, backup, lastError, first, pc, stack, mv, stopFlag, faults>>

SubsDeleted ==
    /\ pc = "delete" /\ parts = 0 /\ pc' = "ended"
    /\ UNCHANGED <<metadata, content, supers, lastError, first, parts, stack, mv, stopFlag, faults>>

\* The power fails.  While the metadata is written the journal has all of it, be
\* there an error of the mount or not.
Crash ==
    /\ pc # "closed" /\ Fault
    /\ disk' \in IF pc = "failed" \/ (pc = "walk" /\ stack = <<>>) THEN {disk, Meta} ELSE {disk}
    /\ pc' = "closed" /\ stack' = <<>> /\ mv' = NotMoving /\ Forgotten
    /\ UNCHANGED <<content, supers, first>>

FsskThread ==
    \/ Start \/ CheckRoot \/ CheckFile \/ LeaveDirectory \/ ReadFails
    \/ MoveBegin \/ MoveBeginFails \/ SearchFails \/ MoveSegment \/ CopyRest \/ SegmentMoved \/ MoveEnd \/ Flush
    \/ GiveUp \/ UpdateBackup \/ UpdateMain \/ DeleteSub \/ SubsDeleted

Next == Open \/ FormatSubs \/ CountSubs \/ CountSubsInBackup \/ OpenFails \/ Close \/ Stop \/ WriteBack \/ FsskThread
        \/ Crash

Spec == Init /\ [][Next]_vars

-----------------------------------------------------------------------------

\* The inodes that are reached from the root.
Reached(d) ==
    LET reach[n \in 0 .. MaxDepth] ==
            IF n = 0 THEN {Root}
            ELSE reach[n - 1] \cup UNION {Entries(d, x) : x \in reach[n - 1] \cap DOMAIN d.dir}
    IN reach[MaxDepth]

\* However far the trimming has come when the power fails, the filesystem does
\* not count more sub-partitions than there are: pfsMountSuperBlock refuses one
\* that is "larger than partition", by its super block or, after fsck, its backup.
Mountable == main <= present /\ backup <= present

\* What lies in the main partition keeps its inode, its zones and their contents,
\* whatever is moved around it, and however that fails.
UnmovedKept ==
    \A x \in Reached(first) :
        (\A z \in Owned(first, x) : z[1] = 0) =>
            /\ x \in Reached(disk) /\ disk.inode[x] = first.inode[x]
            /\ Marked(disk, Owned(first, x)) /\ \A z \in Owned(first, x) : content[z] = z

\* The super block stops counting a sub-partition only when no inode has zones in
\* it, as far as fsskCheckFiles sees the entries of the directories.
OneSector(d) == \A x \in DOMAIN d.dir : Len(d.dir[x]) = 1
RemovedIsEmpty ==
    [][main' < main /\ OneSector(first) =>
        \A x \in Reached(disk) : \A z \in Owned(disk, x) : z[1] <= main']_vars

\* There is room for all that has to be moved: the thread goes round without end for
\* a file only if a bitmap cannot be read, if the count of what is left to copy has
\* wrapped, if an earlier move left the inode as it is, or if the file also lies in a
\* partition that stays, as no room is counted for what is copied from there.
HangsOnlyOnData ==
    pc = "hung" =>
        \/ stack = <<>> \/ (Len(Seen) >= Top.j /\ fs.inode[This].mode = "dir")
        \/ lastError \/ mv.wrapped
        \/ mv.old \notin DOMAIN first.inode \/ fs.inode[mv.old] # first.inode[mv.old]
        \/ \E z \in Owned(first, mv.old) : z[1] \notin main - parts + 1 .. main

\* README-fssk: the module is "for reducing internal fragmentation": every entry
\* still leads to a file with what was in it.
FilesKept ==
    \A x \in DOMAIN first.dir : \A k \in 1 .. Len(first.dir[x]) : \A j \in 1 .. Len(first.dir[x][k]) :
        LET old == first.inode[first.dir[x][k][j]]
            new == disk.inode[disk.dir[x][k][j]]
            OldZones == FileZones(Data(old))
            NewZones == FileZones(Data(new))
        IN /\ [i \in DOMAIN NewZones |-> content[NewZones[i]]] = OldZones
           /\ Marked(disk, Owned(disk, disk.dir[x][k][j]))
           /\ \A z \in Owned(disk, disk.dir[x][k][j]) : z[1] <= main

=============================================================================
