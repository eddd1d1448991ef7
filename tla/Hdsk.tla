-------------------------------- MODULE Hdsk --------------------------------
(***************************************************************************)
(* The defragmenter of hdsk (HdskThread): it moves the last partitions of  *)
(* a size, or blocks of smaller ones, to the first free partition of that  *)
(* size.  The user may stop it and the power may fail at any step; it is   *)
(* then started again.                                                     *)
(*                                                                         *)
(* Every partition is taken to hold a game of HDLoader, whose first unit   *)
(* records where the data of the partition and its sub-partitions start.   *)
(***************************************************************************)
EXTENDS ApaChain

CONSTANTS
    MaxParts,     \* bound on the partitions of the drive, besides the MBR
    MaxSubs,      \* bound on its sub-partitions
    MaxLeft,      \* bound on partitions "_tmp", and sub-partitions in no list
    MaxSize,      \* partitionMaxSize
    CanStop,      \* whether the user may call HDSK_DEVCTL_STOP
    MaxMishaps    \* bound on stops, failing transfers of data and losses of power

VARIABLES
    data,       \* what each unit holds
    hdl,        \* the game information in each unit, or <<>>
    pc,         \* where the thread is
    back,       \* where hdskRemoveTmp returns to
    tmp, subs,  \* the partition hdskRemoveTmp removes, and its sub-partitions
    size,       \* PartSize
    dest, start,\* the headers MovePartition works on
    block,      \* MovePartitionsBlock is under way
    left,       \* what it has still to move
    halved,     \* SplitEmptyPartition has set its result
    copied,     \* units CopyPartition has copied
    stop, status, progress,   \* hdskStopFlag, hdskStatus, hdskProgress
    mishaps,    \* stops, failing transfers and losses of power so far
    files,      \* history: what the main partitions held at first
    broken,     \* history: a free partition has been split
    widest,     \* history: the largest free partition at first
    overTail    \* history: a partition was deleted with the last one free

tmpVars == <<back, tmp, subs>>
move    == <<dest, start, block, left, halved, copied>>
shared  == <<stop, status, progress>>
history == <<files, broken, widest, overTail>>
vars    == <<chainVars, data, hdl, pc, tmpVars, size, move, shared, mishaps, history>>

-----------------------------------------------------------------------------
(* The drives the defragmenter may find.                                   *)

\* Owners, with few sub-partitions.
FewSubs(S) ==
    LET P == S \ {Max(S)}
    IN  UNION {UNION {{[a \in P |-> IF a \in F THEN 0 ELSE IF a \in B THEN f[a] ELSE a] :
                  f \in [B -> P \ (F \cup B)]} :
              B \in {X \in SUBSET (P \ F) : Cardinality(X) <= MaxSubs}} :
          F \in SUBSET (P \ {Max(P)})}

SubsOf(d) == {a \in Data(d) : d[a].sub}
MainsOf(d) == Data(d) \ SubsOf(d)

\* Some main partitions are called "_tmp" and some sub-partitions are in no
\* list.  (Without sub-partitions, "_tmp" is what a loss of power leaves.)
Left(d, tmps, orphans) ==
    [a \in Addr |-> IF a \in tmps THEN [d[a] EXCEPT !.type = "tmp"]
                    ELSE IF a \in orphans THEN d[a]
                    ELSE IF d[a] # Bad
                    THEN [d[a] EXCEPT !.subs = SelectSeq(@, LAMBDA s : s[1] \notin orphans)]
                    ELSE d[a]]

\* The units of a partition, and what a main partition holds with its
\* sub-partitions.
UnitsOf(d, dt, a) == [k \in 1 .. d[a].len |-> dt[a + k - 1]]
File(d, dt, a) ==
    <<UnitsOf(d, dt, a)>> \o [k \in DOMAIN d[a].subs |->
        LET b == d[a].subs[k][1]
        IN  IF Readable(d, b) /\ d[b].sub /\ d[b].main = a
            THEN UnitsOf(d, dt, b) ELSE <<>>]
Files(d, dt) == {File(d, dt, a) : a \in MainsOf(d)}

\* The largest free partition, or what the drive has left after the last one.
WidestFree(d) ==
    LET last == Max(Reached(d, "next"))
    IN  Max({d[a].len : a \in {b \in Reached(d, "next") : IsFree(d[b])}}
            \cup {Units - last - d[last].len})

\* The information of a game: where its partitions start.
Parts(d, a) == <<a>> \o [k \in DOMAIN d[a].subs |-> d[a].subs[k][1]]

Init ==
    /\ \E S \in Layouts(MaxParts) : \E own \in FewSubs(S) :
        LET d == Drive(S, own)
        IN  \E tmps \in SUBSET {a \in MainsOf(d) : d[a].subs # <<>>},
               orphans \in SUBSET SubsOf(d) :
            /\ Cardinality(tmps \cup orphans) <= MaxLeft
            /\ disk = Left(d, tmps, orphans)
    /\ mem = disk /\ del = NotDeleting
    /\ data = [a \in Addr |-> a]
    /\ hdl = [a \in Addr |-> IF a \in MainsOf(disk) THEN Parts(disk, a) ELSE <<>>]
    /\ pc = "off" /\ back = "off" /\ tmp = 0 /\ subs = <<>> /\ size = 1
    /\ dest = 0 /\ start = 0 /\ block = FALSE /\ left = 0 /\ halved = FALSE
    /\ copied = 0
    /\ stop = FALSE /\ status = "ok" /\ progress = 0
    /\ mishaps = 0
    /\ files = Files(disk, data) /\ broken = FALSE /\ widest = WidestFree(disk)
    /\ overTail = FALSE

NoFlush == UNCHANGED <<mem, disk>>
Chain == Reached(mem, "next")

\* hdskRemoveTmp is called, and the thread goes on at l after it.
RemoveTmpThen(l) == pc' = "tmp" /\ back' = l

-----------------------------------------------------------------------------
(* hdskRemoveTmp: the first main partition "_tmp" goes, with its           *)
(* sub-partitions; then a sector of it is erased.                          *)

FindTmp ==
    /\ pc = "tmp"
    /\ LET tmps == {a \in Chain : mem[a].type = "tmp" /\ ~mem[a].sub}
       IN  IF tmps = {}
           THEN pc' = back /\ NoFlush /\ UNCHANGED <<tmp, subs>>
           ELSE /\ tmp' = Min(tmps)
                /\ subs' = mem[tmp'].subs
                /\ Flush({tmp'}, [mem EXCEPT ![tmp'].subs = <<>>])
                /\ pc' = "tmpSubs"
    /\ UNCHANGED <<del, data, hdl, back, size, move, shared, mishaps, history>>

\* What the properties need to know of a call of apaDelete.
OverTail == overTail' = (overTail \/ FreeTail(mem)) /\ UNCHANGED <<files, broken, widest>>

DeleteTmpSub ==
    /\ pc = "tmpSubs" /\ del = NotDeleting /\ subs # <<>>
    /\ del' = Deleting(Last(subs)[1])
    /\ subs' = Front(subs)
    /\ OverTail
    /\ NoFlush
    /\ UNCHANGED <<data, hdl, pc, back, tmp, size, move, shared, mishaps>>

DeleteTmp ==
    /\ pc = "tmpSubs" /\ del = NotDeleting /\ subs = <<>>
    /\ del' = Deleting(tmp)
    /\ pc' = "tmpErase"
    /\ OverTail
    /\ NoFlush
    /\ UNCHANGED <<data, hdl, tmpVars, size, move, shared, mishaps>>

Delete ==
    /\ DeleteStep
    /\ UNCHANGED <<data, hdl, pc, tmpVars, size, move, shared, mishaps, history>>

Erased == Units
EraseTmp ==
    /\ pc = "tmpErase" /\ del = NotDeleting
    /\ data' = [data EXCEPT ![tmp] = Erased]
    /\ pc' = back
    /\ NoFlush
    /\ UNCHANGED <<del, hdl, tmpVars, size, move, shared, mishaps, history>>

-----------------------------------------------------------------------------
(* The loops of HdskThread.                                                *)

HdskThread ==
    /\ pc = "off"
    /\ progress' = 0 /\ status' = "ok" /\ stop' = FALSE
    /\ size' = 1
    /\ RemoveTmpThen("size")
    /\ NoFlush
    /\ UNCHANGED <<del, data, hdl, tmp, subs, move, mishaps, history>>

Size ==
    /\ pc = "size"
    /\ RemoveTmpThen(IF size < MaxSize THEN "find" ELSE "end")
    /\ NoFlush
    /\ UNCHANGED <<del, data, hdl, tmp, subs, size, move, shared, mishaps, history>>

\* The loop over one size is left.
SizeDone ==
    IF stop THEN RemoveTmpThen("end") /\ UNCHANGED size
             ELSE pc' = "size" /\ size' = size * 2 /\ UNCHANGED back

\* hdskFindEmptyPartition: after a stop it finds nothing.
FindEmpty ==
    /\ pc = "find"
    /\ LET free == {a \in Chain : IsFree(mem[a]) /\ mem[a].len = size}
       IN  IF stop \/ free = {}
           THEN SizeDone /\ UNCHANGED dest
           ELSE /\ dest' = Min(free)
                /\ pc' = "fitting partition"
                /\ UNCHANGED <<back, size>>
    /\ block' = FALSE
    /\ NoFlush
    /\ UNCHANGED <<del, data, hdl, tmp, subs, start, left, halved, copied, shared,
                   mishaps, history>>

\* The free partition that would merge with the one of n units at a.
Buddy(a) == IF a % (2 * size) = 0 THEN mem[a].next ELSE mem[a].prev
FreeOfSize(b) == IsFree(mem[b]) /\ mem[b].len = size

\* A slip: the mode is not looked at.
UsedPartitions_Fitting(mode) ==
    {a \in Chain : /\ ~IsFree(mem[a]) /\ mem[a].len = size
                   /\ Buddy(a) # 0 => FreeOfSize(Buddy(a))}

\* hdskFindLastUsedPartition; with mode 1, one whose move lets two free
\* partitions merge, or the last one.
UsedPartitions(mode) ==
    {a \in Chain : /\ ~IsFree(mem[a]) /\ mem[a].len = size
                   /\ mode = 1 /\ Buddy(a) # 0 => FreeOfSize(Buddy(a))}

\* hdskFindPartitionOfSize: the used partitions from a on fill "size" units.
FillsBlock(a, mode) ==
    LET run[b \in Addr, n \in Nat] ==
            IF n < size /\ b # 0 /\ ~IsFree(mem[b])
            THEN run[mem[b].next, n + mem[b].len] ELSE <<b, n>>
        end == run[mem[a].next, mem[a].len]
        neighbour == IF a % (2 * size) # 0 THEN mem[a].prev ELSE end[1]
    IN  end[2] = size /\ (mode = 1 => neighbour # 0 /\ FreeOfSize(neighbour))

\* hdskFindLastUsedBlock.  (The simulation has a % size = 0 instead.)
BlockStart(a) == a % size # 0
UsedBlocks(mode) ==
    {a \in Chain : /\ BlockStart(a) /\ mem[a].len < size /\ ~IsFree(mem[a])
                   /\ FillsBlock(a, mode)}

Mishap == mishaps < MaxMishaps /\ mishaps' = mishaps + 1
Stopping == CanStop /\ ~stop /\ stop' = TRUE /\ Mishap

\* A search from the last partition down to dest.  A stop ends it at the
\* partition it has got to, which is returned as if it had been found.
Search(S, found, none) ==
    LET after == {a \in Chain : a > dest}
        hits == S \cap after
    IN  /\ \/ /\ ~stop
              /\ IF hits = {} THEN pc' = none /\ UNCHANGED start
                              ELSE pc' = found /\ start' = Max(hits)
              /\ UNCHANGED <<stop, mishaps>>
           \/ /\ Stopping
              /\ pc' = found
              /\ start' \in {a \in after : \A b \in hits : b < a}
           \/ /\ stop
              /\ IF after = {} THEN pc' = none /\ UNCHANGED start
                               ELSE pc' = found /\ start' = Max(after)
              /\ UNCHANGED <<stop, mishaps>>
        /\ block' = (pc' = "split")
        /\ left' = mem[dest].len
        /\ halved' = FALSE
        /\ NoFlush
        /\ UNCHANGED <<del, data, hdl, tmpVars, size, dest, copied, status, progress, history>>

BlocksOrElse(l) == IF size > 1 THEN l ELSE IF l = "fitting block" THEN "partition" ELSE "none"

FittingPartition ==
    pc = "fitting partition"
    /\ Search(UsedPartitions(1), "move", BlocksOrElse("fitting block"))

FittingBlock == pc = "fitting block" /\ Search(UsedBlocks(1), "split", "partition")

AnyPartition ==
    pc = "partition" /\ Search(UsedPartitions(0), "move", BlocksOrElse("block"))

AnyBlock == pc = "block" /\ Search(UsedBlocks(0), "split", "none")

\* A slip: the loop over one size is not left.
NothingToMove_Again ==
    /\ pc = "none"
    /\ RemoveTmpThen("find")
    /\ NoFlush
    /\ UNCHANGED <<del, data, hdl, tmp, subs, size, move, shared, mishaps, history>>

\* "there is no copyable partition/partitions block"
NothingToMove ==
    /\ pc = "none"
    /\ SizeDone
    /\ NoFlush
    /\ UNCHANGED <<del, data, hdl, tmp, subs, move, shared, mishaps, history>>

-----------------------------------------------------------------------------
(* MovePartition, and MovePartitionsBlock which splits the free partition  *)
(* into what each partition of the block needs.                            *)

MoveFinished(r) ==
    /\ status' = r
    /\ RemoveTmpThen(IF r = "ok" THEN "find" ELSE "end")
    /\ UNCHANGED <<dest, start, left, halved>>

MoveReturns(r) ==
    LET rest == left - mem'[dest].len
        more == mem'[dest].next # 0 /\ mem'[start].next # 0
    IN  IF block /\ r = "ok" /\ ~stop /\ rest # 0 /\ more
        THEN /\ dest' = mem'[dest].next /\ start' = mem'[start].next
             /\ left' = rest /\ halved' = FALSE
             /\ pc' = "split"
             /\ UNCHANGED <<back, status>>
        ELSE MoveFinished(r)

\* A slip: the partition after the halves does not learn who precedes it.
Halve_OneWay ==
    /\ pc = "split" /\ mem[dest].len # mem[start].len
    /\ LET next == mem[dest].next
           half == mem[dest].len \div 2
           mid == dest + half
       IN  Flush({dest, mid},
                 [mem EXCEPT ![mid] = Header(Empty, next, dest, half),
                             ![dest].len = half, ![dest].next = mid])
    /\ halved' = TRUE /\ broken' = TRUE
    /\ UNCHANGED <<del, data, hdl, pc, tmpVars, size, dest, start, block, left, copied,
                   shared, mishaps, files, widest, overTail>>

\* SplitEmptyPartition.  Below the smallest partition the halves are taken
\* together: the length comes to 0, the free partition then follows itself,
\* and the loop never ends.
Halve ==
    /\ pc = "split" /\ mem[dest].len # mem[start].len
    /\ LET next == mem[dest].next
           half == mem[dest].len \div 2
           mid == dest + half
       IN  Flush({dest, mid, next},
                 [mem EXCEPT ![mid] = Header(Empty, next, dest, half),
                             ![dest].len = half, ![dest].next = mid, ![next].prev = mid])
    /\ halved' = TRUE /\ broken' = TRUE
    /\ UNCHANGED <<del, data, hdl, pc, tmpVars, size, dest, start, block, left, copied,
                   shared, mishaps, files, widest, overTail>>

\* Its result is not initialised if the length was right from the start.
Split ==
    /\ pc = "split" /\ mem[dest].len = mem[start].len
    /\ NoFlush
    /\ \/ pc' = "move" /\ UNCHANGED <<back, dest, start, left, halved, status>>
       \/ ~halved /\ MoveFinished("undefined")
    /\ UNCHANGED <<del, data, hdl, tmp, subs, size, block, copied, stop, progress, mishaps,
                   history>>

MovePartition ==
    /\ pc = "move"
    /\ NoFlush
    /\ copied' = 0
    /\ IF IsFree(mem[dest]) /\ mem[dest].len = mem[start].len
       THEN RemoveTmpThen("copy") /\ UNCHANGED <<dest, start, left, halved, status>>
       ELSE MoveReturns("error")
    /\ UNCHANGED <<del, data, hdl, tmp, subs, size, block, stop, progress, mishaps, history>>

\* CopyPartition; the header itself is not copied.  A stop leaves the loop.
Copy ==
    /\ pc = "copy"
    /\ NoFlush
    /\ \/ /\ data' = [data EXCEPT ![dest + copied] = data[start + copied]]
          /\ hdl' = [hdl EXCEPT ![dest + copied] = hdl[start + copied]]
          /\ copied' = copied + 1 /\ progress' = progress + 1
          /\ pc' = IF stop \/ copied' = mem[dest].len THEN "copied" ELSE "copy"
          /\ UNCHANGED <<back, dest, start, left, halved, status, mishaps>>
       \/ /\ Mishap
          /\ data' = [data EXCEPT ![dest + copied] = Erased]
          /\ MoveReturns("eio")
          /\ UNCHANGED <<hdl, copied, progress>>
    /\ UNCHANGED <<del, tmp, subs, size, block, stop, history>>

\* A slip: the partitions are swapped though the copy was stopped.
Copied_Anyway ==
    /\ pc = "copied"
    /\ pc' = "hdl"
    /\ NoFlush
    /\ UNCHANGED <<del, data, hdl, tmpVars, size, move, shared, mishaps, history>>

Copied ==
    /\ pc = "copied"
    /\ NoFlush
    /\ IF stop THEN MoveReturns("ok")
               ELSE pc' = "hdl" /\ UNCHANGED <<back, dest, start, left, halved, status>>
    /\ UNCHANGED <<del, data, hdl, tmp, subs, size, block, copied, stop, progress, mishaps,
                   history>>

\* SwapPartition: the headers at dest and start, and those that name start.
Entries == {k \in DOMAIN mem[mem[start].main].subs : mem[mem[start].main].subs[k][1] = start}
Swapped ==
    [mem EXCEPT ![dest] = Header(mem[start], mem[dest].next, mem[dest].prev, mem[start].len),
                ![start] = Header([Empty EXCEPT !.type = "tmp"], mem[start].next,
                                  mem[start].prev, mem[start].len)]

\* hdlUpdateGameSliceInfo, before the headers are flushed.
UpdateHdl ==
    /\ pc = "hdl"
    /\ LET owner == IF mem[start].sub THEN mem[start].main ELSE dest
           part == IF mem[start].sub THEN Min(Entries) ELSE 1
       IN  hdl' = IF (mem[start].sub /\ Entries = {}) \/ part \notin DOMAIN hdl[owner]
                  THEN hdl ELSE [hdl EXCEPT ![owner][part] = @ + dest - start]
    /\ pc' = "swap"
    /\ NoFlush
    /\ UNCHANGED <<del, data, tmpVars, size, move, shared, mishaps, history>>

SwapMain ==
    /\ pc = "swap" /\ ~mem[start].sub
    /\ LET parts == {mem[start].subs[k][1] : k \in DOMAIN mem[start].subs}
       IN  Flush({dest, start} \cup parts,
                 [a \in Addr |-> IF a \in parts THEN [mem[a] EXCEPT !.main = dest]
                                                ELSE Swapped[a]])
    /\ MoveReturns("ok")
    /\ UNCHANGED <<del, data, hdl, tmp, subs, size, block, copied, stop, progress, mishaps,
                   history>>

\* A sub-partition that its main partition does not list has its headers
\* swapped in memory and not marked dirty.
SwapSub ==
    /\ pc = "swap" /\ mem[start].sub
    /\ IF Entries = {}
       THEN mem' = Swapped /\ UNCHANGED disk
       ELSE LET m == mem[start].main
            IN  Flush({dest, start, m}, [Swapped EXCEPT ![m].subs[Min(Entries)][1] = dest])
    /\ MoveReturns("ok")
    /\ UNCHANGED <<del, data, hdl, tmp, subs, size, block, copied, stop, progress, mishaps,
                   history>>

-----------------------------------------------------------------------------
HdskEnd ==
    /\ pc = "end"
    /\ pc' = "done"
    /\ NoFlush
    /\ UNCHANGED <<del, data, hdl, tmpVars, size, move, shared, mishaps, history>>

\* HDSK_DEVCTL_STOP, while the thread runs.
Stop ==
    /\ pc \notin {"off", "done"}
    /\ Stopping
    /\ NoFlush
    /\ UNCHANGED <<del, data, hdl, pc, tmpVars, size, move, status, progress, history>>

\* The IOP's memory is lost, and hdsk is started again.
PowerLoss ==
    /\ Mishap
    /\ mem' = disk /\ del' = NotDeleting
    /\ pc' = "off" /\ back' = "off" /\ tmp' = 0 /\ subs' = <<>> /\ size' = 1
    /\ dest' = 0 /\ start' = 0 /\ block' = FALSE /\ left' = 0 /\ halved' = FALSE
    /\ copied' = 0
    /\ stop' = FALSE /\ status' = "ok" /\ progress' = 0
    /\ UNCHANGED <<disk, data, hdl, history>>

Thread ==
    \/ HdskThread \/ Size \/ FindEmpty
    \/ FindTmp \/ DeleteTmpSub \/ DeleteTmp \/ Delete \/ EraseTmp
    \/ FittingPartition \/ FittingBlock \/ AnyPartition \/ AnyBlock \/ NothingToMove
    \/ Halve \/ Split \/ MovePartition \/ Copy \/ Copied
    \/ UpdateHdl \/ SwapMain \/ SwapSub
    \/ HdskEnd

Next == Thread \/ Stop \/ PowerLoss

\* The thread runs until it is done.
Spec == Init /\ [][Next]_vars /\ WF_vars(Thread)

-----------------------------------------------------------------------------
\* SplitEmptyPartition has gone below the smallest partition.
Overrun == \E a \in Addr : Readable(disk, a) /\ disk[a].len = 0

\* Headers name headers of the drive, and a block move has something left.
TypeOK ==
    /\ \A a \in Addr : mem[a] # Bad =>
          mem[a].prev \in Addr /\ mem[a].next \in Addr /\ mem[a].len \in 0 .. Units
    /\ data \in [Addr -> 0 .. Units]
    /\ left \in 0 .. Units /\ (pc = "split" => left # 0)

\* What MovePartition has checked still holds when it copies, though
\* hdskRemoveTmp runs in between and merges free partitions: dest is free, as
\* long as the partition to move, and comes before it.
MoveFits ==
    pc \in {"copy", "copied", "hdl", "swap"} =>
        /\ IsFree(mem[dest]) /\ mem[dest].len = mem[start].len
        /\ dest + mem[dest].len <= start /\ copied <= mem[dest].len

\* The types hold, and at every moment the chain on the disk is whole, whatever
\* flush of a split, a swap or a deletion the power fails after.  The exception
\* "overTail" is that of ApaDelete.
AlwaysConsistent == ~overTail => TypeOK /\ (~Overrun => Consistent(disk))

\* A copy fits its place, and at every moment the main partitions on the disk,
\* with their sub-partitions, hold what they held at first (MovePartition).
FilesKept == ~overTail => MoveFits /\ (~Overrun => Files(disk, data) = files)

\* The defragmenter comes to an end.
DefragEnds == <>(pc = "done")

\* It comes to an end unless SplitEmptyPartition does not, or a loss of power has left
\* a free partition at the end of the drive (ApaDelete).
DefragEndsOrOverruns == <>(pc = "done" \/ Overrun \/ overTail)

\* The drive can take a partition as large as it could at first.
FragmentationReduced == pc = "done" /\ status = "ok" => WidestFree(disk) >= widest

\* The games start where their headers say.
GamesStartRight ==
    ~Overrun => \A a \in MainsOf(disk) : hdl[a] = Parts(disk, a)

\* When it is done, was not stopped and moved single partitions only, no used
\* partition could go down to a free place of its size: the moves of larger
\* partitions have made no new place for smaller ones.
Defragmented ==
    pc = "done" /\ status = "ok" /\ ~stop /\ ~broken /\ ~overTail =>
        \A a, b \in Chain :
            a < b /\ IsFree(mem[a]) /\ mem[a].len < MaxSize /\ mem[a].len = mem[b].len =>
                IsFree(mem[b])
=============================================================================
