-------------------------------- MODULE Hdck --------------------------------
(***************************************************************************)
(* The check of hdck (HdckDevctl): it walks the chain of partitions both   *)
(* ways and repairs links, recovers or gives up the headers it cannot      *)
(* read, merges free partitions, and deletes sub-partitions that belong to *)
(* no one.  The power may fail at any step; the check then starts again.   *)
(***************************************************************************)
EXTENDS ApaChain

CONSTANTS
    MaxParts,       \* bound on the partitions of the drive, besides the MBR
    MaxBad,         \* bound on the headers that cannot be read
    MaxLinks,       \* bound on the links that are wrong
    MaxLost,        \* bound on the sub-partitions whose header became free
    BadLimit,       \* 9 in the code
    MaxCrashes      \* bound on losses of power

VARIABLES
    pc,                \* where the check is
    cur, parent,       \* CurrentLBA and ParentLBA, NextPartSector, sector
    seen,              \* the list of AddPartitionToList
    e1, e1prev,        \* ErrorPartitionLBA, ErrorPartitionPrevLBA
    e2, e2prev,        \* ErrorPartition2LBA, ErrorPartition2PrevLBA
    rem, link,         \* length and clink of MarkUnreadablePartionAsEmpty
    badParts,          \* bad partitions so far
    mains, subs, i,    \* the lists of ReadPartitionMap, and a loop over one
    result,            \* what HdckDevctl returns
    healthy,           \* history: the main partitions that no damage concerns
    lastGood,          \* history: the header of the last partition can be read
    gaveUp,            \* history: some header could not be recovered
    halfMarked,        \* history: power lost in MarkUnreadablePartionAsEmpty
    crashes            \* losses of power so far

walk   == <<cur, parent, seen>>
errs   == <<e1, e1prev, e2, e2prev>>
marks  == <<rem, link>>
maps   == <<mains, subs, i>>
ghosts == <<healthy, lastGood, gaveUp, halfMarked>>
vars   == <<chainVars, pc, walk, errs, marks, badParts, maps, result,
            ghosts, crashes>>

Word == 2^Bits

-----------------------------------------------------------------------------
(* The drive as the check finds it.                                        *)

SubsOf(d) == {a \in Data(d) : d[a].sub}
MainsOf(d) == Data(d) \ SubsOf(d)

\* Unreadable headers.
Unreadable(d, S) == [a \in Addr |-> IF a \in S THEN Bad ELSE d[a]]
\* Sub-partitions that became free while their main partition lists them.
Lost(d, S) == [a \in Addr |-> IF a \in S
                              THEN Header(Empty, d[a].next, d[a].prev, d[a].len)
                              ELSE d[a]]
\* Links that are wrong: "prev" to the MBR, or "next" past the last partition,
\* where apaDeleteFixPrev sends it when the partition it has grown is the last.
Misled(d, S, f) ==
    [a \in Addr |-> IF a \in S THEN [d[a] EXCEPT ![f] = IF f = "prev" THEN 0 ELSE Units]
                               ELSE d[a]]

Init ==
    /\ \E d \in Drives(MaxParts) :
        LET parts == Reached(d, "next") \ {0}
            last == d[0].prev
        IN  \E bad \in SUBSET parts,
               lost \in SUBSET (SubsOf(d) \ {last}),
               mis \in SUBSET parts, f \in {"next", "prev"} :
            /\ Cardinality(bad) <= MaxBad
            /\ Cardinality(lost) <= MaxLost
            /\ Cardinality(mis) <= MaxLinks
            /\ mis = {} => f = "next"
            /\ (bad = {} \/ mis = {}) /\ bad \cap lost = {}
            /\ disk = Unreadable(Misled(Lost(d, lost), mis, f), bad)
            /\ healthy = {a \in MainsOf(d) \ bad :
                            ~ \E b, c \in bad : b < a /\ a < c}
            /\ lastGood = (last \notin bad)
    /\ mem = disk /\ del = NotDeleting
    /\ pc = "off" /\ cur = 0 /\ parent = 0 /\ seen = {}
    /\ e1 = 0 /\ e1prev = 0 /\ e2 = 0 /\ e2prev = 0
    /\ rem = 0 /\ link = 0 /\ badParts = 0
    /\ mains = <<>> /\ subs = <<>> /\ i = 1
    /\ result = "none" /\ crashes = 0 /\ gaveUp = FALSE /\ halfMarked = FALSE

NoFlush == UNCHANGED <<mem, disk>>
FlushIf(test, S, m) == IF test THEN Flush(S, m) ELSE NoFlush

-----------------------------------------------------------------------------
(* CheckAPAPartitionLinks: forward from the MBR, and if a header cannot be *)
(* read (or is met twice) backward.                                        *)

\* The next call of CheckAPAPartitionLinks, by the loop of HdckDevctl.
CheckLinks ==
    /\ pc' = "forward"
    /\ cur' = mem'[0].next /\ parent' = 0 /\ seen' = {}
    /\ e1' = 0 /\ e1prev' = 0 /\ e2' = 0 /\ e2prev' = 0

HdckDevctl ==
    /\ pc = "off"
    /\ NoFlush
    /\ CheckLinks
    /\ badParts' = 0
    /\ UNCHANGED <<del, marks, maps, result, ghosts, crashes>>

InError == cur \in seen \/ ~Readable(mem, cur)

\* A header whose link back is wrong is repaired.
Visit(onward, back) ==
    /\ cur # 0 /\ ~InError
    /\ FlushIf(mem[cur][back] # parent, {cur}, [mem EXCEPT ![cur][back] = parent])
    /\ parent' = cur /\ cur' = mem[cur][onward] /\ seen' = seen \cup {cur}
    /\ UNCHANGED <<del, pc, errs, marks, badParts, maps, result, ghosts, crashes>>

\* A slip: the link back is compared and not repaired.
Forward_ReadOnly ==
    /\ pc = "forward" /\ cur # 0 /\ ~InError
    /\ NoFlush
    /\ parent' = cur /\ cur' = mem[cur].next /\ seen' = seen \cup {cur}
    /\ UNCHANGED <<del, pc, errs, marks, badParts, maps, result, ghosts, crashes>>

Forward == pc = "forward" /\ Visit("next", "prev")

Backward == pc = "backward" /\ Visit("prev", "next")

\* The links are good: the rest of the check, which begins with
\* DeleteFreePartitions.
LinksGood(back) ==
    /\ cur = 0
    /\ FlushIf(mem[0][back] # parent, {0}, [mem EXCEPT ![0][back] = parent])
    /\ pc' = "free"
    /\ cur' = mem'[0].next /\ parent' = 0 /\ seen' = {}
    /\ e1' = 0
    /\ UNCHANGED <<del, e1prev, e2, e2prev, marks, badParts, maps, result, ghosts,
                   crashes>>

ForwardEnds == pc = "forward" /\ LinksGood("prev")

ForwardFails ==
    /\ pc = "forward" /\ cur # 0 /\ InError
    /\ e1' = cur /\ e1prev' = parent
    /\ pc' = "backward"
    /\ cur' = mem[0].prev /\ parent' = 0 /\ seen' = {}
    /\ NoFlush
    /\ UNCHANGED <<del, e2, e2prev, marks, badParts, maps, result, ghosts, crashes>>

BackwardEnds == pc = "backward" /\ seen # {} /\ LinksGood("next")

BackwardFails ==
    /\ pc = "backward"
    /\ IF cur = 0 THEN seen = {} ELSE InError
    /\ e2' = cur /\ e2prev' = parent
    /\ pc' = IF e1 <= cur THEN "recover" ELSE "remove"
    /\ NoFlush
    /\ UNCHANGED <<del, walk, e1, e1prev, marks, badParts, maps, result, ghosts,
                   crashes>>

-----------------------------------------------------------------------------
(* RecoverPartitionIfSub: a header that cannot be read is written anew when *)
(* a main partition lists it; the search goes forward, then backward.      *)

EnterBackwardSearch ==
    IF mem'[0].prev \notin {0, e2'} THEN pc' = "ownerPrev" /\ cur' = mem'[0].prev
                                   ELSE pc' = "decide" /\ UNCHANGED cur

Recover ==
    /\ pc = "recover"
    /\ NoFlush
    /\ UNCHANGED errs
    /\ IF mem[0].next \notin {0, e1} THEN pc' = "ownerNext" /\ cur' = mem[0].next
                                     ELSE EnterBackwardSearch
    /\ UNCHANGED <<del, parent, seen, marks, badParts, maps, result, ghosts, crashes>>

Searching == pc \in {"ownerNext", "ownerPrev"}
Onward == IF pc = "ownerNext" THEN "next" ELSE "prev"

\* The places in a main partition's list that name a header in error.
Claims(h) ==
    IF h.type = "data" /\ ~h.sub
    THEN {k \in DOMAIN h.subs : h.subs[k][1] \in {e1, e2} \ {0}} ELSE {}

RecoverAs(next(_, _)) ==
    /\ Searching
    /\ Readable(mem, cur) /\ Claims(mem[cur]) # {}
    /\ LET entry == mem[cur].subs[Min(Claims(mem[cur]))]
           lba   == entry[1]
       IN  /\ Flush({lba}, [mem EXCEPT ![lba] =
                  [type |-> mem[cur].type, sub |-> TRUE, main |-> cur, subs |-> <<>>,
                   next |-> next(lba, entry[2]),
                   prev |-> IF lba = e1 THEN e1prev ELSE e1, len |-> entry[2]]])
           /\ e1' = IF lba = e1 THEN 0 ELSE e1
           /\ e2' = IF lba = e2 THEN 0 ELSE e2
    /\ UNCHANGED <<del, pc, walk, e1prev, e2prev, marks, badParts, maps, result,
                   ghosts, crashes>>

\* A slip: memset has cleared the link to the next partition.
RecoverSubPartition_NoNext == RecoverAs(LAMBDA lba, length : 0)

RecoverSubPartition ==
    RecoverAs(LAMBDA lba, length : IF lba < mem[0].prev THEN lba + length ELSE 0)

SearchOnward ==
    /\ Searching
    /\ Readable(mem, cur) => Claims(mem[cur]) = {}
    /\ NoFlush
    /\ UNCHANGED errs
    /\ IF Readable(mem, cur) /\ e1 = 0 /\ e2 = 0
       THEN pc' = "decide" /\ UNCHANGED cur
       ELSE IF Readable(mem, cur) /\ mem[cur][Onward] \notin {0, e1}
       THEN cur' = mem[cur][Onward] /\ UNCHANGED pc
       ELSE IF pc = "ownerNext" THEN EnterBackwardSearch
       ELSE pc' = "decide" /\ UNCHANGED cur
    /\ UNCHANGED <<del, parent, seen, marks, badParts, maps, result, ghosts, crashes>>

-----------------------------------------------------------------------------
(* What HdckDevctl does with headers it could not recover.                 *)

\* One more bad partition; with too many the check ends, and returns 0.
CountBad ==
    /\ badParts' = badParts + 1
    /\ IF badParts' = BadLimit
       THEN /\ pc' = "done" /\ result' = "ok"
            /\ e1' = 0 /\ e2' = 0
            /\ UNCHANGED <<e1prev, e2prev, walk>>
       ELSE CheckLinks /\ UNCHANGED result

\* A slip: the scan starts again whatever the search has found.
Decide_Again ==
    /\ pc = "decide"
    /\ NoFlush
    /\ CheckLinks
    /\ UNCHANGED <<del, marks, badParts, maps, result, ghosts, crashes>>

Decide ==
    /\ pc = "decide"
    /\ NoFlush
    /\ IF e1 = 0 \/ e2 = 0
       THEN CheckLinks /\ UNCHANGED marks
       ELSE /\ UNCHANGED <<walk, errs>>
            /\ IF mem[0].prev \in {e1, e2}
               THEN pc' = "remove" /\ UNCHANGED marks
               ELSE /\ pc' = "mark"
                    /\ rem' = (e2prev - e1) % Word
                    /\ link' = e1prev
    /\ UNCHANGED <<del, badParts, maps, result, ghosts, crashes>>

\* RemoveBadPartitions.  The flags it sets are those of the headers, where
\* the same bit is APA_FLAG_SUB, and not those of the buffers: nothing is
\* flushed.
RemoveBadPartitions ==
    /\ pc = "remove"
    /\ mem' = [mem EXCEPT ![e1prev].next = 0, ![0].prev = e1prev,
                          ![e1prev].sub = TRUE, ![0].sub = TRUE]
    /\ UNCHANGED disk
    /\ CountBad
    /\ gaveUp' = TRUE
    /\ UNCHANGED <<del, marks, maps, healthy, lastGood, halfMarked, crashes>>

\* MarkUnreadablePartionAsEmpty: an empty partition at the error, as long as
\* the highest bit of what remains, or as its address is aligned.  The address
\* stays the same from one turn to the next; in the aligned case "clink" stays
\* too, and it is its length that is subtracted.
TopBit(n) == Max({x \in PowersOf2 : x <= n})
AlignedTo(a, n) == Max({x \in PowersOf2 : x < n /\ a % x = 0})

MarkEmpty ==
    /\ pc = "mark" /\ rem # 0
    /\ LET top == TopBit(rem)
           aligned == e1 % top = 0
           len == IF aligned THEN top ELSE AlignedTo(e1, top)
           new == [mem EXCEPT ![e1] = Header(Empty, e1 + len, link, len)]
           m == [new EXCEPT ![link].next = e1]
       IN  /\ Flush({e1, link}, m)
           /\ link' = IF aligned THEN link ELSE e1
           /\ rem' = (rem - m[link'].len) % Word
    /\ gaveUp' = TRUE
    /\ UNCHANGED <<del, pc, walk, errs, badParts, maps, result, healthy,
                   lastGood, halfMarked, crashes>>

Marked ==
    /\ pc = "mark" /\ rem = 0
    /\ NoFlush
    /\ CountBad
    /\ UNCHANGED <<del, marks, maps, ghosts, crashes>>

-----------------------------------------------------------------------------
(* DeleteFreePartitions.                                                   *)

ReadMapFor(loop) ==
    /\ pc' = loop /\ cur' = mem[0].next /\ mains' = <<>> /\ subs' = <<>> /\ i' = 1

MergeFree ==
    /\ pc = "free" /\ cur # 0 /\ Readable(mem, cur)
    /\ LET fix == IF IsFree(mem[cur]) THEN FixPrev(mem, cur)
                  ELSE [ok |-> TRUE, addr |-> cur, mem |-> mem, dirty |-> {}]
       IN  IF fix.ok
           THEN /\ Flush(fix.dirty, fix.mem)
                /\ cur' = fix.mem[fix.addr].next
                /\ UNCHANGED <<pc, maps>>
           ELSE NoFlush /\ ReadMapFor("mapMains")
    /\ UNCHANGED <<del, parent, seen, errs, marks, badParts, result, ghosts, crashes>>

FreeMerged ==
    /\ pc = "free" /\ (cur = 0 \/ ~Readable(mem, cur))
    /\ NoFlush
    /\ ReadMapFor("mapMains")
    /\ UNCHANGED <<del, parent, seen, errs, marks, badParts, result, ghosts, crashes>>

-----------------------------------------------------------------------------
(* CheckPartitions, and ReadPartitionMap which it calls twice.             *)

ReadMap ==
    /\ pc \in {"mapMains", "mapSubs"} /\ cur # 0 /\ Readable(mem, cur)
    /\ LET h == mem[cur]
       IN  /\ mains' = IF h.type = "data" /\ ~h.sub THEN Append(mains, cur) ELSE mains
           /\ subs' = IF h.type = "data" /\ h.sub THEN Append(subs, cur) ELSE subs
           /\ cur' = h.next
    /\ NoFlush
    /\ UNCHANGED <<del, pc, parent, seen, errs, marks, badParts, i, result, ghosts,
                   crashes>>

MapRead ==
    /\ pc \in {"mapMains", "mapSubs"} /\ cur = 0
    /\ pc' = IF pc = "mapMains" THEN "mains" ELSE "subs"
    /\ NoFlush
    /\ UNCHANGED <<del, walk, errs, marks, badParts, maps, result, ghosts, crashes>>

\* A header that cannot be read ends the check.
MapFails ==
    /\ pc \in {"mapMains", "mapSubs"} /\ cur # 0 /\ ~Readable(mem, cur)
    /\ pc' = "done" /\ result' = "eio"
    /\ NoFlush
    /\ UNCHANGED <<del, walk, errs, marks, badParts, maps, ghosts, crashes>>

\* A main partition whose list names a header that is no sub-partition: the
\* list ends before it.  (The loop over the list ends there too, since its
\* bound is the length that was just reduced.)
CheckMain ==
    /\ pc = "mains" /\ i <= Len(mains)
    /\ LET h == mem[mains[i]]
           missing == {k \in DOMAIN h.subs : h.subs[k][1] \notin ToSet(subs)}
       IN  FlushIf(missing # {}, {mains[i]}, [mem EXCEPT ![mains[i]].subs =
                       SubSeq(h.subs, 1, Min(missing) - 1)])
    /\ i' = i + 1
    /\ UNCHANGED <<del, pc, walk, errs, marks, badParts, mains, subs, result, ghosts,
                   crashes>>

MainsChecked ==
    /\ pc = "mains" /\ i > Len(mains)
    /\ NoFlush
    /\ ReadMapFor("mapSubs")
    /\ UNCHANGED <<del, parent, seen, errs, marks, badParts, result, ghosts, crashes>>

\* The place of a sub-partition in its main partition's list is searched up to
\* the length of its own list, which is empty; it is taken not to be there if
\* the search ends at the length of the main partition's list.
NotListed(h, a) ==
    LET list  == mem[h.main].subs
        found == {k \in DOMAIN h.subs : k <= Len(list) /\ list[k][1] = a}
        count == IF found = {} THEN Len(h.subs) ELSE Min(found) - 1
    IN  Len(list) = count

CheckSub ==
    /\ pc = "subs" /\ del = NotDeleting /\ i <= Len(subs)
    /\ LET h == mem[subs[i]]
       IN  del' = IF h.main \notin ToSet(mains) \/ NotListed(h, subs[i])
                  THEN Deleting(subs[i]) ELSE del
    /\ i' = i + 1
    /\ NoFlush
    /\ UNCHANGED <<pc, walk, errs, marks, badParts, mains, subs, result, ghosts,
                   crashes>>

Delete ==
    /\ DeleteStep
    /\ UNCHANGED <<pc, walk, errs, marks, badParts, maps, result, ghosts, crashes>>

SubsChecked ==
    /\ pc = "subs" /\ del = NotDeleting /\ i > Len(subs)
    /\ pc' = "done" /\ result' = "ok"
    /\ NoFlush
    /\ UNCHANGED <<del, walk, errs, marks, badParts, maps, ghosts, crashes>>

-----------------------------------------------------------------------------
\* The IOP's memory is lost, and hdck is started again.
PowerLoss ==
    /\ crashes < MaxCrashes
    /\ crashes' = crashes + 1
    /\ mem' = disk /\ del' = NotDeleting /\ pc' = "off" /\ result' = "none"
    /\ cur' = 0 /\ parent' = 0 /\ seen' = {}
    /\ e1' = 0 /\ e1prev' = 0 /\ e2' = 0 /\ e2prev' = 0
    /\ rem' = 0 /\ link' = 0 /\ badParts' = 0
    /\ mains' = <<>> /\ subs' = <<>> /\ i' = 1
    /\ halfMarked' = (halfMarked \/ pc = "mark")
    /\ UNCHANGED <<disk, healthy, lastGood, gaveUp>>

Check ==
    \/ HdckDevctl
    \/ Forward \/ ForwardEnds \/ ForwardFails
    \/ Backward \/ BackwardEnds \/ BackwardFails
    \/ Recover \/ RecoverSubPartition \/ SearchOnward
    \/ Decide \/ RemoveBadPartitions \/ MarkEmpty \/ Marked
    \/ MergeFree \/ FreeMerged
    \/ ReadMap \/ MapRead \/ MapFails
    \/ CheckMain \/ MainsChecked \/ CheckSub \/ Delete \/ SubsChecked

Next == Check \/ PowerLoss

\* The thread that called devctl goes on until the check is done.
Spec == Init /\ [][Next]_vars /\ WF_vars(Check)

-----------------------------------------------------------------------------
\* Headers that were written name headers of the drive, and the words of
\* MarkUnreadablePartionAsEmpty stay in their width.
TypeOK ==
    /\ \A a \in Addr : mem[a] # Bad =>
          mem[a].prev \in Addr /\ mem[a].next \in 0 .. Units /\ mem[a].len \in 1 .. Units
    /\ e1prev \in Addr /\ Readable(mem, e1prev)
    /\ rem \in 0 .. Word - 1 /\ badParts <= BadLimit

Finished == pc = "done" /\ result = "ok" /\ badParts < BadLimit

\* A main partition that can be read, and does not lie between two headers
\* that cannot, is never cut off: whatever step the power fails after, one of
\* the two directions of CheckAPAPartitionLinks gets to it.
Kept == healthy \subseteq Reached(disk, "next") \cup Reached(disk, "prev")
HealthyKept == lastGood => Kept

\* "Delete the affected partitions": no others, if the last one is affected.
OnlyAffectedDeleted == Kept

\* After the check a main partition lists only sub-partitions that name it.
ListsTrue ==
    Finished => \A a \in MainsOf(disk) : \A k \in DOMAIN disk[a].subs :
        LET b == disk[a].subs[k][1] IN b \in SubsOf(disk) /\ disk[b].main = a

\* If no header had to be given up, the check leaves a chain that is linked
\* both ways and leaves no unit out (CheckAPAPartitionLinks); it always leaves
\* lists that are true (CheckPartitions).
LinksRepaired == (Finished /\ ~gaveUp => Consistent(disk)) /\ ListsTrue

\* The types hold; whatever was given up, the check leaves a chain that can be
\* followed from the MBR to its end, if the last header was good, and no two
\* partitions of it overlap.  One that has lost power in the middle of
\* MarkUnreadablePartionAsEmpty, with a length that was still to be corrected, is
\* excepted, but only the empty partitions, which are what that function makes.
ChainUsable ==
    /\ TypeOK
    /\ Finished /\ lastGood => \A a \in Reached(disk, "next") :
          /\ Readable(disk, a)
          /\ LET n == disk[a].next
             IN  n # 0 => a + (IF halfMarked /\ IsFree(disk[a]) THEN 1 ELSE disk[a].len) <= n

\* "If the partition(s) is/are not the last partition(s), mark them as empty."
NothingLeftOut == Finished /\ lastGood => Consistent(disk)

\* "All orphaned sub-partitions are deleted."
OrphansDeleted ==
    Finished => \A b \in SubsOf(disk) :
        /\ disk[b].main \in MainsOf(disk)
        /\ \E k \in DOMAIN disk[disk[b].main].subs : disk[disk[b].main].subs[k][1] = b

\* The check comes to an end.
CheckEnds == <>(pc = "done")
=============================================================================
