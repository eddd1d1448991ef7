------------------------------ MODULE ApaChain ------------------------------
(***************************************************************************)
(* The list of partitions of an APA-formatted drive, and how libapa takes  *)
(* a partition out of it (apaDelete).                                      *)
(*                                                                         *)
(* Addresses and lengths are in units of the smallest partition, 0x40000   *)
(* sectors.  A header is known by its address: ApaJournal shows that none  *)
(* is ever written to another's place, so header->start is its address.    *)
(* "disk" is what a restart finds and "mem" what the program sees: the     *)
(* cache holds more headers than a drive has partitions, so a header that  *)
(* was read stays in its buffer.  A flush is one step, as AtomicStore      *)
(* promises.  A sector that cannot be read, or does not hold a header with *)
(* the right checksum, is Bad; writing it makes it readable.               *)
(***************************************************************************)
EXTENDS Integers, Sequences, SequencesExt, FiniteSets, FiniteSetsExt

CONSTANTS
    Units,    \* size of the drive
    Bits      \* width of an address; 14 in the code, where a sector has 32

ASSUME ChainAssumption == Bits \in Nat /\ Units \in 2 .. 2^Bits

Addr == 0 .. Units - 1
PowersOf2 == {2^i : i \in 0 .. Bits - 1}

VARIABLES
    disk,   \* the headers a restart finds
    mem,    \* the headers as the program sees them
    del     \* the activation of apaDelete, or NotDeleting

chainVars == <<disk, mem, del>>

\* A sector without a header that can be read.
Bad == [type |-> "unreadable"]
Readable(m, a) == a \in DOMAIN m /\ m[a] # Bad
Empty == [type |-> "free", sub |-> FALSE, main |-> 0, subs |-> <<>>]
Header(body, n, p, l) == [next |-> n, prev |-> p, len |-> l, type |-> body.type,
    sub |-> body.sub, main |-> body.main, subs |-> body.subs]
IsFree(h) == h.type = "free"

\* The headers in S are dirty when apaCacheFlushAllDirty writes m.
Flush(S, m) ==
    /\ mem' = m
    /\ disk' = [a \in Addr |-> IF a \in S THEN m[a] ELSE disk[a]]

-----------------------------------------------------------------------------
(* Loops.  Every turn of a loop is a step of its locals; those that are     *)
(* followed here leave their locals alone once their test has failed.       *)

\* What n turns make of x.
Turns(turn, x, n) ==
    LET after[k \in Nat] == IF k = 0 THEN x ELSE turn[after[k - 1]]
    IN  after[n]

-----------------------------------------------------------------------------
(* apaDeleteFixPrev and apaDeleteFixNext let a partition grow over its free *)
(* neighbours.  Both return the partition that results, or fail with the   *)
(* header they could not read, and flush once if anything has grown.       *)

Mergeable(start, len) == start % len = 0 /\ len \in PowersOf2

Fail == [ok |-> FALSE, dirty |-> {}]

\* One turn of the loop of apaDeleteFixPrev: the partition at g[1] has the length
\* g[2] and takes its free neighbour before it.
GrowBack(m) ==
    [g \in Nat \X Nat |->
        LET q == m[g[1]].prev
        IN  IF g[1] # 0 /\ Readable(m, q) /\ IsFree(m[q]) /\ Mergeable(q, m[q].len + g[2])
            THEN <<q, m[q].len + g[2]>> ELSE g]

\* A slip: the free partition grows and is still followed by what it took.
Grown_OldNext(m, p, len, n) == [m EXCEPT ![p].len = len, ![n].prev = p]

\* The partition at p has grown, n comes after it.
Grown(m, p, len, n) == [m EXCEPT ![p].len = len, ![p].next = p + len, ![n].prev = p]

FixPrev(m, a) ==
    LET g == Turns(GrowBack(m), <<a, m[a].len>>, Units)
        n == m[a].next
        grew == g[2] # m[a].len
    IN  IF (g[1] # 0 /\ ~Readable(m, m[g[1]].prev)) \/ (grew /\ ~Readable(m, n)) THEN Fail
        ELSE IF ~grew THEN [ok |-> TRUE, addr |-> g[1], mem |-> m, dirty |-> {}]
        ELSE [ok |-> TRUE, addr |-> g[1], mem |-> Grown(m, g[1], g[2], n), dirty |-> {g[1], n}]

\* A slip: the type of the next partition is not looked at.
FixNext_AnyType(m, a) ==
    LET n == m[a].next
        len == m[a].len + m[n].len
    IN  IF n = 0 \/ ~Mergeable(a, len)
        THEN [ok |-> TRUE, addr |-> a, mem |-> m, dirty |-> {}]
        ELSE [ok |-> TRUE, addr |-> a, dirty |-> {a, m[n].next},
              mem |-> [m EXCEPT ![a] = Header(Empty, m[n].next, m[a].prev, len),
                                ![m[n].next].prev = a]]

\* A slip: the partition after the free ones does not learn who precedes it.
FixNext_OneWay(m, a) ==
    LET n == m[a].next
        len == m[a].len + m[n].len
    IN  IF n = 0 \/ ~IsFree(m[n]) \/ ~Mergeable(a, len)
        THEN [ok |-> TRUE, addr |-> a, mem |-> m, dirty |-> {}]
        ELSE [ok |-> TRUE, addr |-> a, dirty |-> {a},
              mem |-> [m EXCEPT ![a] = Header(Empty, m[n].next, m[a].prev, len)]]

\* One turn of the loop of apaDeleteFixNext: the partition at a has grown up to
\* g[1], to the length g[2].
GrowOn(m, a) ==
    [g \in Nat \X Nat |->
        LET n == g[1]
        IN  IF n # 0 /\ Readable(m, n) /\ IsFree(m[n]) /\ Mergeable(a, g[2] + m[n].len)
            THEN <<m[n].next, g[2] + m[n].len>> ELSE g]

FixNext(m, a) ==
    LET g == Turns(GrowOn(m, a), <<m[a].next, m[a].len>>, Units)
    IN  IF g[1] # 0 /\ ~Readable(m, g[1]) THEN Fail
        ELSE IF g[2] = m[a].len
        THEN [ok |-> TRUE, addr |-> a, mem |-> m, dirty |-> {}]
        ELSE [ok |-> TRUE, addr |-> a, dirty |-> {a, g[1]},
              mem |-> [m EXCEPT ![a] = Header(Empty, g[1], m[a].prev, g[2]),
                                ![g[1]].prev = a]]

-----------------------------------------------------------------------------
(* apaDelete.  Failures of FixPrev and FixNext end it; it returns 0.       *)

\* The last partition is free: apaDelete leaves none there, unless its loop is cut
\* short.
FreeTail(m) == m[0].prev # 0 /\ IsFree(m[m[0].prev])

NotDeleting == [stage |-> "none", addr |-> 0, round |-> 0, start |-> 0, len |-> 0]
Deleting(a) == [stage |-> IF mem[a].next = 0 THEN "last" ELSE "prev", addr |-> a,
                round |-> 1, start |-> a, len |-> mem[a].len]

\* A slip: the last partition is unlinked, the free ones before it are not.
DeleteLast_Once ==
    LET p == mem[del.addr].prev
    IN  /\ del.stage = "last"
        /\ Readable(mem, p)
        /\ Flush({p, 0}, [mem EXCEPT ![p].next = 0, ![0].prev = p])
        /\ del' = NotDeleting

\* The last partition goes, and every free one before it.
DeleteLast ==
    LET p == mem[del.addr].prev
    IN  /\ del.stage = "last"
        /\ \/ /\ ~Readable(mem, p)
              /\ del' = NotDeleting
              /\ UNCHANGED <<mem, disk>>
           \/ /\ Readable(mem, p)
              /\ Flush({p, 0}, [mem EXCEPT ![p].next = 0, ![0].prev = p])
              /\ del' = IF IsFree(mem[p]) THEN [del EXCEPT !.addr = p]
                                          ELSE NotDeleting

DeleteFixed(fix, then) ==
    IF fix.ok THEN /\ Flush(fix.dirty, fix.mem)
                   /\ del' = [then EXCEPT !.addr = fix.addr]
              ELSE del' = NotDeleting /\ UNCHANGED <<mem, disk>>

DeleteFixPrev ==
    /\ del.stage = "prev"
    /\ DeleteFixed(FixPrev(mem, del.addr), [del EXCEPT !.stage = "next"])

DeleteFixNext ==
    /\ del.stage = "next"
    /\ DeleteFixed(FixNext(mem, del.addr),
                   IF del.round = 1 THEN [del EXCEPT !.stage = "prev", !.round = 2]
                                    ELSE [del EXCEPT !.stage = "empty"])

\* A partition that has not grown is marked empty where it is.
DeleteMakeEmpty ==
    LET h == mem[del.addr]
    IN  /\ del.stage = "empty"
        /\ del' = NotDeleting
        /\ IF del.addr = del.start /\ h.len = del.len
           THEN Flush({del.addr}, [mem EXCEPT ![del.addr] =
                                       Header(Empty, h.next, h.prev, h.len)])
           ELSE UNCHANGED <<mem, disk>>

DeleteStep == DeleteLast \/ DeleteFixPrev \/ DeleteFixNext \/ DeleteMakeEmpty

-----------------------------------------------------------------------------
(* The drives that a program may find: aligned partitions one after the    *)
(* other, main partitions with their sub-partitions, and free ones between *)
(* them.                                                                   *)

Starts(S) == S \ {Max(S)}
After(S, a) == Min({x \in S : x > a})
Before(S, a) == Max({x \in Starts(S) : x < a} \cup {0})

Layouts(parts) ==
    {S \in SUBSET (1 .. Units) :
        /\ 1 \in S /\ Cardinality(S) \in 2 .. parts + 1
        /\ \A a \in Starts(S) :
              LET len == After(S, a) - a
              IN  len \in PowersOf2 /\ a % len = 0}

\* The owner of a partition is itself, its main partition, or 0 if it is free.
Owners(S) ==
    {own \in [Starts(S) -> Starts(S) \cup {0}] :
        /\ \A a \in Starts(S) : own[a] # 0 => own[own[a]] = own[a]
        /\ own[Max(Starts(S))] # 0}

SubList(S, own, a) ==
    LET subs == SetToSortSeq({b \in Starts(S) : own[b] = a /\ b # a}, <)
    IN  [i \in DOMAIN subs |-> <<subs[i], After(S, subs[i]) - subs[i]>>]
Body(S, own, a) ==
    IF own[a] = 0 THEN Empty
    ELSE [type |-> "data", sub |-> own[a] # a, main |-> IF own[a] = a THEN 0 ELSE own[a],
          subs |-> SubList(S, own, a)]

Drive(S, own) ==
    LET last == Max(Starts(S))
    IN  [a \in Addr |->
            IF a = 0 THEN Header([Empty EXCEPT !.type = "mbr"], 1, last, 1)
            ELSE IF a \in Starts(S)
            THEN Header(Body(S, own, a), IF a = last THEN 0 ELSE After(S, a),
                        Before(S, a), After(S, a) - a)
            ELSE Bad]

Drives(parts) == UNION {{Drive(S, own) : own \in Owners(S)} : S \in Layouts(parts)}

\* The headers that can be reached from the MBR, following "next" or "prev":
\* g[1] is the header the walk is at, g[2] those it has been at.
Follow(d, link) ==
    [g \in Nat \X SUBSET Nat |->
        IF g[1] \in g[2] THEN g
        ELSE <<IF Readable(d, g[1]) THEN d[g[1]][link] ELSE g[1], g[2] \cup {g[1]}>>]
Reached(d, link) == Turns(Follow(d, link), <<0, {}>>, Units + 1)[2]

\* A chain that is linked both ways and leaves no unit out.
Consistent(d) ==
    \A a \in Reached(d, "next") :
        /\ Readable(d, a)
        /\ Readable(d, d[a].next)
        /\ d[d[a].next].prev = a
        /\ d[a].next # 0 => d[a].next = a + d[a].len

Data(d) == {a \in Reached(d, "next") : Readable(d, a) /\ d[a].type = "data"}
=============================================================================
