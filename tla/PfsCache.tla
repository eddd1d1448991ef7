------------------------------ MODULE PfsCache ------------------------------
(***************************************************************************)
(* The metadata cache of libpfs: buffers found by block, counted by their  *)
(* users, reused in the order of a ring, and written back through the      *)
(* journal of the partition; the journal is replayed by the next mount.    *)
(*                                                                         *)
(* A client (fsck, fssk) gets blocks, changes and frees them; a get that   *)
(* takes over a dirty buffer flushes every dirty block first, in the       *)
(* middle of whatever the client is doing.                                 *)
(*                                                                         *)
(* "disk" is what the drive returns; "may" is, for each sector, what the   *)
(* platter may hold: everything written since the last flushCache, what    *)
(* was there before, and a torn mixture (Garbage).  A loss of power leaves *)
(* any choice from "may"; an IOP reboot leaves the choice the drive returns. *)
(***************************************************************************)
EXTENDS Naturals, Sequences, SequencesExt, FiniteSets

CONSTANTS
    Blocks,        \* metadata blocks of the mount, <<sub, block>> in the code
    Vals,          \* contents of a block
    NumBuf,        \* pfsCacheNumBuffers; up to 127 in the code
    MaxRefs,       \* bound on the references to a buffer
    RecordErrors,  \* PFS_NO_WRITE_ERROR_STAT is not defined (fssk, not fsck)
    Faults,        \* which transfers may fail: "read" of a block, "write", "log" that a
                   \* mount reads, "replay" of a slot
    MaxFaults,     \* bound on failed transfers
    MaxCrashes,    \* bound on losses of power and IOP reboots
    NoBlock,       \* a buffer whose pfsMount is NULL
    Garbage,       \* contents of a torn or clobbered block
    NoLog          \* a journal with a wrong magic or checksum

VARIABLES
    buf,        \* pfsCacheBuf[1..NumBuf]
    ring,       \* the buffers linked to pfsCacheBuf, the next to be reused first
    lastError,  \* pfsMount->lastError is set
    jlog,       \* pfsJournalBuf.log: for some buffers, the block they hold
    pc,         \* where the code is
    pending,    \* the call that a flush is made for
    disk, may,  \* the drive
    undef,      \* blocks in the cache whose content their user gave up
    want,       \* what the client has stored, block by block
    saved,      \* what a crash must not lose
    crashes, faults

cvars == <<buf, ring, lastError>>
drive == <<disk, may>>
hist  == <<undef, want, saved>>
count == <<crashes, faults>>
vars  == <<cvars, jlog, pc, pending, drive, hist, count>>

Bufs    == 1 .. NumBuf
Content == (Blocks \X Vals) \cup {Garbage}
Logs    == UNION {[S -> Blocks] : S \in SUBSET Bufs}
NoEntry == [i \in {} |-> NoBlock]

Get(b, noload) == <<"get", b, noload>>
Clean == <<"clean", NoBlock, TRUE>>
Flush == <<"flush", NoBlock, TRUE>>
Close == <<"close", NoBlock, TRUE>>
Mount == <<"mount", NoBlock, TRUE>>
Calls == {Get(b, n) : b \in Blocks, n \in BOOLEAN} \cup {Clean, Flush, Close, Mount}

Op(call)     == call[1]
Blk(call)    == call[2]
Noload(call) == call[3]

ASSUME CacheAssumption ==
    /\ NumBuf \in 1 .. 127 /\ MaxRefs \in Nat \ {0}
    /\ RecordErrors \in BOOLEAN /\ Faults \subseteq {"read", "write", "log", "replay"}
    /\ MaxFaults \in Nat /\ MaxCrashes \in Nat
    /\ NoBlock \notin Blocks /\ Garbage \notin Blocks \X Vals /\ NoLog \notin Logs

Dirty == {i \in Bufs : buf[i].dirty}
NoBuffers == [i \in Bufs |-> [blk |-> NoBlock, val |-> Garbage, dirty |-> FALSE, nused |-> 0]]

-----------------------------------------------------------------------------
(* The drive.                                                              *)

MayBe(d) == [home |-> [b \in Blocks |-> {d.home[b]}],
             slot |-> [i \in Bufs |-> {d.slot[i]}], log |-> {d.log}]

Barrier == may' = MayBe(disk) /\ UNCHANGED disk

WriteHome(b, v) ==
    /\ disk' = [disk EXCEPT !.home[b] = v]
    /\ may'  = [may EXCEPT !.home[b] = @ \cup {v, Garbage}]
WriteSlots ==
    /\ disk' = [disk EXCEPT !.slot = [i \in Bufs |-> buf[i].val]]
    /\ may'  = [may EXCEPT !.slot = [i \in Bufs |-> @[i] \cup {buf[i].val, Garbage}]]
\* A torn journal has a wrong checksum.
WriteLog(j) ==
    /\ disk' = [disk EXCEPT !.log = j]
    /\ may'  = [may EXCEPT !.log = @ \cup {j, NoLog}]

Succeeds == UNCHANGED faults
Fails(t) == t \in Faults /\ faults < MaxFaults /\ faults' = faults + 1

-----------------------------------------------------------------------------
(* pfsMountSuperBlock on a formatted partition, and pfsCacheInit.  Which    *)
(* value the blocks hold first makes no difference: values are only copied. *)

Init ==
    /\ buf = NoBuffers /\ ring = [i \in Bufs |-> i] /\ lastError = FALSE
    /\ jlog = NoEntry /\ pc = "restore" /\ pending = Mount
    /\ \E l \in {NoEntry, NoLog}, v \in Vals :
          disk = [home |-> [b \in Blocks |-> <<b, v>>],
                  slot |-> [i \in Bufs |-> Garbage], log |-> l]
    /\ may = MayBe(disk)
    /\ undef = {} /\ want = disk.home /\ saved = disk.home
    /\ crashes = 0 /\ faults = 0

-----------------------------------------------------------------------------
(* Buffers.                                                                *)

Linked(i)   == \E k \in DOMAIN ring : ring[k] = i
Unlinked(i) == IF Linked(i) THEN RemoveAt(ring, CHOOSE k \in DOMAIN ring : ring[k] = i) ELSE ring

\* A slip: the buffer goes to the front of the ring whoever holds it.
Freed_Counted(i) ==
    LET n == buf[i].nused - 1
    IN /\ buf' = [buf EXCEPT ![i].nused = n]
       /\ ring' = IF buf[i].blk = NoBlock THEN <<i>> \o ring ELSE Append(ring, i)

\* pfsCacheFree: the last reference links the buffer at the end of the ring,
\* or at its front if it holds no block.  An unused buffer is refused.
Freed(i) ==
    LET n == buf[i].nused - 1
    IN /\ buf' = [buf EXCEPT ![i].nused = n]
       /\ ring' = IF n # 0 THEN ring
                  ELSE IF buf[i].blk = NoBlock THEN <<i>> \o ring ELSE Append(ring, i)

Free(i) ==
    /\ pc = "idle" /\ buf[i].nused > 0
    /\ Freed(i)
    /\ UNCHANGED <<lastError, jlog, pc, pending, drive, hist, count>>

UsedAdd(i) ==
    /\ pc = "idle" /\ buf[i].nused \in 1 .. MaxRefs - 1
    /\ buf' = [buf EXCEPT ![i].nused = @ + 1]
    /\ UNCHANGED <<ring, lastError, jlog, pc, pending, drive, hist, count>>

\* The user of a buffer changes it and sets PFS_CACHE_FLAG_DIRTY.
Modify(i, v) ==
    /\ pc = "idle" /\ buf[i].nused > 0 /\ buf[i].blk # NoBlock
    /\ LET b == buf[i].blk
       IN /\ buf' = [buf EXCEPT ![i].val = <<b, v>>, ![i].dirty = TRUE]
          /\ want' = [want EXCEPT ![b] = <<b, v>>]
          /\ undef' = undef \ {b}
    /\ UNCHANGED <<ring, lastError, jlog, pc, pending, drive, saved, count>>

\* pfsCacheMarkClean: the block has been released, its change is dropped.
MarkClean(i) ==
    /\ pc = "idle" /\ buf[i].dirty
    /\ buf' = [buf EXCEPT ![i].dirty = FALSE]
    /\ undef' = undef \cup {buf[i].blk}
    /\ want' = [want EXCEPT ![buf[i].blk] = saved[buf[i].blk]]
    /\ UNCHANGED <<ring, lastError, jlog, pc, pending, drive, saved, count>>

\* A slip: a buffer that has been freed is not looked at.
InCache_Used(i, b) == buf[i].blk = b /\ buf[i].nused > 0

\* The test of pfsCacheGetData for a buffer that holds the block.
InCache(i, b) == buf[i].blk = b

\* The part of pfsCacheGetData that finds the block in a buffer.
Hit(b) ==
    \E i \in Bufs :
        /\ pc = "idle" /\ InCache(i, b) /\ buf[i].nused < MaxRefs
        /\ buf' = [buf EXCEPT ![i].nused = @ + 1]
        /\ ring' = Unlinked(i)
        /\ UNCHANGED <<lastError, jlog, pc, pending, drive, hist, count>>

\* pfsCacheAlloc gives the first buffer of the ring to another block;
\* pfsCacheTransfer fills it, unless the caller says PFS_CACHE_FLAG_NOLOAD.
\* After an error nothing is read any more, and the buffer is given back; a
\* build that records no errors takes whatever is in the buffer.
Taken(i, call, v) ==
    /\ buf' = [buf EXCEPT ![i] = [blk |-> Blk(call), val |-> v, dirty |-> FALSE, nused |-> 1]]
    /\ ring' = Unlinked(i)
NotTaken(i) ==
    /\ buf' = [buf EXCEPT ![i] = [blk |-> NoBlock, val |-> Garbage, dirty |-> FALSE, nused |-> 0]]
    /\ ring' = <<i>> \o Unlinked(i)

Allocate(i, call) ==
    IF Noload(call)
    THEN /\ Taken(i, call, buf[i].val)
         /\ undef' = (undef \ {buf[i].blk}) \cup ({Blk(call)} \ {NoBlock})
         /\ Succeeds /\ UNCHANGED lastError
    ELSE \/ /\ ~lastError /\ Succeeds
            /\ Taken(i, call, disk.home[Blk(call)])
            /\ undef' = undef \ {buf[i].blk, Blk(call)}
            /\ UNCHANGED lastError
         \/ /\ ~lastError /\ Fails("read")
            /\ IF RecordErrors THEN NotTaken(i) ELSE Taken(i, call, Garbage)
            /\ lastError' = RecordErrors
            /\ undef' = undef \ {buf[i].blk, Blk(call)}
         \/ /\ lastError /\ Succeeds
            /\ NotTaken(i)
            /\ undef' = undef \ {buf[i].blk, Blk(call)}
            /\ UNCHANGED lastError

\* A slip: a dirty buffer is given to another block without a flush.
Miss_Unflushed(call) ==
    /\ pc = "idle" /\ Op(call) \in {"get", "clean"} /\ ring # <<>>
    /\ Blk(call) # NoBlock => \A i \in Bufs : ~InCache(i, Blk(call))
    /\ Allocate(Head(ring), call) /\ UNCHANGED <<pc, pending>>
    /\ UNCHANGED <<jlog, drive, want, saved, crashes>>

\* The rest of pfsCacheGetData, and pfsCacheAllocClean.  With an empty ring
\* they return -ENOMEM.
Miss(call) ==
    /\ pc = "idle" /\ Op(call) \in {"get", "clean"} /\ ring # <<>>
    /\ Blk(call) # NoBlock => \A i \in Bufs : ~InCache(i, Blk(call))
    /\ LET i == Head(ring)
       IN IF buf[i].dirty
          THEN /\ pc' = "slots" /\ pending' = call
               /\ UNCHANGED <<buf, ring, lastError, undef, faults>>
          ELSE Allocate(i, call) /\ UNCHANGED <<pc, pending>>
    /\ UNCHANGED <<jlog, drive, want, saved, crashes>>

-----------------------------------------------------------------------------
(* pfsCacheFlushAllDirty, pfsJournalWrite, pfsJournalFlush,                *)
(* pfsJournalReset.  Their results are used by nobody.                     *)

Goto(l) == pc' = l /\ UNCHANGED pending

FlushAllDirty(call) ==
    /\ pc = "idle" /\ Op(call) \in {"flush", "close"}
    /\ pc' = (IF Dirty = {} THEN "reset" ELSE "slots") /\ pending' = call
    /\ UNCHANGED <<cvars, jlog, drive, hist, count>>

\* Every buffer goes to the journal area in one transfer; the log names the
\* dirty ones.
JournalWrite ==
    /\ pc = "slots"
    /\ jlog' = [i \in Dirty |-> buf[i].blk]
    /\ \/ Succeeds /\ WriteSlots /\ Goto("barrier1")
       \/ Fails("write") /\ Goto("write") /\ UNCHANGED drive
    /\ UNCHANGED <<cvars, hist, crashes>>

\* A slip: the log is written without waiting for what it names.
JournalFlush_Early ==
    /\ pc = "barrier1"
    /\ Goto("log")
    /\ UNCHANGED <<cvars, jlog, drive, hist, count>>

JournalFlush ==
    /\ pc = "barrier1"
    /\ Barrier /\ Goto("log")
    /\ UNCHANGED <<cvars, jlog, hist, count>>

JournalLog ==
    /\ pc = "log"
    /\ \/ Succeeds /\ WriteLog(jlog)
       \/ Fails("write") /\ UNCHANGED drive
    /\ Goto("barrier2")
    /\ UNCHANGED <<cvars, jlog, hist, crashes>>

JournalFlushed ==
    /\ pc = "barrier2"
    /\ Barrier /\ Goto("write")
    /\ UNCHANGED <<cvars, jlog, hist, count>>

\* pfsCacheTransfer clears the dirty flag whatever happens.  When an error is
\* recorded, pfsFsckStat reads the super block into the very buffer.
TransferHome ==
    /\ pc = "write" /\ Dirty # {}
    /\ LET i == CHOOSE i \in Dirty : \A k \in Dirty : i <= k
           b == buf[i].blk
       IN \/ /\ ~lastError /\ Succeeds
             /\ WriteHome(b, buf[i].val)
             /\ buf' = [buf EXCEPT ![i].dirty = FALSE]
             /\ UNCHANGED lastError
          \/ /\ ~lastError /\ Fails("write")
             /\ buf' = [buf EXCEPT ![i].dirty = FALSE,
                                   ![i].val = IF RecordErrors THEN Garbage ELSE @]
             /\ lastError' = RecordErrors
             /\ UNCHANGED drive
          \/ /\ lastError /\ Succeeds
             /\ buf' = [buf EXCEPT ![i].dirty = FALSE]
             /\ UNCHANGED <<lastError, drive>>
    /\ UNCHANGED <<ring, jlog, pc, pending, hist, crashes>>

HomeWritten ==
    /\ pc = "write" /\ Dirty = {}
    /\ Goto("reset")
    /\ UNCHANGED <<cvars, jlog, drive, hist, count>>

JournalReset ==
    /\ pc = "reset"
    /\ Barrier /\ Goto("erase")
    /\ jlog' = NoEntry
    /\ UNCHANGED <<cvars, hist, count>>

JournalErase ==
    /\ pc = "erase"
    /\ \/ Succeeds /\ WriteLog(jlog)
       \/ Fails("write") /\ UNCHANGED drive
    /\ Goto("done")
    /\ UNCHANGED <<cvars, jlog, hist, crashes>>

\* The second barrier of pfsJournalReset, and the return to the call.
\* pfsCacheClose lets go of every buffer.
ResetDone ==
    /\ pc = "done"
    /\ Barrier
    /\ pc' = CASE Op(pending) = "close" -> "off"
               [] Op(pending) \in {"get", "clean"} -> "alloc"
               [] OTHER -> "idle"
    /\ buf' = IF Op(pending) = "close" THEN [i \in Bufs |-> [buf[i] EXCEPT !.blk = NoBlock]]
              ELSE buf
    /\ pending' = IF pc' = "alloc" THEN pending ELSE Mount
    /\ saved' = IF lastError THEN saved ELSE want
    /\ UNCHANGED <<ring, lastError, jlog, undef, want, count>>

\* pfsCacheAlloc goes on after its flush.
AllocAfterFlush ==
    /\ pc = "alloc"
    /\ Allocate(Head(ring), pending)
    /\ pc' = "idle" /\ pending' = Mount
    /\ UNCHANGED <<jlog, drive, want, saved, crashes>>

-----------------------------------------------------------------------------
(* The next mount.                                                         *)

\* The mount structure is cleared (FsckOpen, FsskOpen) and its journal read.
Remount ==
    /\ pc = "off"
    /\ pc' = "restore" /\ pending' = Mount
    /\ lastError' = FALSE /\ undef' = {} /\ want' = saved
    /\ UNCHANGED <<buf, ring, jlog, drive, saved, count>>

\* pfsJournalRestore needs a buffer to copy through, and a valid log.  A log that
\* cannot be read is erased as an invalid one is, whatever it names.
JournalRestore ==
    /\ pc = "restore"
    /\ \/ /\ Succeeds
          /\ IF disk.log = NoLog \/ disk.log = NoEntry
             THEN Goto("reset") /\ UNCHANGED jlog
             ELSE /\ ring # <<>>
                  /\ jlog' = disk.log /\ Goto("replay")
       \/ Fails("log") /\ Goto("reset") /\ UNCHANGED jlog
    /\ UNCHANGED <<cvars, drive, hist, crashes>>

\* One turn of the loop over the log: a slot that cannot be read is skipped.
Replay ==
    /\ pc = "replay" /\ DOMAIN jlog # {}
    /\ LET i == CHOOSE i \in DOMAIN jlog : \A k \in DOMAIN jlog : i <= k
       IN /\ jlog' = [k \in DOMAIN jlog \ {i} |-> jlog[k]]
          /\ \/ Succeeds /\ WriteHome(jlog[i], disk.slot[i])
             \/ Fails("replay") /\ UNCHANGED drive
    /\ UNCHANGED <<cvars, pc, pending, hist, crashes>>

Replayed ==
    /\ pc = "replay" /\ DOMAIN jlog = {}
    /\ Goto("reset")
    /\ UNCHANGED <<cvars, jlog, drive, hist, count>>

\* What a mount finds: the blocks, with a journal replayed over them.
Image(d) == [b \in Blocks |->
    IF d.log # NoLog /\ \E i \in DOMAIN d.log : d.log[i] = b
    THEN d.slot[CHOOSE i \in DOMAIN d.log : d.log[i] = b] ELSE d.home[b]]

MemoryLost ==
    /\ crashes < MaxCrashes /\ crashes' = crashes + 1 /\ UNCHANGED faults
    /\ buf' = NoBuffers /\ ring' = [i \in Bufs |-> i] /\ lastError' = FALSE
    /\ jlog' = NoEntry /\ pc' = "restore" /\ pending' = Mount
    /\ undef' = {} /\ saved' = Image(disk') /\ want' = Image(disk')

OneOfEach(f) == {g \in [DOMAIN f -> UNION {f[x] : x \in DOMAIN f}] :
                  \A x \in DOMAIN f : g[x] \in f[x]}
Platters == {[home |-> h, slot |-> s, log |-> l] :
                 h \in OneOfEach(may.home), s \in OneOfEach(may.slot), l \in may.log}

PowerLoss ==
    /\ disk' \in Platters
    /\ may' = MayBe(disk')
    /\ MemoryLost

-----------------------------------------------------------------------------
Client ==
    \/ \E i \in Bufs : Free(i) \/ UsedAdd(i) \/ MarkClean(i) \/ \E v \in Vals : Modify(i, v)
    \/ \E b \in Blocks : Hit(b) \/ Miss(Get(b, TRUE)) \/ Miss(Get(b, FALSE))
    \/ Miss(Clean)
    \/ FlushAllDirty(Flush) \/ FlushAllDirty(Close)
    \/ Remount

Cache ==
    \/ JournalWrite \/ JournalFlush \/ JournalLog \/ JournalFlushed
    \/ TransferHome \/ HomeWritten \/ JournalReset \/ JournalErase \/ ResetDone
    \/ AllocAfterFlush \/ JournalRestore \/ Replay \/ Replayed

Next == Client \/ Cache \/ PowerLoss

Spec == Init /\ [][Next]_vars

-----------------------------------------------------------------------------
(* Properties.                                                             *)

TypeOK ==
    /\ buf \in [Bufs -> [blk : Blocks \cup {NoBlock}, val : Content, dirty : BOOLEAN,
                         nused : 0 .. MaxRefs]]
    /\ ring \in Seq(Bufs) /\ lastError \in BOOLEAN /\ jlog \in Logs
    /\ pc \in {"off", "restore", "replay", "idle", "slots", "barrier1", "log", "barrier2",
               "write", "reset", "erase", "done", "alloc"}
    /\ pending \in Calls
    /\ disk.home \in [Blocks -> Content] /\ disk.slot \in [Bufs -> Content]
    /\ disk.log \in Logs \cup {NoLog}
    /\ undef \subseteq Blocks
    /\ want \in [Blocks -> Content] /\ saved \in [Blocks -> Content]

\* The types hold, and a buffer is in the ring, once, exactly when nobody uses it (pfsCacheFree,
\* pfsCacheUnLink): none is lost, none is given away while it is used.
RingIsFree ==
    /\ TypeOK
    /\ IsInjective(ring)
    /\ {ring[k] : k \in DOMAIN ring} = {i \in Bufs : buf[i].nused = 0}

\* pfsCacheGetData never has two buffers for a block: a change made in one
\* would be missed by the users of the other.
OneBufferPerBlock ==
    \A i, k \in Bufs : buf[i].blk = buf[k].blk /\ buf[i].blk # NoBlock => i = k

\* A get that succeeds gives the block's last content, however often it has
\* been evicted, flushed, replayed or re-read since.
ReadsAreTrue ==
    pc = "idle" =>
        \A i \in Bufs :
            buf[i].blk # NoBlock /\ buf[i].blk \notin undef => buf[i].val = want[buf[i].blk]

\* Whatever moment the power fails or the IOP is reset, the next mount finds
\* all the changes of a flush or none, and all of them once it has returned
\* (pfsJournalRestore).  Not after a failed read of a block: pfsCacheTransfer then
\* drops every change, but pfsJournalWrite goes on writing the later ones.
LossIsAtomic ==
    ~lastError =>
    LET left == {Image(d) : d \in Platters}
    IN IF pc \in {"log", "barrier2", "write", "reset", "erase", "done"}
       THEN left \subseteq {saved, want}
       ELSE left = {saved}
=============================================================================
