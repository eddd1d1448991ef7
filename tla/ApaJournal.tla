----------------------------- MODULE ApaJournal -----------------------------
(***************************************************************************)
(* The write path of libapa: headers modified in the cache, copied to the  *)
(* journal ("apal"), written home by apaCacheFlushAllDirty, and replayed   *)
(* by apaJournalRestore when hdck or hdsk starts after a loss of power.    *)
(*                                                                         *)
(* The drive acknowledges a write when it is in its own write cache.  What *)
(* a read returns is in "home", "slot" and "apal"; what survives a loss of *)
(* power is in "pHome", "pSlot" and "pApal".  The drive may move any       *)
(* sector to the platter at any time (Destage), and moves all of them on   *)
(* ata_device_flush_cache (a barrier).  A header is two sectors long: a    *)
(* loss of power may tear it.  The journal is one sector, and is not torn. *)
(*                                                                         *)
(* Nothing the program does after a failed transfer depends on which error *)
(* it was, so a transfer succeeds or fails; Faults says which may fail.    *)
(***************************************************************************)
EXTENDS Naturals, Sequences, FiniteSets

CONSTANTS
    Headers,     \* addresses of the partition headers in use
    Vals,        \* what the program may write in a header
    NumSlots,    \* header slots of the journal; 126 in the code
    Faults,      \* the transfers that may fail, as <<phase, pc>> pairs
    MaxFaults,   \* bound on failures, of which no two are of one transfer
    MaxCrashes,  \* bound on losses of power and IOP reboots
    NoBuf,       \* no cache buffer holds the header
    NoMagic,     \* a journal sector without APAL_MAGIC
    Garbage      \* a header that is torn, or that was never written

VARIABLES
    cache,   \* the value in the buffer of a header, or NoBuf
    dirty,   \* headers whose buffer has APA_CACHE_FLAG_DIRTY
    jbuf,    \* journalBuf: the addresses recorded so far, sectors[0..num-1]
    todo,    \* buffers a loop over the cache has still to visit
    idx,     \* i of the loop in apaJournalRestore
    pc,      \* where the program is
    phase,   \* who called apaJournalFlush
    ret,     \* what the last apaCacheFlushAllDirty returned
    home, slot, apal,     \* sectors as the drive returns them
    pHome, pSlot, pApal,  \* sectors as the platter holds them
    failure,              \* how this run may be cut short: "power" or "iop"
    failed,               \* the transfers that have failed so far
    crashes               \* failures of the power or the IOP so far

ram     == <<cache, dirty, jbuf, todo, idx, ret>>
ctl     == <<pc, phase>>
drive   == <<home, slot, apal>>
platter == <<pHome, pSlot, pApal>>
count   == <<failed, crashes, failure>>
vars    == <<ram, ctl, drive, platter, count>>

Slots   == 1 .. NumSlots
Content == (Headers \X Vals) \cup {Garbage}
Records == {j \in Seq(Headers) : Len(j) <= NumSlots}
Journal == Records \cup {NoMagic}

Phases == {"commit", "reset", "restore"}
Pcs    == {"off", "replay", "idle", "log", "barrier1", "sector", "barrier2",
           "write"}

ASSUME ConstantsAssumption ==
    /\ NumSlots \in Nat
    /\ MaxFaults \in Nat
    /\ MaxCrashes \in Nat
    /\ NoBuf \notin Vals
    /\ NoMagic \notin Seq(Headers)
    /\ Garbage \notin Headers \X Vals

Recorded(j) == IF j = NoMagic THEN {} ELSE {j[i] : i \in DOMAIN j}

-----------------------------------------------------------------------------
(* The disk of an APA-formatted drive before the program has started.      *)

Init ==
    /\ \E f \in [Headers -> Vals] : home = [h \in Headers |-> <<h, f[h]>>]
    /\ slot = [i \in Slots |-> Garbage]
    /\ apal \in {<<>>, NoMagic}
    /\ pHome = home /\ pSlot = slot /\ pApal = apal
    /\ cache = [h \in Headers |-> NoBuf]
    /\ dirty = {} /\ jbuf = <<>> /\ todo = {} /\ idx = 1 /\ ret = "none"
    /\ pc = "off" /\ phase = "restore"
    /\ failure \in {"power", "iop"}
    /\ failed = {} /\ crashes = 0

\* The transfer at the program counter succeeds, or fails.
Succeeds == UNCHANGED count
Fails ==
    /\ <<phase, pc>> \in Faults \ failed
    /\ Cardinality(failed) < MaxFaults
    /\ failed' = failed \cup {<<phase, pc>>}
    /\ UNCHANGED <<crashes, failure>>

Goto(l) == pc' = l /\ UNCHANGED phase
Enter(p, l) == pc' = l /\ phase' = p

-----------------------------------------------------------------------------
(* apaJournalFlush: barrier, journal sector, barrier.  Any failure returns *)
(* -EIO at once.  apaCacheFlushAllDirty ignores the result of the first    *)
(* call and returns that of the second; a nonzero result of                *)
(* apaJournalRestore keeps the module from starting.                       *)

Barrier == pHome' = home /\ pSlot' = slot /\ pApal' = apal

JournalFlushReturns(r) ==
    /\ IF phase = "commit"
       THEN pc' = "write" /\ todo' = dirty /\ UNCHANGED ret
       ELSE /\ pc' = IF phase = "restore" /\ r = "eio" THEN "off" ELSE "idle"
            /\ ret' = IF phase = "restore" THEN "none" ELSE r
            /\ UNCHANGED todo
    /\ UNCHANGED <<phase, cache, dirty, jbuf, idx>>

\* A slip: the journal sector is written without waiting for the headers.
FlushBarrier1_Skipped ==
    pc = "barrier1" /\ Goto("sector") /\ UNCHANGED <<ram, drive, platter, count>>

FlushBarrier1 ==
    /\ pc = "barrier1"
    /\ \/ Succeeds /\ Barrier /\ Goto("sector") /\ UNCHANGED ram
       \/ Fails /\ JournalFlushReturns("eio") /\ UNCHANGED platter
    /\ UNCHANGED drive

FlushSector ==
    /\ pc = "sector"
    /\ \/ Succeeds /\ apal' = jbuf /\ Goto("barrier2") /\ UNCHANGED ram
       \/ Fails /\ JournalFlushReturns("eio") /\ UNCHANGED apal
    /\ UNCHANGED <<home, slot, platter>>

\* A slip: the result is returned without waiting for the journal sector.
FlushBarrier2_Skipped ==
    /\ pc = "barrier2"
    /\ JournalFlushReturns("ok")
    /\ UNCHANGED <<drive, platter, count>>

FlushBarrier2 ==
    /\ pc = "barrier2"
    /\ \/ Succeeds /\ Barrier /\ JournalFlushReturns("ok")
       \/ Fails /\ JournalFlushReturns("eio") /\ UNCHANGED platter
    /\ UNCHANGED drive

\* apaJournalReset: an empty journal, and apaJournalFlush.
JournalReset(p) == jbuf' = <<>> /\ Enter(p, "barrier1")

-----------------------------------------------------------------------------
(* The program between two flushes.                                        *)

\* apaCacheGetHeader finds no buffer and reads the header.
GetHeader(h) ==
    /\ pc = "idle"
    /\ cache[h] = NoBuf
    /\ home[h] \in {h} \X Vals
    /\ cache' = [cache EXCEPT ![h] = home[h][2]]
    /\ UNCHANGED <<dirty, jbuf, todo, idx, ret, ctl, drive, platter, count>>

\* A caller changes the header in the buffer and marks the buffer dirty.
Modify(h, v) ==
    /\ pc = "idle"
    /\ cache[h] # NoBuf
    /\ cache' = [cache EXCEPT ![h] = v]
    /\ dirty' = dirty \cup {h}
    /\ UNCHANGED <<jbuf, todo, idx, ret, ctl, drive, platter, count>>

\* A slip: a buffer is taken whether its header has been written or not.
Reuse_Dirty(h) ==
    /\ pc = "idle"
    /\ cache[h] # NoBuf
    /\ cache' = [cache EXCEPT ![h] = NoBuf]
    /\ UNCHANGED <<dirty, jbuf, todo, idx, ret, ctl, drive, platter, count>>

\* A clean buffer in the ring of free buffers is taken for another sector.
Reuse(h) ==
    /\ pc = "idle"
    /\ cache[h] # NoBuf
    /\ h \notin dirty
    /\ cache' = [cache EXCEPT ![h] = NoBuf]
    /\ UNCHANGED <<dirty, jbuf, todo, idx, ret, ctl, drive, platter, count>>

-----------------------------------------------------------------------------
(* apaCacheFlushAllDirty.                                                  *)

FlushAllDirty ==
    /\ pc = "idle"
    /\ todo' = dirty
    /\ Enter("commit", "log")
    /\ UNCHANGED <<cache, dirty, jbuf, idx, ret, drive, platter, count>>

\* A write that failed may have left the old header or a torn one.
WriteSlot(i, c)  == slot' = [slot EXCEPT ![i] = c] /\ UNCHANGED <<home, apal>>
WriteHome(h, c)  == home' = [home EXCEPT ![h] = c] /\ UNCHANGED <<slot, apal>>

\* apaJournalWrite: the header goes to the next slot and is recorded; after
\* an error it is not recorded, and the loop goes on.
JournalWrite(h) ==
    /\ pc = "log"
    /\ h \in todo
    /\ Len(jbuf) < NumSlots
    /\ \/ /\ Succeeds
          /\ WriteSlot(Len(jbuf) + 1, <<h, cache[h]>>)
          /\ jbuf' = Append(jbuf, h)
       \/ /\ Fails
          /\ \E c \in {slot[Len(jbuf) + 1], Garbage} :
                WriteSlot(Len(jbuf) + 1, c)
          /\ UNCHANGED jbuf
    /\ todo' = todo \ {h}
    /\ UNCHANGED <<cache, dirty, idx, ret, ctl, platter>>

\* A slip: the headers go home before the journal that protects them.
JournalWritten_HomeFirst ==
    /\ pc = "log"
    /\ todo = {}
    /\ todo' = dirty
    /\ Goto("write")
    /\ UNCHANGED <<cache, dirty, jbuf, idx, ret, drive, platter, count>>

JournalWritten ==
    /\ pc = "log"
    /\ todo = {}
    /\ Goto("barrier1")
    /\ UNCHANGED <<ram, drive, platter, count>>

\* A slip: a header that is in the journal is taken to be written already.
TransferHome_Skipped(h) ==
    /\ pc = "write"
    /\ h \in todo
    /\ dirty' = dirty \ {h}
    /\ todo' = todo \ {h}
    /\ UNCHANGED <<cache, jbuf, idx, ret, ctl, drive, platter, count>>

\* apaCacheTransfer to the header's own address; the buffer is clean after
\* it, whether the write succeeded or not.
TransferHome(h) ==
    /\ pc = "write"
    /\ h \in todo
    /\ \/ Succeeds /\ WriteHome(h, <<h, cache[h]>>)
       \/ Fails /\ \E c \in {home[h], Garbage} : WriteHome(h, c)
    /\ dirty' = dirty \ {h}
    /\ todo' = todo \ {h}
    /\ UNCHANGED <<cache, jbuf, idx, ret, ctl, platter>>

HomeWritten ==
    /\ pc = "write"
    /\ todo = {}
    /\ JournalReset("reset")
    /\ UNCHANGED <<cache, dirty, todo, idx, ret, drive, platter, count>>

-----------------------------------------------------------------------------
(* apaJournalRestore, when the module starts.                              *)

JournalRestore ==
    /\ pc = "off"
    /\ idx' = 1
    /\ \/ Succeeds /\ apal = <<>> /\ jbuf' = apal /\ Enter("restore", "idle")
       \/ /\ Succeeds
          /\ apal \notin {<<>>, NoMagic}
          /\ jbuf' = apal
          /\ Enter("restore", "replay")
       \/ Succeeds /\ apal = NoMagic /\ JournalReset("restore")
       \/ Fails /\ JournalReset("restore")
    /\ UNCHANGED <<cache, dirty, todo, ret, drive, platter>>

\* A slip: the loop does not advance.
Replay_Stuck ==
    /\ pc = "replay"
    /\ idx <= Len(jbuf)
    /\ WriteHome(jbuf[idx], slot[idx])
    /\ UNCHANGED <<ram, ctl, platter, count>>

\* One turn of the loop: read a slot, write it home.  An error leaves it.
Replay ==
    /\ pc = "replay"
    /\ idx <= Len(jbuf)
    /\ \/ /\ Succeeds
          /\ WriteHome(jbuf[idx], slot[idx])
          /\ idx' = idx + 1
          /\ UNCHANGED <<jbuf, ctl>>
       \/ /\ Fails
          /\ \E c \in {home[jbuf[idx]], Garbage} : WriteHome(jbuf[idx], c)
          /\ JournalReset("restore")
          /\ UNCHANGED idx
    /\ UNCHANGED <<cache, dirty, todo, ret, platter>>

\* A slip: the loop ends one header early.
Replayed_Early ==
    /\ pc = "replay"
    /\ idx >= Len(jbuf)
    /\ JournalReset("restore")
    /\ UNCHANGED <<cache, dirty, todo, idx, ret, drive, platter, count>>

Replayed ==
    /\ pc = "replay"
    /\ idx > Len(jbuf)
    /\ JournalReset("restore")
    /\ UNCHANGED <<cache, dirty, todo, idx, ret, drive, platter, count>>

-----------------------------------------------------------------------------
(* The drive and the power supply.                                         *)

DestageHome(h) ==
    /\ pHome[h] # home[h]
    /\ pHome' = [pHome EXCEPT ![h] = home[h]]
    /\ UNCHANGED <<pSlot, pApal, ram, ctl, drive, count>>

DestageSlot(i) ==
    /\ pSlot[i] # slot[i]
    /\ pSlot' = [pSlot EXCEPT ![i] = slot[i]]
    /\ UNCHANGED <<pHome, pApal, ram, ctl, drive, count>>

DestageApal ==
    /\ pApal # apal
    /\ pApal' = apal
    /\ UNCHANGED <<pHome, pSlot, ram, ctl, drive, count>>

\* The memory of the IOP is gone; the module will be loaded again.
MemoryLost ==
    /\ crashes < MaxCrashes
    /\ crashes' = crashes + 1
    /\ cache' = [h \in Headers |-> NoBuf]
    /\ dirty' = {} /\ jbuf' = <<>> /\ todo' = {} /\ idx' = 1 /\ ret' = "none"
    /\ Enter("restore", "off")
    /\ UNCHANGED <<failed, failure>>

\* The drive's cache is gone too, and a header it was writing may be torn.
Tear(p, d, torn) == [x \in DOMAIN p |-> IF x \in torn /\ p[x] # d[x]
                                        THEN Garbage ELSE p[x]]

PowerLoss ==
    /\ failure = "power"
    /\ MemoryLost
    /\ \E torn \in SUBSET Headers : pHome' = Tear(pHome, home, torn)
    /\ \E torn \in SUBSET Slots : pSlot' = Tear(pSlot, slot, torn)
    /\ home' = pHome' /\ slot' = pSlot' /\ apal' = pApal
    /\ UNCHANGED pApal

\* The EE reboots the IOP; the drive keeps its cache, but the header that was
\* being sent to it may have arrived in part.
IopReset ==
    /\ failure = "iop"
    /\ MemoryLost
    /\ \/ UNCHANGED drive
       \/ /\ pc = "log" /\ todo # {} /\ Len(jbuf) < NumSlots
          /\ WriteSlot(Len(jbuf) + 1, Garbage)
       \/ pc = "write" /\ \E h \in todo : WriteHome(h, Garbage)
       \/ pc = "replay" /\ idx <= Len(jbuf) /\ WriteHome(jbuf[idx], Garbage)
    /\ UNCHANGED platter

Program ==
    \/ FlushBarrier1 \/ FlushSector \/ FlushBarrier2
    \/ \E h \in Headers : JournalWrite(h) \/ TransferHome(h)
    \/ JournalWritten \/ HomeWritten
    \/ JournalRestore \/ Replay \/ Replayed

User ==
    \/ FlushAllDirty
    \/ \E h \in Headers : GetHeader(h) \/ Reuse(h)
    \/ \E h \in Headers, v \in Vals : Modify(h, v)

Drive ==
    \/ \E h \in Headers : DestageHome(h)
    \/ \E i \in Slots : DestageSlot(i)
    \/ DestageApal

Next == Program \/ User \/ Drive \/ PowerLoss \/ IopReset

Spec == Init /\ [][Next]_vars

\* The thread that runs a flush or a restore is scheduled again; a user need
\* not ask for anything, and the drive need not destage.
FairSpec == Spec /\ WF_vars(Program)

-----------------------------------------------------------------------------
(* Properties.                                                             *)

\* Types, and what every state keeps of the two loops over the cache: only
\* buffers that hold a header are dirty, and a loop visits only dirty ones.
TypeOK ==
    /\ cache \in [Headers -> Vals \cup {NoBuf}]
    /\ dirty \subseteq {h \in Headers : cache[h] # NoBuf}
    /\ todo \subseteq dirty
    /\ jbuf \in Records
    /\ idx \in Nat \ {0}
    /\ pc \in Pcs /\ phase \in Phases /\ ret \in {"none", "ok", "eio"}
    /\ home \in [Headers -> Content] /\ pHome \in [Headers -> Content]
    /\ slot \in [Slots -> Content] /\ pSlot \in [Slots -> Content]
    /\ apal \in Journal /\ pApal \in Journal
    /\ failed \subseteq Faults /\ crashes \in Nat /\ failure \in {"power", "iop"}

\* What the next start finds: after a loss of power what is on the platter,
\* after an IOP reboot what the drive returns.
LeftHome == IF failure = "power" THEN pHome ELSE home
LeftSlot == IF failure = "power" THEN pSlot ELSE slot
LeftApal == IF failure = "power" THEN pApal ELSE apal

\* The journal a restart would find names, slot by slot, complete headers that
\* belong at the recorded addresses: whatever moment the failure comes at,
\* apaJournalRestore writes no header to another's place.  (As long as no
\* journal was left behind because apaJournalReset could not erase it.)
Erasing == {"reset", "restore"} \X {"barrier1", "sector", "barrier2"}
NoForeignReplay ==
    failed \cap Erasing = {} /\ LeftApal # NoMagic =>
        \A i \in DOMAIN LeftApal : LeftSlot[i] \in {LeftApal[i]} \X Vals

\* apaCacheFlushAllDirty returning 0 means the journal is erased and nothing
\* it wrote home is left in the drive's cache.  (It does not mean that every
\* header was written: a write home that fails goes unreported, cache.c:75.)
FlushedMeansDurable ==
    pc = "idle" /\ ret = "ok" =>
        apal = <<>> /\ pApal = <<>> /\ pHome = home

\* Between flushes a clean buffer holds what the disk returns for its sector:
\* no update is dropped and no stale header is used.  (As long as no header's
\* own write has failed: apaCacheTransfer clears the dirty flag all the same.)
CleanMeansHome ==
    pc = "idle" /\ <<"commit", "write">> \notin failed =>
        \A h \in Headers : cache[h] # NoBuf /\ h \notin dirty =>
            home[h] = <<h, cache[h]>>

\* apaJournalRestore "copies the journal from the HDD and erases the
\* original" (journal.c:60): when it is about to erase the journal every
\* recorded header has been copied.
RestoreCopiesJournal ==
    phase = "restore" /\ pc \in {"barrier1", "sector"} /\ apal # NoMagic =>
        \A i \in DOMAIN apal : home[apal[i]] = slot[i]

\* What a restart would find: the headers, with a journal replayed over them.
Image(hm, sl, ap) ==
    [h \in Headers |-> IF h \in Recorded(ap)
                       THEN sl[CHOOSE i \in DOMAIN ap : ap[i] = h] ELSE hm[h]]
Stored == Image(LeftHome, LeftSlot, LeftApal)
Recovering == phase = "restore" /\ pc # "idle"
Loaded == IF Recovering THEN Stored
          ELSE [h \in Headers |-> IF cache[h] = NoBuf THEN home[h]
                                                      ELSE <<h, cache[h]>>]

\* The write path implements an atomic store: the headers a flush writes all
\* survive a failure or none does, and all of them do once it has returned.
Abstract == INSTANCE AtomicStore
    WITH Content <- Headers \X Vals, store <- Stored, mem <- Loaded,
         flushing <- (pc # "idle" /\ phase # "restore")
ImplementsAtomicStore == Abstract!ASpec

\* Every flush and every recovery comes to an end.
AlwaysIdleAgain == []<>(pc = "idle")

-----------------------------------------------------------------------------
(* The inductive invariant behind the safety properties, part by part.     *)

\* Which caller can be where, and what journalBuf is worth there.
ControlInv ==
    /\ pc \in {"off", "replay"} => phase = "restore"
    /\ pc \in {"log", "write"} => phase = "commit"
    /\ pc = "idle" => jbuf = <<>>
    /\ pc \in {"barrier1", "sector", "barrier2"} /\ phase # "commit" =>
           jbuf = <<>>
    /\ pc = "barrier2" /\ phase # "commit" => apal = <<>>
    /\ Recovering => /\ ret = "none" /\ dirty = {}
                     /\ \A h \in Headers : cache[h] = NoBuf

\* A clean buffer agrees with the drive, during a flush too.
CleanInv ==
    <<"commit", "write">> \notin failed =>
        \A h \in Headers : cache[h] # NoBuf /\ h \notin dirty =>
            home[h] = <<h, cache[h]>>

\* The slots a journal names hold their headers, on the platter too.
Sound(j) ==
    j # NoMagic =>
        \A i \in DOMAIN j :
            /\ slot[i] \in {j[i]} \X Vals
            /\ failure = "power" => pSlot[i] = slot[i]

\* No journal is left while the slots are written, none is written before its
\* slots are durable.
JournalInv ==
    failed \cap Erasing = {} =>
        /\ \/ pc \in {"idle", "log"}
           \/ phase = "commit" /\ pc \in {"barrier1", "sector"}
           => apal = <<>> /\ LeftApal = <<>>
        /\ Sound(apal) /\ Sound(LeftApal)
        /\ phase = "commit" /\ pc \in {"log", "barrier1", "sector"} =>
              \A i \in DOMAIN jbuf :
                  /\ slot[i] \in {jbuf[i]} \X Vals
                  /\ pc = "sector" /\ failure = "power" => pSlot[i] = slot[i]
        /\ pc = "off" => LeftApal = apal

IInv == TypeOK /\ ControlInv /\ CleanInv /\ FlushedMeansDurable /\ JournalInv

-----------------------------------------------------------------------------
(* What makes the write path atomic when every transfer succeeds: which    *)
(* headers are journalled, written home, and copied back, at each step.    *)

Injective(j) ==
    j # NoMagic => \A i, k \in DOMAIN j : j[i] = j[k] => i = k

Copied(j) == j # NoMagic => \A i \in DOMAIN j : home[j[i]] = slot[i]

\* A flush: the dirty buffers are the ones journalled and still to journal,
\* then the ones journalled, then those still to be written home.
CommitInv ==
    /\ \A i \in DOMAIN jbuf : /\ cache[jbuf[i]] \in Vals
                              /\ slot[i] = <<jbuf[i], cache[jbuf[i]]>>
    /\ Injective(jbuf)
    /\ pc = "log" => /\ todo \cap Recorded(jbuf) = {}
                     /\ dirty = todo \cup Recorded(jbuf)
    /\ pc \in {"barrier1", "sector", "barrier2"} => dirty = Recorded(jbuf)
    /\ pc = "barrier2" => apal = jbuf /\ LeftApal \in {<<>>, jbuf}
    /\ pc = "write" => /\ apal = jbuf /\ LeftApal = jbuf
                       /\ todo = dirty /\ dirty \subseteq Recorded(jbuf)

\* Erasing the journal, after a flush or a recovery: it has been copied.
EraseInv ==
    /\ dirty = {}
    /\ pc \in {"barrier1", "sector"} => LeftApal = apal
    /\ pc \in {"sector", "barrier2"} => LeftHome = home
    /\ Copied(LeftApal)

AtomicInv ==
    /\ Injective(apal) /\ Injective(LeftApal)
    /\ \A h \in Headers : LeftHome[h] # home[h] => h \in Recorded(LeftApal)
    /\ pc \in {"log", "barrier1", "sector", "barrier2", "write"} =>
           IF phase = "commit" THEN CommitInv ELSE EraseInv
    /\ pc = "replay" => /\ jbuf = apal /\ LeftApal = apal
                        /\ \A i \in DOMAIN jbuf :
                              i < idx => home[jbuf[i]] = slot[i]
=============================================================================
