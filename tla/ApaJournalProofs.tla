-------------------------- MODULE ApaJournalProofs --------------------------
(* Theorems about the write path of libapa, for every set of headers, every  *)
(* number of journal slots, and every choice of transfers that may fail.     *)
EXTENDS ApaJournal, SequenceTheorems, TLAPS

-----------------------------------------------------------------------------
(* Type correctness.                                                       *)

LEMMA EmptyRecords == <<>> \in Records
  BY EmptySeq, ConstantsAssumption DEF Records

LEMMA AppendRecords ==
  ASSUME NEW j \in Records, NEW h \in Headers, Len(j) < NumSlots
  PROVE  /\ Append(j, h) \in Records
         /\ Len(Append(j, h)) = Len(j) + 1
         /\ DOMAIN Append(j, h) = 1 .. Len(j) + 1
         /\ \A i \in 1 .. Len(j) : Append(j, h)[i] = j[i]
         /\ Append(j, h)[Len(j) + 1] = h
         /\ Len(j) \in Nat /\ DOMAIN j = 1 .. Len(j)
  <1>1. j \in Seq(Headers)
    BY DEF Records
  <1>2. Len(j) \in Nat /\ DOMAIN j = 1 .. Len(j)
    BY <1>1, LenProperties
  <1>3. Append(j, h) \in Seq(Headers) /\ Len(Append(j, h)) = Len(j) + 1
    BY <1>1, AppendProperties
  <1>4. DOMAIN Append(j, h) = 1 .. Len(j) + 1
    BY <1>3, LenProperties
  <1>5. Len(Append(j, h)) <= NumSlots
    BY <1>2, <1>3, ConstantsAssumption
  <1>6. /\ \A i \in 1 .. Len(j) : Append(j, h)[i] = j[i]
        /\ Append(j, h)[Len(j) + 1] = h
    BY <1>1, AppendProperties
  <1> QED
    BY <1>2, <1>3, <1>4, <1>5, <1>6 DEF Records

LEMMA InitTypeOK == Init => TypeOK
<1> SUFFICES ASSUME Init PROVE TypeOK
  OBVIOUS
<1>1. PICK f \in [Headers -> Vals] : home = [h \in Headers |-> <<h, f[h]>>]
  BY DEF Init
<1>2. home \in [Headers -> Content]
  BY <1>1 DEF Content
<1>3. slot \in [Slots -> Content]
  BY DEF Init, Content
<1>4. <<>> \in Records /\ apal \in Journal
  BY EmptyRecords DEF Init, Journal
<1> QED
  BY <1>2, <1>3, <1>4 DEF Init, TypeOK, Pcs, Phases

LEMMA JournalFlushReturnsType ==
  ASSUME TypeOK, NEW r \in {"ok", "eio"}, JournalFlushReturns(r)
  PROVE  /\ <<cache, dirty, jbuf, idx, phase>>' = <<cache, dirty, jbuf, idx, phase>>
         /\ todo' \subseteq dirty
         /\ pc' \in Pcs
         /\ ret' \in {"none", "ok", "eio"}
  BY DEF TypeOK, JournalFlushReturns, Pcs

LEMMA FailsType ==
  ASSUME TypeOK, Fails
  PROVE  failed' \subseteq Faults /\ crashes' \in Nat /\ failure' \in {"power", "iop"}
  BY DEF TypeOK, Fails

LEMMA ProgramTypeOK == TypeOK /\ Program => TypeOK'
<1> SUFFICES ASSUME TypeOK, Program PROVE TypeOK'
  OBVIOUS
<1> USE DEF vars, ram, ctl, drive, platter, count, Goto, Enter, Succeeds
<1>1. CASE FlushBarrier1
  BY <1>1, FailsType, JournalFlushReturnsType DEF FlushBarrier1, Barrier, TypeOK, Pcs
<1>2. CASE FlushSector
  BY <1>2, FailsType, JournalFlushReturnsType DEF FlushSector, TypeOK, Pcs, Journal
<1>3. CASE FlushBarrier2
  BY <1>3, FailsType, JournalFlushReturnsType DEF FlushBarrier2, Barrier, TypeOK, Pcs
<1>4. ASSUME NEW h \in Headers, JournalWrite(h) PROVE TypeOK'
  <2>1. Len(jbuf) + 1 \in Slots
    BY <1>4, ConstantsAssumption DEF JournalWrite, TypeOK, Records, Slots
  <2>2. <<h, cache[h]>> \in Content /\ slot[Len(jbuf) + 1] \in Content /\ Garbage \in Content
    BY <1>4, <2>1 DEF JournalWrite, TypeOK, Content
  <2>3. slot' \in [Slots -> Content]
    BY <1>4, <2>2 DEF JournalWrite, WriteSlot, TypeOK
  <2>4. jbuf' \in Records
    <3>1. jbuf \in Records /\ Len(jbuf) < NumSlots
      BY <1>4 DEF JournalWrite, TypeOK
    <3>2. Append(jbuf, h) \in Records
      BY <3>1, AppendRecords
    <3> QED
      BY <1>4, <3>1, <3>2 DEF JournalWrite
  <2> QED
    BY <1>4, <2>3, <2>4, FailsType DEF JournalWrite, WriteSlot, TypeOK
<1>5. ASSUME NEW h \in Headers, TransferHome(h) PROVE TypeOK'
  <2>1. <<h, cache[h]>> \in Content /\ home[h] \in Content /\ Garbage \in Content
    BY <1>5 DEF TransferHome, TypeOK, Content
  <2>2. home' \in [Headers -> Content]
    BY <1>5, <2>1 DEF TransferHome, WriteHome, TypeOK
  <2> QED
    BY <1>5, <2>2, FailsType DEF TransferHome, WriteHome, TypeOK
<1>6. CASE JournalWritten
  BY <1>6 DEF JournalWritten, TypeOK, Pcs
<1>7. CASE HomeWritten \/ Replayed
  BY <1>7, EmptyRecords
     DEF HomeWritten, Replayed, JournalReset, TypeOK, Pcs, Phases
<1>8. CASE JournalRestore
  <2>1. jbuf' \in Records
    BY <1>8, EmptyRecords DEF JournalRestore, JournalReset, TypeOK, Journal
  <2>2. pc' \in Pcs /\ phase' \in Phases
    BY <1>8 DEF JournalRestore, JournalReset, Pcs, Phases
  <2> QED
    BY <1>8, <2>1, <2>2, FailsType DEF JournalRestore, TypeOK
<1>9. CASE Replay
  <2>1. idx \in Slots /\ idx \in DOMAIN jbuf
    BY <1>9, ConstantsAssumption DEF Replay, TypeOK, Records, Slots
  <2>2. slot[idx] \in Content /\ home[jbuf[idx]] \in Content /\ Garbage \in Content
    BY <2>1 DEF TypeOK, Records, Content
  <2>3. home' \in [Headers -> Content] /\ UNCHANGED <<slot, apal>>
    BY <1>9, <2>2 DEF Replay, WriteHome, TypeOK
  <2>4. jbuf' \in Records /\ pc' \in Pcs /\ phase' \in Phases /\ idx' \in Nat \ {0}
    BY <1>9, EmptyRecords DEF Replay, JournalReset, TypeOK, Pcs, Phases
  <2> QED
    BY <1>9, <2>3, <2>4, FailsType DEF Replay, TypeOK
<1> QED
  BY <1>1, <1>2, <1>3, <1>4, <1>5, <1>6, <1>7, <1>8, <1>9 DEF Program


LEMMA UserDriveTypeOK == TypeOK /\ (User \/ Drive) => TypeOK'
<1> SUFFICES ASSUME TypeOK, User \/ Drive PROVE TypeOK'
  OBVIOUS
<1> USE DEF vars, ram, ctl, drive, platter, count, Goto, Enter
<1>1. CASE FlushAllDirty
  BY <1>1 DEF FlushAllDirty, TypeOK, Pcs, Phases
<1>2. ASSUME NEW h \in Headers, GetHeader(h) PROVE TypeOK'
  BY <1>2 DEF GetHeader, TypeOK
<1>3. ASSUME NEW h \in Headers, Reuse(h) PROVE TypeOK'
  BY <1>3 DEF Reuse, TypeOK
<1>4. ASSUME NEW h \in Headers, NEW v \in Vals, Modify(h, v) PROVE TypeOK'
  BY <1>4, ConstantsAssumption DEF Modify, TypeOK
<1>5. ASSUME NEW h \in Headers, DestageHome(h) PROVE TypeOK'
  BY <1>5 DEF DestageHome, TypeOK
<1>6. ASSUME NEW i \in Slots, DestageSlot(i) PROVE TypeOK'
  BY <1>6 DEF DestageSlot, TypeOK
<1>7. CASE DestageApal
  BY <1>7 DEF DestageApal, TypeOK
<1> QED
  BY <1>1, <1>2, <1>3, <1>4, <1>5, <1>6, <1>7 DEF User, Drive

LEMMA TearType ==
  ASSUME NEW S, NEW p \in [S -> Content], NEW d, NEW torn
  PROVE  Tear(p, d, torn) \in [S -> Content]
  BY DEF Tear, Content

LEMMA MemoryLostType ==
  ASSUME TypeOK, MemoryLost
  PROVE  /\ cache' \in [Headers -> Vals \cup {NoBuf}]
         /\ dirty' = {} /\ todo' = {} /\ jbuf' \in Records /\ idx' \in Nat \ {0}
         /\ pc' \in Pcs /\ phase' \in Phases /\ ret' = "none"
         /\ failed' \subseteq Faults /\ crashes' \in Nat /\ failure' = failure
  BY EmptyRecords DEF MemoryLost, TypeOK, Enter, Pcs, Phases

LEMMA CrashTypeOK == TypeOK /\ (PowerLoss \/ IopReset) => TypeOK'
<1> SUFFICES ASSUME TypeOK, PowerLoss \/ IopReset PROVE TypeOK'
  OBVIOUS
<1>1. CASE PowerLoss
  <2>1. pHome' \in [Headers -> Content] /\ pSlot' \in [Slots -> Content]
    BY <1>1, TearType DEF PowerLoss, TypeOK
  <2> QED
    BY <1>1, <2>1, MemoryLostType DEF PowerLoss, TypeOK
<1>2. CASE IopReset
  <2>1. home' \in [Headers -> Content] /\ slot' \in [Slots -> Content] /\ apal' = apal
    BY <1>2 DEF IopReset, WriteHome, WriteSlot, TypeOK, Content, drive
  <2> QED
    BY <1>2, <2>1, MemoryLostType DEF IopReset, TypeOK, platter
<1> QED
  BY <1>1, <1>2

LEMMA NextTypeOK == TypeOK /\ [Next]_vars => TypeOK'
<1>1. TypeOK /\ UNCHANGED vars => TypeOK'
  BY DEF TypeOK, vars, ram, ctl, drive, platter, count
<1> QED
  BY <1>1, ProgramTypeOK, UserDriveTypeOK, CrashTypeOK DEF Next

\* Every variable keeps its type, only buffers that hold a header are dirty,
\* and the loops of apaCacheFlushAllDirty visit dirty buffers only.
THEOREM TypeCorrect == Spec => []TypeOK
<1> QED
  BY InitTypeOK, NextTypeOK, PTL DEF Spec


-----------------------------------------------------------------------------
(* Who can be where.                                                       *)

LEMMA ReturnControl ==
  ASSUME TypeOK, NEW r \in {"ok", "eio"}, JournalFlushReturns(r)
  PROVE  /\ phase = "commit" => pc' = "write" /\ ret' = ret
         /\ phase = "reset" => pc' = "idle" /\ ret' = r
         /\ phase = "restore" => pc' \in {"idle", "off"} /\ ret' = "none"
         /\ UNCHANGED <<phase, cache, dirty, jbuf, idx>>
  BY DEF JournalFlushReturns, TypeOK, Phases

LEMMA ProgramControl == TypeOK /\ ControlInv /\ Program => ControlInv'
<1> SUFFICES ASSUME TypeOK, ControlInv, Program PROVE ControlInv'
  OBVIOUS
<1> USE DEF ram, ctl, drive, platter, count, Goto, Enter, Succeeds, Recovering
<1>1. CASE FlushBarrier1
  BY <1>1, ReturnControl DEF FlushBarrier1, ControlInv, TypeOK, Phases
<1>2. CASE FlushSector
  BY <1>2, ReturnControl DEF FlushSector, ControlInv, TypeOK, Phases
<1>3. CASE FlushBarrier2
  BY <1>3, ReturnControl DEF FlushBarrier2, ControlInv, TypeOK, Phases
<1>4. ASSUME NEW h \in Headers, JournalWrite(h) \/ TransferHome(h) PROVE ControlInv'
  BY <1>4 DEF JournalWrite, TransferHome, WriteSlot, WriteHome, ControlInv
<1>5. CASE JournalWritten \/ HomeWritten \/ Replayed
  BY <1>5 DEF JournalWritten, HomeWritten, Replayed, JournalReset, ControlInv
<1>6. CASE JournalRestore
  BY <1>6 DEF JournalRestore, JournalReset, ControlInv
<1>7. CASE Replay
  BY <1>7 DEF Replay, JournalReset, WriteHome, ControlInv
<1> QED
  BY <1>1, <1>2, <1>3, <1>4, <1>5, <1>6, <1>7 DEF Program

LEMMA NextControl == TypeOK /\ ControlInv /\ [Next]_vars => ControlInv'
<1> SUFFICES ASSUME TypeOK, ControlInv, [Next]_vars PROVE ControlInv'
  OBVIOUS
<1> USE DEF ram, ctl, drive, platter, count, Goto, Enter, Recovering
<1>1. CASE User
  BY <1>1 DEF User, FlushAllDirty, GetHeader, Reuse, Modify, ControlInv
<1>2. CASE Drive
  BY <1>2 DEF Drive, DestageHome, DestageSlot, DestageApal, ControlInv
<1>3. CASE PowerLoss \/ IopReset
  BY <1>3 DEF PowerLoss, IopReset, MemoryLost, ControlInv
<1>4. CASE UNCHANGED vars
  BY <1>4 DEF vars, ControlInv
<1> QED
  BY <1>1, <1>2, <1>3, <1>4, ProgramControl DEF Next

-----------------------------------------------------------------------------
(* A clean buffer agrees with the drive.                                   *)

LEMMA NextClean ==
  TypeOK /\ ControlInv /\ CleanInv /\ [Next]_vars => CleanInv'
<1> SUFFICES ASSUME TypeOK, ControlInv, CleanInv, [Next]_vars PROVE CleanInv'
  OBVIOUS
<1> USE DEF ram, ctl, drive, platter, count, Goto, Enter, Succeeds, Fails, CleanInv
<1>1. CASE FlushBarrier1 \/ FlushSector \/ FlushBarrier2
  BY <1>1 DEF FlushBarrier1, FlushSector, FlushBarrier2, JournalFlushReturns
<1>2. ASSUME NEW h \in Headers, JournalWrite(h) PROVE CleanInv'
  BY <1>2 DEF JournalWrite, WriteSlot
<1>3. ASSUME NEW h \in Headers, TransferHome(h) PROVE CleanInv'
  <2>1. ASSUME <<"commit", "write">> \notin failed' PROVE home' = [home EXCEPT ![h] = <<h, cache[h]>>]
    BY <1>3, <2>1 DEF TransferHome, WriteHome, ControlInv
  <2> QED
    BY <1>3, <2>1 DEF TransferHome, WriteHome, TypeOK
<1>4. CASE JournalWritten \/ HomeWritten \/ Replayed
  BY <1>4 DEF JournalWritten, HomeWritten, Replayed, JournalReset
<1>5. CASE JournalRestore
  BY <1>5 DEF JournalRestore, JournalReset
<1>6. CASE Replay
  BY <1>6 DEF Replay, JournalReset, ControlInv, Recovering
<1>7. CASE FlushAllDirty
  BY <1>7 DEF FlushAllDirty
<1>8. ASSUME NEW h \in Headers, GetHeader(h) PROVE CleanInv'
  BY <1>8 DEF GetHeader, TypeOK
<1>9. ASSUME NEW h \in Headers, Reuse(h) PROVE CleanInv'
  BY <1>9 DEF Reuse, TypeOK
<1>10. ASSUME NEW h \in Headers, NEW v \in Vals, Modify(h, v) PROVE CleanInv'
  BY <1>10 DEF Modify, TypeOK
<1>11. CASE Drive
  BY <1>11 DEF Drive, DestageHome, DestageSlot, DestageApal
<1>12. CASE PowerLoss \/ IopReset
  BY <1>12 DEF PowerLoss, IopReset, MemoryLost
<1>13. CASE UNCHANGED vars
  BY <1>13 DEF vars
<1> QED
  BY <1>1, <1>2, <1>3, <1>4, <1>5, <1>6, <1>7, <1>8, <1>9, <1>10, <1>11, <1>12, <1>13
     DEF Next, Program, User

-----------------------------------------------------------------------------
(* A flush that returns 0 leaves nothing behind.                           *)

LEMMA NextFlushed ==
  TypeOK /\ ControlInv /\ FlushedMeansDurable /\ [Next]_vars => FlushedMeansDurable'
<1> SUFFICES ASSUME TypeOK, ControlInv, FlushedMeansDurable, [Next]_vars
             PROVE  FlushedMeansDurable'
  OBVIOUS
<1> USE DEF ram, ctl, drive, platter, count, Goto, Enter, Succeeds, FlushedMeansDurable
<1>1. CASE FlushBarrier1 \/ FlushSector
  BY <1>1, ReturnControl DEF FlushBarrier1, FlushSector, TypeOK, Phases
<1>2. CASE FlushBarrier2
  BY <1>2, ReturnControl DEF FlushBarrier2, Barrier, ControlInv, TypeOK, Phases
<1>3. ASSUME NEW h \in Headers, JournalWrite(h) \/ TransferHome(h)
      PROVE  FlushedMeansDurable'
  BY <1>3 DEF JournalWrite, TransferHome
<1>4. CASE JournalWritten \/ HomeWritten \/ Replayed
  BY <1>4 DEF JournalWritten, HomeWritten, Replayed, JournalReset
<1>5. CASE JournalRestore
  BY <1>5 DEF JournalRestore, JournalReset, ControlInv, Recovering
<1>6. CASE Replay
  BY <1>6 DEF Replay, JournalReset
<1>7. CASE User
  BY <1>7 DEF User, FlushAllDirty, GetHeader, Reuse, Modify
<1>8. CASE Drive
  BY <1>8 DEF Drive, DestageHome, DestageSlot, DestageApal
<1>9. CASE PowerLoss \/ IopReset
  BY <1>9 DEF PowerLoss, IopReset, MemoryLost
<1>10. CASE UNCHANGED vars
  BY <1>10 DEF vars
<1> QED
  BY <1>1, <1>2, <1>3, <1>4, <1>5, <1>6, <1>7, <1>8, <1>9, <1>10 DEF Next, Program

-----------------------------------------------------------------------------
(* No journal on the disk names a slot that is not its own.                *)

\* A step that leaves the journals and the slots alone, and the fields of
\* journalBuf while they matter, keeps JournalInv.
LEMMA ReturnJournal ==
  ASSUME TypeOK, ControlInv, JournalInv, UNCHANGED drive, UNCHANGED failure,
         NEW r \in {"ok", "eio"}, JournalFlushReturns(r),
         \/ UNCHANGED platter /\ phase = "commit"
         \/ Barrier
         \/ failed' \cap Erasing # {},
         pc = "barrier2" \/ phase = "commit" \/ failed' \cap Erasing # {},
         failed \subseteq failed'
  PROVE  JournalInv'
<1> SUFFICES ASSUME failed' \cap Erasing = {} PROVE JournalInv'
  BY DEF JournalInv
<1> USE DEF drive, platter, Sound, LeftApal, ControlInv, JournalFlushReturns
<1>1. CASE phase = "commit" /\ UNCHANGED platter
  BY <1>1 DEF JournalInv, TypeOK, Phases
<1>2. CASE Barrier /\ phase = "commit"
  BY <1>2 DEF JournalInv, Barrier, TypeOK, Phases
<1>3. CASE Barrier /\ phase # "commit"
  BY <1>3 DEF JournalInv, Barrier, TypeOK, Phases
<1> QED
  BY <1>1, <1>2, <1>3

LEMMA FailsErasing ==
  ASSUME TypeOK, Fails, phase # "commit", pc \in {"barrier1", "sector", "barrier2"}
  PROVE  failed' \cap Erasing # {}
  BY DEF Fails, Erasing, TypeOK, Phases

LEMMA FlushJournal ==
  TypeOK /\ ControlInv /\ JournalInv /\ (FlushBarrier1 \/ FlushSector \/ FlushBarrier2)
    => JournalInv'
<1> SUFFICES ASSUME TypeOK, ControlInv, JournalInv,
                    FlushBarrier1 \/ FlushSector \/ FlushBarrier2
             PROVE  JournalInv'
  OBVIOUS
<1> USE DEF ram, ctl, drive, platter, count, Goto, Succeeds
<1>0. ~(Succeeds /\ Fails)
  BY DEF Fails
<1>1. ASSUME Fails, UNCHANGED drive, UNCHANGED platter, JournalFlushReturns("eio"),
             pc \in {"barrier1", "sector", "barrier2"}
      PROVE  JournalInv'
  <2>1. UNCHANGED failure /\ failed \subseteq failed'
    BY <1>1 DEF Fails
  <2>2. CASE phase = "commit"
    BY <1>1, <2>1, <2>2, ReturnJournal
  <2>3. CASE phase # "commit"
    BY <1>1, <2>1, <2>3, FailsErasing DEF JournalInv
  <2> QED
    BY <2>2, <2>3
<1>2. CASE FlushBarrier1 /\ Succeeds
  BY <1>0, <1>2 DEF FlushBarrier1, Barrier, JournalInv, ControlInv, Sound, LeftApal, TypeOK
<1>3. CASE FlushSector /\ Succeeds
  <2>1. CASE phase = "commit"
    BY <1>0, <1>3, <2>1, ConstantsAssumption
       DEF FlushSector, JournalInv, Sound, LeftApal, TypeOK, Records
  <2>2. CASE phase # "commit"
    BY <1>0, <1>3, <2>2 DEF FlushSector, JournalInv, ControlInv, Sound, LeftApal
  <2> QED
    BY <2>1, <2>2
<1>4. CASE FlushBarrier2 /\ Succeeds
  <2>1. /\ pc = "barrier2" /\ Barrier /\ JournalFlushReturns("ok")
        /\ UNCHANGED drive /\ UNCHANGED failure /\ failed \subseteq failed'
    BY <1>0, <1>4 DEF FlushBarrier2
  <2> QED
    BY <2>1, ReturnJournal
<1> QED
  BY <1>1, <1>2, <1>3, <1>4 DEF FlushBarrier1, FlushSector, FlushBarrier2

LEMMA ProgramJournal ==
  TypeOK /\ ControlInv /\ JournalInv /\ Program => JournalInv'
<1> SUFFICES ASSUME TypeOK, ControlInv, JournalInv, Program PROVE JournalInv'
  OBVIOUS
<1> USE DEF ram, ctl, drive, platter, count, Goto, Enter, Succeeds, Fails, Sound, LeftApal
<1>1. ASSUME NEW h \in Headers, JournalWrite(h) PROVE JournalInv'
  <2>1. jbuf \in Records /\ Len(jbuf) < NumSlots
    BY <1>1 DEF JournalWrite, TypeOK
  <2>2. /\ DOMAIN jbuf = 1 .. Len(jbuf) /\ Len(jbuf) \in Nat
        /\ DOMAIN Append(jbuf, h) = 1 .. Len(jbuf) + 1
        /\ \A i \in 1 .. Len(jbuf) : Append(jbuf, h)[i] = jbuf[i]
        /\ Append(jbuf, h)[Len(jbuf) + 1] = h
    BY <2>1, AppendRecords
  <2>3. Len(jbuf) + 1 \in Slots
    BY <2>1, <2>2, ConstantsAssumption DEF Slots
  <2>4. cache[h] \in Vals
    BY <1>1 DEF JournalWrite, TypeOK
  <2> SUFFICES ASSUME failed' \cap Erasing = {} PROVE JournalInv'
    BY DEF JournalInv
  <2>5. failed \cap Erasing = {}
    BY <1>1 DEF JournalWrite
  <2>6. apal = <<>> /\ LeftApal = <<>> /\ phase = "commit" /\ pc = "log"
    BY <1>1, <2>5 DEF JournalWrite, JournalInv, ControlInv
  <2>7. \A i \in DOMAIN jbuf' : slot'[i] \in {jbuf'[i]} \X Vals
    <3>1. \A i \in DOMAIN jbuf : slot[i] \in {jbuf[i]} \X Vals
      BY <2>5, <2>6 DEF JournalInv
    <3>2. CASE Succeeds /\ slot' = [slot EXCEPT ![Len(jbuf) + 1] = <<h, cache[h]>>]
                        /\ jbuf' = Append(jbuf, h)
      BY <2>2, <2>3, <2>4, <3>1, <3>2 DEF TypeOK
    <3>3. CASE \E c : slot' = [slot EXCEPT ![Len(jbuf) + 1] = c] /\ jbuf' = jbuf
      BY <2>2, <3>1, <3>3 DEF TypeOK
    <3> QED
      BY <1>1, <3>2, <3>3 DEF JournalWrite, WriteSlot
  <2>8. /\ UNCHANGED <<apal, pApal, failure, pc, phase>>
        /\ DOMAIN apal = {}
    BY <1>1, <2>6 DEF JournalWrite, WriteSlot
  <2> QED
    BY <2>6, <2>7, <2>8 DEF JournalInv
<1>2. ASSUME NEW h \in Headers, TransferHome(h) PROVE JournalInv'
  BY <1>2 DEF TransferHome, WriteHome, JournalInv, ControlInv
<1>3. CASE JournalWritten
  BY <1>3 DEF JournalWritten, JournalInv, ControlInv
<1>4. CASE HomeWritten \/ Replayed
  BY <1>4 DEF HomeWritten, Replayed, JournalReset, JournalInv, ControlInv
<1>5. CASE JournalRestore
  BY <1>5 DEF JournalRestore, JournalReset, JournalInv, ControlInv
<1>6. CASE Replay
  BY <1>6 DEF Replay, JournalReset, WriteHome, JournalInv, ControlInv
<1> QED
  BY <1>1, <1>2, <1>3, <1>4, <1>5, <1>6, FlushJournal DEF Program

LEMMA LossJournal ==
  TypeOK /\ ControlInv /\ JournalInv /\ (PowerLoss \/ IopReset) => JournalInv'
<1> SUFFICES ASSUME TypeOK, ControlInv, JournalInv, PowerLoss \/ IopReset,
                    failed' \cap Erasing = {}
             PROVE  JournalInv'
  BY DEF JournalInv
<1> USE DEF drive, platter, Enter, MemoryLost, Sound, LeftApal
<1>1. /\ failed \cap Erasing = {} /\ UNCHANGED failure
      /\ pc' = "off" /\ phase' = "restore" /\ jbuf' = <<>>
  BY DEF PowerLoss, IopReset
<1>2. CASE PowerLoss
  <2>1. /\ failure = "power" /\ apal' = pApal /\ pApal' = pApal /\ slot' = pSlot'
        /\ \E torn \in SUBSET Slots : pSlot' = Tear(pSlot, slot, torn)
    BY <1>2 DEF PowerLoss
  <2>2. ASSUME pApal # NoMagic, NEW i \in DOMAIN pApal
        PROVE  pSlot'[i] = pSlot[i] /\ pSlot[i] \in {pApal[i]} \X Vals
    <3>1. slot[i] \in {pApal[i]} \X Vals /\ pSlot[i] = slot[i]
      BY <1>1, <2>1, <2>2 DEF JournalInv
    <3>2. i \in Slots
      BY <2>2, ConstantsAssumption DEF TypeOK, Journal, Records, Slots
    <3> QED
      BY <2>1, <3>1, <3>2 DEF Tear, TypeOK
  <2> QED
    BY <1>1, <2>1, <2>2 DEF JournalInv
<1>3. CASE IopReset
  <2>1. UNCHANGED <<apal, pApal>> /\ failure = "iop"
    BY <1>3 DEF IopReset, WriteSlot, WriteHome
  <2>2. CASE pc = "log"
    BY <1>1, <2>1, <2>2 DEF JournalInv
  <2>3. CASE pc # "log"
    <3>1. UNCHANGED slot
      BY <1>3, <2>3 DEF IopReset, WriteHome
    <3> QED
      BY <1>1, <2>1, <3>1 DEF JournalInv
  <2> QED
    BY <2>2, <2>3
<1> QED
  BY <1>2, <1>3

LEMMA NextJournal == TypeOK /\ ControlInv /\ JournalInv /\ [Next]_vars => JournalInv'
<1> SUFFICES ASSUME TypeOK, ControlInv, JournalInv, [Next]_vars PROVE JournalInv'
  OBVIOUS
<1> USE DEF ram, ctl, drive, platter, count, Goto, Enter, Sound, LeftApal
<1>1. CASE User
  BY <1>1 DEF User, FlushAllDirty, GetHeader, Reuse, Modify, JournalInv, ControlInv
<1>2. CASE DestageApal \/ \E h \in Headers : DestageHome(h)
  BY <1>2 DEF DestageHome, DestageApal, JournalInv
<1>3. ASSUME NEW i \in Slots, DestageSlot(i) PROVE JournalInv'
  <2>1. pSlot' = [pSlot EXCEPT ![i] = slot[i]] /\ pSlot \in [Slots -> Content]
    BY <1>3 DEF DestageSlot, TypeOK
  <2>2. \A j : pSlot[j] = slot[j] => pSlot'[j] = slot[j]
    BY <2>1
  <2> QED
    BY <1>3, <2>2 DEF DestageSlot, JournalInv
<1>4. CASE UNCHANGED vars
  BY <1>4 DEF vars, JournalInv
<1> QED
  BY <1>1, <1>2, <1>3, <1>4, ProgramJournal, LossJournal DEF Next, Drive

-----------------------------------------------------------------------------
(* The safety properties.                                                  *)

LEMMA InitIInv == Init => IInv
<1> SUFFICES ASSUME Init PROVE IInv
  OBVIOUS
<1>1. TypeOK
  BY InitTypeOK
<1>2. ControlInv
  BY DEF Init, ControlInv, Recovering
<1>3. CleanInv /\ FlushedMeansDurable
  BY DEF Init, CleanInv, FlushedMeansDurable
<1>4. JournalInv
  BY DEF Init, JournalInv, Sound, LeftApal
<1> QED
  BY <1>1, <1>2, <1>3, <1>4 DEF IInv

LEMMA NextIInv == IInv /\ [Next]_vars => IInv'
  BY NextTypeOK, NextControl, NextClean, NextFlushed, NextJournal DEF IInv

\* At every step of apaCacheFlushAllDirty, apaJournalRestore and the drive,
\* what the code has done so far implies what the journal and the platter hold.
THEOREM Inductive == Spec => []IInv
<1> QED
  BY InitIInv, NextIInv, PTL DEF Spec

\* Whichever transfers fail and whenever the power or the IOP does, as long as
\* apaJournalReset has erased every journal, a restart copies no header to an
\* address it does not belong to.
THEOREM ReplayIsSafe == Spec => []NoForeignReplay
<1>1. TypeOK /\ JournalInv => NoForeignReplay
  BY DEF TypeOK, JournalInv, NoForeignReplay, Sound, LeftApal, LeftSlot
<1> QED
  BY <1>1, Inductive, PTL DEF IInv

\* apaCacheFlushAllDirty returns 0 only with the journal erased and nothing it
\* wrote home left in the drive's cache.  A header whose own write failed is not
\* among what it wrote: the return value does not tell of it (cache.c:75).
THEOREM FlushIsDurable == Spec => []FlushedMeansDurable
<1>1. IInv => FlushedMeansDurable
  BY DEF IInv
<1> QED
  BY <1>1, Inductive, PTL

\* Between flushes a clean buffer holds what the disk returns, as long as no
\* header's own write has failed.
THEOREM CleanIsHome == Spec => []CleanMeansHome
<1>1. IInv => CleanMeansHome
  BY DEF IInv, CleanInv, CleanMeansHome
<1> QED
  BY <1>1, Inductive, PTL

-----------------------------------------------------------------------------
(* When no transfer fails, the write path implements AtomicStore: whatever   *)
(* moment the power or the IOP fails at, the headers of a flush are all      *)
(* found by the next start or none is.                                       *)

RInv == IInv /\ AtomicInv

-----------------------------------------------------------------------------
(* What the invariants say when no transfer fails.                         *)

LEMMA NothingFails == ASSUME Faults = {} PROVE ~Fails
  BY DEF Fails

LEMMA InvFacts ==
  ASSUME Faults = {}, RInv
  PROVE  /\ TypeOK /\ ControlInv
         /\ failed = {} /\ failed \cap Erasing = {}
         /\ \A h \in Headers : cache[h] # NoBuf /\ h \notin dirty =>
               home[h] = <<h, cache[h]>>
         /\ \A h \in dirty : cache[h] \in Vals
         /\ Sound(apal) /\ Sound(LeftApal)
         /\ pc \in {"idle", "log"} \/ (phase = "commit" /\ pc \in {"barrier1", "sector"})
               => apal = <<>> /\ LeftApal = <<>>
         /\ pc = "off" => LeftApal = apal
  BY DEF RInv, IInv, TypeOK, CleanInv, JournalInv

\* The addresses a journal records, and the slots it names.
LEMMA RecordsFacts ==
  ASSUME NEW j \in Records
  PROVE  /\ j # NoMagic
         /\ DOMAIN j = 1 .. Len(j) /\ Len(j) \in Nat /\ Len(j) <= NumSlots
         /\ DOMAIN j \subseteq Slots
         /\ \A i \in DOMAIN j : j[i] \in Headers /\ j[i] \in Recorded(j)
  BY ConstantsAssumption DEF Records, Recorded, Slots

LEMMA NothingRecorded == Recorded(<<>>) = {} /\ Recorded(NoMagic) = {}
  BY ConstantsAssumption DEF Recorded

LEMMA LeftJournal ==
  ASSUME TypeOK PROVE LeftApal \in Journal
  BY DEF TypeOK, LeftApal

\* The slots a restart would read are the ones the drive returns.
LEMMA SlotsLeft ==
  ASSUME Sound(LeftApal), LeftApal # NoMagic
  PROVE  \A i \in DOMAIN LeftApal : LeftSlot[i] = slot[i]
  BY DEF Sound, LeftSlot

LEMMA InitAtomic == Init => AtomicInv
<1> SUFFICES ASSUME Init PROVE AtomicInv
  OBVIOUS
<1>1. LeftApal = apal /\ LeftHome = home /\ apal \in {<<>>, NoMagic} /\ pc = "off"
  BY DEF Init, LeftApal, LeftHome
<1> QED
  BY <1>1 DEF AtomicInv, Injective

-----------------------------------------------------------------------------
(* AtomicInv, action by action.                                            *)

LEMMA BarrierLeaves ==
  ASSUME Barrier, UNCHANGED <<drive, failure>>
  PROVE  LeftHome' = home /\ LeftSlot' = slot /\ LeftApal' = apal
  BY DEF Barrier, drive, LeftHome, LeftSlot, LeftApal

LEMMA AtomicBarrier1 ==
  ASSUME Faults = {}, RInv, FlushBarrier1
  PROVE  AtomicInv'
<1>1. /\ pc = "barrier1" /\ pc' = "sector" /\ UNCHANGED <<phase, ram, drive>>
      /\ Barrier /\ UNCHANGED failure
  BY NothingFails DEF FlushBarrier1, Goto, Succeeds, count
<1>2. LeftHome' = home /\ LeftApal' = apal
  BY <1>1, BarrierLeaves
<1>3. LeftApal = apal
  BY <1>1, InvFacts DEF RInv, AtomicInv, EraseInv
<1> QED
  BY <1>1, <1>2, <1>3
     DEF RInv, AtomicInv, CommitInv, EraseInv, Injective, Copied, ram, drive

LEMMA AtomicSector ==
  ASSUME Faults = {}, RInv, FlushSector
  PROVE  AtomicInv'
<1>1. /\ pc = "sector" /\ pc' = "barrier2" /\ apal' = jbuf
      /\ UNCHANGED <<phase, ram, home, slot, pHome, pSlot, pApal, failure>>
  BY NothingFails DEF FlushSector, Goto, Succeeds, count, platter
<1>2. LeftHome' = LeftHome /\ (LeftApal' = LeftApal \/ (LeftApal' = jbuf /\ LeftHome = home))
  BY <1>1 DEF LeftHome, LeftApal
<1>3. CASE phase = "commit"
  <2>1. LeftApal = <<>> /\ CommitInv
    BY <1>1, <1>3, InvFacts DEF RInv, AtomicInv
  <2> QED
    BY <1>1, <1>2, <1>3, <2>1 DEF RInv, AtomicInv, CommitInv, Injective, ram
<1>4. CASE phase # "commit"
  <2>1. jbuf = <<>> /\ EraseInv
    BY <1>1, <1>4, InvFacts DEF RInv, AtomicInv, ControlInv
  <2> QED
    BY <1>1, <1>2, <1>4, <2>1 DEF RInv, AtomicInv, EraseInv, Injective, Copied, ram
<1> QED
  BY <1>3, <1>4

LEMMA AtomicBarrier2 ==
  ASSUME Faults = {}, RInv, FlushBarrier2
  PROVE  AtomicInv'
<1>1. /\ pc = "barrier2" /\ Barrier /\ JournalFlushReturns("ok")
      /\ UNCHANGED drive /\ UNCHANGED failure
  BY NothingFails DEF FlushBarrier2, Succeeds, count
<1>2. LeftHome' = home /\ LeftApal' = apal
  BY <1>1, BarrierLeaves
<1>3. CASE phase = "commit"
  BY <1>1, <1>2, <1>3
     DEF RInv, AtomicInv, CommitInv, Injective, JournalFlushReturns, drive
<1>4. CASE phase # "commit"
  BY <1>1, <1>2, <1>4
     DEF RInv, AtomicInv, EraseInv, Injective, JournalFlushReturns, drive
<1> QED
  BY <1>3, <1>4
LEMMA AtomicJournalWrite ==
  ASSUME Faults = {}, RInv, NEW h \in Headers, JournalWrite(h)
  PROVE  AtomicInv'
<1>1. /\ pc = "log" /\ h \in todo /\ Len(jbuf) < NumSlots
      /\ slot' = [slot EXCEPT ![Len(jbuf) + 1] = <<h, cache[h]>>]
      /\ jbuf' = Append(jbuf, h) /\ todo' = todo \ {h}
      /\ UNCHANGED <<home, apal, cache, dirty, ctl, platter, failure>>
  BY NothingFails DEF JournalWrite, WriteSlot, Succeeds, count
<1>2. jbuf \in Records /\ slot \in [Slots -> Content] /\ todo \subseteq dirty
  BY DEF RInv, IInv, TypeOK
<1>3. /\ DOMAIN jbuf = 1 .. Len(jbuf) /\ Len(jbuf) \in Nat
      /\ DOMAIN jbuf' = 1 .. Len(jbuf) + 1
      /\ \A i \in 1 .. Len(jbuf) : jbuf'[i] = jbuf[i]
      /\ jbuf'[Len(jbuf) + 1] = h
      /\ jbuf' \in Records
  BY <1>1, <1>2, AppendRecords
<1>4. /\ cache[h] \in Vals /\ phase = "commit" /\ CommitInv
      /\ apal = <<>> /\ LeftApal = <<>>
  BY <1>1, <1>2, InvFacts DEF RInv, AtomicInv, ControlInv
<1>5. Len(jbuf) + 1 \in Slots /\ 1 .. Len(jbuf) \subseteq Slots
  BY <1>1, <1>3, ConstantsAssumption DEF Slots
<1>6. \A i \in DOMAIN jbuf' : /\ cache'[jbuf'[i]] \in Vals
                              /\ slot'[i] = <<jbuf'[i], cache'[jbuf'[i]]>>
  <2>1. \A i \in 1 .. Len(jbuf) : slot'[i] = slot[i]
    BY <1>1, <1>2, <1>3, <1>5
  <2>2. slot'[Len(jbuf) + 1] = <<h, cache[h]>>
    BY <1>1, <1>2, <1>5
  <2> QED
    BY <1>1, <1>3, <1>4, <2>1, <2>2 DEF CommitInv
<1>7. Recorded(jbuf') = Recorded(jbuf) \cup {h}
  <2>1. jbuf # NoMagic /\ jbuf' # NoMagic
    BY <1>2, <1>3, RecordsFacts
  <2> QED
    BY <1>3, <2>1 DEF Recorded
<1>8. \A i \in 1 .. Len(jbuf) : jbuf[i] # h
  <2>1. h \notin Recorded(jbuf) /\ jbuf # NoMagic
    BY <1>1, <1>2, <1>4, RecordsFacts DEF CommitInv
  <2> QED
    BY <1>3, <2>1 DEF Recorded
<1>9. Injective(jbuf')
  BY <1>2, <1>3, <1>4, <1>8, RecordsFacts DEF CommitInv, Injective
<1>10. CommitInv'
  BY <1>1, <1>2, <1>4, <1>6, <1>7, <1>9 DEF CommitInv, ctl
<1>11. LeftApal' = LeftApal /\ LeftHome' = LeftHome
  BY <1>1 DEF LeftApal, LeftHome, platter
<1> QED
  BY <1>1, <1>4, <1>10, <1>11 DEF RInv, AtomicInv, Injective, ctl

LEMMA AtomicJournalWritten ==
  ASSUME Faults = {}, RInv, JournalWritten
  PROVE  AtomicInv'
<1>1. /\ pc = "log" /\ todo = {} /\ pc' = "barrier1" /\ phase = "commit"
      /\ UNCHANGED <<phase, ram, drive, platter, count>>
  BY InvFacts DEF JournalWritten, Goto, ControlInv
<1>2. LeftApal' = LeftApal /\ LeftHome' = LeftHome
  BY <1>1 DEF LeftApal, LeftHome, drive, platter, count
<1> QED
  BY <1>1, <1>2 DEF RInv, AtomicInv, CommitInv, Injective, ram, drive

LEMMA AtomicTransferHome ==
  ASSUME Faults = {}, RInv, NEW h \in Headers, TransferHome(h)
  PROVE  AtomicInv'
<1>1. /\ pc = "write" /\ h \in todo
      /\ home' = [home EXCEPT ![h] = <<h, cache[h]>>]
      /\ dirty' = dirty \ {h} /\ todo' = todo \ {h}
      /\ UNCHANGED <<slot, apal, cache, jbuf, ctl, platter, failure>>
  BY NothingFails DEF TransferHome, WriteHome, Succeeds, count
<1>2. phase = "commit" /\ CommitInv /\ home \in [Headers -> Content]
  BY <1>1, InvFacts DEF RInv, AtomicInv, ControlInv, TypeOK
<1>3. LeftApal' = LeftApal /\ h \in Recorded(LeftApal)
  BY <1>1, <1>2 DEF LeftApal, CommitInv, platter
<1>4. \A g \in Headers : LeftHome'[g] # home'[g] => g \in Recorded(LeftApal')
  <2>1. LeftHome' = LeftHome \/ LeftHome' = home'
    BY <1>1 DEF LeftHome, platter
  <2> QED
    BY <1>1, <1>2, <1>3, <2>1 DEF RInv, AtomicInv
<1>5. CommitInv'
  BY <1>1, <1>2, <1>3 DEF CommitInv, ctl, Injective
<1> QED
  BY <1>1, <1>2, <1>3, <1>4, <1>5 DEF RInv, AtomicInv, Injective, ctl

LEMMA AtomicHomeWritten ==
  ASSUME Faults = {}, RInv, HomeWritten
  PROVE  AtomicInv'
<1>1. /\ pc = "write" /\ todo = {} /\ pc' = "barrier1" /\ phase' = "reset"
      /\ UNCHANGED <<cache, dirty, drive, platter, count>>
  BY DEF HomeWritten, JournalReset, Enter
<1>2. CommitInv /\ phase = "commit"
  BY <1>1, InvFacts DEF RInv, AtomicInv, ControlInv
<1>3. dirty = {} /\ apal = jbuf /\ LeftApal = jbuf /\ jbuf \in Records
  BY <1>1, <1>2, InvFacts DEF CommitInv, TypeOK
<1>4. LeftApal' = LeftApal /\ LeftHome' = LeftHome
  BY <1>1 DEF LeftApal, LeftHome, drive, platter, count
<1>5. \A i \in DOMAIN jbuf : home[jbuf[i]] = slot[i]
  <2> TAKE i \in DOMAIN jbuf
  <2>1. jbuf[i] \in Headers /\ cache[jbuf[i]] \in Vals /\ slot[i] = <<jbuf[i], cache[jbuf[i]]>>
    BY <1>2, <1>3, RecordsFacts DEF CommitInv
  <2> QED
    BY <1>3, <2>1, InvFacts, ConstantsAssumption
<1> QED
  BY <1>1, <1>3, <1>4, <1>5 DEF RInv, AtomicInv, EraseInv, Copied, Injective, drive

LEMMA AtomicRestore ==
  ASSUME Faults = {}, RInv, JournalRestore
  PROVE  AtomicInv'
<1>1. /\ pc = "off" /\ idx' = 1 /\ phase' = "restore"
      /\ UNCHANGED <<cache, dirty, drive, platter, failure>>
      /\ \/ apal = <<>> /\ pc' = "idle"
         \/ apal \notin {<<>>, NoMagic} /\ jbuf' = apal /\ pc' = "replay"
         \/ apal = NoMagic /\ pc' = "barrier1"
  BY NothingFails DEF JournalRestore, JournalReset, Enter, Succeeds, count
<1>2. LeftApal = apal /\ dirty = {}
  BY <1>1, InvFacts DEF ControlInv, Recovering
<1>3. LeftApal' = LeftApal /\ LeftHome' = LeftHome
  BY <1>1 DEF LeftApal, LeftHome, drive, platter
<1>4. \A i \in DOMAIN apal : ~(i < 1) \/ apal = NoMagic
  BY InvFacts, RecordsFacts DEF TypeOK, Journal
<1>5. CASE apal \notin {<<>>, NoMagic} /\ pc' = "replay"
  BY <1>1, <1>2, <1>3, <1>4, <1>5 DEF RInv, AtomicInv, Injective, drive
<1>6. CASE pc' = "idle"
  BY <1>1, <1>2, <1>3, <1>6 DEF RInv, AtomicInv, Injective, drive
<1>7. CASE apal = NoMagic /\ pc' = "barrier1"
  BY <1>1, <1>2, <1>3, <1>7 DEF RInv, AtomicInv, EraseInv, Copied, Injective, drive
<1> QED
  BY <1>1, <1>5, <1>6, <1>7

LEMMA AtomicReplay ==
  ASSUME Faults = {}, RInv, Replay
  PROVE  AtomicInv'
<1>1. /\ pc = "replay" /\ idx <= Len(jbuf) /\ idx' = idx + 1
      /\ home' = [home EXCEPT ![jbuf[idx]] = slot[idx]]
      /\ UNCHANGED <<slot, apal, jbuf, ctl, cache, dirty, platter, failure>>
  BY NothingFails DEF Replay, WriteHome, Succeeds, count
<1>2. /\ jbuf = apal /\ LeftApal = apal /\ Injective(jbuf)
      /\ \A i \in DOMAIN jbuf : i < idx => home[jbuf[i]] = slot[i]
  BY <1>1 DEF RInv, AtomicInv
<1>3. jbuf \in Records /\ home \in [Headers -> Content] /\ idx \in Nat \ {0}
  BY InvFacts DEF TypeOK
<1>4. /\ jbuf # NoMagic /\ DOMAIN jbuf = 1 .. Len(jbuf) /\ Len(jbuf) \in Nat
      /\ \A i \in DOMAIN jbuf : jbuf[i] \in Headers /\ jbuf[i] \in Recorded(jbuf)
  BY <1>3, RecordsFacts
<1>5. idx \in DOMAIN jbuf /\ jbuf[idx] \in Recorded(LeftApal)
  BY <1>1, <1>2, <1>3, <1>4
<1>6. \A i \in DOMAIN jbuf : i < idx + 1 => home'[jbuf[i]] = slot[i]
  <2> TAKE i \in DOMAIN jbuf
  <2> HAVE i < idx + 1
  <2>1. CASE i = idx
    BY <1>1, <1>3, <1>4, <2>1
  <2>2. CASE i # idx
    <3>1. i < idx /\ jbuf[i] # jbuf[idx]
      BY <1>2, <1>3, <1>4, <1>5, <2>2 DEF Injective
    <3> QED
      BY <1>1, <1>2, <1>3, <1>4, <3>1
  <2> QED
    BY <2>1, <2>2
<1>7. LeftApal' = LeftApal /\ (LeftHome' = LeftHome \/ LeftHome' = home')
  BY <1>1 DEF LeftApal, LeftHome, platter
<1>8. \A g \in Headers : LeftHome'[g] # home'[g] => g \in Recorded(LeftApal')
  BY <1>1, <1>3, <1>5, <1>7 DEF RInv, AtomicInv
<1> QED
  BY <1>1, <1>2, <1>6, <1>7, <1>8 DEF AtomicInv, ctl, Injective, RInv

LEMMA AtomicReplayed ==
  ASSUME Faults = {}, RInv, Replayed
  PROVE  AtomicInv'
<1>1. /\ pc = "replay" /\ idx > Len(jbuf) /\ pc' = "barrier1" /\ phase' = "restore"
      /\ UNCHANGED <<cache, dirty, drive, platter, count>>
  BY DEF Replayed, JournalReset, Enter
<1>2. /\ jbuf = apal /\ LeftApal = apal /\ Injective(jbuf) /\ dirty = {}
      /\ \A i \in DOMAIN jbuf : i < idx => home[jbuf[i]] = slot[i]
  BY <1>1, InvFacts DEF RInv, AtomicInv, ControlInv, Recovering
<1>3. jbuf \in Records /\ idx \in Nat
  BY InvFacts DEF TypeOK
<1>4. Copied(apal)
  BY <1>1, <1>2, <1>3, RecordsFacts DEF Copied
<1>5. LeftApal' = LeftApal /\ LeftHome' = LeftHome
  BY <1>1 DEF LeftApal, LeftHome, drive, platter, count
<1> QED
  BY <1>1, <1>2, <1>4, <1>5 DEF RInv, AtomicInv, EraseInv, Copied, Injective, drive
LEMMA AtomicUser ==
  ASSUME Faults = {}, RInv, User
  PROVE  AtomicInv'
<1>1. /\ UNCHANGED <<jbuf, drive, platter, failure>>
      /\ LeftApal' = LeftApal /\ LeftHome' = LeftHome
  BY DEF User, FlushAllDirty, GetHeader, Reuse, Modify, LeftApal, LeftHome, drive, platter,
         count
<1>2. CASE FlushAllDirty
  <2>1. pc' = "log" /\ phase' = "commit" /\ todo' = dirty /\ dirty' = dirty /\ jbuf = <<>>
    BY <1>2, InvFacts DEF FlushAllDirty, Enter, ControlInv
  <2>2. Recorded(jbuf) = {} /\ DOMAIN jbuf = {}
    BY <2>1, NothingRecorded
  <2> QED
    BY <1>1, <2>1, <2>2 DEF RInv, AtomicInv, CommitInv, Injective, drive
<1>3. CASE pc' = "idle"
  BY <1>1, <1>3 DEF RInv, AtomicInv, Injective, drive
<1> QED
  BY <1>2, <1>3 DEF User, GetHeader, Reuse, Modify, ctl

LEMMA AtomicDestageHome ==
  ASSUME Faults = {}, RInv, NEW h \in Headers, DestageHome(h)
  PROVE  AtomicInv'
<1>1. /\ pHome[h] # home[h] /\ pHome' = [pHome EXCEPT ![h] = home[h]]
      /\ UNCHANGED <<ram, ctl, drive, pApal, failure>>
      /\ pHome \in [Headers -> Content]
  BY InvFacts DEF DestageHome, TypeOK, count
<1>2. LeftApal' = LeftApal
  BY <1>1 DEF LeftApal, drive
<1>3. \A g \in Headers : LeftHome'[g] # home[g] => LeftHome[g] # home[g]
  BY <1>1 DEF LeftHome, drive
<1>4. LeftHome = home => LeftHome' = home
  BY <1>1 DEF LeftHome, drive
<1> QED
  BY <1>1, <1>2, <1>3, <1>4
     DEF RInv, AtomicInv, CommitInv, EraseInv, Copied, Injective, ram, ctl, drive

LEMMA AtomicDestageSlot ==
  ASSUME Faults = {}, RInv, NEW i \in Slots, DestageSlot(i)
  PROVE  AtomicInv'
<1>1. UNCHANGED <<ram, ctl, drive, pHome, pApal, failure>>
  BY DEF DestageSlot, count
<1>2. LeftApal' = LeftApal /\ LeftHome' = LeftHome
  BY <1>1 DEF LeftApal, LeftHome, drive
<1> QED
  BY <1>1, <1>2 DEF RInv, AtomicInv, CommitInv, EraseInv, Copied, Injective, ram, ctl, drive

\* The journal sector can be in the drive's cache alone only between its write
\* and the second barrier; every header is then where a restart finds it.
LEMMA JournalInCache ==
  ASSUME Faults = {}, RInv, apal # LeftApal
  PROVE  /\ pc = "barrier2" /\ LeftHome = home
         /\ phase = "commit" => CommitInv /\ LeftApal = <<>>
         /\ phase # "commit" => EraseInv /\ apal = <<>>
<1>1. pc \in Pcs /\ phase \in Phases
  BY InvFacts DEF TypeOK
<1>2. pc = "barrier2"
  BY <1>1, InvFacts DEF RInv, AtomicInv, CommitInv, EraseInv, ControlInv, Pcs
<1>3. CASE phase = "commit"
  <2>1. CommitInv /\ LeftApal = <<>>
    BY <1>2, <1>3 DEF RInv, AtomicInv, CommitInv
  <2>2. LeftHome = home
    BY <2>1, NothingRecorded, InvFacts DEF RInv, AtomicInv, TypeOK, LeftHome
  <2> QED
    BY <1>2, <1>3, <2>1, <2>2
<1>4. CASE phase # "commit"
  BY <1>2, <1>4, InvFacts DEF RInv, AtomicInv, EraseInv, ControlInv
<1> QED
  BY <1>3, <1>4

LEMMA AtomicDestageApal ==
  ASSUME Faults = {}, RInv, DestageApal
  PROVE  AtomicInv'
<1>1. /\ pApal # apal /\ pApal' = apal
      /\ UNCHANGED <<ram, ctl, drive, pHome, pSlot, failure>>
  BY DEF DestageApal, count
<1>2. LeftHome' = LeftHome
  BY <1>1 DEF LeftHome, drive
<1>3. CASE failure = "power"
  <2>1. LeftApal = pApal /\ LeftApal' = apal
    BY <1>1, <1>3 DEF LeftApal
  <2>2. /\ pc = "barrier2" /\ LeftHome = home
        /\ phase = "commit" => CommitInv /\ LeftApal = <<>>
        /\ phase # "commit" => EraseInv /\ apal = <<>>
    BY <1>1, <2>1, JournalInCache
  <2> QED
    BY <1>1, <1>2, <2>1, <2>2
       DEF RInv, AtomicInv, CommitInv, EraseInv, Copied, Injective, ram, ctl, drive
<1>4. CASE failure # "power"
  <2>1. LeftApal' = LeftApal
    BY <1>1, <1>4 DEF LeftApal, drive
  <2> QED
    BY <1>1, <1>2, <2>1
       DEF RInv, AtomicInv, CommitInv, EraseInv, Copied, Injective, ram, ctl, drive
<1> QED
  BY <1>3, <1>4

LEMMA AtomicLoss ==
  ASSUME Faults = {}, RInv, PowerLoss \/ IopReset
  PROVE  AtomicInv'
<1>1. pc' = "off" /\ UNCHANGED failure
  BY DEF PowerLoss, IopReset, MemoryLost, Enter
<1>2. CASE PowerLoss
  <2>1. /\ failure = "power" /\ home' = pHome' /\ apal' = pApal /\ pApal' = pApal
        /\ LeftApal = pApal
    BY <1>2 DEF PowerLoss, LeftApal
  <2> QED
    BY <1>1, <2>1 DEF RInv, AtomicInv, Injective, LeftApal, LeftHome
<1>3. CASE IopReset
  <2>1. failure = "iop" /\ apal' = apal
    BY <1>3 DEF IopReset, drive, WriteSlot, WriteHome
  <2> QED
    BY <1>1, <2>1 DEF RInv, AtomicInv, Injective, LeftApal, LeftHome
<1> QED
  BY <1>2, <1>3

LEMMA NextAtomic == ASSUME Faults = {} PROVE RInv /\ [Next]_vars => RInv'
<1> SUFFICES ASSUME RInv, [Next]_vars PROVE AtomicInv'
  BY NextIInv DEF RInv
<1>1. CASE UNCHANGED vars
  BY <1>1 DEF RInv, AtomicInv, CommitInv, EraseInv, Copied, Injective, LeftApal, LeftHome,
              vars, ram, ctl, drive, platter, count
<1> QED
  BY <1>1, AtomicBarrier1, AtomicSector, AtomicBarrier2, AtomicJournalWrite,
     AtomicJournalWritten, AtomicTransferHome, AtomicHomeWritten, AtomicRestore,
     AtomicReplay, AtomicReplayed, AtomicUser, AtomicDestageHome, AtomicDestageSlot,
     AtomicDestageApal, AtomicLoss
     DEF Next, Program, Drive
-----------------------------------------------------------------------------
(* What a restart finds.                                                   *)

Flushing == pc # "idle" /\ phase # "restore"

LEMMA ImageSame ==
  ASSUME NEW hm, NEW hm2, NEW sl, NEW sl2, NEW ap,
         \A h \in Headers : h \notin Recorded(ap) => hm2[h] = hm[h],
         ap # NoMagic => \A i \in DOMAIN ap : sl2[i] = sl[i]
  PROVE  Image(hm2, sl2, ap) = Image(hm, sl, ap)
<1>1. ASSUME NEW h \in Headers, h \in Recorded(ap)
      PROVE  LET i == CHOOSE i \in DOMAIN ap : ap[i] = h IN sl2[i] = sl[i]
  <2>1. ap # NoMagic /\ \E i \in DOMAIN ap : ap[i] = h
    BY <1>1 DEF Recorded
  <2>2. (CHOOSE i \in DOMAIN ap : ap[i] = h) \in DOMAIN ap
    BY <2>1
  <2> QED
    BY <2>1, <2>2
<1> QED
  BY <1>1 DEF Image

LEMMA ImageRecorded ==
  ASSUME NEW hm, NEW sl, NEW ap \in Records, Injective(ap), NEW i \in DOMAIN ap
  PROVE  Image(hm, sl, ap)[ap[i]] = sl[i]
<1>1. ap # NoMagic /\ ap[i] \in Headers /\ ap[i] \in Recorded(ap)
  BY RecordsFacts
<1>2. PICK k \in DOMAIN ap : k = CHOOSE m \in DOMAIN ap : ap[m] = ap[i]
  OBVIOUS
<1>3. ap[k] = ap[i]
  BY <1>2
<1>4. k = i
  BY <1>1, <1>3 DEF Injective
<1> QED
  BY <1>1, <1>2, <1>4 DEF Image

LEMMA ImageEmpty ==
  ASSUME NEW hm \in [Headers -> Content], NEW sl, NEW ap, Recorded(ap) = {}
  PROVE  Image(hm, sl, ap) = hm
  BY DEF Image

\* Neither the headers outside the journal nor the slots it names change.
LEMMA SameStore ==
  ASSUME LeftApal' = LeftApal,
         \A h \in Headers : h \notin Recorded(LeftApal) => LeftHome'[h] = LeftHome[h],
         LeftApal # NoMagic => \A i \in DOMAIN LeftApal : LeftSlot'[i] = LeftSlot[i]
  PROVE  Stored' = Stored
<1>1. Image(LeftHome', LeftSlot', LeftApal) = Image(LeftHome, LeftSlot, LeftApal)
  BY ImageSame
<1> QED
  BY <1>1 DEF Stored

LEMMA LeftUnchanged ==
  ASSUME UNCHANGED <<drive, platter, failure>>
  PROVE  LeftHome' = LeftHome /\ LeftSlot' = LeftSlot /\ LeftApal' = LeftApal /\ Stored' = Stored
  BY DEF drive, platter, LeftHome, LeftSlot, LeftApal, Stored, Image, Recorded

LEMMA LeftType ==
  ASSUME TypeOK
  PROVE  LeftHome \in [Headers -> Content] /\ LeftSlot \in [Slots -> Content]
  BY DEF TypeOK, LeftHome, LeftSlot

\* What the program sees is the drive's header or the buffer's.
LEMMA LoadedSame ==
  ASSUME ~Recovering, ~Recovering', UNCHANGED cache,
         \A h \in Headers : cache[h] = NoBuf => home'[h] = home[h]
  PROVE  Loaded' = Loaded
  BY DEF Loaded

LEMMA RecoveringSame ==
  ASSUME Recovering, Recovering', Stored' = Stored
  PROVE  Loaded' = Loaded
  BY DEF Loaded

LEMMA LoadedHome ==
  ASSUME TypeOK, ~Recovering,
         \A h \in Headers : cache[h] # NoBuf => home[h] = <<h, cache[h]>>
  PROVE  Loaded = home
  BY DEF Loaded, TypeOK

\* With every dirty header in the journal, replaying it gives what the program
\* sees.
LEMMA CommittedIsLoaded ==
  ASSUME Faults = {}, RInv, phase = "commit", pc \in {"sector", "barrier2"},
         NEW hm, NEW sl,
         \A h \in Headers : h \notin Recorded(jbuf) => hm[h] = home[h],
         \A i \in DOMAIN jbuf : sl[i] = slot[i]
  PROVE  Image(hm, sl, jbuf) = Loaded
<1>1. /\ CommitInv /\ jbuf \in Records /\ dirty = Recorded(jbuf) /\ Injective(jbuf)
      /\ ~Recovering
  BY InvFacts DEF RInv, AtomicInv, CommitInv, TypeOK, Recovering
<1>2. ASSUME NEW h \in Headers
      PROVE  Image(hm, sl, jbuf)[h] =
                 IF cache[h] = NoBuf THEN home[h] ELSE <<h, cache[h]>>
  <2>1. CASE h \in Recorded(jbuf)
    <3>1. PICK i \in DOMAIN jbuf : jbuf[i] = h
      BY <1>1, <2>1, RecordsFacts DEF Recorded
    <3>2. slot[i] = <<h, cache[h]>> /\ cache[h] \in Vals
      BY <1>1, <3>1 DEF CommitInv
    <3> QED
      BY <1>1, <3>1, <3>2, ImageRecorded, ConstantsAssumption
  <2>2. CASE h \notin Recorded(jbuf)
    BY <1>1, <1>2, <2>2, InvFacts DEF Image
  <2> QED
    BY <2>1, <2>2
<1> QED
  BY <1>1, <1>2 DEF Loaded, Image

\* While the journal is erased, replaying it changes nothing.
LEMMA ErasedIsHome ==
  ASSUME Faults = {}, RInv, phase # "commit", pc \in {"sector", "barrier2"}
  PROVE  /\ Stored = home /\ LeftHome = home /\ jbuf = <<>>
         /\ pc = "barrier2" => apal = <<>>
<1>1. /\ EraseInv /\ LeftHome = home /\ jbuf = <<>> /\ TypeOK
      /\ pc = "barrier2" => apal = <<>>
  BY InvFacts DEF RInv, AtomicInv, EraseInv, ControlInv
<1>2. CASE LeftApal = NoMagic
  BY <1>1, <1>2, NothingRecorded, ImageEmpty DEF Stored, TypeOK
<1>3. CASE LeftApal # NoMagic
  <2>1. LeftApal \in Records /\ Injective(LeftApal)
    BY <1>1, <1>3, LeftJournal DEF Journal, RInv, AtomicInv
  <2>2. ASSUME NEW h \in Headers PROVE Stored[h] = home[h]
    <3>1. CASE h \in Recorded(LeftApal)
      <4>1. PICK i \in DOMAIN LeftApal : LeftApal[i] = h
        BY <1>3, <3>1 DEF Recorded
      <4>2. Stored[h] = LeftSlot[i] /\ LeftSlot[i] = slot[i]
        BY <1>3, <2>1, <4>1, ImageRecorded, SlotsLeft, InvFacts DEF Stored
      <4>3. home[h] = slot[i]
        BY <1>1, <1>3, <4>1 DEF EraseInv, Copied
      <4> QED
        BY <4>2, <4>3
    <3>2. CASE h \notin Recorded(LeftApal)
      BY <1>1, <2>2, <3>2 DEF Stored, Image
    <3> QED
      BY <3>1, <3>2
  <2> QED
    BY <1>1, <2>2 DEF Stored, Image, TypeOK
<1> QED
  BY <1>1, <1>2, <1>3
-----------------------------------------------------------------------------
(* Every step is a step of AtomicStore, or changes nothing there.          *)

Stutters == Stored' = Stored /\ Loaded' = Loaded /\ Flushing' = Flushing
Commits == Flushing /\ Stored' = Loaded /\ Loaded' = Loaded /\ Flushing'

LEMMA Barrier1Stutters ==
  ASSUME Faults = {}, RInv, FlushBarrier1
  PROVE  Stutters
<1>1. /\ pc = "barrier1" /\ pc' = "sector" /\ UNCHANGED <<phase, cache, drive>>
      /\ Barrier /\ UNCHANGED failure
  BY NothingFails DEF FlushBarrier1, Goto, Succeeds, count, ram
<1>2. LeftHome' = home /\ LeftSlot' = slot /\ LeftApal' = apal
  BY <1>1, BarrierLeaves
<1>3. LeftApal = apal
  BY <1>1, InvFacts DEF RInv, AtomicInv, EraseInv
<1>4. Stored' = Stored
  BY <1>2, <1>3, SameStore, SlotsLeft, InvFacts DEF RInv, AtomicInv
<1>5. Loaded' = Loaded
  BY <1>1, <1>4, LoadedSame, RecoveringSame DEF Recovering, drive
<1> QED
  BY <1>1, <1>4, <1>5 DEF Stutters, Flushing

LEMMA SectorRefines ==
  ASSUME Faults = {}, RInv, FlushSector
  PROVE  Stutters \/ Commits
<1>1. /\ pc = "sector" /\ pc' = "barrier2" /\ apal' = jbuf
      /\ UNCHANGED <<phase, cache, home, slot, pHome, pSlot, pApal, failure>>
  BY NothingFails DEF FlushSector, Goto, Succeeds, count, platter, ram
<1>2. /\ LeftHome' = LeftHome /\ LeftSlot' = LeftSlot
      /\ failure = "power" => LeftApal' = LeftApal
      /\ failure # "power" => LeftApal' = jbuf /\ LeftHome = home /\ LeftSlot = slot
  BY <1>1 DEF LeftHome, LeftSlot, LeftApal
<1>3. phase = "commit" => Loaded' = Loaded
  BY <1>1, LoadedSame DEF Recovering
<1>4. CASE failure = "power"
  <2>1. Stored' = Stored
    BY <1>2, <1>4 DEF Stored
  <2>2. Loaded' = Loaded
    BY <1>1, <2>1, LoadedSame, RecoveringSame DEF Recovering
  <2> QED
    BY <1>1, <2>1, <2>2 DEF Stutters, Flushing
<1>5. CASE failure # "power" /\ phase = "commit"
  <2>1. Stored' = Image(home, slot, jbuf)
    BY <1>2, <1>5 DEF Stored
  <2>2. Stored' = Loaded
    BY <1>1, <1>5, <2>1, CommittedIsLoaded
  <2> QED
    BY <1>1, <1>3, <1>5, <2>2 DEF Commits, Flushing
<1>6. CASE failure # "power" /\ phase # "commit"
  <2>1. Stored = home /\ jbuf = <<>> /\ home \in [Headers -> Content]
    BY <1>1, <1>6, ErasedIsHome, InvFacts DEF TypeOK
  <2>2. Stored' = home
    BY <1>2, <1>6, <2>1, ImageEmpty, NothingRecorded DEF Stored
  <2>3. Loaded' = Loaded
    BY <1>1, <2>1, <2>2, LoadedSame, RecoveringSame DEF Recovering
  <2> QED
    BY <1>1, <2>1, <2>2, <2>3 DEF Stutters, Flushing
<1> QED
  BY <1>4, <1>5, <1>6

LEMMA Barrier2Refines ==
  ASSUME Faults = {}, RInv, FlushBarrier2
  PROVE  \/ Stutters \/ Commits
         \/ Flushing /\ ~Flushing' /\ Stored = Loaded /\ Stored' = Stored /\ Loaded' = Loaded
<1>1. /\ pc = "barrier2" /\ Barrier /\ JournalFlushReturns("ok")
      /\ UNCHANGED drive /\ UNCHANGED <<failure, phase, cache>>
  BY NothingFails DEF FlushBarrier2, Succeeds, count, JournalFlushReturns
<1>2. LeftHome' = home /\ LeftSlot' = slot /\ LeftApal' = apal
  BY <1>1, BarrierLeaves
<1>3. Stored' = Image(home, slot, apal) /\ home \in [Headers -> Content]
  BY <1>2, InvFacts DEF Stored, TypeOK
<1>4. CASE phase = "commit"
  <2>1. apal = jbuf /\ pc' = "write"
    BY <1>1, <1>4 DEF RInv, AtomicInv, CommitInv, JournalFlushReturns
  <2>2. Stored' = Loaded
    BY <1>1, <1>3, <1>4, <2>1, CommittedIsLoaded
  <2>3. Loaded' = Loaded
    BY <1>1, <1>4, LoadedSame DEF Recovering, drive
  <2> QED
    BY <1>1, <1>4, <2>1, <2>2, <2>3 DEF Commits, Flushing
<1>5. CASE phase # "commit"
  <2>1. Stored = home /\ apal = <<>> /\ pc' = "idle" /\ dirty = {}
    BY <1>1, <1>5, ErasedIsHome DEF JournalFlushReturns, RInv, AtomicInv, EraseInv
  <2>2. Stored' = home
    BY <1>3, <2>1, ImageEmpty, NothingRecorded
  <2>3. \A h \in Headers : cache[h] # NoBuf => home[h] = <<h, cache[h]>>
    BY <2>1, InvFacts
  <2>4. Loaded' = home
    <3>1. ~Recovering' /\ TypeOK'
      BY <1>1, <2>1, ProgramTypeOK, InvFacts DEF Recovering, Program
    <3>2. \A h \in Headers : cache'[h] # NoBuf => home'[h] = <<h, cache'[h]>>
      BY <1>1, <2>3 DEF drive
    <3>3. home' = home
      BY <1>1 DEF drive
    <3> QED
      BY <3>1, <3>2, <3>3 DEF Loaded, TypeOK
  <2>5. Loaded = home
    <3>1. CASE Recovering
      BY <2>1, <3>1 DEF Loaded
    <3>2. CASE ~Recovering
      BY <2>3, <3>2, LoadedHome, InvFacts
    <3> QED
      BY <3>1, <3>2
  <2> QED
    BY <1>1, <2>1, <2>2, <2>4, <2>5 DEF Stutters, Flushing
<1> QED
  BY <1>4, <1>5

LEMMA JournalWriteStutters ==
  ASSUME Faults = {}, RInv, NEW h \in Headers, JournalWrite(h)
  PROVE  Stutters
<1>1. /\ pc = "log" /\ pc' = pc /\ phase' = phase
      /\ UNCHANGED <<home, apal, cache, platter, failure>>
  BY NothingFails DEF JournalWrite, WriteSlot, Succeeds, count, ctl
<1>2. /\ LeftApal = <<>> /\ LeftApal' = LeftApal /\ LeftHome' = LeftHome
      /\ phase = "commit"
  BY <1>1, InvFacts DEF LeftApal, LeftHome, platter, ControlInv
<1>3. Stored' = Stored
  BY <1>2, SameStore
<1>4. Loaded' = Loaded
  BY <1>1, <1>2, LoadedSame DEF Recovering
<1> QED
  BY <1>1, <1>3, <1>4 DEF Stutters, Flushing

LEMMA TransferHomeStutters ==
  ASSUME Faults = {}, RInv, NEW h \in Headers, TransferHome(h)
  PROVE  Stutters
<1>1. /\ pc = "write" /\ pc' = pc /\ phase' = phase /\ h \in todo
      /\ home' = [home EXCEPT ![h] = <<h, cache[h]>>]
      /\ UNCHANGED <<slot, apal, cache, platter, failure>>
  BY NothingFails DEF TransferHome, WriteHome, Succeeds, count, ctl
<1>2. phase = "commit" /\ CommitInv /\ TypeOK
  BY <1>1, InvFacts DEF RInv, AtomicInv, ControlInv
<1>3. LeftApal' = LeftApal /\ LeftSlot' = LeftSlot /\ h \in Recorded(LeftApal)
  BY <1>1, <1>2 DEF LeftApal, LeftSlot, CommitInv, platter
<1>4. LeftHome' = LeftHome \/ LeftHome' = [LeftHome EXCEPT ![h] = <<h, cache[h]>>]
  BY <1>1 DEF LeftHome, platter
<1>5. Stored' = Stored
  BY <1>2, <1>3, <1>4, SameStore, LeftType
<1>6. cache[h] # NoBuf
  BY <1>1, <1>2 DEF TypeOK
<1>7. Loaded' = Loaded
  BY <1>1, <1>2, <1>6, LoadedSame DEF Recovering
<1> QED
  BY <1>1, <1>5, <1>7 DEF Stutters, Flushing

\* Steps of the program's counter alone.
LEMMA ControlStutters ==
  ASSUME Faults = {}, RInv, JournalWritten \/ HomeWritten \/ Replayed
  PROVE  Stutters
<1>1. /\ UNCHANGED <<cache, drive, platter, count>> /\ pc # "idle" /\ pc' # "idle"
      /\ phase = "restore" <=> phase' = "restore"
  BY InvFacts DEF JournalWritten, HomeWritten, Replayed, JournalReset, Goto, Enter, ram,
                  ControlInv
<1>2. Stored' = Stored
  BY <1>1, LeftUnchanged DEF count
<1>3. Loaded' = Loaded
  BY <1>1, <1>2, LoadedSame, RecoveringSame DEF Recovering, drive
<1> QED
  BY <1>1, <1>2, <1>3 DEF Stutters, Flushing

LEMMA RestoreStutters ==
  ASSUME Faults = {}, RInv, JournalRestore
  PROVE  Stutters
<1>1. /\ pc = "off" /\ phase = "restore" /\ phase' = "restore"
      /\ UNCHANGED <<cache, dirty, drive, platter, failure>>
      /\ pc' # "idle" \/ apal = <<>>
  BY NothingFails, InvFacts
     DEF JournalRestore, JournalReset, Enter, Succeeds, count, ControlInv
<1>2. Stored' = Stored
  BY <1>1, LeftUnchanged
<1>3. Loaded' = Loaded
  <2>1. CASE pc' # "idle"
    BY <1>1, <1>2, <2>1, RecoveringSame DEF Recovering
  <2>2. CASE pc' = "idle"
    <3>1. LeftApal = <<>> /\ Recorded(LeftApal) = {} /\ TypeOK
      BY <1>1, <2>2, InvFacts, NothingRecorded
    <3>2. LeftHome = home /\ LeftHome \in [Headers -> Content]
      BY <3>1, LeftType DEF RInv, AtomicInv, TypeOK
    <3>3. Stored = home
      BY <3>1, <3>2, ImageEmpty DEF Stored
    <3>4. \A h \in Headers : cache[h] = NoBuf
      BY <1>1, InvFacts DEF ControlInv, Recovering
    <3>5. Loaded' = [h \in Headers |-> home[h]]
      BY <1>1, <2>2, <3>4 DEF Loaded, Recovering, drive
    <3> QED
      BY <1>1, <3>1, <3>3, <3>5 DEF Loaded, Recovering, TypeOK
  <2> QED
    BY <2>1, <2>2
<1> QED
  BY <1>1, <1>2, <1>3 DEF Stutters, Flushing

LEMMA ReplayStutters ==
  ASSUME Faults = {}, RInv, Replay
  PROVE  Stutters
<1>1. /\ pc = "replay" /\ pc' = pc /\ phase = "restore" /\ phase' = phase
      /\ idx <= Len(jbuf)
      /\ home' = [home EXCEPT ![jbuf[idx]] = slot[idx]]
      /\ UNCHANGED <<slot, apal, platter, failure>>
  BY NothingFails, InvFacts
     DEF Replay, WriteHome, Succeeds, count, ctl, ControlInv
<1>2. jbuf = LeftApal /\ jbuf \in Records /\ idx \in Nat \ {0} /\ TypeOK
  BY <1>1, InvFacts DEF RInv, AtomicInv, TypeOK
<1>3. jbuf[idx] \in Recorded(LeftApal)
  BY <1>1, <1>2, RecordsFacts
<1>4. LeftApal' = LeftApal /\ LeftSlot' = LeftSlot
  BY <1>1 DEF LeftApal, LeftSlot, platter
<1>5. LeftHome' = LeftHome \/ LeftHome' = [LeftHome EXCEPT ![jbuf[idx]] = slot[idx]]
  BY <1>1 DEF LeftHome, platter
<1>6. Stored' = Stored
  BY <1>2, <1>3, <1>4, <1>5, SameStore, LeftType
<1> QED
  BY <1>1, <1>6, RecoveringSame DEF Stutters, Flushing, Recovering
LEMMA DestageHomeStutters ==
  ASSUME Faults = {}, RInv, NEW h \in Headers, DestageHome(h)
  PROVE  Stutters
<1>1. /\ pHome[h] # home[h] /\ pHome' = [pHome EXCEPT ![h] = home[h]]
      /\ UNCHANGED <<cache, ctl, drive, pSlot, pApal, failure>> /\ TypeOK
  BY InvFacts DEF DestageHome, count, ram
<1>2. LeftApal' = LeftApal /\ LeftSlot' = LeftSlot
  BY <1>1 DEF LeftApal, LeftSlot, drive
<1>3. LeftHome' = LeftHome \/ (LeftHome[h] # home[h] /\ LeftHome' = [LeftHome EXCEPT ![h] = home[h]])
  BY <1>1 DEF LeftHome, drive
<1>4. LeftHome[h] # home[h] => h \in Recorded(LeftApal)
  BY DEF RInv, AtomicInv
<1>5. Stored' = Stored
  BY <1>1, <1>2, <1>3, <1>4, SameStore, LeftType
<1> QED
  BY <1>1, <1>5 DEF Stutters, Flushing, Loaded, Recovering, ctl, drive

LEMMA DestageSlotStutters ==
  ASSUME Faults = {}, RInv, NEW i \in Slots, DestageSlot(i)
  PROVE  Stutters
<1>1. /\ pSlot[i] # slot[i] /\ pSlot' = [pSlot EXCEPT ![i] = slot[i]]
      /\ UNCHANGED <<cache, ctl, drive, pHome, pApal, failure>> /\ TypeOK
  BY InvFacts DEF DestageSlot, count, ram
<1>2. LeftApal' = LeftApal /\ LeftHome' = LeftHome
  BY <1>1 DEF LeftApal, LeftHome, drive
<1>3. LeftSlot' = LeftSlot \/ (LeftSlot[i] # slot[i] /\ LeftSlot' = [LeftSlot EXCEPT ![i] = slot[i]])
  BY <1>1 DEF LeftSlot, drive
<1>4. LeftApal # NoMagic => \A k \in DOMAIN LeftApal : LeftSlot[k] = slot[k]
  BY SlotsLeft, InvFacts
<1>5. LeftApal # NoMagic => \A k \in DOMAIN LeftApal : LeftSlot'[k] = LeftSlot[k]
  <2> SUFFICES ASSUME LeftApal # NoMagic, NEW k \in DOMAIN LeftApal
               PROVE  LeftSlot'[k] = LeftSlot[k]
    OBVIOUS
  <2>1. LeftSlot[k] = slot[k] /\ LeftSlot \in [Slots -> Content] /\ k \in Slots
    BY <1>1, <1>4, LeftType, LeftJournal, RecordsFacts DEF Journal
  <2>2. CASE LeftSlot[i] # slot[i]
    <3>1. k # i
      BY <2>1, <2>2
    <3> QED
      BY <1>3, <2>1, <3>1
  <2> QED
    BY <1>3, <2>2
<1>6. Stored' = Stored
  BY <1>2, <1>5, SameStore
<1> QED
  BY <1>1, <1>6 DEF Stutters, Flushing, Loaded, Recovering, ctl, drive

\* When the journal sector reaches the platter, so do all headers it names.
LEMMA DestageApalRefines ==
  ASSUME Faults = {}, RInv, DestageApal
  PROVE  Stutters \/ Commits
<1>1. /\ pApal # apal /\ pApal' = apal
      /\ UNCHANGED <<cache, ctl, drive, pHome, pSlot, failure>> /\ TypeOK
  BY InvFacts DEF DestageApal, count, ram
<1>2. LeftHome' = LeftHome /\ LeftSlot' = LeftSlot
  BY <1>1 DEF LeftHome, LeftSlot, drive
<1>3. Stored' = Stored => Stutters
  BY <1>1 DEF Stutters, Flushing, Loaded, Recovering, ctl, drive
<1>4. CASE failure # "power"
  <2>1. LeftApal' = LeftApal
    BY <1>1, <1>4 DEF LeftApal, drive
  <2> QED
    BY <1>2, <1>3, <2>1 DEF Stored
<1>5. CASE failure = "power"
  <2>1. LeftApal = pApal /\ LeftApal' = apal /\ LeftSlot = pSlot /\ LeftHome = pHome
    BY <1>1, <1>5 DEF LeftApal, LeftSlot, LeftHome
  <2>2. /\ pc = "barrier2" /\ LeftHome = home
        /\ phase = "commit" => CommitInv /\ LeftApal = <<>>
        /\ phase # "commit" => EraseInv /\ apal = <<>>
    BY <1>1, <2>1, JournalInCache
  <2>3. CASE phase = "commit"
    <3>1. apal = jbuf /\ jbuf \in Records
      BY <1>1, <2>2, <2>3 DEF CommitInv, TypeOK
    <3>2. \A i \in DOMAIN jbuf : LeftSlot[i] = slot[i]
      BY <1>5, <2>1, <3>1, InvFacts, RecordsFacts DEF Sound
    <3>3. Stored' = Image(LeftHome, LeftSlot, jbuf)
      BY <1>2, <2>1, <3>1 DEF Stored
    <3>4. Stored' = Loaded
      BY <2>2, <2>3, <3>2, <3>3, CommittedIsLoaded
    <3>5. Loaded' = Loaded
      BY <1>1, <2>3, LoadedSame DEF Recovering, ctl, drive
    <3> QED
      BY <1>1, <2>2, <2>3, <3>4, <3>5 DEF Commits, Flushing, ctl
  <2>4. CASE phase # "commit"
    <3>1. Stored = home /\ home \in [Headers -> Content]
      BY <1>1, <2>2, <2>4, ErasedIsHome DEF TypeOK
    <3>2. Stored' = home
      BY <1>2, <2>1, <2>2, <2>4, <3>1, ImageEmpty, NothingRecorded DEF Stored
    <3> QED
      BY <1>3, <3>1, <3>2
  <2> QED
    BY <2>3, <2>4
<1> QED
  BY <1>4, <1>5

LEMMA LossKeepsStore ==
  ASSUME Faults = {}, RInv, PowerLoss \/ IopReset
  PROVE  Stored' = Stored /\ Loaded' = Stored /\ ~Flushing'
<1>1. pc' = "off" /\ phase' = "restore" /\ UNCHANGED failure /\ TypeOK
  BY InvFacts DEF PowerLoss, IopReset, MemoryLost, Enter
<1>2. Stored' = Stored
  <2>1. CASE PowerLoss
    <3>1. /\ failure = "power" /\ pApal' = pApal
          /\ \E torn \in SUBSET Headers : pHome' = Tear(pHome, home, torn)
          /\ \E torn \in SUBSET Slots : pSlot' = Tear(pSlot, slot, torn)
      BY <2>1 DEF PowerLoss
    <3>2. /\ LeftApal = pApal /\ LeftHome = pHome /\ LeftSlot = pSlot
          /\ LeftApal' = LeftApal /\ LeftHome' = pHome' /\ LeftSlot' = pSlot'
      BY <1>1, <3>1 DEF LeftApal, LeftHome, LeftSlot
    <3>3. \A h \in Headers : h \notin Recorded(LeftApal) => LeftHome'[h] = LeftHome[h]
      <4> TAKE h \in Headers
      <4> HAVE h \notin Recorded(LeftApal)
      <4>1. pHome[h] = home[h] /\ h \in DOMAIN pHome
        BY <1>1, <3>2 DEF RInv, AtomicInv, TypeOK
      <4> QED
        BY <3>1, <3>2, <4>1 DEF Tear
    <3>4. LeftApal # NoMagic => \A i \in DOMAIN LeftApal : LeftSlot'[i] = LeftSlot[i]
      <4> HAVE LeftApal # NoMagic
      <4> TAKE i \in DOMAIN LeftApal
      <4>1. pSlot[i] = slot[i]
        BY <3>2, SlotsLeft, InvFacts
      <4>2. i \in DOMAIN pSlot
        BY <1>1, LeftJournal, RecordsFacts DEF TypeOK, Journal
      <4> QED
        BY <3>1, <3>2, <4>1, <4>2 DEF Tear
    <3> QED
      BY <3>2, <3>3, <3>4, SameStore
  <2>2. CASE IopReset
    <3>1. failure = "iop" /\ apal' = apal
      BY <2>2 DEF IopReset, drive, WriteSlot, WriteHome
    <3>2. /\ LeftApal = apal /\ LeftHome = home /\ LeftSlot = slot
          /\ LeftApal' = LeftApal /\ LeftHome' = home' /\ LeftSlot' = slot'
      BY <1>1, <3>1 DEF LeftApal, LeftHome, LeftSlot
    <3>3. CASE pc = "log" /\ home' = home
      BY <3>2, <3>3, SameStore, InvFacts
    <3>4. CASE pc = "write" /\ slot' = slot
                 /\ \E h \in todo : home' = [home EXCEPT ![h] = Garbage]
      <4>1. phase = "commit" /\ todo \subseteq Recorded(LeftApal)
        BY <3>4, InvFacts DEF RInv, AtomicInv, CommitInv, ControlInv
      <4>2. \A h \in Headers : h \notin Recorded(LeftApal) => home'[h] = home[h]
        BY <1>1, <3>4, <4>1 DEF TypeOK
      <4> QED
        BY <3>2, <3>4, <4>2, SameStore
    <3>5. CASE pc = "replay" /\ idx <= Len(jbuf) /\ slot' = slot
                 /\ home' = [home EXCEPT ![jbuf[idx]] = Garbage]
      <4>1. jbuf = LeftApal /\ jbuf \in Records /\ idx \in Nat \ {0}
        BY <1>1, <3>5 DEF RInv, AtomicInv, TypeOK
      <4>2. jbuf[idx] \in Recorded(LeftApal)
        BY <3>5, <4>1, RecordsFacts
      <4>3. \A h \in Headers : h \notin Recorded(LeftApal) => home'[h] = home[h]
        BY <1>1, <3>5, <4>2 DEF TypeOK
      <4> QED
        BY <3>2, <3>5, <4>3, SameStore
    <3>6. CASE UNCHANGED drive
      BY <3>2, <3>6, SameStore DEF drive
    <3> QED
      BY <2>2, <3>3, <3>4, <3>5, <3>6 DEF IopReset, WriteSlot, WriteHome
  <2> QED
    BY <2>1, <2>2
<1> QED
  BY <1>1, <1>2 DEF Loaded, Recovering, Flushing

LEMMA ModifyChangesMem ==
  ASSUME Faults = {}, RInv, NEW h \in Headers, NEW v \in Vals, Modify(h, v)
  PROVE  /\ Stored' = Stored /\ Flushing' = Flushing /\ ~Flushing
         /\ Loaded' = [Loaded EXCEPT ![h] = <<h, v>>]
<1>1. /\ pc = "idle" /\ cache' = [cache EXCEPT ![h] = v] /\ TypeOK
      /\ UNCHANGED <<ctl, drive, platter, failure>>
  BY InvFacts DEF Modify, count
<1>2. Stored' = Stored
  BY <1>1, LeftUnchanged
<1>3. /\ Loaded = [g \in Headers |-> IF cache[g] = NoBuf THEN home[g] ELSE <<g, cache[g]>>]
      /\ Loaded' = [g \in Headers |-> IF cache'[g] = NoBuf THEN home[g] ELSE <<g, cache'[g]>>]
  BY <1>1 DEF Loaded, Recovering, ctl, drive
<1>4. Loaded' = [Loaded EXCEPT ![h] = <<h, v>>]
  BY <1>1, <1>3, ConstantsAssumption DEF TypeOK
<1> QED
  BY <1>1, <1>2, <1>4 DEF Flushing, ctl

LEMMA CacheStutters ==
  ASSUME Faults = {}, RInv, NEW h \in Headers, GetHeader(h) \/ Reuse(h)
  PROVE  Stutters
<1>1. /\ pc = "idle" /\ UNCHANGED <<ctl, drive, platter, failure>> /\ TypeOK
  BY InvFacts DEF GetHeader, Reuse, count
<1>2. Stored' = Stored
  BY <1>1, LeftUnchanged
<1>3. /\ Loaded = [g \in Headers |-> IF cache[g] = NoBuf THEN home[g] ELSE <<g, cache[g]>>]
      /\ Loaded' = [g \in Headers |-> IF cache'[g] = NoBuf THEN home[g] ELSE <<g, cache'[g]>>]
  BY <1>1 DEF Loaded, Recovering, ctl, drive
<1>4. CASE GetHeader(h)
  <2>1. /\ cache[h] = NoBuf /\ cache' = [cache EXCEPT ![h] = home[h][2]]
        /\ home[h] = <<h, home[h][2]>>
    BY <1>4 DEF GetHeader
  <2> QED
    BY <1>1, <1>2, <1>3, <2>1 DEF Stutters, Flushing, ctl, TypeOK
<1>5. CASE Reuse(h)
  <2>1. cache' = [cache EXCEPT ![h] = NoBuf] /\ home[h] = <<h, cache[h]>>
    BY <1>5, InvFacts DEF Reuse
  <2> QED
    BY <1>1, <1>2, <1>3, <2>1 DEF Stutters, Flushing, ctl, TypeOK
<1> QED
  BY <1>4, <1>5

LEMMA FlushBegins ==
  ASSUME Faults = {}, RInv, FlushAllDirty
  PROVE  Stored' = Stored /\ Loaded' = Loaded /\ ~Flushing /\ Flushing'
<1>1. /\ pc = "idle" /\ pc' = "log" /\ phase' = "commit"
      /\ UNCHANGED <<cache, drive, platter, failure>>
  BY DEF FlushAllDirty, Enter, count
<1>2. Stored' = Stored
  BY <1>1, LeftUnchanged
<1>3. Loaded' = Loaded
  BY <1>1, LoadedSame DEF Recovering, drive
<1> QED
  BY <1>1, <1>2, <1>3 DEF Flushing

-----------------------------------------------------------------------------
(* The refinement.                                                         *)

LEMMA InitRefines == Init => Abstract!AInit
<1> SUFFICES ASSUME Init PROVE Abstract!AInit
  OBVIOUS
<1>1. PICK f \in [Headers -> Vals] : home = [h \in Headers |-> <<h, f[h]>>]
  BY DEF Init
<1>2. LeftHome = home /\ LeftApal = apal /\ apal \in {<<>>, NoMagic}
  BY DEF Init, LeftHome, LeftApal
<1>3. Recorded(LeftApal) = {} /\ home \in [Headers -> Content]
  BY <1>2, NothingRecorded, InitTypeOK DEF TypeOK
<1>4. Stored = home
  BY <1>2, <1>3, ImageEmpty DEF Stored
<1>5. Loaded = Stored
  BY DEF Init, Loaded, Recovering
<1>6. home \in [Headers -> Headers \X Vals]
  BY <1>1
<1> QED
  BY <1>4, <1>5, <1>6 DEF Abstract!AInit, Init

LEMMA NextRefines ==
  ASSUME Faults = {}
  PROVE  RInv /\ [Next]_vars => [Abstract!ANext]_(Abstract!aVars)
<1> SUFFICES ASSUME RInv, [Next]_vars PROVE [Abstract!ANext]_(Abstract!aVars)
  OBVIOUS
<1> USE DEF Flushing
<1>1. Stutters => UNCHANGED Abstract!aVars
  BY DEF Stutters, Abstract!aVars
<1>2. Commits => Abstract!ACommit
  BY DEF Commits, Abstract!ACommit
<1>3. CASE FlushBarrier2
  BY <1>1, <1>2, <1>3, Barrier2Refines DEF Abstract!ANext, Abstract!AEnd
<1>4. CASE FlushSector \/ DestageApal
  BY <1>1, <1>2, <1>4, SectorRefines, DestageApalRefines DEF Abstract!ANext
<1>5. ASSUME NEW h \in Headers, NEW v \in Vals, Modify(h, v)
      PROVE  Abstract!AModify
  BY <1>5, ModifyChangesMem DEF Abstract!AModify
<1>6. CASE FlushAllDirty
  BY <1>6, FlushBegins DEF Abstract!ANext, Abstract!ABegin
<1>7. CASE PowerLoss \/ IopReset
  BY <1>7, LossKeepsStore DEF Abstract!ANext, Abstract!ACrash
<1>8. CASE UNCHANGED vars
  <2>1. Stored' = Stored /\ UNCHANGED <<cache, ctl, drive>>
    BY <1>8, LeftUnchanged DEF vars, count, ram
  <2>2. Stutters
    BY <2>1 DEF Stutters, Loaded, Recovering, ctl, drive
  <2> QED
    BY <1>1, <2>2
<1>9. CASE FlushBarrier1 \/ JournalWritten \/ HomeWritten \/ JournalRestore \/ Replay \/ Replayed
  BY <1>1, <1>9, Barrier1Stutters, ControlStutters, RestoreStutters, ReplayStutters
<1>10. ASSUME NEW h \in Headers,
              JournalWrite(h) \/ TransferHome(h) \/ GetHeader(h) \/ Reuse(h) \/ DestageHome(h)
       PROVE  UNCHANGED Abstract!aVars
  BY <1>1, <1>10, JournalWriteStutters, TransferHomeStutters, CacheStutters,
     DestageHomeStutters
<1>11. ASSUME NEW i \in Slots, DestageSlot(i) PROVE UNCHANGED Abstract!aVars
  BY <1>1, <1>11, DestageSlotStutters
<1> QED
  BY <1>3, <1>4, <1>5, <1>6, <1>7, <1>8, <1>9, <1>10, <1>11
     DEF Next, Program, User, Drive, Abstract!ANext

\* The headers that are journalled, written home and copied back are, at each
\* step of a flush or a recovery, the ones that make it atomic.
THEOREM AtomicInductive == ASSUME Faults = {} PROVE Spec => []RInv
<1>1. Init => RInv
  BY InitIInv, InitAtomic DEF RInv
<1> QED
  BY <1>1, NextAtomic, PTL DEF Spec

\* apaJournalRestore erases the journal only when every header it records has
\* been copied: if no transfer fails, the comment at journal.c:60 is right.
THEOREM RestoreIsCopy == ASSUME Faults = {} PROVE Spec => []RestoreCopiesJournal
<1>1. RInv => RestoreCopiesJournal
  BY DEF RInv, AtomicInv, EraseInv, Copied, RestoreCopiesJournal
<1> QED
  BY <1>1, AtomicInductive, PTL

\* The headers that apaCacheFlushAllDirty writes all survive a loss of power or
\* an IOP reboot, or none does, and all of them do once it has returned: if no
\* transfer fails, the write path implements AtomicStore.
THEOREM RefinesAtomicStore == ASSUME Faults = {} PROVE Spec => ImplementsAtomicStore
<1> QED
  BY AtomicInductive, InitRefines, NextRefines, PTL
     DEF Spec, ImplementsAtomicStore, Abstract!ASpec
=============================================================================
