------------------------------ MODULE ApaDelete ------------------------------
(* apaDelete on a consistent drive, again and again, with losses of power.  *)
EXTENDS ApaChain

CONSTANTS
    MaxParts,     \* bound on the partitions of the drive, besides the MBR
    MaxDeletes,   \* bound on calls of apaDelete
    MaxCrashes    \* bound on losses of power

VARIABLES
    overTail,  \* history: a call was made with the last partition free
    deleted,   \* calls of apaDelete so far
    crashes    \* losses of power so far

vars == <<chainVars, overTail, deleted, crashes>>

Init ==
    /\ disk \in Drives(MaxParts)
    /\ mem = disk /\ del = NotDeleting /\ overTail = FALSE
    /\ deleted = 0 /\ crashes = 0

Delete(a) ==
    /\ del = NotDeleting
    /\ deleted < MaxDeletes
    /\ del' = Deleting(a)
    /\ deleted' = deleted + 1
    /\ overTail' = (overTail \/ FreeTail(mem))
    /\ UNCHANGED <<disk, mem, crashes>>

\* The program starts again from what is on the disk.
PowerLoss ==
    /\ crashes < MaxCrashes
    /\ crashes' = crashes + 1
    /\ mem' = disk /\ del' = NotDeleting
    /\ UNCHANGED <<disk, overTail, deleted>>

Next ==
    \/ \E a \in Data(mem) : Delete(a)
    \/ DeleteStep /\ UNCHANGED <<overTail, deleted, crashes>>
    \/ PowerLoss

Spec == Init /\ [][Next]_vars

-----------------------------------------------------------------------------
\* Headers that were written name headers of the drive.
TypeOK ==
    /\ \A a \in Addr : mem[a] # Bad =>
          /\ mem[a].next \in Addr /\ mem[a].prev \in Addr
          /\ mem[a].len \in 1 .. Units
    /\ \A a \in Addr : disk[a] = Bad \/ disk[a] = mem[a]

\* The headers in memory are in their ranges, and at every moment the drive
\* holds a chain that is linked both ways and leaves no unit out, whatever flush
\* of apaDelete the power fails after.  The exception is a call on a drive whose
\* last partition is free, which only a loss of power in the loop of DeleteLast
\* leaves: a partition that swallows it is the last, and when it then grows back
\* apaDeleteFixPrev sets its "next" to the end of the drive.
AlwaysConsistent == ~overTail => TypeOK /\ Consistent(disk)

\* apaDelete takes no other partition with data out of the chain, and when it
\* returns its victim is gone from the disk, whether it was marked empty where
\* it is or was swallowed by a neighbour.
OnlyTheVictim ==
    [][~overTail' =>
        /\ Data(disk) \ Data(disk') \subseteq {del.start}
        /\ del # NotDeleting /\ del' = NotDeleting /\ crashes' = crashes =>
              del.start \notin Data(disk')]_vars

\* Without a loss of power no free partition is left at the end of the drive
\* (the loop of apaDelete over the last partitions).
NoFreeTail == del = NotDeleting /\ crashes = 0 => ~FreeTail(mem)
=============================================================================
