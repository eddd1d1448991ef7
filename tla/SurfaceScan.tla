----------------------------- MODULE SurfaceScan -----------------------------
(***************************************************************************)
(* The surface scan and the zero fill: SurfScanDisk and ZeroFillDisk of    *)
(* the EE, and the verification and the erasing of sectors by hdst on the  *)
(* IOP.  Sectors are verified in long runs; one that cannot be read is     *)
(* remapped, by writing zeros to it, or skipped, as the user says.  The    *)
(* calls to the drive go through fileXio, whose block mode the remapping   *)
(* changes: under FXIO_NOWAIT a call returns 0 before the drive answers.   *)
(*                                                                         *)
(* The time that is left and the percentage are not modelled.              *)
(***************************************************************************)
EXTENDS Integers, FiniteSets, FiniteSetsExt

CONSTANTS
    TotalSectors, \* capacity of the unit
    RunMax,       \* sectors verified or erased at once, 65536
    IOBufferSize, \* sectors hdst writes at once, 256
    MaxBad        \* sectors that cannot be read at first

Sectors == 0 .. TotalSectors - 1

ASSUME SurfaceAssumption ==
    /\ TotalSectors \in Nat /\ MaxBad \in Nat
    /\ RunMax \in Nat \ {0} /\ IOBufferSize \in Nat \ {0}

VARIABLES
    how, turn,      \* "scan" or "zero"; where its loop over the sectors is
    bad,            \* sectors that cannot be read
    zeroed,         \* sectors zeros were written to
    lba, remaining, \* SectorsRemaining
    numBad, retry,  \* NumBadSectors, IsRetryCycle
    mode,           \* BadSectorHandlingMode
    answer,         \* the label of the button the user pressed last
    allowed,        \* bad sectors it tried to remap, and those it passed over
    shown,          \* the message the operation ends with
    wait            \* the block mode of fileXio is FXIO_WAIT

scanVars == <<how, turn, bad, zeroed, lba, remaining, numBad, retry, mode, answer, allowed, shown>>
surfaceVars == <<scanVars, wait>>

SurfaceInit ==
    /\ how = "none" /\ turn = "idle" /\ bad \in {B \in SUBSET Sectors : Cardinality(B) <= MaxBad}
    /\ zeroed = {} /\ lba = 0 /\ remaining = 0 /\ numBad = 0 /\ retry = FALSE /\ mode = "prompt"
    /\ answer = "none" /\ allowed = [remap |-> {}, skip |-> {}] /\ shown = "nothing" /\ wait = TRUE

StartSurface(job) ==
    /\ turn = "idle" /\ turn' = job /\ how' = job /\ shown' = "nothing"
    /\ lba' = 0 /\ remaining' = TotalSectors /\ numBad' = 0 /\ retry' = FALSE /\ mode' = "prompt"
    /\ answer' = "none" /\ zeroed' = {} /\ allowed' = [remap |-> {}, skip |-> {}]
    /\ UNCHANGED <<bad, wait>>

SurfaceForgotten ==
    /\ how' = "none" /\ turn' = "idle" /\ shown' = "nothing"
    /\ lba' = 0 /\ remaining' = 0 /\ numBad' = 0 /\ retry' = FALSE /\ mode' = "prompt"
    /\ answer' = "none" /\ zeroed' = {} /\ allowed' = [remap |-> {}, skip |-> {}]
    /\ UNCHANGED <<bad, wait>>

EndSurface(what) == turn' = "ended" /\ shown' = what

-----------------------------------------------------------------------------
(* SurfScanDisk.                                                           *)

\* A slip: the place of the bad sector is taken for the sectors before it.
Verify_Past(from, n) ==
    LET unreadable == bad \cap (from .. from + n - 1)
    IN IF unreadable = {} THEN 0 ELSE Min(unreadable) - from + 2

\* ata_device_read_verify: 0, or where the first unreadable sector is, from 1.
Verify(from, n) ==
    LET unreadable == bad \cap (from .. from + n - 1)
    IN IF unreadable = {} THEN 0 ELSE Min(unreadable) - from + 1

\* What fileXioDevctl returns of it.
Heard(from, n) == IF wait THEN Verify(from, n) ELSE 0

Run == Min({remaining, RunMax})

\* A sector that is found again in the retry cycle is not to be counted twice.
CountBad == IF retry THEN numBad ELSE numBad + 1

RunIsGood ==
    /\ turn = "scan" /\ remaining > 0 /\ Heard(lba, Run) = 0
    /\ lba' = lba + Run /\ remaining' = remaining - Run /\ retry' = FALSE
    /\ UNCHANGED <<how, turn, bad, zeroed, numBad, mode, answer, allowed, shown, wait>>

BadSectorFound ==
    LET n == Heard(lba, Run) - 1
    IN /\ turn = "scan" /\ remaining > 0 /\ n >= 0
       /\ numBad' = CountBad /\ lba' = lba + n /\ remaining' = remaining - n
       /\ turn' = IF mode = "prompt" THEN "ask" ELSE "bad"
       /\ UNCHANGED <<how, bad, zeroed, retry, mode, answer, allowed, shown, wait>>

\* An error of the drive that is not one of a sector.
UnexpectedError ==
    /\ turn = "scan" /\ remaining > 0 /\ wait /\ numBad' = CountBad /\ EndSurface("fault")
    /\ UNCHANGED <<how, bad, zeroed, lba, remaining, retry, mode, answer, allowed, wait>>

\* The buttons as they are labelled, and what the code takes each of them for.
Labels == <<"remap", "skip", "remap all", "skip all">>
Modes  == <<"remap", "skip all", "remap all", "skip">>

\* GetBadSectorAction; to cancel is button 0.
BadSectorAction ==
    /\ turn = "ask" /\ turn' = "bad"
    /\ \/ \E b \in 1 .. 4 : answer' = Labels[b] /\ mode' = Modes[b]
       \/ answer' = "cancel" /\ mode' = "remap"
    /\ UNCHANGED <<how, bad, zeroed, lba, remaining, numBad, retry, allowed, shown, wait>>

ModeAfter == IF mode \in {"remap", "skip"} THEN "prompt" ELSE mode
PassOver  == lba' = lba + 1 /\ remaining' = remaining - 1 /\ allowed' = [allowed EXCEPT !.skip = @ \cup {lba}]

\* A slip: the rest of the run is passed over with the sector.
SkipSector_Run ==
    /\ turn = "bad" /\ mode \in {"skip", "skip all"}
    /\ lba' = lba + Run /\ remaining' = remaining - Run /\ allowed' = [allowed EXCEPT !.skip = @ \cup {lba}]
    /\ mode' = ModeAfter /\ turn' = "scan"
    /\ UNCHANGED <<how, bad, zeroed, numBad, retry, answer, shown, wait>>

SkipSector ==
    /\ turn = "bad" /\ mode \in {"skip", "skip all"}
    /\ PassOver /\ mode' = ModeAfter /\ turn' = "scan"
    /\ UNCHANGED <<how, bad, zeroed, numBad, retry, answer, shown, wait>>

\* The drive replaces a sector that is written, or does not; the block mode is left
\* at FXIO_NOWAIT.
PatchSector ==
    /\ turn = "bad" /\ mode \in {"remap", "remap all"}
    /\ zeroed' = zeroed \cup {lba} /\ allowed' = [allowed EXCEPT !.remap = @ \cup {lba}]
    /\ bad' \in {bad, bad \ {lba}}
    /\ retry' = TRUE /\ mode' = ModeAfter /\ turn' = "scan" /\ wait' = FALSE
    /\ UNCHANGED <<how, lba, remaining, numBad, answer, shown>>

PatchFails ==
    /\ turn = "bad" /\ mode \in {"remap", "remap all"}
    /\ mode' = ModeAfter /\ turn' = "sorry" /\ allowed' = [allowed EXCEPT !.remap = @ \cup {lba}]
    /\ UNCHANGED <<how, bad, zeroed, lba, remaining, numBad, retry, answer, shown, wait>>
GoOn ==
    /\ turn = "sorry" /\ PassOver /\ turn' = "scan" /\ wait' = FALSE
    /\ UNCHANGED <<how, bad, zeroed, numBad, retry, mode, answer, shown>>
GiveUpScan ==
    /\ turn = "sorry" /\ EndSurface("nothing")
    /\ UNCHANGED <<how, bad, zeroed, lba, remaining, numBad, retry, mode, answer, allowed, wait>>

SurfaceComplete ==
    /\ turn \in {"scan", "zero"} /\ remaining = 0
    /\ EndSurface(IF turn = "scan" THEN "scanned" ELSE "filled")
    /\ UNCHANGED <<how, bad, zeroed, lba, remaining, numBad, retry, mode, answer, allowed, wait>>

CancelSurface ==
    /\ turn \in {"scan", "zero"} /\ remaining > 0 /\ EndSurface("nothing")
    /\ UNCHANGED <<how, bad, zeroed, lba, remaining, numBad, retry, mode, answer, allowed, wait>>

-----------------------------------------------------------------------------
(* ZeroFillDisk.                                                           *)

EraseSectors(from, n) == from .. from + n - 1

FillRun ==
    /\ turn = "zero" /\ remaining > 0
    /\ zeroed' = zeroed \cup EraseSectors(lba, Run) /\ bad' = bad \ EraseSectors(lba, Run)
    /\ lba' = lba + Run /\ remaining' = remaining - Run
    /\ UNCHANGED <<how, turn, numBad, retry, mode, answer, allowed, shown, wait>>

\* A write fails after some buffers of the run.
FillFails ==
    /\ turn = "zero" /\ remaining > 0
    /\ \E k \in {k \in 0 .. Run - 1 : k % IOBufferSize = 0} :
           zeroed' = zeroed \cup EraseSectors(lba, k) /\ bad' = bad \ EraseSectors(lba, k)
    /\ EndSurface("fault")
    /\ UNCHANGED <<how, lba, remaining, numBad, retry, mode, answer, allowed, wait>>

SurfaceStep ==
    \/ RunIsGood \/ BadSectorFound \/ UnexpectedError \/ BadSectorAction \/ SkipSector \/ PatchSector
    \/ PatchFails \/ GoOn \/ GiveUpScan \/ SurfaceComplete \/ CancelSurface \/ FillRun \/ FillFails

-----------------------------------------------------------------------------

\* A scan that says it is complete has read or passed over every sector before the
\* first one it tried to remap, whatever was found and skipped on the way: no sector
\* there is unreadable and unknown to the user.  What comes behind it, and that sector
\* itself, was verified without the result being looked at.  A fill that says so has
\* written every sector.
CompleteMeansAll ==
    /\ shown = "scanned" => \A s \in bad \ allowed.skip : \E x \in allowed.remap : x <= s
    /\ shown = "filled"  => zeroed = Sectors

\* The scan writes zeros to no sector that can be read: after every run, remap and
\* skip it knows exactly which sector is the bad one.
OnlyBadErased == [][how = "scan" => zeroed' \ zeroed \subseteq bad]_surfaceVars

\* README: "Performs a surface scan of the disk."  A scan that says it is complete
\* has left nothing unreadable but what it passed over.
ScanReadsAll == shown = "scanned" => bad \subseteq allowed.skip

\* What is done with a bad sector is what the label of the pressed button says.
AsTheUserSaid == turn = "bad" /\ answer # "cancel" => mode = answer

=============================================================================
