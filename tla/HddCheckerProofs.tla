-------------------------- MODULE HddCheckerProofs --------------------------
(* Theorems about the operations of the EE, for every number of partitions, *)
(* every capacity, every length of a run and every set of bad sectors: the  *)
(* surface scan and the zero fill; the main thread, the threads of the IOP  *)
(* it starts, stops and reboots, and the callback of the power button.      *)
EXTENDS HddChecker, FiniteSetTheorems, WellFoundedInduction, TLAPS

-----------------------------------------------------------------------------
(* The inductive invariant.                                                *)

Active == {"scan", "ask", "bad", "sorry", "zero"}

\* Below n nothing is unreadable but what was passed over and what comes behind
\* the first sector that was to be remapped.
Known(n) == \A s \in bad \ allowed.skip : s < n => \E x \in allowed.remap : x <= s
Tried(n) == \E x \in allowed.remap : x <= n

\* The sectors up to the place that is reached are known; results are unheard
\* only behind a sector that was to be remapped; and a sector that the user is
\* asked about is a bad one.
SurfaceInv ==
    /\ bad \subseteq Sectors /\ lba \in Nat /\ remaining \in Nat
    /\ allowed \in [remap : SUBSET Sectors, skip : SUBSET Sectors]
    /\ turn \in Active => lba + remaining = TotalSectors /\ shown = "nothing"
    /\ turn \in {"scan", "ask", "bad", "sorry"} =>
           how = "scan" /\ Known(lba) /\ (~wait => Tried(lba))
    /\ turn \in {"ask", "bad", "sorry"} => lba \in bad
    /\ turn = "sorry" => lba \in allowed.remap
    /\ turn = "zero" => how = "zero" /\ zeroed = 0 .. lba - 1
    /\ CompleteMeansAll

Idle    == {"menu", "format", "exit"}
Running == thread.state # "dormant"
Late    == {"status", "close", "endlog", "message", "back"}

\* A thread of the IOP runs only while the main thread waits for it, or after
\* it was stopped, or until the reboot that ends the operation.
ControlInv ==
    /\ thread \in [state : {"dormant", "running", "hung"}, mount : 0 .. NumPartitions]
    /\ pc \notin Idle => lock = "main"
    /\ lock \in {"free", "main"} => power = "on"
    /\ turn \in Active => pc = "surface"
    /\ ~wait => pc \in {"surface", "back"}
    /\ Running => ~event /\ (stopFlag \/ mount = thread.mount)
    /\ Running => pc \in Late \cup {"poll", "pollHdsk", "reset"}
    /\ event => pc \in Late \cup {"poll", "pollHdsk", "reset"}
    /\ stopFlag => userAborted /\ pc \in Late
    /\ pc \in {"status", "close"} /\ Running => stopFlag
    /\ pc = "status" /\ event => userAborted
    /\ pc \in {"count", "log", "devctl", "list", "startHdsk", "pollHdsk"} => mount = 0
    /\ pc \in {"start", "poll", "status", "close", "next"} => i \in Parts /\ mount = i

Checked == {"sound", "mended", "gave up"}
Outcomes == Checked \cup {"unchecked", "unopened", "stopped"}
ErrorsBelow(o, n) == {p \in Parts : p < n /\ o[p] \in {"mended", "unopened"}}

\* With the outcomes o and e errors: no partition has been looked at; those below
\* n have, and are counted; and, in UpTo, no other has.
Untouched(o, e) == e = 0 /\ \A p \in Parts : o[p] = "unchecked"
Counted(o, e, n) ==
    /\ \A p \in Parts : /\ p < n => o[p] \in Checked \cup {"unopened"}
                        /\ p > n => o[p] = "unchecked"
    /\ e = Cardinality(ErrorsBelow(o, n))
UpTo(o, e, n)  == Counted(o, e, n) /\ (n \in Parts => o[n] = "unchecked")
Complete ==
    /\ ~Running
    /\ Untouched(outcome, errorsFound) \/ UpTo(outcome, errorsFound, NumPartitions + 1)

\* A scan, at the point of the code that is reached: its two phases, and the
\* loop over the partitions of the second one.
ScanInv ==
    /\ outcome \in [Parts -> Outcomes]
    /\ i \in 1 .. NumPartitions + 1
    /\ pc \in Idle => shown = "nothing" /\ Untouched(outcome, errorsFound)
    /\ op = "scan" =>
        /\ stage \in {"hdck", "fsck", "none"} /\ pc \notin {"surface", "startHdsk", "pollHdsk"}
        /\ pc \in {"message", "back", "release"} <=> stage = "none"
        /\ pc \notin {"back", "release"} => shown = "nothing"
        /\ stage = "hdck" => Untouched(outcome, errorsFound) /\ ~Running /\ pc \in {"reset", "log", "devctl", "endlog"}
        /\ pc \in {"reset", "count", "log", "devctl", "list"} => Untouched(outcome, errorsFound) /\ ~Running
        /\ pc \in {"count", "log", "list"} => i = 1
        /\ pc \in {"open", "start"} => UpTo(outcome, errorsFound, i)
        /\ pc = "poll" =>
               /\ Counted(outcome, errorsFound, i)
               /\ IF Running THEN thread.mount = i /\ outcome[i] = "unchecked"
                  ELSE outcome[i] \in Checked
        /\ pc = "status" /\ ~userAborted => Counted(outcome, errorsFound, i) /\ outcome[i] \in Checked
        /\ pc = "next" => UpTo(outcome, errorsFound, i + 1)
        /\ pc = "close" => result # 0 \/ userAborted
        /\ pc \in {"endlog", "message"} => result # 0 \/ userAborted \/ Complete
        /\ pc \in {"back", "release"} /\ shown = "complete" => Complete

HddInv == SurfaceInv /\ ControlInv /\ ScanInv

-----------------------------------------------------------------------------
(* Runs of sectors.                                                        *)

LEMMA MinFacts ==
  ASSUME NEW S, S \subseteq Nat, S # {}
  PROVE  Min(S) \in S /\ \A y \in S : Min(S) <= y
  <1> DEFINE R == OpToRel(<, Nat)
  <1>1. IsWellFoundedOn(R, Nat)
    BY NatLessThanWellFounded
  <1>2. \A x, y \in Nat : x < y => <<x, y>> \in R
    BY DEF OpToRel
  <1> HIDE DEF R
  <1>3. PICK x \in S : \A y \in S : ~(<<y, x>> \in R)
    BY <1>1, WFMin
  <1>4. ASSUME NEW y \in S PROVE x <= y
    <2>1. x \in Nat /\ y \in Nat /\ ~(y < x)
      BY <1>2, <1>3
    <2> QED
      BY <2>1
  <1>5. Min(S) = CHOOSE x1 \in S : \A y \in S : x1 <= y
    BY DEF Min
  <1> QED
    BY <1>4, <1>5

LEMMA RunFacts ==
  ASSUME remaining \in Nat, remaining > 0
  PROVE  Run \in 1 .. remaining
  <1> DEFINE S == {remaining, RunMax}
  <1>1. S \subseteq Nat /\ S # {} /\ RunMax > 0
    BY SurfaceAssumption
  <1>2. Min(S) \in S /\ \A y \in S : Min(S) <= y
    BY <1>1, MinFacts
  <1> QED
    BY <1>1, <1>2 DEF Run

\* The first sector of the run that cannot be read (ata_device_read_verify).
LEMMA VerifyFacts ==
  ASSUME bad \subseteq Nat, NEW from \in Nat, NEW n \in Nat
  PROVE  /\ Verify(from, n) \in Int
         /\ Verify(from, n) <= 0 => Verify(from, n) = 0 /\ bad \cap (from .. from + n - 1) = {}
         /\ Verify(from, n) > 0 =>
                /\ from + Verify(from, n) - 1 \in bad \cap (from .. from + n - 1)
                /\ \A x \in bad : ~(from <= x /\ x < from + Verify(from, n) - 1)
  <1> DEFINE U == bad \cap (from .. from + n - 1)
  <1>1. CASE U = {}
    BY <1>1 DEF Verify
  <1>2. CASE U # {}
    <2> DEFINE m == Min(U)
    <2>1. m \in U /\ \A y \in U : m <= y
      BY <1>2, MinFacts
    <2>2. Verify(from, n) = m - from + 1
      BY <1>2 DEF Verify
    <2> HIDE DEF m
    <2>3. m \in bad /\ m \in from .. from + n - 1 /\ m \in Nat
      BY <2>1
    <2>4. ASSUME NEW x \in bad, from <= x, x < m PROVE FALSE
      <3>1. x \in Nat /\ x \in from .. from + n - 1
        BY <2>3, <2>4
      <3>2. m <= x
        BY <2>1, <3>1
      <3> QED
        BY <2>3, <2>4, <3>1, <3>2
    <2> QED
      BY <2>2, <2>3, <2>4
  <1> QED
    BY <1>1, <1>2

-----------------------------------------------------------------------------
(* The surface scan and the zero fill.                                     *)

\* The operation ends, or is not under way.
LEMMA SurfaceRests ==
  ASSUME SurfaceInv, turn' \notin Active, UNCHANGED <<lba, remaining, bad, allowed>>, CompleteMeansAll'
  PROVE  SurfaceInv'
  BY DEF SurfaceInv, Active

\* One more sector is passed over, and the user knows.
LEMMA PassOverSurface ==
  ASSUME SurfaceInv, turn \in {"bad", "sorry"}, PassOver, turn' = "scan", UNCHANGED <<how, bad, shown>>,
         (wait' = wait) \/ turn = "sorry"
  PROVE  SurfaceInv'
  <1>1. /\ lba \in bad /\ bad \subseteq Sectors /\ lba \in Nat /\ remaining \in Nat
        /\ lba + remaining = TotalSectors /\ shown = "nothing" /\ how = "scan"
        /\ Known(lba) /\ (~wait => Tried(lba)) /\ (turn = "sorry" => lba \in allowed.remap)
        /\ allowed \in [remap : SUBSET Sectors, skip : SUBSET Sectors]
    BY DEF SurfaceInv, Active
  <1>2. lba < TotalSectors /\ TotalSectors \in Nat /\ lba \in Sectors
    BY <1>1, SurfaceAssumption DEF Sectors
  <1>3. lba' = lba + 1 /\ remaining' = remaining - 1 /\ remaining - 1 \in Nat
    BY <1>1, <1>2 DEF PassOver
  <1>4. /\ allowed'.skip = allowed.skip \cup {lba} /\ allowed'.remap = allowed.remap
        /\ allowed' \in [remap : SUBSET Sectors, skip : SUBSET Sectors]
    BY <1>1, <1>2 DEF PassOver
  <1>5. Known(lba)' /\ (~wait' => Tried(lba)')
    <2>1. ASSUME NEW x \in bad \ allowed'.skip, x < lba' PROVE x \in bad \ allowed.skip /\ x < lba
      BY <1>1, <1>3, <1>4, <2>1 DEF Sectors
    <2>2. Known(lba)'
      BY <1>1, <1>4, <2>1 DEF Known
    <2>3. ~wait' => Tried(lba)
      BY <1>1 DEF Tried
    <2>4. Tried(lba) => Tried(lba)'
      <3>1. ASSUME NEW x \in allowed.remap, x <= lba PROVE x <= lba'
        BY <1>1, <1>3, <3>1 DEF Sectors
      <3> QED
        BY <1>4, <3>1 DEF Tried
    <2> QED
      BY <2>2, <2>3, <2>4
  <1>6. lba' + remaining' = TotalSectors
    BY <1>1, <1>3
  <1> QED
    BY <1>1, <1>3, <1>4, <1>5, <1>6 DEF SurfaceInv, Active, CompleteMeansAll

\* The sectors between two places are known if none is unreadable, or if they
\* come behind one that was to be remapped.
LEMMA KnownOn ==
  ASSUME SurfaceInv, lba \in Nat, Known(lba), NEW m \in Nat, lba <= m,
         (\A x \in bad : ~(lba <= x /\ x < m)) \/ Tried(lba)
  PROVE  Known(m) /\ (Tried(lba) => Tried(m))
  <1>1. /\ \A x \in bad : x \in Nat
        /\ \A x \in allowed.remap : x \in Nat
    BY DEF SurfaceInv, Sectors
  <1>2. ASSUME Tried(lba) PROVE \E x \in allowed.remap : x <= lba /\ \A y \in Nat : lba <= y => x <= y
    BY <1>1, <1>2 DEF Tried
  <1>3. Tried(lba) => Tried(m)
    BY <1>2 DEF Tried
  <1>4. ASSUME NEW s \in bad \ allowed.skip, s < m PROVE \E x \in allowed.remap : x <= s
    <2>1. s \in Nat
      BY <1>1
    <2>2. CASE s < lba
      BY <2>2 DEF Known
    <2>3. CASE lba <= s
      BY <1>2, <1>4, <2>1, <2>3
    <2> QED
      BY <2>1, <2>2, <2>3
  <1> QED
    BY <1>3, <1>4 DEF Known

LEMMA RunIsGoodSurface ==
  ASSUME SurfaceInv, RunIsGood
  PROVE  SurfaceInv'
  <1>1. /\ turn = "scan" /\ turn' = "scan" /\ remaining > 0 /\ Heard(lba, Run) = 0
        /\ lba' = lba + Run /\ remaining' = remaining - Run
        /\ UNCHANGED <<how, bad, allowed, shown, wait>>
    BY DEF RunIsGood
  <1>2. /\ bad \subseteq Sectors /\ lba \in Nat /\ remaining \in Nat
        /\ lba + remaining = TotalSectors /\ shown = "nothing" /\ how = "scan"
        /\ Known(lba) /\ (~wait => Tried(lba))
        /\ allowed \in [remap : SUBSET Sectors, skip : SUBSET Sectors]
    BY <1>1 DEF SurfaceInv, Active
  <1> DEFINE r == Run
  <1>3. r \in Nat /\ r <= remaining
    BY <1>1, <1>2, RunFacts
  <1>4. wait => bad \cap (lba .. lba + r - 1) = {}
    BY <1>1, <1>2, <1>3, VerifyFacts DEF Sectors, Heard
  <1> HIDE DEF r
  <1>5. lba' = lba + r /\ remaining' = remaining - r
    BY <1>1 DEF r
  <1>6. lba' \in Nat /\ remaining' \in Nat /\ lba' + remaining' = TotalSectors /\ lba <= lba'
    BY <1>2, <1>3, <1>5
  <1>7. (\A x \in bad : ~(lba <= x /\ x < lba')) \/ Tried(lba)
    <2> SUFFICES ASSUME wait, NEW x \in bad, lba <= x, x < lba' PROVE FALSE
      BY <1>2
    <2>1. x \in lba .. lba + r - 1
      BY <1>2, <1>3, <1>5 DEF Sectors
    <2> QED
      BY <1>4, <2>1
  <1>8. Known(lba') /\ (Tried(lba) => Tried(lba'))
    BY <1>2, <1>6, <1>7, KnownOn
  <1>9. Known(lba)' /\ (~wait' => Tried(lba)')
    BY <1>1, <1>2, <1>8 DEF Known, Tried
  <1> QED
    BY <1>1, <1>2, <1>6, <1>9 DEF SurfaceInv, Active, CompleteMeansAll

LEMMA BadSectorFoundSurface ==
  ASSUME SurfaceInv, BadSectorFound
  PROVE  SurfaceInv'
  <1> DEFINE r == Run
             n == Heard(lba, r) - 1
  <1>1. /\ turn = "scan" /\ turn' \in {"ask", "bad"} /\ remaining > 0 /\ n >= 0
        /\ lba' = lba + n /\ remaining' = remaining - n
        /\ UNCHANGED <<how, bad, allowed, shown, wait>>
    BY DEF BadSectorFound
  <1>2. /\ bad \subseteq Sectors /\ lba \in Nat /\ remaining \in Nat
        /\ lba + remaining = TotalSectors /\ shown = "nothing" /\ how = "scan"
        /\ Known(lba) /\ (~wait => Tried(lba))
        /\ allowed \in [remap : SUBSET Sectors, skip : SUBSET Sectors]
    BY <1>1 DEF SurfaceInv, Active
  <1>3. r \in Nat /\ r <= remaining
    BY <1>1, <1>2, RunFacts
  <1>4. bad \subseteq Nat
    BY <1>2 DEF Sectors
  <1> HIDE DEF r
  <1>5. wait /\ n = Verify(lba, r) - 1 /\ Verify(lba, r) \in Int /\ Verify(lba, r) > 0
    BY <1>1, <1>2, <1>3, <1>4, VerifyFacts DEF Heard
  <1>6. /\ lba + Verify(lba, r) - 1 \in bad \cap (lba .. lba + r - 1)
        /\ \A x \in bad : ~(lba <= x /\ x < lba + Verify(lba, r) - 1)
    BY <1>2, <1>3, <1>4, <1>5, VerifyFacts
  <1>7. n \in Nat /\ n < r /\ lba + n = lba + Verify(lba, r) - 1
    BY <1>2, <1>3, <1>5, <1>6
  <1> HIDE DEF n
  <1>8. lba' \in bad /\ \A x \in bad : ~(lba <= x /\ x < lba')
    BY <1>1, <1>6, <1>7
  <1>9. lba' \in Nat /\ remaining' \in Nat /\ lba' + remaining' = TotalSectors /\ lba <= lba'
    BY <1>1, <1>2, <1>3, <1>7
  <1>10. Known(lba')
    BY <1>2, <1>8, <1>9, KnownOn
  <1>11. Known(lba)' /\ wait'
    BY <1>1, <1>5, <1>10 DEF Known
  <1> QED
    BY <1>1, <1>2, <1>8, <1>9, <1>11 DEF SurfaceInv, Active, CompleteMeansAll

LEMMA PatchSectorSurface ==
  ASSUME SurfaceInv, PatchSector \/ PatchFails
  PROVE  SurfaceInv'
  <1>1. /\ turn = "bad" /\ UNCHANGED <<how, lba, remaining, shown>>
        /\ allowed' = [allowed EXCEPT !.remap = @ \cup {lba}]
        /\ \/ turn' = "scan" /\ bad' \in {bad, bad \ {lba}}
           \/ turn' = "sorry" /\ bad' = bad
    BY DEF PatchSector, PatchFails
  <1>2. /\ bad \subseteq Sectors /\ lba \in Nat /\ remaining \in Nat
        /\ lba + remaining = TotalSectors /\ shown = "nothing" /\ how = "scan" /\ lba \in bad
        /\ Known(lba)
        /\ allowed \in [remap : SUBSET Sectors, skip : SUBSET Sectors]
    BY <1>1 DEF SurfaceInv, Active
  <1>3. /\ allowed' \in [remap : SUBSET Sectors, skip : SUBSET Sectors]
        /\ allowed'.skip = allowed.skip /\ allowed'.remap = allowed.remap \cup {lba}
    BY <1>1, <1>2
  <1>4. Known(lba)' /\ Tried(lba)'
    BY <1>1, <1>2, <1>3 DEF Known, Tried
  <1> QED
    BY <1>1, <1>2, <1>3, <1>4 DEF SurfaceInv, Active, CompleteMeansAll

LEMMA FillRunSurface ==
  ASSUME SurfaceInv, FillRun
  PROVE  SurfaceInv'
  <1> DEFINE r == Run
  <1>1. /\ turn = "zero" /\ turn' = "zero" /\ remaining > 0
        /\ zeroed' = zeroed \cup EraseSectors(lba, r) /\ bad' = bad \ EraseSectors(lba, r)
        /\ lba' = lba + r /\ remaining' = remaining - r
        /\ UNCHANGED <<how, allowed, shown>>
    BY DEF FillRun
  <1>2. /\ bad \subseteq Sectors /\ lba \in Nat /\ remaining \in Nat
        /\ lba + remaining = TotalSectors /\ shown = "nothing" /\ how = "zero"
        /\ zeroed = 0 .. lba - 1
        /\ allowed \in [remap : SUBSET Sectors, skip : SUBSET Sectors]
    BY <1>1 DEF SurfaceInv, Active
  <1>3. r \in Nat /\ r <= remaining
    BY <1>1, <1>2, RunFacts
  <1> HIDE DEF r
  <1>4. zeroed' = 0 .. lba + r - 1
    <2>1. (0 .. lba - 1) \cup (lba .. lba + r - 1) = 0 .. lba + r - 1
      BY <1>2, <1>3
    <2> QED
      BY <1>1, <1>2, <2>1 DEF EraseSectors
  <1>5. /\ lba' \in Nat /\ remaining' \in Nat /\ lba' + remaining' = TotalSectors
        /\ 0 .. lba' - 1 = 0 .. lba + r - 1
    BY <1>1, <1>2, <1>3
  <1> QED
    BY <1>1, <1>2, <1>4, <1>5 DEF SurfaceInv, Active, CompleteMeansAll

LEMMA SurfaceCompleteSurface ==
  ASSUME SurfaceInv, SurfaceComplete
  PROVE  SurfaceInv'
  <1>1. /\ turn \in {"scan", "zero"} /\ remaining = 0 /\ turn' = "ended"
        /\ shown' = IF turn = "scan" THEN "scanned" ELSE "filled"
        /\ UNCHANGED <<lba, remaining, bad, allowed, zeroed>>
    BY DEF SurfaceComplete, EndSurface
  <1>2. lba = TotalSectors /\ 0 .. lba - 1 = Sectors /\ bad \subseteq Sectors
    BY <1>1, SurfaceAssumption DEF SurfaceInv, Active, Sectors
  <1>3. turn = "scan" => \A s \in bad \ allowed.skip : \E x \in allowed.remap : x <= s
    <2>1. turn = "scan" => Known(lba)
      BY DEF SurfaceInv
    <2>2. \A s \in bad : s < lba
      BY <1>2, SurfaceAssumption DEF Sectors
    <2> QED
      BY <2>1, <2>2 DEF Known
  <1>4. CompleteMeansAll'
    BY <1>1, <1>2, <1>3 DEF SurfaceInv, CompleteMeansAll, Sectors
  <1> QED
    BY <1>1, <1>4, SurfaceRests DEF Active

LEMMA SurfaceStepInv ==
  ASSUME SurfaceInv, SurfaceStep
  PROVE  SurfaceInv'
  <1>1. CASE UnexpectedError \/ GiveUpScan \/ CancelSurface
    <2>1. /\ turn' = "ended" /\ shown' \in {"fault", "nothing"}
          /\ UNCHANGED <<lba, remaining, bad, allowed>>
      BY <1>1 DEF UnexpectedError, GiveUpScan, CancelSurface, EndSurface
    <2> QED
      BY <2>1, SurfaceRests DEF Active, CompleteMeansAll
  <1>2. CASE BadSectorAction
    BY <1>2 DEF BadSectorAction, SurfaceInv, Known, Tried, Active, CompleteMeansAll
  <1>3. CASE SkipSector \/ GoOn
    BY <1>3, PassOverSurface DEF SkipSector, GoOn
  <1>4. CASE FillFails
    <2>1. /\ turn' = "ended" /\ shown' = "fault" /\ bad' \subseteq bad
          /\ UNCHANGED <<lba, remaining, allowed>>
      BY <1>4 DEF FillFails, EndSurface
    <2> QED
      BY <2>1 DEF SurfaceInv, Active, CompleteMeansAll
  <1> QED
    BY <1>1, <1>2, <1>3, <1>4, RunIsGoodSurface, BadSectorFoundSurface, PatchSectorSurface,
       FillRunSurface, SurfaceCompleteSurface DEF SurfaceStep

LEMMA StartSurfaceInv ==
  ASSUME SurfaceInv, NEW job \in {"scan", "zero"}, StartSurface(job), wait
  PROVE  SurfaceInv'
  <1>1. 0 .. 0 - 1 = {}
    OBVIOUS
  <1> QED
    BY <1>1, SurfaceAssumption DEF StartSurface, SurfaceInv, Known, Sectors, Active, CompleteMeansAll

\* The scan writes to one sector at a time, the one it was told of.
LEMMA SurfaceStepErases ==
  ASSUME SurfaceInv, SurfaceStep, how = "scan"
  PROVE  zeroed' \ zeroed \subseteq bad
  <1>1. CASE PatchSector
    BY <1>1 DEF PatchSector, SurfaceInv
  <1>2. CASE FillRun \/ FillFails
    BY <1>2 DEF FillRun, FillFails, SurfaceInv
  <1> QED
    BY <1>1, <1>2 DEF SurfaceStep, RunIsGood, BadSectorFound, UnexpectedError, BadSectorAction,
       SkipSector, PatchFails, GoOn, GiveUpScan, SurfaceComplete, CancelSurface

-----------------------------------------------------------------------------
(* The outcomes of the partitions.                                         *)

LEMMA PartsFacts ==
  /\ Parts \subseteq Nat /\ IsFiniteSet(Parts) /\ NumPartitions \in Nat /\ NumPartitions > 0
  /\ \A o, n : IsFiniteSet(ErrorsBelow(o, n)) /\ Cardinality(ErrorsBelow(o, n)) \in Nat
  <1>1. NumPartitions \in Nat /\ NumPartitions > 0
    BY NumPartitionsAssumption
  <1>2. Parts \subseteq Nat /\ IsFiniteSet(Parts)
    BY <1>1, FS_Interval DEF Parts
  <1>3. ASSUME NEW o, NEW n
        PROVE  IsFiniteSet(ErrorsBelow(o, n)) /\ Cardinality(ErrorsBelow(o, n)) \in Nat
    <2>1. ErrorsBelow(o, n) \subseteq Parts
      BY DEF ErrorsBelow
    <2> QED
      BY <1>2, <2>1, FS_Subset, FS_CardinalityType
  <1> QED
    BY <1>1, <1>2, <1>3

\* A scan begins to look at the partitions.
LEMMA FirstPart ==
  ASSUME NEW o, NEW e, Untouched(o, e)
  PROVE  UpTo(o, e, 1)
  <1>1. ErrorsBelow(o, 1) = {}
    BY PartsFacts DEF ErrorsBelow, Parts
  <1>2. Cardinality(ErrorsBelow(o, 1)) = 0
    BY <1>1, FS_EmptySet
  <1> QED
    BY <1>2, PartsFacts DEF Untouched, UpTo, Counted, Parts

\* One more has been looked at: an error in it is counted.
LEMMA NextPart ==
  ASSUME NEW o, NEW e, NEW o1, NEW e1, NEW n \in Parts, Counted(o, e, n),
         \A p \in Parts : p # n => o1[p] = o[p],
         o1[n] \in Checked \cup {"unopened"},
         e1 = IF o1[n] \in {"mended", "unopened"} THEN e + 1 ELSE e
  PROVE  UpTo(o1, e1, n + 1)
  <1>1. Parts \subseteq Nat /\ n \in Nat
    BY PartsFacts
  <1>2. \A p \in Parts : /\ p < n + 1 <=> p < n \/ p = n
                         /\ p < n => p # n
                         /\ p > n => p # n /\ p >= n + 1
                         /\ p >= n + 1 => p > n
    BY <1>1
  <1>3. /\ \A p \in Parts : /\ p < n + 1 => o1[p] \in Checked \cup {"unopened"}
                            /\ p >= n + 1 => o1[p] = "unchecked"
    BY <1>1, <1>2 DEF Counted
  <1>4. Cardinality(ErrorsBelow(o1, n + 1)) = e1
    <2>1. CASE o1[n] \in {"mended", "unopened"}
      <3>1. ErrorsBelow(o1, n + 1) = ErrorsBelow(o, n) \cup {n} /\ n \notin ErrorsBelow(o, n)
        BY <1>1, <1>2, <2>1 DEF ErrorsBelow
      <3>2. Cardinality(ErrorsBelow(o, n) \cup {n}) = Cardinality(ErrorsBelow(o, n)) + 1
        BY <3>1, PartsFacts, FS_AddElement
      <3> QED
        BY <2>1, <3>1, <3>2 DEF Counted
    <2>2. CASE o1[n] \notin {"mended", "unopened"}
      <3>1. ErrorsBelow(o1, n + 1) = ErrorsBelow(o, n)
        BY <1>1, <1>2, <2>2 DEF ErrorsBelow
      <3> QED
        BY <2>2, <3>1 DEF Counted
    <2> QED
      BY <2>1, <2>2
  <1> QED
    BY <1>1, <1>3, <1>4 DEF UpTo, Counted

-----------------------------------------------------------------------------
(* The main thread, the threads of the IOP and the button.                 *)

LEMMA PhaseControl ==
  ASSUME ControlInv, SurfaceInv,
         LoadModules \/ Count \/ StartLog \/ StopLog \/ Hdck \/ ListPartitions \/ StartHdsk
            \/ PollHdsk \/ AbortHdsk \/ HdskFails
  PROVE  ControlInv'
  <1> USE NumPartitionsAssumption
      DEF ControlInv, SurfaceInv, Active, Idle, Running, Late, Parts, Ready, GoTo, AfterPhase, Second,
          Reboot, StartThread, NoThread, scanVars, surfaceVars, eeVars, iopVars
  <1>1. CASE LoadModules
    BY <1>1 DEF LoadModules
  <1>2. CASE Count
    BY <1>2 DEF Count
  <1>3. CASE StartLog
    BY <1>3 DEF StartLog
  <1>4. CASE StopLog
    BY <1>4 DEF StopLog
  <1>5. CASE Hdck
    BY <1>5 DEF Hdck
  <1>6. CASE ListPartitions
    BY <1>6 DEF ListPartitions
  <1>7. CASE StartHdsk
    BY <1>7 DEF StartHdsk
  <1>8. CASE PollHdsk
    BY <1>8 DEF PollHdsk
  <1>9. CASE AbortHdsk
    BY <1>9 DEF AbortHdsk
  <1>10. CASE HdskFails
    BY <1>10 DEF HdskFails
  <1> QED
    BY <1>1, <1>2, <1>3, <1>4, <1>5, <1>6, <1>7, <1>8, <1>9, <1>10

LEMMA PartitionControl ==
  ASSUME ControlInv, SurfaceInv,
         OpenPartition \/ OpenFails \/ PartitionsDone \/ Start \/ PollDone \/ Abort \/ Status
            \/ ClosePartition \/ ThreadEnds \/ ThreadHangs
  PROVE  ControlInv'
  <1> USE NumPartitionsAssumption
      DEF ControlInv, SurfaceInv, Active, Idle, Running, Late, Parts, Ready, GoTo, AfterPhase, Second,
          Reboot, StartThread, NoThread, scanVars, surfaceVars, eeVars, iopVars
  <1>1. CASE OpenPartition
    BY <1>1 DEF OpenPartition
  <1>2. CASE OpenFails
    BY <1>2 DEF OpenFails
  <1>3. CASE PartitionsDone
    BY <1>3 DEF PartitionsDone
  <1>4. CASE Start
    BY <1>4 DEF Start
  <1>5. CASE PollDone
    BY <1>5 DEF PollDone
  <1>6. CASE Abort
    BY <1>6 DEF Abort
  <1>7. CASE Status
    BY <1>7 DEF Status
  <1>8. CASE ClosePartition
    BY <1>8 DEF ClosePartition
  <1>9. CASE ThreadEnds
    <2>1. /\ Running /\ thread' = NoThread /\ event' = TRUE
          /\ UNCHANGED <<turn, pc, userAborted, i, lock, power, mount, stopFlag, wait>>
      BY <1>9 DEF ThreadEnds
    <2> QED
      BY <2>1
  <1>10. CASE ThreadHangs
    <2>1. /\ Running /\ Running' /\ thread' \in [state : {"hung"}, mount : {thread.mount}]
          /\ UNCHANGED <<turn, pc, userAborted, i, lock, power, mount, stopFlag, event, wait>>
      BY <1>10 DEF ThreadHangs
    <2> QED
      BY <2>1
  <1> QED
    BY <1>1, <1>2, <1>3, <1>4, <1>5, <1>6, <1>7, <1>8, <1>9, <1>10

LEMMA MenuControl ==
  ASSUME ControlInv, SurfaceInv,
         Choose \/ Quit \/ PoweroffCallback \/ Message \/ Surface \/ SurfaceEnds \/ BackToMain
            \/ Release \/ CheckFormat \/ UNCHANGED vars
  PROVE  ControlInv'
  <1> USE NumPartitionsAssumption
      DEF ControlInv, SurfaceInv, Active, Idle, Running, Late, Parts, Ready, GoTo, AfterPhase, Second,
          Reboot, StartThread, NoThread, scanVars, surfaceVars, eeVars, iopVars
  <1>1. CASE Choose
    BY <1>1 DEF Choose
  <1>2. CASE Quit
    BY <1>2 DEF Quit
  <1>3. CASE PoweroffCallback
    BY <1>3 DEF PoweroffCallback
  <1>4. CASE Message
    BY <1>4 DEF Message
  <1>5. CASE Surface
    BY <1>5 DEF Surface
  <1>6. CASE SurfaceEnds
    BY <1>6 DEF SurfaceEnds
  <1>7. CASE BackToMain
    BY <1>7 DEF BackToMain
  <1>8. CASE Release
    BY <1>8 DEF Release, SurfaceForgotten
  <1>9. CASE CheckFormat
    BY <1>9 DEF CheckFormat
  <1>10. CASE UNCHANGED vars
    BY <1>10 DEF vars
  <1> QED
    BY <1>1, <1>2, <1>3, <1>4, <1>5, <1>6, <1>7, <1>8, <1>9, <1>10

-----------------------------------------------------------------------------
(* The scan of the drive.                                                  *)

LEMMA PhaseScan ==
  ASSUME ControlInv, SurfaceInv, ScanInv,
         LoadModules \/ Count \/ StartLog \/ StopLog \/ Hdck \/ ListPartitions \/ StartHdsk
            \/ PollHdsk \/ AbortHdsk \/ HdskFails
  PROVE  ScanInv'
  <1> USE NumPartitionsAssumption
      DEF ControlInv, SurfaceInv, ScanInv, Complete, Active, Idle, Running, Late, Parts, Ready, GoTo, AfterPhase, Second,
          Reboot, StartThread, NoThread, scanVars, surfaceVars, eeVars, iopVars
  <1>1. CASE LoadModules
    BY <1>1 DEF LoadModules
  <1>2. CASE Count
    BY <1>2 DEF Count
  <1>3. CASE StartLog
    BY <1>3 DEF StartLog
  <1>4. CASE StopLog
    BY <1>4 DEF StopLog
  <1>5. CASE Hdck
    BY <1>5 DEF Hdck
  <1>6. CASE ListPartitions
    BY <1>6, FirstPart DEF ListPartitions
  <1>7. CASE StartHdsk
    BY <1>7 DEF StartHdsk
  <1>8. CASE PollHdsk
    BY <1>8 DEF PollHdsk
  <1>9. CASE AbortHdsk
    BY <1>9 DEF AbortHdsk
  <1>10. CASE HdskFails
    BY <1>10 DEF HdskFails
  <1> QED
    BY <1>1, <1>2, <1>3, <1>4, <1>5, <1>6, <1>7, <1>8, <1>9, <1>10

LEMMA StatusFacts ==
  ASSUME Status
  PROVE  /\ pc' \in {"close", "next"}
         /\ pc' = "close" => result' # 0 \/ userAborted
         /\ pc' = "next" => ~userAborted
         /\ pc' = "next" =>
                errorsFound' = IF stage = "fsck" /\ outcome[i] = "mended" THEN errorsFound + 1
                               ELSE errorsFound
  <1>1. CASE result' = -1 /\ pc' = "close"
    BY <1>1
  <1>2. CASE /\ pc' = IF result' # 0 \/ userAborted THEN "close" ELSE "next"
             /\ errorsFound' = IF stage = "fsck" /\ ~userAborted /\ outcome[i] = "mended"
                               THEN errorsFound + 1 ELSE errorsFound
    BY <1>2
  <1> QED
    BY <1>1, <1>2 DEF Status, GoTo

LEMMA PartitionScan ==
  ASSUME ControlInv, SurfaceInv, ScanInv,
         OpenPartition \/ OpenFails \/ PartitionsDone \/ Start \/ PollDone \/ Abort \/ Status
            \/ ClosePartition \/ ThreadEnds \/ ThreadHangs
  PROVE  ScanInv'
  <1> USE NumPartitionsAssumption
      DEF ControlInv, SurfaceInv, ScanInv, Complete, Active, Idle, Running, Late, Parts, Ready, GoTo, AfterPhase, Second,
          Reboot, StartThread, NoThread, scanVars, surfaceVars, eeVars, iopVars
  <1>1. CASE OpenPartition
    BY <1>1 DEF OpenPartition
  <1>2. CASE OpenFails
    <2>1. /\ pc = "open" /\ i \in Parts /\ i' = i + 1 /\ result' = -1
          /\ errorsFound' = IF stage = "fsck" THEN errorsFound + 1 ELSE errorsFound
          /\ outcome' = [outcome EXCEPT ![i] = "unopened"]
          /\ UNCHANGED <<pc, op, stage, shown, userAborted, thread>>
      BY <1>2 DEF OpenFails
    <2>2. /\ outcome' \in [Parts -> Outcomes] /\ outcome'[i] = "unopened"
          /\ \A p \in Parts : p # i => outcome'[p] = outcome[p]
          /\ i' \in 1 .. NumPartitions + 1
      BY <2>1 DEF Outcomes
    <2>3. op = "scan" => UpTo(outcome', errorsFound', i')
      <3>1. op = "scan" => Counted(outcome, errorsFound, i) /\ errorsFound' = errorsFound + 1
        BY <2>1 DEF UpTo
      <3> QED
        BY <2>1, <2>2, <3>1, NextPart
    <2> QED
      BY <2>1, <2>2, <2>3
  <1>3. CASE PartitionsDone
    BY <1>3 DEF PartitionsDone
  <1>4. CASE Start
    BY <1>4 DEF Start, UpTo
  <1>5. CASE PollDone
    BY <1>5 DEF PollDone
  <1>6. CASE Abort
    BY <1>6 DEF Abort
  <1>7. CASE Status
    <2>1. pc = "status" /\ UNCHANGED <<op, stage, i, shown, outcome, userAborted, thread>>
      BY <1>7 DEF Status
    <2>2. i \in Parts
      BY <2>1
    <2>3. /\ pc' \in {"close", "next"}
          /\ pc' = "close" => result' # 0 \/ userAborted
          /\ pc' = "next" => ~userAborted
      BY <1>7, StatusFacts
    <2>4. pc' = "next" =>
              errorsFound' = IF stage = "fsck" /\ outcome[i] = "mended" THEN errorsFound + 1
                             ELSE errorsFound
      BY <1>7, StatusFacts
    <2>5. op = "scan" /\ pc' = "next" => UpTo(outcome', errorsFound', i' + 1)
      <3>1. op = "scan" /\ pc' = "next" =>
                /\ Counted(outcome, errorsFound, i) /\ outcome[i] \in Checked /\ stage = "fsck"
        BY <2>1, <2>3
      <3>2. op = "scan" /\ pc' = "next" =>
                errorsFound' = IF outcome[i] \in {"mended", "unopened"} THEN errorsFound + 1
                               ELSE errorsFound
        BY <2>4, <3>1 DEF Checked
      <3> QED
        BY <2>1, <2>2, <3>1, <3>2, NextPart
    <2> QED
      BY <2>1, <2>2, <2>3, <2>5
  <1>8. CASE ClosePartition
    BY <1>8 DEF ClosePartition
  <1>9. CASE ThreadEnds
    <2>1. /\ Running /\ ~Running'
          /\ UNCHANGED <<pc, op, stage, i, result, userAborted, errorsFound, shown>>
      BY <1>9 DEF ThreadEnds
    <2>2. /\ outcome' \in [Parts -> Outcomes]
          /\ \A p \in Parts : p # thread.mount => outcome'[p] = outcome[p]
          /\ thread.mount \in Parts /\ ~stopFlag => outcome'[thread.mount] \in Checked
      <3>1. CASE thread.mount = 0
        BY <1>9, <3>1 DEF ThreadEnds
      <3>2. CASE thread.mount # 0
        <4>1. PICK what \in (IF stopFlag THEN {"stopped"} ELSE Checked) :
                  outcome' = [outcome EXCEPT ![thread.mount] = what]
          BY <1>9, <3>2 DEF ThreadEnds, Checked
        <4>2. what \in Outcomes
          BY DEF Outcomes, Checked
        <4> QED
          BY <4>1, <4>2
      <3> QED
        BY <3>1, <3>2
    <2>3. op = "scan" /\ pc = "poll" => Counted(outcome', errorsFound', i') /\ outcome'[i] \in Checked
      <3> SUFFICES ASSUME op = "scan", pc = "poll"
                   PROVE  Counted(outcome', errorsFound', i') /\ outcome'[i] \in Checked
        OBVIOUS
      <3>1. /\ thread.mount = i /\ ~stopFlag /\ i \in Parts /\ Counted(outcome, errorsFound, i)
        BY <2>1
      <3>2. \A p \in Parts : p < i \/ p > i => outcome'[p] = outcome[p]
        BY <2>2, <3>1, PartsFacts
      <3>3. ErrorsBelow(outcome', i) = ErrorsBelow(outcome, i)
        BY <3>2 DEF ErrorsBelow
      <3> QED
        BY <2>1, <2>2, <3>1, <3>2, <3>3 DEF Counted
    <2> QED
      BY <2>1, <2>2, <2>3
  <1>10. CASE ThreadHangs
    <2>1. /\ Running /\ Running' /\ thread'.mount = thread.mount /\ stage \in {"fssk", "hdsk"}
          /\ UNCHANGED <<pc, op, stage, i, result, userAborted, errorsFound, shown, outcome>>
      BY <1>10 DEF ThreadHangs
    <2> QED
      BY <2>1
  <1> QED
    BY <1>1, <1>2, <1>3, <1>4, <1>5, <1>6, <1>7, <1>8, <1>9, <1>10

LEMMA MenuScan ==
  ASSUME ControlInv, SurfaceInv, ScanInv,
         Choose \/ Quit \/ PoweroffCallback \/ Message \/ Surface \/ SurfaceEnds \/ BackToMain
            \/ Release \/ CheckFormat \/ UNCHANGED vars
  PROVE  ScanInv'
  <1> USE NumPartitionsAssumption
      DEF ControlInv, SurfaceInv, ScanInv, Complete, Active, Idle, Running, Late, Parts, Ready, GoTo, AfterPhase, Second,
          Reboot, StartThread, NoThread, scanVars, surfaceVars, eeVars, iopVars
  <1>1. CASE Choose
    BY <1>1 DEF Choose
  <1>2. CASE Quit
    BY <1>2 DEF Quit
  <1>3. CASE PoweroffCallback
    BY <1>3 DEF PoweroffCallback
  <1>4. CASE Message
    BY <1>4 DEF Message
  <1>5. CASE Surface
    BY <1>5 DEF Surface
  <1>6. CASE SurfaceEnds
    BY <1>6 DEF SurfaceEnds
  <1>7. CASE BackToMain
    BY <1>7 DEF BackToMain
  <1>8. CASE Release
    <2>1. /\ pc' \in {"format", "menu"} /\ op' = "none" /\ i' = 1 /\ shown' = "nothing"
          /\ Untouched(outcome', errorsFound') /\ outcome' \in [Parts -> Outcomes]
      BY <1>8 DEF Release, SurfaceForgotten, Untouched, Outcomes
    <2> QED
      BY <2>1
  <1>9. CASE CheckFormat
    BY <1>9 DEF CheckFormat
  <1>10. CASE UNCHANGED vars
    BY <1>10 DEF vars
  <1> QED
    BY <1>1, <1>2, <1>3, <1>4, <1>5, <1>6, <1>7, <1>8, <1>9, <1>10

-----------------------------------------------------------------------------
(* Every step preserves the invariant.                                     *)

LEMMA InitHdd == Init => HddInv
  <1> SUFFICES ASSUME Init PROVE HddInv
    OBVIOUS
  <1>1. SurfaceInv
    BY DEF Init, SurfaceInit, SurfaceInv, Active, CompleteMeansAll
  <1>2. ControlInv
    BY NumPartitionsAssumption DEF Init, SurfaceInit, ControlInv, Active, Idle, Running, Late, NoThread
  <1>3. ScanInv
    BY NumPartitionsAssumption DEF Init, SurfaceInit, ScanInv, Idle, Outcomes, Untouched
  <1> QED
    BY <1>1, <1>2, <1>3 DEF HddInv

LEMMA SurfaceNext ==
  ASSUME SurfaceInv, ControlInv, [Next]_vars
  PROVE  SurfaceInv'
  <1>1. CASE UNCHANGED surfaceVars
    BY <1>1 DEF surfaceVars, scanVars, SurfaceInv, Known, Tried, CompleteMeansAll
  <1>2. CASE Choose
    BY <1>1, <1>2, StartSurfaceInv DEF Choose, ControlInv
  <1>3. CASE Surface
    BY <1>3, SurfaceStepInv DEF Surface
  <1>4. CASE SurfaceEnds
    <2>1. turn' = "idle" /\ UNCHANGED <<lba, remaining, bad, allowed, shown, zeroed>>
      BY <1>4 DEF SurfaceEnds
    <2> QED
      BY <2>1, SurfaceRests DEF Active, SurfaceInv, CompleteMeansAll
  <1>5. CASE Message
    <2>1. /\ pc = "message" /\ shown' \in {"fault", "nothing", "complete"}
          /\ UNCHANGED <<how, turn, lba, remaining, bad, allowed, zeroed>>
      BY <1>5 DEF Message
    <2> QED
      BY <2>1, SurfaceRests DEF ControlInv, CompleteMeansAll
  <1>6. CASE Release
    <2>1. SurfaceForgotten
      BY <1>6 DEF Release
    <2> QED
      BY <2>1 DEF SurfaceForgotten, SurfaceInv, Active, CompleteMeansAll
  <1>7. CASE LoadModules \/ BackToMain
    <2>1. turn \notin Active /\ UNCHANGED scanVars
      BY <1>7 DEF LoadModules, BackToMain, ControlInv
    <2> QED
      BY <2>1, SurfaceRests DEF scanVars, SurfaceInv, CompleteMeansAll
  <1> QED
    BY <1>1, <1>2, <1>3, <1>4, <1>5, <1>6, <1>7
    DEF Next, MainThread, User, vars, Quit, PoweroffCallback, ThreadEnds, ThreadHangs, HdskFails, LoadModules, Count,
        StartLog, StopLog, Hdck, ListPartitions, OpenPartition, OpenFails, PartitionsDone, Start,
        PollDone, Abort, Status, ClosePartition, StartHdsk, PollHdsk, AbortHdsk, BackToMain, CheckFormat

LEMMA NextHdd == HddInv /\ [Next]_vars => HddInv'
  <1> SUFFICES ASSUME SurfaceInv, ControlInv, ScanInv, [Next]_vars PROVE HddInv'
    BY DEF HddInv
  <1>1. SurfaceInv'
    BY SurfaceNext
  <1>2. ControlInv'
    BY PhaseControl, PartitionControl, MenuControl DEF Next, MainThread, User
  <1>3. ScanInv'
    BY PhaseScan, PartitionScan, MenuScan DEF Next, MainThread, User
  <1> QED
    BY <1>1, <1>2, <1>3 DEF HddInv

-----------------------------------------------------------------------------
(* The theorems.                                                           *)

\* At every point of every operation the surface scan, the threads and the
\* results are as HddInv says (main.c, system.c and their calls of the IOP).
THEOREM HddInductive == Spec => []HddInv
  BY InitHdd, NextHdd, PTL DEF Spec

\* SurfScanDisk says that it is complete only when every sector before the first
\* one that was to be remapped was read or passed over, and ZeroFillDisk only when
\* every sector was written: the runs and the modes of GetBadSectorAction lose none.
THEOREM ScanIsComplete == Spec => []CompleteMeansAll
  <1>1. HddInv => CompleteMeansAll
    BY DEF HddInv, SurfaceInv
  <1> QED
    BY <1>1, HddInductive, PTL

\* The scan never writes to a sector that can be read: the place that hdst
\* reports is the one that is remapped.
THEOREM ScanErasesOnlyBad == Spec => OnlyBadErased
  <1>1. HddInv /\ [Next]_vars => [how = "scan" => zeroed' \ zeroed \subseteq bad]_surfaceVars
    <2> SUFFICES ASSUME SurfaceInv, ControlInv, [Next]_vars, how = "scan"
                 PROVE  zeroed' \ zeroed \subseteq bad \/ UNCHANGED surfaceVars
      BY DEF HddInv
    <2>1. CASE Surface
      BY <2>1, SurfaceStepErases DEF Surface
    <2>2. CASE Choose
      BY <2>2 DEF Choose, StartSurface
    <2>3. CASE Release
      BY <2>3 DEF Release, SurfaceForgotten
    <2>4. CASE Message \/ SurfaceEnds \/ LoadModules \/ BackToMain
      BY <2>4 DEF Message, SurfaceEnds, LoadModules, BackToMain, scanVars
    <2> QED
      BY <2>1, <2>2, <2>3, <2>4
      DEF Next, MainThread, User, vars, Quit, PoweroffCallback, ThreadEnds, ThreadHangs, HdskFails, LoadModules, Count,
          StartLog, StopLog, Hdck, ListPartitions, OpenPartition, OpenFails, PartitionsDone, Start,
          PollDone, Abort, Status, ClosePartition, StartHdsk, PollHdsk, AbortHdsk, BackToMain, CheckFormat
  <1> QED
    BY <1>1, HddInductive, PTL DEF Spec, OnlyBadErased

\* A thread of the IOP that was not stopped keeps the mount it was given and
\* the power: FsckDisk, FsskDisk and HdskDisk wait for the signal of their own
\* thread, and PoweroffCallback for the end of the operation.
THEOREM ThreadsKeepTheirMount == Spec => []ThreadsUndisturbed
  <1>1. HddInv => ThreadsUndisturbed
    BY DEF HddInv, ControlInv, ThreadsUndisturbed, Running, Late, Idle
  <1> QED
    BY <1>1, HddInductive, PTL

\* The message at the end of ScanDisk counts every partition that had an error
\* or could not be opened, and is not shown if one was left out.
THEOREM ScanCountsErrors == Spec => []ResultsTrue
  <1>1. HddInv => ResultsTrue
    <2> SUFFICES ASSUME ScanInv, op = "scan", shown = "complete" PROVE ResultsTrue
      BY DEF HddInv, ResultsTrue
    <2>1. Complete
      BY DEF ScanInv
    <2>2. CASE Untouched(outcome, errorsFound)
      BY <2>2 DEF Untouched, ResultsTrue
    <2>3. CASE UpTo(outcome, errorsFound, NumPartitions + 1)
      <3>1. \A p \in Parts : p < NumPartitions + 1
        BY NumPartitionsAssumption DEF Parts
      <3>2. ErrorsBelow(outcome, NumPartitions + 1) = {p \in Parts : outcome[p] \in {"mended", "unopened"}}
        BY <3>1 DEF ErrorsBelow
      <3> QED
        BY <2>3, <3>1, <3>2 DEF UpTo, Counted, Checked, ResultsTrue
    <2> QED
      BY <2>1, <2>2, <2>3 DEF Complete
  <1> QED
    BY <1>1, HddInductive, PTL
=============================================================================
