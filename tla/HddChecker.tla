----------------------------- MODULE HddChecker -----------------------------
(***************************************************************************)
(* The program of the EE: the menu, the operations it offers, the reboots  *)
(* of the IOP between their phases, and the power button, whose callback   *)
(* is another thread.  fsck, fssk and hdsk work in a thread of the IOP     *)
(* that the EE starts, polls by an event flag, stops and asks for its      *)
(* status.  What these threads do to the drive is Fsck, Fssk and Hdsk.     *)
(*                                                                         *)
(* A reboot of the IOP takes its threads, open files and event flags away. *)
(***************************************************************************)
EXTENDS SurfaceScan, Sequences

CONSTANT NumPartitions \* main partitions with a PFS filesystem on the drive

Parts == 1 .. NumPartitions
ASSUME NumPartitionsAssumption == NumPartitions \in Nat \ {0}

VARIABLES
    pc, op, stage,  \* where the main thread is, what the user chose, its phase
    i,              \* the partition that is looked at
    result, userAborted, errorsFound,
    lock,           \* who has InstallLockSema
    power,
    mods,           \* the modules the IOP runs
    log,            \* the log file of hdlog is open
    mount,          \* MainPFSMount of fsck or fssk: its partition, 0 if closed
    thread,         \* the thread of fsck, fssk or hdsk, and the mount it was given
    stopFlag, event,
    hdskStatus,
    outcome         \* of each partition: what came of its check

eeVars  == <<pc, op, stage, i, result, userAborted, errorsFound>>
iopVars == <<mods, log, mount, thread, stopFlag, event, hdskStatus>>
vars == <<surfaceVars, eeVars, lock, power, iopVars, outcome>>

NoThread == [state |-> "dormant", mount |-> 0]

Init ==
    /\ SurfaceInit
    /\ pc = "menu" /\ op = "none" /\ stage = "none" /\ i = 1 /\ result = 0 /\ userAborted = FALSE
    /\ errorsFound = 0 /\ lock = "free" /\ power = "on"
    /\ mods = "main" /\ log = FALSE /\ mount = 0 /\ thread = NoThread
    /\ stopFlag = FALSE /\ event = FALSE /\ hdskStatus = 0
    /\ outcome = [p \in Parts |-> "unchecked"]

-----------------------------------------------------------------------------
(* The menu, the lock and the power button.                                *)

\* WaitSema(InstallLockSema)
Choose ==
    /\ pc = "menu" /\ lock = "free" /\ lock' = "main"
    /\ \/ op' = "scan"     /\ stage' = "hdck" /\ pc' = "reset"   /\ UNCHANGED surfaceVars
       \/ op' = "optimize" /\ stage' = "fssk" /\ pc' = "reset"   /\ UNCHANGED surfaceVars
       \/ op' = "surface"  /\ stage' = "none" /\ pc' = "surface" /\ StartSurface("scan")
       \/ op' = "fill"     /\ stage' = "none" /\ pc' = "surface" /\ StartSurface("zero")
    /\ UNCHANGED <<i, result, errorsFound, outcome, userAborted, power, iopVars>>

Quit ==
    /\ pc = "menu" /\ pc' = "exit"
    /\ UNCHANGED <<surfaceVars, op, stage, i, result, userAborted, errorsFound, lock, power, iopVars, outcome>>

\* PollSema(InstallLockSema): while an operation has it the button is ignored.
PoweroffCallback ==
    /\ power = "on" /\ lock = "free" /\ lock' = "callback" /\ power' = "off"
    /\ UNCHANGED <<surfaceVars, eeVars, iopVars, outcome>>

-----------------------------------------------------------------------------
(* The IOP.                                                                *)

\* SifIopReset, the modules of the next phase, and fileXioInit, which sets FXIO_WAIT.
Reboot(set) ==
    /\ mods' = set /\ log' = FALSE /\ mount' = 0 /\ thread' = NoThread
    /\ stopFlag' = FALSE /\ event' = FALSE /\ hdskStatus' = 0 /\ wait' = TRUE

\* A slip: a thread that gives up leaves without a signal.
ThreadEnds_Silent ==
    /\ thread.state = "running" /\ power = "on"
    /\ thread' = NoThread
    /\ IF thread.mount = 0 THEN UNCHANGED <<outcome, event>>
       ELSE \E what \in IF stopFlag THEN {"stopped"} ELSE {"sound", "mended", "gave up"} :
                outcome' = [outcome EXCEPT ![thread.mount] = what] /\ event' = (what # "gave up")
    /\ UNCHANGED <<surfaceVars, eeVars, lock, power, mods, log, mount, stopFlag, hdskStatus>>

\* SetEventFlag is the last thing a thread does; it returns before the module is
\* called again.
ThreadEnds ==
    /\ thread.state = "running" /\ power = "on"
    /\ thread' = NoThread /\ event' = TRUE
    /\ IF thread.mount = 0 THEN UNCHANGED outcome
       ELSE \E what \in IF stopFlag THEN {"stopped"} ELSE {"sound", "mended", "gave up"} :
                outcome' = [outcome EXCEPT ![thread.mount] = what]
    /\ UNCHANGED <<surfaceVars, eeVars, lock, power, mods, log, mount, stopFlag, hdskStatus>>

\* fsskCalcLastSub of fssk and SplitEmptyPartition of hdsk may never return (see Fssk
\* and Hdsk); the thread looks at no flag then, and only a reboot ends it.
ThreadHangs ==
    /\ thread.state = "running" /\ power = "on" /\ stage \in {"fssk", "hdsk"}
    /\ thread' = [thread EXCEPT !.state = "hung"]
    /\ UNCHANGED <<surfaceVars, eeVars, lock, power, mods, log, mount, stopFlag, event, hdskStatus, outcome>>

\* hdskStatus, which the EE may read before the thread ends.
HdskFails ==
    /\ thread.state = "running" /\ mods = "hdsk" /\ hdskStatus = 0 /\ hdskStatus' = -1
    /\ UNCHANGED <<surfaceVars, eeVars, lock, power, mods, log, mount, thread, stopFlag, event, outcome>>

-----------------------------------------------------------------------------
(* The phases: HdckDisk, FsckDisk, FsskDisk, HdskDisk.                     *)

Ready == power = "on"
GoTo(where) == pc' = where

\* IopInitStart
LoadModules ==
    /\ pc = "reset" /\ Ready /\ Reboot(stage) /\ i' = 1
    /\ GoTo(IF stage \in {"fsck", "fssk"} THEN "count" ELSE "log")
    /\ UNCHANGED <<scanVars, op, stage, result, userAborted, errorsFound, lock, power, outcome>>

\* What ScanDisk and OptimizeDisk do after a phase.
Second == CASE stage = "hdck" -> "fsck" [] stage = "fssk" -> "hdsk" [] OTHER -> "none"
AfterPhase ==
    IF result' = 0 /\ ~userAborted' /\ Second # "none"
    THEN stage' = Second /\ GoTo("reset") ELSE stage' = "none" /\ GoTo("message")

\* The partitions are counted; on a drive that cannot be listed there are none,
\* and that is no error.
Count ==
    /\ pc = "count" /\ Ready
    /\ \/ GoTo("log") /\ UNCHANGED <<stage, result, userAborted>>
       \/ result' = 0 /\ userAborted' = userAborted /\ AfterPhase
    /\ UNCHANGED <<surfaceVars, op, i, errorsFound, lock, power, iopVars, outcome>>

\* IopStartLog
StartLog ==
    /\ pc = "log" /\ Ready /\ log' = TRUE
    /\ GoTo(CASE stage = "hdck" -> "devctl" [] stage = "hdsk" -> "startHdsk" [] OTHER -> "list")
    /\ UNCHANGED <<surfaceVars, op, stage, i, result, userAborted, errorsFound, lock, power, mods, mount, thread,
                   stopFlag, event, hdskStatus, outcome>>

\* IopStopLog, and back to ScanDisk or OptimizeDisk
StopLog ==
    /\ pc = "endlog" /\ Ready /\ log' = FALSE /\ UNCHANGED <<result, userAborted>> /\ AfterPhase
    /\ UNCHANGED <<surfaceVars, op, i, errorsFound, lock, power, mods, mount, thread, stopFlag, event, hdskStatus, outcome>>

\* The devctl of hdck returns when its check is done.
Hdck ==
    /\ pc = "devctl" /\ Ready /\ result' \in {0, -1} /\ GoTo("endlog")
    /\ UNCHANGED <<surfaceVars, op, stage, i, userAborted, errorsFound, lock, power, iopVars, outcome>>

ListPartitions ==
    /\ pc = "list" /\ Ready
    /\ \/ GoTo("open") /\ UNCHANGED result
       \/ GoTo("endlog") /\ result' = -1
    /\ UNCHANGED <<surfaceVars, op, stage, i, userAborted, errorsFound, lock, power, iopVars, outcome>>

OpenPartition ==
    /\ pc = "open" /\ i \in Parts /\ Ready /\ mount = 0 /\ mount' = i /\ GoTo("start")
    /\ UNCHANGED <<surfaceVars, op, stage, i, result, userAborted, errorsFound, lock, power, mods, log, thread,
                   stopFlag, event, hdskStatus, outcome>>

\* A slip: a partition that cannot be opened is passed over.
OpenFails_Ignored ==
    /\ pc = "open" /\ i \in Parts /\ Ready /\ i' = i + 1
    /\ outcome' = [outcome EXCEPT ![i] = "unopened"] /\ UNCHANGED <<result, errorsFound>>
    /\ UNCHANGED <<surfaceVars, pc, op, stage, userAborted, lock, power, iopVars>>

\* The rest of the drive is looked at all the same.
OpenFails ==
    /\ pc = "open" /\ i \in Parts /\ Ready /\ i' = i + 1 /\ result' = -1
    /\ errorsFound' = IF stage = "fsck" THEN errorsFound + 1 ELSE errorsFound
    /\ outcome' = [outcome EXCEPT ![i] = "unopened"]
    /\ UNCHANGED <<surfaceVars, pc, op, stage, userAborted, lock, power, iopVars>>

PartitionsDone ==
    /\ pc = "open" /\ i \notin Parts /\ Ready /\ GoTo("endlog")
    /\ UNCHANGED <<surfaceVars, op, stage, i, result, userAborted, errorsFound, lock, power, iopVars, outcome>>

StartThread(m) == thread.state = "dormant" /\ thread' = [state |-> "running", mount |-> m]

Start ==
    /\ pc = "start" /\ Ready
    /\ \/ StartThread(mount) /\ result' = 0 /\ GoTo("poll")
       \/ UNCHANGED thread /\ result' = -1 /\ GoTo("close")
    /\ UNCHANGED <<surfaceVars, op, stage, i, userAborted, errorsFound, lock, power, mods, log, mount,
                   stopFlag, event, hdskStatus, outcome>>

\* A slip: the loop is left at the first poll.
PollDone_Once ==
    /\ pc = "poll" /\ Ready /\ event' = FALSE /\ GoTo("status")
    /\ UNCHANGED <<surfaceVars, op, stage, i, result, userAborted, errorsFound, lock, power, mods, log, mount, thread,
                   stopFlag, hdskStatus, outcome>>

PollDone ==
    /\ pc = "poll" /\ Ready /\ event /\ event' = FALSE /\ GoTo("status")
    /\ UNCHANGED <<surfaceVars, op, stage, i, result, userAborted, errorsFound, lock, power, mods, log, mount, thread,
                   stopFlag, hdskStatus, outcome>>

\* The user presses cancel: STOP, and the loop is left without another poll.
Abort ==
    /\ pc = "poll" /\ Ready /\ ~event /\ stopFlag' = TRUE /\ userAborted' = TRUE /\ result' = 0 /\ GoTo("status")
    /\ UNCHANGED <<surfaceVars, op, stage, i, errorsFound, lock, power, mods, log, mount, thread, event,
                   hdskStatus, outcome>>

\* GET_STATUS.  The status of fssk tells whether it failed, that of fsck only how
\* many errors there were.
Status ==
    /\ pc = "status" /\ Ready
    /\ \/ result' = -1 /\ GoTo("close") /\ UNCHANGED errorsFound
       \/ /\ result' = IF stage = "fssk" /\ outcome[i] = "gave up" THEN -1 ELSE 0
          /\ GoTo(IF result' # 0 \/ userAborted THEN "close" ELSE "next")
          /\ errorsFound' = IF stage = "fsck" /\ ~userAborted /\ outcome[i] = "mended" THEN errorsFound + 1 ELSE errorsFound
    /\ UNCHANGED <<surfaceVars, op, stage, i, userAborted, lock, power, iopVars, outcome>>

\* FsckClose, FsskClose: the mount is cleared.
ClosePartition ==
    /\ pc \in {"close", "next"} /\ Ready /\ mount' = 0
    /\ IF pc = "next" THEN i' = i + 1 /\ GoTo("open") ELSE GoTo("endlog") /\ UNCHANGED i
    /\ UNCHANGED <<surfaceVars, op, stage, result, userAborted, errorsFound, lock, power, mods, log, thread,
                   stopFlag, event, hdskStatus, outcome>>

\* HDSK_DEVCTL_GET_HDD_STAT and HDSK_DEVCTL_START
StartHdsk ==
    /\ pc = "startHdsk" /\ Ready
    /\ \/ StartThread(0) /\ result' = 0 /\ GoTo("pollHdsk")
       \/ UNCHANGED thread /\ result' \in {0, -1} /\ GoTo("endlog")
    /\ UNCHANGED <<surfaceVars, op, stage, i, userAborted, errorsFound, lock, power, mods, log, mount,
                   stopFlag, event, hdskStatus, outcome>>

\* The status is read after a poll that found the thread at work, never after the
\* last one.
PollHdsk ==
    /\ pc = "pollHdsk" /\ Ready /\ (event \/ hdskStatus # 0) /\ event' = FALSE
    /\ result' = IF event THEN 0 ELSE hdskStatus
    /\ GoTo("endlog")
    /\ UNCHANGED <<surfaceVars, op, stage, i, userAborted, errorsFound, lock, power, mods, log, mount, thread,
                   stopFlag, hdskStatus, outcome>>

AbortHdsk ==
    /\ pc = "pollHdsk" /\ Ready /\ ~event /\ stopFlag' = TRUE /\ userAborted' = TRUE /\ result' = 0 /\ GoTo("endlog")
    /\ UNCHANGED <<surfaceVars, op, stage, i, errorsFound, lock, power, mods, log, mount, thread, event,
                   hdskStatus, outcome>>

-----------------------------------------------------------------------------
(* The end of an operation.                                                *)

Message ==
    /\ pc = "message" /\ Ready
    /\ shown' = IF result # 0 THEN "fault" ELSE IF userAborted THEN "nothing" ELSE "complete"
    /\ GoTo("back")
    /\ UNCHANGED <<how, turn, bad, zeroed, lba, remaining, numBad, retry, mode, answer, allowed, wait, op, stage, i,
                   result, userAborted, errorsFound, lock, power, iopVars, outcome>>

Surface ==
    /\ pc = "surface" /\ Ready /\ SurfaceStep
    /\ UNCHANGED <<eeVars, lock, power, iopVars, outcome>>
SurfaceEnds ==
    /\ pc = "surface" /\ Ready /\ turn = "ended" /\ turn' = "idle" /\ GoTo("back")
    /\ UNCHANGED <<how, bad, zeroed, lba, remaining, numBad, retry, mode, answer, allowed, shown, wait, op, stage, i,
                   result, userAborted, errorsFound, lock, power, iopVars, outcome>>

\* The IOP is rebooted with the modules of the menu, whatever it still does.
BackToMain ==
    /\ pc = "back" /\ Ready /\ Reboot("main") /\ GoTo("release")
    /\ UNCHANGED <<scanVars, op, stage, i, result, userAborted, errorsFound, lock, power, outcome>>

\* What the operation kept to itself is gone; userAborted is not.
Release ==
    /\ pc = "release" /\ Ready /\ lock' = "free" /\ GoTo(IF op = "fill" THEN "format" ELSE "menu")
    /\ op' = "none" /\ stage' = "none" /\ i' = 1 /\ result' = 0 /\ errorsFound' = 0
    /\ outcome' = [p \in Parts |-> "unchecked"] /\ SurfaceForgotten
    /\ UNCHANGED <<userAborted, power, iopVars>>

\* After a zero fill the user is asked to format the drive; the lock is not taken.
CheckFormat ==
    /\ pc = "format" /\ Ready /\ pc' \in {"menu", "exit"}
    /\ UNCHANGED <<surfaceVars, op, stage, i, result, userAborted, errorsFound, lock, power, iopVars, outcome>>

MainThread ==
    \/ LoadModules \/ Count \/ StartLog \/ StopLog \/ Hdck \/ ListPartitions \/ OpenPartition \/ OpenFails
    \/ PartitionsDone \/ Start \/ PollDone \/ Status \/ ClosePartition \/ StartHdsk \/ PollHdsk
    \/ Message \/ Surface \/ SurfaceEnds \/ BackToMain \/ Release \/ CheckFormat

User == Choose \/ Quit \/ Abort \/ AbortHdsk
Next == MainThread \/ User \/ ThreadEnds \/ ThreadHangs \/ HdskFails \/ PoweroffCallback

Spec == Init /\ [][Next]_vars

\* The main thread runs whenever it is not waiting, and the user answers what is asked.
\* A thread of the IOP that does not hang ends.
FairSpec == Spec /\ WF_vars(MainThread) /\ WF_vars(ThreadEnds \/ ThreadHangs)

-----------------------------------------------------------------------------

\* A thread of the IOP works on the mount it was given, with the console on, as long as
\* the user does not stop it: no signal of an earlier thread ends the wait for it, and
\* the power button is heard only when no operation is under way.
ThreadsUndisturbed ==
    thread.state # "dormant" => power = "on" /\ (stopFlag \/ mount = thread.mount)

\* The results that a scan shows count every partition in which an error was found
\* and every one that could not be opened, and no other; none is left out.
ResultsTrue ==
    op = "scan" /\ shown = "complete" =>
        \/ \A p \in Parts : outcome[p] = "unchecked"
        \/ /\ \A p \in Parts : outcome[p] \in {"sound", "mended", "gave up", "unopened"}
           /\ errorsFound = Cardinality({p \in Parts : outcome[p] \in {"mended", "unopened"}})

\* Every operation ends, be its result an error or not, and the lock is free again,
\* unless a thread of fssk or hdsk never returns and the user does not cancel.
OperationEnds ==
    lock = "main" ~> (lock # "main" \/ (thread.state = "hung" /\ pc \in {"poll", "pollHdsk"}))

\* README-fsck, README-fssk: after STOP "termination must be confirmed" by WAIT or
\* POLL: a mount is not closed before the thread that uses it has ended.
MountOutlivesThread == thread.state = "running" => mount = thread.mount

=============================================================================
