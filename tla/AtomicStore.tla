---------------------------- MODULE AtomicStore ----------------------------
(***************************************************************************)
(* What libapa promises of its headers: a store that survives a loss of    *)
(* power and a copy in memory.  The copy is changed one header at a time;  *)
(* a flush moves every change into the store at once, and has done so when *)
(* it returns; a crash loses the copy and nothing else.                    *)
(***************************************************************************)
CONSTANTS Headers,  \* the addresses of the partition headers
          Content   \* what a header can hold

VARIABLES store,    \* what a restart finds
          mem,      \* what the program sees
          flushing  \* a flush is under way

aVars == <<store, mem, flushing>>

AInit ==
    /\ store \in [Headers -> Content]
    /\ mem = store
    /\ flushing = FALSE

\* The program changes a header in memory.
AModify ==
    /\ ~flushing
    /\ \E h \in Headers, c \in Content : mem' = [mem EXCEPT ![h] = c]
    /\ UNCHANGED <<store, flushing>>

ABegin ==
    /\ ~flushing
    /\ flushing' = TRUE
    /\ UNCHANGED <<store, mem>>

\* Every change reaches the store in one step.
ACommit ==
    /\ flushing
    /\ store' = mem
    /\ UNCHANGED <<mem, flushing>>

\* A flush returns only when the store holds what the program sees.
AEnd ==
    /\ flushing
    /\ store = mem
    /\ flushing' = FALSE
    /\ UNCHANGED <<store, mem>>

\* The copy is lost, with every change that was not committed.
ACrash ==
    /\ mem' = store
    /\ flushing' = FALSE
    /\ UNCHANGED store

ANext == AModify \/ ABegin \/ ACommit \/ AEnd \/ ACrash

ASpec == AInit /\ [][ANext]_aVars
=============================================================================
