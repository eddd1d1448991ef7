---------------------------- MODULE MCApaJournal ----------------------------
(* Small instances of ApaJournal for TLC.                                   *)
EXTENDS ApaJournal

NoFault == {}

\* Any transfer of apaCacheFlushAllDirty may fail.
FlushFaults ==
    {"commit"} \X {"log", "barrier1", "sector", "barrier2", "write"}
    \cup {"reset"} \X {"barrier1", "sector", "barrier2"}

\* A slot cannot be read, or a header cannot be written, during recovery.
ReplayFaults == {<<"restore", "replay">>}
=============================================================================
