----------------------------- MODULE MCPfsFile -----------------------------
(* Small instances of PfsFile for TLC.                                      *)
EXTENDS PfsFile, TLC

TwoPartitions == (0 :> 7) @@ (1 :> 3)
SuperAndBitmap == (0 :> {0}) @@ (1 :> {0})
NamesOfTwoLengths == {"a", "b", "cc"}
NeedOf == ("" :> 1) @@ ("." :> 2) @@ (".." :> 2) @@ ("a" :> 2) @@ ("b" :> 2) @@ ("cc" :> 3)
=============================================================================
