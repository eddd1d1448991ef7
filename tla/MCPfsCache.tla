----------------------------- MODULE MCPfsCache -----------------------------
(* Small instances of PfsCache for TLC.                                     *)
EXTENDS PfsCache

NoFault == {}
Symmetry == Permutations(Blocks) \cup Permutations(Vals)
=============================================================================
