---------------------------- MODULE MCSledHandles -----------------------------
(* Six addresses: a configuration or database, a path, an iterator and a   *)
(* pair at once, and one to spare.                                         *)
EXTENDS SledHandles, TLC

CONSTANTS a1, a2, a3, a4, a5, a6

MCAddr   == {a1, a2, a3, a4, a5, a6}
Symmetry == Permutations(MCAddr)
==============================================================================
