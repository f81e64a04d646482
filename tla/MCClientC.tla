------------------------------ MODULE MCClientC ------------------------------
(* The C client with a two-write request, a two-chunk body and a send      *)
(* buffer of one unit: each direction blocks and is re-registered.         *)
EXTENDS ClientC, TLC

CONSTANTS w1, w2, w3

MCWaker == {w1, w2, w3}
Wakers  == Permutations(MCWaker)
==============================================================================
