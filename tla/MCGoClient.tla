------------------------------ MODULE MCGoClient ------------------------------
(* The Go client with a two-write request, a two-chunk body, a send buffer *)
(* of one unit and a timeout of two ticks.                                 *)
EXTENDS GoClient, TLC

CONSTANTS w1, w2, w3

MCWaker == {w1, w2, w3}
Wakers  == Permutations(MCWaker)
==============================================================================
