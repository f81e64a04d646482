------------------------------ MODULE MCUploadC -------------------------------
(* The upload of a file of two reads, with a two-chunk response and a send *)
(* buffer of one unit.                                                     *)
EXTENDS UploadC, TLC

CONSTANTS w1, w2, w3

MCWaker == {w1, w2, w3}
Wakers  == Permutations(MCWaker)
==============================================================================
