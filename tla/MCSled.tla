-------------------------------- MODULE MCSled --------------------------------
(* Three callers on one key, with at most two resets: one that makes a new *)
(* actual_val for each call, one that keeps using the same, and one that   *)
(* asks for no actual value.                                               *)
EXTENDS Sled, TLC

CONSTANTS c1, c2, c3, b1, b2, b3, b4, b5

MCCaller == {c1, c2, c3}
MCBuf    == {b1, b2, b3, b4, b5}   \* two for each caller that asks
MCAsks   == {c1, c2}
MCReuses == {c2}
Nobody   == {}
Buffers  == Permutations(MCBuf)
==============================================================================
