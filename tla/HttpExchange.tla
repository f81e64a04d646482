----------------------------- MODULE HttpExchange -----------------------------
(***************************************************************************)
(* What an HTTP client program of this repository promises, whatever its  *)
(* event loop does inside: the request goes out, the response head comes  *)
(* back, the body arrives chunk by chunk, and the exchange is reported    *)
(* complete only when all of the body has been taken.  It may be given up *)
(* at any point, and it is decided one way or the other in the end.       *)
(***************************************************************************)
EXTENDS Naturals

CONSTANT BodyUnits      \* chunks of the response body

VARIABLES phase, body

vars == <<phase, body>>

Phases == {"connecting", "awaiting", "receiving", "complete", "failed"}

TypeOK == phase \in Phases /\ body \in 0 .. BodyUnits

Init == phase = "connecting" /\ body = 0

Request ==
    /\ phase = "connecting" /\ phase' = "awaiting"
    /\ UNCHANGED body

Response ==
    /\ phase = "awaiting" /\ phase' = "receiving"
    /\ UNCHANGED body

Chunk ==
    /\ phase = "receiving" /\ body < BodyUnits
    /\ body' = body + 1
    /\ UNCHANGED phase

Complete ==
    /\ phase = "receiving" /\ body = BodyUnits
    /\ phase' = "complete"
    /\ UNCHANGED body

Fail ==
    /\ phase \in {"connecting", "awaiting", "receiving"}
    /\ phase' = "failed"
    /\ UNCHANGED body

Next == Request \/ Response \/ Chunk \/ Complete \/ Fail

(* The safety part, and the promise that every exchange gets decided.      *)
SafeSpec == Init /\ [][Next]_vars
Spec     == SafeSpec /\ WF_vars(Next)
==============================================================================
