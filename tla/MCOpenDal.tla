------------------------------ MODULE MCOpenDal -------------------------------
(* Three handles at a time: an operator, a lister and an entry; or, once   *)
(* the operator is freed, a lister, its entry and the entry's name.        *)
EXTENDS OpenDal

MCAddr    == 1 .. 3
MCCodes   == {"OPENDAL_UNEXPECTED", "OPENDAL_NOT_FOUND"}
Tolerant  == {"bytes", "error", "reader", "entry"}
Operators == {"operator"}
==============================================================================
