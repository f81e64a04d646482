----------------------------- MODULE MCExamples ------------------------------
(* An operator and a result at a time; files of up to four rows.           *)
EXTENDS Examples

MCAddr  == 1 .. 2
MCCodes == {"OPENDAL_UNEXPECTED", "OPENDAL_NOT_FOUND"}
==============================================================================
