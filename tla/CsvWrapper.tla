----------------------------- MODULE CsvWrapper ------------------------------
(***************************************************************************)
(* The csv wrapper (lib/rust/csv-wrapper/src/lib.rs): a boxed reader over  *)
(* a file, and the strings it hands out, one per record.                   *)
(*                                                                         *)
(* The csv crate is external.  It takes the first row for the header and   *)
(* skips it, so that the rows here are those after it; a row of another    *)
(* length, or that is not UTF-8, is an error, after which it goes on; and  *)
(* an error of the file ends it.                                           *)
(***************************************************************************)
EXTENDS Naturals, Sequences

CONSTANTS
    MaxRows,    \* bound: rows of the file after its header
    NullPtr

Row == {"record", "malformed"}

ASSUME CsvAssumption == MaxRows \in Nat /\ NullPtr \notin Nat

VARIABLES
    rows,       \* the file
    at,         \* rows the csv crate has consumed
    broken,     \* a read of the file has failed
    reader,     \* csv::Reader: "none", or "open" while boxed
    strings,    \* CStrings not freed, by the row they hold
    record      \* what csv_reader_read_record returned last

csvVars == <<rows, at, broken, reader, strings, record>>

CsvInit ==
    /\ rows \in UNION {[1 .. n -> Row] : n \in 0 .. MaxRows}
    /\ at = 0 /\ broken = FALSE
    /\ reader = "none" /\ strings = {} /\ record = NullPtr

(* Null for a path that is null or not UTF-8, and if the file cannot be    *)
(* opened.                                                                 *)
csv_reader_new ==
    /\ reader' \in {"open", "none"}
    /\ UNCHANGED <<rows, at, broken, strings, record>>

csv_reader_free ==
    /\ reader' = "none"
    /\ UNCHANGED <<rows, at, broken, strings, record>>

(* Faulty variant: an error is passed over in favour of the next record.   *)
Malformed_Skips ==
    /\ ~broken /\ at + 1 < Len(rows)
    /\ rows[at + 1] = "malformed" /\ rows[at + 2] = "record"
    /\ at' = at + 2
    /\ record' = at + 2 /\ strings' = strings \cup {at + 2}
    /\ UNCHANGED broken

(* read_record returns an error, and the wrapper null.                     *)
Malformed ==
    /\ ~broken /\ at < Len(rows) /\ rows[at + 1] = "malformed"
    /\ at' = at + 1 /\ record' = NullPtr
    /\ UNCHANGED <<broken, strings>>

(* The record as a string of the caller's own.                             *)
Record ==
    /\ ~broken /\ at < Len(rows) /\ rows[at + 1] = "record"
    /\ at' = at + 1
    /\ record' = at + 1 /\ strings' = strings \cup {at + 1}
    /\ UNCHANGED broken

(* The end, also the one that follows an error of the file, is null too.   *)
AtEnd ==
    /\ broken \/ at = Len(rows)
    /\ record' = NullPtr
    /\ UNCHANGED <<at, broken, strings>>

FileFails ==
    /\ ~broken /\ broken' = TRUE
    /\ record' = NullPtr
    /\ UNCHANGED <<at, strings>>

(* A null reader fails the assertion: the caller sees to that.             *)
csv_reader_read_record ==
    /\ reader = "open"
    /\ Record \/ Malformed \/ AtEnd \/ FileFails
    /\ UNCHANGED <<rows, reader>>

(* Faulty variant: the string is not taken back from the caller.           *)
free_string_Forgets(s) == UNCHANGED csvVars

free_string(s) ==
    /\ strings' = strings \ {s}
    /\ UNCHANGED <<rows, at, broken, reader, record>>
==============================================================================
