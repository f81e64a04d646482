------------------------------ MODULE Examples -------------------------------
(***************************************************************************)
(* The example programs of the OpenDAL and csv bindings, each a sequential *)
(* caller of one of them: basic.c and error_handle.c on the memory service *)
(* of OpenDAL, and the csv readers test/main.c and csvdemo/csv.go.         *)
(*                                                                         *)
(* A failed assertion, in a program or in the wrapper, aborts.             *)
(***************************************************************************)
EXTENDS OpenDal, CsvWrapper

VARIABLES
    program,    \* "basic", "error_handle", "csv_c" or "csv_go"
    pc,         \* its next statement, or "done", or "aborted"
    stored,     \* there is something at the path the program reads
    r,          \* result of opendal_operator_read
    printed     \* rows printed

exampleVars == <<program, pc, stored, r, printed>>
allVars     == <<vars, csvVars, exampleVars>>

Memory == {"basic", "error_handle"}
Csv    == {"csv_c", "csv_go"}

ExamplesInit ==
    /\ Init /\ CsvInit
    /\ program \in Memory \cup Csv /\ pc = "start"
    /\ stored = FALSE /\ r = NoResult /\ printed = <<>>

(* assert(condition)                                                       *)
Assert(condition, next) == pc' = IF condition THEN next ELSE "aborted"

-----------------------------------------------------------------------------
(* basic.c and error_handle.c                                              *)

NewOperator ==
    /\ pc = "start" /\ program \in Memory
    /\ opendal_operator_new
    /\ Assert(ret'.val # Null /\ ret'.err = Null,
              IF program = "basic" THEN "write" ELSE "read")
    /\ UNCHANGED <<csvVars, program, stored, r, printed>>

Write ==
    /\ pc = "write"
    /\ opendal_operator_write
    /\ stored' = (ret'.err = Null)
    /\ Assert(ret'.err = Null, "read")
    /\ UNCHANGED <<csvVars, program, r, printed>>

(* The memory service finds what was written, unless it fails otherwise;   *)
(* the data are those written, and as long (basic.c 47).                   *)
ReadAnswer ==
    /\ ret'.err = Null => stored
    /\ (ret'.err # Null /\ content'[value'[ret'.err]] = "OPENDAL_NOT_FOUND") => ~stored

(* Faulty variant: the pointer is used without looking at the error.       *)
ReadExpected_Unchecked == TRUE

(* basic.c looks at the error only, error_handle.c at its code.            *)
ReadExpected ==
    \/ program = "basic" /\ ret'.err = Null
    \/ /\ program = "error_handle" /\ ret'.err # Null
       /\ content'[value'[ret'.err]] = "OPENDAL_NOT_FOUND"

Read ==
    /\ pc = "read" /\ program \in Memory
    /\ opendal_operator_read /\ ReadAnswer
    /\ r' = ret'
    /\ Assert(ReadExpected, "print")
    /\ UNCHANGED <<csvVars, program, stored, printed>>

(* basic.c prints the bytes and frees them.                                *)
PrintData ==
    /\ pc = "print" /\ program = "basic"
    /\ opendal_bytes_free
    /\ pc' = "close"
    /\ UNCHANGED <<csvVars, program, stored, r, printed>>

(* error_handle.c does the same with the error and its message.            *)
PrintMessage ==
    /\ pc = "print" /\ program = "error_handle"
    /\ opendal_error_free
    /\ pc' = "close"
    /\ UNCHANGED <<csvVars, program, stored, r, printed>>

FreeOperator ==
    /\ pc = "close" /\ program \in Memory
    /\ opendal_operator_free
    /\ pc' = "done"
    /\ UNCHANGED <<csvVars, program, stored, r, printed>>

-----------------------------------------------------------------------------
(* test/main.c and csvdemo/csv.go                                          *)

(* Faulty variant: neither program looks at the reader.                    *)
OpenFile_Unchecked ==
    /\ pc = "start" /\ program \in Csv
    /\ csv_reader_new
    /\ pc' = "read"
    /\ UNCHANGED <<vars, program, stored, r, printed>>

(* Only the C program looks at the reader.                                 *)
OpenFile ==
    /\ pc = "start" /\ program \in Csv
    /\ csv_reader_new
    /\ pc' = IF program = "csv_c" /\ reader' = "none" THEN "done" ELSE "read"
    /\ UNCHANGED <<vars, program, stored, r, printed>>

(* Faulty variant: a null is taken for a record to pass over.              *)
ReadRecord_Continues ==
    /\ pc = "read" /\ program \in Csv
    /\ csv_reader_read_record
    /\ pc' = IF record' = NullPtr THEN "read" ELSE "print"
    /\ UNCHANGED <<vars, program, stored, r, printed>>

ReadRecord ==
    /\ pc = "read" /\ program \in Csv
    /\ csv_reader_read_record
    /\ pc' = IF record' = NullPtr THEN "close" ELSE "print"
    /\ UNCHANGED <<vars, program, stored, r, printed>>

(* The assertion of csv_reader_read_record.                                *)
ReadOfNull ==
    /\ pc = "read" /\ program \in Csv /\ reader = "none"
    /\ pc' = "aborted"
    /\ UNCHANGED <<vars, csvVars, program, stored, r, printed>>

PrintRecord ==
    /\ pc = "print" /\ program \in Csv
    /\ printed' = Append(printed, record)
    /\ free_string(record)
    /\ pc' = "read"
    /\ UNCHANGED <<vars, program, stored, r>>

(* In Go, by defer.                                                        *)
FreeReader ==
    /\ pc = "close" /\ program \in Csv
    /\ csv_reader_free
    /\ pc' = "done"
    /\ UNCHANGED <<vars, program, stored, r, printed>>

-----------------------------------------------------------------------------
ExamplesNext ==
    \/ NewOperator \/ Write \/ Read \/ PrintData \/ PrintMessage \/ FreeOperator
    \/ OpenFile \/ ReadRecord \/ ReadOfNull \/ PrintRecord \/ FreeReader

ExamplesSpec ==
    ExamplesInit /\ [][ExamplesNext]_allVars /\ WF_allVars(ExamplesNext)

-----------------------------------------------------------------------------
(* What a program reads or prints through a pointer is there: basic.c      *)
(* looks at the error of a result and goes on to its data (basic.c 46-51), *)
(* error_handle.c the other way round (error_handle.c 36-42), and main.c   *)
(* and csv.go print a string that nobody has freed.                        *)
UsesWhatIsThere ==
    /\ (pc = "print" /\ program = "basic") => r.val \in Owned("bytes")
    /\ (pc = "print" /\ program = "error_handle") => r.err \in Owned("error")
    /\ (pc = "print" /\ program \in Csv) => record \in strings

(* A program that comes to its end has released everything (basic.c 55-59, *)
(* error_handle.c 45-49, main.c 10-12, csv.go 10-17).                      *)
ReleasesAll ==
    pc = "done" => live = {} /\ owned = {} /\ strings = {} /\ reader = "none"

(* No assertion fails on its own: a program of the memory service is       *)
(* aborted only on an error that a call has given it, and csv.go, which    *)
(* does not look at its reader, only when the file cannot be opened, with  *)
(* nothing printed and nothing left to release (basic.c 28-47,             *)
(* error_handle.c 29-37, csv.go 9-11, lib.rs 41, main.c 6).                *)
AbortsHaveACause ==
    pc = "aborted" =>
        \/ program \in Memory /\ Owned("error") # {}
        \/ program = "csv_go" /\ reader = "none" /\ strings = {} /\ printed = <<>>

(* A csv reader prints the records in order and without gaps, and if it    *)
(* does not print them all there is a reason: the wrapper gives null for   *)
(* three things (lib.rs 46-52), and the programs take each for the end.    *)
CutShortOnlyByError ==
    /\ \A i \in DOMAIN printed : printed[i] = i /\ rows[i] = "record"
    /\ (program \in Csv /\ pc = "close" /\ Len(printed) < Len(rows)) =>
          broken \/ rows[Len(printed) + 1] = "malformed"

(* Every program ends, whatever fails: the loops over the records end with *)
(* the file (main.c 8-11, csv.go 11-18).                                   *)
Ends == <>(pc \in {"done", "aborted"})
==============================================================================
