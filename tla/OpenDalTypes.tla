---------------------------- MODULE OpenDalTypes -----------------------------
(***************************************************************************)
(* The types of the OpenDAL binding as its header (opendal_c.h) declares   *)
(* them: the kinds of handle, the error codes, and the structs that the    *)
(* calls return.  A size stands for "none" (0) or "some" (1).              *)
(***************************************************************************)
EXTENDS Naturals

CONSTANTS
    Addr,       \* what a pointer may point to
    Null

Kind == {"options", "operator", "bytes", "error", "metadata", "reader",
         "lister", "entry", "info", "string"}

opendal_code ==
    {"OPENDAL_UNEXPECTED", "OPENDAL_UNSUPPORTED", "OPENDAL_CONFIG_INVALID",
     "OPENDAL_NOT_FOUND", "OPENDAL_PERMISSION_DENIED",
     "OPENDAL_IS_A_DIRECTORY", "OPENDAL_NOT_A_DIRECTORY",
     "OPENDAL_ALREADY_EXISTS", "OPENDAL_RATE_LIMITED",
     "OPENDAL_IS_SAME_FILE", "OPENDAL_CONDITION_NOT_MATCH",
     "OPENDAL_RANGE_NOT_SATISFIED"}

Ptr == Addr \cup {Null}

opendal_result_operator_new    == [op : Ptr, error : Ptr]
opendal_result_read            == [data : Ptr, error : Ptr]
opendal_result_operator_reader == [reader : Ptr, error : Ptr]
opendal_result_is_exist        == [is_exist : BOOLEAN, error : Ptr]
opendal_result_stat            == [meta : Ptr, error : Ptr]
opendal_result_list            == [lister : Ptr, error : Ptr]
opendal_result_lister_next     == [entry : Ptr, error : Ptr]
opendal_result_reader_read     == [size : {0, 1}, error : Ptr]

(* The calls that return no struct return a pointer: to an error, or to    *)
(* what they make.                                                         *)
Pointer == [error : Ptr] \cup [options : Addr] \cup [info : Addr] \cup [string : Addr]

(* A free function returns nothing.                                        *)
Void == [void |-> Null]

Results == opendal_result_operator_new \cup opendal_result_read
           \cup opendal_result_operator_reader \cup opendal_result_is_exist
           \cup opendal_result_stat \cup opendal_result_list
           \cup opendal_result_lister_next \cup opendal_result_reader_read
           \cup Pointer \cup {Void}
==============================================================================
