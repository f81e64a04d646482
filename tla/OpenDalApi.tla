----------------------------- MODULE OpenDalApi ------------------------------
(***************************************************************************)
(* What the header of the OpenDAL binding promises its caller, with no     *)
(* memory behind it: a handle is a kind and what it says (an operator's    *)
(* configuration, an error's code), no call changes what another handle    *)
(* says, and a result holds a handle the caller did not have, or an error. *)
(***************************************************************************)
EXTENDS OpenDalTypes

CONSTANTS
    Config,     \* contents of options
    Codes,      \* codes the service answers with
    Nothing     \* what all the other handles say

VARIABLES handles, says, result

vars == <<handles, says, result>>

TypeOK ==
    /\ handles \in [Addr -> Kind \cup {"none"}]
    /\ says \in [Addr -> Config \cup Codes \cup {Nothing}]
    /\ result \in Results

Init ==
    /\ handles = [h \in Addr |-> "none"]
    /\ says = [h \in Addr |-> Nothing]
    /\ result = Void

Held(kind) == {h \in Addr : handles[h] = kind}

(* h becomes a handle of the caller's.                                     *)
Hand(kind, h, content) ==
    /\ handles[h] = "none"
    /\ handles' = [handles EXCEPT ![h] = kind]
    /\ says' = [says EXCEPT ![h] = content]

Error(h) == \E code \in Codes : Hand("error", h, code)

Keep == UNCHANGED <<handles, says>>

Status ==
    \/ Keep /\ result' = [error |-> Null]
    \/ \E h \in Addr : Error(h) /\ result' = [error |-> h]

-----------------------------------------------------------------------------
opendal_operator_options_new ==
    \E h \in Addr :
        Hand("options", h, Nothing) /\ result' = [options |-> h]

opendal_operator_options_set ==
    \E o \in Held("options"), c \in Config :
        /\ says' = [says EXCEPT ![o] = c]
        /\ result' = Void
        /\ UNCHANGED handles

(* With the options given, or with none.                                   *)
opendal_operator_new ==
    \E h \in Addr :
        \/ /\ \E c \in {Nothing} \cup {says[o] : o \in Held("options")} :
                 Hand("operator", h, c)
           /\ result' = [op |-> h, error |-> Null]
        \/ Error(h) /\ result' = [op |-> Null, error |-> h]

opendal_operator_info_new ==
    \E op \in Held("operator"), h \in Addr :
        Hand("info", h, says[op]) /\ result' = [info |-> h]

opendal_operator_write      == Held("operator") # {} /\ Status
opendal_operator_create_dir == Held("operator") # {} /\ Status
opendal_operator_delete     == Held("operator") # {} /\ Status
opendal_operator_copy       == Held("operator") # {} /\ Status
opendal_operator_rename     == Held("operator") # {} /\ Status

opendal_operator_is_exist ==
    /\ Held("operator") # {}
    /\ \/ Keep /\ result' \in [is_exist : BOOLEAN, error : {Null}]
       \/ \E h \in Addr :
             Error(h) /\ result' = [is_exist |-> FALSE, error |-> h]

opendal_operator_read ==
    /\ Held("operator") # {}
    /\ \E h \in Addr :
          \/ Hand("bytes", h, Nothing) /\ result' = [data |-> h, error |-> Null]
          \/ Error(h) /\ result' = [data |-> Null, error |-> h]

opendal_operator_stat ==
    /\ Held("operator") # {}
    /\ \E h \in Addr :
          \/ Hand("metadata", h, Nothing) /\ result' = [meta |-> h, error |-> Null]
          \/ Error(h) /\ result' = [meta |-> Null, error |-> h]

opendal_operator_reader ==
    /\ Held("operator") # {}
    /\ \E h \in Addr :
          \/ Hand("reader", h, Nothing) /\ result' = [reader |-> h, error |-> Null]
          \/ Error(h) /\ result' = [reader |-> Null, error |-> h]

opendal_operator_list ==
    /\ Held("operator") # {}
    /\ \E h \in Addr :
          \/ Hand("lister", h, Nothing) /\ result' = [lister |-> h, error |-> Null]
          \/ Error(h) /\ result' = [lister |-> Null, error |-> h]

opendal_lister_next ==
    /\ Held("lister") # {}
    /\ \/ Keep /\ result' = [entry |-> Null, error |-> Null]
       \/ \E h \in Addr :
             \/ Hand("entry", h, Nothing) /\ result' = [entry |-> h, error |-> Null]
             \/ Error(h) /\ result' = [entry |-> Null, error |-> h]

opendal_reader_read ==
    /\ Held("reader") # {}
    /\ \/ Keep /\ result' \in [size : {0, 1}, error : {Null}]
       \/ \E h \in Addr : Error(h) /\ result' = [size |-> 0, error |-> h]

opendal_entry_string ==
    /\ Held("entry") # {}
    /\ \E h \in Addr : Hand("string", h, Nothing) /\ result' = [string |-> h]

opendal_operator_info_string ==
    /\ Held("info") # {}
    /\ \E h \in Addr : Hand("string", h, Nothing) /\ result' = [string |-> h]

(* The free functions, and those that "do nothing" on null.                *)
Free ==
    \E h \in Addr :
        /\ handles[h] # "none"
        /\ handles' = [handles EXCEPT ![h] = "none"]
        /\ says' = [says EXCEPT ![h] = Nothing]
        /\ result' = Void

FreeNull == Keep /\ result' = Void

-----------------------------------------------------------------------------
Next == \/ opendal_operator_options_new \/ opendal_operator_options_set
        \/ opendal_operator_new \/ opendal_operator_info_new
        \/ opendal_operator_write \/ opendal_operator_create_dir
        \/ opendal_operator_delete \/ opendal_operator_copy
        \/ opendal_operator_rename \/ opendal_operator_is_exist
        \/ opendal_operator_read \/ opendal_operator_stat
        \/ opendal_operator_reader \/ opendal_operator_list
        \/ opendal_lister_next \/ opendal_reader_read
        \/ opendal_entry_string \/ opendal_operator_info_string
        \/ Free \/ FreeNull

Spec == Init /\ [][Next]_vars
==============================================================================
