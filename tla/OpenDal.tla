------------------------------- MODULE OpenDal --------------------------------
(***************************************************************************)
(* The C binding of OpenDAL (lib/rust/opendal/bindings/c/src), which the   *)
(* Go package rust/opendal links to: what every call allocates, returns    *)
(* and releases, for a caller that frees its handles in any order, also    *)
(* the operator before what was made with it.                              *)
(*                                                                         *)
(* Every handle but a string is two boxes, a C struct and the Rust value   *)
(* it points to.  Of the values, an option map (of one key), what an       *)
(* operator and its info took from it, and the code of an error have a     *)
(* content.  The service behind an operator is external: every call the    *)
(* binding forwards to it may fail.                                        *)
(***************************************************************************)
EXTENDS OpenDalTypes, FiniteSets

CONSTANTS
    Config,     \* values of the option
    Codes,      \* codes the service answers with
    Nothing,
    MaxLeft,    \* bound: entries of a lister, chunks of a reader
    Unchecked   \* kinds the caller frees without looking at the pointer

ASSUME OpenDalAssumption ==
    /\ Null \notin Addr /\ Null # "some" /\ IsFiniteSet(Addr)
    /\ "OPENDAL_UNEXPECTED" \in Codes /\ Codes \subseteq opendal_code
    /\ MaxLeft \in Nat /\ Unchecked \subseteq Kind

VARIABLES
    struct,     \* the kind of struct at an address, or "free"
    value,      \* the value that the struct at an address points to
    live,       \* values that have not been freed
    content,    \* what the value at an address says
    left,       \* entries a lister, or chunks a reader, has left
    owned,      \* handles the caller was given and has not freed
    ret,        \* what the last call returned
    crashed     \* the process has dereferenced a null pointer

vars == <<struct, value, live, content, left, owned, ret, crashed>>

NoResult == [fn |-> "none", on |-> Null, val |-> Null, err |-> Null]

(* The struct that the header declares for what a call returned.           *)
HeaderResult(r) ==
    [operator   |-> [op |-> r.val, error |-> r.err],
     bytes      |-> [data |-> r.val, error |-> r.err],
     reader     |-> [reader |-> r.val, error |-> r.err],
     metadata   |-> [meta |-> r.val, error |-> r.err],
     lister     |-> [lister |-> r.val, error |-> r.err],
     next       |-> [entry |-> r.val, error |-> r.err],
     exist      |-> [is_exist |-> r.val # Null, error |-> r.err],
     read       |-> [size |-> IF r.val = Null THEN 0 ELSE 1, error |-> r.err],
     empty_read |-> [size |-> 0, error |-> r.err],
     status     |-> [error |-> r.err],
     options    |-> [options |-> r.val],
     info       |-> [info |-> r.val],
     string     |-> [string |-> r.val],
     none       |-> Void][r.fn]

apiResult == HeaderResult(ret)

TypeOK ==
    /\ struct \in [Addr -> Kind \cup {"free"}]
    /\ value \in [Addr -> Addr \cup {Null}]
    /\ content \in [Addr -> Config \cup Codes \cup {Nothing}]
    /\ left \in [Addr -> 0 .. MaxLeft]
    /\ live \subseteq Addr /\ owned \subseteq Addr
    /\ ret.on \in Ptr /\ apiResult \in Results
    /\ crashed \in BOOLEAN

Init ==
    /\ struct = [a \in Addr |-> "free"]
    /\ value = [a \in Addr |-> Null] /\ left = [a \in Addr |-> 0]
    /\ content = [a \in Addr |-> Nothing]
    /\ live = {} /\ owned = {} /\ ret = NoResult /\ crashed = FALSE

Owned(kind) == {a \in owned : struct[a] = kind}

-----------------------------------------------------------------------------
(* Box::into_raw: what is new takes the place of something freed.          *)

FreeStructs == {a \in Addr : struct[a] = "free"}
Struct      == CHOOSE a \in FreeStructs : TRUE
Value       == CHOOSE v \in Addr \ live : TRUE

(* A struct of the given kind and the value inside, with its content.      *)
Boxes(kind, c) ==
    /\ FreeStructs # {} /\ live # Addr
    /\ struct' = [struct EXCEPT ![Struct] = kind]
    /\ value' = [value EXCEPT ![Struct] = Value]
    /\ live' = live \cup {Value}
    /\ content' = [content EXCEPT ![Value] = c]
    /\ owned' = owned \cup {Struct}

New(kind, c, n) == Boxes(kind, c) /\ left' = [left EXCEPT ![Struct] = n]

(* CString::into_raw.                                                      *)
NewString ==
    /\ FreeStructs # {}
    /\ struct' = [struct EXCEPT ![Struct] = "string"]
    /\ owned' = owned \cup {Struct}
    /\ UNCHANGED <<value, live, content, left>>

Returns(fn, on, val, err) ==
    /\ ret' = [fn |-> fn, on |-> on, val |-> val, err |-> err]
    /\ UNCHANGED crashed

(* A call that gives no handle.                                            *)
NewNothing == UNCHANGED <<struct, value, live, content, left, owned>>

(* A result whose error field is set, with one of these codes, and whose   *)
(* value is null.                                                          *)
FailsWith(codes, fn, on) ==
    /\ \E code \in codes : New("error", code, 0)
    /\ Returns(fn, on, Null, Struct)

Fails(fn, on) == FailsWith(Codes, fn, on)

(* A result that holds a new handle of the given kind, or an error.        *)
Gives(kind, on, n) ==
    \/ New(kind, Nothing, n) /\ Returns(kind, on, Struct, Null)
    \/ Fails(kind, on)

(* A result that holds an error or nothing.                                *)
Status(on) ==
    \/ NewNothing /\ Returns("status", on, Null, Null)
    \/ Fails("status", on)

-----------------------------------------------------------------------------
opendal_operator_options_new ==
    New("options", Nothing, 0) /\ Returns("options", Null, Struct, Null)

(* Insertion into the map of the options.                                  *)
opendal_operator_options_set ==
    \E o \in Owned("options"), c \in Config :
        /\ content' = [content EXCEPT ![value[o]] = c]
        /\ ret' = NoResult
        /\ UNCHANGED <<struct, value, live, left, owned, crashed>>

(* Faulty variant: the operator keeps the map of the caller's options.     *)
opendal_operator_new_KeepsOptions ==
    \E o \in Owned("options") :
        /\ FreeStructs # {}
        /\ struct' = [struct EXCEPT ![Struct] = "operator"]
        /\ value' = [value EXCEPT ![Struct] = value[o]]
        /\ owned' = owned \cup {Struct}
        /\ Returns("operator", Null, Struct, Null)
        /\ UNCHANGED <<live, content, left>>

(* The options, if there are any, are copied into the operator's own map.  *)
opendal_operator_new ==
    \/ /\ \E c \in {Nothing} \cup {content[value[o]] : o \in Owned("options")} :
             New("operator", c, 0)
       /\ Returns("operator", Null, Struct, Null)
    \/ Fails("operator", Null)

opendal_operator_info_new ==
    \E op \in Owned("operator") :
        /\ New("info", content[value[op]], 0)
        /\ Returns("info", op, Struct, Null)

(* The bytes are copied: the caller's buffer is neither kept nor freed.    *)
opendal_operator_write      == \E op \in Owned("operator") : Status(op)
opendal_operator_create_dir == \E op \in Owned("operator") : Status(op)
opendal_operator_delete     == \E op \in Owned("operator") : Status(op)
opendal_operator_copy       == \E op \in Owned("operator") : Status(op)
opendal_operator_rename     == \E op \in Owned("operator") : Status(op)

(* Whether the path exists, which an error leaves false.                   *)
opendal_operator_is_exist ==
    \E op \in Owned("operator") :
        \/ \E val \in {"some", Null} :
              NewNothing /\ Returns("exist", op, val, Null)
        \/ Fails("exist", op)

opendal_operator_read ==
    \E op \in Owned("operator") : Gives("bytes", op, 0)

opendal_operator_stat ==
    \E op \in Owned("operator") : Gives("metadata", op, 0)

opendal_operator_reader ==
    \E op \in Owned("operator"), n \in 0 .. MaxLeft : Gives("reader", op, n)

opendal_operator_list ==
    \E op \in Owned("operator"), n \in 0 .. MaxLeft : Gives("lister", op, n)

(* Faulty variant: an error of the service is taken for the end.           *)
NextFails_Dropped(l) == NewNothing /\ Returns("next", l, Null, Null)

(* An error of the service, after which the core's iterator ends.          *)
NextFails(l) ==
    /\ \E code \in Codes : Boxes("error", code)
    /\ left' = [left EXCEPT ![l] = 0]
    /\ Returns("next", l, Null, Struct)

(* The next entry, an error, or, at the end, neither.                      *)
opendal_lister_next ==
    \E l \in Owned("lister") :
        \/ /\ left[l] > 0
           /\ Boxes("entry", Nothing) /\ left' = [left EXCEPT ![l] = @ - 1]
           /\ Returns("next", l, Struct, Null)
        \/ left[l] > 0 /\ NextFails(l)
        \/ left[l] = 0 /\ NewNothing /\ Returns("next", l, Null, Null)

(* Faulty variant: the end of the data is not noticed.                     *)
ReadSome_Endless(r) ==
    /\ left' = [left EXCEPT ![r] = @ - 1]
    /\ Returns("read", r, "some", Null)
    /\ UNCHANGED <<struct, value, live, content, owned>>

ReadSome(r) ==
    /\ left[r] > 0
    /\ left' = [left EXCEPT ![r] = @ - 1]
    /\ Returns("read", r, "some", Null)
    /\ UNCHANGED <<struct, value, live, content, owned>>

(* The number of bytes read, which is zero at the end, for a buffer of     *)
(* length zero, and on an error, whose code is the binding's.              *)
opendal_reader_read ==
    \E r \in Owned("reader") :
        \/ ReadSome(r)
        \/ FailsWith({"OPENDAL_UNEXPECTED"}, "read", r)
        \/ left[r] = 0 /\ NewNothing /\ Returns("read", r, Null, Null)
        \/ NewNothing /\ Returns("empty_read", r, Null, Null)

(* Path and name of an entry; scheme, root and name of an operator's info. *)
opendal_entry_string ==
    \E e \in Owned("entry") : NewString /\ Returns("string", e, Struct, Null)

opendal_operator_info_string ==
    \E i \in Owned("info") : NewString /\ Returns("string", i, Struct, Null)

-----------------------------------------------------------------------------
(* Faulty variant: the message of an error, the data of a byte array, ...  *)
(* is not freed with the struct.                                           *)
Release_StructOnly(a) ==
    /\ struct' = [struct EXCEPT ![a] = "free"]
    /\ value' = [value EXCEPT ![a] = Null] /\ left' = [left EXCEPT ![a] = 0]
    /\ owned' = owned \ {a} /\ ret' = NoResult
    /\ UNCHANGED <<live, content, crashed>>

(* Box::from_raw of both boxes, or, for a string, free().                  *)
Release(a) ==
    /\ struct' = [struct EXCEPT ![a] = "free"]
    /\ live' = live \ {value[a]}
    /\ content' = [v \in Addr |-> IF v = value[a] THEN Nothing ELSE content[v]]
    /\ value' = [value EXCEPT ![a] = Null] /\ left' = [left EXCEPT ![a] = 0]
    /\ owned' = owned \ {a} /\ ret' = NoResult
    /\ UNCHANGED crashed

opendal_operator_options_free == \E a \in Owned("options") : Release(a)
opendal_operator_free         == \E a \in Owned("operator") : Release(a)
opendal_bytes_free            == \E a \in Owned("bytes") : Release(a)
opendal_error_free            == \E a \in Owned("error") : Release(a)
opendal_metadata_free         == \E a \in Owned("metadata") : Release(a)
opendal_reader_free           == \E a \in Owned("reader") : Release(a)
opendal_lister_free           == \E a \in Owned("lister") : Release(a)
opendal_entry_free            == \E a \in Owned("entry") : Release(a)
opendal_operator_info_free    == \E a \in Owned("info") : Release(a)
free                          == \E a \in Owned("string") : Release(a)

(* The kinds whose free function looks at the pointer first.               *)
TestsNull == {"bytes", "error", "reader", "entry"}

(* The last call returned a null pointer in place of an error, or of a     *)
(* value of the given kind.                                                *)
NullOf(kind) ==
    \/ kind = "error" /\ ret.fn # "none" /\ ret.err = Null
    \/ kind = "entry" /\ ret.fn = "next" /\ ret.val = Null
    \/ ret.fn = kind /\ ret.val = Null

FreeNull ==
    \E kind \in Unchecked :
        /\ NullOf(kind)
        /\ crashed' = (kind \notin TestsNull)
        /\ ret' = NoResult
        /\ NewNothing

-----------------------------------------------------------------------------
Call == \/ opendal_operator_options_new \/ opendal_operator_options_set
        \/ opendal_operator_new \/ opendal_operator_info_new
        \/ opendal_operator_write \/ opendal_operator_create_dir
        \/ opendal_operator_delete \/ opendal_operator_copy
        \/ opendal_operator_rename \/ opendal_operator_is_exist
        \/ opendal_operator_read \/ opendal_operator_stat
        \/ opendal_operator_reader \/ opendal_operator_list
        \/ opendal_lister_next \/ opendal_reader_read
        \/ opendal_entry_string \/ opendal_operator_info_string

Frees == \/ opendal_operator_options_free \/ opendal_operator_free
         \/ opendal_bytes_free \/ opendal_error_free \/ opendal_metadata_free
         \/ opendal_reader_free \/ opendal_lister_free \/ opendal_entry_free
         \/ opendal_operator_info_free \/ free \/ FreeNull

Next == ~crashed /\ (Call \/ Frees)

Spec == Init /\ [][Next]_vars

-----------------------------------------------------------------------------
Boxed == {a \in owned : struct[a] # "string"}

(* Every handle the caller still holds is whole and shares nothing with    *)
(* another, whatever has been freed before it: what a call is given, it    *)
(* copies, and what it gives is new (types.rs 40-67, operator.rs 176-180,  *)
(* lister.rs 49-71, reader.rs 34-38).                                      *)
HandlesIntact ==
    /\ \A a \in owned : struct[a] \in Kind
    /\ \A a \in Boxed : value[a] \in live
    /\ \A a, b \in Boxed : a # b => value[a] # value[b]

(* What is allocated belongs to a handle of the caller: a failed call      *)
(* leaves only its error behind, a free function takes both boxes          *)
(* (error.rs 104-126, types.rs 50-58, 142-147).                            *)
NothingLost ==
    /\ \A a \in Addr : struct[a] # "free" => a \in owned
    /\ \A v \in live : \E a \in Boxed : value[a] = v

(* A result holds a value or an error, and never both; one that may hold   *)
(* neither does so only at the end of the iteration (result.rs 27-30,      *)
(* 45-48, 103, 124-126).                                                   *)
ResultsDecisive ==
    /\ ret.val = Null \/ ret.err = Null
    /\ (ret.val = Null /\ ret.err = Null) =>
          \/ ret.fn \in {"none", "status", "exist", "empty_read"}
          \/ ret.fn \in {"next", "read"} /\ left[ret.on] = 0

-----------------------------------------------------------------------------
(* What the caller's handles are, and what they say, as the header has it. *)
apiHandles == [a \in Addr |-> IF a \in owned THEN struct[a] ELSE "none"]
apiSays    == [a \in Addr |-> IF a \in Boxed THEN content[value[a]] ELSE Nothing]

Api == INSTANCE OpenDalApi
       WITH handles <- apiHandles, says <- apiSays, result <- apiResult

(* To its caller the binding is what the header says: each handle keeps    *)
(* what it was made with, whatever is set, freed or made at the same       *)
(* address afterwards, and a result is a new handle or an error            *)
(* (operator.rs 176-180, types.rs 118-133, error.rs 99-104).               *)
ImplementsApi == Api!Spec

(* "Calling this function on NULL does nothing" (operator.rs 56), "ok to   *)
(* call on NULL" (error.rs 111): a caller may free what a failed call      *)
(* returned without looking.                                               *)
NullIsFreeable == ~crashed
==============================================================================
