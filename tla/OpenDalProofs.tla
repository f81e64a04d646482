---------------------------- MODULE OpenDalProofs -----------------------------
(***************************************************************************)
(* For any number of handles, of addresses and any order of calls and      *)
(* frees: the handles of the OpenDAL binding are whole and separate,       *)
(* nothing that was allocated is lost, and results are what the header     *)
(* says.  The example programs call the binding so, use only what is       *)
(* there and release it; and the csv readers among them print the records  *)
(* of a file of any length in order.                                       *)
(***************************************************************************)
EXTENDS Examples, TLAPS

(* What the invariant needs of the types.                                  *)
HeapType ==
    /\ struct \in [Addr -> Kind \cup {"free"}]
    /\ value \in [Addr -> Addr \cup {Null}]
    /\ content \in [Addr -> Config \cup Codes \cup {Nothing}]
    /\ live \subseteq Addr /\ owned \subseteq Addr

(* Only a struct that has a value inside points anywhere.                  *)
PointersOK ==
    \A a \in Addr : struct[a] \in {"free", "string"} => value[a] = Null

HeapInv == HeapType /\ HandlesIntact /\ NothingLost /\ PointersOK

(* What a step does to the heap is one of five things.                     *)
heapVars == <<struct, value, live, content, owned>>

Content == Config \cup Codes \cup {Nothing}

OptionSet(o) ==
    /\ \E c \in Config : content' = [content EXCEPT ![value[o]] = c]
    /\ UNCHANGED <<struct, value, live, owned>>

StringMade ==
    /\ FreeStructs # {} /\ struct' = [struct EXCEPT ![Struct] = "string"]
    /\ owned' = owned \cup {Struct} /\ UNCHANGED <<value, live, content>>

HeapStep ==
    \/ \E kind \in Kind \ {"string"}, c \in Content : Boxes(kind, c)
    \/ StringMade
    \/ \E o \in Owned("options") : OptionSet(o)
    \/ \E a \in owned : Release(a)
    \/ UNCHANGED heapVars

(* What is allocated is free before.                                       *)
LEMMA StructIsFree == FreeStructs # {} => Struct \in Addr /\ struct[Struct] = "free"
<1>1. ASSUME FreeStructs # {} PROVE Struct \in FreeStructs
  BY <1>1, Zenon DEF Struct
<1> QED BY <1>1 DEF FreeStructs

LEMMA ValueIsFree ==
    ASSUME live \subseteq Addr, live # Addr PROVE Value \in Addr \ live
<1>1. Addr \ live # {}
  OBVIOUS
<1> QED BY <1>1, Zenon DEF Value

-----------------------------------------------------------------------------
LEMMA FreesRelease == Frees => FreeNull \/ \E a \in owned : Release(a)
BY DEF Frees, Owned, opendal_operator_options_free, opendal_operator_free,
   opendal_bytes_free, opendal_error_free, opendal_metadata_free,
   opendal_reader_free, opendal_lister_free, opendal_entry_free,
   opendal_operator_info_free, free

(* Every call and every free function is a step of the heap.               *)
LEMMA StepsOfTheHeap == HeapInv /\ Next => HeapStep
<1> SUFFICES ASSUME HeapInv, Next PROVE HeapStep
  OBVIOUS
<1> USE DEF HeapStep, heapVars, Kind, Content
<1>1. \A n, kind : \A c \in Content :
         kind \in Kind \ {"string"} /\ New(kind, c, n) => HeapStep
  BY DEF New
<1>2. \A codes, fn, on : codes \subseteq Codes /\ FailsWith(codes, fn, on) => HeapStep
  BY <1>1 DEF FailsWith
<1>3. \A kind, on, n : kind \in Kind \ {"string"} /\ Gives(kind, on, n) => HeapStep
  BY <1>1, <1>2 DEF Gives, Fails
<1>c. \A kind : \A a \in Owned(kind) : kind # "string" /\ kind # "free" => content[value[a]] \in Content
  BY DEF Owned, HeapInv, HeapType, HandlesIntact, Boxed
<1>4. NewNothing => HeapStep
  BY DEF NewNothing
<1>5. \A on : Status(on) => HeapStep
  BY <1>2, <1>4 DEF Status, Fails
<1>6. NewString => HeapStep
  BY DEF NewString, StringMade
<1>7. CASE opendal_operator_options_new
  BY <1>1, <1>7 DEF opendal_operator_options_new
<1>8. CASE opendal_operator_new
  BY <1>1, <1>2, <1>8, <1>c DEF opendal_operator_new, Fails
<1>9. CASE opendal_operator_info_new
  BY <1>1, <1>9, <1>c DEF opendal_operator_info_new
<1>s. CASE opendal_operator_options_set
  BY <1>s DEF opendal_operator_options_set, OptionSet
<1>10. CASE \/ opendal_operator_write \/ opendal_operator_create_dir
            \/ opendal_operator_delete \/ opendal_operator_copy
            \/ opendal_operator_rename \/ opendal_operator_is_exist
  BY <1>2, <1>4, <1>5, <1>10 DEF Fails, opendal_operator_write, opendal_operator_create_dir,
     opendal_operator_delete, opendal_operator_copy, opendal_operator_rename,
     opendal_operator_is_exist
<1>11. CASE \/ opendal_operator_read \/ opendal_operator_stat
            \/ opendal_operator_reader \/ opendal_operator_list
  BY <1>3, <1>11 DEF opendal_operator_read, opendal_operator_stat,
     opendal_operator_reader, opendal_operator_list
<1>12. CASE opendal_lister_next
  BY <1>4, <1>12 DEF opendal_lister_next, NextFails
<1>13. CASE opendal_reader_read
  BY <1>2, <1>4, <1>13, OpenDalAssumption DEF opendal_reader_read, ReadSome
<1>14. CASE opendal_entry_string \/ opendal_operator_info_string
  BY <1>6, <1>14 DEF opendal_entry_string, opendal_operator_info_string
<1>15. CASE Frees
  BY <1>4, <1>15, FreesRelease DEF FreeNull
<1> QED
  BY <1>7, <1>8, <1>9, <1>s, <1>10, <1>11, <1>12, <1>13, <1>14, <1>15 DEF Next, Call

-----------------------------------------------------------------------------
LEMMA HeapInit == Init => HeapInv
BY OpenDalAssumption DEF Init, HeapInv, HeapType, HandlesIntact, NothingLost,
   PointersOK, Boxed, Kind

(* Each kind of step keeps the handles whole and accounts for the heap.    *)
LEMMA HeapKept == HeapInv /\ HeapStep => HeapInv'
<1> SUFFICES ASSUME HeapInv, HeapStep PROVE HeapInv'
  OBVIOUS
<1> USE OpenDalAssumption DEF HeapInv, HeapType, Boxed
<1>1. ASSUME NEW kind \in Kind \ {"string"}, NEW c \in Content, Boxes(kind, c)
      PROVE  HeapInv'
  <2> DEFINE s == Struct
             v == Value
  <2>1. s \in Addr /\ struct[s] = "free"
    BY <1>1, StructIsFree DEF Boxes
  <2>2. v \in Addr \ live
    BY <1>1, ValueIsFree DEF Boxes
  <2>3. /\ struct' = [struct EXCEPT ![s] = kind]
        /\ value' = [value EXCEPT ![s] = v]
        /\ live' = live \cup {v} /\ owned' = owned \cup {s}
        /\ content' = [content EXCEPT ![v] = c]
    BY <1>1 DEF Boxes
  <2> HIDE DEF s, v
  <2>4. s \notin owned
    BY <2>1 DEF HandlesIntact, Kind
  <2>5. HeapType'
    BY <2>1, <2>2, <2>3 DEF Content
  <2>6. Boxed' = Boxed \cup {s}
    BY <2>1, <2>3, <2>4
  <2>7. HandlesIntact'
    BY <2>1, <2>2, <2>3, <2>4, <2>6 DEF HandlesIntact
  <2>8. NothingLost'
    BY <2>1, <2>2, <2>3, <2>4, <2>6 DEF NothingLost
  <2>9. PointersOK'
    BY <2>1, <2>3 DEF PointersOK, Kind
  <2> QED BY <2>5, <2>7, <2>8, <2>9
<1>2. ASSUME StringMade PROVE HeapInv'
  <2> DEFINE s == Struct
  <2>1. s \in Addr /\ struct[s] = "free"
    BY <1>2, StructIsFree DEF StringMade
  <2>2. /\ struct' = [struct EXCEPT ![s] = "string"]
        /\ owned' = owned \cup {s} /\ UNCHANGED <<value, live, content>>
    BY <1>2 DEF StringMade
  <2> HIDE DEF s
  <2>3. s \notin owned
    BY <2>1 DEF HandlesIntact, Kind
  <2>4. Boxed' = Boxed
    BY <2>1, <2>2, <2>3
  <2>5. HeapType' /\ PointersOK'
    BY <2>1, <2>2 DEF PointersOK, Kind
  <2>6. HandlesIntact'
    BY <2>1, <2>2, <2>4 DEF HandlesIntact, Kind
  <2>7. NothingLost'
    BY <2>1, <2>2, <2>4 DEF NothingLost
  <2> QED BY <2>5, <2>6, <2>7
<1>3. ASSUME NEW a \in owned, Release(a) PROVE HeapInv'
  <2>1. /\ struct' = [struct EXCEPT ![a] = "free"]
        /\ live' = live \ {value[a]} /\ value' = [value EXCEPT ![a] = Null]
        /\ owned' = owned \ {a}
        /\ content' = [v \in Addr |-> IF v = value[a] THEN Nothing ELSE content[v]]
    BY <1>3 DEF Release
  <2>2. Boxed' = Boxed \ {a}
    BY <1>3, <2>1
  <2>3. \A b \in Boxed \ {a} : value[b] # value[a]
    BY <1>3 DEF HandlesIntact, PointersOK
  <2>4. HeapType' /\ PointersOK'
    BY <1>3, <2>1 DEF PointersOK
  <2>5. HandlesIntact'
    BY <1>3, <2>1, <2>2, <2>3 DEF HandlesIntact
  <2>6. NothingLost'
    BY <1>3, <2>1, <2>2, <2>3 DEF NothingLost
  <2> QED BY <2>4, <2>5, <2>6
<1>4. ASSUME UNCHANGED heapVars PROVE HeapInv'
  BY <1>4 DEF heapVars, HandlesIntact, NothingLost, PointersOK
<1>5. ASSUME NEW o \in Owned("options"), OptionSet(o) PROVE HeapInv'
  <2>1. PICK c \in Config : content' = [content EXCEPT ![value[o]] = c]
    BY <1>5 DEF OptionSet
  <2>2. UNCHANGED <<struct, value, live, owned>>
    BY <1>5 DEF OptionSet
  <2>3. HeapType'
    BY <2>1, <2>2
  <2> QED BY <2>2, <2>3 DEF HandlesIntact, NothingLost, PointersOK
<1> QED BY <1>1, <1>2, <1>3, <1>4, <1>5 DEF HeapStep

LEMMA HeapInductive == Spec => []HeapInv
<1>1. UNCHANGED vars => HeapStep
  BY DEF vars, HeapStep, heapVars
<1>2. HeapInv /\ [Next]_vars => HeapInv'
  BY <1>1, StepsOfTheHeap, HeapKept
<1> QED BY HeapInit, <1>2, PTL DEF Spec

(* No two handles of the caller share memory, and none has lost its own,   *)
(* whatever was freed before it (types.rs 40-67, operator.rs 176-180).     *)
THEOREM HandlesSafe == Spec => []HandlesIntact
<1>1. HeapInv => HandlesIntact
  BY DEF HeapInv
<1> QED BY <1>1, HeapInductive, PTL

(* Whatever is allocated, a handle of the caller leads to it (error.rs     *)
(* 104-126, types.rs 50-58, 142-147).                                      *)
THEOREM NothingLeaks == Spec => []NothingLost
<1>1. HeapInv => NothingLost
  BY DEF HeapInv
<1> QED BY <1>1, HeapInductive, PTL

-----------------------------------------------------------------------------
(* What a step may return.                                                 *)
Decisive(q) ==
    \/ q.val \in Addr \cup {"some"} /\ q.err = Null
    \/ q.val = Null /\ q.err \in Addr
    \/ q.fn \in {"none", "status", "exist", "empty_read"} /\ q.val = Null /\ q.err = Null

AtTheEnd ==
    /\ ret'.fn \in {"next", "read"} /\ ret'.val = Null /\ ret'.err = Null
    /\ left'[ret'.on] = 0

LEMMA StepsReturn == Next => Decisive(ret') \/ AtTheEnd
<1> SUFFICES ASSUME Next PROVE Decisive(ret') \/ AtTheEnd
  OBVIOUS
<1> USE DEF Returns, Decisive
<1>1. \A fn, on : FreeStructs # {} /\ Returns(fn, on, Struct, Null) => Decisive(ret')
  BY StructIsFree
<1>2. \A codes, fn, on : FailsWith(codes, fn, on) => Decisive(ret')
  BY StructIsFree DEF FailsWith, New, Boxes
<1>3. \A kind, on, n : Gives(kind, on, n) => Decisive(ret')
  BY <1>1, <1>2 DEF Gives, Fails, New, Boxes
<1>4. \A on : Status(on) => Decisive(ret')
  BY <1>2 DEF Status, Fails
<1>5. CASE \/ opendal_operator_options_new \/ opendal_operator_options_set
           \/ opendal_operator_new \/ opendal_operator_info_new
  BY <1>1, <1>2, <1>5 DEF opendal_operator_options_new,
     opendal_operator_options_set, opendal_operator_new,
     opendal_operator_info_new, Fails, New, Boxes, NoResult
<1>6. CASE \/ opendal_operator_write \/ opendal_operator_create_dir
           \/ opendal_operator_delete \/ opendal_operator_copy
           \/ opendal_operator_rename \/ opendal_operator_is_exist
  BY <1>2, <1>4, <1>6 DEF Fails, opendal_operator_write, opendal_operator_create_dir,
     opendal_operator_delete, opendal_operator_copy, opendal_operator_rename,
     opendal_operator_is_exist
<1>7. CASE \/ opendal_operator_read \/ opendal_operator_stat
           \/ opendal_operator_reader \/ opendal_operator_list
  BY <1>3, <1>7 DEF opendal_operator_read, opendal_operator_stat,
     opendal_operator_reader, opendal_operator_list
<1>8. CASE opendal_lister_next
  BY <1>8, StructIsFree
  DEF opendal_lister_next, NextFails, Boxes, NewNothing, AtTheEnd
<1>9. CASE opendal_reader_read
  BY <1>2, <1>9 DEF opendal_reader_read, ReadSome, NewNothing, AtTheEnd
<1>10. CASE opendal_entry_string \/ opendal_operator_info_string
  BY <1>1, <1>10 DEF opendal_entry_string, opendal_operator_info_string, NewString
<1>11. CASE Frees
  BY <1>11 DEF Frees, FreeNull, Release, NoResult, opendal_operator_options_free,
     opendal_operator_free, opendal_bytes_free, opendal_error_free,
     opendal_metadata_free, opendal_reader_free, opendal_lister_free,
     opendal_entry_free, opendal_operator_info_free, free
<1> QED
  BY <1>5, <1>6, <1>7, <1>8, <1>9, <1>10, <1>11 DEF Next, Call

(* An error of the service never looks like the end of an iteration, nor   *)
(* the end like an error (result.rs 25-30, 99-103, 124-126).               *)
THEOREM ResultsSafe == Spec => []ResultsDecisive
<1>1. Init => ResultsDecisive
  BY DEF Init, NoResult, ResultsDecisive
<1>2. ResultsDecisive /\ [Next]_vars => ResultsDecisive'
  <2>1. Decisive(ret') \/ AtTheEnd => ResultsDecisive'
    BY OpenDalAssumption DEF Decisive, AtTheEnd, ResultsDecisive
  <2>2. ResultsDecisive /\ UNCHANGED vars => ResultsDecisive'
    BY DEF vars, ResultsDecisive
  <2> QED BY <2>1, <2>2, StepsReturn
<1> QED BY <1>1, <1>2, PTL DEF Spec
-----------------------------------------------------------------------------
(* The header's struct for each kind of result.                            *)
Ret(fn, on, val, err) == [fn |-> fn, on |-> on, val |-> val, err |-> err]

LEMMA ResultIs ==
    ASSUME NEW on, NEW v, NEW e
    PROVE  /\ HeaderResult(Ret("operator", on, v, e)) = [op |-> v, error |-> e]
           /\ HeaderResult(Ret("bytes", on, v, e)) = [data |-> v, error |-> e]
           /\ HeaderResult(Ret("reader", on, v, e)) = [reader |-> v, error |-> e]
           /\ HeaderResult(Ret("metadata", on, v, e)) = [meta |-> v, error |-> e]
           /\ HeaderResult(Ret("lister", on, v, e)) = [lister |-> v, error |-> e]
           /\ HeaderResult(Ret("next", on, v, e)) = [entry |-> v, error |-> e]
           /\ HeaderResult(Ret("exist", on, v, e)) = [is_exist |-> v # Null, error |-> e]
           /\ HeaderResult(Ret("read", on, v, e))
                = [size |-> IF v = Null THEN 0 ELSE 1, error |-> e]
           /\ HeaderResult(Ret("empty_read", on, v, e)) = [size |-> 0, error |-> e]
           /\ HeaderResult(Ret("status", on, v, e)) = [error |-> e]
           /\ HeaderResult(Ret("options", on, v, e)) = [options |-> v]
           /\ HeaderResult(Ret("info", on, v, e)) = [info |-> v]
           /\ HeaderResult(Ret("string", on, v, e)) = [string |-> v]
           /\ HeaderResult(NoResult) = Api!Void
BY DEF HeaderResult, Ret, NoResult, Void, Api!Void

(* The refinement: what a step of the heap does to the header's handles.   *)
LEMMA HandsBoxes ==
    ASSUME HeapInv, NEW kind \in Kind \ {"string"}, NEW c, Boxes(kind, c)
    PROVE  Struct \in Addr /\ Api!Hand(kind, Struct, c)
<1> USE OpenDalAssumption DEF HeapInv, HeapType
<1> DEFINE s == Struct
           v == Value
<1>1. s \in Addr /\ struct[s] = "free"
  BY StructIsFree DEF Boxes
<1>2. v \in Addr \ live
  BY ValueIsFree DEF Boxes
<1>3. /\ struct' = [struct EXCEPT ![s] = kind]
      /\ value' = [value EXCEPT ![s] = v]
      /\ owned' = owned \cup {s} /\ content' = [content EXCEPT ![v] = c]
  BY DEF Boxes
<1> HIDE DEF s, v
<1>4. s \notin owned
  BY <1>1 DEF HandlesIntact, Kind
<1>5. Boxed' = Boxed \cup {s} /\ s \notin Boxed
  BY <1>1, <1>3, <1>4 DEF Boxed
<1>6. apiHandles[s] = "none" /\ apiHandles' = [apiHandles EXCEPT ![s] = kind]
  BY <1>1, <1>3, <1>4 DEF apiHandles
<1>7. \A a \in Boxed : a # s /\ value[a] # v
  BY <1>2, <1>5 DEF HandlesIntact
<1>8. apiSays' = [apiSays EXCEPT ![s] = c]
  <2>1. \A a \in Boxed : content'[value'[a]] = content[value[a]]
    BY <1>1, <1>2, <1>3, <1>7 DEF HandlesIntact, Boxed
  <2>2. content'[value'[s]] = c
    BY <1>1, <1>2, <1>3
  <2> QED BY <1>1, <1>5, <2>1, <2>2 DEF apiSays
<1> QED BY <1>1, <1>6, <1>8 DEF Api!Hand, s

LEMMA HandsString ==
    ASSUME HeapInv, NewString PROVE Struct \in Addr /\ Api!Hand("string", Struct, Nothing)
<1> USE OpenDalAssumption DEF HeapInv, HeapType
<1> DEFINE s == Struct
<1>1. s \in Addr /\ struct[s] = "free"
  BY StructIsFree DEF NewString
<1>2. /\ struct' = [struct EXCEPT ![s] = "string"]
      /\ owned' = owned \cup {s} /\ UNCHANGED <<value, content>>
  BY DEF NewString
<1> HIDE DEF s
<1>3. s \notin owned
  BY <1>1 DEF HandlesIntact, Kind
<1>4. Boxed' = Boxed /\ s \notin Boxed
  BY <1>1, <1>2, <1>3 DEF Boxed
<1>5. apiHandles[s] = "none" /\ apiHandles' = [apiHandles EXCEPT ![s] = "string"]
  BY <1>1, <1>2, <1>3 DEF apiHandles
<1>6. apiSays' = [apiSays EXCEPT ![s] = Nothing]
  BY <1>1, <1>2, <1>4 DEF apiSays
<1> QED BY <1>1, <1>5, <1>6 DEF Api!Hand, s

LEMMA FreesHandle == ASSUME HeapInv, NEW a \in owned, Release(a) PROVE Api!Free
<1> USE OpenDalAssumption DEF HeapInv, HeapType
<1>1. /\ struct' = [struct EXCEPT ![a] = "free"]
      /\ value' = [value EXCEPT ![a] = Null] /\ owned' = owned \ {a}
      /\ content' = [v \in Addr |-> IF v = value[a] THEN Nothing ELSE content[v]]
  BY DEF Release
<1>2. Boxed' = Boxed \ {a}
  BY <1>1 DEF Boxed
<1>3. \A b \in Boxed \ {a} : value[b] \in Addr /\ value[b] # value[a]
  BY DEF HandlesIntact, PointersOK, Boxed
<1>4. apiHandles[a] # "none" /\ apiHandles' = [apiHandles EXCEPT ![a] = "none"]
  BY <1>1 DEF apiHandles, HandlesIntact, Kind
<1>5. apiSays' = [apiSays EXCEPT ![a] = Nothing]
  <2>1. \A b \in Boxed \ {a} : content'[value'[b]] = content[value[b]]
    BY <1>1, <1>3 DEF Boxed
  <2> QED BY <1>1, <1>2, <2>1 DEF apiSays
<1>6. apiResult' = Api!Void
  BY ResultIs DEF Release, apiResult
<1> QED BY <1>4, <1>5, <1>6 DEF Api!Free

LEMMA SetsOption ==
    ASSUME HeapInv, opendal_operator_options_set PROVE Api!opendal_operator_options_set
<1> USE OpenDalAssumption DEF HeapInv, HeapType
<1>1. PICK o \in Owned("options"), c \in Config :
          /\ content' = [content EXCEPT ![value[o]] = c] /\ ret' = NoResult
          /\ UNCHANGED <<struct, value, live, left, owned, crashed>>
  BY DEF opendal_operator_options_set
<1>2. o \in Boxed /\ value[o] \in Addr
  BY DEF Owned, Boxed, HandlesIntact
<1>3. UNCHANGED <<apiHandles, Boxed>>
  BY <1>1 DEF apiHandles, Boxed
<1>4. \A b \in Boxed \ {o} : content'[value'[b]] = content[value[b]]
  BY <1>1, <1>2 DEF HandlesIntact
<1>5. content'[value'[o]] = c
  BY <1>1, <1>2
<1>6. apiSays' = [apiSays EXCEPT ![o] = c]
  BY <1>2, <1>3, <1>4, <1>5 DEF apiSays, Boxed
<1>7. apiResult' = Api!Void
  BY <1>1, ResultIs DEF apiResult
<1>8. o \in Api!Held("options")
  BY DEF Owned, Api!Held, apiHandles
<1> QED BY <1>3, <1>6, <1>7, <1>8 DEF Api!opendal_operator_options_set

LEMMA KeepsHandles == NewNothing => Api!Keep
BY DEF NewNothing, Api!Keep, apiHandles, apiSays, Boxed

LEMMA Returned ==
    ASSUME NEW fn, NEW on, NEW v, NEW e, Returns(fn, on, v, e)
    PROVE  apiResult' = HeaderResult(Ret(fn, on, v, e))
BY DEF Returns, Ret, apiResult

LEMMA Errs ==
    ASSUME HeapInv, NEW codes \in SUBSET Codes, NEW fn, NEW on,
           FailsWith(codes, fn, on)
    PROVE  /\ Struct \in Addr /\ Api!Error(Struct)
           /\ apiResult' = HeaderResult(Ret(fn, on, Null, Struct))
BY HandsBoxes, Returned DEF FailsWith, New, Api!Error, Kind

LEMMA Statuses == ASSUME HeapInv, NEW on, Status(on) PROVE Api!Status
<1>1. CASE NewNothing /\ Returns("status", on, Null, Null)
  BY <1>1, KeepsHandles, Returned, ResultIs DEF Api!Status
<1>2. CASE FailsWith(Codes, "status", on)
  BY <1>2, Errs, ResultIs DEF Api!Status
<1> QED BY <1>1, <1>2 DEF Status, Fails

(* A handle of the kind, or an error.                                      *)
LEMMA GivesHandle ==
    ASSUME HeapInv, NEW kind \in Kind \ {"string"}, NEW on, NEW n, Gives(kind, on, n)
    PROVE  \E h \in Addr :
              \/ /\ Api!Hand(kind, h, Nothing)
                 /\ apiResult' = HeaderResult(Ret(kind, on, h, Null))
              \/ /\ Api!Error(h)
                 /\ apiResult' = HeaderResult(Ret(kind, on, Null, h))
<1>1. CASE New(kind, Nothing, n) /\ Returns(kind, on, Struct, Null)
  BY <1>1, HandsBoxes, Returned DEF New
<1>2. CASE FailsWith(Codes, kind, on)
  BY <1>2, Errs
<1> QED BY <1>1, <1>2 DEF Gives, Fails

LEMMA HeldOwned == \A kind \in Kind : Api!Held(kind) = Owned(kind) \cap Addr
BY DEF Api!Held, Owned, apiHandles, Kind

LEMMA StepIsApi == HeapInv /\ Next => Api!Next
<1> SUFFICES ASSUME HeapInv, Next PROVE Api!Next
  OBVIOUS
<1> USE HeldOwned, Returned, ResultIs DEF Kind
<1>o. owned \subseteq Addr
  BY DEF HeapInv, HeapType
<1>h. \A kind \in Kind : \A a \in Owned(kind) : a \in Api!Held(kind)
  BY <1>o DEF Owned
<1>1. CASE opendal_operator_options_new
  <2>1. Api!opendal_operator_options_new
    BY <1>1, HandsBoxes
    DEF opendal_operator_options_new, New, Api!opendal_operator_options_new
  <2> QED BY <2>1 DEF Api!Next
<1>2. CASE opendal_operator_options_set
  BY <1>2, SetsOption DEF Api!Next
<1>3. CASE opendal_operator_new
  <2>1. ASSUME NEW c \in {Nothing} \cup {content[value[o]] : o \in Owned("options")},
               New("operator", c, 0), Returns("operator", Null, Struct, Null)
        PROVE  Api!opendal_operator_new
    <3>1. \A o \in Owned("options") : apiSays[o] = content[value[o]]
      BY <1>o DEF Owned, apiSays, Boxed
    <3>2. c \in {Nothing} \cup {apiSays[o] : o \in Api!Held("options")}
      BY <2>1, <3>1, <1>h
    <3> QED BY <2>1, <3>2, HandsBoxes DEF New, Api!opendal_operator_new
  <2>2. ASSUME Fails("operator", Null) PROVE Api!opendal_operator_new
    BY <2>2, Errs DEF Fails, Api!opendal_operator_new
  <2> QED BY <1>3, <2>1, <2>2 DEF opendal_operator_new, Api!Next
<1>4. CASE opendal_operator_info_new
  <2>1. PICK op \in Owned("operator") :
            New("info", content[value[op]], 0) /\ Returns("info", op, Struct, Null)
    BY <1>4 DEF opendal_operator_info_new
  <2>2. op \in Api!Held("operator") /\ apiSays[op] = content[value[op]]
    BY <1>h, <1>o DEF Owned, apiSays, Boxed
  <2>3. Api!opendal_operator_info_new
    BY <2>1, <2>2, HandsBoxes DEF New, Api!opendal_operator_info_new
  <2> QED BY <2>3 DEF Api!Next
<1>5. CASE \/ opendal_operator_write \/ opendal_operator_create_dir
           \/ opendal_operator_delete \/ opendal_operator_copy
           \/ opendal_operator_rename
  <2>1. PICK op \in Owned("operator") : Status(op)
    BY <1>5 DEF opendal_operator_write, opendal_operator_create_dir,
       opendal_operator_delete, opendal_operator_copy, opendal_operator_rename
  <2> QED BY <2>1, <1>h, Statuses DEF Api!Next, Api!opendal_operator_write
<1>6. CASE opendal_operator_is_exist
  <2>1. PICK op \in Owned("operator") :
            \/ \E v \in {"some", Null} : NewNothing /\ Returns("exist", op, v, Null)
            \/ FailsWith(Codes, "exist", op)
    BY <1>6 DEF opendal_operator_is_exist, Fails
  <2>2. Api!opendal_operator_is_exist
    <3>1. ASSUME NEW v, NewNothing, Returns("exist", op, v, Null)
          PROVE  Api!opendal_operator_is_exist
      <4>1. apiResult' = [is_exist |-> v # Null, error |-> Null]
        BY <3>1
      <4>2. apiResult' \in [is_exist : BOOLEAN, error : {Null}]
        BY <4>1
      <4> QED BY <3>1, <4>2, <2>1, <1>h, KeepsHandles DEF Api!opendal_operator_is_exist
    <3>2. CASE FailsWith(Codes, "exist", op)
      <4>1. apiResult' = HeaderResult(Ret("exist", op, Null, Struct))
        BY <3>2, Errs
      <4>2. HeaderResult(Ret("exist", op, Null, Struct))
              = [is_exist |-> FALSE, error |-> Struct]
        BY DEF HeaderResult, Ret
      <4> QED BY <3>2, <4>1, <4>2, <2>1, <1>h, Errs DEF Api!opendal_operator_is_exist
    <3> QED BY <2>1, <3>1, <3>2
  <2> QED BY <2>2 DEF Api!Next
<1>7. CASE opendal_operator_read
  <2>1. Api!opendal_operator_read
    BY <1>7, <1>h, GivesHandle DEF opendal_operator_read, Api!opendal_operator_read
  <2> QED BY <2>1 DEF Api!Next
<1>8. CASE opendal_operator_stat
  <2>1. Api!opendal_operator_stat
    BY <1>8, <1>h, GivesHandle DEF opendal_operator_stat, Api!opendal_operator_stat
  <2> QED BY <2>1 DEF Api!Next
<1>9. CASE opendal_operator_reader
  <2>1. Api!opendal_operator_reader
    BY <1>9, <1>h, GivesHandle DEF opendal_operator_reader, Api!opendal_operator_reader
  <2> QED BY <2>1 DEF Api!Next
<1>10. CASE opendal_operator_list
  <2>1. Api!opendal_operator_list
    BY <1>10, <1>h, GivesHandle DEF opendal_operator_list, Api!opendal_operator_list
  <2> QED BY <2>1 DEF Api!Next
<1>11. CASE opendal_lister_next
  <2>1. PICK l \in Owned("lister") :
            \/ Boxes("entry", Nothing) /\ Returns("next", l, Struct, Null)
            \/ (\E code \in Codes : Boxes("error", code)) /\ Returns("next", l, Null, Struct)
            \/ NewNothing /\ Returns("next", l, Null, Null)
    BY <1>11 DEF opendal_lister_next, NextFails
  <2>2. Api!opendal_lister_next
    BY <2>1, <1>h, HandsBoxes, KeepsHandles DEF Api!opendal_lister_next, Api!Error
  <2> QED BY <2>2 DEF Api!Next
<1>12. CASE opendal_reader_read
  <2>1. PICK rd \in Owned("reader") :
            \/ ReadSome(rd)
            \/ FailsWith({"OPENDAL_UNEXPECTED"}, "read", rd)
            \/ NewNothing /\ Returns("read", rd, Null, Null)
            \/ NewNothing /\ Returns("empty_read", rd, Null, Null)
    BY <1>12 DEF opendal_reader_read
  <2>2. rd \in Api!Held("reader")
    BY <1>h
  <2>3. ASSUME ReadSome(rd) PROVE Api!opendal_reader_read
    <3>1. Api!Keep
      BY <2>3 DEF ReadSome, Api!Keep, apiHandles, apiSays, Boxed
    <3>2. apiResult' = [size |-> 1, error |-> Null]
      BY <2>3, OpenDalAssumption DEF ReadSome
    <3> QED BY <2>2, <3>1, <3>2 DEF Api!opendal_reader_read
  <2>4. ASSUME FailsWith({"OPENDAL_UNEXPECTED"}, "read", rd)
        PROVE  Api!opendal_reader_read
    <3>1. apiResult' = [size |-> 0, error |-> Struct]
      BY <2>4, Errs, OpenDalAssumption
    <3> QED BY <2>2, <2>4, <3>1, Errs, OpenDalAssumption DEF Api!opendal_reader_read
  <2>5. ASSUME NewNothing, \/ Returns("read", rd, Null, Null)
                           \/ Returns("empty_read", rd, Null, Null)
        PROVE  Api!opendal_reader_read
    <3>1. apiResult' = [size |-> 0, error |-> Null]
      BY <2>5
    <3> QED BY <2>2, <2>5, <3>1, KeepsHandles DEF Api!opendal_reader_read
  <2> QED BY <2>1, <2>3, <2>4, <2>5 DEF Api!Next
<1>13. CASE opendal_entry_string
  <2>1. Api!opendal_entry_string
    BY <1>13, <1>h, HandsString DEF opendal_entry_string, Api!opendal_entry_string
  <2> QED BY <2>1 DEF Api!Next
<1>14. CASE opendal_operator_info_string
  <2>1. Api!opendal_operator_info_string
    BY <1>14, <1>h, HandsString
    DEF opendal_operator_info_string, Api!opendal_operator_info_string
  <2> QED BY <2>1 DEF Api!Next
<1>15. CASE FreeNull
  <2>1. Api!FreeNull
    BY <1>15, KeepsHandles DEF FreeNull, Api!FreeNull, apiResult
  <2> QED BY <2>1 DEF Api!Next
<1>16. CASE \E a \in owned : Release(a)
  BY <1>16, FreesHandle DEF Api!Next
<1> QED
  BY <1>1, <1>2, <1>3, <1>4, <1>5, <1>6, <1>7, <1>8, <1>9, <1>10, <1>11, <1>12,
     <1>13, <1>14, <1>15, <1>16, FreesRelease DEF Next, Call

LEMMA InitRefines == Init => Api!Init
BY ResultIs DEF Init, Api!Init, apiHandles, apiSays, apiResult, Boxed

(* For any number of handles the binding is what its header says: each     *)
(* handle keeps what it was made with, and a result is a handle the caller *)
(* did not have, or an error (operator.rs 176-180, types.rs 118-133).      *)
THEOREM RefinesApi == Spec => ImplementsApi
<1>1. UNCHANGED vars => UNCHANGED Api!vars
  BY DEF vars, Api!vars, apiHandles, apiSays, apiResult, Boxed
<1> QED BY <1>1, InitRefines, StepIsApi, HeapInductive, PTL
        DEF Spec, ImplementsApi, Api!Spec
-----------------------------------------------------------------------------
(* The parts of the type invariant that the heap has not.                  *)
LeftOK == left \in [Addr -> 0 .. MaxLeft]
Counted == LeftOK /\ ret.on \in Ptr /\ crashed \in BOOLEAN

(* No step leaves an entry or a chunk too many, and a call was on a handle.*)
LEMMA StepsCount == HeapInv /\ Counted /\ Next => Counted'
<1> SUFFICES ASSUME HeapInv, Counted, Next PROVE Counted'
  OBVIOUS
<1> USE OpenDalAssumption DEF Returns, Counted, LeftOK, Ptr
<1>o. \A kind : Owned(kind) \subseteq Addr
  BY DEF Owned, HeapInv, HeapType
<1>1. \A kind, c : \A n \in 0 .. MaxLeft : New(kind, c, n) => LeftOK'
  BY StructIsFree DEF New, Boxes
<1>2. \A codes, fn : \A on \in Ptr : FailsWith(codes, fn, on) => Counted'
  BY <1>1 DEF FailsWith
<1>3. \A kind : \A on \in Ptr, n \in 0 .. MaxLeft : Gives(kind, on, n) => Counted'
  BY <1>1, <1>2 DEF Gives, Fails
<1>4. \A fn, val, err : \A on \in Ptr : NewNothing /\ Returns(fn, on, val, err) => Counted'
  BY DEF NewNothing
<1>5. \A on \in Ptr : Status(on) => Counted'
  BY <1>2, <1>4 DEF Status, Fails
<1>6. CASE \/ opendal_operator_options_new \/ opendal_operator_options_set
           \/ opendal_operator_new \/ opendal_operator_info_new
  BY <1>1, <1>2, <1>6, <1>o DEF opendal_operator_options_new,
     opendal_operator_options_set, opendal_operator_new,
     opendal_operator_info_new, Fails, NoResult
<1>7. CASE \/ opendal_operator_write \/ opendal_operator_create_dir
           \/ opendal_operator_delete \/ opendal_operator_copy
           \/ opendal_operator_rename \/ opendal_operator_is_exist
  BY <1>2, <1>4, <1>5, <1>7, <1>o DEF Fails, opendal_operator_write, opendal_operator_create_dir,
     opendal_operator_delete, opendal_operator_copy, opendal_operator_rename,
     opendal_operator_is_exist
<1>8. CASE \/ opendal_operator_read \/ opendal_operator_stat
           \/ opendal_operator_reader \/ opendal_operator_list
  BY <1>3, <1>8, <1>o DEF opendal_operator_read, opendal_operator_stat,
     opendal_operator_reader, opendal_operator_list
<1>9. CASE opendal_lister_next
  <2>1. PICK l \in Owned("lister") :
            \/ /\ left[l] > 0 /\ left' = [left EXCEPT ![l] = @ - 1]
               /\ Returns("next", l, Struct, Null)
            \/ left' = [left EXCEPT ![l] = 0] /\ Returns("next", l, Null, Struct)
            \/ NewNothing /\ Returns("next", l, Null, Null)
    BY <1>9 DEF opendal_lister_next, NextFails
  <2> QED BY <2>1, <1>o, <1>4
<1>10. CASE opendal_reader_read
  <2>1. \A rd \in Owned("reader") : ReadSome(rd) => Counted'
    BY <1>o DEF ReadSome
  <2> QED BY <2>1, <1>2, <1>4, <1>10, <1>o DEF opendal_reader_read
<1>11. CASE opendal_entry_string \/ opendal_operator_info_string
  BY <1>11, <1>o DEF opendal_entry_string, opendal_operator_info_string, NewString
<1>12. CASE Frees
  <2>1. \A a \in owned : Release(a) => Counted'
    BY DEF Release, NoResult, HeapInv, HeapType
  <2>2. FreeNull => Counted'
    BY DEF FreeNull, NewNothing, NoResult
  <2> QED BY <1>12, <2>1, <2>2, FreesRelease
<1> QED
  BY <1>6, <1>7, <1>8, <1>9, <1>10, <1>11, <1>12 DEF Next, Call

(* Whatever the header lets a call return has one of its types.            *)
LEMMA ApiResults == Api!Next => apiResult' \in Results
<1> USE DEF Results, Ptr, opendal_result_operator_new, opendal_result_read,
    opendal_result_operator_reader, opendal_result_is_exist, opendal_result_stat,
    opendal_result_list, opendal_result_lister_next, opendal_result_reader_read,
    Pointer
<1>v. Api!Void \in Results
  BY DEF Void, Api!Void
<1>1. Api!Status => apiResult' \in Results
  BY DEF Api!Status
<1>2. CASE \/ Api!opendal_operator_options_new \/ Api!opendal_operator_options_set
           \/ Api!opendal_operator_new \/ Api!opendal_operator_info_new
  BY <1>2, <1>v DEF Api!opendal_operator_options_new, Api!opendal_operator_options_set,
     Api!opendal_operator_new, Api!opendal_operator_info_new
<1>3. CASE \/ Api!opendal_operator_write \/ Api!opendal_operator_create_dir
           \/ Api!opendal_operator_delete \/ Api!opendal_operator_copy
           \/ Api!opendal_operator_rename
  BY <1>1, <1>3 DEF Api!opendal_operator_write, Api!opendal_operator_create_dir,
     Api!opendal_operator_delete, Api!opendal_operator_copy, Api!opendal_operator_rename
<1>4. CASE Api!opendal_operator_is_exist
  <2>1. CASE apiResult' \in [is_exist : BOOLEAN, error : {Null}]
    BY <2>1
  <2>2. CASE \E h \in Addr : apiResult' = [is_exist |-> FALSE, error |-> h]
    BY <2>2
  <2> QED BY <1>4, <2>1, <2>2 DEF Api!opendal_operator_is_exist
<1>9. CASE Api!opendal_operator_read
  BY <1>9 DEF Api!opendal_operator_read
<1>5. CASE \/ Api!opendal_operator_stat \/ Api!opendal_operator_reader
           \/ Api!opendal_operator_list
  BY <1>5 DEF Api!opendal_operator_stat, Api!opendal_operator_reader,
     Api!opendal_operator_list
<1>6. CASE Api!opendal_lister_next \/ Api!opendal_reader_read
  BY <1>6 DEF Api!opendal_lister_next, Api!opendal_reader_read
<1>7. CASE Api!opendal_entry_string \/ Api!opendal_operator_info_string
  BY <1>7 DEF Api!opendal_entry_string, Api!opendal_operator_info_string
<1>8. CASE Api!Free \/ Api!FreeNull
  BY <1>8, <1>v DEF Api!Free, Api!FreeNull
<1> QED BY <1>2, <1>3, <1>4, <1>5, <1>6, <1>7, <1>8, <1>9 DEF Api!Next

(* Whatever the order of calls and frees, the state has its types, and     *)
(* every call returns the struct its declaration in opendal_c.h says.      *)
THEOREM TypeCorrect == Spec => []TypeOK
<1> DEFINE TInv == Counted /\ apiResult \in Results
<1>1. Init => TInv
  <2>1. MaxLeft \in Nat
    BY OpenDalAssumption
  <2>2. Init => LeftOK
    BY <2>1 DEF Init, LeftOK
  <2>3. Init => ret.on \in Ptr
    BY DEF Init, NoResult, Ptr
  <2>4. Init => apiResult = Api!Void
    BY ResultIs DEF Init, apiResult
  <2>5. Api!Void \in Results
    BY DEF Results, Void, Api!Void
  <2> QED BY <2>2, <2>3, <2>4, <2>5 DEF Init, Counted
<1>2. HeapInv /\ TInv /\ [Next]_vars => TInv'
  <2>1. HeapInv /\ TInv /\ Next => TInv'
    <3>1. HeapInv /\ Next => apiResult' \in Results
      <4>1. HeapInv /\ Next => Api!Next
        BY StepIsApi
      <4> QED BY <4>1, ApiResults
    <3> QED BY <3>1, StepsCount
  <2>2. TInv /\ UNCHANGED vars => TInv'
    BY DEF vars, Counted, LeftOK, apiResult
  <2> QED BY <2>1, <2>2
<1>3. HeapInv /\ TInv => TypeOK
  BY DEF HeapInv, HeapType, Counted, LeftOK, TypeOK
<1> HIDE DEF TInv
<1> QED BY <1>1, <1>2, <1>3, HeapInductive, PTL DEF Spec

(* Nothing else a caller does makes the binding follow a null pointer.     *)
LEMMA CallsKeepCrashed == Call => UNCHANGED crashed
<1> USE DEF Returns, FailsWith, Fails, Gives, Status
<1> QED
  BY DEF Call, opendal_operator_options_new, opendal_operator_options_set,
     opendal_operator_new, opendal_operator_info_new, opendal_operator_write,
     opendal_operator_create_dir, opendal_operator_delete, opendal_operator_copy,
     opendal_operator_rename, opendal_operator_is_exist, opendal_operator_read,
     opendal_operator_stat, opendal_operator_reader, opendal_operator_list,
     opendal_lister_next, NextFails, opendal_reader_read, ReadSome,
     opendal_entry_string, opendal_operator_info_string

-----------------------------------------------------------------------------
(* The example programs.  The handles a program of the memory service      *)
(* holds at each of its statements.                                        *)
Holds(a, kind) == a \in owned /\ struct[a] = kind

MemoryHandles ==
    /\ pc \in {"start", "done"} => owned = {}
    /\ pc \in {"write", "read", "close"} =>
          \E op \in owned : struct[op] = "operator" /\ owned = {op}
    /\ (pc = "print" /\ program = "basic") =>
          /\ Holds(r.val, "bytes")
          /\ \E op \in owned : struct[op] = "operator" /\ owned = {op, r.val}
    /\ (pc = "print" /\ program = "error_handle") =>
          /\ Holds(r.err, "error")
          /\ \E op \in owned : struct[op] = "operator" /\ owned = {op, r.err}
    /\ program = "error_handle" => pc # "write" /\ ~stored
    /\ pc = "aborted" => \E e \in owned : struct[e] = "error"
    /\ strings = {} /\ reader = "none"

(* A csv program has printed the first rows, all of them records, and at   *)
(* each statement the reader is right after them or after one more.        *)
CsvRows ==
    /\ rows \in Seq(Row) /\ printed \in Seq(Nat) /\ at \in 0 .. Len(rows)
    /\ Len(printed) <= at
    /\ \A i \in 1 .. Len(printed) : printed[i] = i /\ rows[i] = "record"

CsvPlace ==
    /\ pc \in {"start", "read", "print", "close", "done", "aborted"}
    /\ pc \in {"print", "close"} => reader = "open"
    /\ pc \in {"start", "done"} => reader = "none"
    /\ pc \in {"start", "read", "print"} => ~broken
    /\ pc \in {"start", "read"} => Len(printed) = at
    /\ (pc = "start" \/ (pc = "read" /\ reader = "none")) => printed = <<>>
    /\ (pc = "read" /\ reader = "none") => program = "csv_go"
    /\ pc = "aborted" => program = "csv_go" /\ reader = "none" /\ printed = <<>>
    /\ pc = "print" =>
          /\ record = at /\ at = Len(printed) + 1
          /\ rows[at] = "record" /\ strings = {at}
    /\ pc # "print" => strings = {}
    /\ pc = "close" =>
          broken \/ Len(printed) = Len(rows) \/ rows[Len(printed) + 1] = "malformed"

ProgramInv ==
    /\ program \in Memory \cup Csv /\ ~crashed
    /\ program \in Memory => MemoryHandles /\ printed = <<>>
    /\ program \in Csv => CsvRows /\ CsvPlace /\ owned = {} /\ live = {}

(* What a program has still to do.                                         *)
MemoryLeft ==
    CASE pc = "start" -> 5 [] pc = "write" -> 4 [] pc = "read" -> 3
      [] pc = "print" -> 2 [] pc = "close" -> 1 [] OTHER -> 0

CsvLeft ==
    2 * (Len(rows) - at)
    + CASE pc = "start" -> 4 [] pc = "print" -> 3 [] pc = "read" -> 2
        [] pc = "close" -> 1 [] OTHER -> 0

StatementsLeft == IF program \in Memory THEN MemoryLeft ELSE CsvLeft

(* The calls of a program are calls of the binding: what holds of every    *)
(* caller holds of it.                                                     *)
LEMMA ProgramsCall ==
    ASSUME program \in Memory,
           \/ NewOperator \/ Write \/ Read
           \/ PrintData \/ PrintMessage \/ FreeOperator
    PROVE  Call \/ \E a \in owned : Release(a)
BY DEF NewOperator, Write, Read, PrintData, PrintMessage, FreeOperator, Owned, Call,
   opendal_bytes_free, opendal_error_free, opendal_operator_free

LEMMA ProgramsStep ==
    ASSUME ProgramInv, [ExamplesNext]_allVars PROVE [Next]_vars /\ ~crashed'
<1>1. CASE \/ NewOperator \/ Write \/ Read \/ PrintData \/ PrintMessage \/ FreeOperator
  <2>1. program \in Memory
    BY <1>1 DEF NewOperator, Write, Read, PrintData, PrintMessage, FreeOperator,
       ProgramInv, CsvPlace, Memory, Csv
  <2>2. Call \/ \E a \in owned : Release(a)
    BY <1>1, <2>1, ProgramsCall
  <2>3. UNCHANGED crashed
    BY <2>2, CallsKeepCrashed DEF Release
  <2>4. ~crashed
    BY DEF ProgramInv
  <2>5. Call \/ Frees
    BY <1>1 DEF NewOperator, Write, Read, PrintData, PrintMessage, FreeOperator, Call, Frees
  <2> QED BY <2>3, <2>4, <2>5 DEF Next
<1>2. CASE \/ OpenFile \/ ReadRecord \/ ReadOfNull \/ PrintRecord \/ FreeReader
           \/ UNCHANGED allVars
  BY <1>2 DEF OpenFile, ReadRecord, ReadOfNull, PrintRecord, FreeReader, allVars, vars,
     ProgramInv
<1> QED BY <1>1, <1>2 DEF ExamplesNext

-----------------------------------------------------------------------------
(* A program of the memory service: what each of its statements does to    *)
(* the handles it holds.                                                   *)
LEMMA NewHandle ==
    ASSUME HeapInv, NEW kind \in Kind, NEW c, NEW n, New(kind, c, n)
    PROVE  /\ Struct \in Addr \ owned
           /\ owned' = owned \cup {Struct}
           /\ struct'[Struct] = kind
           /\ \A a \in owned : struct'[a] = struct[a]
<1> USE OpenDalAssumption
<1>1. Struct \in Addr /\ struct[Struct] = "free"
  BY StructIsFree DEF New, Boxes
<1>2. struct' = [struct EXCEPT ![Struct] = kind] /\ owned' = owned \cup {Struct}
  BY DEF New, Boxes
<1>3. Struct \notin owned
  BY <1>1 DEF HeapInv, HandlesIntact, Kind
<1> QED BY <1>1, <1>2, <1>3 DEF HeapInv, HeapType

LEMMA ReleasedHandle ==
    ASSUME HeapInv, NEW a \in owned, Release(a)
    PROVE  /\ owned' = owned \ {a}
           /\ \A b \in owned' : struct'[b] = struct[b]
BY DEF Release, HeapInv, HeapType

LEMMA MemoryStep ==
    ASSUME HeapInv, MemoryHandles, program \in Memory, Null \notin Addr,
           NewOperator \/ Write \/ Read \/ PrintData \/ PrintMessage \/ FreeOperator
    PROVE  MemoryHandles'
<1> USE DEF Kind, Memory
<1>c. /\ UNCHANGED <<strings, reader, program>> /\ strings = {} /\ reader = "none"
      /\ program = "error_handle" => pc' # "write" /\ ~stored'
  BY DEF NewOperator, Write, Read, PrintData, PrintMessage, FreeOperator, csvVars,
     MemoryHandles, Assert
<1>1. CASE NewOperator
  <2>1. owned = {}
    BY <1>1 DEF NewOperator, MemoryHandles
  <2>2. ASSUME NEW c, New("operator", c, 0), Returns("operator", Null, Struct, Null)
        PROVE  MemoryHandles'
    <3>1. \E op \in owned' : struct'[op] = "operator" /\ owned' = {op}
      BY <2>1, <2>2, NewHandle
    <3>2. pc' \in {"write", "read"}
      <4>1. ret'.val = Struct /\ ret'.err = Null /\ Struct # Null
        BY <2>2, NewHandle DEF Returns
      <4> QED BY <1>1, <4>1 DEF NewOperator, Assert
    <3> QED BY <1>c, <3>1, <3>2 DEF MemoryHandles
  <2>3. ASSUME Fails("operator", Null) PROVE MemoryHandles'
    <3>1. ret'.val = Null
      BY <2>3 DEF Fails, FailsWith, Returns
    <3>2. pc' = "aborted"
      BY <1>1, <3>1 DEF NewOperator, Assert
    <3>3. \E e \in owned' : struct'[e] = "error"
      BY <2>3, NewHandle DEF Fails, FailsWith
    <3> QED BY <1>c, <3>2, <3>3 DEF MemoryHandles
  <2> QED BY <1>1, <2>2, <2>3 DEF NewOperator, opendal_operator_new
<1>2. CASE Write
  <2>1. PICK op \in owned : Status(op)
    BY <1>2 DEF Write, opendal_operator_write, Owned
  <2>2. CASE NewNothing /\ Returns("status", op, Null, Null)
    <3>1. pc = "write" /\ pc' = "read"
      BY <1>2, <2>2 DEF Write, Assert, Returns
    <3> QED BY <1>c, <2>2, <3>1 DEF MemoryHandles, NewNothing
  <2>3. CASE Fails("status", op)
    <3>1. ret'.err = Struct /\ Struct \in Addr
      BY <2>3, StructIsFree DEF Fails, FailsWith, New, Boxes, Returns
    <3>2. pc' = "aborted"
      BY <1>2, <3>1 DEF Write, Assert
    <3>3. \E e \in owned' : struct'[e] = "error"
      BY <2>3, NewHandle DEF Fails, FailsWith
    <3> QED BY <1>c, <3>2, <3>3 DEF MemoryHandles
  <2> QED BY <2>1, <2>2, <2>3 DEF Status
<1>3. CASE Read
  <2>1. PICK op \in owned : struct[op] = "operator" /\ owned = {op}
    BY <1>3 DEF Read, MemoryHandles
  <2>2. Gives("bytes", op, 0)
    BY <1>3, <2>1 DEF Read, opendal_operator_read, Owned
  <2>3. r' = ret' /\ pc' = IF ReadExpected THEN "print" ELSE "aborted"
    BY <1>3 DEF Read, Assert
  <2>4. ASSUME New("bytes", Nothing, 0), Returns("bytes", op, Struct, Null)
        PROVE  MemoryHandles'
    <3>1. r'.val = Struct /\ r'.err = Null
      BY <2>3, <2>4 DEF Returns
    <3>2. /\ Struct \in owned' /\ struct'[Struct] = "bytes"
          /\ op \in owned' /\ struct'[op] = "operator" /\ owned' = {op, Struct}
      BY <2>1, <2>4, NewHandle
    <3>3. pc' = "print" /\ program = "basic"
      <4>1. ret'.err = Null /\ stored
        BY <1>3, <2>4 DEF Returns, Read, ReadAnswer
      <4>2. program = "basic"
        BY <4>1 DEF MemoryHandles
      <4> QED BY <2>3, <4>1, <4>2 DEF ReadExpected
    <3> QED BY <1>c, <3>1, <3>2, <3>3 DEF MemoryHandles, Holds
  <2>5. ASSUME NEW code, New("error", code, 0), Returns("bytes", op, Null, Struct)
        PROVE  MemoryHandles'
    <3>1. r'.err = Struct
      BY <2>3, <2>5 DEF Returns
    <3>2. /\ Struct \in owned' /\ struct'[Struct] = "error"
          /\ op \in owned' /\ struct'[op] = "operator" /\ owned' = {op, Struct}
          /\ Struct # Null
      BY <2>1, <2>5, NewHandle
    <3>3. pc' = "aborted" \/ (pc' = "print" /\ program = "error_handle")
      BY <2>3, <2>5, <3>1, <3>2 DEF ReadExpected, Returns
    <3> QED BY <1>c, <3>1, <3>2, <3>3 DEF MemoryHandles, Holds
  <2> QED BY <2>2, <2>4, <2>5 DEF Gives, Fails, FailsWith
<1>4. CASE PrintData
  <2>1. PICK op \in owned : struct[op] = "operator" /\ owned = {op, r.val}
    BY <1>4 DEF PrintData, MemoryHandles
  <2>2. PICK a \in owned : struct[a] = "bytes" /\ Release(a)
    BY <1>4 DEF PrintData, opendal_bytes_free, Owned
  <2>3. owned' = {op} /\ struct'[op] = "operator"
    BY <2>1, <2>2, ReleasedHandle
  <2> QED BY <1>4, <1>c, <2>3 DEF PrintData, MemoryHandles
<1>5. CASE PrintMessage
  <2>1. PICK op \in owned : struct[op] = "operator" /\ owned = {op, r.err}
    BY <1>5 DEF PrintMessage, MemoryHandles
  <2>2. PICK a \in owned : struct[a] = "error" /\ Release(a)
    BY <1>5 DEF PrintMessage, opendal_error_free, Owned
  <2>3. owned' = {op} /\ struct'[op] = "operator"
    BY <2>1, <2>2, ReleasedHandle
  <2> QED BY <1>5, <1>c, <2>3 DEF PrintMessage, MemoryHandles
<1>6. CASE FreeOperator
  <2>1. PICK op \in owned : owned = {op}
    BY <1>6 DEF FreeOperator, MemoryHandles
  <2>2. PICK a \in owned : Release(a)
    BY <1>6 DEF FreeOperator, opendal_operator_free, Owned
  <2>3. owned' = {}
    BY <2>1, <2>2, ReleasedHandle
  <2> QED BY <1>6, <1>c, <2>3 DEF FreeOperator, MemoryHandles
<1> QED BY <1>1, <1>2, <1>3, <1>4, <1>5, <1>6

-----------------------------------------------------------------------------
(* A program of the csv wrapper: what each statement does to the rows.     *)
LEMMA CsvStep ==
    ASSUME CsvRows, CsvPlace, program \in Csv,
           OpenFile \/ ReadRecord \/ ReadOfNull \/ PrintRecord \/ FreeReader
    PROVE  CsvRows' /\ CsvPlace'
<1> USE CsvAssumption DEF CsvRows, CsvPlace, Row
<1>1. CASE OpenFile
  <2>1. /\ pc = "start" /\ reader' \in {"open", "none"}
        /\ UNCHANGED <<rows, at, broken, strings, program, printed>>
        /\ pc' = "read" \/ (pc' = "done" /\ reader' = "none")
    BY <1>1 DEF OpenFile, csv_reader_new
  <2>2. (pc' = "read" /\ reader' = "none") => program = "csv_go"
    BY <1>1 DEF OpenFile, Csv
  <2> QED BY <2>1, <2>2
<1>2. CASE ReadRecord
  <2>1. /\ pc = "read" /\ UNCHANGED <<rows, reader, printed>> /\ reader = "open"
        /\ pc' = IF record' = NullPtr THEN "close" ELSE "print"
    BY <1>2 DEF ReadRecord, csv_reader_read_record
  <2>2. CASE Record
    <3>1. at < Len(rows) /\ rows[at + 1] = "record" /\ at' = at + 1
      BY <2>2 DEF Record
    <3>2. record' = at + 1 /\ strings' = {at + 1} /\ broken' = broken
      BY <2>1, <2>2 DEF Record
    <3>3. pc' = "print"
      BY <2>1, <3>2
    <3> QED BY <2>1, <3>1, <3>2, <3>3
  <2>3. CASE Malformed
    BY <2>1, <2>3 DEF Malformed
  <2>4. CASE AtEnd
    BY <2>1, <2>4 DEF AtEnd
  <2>5. CASE FileFails
    BY <2>1, <2>5 DEF FileFails
  <2> QED BY <1>2, <2>2, <2>3, <2>4, <2>5 DEF ReadRecord, csv_reader_read_record
<1>3. CASE ReadOfNull
  BY <1>3 DEF ReadOfNull, csvVars
<1>4. CASE PrintRecord
  <2>1. /\ pc = "print" /\ pc' = "read" /\ UNCHANGED <<rows, at, broken, reader>>
        /\ printed' = Append(printed, at) /\ strings' = {}
    BY <1>4 DEF PrintRecord, free_string
  <2>2. /\ printed' \in Seq(Nat) /\ Len(printed') = at
        /\ \A i \in 1 .. Len(printed) : printed'[i] = printed[i]
        /\ printed'[at] = at
    BY <2>1
  <2>3. ASSUME NEW i \in 1 .. Len(printed') PROVE printed'[i] = i /\ rows'[i] = "record"
    <3>1. CASE i = at
      BY <2>1, <2>2, <3>1
    <3>2. CASE i # at
      <4>1. i \in 1 .. Len(printed)
        BY <2>1, <2>2, <3>2
      <4> QED BY <2>1, <2>2, <4>1
    <3> QED BY <3>1, <3>2
  <2>4. CsvRows'
    BY <2>1, <2>2, <2>3
  <2> QED BY <2>1, <2>2, <2>4
<1>5. CASE FreeReader
  BY <1>5 DEF FreeReader, csv_reader_free
<1> QED BY <1>1, <1>2, <1>3, <1>4, <1>5

LEMMA ProgramInductive == ExamplesSpec => [](HeapInv /\ ProgramInv)
<1>1. ExamplesInit => HeapInv /\ ProgramInv
  <2>1. ExamplesInit => HeapInv
    BY HeapInit DEF ExamplesInit
  <2>2. ExamplesInit => rows \in Seq(Row) /\ at = 0 /\ printed = <<>>
    <3>1. \A n \in Nat : \A s \in [1 .. n -> Row] : s \in Seq(Row)
      OBVIOUS
    <3> QED BY <3>1, CsvAssumption DEF ExamplesInit, CsvInit
  <2>3. ExamplesInit => ProgramInv
    BY <2>2 DEF ExamplesInit, Init, CsvInit, ProgramInv, MemoryHandles, CsvRows, CsvPlace
  <2> QED BY <2>1, <2>3
<1>2. HeapInv /\ ProgramInv /\ [ExamplesNext]_allVars => HeapInv' /\ ProgramInv'
  <2> SUFFICES ASSUME HeapInv, ProgramInv, [ExamplesNext]_allVars
               PROVE  HeapInv' /\ ProgramInv'
    OBVIOUS
  <2>1. [Next]_vars /\ ~crashed'
    BY ProgramsStep
  <2>2. HeapInv'
    <3>1. UNCHANGED vars => HeapStep
      BY DEF vars, HeapStep, heapVars
    <3> QED BY <2>1, <3>1, StepsOfTheHeap, HeapKept
  <2>3. CASE NewOperator \/ Write \/ Read \/ PrintData \/ PrintMessage \/ FreeOperator
    <3>1. program \in Memory
      BY <2>3 DEF NewOperator, Write, Read, PrintData, PrintMessage, FreeOperator,
         ProgramInv, CsvPlace, Memory, Csv
    <3>2. UNCHANGED <<program, printed>>
      BY <2>3 DEF NewOperator, Write, Read, PrintData, PrintMessage, FreeOperator
    <3>3. MemoryHandles'
      BY <2>3, <3>1, MemoryStep, OpenDalAssumption DEF ProgramInv
    <3> QED BY <2>1, <2>2, <3>1, <3>2, <3>3 DEF ProgramInv, Memory, Csv
  <2>4. CASE OpenFile \/ ReadRecord \/ ReadOfNull \/ PrintRecord \/ FreeReader
    <3>1. program \in Csv /\ UNCHANGED <<program, owned, live>>
      BY <2>4 DEF OpenFile, ReadRecord, ReadOfNull, PrintRecord, FreeReader, vars
    <3>2. CsvRows' /\ CsvPlace'
      BY <2>4, <3>1, CsvStep DEF ProgramInv
    <3> QED BY <2>1, <2>2, <3>1, <3>2 DEF ProgramInv, Memory, Csv
  <2>5. CASE UNCHANGED allVars
    BY <2>2, <2>5 DEF ProgramInv, allVars, vars, csvVars, exampleVars, MemoryHandles,
       Holds, CsvRows, CsvPlace
  <2> QED BY <2>3, <2>4, <2>5 DEF ExamplesNext
<1> QED BY <1>1, <1>2, PTL DEF ExamplesSpec

(* Each program calls the binding as any caller may, so that all that is   *)
(* proved of the binding holds while it runs (basic.c 22-60,               *)
(* error_handle.c 20-50).                                                  *)
THEOREM ProgramsAreCallers == ExamplesSpec => Spec
<1>1. ExamplesInit => Init
  BY DEF ExamplesInit
<1>2. ProgramInv /\ [ExamplesNext]_allVars => [Next]_vars
  BY ProgramsStep
<1> QED BY <1>1, <1>2, ProgramInductive, PTL DEF ExamplesSpec, Spec

(* What a program reads through a pointer is there (basic.c 46-51,         *)
(* error_handle.c 36-42, main.c 8-11).                                     *)
THEOREM PointersValid == ExamplesSpec => []UsesWhatIsThere
<1>1. ProgramInv => UsesWhatIsThere
  BY DEF ProgramInv, UsesWhatIsThere, MemoryHandles, Holds, Owned, CsvPlace, Memory, Csv
<1> QED BY <1>1, ProgramInductive, PTL

(* A program that comes to its end has released what it was given          *)
(* (basic.c 55-59, error_handle.c 45-49, main.c 10-12, csv.go 10-17).      *)
THEOREM ProgramsRelease == ExamplesSpec => []ReleasesAll
<1>1. HeapInv /\ ProgramInv => ReleasesAll
  BY DEF HeapInv, NothingLost, Boxed, ProgramInv, ReleasesAll, MemoryHandles, CsvPlace
<1> QED BY <1>1, ProgramInductive, PTL

(* No assertion fails on its own: a program of the memory service is       *)
(* aborted only on an error that a call has given it, and csv.go only when *)
(* its file cannot be opened, before it has anything to release (basic.c   *)
(* 28-47, error_handle.c 29-37, csv.go 9-11, lib.rs 41).                   *)
THEOREM AbortsExplained == ExamplesSpec => []AbortsHaveACause
<1>1. ProgramInv => AbortsHaveACause
  BY DEF ProgramInv, AbortsHaveACause, MemoryHandles, CsvPlace, Owned, Memory, Csv
<1> QED BY <1>1, ProgramInductive, PTL

(* For a file of any length the records are printed in order and without   *)
(* gaps, up to the first that the wrapper cannot give (lib.rs 46-52).      *)
THEOREM RecordsInOrder == ExamplesSpec => []CutShortOnlyByError
<1>1. ProgramInv => CutShortOnlyByError
  BY DEF ProgramInv, CutShortOnlyByError, CsvRows, CsvPlace
<1> QED BY <1>1, ProgramInductive, PTL

(* Whatever fails, a program has only so many statements left: each step   *)
(* takes one, so that the loops over the records end (main.c 8-11, csv.go  *)
(* 11-18).                                                                 *)
THEOREM ProgramsAreFinite ==
    ExamplesSpec => [](StatementsLeft \in Nat)
                    /\ [][StatementsLeft' < StatementsLeft]_allVars
<1>1. ProgramInv => StatementsLeft \in Nat
  BY DEF ProgramInv, StatementsLeft, MemoryLeft, CsvLeft, CsvRows, Memory, Csv
<1>2. ProgramInv /\ ProgramInv' /\ [ExamplesNext]_allVars
        => [StatementsLeft' < StatementsLeft]_allVars
  <2> SUFFICES ASSUME ProgramInv, ProgramInv', ExamplesNext
               PROVE  StatementsLeft' < StatementsLeft
    OBVIOUS
  <2>1. CASE NewOperator \/ Write \/ Read \/ PrintData \/ PrintMessage \/ FreeOperator
    <3>1. program \in Memory /\ UNCHANGED program
      BY <2>1 DEF NewOperator, Write, Read, PrintData, PrintMessage, FreeOperator,
         ProgramInv, CsvPlace, Memory, Csv
    <3>2. MemoryLeft' < MemoryLeft
      BY <2>1 DEF NewOperator, Write, Read, PrintData, PrintMessage, FreeOperator,
         Assert, MemoryLeft
    <3> QED BY <3>1, <3>2 DEF StatementsLeft
  <2>2. CASE OpenFile \/ ReadRecord \/ ReadOfNull \/ PrintRecord \/ FreeReader
    <3>1. program \in Csv /\ program \notin Memory /\ UNCHANGED program
      BY <2>2 DEF OpenFile, ReadRecord, ReadOfNull, PrintRecord, FreeReader, Memory, Csv
    <3>2. CsvLeft' < CsvLeft
      <4>1. Len(rows) \in Nat /\ at \in 0 .. Len(rows) /\ at' \in 0 .. Len(rows')
        BY <3>1 DEF ProgramInv, CsvRows
      <4>2. rows' = rows
        BY <2>2 DEF OpenFile, csv_reader_new, ReadRecord, csv_reader_read_record,
           ReadOfNull, PrintRecord, free_string, FreeReader, csv_reader_free, csvVars
      <4>3. CASE OpenFile
        BY <4>1, <4>2, <4>3 DEF OpenFile, csv_reader_new, CsvLeft
      <4>4. CASE ReadRecord
        <5>1. \/ at' = at + 1 /\ record' # NullPtr
              \/ at' \in {at, at + 1} /\ record' = NullPtr
          BY <4>4, <4>1, CsvAssumption DEF ReadRecord, csv_reader_read_record, Record,
             Malformed, AtEnd, FileFails
        <5> QED BY <4>1, <4>2, <4>4, <5>1 DEF ReadRecord, CsvLeft
      <4>5. CASE ReadOfNull \/ PrintRecord \/ FreeReader
        BY <4>1, <4>2, <4>5 DEF ReadOfNull, PrintRecord, free_string, FreeReader,
           csv_reader_free, csvVars, CsvLeft
      <4> QED BY <2>2, <4>3, <4>4, <4>5
    <3> QED BY <3>1, <3>2 DEF StatementsLeft
  <2> QED BY <2>1, <2>2 DEF ExamplesNext
<1> QED BY <1>1, <1>2, ProgramInductive, PTL DEF ExamplesSpec
==============================================================================
