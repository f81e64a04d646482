--------------------------------- MODULE Sled ---------------------------------
(***************************************************************************)
(* The key-value calls of the sled wrapper (lib/rust/sled/src/lib.rs) and *)
(* of its Go binding (rust/sled/sled.go), used by several callers at once *)
(* on one key: each caller counts itself by reading the key and then       *)
(* swapping the value it saw for the next one until the swap succeeds,     *)
(* while others may delete the key or store a value of length zero.  Any   *)
(* call may fail inside sled, which the wrapper answers with a panic that  *)
(* takes the process down.                                                 *)
(*                                                                         *)
(* A value is the number it spells; 0 is the value of length zero, which   *)
(* the tree tells from Missing and a Go string does not.  A call is one    *)
(* step: the tree is linearizable, the conversions are the caller's own.   *)
(***************************************************************************)
EXTENDS Naturals, FiniteSets

CONSTANTS
    Caller,         \* the threads that use the database
    Buf,            \* buffers leak_buf may hand out
    NoBuf,          \* a null pointer
    Missing,        \* the key is not in the tree
    MaxResets,      \* how often the key is deleted or emptied
    Empties,        \* may a value of length zero be stored?
    Asks,           \* callers that ask for the actual value
    Reuses          \* C callers with one actual_val for all their calls

ASSUME SledAssumption ==
    /\ NoBuf \notin Buf
    /\ Missing \notin Nat
    /\ MaxResets \in Nat
    /\ Empties \in BOOLEAN
    /\ Reuses \subseteq Asks /\ Asks \subseteq Caller

VARIABLES
    process,    \* "running", "crashed" on a null pointer, or "panicked"
    db,         \* what the tree maps the key to
    live,       \* buffers leaked to the callers and not freed
    resets,     \* deletions and empty stores so far
    counted,    \* successful swaps since the last of them
    pc,         \* where each caller is
    val,        \* the value each caller goes by ...
    buf,        \* ... and the buffer it is in
    outVal,     \* *actual_vallen, as the value it describes
    outBuf      \* *actual_val

vars == <<process, db, live, resets, counted, pc, val, buf, outVal, outBuf>>

Values == Nat \cup {Missing}

TypeOK ==
    /\ process \in {"running", "crashed", "panicked"}
    /\ db \in Values
    /\ live \in SUBSET Buf
    /\ resets \in 0 .. MaxResets /\ counted \in Nat
    /\ pc \in [Caller -> {"get", "cas", "swapped", "failed", "done"}]
    /\ val \in [Caller -> Nat] /\ outVal \in [Caller -> Nat]
    /\ buf \in [Caller -> Buf \cup {NoBuf}]
    /\ outBuf \in [Caller -> Buf \cup {NoBuf}]

Init ==
    /\ process = "running"
    /\ db = Missing /\ live = {} /\ resets = 0 /\ counted = 0
    /\ pc = [c \in Caller |-> "get"]
    /\ val = [c \in Caller |-> 0] /\ outVal = [c \in Caller |-> 0]
    /\ buf = [c \in Caller |-> NoBuf] /\ outBuf = [c \in Caller |-> NoBuf]

-----------------------------------------------------------------------------
(* A call that sled fails: unwrap and Err(e) => panic!, which does not      *)
(* unwind out of an extern "C" function.                                   *)
Panics ==
    /\ process' = "panicked"
    /\ UNCHANGED <<db, live, resets, counted, pc, val, buf, outVal, outBuf>>

(* leak_buf: a boxed slice of v, b, is forgotten for the caller to free.   *)
(* A slice of length zero owns no memory.                                  *)
leak_buf(v, b) ==
    IF v = 0
      THEN b = NoBuf /\ live' = live
      ELSE b \in Buf \ live /\ live' = live \cup {b}

(* GetString: a key that is not set gives a null pointer and length 0,     *)
(* which make the same Go string as a value of length zero.                *)
GetString(c) ==
    /\ pc[c] = "get"
    /\ \/ /\ \/ /\ db = Missing
                /\ val' = [val EXCEPT ![c] = 0]
                /\ buf' = [buf EXCEPT ![c] = NoBuf]
                /\ live' = live
             \/ /\ db # Missing
                /\ \E b \in Buf \cup {NoBuf} :
                      leak_buf(db, b) /\ buf' = [buf EXCEPT ![c] = b]
                /\ val' = [val EXCEPT ![c] = db]
          /\ pc' = [pc EXCEPT ![c] = "cas"]
          /\ UNCHANGED <<process, db, resets, counted, outVal, outBuf>>
       \/ Panics

(* A length of zero in sled_compare_and_swap means "not set".              *)
Opt(v) == IF v = 0 THEN Missing ELSE v

(* Faulty variant: any value that is set is swapped.                       *)
CasSwaps_Blind(c) ==
    /\ db' = Opt(val[c] + 1)
    /\ counted' = counted + 1
    /\ pc' = [pc EXCEPT ![c] = "swapped"]
    /\ UNCHANGED <<process, live, outVal, outBuf>>

(* Ok(Ok(())): the swap took place; actual_val is not written.             *)
CasSwaps(c) ==
    /\ db = Opt(val[c])
    /\ db' = Opt(val[c] + 1)
    /\ counted' = counted + 1
    /\ pc' = [pc EXCEPT ![c] = "swapped"]
    /\ UNCHANGED <<process, live, outVal, outBuf>>

(* What *actual_val holds when the call does not write it: null in the     *)
(* variable that CASString makes for each call, the last answer otherwise. *)
OutBefore(c) == IF c \in Reuses THEN outBuf[c] ELSE NoBuf

(* current: None -- only the length is written.                            *)
CasUnset(c) ==
    /\ db # Opt(val[c]) /\ db = Missing
    /\ outVal' = [outVal EXCEPT ![c] = 0]
    /\ outBuf' = [outBuf EXCEPT ![c] = OutBefore(c)]
    /\ pc' = [pc EXCEPT ![c] = "failed"]
    /\ UNCHANGED <<process, db, live, counted>>

(* current: Some(v) -- the value is leaked through actual_val, which is a  *)
(* null pointer when the Go caller passes no actual.                       *)
CasDiffers(c) ==
    /\ db # Opt(val[c]) /\ db # Missing
    /\ \/ /\ c \in Asks
          /\ \E b \in Buf \cup {NoBuf} :
                leak_buf(db, b) /\ outBuf' = [outBuf EXCEPT ![c] = b]
          /\ outVal' = [outVal EXCEPT ![c] = db]
          /\ pc' = [pc EXCEPT ![c] = "failed"]
          /\ UNCHANGED process
       \/ /\ c \notin Asks
          /\ process' = "crashed"
          /\ UNCHANGED <<live, pc, outVal, outBuf>>
    /\ UNCHANGED <<db, counted>>

(* CASString(key, val, val + 1, actual).                                   *)
CASString(c) ==
    /\ pc[c] = "cas"
    /\ \/ /\ CasSwaps(c) \/ CasUnset(c) \/ CasDiffers(c)
          /\ UNCHANGED <<resets, val, buf>>
       \/ Panics

(* Faulty variant: the buffer is freed whatever its size.                  *)
FreeBuf_AnySize(b, v) == live' = live \ {b}

(* Value.Free and sled_free_buf, on the buffer b of a value v that the     *)
(* caller is done with.  A vector of capacity zero owns nothing, wherever  *)
(* its pointer points.                                                     *)
FreeBuf(b, v) == live' = IF v = 0 THEN live ELSE live \ {b}

(* After a swap the caller is done, ...                                    *)
FreeAfterSwap(c) ==
    /\ pc[c] = "swapped" /\ FreeBuf(buf[c], val[c])
    /\ pc' = [pc EXCEPT ![c] = "done"]
    /\ buf' = [buf EXCEPT ![c] = NoBuf]
    /\ UNCHANGED <<process, db, resets, counted, val, outVal, outBuf>>

(* Faulty variant: the failed swap is repeated as it was.                  *)
FreeAfterFailure_SameValue(c) ==
    /\ pc[c] = "failed" /\ FreeBuf(outBuf[c], outVal[c])
    /\ pc' = [pc EXCEPT ![c] = "cas"]
    /\ UNCHANGED <<process, db, resets, counted, val, buf, outVal, outBuf>>

(* ... after a failure it goes on from the actual value, or, if it did not *)
(* ask for it, reads again.  The variable actual_val keeps its content.    *)
FreeAfterFailure(c) ==
    /\ pc[c] = "failed" /\ FreeBuf(buf[c], val[c])
    /\ pc' = [pc EXCEPT ![c] = IF c \in Asks THEN "cas" ELSE "get"]
    /\ val' = [val EXCEPT ![c] = outVal[c]]
    /\ buf' = [buf EXCEPT ![c] = outBuf[c]]
    /\ UNCHANGED <<process, db, resets, counted, outVal, outBuf>>

-----------------------------------------------------------------------------
(* Somebody else deletes the key, or sets it to a value of length zero.    *)

sled_del ==
    /\ process = "running" /\ resets < MaxResets /\ db # Missing
    /\ \/ /\ resets' = resets + 1 /\ counted' = 0
          /\ db' = Missing
          /\ UNCHANGED <<process, live, pc, val, buf, outVal, outBuf>>
       \/ Panics

sled_set ==
    /\ process = "running" /\ Empties /\ resets < MaxResets
    /\ \/ /\ resets' = resets + 1 /\ counted' = 0
          /\ db' = 0
          /\ UNCHANGED <<process, live, pc, val, buf, outVal, outBuf>>
       \/ Panics

-----------------------------------------------------------------------------
Step(c) ==
    /\ process = "running"
    /\ GetString(c) \/ CASString(c) \/ FreeAfterSwap(c) \/ FreeAfterFailure(c)

AllDone == \A c \in Caller : pc[c] = "done"

Terminated == (AllDone \/ process # "running") /\ UNCHANGED vars

Next == (\E c \in Caller : Step(c)) \/ sled_del \/ sled_set \/ Terminated

(* The scheduler runs every caller.                                        *)
Fairness == \A c \in Caller : WF_vars(Step(c))

SafeSpec == Init /\ [][Next]_vars
Spec     == SafeSpec /\ Fairness

-----------------------------------------------------------------------------
(* No update is lost or made twice: the value is the number of swaps that  *)
(* reported success since the key was last reset (lib.rs 185-188).         *)
NoLostUpdate ==
    db = counted \/ (counted = 0 /\ db = Missing)

(* Every leaked buffer has exactly one owner, the caller that will free    *)
(* it, and is freed once: also by a caller that, told that the key is not  *)
(* set, is left with the pointer of an earlier answer and a length of zero *)
(* (lib.rs 12-20, 94-96, 133, 189-196).                                    *)
Owns(c, b) ==
    \/ b = buf[c] /\ val[c] # 0
    \/ pc[c] = "failed" /\ b = outBuf[c] /\ outVal[c] # 0

BuffersOwned ==
    /\ \A b \in Buf : b \in live <=> \E c \in Caller : Owns(c, b)
    /\ \A c, e \in Caller, b \in Buf : Owns(c, b) /\ Owns(e, b) => c = e
    /\ \A c \in Caller :
          (pc[c] = "failed" /\ val[c] # 0 /\ outVal[c] # 0) => buf[c] # outBuf[c]

(* "Returns 1 if successful, 0 if unsuccessful" (lib.rs 150): a swap that  *)
(* fails says so instead of writing through a null pointer (lib.rs 194,    *)
(* sled.go 163-175).                                                       *)
NeverCrashes == process # "crashed"

(* Every caller gets its swap in, for a failure is always somebody's       *)
(* success or a reset, of which there are finitely many -- unless the      *)
(* process goes down, or the key keeps a value of length zero, which no    *)
(* swap can name (lib.rs 169-175, 185-198).                                *)
RetriesEnd == <>(AllDone \/ process # "running") \/ <>[](db = 0)
==============================================================================
