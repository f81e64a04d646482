------------------------------ MODULE SledProofs ------------------------------
(***************************************************************************)
(* For any number of callers, with an actual_val of their own for each     *)
(* call, one for all of them or none, and any number of resets: no update  *)
(* is lost, every leaked buffer has one owner, and the swaps of the        *)
(* callers do not keep each other from succeeding.                         *)
(***************************************************************************)
EXTENDS Sled, FiniteSetTheorems, TLAPS

(* Next to the buffers: who holds none.                                    *)
PointerInv ==
    \A c \in Caller :
        /\ pc[c] = "get" => val[c] = 0
        /\ pc[c] = "done" => buf[c] = NoBuf
        /\ (pc[c] = "failed" /\ c \notin Asks) => outVal[c] = 0

LEMMA TypeStep == ASSUME TypeOK, [Next]_vars PROVE TypeOK'
<1> USE SledAssumption DEF TypeOK, Values
<1>1. ASSUME NEW c \in Caller, GetString(c) PROVE TypeOK'
    BY <1>1 DEF GetString, leak_buf, Panics
<1>2. ASSUME NEW c \in Caller, CASString(c) PROVE TypeOK'
    <2>1. CASE CasSwaps(c)
        BY <1>2, <2>1 DEF CASString, CasSwaps, Opt, Panics
    <2>2. CASE CasUnset(c)
        BY <1>2, <2>2 DEF CASString, CasUnset, OutBefore, Panics
    <2>3. CASE CasDiffers(c)
        BY <1>2, <2>3 DEF CASString, CasDiffers, leak_buf, Panics
    <2>4. CASE Panics
        BY <2>4 DEF Panics
    <2> QED
        BY <1>2, <2>1, <2>2, <2>3, <2>4 DEF CASString
<1>3. ASSUME NEW c \in Caller, FreeAfterSwap(c) \/ FreeAfterFailure(c)
      PROVE  TypeOK'
    BY <1>3 DEF FreeAfterSwap, FreeAfterFailure, FreeBuf
<1>4. CASE sled_del \/ sled_set
    BY <1>4 DEF sled_del, sled_set, Panics
<1>5. CASE UNCHANGED vars
    BY <1>5 DEF vars
<1> QED
    BY <1>1, <1>2, <1>3, <1>4, <1>5 DEF Next, Step, Terminated

(* The type invariant of the wrapper's callers.                            *)
THEOREM TypeCorrect == SafeSpec => []TypeOK
<1>1. Init => TypeOK
    BY SledAssumption DEF Init, TypeOK, Values
<1> QED
    BY <1>1, TypeStep, PTL DEF SafeSpec

-----------------------------------------------------------------------------
(* sled_compare_and_swap turns a length of zero into "not set" on both     *)
(* sides, so that a swap still raises the value by exactly one.            *)
LEMMA CountStep == ASSUME TypeOK, NoLostUpdate, [Next]_vars PROVE NoLostUpdate'
<1> USE SledAssumption DEF TypeOK, NoLostUpdate
<1>1. ASSUME NEW c \in Caller, CASString(c) PROVE NoLostUpdate'
    <2>1. CASE CasSwaps(c)
        BY <2>1 DEF CasSwaps, Opt
    <2>2. CASE CasUnset(c) \/ CasDiffers(c) \/ Panics
        BY <2>2 DEF CasUnset, CasDiffers, Panics
    <2> QED
        BY <1>1, <2>1, <2>2 DEF CASString
<1>2. ASSUME NEW c \in Caller,
             GetString(c) \/ FreeAfterSwap(c) \/ FreeAfterFailure(c)
      PROVE  NoLostUpdate'
    BY <1>2 DEF GetString, FreeAfterSwap, FreeAfterFailure, Panics
<1>3. CASE sled_del \/ sled_set
    BY <1>3 DEF sled_del, sled_set, Panics
<1>4. CASE UNCHANGED vars
    BY <1>4 DEF vars
<1> QED
    BY <1>1, <1>2, <1>3, <1>4 DEF Next, Step, Terminated

(* No swap that reported success is lost or counted twice, whatever the    *)
(* callers, the deletions and the empty stores (lib.rs 149-200).           *)
THEOREM NothingLost == SafeSpec => []NoLostUpdate
<1>1. Init => NoLostUpdate
    BY DEF Init, NoLostUpdate
<1> QED
    BY <1>1, CountStep, TypeCorrect, PTL DEF SafeSpec

-----------------------------------------------------------------------------
LEMMA PointerStep ==
    ASSUME TypeOK, PointerInv, [Next]_vars
    PROVE  PointerInv'
<1> USE SledAssumption DEF TypeOK, Values, PointerInv
<1>1. ASSUME NEW c \in Caller, GetString(c) PROVE PointerInv'
    BY <1>1 DEF GetString, Panics
<1>2. ASSUME NEW c \in Caller, CASString(c) PROVE PointerInv'
    BY <1>2 DEF CASString, CasSwaps, CasUnset, CasDiffers, Panics
<1>3. ASSUME NEW c \in Caller, FreeAfterSwap(c) \/ FreeAfterFailure(c)
      PROVE  PointerInv'
    BY <1>3 DEF FreeAfterSwap, FreeAfterFailure
<1>4. CASE sled_del \/ sled_set
    BY <1>4 DEF sled_del, sled_set, Panics
<1>5. CASE UNCHANGED vars
    BY <1>5 DEF vars
<1> QED
    BY <1>1, <1>2, <1>3, <1>4, <1>5 DEF Next, Step, Terminated

LEMMA OwnedStep ==
    ASSUME TypeOK, PointerInv, BuffersOwned, [Next]_vars
    PROVE  BuffersOwned'
<1> USE SledAssumption DEF TypeOK, Values, PointerInv, BuffersOwned, Owns
<1>1. CASE UNCHANGED <<live, pc, val, buf, outVal, outBuf>>
    BY <1>1
<1>2. CASE Panics
    BY <1>1, <1>2 DEF Panics
<1>3. ASSUME NEW c \in Caller, GetString(c), ~Panics PROVE BuffersOwned'
    BY <1>3 DEF GetString, leak_buf
<1>4. ASSUME NEW c \in Caller, CASString(c), ~Panics PROVE BuffersOwned'
    <2>1. CASE CasSwaps(c)
        BY <1>4, <2>1 DEF CASString, CasSwaps
    <2>2. CASE CasUnset(c)
        BY <1>4, <2>2 DEF CASString, CasUnset
    <2>3. CASE CasDiffers(c)
        BY <1>1, <1>4, <2>3 DEF CASString, CasDiffers, leak_buf
    <2> QED
        BY <1>4, <2>1, <2>2, <2>3 DEF CASString
<1>5. ASSUME NEW c \in Caller, FreeAfterSwap(c) PROVE BuffersOwned'
    BY <1>5 DEF FreeAfterSwap, FreeBuf
<1>6. ASSUME NEW c \in Caller, FreeAfterFailure(c) PROVE BuffersOwned'
    BY <1>6 DEF FreeAfterFailure, FreeBuf
<1>7. CASE sled_del \/ sled_set
    BY <1>1, <1>2, <1>7 DEF sled_del, sled_set
<1>8. CASE UNCHANGED vars
    BY <1>1, <1>8 DEF vars
<1> QED
    BY <1>2, <1>3, <1>4, <1>5, <1>6, <1>7, <1>8 DEF Next, Step, Terminated

(* No buffer leaks and none is freed twice, also by callers that keep one  *)
(* actual_val for all their calls and are left with a stale pointer by the *)
(* branch that writes the length alone (lib.rs 189-192): what they free    *)
(* then has a size of zero.                                                *)
THEOREM BuffersSafe == SafeSpec => []BuffersOwned
<1>1. Init => PointerInv /\ BuffersOwned
    BY SledAssumption DEF Init, PointerInv, BuffersOwned, Owns
<1>2. TypeOK /\ PointerInv /\ BuffersOwned /\ [Next]_vars
          => PointerInv' /\ BuffersOwned'
    BY PointerStep, OwnedStep
<1> QED
    BY <1>1, <1>2, TypeCorrect, PTL DEF SafeSpec

-----------------------------------------------------------------------------
(* The values of a function are no more than its arguments.                *)
LEMMA ImageBound ==
    ASSUME NEW S, IsFiniteSet(S), NEW f
    PROVE  /\ IsFiniteSet({f[c] : c \in S})
           /\ Cardinality({f[c] : c \in S}) \in Nat
           /\ Cardinality({f[c] : c \in S}) <= Cardinality(S)
<1> DEFINE T == {f[c] : c \in S}
           g == [c \in S |-> f[c]]
<1>1. g \in Surjection(S, T)
    BY DEF Surjection
<1> HIDE DEF T, g
<1>2. IsFiniteSet(T) /\ Cardinality(T) <= Cardinality(S)
    BY <1>1, FS_Surjection
<1> QED
    BY <1>2, FS_CardinalityType DEF T

(* No more than two values per caller are leaked at a time, the one it     *)
(* goes by and the one a failed swap gave it, and one that is about to be  *)
(* given another holds one at most.                                        *)
LeakedBound ==
    /\ IsFiniteSet(live) /\ Cardinality(live) <= 2 * Cardinality(Caller)
    /\ \A c \in Caller : pc[c] \in {"get", "cas"} =>
          Cardinality(live) < 2 * Cardinality(Caller)

LEMMA OwnedIsBounded ==
    ASSUME IsFiniteSet(Caller), TypeOK, BuffersOwned PROVE LeakedBound
<1> DEFINE Going == {buf[c] : c \in Caller}
           Given(S) == {outBuf[c] : c \in S}
<1>1. Cardinality(Caller) \in Nat
    BY FS_CardinalityType
<1>2. ASSUME NEW S \in SUBSET Caller, live \subseteq Going \cup Given(S)
      PROVE  /\ IsFiniteSet(live) /\ Cardinality(live) \in Nat
             /\ Cardinality(live) <= Cardinality(Caller) + Cardinality(S)
    <2>1. IsFiniteSet(S) /\ Cardinality(S) \in Nat
        BY FS_Subset, FS_CardinalityType
    <2>2. /\ IsFiniteSet(Going) /\ Cardinality(Going) \in Nat
          /\ Cardinality(Going) <= Cardinality(Caller)
        BY ImageBound
    <2>3. /\ IsFiniteSet(Given(S)) /\ Cardinality(Given(S)) \in Nat
          /\ Cardinality(Given(S)) <= Cardinality(S)
        BY <2>1, ImageBound
    <2> HIDE DEF Going, Given
    <2>4. /\ IsFiniteSet(Going \cup Given(S))
          /\ Cardinality(Going \cup Given(S))
               = Cardinality(Going) + Cardinality(Given(S)) - Cardinality(Going \cap Given(S))
        BY <2>2, <2>3, FS_Union
    <2>5. Cardinality(Going \cap Given(S)) \in Nat
        BY <2>2, FS_Intersection, FS_CardinalityType
    <2>6. /\ IsFiniteSet(live) /\ Cardinality(live) \in Nat
          /\ Cardinality(live) <= Cardinality(Going \cup Given(S))
        BY <1>2, <2>4, FS_Subset, FS_CardinalityType
    <2> QED
        BY <1>1, <2>1, <2>2, <2>3, <2>4, <2>5, <2>6
<1>3. live \subseteq Going \cup Given(Caller)
    BY DEF TypeOK, BuffersOwned, Owns
<1>4. ASSUME NEW c \in Caller, pc[c] # "failed"
      PROVE  Cardinality(live) < 2 * Cardinality(Caller)
    <2>1. live \subseteq Going \cup Given(Caller \ {c})
        BY <1>4 DEF TypeOK, BuffersOwned, Owns
    <2>2. Cardinality(Caller \ {c}) = Cardinality(Caller) - 1
        BY FS_RemoveElement
    <2> HIDE DEF Going, Given
    <2>3. Caller \ {c} \in SUBSET Caller
        OBVIOUS
    <2> QED
        BY <1>1, <1>2, <2>1, <2>2, <2>3
<1> HIDE DEF Going, Given
<1> QED
    BY <1>1, <1>2, <1>3, <1>4 DEF LeakedBound

(* The memory that the wrapper has leaked to its callers is bounded by     *)
(* their number, however often their swaps fail (lib.rs 12-20, 193-196);   *)
(* so with two buffers per caller the model's callers never wait for one.  *)
THEOREM LeakedIsBounded ==
    ASSUME IsFiniteSet(Caller)
    PROVE  SafeSpec => []LeakedBound
<1>1. TypeOK /\ BuffersOwned => LeakedBound
    BY OwnedIsBounded
<1> QED
    BY <1>1, TypeCorrect, BuffersSafe, PTL

-----------------------------------------------------------------------------
(* A failed swap has a cause.  The callers still to count, and the work    *)
(* each has before its next attempt: most for one that goes by a value     *)
(* that is no longer in the tree, and more for one that has to read again  *)
(* because it does not ask what the value is.                              *)
Pending == {c \in Caller : pc[c] \in {"get", "cas", "failed"}}

WorkLeft ==
    [c \in Caller |->
        CASE pc[c] = "failed"  -> IF c \notin Asks THEN 4
                                  ELSE IF db = Opt(outVal[c]) THEN 3 ELSE 5
          [] pc[c] = "cas"     -> IF db = Opt(val[c]) THEN 2
                                  ELSE IF c \in Asks THEN 4 ELSE 5
          [] pc[c] = "get"     -> 3
          [] pc[c] = "swapped" -> 1
          [] OTHER             -> 0]

Advances ==
    \/ Pending' \subseteq Pending /\ Pending' # Pending /\ resets' = resets
    \/ Pending' = Pending /\ resets' = resets + 1
    \/ /\ Pending' = Pending /\ resets' = resets
       /\ \E c \in Caller :
             /\ WorkLeft'[c] < WorkLeft[c]
             /\ \A e \in Caller \ {c} : WorkLeft'[e] = WorkLeft[e]

(* Every step of the callers gets one of them counted, or is a reset, of   *)
(* which there are only so many, or takes from the work of one caller and  *)
(* adds to nobody's, unless the process goes down with it or the key holds *)
(* a value of length zero: the swaps cannot go on failing because of each  *)
(* other (lib.rs 173-199).                                                 *)
THEOREM SwapsAreLockFree ==
    SafeSpec => /\ [](WorkLeft \in [Caller -> 0 .. 5])
                /\ [][db = 0 \/ process' # "running" \/ Advances]_vars
<1> USE SledAssumption DEF TypeOK, Values
<1>1. TypeOK => WorkLeft \in [Caller -> 0 .. 5]
    BY DEF WorkLeft
<1>2. TypeOK /\ [Next]_vars
          => [db = 0 \/ process' # "running" \/ Advances]_vars
    <2> SUFFICES ASSUME TypeOK, Next, db # 0, process' = "running", ~UNCHANGED vars
                 PROVE  Advances
        OBVIOUS
    <2>1. ASSUME NEW c \in Caller, db' = db, resets' = resets, Pending' = Pending,
                 \A e \in Caller \ {c} : /\ pc'[e] = pc[e] /\ val'[e] = val[e]
                                         /\ outVal'[e] = outVal[e],
                 WorkLeft'[c] < WorkLeft[c]
          PROVE  Advances
        BY <2>1 DEF Advances, WorkLeft, Opt
    <2>2. ~Panics
        BY DEF Panics
    <2>3. ASSUME NEW c \in Caller, GetString(c) PROVE Advances
        BY <2>1, <2>2, <2>3 DEF GetString, Pending, WorkLeft, Opt
    <2>4. ASSUME NEW c \in Caller, CASString(c) PROVE Advances
        <3>1. CASE CasSwaps(c)
            BY <2>2, <2>4, <3>1 DEF CASString, CasSwaps, Pending, Advances
        <3>2. CASE CasUnset(c)
            BY <2>1, <2>2, <2>4, <3>2 DEF CASString, CasUnset, Pending, WorkLeft, Opt
        <3>3. CASE CasDiffers(c)
            BY <2>1, <2>2, <2>4, <3>3 DEF CASString, CasDiffers, Pending, WorkLeft, Opt
        <3> QED
            BY <2>2, <2>4, <3>1, <3>2, <3>3 DEF CASString
    <2>5. ASSUME NEW c \in Caller, FreeAfterSwap(c) PROVE Advances
        BY <2>1, <2>5 DEF FreeAfterSwap, Pending, WorkLeft
    <2>6. ASSUME NEW c \in Caller, FreeAfterFailure(c) PROVE Advances
        BY <2>1, <2>6 DEF FreeAfterFailure, Pending, WorkLeft, Opt
    <2>7. CASE sled_del \/ sled_set
        BY <2>2, <2>7 DEF sled_del, sled_set, Pending, Advances
    <2> QED
        BY <2>3, <2>4, <2>5, <2>6, <2>7 DEF Next, Step, Terminated
<1> HIDE DEF TypeOK, Values
<1> QED
    BY <1>1, <1>2, TypeCorrect, PTL DEF SafeSpec
==============================================================================
