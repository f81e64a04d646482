-------------------------- MODULE SledHandlesProofs --------------------------
(***************************************************************************)
(* Ownership across the sled wrapper, for any number of addresses, setter  *)
(* calls and pairs: for callers that leave a path they have set to the     *)
(* wrapper, and free the configuration they have opened or do not.         *)
(***************************************************************************)
EXTENDS SledHandles, TLAPS

(* The pointer its owner holds is the only way to an object, and everything *)
(* allocated has an owner.  Pointers the caller keeps to what it has handed *)
(* over count for nothing, wherever they point by now.                      *)
HeapInv ==
    \A a \in Addr :
        /\ heap[a] = "config" <=> (pc = "config" /\ conf = a)
        /\ heap[a] = "path"   <=> (path = a /\ ~pathSet)
        /\ heap[a] = "db"     <=> db = a
        /\ heap[a] = "iter"   <=> iter = a
        /\ heap[a] = "key"    <=> pair[1] = a
        /\ heap[a] = "val"    <=> pair[2] = a

(* What the caller holds at each point of its life.                        *)
HoldsInv ==
    /\ pc = "config" => conf # Null
    /\ pc = "open" => db # Null
    /\ pc \notin {"open", "abort"} => db = Null
    /\ pc \notin {"config", "abort"} => path = Null
    /\ pc \notin {"open", "closing", "abort"} => iter = Null
    /\ pair # <<Null, Null>> => {pair[1], pair[2], iter} \subseteq Addr

(* A call that panics leaves its arguments to the process that dies.       *)
CarefulInv == ~misused /\ (pc = "abort" \/ HeapInv)

IInv == TypeOK /\ HoldsInv /\ (overfreed \/ CarefulInv)

-----------------------------------------------------------------------------
LEMMA InitInv == Init => IInv
<1> SUFFICES ASSUME Init PROVE IInv
    OBVIOUS
<1>1. TypeOK
    <2>1. heap \in [Addr -> Kind \cup {"free"}]
        BY DEF Init
    <2>2. {conf, path, db, iter} \subseteq Ptr /\ pair \in Ptr \X Ptr
        BY DEF Init, Ptr
    <2>3. sets \in 0 .. MaxSets /\ items \in 0 .. MaxItems
        BY HandlesAssumption DEF Init
    <2>4. pathSet \in BOOLEAN /\ overfreed \in BOOLEAN /\ misused \in BOOLEAN
        BY DEF Init
    <2>5. pc \in {"new", "config", "open", "closing", "done", "abort"}
        BY DEF Init
    <2> QED
        BY <2>1, <2>2, <2>3, <2>4, <2>5 DEF TypeOK
<1>2. HoldsInv
    BY DEF Init, HoldsInv
<1>3. CarefulInv
    BY HandlesAssumption DEF Init, CarefulInv, HeapInv
<1> QED
    BY <1>1, <1>2, <1>3 DEF IInv

(* Overfreeing is remembered; the rest of what a caller that has overfreed *)
(* still keeps to does not depend on the heap.                             *)
LEMMA NextKeepsHolds == ASSUME IInv, [Next]_vars PROVE TypeOK' /\ HoldsInv'
<1> USE HandlesAssumption DEF IInv, TypeOK, Ptr, HoldsInv, Kind, Place, Drop
<1>1. CASE sled_create_config
    BY <1>1 DEF sled_create_config
<1>2. CASE MakePath
    BY <1>2 DEF MakePath
<1>3. CASE sled_config_set_path
    BY <1>3 DEF sled_config_set_path
<1>4. CASE FreePath
    BY <1>4 DEF FreePath
<1>5. CASE sled_config_set
    BY <1>5 DEF sled_config_set
<1>6. CASE sled_open_db
    BY <1>6 DEF sled_open_db
<1>7. CASE sled_free_config
    BY <1>7 DEF sled_free_config
<1>8. CASE sled_scan_prefix
    BY <1>8 DEF sled_scan_prefix
<1>9. CASE sled_iter_next
    BY <1>9 DEF sled_iter_next
<1>10. CASE sled_free_buf
    BY <1>10 DEF sled_free_buf
<1>11. CASE sled_free_iter
    BY <1>11 DEF sled_free_iter
<1>12. CASE sled_close
    BY <1>12 DEF sled_close
<1>13. CASE Return
    BY <1>13 DEF Return
<1>14. CASE UNCHANGED vars
    BY <1>14 DEF vars
<1> QED
    BY <1>1, <1>2, <1>3, <1>4, <1>5, <1>6, <1>7, <1>8, <1>9, <1>10, <1>11,
       <1>12, <1>13, <1>14 DEF Next, Terminated

LEMMA NextKeepsCareful ==
    ASSUME ~FreesPath, IInv, [Next]_vars
    PROVE  overfreed' \/ CarefulInv'
<1>1. CASE overfreed
    BY <1>1
    DEF Next, vars, sled_create_config, MakePath, sled_config_set_path, FreePath,
        sled_config_set, sled_open_db, sled_free_config, sled_scan_prefix,
        sled_iter_next, sled_free_buf, sled_free_iter, sled_close, Return, Terminated
<1> SUFFICES ASSUME ~overfreed PROVE overfreed' \/ CarefulInv'
    BY <1>1
<1> USE HandlesAssumption
    DEF IInv, TypeOK, Ptr, HoldsInv, Kind, Place, Drop, Sound, CarefulInv, HeapInv
<1>2. CASE sled_create_config
    BY <1>2 DEF sled_create_config
<1>3. CASE MakePath
    BY <1>3 DEF MakePath
<1>4. CASE sled_config_set_path
    BY <1>4 DEF sled_config_set_path
<1>5. CASE FreePath
    BY <1>5 DEF FreePath
<1>6. CASE sled_config_set
    BY <1>6 DEF sled_config_set
<1>7. CASE sled_open_db
    BY <1>7 DEF sled_open_db
<1>8. CASE sled_free_config
    BY <1>8 DEF sled_free_config
<1>9. CASE sled_scan_prefix
    BY <1>9 DEF sled_scan_prefix
<1>10. CASE sled_iter_next
    BY <1>10 DEF sled_iter_next
<1>11. CASE sled_free_buf
    BY <1>11 DEF sled_free_buf
<1>12. CASE sled_free_iter
    BY <1>12 DEF sled_free_iter
<1>13. CASE sled_close
    BY <1>13 DEF sled_close
<1>14. CASE Return
    BY <1>14 DEF Return
<1>15. CASE UNCHANGED vars
    BY <1>15 DEF vars
<1> QED
    BY <1>2, <1>3, <1>4, <1>5, <1>6, <1>7, <1>8, <1>9, <1>10, <1>11, <1>12,
       <1>13, <1>14, <1>15 DEF Next, Terminated

LEMMA Inductive == ASSUME ~FreesPath PROVE Spec => []IInv
<1>1. IInv /\ [Next]_vars => IInv'
    BY NextKeepsHolds, NextKeepsCareful DEF IInv
<1> QED
    BY <1>1, InitInv, PTL DEF Spec

-----------------------------------------------------------------------------
(* For callers that leave the paths they set to the wrapper, only freeing  *)
(* an opened configuration leads to a misuse: in whatever order they are   *)
(* made, the calls of sled.go keep every pointer sound, also when freed    *)
(* memory is handed out again at once (39-46, 79-102).                     *)
THEOREM MisuseNeedsOverfreeing ==
    ASSUME ~FreesPath PROVE Spec => []MisuseIsOverfreeing
<1>1. IInv => MisuseIsOverfreeing
    BY DEF IInv, CarefulInv, MisuseIsOverfreeing
<1> QED
    BY <1>1, Inductive, PTL

(* The calls keep nothing of what they are given: a caller that releases   *)
(* what it owns, and only that, leaves the heap empty (24-46, 79-102).     *)
THEOREM NothingLeaks == ASSUME ~FreesPath PROVE Spec => []NoLeak
<1>1. IInv => NoLeak
    <2> SUFFICES ASSUME IInv, pc = "done", ~overfreed, NEW a \in Addr
                 PROVE  heap[a] = "free"
        BY DEF NoLeak
    <2>1. HeapInv /\ path = Null /\ db = Null /\ iter = Null
        BY DEF IInv, CarefulInv, HoldsInv
    <2>2. pair = <<Null, Null>>
        BY <2>1, HandlesAssumption DEF IInv, HoldsInv
    <2> QED
        BY <2>1, <2>2, HandlesAssumption DEF IInv, TypeOK, Kind, HeapInv
<1> QED
    BY <1>1, Inductive, PTL

(* A caller that frees neither kind of pointer it has handed over.         *)
Careful ==
    /\ ~overfreed
    /\ (pc \in {"new", "config"} /\ pathSet) => path = Null
    /\ pc \in {"open", "closing"} => conf = Null

(* What no such caller can do wrong: whatever it sets, in any order and    *)
(* however often, opens, scans and frees, no pointer is misused, and at    *)
(* the end nothing is allocated (sled.go 31-124, lib.rs 24-46, 79-102).    *)
THEOREM CarefulCallersAreSafe ==
    ASSUME ~FreesPath, ~FreesUsedConfig
    PROVE  Spec => [](NoMisuse /\ (pc = "done" => \A a \in Addr : heap[a] = "free"))
<1>1. Init => Careful
    BY DEF Init, Careful
<1>2. Careful /\ [Next]_vars => Careful'
    <2> SUFFICES ASSUME Careful, [Next]_vars PROVE Careful'
        OBVIOUS
    <2> USE DEF Careful
    <2>1. CASE sled_create_config \/ MakePath
        BY <2>1 DEF sled_create_config, MakePath
    <2>2. CASE sled_config_set_path
        BY <2>2 DEF sled_config_set_path
    <2>3. CASE FreePath
        BY <2>3 DEF FreePath
    <2>4. CASE sled_config_set \/ sled_open_db
        BY <2>4 DEF sled_config_set, sled_open_db
    <2>5. CASE sled_free_config
        BY <2>5 DEF sled_free_config
    <2>6. CASE sled_scan_prefix \/ sled_iter_next \/ sled_free_buf \/ sled_free_iter
        BY <2>6 DEF sled_scan_prefix, sled_iter_next, sled_free_buf, sled_free_iter
    <2>7. CASE sled_close \/ Return \/ UNCHANGED vars
        BY <2>7 DEF sled_close, Return, vars
    <2> QED
        BY <2>1, <2>2, <2>3, <2>4, <2>5, <2>6, <2>7 DEF Next, Terminated
<1>3. Careful /\ MisuseIsOverfreeing /\ NoLeak
        => NoMisuse /\ (pc = "done" => \A a \in Addr : heap[a] = "free")
    BY DEF Careful, MisuseIsOverfreeing, NoLeak, NoMisuse
<1> QED
    BY <1>1, <1>2, <1>3, MisuseNeedsOverfreeing, NothingLeaks, PTL DEF Spec
==============================================================================
