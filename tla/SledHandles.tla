----------------------------- MODULE SledHandles ------------------------------
(***************************************************************************)
(* Who owns the configuration, its path string and the database that the  *)
(* sled wrapper passes around as raw pointers (lib/rust/sled/src/lib.rs    *)
(* 22-103): a caller creates a configuration, sets it up in any order,     *)
(* opens the database, scans it, and releases what it believes it owns.    *)
(* Every object lives at an address; the allocator may hand out a freed    *)
(* address again, so that a stale pointer can name another object.         *)
(***************************************************************************)
EXTENDS Naturals, FiniteSets

CONSTANTS
    Addr,               \* addresses
    Null,
    MaxSets,            \* setter calls on one configuration
    MaxItems,           \* pairs the iterator yields before it is exhausted
    FreesPath,          \* does the caller free the path it has set?
    FreesUsedConfig     \* does it free the configuration it has opened?

ASSUME HandlesAssumption ==
    /\ Null \notin Addr /\ MaxSets \in Nat /\ MaxItems \in Nat
    /\ {FreesPath, FreesUsedConfig} \subseteq BOOLEAN

Kind == {"config", "path", "db", "iter", "key", "val"}

VARIABLES
    pc,         \* "new", "config", "open", "closing", "done", "abort"
    heap,       \* what is at each address: a kind, or "free"
    conf,       \* the caller's pointers
    path,
    pathSet,    \* path has been passed to sled_config_set_path
    db,
    iter,
    pair,       \* the key and value iter_next has leaked
    sets,       \* setter calls so far
    items,      \* pairs yielded so far
    overfreed,  \* the caller freed the configuration it had opened
    misused     \* a dead or foreign pointer was dereferenced or freed

vars == <<pc, heap, conf, path, pathSet, db, iter, pair, sets, items,
          overfreed, misused>>

Ptr == Addr \cup {Null}

TypeOK ==
    /\ pc \in {"new", "config", "open", "closing", "done", "abort"}
    /\ heap \in [Addr -> Kind \cup {"free"}]
    /\ {conf, path, db, iter} \subseteq Ptr
    /\ pair \in Ptr \X Ptr
    /\ sets \in 0 .. MaxSets /\ items \in 0 .. MaxItems
    /\ {pathSet, overfreed, misused} \subseteq BOOLEAN

Init ==
    /\ pc = "new" /\ heap = [a \in Addr |-> "free"]
    /\ conf = Null /\ path = Null /\ pathSet = FALSE /\ db = Null /\ iter = Null
    /\ pair = <<Null, Null>> /\ sets = 0 /\ items = 0
    /\ overfreed = FALSE /\ misused = FALSE

-----------------------------------------------------------------------------
(* Faulty variant: the object is forgotten instead of dropped.             *)
Drop_Forgets(h, p) == h

(* Box::from_raw and drop: the heap without p.                             *)
Drop(h, p) == IF p \in Addr THEN [h EXCEPT ![p] = "free"] ELSE h

(* Is p what a callee takes it for?                                        *)
Sound(p, kind) == p \in Addr /\ heap[p] = kind

(* Box::into_raw of a new object of the given kind at a, in heap h.        *)
Place(h, a, kind) == h[a] = "free" /\ heap' = [h EXCEPT ![a] = kind]

sled_create_config ==
    /\ pc = "new" /\ pc' = "config"
    /\ \E a \in Addr : Place(heap, a, "config") /\ conf' = a
    /\ UNCHANGED <<path, db, iter, pair, sets, items, misused, overfreed, pathSet>>

(* The caller's strdup of the path it is about to set.                     *)
MakePath ==
    /\ pc = "config" /\ path = Null /\ sets < MaxSets
    /\ \E a \in Addr : Place(heap, a, "path") /\ path' = a
    /\ pathSet' = FALSE
    /\ UNCHANGED <<pc, conf, db, iter, pair, sets, items, misused, overfreed>>

(* CString::from_raw takes the path over, and a path that is not UTF-8     *)
(* panics; the configuration is unboxed and boxed again.  The caller keeps *)
(* the pointer to its string only if it means to free it.                  *)
sled_config_set_path ==
    /\ pc = "config" /\ path # Null /\ ~pathSet /\ sets < MaxSets
    /\ sets' = sets + 1 /\ pathSet' = TRUE
    /\ misused' = (misused \/ ~Sound(path, "path") \/ ~Sound(conf, "config"))
    /\ \/ \E a \in Addr :
             /\ Place(Drop(Drop(heap, path), conf), a, "config") /\ conf' = a
             /\ path' \in IF FreesPath THEN {path, Null} ELSE {Null}
             /\ UNCHANGED pc
       \/ pc' = "abort" /\ UNCHANGED <<heap, conf, path>>
    /\ UNCHANGED <<db, iter, pair, items, overfreed>>

(* The caller frees a path string: one it has not set after all, or, as    *)
(* the comment on sled_config_set_path asks for, one that it has.          *)
FreePath ==
    /\ pc = "config" /\ path # Null /\ (pathSet => FreesPath)
    /\ misused' = (misused \/ ~Sound(path, "path"))
    /\ heap' = Drop(heap, path) /\ path' = Null /\ pathSet' = FALSE
    /\ UNCHANGED <<pc, conf, db, iter, pair, sets, items, overfreed>>

(* Faulty variant: the caller is left with the pointer it passed in.       *)
sled_config_set_SamePointer ==
    /\ pc = "config" /\ path = Null /\ sets < MaxSets
    /\ sets' = sets + 1
    /\ misused' = (misused \/ ~Sound(conf, "config"))
    /\ \E a \in Addr : Place(Drop(heap, conf), a, "config")
    /\ UNCHANGED <<pc, conf, path, db, iter, pair, items, overfreed, pathSet>>

(* cache_capacity, use_compression, flush_every_ms: unbox, box again.      *)
sled_config_set ==
    /\ pc = "config" /\ path = Null /\ sets < MaxSets
    /\ sets' = sets + 1
    /\ misused' = (misused \/ ~Sound(conf, "config"))
    /\ \E a \in Addr : Place(Drop(heap, conf), a, "config") /\ conf' = a
    /\ UNCHANGED <<pc, path, db, iter, pair, items, overfreed, pathSet>>

(* The configuration is consumed; a database that cannot be opened panics. *)
(* The caller keeps the pointer only if it means to free it.               *)
sled_open_db ==
    /\ pc = "config" /\ path = Null
    /\ misused' = (misused \/ ~Sound(conf, "config"))
    /\ \/ /\ \E a \in Addr : Place(Drop(heap, conf), a, "db") /\ db' = a
          /\ conf' \in IF FreesUsedConfig THEN {conf, Null} ELSE {Null}
          /\ pc' = "open"
       \/ pc' = "abort" /\ UNCHANGED <<heap, conf, db>>
    /\ UNCHANGED <<path, iter, pair, sets, items, overfreed, pathSet>>

(* A caller that changes its mind frees the configuration instead.         *)
sled_free_config ==
    /\ \/ pc = "config" /\ path = Null
       \/ pc = "closing" /\ conf # Null
    /\ misused' = (misused \/ ~Sound(conf, "config"))
    /\ heap' = Drop(heap, conf) /\ conf' = Null
    /\ pc' = IF pc = "config" THEN "done" ELSE pc
    /\ overfreed' = (overfreed \/ pc = "closing")
    /\ UNCHANGED <<path, db, iter, pair, sets, items, pathSet>>

-----------------------------------------------------------------------------
sled_scan_prefix ==
    /\ pc = "open" /\ iter = Null /\ items = 0
    /\ misused' = (misused \/ ~Sound(db, "db"))
    /\ \E a \in Addr : Place(heap, a, "iter") /\ iter' = a
    /\ UNCHANGED <<pc, conf, path, db, pair, sets, items, overfreed, pathSet>>

(* Some(Ok): the key and the value are leaked; Some(Err) panics.  The      *)
(* iterator holds the tree itself, so it works after sled_close as well.   *)
sled_iter_next ==
    /\ pc \in {"open", "closing"} /\ iter # Null /\ pair = <<Null, Null>>
    /\ items < MaxItems
    /\ misused' = (misused \/ ~Sound(iter, "iter"))
    /\ \/ /\ \E a, b \in Addr :
                /\ a # b /\ heap[a] = "free"
                /\ Place([heap EXCEPT ![a] = "key"], b, "val")
                /\ pair' = <<a, b>>
          /\ items' = items + 1 /\ UNCHANGED pc
       \/ pc' = "abort" /\ UNCHANGED <<heap, pair, items>>
    /\ UNCHANGED <<conf, path, db, iter, sets, overfreed, pathSet>>

(* The caller frees the key and the value it was given.                    *)
sled_free_buf ==
    /\ pc \in {"open", "closing"} /\ pair # <<Null, Null>>
    /\ misused' = (misused \/ ~Sound(pair[1], "key") \/ ~Sound(pair[2], "val"))
    /\ heap' = Drop(Drop(heap, pair[1]), pair[2])
    /\ pair' = <<Null, Null>>
    /\ UNCHANGED <<pc, conf, path, db, iter, sets, items, overfreed, pathSet>>

sled_free_iter ==
    /\ pc \in {"open", "closing"} /\ iter # Null /\ pair = <<Null, Null>>
    /\ misused' = (misused \/ ~Sound(iter, "iter"))
    /\ heap' = Drop(heap, iter) /\ iter' = Null
    /\ UNCHANGED <<pc, conf, path, db, pair, sets, items, overfreed, pathSet>>

sled_close ==
    /\ pc = "open" /\ pc' = "closing"
    /\ misused' = (misused \/ ~Sound(db, "db"))
    /\ heap' = Drop(heap, db) /\ db' = Null
    /\ UNCHANGED <<conf, path, iter, pair, sets, items, overfreed, pathSet>>

(* Everything the caller believes it owns has been released.               *)
Return ==
    /\ pc = "closing" /\ {conf, path, db, iter} = {Null}
    /\ pair = <<Null, Null>>
    /\ pc' = "done"
    /\ UNCHANGED <<heap, conf, path, db, iter, pair, sets, items, misused, overfreed, pathSet>>

Terminated == pc \in {"done", "abort"} /\ UNCHANGED vars

Next == \/ sled_create_config \/ MakePath \/ sled_config_set_path \/ FreePath
        \/ sled_config_set \/ sled_open_db \/ sled_free_config
        \/ sled_scan_prefix \/ sled_iter_next \/ sled_free_buf
        \/ sled_free_iter \/ sled_close \/ Return \/ Terminated

Spec == Init /\ [][Next]_vars

-----------------------------------------------------------------------------
(* For a caller that leaves its paths to the wrapper, freeing the          *)
(* configuration it has opened is the only way to misuse a pointer: used   *)
(* in any other order, the calls keep every pointer sound, also when freed *)
(* addresses are handed out again (39-46, 79-102).                         *)
MisuseIsOverfreeing == misused => overfreed

(* No call is given a pointer to something that was consumed or freed.     *)
(* The path string is the caller's to free after sled_config_set_path, "it *)
(* is copied in this function" (lib.rs 34-35), and sled_open_db "consumes  *)
(* the passed-in config" (79).                                             *)
NoMisuse == ~misused

(* A caller that has released what it owns, and only that, leaves nothing  *)
(* behind: no call keeps what it was given (24-46, 79-90, 94-102).         *)
NoLeak == (pc = "done" /\ ~overfreed) => \A a \in Addr : heap[a] = "free"
==============================================================================
