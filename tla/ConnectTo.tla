------------------------------ MODULE ConnectTo ------------------------------
(***************************************************************************)
(* connect_to (client.c 78-113, upload.c 78-113; ConnectTo of hyper.go     *)
(* 216-243 is the same loop): the addresses of a host are tried in order,  *)
(* each with a socket of its own, until one accepts the connection.  The   *)
(* clients' Setup is this algorithm in one step.                           *)
(***************************************************************************)
EXTENDS Integers, Sequences, FiniteSets

CONSTANTS
    Fd,         \* descriptors the kernel hands out
    MaxAddrs    \* length of the longest address list tried

ASSUME ConnectAssumption == Fd \subseteq Nat /\ MaxAddrs \in Nat \ {0}

(* What each address has in store: socket() fails, connect() fails, or the *)
(* connection is made.                                                     *)
Outcome == {"nosocket", "refused", "accepts"}

VARIABLES
    addrs,      \* the list getaddrinfo returns
    pc,         \* "resolve", "loop", "connect", "check", "done"
    rp,         \* index of the current address; beyond the end when NULL
    sfd,        \* the variable sfd
    open,       \* descriptors open in this process
    result,     \* has getaddrinfo's list been allocated and not freed?
    ret         \* what connect_to returns

vars == <<addrs, pc, rp, sfd, open, result, ret>>

TypeOK ==
    /\ addrs \in Seq(Outcome)
    /\ pc \in {"resolve", "loop", "connect", "check", "done"}
    /\ rp \in 1 .. Len(addrs) + 1
    /\ sfd \in Fd \cup {-1} /\ ret \in Fd \cup {-1}
    /\ open \in SUBSET Fd
    /\ result \in BOOLEAN

(* sfd starts out uninitialized: any number.                               *)
Init ==
    /\ addrs \in UNION {[1 .. n -> Outcome] : n \in 1 .. MaxAddrs}
    /\ pc = "resolve" /\ rp = 1
    /\ sfd \in Fd \cup {-1}
    /\ open = {} /\ result = FALSE /\ ret = -1

-----------------------------------------------------------------------------
NULL == Len(addrs) + 1

getaddrinfo ==
    /\ pc = "resolve"
    /\ \/ pc' = "loop" /\ result' = TRUE
       \/ pc' = "done" /\ result' = FALSE       \* dns failed
    /\ UNCHANGED <<addrs, rp, sfd, open, ret>>

(* Faulty variant: the list is advanced by the body and by the for.        *)
Socket_Skips ==
    /\ pc = "loop" /\ rp # NULL
    /\ \/ /\ addrs[rp] = "nosocket"
          /\ sfd' = -1 /\ rp' = rp + 2
          /\ UNCHANGED <<pc, open>>
       \/ /\ addrs[rp] # "nosocket"
          /\ sfd' \in Fd \ open /\ open' = open \cup {sfd'}
          /\ pc' = "connect" /\ UNCHANGED rp
    /\ UNCHANGED <<addrs, result, ret>>

Socket ==
    /\ pc = "loop" /\ rp # NULL
    /\ \/ /\ addrs[rp] = "nosocket"
          /\ sfd' = -1 /\ rp' = rp + 1
          /\ UNCHANGED <<pc, open>>
       \/ /\ addrs[rp] # "nosocket"
          /\ sfd' \in Fd \ open /\ open' = open \cup {sfd'}
          /\ pc' = "connect" /\ UNCHANGED rp
    /\ UNCHANGED <<addrs, result, ret>>

(* Faulty variant: the result of connect() is not looked at.               *)
Connect_Unchecked ==
    /\ pc = "connect" /\ pc' = "check"
    /\ UNCHANGED <<addrs, rp, sfd, open, result, ret>>

Connect ==
    /\ pc = "connect"
    /\ \/ addrs[rp] = "accepts" /\ pc' = "check" /\ UNCHANGED <<rp, open>>
       \/ /\ addrs[rp] = "refused" /\ pc' = "loop"
          /\ rp' = rp + 1 /\ open' = open \ {sfd}
    /\ UNCHANGED <<addrs, sfd, result, ret>>

Exhausted ==
    /\ pc = "loop" /\ rp = NULL
    /\ pc' = "check"
    /\ UNCHANGED <<addrs, rp, sfd, open, result, ret>>

(* Faulty variant: only sfd is looked at to tell whether an address        *)
(* succeeded.                                                              *)
Check_SfdOnly ==
    /\ pc = "check" /\ pc' = "done"
    /\ result' = FALSE
    /\ ret' = sfd
    /\ UNCHANGED <<addrs, rp, sfd, open>>

(* freeaddrinfo; rp, not sfd, tells whether an address succeeded.          *)
Check ==
    /\ pc = "check" /\ pc' = "done"
    /\ result' = FALSE
    /\ ret' = IF rp = NULL THEN -1 ELSE sfd
    /\ UNCHANGED <<addrs, rp, sfd, open>>

Terminated == pc = "done" /\ UNCHANGED vars

Next == getaddrinfo \/ Socket \/ Connect \/ Exhausted \/ Check \/ Terminated

Spec == Init /\ [][Next]_vars

-----------------------------------------------------------------------------
(* What is returned is the only descriptor left open, never one that was   *)
(* closed in an earlier turn of the loop (98, 101-112).                    *)
ReturnsTheOpenSocket ==
    pc = "done" => open = {ret} \ {-1} /\ ~result

(* The descriptor belongs to the first address that accepts, and without   *)
(* one every address was tried or, the name not resolved, none (93-109).   *)
FirstThatAccepts ==
    pc = "done" =>
        /\ \A i \in 1 .. rp - 1 : addrs[i] # "accepts"
        /\ IF ret = -1 THEN rp \in {1, NULL} ELSE addrs[rp] = "accepts"
==============================================================================
