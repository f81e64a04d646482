--------------------------- MODULE ConnectToProofs ---------------------------
(***************************************************************************)
(* connect_to, for address lists of any length and every outcome of every  *)
(* address.                                                                *)
(***************************************************************************)
EXTENDS ConnectTo, SequenceTheorems, TLAPS

(* At each place of the loop: what is open, and where rp stands.           *)
PlaceInv ==
    /\ pc \in {"resolve", "loop"} => open = {}
    /\ pc = "resolve" => rp = 1 /\ ret = -1
    /\ pc = "connect" => rp # NULL /\ sfd \in Fd /\ open = {sfd}
    /\ pc = "check" =>
          IF rp = NULL THEN open = {}
          ELSE sfd \in Fd /\ open = {sfd} /\ addrs[rp] = "accepts"

(* The addresses passed over so far do not accept.                         *)
PassedOver == \A i \in 1 .. rp - 1 : addrs[i] # "accepts"

IInv == /\ TypeOK /\ PlaceInv /\ PassedOver
        /\ ReturnsTheOpenSocket /\ FirstThatAccepts

LEMMA InitInv == Init => IInv
<1> SUFFICES ASSUME Init PROVE IInv
    OBVIOUS
<1>1. PICK n \in 1 .. MaxAddrs : addrs \in [1 .. n -> Outcome]
    BY DEF Init
<1>2. addrs \in Seq(Outcome)
    <2>1. n \in Nat
        BY ConnectAssumption
    <2>2. addrs \in UNION {[1 .. k -> Outcome] : k \in Nat}
        BY <1>1, <2>1
    <2> QED
        BY <2>2, SeqDef
<1>3. Len(addrs) \in Nat
    BY <1>2, LenProperties
<1>4. /\ pc = "resolve" /\ rp = 1 /\ sfd \in Fd \cup {-1}
      /\ open = {} /\ result = FALSE /\ ret = -1
    BY DEF Init
<1>5. TypeOK
    <2>1. addrs \in Seq(Outcome) /\ rp \in 1 .. Len(addrs) + 1
        BY <1>2, <1>3, <1>4
    <2>2. /\ pc \in {"resolve", "loop", "connect", "check", "done"}
          /\ sfd \in Fd \cup {-1} /\ ret \in Fd \cup {-1}
        BY <1>4
    <2>3. open \in SUBSET Fd
        BY <1>4
    <2>4. result \in BOOLEAN
        BY <1>4
    <2> QED
        BY <2>1, <2>2, <2>3, <2>4 DEF TypeOK
<1> QED
    BY <1>4, <1>5
    DEF IInv, PlaceInv, PassedOver, ReturnsTheOpenSocket, FirstThatAccepts

LEMMA NextKeepsInv == ASSUME IInv, [Next]_vars PROVE IInv'
<1> USE ConnectAssumption
    DEF IInv, TypeOK, PlaceInv, PassedOver, ReturnsTheOpenSocket,
        FirstThatAccepts, NULL, Outcome
<1>0. Len(addrs) \in Nat
    OBVIOUS
<1>1. CASE getaddrinfo
    BY <1>0, <1>1 DEF getaddrinfo
<1>2. CASE Socket
    <2>1. rp \in 1 .. Len(addrs)
        BY <1>0, <1>2 DEF Socket
    <2>2. CASE sfd' = -1 /\ addrs[rp] = "nosocket" /\ rp' = rp + 1 /\ UNCHANGED <<pc, open>>
        BY <1>0, <1>2, <2>1, <2>2 DEF Socket
    <2>3. CASE sfd' \in Fd \ open /\ open' = open \cup {sfd'} /\ pc' = "connect" /\ rp' = rp
        BY <1>0, <1>2, <2>1, <2>3 DEF Socket
    <2> QED
        BY <1>2, <2>2, <2>3 DEF Socket
<1>3. CASE Connect
    BY <1>0, <1>3 DEF Connect
<1>4. CASE Exhausted
    BY <1>0, <1>4 DEF Exhausted
<1>5. CASE Check
    <2>1. CASE rp = NULL
        BY <1>0, <1>5, <2>1 DEF Check
    <2>2. CASE rp # NULL
        <3>1. ret' = sfd /\ sfd \in Nat /\ open' = {sfd}
            BY <1>5, <2>2 DEF Check
        <3>2. open' = {ret'} \ {-1}
            BY <3>1
        <3> QED
            BY <1>0, <1>5, <2>2, <3>1, <3>2 DEF Check
    <2> QED
        BY <2>1, <2>2
<1>6. CASE UNCHANGED vars
    BY <1>6 DEF vars
<1> QED
    BY <1>1, <1>2, <1>3, <1>4, <1>5, <1>6 DEF Next, Terminated

LEMMA Inductive == Spec => []IInv
<1>1. IInv /\ [Next]_vars => IInv'
    BY NextKeepsInv
<1> QED
    BY <1>1, InitInv, PTL DEF Spec

(* What connect_to returns is the only descriptor it leaves open, whatever *)
(* was opened and closed on the way (98, 101-112).                         *)
THEOREM SocketIsOpen == Spec => []ReturnsTheOpenSocket
<1>1. IInv => ReturnsTheOpenSocket
    BY DEF IInv
<1> QED
    BY <1>1, Inductive, PTL

(* It is connected to the first address that accepts, and there is none    *)
(* only if no address does or the name was not resolved (93-109).          *)
THEOREM FirstWins == Spec => []FirstThatAccepts
<1>1. IInv => FirstThatAccepts
    BY DEF IInv
<1> QED
    BY <1>1, Inductive, PTL

-----------------------------------------------------------------------------
(* The steps connect_to has left: two for each address not tried yet, and  *)
(* the way out.                                                            *)
Place == [resolve |-> 4, loop |-> 3, connect |-> 2, check |-> 1, done |-> 0]

StepsLeft == 2 * (NULL - rp) + Place[pc]

LEMMA PlaceIsNat ==
    /\ Place["resolve"] = 4 /\ Place["loop"] = 3 /\ Place["connect"] = 2
    /\ Place["check"] = 1 /\ Place["done"] = 0
BY DEF Place

LEMMA StepsLeftIsNat == IInv => StepsLeft \in 0 .. 2 * Len(addrs) + 4
<1> SUFFICES ASSUME IInv PROVE StepsLeft \in 0 .. 2 * Len(addrs) + 4
    OBVIOUS
<1>1. Place[pc] \in 0 .. 4
    BY PlaceIsNat DEF IInv, TypeOK
<1>2. Len(addrs) \in Nat /\ rp \in 1 .. Len(addrs) + 1
    BY DEF IInv, TypeOK
<1> QED
    BY <1>1, <1>2 DEF StepsLeft, NULL

(* connect_to takes at most two steps, a socket and an attempt to connect, *)
(* for each address of the list, and four more: the list is not walked     *)
(* past its end nor an address tried twice (93-105).                       *)
THEOREM EveryCallIsFinite ==
    Spec => /\ [](StepsLeft \in 0 .. 2 * Len(addrs) + 4)
            /\ [][StepsLeft' < StepsLeft /\ addrs' = addrs]_vars
<1>1. ASSUME IInv, [Next]_vars, vars' # vars
      PROVE  StepsLeft' < StepsLeft /\ addrs' = addrs
    <2> USE PlaceIsNat DEF StepsLeft, NULL
    <2>1. Len(addrs) \in Nat /\ rp \in 1 .. Len(addrs) + 1
        BY <1>1 DEF IInv, TypeOK
    <2>2. CASE getaddrinfo
        BY <2>1, <2>2 DEF getaddrinfo
    <2>3. CASE Socket
        BY <2>1, <2>3 DEF Socket
    <2>4. CASE Connect
        BY <2>1, <2>4 DEF Connect
    <2>5. CASE Exhausted
        BY <2>1, <2>5 DEF Exhausted
    <2>6. CASE Check
        <3>1. pc = "check" /\ pc' = "done" /\ addrs' = addrs /\ rp' = rp
            BY <2>6 DEF Check
        <3> QED
            BY <2>1, <3>1
    <2> QED
        BY <1>1, <2>2, <2>3, <2>4, <2>5, <2>6 DEF Next, Terminated
<1>2. IInv /\ [Next]_vars => [StepsLeft' < StepsLeft /\ addrs' = addrs]_vars
    BY <1>1
<1> QED
    BY <1>2, StepsLeftIsNat, Inductive, PTL DEF Spec
==============================================================================
