---------------------------- MODULE ClientCProofs ----------------------------
(***************************************************************************)
(* The safety properties of client.c, for every number of request units   *)
(* and body chunks, every send buffer and every set of waker handles, and  *)
(* the safety part of its implementing HttpExchange.                       *)
(***************************************************************************)
EXTENDS ClientC, HyperConnProofs

-----------------------------------------------------------------------------
(* CoreInv under the program's own handlers.                               *)

LEMMA HandlersKeep ==
    ASSUME CoreInv,
           HandshakeDone \/ BadRequest \/ SendDone \/ BodyDone \/ print_each_chunk
    PROVE  CoreInv'
<1> USE UnitsAssumption, WakerAssumption
    DEF CoreInv, CoreTypeOK, Task, FgTask, Dir, Total, Running, Exited,
        connVars, netVars, WakersAccounted, HandInv, OneForeground, TaskInv,
        ConnInv, Live, Handling, NoTask, Buffered, WantsRead, WantsWrite
<1>1. CASE HandshakeDone
    \* outbox grows, but the connection task is not asleep afterwards.
    BY <1>1 DEF HandshakeDone, TaskFree, Wake
<1>2. CASE BadRequest
    BY <1>2 DEF BadRequest
<1>3. CASE SendDone
    BY <1>3 DEF SendDone, TaskFree
<1>4. CASE BodyDone
    BY <1>4 DEF BodyDone, free_conn_data
<1>5. CASE print_each_chunk
    BY <1>5 DEF print_each_chunk, Polling
<1> QED
    BY <1>1, <1>2, <1>3, <1>4, <1>5

LEMMA NextKeepsCoreInv == ASSUME CoreInv, [Next]_vars PROVE CoreInv'
<1>1. CASE Setup
    BY <1>1, SetupKeeps DEF Setup, Resource
<1>2. CASE PollTask
    BY <1>2, PollKeeps, HandlersKeep DEF PollTask
<1>3. CASE PollIO
    BY <1>3, ReadKeeps, WriteKeeps, YieldKeeps DEF PollIO
<1>4. CASE Handle
    BY <1>4, HandlersKeep, HandlerKeeps DEF Handle
<1>5. CASE Select \/ SelectFails
    BY <1>5, SelectKeeps, HandlerKeeps DEF Select
<1>6. CASE Peer
    BY <1>6, PeerKeeps
<1>7. CASE UNCHANGED vars
    BY <1>7, StutterKeeps DEF vars
<1> QED
    BY <1>1, <1>2, <1>3, <1>4, <1>5, <1>6, <1>7 DEF Next, Program, Terminated

-----------------------------------------------------------------------------
(* The rest of the inductive invariant.                                    *)

OwnInv == CauseInv /\ HeldInv /\ CleanExit /\ ErrorsHaveACause

LEMMA InitOwnInv == Init => OwnInv
BY DEF Init, CoreInit, OwnInv, CauseInv, HeldInv, CleanExit, ErrorsHaveACause,
       Running, NoTask

(* The connection task is absent or ends only before the request exists,   *)
(* after the last unit, or for a cause.                                    *)
LEMMA ConnEndsKeepsOwn ==
    ASSUME CoreInv, OwnInv, pc = "conn", ConnEnds,
           peer # "open" \/ fault' \/ rcvd = Total, fault => fault'
    PROVE  OwnInv'
BY DEF ConnEnds, Finish, Wake, CoreInv, CoreTypeOK, Task, FgTask, Running,
       Live, NoTask, OwnInv, CauseInv, HeldInv, CleanExit, ErrorsHaveACause,
       connVars, netVars, HandInv

LEMMA PollIOKeepsOwn == ASSUME CoreInv, OwnInv, PollIO PROVE OwnInv'
<1> USE DEF OwnInv, CauseInv, HeldInv, CleanExit, ErrorsHaveACause, CoreInv,
            CoreTypeOK, Task, FgTask, Total, Running, Live, NoTask, HandInv,
            ConnInv
<1>1. CASE read_cb /\ ReadData
    BY <1>1, UnitsAssumption DEF read_cb, ReadData, Wake, connVars, netVars
<1>2. CASE read_cb /\ (ReadEnds \/ ReadFails)
    BY <1>2, ConnEndsKeepsOwn DEF read_cb, ReadEnds, ReadFails
<1>3. CASE read_cb /\ ReadBlocks
    BY <1>3 DEF read_cb, ReadBlocks, Pending, netVars
<1>4. CASE write_cb /\ WriteData
    BY <1>4 DEF write_cb, WriteData, connVars
<1>5. CASE write_cb /\ WriteFails
    <2>1. CASE ConnEnds /\ fault' = TRUE
        BY <1>5, <2>1, ConnEndsKeepsOwn DEF write_cb
    <2>2. CASE pc' = "exit1" /\ UNCHANGED <<hyperVars, connVars, netVars>>
        BY <2>2, <1>5 DEF write_cb, hyperVars, connVars, netVars
    <2> QED
        BY <1>5, <2>1, <2>2 DEF WriteFails
<1>6. CASE write_cb /\ WriteBlocks
    BY <1>6 DEF write_cb, WriteBlocks, Pending, netVars
<1>7. CASE ConnYield
    BY <1>7 DEF ConnYield, connVars, netVars
<1>8. CASE ConnDone
    BY <1>8, ConnEndsKeepsOwn DEF ConnDone
<1> QED
    BY <1>1, <1>2, <1>3, <1>4, <1>5, <1>6, <1>7, <1>8 DEF PollIO, read_cb, write_cb

LEMMA NextKeepsOwnInv == ASSUME CoreInv, OwnInv, [Next]_vars PROVE OwnInv'
<1> USE UnitsAssumption, WakerAssumption
    DEF OwnInv, CauseInv, HeldInv, CleanExit, ErrorsHaveACause, CoreInv,
        CoreTypeOK, Task, FgTask, Total, Running, Exited, Live, NoTask, HandInv,
        Handling, TaskInv
<1>1. CASE Setup
    BY <1>1 DEF Setup, SetupFails, SetupOk, hyperVars, netVars
<1>2. CASE PollHandshake \/ PollSend
    BY <1>2 DEF PollHandshake, PollSend, Polling, Finish, connVars, netVars
<1>3. CASE BodyDry
    BY <1>3 DEF BodyDry, BodyFinish, Wake, Polling, Finish, connVars, netVars
<1>4. CASE print_each_chunk \/ PollConn
    BY <1>4 DEF print_each_chunk, PollConn, Polling, connVars, netVars
<1>5. CASE PollIO
    BY <1>5, PollIOKeepsOwn
<1>6. CASE HandshakeDone
    BY <1>6 DEF HandshakeDone, TaskFree, Wake, connVars, netVars
<1>7. CASE BadRequest \/ SendDone
    BY <1>7 DEF BadRequest, SendDone, TaskFree, connVars, netVars
<1>8. CASE BodyDone
    BY <1>8 DEF BodyDone, free_conn_data, netVars, WakersAccounted, Dir
<1>9. CASE NotSet
    BY <1>9 DEF NotSet, TaskFree, connVars, netVars
<1>10. CASE (\E t \in FgTask : GiveUp(t)) \/ SelectFails
    BY <1>10 DEF GiveUp, SelectFails, hyperVars, connVars, netVars
<1>11. CASE Select
    BY <1>11 DEF Select, EnterSelect, SelectReturns, Wake, hyperVars, netVars
<1>12. CASE pc \notin Exited /\ Peer
    BY <1>12 DEF Peer, PeerRecv, PeerSend, PeerClose, PeerReset, hyperVars, connVars
<1>13. CASE UNCHANGED vars
    BY <1>13 DEF vars, coreVars, hyperVars, connVars, netVars
<1> QED
    BY <1>1, <1>2, <1>3, <1>4, <1>5, <1>6, <1>7, <1>8, <1>9, <1>10, <1>11,
       <1>12, <1>13 DEF Next, Program, PollTask, Handle, Terminated

-----------------------------------------------------------------------------
(* The inductive invariant holds in every state of every run (the whole of *)
(* client.c's event loop).                                                 *)
THEOREM Inductive == SafeSpec => []IInv
<1>1. Init => IInv
    BY CoreInitInv, InitOwnInv DEF Init, IInv, OwnInv
<1>2. IInv /\ [Next]_vars => IInv'
    BY NextKeepsCoreInv, NextKeepsOwnInv DEF IInv, OwnInv
<1> QED
    BY <1>1, <1>2, PTL DEF SafeSpec

(* Every variable of the program keeps to its type.                        *)
THEOREM TypeCorrect == SafeSpec => []TypeOK
<1>1. IInv => TypeOK
    BY DEF IInv, CoreInv, TypeOK
<1> QED
    BY <1>1, Inductive, PTL

(* Wakers are freed or woken exactly once: none leaks, none dangles.       *)
THEOREM WakersSafe == SafeSpec => []WakersAccounted
<1>1. IInv => WakersAccounted
    BY DEF IInv, CoreInv
<1> QED
    BY <1>1, Inductive, PTL

(* The loop never sleeps in select() without having registered all it      *)
(* must be woken for.                                                      *)
THEOREM NeverSleepsUnwatched == SafeSpec => []NoLostWakeup
<1>1. IInv => NoLostWakeup
    BY CoreInvWatches DEF IInv
<1> QED
    BY <1>1, Inductive, PTL

(* return 0 is reached only with the whole body printed and everything but *)
(* the socket released.                                                    *)
THEOREM ExitIsClean == SafeSpec => []CleanExit
<1>1. IInv => CleanExit
    BY DEF IInv
<1> QED
    BY <1>1, Inductive, PTL

(* A send or body error has a cause: the peer, or a call on the socket.    *)
THEOREM ErrorsAreReal == SafeSpec => []ErrorsHaveACause
<1>1. IInv => ErrorsHaveACause
    BY DEF IInv
<1> QED
    BY <1>1, Inductive, PTL

-----------------------------------------------------------------------------
(* The abstract exchange.  A step of the program that is not one of its    *)
(* handlers' leaves the phase alone.                                       *)

LEMMA PhaseKept ==
    ASSUME pc \notin Exited, pc' \notin Exited,
           Live("send")' <=> Live("send"), Live("body")' <=> Live("body"),
           delivered' = delivered
    PROVE  UNCHANGED Exchange!vars
BY DEF phase, Exited, Exchange!vars

LEMMA GivingUpFails ==
    ASSUME pc \in {"start"} \cup Running, pc' = "exit1", delivered' = delivered
    PROVE  Exchange!Fail
BY DEF phase, Exited, Running, Exchange!Fail

LEMMA PollIORefines ==
    ASSUME IInv, PollIO
    PROVE  [Exchange!Next]_(Exchange!vars)
<1> USE DEF IInv, CoreInv, CoreTypeOK, HandInv, Running, Exited, Task, FgTask,
            NoTask, Live
<1>1. pc = "conn" /\ cur = NoTask
    BY DEF PollIO, read_cb, write_cb, ConnYield, ConnDone
<1>2. CASE ConnEnds
    BY <1>1, <1>2, PhaseKept DEF ConnEnds, Finish, Wake
<1>3. CASE ReadData \/ WriteData \/ ConnYield
    BY <1>1, <1>3, PhaseKept DEF ReadData, WriteData, ConnYield, Wake
<1>4. CASE ReadBlocks \/ WriteBlocks
    BY <1>1, <1>4, PhaseKept DEF ReadBlocks, WriteBlocks, Pending
<1>5. CASE pc' = "exit1" /\ UNCHANGED <<hyperVars, connVars, netVars>>
    BY <1>1, <1>5, GivingUpFails DEF hyperVars, Exchange!Next
<1> QED
    BY <1>2, <1>3, <1>4, <1>5
    DEF PollIO, read_cb, write_cb, ReadEnds, ReadFails, WriteFails, ConnDone

LEMMA NextRefines ==
    ASSUME IInv, [Next]_vars
    PROVE  [Exchange!Next]_(Exchange!vars)
<1> USE DEF IInv, CoreInv, CoreTypeOK, HandInv, Running, Exited, Task, FgTask,
            NoTask, Live
<1>1. CASE \E R \in SUBSET Resource : SetupFails(R)
    BY <1>1, GivingUpFails DEF SetupFails, hyperVars, Exchange!Next
<1>2. CASE \E R \in SUBSET Resource : SetupOk(R)
    BY <1>2, PhaseKept DEF SetupOk
<1>3. CASE PollHandshake \/ PollSend \/ BodyDry \/ PollConn
    BY <1>3, PhaseKept
    DEF PollHandshake, PollSend, BodyDry, PollConn, BodyFinish, Polling, Finish, Wake
<1>4. CASE print_each_chunk
    <2>1. phase = "receiving" /\ phase' = "receiving"
        BY <1>4 DEF print_each_chunk, Polling, phase, OneForeground
    <2>2. delivered < BodyUnits /\ delivered' = delivered + 1
        BY <1>4, UnitsAssumption DEF print_each_chunk, Polling, Buffered, Total
    <2> QED
        BY <2>1, <2>2 DEF Exchange!Next, Exchange!Chunk
<1>5. CASE PollIO
    BY <1>5, PollIORefines
<1>6. CASE HandshakeDone
    <2>1. phase = "connecting" /\ phase' = "awaiting"
        BY <1>6 DEF HandshakeDone, Handling, TaskFree, Wake, phase, OneForeground
    <2> QED
        BY <1>6, <2>1 DEF HandshakeDone, Exchange!Next, Exchange!Request
<1>7. CASE SendDone
    <2>1. phase = "awaiting" /\ phase' = "receiving"
        BY <1>7 DEF SendDone, Handling, TaskFree, phase, OneForeground
    <2> QED
        BY <1>7, <2>1 DEF SendDone, Exchange!Next, Exchange!Response
<1>8. CASE BodyDone
    <2>1. phase = "receiving" /\ phase' = "complete"
        BY <1>8 DEF BodyDone, Handling, phase, OneForeground
    <2> QED
        BY <1>8, <2>1 DEF BodyDone, TaskInv, Exchange!Next, Exchange!Complete
<1>9. CASE BadRequest \/ (\E t \in FgTask : GiveUp(t)) \/ SelectFails
    BY <1>9, GivingUpFails
    DEF BadRequest, GiveUp, SelectFails, Handling, hyperVars, Exchange!Next
<1>10. CASE NotSet \/ Select
    BY <1>10, PhaseKept
    DEF NotSet, Handling, TaskFree, Select, EnterSelect, SelectReturns, Wake, hyperVars
<1>11. CASE (pc \notin Exited /\ Peer) \/ UNCHANGED vars
    BY <1>11
    DEF Peer, PeerRecv, PeerSend, PeerClose, PeerReset, vars, coreVars,
        hyperVars, phase, Exchange!vars
<1> QED
    BY <1>1, <1>2, <1>3, <1>4, <1>5, <1>6, <1>7, <1>8, <1>9, <1>10, <1>11
    DEF Next, Program, Setup, PollTask, Handle, Terminated, Resource

(* Whatever the interleaving of callbacks and peer, client.c goes through  *)
(* the phases of an exchange in order, counts every chunk once, and        *)
(* completes only on the whole body.                                       *)
THEOREM RefinesExchange == SafeSpec => Exchange!SafeSpec
<1>1. Init => Exchange!Init
    BY DEF Init, CoreInit, phase, Exited, Live, NoTask, Task, FgTask, Exchange!Init
<1>2. IInv /\ [Next]_vars => [Exchange!Next]_(Exchange!vars)
    BY NextRefines
<1> QED
    BY <1>1, <1>2, Inductive, PTL DEF SafeSpec, Exchange!SafeSpec
-----------------------------------------------------------------------------
(* Every run is finite.                                                    *)

(* Nothing but the program's first steps leaves the request to be made.    *)
LEMMA RequestStaysMade ==
    ASSUME CoreInv, Next, pc' = "start" \/ Live("handshake")'
    PROVE  pc = "start" \/ Live("handshake")
<1> USE DEF CoreInv, CoreTypeOK, Task, FgTask, Live, NoTask
<1>1. CASE Setup \/ PollTask
    BY <1>1 DEF Setup, SetupFails, SetupOk, PollTask, PollHandshake, PollSend,
       print_each_chunk, BodyDry, BodyFinish, PollConn, Polling, Finish, Wake,
       hyperVars
<1>2. CASE PollIO
    BY <1>2 DEF PollIO, read_cb, ReadData, ReadEnds, ReadFails, ReadBlocks, write_cb,
       WriteData, WriteFails, WriteBlocks, Pending, ConnYield, ConnDone, ConnEnds,
       Finish, Wake, hyperVars
<1>3. CASE Handle
    BY <1>3 DEF Handle, HandshakeDone, BadRequest, SendDone, BodyDone, NotSet,
       GiveUp, Handling, TaskFree, Wake, hyperVars
<1>4. CASE Select \/ SelectFails \/ Peer \/ Terminated
    BY <1>4 DEF Select, EnterSelect, SelectReturns, SelectFails, Wake, Peer,
       PeerRecv, PeerSend, PeerClose, PeerReset, Terminated, vars, coreVars, hyperVars
<1> QED
    BY <1>1, <1>2, <1>3, <1>4 DEF Next, Program

LEMMA StepLeavesLess ==
    ASSUME CoreInv, CoreInv', [Next]_vars, vars' # vars
    PROVE  StepsLeft' < StepsLeft
<1>1. pc \notin Exited
    BY DEF Next, Program, Setup, SetupFails, SetupOk, PollTask, PollHandshake,
       PollSend, print_each_chunk, BodyDry, PollConn, Polling, PollIO, read_cb,
       write_cb, ConnYield, ConnDone, Handle, HandshakeDone, BadRequest, SendDone,
       BodyDone, NotSet, GiveUp, Handling, Select, EnterSelect, SelectReturns,
       SelectFails, Terminated, Exited
<1>2. CASE HandshakeDone
    BY <1>2, RequestLeavesLess DEF HandshakeDone
<1>3. HandshakeDone \/ Lower \/ pc' \in Exited
    <2>1. CASE \E R \in SUBSET Resource : SetupOk(R)
        BY <2>1, SetupLowers
    <2>2. CASE PollHandshake \/ PollSend \/ BodyDry \/ PollConn
        BY <2>2, PollLowers
    <2>3. CASE print_each_chunk
        BY <2>3, ChunkLowers DEF print_each_chunk, Polling
    <2>4. CASE PollIO
        BY <2>4, ReadLowers, WriteLowers, YieldLowers DEF PollIO
    <2>5. CASE SendDone
        BY <2>5, ResponseLowers DEF SendDone
    <2>6. CASE NotSet \/ Select
        BY <2>6, NotSetLowers, SelectLowers DEF Select
    <2>7. CASE Peer
        BY <1>1, <2>7, PeerLowers
    <2>8. CASE \/ \E R \in SUBSET Resource : SetupFails(R)
                \/ BadRequest \/ BodyDone \/ SelectFails
                \/ \E t \in FgTask : GiveUp(t)
        BY <2>8 DEF SetupFails, BadRequest, BodyDone, SelectFails, GiveUp, Exited
    <2> QED
        BY <2>1, <2>2, <2>3, <2>4, <2>5, <2>6, <2>7, <2>8
        DEF Next, Program, Setup, PollTask, Handle, Terminated, Resource
<1> QED
    BY <1>1, <1>2, <1>3, RequestStaysMade, LowerLeavesLess

(* Whatever the peer and the kernel do, client.c takes only so many steps: *)
(* StepsLeft, a number, falls with each of them.  In particular select()   *)
(* does not return again and again for a descriptor whose waker was woken  *)
(* already (303-325), nor do the executor's tasks wake each other for      *)
(* ever.  That the program gets to its return needs, besides, that it is   *)
(* not left asleep: Terminates, under the peer's fairness.                 *)
THEOREM EveryRunIsFinite ==
    SafeSpec => [](StepsLeft \in Nat) /\ [][StepsLeft' < StepsLeft]_vars
<1>1. IInv => StepsLeft \in Nat
    BY StepsLeftIsNat DEF IInv
<1>2. IInv /\ IInv' /\ [Next]_vars => [StepsLeft' < StepsLeft]_vars
    BY StepLeavesLess DEF IInv
<1> QED
    BY <1>1, <1>2, Inductive, PTL DEF SafeSpec
==============================================================================
