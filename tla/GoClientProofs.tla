---------------------------- MODULE GoClientProofs ----------------------------
(***************************************************************************)
(* The safety properties of hyper.go's Get, for every number of request   *)
(* units and body chunks, every send buffer, every set of waker handles    *)
(* and every timeout, and the safety part of its implementing              *)
(* HttpExchange.                                                           *)
(***************************************************************************)
EXTENDS GoClient, HyperConnProofs, Integers

(* The gathered body lags behind what hyper delivered only after a malloc  *)
(* failed, and then the program is on its way to a panic.                  *)
Lost == pc = "exit1" \/ Handling("body", "ERROR")

BodyInv ==
    /\ bodyLen \in 0 .. delivered
    /\ ~Lost => bodyLen = delivered
    /\ bufs = (IF bodyLen > 0 THEN 1 ELSE 0)

(* The request belongs to Get until the handshake is over.                 *)
RequestInv == (pc \in Running /\ ~Live("handshake")) => "req" \notin held

ClockInv == waited \in 0 .. Timeout /\ elapsed \in Nat

OwnInv == BodyInv /\ RequestInv /\ ClockInv /\ ReturnsWholeBody

IInv == CoreInv /\ OwnInv

-----------------------------------------------------------------------------
(* CoreInv under Get's own handlers.                                       *)
LEMMA HandlersKeep ==
    ASSUME CoreInv,
           HandshakeDone \/ PushFails \/ SendDone \/ BodyDone \/ AppendToResponseBody
    PROVE  CoreInv'
<1> USE UnitsAssumption, WakerAssumption
    DEF CoreInv, CoreTypeOK, Task, FgTask, Dir, Total, Running, Exited,
        connVars, netVars, WakersAccounted, HandInv, OneForeground, TaskInv,
        ConnInv, Live, Handling, NoTask, Buffered, WantsRead, WantsWrite
<1>1. CASE HandshakeDone
    BY <1>1 DEF HandshakeDone, TaskFree, Wake
<1>2. CASE SendDone
    BY <1>2 DEF SendDone, TaskFree
<1>3. CASE BodyDone
    BY <1>3 DEF BodyDone, free_conn_data
<1>4. CASE AppendChunk
    BY <1>4 DEF AppendChunk, Polling
<1>5. CASE AppendFails
    BY <1>5 DEF AppendFails, BodyFinish, Finish, Polling
<1>6. CASE PushFails
    BY <1>6 DEF PushFails
<1> QED
    BY <1>1, <1>2, <1>3, <1>4, <1>5, <1>6 DEF AppendToResponseBody

LEMMA NextKeepsCoreInv == ASSUME CoreInv, [Next]_vars PROVE CoreInv'
<1>1. CASE Setup
    BY <1>1, SetupKeeps DEF Setup, Resource
<1>2. CASE Executor
    BY <1>2, PollKeeps, YieldKeeps, HandlerKeeps DEF Executor
<1>3. CASE ReadCallBack \/ WriteCallBack
    BY <1>3, ReadKeeps, WriteKeeps DEF ReadCallBack, WriteCallBack
<1>4. CASE AppendToResponseBody \/ HandshakeDone \/ PushFails \/ SendDone \/ BodyDone
    BY <1>4, HandlersKeep
<1>5. CASE Fail \/ SelectError
    BY <1>5, HandlerKeeps DEF Fail, SelectError
<1>6. CASE SelectStart \/ SelectReady
    BY <1>6, SelectKeeps DEF SelectStart, SelectReady
<1>7. CASE SelectTimeout
    BY <1>7, ExitKeeps DEF SelectTimeout
<1>8. CASE Peer
    BY <1>8, PeerKeeps
<1>9. CASE Tick \/ UNCHANGED vars
    BY <1>9, StutterKeeps DEF Tick, vars
<1> QED
    BY <1>1, <1>2, <1>3, <1>4, <1>5, <1>6, <1>7, <1>8, <1>9
    DEF Next, Loop, Terminated

-----------------------------------------------------------------------------
LEMMA InitOwnInv == Init => OwnInv
BY TimeoutAssumption
   DEF Init, CoreInit, OwnInv, BodyInv, RequestInv, ClockInv, ReturnsWholeBody, Running

LEMMA NextKeepsOwnInv == ASSUME CoreInv, OwnInv, [Next]_vars PROVE OwnInv'
<1> USE UnitsAssumption, TimeoutAssumption
    DEF CoreInv, CoreTypeOK, HandInv, Task, FgTask, Total, Running, Exited,
        Live, NoTask, Handling, OwnInv, BodyInv, Lost, RequestInv, ClockInv,
        ReturnsWholeBody, goVars
<1>1. CASE Setup
    BY <1>1 DEF Setup, SetupFails, SetupOk, hyperVars, netVars
<1>2. CASE Executor
    <2>1. CASE PollHandshake \/ PollSend \/ BodyDry \/ PollConn
        BY <1>2, <2>1 DEF Executor, PollHandshake, PollSend, BodyDry, BodyFinish,
           PollConn, Polling, Finish, Wake, connVars, netVars
    <2>2. CASE ConnYield \/ ConnDone \/ NotSet
        BY <1>2, <2>2 DEF Executor, ConnYield, ConnDone, ConnEnds, NotSet,
           TaskFree, Finish, Wake, connVars, netVars
    <2> QED
        BY <1>2, <2>1, <2>2 DEF Executor
<1>3. CASE ReadCallBack
    BY <1>3 DEF ReadCallBack, read_cb, ReadData, ReadEnds, ReadFails, ReadBlocks, Pending,
       ConnEnds, Finish, Wake, connVars, netVars
<1>4. CASE WriteCallBack
    BY <1>4 DEF WriteCallBack, write_cb, WriteData, WriteFails, WriteBlocks,
       Pending, ConnEnds, Finish, Wake, hyperVars, connVars, netVars
<1>5. CASE AppendChunk
    BY <1>5 DEF AppendChunk, Polling, Buffered, connVars, netVars
<1>6. CASE AppendFails
    BY <1>6 DEF AppendFails, BodyFinish, Finish, Polling, Buffered, connVars, netVars
<1>7. CASE HandshakeDone \/ PushFails \/ SendDone
    BY <1>7 DEF HandshakeDone, PushFails, SendDone, TaskFree, Wake, connVars,
       netVars
<1>8. CASE BodyDone
    BY <1>8 DEF BodyDone, free_conn_data, netVars, WakersAccounted, Dir, TaskInv,
       OneForeground
<1>9. CASE Fail \/ SelectError \/ SelectTimeout
    BY <1>9 DEF Fail, GiveUp, SelectError, SelectFails, SelectTimeout,
       hyperVars, connVars, netVars
<1>10. CASE SelectStart \/ SelectReady
    BY <1>10 DEF SelectStart, SelectReady, EnterSelect, SelectReturns, Wake,
       hyperVars, netVars
<1>11. CASE Tick
    BY <1>11 DEF Tick, coreVars, hyperVars, connVars, netVars
<1>12. CASE pc \notin Exited /\ Peer /\ UNCHANGED goVars
    BY <1>12 DEF Peer, PeerRecv, PeerSend, PeerClose, PeerReset, hyperVars, connVars
<1>13. CASE UNCHANGED vars
    BY <1>13 DEF vars, coreVars, hyperVars, connVars, netVars
<1> QED
    BY <1>1, <1>2, <1>3, <1>4, <1>5, <1>6, <1>7, <1>8, <1>9, <1>10, <1>11,
       <1>12, <1>13 DEF Next, Loop, AppendToResponseBody, Terminated

LEMMA Inductive == SafeSpec => []IInv
<1>1. Init => IInv
    BY CoreInitInv, InitOwnInv DEF Init, IInv
<1>2. IInv /\ [Next]_vars => IInv'
    BY NextKeepsCoreInv, NextKeepsOwnInv DEF IInv
<1> QED
    BY <1>1, <1>2, PTL DEF SafeSpec

(* Every variable of Get keeps to its type; in particular the length of    *)
(* the gathered body never exceeds the body's.                             *)
THEOREM TypeCorrect == SafeSpec => []TypeOK
<1>1. IInv => TypeOK
    BY UnitsAssumption
    DEF IInv, OwnInv, CoreInv, BodyInv, ClockInv, TypeOK, CoreTypeOK
<1> QED
    BY <1>1, Inductive, PTL

(* ReadCallBack, WriteCallBack, the select step and FreeConnData lose no   *)
(* waker and leave none dangling.                                          *)
THEOREM WakersSafe == SafeSpec => []WakersAccounted
<1>1. IInv => WakersAccounted
    BY DEF IInv, CoreInv
<1> QED
    BY <1>1, Inductive, PTL

(* Get never sleeps in select() without having registered all it must be   *)
(* woken for: its timeout is for a silent peer, not for a lost wakeup.     *)
THEOREM NeverSleepsUnwatched == SafeSpec => []NoLostWakeup
<1>1. IInv => NoLostWakeup
    BY CoreInvWatches DEF IInv
<1> QED
    BY <1>1, Inductive, PTL

(* Get returns the whole body in the one buffer that is left, or does not  *)
(* return (hyper.go 155-171, 306-327).                                     *)
THEOREM WholeBodyReturned == SafeSpec => []ReturnsWholeBody
<1>1. IInv => ReturnsWholeBody
    BY DEF IInv, OwnInv
<1> QED
    BY <1>1, Inductive, PTL
-----------------------------------------------------------------------------
(* The abstract exchange.                                                  *)

LEMMA PhaseKept ==
    ASSUME pc \notin Exited, pc' \notin Exited,
           Live("send")' <=> Live("send"), Live("body")' <=> Live("body"),
           bodyLen' = bodyLen
    PROVE  UNCHANGED Exchange!vars
BY DEF phase, Exited, Exchange!vars

LEMMA GivingUpFails ==
    ASSUME pc \in {"start"} \cup Running, pc' = "exit1", bodyLen' = bodyLen
    PROVE  Exchange!Fail
BY DEF phase, Exited, Running, Exchange!Fail

LEMMA CallbacksRefine ==
    ASSUME IInv, ReadCallBack \/ WriteCallBack
    PROVE  [Exchange!Next]_(Exchange!vars)
<1> USE DEF IInv, CoreInv, CoreTypeOK, HandInv, Running, Exited, Task, FgTask,
            NoTask, Live, ReadCallBack, WriteCallBack, goVars
<1>1. pc = "conn" /\ cur = NoTask
    BY DEF read_cb, write_cb
<1>2. CASE ConnEnds
    BY <1>1, <1>2, PhaseKept DEF ConnEnds, Finish, Wake
<1>3. CASE ReadData \/ WriteData
    BY <1>1, <1>3, PhaseKept DEF ReadData, WriteData, Wake
<1>4. CASE ReadBlocks \/ WriteBlocks
    BY <1>1, <1>4, PhaseKept DEF ReadBlocks, WriteBlocks, Pending
<1>5. CASE pc' = "exit1" /\ UNCHANGED <<hyperVars, connVars, netVars>>
    BY <1>1, <1>5, GivingUpFails DEF hyperVars, Exchange!Next
<1> QED
    BY <1>2, <1>3, <1>4, <1>5 DEF read_cb, write_cb, ReadEnds, ReadFails, WriteFails

LEMMA NextRefines ==
    ASSUME IInv, [Next]_vars
    PROVE  [Exchange!Next]_(Exchange!vars)
<1> USE DEF IInv, CoreInv, CoreTypeOK, HandInv, Running, Exited, Task, FgTask,
            NoTask, Live, goVars
<1>1. CASE Setup
    BY <1>1, GivingUpFails, PhaseKept
    DEF Setup, SetupFails, SetupOk, hyperVars, Exchange!Next
<1>2. CASE Executor
    BY <1>2, PhaseKept
    DEF Executor, PollHandshake, PollSend, BodyDry, PollConn, ConnYield,
        ConnDone, ConnEnds, NotSet, Handling, TaskFree, BodyFinish, Polling,
        Finish, Wake
<1>3. CASE ReadCallBack \/ WriteCallBack
    BY <1>3, CallbacksRefine
<1>4. CASE AppendChunk
    \* The chunk fits: it was buffered, and nothing has been lost so far.
    <2>1. phase = "receiving" /\ phase' = "receiving"
        BY <1>4 DEF AppendChunk, Polling, phase, OneForeground
    <2>2. bodyLen < BodyUnits /\ bodyLen' = bodyLen + 1
        BY <1>4, UnitsAssumption
        DEF AppendChunk, Polling, Buffered, Total, OwnInv, BodyInv
    <2> QED
        BY <2>1, <2>2 DEF Exchange!Next, Exchange!Chunk
<1>5. CASE AppendFails
    BY <1>5, PhaseKept DEF AppendFails, BodyFinish, Polling, Finish
<1>6. CASE HandshakeDone
    <2>1. phase = "connecting" /\ phase' = "awaiting"
        BY <1>6 DEF HandshakeDone, Handling, TaskFree, Wake, phase, OneForeground
    <2> QED
        BY <1>6, <2>1 DEF HandshakeDone, Exchange!Next, Exchange!Request
<1>7. CASE SendDone
    <2>1. phase = "awaiting" /\ phase' = "receiving"
        BY <1>7 DEF SendDone, Handling, TaskFree, phase, OneForeground
    <2> QED
        BY <1>7, <2>1 DEF SendDone, Exchange!Next, Exchange!Response
<1>8. CASE BodyDone
    <2>1. phase = "receiving" /\ phase' = "complete"
        BY <1>8 DEF BodyDone, Handling, phase, OneForeground
    <2>2. bodyLen = BodyUnits /\ bodyLen' = bodyLen
        BY <1>8 DEF BodyDone, Handling, TaskInv, OwnInv, BodyInv, Lost
    <2> QED
        BY <2>1, <2>2 DEF Exchange!Next, Exchange!Complete
<1>9. CASE PushFails \/ Fail \/ SelectError \/ SelectTimeout
    BY <1>9, GivingUpFails
    DEF PushFails, Fail, GiveUp, SelectError, SelectFails, SelectTimeout, Handling,
        hyperVars, Exchange!Next
<1>10. CASE SelectStart \/ SelectReady
    BY <1>10, PhaseKept
    DEF SelectStart, SelectReady, EnterSelect, SelectReturns, Wake, hyperVars
<1>11. CASE Tick \/ (Peer /\ UNCHANGED goVars) \/ UNCHANGED vars
    BY <1>11
    DEF Tick, Peer, PeerRecv, PeerSend, PeerClose, PeerReset, vars, coreVars,
        hyperVars, phase, Exchange!vars
<1> QED
    BY <1>1, <1>2, <1>3, <1>4, <1>5, <1>6, <1>7, <1>8, <1>9, <1>10, <1>11
    DEF Next, Loop, AppendToResponseBody, Terminated

(* Get goes through the phases of an exchange in order, gathers every      *)
(* chunk once, and returns only with the whole body: what a failed malloc  *)
(* cuts off never counts as complete.                                      *)
THEOREM RefinesExchange == SafeSpec => Exchange!SafeSpec
<1>1. Init => Exchange!Init
    BY DEF Init, CoreInit, phase, Exited, Live, NoTask, Task, FgTask, Exchange!Init
<1>2. IInv /\ [Next]_vars => [Exchange!Next]_(Exchange!vars)
    BY NextRefines
<1> QED
    BY <1>1, <1>2, Inductive, PTL DEF SafeSpec, Exchange!SafeSpec
-----------------------------------------------------------------------------
(* Sleep and progress.  A wait is paid for by the unit it ends with.  Two  *)
(* things stand between the two: after select() returns the unit is still  *)
(* owed, and a write that went through without its waker having been woken *)
(* leaves a stale waker, which will end one wait that brings no unit; that *)
(* write does not count until the stale waker is gone.                     *)
Stale  == IF outbox = 0 /\ waker["write"] # NoWaker THEN 1 ELSE 0
Credit == ReqUnits - outbox + rcvd - Stale

(* The connection task is about to read, about to write, or gone for good. *)
ReadOwed ==
    /\ task["conn"] = "ready" /\ WantsRead /\ (sent > rcvd \/ peer # "open")
    /\ pc = "conn" => "read" \notin blockedOn

WriteOwed ==
    /\ task["conn"] = "ready" /\ WantsWrite /\ waker["write"] = NoWaker
    /\ txbuf < TxCap \/ peer = "reset"
    /\ pc = "conn" => "write" \notin blockedOn

Owed == pc \in Exited \/ task["conn"] = "absent" \/ ReadOwed \/ WriteOwed

Budget == Credit + (IF Owed THEN 1 ELSE 0)

EarlyInv ==
    (pc = "start" \/ Live("handshake")) =>
        /\ elapsed = 0 /\ outbox = 0 /\ rcvd = 0
        /\ task["conn"] = "absent" \/ cur = "handshake"
        /\ \A d \in Dir : waker[d] = NoWaker

SleepInv ==
    /\ EarlyInv
    /\ pc = "blocked" =>
          elapsed <= Timeout * Credit + waited /\ \A d \in fds : waker[d] # NoWaker
    /\ pc # "blocked" => elapsed <= Timeout * Budget

LEMMA Scale ==
    ASSUME NEW m \in Int, NEW n \in Int, m <= n
    PROVE  /\ Timeout * m \in Int /\ Timeout * n \in Int
           /\ Timeout * m <= Timeout * n
           /\ Timeout * (m + 1) = Timeout * m + Timeout
BY TimeoutAssumption

LEMMA BudgetInt ==
    ASSUME CoreInv, CoreInv'
    PROVE  /\ Credit \in Int /\ Budget \in Int
           /\ Credit' \in Int /\ Budget' \in Int
           /\ Budget = Credit \/ Budget = Credit + 1
           /\ Budget' = Credit' \/ Budget' = Credit' + 1
<1>1. Credit \in Int /\ Credit' \in Int
    BY UnitsAssumption DEF CoreInv, CoreTypeOK, Total, Credit, Stale
<1>2. Budget = Credit \/ Budget = Credit + 1
    BY <1>1 DEF Budget
<1>3. Budget' = Credit' \/ Budget' = Credit' + 1
    <2>1. Budget' = Credit' + (IF Owed' THEN 1 ELSE 0)
        BY DEF Budget
    <2>2. CASE Owed'
        BY <2>1, <2>2
    <2>3. CASE ~Owed'
        <3>1. Budget' = Credit' + 0
            BY <2>1, <2>3
        <3>2. \A n \in Int : n + 0 = n
            OBVIOUS
        <3> QED
            BY <1>1, <3>1, <3>2
    <2> QED
        BY <2>2, <2>3
<1> QED
    BY <1>1, <1>2, <1>3

(* A step that takes no time keeps what is paid for paid for, if it does   *)
(* not lower the budget.                                                   *)
LEMMA BudgetKeeps ==
    ASSUME CoreInv, CoreInv', ClockInv, pc # "blocked", SleepInv,
           elapsed' = elapsed, Budget' >= Budget
    PROVE  elapsed' <= Timeout * Budget'
<1>1. Budget \in Int /\ Budget' \in Int
    BY BudgetInt
<1>2. Timeout * Budget \in Int /\ Timeout * Budget' \in Int
      /\ Timeout * Budget <= Timeout * Budget'
    BY <1>1, Scale
<1> QED
    BY <1>2 DEF SleepInv, ClockInv

(* Nothing has been slept yet.                                             *)
LEMMA RestedKeeps ==
    ASSUME CoreInv, CoreInv', elapsed' = 0, Budget' >= 0
    PROVE  elapsed' <= Timeout * Budget'
<1>1. Budget' \in Int
    BY BudgetInt
<1>2. Timeout * 0 <= Timeout * Budget'
    BY <1>1, Scale
<1> QED
    BY <1>2, TimeoutAssumption

(* The budget sinks only where a wait ends or the request is made.         *)
LEMMA TasksKeepBudget ==
    ASSUME CoreInv, CoreInv', EarlyInv, pc \in {"poll", "handle"}, ~Live("handshake"),
           pc' # "blocked", UNCHANGED <<outbox, rcvd, waker, sent, peer, txbuf>>,
           task["conn"] # "waiting" => task'["conn"] = task["conn"],
           pc' = "conn" => blockedOn' = {},
           WantsRead /\ task["conn"] = "ready" => WantsRead'
    PROVE  Budget' >= Budget
<1>1. Credit' = Credit
    BY DEF Credit, Stale
<1>2. ASSUME Owed PROVE Owed'
    BY <1>2 DEF Owed, ReadOwed, WriteOwed, WantsWrite, Exited
<1> QED
    BY <1>1, <1>2, BudgetInt DEF Budget

LEMMA ConnEndsKeepsBudget ==
    ASSUME CoreInv, CoreInv', ConnEnds
    PROVE  Budget' >= Budget
<1>1. Credit' = Credit /\ Owed'
    BY DEF ConnEnds, connVars, Credit, Stale, Owed, CoreInv, CoreTypeOK, Wake, Task
<1> QED
    BY <1>1, BudgetInt DEF Budget

LEMMA ExitKeepsBudget ==
    ASSUME CoreInv, CoreInv', pc' \in Exited, UNCHANGED <<outbox, rcvd>>,
           waker' = waker \/ waker' = [d \in Dir |-> NoWaker]
    PROVE  Budget' >= Budget
<1>1. Credit' >= Credit
    BY UnitsAssumption DEF Credit, Stale, Dir, CoreInv, CoreTypeOK, Total
<1>2. Owed'
    BY DEF Owed
<1> QED
    BY <1>1, <1>2, BudgetInt DEF Budget

(* A read pays for itself, and for the unit owed.                          *)
LEMMA ReadKeepsBudget ==
    ASSUME CoreInv, CoreInv', read_cb
    PROVE  Budget' >= Budget
<1>1. CASE ReadData
    <2>1. Credit' = Credit + 1
        BY <1>1, UnitsAssumption
        DEF ReadData, connVars, Credit, Stale, CoreInv, CoreTypeOK, Total
    <2> QED
        BY <2>1, BudgetInt DEF Budget
<1>2. CASE ReadEnds \/ ReadFails
    BY <1>2, ConnEndsKeepsBudget DEF ReadEnds, ReadFails
<1>3. CASE ReadBlocks
    <2>1. Credit' = Credit /\ waker'["write"] = waker["write"]
        BY <1>3 DEF ReadBlocks, Pending, Register, Credit, Stale, CoreInv, CoreTypeOK, Dir
    <2>2. ASSUME Owed PROVE Owed'
        BY <1>3, <2>1, <2>2, UnitsAssumption
        DEF read_cb, ReadBlocks, Pending, netVars, Owed, ReadOwed, WriteOwed,
            WantsWrite, Exited, CoreInv, ConnInv, CoreTypeOK, Total
    <2> QED
        BY <2>1, <2>2, BudgetInt DEF Budget
<1> QED
    BY <1>1, <1>2, <1>3 DEF read_cb

(* A write pays for itself; with its waker still waiting it only counts    *)
(* later, but then it was not owed.                                        *)
LEMMA WriteKeepsBudget ==
    ASSUME CoreInv, CoreInv', write_cb
    PROVE  Budget' >= Budget
<1>1. CASE WriteData
    <2>1. CASE waker["write"] = NoWaker
        <3>1. Credit' = Credit + 1
            BY <1>1, <2>1, BudgetInt, UnitsAssumption
            DEF WriteData, write_cb, WantsWrite, connVars, Credit, Stale, CoreInv,
                CoreTypeOK, Total
        <3> QED
            BY <3>1, BudgetInt DEF Budget
    <2>2. CASE waker["write"] # NoWaker
        <3>1. Credit' >= Credit
            BY <1>1, <2>2, BudgetInt, UnitsAssumption
            DEF WriteData, write_cb, WantsWrite, connVars, Credit, Stale, CoreInv,
                CoreTypeOK, Total
        <3>2. ASSUME Owed PROVE Owed'
            BY <1>1, <2>2, <3>2
            DEF WriteData, write_cb, connVars, Owed, ReadOwed, WriteOwed,
                WantsRead, Buffered, Exited
        <3> QED
            BY <3>1, <3>2, BudgetInt DEF Budget
    <2> QED
        BY <2>1, <2>2
<1>2. CASE WriteFails
    BY <1>2, ConnEndsKeepsBudget, ExitKeepsBudget
    DEF WriteFails, hyperVars, connVars, Exited
<1>3. CASE WriteBlocks
    <2>1. Credit' >= Credit
        BY <1>3, BudgetInt
        DEF WriteBlocks, write_cb, WantsWrite, Pending, Credit, Stale, CoreInv, CoreTypeOK
    <2>2. ASSUME Owed PROVE Owed'
        BY <1>3, <2>2
        DEF WriteBlocks, write_cb, Pending, netVars, Owed, ReadOwed, WriteOwed,
            WantsRead, Buffered, Exited, CoreInv, CoreTypeOK
    <2> QED
        BY <2>1, <2>2, BudgetInt DEF Budget
<1> QED
    BY <1>1, <1>2, <1>3 DEF write_cb

(* The connection task yields only with nothing owed that could be done.   *)
LEMMA YieldKeepsBudget ==
    ASSUME CoreInv, CoreInv', ConnYield
    PROVE  Budget' >= Budget
<1>1. Credit' = Credit
    BY DEF ConnYield, connVars, Credit, Stale
<1>2. ~Owed
    BY DEF ConnYield, Owed, ReadOwed, WriteOwed, CoreInv, ConnInv, Exited
<1> QED
    BY <1>1, <1>2, BudgetInt DEF Budget

LEMMA NextKeepsEarly ==
    ASSUME CoreInv, ClockInv, EarlyInv, [Next]_vars PROVE EarlyInv'
<1> USE UnitsAssumption
    DEF CoreInv, CoreTypeOK, HandInv, OneForeground, Task, FgTask, Running,
        Exited, Live, NoTask, Handling, EarlyInv, Dir, goVars
<1>1. CASE Setup
    BY <1>1 DEF Setup, SetupFails, SetupOk, hyperVars, netVars
<1>2. CASE Executor
    <2>1. CASE PollHandshake \/ PollSend \/ BodyDry \/ PollConn
        BY <1>2, <2>1 DEF Executor, PollHandshake, PollSend, BodyDry, BodyFinish,
           PollConn, Polling, Finish, Wake, connVars
    <2>2. CASE ConnYield \/ ConnDone \/ NotSet
        BY <1>2, <2>2 DEF Executor, ConnYield, ConnDone, ConnEnds, NotSet,
           TaskFree, Finish, Wake, connVars, ConnInv
    <2> QED
        BY <1>2, <2>1, <2>2 DEF Executor
<1>3. CASE ReadCallBack \/ WriteCallBack
    <2>1. pc = "conn" /\ ~Live("handshake")
        BY <1>3 DEF ReadCallBack, WriteCallBack, read_cb, write_cb, ConnInv
    <2> QED
        BY <1>3, <2>1 DEF ReadCallBack, WriteCallBack, read_cb, write_cb,
           ReadData, ReadEnds, ReadFails, ReadBlocks, WriteData, WriteFails, WriteBlocks,
           Pending, ConnEnds, Finish, Wake, hyperVars
<1>4. CASE AppendToResponseBody \/ HandshakeDone \/ PushFails \/ SendDone \/ BodyDone
    BY <1>4 DEF AppendToResponseBody, AppendChunk, AppendFails, HandshakeDone,
       PushFails, SendDone, BodyDone, BodyFinish, Finish, Polling, TaskFree, Wake, connVars
<1>5. CASE Fail \/ SelectError \/ SelectTimeout
    BY <1>5 DEF Fail, GiveUp, SelectError, SelectFails, SelectTimeout,
       hyperVars, connVars
<1>6. CASE SelectStart \/ SelectReady \/ Tick
    BY <1>6 DEF SelectStart, SelectReady, EnterSelect, SelectReturns, Wake, Tick,
       coreVars, hyperVars, connVars, TaskInv, ConnInv
<1>7. CASE Peer /\ UNCHANGED goVars
    BY <1>7 DEF Peer, PeerRecv, PeerSend, PeerClose, PeerReset, hyperVars, connVars
<1>8. CASE UNCHANGED vars
    BY <1>8 DEF vars, coreVars, hyperVars, connVars
<1> QED
    BY <1>1, <1>2, <1>3, <1>4, <1>5, <1>6, <1>7, <1>8 DEF Next, Loop, Terminated

(* Before the request is made nothing has been slept, and making it puts   *)
(* the whole of it before the program.                                     *)
LEMMA EarlyStep ==
    ASSUME CoreInv, CoreInv', ClockInv, EarlyInv, pc = "start" \/ Live("handshake"),
           [Next]_vars
    PROVE  pc' # "blocked" /\ elapsed' <= Timeout * Budget'
<1> USE DEF CoreInv, CoreTypeOK, HandInv, OneForeground, TaskInv, Task, FgTask,
            Running, Exited, Live, NoTask, Handling, EarlyInv, Dir, goVars
<1>1. /\ pc' # "blocked" /\ elapsed' = 0 /\ rcvd' = 0
      /\ outbox' \in {0, ReqUnits} /\ waker'["write"] = NoWaker
    <2>1. CASE Setup
        BY <2>1 DEF Setup, SetupFails, SetupOk, hyperVars
    <2>2. CASE Executor
        BY <2>2 DEF Executor, PollHandshake, PollSend, BodyDry, PollConn, ConnYield,
           ConnDone, NotSet, BodyFinish, Polling, Finish, TaskFree, connVars, ConnInv
    <2>3. CASE ReadCallBack \/ WriteCallBack
        BY <2>3 DEF ReadCallBack, WriteCallBack, read_cb, write_cb, ConnInv
    <2>4. CASE AppendToResponseBody \/ HandshakeDone \/ PushFails \/ SendDone \/ BodyDone
        BY <2>4 DEF AppendToResponseBody, AppendChunk, AppendFails, HandshakeDone,
           PushFails, SendDone, BodyDone, Polling, TaskFree
    <2>5. CASE Fail \/ SelectError \/ SelectTimeout
        BY <2>5 DEF Fail, GiveUp, SelectError, SelectFails, SelectTimeout,
           hyperVars, connVars
    <2>6. CASE SelectStart \/ SelectReady \/ Tick
        BY <2>6 DEF SelectStart, SelectReady, EnterSelect, SelectReturns, Tick, ConnInv
    <2>7. CASE Peer /\ UNCHANGED goVars
        BY <2>7 DEF Peer, PeerRecv, PeerSend, PeerClose, PeerReset, hyperVars,
           connVars, ConnInv
    <2>8. CASE UNCHANGED vars
        BY <2>8 DEF vars, coreVars, hyperVars, connVars, ConnInv
    <2> QED
        BY <2>1, <2>2, <2>3, <2>4, <2>5, <2>6, <2>7, <2>8 DEF Next, Loop, Terminated
<1>2. Credit' >= 0
    <2>1. Credit' = ReqUnits - outbox' + 0 - 0
        BY <1>1 DEF Credit, Stale
    <2>2. \A n \in {0, ReqUnits} : ReqUnits - n + 0 - 0 >= 0
        BY UnitsAssumption
    <2> QED
        BY <1>1, <2>1, <2>2
<1>3. Budget' >= 0
    BY <1>2, BudgetInt
<1> QED
    BY <1>1, <1>3, RestedKeeps

(* The loop goes to sleep with nothing owed: the task it follows waits for *)
(* a connection that is there and asleep.                                  *)
LEMMA SleepsOwingNothing ==
    ASSUME CoreInv, CoreInv', SleepInv, ClockInv, ~Live("handshake"), SelectStart
    PROVE  elapsed' <= Timeout * Credit' + waited' /\ \A d \in fds' : waker'[d] # NoWaker
<1>1. task["conn"] # "absent" /\ task["conn"] # "ready" /\ pc = "poll"
    BY DEF SelectStart, EnterSelect, CoreInv, CoreTypeOK, HandInv, OneForeground,
           TaskInv, Task, FgTask, Running, Live, NoTask
<1>2. Budget = Credit
    <2>1. ~Owed
        BY <1>1 DEF Owed, ReadOwed, WriteOwed, Exited
    <2> QED
        BY <2>1, BudgetInt DEF Budget
<1>3. Credit' = Credit /\ waited' = 0 /\ elapsed' = elapsed
    BY DEF SelectStart, EnterSelect, hyperVars, Credit, Stale
<1>4. Timeout * Credit \in Int
    BY BudgetInt, Scale
<1>5. elapsed' <= Timeout * Credit' + waited'
    BY <1>1, <1>2, <1>3, <1>4 DEF SleepInv, ClockInv
<1> QED
    BY <1>5 DEF SelectStart, EnterSelect

(* select() returns with a unit owed, or ends the wait a stale waker had   *)
(* coming.                                                                 *)
LEMMA WakesOwing ==
    ASSUME CoreInv, CoreInv', SleepInv, SelectReady
    PROVE  Budget' >= Credit + 1
<1> USE DEF CoreInv, CoreTypeOK, SelectReady, SelectReturns, ReadyFds, Ready,
            netVars, Task, FgTask, Dir, Total
<1>1. task["conn"] = "waiting" /\ task'["conn"] = "ready"
    BY CoreInvWatches DEF NoLostWakeup, Wake
<1>2. WantsRead /\ WantsRead'
    BY DEF HandInv, OneForeground, TaskInv, ConnInv, Running, Live, NoTask,
           WantsRead, Buffered, Wake
<1>3. CASE "read" \in ReadyFds
    <2>1. Owed'
        BY <1>1, <1>2, <1>3 DEF Owed, ReadOwed
    <2>2. Credit' >= Credit
        BY UnitsAssumption DEF Credit, Stale
    <2> QED
        BY <2>1, <2>2, BudgetInt DEF Budget
<1>4. CASE "write" \in ReadyFds
    <2>1. waker["write"] # NoWaker /\ waker'["write"] = NoWaker
        BY <1>4 DEF SleepInv
    <2>2. CASE outbox = 0
        <3>1. Credit' = Credit + 1
            BY <2>1, <2>2, UnitsAssumption DEF Credit, Stale
        <3> QED
            BY <3>1, BudgetInt
    <2>3. CASE outbox # 0
        <3>1. Credit' = Credit
            BY <2>3 DEF Credit, Stale
        <3>2. Owed'
            BY <1>1, <1>4, <2>1, <2>3 DEF Owed, WriteOwed, WantsWrite
        <3> QED
            BY <3>1, <3>2, BudgetInt DEF Budget
    <2> QED
        BY <2>2, <2>3
<1> QED
    BY <1>3, <1>4

LEMMA PeerKeepsBudget ==
    ASSUME CoreInv, CoreInv', Peer
    PROVE  Credit' = Credit /\ Budget' >= Budget
<1> USE DEF CoreInv, CoreTypeOK, Peer, PeerRecv, PeerSend, PeerClose, PeerReset,
            hyperVars, connVars
<1>1. Credit' = Credit
    BY DEF Credit, Stale
<1>2. UNCHANGED <<WantsRead, WantsWrite>>
    BY DEF WantsRead, WantsWrite, Buffered
<1>3. sent' \in Nat /\ sent' >= sent /\ (peer # "open" => peer' # "open")
    BY DEF Total
<1>4. txbuf' <= txbuf /\ (peer = "reset" => peer' = "reset")
    BY UnitsAssumption
<1>5. ReadOwed => ReadOwed'
    BY <1>2, <1>3, UnitsAssumption DEF ReadOwed, Total
<1>6. WriteOwed => WriteOwed'
    BY <1>2, <1>4, UnitsAssumption DEF WriteOwed
<1>7. Owed => Owed'
    BY <1>5, <1>6 DEF Owed
<1> QED
    BY <1>1, <1>7, BudgetInt DEF Budget

(* Tasks that are not the connection's only make it read where it would    *)
(* have rested.                                                            *)
LEMMA TaskSteps ==
    ASSUME CoreInv, CoreInv', EarlyInv, ~Live("handshake"),
           \/ PollSend \/ BodyDry \/ PollConn \/ NotSet
           \/ AppendToResponseBody \/ SendDone
    PROVE  Budget' >= Budget
<1> USE DEF CoreInv, CoreTypeOK, TaskInv, HandInv, Task, FgTask, NoTask, Handling,
            Polling, Finish, BodyFinish, TaskFree, Wake, connVars, netVars
<1>1. /\ pc \in {"poll", "handle"} /\ pc' # "blocked"
      /\ UNCHANGED <<outbox, rcvd, waker, sent, peer, txbuf>>
      /\ pc' = "conn" => blockedOn' = {}
    BY DEF PollSend, BodyDry, PollConn, NotSet, AppendToResponseBody,
           AppendChunk, AppendFails, SendDone
<1>2. task["conn"] # "waiting" => task'["conn"] = task["conn"]
    BY DEF PollSend, BodyDry, PollConn, NotSet, AppendToResponseBody,
           AppendChunk, AppendFails, SendDone
<1>3. WantsRead => WantsRead'
    BY DEF OneForeground, Live, Running, PollSend, BodyDry, PollConn, NotSet, AppendToResponseBody,
           AppendChunk, AppendFails, SendDone, WantsRead, Buffered
<1> QED
    BY <1>1, <1>2, <1>3, TasksKeepBudget

LEMMA SleepStep ==
    ASSUME CoreInv, CoreInv', ClockInv, SleepInv, [Next]_vars
    PROVE  SleepInv'
<1>1. EarlyInv'
    BY NextKeepsEarly DEF SleepInv
<1>2. CASE pc = "start" \/ Live("handshake")
    BY <1>1, <1>2, EarlyStep DEF SleepInv
<1> SUFFICES ASSUME pc # "start", ~Live("handshake") PROVE SleepInv'
    BY <1>2
<1>3. ASSUME pc # "blocked", pc' # "blocked", elapsed' = elapsed, Budget' >= Budget
      PROVE  SleepInv'
    BY <1>1, <1>3, BudgetKeeps DEF SleepInv
<1>4. CASE Executor
    <2>1. CASE PollSend \/ BodyDry \/ PollConn \/ NotSet
        BY <1>3, <1>4, <2>1, TaskSteps
        DEF Executor, PollSend, BodyDry, PollConn, NotSet, BodyFinish, Finish,
            Polling, TaskFree, Handling, SleepInv, goVars
    <2>2. CASE ConnYield
        BY <1>3, <1>4, <2>2, YieldKeepsBudget DEF Executor, ConnYield, SleepInv, goVars
    <2>3. CASE ConnDone
        BY <1>3, <1>4, <2>3, ConnEndsKeepsBudget
        DEF Executor, ConnDone, ConnEnds, Finish, SleepInv, goVars
    <2>4. ~PollHandshake
        BY DEF PollHandshake, Polling, Live
    <2> QED
        BY <1>4, <2>1, <2>2, <2>3, <2>4 DEF Executor
<1>5. CASE ReadCallBack \/ WriteCallBack
    <2>1. Budget' >= Budget
        BY <1>5, ReadKeepsBudget, WriteKeepsBudget DEF ReadCallBack, WriteCallBack
    <2>2. pc = "conn" /\ pc' # "blocked" /\ elapsed' = elapsed
        BY <1>5
        DEF ReadCallBack, WriteCallBack, read_cb, write_cb, ReadData, ReadEnds,
            ReadFails, ReadBlocks, WriteData, WriteFails, WriteBlocks, Pending, ConnEnds,
            Finish, goVars
    <2> QED
        BY <1>3, <2>1, <2>2
<1>6. CASE AppendToResponseBody \/ SendDone
    <2>1. pc \in {"poll", "handle"} /\ pc' # "blocked" /\ elapsed' = elapsed
        BY <1>6
        DEF AppendToResponseBody, AppendChunk, AppendFails, SendDone, Polling,
            Handling, TaskFree, BodyFinish, Finish, goVars
    <2> QED
        BY <1>3, <1>6, <2>1, TaskSteps DEF SleepInv
<1>7. CASE BodyDone \/ Fail
    <2>1. /\ pc = "handle" /\ pc' \in Exited /\ UNCHANGED <<outbox, rcvd, elapsed>>
          /\ waker' = waker \/ waker' = [d \in Dir |-> NoWaker]
        BY <1>7
        DEF BodyDone, Fail, GiveUp, Handling, free_conn_data, hyperVars,
            connVars, Exited, goVars
    <2> QED
        BY <1>3, <2>1, ExitKeepsBudget DEF Exited
<1>8. CASE SelectStart
    BY <1>1, <1>8, SleepsOwingNothing DEF SleepInv, SelectStart, EnterSelect
<1>9. CASE Tick
    <2>1. Credit \in Int /\ Timeout * Credit \in Int
        BY BudgetInt, Scale
    <2>2. Credit' = Credit /\ UNCHANGED <<pc, fds, waker>>
        BY <1>9 DEF Tick, coreVars, hyperVars, connVars, Credit, Stale
    <2> QED
        BY <1>1, <1>9, <2>1, <2>2 DEF Tick, SleepInv, ClockInv
<1>10. CASE SelectReady \/ SelectError \/ SelectTimeout
    <2>1. Credit \in Int /\ Credit + 1 \in Int /\ Budget' \in Int
        BY BudgetInt
    <2>2. Budget' >= Credit + 1
        <3>1. CASE SelectReady
            BY <3>1, WakesOwing
        <3>2. CASE SelectError \/ SelectTimeout
            <4>1. Credit' = Credit /\ Owed'
                BY <3>2
                DEF SelectError, SelectFails, SelectTimeout, hyperVars, connVars,
                    Credit, Stale, Owed, Exited
            <4> QED
                BY <4>1, BudgetInt DEF Budget
        <3> QED
            BY <1>10, <3>1, <3>2
    <2>3. pc = "blocked" /\ pc' # "blocked" /\ elapsed' = elapsed
        BY <1>10
        DEF SelectReady, SelectReturns, SelectError, SelectFails, SelectTimeout, goVars
    <2>4. Timeout * Credit + Timeout <= Timeout * Budget'
        BY <2>1, <2>2, Scale
    <2>5. elapsed <= Timeout * Credit + Timeout
        BY <2>1, <2>3, Scale, TimeoutAssumption DEF SleepInv, ClockInv
    <2>6. Timeout * Credit + Timeout \in Int /\ Timeout * Budget' \in Int
        BY <2>1, Scale, TimeoutAssumption
    <2>7. elapsed' <= Timeout * Budget'
        BY <2>3, <2>4, <2>5, <2>6 DEF ClockInv
    <2> QED
        BY <1>1, <2>3, <2>7 DEF SleepInv
<1>11. CASE Peer /\ UNCHANGED goVars
    <2>1. UNCHANGED <<pc, fds, waker, elapsed, waited>>
        BY <1>11
        DEF Peer, PeerRecv, PeerSend, PeerClose, PeerReset, hyperVars, connVars, goVars
    <2>2. Credit' = Credit /\ Budget' >= Budget
        BY <1>11, PeerKeepsBudget
    <2>3. CASE pc = "blocked"
        BY <1>1, <2>1, <2>2, <2>3 DEF SleepInv
    <2> QED
        BY <1>3, <2>1, <2>2, <2>3
<1>12. CASE UNCHANGED vars
    <2>1. Budget' = Budget /\ Credit' = Credit
        BY <1>12
        DEF vars, coreVars, hyperVars, connVars, netVars, Budget, Credit, Stale,
            Owed, ReadOwed, WriteOwed, WantsRead, WantsWrite, Buffered
    <2> QED
        BY <1>1, <1>12, <2>1
        DEF SleepInv, vars, coreVars, goVars, hyperVars, connVars
<1>13. ~Setup /\ ~HandshakeDone /\ ~PushFails
    BY DEF Setup, SetupFails, SetupOk, HandshakeDone, PushFails, Handling, Live
<1> QED
    BY <1>4, <1>5, <1>6, <1>7, <1>8, <1>9, <1>10, <1>11, <1>12, <1>13
    DEF Next, Loop, Terminated

(* All the time Get spends asleep is paid for by units written and read,   *)
(* and a last wait that nothing ends, for every timeout and every peer     *)
(* (193-200).                                                              *)
THEOREM SleepIsPaid == SafeSpec => []SleepPaidByProgress
<1>1. Init => SleepInv
    BY TimeoutAssumption, UnitsAssumption
    DEF Init, CoreInit, SleepInv, EarlyInv, Budget, Credit, Stale, Owed, Exited, Task, FgTask
<1>2. IInv /\ IInv' /\ SleepInv /\ [Next]_vars => SleepInv'
    BY SleepStep DEF IInv, OwnInv
<1>3. ASSUME IInv, SleepInv PROVE SleepPaidByProgress
    <2> DEFINE n == ReqUnits - outbox + rcvd
    <2>1. n \in Int /\ Credit \in Int /\ Credit <= n /\ Budget \in {Credit, Credit + 1}
        BY <1>3, UnitsAssumption
        DEF IInv, CoreInv, CoreTypeOK, Total, Credit, Stale, Budget
    <2>2. elapsed <= Timeout * Credit + Timeout
        BY <1>3, <2>1, Scale, TimeoutAssumption DEF SleepInv, IInv, OwnInv, ClockInv
    <2>3. Timeout * (n + 1) = Timeout * n + Timeout /\ Timeout * Credit <= Timeout * n
          /\ Timeout * n \in Int /\ Timeout * Credit \in Int
        BY <2>1, Scale
    <2>4. elapsed <= Timeout * (n + 1)
        BY <1>3, <2>2, <2>3, TimeoutAssumption DEF IInv, OwnInv, ClockInv
    <2> QED
        BY <2>4 DEF SleepPaidByProgress
<1> QED
    BY <1>1, <1>2, <1>3, Inductive, PTL DEF SafeSpec
-----------------------------------------------------------------------------
(* Every call of Get is finite.                                            *)

(* Nothing but Get's first steps leaves the request to be sent.            *)
LEMMA RequestStaysMade ==
    ASSUME CoreInv, Next, pc' = "start" \/ Live("handshake")'
    PROVE  pc = "start" \/ Live("handshake")
<1> USE DEF CoreInv, CoreTypeOK, Task, FgTask, Live, NoTask
<1>1. CASE Setup
    BY <1>1 DEF Setup, SetupFails, SetupOk
<1>2. CASE Executor
    BY <1>2 DEF Executor, PollHandshake, PollSend, BodyDry, BodyFinish, PollConn,
       Polling, Finish, Wake, ConnYield, ConnDone, ConnEnds, NotSet, TaskFree
<1>3. CASE ReadCallBack \/ WriteCallBack
    BY <1>3 DEF ReadCallBack, WriteCallBack, read_cb, ReadData, ReadEnds,
       ReadFails, ReadBlocks, write_cb, WriteData, WriteFails, WriteBlocks, Pending,
       ConnEnds, Finish, Wake, hyperVars
<1>4. CASE AppendToResponseBody
    BY <1>4 DEF AppendToResponseBody, AppendChunk, AppendFails, BodyFinish,
       Finish, Polling
<1>5. CASE HandshakeDone \/ PushFails \/ SendDone \/ BodyDone \/ Fail
    BY <1>5 DEF HandshakeDone, PushFails, SendDone, BodyDone, Fail, GiveUp,
       Handling, TaskFree, Wake, hyperVars
<1>6. CASE SelectStart \/ SelectReady \/ SelectError \/ SelectTimeout \/ Tick
    BY <1>6 DEF SelectStart, SelectReady, SelectError, SelectTimeout, Tick,
       EnterSelect, SelectReturns, SelectFails, Wake, coreVars, hyperVars
<1>7. CASE Peer \/ Terminated
    BY <1>7 DEF Peer, PeerRecv, PeerSend, PeerClose, PeerReset, Terminated,
       vars, coreVars, hyperVars
<1> QED
    BY <1>1, <1>2, <1>3, <1>4, <1>5, <1>6, <1>7 DEF Next, Loop

(* A malloc fails: the chunk is dropped with the task that had it.         *)
LEMMA AppendFailsLowers == ASSUME CoreInv, AppendFails PROVE Lower
<1> USE DEF Task, FgTask, NoTask
<1>1. UnitsLeft' < UnitsLeft /\ UnitsLeft' \in Int /\ UnitsLeft \in Nat
    BY UnitsMoved DEF AppendFails, netVars
<1>2. /\ task["handshake"] = "absent" /\ task["send"] = "absent"
      /\ task["body"] = "ready" /\ pc = "poll" /\ cur = NoTask
      /\ task' = [task EXCEPT !["body"] = "absent"]
      /\ pc' = "handle" /\ cur' = "body" /\ curType' = "ERROR"
    BY DEF AppendFails, Polling, BodyFinish, Finish, CoreInv, CoreTypeOK, HandInv,
           OneForeground, Running, Live
<1>3. Stage = 3 /\ Stage' = 2
    BY <1>2 DEF Stage, CoreInv, CoreTypeOK
<1>4. ConnLeft' = ConnLeft /\ ConnLeft \in Nat
    BY <1>2, ConnKept DEF CoreInv, CoreTypeOK
<1>5. UnitsLeft \in Int /\ ConnLeft \in Int
    BY <1>1, <1>4
<1> QED
    BY <1>1, <1>3, <1>4, <1>5, ChunkLost DEF Lower, Big

LEMMA StepLeavesLess ==
    ASSUME CoreInv, CoreInv', Next, ~Terminated, ~Tick
    PROVE  StepsLeft' < StepsLeft
<1>1. pc \notin Exited
    BY DEF Next, Loop, Setup, SetupFails, SetupOk, Executor, PollHandshake,
       PollSend, BodyDry, PollConn, Polling, ConnYield, ConnDone, NotSet,
       ReadCallBack, WriteCallBack, read_cb, write_cb, AppendToResponseBody,
       AppendChunk, AppendFails, HandshakeDone, PushFails, SendDone, BodyDone, Fail,
       GiveUp, Handling, SelectStart, SelectReady, SelectError, SelectTimeout,
       EnterSelect, SelectReturns, SelectFails, Exited
<1>2. CASE HandshakeDone
    BY <1>2, RequestLeavesLess DEF HandshakeDone
<1>3. HandshakeDone \/ Lower \/ pc' \in Exited
    <2>1. CASE Setup
        BY <2>1, SetupLowers DEF Setup, SetupFails, Exited
    <2>2. CASE Executor
        BY <2>2, PollLowers, YieldLowers, NotSetLowers DEF Executor
    <2>3. CASE ReadCallBack \/ WriteCallBack
        BY <2>3, ReadLowers, WriteLowers DEF ReadCallBack, WriteCallBack
    <2>4. CASE AppendToResponseBody
        BY <2>4, ChunkLowers, AppendFailsLowers
        DEF AppendToResponseBody, AppendChunk, Polling
    <2>5. CASE SendDone
        BY <2>5, ResponseLowers DEF SendDone
    <2>6. CASE SelectStart \/ SelectReady
        BY <2>6, SelectLowers DEF SelectStart, SelectReady
    <2>7. CASE PushFails \/ BodyDone \/ Fail \/ SelectError \/ SelectTimeout
        BY <2>7 DEF PushFails, BodyDone, Fail, GiveUp, SelectError, SelectFails,
           SelectTimeout, Exited
    <2>8. CASE Peer
        BY <1>1, <2>8, PeerLowers
    <2> QED
        BY <2>1, <2>2, <2>3, <2>4, <2>5, <2>6, <2>7, <2>8 DEF Next, Loop
<1> QED
    BY <1>1, <1>2, <1>3, RequestStaysMade, LowerLeavesLess

LEMMA TickLeavesAll ==
    ASSUME CoreInv, ClockInv, Tick
    PROVE  StepsLeft' = StepsLeft /\ waited' > waited
<1>1. UNCHANGED coreVars
    BY DEF Tick
<1>2. UnitsLeft' = UnitsLeft /\ Stage' = Stage /\ ConnLeft' = ConnLeft
    BY <1>1 DEF coreVars, hyperVars, netVars, UnitsLeft, PeerLeft, Stage, ConnLeft
<1>3. Small' = Small /\ Unsent' = Unsent
    BY <1>1 DEF coreVars, hyperVars, connVars, netVars, Small, Hot, Ready, Round,
       Bit, Unsent, Live
<1>4. StepsLeft' = StepsLeft
    BY <1>1, <1>2, <1>3 DEF coreVars, StepsLeft, Big
<1> QED
    BY <1>4, TimeoutAssumption DEF Tick, ClockInv

(* Whatever the peer, the kernel and malloc do, Get takes only so many     *)
(* steps and sleeps only so many ticks: StepsLeft, a number, falls with    *)
(* each step, and stays as it is only while the time waited in the one     *)
(* select() call (193-200), which the Timeout bounds, grows.               *)
THEOREM EveryRunIsFinite ==
    SafeSpec => /\ [](StepsLeft \in Nat /\ waited \in 0 .. Timeout)
                /\ [][\/ StepsLeft' < StepsLeft
                      \/ StepsLeft' = StepsLeft /\ waited' > waited]_vars
<1>1. IInv => StepsLeft \in Nat /\ waited \in 0 .. Timeout
    BY StepsLeftIsNat DEF IInv, OwnInv, ClockInv
<1>2. IInv /\ IInv' /\ [Next]_vars
        => [\/ StepsLeft' < StepsLeft
            \/ StepsLeft' = StepsLeft /\ waited' > waited]_vars
    BY StepLeavesLess, TickLeavesAll DEF IInv, OwnInv, Terminated
<1> QED
    BY <1>1, <1>2, Inductive, PTL DEF SafeSpec

(* In all, Get sleeps at most so long, whoever answers it and however      *)
(* slowly: its ten seconds are per call of select(), and there is one      *)
(* that nothing ends and at most one more for each unit of the request     *)
(* and of the response (193-200).                                          *)
THEOREM SleepIsBounded ==
    SafeSpec => [](elapsed <= Timeout * (ReqUnits + BodyUnits + 2))
<1>1. ASSUME IInv, SleepPaidByProgress
      PROVE  elapsed <= Timeout * (ReqUnits + BodyUnits + 2)
    <2> DEFINE n == ReqUnits - outbox + rcvd + 1
               m == ReqUnits + BodyUnits + 2
    <2>1. n \in Int /\ m \in Int /\ n <= m
        BY <1>1, UnitsAssumption DEF IInv, CoreInv, CoreTypeOK, Total
    <2>2. Timeout * n <= Timeout * m /\ Timeout * n \in Int /\ Timeout * m \in Int
        BY <2>1, Scale
    <2>3. elapsed <= Timeout * n /\ elapsed \in Int
        BY <1>1 DEF SleepPaidByProgress, IInv, OwnInv, ClockInv
    <2> QED
        BY <2>2, <2>3
<1> QED
    BY <1>1, Inductive, SleepIsPaid, PTL
==============================================================================
