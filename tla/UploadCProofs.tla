---------------------------- MODULE UploadCProofs ----------------------------
(***************************************************************************)
(* The safety properties of upload.c, for a file of any length, a body of  *)
(* any number of chunks, every send buffer and every set of waker handles, *)
(* and the safety part of its implementing HttpExchange.                   *)
(***************************************************************************)
EXTENDS UploadC, HyperConnProofs

-----------------------------------------------------------------------------
(* The inductive invariant, beyond what the clients share.                 *)

(* Until the request is sent nothing of it has left the file.              *)
UnsentInv ==
    reqBody = "unset" =>
        outbox = 0 /\ txbuf = 0 /\ got = 0 /\ fileLeft = ReqUnits - 1

(* The request is made when the handshake is over, and only then.          *)
RequestInv ==
    /\ pc = "start" \/ (pc \in Running /\ Live("handshake")) => reqBody = "unset"
    /\ pc \in Running /\ (Live("send") \/ Live("body")) => reqBody # "unset"

(* A connection task that sleeps while the file may have more has a piece  *)
(* of it left to write.                                                    *)
AsleepInv ==
    (pc \in Running /\ task["conn"] = "waiting" /\ reqBody = "open") => outbox > 0

Acquired == {"file", "sock", "buf", "conn_data", "exec"}

HeldInv ==
    /\ pc \in Running => Acquired \subseteq held /\ held \subseteq Acquired \cup {"resp_body"}
    /\ pc \in Running /\ Live("body") => "resp_body" \in held

(* The task that takes chunks, and the chunk it has taken, come after the  *)
(* head of the response.                                                   *)
HeadInv == Live("body") => rcvd >= 1

UpInv ==
    /\ HeadInv /\ UploadConserved /\ UnsentInv /\ RequestInv /\ AsleepInv /\ HeldInv
    /\ CallbacksHaveData /\ CleanExit

IInv == TypeOK /\ CoreInv /\ UpInv

-----------------------------------------------------------------------------
(* CoreInv under the program's own handlers.                               *)

LEMMA HandlersKeep ==
    ASSUME CoreInv, HeadInv,
           HandshakeDone \/ BadRequest \/ SendDone \/ PollData \/ ChunkDone \/ BodyDone
    PROVE  CoreInv'
<1> USE UnitsAssumption, WakerAssumption
    DEF CoreInv, CoreTypeOK, Task, FgTask, Dir, Total, Running, Exited,
        connVars, netVars, WakersAccounted, HandInv, OneForeground, TaskInv,
        ConnInv, Live, Handling, NoTask, Buffered, WantsRead, WantsWrite
<1>1. CASE HandshakeDone
    BY <1>1 DEF HandshakeDone, TaskFree, Wake
<1>2. CASE BadRequest
    BY <1>2 DEF BadRequest
<1>3. CASE SendDone
    BY <1>3 DEF SendDone, TaskFree, Resource
<1>4. CASE PollData
    BY <1>4 DEF PollData, Polling, BodyFinish, Finish
<1>5. CASE ChunkDone
    BY <1>5 DEF ChunkDone, TaskFree, HeadInv
<1>6. CASE BodyDone
    BY <1>6 DEF BodyDone, free_conn_data
<1> QED
    BY <1>1, <1>2, <1>3, <1>4, <1>5, <1>6

(* A piece of the file goes to hyper while the connection task, which      *)
(* writes it, is being polled.                                             *)
LEMMA UploadKeeps == ASSUME CoreInv, poll_req_upload PROVE CoreInv'
<1> USE DEF poll_req_upload
<1>1. CASE fileLeft > 0 /\ outbox' = 1
           /\ UNCHANGED <<pc, task, cur, curType, blockedOn, rcvd, delivered,
                          connVars, netVars>>
    BY <1>1
    DEF CoreInv, CoreTypeOK, connVars, netVars, WakersAccounted, HandInv,
        OneForeground, TaskInv, ConnInv, Live, Handling, Buffered, WantsRead,
        WantsWrite, Running
<1>2. CASE UNCHANGED coreVars
    BY <1>2, StutterKeeps
<1>3. CASE ConnEnds /\ fault' = fault
    BY <1>3, ConnEndsKeeps DEF CoreInv, CoreTypeOK
<1> QED
    BY <1>1, <1>2, <1>3

LEMMA NextKeepsCoreInv == ASSUME CoreInv, HeadInv, [Next]_vars PROVE CoreInv'
<1>1. CASE Setup
    BY <1>1, SetupKeeps DEF Setup, Resource
<1>2. CASE Executor
    BY <1>2, PollKeeps, HandlerKeeps DEF Executor
<1>3. CASE Callbacks \/ Yield
    BY <1>3, ReadKeeps, WriteKeeps, YieldKeeps DEF Callbacks, Yield
<1>4. CASE poll_req_upload
    BY <1>4, UploadKeeps
<1>5. CASE HandshakeDone \/ BadRequest \/ SendDone \/ PollData \/ ChunkDone \/ BodyDone
    BY <1>5, HandlersKeep
<1>6. CASE Fail \/ Select \/ SelectFails
    BY <1>6, SelectKeeps, HandlerKeeps DEF Fail, Select
<1>7. CASE Peer
    BY <1>7, PeerKeeps
<1>8. CASE UNCHANGED vars
    BY <1>8, StutterKeeps DEF vars
<1> QED
    BY <1>1, <1>2, <1>3, <1>4, <1>5, <1>6, <1>7, <1>8 DEF Next, Program, Terminated

-----------------------------------------------------------------------------
(* The rest of the invariant.                                              *)

LEMMA InitUpInv == Init => TypeOK /\ UpInv
<1> SUFFICES ASSUME Init PROVE TypeOK /\ UpInv
    OBVIOUS
<1>1. TypeOK
    BY CoreInitInv, UnitsAssumption DEF Init, TypeOK, CoreInv
<1>2. UpInv
    BY UnitsAssumption
    DEF Init, CoreInit, UpInv, UploadConserved, UnsentInv, RequestInv,
        AsleepInv, HeldInv, HeadInv, CallbacksHaveData, CleanExit, Live, NoTask,
        Running, Task, FgTask
<1> QED
    BY <1>1, <1>2

LEMMA NextKeepsTypeOK == ASSUME IInv, [Next]_vars PROVE TypeOK'
<1>1. CoreTypeOK'
    BY NextKeepsCoreInv DEF IInv, UpInv, CoreInv
<1>2. fileLeft' \in 0 .. ReqUnits - 1 /\ reqBody' \in {"unset", "open", "done"}
    BY UnitsAssumption
    DEF IInv, TypeOK, Next, Program, Setup, Executor, Callbacks, poll_req_upload,
        Yield, PollData, HandshakeDone, BadRequest, SendDone, ChunkDone,
        BodyDone, Fail, Select, Terminated, upVars, vars
<1> QED
    BY <1>1, <1>2 DEF TypeOK

(* The connection task ends with nothing else changed.                     *)
LEMMA ConnEndsKeepsUp ==
    ASSUME IInv, pc = "conn", ConnEnds, UNCHANGED upVars
    PROVE  UpInv'
BY DEF IInv, ConnEnds, Finish, Wake, CoreInv, CoreTypeOK, Task, FgTask, Running,
       Live, NoTask, UpInv, UploadConserved, UnsentInv, RequestInv, AsleepInv,
       HeldInv, HeadInv, CallbacksHaveData, CleanExit, connVars, netVars, HandInv, upVars

LEMMA NextKeepsUpInv == ASSUME IInv, [Next]_vars PROVE UpInv'
<1> USE UnitsAssumption, WakerAssumption
    DEF IInv, TypeOK, UpInv, UploadConserved, UnsentInv, RequestInv, AsleepInv,
        HeldInv, HeadInv, Acquired, CallbacksHaveData, CleanExit, CoreInv, CoreTypeOK,
        Task, FgTask, Running, Exited, Live, NoTask, HandInv, Handling, upVars
<1>1. CASE Setup
    BY <1>1 DEF Setup, SetupFails, SetupOk, hyperVars, netVars
<1>2. CASE (PollHandshake \/ PollSend \/ PollConn) /\ UNCHANGED upVars
    BY <1>2 DEF PollHandshake, PollSend, PollConn, Polling, Finish, connVars, netVars
<1>3. CASE (BodyDry \/ NotSet) /\ UNCHANGED upVars
    BY <1>3 DEF BodyDry, NotSet, TaskFree, BodyFinish, Wake, Polling, Finish,
                connVars, netVars
<1>4. CASE PollData
    BY <1>4 DEF PollData, BodyFinish, Polling, Finish, connVars, netVars
<1>5. CASE read_cb /\ UNCHANGED upVars
    <2>1. CASE ReadData
        BY <1>5, <2>1 DEF read_cb, ReadData, Wake, connVars, netVars
    <2>2. CASE ReadEnds \/ ReadFails
        BY <1>5, <2>2, ConnEndsKeepsUp DEF read_cb, ReadEnds, ReadFails
    <2>3. CASE ReadBlocks
        BY <1>5, <2>3 DEF read_cb, ReadBlocks, Pending, netVars
    <2> QED
        BY <1>5, <2>1, <2>2, <2>3 DEF read_cb
<1>6. CASE write_cb /\ UNCHANGED upVars
    <2>1. CASE WriteData
        BY <1>6, <2>1 DEF write_cb, WriteData, WantsWrite, ConnInv, connVars
    <2>2. CASE ConnEnds
        BY <1>6, <2>2, ConnEndsKeepsUp DEF write_cb
    <2>3. CASE pc' = "exit1" /\ UNCHANGED <<hyperVars, connVars, netVars>>
        BY <1>6, <2>3 DEF write_cb, hyperVars, connVars, netVars
    <2>4. CASE WriteBlocks
        BY <1>6, <2>4 DEF write_cb, WriteBlocks, Pending, netVars
    <2> QED
        BY <1>6, <2>1, <2>2, <2>3, <2>4 DEF write_cb, WriteFails
<1>7. CASE poll_req_upload
    <2>1. CASE ConnEnds /\ UNCHANGED upVars
        BY <1>7, <2>1, ConnEndsKeepsUp DEF poll_req_upload
    <2>2. CASE ~(ConnEnds /\ UNCHANGED upVars)
        BY <1>7, <2>2
        DEF poll_req_upload, coreVars, hyperVars, connVars, netVars, ConnInv
    <2> QED
        BY <2>1, <2>2
<1>8. CASE Yield
    <2>1. CASE ConnYield
        BY <1>8, <2>1 DEF Yield, ConnYield, ConnDone, ConnEnds, Finish, connVars, netVars
    <2>2. CASE ConnDone
        BY <1>8, <2>2, ConnEndsKeepsUp DEF Yield, ConnDone
    <2> QED
        BY <1>8, <2>1, <2>2 DEF Yield
<1>9. CASE HandshakeDone
    BY <1>9 DEF HandshakeDone, TaskFree, Wake, TaskInv, OneForeground, connVars, netVars
<1>10. CASE BadRequest \/ ChunkDone
    BY <1>10 DEF BadRequest, ChunkDone, TaskFree, connVars, netVars
<1>11. CASE SendDone
    BY <1>11 DEF SendDone, TaskFree, netVars, TaskInv, Resource
<1>12. CASE BodyDone
    BY <1>12 DEF BodyDone, free_conn_data, netVars, WakersAccounted, Dir, TaskInv
<1>13. CASE Fail \/ (SelectFails /\ UNCHANGED upVars)
    BY <1>13 DEF Fail, GiveUp, SelectFails, hyperVars, connVars, netVars
<1>14. CASE Select
    BY <1>14 DEF Select, EnterSelect, SelectReturns, Wake, hyperVars, netVars
<1>15. CASE pc \notin Exited /\ Peer /\ UNCHANGED upVars
    BY <1>15 DEF Peer, PeerRecv, PeerSend, PeerClose, PeerReset, hyperVars, connVars
<1>16. CASE UNCHANGED vars
    BY <1>16 DEF vars, coreVars, hyperVars, connVars, netVars
<1> QED
    BY <1>1, <1>2, <1>3, <1>4, <1>5, <1>6, <1>7, <1>8, <1>9, <1>10, <1>11, <1>12,
       <1>13, <1>14, <1>15, <1>16
    DEF Next, Program, Executor, Callbacks, Terminated

-----------------------------------------------------------------------------
(* The inductive invariant holds in every state of every run (the whole of *)
(* upload.c's event loop).                                                 *)
THEOREM Inductive == SafeSpec => []IInv
<1>1. Init => IInv
    BY CoreInitInv, InitUpInv DEF Init, IInv
<1>2. IInv /\ [Next]_vars => IInv'
    BY NextKeepsCoreInv, NextKeepsTypeOK, NextKeepsUpInv DEF IInv, UpInv
<1> QED
    BY <1>1, <1>2, PTL DEF SafeSpec

(* Every variable of the program keeps to its type.                        *)
THEOREM TypeCorrect == SafeSpec => []TypeOK
<1>1. IInv => TypeOK
    BY DEF IInv
<1> QED
    BY <1>1, Inductive, PTL

(* Wakers are freed or woken exactly once (upload.c 36-41, 57-62, 66-73).  *)
THEOREM WakersSafe == SafeSpec => []WakersAccounted
<1>1. IInv => WakersAccounted
    BY DEF IInv, CoreInv
<1> QED
    BY <1>1, Inductive, PTL

(* Every piece taken from the file is on its way or with the peer, and     *)
(* once, however often write_cb blocks or is repeated (44-63, 121-141).    *)
THEOREM UploadIsConserved == SafeSpec => []UploadConserved
<1>1. IInv => UploadConserved
    BY DEF IInv, UpInv
<1> QED
    BY <1>1, Inductive, PTL

(* The loop sleeps (376) only with the reads, and the writes an unfinished *)
(* upload depends on, registered.                                          *)
THEOREM SleepsWatched == SafeSpec => []UploadWatched
<1>1. IInv => UploadWatched
    <2> SUFFICES ASSUME IInv, pc = "blocked" PROVE UploadWatched
        BY DEF UploadWatched
    <2>1. NoLostWakeup
        BY CoreInvWatches DEF IInv
    <2> QED
        BY <2>1 DEF NoLostWakeup, IInv, UpInv, AsleepInv, Running, UploadWatched
<1> QED
    BY <1>1, Inductive, PTL

(* Whatever hyper may still call back uses data that is allocated (344,    *)
(* 353-358).                                                               *)
THEOREM CallbacksSafe == SafeSpec => []CallbacksHaveData
<1>1. IInv => CallbacksHaveData
    BY DEF IInv, UpInv
<1> QED
    BY <1>1, Inductive, PTL

(* return 0 (359) is reached only with the whole response printed and all  *)
(* but the two descriptors released.                                       *)
THEOREM ExitIsClean == SafeSpec => []CleanExit
<1>1. IInv => CleanExit
    BY DEF IInv, UpInv
<1> QED
    BY <1>1, Inductive, PTL

-----------------------------------------------------------------------------
(* The abstract exchange.                                                  *)

LEMMA PhaseKept ==
    ASSUME pc \notin Exited, pc' \notin Exited,
           Live("send")' <=> Live("send"), Live("body")' <=> Live("body"),
           delivered' = delivered
    PROVE  UNCHANGED Exchange!vars
BY DEF phase, Exited, Exchange!vars

LEMMA GivingUpFails ==
    ASSUME pc \in {"start"} \cup Running, pc' = "exit1", delivered' = delivered
    PROVE  Exchange!Fail
BY DEF phase, Exited, Running, Exchange!Fail

(* A step of the connection task is a stutter, or kills the process.       *)
LEMMA ConnectionRefines ==
    ASSUME IInv, Callbacks \/ poll_req_upload \/ Yield
    PROVE  [Exchange!Next]_(Exchange!vars)
<1> USE DEF IInv, CoreInv, CoreTypeOK, HandInv, Running, Exited, Task, FgTask,
            NoTask, Live
<1>1. pc = "conn" /\ cur = NoTask
    BY DEF Callbacks, read_cb, write_cb, poll_req_upload, Yield, ConnYield, ConnDone
<1>2. CASE ConnEnds
    BY <1>1, <1>2, PhaseKept DEF ConnEnds, Finish, Wake
<1>3. CASE ReadData \/ WriteData \/ ConnYield
    BY <1>1, <1>3, PhaseKept DEF ReadData, WriteData, ConnYield, Wake
<1>4. CASE ReadBlocks \/ WriteBlocks
    BY <1>1, <1>4, PhaseKept DEF ReadBlocks, WriteBlocks, Pending
<1>5. CASE pc' = "exit1" /\ UNCHANGED <<hyperVars, connVars, netVars>>
    BY <1>1, <1>5, GivingUpFails DEF hyperVars, Exchange!Next
<1>6. CASE UNCHANGED <<pc, task, cur, delivered>>
    BY <1>1, <1>6, PhaseKept
<1> QED
    BY <1>2, <1>3, <1>4, <1>5, <1>6
    DEF Callbacks, read_cb, write_cb, ReadEnds, ReadFails, WriteFails, poll_req_upload,
        Yield, ConnDone, coreVars, hyperVars

LEMMA NextRefines ==
    ASSUME IInv, [Next]_vars
    PROVE  [Exchange!Next]_(Exchange!vars)
<1> USE DEF IInv, CoreInv, CoreTypeOK, HandInv, Running, Exited, Task, FgTask,
            NoTask, Live
<1>1. CASE \E R \in SUBSET Resource : SetupFails(R)
    BY <1>1, GivingUpFails DEF SetupFails, hyperVars, Exchange!Next
<1>2. CASE \E R \in SUBSET Resource : SetupOk(R)
    BY <1>2, PhaseKept DEF SetupOk
<1>3. CASE PollHandshake \/ PollSend \/ BodyDry \/ PollConn
    BY <1>3, PhaseKept
    DEF PollHandshake, PollSend, BodyDry, PollConn, BodyFinish, Polling, Finish, Wake
<1>4. CASE PollData
    <2>1. phase = "receiving" /\ phase' = "receiving"
        BY <1>4 DEF PollData, Polling, BodyFinish, Finish, phase, OneForeground
    <2>2. delivered < BodyUnits /\ delivered' = delivered + 1
        BY <1>4, UnitsAssumption DEF PollData, Polling, Buffered, Total
    <2> QED
        BY <2>1, <2>2 DEF Exchange!Next, Exchange!Chunk
<1>5. CASE Callbacks \/ poll_req_upload \/ Yield
    BY <1>5, ConnectionRefines
<1>6. CASE HandshakeDone
    <2>1. phase = "connecting" /\ phase' = "awaiting"
        BY <1>6 DEF HandshakeDone, Handling, TaskFree, Wake, phase, OneForeground
    <2> QED
        BY <1>6, <2>1 DEF HandshakeDone, Exchange!Next, Exchange!Request
<1>7. CASE SendDone
    <2>1. phase = "awaiting" /\ phase' = "receiving"
        BY <1>7 DEF SendDone, Handling, TaskFree, phase, OneForeground
    <2> QED
        BY <1>7, <2>1 DEF SendDone, Exchange!Next, Exchange!Response
<1>8. CASE ChunkDone
    \* The chunk's task gives way to the next one.
    BY <1>8, PhaseKept DEF ChunkDone, Handling, TaskFree
<1>9. CASE BodyDone
    <2>1. phase = "receiving" /\ phase' = "complete"
        BY <1>9 DEF BodyDone, Handling, phase, OneForeground
    <2> QED
        BY <1>9, <2>1 DEF BodyDone, TaskInv, Exchange!Next, Exchange!Complete
<1>10. CASE BadRequest \/ Fail \/ SelectFails
    BY <1>10, GivingUpFails
    DEF BadRequest, Fail, GiveUp, SelectFails, Handling, hyperVars, Exchange!Next
<1>11. CASE NotSet \/ Select
    BY <1>11, PhaseKept
    DEF NotSet, Handling, TaskFree, Select, EnterSelect, SelectReturns, Wake, hyperVars
<1>12. CASE (pc \notin Exited /\ Peer) \/ UNCHANGED vars
    BY <1>12
    DEF Peer, PeerRecv, PeerSend, PeerClose, PeerReset, vars, coreVars,
        hyperVars, phase, Exchange!vars
<1> QED
    BY <1>1, <1>2, <1>3, <1>4, <1>5, <1>6, <1>7, <1>8, <1>9, <1>10, <1>11, <1>12
    DEF Next, Program, Setup, Executor, Terminated, Resource

(* However the file, the callbacks and the peer interleave, upload.c goes  *)
(* through the phases of an exchange in order, counts every chunk once,    *)
(* and completes only on the whole body.                                   *)
THEOREM RefinesExchange == SafeSpec => Exchange!SafeSpec
<1>1. Init => Exchange!Init
    BY DEF Init, CoreInit, phase, Exited, Live, NoTask, Task, FgTask, Exchange!Init
<1>2. IInv /\ [Next]_vars => [Exchange!Next]_(Exchange!vars)
    BY NextRefines
<1> QED
    BY <1>1, <1>2, Inductive, PTL DEF SafeSpec, Exchange!SafeSpec
-----------------------------------------------------------------------------
(* Every run is finite.  What is still to come of the request: three for   *)
(* each read of the file, and the two turns of reqBody, the first of which *)
(* gives hyper the head.                                                   *)
FileLeft ==
    3 * fileLeft + (CASE reqBody = "unset" -> 4 [] reqBody = "open" -> 1 [] OTHER -> 0)

UploadLeft == IF pc \in Exited THEN 0 ELSE 1 + 30 * (Big + FileLeft) + Small

LEMMA UploadLeftIsNat ==
    ASSUME IInv
    PROVE  UploadLeft \in Nat /\ Big + FileLeft \in Nat /\ FileLeft \in Nat
<1>1. FileLeft \in Nat
    BY DEF IInv, TypeOK, FileLeft
<1>2. Big + FileLeft \in Nat /\ Small \in Nat
    BY <1>1, BigIsNat, SmallIsSmall DEF IInv
<1> QED
    BY <1>1, <1>2 DEF UploadLeft

(* A chunk goes to the program with its task, and the next task is pushed. *)
LEMMA PollDataLowers == ASSUME IInv, PollData PROVE Lower
<1> USE DEF Task, FgTask, NoTask
<1>1. UnitsLeft' = UnitsLeft - 3 /\ UnitsLeft' \in Int /\ UnitsLeft \in Int
    BY UnitsAssumption DEF IInv, CoreInv, CoreTypeOK, PollData, UnitsLeft, PeerLeft,
       Total, netVars
<1>2. /\ task["handshake"] = "absent" /\ task["send"] = "absent"
      /\ task["body"] = "ready" /\ pc = "poll" /\ cur = NoTask
      /\ task' = [task EXCEPT !["body"] = "absent"]
      /\ pc' = "handle" /\ cur' = "body" /\ curType' = "BUF"
    BY DEF PollData, Polling, BodyFinish, Finish, IInv, CoreInv, CoreTypeOK, HandInv,
           OneForeground, Running, Live
<1>3. Stage = 3 /\ Stage' = 5
    BY <1>2 DEF Stage, IInv, CoreInv, CoreTypeOK
<1>4. ConnLeft' = ConnLeft /\ ConnLeft \in Int
    BY <1>2, ConnKept DEF IInv, CoreInv, CoreTypeOK
<1> QED
    BY <1>1, <1>3, <1>4, ChunkTaken DEF Lower, Big

LEMMA ChunkDoneLowers == ASSUME IInv, ChunkDone PROVE Lower
<1> USE DEF Task, FgTask, NoTask, ChunkDone, Handling, TaskFree
<1>1. UnitsLeft' = UnitsLeft /\ UnitsLeft \in Nat
    BY UnitsKept DEF IInv, netVars
<1>2. /\ \A t \in FgTask : task[t] = "absent"
      /\ task'["body"] = "ready" /\ task'["send"] = "absent"
      /\ task'["handshake"] = "absent" /\ task'["conn"] = task["conn"]
    BY DEF IInv, CoreInv, CoreTypeOK, HandInv, OneForeground, Running, Live
<1>3. Stage = 5 /\ Stage' = 3
    BY <1>2 DEF Stage
<1>4. ConnLeft' = ConnLeft /\ ConnLeft \in Nat
    BY <1>2, ConnKept
<1> QED
    BY <1>1, <1>3, <1>4 DEF Lower, Big

(* The head, or a piece of the file, is two writes' worth of units more.   *)
LEMMA UploadSum ==
    ASSUME NEW b \in Int, NEW c \in Int, NEW f \in Int
    PROVE  /\ c < b + 2 => c + (f + 1) < b + (f + 4)
           /\ c = b + 2 => c + (f - 3) < b + f
           /\ c = b => c + (f - 1) < b + f
           /\ c + 2 * 0 < b + 2 * 1 => c < b + 2
OBVIOUS

LEMMA HandshakeDoneLowers ==
    ASSUME IInv, IInv', HandshakeDone
    PROVE  Big' + FileLeft' < Big + FileLeft
<1>1. Big' + 2 * outbox < Big + 2 * outbox'
    BY RequestLowers DEF HandshakeDone, IInv
<1>2. reqBody = "unset"
    BY DEF HandshakeDone, Handling, IInv, UpInv, RequestInv, Live, Running
<1>3. outbox = 0 /\ outbox' = 1
    BY <1>2 DEF HandshakeDone, IInv, UpInv, UnsentInv
<1>4. 3 * fileLeft \in Int /\ FileLeft = 3 * fileLeft + 4 /\ FileLeft' = 3 * fileLeft + 1
    BY <1>2 DEF HandshakeDone, FileLeft, IInv, TypeOK
<1>5. Big \in Int /\ Big' \in Int
    BY BigIsNat, BigStaysNat DEF IInv
<1>6. Big' < Big + 2
    <2>1. Big' + 2 * 0 < Big + 2 * 1
        BY <1>1, <1>3
    <2> QED
        BY <1>4, <1>5, <2>1, UploadSum
<1> QED
    BY <1>4, <1>5, <1>6, UploadSum

LEMMA UploadLowers ==
    ASSUME IInv, IInv', poll_req_upload
    PROVE  Big' + FileLeft' < Big + FileLeft \/ (Lower /\ UNCHANGED upVars)
<1>1. pc = "conn" /\ reqBody = "open" /\ outbox = 0
    BY DEF poll_req_upload
<1>2. Big \in Int /\ Big' \in Int /\ FileLeft \in Int
    BY BigIsNat, BigStaysNat, UploadLeftIsNat DEF IInv
<1>3. CASE /\ fileLeft > 0 /\ fileLeft' = fileLeft - 1 /\ outbox' = 1
           /\ UNCHANGED <<pc, task, cur, curType, blockedOn, rcvd, delivered,
                          connVars, netVars, reqBody>>
    <2>1. UnitsLeft' = UnitsLeft + 2 /\ UnitsLeft \in Int
        BY <1>1, <1>3, UnitsAssumption DEF IInv, CoreInv, CoreTypeOK, UnitsLeft,
           PeerLeft, Total, netVars
    <2>2. Stage' = Stage /\ Stage \in Int /\ ConnLeft' = ConnLeft /\ ConnLeft \in Int
        BY <1>1, <1>3, StageKept, ConnKept
    <2>3. Big' = Big + 2
        BY <2>1, <2>2 DEF Big
    <2>4. FileLeft' = FileLeft - 3
        BY <1>1, <1>3 DEF FileLeft, IInv, TypeOK
    <2> QED
        BY <1>2, <2>3, <2>4, UploadSum
<1>4. CASE reqBody' = "done" /\ UNCHANGED <<coreVars, fileLeft>>
    <2>1. UnitsLeft' = UnitsLeft /\ Stage' = Stage /\ ConnLeft' = ConnLeft
        BY <1>4 DEF coreVars, hyperVars, netVars, UnitsLeft, PeerLeft, Stage, ConnLeft
    <2>2. FileLeft' = FileLeft - 1
        BY <1>1, <1>4 DEF FileLeft, IInv, TypeOK
    <2> QED
        BY <1>2, <2>1, <2>2, UploadSum DEF Big
<1>5. CASE ConnEnds /\ UNCHANGED upVars
    BY <1>1, <1>5, ConnEndsLowers DEF IInv
<1> QED
    BY <1>3, <1>4, <1>5 DEF poll_req_upload

LEMMA StepLeavesLess ==
    ASSUME IInv, IInv', [Next]_vars, vars' # vars
    PROVE  UploadLeft' < UploadLeft
<1>1. pc \notin Exited
    BY DEF Next, Program, Setup, SetupFails, SetupOk, Executor, PollHandshake,
       PollSend, BodyDry, PollConn, Polling, NotSet, Callbacks, read_cb, write_cb,
       poll_req_upload, Yield, ConnYield, ConnDone, PollData, HandshakeDone,
       BadRequest, SendDone, ChunkDone, BodyDone, Fail, GiveUp, Handling, Select,
       EnterSelect, SelectReturns, SelectFails, Terminated, Exited
<1>2. \/ Big' + FileLeft' < Big + FileLeft
      \/ Lower /\ UNCHANGED upVars
      \/ pc' \in Exited
    <2> USE DEF IInv
    <2>1. CASE Setup
        BY <2>1, SetupLowers DEF Setup, SetupFails, Exited
    <2>2. CASE Executor
        BY <2>2, PollLowers, NotSetLowers DEF Executor
    <2>3. CASE Callbacks
        BY <2>3, ReadLowers, WriteLowers DEF Callbacks
    <2>4. CASE poll_req_upload
        BY <2>4, UploadLowers
    <2>5. CASE Yield
        BY <2>5, YieldLowers DEF Yield
    <2>6. CASE HandshakeDone
        BY <2>6, HandshakeDoneLowers
    <2>7. CASE SendDone
        BY <2>7, ResponseLowers DEF SendDone, upVars
    <2>8. CASE PollData \/ ChunkDone
        BY <2>8, PollDataLowers, ChunkDoneLowers DEF PollData, ChunkDone
    <2>9. CASE Select
        BY <2>9, SelectLowers DEF Select
    <2>10. CASE Peer /\ UNCHANGED upVars
        BY <1>1, <2>10, PeerLowers
    <2>11. CASE BadRequest \/ BodyDone \/ Fail \/ SelectFails
        BY <2>11 DEF BadRequest, BodyDone, Fail, GiveUp, SelectFails, Exited
    <2> QED
        BY <2>1, <2>2, <2>3, <2>4, <2>5, <2>6, <2>7, <2>8, <2>9, <2>10, <2>11
        DEF Next, Program, Terminated
<1>3. Big + FileLeft \in Nat /\ FileLeft \in Nat /\ FileLeft' \in Nat /\ Small \in Nat
    <2>1. FileLeft' \in Nat
        BY DEF IInv, TypeOK, FileLeft
    <2> QED
        BY <2>1, UploadLeftIsNat, SmallIsSmall
<1>4. CASE pc' \in Exited
    BY <1>1, <1>3, <1>4 DEF UploadLeft
<1>5. CASE pc' \notin Exited
    <2>1. FileLeft' = FileLeft \/ ~UNCHANGED upVars
        BY DEF FileLeft, upVars
    <2>2. Big' + FileLeft' < Big + FileLeft \/ (Lower /\ FileLeft' <= FileLeft)
        BY <1>2, <1>3, <1>5, <2>1
    <2> QED
        BY <1>1, <1>3, <1>5, <2>2, LessLeft DEF UploadLeft, IInv
<1> QED
    BY <1>4, <1>5

(* Whatever the file, the peer and the kernel do, upload.c takes only so   *)
(* many steps: UploadLeft, a number, falls with each of them.  hyper does  *)
(* not ask the upload callback for ever (121-141), and select() does not   *)
(* return again and again for what was already woken (373-395).            *)
THEOREM EveryRunIsFinite ==
    SafeSpec => [](UploadLeft \in Nat) /\ [][UploadLeft' < UploadLeft]_vars
<1>1. IInv => UploadLeft \in Nat
    BY UploadLeftIsNat
<1>2. IInv /\ IInv' /\ [Next]_vars => [UploadLeft' < UploadLeft]_vars
    BY StepLeavesLess
<1> QED
    BY <1>1, <1>2, Inductive, PTL DEF SafeSpec
==============================================================================
