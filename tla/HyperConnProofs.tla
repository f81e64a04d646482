--------------------------- MODULE HyperConnProofs ---------------------------
(***************************************************************************)
(* CoreInv is kept by every step the client programs share, for every set *)
(* of waker handles and any number of request units, body chunks and send *)
(* buffer units; and each of those steps lowers what is left of the       *)
(* exchange.  ClientCProofs, GoClientProofs and UploadCProofs add the      *)
(* steps of their own handlers.                                            *)
(***************************************************************************)
EXTENDS HyperConn, Integers, TLAPS

LEMMA CoreInitInv == CoreInit => CoreInv
<1> SUFFICES ASSUME CoreInit PROVE CoreInv
    OBVIOUS
<1> USE DEF CoreInit, Task, FgTask, Dir, Running, Exited
<1>1. CoreTypeOK
    <2>1. fault \in BOOLEAN
        OBVIOUS
    <2> QED
        BY <2>1, UnitsAssumption DEF CoreTypeOK, Total
<1>2. WakersAccounted
    BY WakerAssumption DEF WakersAccounted
<1>3. HandInv /\ OneForeground /\ TaskInv /\ ConnInv
    BY DEF HandInv, OneForeground, TaskInv, ConnInv, Handling
<1> QED
    BY <1>1, <1>2, <1>3 DEF CoreInv

(* Setup acquires its resources and pushes the handshake task; the waker   *)
(* slots it clears were empty.                                             *)
LEMMA SetupKeeps ==
    ASSUME CoreInv, NEW R \in SUBSET Resource, SetupFails(R) \/ SetupOk(R)
    PROVE  CoreInv'
<1> USE UnitsAssumption, WakerAssumption
    DEF CoreInv, CoreTypeOK, Task, FgTask, Dir, Running, Exited,
        hyperVars, connVars, netVars, WakersAccounted, HandInv, OneForeground,
        TaskInv, ConnInv, Live, Handling, NoTask, Buffered, WantsRead, WantsWrite
<1>1. CASE SetupFails(R)
    BY <1>1 DEF SetupFails
<1>2. CASE SetupOk(R)
    BY <1>2 DEF SetupOk
<1> QED
    BY <1>1, <1>2

(* The executor polls a task of the program, or starts the connection's.   *)
LEMMA PollKeeps ==
    ASSUME CoreInv, PollHandshake \/ PollSend \/ BodyDry \/ PollConn
    PROVE  CoreInv'
<1> USE UnitsAssumption, WakerAssumption
    DEF CoreInv, CoreTypeOK, Task, FgTask, Dir, Total, Running, Exited,
        hyperVars, connVars, netVars, WakersAccounted, HandInv, OneForeground,
        TaskInv, ConnInv, Live, Handling, Polling, Finish, NoTask
<1>1. CASE PollHandshake
    BY <1>1 DEF PollHandshake, Buffered, WantsRead, WantsWrite
<1>2. CASE PollSend
    BY <1>2 DEF PollSend, Buffered, WantsRead, WantsWrite
<1>3. CASE BodyDry
    \* The body task asks for more: a sleeping connection is woken, so that
    \* ConnInv promises nothing about it.
    BY <1>3 DEF BodyDry, BodyFinish, Wake, Buffered, WantsRead, WantsWrite
<1>4. CASE PollConn
    BY <1>4 DEF PollConn, Buffered, WantsRead, WantsWrite
<1> QED
    BY <1>1, <1>2, <1>3, <1>4

(* The connection task ends while it is being polled: those who wait for   *)
(* it are woken, so nobody waits for a task that is gone.                  *)
LEMMA ConnEndsKeeps ==
    ASSUME CoreInv, pc = "conn", ConnEnds, fault' \in BOOLEAN
    PROVE  CoreInv'
BY UnitsAssumption, WakerAssumption
   DEF CoreInv, CoreTypeOK, Task, FgTask, Dir, Total, Running, Exited,
       hyperVars, connVars, netVars, WakersAccounted, HandInv, OneForeground,
       TaskInv, ConnInv, Live, Handling, NoTask, ConnEnds, Finish, Wake,
       Buffered, WantsRead, WantsWrite

(* "would block": the slot's old handle dies with the slot's old content,  *)
(* the new one is in no other slot, and the direction is remembered.       *)
LEMMA PendingKeeps ==
    ASSUME CoreInv, pc = "conn", NEW d \in Dir, Pending(d)
    PROVE  CoreInv'
<1> USE WakerAssumption DEF CoreInv, CoreTypeOK, Dir, Pending, Register, netVars
<1>1. CoreTypeOK'
    OBVIOUS
<1>2. WakersAccounted'
    BY DEF WakersAccounted
<1>3. HandInv' /\ OneForeground' /\ TaskInv'
    BY DEF HandInv, OneForeground, TaskInv, Live, Handling, Buffered
<1>4. ConnInv'
    BY DEF ConnInv, Task
<1> QED
    BY <1>1, <1>2, <1>3, <1>4

LEMMA ReadKeeps ==
    ASSUME CoreInv, read_cb
    PROVE  CoreInv'
<1>1. CASE ReadData
    BY <1>1, UnitsAssumption
    DEF read_cb, ReadData, Wake, WantsRead, WantsWrite, Buffered, CoreInv,
        CoreTypeOK, Task, FgTask, Dir, Total, Running, Exited, connVars,
        netVars, WakersAccounted, HandInv, OneForeground, TaskInv, ConnInv,
        Live, Handling, NoTask
<1>2. CASE ReadEnds \/ ReadFails
    BY <1>2, ConnEndsKeeps DEF read_cb, ReadEnds, ReadFails, CoreInv, CoreTypeOK
<1>3. CASE ReadBlocks
    BY <1>3, PendingKeeps DEF read_cb, ReadBlocks, Dir
<1> QED
    BY <1>1, <1>2, <1>3 DEF read_cb

LEMMA ExitKeeps ==
    ASSUME CoreInv, pc # "start", pc' = "exit1",
           UNCHANGED <<hyperVars, connVars, netVars>>
    PROVE  CoreInv'
BY DEF CoreInv, CoreTypeOK, Running, Exited, hyperVars, connVars, netVars,
       WakersAccounted, HandInv, OneForeground, TaskInv, ConnInv, Handling,
       Buffered

LEMMA WriteKeeps ==
    ASSUME CoreInv, write_cb
    PROVE  CoreInv'
<1>1. CASE WriteData
    BY <1>1, UnitsAssumption
    DEF write_cb, WriteData, WantsRead, WantsWrite, Buffered, CoreInv,
        CoreTypeOK, connVars, WakersAccounted, HandInv, OneForeground, TaskInv,
        ConnInv, Live, Handling
<1>2. CASE WriteFails
    BY <1>2, ConnEndsKeeps, ExitKeeps DEF write_cb, WriteFails
<1>3. CASE WriteBlocks
    BY <1>3, PendingKeeps DEF write_cb, WriteBlocks, Dir
<1> QED
    BY <1>1, <1>2, <1>3 DEF write_cb

(* The connection goes to sleep: what it wants, it is blocked on, and what *)
(* it is blocked on has a waker.                                           *)
LEMMA YieldKeeps ==
    ASSUME CoreInv, ConnYield \/ ConnDone
    PROVE  CoreInv'
<1>1. CASE ConnYield
    BY <1>1
    DEF ConnYield, WantsRead, WantsWrite, Buffered, CoreInv, CoreTypeOK, Task,
        FgTask, Dir, Running, Exited, connVars, netVars, WakersAccounted,
        HandInv, OneForeground, TaskInv, ConnInv, Live, Handling, NoTask
<1>2. CASE ConnDone
    BY <1>2, ConnEndsKeeps DEF ConnDone, CoreInv, CoreTypeOK
<1> QED
    BY <1>1, <1>2

(* select() is entered and returns: the wakers of the ready descriptors    *)
(* are consumed, and the connection they belong to is ready again.         *)
LEMMA SelectKeeps ==
    ASSUME CoreInv, EnterSelect \/ SelectReturns
    PROVE  CoreInv'
<1> USE WakerAssumption
    DEF CoreInv, CoreTypeOK, Task, FgTask, Dir, Running, Exited, hyperVars,
        netVars, WakersAccounted, HandInv, OneForeground, TaskInv, ConnInv,
        Live, Handling, NoTask, Buffered, WantsRead, WantsWrite
<1>1. CASE EnterSelect
    BY <1>1 DEF EnterSelect
<1>2. CASE SelectReturns
    BY <1>2 DEF SelectReturns, ReadyFds, Wake
<1> QED
    BY <1>1, <1>2

LEMMA HandlerKeeps ==
    ASSUME CoreInv, NotSet \/ (\E t \in FgTask : GiveUp(t)) \/ SelectFails
    PROVE  CoreInv'
<1>1. CASE NotSet
    BY <1>1
    DEF NotSet, TaskFree, Handling, CoreInv, CoreTypeOK, Task, FgTask, Dir,
        Running, Exited, connVars, netVars, WakersAccounted, HandInv,
        OneForeground, TaskInv, ConnInv, Live, NoTask, Buffered, WantsRead,
        WantsWrite
<1>2. CASE (\E t \in FgTask : GiveUp(t)) \/ SelectFails
    BY <1>2, ExitKeeps DEF GiveUp, Handling, SelectFails
<1> QED
    BY <1>1, <1>2

(* The peer touches only the socket.                                       *)
LEMMA PeerKeeps ==
    ASSUME CoreInv, Peer
    PROVE  CoreInv'
<1> USE UnitsAssumption
    DEF CoreInv, CoreTypeOK, hyperVars, connVars, WakersAccounted, HandInv,
        OneForeground, TaskInv, ConnInv, Live, Handling, Buffered, WantsRead,
        WantsWrite
<1>1. CASE PeerRecv
    BY <1>1 DEF PeerRecv
<1>2. CASE PeerSend
    BY <1>2 DEF PeerSend, Total
<1>3. CASE PeerClose \/ PeerReset
    BY <1>3 DEF PeerClose, PeerReset
<1> QED
    BY <1>1, <1>2, <1>3 DEF Peer

LEMMA StutterKeeps ==
    ASSUME CoreInv, UNCHANGED coreVars
    PROVE  CoreInv'
BY DEF coreVars, hyperVars, connVars, netVars, CoreInv, CoreTypeOK,
       WakersAccounted, HandInv, OneForeground, TaskInv, ConnInv, Live,
       Handling, Buffered, WantsRead, WantsWrite

(* The program sleeps only with a foreground task waiting, which waits     *)
(* only for a connection that exists, which sleeps only with its wakers    *)
(* registered, which the loop has handed to select().                      *)
LEMMA CoreInvWatches == CoreInv => NoLostWakeup
<1> SUFFICES ASSUME CoreInv, pc = "blocked" PROVE NoLostWakeup
    BY DEF NoLostWakeup
<1>1. PICK t \in FgTask : task[t] # "absent"
    BY DEF CoreInv, HandInv, OneForeground, Running, Live, FgTask, NoTask
<1>2. task[t] = "waiting" /\ t \in {"send", "body"}
    BY <1>1 DEF CoreInv, CoreTypeOK, ConnInv, TaskInv, Task, FgTask
<1>3. task["conn"] = "waiting"
    BY <1>2 DEF CoreInv, CoreTypeOK, ConnInv, TaskInv, Task, FgTask
<1>4. WantsRead
    BY <1>2 DEF CoreInv, TaskInv, WantsRead
<1>5. waker["read"] # NoWaker /\ (outbox > 0 => waker["write"] # NoWaker)
    BY <1>3, <1>4 DEF CoreInv, ConnInv, Running, WantsWrite
<1> QED
    BY <1>3, <1>5 DEF NoLostWakeup, CoreInv, ConnInv, Dir
-----------------------------------------------------------------------------
(* Every run is finite.  What may still happen, as a number that each step *)
(* of the program and of the peer lowers: first what the exchange has      *)
(* left, which only data on the socket, the peer and finishing tasks       *)
(* change; and, within a round of the event loop in which none of them     *)
(* does anything, what the round has left.                                 *)

PeerLeft == IF peer = "open" THEN 2 ELSE IF peer = "closed" THEN 1 ELSE 0

UnitsLeft ==
    2 * outbox + txbuf + (5 * Total - sent - rcvd - 3 * delivered) + PeerLeft

(* How far the program is from the end of its chain of tasks.              *)
Stage ==
    IF pc = "start" THEN 13
    ELSE IF task["handshake"] # "absent" THEN 12
    ELSE IF cur = "handshake" THEN 9
    ELSE IF task["send"] # "absent" THEN 7
    ELSE IF cur = "send" THEN 6
    ELSE IF cur = "body" /\ curType = "BUF" THEN 5
    ELSE IF task["body"] # "absent" THEN 3
    ELSE 2

ConnLeft == IF task["conn"] # "absent" THEN 2 ELSE IF cur = "conn" THEN 1 ELSE 0

Big == UnitsLeft + Stage + ConnLeft

Bit(condition) == IF condition THEN 1 ELSE 0

(* A waker that select() would find to wake.                               *)
Hot(d) == Bit(waker[d] # NoWaker /\ Ready(d))

(* From the poll of the connection task to the next sleep.                 *)
Round ==
    CASE pc = "poll" /\ task["conn"] = "ready" -> 5
      [] pc = "conn" -> 2 + Bit("read" \notin blockedOn) + Bit("write" \notin blockedOn)
      [] pc = "poll" /\ task["conn"] # "ready" -> 1
      [] OTHER -> 0

Small ==
    6 * (Hot("read") + Hot("write"))
    + 6 * (Bit(task["send"] = "ready") + Bit(task["body"] = "ready"))
    + Round

Lower == Big' < Big \/ (Big' = Big /\ Small' < Small)

LEMMA SmallIsSmall == Small \in 0 .. 29 /\ Small' \in 0 .. 29
<1>1. Round \in 0 .. 5 /\ Round' \in 0 .. 5
    BY DEF Round, Bit
<1>2. /\ \A d \in Dir : Hot(d) \in 0 .. 1 /\ Hot(d)' \in 0 .. 1
      /\ \A t \in Task : /\ Bit(task[t] = "ready") \in 0 .. 1
                         /\ Bit(task'[t] = "ready") \in 0 .. 1
    BY DEF Hot, Bit
<1> QED
    BY <1>1, <1>2 DEF Small, Dir, Task, FgTask

LEMMA BigIsNat == CoreInv => Big \in Nat
<1> SUFFICES ASSUME CoreInv PROVE Big \in Nat
    OBVIOUS
<1>1. UnitsLeft \in Nat
    BY UnitsAssumption DEF CoreInv, CoreTypeOK, UnitsLeft, PeerLeft, Total
<1>2. Stage \in Nat /\ ConnLeft \in Nat
    BY DEF Stage, ConnLeft
<1> QED
    BY <1>1, <1>2 DEF Big

LEMMA BigStaysNat == CoreInv' => Big' \in Nat
<1>1. (CoreInv => Big \in Nat)'
    BY BigIsNat, PTL
<1> QED
    BY <1>1

(* What a step leaves alone.                                               *)
LEMMA UnitsKept ==
    ASSUME CoreInv, UNCHANGED <<outbox, txbuf, sent, rcvd, delivered, peer>>
    PROVE  UnitsLeft' = UnitsLeft /\ UnitsLeft \in Nat
BY UnitsAssumption DEF CoreInv, CoreTypeOK, UnitsLeft, PeerLeft, Total

LEMMA StageKept ==
    ASSUME pc # "start", pc' # "start",
           \A t \in FgTask : (task'[t] = "absent") <=> (task[t] = "absent"),
           \A t \in FgTask : (cur' = t) <=> (cur = t),
           cur = "body" => curType' = curType
    PROVE  Stage' = Stage /\ Stage \in Nat
BY DEF Stage, FgTask

LEMMA ConnKept ==
    ASSUME (task'["conn"] = "absent") <=> (task["conn"] = "absent"),
           (cur' = "conn") <=> (cur = "conn")
    PROVE  ConnLeft' = ConnLeft /\ ConnLeft \in Nat
BY DEF ConnLeft

(* The units a step moves.                                                 *)
LEMMA UnitsMoved ==
    ASSUME CoreInv,
           \/ rcvd' = rcvd + 1 /\ UNCHANGED <<outbox, txbuf, sent, delivered, peer>>
           \/ sent' = sent + 1 /\ UNCHANGED <<outbox, txbuf, rcvd, delivered, peer>>
           \/ txbuf' = txbuf - 1 /\ UNCHANGED <<outbox, sent, rcvd, delivered, peer>>
           \/ outbox' = outbox - 1 /\ txbuf' = txbuf + 1
              /\ UNCHANGED <<sent, rcvd, delivered, peer>>
           \/ delivered' = delivered + 1 /\ UNCHANGED <<outbox, txbuf, sent, rcvd, peer>>
           \/ PeerLeft' < PeerLeft /\ UNCHANGED <<outbox, txbuf, sent, rcvd, delivered>>
    PROVE  UnitsLeft' < UnitsLeft /\ UnitsLeft' \in Int /\ UnitsLeft \in Nat
BY UnitsAssumption DEF CoreInv, CoreTypeOK, UnitsLeft, PeerLeft, Total

(* What of the sum a step lowers.                                          *)
LEMMA FewerUnits ==
    ASSUME NEW u \in Int, NEW v \in Int, v < u, NEW s \in Int, NEW c \in Int
    PROVE  v + s + c < u + s + c
OBVIOUS

LEMMA LaterStage ==
    ASSUME NEW u \in Int, NEW c \in Int, NEW d \in Int, d <= c + 2
    PROVE  u + 9 + d < u + 12 + c
OBVIOUS

LEMMA ChunkLost ==
    ASSUME NEW u \in Int, NEW v \in Int, v < u, NEW c \in Int
    PROVE  v + 2 + c < u + 3 + c
OBVIOUS

LEMMA ChunkTaken ==
    ASSUME NEW u \in Int, NEW v \in Int, v = u - 3, NEW c \in Int
    PROVE  v + 5 + c < u + 3 + c
OBVIOUS

LEMMA UnitsLower ==
    ASSUME UnitsLeft' < UnitsLeft, UnitsLeft' \in Int, UnitsLeft \in Nat,
           Stage' = Stage, Stage \in Nat, ConnLeft' = ConnLeft, ConnLeft \in Nat
    PROVE  Lower
<1>1. UnitsLeft \in Int /\ Stage \in Int /\ ConnLeft \in Int
    OBVIOUS
<1> QED
    BY <1>1, FewerUnits DEF Lower, Big

LEMMA SetupLowers == ASSUME CoreInv, NEW R, SetupOk(R) PROVE Lower
<1>1. UnitsLeft' = UnitsLeft /\ UnitsLeft \in Nat
    BY UnitsKept DEF SetupOk, netVars
<1>2. ConnLeft' = ConnLeft /\ ConnLeft \in Nat
    BY ConnKept DEF SetupOk
<1>3. Stage = 13 /\ Stage' = 12
    <2>1. pc = "start" /\ pc' = "poll" /\ task'["handshake"] = "ready"
        BY DEF SetupOk, CoreInv, CoreTypeOK, Task, FgTask
    <2> QED
        BY <2>1 DEF Stage
<1> QED
    BY <1>1, <1>2, <1>3 DEF Lower, Big

(* A task of the program finishes, or goes to sleep; the connection's is   *)
(* polled.                                                                 *)
LEMMA PollLowers ==
    ASSUME CoreInv, PollHandshake \/ PollSend \/ BodyDry \/ PollConn
    PROVE  Lower
<1> USE DEF Task, FgTask
<1>1. UnitsLeft' = UnitsLeft /\ UnitsLeft \in Nat
    BY UnitsKept DEF PollHandshake, PollSend, BodyDry, PollConn, netVars
<1>2. /\ task \in [Task -> {"absent", "ready", "waiting"}]
      /\ \A t \in FgTask : Live(t) => \A u \in FgTask : Live(u) => u = t
      /\ pc = "poll" /\ cur = NoTask
    BY DEF CoreInv, CoreTypeOK, HandInv, OneForeground, Running, PollHandshake,
       PollSend, BodyDry, PollConn, Polling
<1>3. CASE PollHandshake
    <2>1. /\ task["handshake"] = "ready" /\ task'["handshake"] = "absent"
          /\ pc = "poll" /\ pc' = "handle" /\ cur' = "handshake"
        BY <1>2, <1>3 DEF PollHandshake, Polling, Finish
    <2>3. Stage = 12 /\ Stage' = 9
        BY <2>1 DEF Stage
    <2>2. ConnLeft \in Nat /\ ConnLeft' \in Nat /\ ConnLeft' <= ConnLeft + 2
        BY <1>2, <1>3 DEF PollHandshake, Polling, Finish, ConnLeft
    <2>4. UnitsLeft \in Int /\ ConnLeft \in Int /\ ConnLeft' \in Int
        BY <1>1, <2>2
    <2> QED
        BY <1>1, <2>2, <2>3, <2>4, LaterStage DEF Lower, Big
<1>4. CASE PollSend
    <2>1. ConnLeft' = ConnLeft /\ ConnLeft \in Nat
        BY <1>2, <1>4, ConnKept DEF PollSend, Finish, NoTask
    <2>2. CASE Finish("send", "RESPONSE") \/ Finish("send", "ERROR")
        <3>1. Stage = 7 /\ Stage' = 6
            BY <1>2, <1>4, <2>2 DEF PollSend, Polling, Finish, Stage, Live, NoTask
        <3> QED
            BY <1>1, <2>1, <3>1 DEF Lower, Big
    <2>3. CASE task' = [task EXCEPT !["send"] = "waiting"] /\ UNCHANGED <<pc, cur, curType>>
        <3>1. Stage' = Stage /\ Stage \in Nat
            BY <1>2, <1>4, <2>3, StageKept DEF PollSend, Polling
        <3>2. \A d \in Dir : Hot(d)' = Hot(d) /\ Hot(d) \in 0 .. 1
            BY <1>4 DEF PollSend, connVars, netVars, Hot, Ready, Bit
        <3>3. /\ Bit(task["send"] = "ready") = 1 /\ Bit(task["send"] = "ready")' = 0
              /\ Bit(task["body"] = "ready")' = Bit(task["body"] = "ready")
              /\ Bit(task["body"] = "ready") \in 0 .. 1
            BY <1>2, <1>4, <2>3 DEF PollSend, Polling, Bit
        <3>4. Round' = Round /\ Round \in 0 .. 5
            BY <1>2, <1>4, <2>3 DEF PollSend, Round, Bit
        <3>5. Small' < Small
            BY <3>2, <3>3, <3>4 DEF Small, Dir
        <3> QED
            BY <1>1, <2>1, <3>1, <3>5 DEF Lower, Big
    <2> QED
        BY <1>4, <2>2, <2>3 DEF PollSend
<1>5. CASE BodyDry
    <2>1. CASE BodyFinish("EMPTY") \/ BodyFinish("ERROR")
        <3>1. Stage = 3 /\ Stage' = 2
            BY <1>2, <1>5, <2>1 DEF BodyDry, BodyFinish, Polling, Finish, Stage, Live, NoTask
        <3>2. ConnLeft' = ConnLeft /\ ConnLeft \in Nat
            BY <1>2, <2>1, ConnKept DEF BodyFinish, Finish, NoTask
        <3> QED
            BY <1>1, <3>1, <3>2 DEF Lower, Big
    <2>2. CASE /\ task' = Wake([task EXCEPT !["body"] = "waiting"], {"conn"})
               /\ UNCHANGED <<pc, cur, curType>>
        <3>1. /\ task'["handshake"] = task["handshake"] /\ task'["send"] = task["send"]
              /\ task["body"] = "ready" /\ task'["body"] = "waiting"
              /\ (task'["conn"] = "absent") <=> (task["conn"] = "absent")
            BY <1>2, <1>5, <2>2 DEF BodyDry, Polling, Wake
        <3>2. Stage' = Stage /\ Stage \in Nat
            BY <1>2, <2>2, <3>1, StageKept
        <3>3. ConnLeft' = ConnLeft /\ ConnLeft \in Nat
            BY <1>2, <2>2, <3>1, ConnKept
        <3>4. \A d \in Dir : Hot(d)' = Hot(d) /\ Hot(d) \in 0 .. 1
            BY <1>5 DEF BodyDry, connVars, netVars, Hot, Ready, Bit
        <3>5. /\ Bit(task["body"] = "ready") = 1 /\ Bit(task["body"] = "ready")' = 0
              /\ Bit(task["send"] = "ready")' = Bit(task["send"] = "ready")
              /\ Bit(task["send"] = "ready") \in 0 .. 1
            BY <3>1 DEF Bit
        <3>6. Round \in 1 .. 5 /\ Round' \in 1 .. 5
            BY <1>2, <2>2 DEF Round
        <3>7. Small' < Small
            BY <3>4, <3>5, <3>6 DEF Small, Dir
        <3> QED
            BY <1>1, <3>2, <3>3, <3>7 DEF Lower, Big
    <2> QED
        BY <1>5, <2>1, <2>2 DEF BodyDry
<1>6. CASE PollConn
    <2>1. UNCHANGED <<task, cur, curType>> /\ pc' = "conn"
        BY <1>6 DEF PollConn
    <2>2. Stage' = Stage /\ Stage \in Nat /\ ConnLeft' = ConnLeft /\ ConnLeft \in Nat
        BY <1>2, <2>1, StageKept, ConnKept
    <2>3. \A d \in Dir : Hot(d)' = Hot(d) /\ Hot(d) \in 0 .. 1
        BY <1>6 DEF PollConn, connVars, netVars, Hot, Ready, Bit
    <2>4. /\ Bit(task["body"] = "ready")' = Bit(task["body"] = "ready")
          /\ Bit(task["send"] = "ready")' = Bit(task["send"] = "ready")
          /\ {Bit(task["send"] = "ready"), Bit(task["body"] = "ready")} \subseteq 0 .. 1
        BY <2>1 DEF Bit
    <2>5. Round = 5 /\ Round' = 4
        BY <1>2, <1>6 DEF PollConn, Polling, Round, Bit
    <2>6. Small' < Small
        BY <2>3, <2>4, <2>5 DEF Small, Dir
    <2> QED
        BY <1>1, <2>2, <2>6 DEF Lower, Big
<1> QED
    BY <1>3, <1>4, <1>5, <1>6

LEMMA ConnEndsLowers == ASSUME CoreInv, pc = "conn", ConnEnds PROVE Lower
<1> USE DEF Task, FgTask
<1>1. UnitsLeft' = UnitsLeft /\ UnitsLeft \in Nat
    BY UnitsKept DEF ConnEnds, netVars
<1>2. /\ task \in [Task -> {"absent", "ready", "waiting"}]
      /\ task["conn"] = "ready" /\ cur = NoTask
    BY DEF CoreInv, CoreTypeOK, ConnInv, HandInv
<1>3. Stage' = Stage /\ Stage \in Nat
    <2>1. \A t \in FgTask : (task'[t] = "absent") <=> (task[t] = "absent")
        BY <1>2 DEF ConnEnds, Wake
    <2> QED
        BY <1>2, <2>1, StageKept DEF ConnEnds, Finish, NoTask
<1>4. ConnLeft = 2 /\ ConnLeft' = 1
    BY <1>2 DEF ConnEnds, Finish, Wake, ConnLeft
<1> QED
    BY <1>1, <1>3, <1>4 DEF Lower, Big

(* A direction that would block is not tried again in this poll, and its   *)
(* waker is not one that select() would wake.                              *)
LEMMA PendingLowers ==
    ASSUME CoreInv, pc = "conn", NEW d \in Dir, d \notin blockedOn, Pending(d), ~Ready(d)
    PROVE  Lower
<1> USE DEF Dir
<1>1. UnitsLeft' = UnitsLeft /\ UnitsLeft \in Nat
    BY UnitsKept DEF Pending, netVars
<1>2. Stage' = Stage /\ Stage \in Nat /\ ConnLeft' = ConnLeft /\ ConnLeft \in Nat
    BY StageKept, ConnKept DEF Pending
<1>3. \A e \in Dir : Hot(e)' <= Hot(e) /\ Hot(e) \in 0 .. 1 /\ Hot(e)' \in 0 .. 1
    <2>1. \A e \in Dir : Ready(e)' <=> Ready(e)
        BY DEF Pending, netVars, Ready
    <2>2. \A e \in Dir \ {d} : waker'[e] = waker[e]
        BY DEF Pending, Register, CoreInv, CoreTypeOK
    <2> QED
        BY <2>1, <2>2 DEF Hot, Bit
<1>4. /\ Bit(task["body"] = "ready")' = Bit(task["body"] = "ready")
      /\ Bit(task["send"] = "ready")' = Bit(task["send"] = "ready")
      /\ {Bit(task["send"] = "ready"), Bit(task["body"] = "ready")} \subseteq 0 .. 1
    BY DEF Pending, Bit
<1>5. Round' = Round - 1 /\ Round \in 2 .. 4
    BY DEF Pending, Round, Bit
<1>6. Small' < Small
    BY <1>3, <1>4, <1>5 DEF Small
<1> QED
    BY <1>1, <1>2, <1>6 DEF Lower, Big

LEMMA ReadLowers == ASSUME CoreInv, read_cb PROVE Lower
<1>1. CASE ReadData
    <2>1. UnitsLeft' < UnitsLeft /\ UnitsLeft' \in Int /\ UnitsLeft \in Nat
        BY <1>1, UnitsMoved DEF ReadData, netVars
    <2>2. \A t \in Task : (task'[t] = "absent") <=> (task[t] = "absent")
        BY <1>1 DEF ReadData, Wake
    <2>3. Stage' = Stage /\ Stage \in Nat /\ ConnLeft' = ConnLeft /\ ConnLeft \in Nat
        BY <1>1, <2>2, StageKept, ConnKept DEF read_cb, ReadData, Task, FgTask
    <2> QED
        BY <2>1, <2>3, UnitsLower
<1>2. CASE ReadEnds \/ ReadFails
    BY <1>2, ConnEndsLowers DEF read_cb, ReadEnds, ReadFails
<1>3. CASE ReadBlocks
    <2>1. "read" \in Dir /\ ~Ready("read")
        BY <1>3 DEF ReadBlocks, Dir, Ready, CoreInv, CoreTypeOK
    <2> QED
        BY <1>3, <2>1, PendingLowers DEF read_cb, ReadBlocks
<1> QED
    BY <1>1, <1>2, <1>3 DEF read_cb

LEMMA WriteLowers == ASSUME CoreInv, write_cb PROVE Lower \/ pc' \in Exited
<1>1. CASE WriteData
    <2>1. UnitsLeft' < UnitsLeft /\ UnitsLeft' \in Int /\ UnitsLeft \in Nat
        BY <1>1, UnitsMoved DEF WriteData
    <2>2. Stage' = Stage /\ Stage \in Nat /\ ConnLeft' = ConnLeft /\ ConnLeft \in Nat
        BY <1>1, StageKept, ConnKept DEF write_cb, WriteData
    <2> QED
        BY <2>1, <2>2, UnitsLower
<1>2. CASE WriteFails
    BY <1>2, ConnEndsLowers DEF write_cb, WriteFails, Exited
<1>3. CASE WriteBlocks
    BY <1>3, PendingLowers DEF write_cb, WriteBlocks, Dir, Ready, CoreInv, CoreTypeOK
<1> QED
    BY <1>1, <1>2, <1>3 DEF write_cb

LEMMA YieldLowers == ASSUME CoreInv, ConnYield \/ ConnDone PROVE Lower
<1>1. CASE ConnYield
    <2>1. UnitsLeft' = UnitsLeft /\ UnitsLeft \in Nat
        BY <1>1, UnitsKept DEF ConnYield, netVars
    <2>2. /\ task'["conn"] = "waiting" /\ task["conn"] = "ready"
          /\ \A t \in FgTask : task'[t] = task[t]
        BY <1>1 DEF ConnYield, CoreInv, CoreTypeOK, ConnInv, Task, FgTask
    <2>3. Stage' = Stage /\ Stage \in Nat /\ ConnLeft' = ConnLeft /\ ConnLeft \in Nat
        BY <1>1, <2>2, StageKept, ConnKept DEF ConnYield
    <2>4. \A d \in Dir : Hot(d)' = Hot(d) /\ Hot(d) \in 0 .. 1
        BY <1>1 DEF ConnYield, connVars, netVars, Hot, Ready, Bit
    <2>5. /\ Bit(task["body"] = "ready")' = Bit(task["body"] = "ready")
          /\ Bit(task["send"] = "ready")' = Bit(task["send"] = "ready")
          /\ {Bit(task["send"] = "ready"), Bit(task["body"] = "ready")} \subseteq 0 .. 1
        BY <2>2 DEF Bit, FgTask
    <2>6. Round' = 1 /\ Round \in 2 .. 4
        BY <1>1, <2>2 DEF ConnYield, Round, Bit
    <2>7. Small' < Small
        BY <2>4, <2>5, <2>6 DEF Small, Dir
    <2> QED
        BY <2>1, <2>3, <2>7 DEF Lower, Big
<1>2. CASE ConnDone
    BY <1>2, ConnEndsLowers DEF ConnDone
<1> QED
    BY <1>1, <1>2

(* select() returns only for a waker that it consumes, so that the loop    *)
(* does not turn without anything having happened (client.c 303-325).      *)
LEMMA SelectLowers == ASSUME CoreInv, EnterSelect \/ SelectReturns PROVE Lower
<1> USE DEF Task, FgTask
<1>1. CASE EnterSelect
    <2>1. UnitsLeft' = UnitsLeft /\ UnitsLeft \in Nat
        BY <1>1, UnitsKept DEF EnterSelect, hyperVars, netVars
    <2>2. Stage' = Stage /\ Stage \in Nat /\ ConnLeft' = ConnLeft /\ ConnLeft \in Nat
        BY <1>1, StageKept, ConnKept DEF EnterSelect, hyperVars
    <2>3. \A d \in Dir : Hot(d)' = Hot(d) /\ Hot(d) \in 0 .. 1
        BY <1>1 DEF EnterSelect, hyperVars, netVars, Hot, Ready, Bit
    <2>4. /\ Bit(task["body"] = "ready")' = Bit(task["body"] = "ready")
          /\ Bit(task["send"] = "ready")' = Bit(task["send"] = "ready")
          /\ {Bit(task["send"] = "ready"), Bit(task["body"] = "ready")} \subseteq 0 .. 1
        BY <1>1 DEF EnterSelect, hyperVars, Bit
    <2>5. Round = 1 /\ Round' = 0
        BY <1>1 DEF EnterSelect, hyperVars, Round
    <2>6. Small' < Small
        BY <2>3, <2>4, <2>5 DEF Small, Dir
    <2> QED
        BY <2>1, <2>2, <2>6 DEF Lower, Big
<1>2. CASE SelectReturns
    <2>1. UnitsLeft' = UnitsLeft /\ UnitsLeft \in Nat
        BY <1>2, UnitsKept DEF SelectReturns, netVars
    <2>2. /\ \A t \in FgTask : task'[t] = task[t]
          /\ (task'["conn"] = "absent") <=> (task["conn"] = "absent")
        BY <1>2 DEF SelectReturns, Wake, CoreInv, CoreTypeOK
    <2>3. Stage' = Stage /\ Stage \in Nat /\ ConnLeft' = ConnLeft /\ ConnLeft \in Nat
        BY <1>2, <2>2, StageKept, ConnKept DEF SelectReturns
    <2>4. \A d \in Dir : Ready(d)' <=> Ready(d)
        BY <1>2 DEF SelectReturns, netVars, Ready
    <2>5. \A d \in Dir :
             /\ Hot(d) \in 0 .. 1 /\ Hot(d)' \in 0 .. 1 /\ Hot(d)' <= Hot(d)
             /\ d \in ReadyFds => Hot(d) = 1 /\ Hot(d)' = 0
        BY <1>2, <2>4 DEF SelectReturns, ReadyFds, Hot, Bit, CoreInv, ConnInv
    <2>6. PICK d \in Dir : d \in ReadyFds
        BY <1>2 DEF SelectReturns, ReadyFds, CoreInv, CoreTypeOK
    <2>7. /\ Bit(task["body"] = "ready")' = Bit(task["body"] = "ready")
          /\ Bit(task["send"] = "ready")' = Bit(task["send"] = "ready")
          /\ {Bit(task["send"] = "ready"), Bit(task["body"] = "ready")} \subseteq 0 .. 1
        BY <2>2 DEF Bit
    <2>8. Round = 0 /\ Round' \in 0 .. 5
        BY <1>2 DEF SelectReturns, Round
    <2>9. Small' < Small
        BY <2>5, <2>6, <2>7, <2>8 DEF Small, Dir
    <2> QED
        BY <2>1, <2>3, <2>9 DEF Lower, Big
<1> QED
    BY <1>1, <1>2

LEMMA NotSetLowers == ASSUME CoreInv, NotSet PROVE Lower
<1>1. UnitsLeft' = UnitsLeft /\ UnitsLeft \in Nat
    BY UnitsKept DEF NotSet, netVars
<1>2. Stage' = Stage /\ Stage \in Nat
    BY StageKept DEF NotSet, Handling, TaskFree, NoTask, FgTask
<1>3. ConnLeft = 1 /\ ConnLeft' = 0
    BY DEF NotSet, Handling, TaskFree, ConnLeft, CoreInv, HandInv, NoTask
<1> QED
    BY <1>1, <1>2, <1>3 DEF Lower, Big

LEMMA PeerLowers == ASSUME CoreInv, pc \notin Exited, Peer PROVE Lower
<1>1. UnitsLeft' < UnitsLeft /\ UnitsLeft' \in Int /\ UnitsLeft \in Nat
    <2>1. CASE PeerRecv \/ PeerSend
        BY <2>1, UnitsMoved DEF PeerRecv, PeerSend, hyperVars
    <2>2. CASE PeerClose \/ PeerReset
        <3>1. PeerLeft' < PeerLeft
            BY <2>2 DEF CoreInv, CoreTypeOK, PeerClose, PeerReset, PeerLeft
        <3> QED
            BY <2>2, <3>1, UnitsMoved DEF PeerClose, PeerReset, hyperVars
    <2> QED
        BY <2>1, <2>2 DEF Peer
<1>2. UNCHANGED <<pc, task, cur, curType>>
    BY DEF Peer, PeerRecv, PeerSend, PeerClose, PeerReset, hyperVars
<1>3. Stage' = Stage /\ Stage \in Nat /\ ConnLeft' = ConnLeft /\ ConnLeft \in Nat
    BY <1>2 DEF Stage, ConnLeft
<1> QED
    BY <1>1, <1>3, UnitsLower

(* The handlers the programs have in common, up to what they hold.         *)
LEMMA RequestSum ==
    ASSUME NEW u \in Int, NEW v \in Int, NEW n \in Int, NEW m \in Int, NEW c \in Int,
           v + 2 * n = u + 2 * m
    PROVE  v + 7 + c + 2 * n < u + 9 + c + 2 * m
OBVIOUS

LEMMA RequestLowers ==
    ASSUME CoreInv, CoreInv', Handling("handshake", "CLIENTCONN"), TaskFree,
           task' = Wake([task EXCEPT !["send"] = "ready"], {"conn"}),
           UNCHANGED <<rcvd, delivered, netVars>>
    PROVE  Big' + 2 * outbox < Big + 2 * outbox'
<1> USE DEF Task, FgTask, NoTask, Handling, TaskFree
<1>1. UnitsLeft' + 2 * outbox = UnitsLeft + 2 * outbox'
    BY UnitsAssumption DEF CoreInv, CoreTypeOK, UnitsLeft, PeerLeft, Total, netVars
<1>2. /\ \A t \in FgTask : task[t] = "absent"
      /\ task'["send"] = "ready" /\ task'["handshake"] = "absent"
      /\ (task'["conn"] = "absent") <=> (task["conn"] = "absent")
    BY DEF CoreInv, CoreTypeOK, HandInv, OneForeground, Running, Live, Wake
<1>3. Stage = 9 /\ Stage' = 7
    BY <1>2 DEF Stage
<1>4. ConnLeft' = ConnLeft /\ ConnLeft \in Nat
    BY <1>2, ConnKept
<1>5. UnitsLeft \in Int /\ UnitsLeft' \in Int /\ outbox \in Int /\ outbox' \in Int
    BY UnitsAssumption DEF CoreInv, CoreTypeOK, UnitsLeft, PeerLeft, Total
<1>6. UnitsLeft' + 7 + ConnLeft + 2 * outbox < UnitsLeft + 9 + ConnLeft + 2 * outbox'
    <2>1. ConnLeft \in Int
        BY <1>4
    <2> QED
        BY <1>1, <1>5, <2>1, RequestSum
<1> QED
    BY <1>3, <1>4, <1>6 DEF Big

LEMMA ResponseLowers ==
    ASSUME CoreInv, Handling("send", "RESPONSE"), TaskFree,
           task' = [task EXCEPT !["body"] = "ready"],
           UNCHANGED <<outbox, rcvd, delivered, netVars>>
    PROVE  Lower
<1> USE DEF Task, FgTask, NoTask, Handling, TaskFree
<1>1. UnitsLeft' = UnitsLeft /\ UnitsLeft \in Nat
    BY UnitsKept DEF netVars
<1>2. /\ \A t \in FgTask : task[t] = "absent"
      /\ task'["body"] = "ready" /\ task'["send"] = "absent"
      /\ task'["handshake"] = "absent" /\ task'["conn"] = task["conn"]
    BY DEF CoreInv, CoreTypeOK, HandInv, OneForeground, Running, Live
<1>3. Stage = 6 /\ Stage' = 3
    BY <1>2 DEF Stage
<1>4. ConnLeft' = ConnLeft /\ ConnLeft \in Nat
    BY <1>2, ConnKept
<1> QED
    BY <1>1, <1>3, <1>4 DEF Lower, Big

LEMMA ChunkLowers ==
    ASSUME CoreInv, pc = "poll", delivered' = delivered + 1,
           UNCHANGED <<pc, task, cur, curType, outbox, rcvd, netVars>>
    PROVE  Lower
<1>1. UnitsLeft' < UnitsLeft /\ UnitsLeft' \in Int /\ UnitsLeft \in Nat
    BY UnitsMoved DEF netVars
<1>2. Stage' = Stage /\ Stage \in Nat /\ ConnLeft' = ConnLeft /\ ConnLeft \in Nat
    BY StageKept, ConnKept
<1> QED
    BY <1>1, <1>2, UnitsLower

(* The two together as one number, next to what the program itself has not *)
(* put on the wire yet: n before the step, m after it.                     *)
LEMMA LowerSum ==
    ASSUME NEW b \in Int, NEW c \in Int, NEW s \in 0 .. 29, NEW t \in 0 .. 29,
           c < b \/ (c = b /\ t < s)
    PROVE  1 + 30 * c + t < 1 + 30 * b + s
OBVIOUS

LEMMA AddedToLower ==
    ASSUME NEW b \in Int, NEW c \in Int, NEW n \in Int, NEW m \in Int, m <= n
    PROVE  /\ c < b => c + m < b + n
           /\ c = b => c + m < b + n \/ c + m = b + n
OBVIOUS

LEMMA LessLeft ==
    ASSUME CoreInv, CoreInv', NEW n \in Nat, NEW m \in Nat,
           Big' + m < Big + n \/ (Lower /\ m <= n)
    PROVE  1 + 30 * (Big' + m) + Small' < 1 + 30 * (Big + n) + Small
<1>1. Big \in Nat /\ Big' \in Nat
    BY BigIsNat, BigStaysNat
<1>2. Big' + m < Big + n \/ (Big' + m = Big + n /\ Small' < Small)
    <2>1. CASE Lower /\ m <= n
        <3>1. Big \in Int /\ Big' \in Int /\ n \in Int /\ m \in Int
            BY <1>1
        <3>2. CASE Big' < Big
            BY <2>1, <3>1, <3>2, AddedToLower
        <3>3. CASE Big' = Big /\ Small' < Small
            BY <2>1, <3>1, <3>3, AddedToLower
        <3> QED
            BY <2>1, <3>2, <3>3 DEF Lower
    <2> QED
        BY <2>1
<1>3. Big + n \in Int /\ Big' + m \in Int
    BY <1>1
<1> QED
    BY <1>2, <1>3, SmallIsSmall, LowerSum

(* For the two programs that make the whole request at once.               *)
Unsent == IF pc = "start" \/ Live("handshake") THEN 2 * ReqUnits ELSE 0

StepsLeft == IF pc \in Exited THEN 0 ELSE 1 + 30 * (Big + Unsent) + Small

LEMMA UnsentIsNat == Unsent \in Nat /\ Unsent' \in Nat
BY UnitsAssumption DEF Unsent

LEMMA StepsLeftIsNat == CoreInv => StepsLeft \in Nat
<1> SUFFICES ASSUME CoreInv PROVE StepsLeft \in Nat
    OBVIOUS
<1>1. Big + Unsent \in Nat /\ Small \in Nat
    BY BigIsNat, UnsentIsNat, SmallIsSmall
<1> QED
    BY <1>1 DEF StepsLeft

LEMMA ExitsLeaveNothing ==
    ASSUME CoreInv, pc \notin Exited, pc' \in Exited
    PROVE  StepsLeft' < StepsLeft
<1>1. Big + Unsent \in Nat /\ Small \in Nat
    BY BigIsNat, UnsentIsNat, SmallIsSmall
<1> QED
    BY <1>1 DEF StepsLeft

LEMMA LowerLeavesLess ==
    ASSUME CoreInv, CoreInv', pc \notin Exited, Lower \/ pc' \in Exited,
           pc' = "start" \/ Live("handshake")' => pc = "start" \/ Live("handshake")
    PROVE  StepsLeft' < StepsLeft
<1>1. CASE pc' \in Exited
    BY <1>1, ExitsLeaveNothing
<1>2. CASE pc' \notin Exited
    <2>1. Unsent' <= Unsent
        BY UnitsAssumption DEF Unsent
    <2> QED
        BY <1>2, <2>1, UnsentIsNat, LessLeft DEF StepsLeft
<1> QED
    BY <1>1, <1>2

LEMMA Traded ==
    ASSUME NEW b \in Int, NEW c \in Int, NEW n \in Nat, NEW r \in Nat,
           c + 2 * n < b + 2 * r
    PROVE  c + 0 < b + 2 * r
OBVIOUS

(* The request is made.                                                    *)
LEMMA RequestLeavesLess ==
    ASSUME CoreInv, CoreInv', Handling("handshake", "CLIENTCONN"), TaskFree,
           task' = Wake([task EXCEPT !["send"] = "ready"], {"conn"}),
           outbox' = ReqUnits, UNCHANGED <<rcvd, delivered, netVars>>
    PROVE  StepsLeft' < StepsLeft
<1>1. Big' + 2 * outbox < Big + 2 * ReqUnits
    BY RequestLowers
<1>2. Unsent = 2 * ReqUnits /\ Unsent' = 0 /\ pc \notin Exited /\ pc' \notin Exited
    BY DEF Unsent, Handling, TaskFree, Live, Wake, Exited, CoreInv, CoreTypeOK,
           HandInv, Task, FgTask, NoTask
<1>3. Big \in Int /\ Big' \in Int
    BY BigIsNat, BigStaysNat
<1>4. outbox \in Nat /\ ReqUnits \in Nat
    BY UnitsAssumption DEF CoreInv, CoreTypeOK
<1>5. Big' + 0 < Big + 2 * ReqUnits
    BY <1>1, <1>3, <1>4, Traded
<1>6. Big' + Unsent' < Big + Unsent
    BY <1>2, <1>5
<1> QED
    BY <1>2, <1>6, UnsentIsNat, LessLeft DEF StepsLeft
==============================================================================
