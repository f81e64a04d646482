------------------------------ MODULE HyperConn ------------------------------
(***************************************************************************)
(* The core that the three HTTP clients of the repository share: the      *)
(* conn_data of client.c, the I/O callbacks hyper calls from inside a     *)
(* poll, the select() step that turns readiness into wakers, and, as the  *)
(* environment, hyper's executor with its background connection task, the *)
(* socket and the peer.  ClientC, GoClient and UploadC extend this module *)
(* with the handlers of their own event loop.                             *)
(*                                                                         *)
(* One process, one thread: the program runs until select() blocks it.   *)
(* Only the socket and the peer move on their own, between any two steps. *)
(***************************************************************************)
EXTENDS Naturals, FiniteSets

CONSTANTS
    Waker,      \* handles hyper_context_waker() may return
    NoWaker,    \* a NULL waker slot of conn_data
    ReqUnits,   \* writes it takes to put the request on the wire
    BodyUnits,  \* chunks of the response body
    TxCap       \* units the socket's send buffer holds

ASSUME WakerAssumption == NoWaker \notin Waker
ASSUME UnitsAssumption ==
    /\ ReqUnits \in Nat \ {0}
    /\ BodyUnits \in Nat
    /\ TxCap \in Nat \ {0}

Dir      == {"read", "write"}
FgTask   == {"handshake", "send", "body"}   \* tasks the program pushes
Task     == FgTask \cup {"conn"}            \* "conn": spawned by hyper
NoTask   == "none"
Resource == {"sock", "conn_data", "exec", "req", "resp_body", "file", "buf"}
Total    == BodyUnits + 1                   \* the head, then the chunks

VARIABLES
    pc,         \* where the program is
    task,       \* the executor's view of every task
    cur,        \* the finished task in the program's hands
    curType,    \* its hyper_task_type
    blockedOn,  \* directions that answered HYPER_IO_PENDING in this poll
    waker,      \* conn_data's read_waker and write_waker
    wakers,     \* waker handles allocated and not yet consumed
    fds,        \* directions handed to select()
    held,       \* resources allocated and not released
    outbox,     \* request units hyper still has to write
    txbuf,      \* units in the socket's send buffer
    got,        \* units the peer has received
    sent,       \* response units the peer has sent
    rcvd,       \* response units read_cb has handed to hyper
    delivered,  \* body chunks taken by the body task
    peer,       \* "open", "closed" (FIN sent) or "reset"
    fault       \* history: read() or write() has failed, and not with EAGAIN

hyperVars == <<task, cur, curType, blockedOn, outbox, rcvd, delivered>>
connVars  == <<waker, wakers, fds, held>>
netVars   == <<txbuf, got, sent, peer, fault>>
coreVars  == <<pc, hyperVars, connVars, netVars>>

Running == {"poll", "conn", "handle", "blocked"}
Exited  == {"exit0", "exit1"}

CoreTypeOK ==
    /\ pc \in {"start"} \cup Running \cup Exited
    /\ task \in [Task -> {"absent", "ready", "waiting"}]
    /\ cur \in Task \cup {NoTask}
    /\ curType \in {"EMPTY", "ERROR", "CLIENTCONN", "RESPONSE", "BUF"}
    /\ blockedOn \in SUBSET Dir
    /\ waker \in [Dir -> Waker \cup {NoWaker}]
    /\ wakers \in SUBSET Waker
    /\ fds \in SUBSET Dir
    /\ held \in SUBSET Resource
    /\ outbox \in Nat /\ txbuf \in 0 .. TxCap /\ got \in Nat
    /\ sent \in 0 .. Total /\ rcvd \in 0 .. Total /\ delivered \in 0 .. BodyUnits
    /\ peer \in {"open", "closed", "reset"} /\ fault \in BOOLEAN

CoreInit ==
    /\ pc = "start"
    /\ task = [t \in Task |-> "absent"]
    /\ cur = NoTask /\ curType = "EMPTY"
    /\ blockedOn = {} /\ fds = {} /\ wakers = {} /\ held = {}
    /\ waker = [d \in Dir |-> NoWaker]
    /\ outbox = 0 /\ txbuf = 0 /\ got = 0
    /\ sent = 0 /\ rcvd = 0 /\ delivered = 0
    /\ peer = "open" /\ fault = FALSE

-----------------------------------------------------------------------------
(* Setup: connect_to, fcntl, then conn_data, the executor and the         *)
(* handshake task.  A failing setup exits, whatever it has acquired by     *)
(* then still in its hands.                                                *)

SetupFails(acquired) ==
    /\ pc = "start" /\ pc' = "exit1"
    /\ held' = acquired
    /\ UNCHANGED <<hyperVars, waker, wakers, fds, netVars>>

SetupOk(acquired) ==
    /\ pc = "start" /\ pc' = "poll"
    /\ held' = acquired
    /\ waker' = [d \in Dir |-> NoWaker]
    /\ task' = [task EXCEPT !["handshake"] = "ready"]
    /\ UNCHANGED <<cur, curType, blockedOn, outbox, rcvd, delivered,
                   wakers, fds, netVars>>

-----------------------------------------------------------------------------
(* hyper's executor.  hyper_executor_poll runs ready tasks in any order    *)
(* until one finishes, which it returns, or none is ready.                 *)

Wake(tasks, S) ==
    [t \in Task |-> IF t \in S /\ tasks[t] = "waiting" THEN "ready" ELSE tasks[t]]

(* Task t finishes with a value of the given type and is handed over.      *)
Finish(t, type) ==
    /\ cur' = t /\ curType' = type
    /\ pc' = "handle"

Polling(t) == pc = "poll" /\ task[t] = "ready"

(* The handshake needs no I/O: it spawns the connection task, which has no *)
(* userdata, and yields the clientconn, or fails.                          *)
PollHandshake ==
    /\ Polling("handshake")
    /\ \/ /\ Finish("handshake", "CLIENTCONN")
          /\ task' = [task EXCEPT !["handshake"] = "absent", !["conn"] = "ready"]
       \/ /\ Finish("handshake", "ERROR")
          /\ task' = [task EXCEPT !["handshake"] = "absent"]
    /\ UNCHANGED <<blockedOn, outbox, rcvd, delivered, connVars, netVars>>

(* The send task waits for the response head; a connection that is gone    *)
(* before the head was read makes it fail.                                 *)
PollSend ==
    /\ Polling("send")
    /\ \/ /\ rcvd >= 1
          /\ Finish("send", "RESPONSE")
          /\ task' = [task EXCEPT !["send"] = "absent"]
       \/ /\ rcvd = 0 /\ task["conn"] = "absent"
          /\ Finish("send", "ERROR")
          /\ task' = [task EXCEPT !["send"] = "absent"]
       \/ /\ rcvd = 0 /\ task["conn"] # "absent"
          /\ task' = [task EXCEPT !["send"] = "waiting"]
          /\ UNCHANGED <<pc, cur, curType>>
    /\ UNCHANGED <<blockedOn, outbox, rcvd, delivered, connVars, netVars>>

(* Chunks hyper has read and the body task has not taken yet.              *)
Buffered == IF rcvd = 0 THEN 0 ELSE rcvd - 1 - delivered

BodyFinish(type) ==
    /\ Finish("body", type)
    /\ task' = [task EXCEPT !["body"] = "absent"]

(* A body task that finds no chunk: it ends, fails because the connection  *)
(* is gone in the middle of the message, or waits and asks for more.       *)
BodyDry ==
    /\ Polling("body") /\ Buffered = 0
    /\ \/ rcvd = Total /\ BodyFinish("EMPTY")
       \/ rcvd < Total /\ task["conn"] = "absent" /\ BodyFinish("ERROR")
       \/ /\ rcvd < Total /\ task["conn"] # "absent"
          /\ task' = Wake([task EXCEPT !["body"] = "waiting"], {"conn"})
          /\ UNCHANGED <<pc, cur, curType>>
    /\ UNCHANGED <<blockedOn, outbox, rcvd, delivered, connVars, netVars>>

PollConn ==
    /\ Polling("conn")
    /\ pc' = "conn" /\ blockedOn' = {}
    /\ UNCHANGED <<task, cur, curType, outbox, rcvd, delivered, connVars, netVars>>

(* hyper reads for the head, for a chunk somebody waits for, and, once the *)
(* message is complete, for the peer's end of stream.                      *)
WantsRead  == rcvd = 0 \/ rcvd = Total \/ (Buffered = 0 /\ task["body"] = "waiting")
WantsWrite == outbox > 0

(* The connection future resolves, whatever the reason, to an EMPTY task;  *)
(* whoever waited for it must now find out.                                *)
ConnEnds ==
    /\ Finish("conn", "EMPTY")
    /\ task' = Wake([task EXCEPT !["conn"] = "absent"], FgTask)
    /\ UNCHANGED <<blockedOn, outbox, rcvd, delivered, connVars, txbuf, got, sent, peer>>

(* The exchange is complete and the client handle was freed: hyper shuts   *)
(* the connection task down.                                               *)
ConnDone ==
    /\ pc = "conn" /\ rcvd = Total /\ outbox = 0
    /\ ConnEnds /\ UNCHANGED fault

ConnYield ==
    /\ pc = "conn"
    /\ WantsRead => "read" \in blockedOn
    /\ WantsWrite => "write" \in blockedOn
    /\ pc' = "poll"
    /\ task' = [task EXCEPT !["conn"] = "waiting"]
    /\ UNCHANGED <<cur, curType, blockedOn, outbox, rcvd, delivered, connVars, netVars>>

-----------------------------------------------------------------------------
(* The I/O callbacks of the program, called while "conn" is being polled.  *)

(* Faulty variant: the handle already in the slot is not freed.            *)
Register_KeepsOld(d) ==
    \E w \in Waker \ wakers :
       /\ waker' = [waker EXCEPT ![d] = w]
       /\ wakers' = wakers \cup {w}

(* "would block, register interest": drop the old handle, keep a new one.  *)
Register(d) ==
    LET kept == IF waker[d] # NoWaker THEN wakers \ {waker[d]} ELSE wakers
    IN  \E w \in Waker \ kept :
           /\ waker' = [waker EXCEPT ![d] = w]
           /\ wakers' = kept \cup {w}

(* What HYPER_IO_PENDING from direction d leaves behind.                   *)
Pending(d) ==
    /\ Register(d)
    /\ blockedOn' = blockedOn \cup {d}
    /\ UNCHANGED <<pc, task, cur, curType, outbox, rcvd, delivered, fds, held, netVars>>

(* read() returned data: a unit reaches hyper, which hands the head to the *)
(* send task and a chunk to the body task.                                 *)
ReadData ==
    /\ sent > rcvd
    /\ rcvd' = rcvd + 1
    /\ task' = Wake(task, IF rcvd = 0 THEN {"send"} ELSE {"body"})
    /\ UNCHANGED <<pc, cur, curType, blockedOn, outbox, delivered, connVars, netVars>>

(* read() returned 0: the peer has closed and all it sent is read.         *)
ReadEnds ==
    /\ peer = "closed" /\ sent = rcvd
    /\ ConnEnds /\ UNCHANGED fault

(* read() failed with something else than EAGAIN, which makes read_cb      *)
(* return HYPER_IO_ERROR: the connection was reset, or, whatever the peer  *)
(* does, EINTR, ENOMEM, ETIMEDOUT and their like.                          *)
ReadFails == ConnEnds /\ fault' = TRUE

(* Faulty variant: EAGAIN is reported to hyper as an end of stream.        *)
ReadBlocks_AsEnd ==
    /\ peer = "open" /\ sent = rcvd
    /\ ConnEnds /\ UNCHANGED fault

ReadBlocks ==
    /\ peer = "open" /\ sent = rcvd
    /\ Pending("read")

read_cb ==
    /\ pc = "conn" /\ WantsRead /\ "read" \notin blockedOn
    /\ ReadData \/ ReadEnds \/ ReadFails \/ ReadBlocks

WriteData ==
    /\ peer # "reset" /\ txbuf < TxCap
    /\ outbox' = outbox - 1 /\ txbuf' = txbuf + 1
    /\ UNCHANGED <<pc, task, cur, curType, blockedOn, rcvd, delivered,
                   connVars, got, sent, peer, fault>>

(* write() failed with something else than EAGAIN, which may be any time:  *)
(* HYPER_IO_ERROR for hyper; or, on a reset socket, SIGPIPE, which none of *)
(* the programs ignores, for the process.                                  *)
WriteFails ==
    \/ ConnEnds /\ fault' = TRUE
    \/ /\ peer = "reset" /\ pc' = "exit1"
       /\ UNCHANGED <<hyperVars, connVars, netVars>>

(* Faulty variant: EAGAIN is taken for a completed write.                  *)
WriteBlocks_AsWritten ==
    /\ peer # "reset" /\ txbuf = TxCap
    /\ outbox' = outbox - 1
    /\ UNCHANGED <<pc, task, cur, curType, blockedOn, rcvd, delivered,
                   connVars, netVars>>

WriteBlocks ==
    /\ peer # "reset" /\ txbuf = TxCap
    /\ Pending("write")

write_cb ==
    /\ pc = "conn" /\ WantsWrite /\ "write" \notin blockedOn
    /\ WriteData \/ WriteFails \/ WriteBlocks

-----------------------------------------------------------------------------
(* select(): the loop found no ready task.                                 *)

(* Faulty variant: the write set is not filled in.                         *)
EnterSelect_ReadOnly ==
    /\ pc = "poll"
    /\ \A t \in Task : task[t] # "ready"
    /\ fds' = {d \in Dir : waker[d] # NoWaker} \ {"write"}
    /\ pc' = "blocked"
    /\ UNCHANGED <<hyperVars, waker, wakers, held, netVars>>

EnterSelect ==
    /\ pc = "poll"
    /\ \A t \in Task : task[t] # "ready"
    /\ fds' = {d \in Dir : waker[d] # NoWaker}
    /\ pc' = "blocked"
    /\ UNCHANGED <<hyperVars, waker, wakers, held, netVars>>

Ready(d) ==
    \/ d = "read"  /\ (sent > rcvd \/ peer # "open")
    \/ d = "write" /\ (txbuf < TxCap \/ peer = "reset")

ReadyFds == {d \in fds : Ready(d)}

(* Faulty variants: the wakers are dropped instead of woken; the consumed  *)
(* handles stay in their slots; the sets select() returns are not tested.  *)
SelectReturns_NoWake ==
    /\ pc = "blocked" /\ ReadyFds # {}
    /\ wakers' = wakers \ {waker[d] : d \in ReadyFds}
    /\ waker' = [d \in Dir |-> IF d \in ReadyFds THEN NoWaker ELSE waker[d]]
    /\ fds' = {} /\ pc' = "poll"
    /\ UNCHANGED <<hyperVars, held, netVars>>

SelectReturns_Untested ==
    /\ pc = "blocked" /\ ReadyFds # {}
    /\ fds' = {} /\ pc' = "poll"
    /\ UNCHANGED <<hyperVars, waker, wakers, held, netVars>>

SelectReturns_Stale ==
    /\ pc = "blocked" /\ ReadyFds # {}
    /\ wakers' = wakers \ {waker[d] : d \in ReadyFds}
    /\ task' = Wake(task, {"conn"})
    /\ fds' = {} /\ pc' = "poll"
    /\ UNCHANGED <<waker, cur, curType, blockedOn, outbox, rcvd, delivered, held,
                   netVars>>

(* The ready descriptors' wakers are consumed by hyper_waker_wake and      *)
(* their slots cleared; every one of them wakes the connection task.       *)
SelectReturns ==
    /\ pc = "blocked" /\ ReadyFds # {}
    /\ wakers' = wakers \ {waker[d] : d \in ReadyFds}
    /\ waker' = [d \in Dir |-> IF d \in ReadyFds THEN NoWaker ELSE waker[d]]
    /\ task' = Wake(task, {"conn"})
    /\ fds' = {}
    /\ pc' = "poll"
    /\ UNCHANGED <<cur, curType, blockedOn, outbox, rcvd, delivered, held, netVars>>

(* select() < 0: a signal is enough, EINTR is not told apart.              *)
SelectFails ==
    /\ pc = "blocked" /\ pc' = "exit1"
    /\ UNCHANGED <<hyperVars, connVars, netVars>>

-----------------------------------------------------------------------------
(* Steps of the handlers that the programs share.                          *)

Handling(t, type) == pc = "handle" /\ cur = t /\ curType = type

(* hyper_task_free, and on to the next poll.                               *)
TaskFree == cur' = NoTask /\ pc' = "poll"

(* Every program gives up on an error task: it returns 1 or panics.        *)
GiveUp(t) ==
    /\ Handling(t, "ERROR")
    /\ pc' = "exit1"
    /\ UNCHANGED <<hyperVars, connVars, netVars>>

(* EXAMPLE_NOT_SET: a background task for hyper completed.                 *)
NotSet ==
    /\ Handling("conn", "EMPTY")
    /\ TaskFree
    /\ UNCHANGED <<task, curType, blockedOn, outbox, rcvd, delivered, connVars, netVars>>

(* Faulty variant: the write waker is forgotten.                           *)
free_conn_data_ReadOnly ==
    /\ wakers' = wakers \ {waker["read"]}
    /\ waker' = [d \in Dir |-> NoWaker]

(* free_conn_data: both wakers are freed when set, then the struct.        *)
free_conn_data ==
    /\ wakers' = wakers \ {waker[d] : d \in Dir}
    /\ waker' = [d \in Dir |-> NoWaker]

-----------------------------------------------------------------------------
(* The kernel and the peer.                                                *)

PeerRecv ==
    /\ txbuf > 0 /\ peer = "open"
    /\ txbuf' = txbuf - 1 /\ got' = got + 1
    /\ UNCHANGED <<pc, hyperVars, connVars, sent, peer, fault>>

(* A server may answer before it has read the whole request.               *)
PeerSend ==
    /\ peer = "open" /\ got >= 1 /\ sent < Total
    /\ sent' = sent + 1
    /\ UNCHANGED <<pc, hyperVars, connVars, txbuf, got, peer, fault>>

PeerClose ==
    /\ peer = "open" /\ peer' = "closed"
    /\ UNCHANGED <<pc, hyperVars, connVars, txbuf, got, sent, fault>>

PeerReset ==
    /\ peer # "reset" /\ peer' = "reset"
    /\ UNCHANGED <<pc, hyperVars, connVars, txbuf, got, sent, fault>>

Peer == PeerRecv \/ PeerSend \/ PeerClose \/ PeerReset

-----------------------------------------------------------------------------
(* What every program of this kind must keep, and the named parts of the   *)
(* invariant that keeps it.                                                *)

(* No waker is leaked, freed twice or left dangling: the handles alive are *)
(* exactly those in conn_data's two slots, and no handle is in both        *)
(* (client.c 36-41, 57-62, 66-73, 311-320).                                *)
WakersAccounted ==
    /\ \A w \in Waker : w \in wakers <=> w \in {waker["read"], waker["write"]}
    /\ waker["read"] = waker["write"] => waker["read"] = NoWaker

(* select() is only entered with everything registered that the program    *)
(* must be woken for: the connection task is there to be woken, the socket *)
(* is watched for reading, and for writing as long as hyper has something  *)
(* to write (client.c 303-308).                                            *)
NoLostWakeup ==
    pc = "blocked" =>
        /\ task["conn"] = "waiting"
        /\ "read" \in fds
        /\ outbox > 0 => "write" \in fds

(* A task is in the executor or in the program's hands.                    *)
Live(t) == task[t] # "absent" \/ cur = t

HandInv ==
    /\ pc \in {"start", "poll", "conn", "blocked", "exit0"} => cur = NoTask
    /\ pc = "handle" => cur \in Task /\ task[cur] = "absent"
    /\ pc = "start" => /\ \A t \in Task : task[t] = "absent"
                       /\ \A d \in Dir : waker[d] = NoWaker

(* Between setup and exit the program follows exactly one task of its own. *)
OneForeground ==
    pc \in Running =>
        \E t \in FgTask : Live(t) /\ \A u \in FgTask : Live(u) => u = t

(* What each state of a foreground task says of the data it waits for.     *)
TaskInv ==
    /\ task["handshake"] # "waiting"
    /\ Handling("handshake", "CLIENTCONN") => task["conn"] = "ready"
    /\ (task["body"] # "absent" \/ Handling("send", "RESPONSE")) => rcvd >= 1
    /\ task["send"] = "waiting" => rcvd = 0 /\ task["conn"] # "absent"
    /\ task["body"] = "waiting" =>
          Buffered = 0 /\ rcvd < Total /\ task["conn"] # "absent"
    /\ Handling("body", "EMPTY") => delivered = BodyUnits

(* A sleeping connection task has registered for all it wants.             *)
ConnInv ==
    /\ pc = "conn" => /\ task["conn"] = "ready"
                      /\ \A d \in blockedOn : waker[d] # NoWaker
    /\ (pc \in Running /\ task["conn"] = "waiting") =>
          /\ WantsRead => waker["read"] # NoWaker
          /\ WantsWrite => waker["write"] # NoWaker
    /\ pc = "blocked" => /\ \A t \in Task : task[t] # "ready"
                         /\ \A d \in Dir : waker[d] # NoWaker <=> d \in fds

CoreInv ==
    /\ CoreTypeOK /\ WakersAccounted /\ HandInv /\ OneForeground
    /\ TaskInv /\ ConnInv

(* The phase of the HTTP exchange the program is in.                       *)
phase ==
    CASE pc = "exit0" -> "complete"
      [] pc = "exit1" -> "failed"
      [] pc \notin Exited /\ Live("body") -> "receiving"
      [] pc \notin Exited /\ Live("send") -> "awaiting"
      [] OTHER -> "connecting"
==============================================================================
