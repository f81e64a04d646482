------------------------------- MODULE GoClient -------------------------------
(***************************************************************************)
(* rust/hyper/_demo/hyper_client/hyper.go: the GET client in Go.  It is    *)
(* the loop of client.c with three differences: select() is given ten      *)
(* seconds each time it is called, the body is gathered into one malloc'd  *)
(* buffer instead of printed, and every failure is a panic.  Get is a      *)
(* function: what it still holds when it returns is out of reach.          *)
(***************************************************************************)
EXTENDS HyperConn

CONSTANT Timeout        \* ticks of the timeval handed to select()

ASSUME TimeoutAssumption == Timeout \in Nat \ {0}

VARIABLES
    waited,     \* ticks spent in the current select()
    elapsed,    \* ticks spent in all of them
    bodyLen,    \* response.ResponseBodyLen, in chunks
    bufs        \* response buffers malloc'd and not freed

goVars == <<waited, elapsed, bodyLen, bufs>>
vars   == <<coreVars, goVars>>

TypeOK ==
    /\ CoreTypeOK
    /\ waited \in 0 .. Timeout /\ elapsed \in Nat
    /\ bodyLen \in 0 .. BodyUnits /\ bufs \in Nat

-----------------------------------------------------------------------------
(* Faulty variants: the old buffer is not freed; the length is added to    *)
(* before and after the copy.                                              *)
AppendChunk_Leaks ==
    /\ Polling("body") /\ Buffered > 0
    /\ delivered' = delivered + 1
    /\ bodyLen' = bodyLen + 1 /\ bufs' = bufs + 1
    /\ UNCHANGED <<pc, task, cur, curType, blockedOn, outbox, rcvd,
                   connVars, netVars, waited, elapsed>>

AppendChunk_Twice ==
    /\ Polling("body") /\ Buffered > 0
    /\ delivered' = delivered + 1
    /\ bodyLen' = bodyLen + 2
    /\ bufs' = bufs + 1 - (IF bodyLen > 0 THEN 1 ELSE 0)
    /\ UNCHANGED <<pc, task, cur, curType, blockedOn, outbox, rcvd,
                   connVars, netVars, waited, elapsed>>

(* AppendToResponseBody: a new buffer of the old length plus the chunk's;  *)
(* when there is an old one it is copied and freed.                        *)
AppendChunk ==
    /\ Polling("body") /\ Buffered > 0
    /\ delivered' = delivered + 1
    /\ bodyLen' = bodyLen + 1
    /\ bufs' = bufs + 1 - (IF bodyLen > 0 THEN 1 ELSE 0)
    /\ UNCHANGED <<pc, task, cur, curType, blockedOn, outbox, rcvd,
                   connVars, netVars, waited, elapsed>>

(* Faulty variant: the chunk is dropped and the iteration continued.       *)
AppendFails_Continues ==
    /\ Polling("body") /\ Buffered > 0
    /\ delivered' = delivered + 1
    /\ UNCHANGED <<pc, task, cur, curType, blockedOn, outbox, rcvd, connVars,
                   netVars, goVars>>

(* malloc fails: IterBreak makes the foreach task fail.                    *)
AppendFails ==
    /\ Polling("body") /\ Buffered > 0
    /\ delivered' = delivered + 1
    /\ BodyFinish("ERROR")
    /\ UNCHANGED <<blockedOn, outbox, rcvd, connVars, netVars, goVars>>

AppendToResponseBody == AppendChunk \/ AppendFails

ReadCallBack  == read_cb  /\ UNCHANGED goVars
WriteCallBack == write_cb /\ UNCHANGED goVars

-----------------------------------------------------------------------------
(* The handlers of Get.                                                    *)

(* The request is made first; a bad one panics before the socket exists,   *)
(* as ConnectTo does, which panics with the socket open when fcntl fails.  *)
Setup ==
    /\ \/ SetupFails({"req"}) \/ SetupFails({"req", "sock"})
       \/ SetupOk({"req", "sock", "exec"})
    /\ UNCHANGED goVars

(* client.Send consumes the request.                                       *)
HandshakeDone ==
    /\ Handling("handshake", "CLIENTCONN")
    /\ TaskFree
    /\ task' = Wake([task EXCEPT !["send"] = "ready"], {"conn"})
    /\ outbox' = ReqUnits
    /\ held' = held \ {"req"}
    /\ UNCHANGED <<curType, blockedOn, rcvd, delivered, waker, wakers, fds,
                   netVars, goVars>>

(* A send task that the executor does not take panics.                     *)
PushFails ==
    /\ Handling("handshake", "CLIENTCONN")
    /\ pc' = "exit1" /\ cur' = NoTask
    /\ held' = held \ {"req"}
    /\ UNCHANGED <<task, curType, blockedOn, outbox, rcvd, delivered, waker,
                   wakers, fds, netVars, goVars>>

SendDone ==
    /\ Handling("send", "RESPONSE")
    /\ TaskFree
    /\ task' = [task EXCEPT !["body"] = "ready"]
    /\ UNCHANGED <<curType, blockedOn, outbox, rcvd, delivered, connVars,
                   netVars, goVars>>

(* Cleaning up before exiting, and return &response.                       *)
BodyDone ==
    /\ Handling("body", "EMPTY")
    /\ cur' = NoTask /\ pc' = "exit0"
    /\ task' = [t \in Task |-> "absent"]
    /\ free_conn_data
    /\ held' = held \ {"exec"}
    /\ UNCHANGED <<curType, blockedOn, fds, outbox, rcvd, delivered, netVars, goVars>>

(* fail(err) panics on an error.                                           *)
Fail == (\E t \in FgTask : GiveUp(t)) /\ UNCHANGED goVars

-----------------------------------------------------------------------------
(* select() with a timeval that is set again on every turn of the loop.    *)

SelectStart == EnterSelect /\ waited' = 0 /\ UNCHANGED <<elapsed, bodyLen, bufs>>
SelectReady == SelectReturns /\ UNCHANGED goVars
SelectError == SelectFails /\ UNCHANGED goVars

(* select() == 0 panics.                                                   *)
SelectTimeout ==
    /\ pc = "blocked" /\ ReadyFds = {} /\ waited = Timeout
    /\ pc' = "exit1"
    /\ UNCHANGED <<hyperVars, connVars, netVars, goVars>>

(* Time passes while the process sleeps in select().                       *)
Tick ==
    /\ pc = "blocked" /\ ReadyFds = {} /\ waited < Timeout
    /\ waited' = waited + 1 /\ elapsed' = elapsed + 1
    /\ UNCHANGED <<coreVars, bodyLen, bufs>>

-----------------------------------------------------------------------------
Executor == /\ PollHandshake \/ PollSend \/ BodyDry \/ PollConn
               \/ ConnYield \/ ConnDone \/ NotSet
            /\ UNCHANGED goVars
Loop     == \/ Setup \/ Executor \/ ReadCallBack \/ WriteCallBack
            \/ AppendToResponseBody
            \/ HandshakeDone \/ PushFails \/ SendDone \/ BodyDone \/ Fail
            \/ SelectStart \/ SelectReady \/ SelectTimeout

Terminated == pc \in Exited /\ UNCHANGED vars

Next == \/ Loop
        \/ Tick
        \/ SelectError
        \/ pc \notin Exited /\ Peer /\ UNCHANGED goVars
        \/ Terminated

Init == CoreInit /\ waited = 0 /\ elapsed = 0 /\ bodyLen = 0 /\ bufs = 0

(* The process runs and the clock ticks; nothing is asked of the peer.     *)
Fairness == WF_vars(Loop) /\ WF_vars(Tick)

SafeSpec == Init /\ [][Next]_vars
Spec     == SafeSpec /\ Fairness

-----------------------------------------------------------------------------
(* What Get returns (171) is the whole body, in the one buffer that is     *)
(* still allocated, and no task or waker is left.                          *)
ReturnsWholeBody ==
    pc = "exit0" =>
        /\ bodyLen = BodyUnits
        /\ bufs = (IF BodyUnits = 0 THEN 0 ELSE 1)
        /\ wakers = {} /\ cur = NoTask
        /\ held \cap {"req", "exec"} = {}

(* Ten silent seconds (193-200) are needed on each of its calls: all the   *)
(* time the program spends asleep is paid for by units written, units      *)
(* read, and a last wait that nothing ends.                                *)
SleepPaidByProgress ==
    elapsed <= Timeout * (ReqUnits - outbox + rcvd + 1)

(* Whatever the peer does or leaves undone, Get returns or panics.         *)
Terminates == <>(pc \in Exited)

Exchange == INSTANCE HttpExchange WITH body <- bodyLen

(* Get implements the abstract exchange, the length of the gathered body   *)
(* standing for the body.                                                  *)
ImplementsExchange == Exchange!Spec
==============================================================================
