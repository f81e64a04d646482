------------------------------- MODULE ClientC -------------------------------
(***************************************************************************)
(* lib/rust/hyper/examples/client.c: a GET request driven by one           *)
(* poll/select loop.  The body is consumed by a single foreach task whose *)
(* callback, print_each_chunk, runs inside hyper_executor_poll.            *)
(***************************************************************************)
EXTENDS HyperConn

vars == coreVars

TypeOK == CoreTypeOK

-----------------------------------------------------------------------------
(* The handlers of the loop's switch statement.                            *)

(* The request is made and queued for the connection task; the client      *)
(* handle is freed.                                                        *)
HandshakeDone ==
    /\ Handling("handshake", "CLIENTCONN")
    /\ TaskFree
    /\ task' = Wake([task EXCEPT !["send"] = "ready"], {"conn"})
    /\ outbox' = ReqUnits
    /\ UNCHANGED <<curType, blockedOn, rcvd, delivered, connVars, netVars>>

(* hyper refuses the URI given on the command line.                        *)
BadRequest ==
    /\ Handling("handshake", "CLIENTCONN")
    /\ pc' = "exit1" /\ cur' = NoTask
    /\ UNCHANGED <<task, curType, blockedOn, outbox, rcvd, delivered, connVars, netVars>>

SendDone ==
    /\ Handling("send", "RESPONSE")
    /\ TaskFree
    /\ task' = [task EXCEPT !["body"] = "ready"]
    /\ UNCHANGED <<curType, blockedOn, outbox, rcvd, delivered, connVars, netVars>>

(* Faulty variant: the type of the finished body task is not looked at.    *)
BodyDone_AnyType ==
    /\ pc = "handle" /\ cur = "body"
    /\ cur' = NoTask /\ pc' = "exit0"
    /\ task' = [t \in Task |-> "absent"]
    /\ free_conn_data
    /\ held' = held \ {"exec", "conn_data"}
    /\ UNCHANGED <<curType, blockedOn, fds, outbox, rcvd, delivered, netVars>>

(* Cleaning up before exiting: freeing the executor drops its tasks.       *)
BodyDone ==
    /\ Handling("body", "EMPTY")
    /\ cur' = NoTask /\ pc' = "exit0"
    /\ task' = [t \in Task |-> "absent"]
    /\ free_conn_data
    /\ held' = held \ {"exec", "conn_data"}
    /\ UNCHANGED <<curType, blockedOn, fds, outbox, rcvd, delivered, netVars>>

(* Faulty variant: the callback runs on a chunk that was not received.     *)
print_each_chunk_Early ==
    /\ Polling("body")
    /\ delivered' = delivered + 1
    /\ UNCHANGED <<pc, task, cur, curType, blockedOn, outbox, rcvd, connVars, netVars>>

(* hyper_body_foreach calls print_each_chunk, which always continues.      *)
print_each_chunk ==
    /\ Polling("body") /\ Buffered > 0
    /\ delivered' = delivered + 1
    /\ UNCHANGED <<pc, task, cur, curType, blockedOn, outbox, rcvd, connVars, netVars>>

-----------------------------------------------------------------------------
(* connect_to fails, or fcntl does; or the loop is entered.                *)
Setup    == \/ SetupFails({}) \/ SetupFails({"sock"})
            \/ SetupOk({"sock", "conn_data", "exec"})
PollTask == PollHandshake \/ PollSend \/ print_each_chunk \/ BodyDry \/ PollConn
PollIO   == read_cb \/ write_cb \/ ConnYield \/ ConnDone
Handle   == \/ HandshakeDone \/ BadRequest \/ SendDone \/ BodyDone \/ NotSet
            \/ \E t \in FgTask : GiveUp(t)
Select   == EnterSelect \/ SelectReturns

(* What the process does without help from a signal.                       *)
Program == Setup \/ PollTask \/ PollIO \/ Handle \/ Select

Terminated == pc \in Exited /\ UNCHANGED vars

Next == \/ Program
        \/ SelectFails
        \/ pc \notin Exited /\ Peer
        \/ Terminated

Init == CoreInit

(* The process keeps running, and an open peer keeps reading and writing.  *)
Fairness == WF_vars(Program) /\ WF_vars(PeerRecv) /\ WF_vars(PeerSend)

SafeSpec == Init /\ [][Next]_vars
Spec     == SafeSpec /\ Fairness

-----------------------------------------------------------------------------
(* return 0 (289) means that the whole body was printed and that only the  *)
(* socket is left to the operating system.                                 *)
CleanExit ==
    pc = "exit0" =>
        /\ delivered = BodyUnits
        /\ wakers = {}
        /\ held = {"sock"}
        /\ cur = NoTask

(* A send or body task errs only because the peer has gone or a call on    *)
(* the socket has failed: EAGAIN, however often, is never taken for either *)
(* (29-33, 50-54), and the connection task is not given up while the       *)
(* exchange is going on (241-245, 273-277, 290-293).                       *)
ErrorsHaveACause ==
    (cur \in {"send", "body"} /\ curType = "ERROR") => (peer # "open" \/ fault)

(* The connection task is gone before the end only for the same reasons.   *)
CauseInv ==
    (pc \in Running /\ task["conn"] = "absent" /\ rcvd < Total
        /\ (Live("send") \/ Live("body"))) => (peer # "open" \/ fault)

HeldInv == pc \in Running => held = {"sock", "conn_data", "exec"}

(* The inductive invariant.                                                *)
IInv == CoreInv /\ CauseInv /\ HeldInv /\ CleanExit /\ ErrorsHaveACause

Exchange == INSTANCE HttpExchange WITH body <- delivered

(* The loop implements the abstract exchange: a truncated body is never    *)
(* taken for a complete one, and, with a fair peer, the exchange ends.     *)
ImplementsExchange == Exchange!Spec

(* With a peer that keeps reading and answering, or goes away, the program *)
(* does not stay in its event loop for ever.                               *)
Terminates == <>(pc \in Exited)
==============================================================================
