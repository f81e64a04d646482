------------------------------- MODULE UploadC -------------------------------
(***************************************************************************)
(* lib/rust/hyper/examples/upload.c: a POST whose body is read from a file *)
(* by a callback while the connection task is polled, and a response whose *)
(* body is peeled one chunk, and one task, at a time.                      *)
(*                                                                         *)
(* The first request unit is the head, the others are reads of the file.   *)
(***************************************************************************)
EXTENDS HyperConn

VARIABLES
    fileLeft,   \* reads the file still has data for
    reqBody     \* the request body: "unset", "open", or "done"

upVars == <<fileLeft, reqBody>>
vars   == <<coreVars, upVars>>

TypeOK ==
    /\ CoreTypeOK
    /\ fileLeft \in 0 .. ReqUnits - 1
    /\ reqBody \in {"unset", "open", "done"}

-----------------------------------------------------------------------------
(* hyper asks for the next piece of the request body once it has written   *)
(* what it had; the callback copies what read() gave into a hyper_buf, so  *)
(* upload.buf may be reused at once.                                       *)
poll_req_upload ==
    /\ pc = "conn" /\ reqBody = "open" /\ outbox = 0
    /\ \/ /\ fileLeft > 0
          /\ fileLeft' = fileLeft - 1 /\ outbox' = 1
          /\ UNCHANGED <<pc, task, cur, curType, blockedOn, rcvd, delivered,
                         connVars, netVars, reqBody>>
       \/ /\ fileLeft = 0
          /\ reqBody' = "done"
          /\ UNCHANGED <<coreVars, fileLeft>>
       \/ ConnEnds /\ UNCHANGED <<fault, upVars>>   \* HYPER_POLL_ERROR

(* The connection task has nothing left to do in this poll only when the   *)
(* request body does not wait to be asked either.                          *)
Yield ==
    /\ \/ ConnYield /\ (reqBody = "open" => outbox > 0)
       \/ ConnDone /\ reqBody = "done"
    /\ UNCHANGED upVars

-----------------------------------------------------------------------------
(* The handlers of the loop.                                               *)

HandshakeDone ==
    /\ Handling("handshake", "CLIENTCONN")
    /\ TaskFree
    /\ task' = Wake([task EXCEPT !["send"] = "ready"], {"conn"})
    /\ outbox' = 1 /\ reqBody' = "open"
    /\ UNCHANGED <<curType, blockedOn, rcvd, delivered, connVars, netVars, fileLeft>>

BadRequest ==
    /\ Handling("handshake", "CLIENTCONN")
    /\ pc' = "exit1" /\ cur' = NoTask
    /\ UNCHANGED <<task, curType, blockedOn, outbox, rcvd, delivered, connVars,
                   netVars, upVars>>

(* The response is freed, its body is kept.                                *)
SendDone ==
    /\ Handling("send", "RESPONSE")
    /\ TaskFree
    /\ task' = [task EXCEPT !["body"] = "ready"]
    /\ held' = held \cup {"resp_body"}
    /\ UNCHANGED <<curType, blockedOn, outbox, rcvd, delivered, waker, wakers,
                   fds, netVars, upVars>>

(* Faulty variant: the task resolves with a chunk that was not received.   *)
PollData_Early ==
    /\ Polling("body")
    /\ delivered' = delivered + 1
    /\ BodyFinish("BUF")
    /\ UNCHANGED <<blockedOn, outbox, rcvd, connVars, netVars, upVars>>

(* hyper_body_data resolves with a chunk.                                  *)
PollData ==
    /\ Polling("body") /\ Buffered > 0
    /\ delivered' = delivered + 1
    /\ BodyFinish("BUF")
    /\ UNCHANGED <<blockedOn, outbox, rcvd, connVars, netVars, upVars>>

(* Faulty variants: the response body is freed with its first chunk; the   *)
(* first chunk is taken for the last.                                      *)
ChunkDone_FreesBody ==
    /\ Handling("body", "BUF")
    /\ TaskFree
    /\ task' = [task EXCEPT !["body"] = "ready"]
    /\ held' = held \ {"resp_body"}
    /\ UNCHANGED <<curType, blockedOn, outbox, rcvd, delivered, waker, wakers,
                   fds, netVars, upVars>>

ChunkDone_Exits ==
    /\ Handling("body", "BUF")
    /\ cur' = NoTask /\ pc' = "exit0"
    /\ UNCHANGED <<task, curType, blockedOn, outbox, rcvd, delivered, connVars,
                   netVars, upVars>>

(* The chunk is printed and freed, and a new data task is pushed.          *)
ChunkDone ==
    /\ Handling("body", "BUF")
    /\ TaskFree
    /\ task' = [task EXCEPT !["body"] = "ready"]
    /\ UNCHANGED <<curType, blockedOn, outbox, rcvd, delivered, connVars,
                   netVars, upVars>>

(* Faulty variant: the response body is not freed.                         *)
BodyDone_KeepsBody ==
    /\ Handling("body", "EMPTY")
    /\ cur' = NoTask /\ pc' = "exit0"
    /\ task' = [t \in Task |-> "absent"]
    /\ free_conn_data
    /\ held' = held \ {"exec", "conn_data", "buf"}
    /\ UNCHANGED <<curType, blockedOn, fds, outbox, rcvd, delivered, netVars, upVars>>

(* Cleaning up before exiting: task, body, executor, conn, upload.buf.     *)
BodyDone ==
    /\ Handling("body", "EMPTY")
    /\ cur' = NoTask /\ pc' = "exit0"
    /\ task' = [t \in Task |-> "absent"]
    /\ free_conn_data
    /\ held' = held \ {"resp_body", "exec", "conn_data", "buf"}
    /\ UNCHANGED <<curType, blockedOn, fds, outbox, rcvd, delivered, netVars, upVars>>

-----------------------------------------------------------------------------
(* The file is opened before the connection is tried, the buffer allocated *)
(* after it.                                                               *)
Setup ==
    /\ \/ SetupFails({}) \/ SetupFails({"file"}) \/ SetupFails({"file", "sock"})
       \/ SetupOk({"file", "sock", "buf", "conn_data", "exec"})
    /\ UNCHANGED upVars

(* conn_data's callbacks, the executor's other steps, the select() step    *)
(* and the error exits are those of client.c.                              *)
Callbacks == (read_cb \/ write_cb) /\ UNCHANGED upVars
Executor  == /\ PollHandshake \/ PollSend \/ BodyDry \/ PollConn \/ NotSet
             /\ UNCHANGED upVars
Select    == (EnterSelect \/ SelectReturns) /\ UNCHANGED upVars
Fail      == (\E t \in FgTask : GiveUp(t)) /\ UNCHANGED upVars

Program == \/ Setup \/ Executor \/ Callbacks \/ poll_req_upload \/ Yield
           \/ PollData \/ HandshakeDone \/ BadRequest \/ SendDone
           \/ ChunkDone \/ BodyDone \/ Fail \/ Select

Terminated == pc \in Exited /\ UNCHANGED vars

Next == \/ Program
        \/ SelectFails /\ UNCHANGED upVars
        \/ pc \notin Exited /\ Peer /\ UNCHANGED upVars
        \/ Terminated

Init == CoreInit /\ fileLeft = ReqUnits - 1 /\ reqBody = "unset"

Fairness == /\ WF_vars(Program)
            /\ WF_vars(PeerRecv /\ UNCHANGED upVars)
            /\ WF_vars(PeerSend /\ UNCHANGED upVars)

SafeSpec == Init /\ [][Next]_vars
Spec     == SafeSpec /\ Fairness

-----------------------------------------------------------------------------
(* Every chunk taken from the file is on its way or with the peer: neither *)
(* a blocked nor a repeated write_cb loses or duplicates a piece of the    *)
(* upload (44-63, 121-141).                                                *)
UploadConserved ==
    reqBody # "unset" => outbox + txbuf + got + fileLeft = ReqUnits

(* The loop sleeps (376) only while the connection task can be woken by a  *)
(* read, and by a write as long as the upload is not over.                 *)
UploadWatched ==
    pc = "blocked" =>
        /\ task["conn"] = "waiting" => "read" \in fds
        /\ reqBody = "open" => outbox > 0 /\ "write" \in fds

(* While hyper may still call back into the program, conn_data and, until  *)
(* the file is drained, the upload buffer are allocated; a body task in    *)
(* the executor has the response body it reads from (344, 353-358).        *)
CallbacksHaveData ==
    /\ task["conn"] # "absent" => {"conn_data", "buf"} \subseteq held
    /\ task["body"] # "absent" => "resp_body" \in held

(* return 0 (359) means the whole response was printed and everything but  *)
(* the two descriptors released.                                           *)
CleanExit ==
    pc = "exit0" =>
        /\ delivered = BodyUnits
        /\ wakers = {} /\ cur = NoTask
        /\ held = {"sock", "file"}

Exchange == INSTANCE HttpExchange WITH body <- delivered

(* The upload implements the abstract exchange, one data task per chunk.   *)
ImplementsExchange == Exchange!Spec

(* With a fair peer the upload ends.                                       *)
Terminates == <>(pc \in Exited)
==============================================================================
