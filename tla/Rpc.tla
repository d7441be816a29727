------------------------------------ MODULE Rpc ------------------------------------
(***************************************************************************)
(* One RPC from end to end, as the batches of operations both sides give   *)
(* to gRPC core (grpc_wrap.cc). Core rejects a batch that repeats an       *)
(* operation of the call which is still going on, or one that may be done  *)
(* only once; every caller in the crate panics on that.                    *)
(*                                                                         *)
(* A batch is known by its tag: the future that it resolves. Core finishes *)
(* the batch and queues an event; the poll thread resolves the future      *)
(* later, and only the futures are known to the code that starts batches.  *)
(* Messages are counted, not named: each direction is first in, first out. *)
(* The completion queues stay open; ClientCall, ServerCall and Server have *)
(* what happens when they do not.                                          *)
(***************************************************************************)
EXTENDS Integers

CONSTANTS
  MaxMsgs,     \* bound on the messages of the one side that streams
  MaxDuplex    \* bound on the messages of each side of a duplex call

ASSUME RpcBounds == MaxMsgs \in Nat /\ MaxDuplex \in Nat

Sides == {"client", "server"}
Ops == {"SendMeta", "SendMsg", "SendClose", "SendStatus",
        "RecvMeta", "RecvMsg", "RecvStatus", "RecvClose"}
Tags == {"start", "meta", "send", "close", "recv", "accept", "status"}

VARIABLES
  kind,      \* the MethodType of the call
  ops,       \* core, per side: which operations are free, pending or used up
  batch,     \* core, per side: the operations under way with each tag
  event,     \* per side: the result that waits in the queue for each tag
  fut,       \* per side: what the code sees of each tag's future
  up,        \* messages of the client: sent, taken by the server, closed
  down,      \* and of the server, with its metadata and its status
  over,      \* the call was cancelled, timed out or lost its connection
  cl,        \* the client's program, and the messages it got
  sv         \* the server's program, and SinkBase::send_metadata

vars == <<kind, ops, batch, event, fut, up, down, over, cl, sv>>

(* MethodType                                                              *)
Kinds == {"unary", "cstream", "sstream", "duplex"}
UnaryRequest == kind \in {"unary", "sstream"}
UnaryResponse == kind \in {"unary", "cstream"}
Bound == IF kind = "duplex" THEN MaxDuplex ELSE MaxMsgs

Init ==
  /\ kind \in Kinds
  /\ ops = [s \in Sides |-> [o \in Ops |-> "free"]]
  /\ batch = [s \in Sides |-> [t \in Tags |-> {}]]
  /\ event = [s \in Sides |-> [t \in Tags |-> "none"]]
  /\ fut = [s \in Sides |-> [t \in Tags |-> "none"]]
  /\ up = [sent |-> 0, taken |-> 0, closed |-> FALSE]
  /\ down = [sent |-> 0, taken |-> 0, meta |-> FALSE, status |-> "none"]
  /\ over = FALSE
  /\ cl = [at |-> "new", got |-> 0]
  /\ sv = [at |-> "wire", meta |-> TRUE]

-----------------------------------------------------------------------------
(* grpc_call_start_batch and check_run. bs gives the operations of every   *)
(* tag that is started.                                                    *)
One(t, b) == [x \in Tags |-> IF x = t THEN b ELSE {}]
Two(t, b, u, c) == [x \in Tags |-> IF x = t THEN b ELSE IF x = u THEN c ELSE {}]

Accepts(s, bs) ==
  \A t \in Tags : \A o \in bs[t] : ops[s][o] = "free" /\ \A u \in Tags \ {t} : o \notin bs[u]

Run(s, bs) ==
  /\ ops' = [ops EXCEPT ![s] = [o \in Ops |->
       IF \E t \in Tags : o \in bs[t] THEN "pending" ELSE @[o]]]
  /\ batch' = [batch EXCEPT ![s] = [t \in Tags |-> IF bs[t] # {} THEN bs[t] ELSE @[t]]]
  /\ fut' = [fut EXCEPT ![s] = [t \in Tags |-> IF bs[t] # {} THEN "pending" ELSE @[t]]]

CoreSame == UNCHANGED <<ops, batch, fut>>

(* What the batches put on the wire, in their order.                       *)
Sends(bs, o) == \E t \in Tags : o \in bs[t]
ClientWire(bs) ==
  up' = [up EXCEPT !.sent = IF Sends(bs, "SendMsg") THEN @ + 1 ELSE @,
                   !.closed = @ \/ Sends(bs, "SendClose")]
ServerWire(bs, status) ==
  down' = [down EXCEPT !.sent = IF Sends(bs, "SendMsg") THEN @ + 1 ELSE @,
                       !.meta = @ \/ Sends(bs, "SendMeta"),
                       !.status = IF Sends(bs, "SendStatus") THEN status ELSE @]

(* A side starts batches and goes on, or panics when core rejects them.    *)
ClientRuns(bs, next) ==
  IF Accepts("client", bs)
  THEN Run("client", bs) /\ ClientWire(bs) /\ cl' = next
  ELSE CoreSame /\ UNCHANGED up /\ cl' = [next EXCEPT !.at = "rejected"]
ServerRuns(bs, status, next) ==
  IF Accepts("server", bs)
  THEN Run("server", bs) /\ ServerWire(bs, status) /\ sv' = next
  ELSE CoreSame /\ UNCHANGED down /\ sv' = [next EXCEPT !.at = "rejected"]

-----------------------------------------------------------------------------
(* The batches of grpc_wrap.cc: those that start a call,                   *)
UnaryOps == {"SendMeta", "SendMsg", "SendClose", "RecvMeta", "RecvMsg", "RecvStatus"}
ClientStreamingOps == {"SendMeta", "RecvMeta", "RecvMsg", "RecvStatus"}
ServerStreamingOps == {"SendMeta", "SendMsg", "SendClose", "RecvStatus"}
DuplexOps == {"SendMeta", "RecvStatus"}
RecvMetaOps == {"RecvMeta"}

(* those of a call under way, with metadata where none went out before,    *)
MetaOps(meta) == IF meta THEN {"SendMeta"} ELSE {}
SendOps(meta) == {"SendMsg"} \cup MetaOps(meta)
CloseOps == {"SendClose"}
RecvOps == {"RecvMsg"}

(* and those of a server.                                                  *)
AcceptOps == {"RecvClose"}
StatusOps(payload, meta) ==
  {"SendStatus"} \cup (IF payload THEN {"SendMsg"} ELSE {}) \cup MetaOps(meta)

-----------------------------------------------------------------------------
(* The client. The headers of a streamed response are asked for by a batch *)
(* of their own.                                                           *)
StartBatches ==
  CASE kind = "unary" -> One("start", UnaryOps)
    [] kind = "cstream" -> One("start", ClientStreamingOps)
    [] kind = "sstream" -> Two("start", ServerStreamingOps, "meta", RecvMetaOps)
    [] kind = "duplex" -> Two("start", DuplexOps, "meta", RecvMetaOps)

(* unary_async, client_streaming, server_streaming, duplex_streaming.      *)
ClStart ==
  /\ cl.at = "new"
  /\ ClientRuns(StartBatches, [cl EXCEPT !.at = "calling"])
  /\ UNCHANGED <<kind, event, down, over, sv>>

(* The sink of a client that streams, see ClientCall for what it holds     *)
(* back: a message goes when the last one is out and the call alive.       *)
Settled(s, t) == fut[s][t] \in {"none", "ok"}
ClSend ==
  /\ cl.at = "calling" /\ ~UnaryRequest /\ up.sent < Bound
  /\ Settled("client", "send") /\ fut["client"].close = "none"
  /\ fut["client"].start = "pending"
  /\ ClientRuns(One("send", SendOps(FALSE)), cl)
  /\ UNCHANGED <<kind, event, down, over, sv>>

ClClose ==
  /\ cl.at = "calling" /\ ~UnaryRequest
  /\ Settled("client", "send") /\ fut["client"].close = "none"
  /\ ClientRuns(One("close", CloseOps), cl)
  /\ UNCHANGED <<kind, event, down, over, sv>>

(* Mutant: a stream that knows the status asks for no more messages.       *)
ClRecvUntilStatus ==
  /\ cl.at = "calling" /\ ~UnaryResponse
  /\ fut["client"].start = "pending" /\ fut["client"].recv \in {"none", "data"}
  /\ ClientRuns(One("recv", RecvOps),
                [cl EXCEPT !.got = IF fut["client"].recv = "data" THEN @ + 1 ELSE @])
  /\ UNCHANGED <<kind, event, down, over, sv>>

(* ResponseStreamImpl::poll: a failure ends it at once; a message is       *)
(* returned after the next one was asked for.                              *)
ClRecv ==
  /\ cl.at = "calling" /\ ~UnaryResponse
  /\ fut["client"].start # "fail" /\ fut["client"].recv \in {"none", "data"}
  /\ ClientRuns(One("recv", RecvOps),
                [cl EXCEPT !.got = IF fut["client"].recv = "data" THEN @ + 1 ELSE @])
  /\ UNCHANGED <<kind, event, down, over, sv>>

ClStreamEnds ==
  /\ cl.at = "calling" /\ ~UnaryResponse
  /\ \/ fut["client"].start = "fail" /\ cl' = [cl EXCEPT !.at = "failed"]
     \/ fut["client"].start = "ok" /\ fut["client"].recv = "null" /\ cl' = [cl EXCEPT !.at = "ok"]
  /\ UNCHANGED <<kind, ops, batch, event, fut, up, down, over, sv>>

(* ClientUnaryReceiver and ClientCStreamReceiver: unwrap of the message.   *)
ClResponse ==
  /\ cl.at = "calling" /\ UnaryResponse /\ fut["client"].start \in {"data", "null", "fail"}
  /\ cl' = CASE fut["client"].start = "data" -> [at |-> "ok", got |-> 1]
             [] fut["client"].start = "null" -> [cl EXCEPT !.at = "unwrapped"]
             [] fut["client"].start = "fail" -> [cl EXCEPT !.at = "failed"]
  /\ UNCHANGED <<kind, ops, batch, event, fut, up, down, over, sv>>

(* cancel, the drop of either half, the deadline, a broken connection.     *)
Cancel ==
  /\ cl.at = "calling" /\ ~over
  /\ over' = TRUE
  /\ UNCHANGED <<kind, ops, batch, event, fut, up, down, cl, sv>>

-----------------------------------------------------------------------------
(* The server. Call::abort sends a status, with metadata.                  *)
AbortOps == StatusOps(FALSE, TRUE)

(* Call::start_server_side, by accept_call.                                *)
StartServerSide == One("accept", AcceptOps)

(* execute_unimplemented.                                                  *)
Unimplemented ==
  ServerRuns(Two("accept", AcceptOps, "status", AbortOps), "fail", [sv EXCEPT !.at = "aborted"])

(* execute_*: the payload of a unary request may not deserialize, and      *)
(* otherwise the handler has the call.                                     *)
ExecuteHandler ==
  \/ /\ UnaryRequest
     /\ ServerRuns(Two("accept", AcceptOps, "status", AbortOps), "fail",
                   [sv EXCEPT !.at = "aborted"])
  \/ ServerRuns(StartServerSide, "none", [sv EXCEPT !.at = "handler"])

(* execute: a checker may abort the call before that.                      *)
Execute ==
  \/ ServerRuns(One("status", AbortOps), "fail", [sv EXCEPT !.at = "aborted"])
  \/ ExecuteHandler

(* RequestContext::handle_stream_req and handle_unary_req: the payload of  *)
(* a unary request is fetched first.                                       *)
SvRequest ==
  /\ sv.at = "wire" /\ cl.at # "new"
  /\ \/ Unimplemented
     \/ ~UnaryRequest /\ Execute
     \/ UnaryRequest /\ ServerRuns(One("recv", RecvOps), "none", [sv EXCEPT !.at = "payload"])
  /\ UNCHANGED <<kind, event, up, over, cl>>

(* CallTag::resolve of the payload and UnaryRequestContext::handle. A      *)
(* request without a payload is aborted.                                   *)
SvPayload ==
  /\ sv.at = "payload" /\ event["server"].recv # "none"
  /\ event' = [event EXCEPT !["server"].recv = "none"]
  /\ IF event["server"].recv = "data" THEN Execute
     ELSE ServerRuns(One("status", AbortOps), "fail", [sv EXCEPT !.at = "aborted"])
  /\ UNCHANGED <<kind, up, over, cl>>

(* CallTag::resolve of a batch that failed, as it may once the call is     *)
(* over: the context goes, and the call with it, unanswered.               *)
SvUnread ==
  /\ sv.at = "payload" /\ event["server"].recv = "null" /\ over
  /\ sv' = [sv EXCEPT !.at = "dropped"]
  /\ UNCHANGED <<kind, ops, batch, event, fut, up, down, over, cl>>

(* Mutant: a status forgets the message that should go with it.            *)
SvSuccessBare ==
  /\ sv.at = "handler" /\ UnaryResponse
  /\ ServerRuns(One("status", StatusOps(FALSE, TRUE)), "ok", [sv EXCEPT !.at = "answered"])
  /\ UNCHANGED <<kind, event, up, over, cl>>

(* success of impl_unary_sink.                                             *)
SvSuccess ==
  /\ sv.at = "handler" /\ UnaryResponse
  /\ ServerRuns(One("status", StatusOps(TRUE, TRUE)), "ok",
                [sv EXCEPT !.at = "answered"])
  /\ UNCHANGED <<kind, event, up, over, cl>>

(* start_send of impl_stream_sink after a poll_ready: metadata go with the *)
(* first message.                                                          *)
SvSend ==
  /\ sv.at = "handler" /\ ~UnaryResponse /\ down.sent < Bound
  /\ Settled("server", "send") /\ fut["server"].accept = "pending"
  /\ ServerRuns(One("send", SendOps(sv.meta)), "none", [sv EXCEPT !.meta = FALSE])
  /\ UNCHANGED <<kind, event, up, over, cl>>

(* poll_close of impl_stream_sink waits for the message under way.         *)
SvClose ==
  /\ sv.at = "handler" /\ ~UnaryResponse /\ Settled("server", "send")
  /\ ServerRuns(One("status", StatusOps(FALSE, sv.meta)), "ok", [sv EXCEPT !.at = "answered"])
  /\ UNCHANGED <<kind, event, up, over, cl>>

(* Mutant: fail always sends metadata.                                     *)
SvFailMeta ==
  /\ sv.at = "handler"
  /\ ServerRuns(One("status", AbortOps), "fail", [sv EXCEPT !.at = "answered"])
  /\ UNCHANGED <<kind, event, up, over, cl>>

(* fail of either sink does not wait.                                      *)
SvFail ==
  /\ sv.at = "handler"
  /\ ServerRuns(One("status", StatusOps(FALSE, sv.meta)), "fail", [sv EXCEPT !.at = "answered"])
  /\ UNCHANGED <<kind, event, up, over, cl>>

(* The drop of a sink that has not answered.                               *)
SvDrop ==
  /\ sv.at = "handler"
  /\ over' = TRUE /\ sv' = [sv EXCEPT !.at = "dropped"]
  /\ UNCHANGED <<kind, ops, batch, event, fut, up, down, cl>>

(* StreamingBase::poll of a RequestStream, which may outlive the sink.     *)
SvRecv ==
  /\ sv.at \in {"handler", "answered"} /\ ~UnaryRequest
  /\ fut["server"].recv \in {"none", "data"} /\ fut["server"].accept = "pending"
  /\ ServerRuns(One("recv", RecvOps), "none", sv)
  /\ UNCHANGED <<kind, event, up, over, cl>>

-----------------------------------------------------------------------------
(* gRPC core: when an operation can finish,                                *)
Over == over \/ down.status # "none"
HasMsg(s) == IF s = "client" THEN down.taken < down.sent ELSE up.taken < up.sent
NoMore(s) == IF s = "client" THEN down.status # "none" ELSE up.closed

Finishes(s, o) ==
  CASE o = "RecvMeta" -> down.meta \/ Over
    [] o = "RecvMsg" -> HasMsg(s) \/ NoMore(s) \/ over
    [] o \in {"RecvStatus", "RecvClose"} -> Over
    [] OTHER -> TRUE

(* and what Batch::resolve makes of it: read_one_msg, finish_response and  *)
(* handle_unary_response. An OK status comes after the server's messages.  *)
Message(s) == IF HasMsg(s) THEN "data" ELSE "null"
Status == (IF down.status = "none" THEN {} ELSE {down.status})
            \cup (IF over THEN {"fail"} ELSE {})

Results(s, b) ==
  IF {"RecvMsg", "RecvStatus"} \subseteq b
  THEN {IF r = "ok" THEN Message(s) ELSE r : r \in Status}
  ELSE IF "RecvStatus" \in b THEN Status
  ELSE IF "RecvMsg" \in b
  THEN (IF HasMsg(s) \/ NoMore(s) THEN {Message(s)} ELSE {})
         \cup (IF over THEN {"null"} ELSE {})
  ELSE IF "RecvClose" \in b THEN {"ok"}
  ELSE {"ok"} \cup (IF Over THEN {"fail"} ELSE {})

(* Nobody looks at the other futures to decide what to start next: their   *)
(* batches stay under way, since core then rejects a repeated operation at *)
(* least as often as when it has finished them.                            *)
Watched == {"start", "send", "recv", "accept"}

(* A side that is through with the call starts nothing more, and what core *)
(* still finishes for it is left out.                                      *)
Engaged(s) == IF s = "client" THEN cl.at = "calling"
              ELSE sv.at \in {"payload", "handler"} \/ (sv.at = "answered" /\ ~UnaryRequest)

Complete(s, t) ==
  /\ batch[s][t] # {} /\ Engaged(s)
  /\ \A o \in batch[s][t] : Finishes(s, o)
  /\ \E r \in Results(s, batch[s][t]) :
       /\ event' = [event EXCEPT ![s][t] = r]
       /\ up' = [up EXCEPT !.taken = IF s = "server" /\ r = "data" THEN @ + 1 ELSE @]
       /\ down' = [down EXCEPT !.taken = IF s = "client" /\ r = "data" THEN @ + 1 ELSE @]
  /\ ops' = [ops EXCEPT ![s] = [o \in Ops |->
       IF o \notin batch[s][t] THEN @[o]
       ELSE IF o \in {"SendMsg", "RecvMsg"} THEN "free" ELSE "used"]]
  /\ batch' = [batch EXCEPT ![s][t] = {}]
  /\ UNCHANGED <<kind, fut, over, cl, sv>>

(* The poll thread resolves the future (or drops the result with it).      *)
Resolve(s, t) ==
  /\ event[s][t] # "none" /\ Engaged(s) /\ ~(s = "server" /\ t = "recv" /\ sv.at = "payload")
  /\ fut' = [fut EXCEPT ![s][t] = event[s][t]]
  /\ event' = [event EXCEPT ![s][t] = "none"]
  /\ UNCHANGED <<kind, ops, batch, up, down, over, cl, sv>>

ClEnded == cl.at \in {"ok", "failed"}
Done == ClEnded /\ UNCHANGED vars

Next ==
  \/ ClStart \/ ClSend \/ ClClose \/ ClRecv \/ ClStreamEnds \/ ClResponse \/ Cancel
  \/ SvRequest \/ SvPayload \/ SvUnread \/ SvSuccess \/ SvSend \/ SvClose \/ SvFail \/ SvDrop
  \/ SvRecv
  \/ \E s \in Sides : \E t \in Watched : Complete(s, t) \/ Resolve(s, t)
  \/ Done

Spec == Init /\ [][Next]_vars

(* Fairness: core finishes what can finish, poll threads run, and a client *)
(* polls what it waits for. Nothing is assumed of the handler. The actions *)
(* under one WF exclude each other.                                        *)
Fairness ==
  /\ WF_vars(ClRecv \/ ClStreamEnds \/ ClResponse)
  /\ \A t \in {"start", "recv"} : WF_vars(Complete("client", t) \/ Resolve("client", t))

FairSpec == Spec /\ Fairness

-----------------------------------------------------------------------------
(* Every variable has its type.                                            *)
Outcome == {"none", "ok", "fail", "data", "null"}
TypeOK ==
  /\ kind \in Kinds
  /\ ops \in [Sides -> [Ops -> {"free", "pending", "used"}]]
  /\ batch \in [Sides -> [Tags -> SUBSET Ops]]
  /\ event \in [Sides -> [Tags -> Outcome]]
  /\ fut \in [Sides -> [Tags -> Outcome \cup {"pending"}]]
  /\ up \in [sent : Nat, taken : Nat, closed : BOOLEAN]
  /\ down \in [sent : Nat, taken : Nat, meta : BOOLEAN, status : {"none", "ok", "fail"}]
  /\ over \in BOOLEAN
  /\ cl \in [at : {"new", "calling", "ok", "failed", "unwrapped", "rejected"}, got : Nat]
  /\ sv \in [at : {"wire", "payload", "handler", "answered", "aborted", "dropped", "rejected"},
             meta : BOOLEAN]

(* Core accepts every batch either side ever starts: whatever the kind of  *)
(* the call, the paths that abort, fail, close, stream and read never      *)
(* repeat an operation, so the panic of check_run and abort is not reached.*)
CoreAccepts == cl.at # "rejected" /\ sv.at # "rejected"

(* A client sees a call succeed only if the handler answered OK, and with  *)
(* all the messages it sent: exactly one for a unary response, so that the *)
(* unwrap of the response does not panic.                                  *)
ResultIsAnswer ==
  /\ cl.at # "unwrapped"
  /\ cl.at = "ok" => /\ sv.at = "answered" /\ down.status = "ok"
                     /\ ~over => cl.got = down.sent
                     /\ UnaryResponse => cl.got = 1

(* The end of the call, by an answer, an abort or a cancel, reaches the    *)
(* client, which never waits for an event that will not come.              *)
EndReachesClient == cl.at = "calling" /\ Over ~> ClEnded
=============================================================================
