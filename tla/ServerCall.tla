-------------------------------- MODULE ServerCall --------------------------------
(***************************************************************************)
(* A streaming call of a server (call/server.rs): the RequestStream and    *)
(* the sink of one handler, which may live in two tasks, share the call    *)
(* and the future that tells its end (ShareCall in call/mod.rs).           *)
(*                                                                         *)
(* streams is a DuplexSink (impl_stream_sink; a ServerStreamingSink is the *)
(* same without the RequestStream), otherwise the sink is the one of a     *)
(* client streaming call (impl_unary_sink), which answers once.            *)
(*                                                                         *)
(* A poll looks at several futures that only core resolves. Nothing else   *)
(* changes what a later look sees, so a poll is one step, except where a   *)
(* batch that it starts may resolve before it is looked at.                *)
(***************************************************************************)
EXTENDS SinkBase

CONSTANTS
  MaxOut,      \* bound on the messages of the server
  MaxIn        \* bound on the messages of the client

ASSUME BoundsAssumption == MaxOut \in Nat /\ MaxIn \in Nat

VARIABLES
  share,     \* ShareCall: its close_f and finished
  sink,      \* the sink's SinkBase
  status,    \* the batch with the status: its future, and what went with it
  flushed,   \* flushed of the stream sink
  sender,    \* the sink's task
  recv,      \* StreamingBase: msg_f and read_done
  reader,    \* the task of the RequestStream
  yielded,   \* the messages it returned
  over,      \* core: how the call ended
  client,    \* core: what the client has sent
  open,      \* the completion queue can be borrowed
  streams    \* the sink is a stream of messages, or answers once

vars == <<share, sink, status, flushed, sender, recv, reader, yielded, over, client, open, streams>>

(* A task is at a step of its program, sleeps or not, and left its waker   *)
(* with the futures `on`.                                                  *)
Goes(at) == [at |-> at, asleep |-> FALSE, on |-> {}]
Sleeps(at, on) == [at |-> at, asleep |-> TRUE, on |-> on]
SenderAt == {"idle", "ready", "flush", "close", "failing", "result",
             "closed", "failed", "spent", "panicked", "dropped"}
ReaderAt == {"poll", "polling", "ended", "failed", "dropped"}

(* StreamingBase::new, without a close_f: a RequestStream has none.        *)
NewStreamingBase == [msg |-> "none", data |-> 0, done |-> FALSE]
NewRequestStream == recv = NewStreamingBase /\ yielded = <<>>

(* impl_stream_sink new; the sink that answers once has no SinkBase, and   *)
(* always brings the metadata along.                                       *)
NewStreamSink ==
  /\ sink = NewSink(TRUE)
  /\ status = [f |-> "none", meta |-> FALSE]
  /\ flushed = FALSE

(* accept_call and execute_*_streaming.                                    *)
Init ==
  /\ share = NewShare
  /\ NewStreamSink
  /\ sender = Goes("idle")
  /\ NewRequestStream
  /\ reader = Goes("poll")
  /\ over = "no"
  /\ client = [sent |-> 0, inbox |-> <<>>, closed |-> FALSE]
  /\ open = TRUE
  /\ streams \in BOOLEAN

SenderSame == UNCHANGED <<sink, status, flushed, sender>>
ReaderSame == UNCHANGED <<recv, reader, yielded>>
CoreSame == UNCHANGED <<over, client, open, streams>>

-----------------------------------------------------------------------------
Alive == ShareAlive(share)

(* ShareCall::poll_finish. The result is always Ok: the server does not    *)
(* learn from it how the call ended.                                       *)
Finished == share.close = "ok"
PollFinish == share' = IF Finished THEN [close |-> "stale", finished |-> TRUE] ELSE share

CoreCancels == over' = IF over = "no" THEN "cancelled" ELSE over
Cancel == IF open THEN CoreCancels ELSE UNCHANGED over

(* Drop of one half; the second takes the call along.                      *)
DropHalf(cancels, other) ==
  IF other.at = "dropped" THEN CoreCancels
  ELSE IF cancels THEN Cancel ELSE UNCHANGED over

After(res, next, stay, on) ==
  CASE res = "ok" -> Goes(next)
    [] res = "pending" -> Sleeps(stay, on)
    [] res = "err" -> Goes("failed")
    [] res = "panic" -> Goes("panicked")

(* What awaits the end of the call is done with it.                        *)
AfterFinish(stay) ==
  CASE share.close = "pending" -> Sleeps(stay, {"finish"})
    [] share.close = "ok" -> Goes("closed")
    [] share.close = "stale" -> Goes("panicked")

(* poll_ready: a call that is over is RemoteStopped.                       *)
SinkReady ==
  LET r == PollBatch(sink) IN
  /\ streams /\ sender.at = "idle" /\ ~sender.asleep
  /\ Len(sink.accepted) < MaxOut
  /\ PollFinish
  /\ IF share.close # "pending"
     THEN sender' = Goes(IF Finished THEN "failed" ELSE "panicked") /\ UNCHANGED sink
     ELSE /\ sink' = r.sink
          /\ sender' = After(r.res, "ready", "idle", {"batch", "finish"})
  /\ UNCHANGED <<status, flushed>> /\ ReaderSame /\ CoreSame

SinkSend(hint) ==
  LET r == StartSend(sink, Len(sink.accepted) + 1, hint, open) IN
  /\ sender.at = "ready"
  /\ sink' = r.sink
  /\ sender' = After(r.res, "idle", "idle", {})
  /\ UNCHANGED <<share, status, flushed>> /\ ReaderSame /\ CoreSame

SinkFlush ==
  LET r == Flush(sink, open) IN
  /\ streams /\ sender.at \in {"idle", "flush"} /\ ~sender.asleep
  /\ PollFinish
  /\ IF share.close # "pending"
     THEN sender' = Goes(IF Finished THEN "failed" ELSE "panicked") /\ UNCHANGED sink
     ELSE /\ sink' = r.sink
          /\ sender' = After(r.res, "idle", "flush", {"batch", "finish"})
  /\ UNCHANGED <<status, flushed>> /\ ReaderSame /\ CoreSame

SinkGiveUpFlush ==
  /\ sender.at = "flush"
  /\ sender' = Goes("idle")
  /\ UNCHANGED <<share, sink, status, flushed>> /\ ReaderSame /\ CoreSame

SinkEnhance ==
  /\ streams /\ sender.at = "idle" /\ ~sender.asleep /\ sink.accepted = <<>>
  /\ sink' = [sink EXCEPT !.enhance = ~@]
  /\ UNCHANGED <<share, status, flushed, sender>> /\ ReaderSame /\ CoreSame

-----------------------------------------------------------------------------
(* start_send_status_from_server, with the metadata if none went out yet.  *)
StartStatus(at, refused) ==
  IF open THEN status' = [f |-> "pending", meta |-> sink.meta] /\ sender' = Goes(at)
  ELSE UNCHANGED status /\ sender' = Goes(refused)

(* Mutant: the status does not wait for the message under way.             *)
SinkCloseNow ==
  /\ streams /\ sender.at \in {"idle", "close"} /\ ~sender.asleep /\ status.f = "none"
  /\ StartStatus("close", "failed")
  /\ UNCHANGED <<share, sink, flushed>> /\ ReaderSame /\ CoreSame

(* poll_close: wait for the message under way and send the status. What is *)
(* held back is not sent: it takes a flush before.                         *)
SinkClose ==
  LET r == PollBatch(sink) IN
  /\ streams /\ sender.at \in {"idle", "close"} /\ ~sender.asleep /\ status.f = "none"
  /\ sink' = r.sink
  /\ IF r.res = "ok" THEN StartStatus("close", "failed")
     ELSE UNCHANGED status /\ sender' = After(r.res, "close", "close", {"batch"})
  /\ UNCHANGED <<share, flushed>> /\ ReaderSame /\ CoreSame

(* The rest of poll_close: the status is out, then the call is over.       *)
SinkCloseFlush ==
  /\ sender.at = "close" /\ ~sender.asleep /\ status.f # "none" /\ ~flushed
  /\ sender' = After(status.f, "close", "close", {"status"})
  /\ flushed' = (status.f = "ok")
  /\ status' = [status EXCEPT !.f = IF @ = "pending" THEN @ ELSE "stale"]
  /\ UNCHANGED <<share, sink>> /\ ReaderSame /\ CoreSame

SinkCloseFinish ==
  /\ sender.at = "close" /\ ~sender.asleep /\ flushed
  /\ PollFinish
  /\ sender' = AfterFinish("close")
  /\ UNCHANGED <<sink, status, flushed>> /\ ReaderSame /\ CoreSame

(* fail of a stream sink, also after an error of the sink: the sink is     *)
(* consumed, and what is left is a future with the outcome.                *)
SinkFail ==
  /\ streams /\ sender.at \in {"idle", "ready", "flush", "failed"} /\ status.f = "none"
  /\ StartStatus("failing", "spent")
  /\ UNCHANGED <<share, sink, flushed>> /\ ReaderSame /\ CoreSame

(* success and fail of the other sink.                                     *)
SinkComplete ==
  /\ ~streams /\ sender.at = "idle"
  /\ StartStatus("result", "spent")
  /\ UNCHANGED <<share, sink, flushed>> /\ ReaderSame /\ CoreSame

(* The failure's poll: both futures in one poll, the status not again once *)
(* it was taken, and the end of the call only if the sink has not seen it. *)
FailPoll ==
  /\ sender.at = "failing" /\ ~sender.asleep
  /\ IF share.finished THEN UNCHANGED share ELSE PollFinish
  /\ sender' =
       LET on == IF Alive THEN {"finish"} ELSE {} IN
       CASE status.f = "err" -> Goes("spent")
         [] status.f = "pending" -> Sleeps("failing", on \cup {"status"})
         [] OTHER -> IF Alive THEN Sleeps("failing", on) ELSE Goes("closed")
  /\ status' = [status EXCEPT !.f = IF @ = "pending" THEN @ ELSE "stale"]
  /\ UNCHANGED <<sink, flushed>> /\ ReaderSame /\ CoreSame

(* Mutant: the status is waited for again after it was taken.              *)
ResultPollAgain ==
  /\ sender.at = "result" /\ ~sender.asleep
  /\ IF status.f = "ok" THEN PollFinish /\ sender' = AfterFinish("result")
     ELSE /\ UNCHANGED share
          /\ sender' = CASE status.f = "pending" -> Sleeps("result", {"status"})
                         [] status.f = "err" -> Goes("spent")
                         [] status.f = "stale" -> sender
  /\ status' = [status EXCEPT !.f = IF @ = "pending" THEN @ ELSE "stale"]
  /\ UNCHANGED <<sink, flushed>> /\ ReaderSame /\ CoreSame

(* The result's poll of the other sink: one after the other.               *)
ResultPoll ==
  /\ sender.at = "result" /\ ~sender.asleep
  /\ IF status.f \in {"ok", "stale"} THEN PollFinish /\ sender' = AfterFinish("result")
     ELSE /\ UNCHANGED share
          /\ sender' = IF status.f = "pending" THEN Sleeps("result", {"status"}) ELSE Goes("spent")
  /\ status' = [status EXCEPT !.f = IF @ = "pending" THEN @ ELSE "stale"]
  /\ UNCHANGED <<sink, flushed>> /\ ReaderSame /\ CoreSame

(* Drop of a sink, which cancels unless it was closed, or of the future    *)
(* that took its call. What the sink held goes with it.                    *)
SinkDrop ==
  /\ sender.at # "dropped"
  /\ sender' = Goes("dropped") /\ sink' = NewSink(TRUE)
  /\ DropHalf(sender.at \notin {"closed", "failing", "result", "spent"}, reader)
  /\ UNCHANGED <<share, status, flushed, client, open, streams>> /\ ReaderSame

-----------------------------------------------------------------------------
(* RequestStream::poll_next: a call that is over is an error.              *)
RecvCheck ==
  /\ reader.at = "poll" /\ ~reader.asleep
  /\ reader' = Goes(IF Alive THEN "polling" ELSE "failed")
  /\ UNCHANGED <<share, recv, yielded>> /\ SenderSame /\ CoreSame

(* StreamingBase::poll, which has no close_f on a server: nothing yet,     *)
RecvPending ==
  /\ reader.at = "polling" /\ recv.msg = "pending"
  /\ reader' = Sleeps("poll", {"msg"})
  /\ UNCHANGED <<share, recv, yielded>> /\ SenderSame /\ CoreSame

(* the end of the messages,                                                *)
RecvEof ==
  /\ reader.at = "polling" /\ recv.msg = "eof"
  /\ recv' = [recv EXCEPT !.done = TRUE, !.msg = "stale"]
  /\ reader' = Goes("ended")
  /\ UNCHANGED <<share, yielded>> /\ SenderSame /\ CoreSame

(* a message, or the first poll: the next recv_message is started first.   *)
RecvStart ==
  /\ reader.at = "polling" /\ recv.msg \in {"none", "data"}
  /\ IF open
     THEN /\ recv' = [recv EXCEPT !.msg = "pending", !.data = 0]
          /\ IF recv.msg = "data"
             THEN reader' = Goes("poll") /\ yielded' = Append(yielded, recv.data)
             ELSE UNCHANGED <<reader, yielded>>
     ELSE /\ recv' = [recv EXCEPT !.msg = "none", !.data = 0]
          /\ reader' = Goes("failed") /\ UNCHANGED yielded
  /\ UNCHANGED share /\ SenderSame /\ CoreSame

(* Drop of the RequestStream (StreamingBase::on_drop).                     *)
RecvDrop ==
  /\ reader.at \notin {"dropped", "polling"}
  /\ reader' = Goes("dropped") /\ recv' = [recv EXCEPT !.msg = "none", !.data = 0]
  /\ DropHalf(~recv.done, sender)
  /\ UNCHANGED <<share, yielded, client, open, streams>> /\ SenderSame

-----------------------------------------------------------------------------
(* gRPC core, the client and the poll thread.                              *)
Woken(task, f) == IF f \in task.on
                  THEN [task EXCEPT !.asleep = FALSE, !.on = @ \ {f}] ELSE task

ClientSend ==
  /\ over = "no" /\ ~client.closed /\ client.sent < MaxIn
  /\ client' = [client EXCEPT !.sent = @ + 1, !.inbox = Append(@, client.sent + 1)]
  /\ UNCHANGED <<share, over, open, streams>> /\ SenderSame /\ ReaderSame

ClientClose ==
  /\ over = "no" /\ ~client.closed
  /\ client' = [client EXCEPT !.closed = TRUE]
  /\ UNCHANGED <<share, over, open, streams>> /\ SenderSame /\ ReaderSame

(* A cancel of the client, a deadline, a lost connection.                  *)
ClientCancel ==
  /\ over = "no"
  /\ over' = "cancelled"
  /\ UNCHANGED <<share, client, open, streams>> /\ SenderSame /\ ReaderSame

CloseResolves ==
  /\ share.close = "pending" /\ over # "no"
  /\ share' = [share EXCEPT !.close = "ok"]
  /\ sender' = Woken(sender, "finish")
  /\ UNCHANGED <<sink, status, flushed>> /\ ReaderSame /\ CoreSame

RecvResolves ==
  /\ recv.msg = "pending"
  /\ \/ /\ client.inbox # <<>>
        /\ recv' = [recv EXCEPT !.msg = "data", !.data = Head(client.inbox)]
        /\ client' = [client EXCEPT !.inbox = Tail(@)]
     \/ /\ over # "no" \/ (client.closed /\ client.inbox = <<>>)
        /\ recv' = [recv EXCEPT !.msg = "eof"]
        /\ UNCHANGED client
  /\ reader' = Woken(reader, "msg")
  /\ UNCHANGED <<share, yielded, over, open, streams>> /\ SenderSame

BatchResolves ==
  /\ sink.batch = "pending"
  /\ \E r \in {"ok", "err"} :
       /\ r = "err" => over # "no"
       /\ sink' = [sink EXCEPT !.batch = r]
  /\ sender' = Woken(sender, "batch")
  /\ UNCHANGED <<share, status, flushed>> /\ ReaderSame /\ CoreSame

(* The call is done when the status is out.                                *)
StatusResolves ==
  /\ status.f = "pending"
  /\ \E r \in {"ok", "err"} :
       /\ r = "err" => over = "cancelled"
       /\ status' = [status EXCEPT !.f = r]
  /\ over' = IF over = "no" THEN "done" ELSE over
  /\ sender' = Woken(sender, "status")
  /\ UNCHANGED <<share, sink, flushed, client, open, streams>> /\ ReaderSame

QueueShutdown ==
  /\ open
  /\ open' = FALSE
  /\ UNCHANGED <<share, over, client, streams>> /\ SenderSame /\ ReaderSame

Ended == sender.at = "dropped" /\ reader.at = "dropped" /\ UNCHANGED vars

SinkNext ==
  \/ SinkReady \/ (\E h \in BOOLEAN : SinkSend(h)) \/ SinkFlush \/ SinkGiveUpFlush
  \/ SinkEnhance \/ SinkClose \/ SinkCloseFlush \/ SinkCloseFinish
  \/ SinkFail \/ FailPoll \/ SinkComplete \/ ResultPoll \/ SinkDrop

RecvNext == RecvCheck \/ RecvPending \/ RecvEof \/ RecvStart \/ RecvDrop

Core ==
  \/ ClientSend \/ ClientClose \/ ClientCancel \/ QueueShutdown
  \/ CloseResolves \/ RecvResolves \/ BatchResolves \/ StatusResolves

Next == SinkNext \/ RecvNext \/ Core \/ Ended

Spec == Init /\ [][Next]_vars

(* Fairness: awake tasks go on with what they began; core reports the end  *)
(* of a call and of all its batches once it is over. Nothing is assumed of *)
(* the client, nor of what the sink's user does next.                      *)
Fairness ==
  /\ WF_vars(SinkCloseFlush) /\ WF_vars(SinkCloseFinish) /\ WF_vars(sender.at = "close" /\ SinkClose)
  /\ WF_vars(FailPoll) /\ WF_vars(ResultPoll)
  /\ WF_vars(RecvCheck) /\ WF_vars(RecvPending) /\ WF_vars(RecvEof) /\ WF_vars(RecvStart)
  /\ WF_vars(CloseResolves)
  /\ WF_vars(over # "no" /\ RecvResolves)
  /\ WF_vars(over # "no" /\ BatchResolves)
  /\ WF_vars(over # "no" /\ StatusResolves)

FairSpec == Spec /\ Fairness

-----------------------------------------------------------------------------
Tasks(ats) == [at : ats, asleep : BOOLEAN, on : SUBSET {"batch", "status", "finish", "msg"}]
Msgs == [msg : 0..MaxOut, hint : BOOLEAN]

(* Every variable has its type.                                            *)
TypeOK ==
  /\ share \in [close : {"pending", "ok", "stale"}, finished : BOOLEAN]
  /\ sink \in [batch : Futures, buf : Msgs, lastHint : BOOLEAN, meta : BOOLEAN, enhance : BOOLEAN,
              accepted : Seq(Msgs), wire : Seq([msg : 1..MaxOut, hint : BOOLEAN, meta : BOOLEAN])]
  /\ status \in [f : Futures, meta : BOOLEAN] /\ flushed \in BOOLEAN
  /\ sender \in Tasks(SenderAt) /\ reader \in Tasks(ReaderAt)
  /\ recv \in [msg : {"none", "pending", "data", "eof", "stale"}, data : 0..MaxIn, done : BOOLEAN]
  /\ yielded \in Seq(1..MaxIn)
  /\ over \in {"no", "done", "cancelled"}
  /\ client \in [sent : 0..MaxIn, inbox : Seq(1..MaxIn), closed : BOOLEAN]
  /\ open \in BOOLEAN /\ streams \in BOOLEAN

(* The initial metadata go out exactly once, with the first message or, if *)
(* there is none, with the status, whichever way the sink ends: start_send *)
(* and a close or a fail at any moment agree on who brings them.           *)
MetadataOnce ==
  /\ \A i \in 1..Len(sink.wire) : sink.wire[i].meta <=> i = 1
  /\ status.f # "none" /\ sender.at # "dropped" => (status.meta <=> sink.wire = <<>>)

(* poll_close sends the status behind the messages: once a close started   *)
(* it none is under way, and core was given every message that start_send  *)
(* accepted, once and in order, but for the one that enhance_batch holds   *)
(* back and no flush sent on (call/server.rs:530-542); without             *)
(* enhance_batch there is no such message. A sink that is closed has seen  *)
(* the status taken and the call end.                                      *)
Closing == status.f # "none" /\ (sender.at = "close" \/ (sender.at = "closed" /\ flushed))
ClosedComplete ==
  /\ Closing => sink.batch = "none" /\ Accounted(sink) /\ (sink.enhance \/ sink.buf = NoMsg)
  /\ sender.at = "closed" => share.finished /\ over # "no" /\ status.f = "stale"

(* Once the call is over no half sleeps for good, the stream ends and an   *)
(* answer that was started is reported.                                    *)
EndIsSeen ==
  /\ over # "no" ~> reader.at \in {"ended", "failed", "dropped"}
  /\ over # "no" /\ sender.asleep ~> ~sender.asleep
  /\ over # "no" /\ sender.at \in {"close", "failing", "result"}
       ~> sender.at \in {"closed", "failed", "spent", "dropped"}
=============================================================================
