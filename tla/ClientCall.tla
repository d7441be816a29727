-------------------------------- MODULE ClientCall --------------------------------
(***************************************************************************)
(* A streaming call of a client (call/client.rs): a StreamingCallSink and  *)
(* a receiver, held by two tasks, share the call and the future of its     *)
(* status behind a mutex (ShareCall in call/mod.rs). The sink's task polls *)
(* its own batches and only looks whether the call is over; the receiver's *)
(* task polls the status and the messages. gRPC core resolves batches at   *)
(* any time, in any order.                                                 *)
(*                                                                         *)
(* duplex is a ClientDuplexReceiver (ResponseStreamImpl), otherwise the    *)
(* receiver is a ClientCStreamReceiver, which awaits one response.         *)
(***************************************************************************)
EXTENDS SinkBase

CONSTANTS
  MaxOut,      \* bound on the messages the client sends
  MaxIn,       \* bound on the messages the server sends
  Toggle       \* the user may switch enhance_batch at any time

ASSUME BoundsAssumption == MaxOut \in Nat /\ MaxIn \in Nat
ASSUME UsageAssumption == Toggle \in BOOLEAN

VARIABLES
  share,     \* ShareCall: its close_f, finished and status
  sink,      \* the sink's SinkBase
  closeF,    \* StreamingCallSink.close_f
  sender,    \* the sink's task: what it does, and whether it sleeps
  recv,      \* the receiver: msg_f, read_done, finished
  reader,    \* the receiver's task
  yielded,   \* the messages the stream returned
  late,      \* how many messages were handed to core after the end
  outcome,   \* core: how the call ended
  inbox,     \* core: the messages of the server not yet received
  sent,      \* core: how many messages the server has sent
  open,      \* the completion queue can be borrowed
  duplex     \* the call is duplex, or client streaming

vars == <<share, sink, closeF, sender, recv, reader, yielded, late,
          outcome, inbox, sent, open, duplex>>

(* A task is at a step of its program, sleeps or not, and left its waker   *)
(* with the futures `on`; `hit` is a wake-up that came during a poll.      *)
Goes(at) == [at |-> at, asleep |-> FALSE, on |-> {}, hit |-> FALSE]
SenderAt == {"idle", "ready", "sending", "flush", "flushing", "close", "closed",
             "failed", "panicked", "dropped"}
ReaderAt == {"poll", "polling", "ended", "failed", "panicked", "dropped"}

(* ResponseStreamImpl::new; err: an error was returned.                    *)
NewRecv == [msg |-> "none", data |-> 0, done |-> FALSE, finished |-> FALSE, err |-> FALSE]

(* StreamingCallSink::new                                                  *)
NewStreamingCallSink == sink = NewSink(FALSE) /\ closeF = "none"

(* duplex_streaming and client_streaming: the batch that awaits the status *)
(* is started with the call.                                               *)
Init ==
  /\ share = NewShare
  /\ NewStreamingCallSink
  /\ sender = Goes("idle")
  /\ recv = NewRecv
  /\ reader = Goes("poll")
  /\ yielded = <<>> /\ late = 0
  /\ outcome = "none" /\ inbox = <<>> /\ sent = 0
  /\ open = TRUE
  /\ duplex \in BOOLEAN

SenderSame == UNCHANGED <<sink, closeF, sender, late>>
ReaderSame == UNCHANGED <<recv, reader, yielded>>
CoreSame == UNCHANGED <<outcome, inbox, sent, open, duplex>>

-----------------------------------------------------------------------------
Alive == ShareAlive(share)

(* Core cancels a call whose status it has not reported; a status that has *)
(* arrived may still win.                                                  *)
CoreCancels ==
  IF share.close = "pending"
  THEN outcome' \in (IF outcome = "ok" THEN {"ok", "failed"} ELSE {"failed"})
  ELSE UNCHANGED outcome

(* Call::cancel, ignored once the queue is shut down.                      *)
Cancel == IF open THEN CoreCancels ELSE UNCHANGED outcome

(* Drop of one half; with the second one the call goes too, and core       *)
(* cancels a call that loses its last reference.                           *)
DropHalf(cancels, other) ==
  IF other.at = "dropped" THEN CoreCancels
  ELSE IF cancels THEN Cancel ELSE UNCHANGED outcome

Sleeps(at, on) == [at |-> at, asleep |-> TRUE, on |-> on, hit |-> FALSE]

After(res, next, stay, on) ==
  CASE res = "ok" -> Goes(next)
    [] res = "pending" -> Sleeps(stay, on)
    [] res = "err" -> Goes("failed")
    [] res = "panic" -> Goes("panicked")

(* Sink::poll_ready.                                                       *)
SinkReady ==
  LET r == PollBatch(sink) IN
  /\ sender.at = "idle" /\ ~sender.asleep
  /\ Len(sink.accepted) < MaxOut
  /\ sink' = r.sink
  /\ sender' = After(r.res, "ready", "idle", {"batch"})
  /\ UNCHANGED <<share, late, closeF>> /\ ReaderSame /\ CoreSame

(* start_send: check_alive under the lock, which is released before the    *)
(* message is sent.                                                        *)
SinkSendCheck ==
  /\ sender.at = "ready"
  /\ sender' = Goes(IF Alive THEN "sending" ELSE "failed")
  /\ UNCHANGED <<share, late, sink, closeF>> /\ ReaderSame /\ CoreSame

SinkSend(hint) ==
  LET r == StartSend(sink, Len(sink.accepted) + 1, hint, open) IN
  /\ sender.at = "sending"
  /\ sink' = r.sink
  /\ sender' = After(r.res, "idle", "idle", {})
  /\ late' = IF Alive THEN late ELSE late + Len(r.sink.wire) - Len(sink.wire)
  /\ UNCHANGED <<share, closeF>> /\ ReaderSame /\ CoreSame

(* poll_flush: the same check, then the flush; polled until it is ready,   *)
(* or given up for another message.                                        *)
SinkFlushCheck ==
  /\ sender.at \in {"idle", "flush"} /\ ~sender.asleep
  /\ sender' = Goes(IF Alive THEN "flushing" ELSE "failed")
  /\ UNCHANGED <<share, late, sink, closeF>> /\ ReaderSame /\ CoreSame

SinkFlush ==
  LET r == Flush(sink, open) IN
  /\ sender.at = "flushing"
  /\ sink' = r.sink
  /\ sender' = After(r.res, "idle", "flush", {"batch"})
  /\ late' = IF Alive THEN late ELSE late + Len(r.sink.wire) - Len(sink.wire)
  /\ UNCHANGED <<share, closeF>> /\ ReaderSame /\ CoreSame

SinkGiveUpFlush ==
  /\ sender.at = "flush"
  /\ sender' = Goes("idle")
  /\ UNCHANGED <<share, late, sink, closeF>> /\ ReaderSame /\ CoreSame

(* poll_close, with the lock held: wait for the batch under way, send the  *)
(* close, wait for it; if it has to wait a call that is over is an error.  *)
(* A message held back is not sent: it takes a flush before.               *)
SinkClose ==
  LET r == PollBatch(sink) IN
  /\ sender.at \in {"idle", "close"} /\ ~sender.asleep /\ closeF = "none"
  /\ sink' = r.sink
  /\ IF r.res # "ok"
     THEN sender' = After(r.res, "close", "close", {"batch"}) /\ UNCHANGED closeF
     ELSE IF ~open THEN sender' = Goes("failed") /\ UNCHANGED closeF
     ELSE closeF' = "pending" /\ sender' = Goes("close")
  /\ UNCHANGED <<share, late>> /\ ReaderSame /\ CoreSame

SinkCloseWait ==
  /\ sender.at = "close" /\ ~sender.asleep /\ closeF # "none"
  /\ sender' = CASE closeF = "ok" -> Goes("closed")
                 [] closeF = "err" -> Goes("failed")
                 [] closeF = "stale" -> Goes("panicked")
                 [] closeF = "pending" -> IF Alive THEN Sleeps("close", {"close"}) ELSE Goes("failed")
  /\ closeF' = IF closeF = "pending" THEN closeF ELSE "stale"
  /\ UNCHANGED <<share, late, sink>> /\ ReaderSame /\ CoreSame

SinkEnhance ==
  /\ sender.at \in {"idle", "ready"} /\ ~sender.asleep
  /\ Toggle \/ sink.accepted = <<>>
  /\ sink' = [sink EXCEPT !.enhance = ~@]
  /\ UNCHANGED <<share, late, closeF, sender>> /\ ReaderSame /\ CoreSame

(* The user may cancel, and drop the sink whenever it holds it. What the   *)
(* sink held goes with it.                                                 *)
SinkCancel ==
  /\ sender.at # "dropped"
  /\ Cancel
  /\ UNCHANGED <<share, inbox, sent, open, duplex>> /\ SenderSame /\ ReaderSame

SinkDrop ==
  /\ sender.at \notin {"dropped", "sending", "flushing"}
  /\ sender' = Goes("dropped") /\ sink' = NewSink(FALSE)
  /\ DropHalf(closeF = "none", reader)
  /\ UNCHANGED <<share, late, closeF, inbox, sent, open, duplex>> /\ ReaderSame

-----------------------------------------------------------------------------
(* ShareCall::poll_finish takes the result and marks the call finished.    *)
PollFinish ==
  share' = IF share.close \in {"ok", "failed"}
           THEN [close |-> "stale", finished |-> TRUE] ELSE share

(* ResponseStreamImpl::poll, first half: the status, unless it is known.   *)
RecvFinish ==
  /\ duplex /\ reader.at = "poll" /\ ~reader.asleep
  /\ IF recv.finished THEN reader' = Goes("polling") /\ UNCHANGED <<share, recv>>
     ELSE /\ PollFinish
          /\ recv' = [recv EXCEPT !.finished = share'.finished, !.err = @ \/ share.close = "failed"]
          /\ reader' = CASE share.close = "ok" -> Goes("polling")
                         [] share.close = "failed" -> Goes("failed")
                         [] share.close = "pending" -> [Goes("polling") EXCEPT !.on = {"finish"}]
                         [] share.close = "stale" -> Goes("panicked")
  /\ UNCHANGED yielded /\ SenderSame /\ CoreSame

(* Second half, one turn of the loop: the message under way. The waker     *)
(* registered with the status in the first half stays there.               *)
RecvPending ==
  /\ reader.at = "polling" /\ recv.msg = "pending" /\ ~recv.done
  /\ reader' = [reader EXCEPT !.at = "poll", !.asleep = ~reader.hit, !.on = @ \cup {"msg"}]
  /\ UNCHANGED <<share, recv, yielded>> /\ SenderSame /\ CoreSame

(* Mutant: the end of the messages ends the stream.                        *)
RecvEofEnds ==
  /\ reader.at = "polling" /\ (recv.msg = "eof" \/ recv.done)
  /\ recv' = [recv EXCEPT !.done = TRUE, !.msg = "stale"]
  /\ reader' = Goes("ended")
  /\ UNCHANGED <<share, yielded>> /\ SenderSame /\ CoreSame

(* No message is left: the stream ends if the status is known, or sleeps.  *)
RecvEof ==
  /\ reader.at = "polling" /\ (recv.msg = "eof" \/ recv.done)
  /\ recv' = [recv EXCEPT !.done = TRUE, !.msg = "stale"]
  /\ reader' = IF recv.finished THEN Goes("ended")
             ELSE [reader EXCEPT !.at = "poll", !.asleep = ~reader.hit]
  /\ UNCHANGED <<share, yielded>> /\ SenderSame /\ CoreSame

(* A message, or the first poll: the next recv_message is started before   *)
(* the message is returned, which a queue that was shut down prevents.     *)
RecvStart ==
  /\ reader.at = "polling" /\ ~recv.done /\ recv.msg \in {"none", "data"}
  /\ IF open
     THEN /\ recv' = [recv EXCEPT !.msg = "pending", !.data = 0]
          /\ IF recv.msg = "data"
             THEN reader' = Goes("poll") /\ yielded' = Append(yielded, recv.data)
             ELSE UNCHANGED <<reader, yielded>>
     ELSE /\ recv' = [recv EXCEPT !.msg = "none", !.data = 0, !.err = TRUE]
          /\ reader' = Goes("failed") /\ UNCHANGED yielded
  /\ UNCHANGED share /\ SenderSame /\ CoreSame

(* A stream may be polled again after an error.                            *)
RecvAgain ==
  /\ duplex /\ reader.at = "failed"
  /\ reader' = Goes("poll")
  /\ UNCHANGED <<share, recv, yielded>> /\ SenderSame /\ CoreSame

(* ClientCStreamReceiver::poll: the response comes with the status.        *)
RecvResponse ==
  /\ ~duplex /\ reader.at = "poll" /\ ~reader.asleep
  /\ PollFinish
  /\ recv' = [recv EXCEPT !.finished = share.close = "ok"]
  /\ reader' = CASE share.close = "ok" -> Goes("ended")
                 [] share.close = "failed" -> Goes("failed")
                 [] share.close = "pending" -> Sleeps("poll", {"finish"})
                 [] share.close = "stale" -> Goes("panicked")
  /\ UNCHANGED yielded /\ SenderSame /\ CoreSame

RecvCancel ==
  /\ reader.at \in {"poll", "ended", "failed"}
  /\ Cancel
  /\ UNCHANGED <<share, inbox, sent, open, duplex>> /\ SenderSame /\ ReaderSame

(* What dropping a receiver cancels: a ClientCStreamReceiver without its   *)
(* response; on_drop of the duplex one also when messages may be left.     *)
CStreamCancels == ~recv.finished
DuplexCancels == ~recv.done \/ ~recv.finished

RecvDrop ==
  /\ reader.at \notin {"dropped", "polling"}
  /\ reader' = Goes("dropped") /\ recv' = NewRecv
  /\ DropHalf(IF duplex THEN DuplexCancels ELSE CStreamCancels, sender)
  /\ UNCHANGED <<share, yielded, inbox, sent, open, duplex>> /\ SenderSame

-----------------------------------------------------------------------------
(* gRPC core and the poll thread. A resolved future wakes the task whose   *)
(* waker it holds.                                                         *)
Woken(task, f) == IF f \in task.on
                  THEN [task EXCEPT !.asleep = FALSE, !.hit = TRUE, !.on = @ \ {f}] ELSE task

PeerSend ==
  /\ duplex /\ outcome = "none" /\ sent < MaxIn
  /\ sent' = sent + 1
  /\ inbox' = Append(inbox, sent')
  /\ UNCHANGED <<share, outcome, open, duplex>> /\ SenderSame /\ ReaderSame

PeerFinish ==
  /\ outcome = "none"
  /\ outcome' \in {"ok", "failed"}
  /\ UNCHANGED <<share, inbox, sent, open, duplex>> /\ SenderSame /\ ReaderSame

(* The batch with recv_status_on_client.                                   *)
CloseResolves ==
  /\ share.close = "pending" /\ ~share.finished /\ outcome # "none"
  /\ share' = [share EXCEPT !.close = outcome]
  /\ reader' = Woken(reader, "finish")
  /\ UNCHANGED <<recv, yielded>> /\ SenderSame /\ CoreSame

(* Mutant: a read of a call that failed is not reported.                   *)
RecvResolvesOk ==
  /\ recv.msg = "pending"
  /\ \/ /\ inbox # <<>>
        /\ recv' = [recv EXCEPT !.msg = "data", !.data = Head(inbox)]
        /\ inbox' = Tail(inbox)
     \/ /\ outcome = "ok" /\ inbox = <<>>
        /\ recv' = [recv EXCEPT !.msg = "eof"]
        /\ UNCHANGED inbox
  /\ reader' = Woken(reader, "msg")
  /\ UNCHANGED <<share, yielded, outcome, sent, open, duplex>> /\ SenderSame

(* recv_message: the next message; the end when there is none any more. A  *)
(* call that failed may lose what was not received.                        *)
RecvResolves ==
  /\ recv.msg = "pending"
  /\ \/ /\ inbox # <<>>
        /\ recv' = [recv EXCEPT !.msg = "data", !.data = Head(inbox)]
        /\ inbox' = Tail(inbox)
     \/ /\ outcome = "failed" \/ (outcome = "ok" /\ inbox = <<>>)
        /\ recv' = [recv EXCEPT !.msg = "eof"]
        /\ UNCHANGED inbox
  /\ reader' = Woken(reader, "msg")
  /\ UNCHANGED <<share, yielded, outcome, sent, open, duplex>> /\ SenderSame

(* A batch of the sink fails only when the call is over.                   *)
BatchResolves ==
  /\ sink.batch = "pending"
  /\ \E r \in {"ok", "err"} :
       /\ r = "err" => outcome # "none"
       /\ sink' = [sink EXCEPT !.batch = r]
  /\ sender' = Woken(sender, "batch")
  /\ UNCHANGED <<share, late, closeF>> /\ ReaderSame /\ CoreSame

CloseSendResolves ==
  /\ closeF = "pending"
  /\ \E r \in {"ok", "err"} :
       /\ r = "err" => outcome # "none"
       /\ closeF' = r
  /\ sender' = Woken(sender, "close")
  /\ UNCHANGED <<share, late, sink>> /\ ReaderSame /\ CoreSame

QueueShutdown ==
  /\ open
  /\ open' = FALSE
  /\ UNCHANGED <<share, outcome, inbox, sent, duplex>> /\ SenderSame /\ ReaderSame

Ended == sender.at = "dropped" /\ reader.at = "dropped" /\ UNCHANGED vars

SinkNext ==
  \/ SinkReady \/ SinkSendCheck \/ (\E h \in BOOLEAN : SinkSend(h))
  \/ SinkFlushCheck \/ SinkFlush \/ SinkGiveUpFlush
  \/ SinkClose \/ SinkCloseWait
  \/ SinkEnhance \/ SinkCancel \/ SinkDrop

RecvNext ==
  \/ RecvFinish \/ RecvPending \/ RecvEof \/ RecvStart \/ RecvAgain \/ RecvResponse
  \/ RecvCancel \/ RecvDrop

Core ==
  \/ PeerSend \/ PeerFinish \/ QueueShutdown
  \/ CloseResolves \/ RecvResolves \/ BatchResolves \/ CloseSendResolves

Next == SinkNext \/ RecvNext \/ Core \/ Ended

Spec == Init /\ [][Next]_vars

(* Fairness: a task that is awake goes on with the poll it is in, and the  *)
(* receiver's is polled again; core reports the end of a call and of every *)
(* batch of a call that has ended. Nothing is assumed of the peer, nor of  *)
(* a batch while the call lasts: flow control may hold it back.            *)
Fairness ==
  /\ WF_vars(SinkSendCheck) /\ WF_vars(\E h \in BOOLEAN : SinkSend(h)) /\ WF_vars(SinkFlush)
  /\ WF_vars(RecvFinish) /\ WF_vars(RecvPending) /\ WF_vars(RecvEof)
  /\ WF_vars(RecvStart) /\ WF_vars(RecvResponse)
  /\ WF_vars(CloseResolves)
  /\ WF_vars(outcome # "none" /\ RecvResolves)
  /\ WF_vars(outcome # "none" /\ BatchResolves)
  /\ WF_vars(outcome # "none" /\ CloseSendResolves)

FairSpec == Spec /\ Fairness

-----------------------------------------------------------------------------
Tasks(ats) == [at : ats, asleep : BOOLEAN, on : SUBSET {"batch", "close", "finish", "msg"}, hit : BOOLEAN]
Msgs == [msg : 0..MaxOut, hint : BOOLEAN]

(* Every variable has its type.                                            *)
TypeOK ==
  /\ share \in [close : {"pending", "ok", "failed", "stale"}, finished : BOOLEAN]
  /\ sink \in [batch : Futures, buf : Msgs, lastHint : BOOLEAN, meta : {FALSE}, enhance : BOOLEAN,
              accepted : Seq(Msgs), wire : Seq([msg : 1..MaxOut, hint : BOOLEAN, meta : {FALSE}])]
  /\ closeF \in Futures
  /\ sender \in Tasks(SenderAt) /\ reader \in Tasks(ReaderAt)
  /\ recv \in [msg : {"none", "pending", "data", "eof", "stale"}, data : 0..MaxIn,
              done : BOOLEAN, finished : BOOLEAN, err : BOOLEAN]
  /\ yielded \in Seq(1..MaxIn) /\ inbox \in Seq(1..MaxIn) /\ sent \in 0..MaxIn
  /\ late \in Nat
  /\ outcome \in {"none", "ok", "failed"}
  /\ open \in BOOLEAN /\ duplex \in BOOLEAN

(* Whatever start_send accepted is held back or was handed to core, once   *)
(* and in the order of the calls, as long as the sink has not failed; and  *)
(* batching never turns off the user's request to put a message on the     *)
(* wire (SinkBase, call/mod.rs:710-796). After the status of the call is   *)
(* known the sink hands over at most the one message whose check came      *)
(* before it (call/client.rs:375).                                         *)
AcceptedAccounted ==
  /\ sender.at \notin {"failed", "panicked", "dropped"} => Accounted(sink)
  /\ HintsKept(sink)
  /\ late <= 1

(* The end of the stream without an error means that the call succeeded    *)
(* and every message of the server was returned, in order, although the    *)
(* status and the messages are reported independently.                     *)
StreamComplete ==
  /\ yielded = [i \in 1..Len(yielded) |-> i]
  /\ reader.at = "ended" /\ ~recv.err => outcome = "ok" /\ Len(yielded) = sent

(* A sink and a receiver used as the traits ask never panic: no future is  *)
(* polled after its result, and no batch is started over another.          *)
NoPanic == sender.at # "panicked" /\ reader.at # "panicked"

(* Once the call has ended the receiver comes to know, whatever it was     *)
(* waiting for, and a sink that sleeps is woken.                           *)
EndIsSeen ==
  /\ outcome # "none" ~> reader.at \in {"ended", "failed", "dropped"}
  /\ outcome # "none" /\ sender.asleep ~> ~sender.asleep
=============================================================================
