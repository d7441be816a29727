--------------------------------- MODULE SinkBase ---------------------------------
(***************************************************************************)
(* The part that the client's and the server's streaming sinks share       *)
(* (call/mod.rs, SinkBase), as functions on its state: with `enhance` the  *)
(* latest message is held back until the next one or a flush shows whether *)
(* it is the last, so that the others are sent with the buffer hint.       *)
(*                                                                         *)
(* A future of a batch is "none" (no such Option), "pending", "ok" or      *)
(* "err" (resolved, not polled yet) or "stale" (polled and still there,    *)
(* which panics when it is polled again).                                  *)
(***************************************************************************)
EXTENDS Naturals, Sequences

Futures == {"none", "pending", "ok", "err", "stale"}
NoMsg == [msg |-> 0, hint |-> TRUE]
Result(s, res) == [sink |-> s, res |-> res]

(* task::check_alive: the handle has no result; a stale future has given   *)
(* its result away, which ShareCall remembers as `finished`.               *)
CheckAlive(f) == f \in {"pending", "stale"}

(* ShareCall, which a call's two halves hold, and ShareCall::check_alive.  *)
(* The status it keeps for an error is left out.                           *)
NewShare == [close |-> "pending", finished |-> FALSE]
ShareAlive(sh) == ~sh.finished /\ CheckAlive(sh.close)

(* SinkBase::new; `accepted` and `wire` record what start_send took and    *)
(* what was handed to core.                                                *)
NewSink(meta) ==
  [batch |-> "none", buf |-> NoMsg, lastHint |-> TRUE, meta |-> meta,
   enhance |-> FALSE, accepted |-> <<>>, wire |-> <<>>]

(* Mutant: the message stays in the buffer.                                *)
SendBufferKeeps(s, hint, open) ==
  IF s.batch # "none" THEN Result(s, "panic")
  ELSE IF ~open THEN Result(s, "err")
  ELSE Result([s EXCEPT !.batch = "pending",
                        !.wire = Append(@, [msg |-> s.buf.msg, hint |-> hint, meta |-> s.meta])], "ok")

(* start_send_buffer_message: QueueShutdown leaves the buffer as it is.    *)
SendBuffer(s, hint, open) ==
  IF s.batch # "none" THEN Result(s, "panic")
  ELSE IF ~open THEN Result(s, "err")
  ELSE Result([s EXCEPT !.batch = "pending", !.buf = NoMsg,
                        !.wire = Append(@, [msg |-> s.buf.msg, hint |-> hint, meta |-> s.meta])], "ok")

Accept(r, m, hint) ==
  IF r.res = "ok"
  THEN [r EXCEPT !.sink.accepted = Append(@, [msg |-> m, hint |-> hint])]
  ELSE r

(* Mutant: the next message brings the metadata again.                     *)
SendFirstKeeps(s, m, hint, open) ==
  SendBuffer([s EXCEPT !.buf = [msg |-> m, hint |-> hint]], FALSE, open)

(* start_send of the first message of a server: with the metadata, and     *)
(* never with the hint.                                                    *)
SendFirst(s, m, hint, open) ==
  LET r == SendBuffer([s EXCEPT !.buf = [msg |-> m, hint |-> hint]], FALSE, open)
  IN  IF r.res = "ok" THEN [r EXCEPT !.sink.meta = FALSE] ELSE r

(* start_send of another message: the held one first, as not the last.     *)
SendLater(s, m, hint, open) ==
  LET before == IF s.buf = NoMsg THEN Result(s, "ok") ELSE SendBuffer(s, TRUE, open)
      held == [before.sink EXCEPT !.buf = [msg |-> m, hint |-> hint],
                                  !.lastHint = @ /\ hint]
  IN  IF before.res # "ok" THEN before
      ELSE IF held.enhance THEN Result(held, "ok")
      ELSE SendBuffer(held, hint, open)

StartSend(s, m, hint, open) ==
  Accept(IF s.meta THEN SendFirst(s, m, hint, open) ELSE SendLater(s, m, hint, open), m, hint)

(* Mutant: the future stays when its result was taken.                     *)
PollBatchKeeps(s) ==
  CASE s.batch = "none"    -> Result(s, "ok")
    [] s.batch = "pending" -> Result(s, "pending")
    [] s.batch = "stale"   -> Result(s, "panic")
    [] OTHER               -> Result([s EXCEPT !.batch = "stale"], s.batch)

(* poll_ready: an error leaves the future, now stale, in its place.        *)
PollBatch(s) ==
  CASE s.batch = "none"    -> Result(s, "ok")
    [] s.batch = "pending" -> Result(s, "pending")
    [] s.batch = "ok"      -> Result([s EXCEPT !.batch = "none"], "ok")
    [] s.batch = "err"     -> Result([s EXCEPT !.batch = "stale"], "err")
    [] s.batch = "stale"   -> Result(s, "panic")

(* poll_flush: the held message goes out and its batch is waited for.      *)
Flush(s, open) ==
  LET ready == PollBatch(s)
      sent == SendBuffer(ready.sink, s.lastHint, open)
  IN  IF ready.res # "ok" THEN ready
      ELSE IF ready.sink.buf = NoMsg THEN Result([ready.sink EXCEPT !.lastHint = TRUE], "ok")
      ELSE IF sent.res = "ok" THEN Result(sent.sink, "pending") ELSE sent

(* The messages that were handed over or are held, in the order of sending.*)
Numbers(q) == [i \in 1..Len(q) |-> q[i].msg]
Passed(s) == Numbers(s.wire) \o (IF s.buf = NoMsg THEN <<>> ELSE <<s.buf.msg>>)

(* What SinkBase promises: as long as no send failed, the accepted         *)
(* messages were passed on or are held, once and in order.                 *)
Accounted(s) == Passed(s) = Numbers(s.accepted)

(* When nothing is held back, each message offered without the buffer hint *)
(* is at or before a message that was sent without it.                     *)
HintsKept(s) ==
  s.buf = NoMsg =>
    \A i \in 1..Len(s.wire) :
      ~s.accepted[i].hint => \E j \in i..Len(s.wire) : ~s.wire[j].hint
=============================================================================
