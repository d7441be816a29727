----------------------------- MODULE ServerCallProofs -----------------------------
(***************************************************************************)
(* What the sink of a server's streaming call keeps, proved for every      *)
(* number of messages: the metadata go out once, a close that succeeds     *)
(* comes after everything it stands for, and no future is polled again     *)
(* after its result.                                                       *)
(***************************************************************************)
EXTENDS ServerCall, TLAPS

-----------------------------------------------------------------------------
(* The records.                                                            *)

TaskDom == {"at", "asleep", "on"}
ShareDom == {"close", "finished"}
StatusDom == {"f", "meta"}
SinkDom == {"batch", "buf", "lastHint", "meta", "enhance", "accepted", "wire"}
Offered == [msg : Nat, hint : BOOLEAN]
OnWire == [msg : Nat, hint : BOOLEAN, meta : BOOLEAN]

SinkShape(s) ==
  /\ DOMAIN s = SinkDom /\ s.batch \in Futures
  /\ s.buf \in Offered /\ s.lastHint \in BOOLEAN /\ s.meta \in BOOLEAN
  /\ s.accepted \in Seq(Offered) /\ s.wire \in Seq(OnWire)

Shapes ==
  /\ DOMAIN share = ShareDom /\ DOMAIN status = StatusDom /\ DOMAIN sender = TaskDom
  /\ SinkShape(sink)

(* Of the messages on the wire the first one brings the metadata, and the  *)
(* sink is to send them as long as there is none.                          *)
Brings(x) == x.meta
FirstOnly(w) == \A i \in 1..Len(w) : Brings(w[i]) <=> i = 1
MetaGood(s) == (Brings(s) <=> s.wire = <<>>) /\ FirstOnly(s.wire)

Working == {"idle", "ready", "flush"}

(* Before the metadata are out the sink holds nothing back.                *)
SinkInv ==
  /\ MetaGood(sink)
  /\ sender.at \in Working /\ Brings(sink) => sink.buf = NoMsg

(* The status is sent once, after the last message, and takes along the    *)
(* metadata that the sink has not sent.                                    *)
StatusInv ==
  /\ sender.at \in SenderAt /\ status.f \in Futures
  /\ sender.at \in Working => status.f = "none"
  /\ sender.at \in {"failing", "result"} => status.f # "none"
  /\ status.f # "none" /\ sender.at # "dropped" => (Brings(status) <=> Brings(sink))
  /\ sender.at = "close" /\ status.f # "none" => sink.batch = "none"
  /\ flushed => status.f = "stale"

(* The end of the call is taken once, and only after there is one.         *)
EndInv ==
  /\ share.close \in {"pending", "ok", "stale"}
  /\ share.finished <=> share.close = "stale"
  /\ share.close # "pending" => over # "no"
  /\ sender.at = "closed" => share.close = "stale" /\ status.f = "stale"

(* Where a future may be polled it has not given its result away, and the  *)
(* next message finds the way free.                                        *)
PollInv ==
  /\ sender.at # "panicked"
  /\ sender.at \in Working \cup {"close", "result"} => share.close # "stale"
  /\ sender.at \in Working \cup {"close"} => sink.batch # "stale"
  /\ sender.at = "ready" => sink.batch = "none"
  /\ sender.at \in Working => sink.buf = NoMsg \/ (sink.enhance /\ sink.accepted # <<>>)
  /\ sender.at = "close" /\ status.f = "stale" => flushed

CallInv == Shapes /\ SinkInv /\ StatusInv /\ EndInv /\ PollInv

-----------------------------------------------------------------------------
(* Tasks.                                                                  *)

(* The places a task goes to.                                              *)
LEMMA TaskFields ==
  ASSUME NEW at, NEW on
  PROVE  /\ Goes(at).at = at /\ DOMAIN Goes(at) = TaskDom
         /\ Sleeps(at, on).at = at /\ DOMAIN Sleeps(at, on) = TaskDom
BY DEF Goes, Sleeps, TaskDom

(* A wake-up leaves a task where it is.                                    *)
LEMMA WokenStays ==
  ASSUME NEW t, DOMAIN t = TaskDom, NEW f
  PROVE  Woken(t, f).at = t.at /\ DOMAIN Woken(t, f) = TaskDom
<1>1. CASE f \in t.on
  BY <1>1 DEF Woken, TaskDom
<1>2. CASE f \notin t.on
  BY <1>2 DEF Woken
<1> QED
  BY <1>1, <1>2

(* Where the result of a poll leads its task.                              *)
LEMMA AfterAt ==
  ASSUME NEW res \in {"ok", "pending", "err", "panic"}, NEW next, NEW stay, NEW on
  PROVE  /\ DOMAIN After(res, next, stay, on) = TaskDom
         /\ res = "ok" => After(res, next, stay, on).at = next
         /\ res = "pending" => After(res, next, stay, on).at = stay
         /\ res = "err" => After(res, next, stay, on).at = "failed"
         /\ res = "panic" => After(res, next, stay, on).at = "panicked"
<1>1. CASE res = "ok"
  BY <1>1, TaskFields DEF After
<1>2. CASE res = "pending"
  BY <1>2, TaskFields DEF After
<1>3. CASE res = "err"
  BY <1>3, TaskFields DEF After
<1>4. CASE res = "panic"
  BY <1>4, TaskFields DEF After
<1> QED
  BY <1>1, <1>2, <1>3, <1>4

-----------------------------------------------------------------------------
(* What the sink's operations make of its metadata.                        *)

(* One more message on the wire, with the metadata if it is the first.     *)
LEMMA WireMore ==
  ASSUME NEW w \in Seq(OnWire), NEW e \in OnWire, FirstOnly(w), Brings(e) <=> w = <<>>
  PROVE  Append(w, e) \in Seq(OnWire) /\ Append(w, e) # <<>> /\ FirstOnly(Append(w, e))
<1> DEFINE a == Append(w, e)
<1>1. a \in Seq(OnWire) /\ Len(a) = Len(w) + 1 /\ Len(w) \in Nat /\ a[Len(w) + 1] = e
  OBVIOUS
<1>2. \A i \in 1..Len(w) : a[i] = w[i]
  OBVIOUS
<1>3. a # <<>>
  BY <1>1
<1>4. w = <<>> <=> Len(w) = 0
  OBVIOUS
<1> HIDE DEF a
<1>5. ASSUME NEW i \in 1..Len(a) PROVE Brings(a[i]) <=> i = 1
  <2>1. CASE i \in 1..Len(w)
    BY <1>2, <2>1 DEF FirstOnly
  <2>2. CASE i = Len(w) + 1
    <3>1. i = 1 <=> w = <<>>
      BY <1>1, <1>4, <2>2
    <3>2. a[i] = e
      BY <1>1, <2>2
    <3> QED
      BY <3>1, <3>2
  <2> QED
    BY <1>1, <1>5, <2>1, <2>2
<1>6. FirstOnly(a)
  BY <1>5 DEF FirstOnly
<1> QED
  BY <1>1, <1>3, <1>6 DEF a

(* poll_ready keeps everything but the batch.                              *)
PollGoes(s, r) ==
  /\ DOMAIN r.sink = SinkDom /\ DOMAIN r = {"sink", "res"}
  /\ r.sink.buf = s.buf /\ r.sink.lastHint = s.lastHint /\ r.sink.meta = s.meta
  /\ r.sink.enhance = s.enhance /\ r.sink.accepted = s.accepted /\ r.sink.wire = s.wire
  /\ \/ r.res = "ok" /\ r.sink.batch = "none"
     \/ r.res = "pending" /\ r.sink.batch = "pending"
     \/ r.res = "err" /\ r.sink.batch = "stale"
     \/ r.res = "panic" /\ r.sink.batch = "stale" /\ s.batch = "stale"

(* SinkBase::poll_ready takes the result of the batch and nothing else.    *)
LEMMA Polled ==
  ASSUME NEW s, DOMAIN s = SinkDom, s.batch \in Futures
  PROVE  PollGoes(s, PollBatch(s))
<1>1. CASE s.batch \in {"none", "pending", "stale"}
  BY <1>1 DEF PollBatch, Result, PollGoes
<1>2. CASE s.batch \in {"ok", "err"}
  BY <1>2 DEF PollBatch, Result, SinkDom, PollGoes
<1> QED
  BY <1>1, <1>2 DEF Futures

Wired(s, hint) == Append(s.wire, [msg |-> s.buf.msg, hint |-> hint, meta |-> s.meta])
BufferGoes(s, hint, o, r) ==
  /\ DOMAIN r.sink = SinkDom /\ DOMAIN r = {"sink", "res"}
  /\ s.batch # "none" => r.res = "panic" /\ r.sink = s
  /\ s.batch = "none" /\ ~o => r.res = "err" /\ r.sink = s
  /\ s.batch = "none" /\ o =>
       /\ r.res = "ok" /\ r.sink.batch = "pending" /\ r.sink.buf = NoMsg
       /\ r.sink.lastHint = s.lastHint /\ r.sink.meta = s.meta
       /\ r.sink.enhance = s.enhance /\ r.sink.accepted = s.accepted
       /\ r.sink.wire = Wired(s, hint)

(* start_send_buffer_message sends what is held or leaves the sink alone.  *)
LEMMA Buffered ==
  ASSUME NEW s, DOMAIN s = SinkDom, NEW hint, NEW o
  PROVE  BufferGoes(s, hint, o, SendBuffer(s, hint, o))
<1>1. CASE s.batch # "none"
  BY <1>1 DEF SendBuffer, Result, BufferGoes
<1>2. CASE s.batch = "none" /\ ~o
  BY <1>2 DEF SendBuffer, Result, BufferGoes
<1>3. CASE s.batch = "none" /\ o
  BY <1>3, Zenon DEF SendBuffer, Result, SinkDom, BufferGoes, Wired
<1> QED
  BY <1>1, <1>2, <1>3

(* The buffered message goes out with the metadata exactly if it is the    *)
(* first on the wire.                                                      *)
LEMMA WiredGood ==
  ASSUME NEW s, SinkShape(s), MetaGood(s), NEW hint \in BOOLEAN
  PROVE  Wired(s, hint) \in Seq(OnWire) /\ Wired(s, hint) # <<>> /\ FirstOnly(Wired(s, hint))
<1> DEFINE e == [msg |-> s.buf.msg, hint |-> hint, meta |-> s.meta]
<1>1. e \in OnWire
  BY DEF SinkShape, Offered, OnWire
<1>2. Brings(e) <=> Brings(s)
  BY DEF Brings
<1>3. s.wire \in Seq(OnWire)
  BY DEF SinkShape
<1> HIDE DEF e
<1>4. FirstOnly(s.wire) /\ (Brings(e) <=> s.wire = <<>>)
  BY <1>2 DEF MetaGood
<1>5. Append(s.wire, e) \in Seq(OnWire) /\ Append(s.wire, e) # <<>> /\ FirstOnly(Append(s.wire, e))
  BY <1>1, <1>3, <1>4, WireMore
<1> QED
  BY <1>5 DEF Wired, e

(* What sending the buffered message of a sink leaves, once the metadata   *)
(* are out.                                                                *)
BufferSent(s, o, r) ==
  /\ DOMAIN r = {"sink", "res"}
  /\ SinkShape(r.sink) /\ MetaGood(r.sink) /\ ~Brings(r.sink)
  /\ r.sink.enhance = s.enhance /\ r.sink.accepted = s.accepted
  /\ s.batch # "none" => r.res = "panic" /\ r.sink = s
  /\ s.batch = "none" /\ ~o => r.res = "err" /\ r.sink = s
  /\ s.batch = "none" /\ o => r.res = "ok" /\ r.sink.batch = "pending" /\ r.sink.buf = NoMsg

LEMMA BufferSends ==
  ASSUME NEW s, SinkShape(s), MetaGood(s), ~Brings(s), NEW hint \in BOOLEAN, NEW o
  PROVE  BufferSent(s, o, SendBuffer(s, hint, o))
<1> DEFINE r == SendBuffer(s, hint, o)
<1>1. BufferGoes(s, hint, o, r)
  <2>1. DOMAIN s = SinkDom
    BY DEF SinkShape
  <2> QED
    BY <2>1, Buffered, Zenon
<1>2. Wired(s, hint) \in Seq(OnWire) /\ Wired(s, hint) # <<>> /\ FirstOnly(Wired(s, hint))
  BY WiredGood, Zenon
<1> HIDE DEF r
<1>3. CASE s.batch = "none" /\ o
  <2>1. SinkShape(r.sink)
    <3>1. NoMsg \in Offered /\ "pending" \in Futures
      BY DEF NoMsg, Offered, Futures
    <3> QED
      BY <1>1, <1>2, <1>3, <3>1, Zenon DEF SinkShape, BufferGoes
  <2>2. ~Brings(r.sink)
    BY <1>1, <1>3 DEF BufferGoes, Brings
  <2>3. MetaGood(r.sink)
    BY <1>1, <1>2, <1>3, <2>2 DEF BufferGoes, MetaGood
  <2> QED
    BY <1>1, <1>3, <2>1, <2>2, <2>3, Zenon DEF BufferGoes, BufferSent, r
<1>4. CASE ~(s.batch = "none" /\ o)
  <2>1. r.sink = s /\ (s.batch # "none" => r.res = "panic") /\ (s.batch = "none" => r.res = "err")
    BY <1>1, <1>4 DEF BufferGoes
  <2> QED
    BY <1>1, <1>4, <2>1 DEF BufferGoes, BufferSent, r
<1> QED
  BY <1>3, <1>4

-----------------------------------------------------------------------------
(* start_send and poll_flush.                                              *)

Message(m, hint) == [msg |-> m, hint |-> hint]

(* The message of start_send in the place of the one that was held.        *)
First(s, m, hint) == [s EXCEPT !.buf = [msg |-> m, hint |-> hint]]
Holding(s, m, hint) ==
  [s EXCEPT !.buf = [msg |-> m, hint |-> hint], !.lastHint = @ /\ hint]
NowHolds(s, m, hint, h) ==
  /\ DOMAIN h = SinkDom /\ h.buf = Message(m, hint) /\ h.lastHint \in BOOLEAN
  /\ h.batch = s.batch /\ h.meta = s.meta /\ h.enhance = s.enhance
  /\ h.accepted = s.accepted /\ h.wire = s.wire

(* The new message is held, and nothing else changes.                      *)
LEMMA HoldingFields ==
  ASSUME NEW s, SinkShape(s), NEW m, NEW hint \in BOOLEAN
  PROVE  NowHolds(s, m, hint, First(s, m, hint)) /\ NowHolds(s, m, hint, Holding(s, m, hint))
<1>1. NowHolds(s, m, hint, First(s, m, hint))
  BY DEF First, SinkShape, SinkDom, NowHolds, Message
<1>2. NowHolds(s, m, hint, Holding(s, m, hint))
  BY DEF Holding, SinkShape, SinkDom, NowHolds, Message
<1> QED
  BY <1>1, <1>2

(* A sink that is well formed, and brings the metadata if the other does.  *)
StillGood(s, h) == SinkShape(h) /\ MetaGood(h) /\ (Brings(h) <=> Brings(s))

(* A sink that holds a message is one as before.                           *)
LEMMA HoldingGood ==
  ASSUME NEW s, SinkShape(s), MetaGood(s), NEW m \in Nat, NEW hint \in BOOLEAN, NEW h,
         NowHolds(s, m, hint, h)
  PROVE  StillGood(s, h)
<1>1. Message(m, hint) \in Offered
  BY DEF Message, Offered
<1>2. SinkShape(h)
  BY <1>1, Zenon DEF SinkShape, NowHolds
<1>3. Brings(h) <=> Brings(s)
  BY Zenon DEF Brings, NowHolds
<1>4. MetaGood(h)
  BY <1>3, Zenon DEF MetaGood, NowHolds
<1> QED
  BY <1>2, <1>3, <1>4, Zenon DEF StillGood

(* The ways a message goes from a sink that is ready: out, held back,      *)
(* refused, or over another, which only a sink that stopped batching does. *)
Sent(s, r) ==
  /\ DOMAIN r = {"sink", "res"} /\ r.res \in {"ok", "err", "panic"}
  /\ SinkShape(r.sink) /\ MetaGood(r.sink)
  /\ r.sink.enhance = s.enhance /\ r.sink.accepted = s.accepted
  /\ r.res = "ok" => /\ ~Brings(r.sink) /\ r.sink.batch # "stale"
                     /\ r.sink.buf = NoMsg \/ r.sink.enhance
  /\ r.res = "panic" => s.buf # NoMsg /\ ~s.enhance

(* start_send of the first message: the metadata go with it or stay.       *)
LEMMA FirstSends ==
  ASSUME NEW s, SinkShape(s), MetaGood(s), Brings(s), s.batch = "none",
         NEW m \in Nat, NEW hint \in BOOLEAN, NEW o
  PROVE  Sent(s, SendFirst(s, m, hint, o))
<1> DEFINE h == First(s, m, hint)
           b == SendBuffer(h, FALSE, o)
           r == SendFirst(s, m, hint, o)
<1>1. NowHolds(s, m, hint, h)
  BY HoldingFields, Zenon
<1>2. SinkShape(h) /\ MetaGood(h) /\ (Brings(h) <=> Brings(s))
  <2>1. StillGood(s, h)
    BY <1>1, HoldingGood, Zenon
  <2> QED
    BY <2>1, Zenon DEF StillGood
<1>3. BufferGoes(h, FALSE, o, b)
  <2>1. DOMAIN h = SinkDom
    BY <1>1 DEF NowHolds
  <2> QED
    BY <2>1, Buffered, Zenon
<1>4. Wired(h, FALSE) \in Seq(OnWire) /\ Wired(h, FALSE) # <<>> /\ FirstOnly(Wired(h, FALSE))
  <2>1. FALSE \in BOOLEAN
    OBVIOUS
  <2> QED
    BY <1>2, <2>1, WiredGood, Zenon
<1>5. r = IF b.res = "ok" THEN [b EXCEPT !.sink.meta = FALSE] ELSE b
  BY DEF SendFirst, First
<1> HIDE DEF h, b, r
<1>6. h.batch = "none" /\ h.enhance = s.enhance /\ h.accepted = s.accepted
  BY <1>1 DEF NowHolds
<1>7. CASE o
  <2>1. /\ b.res = "ok" /\ b.sink.batch = "pending" /\ b.sink.buf = NoMsg
        /\ b.sink.lastHint = h.lastHint /\ b.sink.enhance = s.enhance
        /\ b.sink.accepted = s.accepted /\ b.sink.wire = Wired(h, FALSE)
        /\ DOMAIN b.sink = SinkDom /\ DOMAIN b = {"sink", "res"}
    BY <1>3, <1>6, <1>7, Zenon DEF BufferGoes
  <2>2. r = [b EXCEPT !.sink.meta = FALSE]
    BY <1>5, <2>1
  <2>3. DOMAIN r = {"sink", "res"} /\ r.res = "ok" /\ r.sink = [b.sink EXCEPT !.meta = FALSE]
    BY <2>1, <2>2
  <2>4. /\ DOMAIN r.sink = SinkDom /\ r.sink.meta = FALSE /\ r.sink.batch = "pending"
        /\ r.sink.buf = NoMsg /\ r.sink.lastHint = h.lastHint /\ r.sink.enhance = s.enhance
        /\ r.sink.accepted = s.accepted /\ r.sink.wire = Wired(h, FALSE)
    BY <2>1, <2>3, Zenon DEF SinkDom
  <2>5. NoMsg \in Offered /\ "pending" \in Futures
    BY DEF NoMsg, Offered, Futures
  <2>6. s.accepted \in Seq(Offered) /\ h.lastHint \in BOOLEAN
    BY <1>2 DEF SinkShape
  <2>7. SinkShape(r.sink)
    BY <1>4, <2>4, <2>5, <2>6, Zenon DEF SinkShape
  <2>8. ~Brings(r.sink)
    BY <2>4, Zenon DEF Brings
  <2>9. MetaGood(r.sink)
    BY <1>4, <2>4, <2>8, Zenon DEF MetaGood
  <2> QED
    BY <2>3, <2>4, <2>7, <2>8, <2>9 DEF Sent, r
<1>8. CASE ~o
  <2>1. b.res = "err" /\ b.sink = h /\ DOMAIN b = {"sink", "res"}
    BY <1>3, <1>6, <1>8 DEF BufferGoes
  <2>2. r = b
    BY <1>5, <2>1
  <2> QED
    BY <1>2, <1>6, <2>1, <2>2 DEF Sent, r
<1> QED
  BY <1>7, <1>8

(* start_send of another message, as two sends.                            *)
LEMMA Later ==
  ASSUME NEW s, NEW m, NEW hint, NEW o
  PROVE  LET b == IF s.buf = NoMsg THEN Result(s, "ok") ELSE SendBuffer(s, TRUE, o)
             h == Holding(b.sink, m, hint)
         IN  SendLater(s, m, hint, o) =
               IF b.res # "ok" THEN b
               ELSE IF h.enhance THEN Result(h, "ok") ELSE SendBuffer(h, hint, o)
BY DEF SendLater, Holding

(* The second of them: the new message is held back or goes out.           *)
HoldOrSend(h, hint, o) == IF h.enhance THEN Result(h, "ok") ELSE SendBuffer(h, hint, o)

LEMMA HeldOrSent ==
  ASSUME NEW s, NEW h, SinkShape(h), MetaGood(h), ~Brings(h), NEW hint \in BOOLEAN, NEW o,
         h.enhance = s.enhance, h.accepted = s.accepted,
         h.batch \in {"none", "pending"}, h.batch = "pending" => s.buf # NoMsg
  PROVE  Sent(s, HoldOrSend(h, hint, o))
<1> DEFINE r == HoldOrSend(h, hint, o)
<1>1. CASE h.enhance
  <2>1. r = Result(h, "ok")
    BY <1>1 DEF HoldOrSend
  <2>2. DOMAIN r = {"sink", "res"} /\ r.sink = h /\ r.res = "ok"
    BY <2>1 DEF Result
  <2> HIDE DEF r
  <2> QED
    BY <1>1, <2>2, Zenon DEF Sent, r
<1>2. CASE ~h.enhance
  <2>1. r = SendBuffer(h, hint, o)
    BY <1>2 DEF HoldOrSend
  <2>2. BufferSent(h, o, r)
    <3> HIDE DEF r
    <3>1. BufferSent(h, o, SendBuffer(h, hint, o))
      BY BufferSends, Zenon
    <3> QED
      BY <2>1, <3>1
  <2> HIDE DEF r
  <2> QED
    BY <1>2, <2>2 DEF BufferSent, Sent, r
<1> QED
  BY <1>1, <1>2

LEMMA LaterSends ==
  ASSUME NEW s, SinkShape(s), MetaGood(s), ~Brings(s), s.batch = "none",
         NEW m \in Nat, NEW hint \in BOOLEAN, NEW o
  PROVE  Sent(s, SendLater(s, m, hint, o))
<1> DEFINE l == SendLater(s, m, hint, o)
           h1 == Holding(s, m, hint)
           b == SendBuffer(s, TRUE, o)
           h2 == Holding(b.sink, m, hint)
<1>1. CASE s.buf = NoMsg
  <2>1. Result(s, "ok").sink = s /\ Result(s, "ok").res = "ok"
    BY DEF Result
  <2>2. l = HoldOrSend(h1, hint, o)
    BY <1>1, <2>1, Later, Zenon DEF HoldOrSend
  <2>3. NowHolds(s, m, hint, h1)
    BY HoldingFields, Zenon
  <2>4. SinkShape(h1) /\ MetaGood(h1) /\ (Brings(h1) <=> Brings(s))
    <3>1. StillGood(s, h1)
      BY <2>3, HoldingGood, Zenon
    <3> QED
      BY <3>1, Zenon DEF StillGood
  <2>5. h1.enhance = s.enhance /\ h1.accepted = s.accepted /\ h1.batch = "none"
    BY <2>3 DEF NowHolds
  <2> HIDE DEF l, h1
  <2>6. Sent(s, HoldOrSend(h1, hint, o))
    BY <2>4, <2>5, HeldOrSent
  <2> QED
    BY <2>2, <2>6 DEF l
<1>2. CASE s.buf # NoMsg
  <2>1. l = IF b.res # "ok" THEN b ELSE HoldOrSend(h2, hint, o)
    BY <1>2, Later, Zenon DEF HoldOrSend
  <2>2. BufferSent(s, o, b)
    <3>1. TRUE \in BOOLEAN
      OBVIOUS
    <3> QED
      BY <3>1, BufferSends, Zenon
  <2>3. SinkShape(b.sink) /\ MetaGood(b.sink) /\ ~Brings(b.sink)
    BY <2>2, Zenon DEF BufferSent
  <2>4. NowHolds(b.sink, m, hint, h2)
    BY <2>3, HoldingFields, Zenon
  <2>5. SinkShape(h2) /\ MetaGood(h2) /\ ~Brings(h2)
    <3> HIDE DEF b, h2
    <3>1. StillGood(b.sink, h2)
      BY <2>3, <2>4, HoldingGood, Zenon
    <3> QED
      BY <2>3, <3>1, Zenon DEF StillGood
  <2> HIDE DEF l, b, h2
  <2>6. CASE o
    <3>1. /\ b.res = "ok" /\ b.sink.batch = "pending" /\ b.sink.enhance = s.enhance
          /\ b.sink.accepted = s.accepted
      BY <2>2, <2>6 DEF BufferSent
    <3>2. h2.enhance = s.enhance /\ h2.accepted = s.accepted /\ h2.batch = "pending"
      BY <2>4, <3>1 DEF NowHolds
    <3>3. Sent(s, HoldOrSend(h2, hint, o))
      BY <1>2, <2>5, <3>2, HeldOrSent
    <3> QED
      BY <2>1, <3>1, <3>3 DEF l
  <2>7. CASE ~o
    <3>1. b.res = "err" /\ b.sink = s /\ DOMAIN b = {"sink", "res"}
      BY <2>2, <2>7 DEF BufferSent
    <3>2. l = b
      BY <2>1, <3>1
    <3> QED
      BY <3>1, <3>2 DEF Sent, l
  <2> QED
    BY <2>6, <2>7
<1> QED
  BY <1>1, <1>2

(* start_send on a sink that is ready: what it accepts is out or held, and *)
(* the metadata are out with it.                                           *)
Started(s, r) ==
  /\ r.res \in {"ok", "err", "panic"} /\ SinkShape(r.sink) /\ MetaGood(r.sink)
  /\ r.res = "ok" => /\ ~Brings(r.sink) /\ r.sink.batch # "stale"
                     /\ r.sink.buf = NoMsg \/ (r.sink.enhance /\ r.sink.accepted # <<>>)
  /\ r.res = "panic" => s.buf # NoMsg /\ ~s.enhance

LEMMA Accepts ==
  ASSUME NEW s, NEW r, Sent(s, r), NEW m \in Nat, NEW hint \in BOOLEAN
  PROVE  Started(s, Accept(r, m, hint))
<1> DEFINE a == Accept(r, m, hint)
<1>1. CASE r.res # "ok"
  <2>1. a = r
    BY <1>1 DEF Accept
  <2> QED
    BY <1>1, <2>1 DEF Sent, Started
<1>2. CASE r.res = "ok"
  <2>1. Message(m, hint) \in Offered /\ r.sink.accepted \in Seq(Offered)
    BY <1>2 DEF Message, Offered, Sent, SinkShape
  <2>2. /\ Append(r.sink.accepted, Message(m, hint)) \in Seq(Offered)
        /\ Append(r.sink.accepted, Message(m, hint)) # <<>>
    <3>1. /\ Append(r.sink.accepted, Message(m, hint)) \in Seq(Offered)
          /\ Len(Append(r.sink.accepted, Message(m, hint))) = Len(r.sink.accepted) + 1
          /\ Len(r.sink.accepted) \in Nat
      BY <2>1
    <3> QED
      BY <3>1
  <2>3. DOMAIN r.sink = SinkDom /\ DOMAIN r = {"sink", "res"}
    BY DEF Sent, SinkShape
  <2>4. /\ a.res = "ok" /\ DOMAIN a.sink = SinkDom
        /\ a.sink.accepted = Append(r.sink.accepted, Message(m, hint))
        /\ a.sink.batch = r.sink.batch /\ a.sink.buf = r.sink.buf
        /\ a.sink.lastHint = r.sink.lastHint /\ a.sink.meta = r.sink.meta
        /\ a.sink.enhance = r.sink.enhance /\ a.sink.wire = r.sink.wire
    BY <1>2, <2>3 DEF Accept, SinkDom, Message
  <2> HIDE DEF a
  <2>5. SinkShape(a.sink)
    BY <2>2, <2>4, Zenon DEF Sent, SinkShape
  <2>6. Brings(a.sink) <=> Brings(r.sink)
    BY <2>4, Zenon DEF Brings
  <2>7. MetaGood(a.sink)
    BY <2>4, <2>6, Zenon DEF Sent, MetaGood
  <2> QED
    BY <1>2, <2>2, <2>4, <2>5, <2>6, <2>7 DEF Sent, Started, a
<1> QED
  BY <1>1, <1>2

(* SinkBase::start_send.                                                   *)
LEMMA Starts ==
  ASSUME NEW s, SinkShape(s), MetaGood(s), s.batch = "none",
         NEW m \in Nat, NEW hint \in BOOLEAN, NEW o
  PROVE  Started(s, StartSend(s, m, hint, o))
<1>1. CASE Brings(s)
  <2>1. Sent(s, SendFirst(s, m, hint, o))
    BY <1>1, FirstSends, Zenon
  <2>2. StartSend(s, m, hint, o) = Accept(SendFirst(s, m, hint, o), m, hint)
    BY <1>1 DEF StartSend, Brings
  <2> QED
    BY <2>1, <2>2, Accepts, Zenon
<1>2. CASE ~Brings(s)
  <2>1. Sent(s, SendLater(s, m, hint, o))
    BY <1>2, LaterSends, Zenon
  <2>2. StartSend(s, m, hint, o) = Accept(SendLater(s, m, hint, o), m, hint)
    BY <1>2 DEF StartSend, Brings
  <2> QED
    BY <2>1, <2>2, Accepts, Zenon
<1> QED
  BY <1>1, <1>2

(* poll_flush of a sink that holds nothing before the metadata are out:    *)
(* what it sends is not the first message.                                 *)
Flushed(s, r) ==
  /\ r.res \in {"ok", "pending", "err"} /\ SinkShape(r.sink) /\ MetaGood(r.sink)
  /\ Brings(r.sink) <=> Brings(s)
  /\ r.sink.buf \in {s.buf, NoMsg}
  /\ r.sink.enhance = s.enhance /\ r.sink.accepted = s.accepted
  /\ r.res # "err" => r.sink.batch # "stale"

(* SinkBase::poll_ready leaves the sink as it was but for the batch.       *)
LEMMA PollGood ==
  ASSUME NEW s, SinkShape(s), MetaGood(s), NEW r, PollGoes(s, r)
  PROVE  SinkShape(r.sink) /\ MetaGood(r.sink) /\ (Brings(r.sink) <=> Brings(s))
<1>1. r.sink.batch \in Futures
  BY DEF PollGoes, Futures
<1>2. SinkShape(r.sink)
  BY <1>1, Zenon DEF SinkShape, PollGoes
<1>3. Brings(r.sink) <=> Brings(s)
  BY Zenon DEF Brings, PollGoes
<1>4. MetaGood(r.sink)
  BY <1>3, Zenon DEF MetaGood, PollGoes
<1> QED
  BY <1>2, <1>3, <1>4

(* SinkBase::poll_flush.                                                   *)
LEMMA Flushes ==
  ASSUME NEW s, SinkShape(s), MetaGood(s), Brings(s) => s.buf = NoMsg, s.batch # "stale", NEW o
  PROVE  Flushed(s, Flush(s, o))
<1> DEFINE p == PollBatch(s)
           b == SendBuffer(p.sink, s.lastHint, o)
           e == [p.sink EXCEPT !.lastHint = TRUE]
           r == Flush(s, o)
<1>1. PollGoes(s, p)
  <2>1. DOMAIN s = SinkDom /\ s.batch \in Futures
    BY DEF SinkShape
  <2> QED
    BY <2>1, Polled, Zenon
<1>2. SinkShape(p.sink) /\ MetaGood(p.sink) /\ (Brings(p.sink) <=> Brings(s))
  <2> HIDE DEF p
  <2> QED
    BY <1>1, PollGood, Zenon
<1>3. r = IF p.res # "ok" THEN p
          ELSE IF p.sink.buf = NoMsg THEN Result(e, "ok")
          ELSE IF b.res = "ok" THEN Result(b.sink, "pending") ELSE b
  BY DEF Flush
<1>4. \A x, y : Result(x, y).sink = x /\ Result(x, y).res = y
  BY DEF Result
<1> HIDE DEF p, b, r
<1>5. /\ p.sink.buf = s.buf /\ p.sink.enhance = s.enhance /\ p.sink.accepted = s.accepted
      /\ \/ p.res = "ok" /\ p.sink.batch = "none"
         \/ p.res = "pending" /\ p.sink.batch = "pending"
         \/ p.res = "err" /\ p.sink.batch = "stale"
  BY <1>1 DEF PollGoes
<1>6. CASE p.res # "ok"
  <2>1. r = p
    BY <1>3, <1>6
  <2> QED
    BY <1>2, <1>5, <1>6, <2>1 DEF Flushed, r
<1>7. CASE p.res = "ok" /\ s.buf = NoMsg
  <2>1. r.sink = e /\ r.res = "ok"
    BY <1>3, <1>4, <1>5, <1>7
  <2>2. DOMAIN p.sink = SinkDom
    BY <1>2 DEF SinkShape
  <2>3. /\ DOMAIN e = SinkDom /\ e.lastHint = TRUE /\ e.batch = p.sink.batch /\ e.buf = p.sink.buf
        /\ e.meta = p.sink.meta /\ e.enhance = p.sink.enhance
        /\ e.accepted = p.sink.accepted /\ e.wire = p.sink.wire
    BY <2>2 DEF SinkDom
  <2> HIDE DEF e
  <2>4. SinkShape(e)
    BY <1>2, <2>3, Zenon DEF SinkShape
  <2>5. Brings(e) <=> Brings(s)
    BY <1>2, <2>3, Zenon DEF Brings
  <2>6. MetaGood(e)
    BY <1>2, <2>3, <2>5, Zenon DEF MetaGood
  <2> QED
    BY <1>5, <1>7, <2>1, <2>3, <2>4, <2>5, <2>6 DEF Flushed, r
<1>8. CASE p.res = "ok" /\ s.buf # NoMsg
  <2>1. r = IF b.res = "ok" THEN Result(b.sink, "pending") ELSE b
    BY <1>3, <1>5, <1>8
  <2>2. ~Brings(s) /\ p.sink.batch = "none"
    BY <1>5, <1>8
  <2>3. BufferSent(p.sink, o, b)
    <3>1. s.lastHint \in BOOLEAN
      BY Zenon DEF SinkShape
    <3>2. BufferSent(p.sink, o, SendBuffer(p.sink, s.lastHint, o))
      BY <1>2, <2>2, <3>1, BufferSends, Zenon
    <3> QED
      BY <3>2 DEF b
  <2>4. CASE o
    <3>1. b.res = "ok" /\ b.sink.batch = "pending" /\ b.sink.buf = NoMsg
      BY <2>2, <2>3, <2>4 DEF BufferSent
    <3>2. r.sink = b.sink /\ r.res = "pending"
      BY <1>4, <2>1, <3>1
    <3> QED
      BY <1>5, <2>2, <2>3, <3>1, <3>2 DEF BufferSent, Flushed, r
  <2>5. CASE ~o
    <3>1. b.res = "err" /\ b.sink = p.sink
      BY <2>2, <2>3, <2>5 DEF BufferSent
    <3>2. r = b
      BY <2>1, <3>1
    <3> QED
      BY <1>2, <1>5, <3>1, <3>2 DEF Flushed, r
  <2> QED
    BY <2>4, <2>5
<1> QED
  BY <1>5, <1>6, <1>7, <1>8

-----------------------------------------------------------------------------
(* The steps.                                                              *)

(* What the steps of the receiver, of the client and of core about         *)
(* messages leave alone.                                                   *)
SinkSide == <<share, sink, status, flushed, sender>>
OverStays == over # "no" => over' # "no"

(* A call that is over stays so.                                           *)
LEMMA EndStays == ASSUME [Next]_vars PROVE OverStays
<1>1. ASSUME NEW c, NEW h, DropHalf(c, h) PROVE OverStays
  BY <1>1 DEF DropHalf, Cancel, CoreCancels, OverStays
<1>2. CASE SinkNext
  <2>1. CASE SinkDrop
    BY <1>1, <2>1 DEF SinkDrop
  <2>2. CASE ~SinkDrop
    BY <1>2, <2>2 DEF SinkNext, SinkReady, SinkSend, SinkFlush, SinkGiveUpFlush, SinkEnhance,
       SinkClose, SinkCloseFlush, SinkCloseFinish, SinkFail, FailPoll, SinkComplete, ResultPoll,
       CoreSame, OverStays
  <2> QED
    BY <2>1, <2>2
<1>3. CASE RecvNext
  <2>1. CASE RecvDrop
    BY <1>1, <2>1 DEF RecvDrop
  <2>2. CASE ~RecvDrop
    BY <1>3, <2>2 DEF RecvNext, RecvCheck, RecvPending, RecvEof, RecvStart, CoreSame, OverStays
  <2> QED
    BY <2>1, <2>2
<1>4. CASE Core
  BY <1>4 DEF Core, ClientSend, ClientClose, ClientCancel, QueueShutdown, CloseResolves,
     RecvResolves, BatchResolves, StatusResolves, CoreSame, OverStays
<1>5. CASE Ended \/ UNCHANGED vars
  BY <1>5 DEF Ended, vars, OverStays
<1> QED
  BY <1>2, <1>3, <1>4, <1>5 DEF Next

(* The steps that leave the sink's side alone keep the invariant.          *)
LEMMA Elsewhere ==
  ASSUME CallInv, OverStays, UNCHANGED SinkSide
  PROVE  CallInv'
<1> USE DEF SinkSide
<1>1. Shapes'
  BY Zenon DEF CallInv, Shapes
<1>2. SinkInv'
  BY Zenon DEF CallInv, SinkInv
<1>3. StatusInv'
  BY Zenon DEF CallInv, StatusInv
<1>4. EndInv'
  BY DEF CallInv, EndInv, OverStays
<1>5. PollInv'
  BY Zenon DEF CallInv, PollInv
<1> QED
  BY <1>1, <1>2, <1>3, <1>4, <1>5 DEF CallInv

(* ShareCall::poll_finish takes the end of the call if there is one.       *)
FinishGoes ==
  /\ DOMAIN share' = ShareDom
  /\ share.close = "ok" => share'.close = "stale" /\ share'.finished
  /\ share.close # "ok" => share' = share

LEMMA Finishes == ASSUME Shapes, PollFinish PROVE FinishGoes
<1>1. CASE share.close = "ok"
  <2>1. share' = [close |-> "stale", finished |-> TRUE]
    BY <1>1 DEF PollFinish, Finished
  <2> QED
    BY <1>1, <2>1 DEF FinishGoes, ShareDom
<1>2. CASE share.close # "ok"
  BY <1>2 DEF PollFinish, Finished, FinishGoes, Shapes
<1> QED
  BY <1>1, <1>2

(* A sink whose call turns out to be over fails, and keeps what it has.    *)
LEMMA SeesEnd ==
  ASSUME CallInv, OverStays, FinishGoes, share.close = "ok", sender.at \in Working,
         sender' = Goes("failed"), UNCHANGED <<sink, status, flushed>>
  PROVE  CallInv'
<1>1. sender'.at = "failed" /\ DOMAIN sender' = TaskDom
  BY TaskFields
<1>2. share'.close = "stale" /\ share'.finished /\ DOMAIN share' = ShareDom
  BY DEF FinishGoes
<1>3. Shapes'
  BY <1>1, <1>2, Zenon DEF CallInv, Shapes
<1>4. SinkInv'
  BY <1>1 DEF CallInv, SinkInv, Working
<1>5. StatusInv'
  BY <1>1 DEF CallInv, StatusInv, Working, SenderAt
<1>6. EndInv'
  BY <1>1, <1>2 DEF CallInv, EndInv, OverStays
<1>7. PollInv'
  BY <1>1 DEF CallInv, PollInv, Working
<1> QED
  BY <1>3, <1>4, <1>5, <1>6, <1>7 DEF CallInv

(* A sink that goes on working, or fails, with nothing of the status.      *)
LEMMA GoesOn ==
  ASSUME CallInv, OverStays, UNCHANGED <<share, status, flushed>>, sender.at \in Working,
         SinkShape(sink'), MetaGood(sink'), DOMAIN sender' = TaskDom,
         sender'.at \in Working \cup {"failed"},
         sender'.at \in Working => /\ Brings(sink') => sink'.buf = NoMsg
                                   /\ sink'.batch # "stale"
                                   /\ sink'.buf = NoMsg \/ (sink'.enhance /\ sink'.accepted # <<>>),
         sender'.at = "ready" => sink'.batch = "none"
  PROVE  CallInv'
<1>1. Shapes'
  BY Zenon DEF CallInv, Shapes
<1>2. SinkInv'
  BY Zenon DEF SinkInv
<1>3. StatusInv'
  BY DEF CallInv, StatusInv, Working, SenderAt
<1>4. EndInv'
  BY DEF CallInv, EndInv, Working, OverStays
<1>5. PollInv'
  BY DEF CallInv, PollInv, Working
<1> QED
  BY <1>1, <1>2, <1>3, <1>4, <1>5 DEF CallInv

(* poll_ready.                                                             *)
LEMMA StepReady == ASSUME CallInv, OverStays, SinkReady PROVE CallInv'
<1> DEFINE r == PollBatch(sink)
<1>1. /\ PollFinish /\ sender.at = "idle" /\ UNCHANGED <<status, flushed>>
      /\ \/ share.close # "pending" /\ UNCHANGED sink
            /\ sender' = Goes(IF Finished THEN "failed" ELSE "panicked")
         \/ /\ share.close = "pending" /\ sink' = r.sink
            /\ sender' = After(r.res, "ready", "idle", {"batch", "finish"})
  BY DEF SinkReady
<1>2. FinishGoes
  BY <1>1, Finishes DEF CallInv
<1>3. share.close \in {"pending", "ok"} /\ sender.at \in Working
  BY <1>1 DEF CallInv, EndInv, PollInv, Working
<1>4. PollGoes(sink, r)
  <2>1. DOMAIN sink = SinkDom /\ sink.batch \in Futures
    BY DEF CallInv, Shapes, SinkShape
  <2> QED
    BY <2>1, Polled, Zenon
<1> HIDE DEF r
<1>5. CASE share.close = "ok"
  BY <1>1, <1>2, <1>3, <1>5, SeesEnd DEF Finished
<1>6. CASE share.close = "pending"
  <2>1. /\ share' = share /\ sink' = r.sink
        /\ sender' = After(r.res, "ready", "idle", {"batch", "finish"})
    BY <1>1, <1>2, <1>6 DEF FinishGoes
  <2>2. SinkShape(sink') /\ MetaGood(sink') /\ (Brings(sink') <=> Brings(sink))
    BY <1>4, <2>1, PollGood DEF CallInv, Shapes, SinkInv
  <2>3. /\ Brings(sink) => sink.buf = NoMsg
        /\ sink.batch # "stale"
        /\ sink.buf = NoMsg \/ (sink.enhance /\ sink.accepted # <<>>)
    BY <1>3 DEF CallInv, SinkInv, PollInv
  <2>4. /\ sink'.buf = sink.buf /\ sink'.enhance = sink.enhance /\ sink'.accepted = sink.accepted
        /\ \/ r.res = "ok" /\ sink'.batch = "none"
           \/ r.res = "pending" /\ sink'.batch = "pending"
           \/ r.res = "err"
    BY <1>4, <2>1, <2>3 DEF PollGoes
  <2>5. /\ DOMAIN sender' = TaskDom
        /\ r.res = "ok" => sender'.at = "ready"
        /\ r.res = "pending" => sender'.at = "idle"
        /\ r.res = "err" => sender'.at = "failed"
    BY <2>1, <2>4, AfterAt
  <2>6. /\ sender'.at \in Working \cup {"failed"}
        /\ sender'.at \in Working => sink'.batch # "stale"
        /\ sender'.at = "ready" => sink'.batch = "none"
    BY <2>4, <2>5 DEF Working
  <2> QED
    BY <1>1, <1>3, <2>1, <2>2, <2>3, <2>4, <2>5, <2>6, GoesOn
<1> QED
  BY <1>3, <1>5, <1>6

(* start_send.                                                             *)
LEMMA StepSend ==
  ASSUME CallInv, OverStays, NEW h \in BOOLEAN, SinkSend(h)
  PROVE  CallInv'
<1> DEFINE m == Len(sink.accepted) + 1
           r == StartSend(sink, m, h, open)
<1>1. /\ sender.at = "ready" /\ sink' = r.sink /\ UNCHANGED <<share, status, flushed>>
      /\ sender' = After(r.res, "idle", "idle", {})
  BY DEF SinkSend
<1>2. m \in Nat
  BY DEF CallInv, Shapes, SinkShape
<1>3. /\ SinkShape(sink) /\ MetaGood(sink) /\ sink.batch = "none"
      /\ sink.buf = NoMsg \/ (sink.enhance /\ sink.accepted # <<>>)
      /\ sender.at \in Working
  BY <1>1 DEF CallInv, Shapes, SinkInv, PollInv, Working
<1>4. Started(sink, r)
  <2> HIDE DEF m
  <2> QED
    BY <1>2, <1>3, Starts, Zenon
<1> HIDE DEF r, m
<1>5. /\ r.res \in {"ok", "err"} /\ SinkShape(sink') /\ MetaGood(sink')
      /\ r.res = "ok" => /\ ~Brings(sink') /\ sink'.batch # "stale"
                         /\ sink'.buf = NoMsg \/ (sink'.enhance /\ sink'.accepted # <<>>)
  BY <1>1, <1>3, <1>4 DEF Started
<1>6. /\ DOMAIN sender' = TaskDom
      /\ r.res = "ok" => sender'.at = "idle"
      /\ r.res = "err" => sender'.at = "failed"
  BY <1>1, <1>5, AfterAt
<1> QED
  BY <1>1, <1>3, <1>5, <1>6, GoesOn DEF Working

(* poll_flush.                                                             *)
LEMMA StepFlush == ASSUME CallInv, OverStays, SinkFlush PROVE CallInv'
<1> DEFINE r == Flush(sink, open)
<1>1. /\ PollFinish /\ sender.at \in {"idle", "flush"} /\ UNCHANGED <<status, flushed>>
      /\ \/ share.close # "pending" /\ UNCHANGED sink
            /\ sender' = Goes(IF Finished THEN "failed" ELSE "panicked")
         \/ /\ share.close = "pending" /\ sink' = r.sink
            /\ sender' = After(r.res, "idle", "flush", {"batch", "finish"})
  BY DEF SinkFlush
<1>2. FinishGoes
  BY <1>1, Finishes DEF CallInv
<1>3. share.close \in {"pending", "ok"} /\ sender.at \in Working
  BY <1>1 DEF CallInv, EndInv, PollInv, Working
<1>4. /\ SinkShape(sink) /\ MetaGood(sink) /\ sink.batch # "stale"
      /\ Brings(sink) => sink.buf = NoMsg
      /\ sink.buf = NoMsg \/ (sink.enhance /\ sink.accepted # <<>>)
  BY <1>3 DEF CallInv, Shapes, SinkInv, PollInv
<1>5. Flushed(sink, r)
  BY <1>4, Flushes, Zenon
<1> HIDE DEF r
<1>6. CASE share.close = "ok"
  BY <1>1, <1>2, <1>3, <1>6, SeesEnd DEF Finished
<1>7. CASE share.close = "pending"
  <2>1. /\ share' = share /\ sink' = r.sink
        /\ sender' = After(r.res, "idle", "flush", {"batch", "finish"})
    BY <1>1, <1>2, <1>7 DEF FinishGoes
  <2>2. /\ r.res \in {"ok", "pending", "err"} /\ SinkShape(sink') /\ MetaGood(sink')
        /\ Brings(sink') => sink'.buf = NoMsg
        /\ sink'.buf = NoMsg \/ (sink'.enhance /\ sink'.accepted # <<>>)
        /\ r.res # "err" => sink'.batch # "stale"
    BY <1>4, <1>5, <2>1 DEF Flushed
  <2>3. /\ DOMAIN sender' = TaskDom
        /\ r.res = "ok" => sender'.at = "idle"
        /\ r.res = "pending" => sender'.at = "flush"
        /\ r.res = "err" => sender'.at = "failed"
    BY <2>1, <2>2, AfterAt
  <2>4. /\ sender'.at \in Working \cup {"failed"} /\ sender'.at # "ready"
        /\ sender'.at \in Working => sink'.batch # "stale"
    BY <2>2, <2>3 DEF Working
  <2> QED
    BY <1>1, <1>3, <2>1, <2>2, <2>3, <2>4, GoesOn
<1> QED
  BY <1>3, <1>6, <1>7

(* A flush that is given up, and a sink told to batch before its first     *)
(* message.                                                                *)
LEMMA StepAside ==
  ASSUME CallInv, OverStays, SinkGiveUpFlush \/ SinkEnhance
  PROVE  CallInv'
<1>1. CASE SinkGiveUpFlush
  <2>1. /\ sender.at = "flush" /\ sender' = Goes("idle")
        /\ UNCHANGED <<share, sink, status, flushed>>
    BY <1>1 DEF SinkGiveUpFlush
  <2>2. sender'.at = "idle" /\ DOMAIN sender' = TaskDom
    BY <2>1, TaskFields
  <2>3. /\ SinkShape(sink) /\ MetaGood(sink) /\ sink.batch # "stale"
        /\ Brings(sink) => sink.buf = NoMsg
        /\ sink.buf = NoMsg \/ (sink.enhance /\ sink.accepted # <<>>)
    BY <2>1 DEF CallInv, Shapes, SinkInv, PollInv, Working
  <2>4. sender.at \in Working /\ sender'.at \in Working \cup {"failed"} /\ sender'.at # "ready"
    BY <2>1, <2>2 DEF Working
  <2> QED
    BY <2>1, <2>2, <2>3, <2>4, GoesOn
<1>2. CASE SinkEnhance
  <2>1. /\ sender.at = "idle" /\ sink.accepted = <<>> /\ sink' = [sink EXCEPT !.enhance = ~@]
        /\ UNCHANGED <<share, status, flushed, sender>>
    BY <1>2 DEF SinkEnhance
  <2>2. /\ SinkShape(sink) /\ MetaGood(sink) /\ sink.batch # "stale" /\ sink.buf = NoMsg
        /\ DOMAIN sender = TaskDom
    BY <2>1 DEF CallInv, Shapes, SinkInv, PollInv, Working
  <2>3. /\ DOMAIN sink' = SinkDom /\ sink'.batch = sink.batch /\ sink'.buf = sink.buf
        /\ sink'.lastHint = sink.lastHint /\ sink'.meta = sink.meta
        /\ sink'.accepted = sink.accepted /\ sink'.wire = sink.wire
    BY <2>1, <2>2 DEF SinkShape, SinkDom
  <2>4. SinkShape(sink')
    BY <2>2, <2>3, Zenon DEF SinkShape
  <2>5. MetaGood(sink')
    BY <2>2, <2>3, Zenon DEF MetaGood, Brings
  <2>6. /\ sender.at \in Working /\ sender'.at \in Working \cup {"failed"} /\ sender'.at # "ready"
        /\ DOMAIN sender' = TaskDom /\ sink'.buf = NoMsg /\ sink'.batch # "stale"
    BY <2>1, <2>2, <2>3 DEF Working
  <2> QED
    BY <2>1, <2>4, <2>5, <2>6, GoesOn
<1> QED
  BY <1>1, <1>2

(* start_send_status_from_server: the status goes with the metadata that   *)
(* the sink has not sent, or the queue is closed.                          *)
StatusGoes(at, refused) ==
  /\ DOMAIN status' = StatusDom /\ DOMAIN sender' = TaskDom
  /\ \/ status'.f = "pending" /\ (Brings(status') <=> Brings(sink)) /\ sender'.at = at
     \/ status' = status /\ sender'.at = refused

LEMMA StatusStarts ==
  ASSUME NEW at, NEW refused, DOMAIN status = StatusDom, StartStatus(at, refused)
  PROVE  StatusGoes(at, refused)
<1>1. CASE open
  <2>1. status' = [f |-> "pending", meta |-> sink.meta] /\ sender' = Goes(at)
    BY <1>1 DEF StartStatus
  <2>2. DOMAIN status' = StatusDom /\ status'.f = "pending" /\ status'.meta = sink.meta
    BY <2>1 DEF StatusDom
  <2>3. Brings(status') <=> Brings(sink)
    BY <2>2, Zenon DEF Brings
  <2> QED
    BY <2>1, <2>2, <2>3, TaskFields DEF StatusGoes
<1>2. CASE ~open
  BY <1>2, TaskFields DEF StartStatus, StatusGoes
<1> QED
  BY <1>1, <1>2

(* fail of a stream sink, success and fail of the other one.               *)
LEMMA StepAnswer ==
  ASSUME CallInv, OverStays, SinkFail \/ SinkComplete
  PROVE  CallInv'
<1>1. /\ UNCHANGED <<share, sink, flushed>> /\ status.f = "none"
      /\ \/ StartStatus("failing", "spent")
         \/ sender.at = "idle" /\ StartStatus("result", "spent")
  BY DEF SinkFail, SinkComplete, CallInv, StatusInv, Working
<1>2. \/ StatusGoes("failing", "spent")
      \/ sender.at = "idle" /\ StatusGoes("result", "spent")
  BY <1>1, StatusStarts DEF CallInv, Shapes
<1>3. /\ DOMAIN status' = StatusDom /\ DOMAIN sender' = TaskDom
      /\ \/ /\ status'.f = "pending" /\ (Brings(status') <=> Brings(sink))
            /\ sender'.at = "failing" \/ (sender'.at = "result" /\ sender.at = "idle")
         \/ status'.f = "none" /\ sender'.at = "spent"
  BY <1>1, <1>2 DEF StatusGoes
<1>4. ~flushed
  BY <1>1 DEF CallInv, StatusInv
<1>5. Shapes'
  BY <1>1, <1>3, Zenon DEF CallInv, Shapes
<1>6. SinkInv'
  BY <1>1, <1>3 DEF CallInv, SinkInv, Working
<1>7. StatusInv'
  BY <1>1, <1>3, <1>4 DEF StatusInv, Working, SenderAt, Futures
<1>8. EndInv'
  BY <1>1, <1>3 DEF CallInv, EndInv, OverStays
<1>9. PollInv'
  BY <1>1, <1>3 DEF CallInv, PollInv, Working
<1> QED
  BY <1>5, <1>6, <1>7, <1>8, <1>9 DEF CallInv

(* poll_close up to the status: the message under way is out before it.    *)
LEMMA StepClose == ASSUME CallInv, OverStays, SinkClose PROVE CallInv'
<1> DEFINE r == PollBatch(sink)
<1>1. /\ sender.at \in {"idle", "close"} /\ status.f = "none" /\ sink' = r.sink
      /\ UNCHANGED <<share, flushed>>
      /\ \/ r.res = "ok" /\ StartStatus("close", "failed")
         \/ /\ r.res # "ok" /\ UNCHANGED status
            /\ sender' = After(r.res, "close", "close", {"batch"})
  BY DEF SinkClose
<1>2. PollGoes(sink, r)
  <2>1. DOMAIN sink = SinkDom /\ sink.batch \in Futures
    BY DEF CallInv, Shapes, SinkShape
  <2> QED
    BY <2>1, Polled, Zenon
<1> HIDE DEF r
<1>3. SinkShape(sink') /\ MetaGood(sink') /\ (Brings(sink') <=> Brings(sink))
  BY <1>1, <1>2, PollGood DEF CallInv, Shapes, SinkInv
<1>4. \/ r.res = "ok" /\ sink'.batch = "none"
      \/ r.res = "pending" /\ sink'.batch = "pending"
      \/ r.res = "err"
  <2>1. sink.batch # "stale"
    BY <1>1 DEF CallInv, PollInv, Working
  <2> QED
    BY <1>1, <1>2, <2>1 DEF PollGoes
<1>5. /\ DOMAIN status' = StatusDom /\ DOMAIN sender' = TaskDom
      /\ \/ /\ status'.f = "pending" /\ (Brings(status') <=> Brings(sink))
            /\ sink'.batch = "none" /\ sender'.at = "close"
         \/ status'.f = "none" /\ sender'.at = "close" /\ sink'.batch = "pending"
         \/ status'.f = "none" /\ sender'.at = "failed"
  <2>1. CASE r.res = "ok"
    <3>1. StatusGoes("close", "failed")
      BY <1>1, <2>1, StatusStarts DEF CallInv, Shapes
    <3> QED
      BY <1>1, <1>4, <2>1, <3>1 DEF StatusGoes
  <2>2. CASE r.res # "ok"
    <3>1. status' = status /\ sender' = After(r.res, "close", "close", {"batch"})
      BY <1>1, <2>2
    <3>2. DOMAIN status = StatusDom
      BY DEF CallInv, Shapes
    <3> QED
      BY <1>1, <1>4, <2>2, <3>1, <3>2, AfterAt
  <2> QED
    BY <2>1, <2>2
<1>6. ~flushed
  BY <1>1 DEF CallInv, StatusInv
<1>7. Shapes'
  BY <1>1, <1>3, <1>5, Zenon DEF CallInv, Shapes
<1>8. SinkInv'
  BY <1>3, <1>5 DEF SinkInv, Working
<1>9. StatusInv'
  BY <1>1, <1>3, <1>5, <1>6 DEF StatusInv, Working, SenderAt, Futures
<1>10. EndInv'
  BY <1>1, <1>5 DEF CallInv, EndInv, OverStays
<1>11. PollInv'
  BY <1>1, <1>5 DEF CallInv, PollInv, Working
<1> QED
  BY <1>7, <1>8, <1>9, <1>10, <1>11 DEF CallInv

(* The future of the status after a poll that looked at it.                *)
LEMMA StatusTaken ==
  ASSUME DOMAIN status = StatusDom,
         status' = [status EXCEPT !.f = IF @ = "pending" THEN @ ELSE "stale"]
  PROVE  /\ DOMAIN status' = StatusDom /\ (Brings(status') <=> Brings(status))
         /\ status'.f = IF status.f = "pending" THEN "pending" ELSE "stale"
<1>1. /\ DOMAIN status' = StatusDom /\ status'.meta = status.meta
      /\ status'.f = IF status.f = "pending" THEN "pending" ELSE "stale"
  BY DEF StatusDom
<1>2. Brings(status') <=> Brings(status)
  BY <1>1, Zenon DEF Brings
<1> QED
  BY <1>1, <1>2

(* poll_close while the status is on its way.                              *)
LEMMA StepCloseFlush == ASSUME CallInv, OverStays, SinkCloseFlush PROVE CallInv'
<1>1. /\ sender.at = "close" /\ status.f # "none" /\ ~flushed /\ UNCHANGED <<share, sink>>
      /\ sender' = After(status.f, "close", "close", {"status"})
      /\ flushed' = (status.f = "ok")
      /\ status' = [status EXCEPT !.f = IF @ = "pending" THEN @ ELSE "stale"]
  BY DEF SinkCloseFlush
<1>2. status.f \in {"pending", "ok", "err"}
  BY <1>1 DEF CallInv, StatusInv, PollInv, Futures
<1>3. /\ DOMAIN status' = StatusDom /\ (Brings(status') <=> Brings(status))
      /\ status'.f = IF status.f = "pending" THEN "pending" ELSE "stale"
  <2>1. DOMAIN status = StatusDom
    BY DEF CallInv, Shapes
  <2> QED
    BY <1>1, <2>1, StatusTaken
<1>4. /\ DOMAIN sender' = TaskDom
      /\ status.f \in {"ok", "pending"} => sender'.at = "close"
      /\ status.f = "err" => sender'.at = "failed"
  BY <1>1, <1>2, AfterAt
<1>5. flushed' <=> status.f = "ok"
  BY <1>1, Zenon
<1>6. Shapes'
  BY <1>1, <1>3, <1>4, Zenon DEF CallInv, Shapes
<1>7. SinkInv'
  BY <1>1, <1>2, <1>4 DEF CallInv, SinkInv, Working
<1>8. StatusInv'
  BY <1>1, <1>2, <1>3, <1>4, <1>5 DEF CallInv, StatusInv, Working, SenderAt, Futures
<1>9. EndInv'
  BY <1>1, <1>2, <1>4 DEF CallInv, EndInv, OverStays
<1>10. PollInv'
  BY <1>1, <1>2, <1>3, <1>4, <1>5 DEF CallInv, PollInv, Working
<1> QED
  BY <1>6, <1>7, <1>8, <1>9, <1>10 DEF CallInv

(* A task that awaits the end of the call sleeps or is done.               *)
LEMMA EndAwaited ==
  ASSUME NEW stay, share.close \in {"pending", "ok"}
  PROVE  /\ DOMAIN AfterFinish(stay) = TaskDom
         /\ share.close = "pending" => AfterFinish(stay).at = stay
         /\ share.close = "ok" => AfterFinish(stay).at = "closed"
<1>1. CASE share.close = "pending"
  BY <1>1, TaskFields DEF AfterFinish
<1>2. CASE share.close = "ok"
  BY <1>2, TaskFields DEF AfterFinish
<1> QED
  BY <1>1, <1>2

(* The end of poll_close.                                                  *)
LEMMA StepCloseFinish == ASSUME CallInv, OverStays, SinkCloseFinish PROVE CallInv'
<1>1. /\ sender.at = "close" /\ flushed /\ PollFinish /\ sender' = AfterFinish("close")
      /\ UNCHANGED <<sink, status, flushed>>
  BY DEF SinkCloseFinish
<1>2. FinishGoes
  BY <1>1, Finishes DEF CallInv
<1>3. share.close \in {"pending", "ok"} /\ status.f = "stale"
  BY <1>1 DEF CallInv, EndInv, PollInv, StatusInv
<1>4. /\ DOMAIN sender' = TaskDom /\ DOMAIN share' = ShareDom
      /\ \/ sender'.at = "close" /\ share' = share /\ share.close = "pending"
         \/ /\ sender'.at = "closed" /\ share.close = "ok"
            /\ share'.close = "stale" /\ share'.finished
  BY <1>1, <1>2, <1>3, EndAwaited DEF FinishGoes
<1>5. Shapes'
  BY <1>1, <1>4, Zenon DEF CallInv, Shapes
<1>6. SinkInv'
  BY <1>1, <1>4 DEF CallInv, SinkInv, Working
<1>7. StatusInv'
  BY <1>1, <1>4 DEF CallInv, StatusInv, Working, SenderAt
<1>8. EndInv'
  BY <1>1, <1>3, <1>4 DEF CallInv, EndInv, OverStays
<1>9. PollInv'
  BY <1>1, <1>3, <1>4 DEF CallInv, PollInv, Working
<1> QED
  BY <1>5, <1>6, <1>7, <1>8, <1>9 DEF CallInv

(* The poll of a result, of either kind of sink: how it goes.              *)
Reports ==
  /\ sender.at \in {"failing", "result"} /\ UNCHANGED <<sink, flushed>>
  /\ status' = [status EXCEPT !.f = IF @ = "pending" THEN @ ELSE "stale"]
  /\ DOMAIN sender' = TaskDom /\ DOMAIN share' = ShareDom
  /\ \/ share' = share
     \/ share.close = "ok" /\ share'.close = "stale" /\ share'.finished
  /\ \/ sender'.at = "spent"
     \/ sender'.at = "failing"
     \/ sender'.at = "result" /\ share'.close # "stale"
     \/ sender'.at = "closed" /\ status.f # "pending" /\ share'.close = "stale"

(* A poll of a result that goes so keeps the invariant.                    *)
LEMMA ReportKeeps == ASSUME CallInv, OverStays, Reports PROVE CallInv'
<1>1. /\ DOMAIN status' = StatusDom /\ (Brings(status') <=> Brings(status))
      /\ status'.f = IF status.f = "pending" THEN "pending" ELSE "stale"
  <2>1. DOMAIN status = StatusDom
    BY DEF CallInv, Shapes
  <2> QED
    BY <2>1, StatusTaken DEF Reports
<1>2. /\ sender.at \in {"failing", "result"} /\ UNCHANGED <<sink, flushed>>
      /\ DOMAIN sender' = TaskDom /\ DOMAIN share' = ShareDom
      /\ sender'.at \in {"spent", "failing", "result", "closed"}
  BY DEF Reports
<1>3. status.f # "none"
  BY <1>2 DEF CallInv, StatusInv
<1>4. Shapes'
  BY <1>1, <1>2, Zenon DEF CallInv, Shapes
<1>5. SinkInv'
  BY <1>2 DEF CallInv, SinkInv, Working
<1>6. StatusInv'
  BY <1>1, <1>2, <1>3 DEF CallInv, StatusInv, Working, SenderAt, Futures
<1>7. EndInv'
  BY <1>1 DEF CallInv, EndInv, OverStays, Reports
<1>8. PollInv'
  BY <1>2 DEF CallInv, PollInv, Working, Reports
<1> QED
  BY <1>4, <1>5, <1>6, <1>7, <1>8 DEF CallInv

(* The poll of the failure of a stream sink.                               *)
LEMMA StepFailPoll == ASSUME CallInv, OverStays, FailPoll PROVE CallInv'
<1>1. /\ sender.at = "failing" /\ UNCHANGED <<sink, flushed>>
      /\ status' = [status EXCEPT !.f = IF @ = "pending" THEN @ ELSE "stale"]
  BY DEF FailPoll
<1>2. /\ share.close \in {"pending", "ok", "stale"}
      /\ share.finished <=> share.close = "stale"
      /\ DOMAIN share = ShareDom
  BY DEF CallInv, EndInv, Shapes
<1>3. Alive <=> share.close = "pending"
  BY <1>2 DEF Alive, ShareAlive, CheckAlive
<1>4. /\ DOMAIN share' = ShareDom
      /\ share.close # "ok" => share' = share
      /\ share.close = "ok" => share'.close = "stale" /\ share'.finished
  <2>1. CASE share.finished
    BY <1>2, <2>1 DEF FailPoll
  <2>2. CASE ~share.finished
    <3>1. PollFinish
      BY <2>2 DEF FailPoll
    <3> QED
      BY <3>1, Finishes DEF CallInv, FinishGoes
  <2> QED
    BY <2>1, <2>2
<1>5. /\ DOMAIN sender' = TaskDom
      /\ \/ sender'.at \in {"spent", "failing"}
         \/ sender'.at = "closed" /\ ~Alive /\ status.f # "pending"
  <2> DEFINE on == IF Alive THEN {"finish"} ELSE {}
  <2>1. sender' = CASE status.f = "err" -> Goes("spent")
                    [] status.f = "pending" -> Sleeps("failing", on \cup {"status"})
                    [] OTHER -> IF Alive THEN Sleeps("failing", on) ELSE Goes("closed")
    BY DEF FailPoll
  <2> HIDE DEF on
  <2>2. CASE status.f = "err"
    BY <2>1, <2>2, TaskFields
  <2>3. CASE status.f = "pending"
    BY <2>1, <2>3, TaskFields
  <2>4. CASE status.f \notin {"err", "pending"}
    <3>1. sender' = IF Alive THEN Sleeps("failing", on) ELSE Goes("closed")
      BY <2>1, <2>4
    <3> QED
      BY <2>4, <3>1, TaskFields
  <2> QED
    BY <2>2, <2>3, <2>4
<1>6. Reports
  BY <1>1, <1>2, <1>3, <1>4, <1>5 DEF Reports
<1> QED
  BY <1>6, ReportKeeps

(* The poll of the result of a sink that answers once.                     *)
LEMMA StepResultPoll == ASSUME CallInv, OverStays, ResultPoll PROVE CallInv'
<1>1. /\ sender.at = "result" /\ UNCHANGED <<sink, flushed>>
      /\ status' = [status EXCEPT !.f = IF @ = "pending" THEN @ ELSE "stale"]
  BY DEF ResultPoll
<1>2. share.close \in {"pending", "ok"} /\ DOMAIN share = ShareDom
  BY <1>1 DEF CallInv, EndInv, PollInv, Shapes
<1>3. CASE status.f \in {"ok", "stale"}
  <2>1. PollFinish /\ sender' = AfterFinish("result")
    BY <1>3 DEF ResultPoll
  <2>2. FinishGoes
    BY <2>1, Finishes DEF CallInv
  <2>3. /\ DOMAIN sender' = TaskDom /\ DOMAIN share' = ShareDom
        /\ \/ sender'.at = "result" /\ share' = share /\ share.close = "pending"
           \/ /\ sender'.at = "closed" /\ share.close = "ok"
              /\ share'.close = "stale" /\ share'.finished
    BY <1>2, <2>1, <2>2, EndAwaited DEF FinishGoes
  <2>4. Reports
    BY <1>1, <1>3, <2>3 DEF Reports
  <2> QED
    BY <2>4, ReportKeeps
<1>4. CASE status.f \notin {"ok", "stale"}
  <2>1. share' = share /\ DOMAIN sender' = TaskDom /\ sender'.at \in {"result", "spent"}
    BY <1>4, TaskFields DEF ResultPoll
  <2>2. Reports
    BY <1>1, <1>2, <2>1 DEF Reports
  <2> QED
    BY <2>2, ReportKeeps
<1> QED
  BY <1>3, <1>4

(* A new sink has sent nothing and is to send the metadata.                *)
LEMMA NewGood == SinkShape(NewSink(TRUE)) /\ MetaGood(NewSink(TRUE)) /\ NewSink(TRUE).batch = "none"
<1> DEFINE s == NewSink(TRUE)
<1>1. /\ DOMAIN s = SinkDom /\ s.batch = "none" /\ s.buf = NoMsg /\ s.lastHint = TRUE
      /\ s.meta = TRUE /\ s.accepted = <<>> /\ s.wire = <<>>
  BY DEF NewSink, SinkDom
<1>2. NoMsg \in Offered /\ "none" \in Futures
  BY DEF NoMsg, Offered, Futures
<1>3. <<>> \in Seq(Offered) /\ <<>> \in Seq(OnWire) /\ \A i \in 1..Len(<<>>) : FALSE
  OBVIOUS
<1> HIDE DEF s
<1>4. SinkShape(s)
  BY <1>1, <1>2, <1>3, Zenon DEF SinkShape
<1>5. Brings(s)
  BY <1>1, Zenon DEF Brings
<1>6. FirstOnly(s.wire)
  BY <1>1, <1>3, Zenon DEF FirstOnly
<1>7. MetaGood(s)
  BY <1>1, <1>5, <1>6, Zenon DEF MetaGood
<1> QED
  BY <1>1, <1>4, <1>7, Zenon DEF s

(* Drop of the sink, or of what is left of it.                             *)
LEMMA StepDrop == ASSUME CallInv, OverStays, SinkDrop PROVE CallInv'
<1>1. /\ sender' = Goes("dropped") /\ sink' = NewSink(TRUE)
      /\ UNCHANGED <<share, status, flushed>>
  BY DEF SinkDrop
<1>2. sender'.at = "dropped" /\ DOMAIN sender' = TaskDom
  BY <1>1, TaskFields
<1>3. SinkShape(sink') /\ MetaGood(sink')
  BY <1>1, NewGood, Zenon
<1>4. Shapes'
  BY <1>1, <1>2, <1>3, Zenon DEF CallInv, Shapes
<1>5. SinkInv'
  BY <1>2, <1>3 DEF SinkInv, Working
<1>6. status' = status /\ flushed' = flushed /\ share' = share
  BY <1>1
<1>7. StatusInv'
  BY <1>2, <1>6 DEF CallInv, StatusInv, Working, SenderAt
<1>8. EndInv'
  BY <1>2, <1>6 DEF CallInv, EndInv, OverStays
<1>9. PollInv'
  BY <1>2 DEF PollInv, Working
<1> QED
  BY <1>4, <1>5, <1>7, <1>8, <1>9 DEF CallInv

(* Core reports the end of the call.                                       *)
LEMMA StepCloseResolves == ASSUME CallInv, OverStays, CloseResolves PROVE CallInv'
<1>1. /\ share.close = "pending" /\ over # "no" /\ share' = [share EXCEPT !.close = "ok"]
      /\ sender' = Woken(sender, "finish") /\ UNCHANGED <<sink, status, flushed>>
  BY DEF CloseResolves
<1>2. sender'.at = sender.at /\ DOMAIN sender' = TaskDom
  BY <1>1, WokenStays DEF CallInv, Shapes
<1>3. share'.close = "ok" /\ share'.finished = share.finished /\ DOMAIN share' = ShareDom
  BY <1>1 DEF CallInv, Shapes, ShareDom
<1>4. Shapes'
  BY <1>1, <1>2, <1>3, Zenon DEF CallInv, Shapes
<1>5. SinkInv' /\ StatusInv'
  BY <1>1, <1>2 DEF CallInv, SinkInv, StatusInv
<1>6. EndInv'
  BY <1>1, <1>2, <1>3 DEF CallInv, EndInv, OverStays
<1>7. PollInv'
  BY <1>1, <1>2, <1>3 DEF CallInv, PollInv
<1> QED
  BY <1>4, <1>5, <1>6, <1>7 DEF CallInv

(* Core reports the batch of a message.                                    *)
LEMMA StepBatchResolves == ASSUME CallInv, OverStays, BatchResolves PROVE CallInv'
<1>1. /\ sink.batch = "pending" /\ sender' = Woken(sender, "batch")
      /\ UNCHANGED <<share, status, flushed>>
  BY DEF BatchResolves
<1>2. PICK r \in {"ok", "err"} : sink' = [sink EXCEPT !.batch = r]
  BY DEF BatchResolves
<1>3. sender'.at = sender.at /\ DOMAIN sender' = TaskDom
  BY <1>1, WokenStays DEF CallInv, Shapes
<1>4. /\ DOMAIN sink' = SinkDom /\ sink'.batch = r /\ sink'.buf = sink.buf
      /\ sink'.lastHint = sink.lastHint /\ sink'.meta = sink.meta
      /\ sink'.enhance = sink.enhance /\ sink'.accepted = sink.accepted /\ sink'.wire = sink.wire
  BY <1>2 DEF CallInv, Shapes, SinkShape, SinkDom
<1>5. SinkShape(sink')
  <2>1. r \in Futures
    BY DEF Futures
  <2> QED
    BY <1>4, <2>1, Zenon DEF CallInv, Shapes, SinkShape
<1>6. Brings(sink') <=> Brings(sink)
  BY <1>4, Zenon DEF Brings
<1>7. Shapes'
  BY <1>1, <1>3, <1>5, Zenon DEF CallInv, Shapes
<1>8. SinkInv'
  BY <1>3, <1>4, <1>6, Zenon DEF CallInv, SinkInv, MetaGood
<1>9. StatusInv'
  BY <1>1, <1>3, <1>6 DEF CallInv, StatusInv
<1>10. EndInv'
  BY <1>1, <1>3 DEF CallInv, EndInv, OverStays
<1>11. PollInv'
  BY <1>1, <1>3, <1>4 DEF CallInv, PollInv
<1> QED
  BY <1>7, <1>8, <1>9, <1>10, <1>11 DEF CallInv

(* Core reports the batch of the status.                                   *)
LEMMA StepStatusResolves == ASSUME CallInv, OverStays, StatusResolves PROVE CallInv'
<1>1. /\ status.f = "pending" /\ sender' = Woken(sender, "status")
      /\ UNCHANGED <<share, sink, flushed>>
  BY DEF StatusResolves
<1>2. PICK r \in {"ok", "err"} : status' = [status EXCEPT !.f = r]
  BY DEF StatusResolves
<1>3. sender'.at = sender.at /\ DOMAIN sender' = TaskDom
  BY <1>1, WokenStays DEF CallInv, Shapes
<1>4. DOMAIN status' = StatusDom /\ status'.f = r /\ status'.meta = status.meta
  BY <1>2 DEF CallInv, Shapes, StatusDom
<1>5. Brings(status') <=> Brings(status)
  BY <1>4, Zenon DEF Brings
<1>6. Shapes'
  BY <1>1, <1>3, <1>4, Zenon DEF CallInv, Shapes
<1>7. SinkInv'
  BY <1>1, <1>3 DEF CallInv, SinkInv
<1>8. StatusInv'
  BY <1>1, <1>3, <1>4, <1>5 DEF CallInv, StatusInv, Futures
<1>9. EndInv'
  BY <1>1, <1>3, <1>4 DEF CallInv, EndInv, OverStays
<1>10. PollInv'
  BY <1>1, <1>3, <1>4 DEF CallInv, PollInv
<1> QED
  BY <1>6, <1>7, <1>8, <1>9, <1>10 DEF CallInv

-----------------------------------------------------------------------------
(* What was accepted, was handed over or is held.                          *)

Rest(b) == IF b = NoMsg THEN <<>> ELSE <<b.msg>>
InAll(w, b, q) == Numbers(w) \o Rest(b) = Numbers(q)

(* Accounted is about what was handed over, held and accepted.             *)
LEMMA AccountedIs == ASSUME NEW s PROVE Accounted(s) <=> InAll(s.wire, s.buf, s.accepted)
BY Zenon DEF Accounted, Passed, InAll, Rest

(* The numbers of a queue with one more message.                           *)
LEMMA NumbersMore ==
  ASSUME NEW S, NEW q \in Seq(S), \A x \in S : x.msg \in Nat, NEW y \in S
  PROVE  /\ Numbers(Append(q, y)) = Append(Numbers(q), y.msg)
         /\ Numbers(q) \in Seq(Nat) /\ y.msg \in Nat
<1>1. Len(q) \in Nat /\ Len(Append(q, y)) = Len(q) + 1
  OBVIOUS
<1>2. Numbers(q) \in Seq(Nat) /\ Len(Numbers(q)) = Len(q) /\ \A i \in 1..Len(q) : Numbers(q)[i] = q[i].msg
  <2>1. \A i \in 1..Len(q) : q[i].msg \in Nat
    OBVIOUS
  <2>2. PICK k : k = Len(q)
    OBVIOUS
  <2>3. k \in Nat /\ Numbers(q) = [i \in 1..k |-> q[i].msg] /\ \A i \in 1..k : q[i].msg \in Nat
    BY <1>1, <2>1, <2>2, Zenon DEF Numbers
  <2>4. Numbers(q) \in Seq(Nat) /\ Len(Numbers(q)) = k /\ \A i \in 1..k : Numbers(q)[i] = q[i].msg
    BY <2>3
  <2> QED
    BY <2>2, <2>4, Zenon
<1>3. Append(q, y)[Len(q) + 1] = y /\ \A i \in 1..Len(q) : Append(q, y)[i] = q[i]
  OBVIOUS
<1>4. ASSUME NEW i \in 1..(Len(q) + 1)
      PROVE  Append(q, y)[i].msg = Append(Numbers(q), y.msg)[i]
  <2>1. CASE i = Len(q) + 1
    BY <1>2, <1>3, <2>1
  <2>2. CASE i \in 1..Len(q)
    BY <1>2, <1>3, <2>2
  <2>3. i = Len(q) + 1 \/ i \in 1..Len(q)
    BY <1>1
  <2> QED
    BY <2>1, <2>2, <2>3, Zenon
<1>5. /\ y.msg \in Nat /\ Append(Numbers(q), y.msg) \in Seq(Nat)
      /\ DOMAIN Append(Numbers(q), y.msg) = 1..(Len(q) + 1)
  BY <1>1, <1>2
<1>6. Append(Numbers(q), y.msg) = [i \in 1..(Len(q) + 1) |-> Append(Numbers(q), y.msg)[i]]
  <2>1. ASSUME NEW f \in Seq(Nat), NEW k, DOMAIN f = 1..k PROVE f = [i \in 1..k |-> f[i]]
    BY <2>1
  <2> QED
    BY <1>5, <2>1, Zenon
<1>7. Numbers(Append(q, y)) = [i \in 1..(Len(q) + 1) |-> Append(q, y)[i].msg]
  BY <1>1, Zenon DEF Numbers
<1> QED
  BY <1>2, <1>4, <1>5, <1>6, <1>7, Zenon

(* One more message, of those accepted and of those handed over.           *)
LEMMA Queues ==
  ASSUME NEW q \in Seq(Offered), NEW w \in Seq(OnWire), NEW y \in Offered, NEW e \in OnWire
  PROVE  /\ Numbers(Append(q, y)) = Append(Numbers(q), y.msg)
         /\ Numbers(Append(w, e)) = Append(Numbers(w), e.msg)
         /\ Numbers(q) \in Seq(Nat) /\ Numbers(w) \in Seq(Nat)
         /\ y.msg \in Nat /\ e.msg \in Nat
<1>1. (\A x \in Offered : x.msg \in Nat) /\ (\A x \in OnWire : x.msg \in Nat)
  BY Zenon DEF Offered, OnWire
<1> QED
  BY <1>1, NumbersMore, Zenon

(* A message is offered to a sink that holds none: it is held.             *)
LEMMA AllHold ==
  ASSUME NEW q \in Seq(Offered), NEW w \in Seq(OnWire), InAll(w, NoMsg, q),
         NEW y \in Offered, y # NoMsg
  PROVE  InAll(w, y, Append(q, y))
<1>0. [msg |-> 0, hint |-> TRUE, meta |-> TRUE] \in OnWire
  BY Zenon DEF OnWire
<1>1. PICK n, v, k : n = Numbers(q) /\ v = Numbers(w) /\ k = y.msg
  OBVIOUS
<1>2. n \in Seq(Nat) /\ v \in Seq(Nat) /\ k \in Nat /\ Numbers(Append(q, y)) = Append(n, k)
  BY <1>0, <1>1, Queues, Zenon
<1>3. v \o <<>> = n /\ Rest(y) = <<k>>
  BY <1>1, Zenon DEF InAll, Rest
<1>4. v = n /\ Append(n, k) = n \o <<k>>
  BY <1>2, <1>3
<1> QED
  BY <1>1, <1>2, <1>3, <1>4, Zenon DEF InAll

(* The message held is handed over.                                        *)
LEMMA AllMove ==
  ASSUME NEW q \in Seq(Offered), NEW w \in Seq(OnWire), NEW b \in Offered, b # NoMsg,
         InAll(w, b, q), NEW e \in OnWire, e.msg = b.msg
  PROVE  InAll(Append(w, e), NoMsg, q)
<1>1. PICK n, v, k : n = Numbers(q) /\ v = Numbers(w) /\ k = b.msg
  OBVIOUS
<1>2. n \in Seq(Nat) /\ v \in Seq(Nat) /\ k \in Nat /\ Numbers(Append(w, e)) = Append(v, k)
  BY <1>1, Queues, Zenon
<1>3. v \o <<k>> = n /\ Rest(NoMsg) = <<>>
  BY <1>1, Zenon DEF InAll, Rest
<1>4. Append(v, k) \o <<>> = v \o <<k>>
  BY <1>2
<1> QED
  BY <1>1, <1>2, <1>3, <1>4, Zenon DEF InAll

(* start_send_buffer_message hands over the message held.                  *)
LEMMA BufferBooks ==
  ASSUME NEW s, SinkShape(s), s.buf # NoMsg, NEW q \in Seq(Offered), InAll(s.wire, s.buf, q),
         NEW hint \in BOOLEAN, NEW o, NEW r, r = SendBuffer(s, hint, o), r.res = "ok"
  PROVE  r.sink.buf = NoMsg /\ InAll(r.sink.wire, NoMsg, q)
<1>1. BufferGoes(s, hint, o, r)
  <2>1. DOMAIN s = SinkDom
    BY DEF SinkShape
  <2> QED
    BY <2>1, Buffered, Zenon
<1>2. r.sink.buf = NoMsg /\ r.sink.wire = Wired(s, hint)
  <2>1. s.batch = "none" /\ o
    BY <1>1 DEF BufferGoes
  <2> QED
    BY <1>1, <2>1, Zenon DEF BufferGoes
<1>3. PICK e : e = [msg |-> s.buf.msg, hint |-> hint, meta |-> s.meta]
  BY Zenon
<1>4. e \in OnWire /\ e.msg = s.buf.msg
  BY <1>3 DEF SinkShape, Offered, OnWire
<1>5. InAll(Append(s.wire, e), NoMsg, q)
  BY <1>4, AllMove, Zenon DEF SinkShape
<1> QED
  BY <1>2, <1>3, <1>5, Zenon DEF Wired

(* The message of start_send takes the place of the one held, when there   *)
(* is none.                                                                *)
LEMMA HoldBooks ==
  ASSUME NEW s, SinkShape(s), NEW q \in Seq(Offered), InAll(s.wire, NoMsg, q),
         NEW m \in Nat \ {0}, NEW hint \in BOOLEAN, NEW h, NowHolds(s, m, hint, h)
  PROVE  /\ h.buf # NoMsg /\ Append(q, Message(m, hint)) \in Seq(Offered)
         /\ InAll(h.wire, h.buf, Append(q, Message(m, hint)))
<1>1. PICK y : y = Message(m, hint)
  OBVIOUS
<1>2. y \in Offered /\ y # NoMsg
  BY <1>1 DEF Message, Offered, NoMsg
<1>3. h.buf = y /\ h.wire = s.wire
  BY <1>1, Zenon DEF NowHolds
<1>4. InAll(s.wire, y, Append(q, y))
  BY <1>2, AllHold, Zenon DEF SinkShape
<1>5. Append(q, y) \in Seq(Offered)
  BY <1>2
<1> QED
  BY <1>1, <1>2, <1>3, <1>4, <1>5, Zenon

(* What start_send accepts is held or handed over, and nothing else is.    *)
Settled(s) == InAll(s.wire, s.buf, s.accepted) /\ (s.buf = NoMsg \/ s.enhance)
SendSettles(s, y, r) ==
  r.res = "ok" => InAll(r.sink.wire, r.sink.buf, Append(s.accepted, y))

(* start_send of the first message.                                        *)
LEMMA FirstSettles ==
  ASSUME NEW s, SinkShape(s), InAll(s.wire, NoMsg, s.accepted),
         NEW m \in Nat \ {0}, NEW hint \in BOOLEAN, NEW o
  PROVE  SendSettles(s, Message(m, hint), SendFirst(s, m, hint, o))
<1>1. PICK h, b, r, q : /\ h = First(s, m, hint) /\ b = SendBuffer(h, FALSE, o)
                        /\ r = SendFirst(s, m, hint, o) /\ q = Append(s.accepted, Message(m, hint))
  BY Zenon
<1>2. NowHolds(s, m, hint, h)
  BY <1>1, HoldingFields, Zenon
<1>3. h.buf # NoMsg /\ q \in Seq(Offered) /\ InAll(h.wire, h.buf, q)
  <2>1. s.accepted \in Seq(Offered)
    BY Zenon DEF SinkShape
  <2>2. /\ h.buf # NoMsg /\ Append(s.accepted, Message(m, hint)) \in Seq(Offered)
        /\ InAll(h.wire, h.buf, Append(s.accepted, Message(m, hint)))
    BY <1>2, <2>1, HoldBooks
  <2> QED
    BY <1>1, <2>2, Zenon
<1>4. SinkShape(h)
  <2>1. Message(m, hint) \in Offered
    BY DEF Message, Offered
  <2> QED
    BY <1>2, <2>1, Zenon DEF SinkShape, NowHolds
<1>5. r = IF b.res = "ok" THEN [b EXCEPT !.sink.meta = FALSE] ELSE b
  BY <1>1, Zenon DEF SendFirst, First
<1>6. BufferGoes(h, FALSE, o, b)
  <2>1. DOMAIN h = SinkDom
    BY <1>2, Zenon DEF NowHolds
  <2> QED
    BY <1>1, <2>1, Buffered, Zenon
<1>7. ASSUME r.res = "ok" PROVE InAll(r.sink.wire, r.sink.buf, q)
  <2>1. b.res = "ok" /\ DOMAIN b = {"sink", "res"} /\ DOMAIN b.sink = SinkDom
    BY <1>5, <1>6, <1>7, Zenon DEF BufferGoes
  <2>2. FALSE \in BOOLEAN
    OBVIOUS
  <2>3. b.sink.buf = NoMsg /\ InAll(b.sink.wire, NoMsg, q)
    BY <1>1, <1>3, <1>4, <2>1, <2>2, BufferBooks, Zenon
  <2>4. r.sink.buf = b.sink.buf /\ r.sink.wire = b.sink.wire
    BY <1>5, <2>1 DEF SinkDom
  <2> QED
    BY <2>3, <2>4, Zenon
<1> QED
  BY <1>1, <1>7, Zenon DEF SendSettles

(* start_send of another one, which may bring out the one that is held.    *)
LEMMA LaterSettles ==
  ASSUME NEW s, SinkShape(s), MetaGood(s), ~Brings(s), InAll(s.wire, s.buf, s.accepted),
         NEW m \in Nat \ {0}, NEW hint \in BOOLEAN, NEW o
  PROVE  SendSettles(s, Message(m, hint), SendLater(s, m, hint, o))
<1>1. PICK b, h, l, q :
        /\ b = IF s.buf = NoMsg THEN Result(s, "ok") ELSE SendBuffer(s, TRUE, o)
        /\ h = Holding(b.sink, m, hint) /\ l = SendLater(s, m, hint, o)
        /\ q = Append(s.accepted, Message(m, hint))
  BY Zenon
<1>2. l = IF b.res # "ok" THEN b ELSE HoldOrSend(h, hint, o)
  BY <1>1, Later, Zenon DEF HoldOrSend
<1>3. ASSUME l.res = "ok" PROVE InAll(l.sink.wire, l.sink.buf, q)
  <2>1. b.res = "ok" /\ l = HoldOrSend(h, hint, o)
    BY <1>2, <1>3, Zenon
  <2>2. SinkShape(b.sink) /\ InAll(b.sink.wire, NoMsg, s.accepted) /\ s.accepted \in Seq(Offered)
    <3>0. s.accepted \in Seq(Offered) /\ TRUE \in BOOLEAN
      BY Zenon DEF SinkShape
    <3>1. CASE s.buf = NoMsg
      <4>1. b.sink = s
        BY <1>1, <3>1 DEF Result
      <4> QED
        BY <3>0, <3>1, <4>1, Zenon
    <3>2. CASE s.buf # NoMsg
      <4>1. b = SendBuffer(s, TRUE, o)
        BY <1>1, <3>2, Zenon
      <4>2. BufferSent(s, o, b)
        BY <3>0, <4>1, BufferSends, Zenon
      <4> QED
        BY <2>1, <3>0, <3>2, <4>1, <4>2, BufferBooks, Zenon DEF BufferSent
    <3> QED
      BY <3>1, <3>2, Zenon
  <2>3. NowHolds(b.sink, m, hint, h)
    BY <1>1, <2>2, HoldingFields, Zenon
  <2>4. h.buf # NoMsg /\ q \in Seq(Offered) /\ InAll(h.wire, h.buf, q)
    <3>1. /\ h.buf # NoMsg /\ Append(s.accepted, Message(m, hint)) \in Seq(Offered)
          /\ InAll(h.wire, h.buf, Append(s.accepted, Message(m, hint)))
      BY <2>2, <2>3, HoldBooks, Zenon
    <3> QED
      BY <1>1, <3>1, Zenon
  <2>5. CASE h.enhance
    <3>1. l.sink = h
      BY <2>1, <2>5 DEF HoldOrSend, Result
    <3> QED
      BY <2>4, <3>1, Zenon
  <2>6. CASE ~h.enhance
    <3>1. l = SendBuffer(h, hint, o)
      BY <2>1, <2>6, Zenon DEF HoldOrSend
    <3>2. SinkShape(h)
      <4>1. Message(m, hint) \in Offered
        BY DEF Message, Offered
      <4> QED
        BY <2>2, <2>3, <4>1, Zenon DEF SinkShape, NowHolds
    <3>3. l.sink.buf = NoMsg /\ InAll(l.sink.wire, NoMsg, q)
      BY <1>3, <2>4, <3>1, <3>2, BufferBooks, Zenon
    <3> QED
      BY <3>3, Zenon
  <2> QED
    BY <2>5, <2>6, Zenon
<1> QED
  BY <1>1, <1>3, Zenon DEF SendSettles

(* SinkBase::start_send.                                                   *)
LEMMA StartSettles ==
  ASSUME NEW s, SinkShape(s), MetaGood(s), s.batch = "none", Settled(s),
         Brings(s) => s.buf = NoMsg, NEW m \in Nat \ {0}, NEW hint \in BOOLEAN, NEW o,
         NEW a, a = StartSend(s, m, hint, o), a.res = "ok"
  PROVE  Settled(a.sink)
<1>1. PICK r : /\ r = IF s.meta THEN SendFirst(s, m, hint, o) ELSE SendLater(s, m, hint, o)
               /\ a = Accept(r, m, hint)
  BY Zenon DEF StartSend
<1>2. Sent(s, r) /\ SendSettles(s, Message(m, hint), r)
  <2>1. CASE Brings(s)
    <3>1. r = SendFirst(s, m, hint, o) /\ InAll(s.wire, NoMsg, s.accepted) /\ m \in Nat
      BY <1>1, <2>1, Zenon DEF Brings, Settled
    <3> QED
      BY <2>1, <3>1, FirstSends, FirstSettles, Zenon
  <2>2. CASE ~Brings(s)
    <3>1. r = SendLater(s, m, hint, o) /\ InAll(s.wire, s.buf, s.accepted) /\ m \in Nat
      BY <1>1, <2>2, Zenon DEF Brings, Settled
    <3> QED
      BY <2>2, <3>1, LaterSends, LaterSettles, Zenon
  <2> QED
    BY <2>1, <2>2, Zenon
<1>3. r.res = "ok" /\ DOMAIN r.sink = SinkDom /\ DOMAIN r = {"sink", "res"}
  <2>1. r.res # "ok" => a = r
    BY <1>1, Zenon DEF Accept
  <2> QED
    BY <1>2, <2>1, Zenon DEF Sent, SinkShape
<1>4. /\ a.sink.accepted = Append(r.sink.accepted, Message(m, hint))
      /\ a.sink.buf = r.sink.buf /\ a.sink.enhance = r.sink.enhance /\ a.sink.wire = r.sink.wire
  <2>1. a = [r EXCEPT !.sink.accepted = Append(@, [msg |-> m, hint |-> hint])]
    BY <1>1, <1>3, Zenon DEF Accept
  <2>2. a.sink = [r.sink EXCEPT !.accepted = Append(@, [msg |-> m, hint |-> hint])]
    BY <1>3, <2>1
  <2> QED
    BY <1>3, <2>2 DEF SinkDom, Message
<1>5. r.sink.accepted = s.accepted /\ (r.sink.buf = NoMsg \/ r.sink.enhance)
  BY <1>2, <1>3, Zenon DEF Sent
<1> QED
  BY <1>2, <1>3, <1>4, <1>5, Zenon DEF SendSettles, Settled

(* SinkBase::poll_flush.                                                   *)
LEMMA FlushSettles ==
  ASSUME NEW s, SinkShape(s), Settled(s), NEW o, NEW r, r = Flush(s, o)
  PROVE  Settled(r.sink)
<1>1. PICK p, b, e : /\ p = PollBatch(s) /\ b = SendBuffer(p.sink, s.lastHint, o)
                     /\ e = [p.sink EXCEPT !.lastHint = TRUE]
  BY Zenon
<1>2. r = IF p.res # "ok" THEN p
          ELSE IF p.sink.buf = NoMsg THEN Result(e, "ok")
          ELSE IF b.res = "ok" THEN Result(b.sink, "pending") ELSE b
  BY <1>1, Zenon DEF Flush
<1>3. PollGoes(s, p)
  <2>1. DOMAIN s = SinkDom /\ s.batch \in Futures
    BY DEF SinkShape
  <2> QED
    BY <1>1, <2>1, Polled, Zenon
<1>4. Settled(p.sink) /\ p.sink.accepted = s.accepted
  BY <1>3, Zenon DEF PollGoes, Settled
<1>5. SinkShape(p.sink) /\ s.lastHint \in BOOLEAN
  <2>1. p.sink.batch \in Futures
    BY <1>3 DEF PollGoes, Futures
  <2> QED
    BY <1>3, <2>1, Zenon DEF PollGoes, SinkShape
<1>6. BufferGoes(p.sink, s.lastHint, o, b)
  BY <1>1, <1>5, Buffered, Zenon DEF SinkShape
<1>7. CASE p.res # "ok"
  BY <1>2, <1>4, <1>7, Zenon
<1>8. CASE p.res = "ok" /\ p.sink.buf = NoMsg
  <2>1. r.sink = e
    BY <1>2, <1>8 DEF Result
  <2>2. DOMAIN p.sink = SinkDom
    BY <1>5, Zenon DEF SinkShape
  <2>3. /\ e.buf = p.sink.buf /\ e.wire = p.sink.wire /\ e.accepted = p.sink.accepted
        /\ e.enhance = p.sink.enhance
    BY <1>1, <2>2 DEF SinkDom
  <2> QED
    BY <1>4, <2>1, <2>3, Zenon DEF Settled
<1>9. CASE p.res = "ok" /\ p.sink.buf # NoMsg /\ b.res = "ok"
  <2>1. r.sink = b.sink
    BY <1>2, <1>9 DEF Result
  <2>2. b.sink.buf = NoMsg /\ InAll(b.sink.wire, NoMsg, p.sink.accepted)
    <3>1. p.sink.accepted \in Seq(Offered) /\ InAll(p.sink.wire, p.sink.buf, p.sink.accepted)
      BY <1>4, <1>5, Zenon DEF Settled, SinkShape
    <3> QED
      BY <1>1, <1>5, <1>9, <3>1, BufferBooks
  <2>3. b.sink.accepted = p.sink.accepted
    <3>1. p.sink.batch = "none" /\ o
      BY <1>6, <1>9 DEF BufferGoes
    <3> QED
      BY <1>6, <3>1, Zenon DEF BufferGoes
  <2> QED
    BY <2>1, <2>2, <2>3, Zenon DEF Settled
<1>10. CASE p.res = "ok" /\ p.sink.buf # NoMsg /\ b.res # "ok"
  <2>1. r = b
    BY <1>2, <1>10, Zenon
  <2>2. b.sink = p.sink
    BY <1>6, <1>10 DEF BufferGoes
  <2> QED
    BY <1>4, <2>1, <2>2, Zenon
<1> QED
  BY <1>7, <1>8, <1>9, <1>10, Zenon

-----------------------------------------------------------------------------
(* A call that was just accepted satisfies the invariant.                  *)
LEMMA CallStart == ASSUME Init PROVE CallInv
<1>1. /\ share = NewShare /\ sink = NewSink(TRUE) /\ flushed = FALSE /\ over = "no"
      /\ status = [f |-> "none", meta |-> FALSE] /\ sender = Goes("idle")
  BY DEF Init, NewStreamSink
<1>2. SinkShape(sink) /\ MetaGood(sink) /\ sink.batch = "none" /\ sink.buf = NoMsg
  <2>1. sink.buf = NoMsg
    BY <1>1 DEF NewSink
  <2> QED
    BY <1>1, <2>1, NewGood, Zenon
<1>3. sender.at = "idle" /\ DOMAIN sender = TaskDom
  BY <1>1, TaskFields
<1>4. /\ DOMAIN status = StatusDom /\ status.f = "none"
      /\ DOMAIN share = ShareDom /\ share.close = "pending" /\ ~share.finished
  BY <1>1 DEF StatusDom, ShareDom, NewShare
<1>5. Shapes
  BY <1>2, <1>3, <1>4, Zenon DEF Shapes
<1>6. ~flushed
  BY <1>1
<1>7. SinkInv
  BY <1>2 DEF SinkInv
<1>8. StatusInv
  BY <1>3, <1>4, <1>6 DEF StatusInv, SenderAt, Futures
<1>9. EndInv
  BY <1>3, <1>4 DEF EndInv
<1>10. PollInv
  BY <1>2, <1>3, <1>4 DEF PollInv
<1> QED
  BY <1>5, <1>7, <1>8, <1>9, <1>10 DEF CallInv

(* Every step of the call keeps the invariant.                             *)
LEMMA CallStep == ASSUME CallInv, [Next]_vars PROVE CallInv'
<1>0. OverStays
  BY EndStays
<1>1. CASE SinkNext
  <2>1. ASSUME NEW h \in BOOLEAN, SinkSend(h) PROVE CallInv'
    BY <1>0, <2>1, StepSend
  <2> QED
    BY <1>0, <1>1, <2>1, StepReady, StepFlush, StepAside, StepClose, StepCloseFlush,
       StepCloseFinish, StepAnswer, StepFailPoll, StepResultPoll, StepDrop, Zenon DEF SinkNext
<1>2. CASE RecvNext
  <2>1. UNCHANGED SinkSide
    BY <1>2 DEF RecvNext, RecvCheck, RecvPending, RecvEof, RecvStart, RecvDrop, SenderSame, SinkSide
  <2> QED
    BY <1>0, <2>1, Elsewhere
<1>3. CASE ClientSend \/ ClientClose \/ ClientCancel \/ QueueShutdown \/ RecvResolves
  <2>1. UNCHANGED SinkSide
    BY <1>3 DEF ClientSend, ClientClose, ClientCancel, QueueShutdown, RecvResolves, SenderSame,
       SinkSide
  <2> QED
    BY <1>0, <2>1, Elsewhere
<1>4. CASE CloseResolves \/ BatchResolves \/ StatusResolves
  BY <1>0, <1>4, StepCloseResolves, StepBatchResolves, StepStatusResolves
<1>5. CASE Ended \/ UNCHANGED vars
  <2>1. UNCHANGED SinkSide
    BY <1>5 DEF Ended, vars, SinkSide
  <2> QED
    BY <1>0, <2>1, Elsewhere
<1> QED
  BY <1>1, <1>2, <1>3, <1>4, <1>5, Zenon DEF Next, Core

-----------------------------------------------------------------------------
(* As long as the sink works, and once a close has sent its status, what   *)
(* was accepted was handed over or is held, by a sink that batches; only a *)
(* close has seen the status out.                                          *)
BooksInv ==
  /\ sender.at \in Working \cup {"close"} => Settled(sink)
  /\ sender.at = "closed" /\ flushed => sink.batch = "none" /\ Settled(sink)
  /\ flushed => sender.at \in {"close", "closed", "dropped"}

(* Whatever does not touch the messages keeps the books.                   *)
LEMMA SettledSame ==
  ASSUME NEW s, NEW t, Settled(s), t.buf = s.buf, t.wire = s.wire, t.accepted = s.accepted,
         t.enhance = s.enhance
  PROVE  Settled(t)
BY Zenon DEF Settled

(* A step of a sink that no close has flushed.                             *)
LEMMA BooksGo ==
  ASSUME ~flushed', sender'.at \in Working \cup {"close"} => Settled(sink')
  PROVE  BooksInv'
BY Zenon DEF BooksInv

(* poll_ready, also as the first thing of poll_close.                      *)
LEMMA PollSettles ==
  ASSUME Shapes, Settled(sink), NEW r, r = PollBatch(sink)
  PROVE  Settled(r.sink)
<1>1. DOMAIN sink = SinkDom /\ sink.batch \in Futures
  BY Zenon DEF Shapes, SinkShape
<1>2. PollGoes(sink, r)
  BY <1>1, Polled, Zenon
<1> QED
  BY <1>2, SettledSame, Zenon DEF PollGoes

(* The steps of a sink that is given messages.                             *)
LEMMA BooksSend ==
  ASSUME CallInv, BooksInv,
         \/ SinkReady \/ (\E h \in BOOLEAN : SinkSend(h)) \/ SinkFlush
         \/ SinkGiveUpFlush \/ SinkEnhance
  PROVE  BooksInv'
<1>1. sender.at \in Working /\ flushed' = flushed
  BY DEF SinkReady, SinkSend, SinkFlush, SinkGiveUpFlush, SinkEnhance, Working
<1>2. ~flushed' /\ Settled(sink)
  <2>1. sender.at \notin {"close", "closed", "dropped"}
    BY <1>1 DEF Working
  <2> QED
    BY <1>1, <2>1, Zenon DEF BooksInv
<1>3. Shapes /\ SinkShape(sink) /\ MetaGood(sink) /\ (Brings(sink) => sink.buf = NoMsg)
  BY <1>1, Zenon DEF CallInv, Shapes, SinkInv
<1>4. CASE SinkReady
  <2>1. sink' = sink \/ sink' = PollBatch(sink).sink
    BY <1>4, Zenon DEF SinkReady
  <2> QED
    BY <1>2, <1>3, <2>1, PollSettles, BooksGo, Zenon
<1>5. ASSUME NEW h \in BOOLEAN, SinkSend(h) PROVE BooksInv'
  <2>1. PICK m, r : m = Len(sink.accepted) + 1 /\ r = StartSend(sink, m, h, open)
    BY Zenon
  <2>2. sender.at = "ready" /\ sink' = r.sink /\ sender' = After(r.res, "idle", "idle", {})
    BY <1>5, <2>1, Zenon DEF SinkSend
  <2>3. m \in Nat \ {0} /\ m \in Nat
    BY <1>3, <2>1 DEF SinkShape
  <2>4. sink.batch = "none"
    BY <2>2, Zenon DEF CallInv, PollInv
  <2>5. CASE r.res = "ok"
    <3>1. Settled(r.sink)
      BY <1>2, <1>3, <2>1, <2>3, <2>4, <2>5, StartSettles, Zenon
    <3> QED
      BY <1>2, <2>2, <3>1, BooksGo, Zenon
  <2>6. CASE r.res # "ok"
    <3>1. Started(sink, r)
      BY <1>3, <2>1, <2>3, <2>4, Starts, Zenon
    <3>2. r.res \in {"err", "panic"}
      BY <2>6, <3>1 DEF Started
    <3>3. sender'.at \in {"failed", "panicked"}
      BY <2>2, <3>2, AfterAt
    <3>4. sender'.at \notin Working \cup {"close"}
      BY <3>3 DEF Working
    <3> QED
      BY <1>2, <3>4, BooksGo, Zenon
  <2> QED
    BY <2>5, <2>6, Zenon
<1>6. CASE SinkFlush
  <2>1. sink' = sink \/ sink' = Flush(sink, open).sink
    BY <1>6, Zenon DEF SinkFlush
  <2> QED
    BY <1>2, <1>3, <2>1, FlushSettles, BooksGo, Zenon
<1>7. CASE SinkGiveUpFlush
  <2>1. sink' = sink
    BY <1>7, Zenon DEF SinkGiveUpFlush
  <2> QED
    BY <1>2, <2>1, BooksGo, Zenon
<1>8. CASE SinkEnhance
  <2>1. sink' = [sink EXCEPT !.enhance = ~@] /\ sink.accepted = <<>>
    BY <1>8, Zenon DEF SinkEnhance
  <2>2. /\ sink'.buf = sink.buf /\ sink'.wire = sink.wire /\ sink'.accepted = sink.accepted
    BY <1>3, <2>1 DEF SinkShape, SinkDom
  <2>3. sink.buf = NoMsg
    BY <1>1, <2>1, Zenon DEF CallInv, PollInv
  <2>4. Settled(sink')
    BY <1>2, <2>2, <2>3, Zenon DEF Settled
  <2> QED
    BY <1>2, <2>4, BooksGo, Zenon
<1> QED
  BY <1>4, <1>5, <1>6, <1>7, <1>8, Zenon

(* The steps of a close.                                                   *)
LEMMA BooksClose ==
  ASSUME CallInv, CallInv', BooksInv, SinkClose \/ SinkCloseFlush \/ SinkCloseFinish
  PROVE  BooksInv'
<1>1. Settled(sink) /\ Shapes
  <2>1. sender.at \in Working \cup {"close"}
    BY DEF SinkClose, SinkCloseFlush, SinkCloseFinish, Working
  <2> QED
    BY <2>1, Zenon DEF BooksInv, CallInv
<1>2. CASE SinkClose
  <2>1. sink' = PollBatch(sink).sink /\ flushed' = flushed /\ status.f = "none"
    BY <1>2, Zenon DEF SinkClose
  <2>2. ~flushed
    BY <2>1 DEF CallInv, StatusInv
  <2> QED
    BY <1>1, <2>1, <2>2, PollSettles, BooksGo, Zenon
<1>3. CASE SinkCloseFlush
  <2>1. /\ sink' = sink /\ sender' = After(status.f, "close", "close", {"status"})
        /\ flushed' = (status.f = "ok") /\ sender.at = "close" /\ status.f # "none" /\ ~flushed
    BY <1>3, Zenon DEF SinkCloseFlush
  <2>2. status.f = "ok" => sender'.at = "close"
    BY <2>1, AfterAt
  <2>3. flushed' => sender'.at = "close" /\ sender'.at # "closed"
    BY <2>1, <2>2, Zenon
  <2> QED
    BY <1>1, <2>1, <2>3 DEF BooksInv
<1>4. CASE SinkCloseFinish
  <2>1. sink' = sink /\ flushed' = flushed /\ sender' = AfterFinish("close") /\ flushed /\ sender.at = "close"
    BY <1>4, Zenon DEF SinkCloseFinish
  <2>2. share.close \in {"pending", "ok"} /\ status.f = "stale"
    BY <2>1 DEF CallInv, EndInv, PollInv, StatusInv
  <2>3. sender'.at \in {"close", "closed"}
    BY <2>1, <2>2, EndAwaited
  <2>4. sink.batch = "none"
    BY <2>1, <2>2 DEF CallInv, StatusInv
  <2> QED
    BY <1>1, <2>1, <2>3, <2>4 DEF BooksInv
<1> QED
  BY <1>2, <1>3, <1>4

(* The other steps of the sink's user: they answer, or drop the sink.      *)
LEMMA BooksEnd ==
  ASSUME CallInv, CallInv', BooksInv,
         SinkFail \/ FailPoll \/ SinkComplete \/ ResultPoll \/ SinkDrop
  PROVE  BooksInv'
<1>1. CASE SinkDrop
  <2>1. sender'.at = "dropped"
    BY <1>1, TaskFields DEF SinkDrop
  <2> QED
    BY <2>1 DEF BooksInv, Working
<1>2. CASE SinkFail \/ SinkComplete
  <2>1. /\ flushed' = flushed /\ status.f = "none" /\ DOMAIN status = StatusDom
        /\ StartStatus("failing", "spent") \/ StartStatus("result", "spent")
    <3>1. status.f = "none"
      BY <1>2 DEF SinkFail, SinkComplete, CallInv, StatusInv, Working
    <3> QED
      BY <1>2, <3>1, Zenon DEF SinkFail, SinkComplete, CallInv, Shapes
  <2>2. StatusGoes("failing", "spent") \/ StatusGoes("result", "spent")
    BY <2>1, StatusStarts, Zenon
  <2>3. sender'.at \in {"failing", "result", "spent"} /\ ~flushed'
    BY <2>1, <2>2 DEF StatusGoes, CallInv, StatusInv
  <2> QED
    BY <2>3, BooksGo DEF Working
<1>3. CASE FailPoll \/ ResultPoll
  <2>1. sender.at \in {"failing", "result"} /\ flushed' = flushed
    BY <1>3 DEF FailPoll, ResultPoll
  <2>2. ~flushed'
    BY <2>1 DEF BooksInv
  <2>3. sender'.at \notin Working \cup {"close"}
    <3>1. status.f # "none"
      BY <2>1 DEF CallInv, StatusInv
    <3>2. status'.f # "none"
      BY <1>3, <3>1, StatusTaken DEF FailPoll, ResultPoll, CallInv, Shapes
    <3>3. sender'.at # "close"
      <4>1. CASE FailPoll
        BY <4>1, TaskFields DEF FailPoll
      <4>2. CASE ResultPoll
        <5>1. share.close \in {"pending", "ok"}
          BY <2>1, <4>2 DEF ResultPoll, CallInv, EndInv, PollInv
        <5> QED
          BY <4>2, <5>1, TaskFields, EndAwaited DEF ResultPoll
      <4> QED
        BY <1>3, <4>1, <4>2
    <3>4. sender'.at \notin Working
      BY <3>2 DEF CallInv, StatusInv
    <3> QED
      BY <3>3, <3>4
  <2> QED
    BY <2>2, <2>3, BooksGo, Zenon
<1> QED
  BY <1>1, <1>2, <1>3

(* The steps of core that report on the sink's futures.                    *)
LEMMA BooksCore ==
  ASSUME CallInv, BooksInv, CloseResolves \/ BatchResolves \/ StatusResolves
  PROVE  BooksInv'
<1>1. sender'.at = sender.at /\ flushed' = flushed
  BY WokenStays DEF CloseResolves, BatchResolves, StatusResolves, CallInv, Shapes
<1>2. CASE CloseResolves \/ StatusResolves
  <2>1. sink' = sink
    BY <1>2, Zenon DEF CloseResolves, StatusResolves
  <2> QED
    BY <1>1, <2>1, Zenon DEF BooksInv
<1>3. CASE BatchResolves
  <2>1. sink.batch = "pending"
    BY <1>3, Zenon DEF BatchResolves
  <2>2. PICK r : sink' = [sink EXCEPT !.batch = r]
    BY <1>3, Zenon DEF BatchResolves
  <2>3. /\ sink'.buf = sink.buf /\ sink'.wire = sink.wire /\ sink'.accepted = sink.accepted
        /\ sink'.enhance = sink.enhance
    BY <2>2 DEF CallInv, Shapes, SinkShape, SinkDom
  <2>4. sender.at \in Working \cup {"close"} => Settled(sink')
    BY <2>3, SettledSame, Zenon DEF BooksInv
  <2>5. ~(sender.at = "closed" /\ flushed)
    BY <2>1 DEF BooksInv
  <2> QED
    BY <1>1, <2>4, <2>5, Zenon DEF BooksInv
<1> QED
  BY <1>2, <1>3

(* Every step of the call keeps the books.                                 *)
LEMMA BooksStep == ASSUME CallInv, CallInv', BooksInv, [Next]_vars PROVE BooksInv'
<1>1. ASSUME UNCHANGED SinkSide PROVE BooksInv'
  BY <1>1, Zenon DEF SinkSide, BooksInv
<1>2. CASE SinkNext
  BY <1>2, BooksSend, BooksClose, BooksEnd, Zenon DEF SinkNext
<1>3. CASE RecvNext
  BY <1>1, <1>3 DEF RecvNext, RecvCheck, RecvPending, RecvEof, RecvStart, RecvDrop, SenderSame, SinkSide
<1>4. CASE ClientSend \/ ClientClose \/ ClientCancel \/ QueueShutdown \/ RecvResolves
  BY <1>1, <1>4 DEF ClientSend, ClientClose, ClientCancel, QueueShutdown, RecvResolves, SenderSame,
     SinkSide
<1>5. CASE CloseResolves \/ BatchResolves \/ StatusResolves
  BY <1>5, BooksCore
<1>6. CASE Ended \/ UNCHANGED vars
  BY <1>1, <1>6 DEF Ended, vars, SinkSide
<1> QED
  BY <1>2, <1>3, <1>4, <1>5, <1>6, Zenon DEF Next, Core

(* A call that was just accepted has accepted no message.                  *)
LEMMA BooksStart == ASSUME Init PROVE BooksInv
<1>1. sink = NewSink(TRUE) /\ flushed = FALSE
  BY DEF Init, NewStreamSink
<1>2. sink.buf = NoMsg /\ sink.accepted = <<>> /\ sink.wire = <<>>
  BY <1>1 DEF NewSink
<1>3. Numbers(<<>>) \o <<>> = Numbers(<<>>)
  <2>1. Numbers(<<>>) \in Seq(Nat)
    BY DEF Numbers
  <2> QED
    BY <2>1
<1>4. Settled(sink)
  BY <1>2, <1>3, Zenon DEF Settled, InAll, Rest
<1> QED
  BY <1>1, <1>4, Zenon DEF BooksInv

(* The invariant of a server's streaming call (call/server.rs): what its   *)
(* sink holds, sends and awaits, at any number of messages.                *)
THEOREM ServerCallInductive == Spec => []CallInv
<1>1. Init => CallInv
  BY CallStart
<1>2. CallInv /\ [Next]_vars => CallInv'
  BY CallStep
<1> QED
  BY <1>1, <1>2, PTL DEF Spec

(* The initial metadata go out exactly once, with the first message or     *)
(* with the status, whichever way the sink ends (start_send of SinkBase,   *)
(* call/mod.rs:710-762; poll_close and fail, call/server.rs:446-552).      *)
THEOREM MetadataGoesOnce == Spec => []MetadataOnce
<1>1. CallInv => MetadataOnce
  <2> SUFFICES ASSUME CallInv PROVE MetadataOnce
    OBVIOUS
  <2>1. \A i \in 1..Len(sink.wire) : sink.wire[i].meta <=> i = 1
    BY Zenon DEF CallInv, SinkInv, MetaGood, FirstOnly, Brings
  <2>2. status.f # "none" /\ sender.at # "dropped" => (status.meta <=> sink.wire = <<>>)
    BY Zenon DEF CallInv, SinkInv, StatusInv, MetaGood, Brings
  <2> QED
    BY <2>1, <2>2 DEF MetadataOnce
<1> QED
  BY <1>1, ServerCallInductive, PTL

(* The sink of a server's streaming call keeps count of its messages: what *)
(* start_send accepted was handed to core, in order, or is the one message *)
(* held back, until an error or a fail ends the sink (SinkBase,            *)
(* call/mod.rs:710-796).                                                   *)
THEOREM SinkKeepsBooks == Spec => []BooksInv
<1>1. Init => BooksInv
  BY BooksStart
<1>2. CallInv /\ CallInv' /\ BooksInv /\ [Next]_vars => BooksInv'
  BY BooksStep
<1> QED
  BY <1>1, <1>2, ServerCallInductive, PTL DEF Spec

(* When poll_close has started the status, no message is under way, and    *)
(* core was given every message that was accepted, once and in order, but  *)
(* for one that enhance_batch holds back; a sink is closed after the       *)
(* status and the end of the call (call/server.rs:318-334, 530-584).       *)
THEOREM CloseIsComplete == Spec => []ClosedComplete
<1>1. CallInv /\ BooksInv => ClosedComplete
  <2> SUFFICES ASSUME CallInv, BooksInv PROVE ClosedComplete
    OBVIOUS
  <2>1. sender.at = "closed" => share.finished /\ over # "no" /\ status.f = "stale"
    BY DEF CallInv, EndInv
  <2>2. Closing => sink.batch = "none" /\ Settled(sink)
    BY DEF Closing, CallInv, StatusInv, BooksInv
  <2>3. Settled(sink) => Accounted(sink) /\ (sink.enhance \/ sink.buf = NoMsg)
    BY AccountedIs, Zenon DEF Settled
  <2> QED
    BY <2>1, <2>2, <2>3, Zenon DEF ClosedComplete
<1> QED
  BY <1>1, ServerCallInductive, SinkKeepsBooks, PTL

(* The sink of a handler never panics, whenever the call ends and whatever *)
(* the handler does as the traits ask, enhance_batch before the first      *)
(* message: no future is polled after its result, and no message is        *)
(* started over another (call/mod.rs:710-796, call/server.rs:504-584).     *)
THEOREM HandlerSinkNeverPanics == Spec => [](sender.at # "panicked")
<1>1. CallInv => sender.at # "panicked"
  BY DEF CallInv, PollInv
<1> QED
  BY <1>1, ServerCallInductive, PTL
=============================================================================
