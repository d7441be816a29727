----------------------------- MODULE ClientCallProofs -----------------------------
(***************************************************************************)
(* What the sink and the receiver of a client's streaming call keep,       *)
(* proved for every number of messages: neither panics, what was accepted  *)
(* is accounted for, and a stream that ends without an error is complete.  *)
(***************************************************************************)
EXTENDS ClientCall, TLAPS

-----------------------------------------------------------------------------
(* The records.                                                            *)

TaskDom == {"at", "asleep", "on", "hit"}
RecvDom == {"msg", "data", "done", "finished", "err"}
SinkDom == {"batch", "buf", "lastHint", "meta", "enhance", "accepted", "wire"}

Shapes ==
  /\ DOMAIN share = {"close", "finished"} /\ DOMAIN recv = RecvDom
  /\ DOMAIN sender = TaskDom /\ DOMAIN reader = TaskDom
  /\ DOMAIN sink = SinkDom

(* The places a task goes to.                                              *)
LEMMA TaskFields ==
  ASSUME NEW at, NEW on
  PROVE  /\ Goes(at).at = at /\ DOMAIN Goes(at) = TaskDom
         /\ Sleeps(at, on).at = at /\ DOMAIN Sleeps(at, on) = TaskDom
BY Zenon DEF Goes, Sleeps, TaskDom

(* A wake-up leaves a task where it is.                                    *)
LEMMA WokenStays ==
  ASSUME NEW t, DOMAIN t = TaskDom, NEW f
  PROVE  Woken(t, f).at = t.at /\ DOMAIN Woken(t, f) = TaskDom
<1>2. CASE f \in t.on
  BY <1>2, Zenon DEF Woken, TaskDom
<1>3. CASE f \notin t.on
  BY <1>3, Zenon DEF Woken
<1> QED
  BY <1>2, <1>3, Zenon

(* What the polls of the receiver leave in it, and where its task goes.    *)
LEMMA RecvFields ==
  ASSUME DOMAIN recv = RecvDom, DOMAIN reader = TaskDom, DOMAIN share = {"close", "finished"}
  PROVE  /\ RecvFinish /\ ~recv.finished =>
              /\ DOMAIN recv' = RecvDom /\ recv'.msg = recv.msg /\ recv'.data = recv.data
              /\ recv'.done = recv.done /\ recv'.finished = share'.finished
              /\ recv'.err <=> (recv.err \/ share.close = "failed")
         /\ RecvPending => DOMAIN reader' = TaskDom /\ reader'.at = "poll"
         /\ RecvEof => /\ DOMAIN recv' = RecvDom /\ recv'.msg = "stale" /\ recv'.done
                       /\ recv'.finished = recv.finished /\ recv'.err = recv.err
                       /\ DOMAIN reader' = TaskDom
                       /\ reader'.at = IF recv.finished THEN "ended" ELSE "poll"
<1>1. ASSUME RecvFinish, ~recv.finished
      PROVE  /\ DOMAIN recv' = RecvDom /\ recv'.msg = recv.msg /\ recv'.data = recv.data
             /\ recv'.done = recv.done /\ recv'.finished = share'.finished
             /\ recv'.err <=> (recv.err \/ share.close = "failed")
  BY <1>1, Zenon DEF RecvFinish, RecvDom
<1>2. ASSUME RecvPending PROVE DOMAIN reader' = TaskDom /\ reader'.at = "poll"
  BY <1>2, Zenon DEF RecvPending, TaskDom
<1>3. ASSUME RecvEof
      PROVE  /\ DOMAIN recv' = RecvDom /\ recv'.msg = "stale" /\ recv'.done
             /\ recv'.finished = recv.finished /\ recv'.err = recv.err
  BY <1>3, Zenon DEF RecvEof, RecvDom
<1>4. ASSUME RecvEof
      PROVE  DOMAIN reader' = TaskDom /\ reader'.at = IF recv.finished THEN "ended" ELSE "poll"
  BY <1>4, TaskFields, Zenon DEF RecvEof, TaskDom
<1> QED
  BY <1>1, <1>2, <1>3, <1>4, Zenon

-----------------------------------------------------------------------------
(* The share of the call, and the receiver.                                *)

(* The status of the call is taken once, by the receiver, which remembers  *)
(* that; it says how the call ended.                                       *)
ShareInv ==
  /\ share.close \in {"pending", "ok", "failed", "stale"}
  /\ share.finished <=> share.close = "stale"
  /\ outcome \in {"none", "ok", "failed"}
  /\ share.close = "ok" => outcome = "ok"
  /\ share.close = "failed" => outcome = "failed"
  /\ reader.at \in ReaderAt
  /\ duplex /\ reader.at # "dropped" => (recv.finished <=> share.close = "stale")
  /\ ~duplex /\ share.close = "stale" => reader.at # "poll"
  /\ reader.at = "polling" => duplex
  /\ reader.at # "panicked"

(* The messages of the server, where they are: returned, received or on    *)
(* their way.                                                              *)
Upto(n) == [i \in 1..n |-> i]
Ordered(y) == y = Upto(Len(y))
Chained(y, h, b, s) == y \o h \o b = Upto(s)
Held == IF recv.msg = "data" THEN <<recv.data>> ELSE <<>>
Chain == Chained(yielded, Held, inbox, sent)
Lost == reader.at = "dropped" \/ (~open /\ recv.msg = "none" /\ recv.err)

StreamInv ==
  /\ sent \in Nat /\ yielded \in Seq(Nat) /\ inbox \in Seq(Nat)
  /\ recv.msg \in {"none", "pending", "data", "eof", "stale"}
  /\ recv.msg = "data" => recv.data \in Nat
  /\ Ordered(yielded)
  /\ Lost \/ Chain
  /\ ~duplex => sent = 0 /\ Len(yielded) = 0 /\ recv.msg = "none"
  /\ recv.msg \in {"eof", "stale"} =>
       outcome # "none" /\ (outcome = "ok" => inbox = <<>>)
  /\ recv.done => recv.msg = "stale"
  /\ duplex /\ share.close = "stale" /\ reader.at # "dropped" /\ ~recv.err => outcome = "ok"
  /\ reader.at = "ended" => /\ share.close = "stale"
                            /\ duplex => recv.msg = "stale"
                            /\ ~duplex => outcome = "ok"

-----------------------------------------------------------------------------
(* The sink.                                                               *)

Working == {"idle", "ready", "sending", "flush", "flushing"}

(* A batch is taken before the next one is started, and each future is     *)
(* polled until it has given its result.                                   *)
TaskInv ==
  /\ sink.batch \in Futures /\ closeF \in Futures
  /\ sender.at \in SenderAt
  /\ sender.at \in Working \cup {"close"} => sink.batch # "stale"
  /\ sender.at \in {"ready", "sending"} => sink.batch = "none"
  /\ sender.at \in Working => closeF = "none"
  /\ sender.at = "close" => closeF # "stale"

(* Only the message whose check came before the end is handed over late.   *)
LateInv ==
  \/ late = 0
  \/ late = 1 /\ ~Alive /\ sender.at \notin {"sending", "flushing"}

(* A message is held only by a sink that batches, and only one that was    *)
(* accepted.                                                               *)
PlainInv ==
  /\ sender.at # "panicked"
  /\ sender.at \in Working => sink.buf = NoMsg \/ (sink.enhance /\ sink.accepted # <<>>)

Offered == [msg : Nat, hint : BOOLEAN]
OnWire == [msg : Nat, hint : BOOLEAN, meta : BOOLEAN]

(* The accepted messages that asked to be sent at once and are not at or   *)
(* before a message that was.                                              *)
Urgent(x) == ~x.hint
Waiting(accepted, wire) ==
  {i \in 1..Len(accepted) : Urgent(accepted[i]) /\ \A j \in i..Len(wire) : ~Urgent(wire[j])}

SinkGood(s) ==
  /\ s.accepted \in Seq(Offered) /\ s.wire \in Seq(OnWire) /\ s.buf \in Offered
  /\ s.meta = FALSE /\ s.lastHint \in BOOLEAN
  /\ Len(s.wire) <= Len(s.accepted)
  /\ Waiting(s.accepted, s.wire) # {} => ~s.lastHint /\ s.buf # NoMsg

SinkInv ==
  /\ SinkGood(sink)
  /\ sender.at \notin {"failed", "panicked", "dropped"} => Accounted(sink)

ClientInv == Shapes /\ ShareInv /\ StreamInv /\ TaskInv /\ LateInv /\ SinkInv

-----------------------------------------------------------------------------
(* Messages on their way to the reader: the sequences stay one behind the  *)
(* other.                                                                  *)

(* An interval tells its end.                                              *)
LEMMA SameEnd == ASSUME NEW m \in Nat, NEW n \in Nat, 1..m = 1..n PROVE m = n
<1>1. CASE m < n
  <2>1. n \in 1..n /\ n \notin 1..m
    BY <1>1
  <2> QED
    BY <2>1, Zenon
<1>2. CASE n < m
  <2>1. m \in 1..m /\ m \notin 1..n
    BY <1>2
  <2> QED
    BY <2>1, Zenon
<1> QED
  BY <1>1, <1>2

(* The message that was received is returned.                              *)
LEMMA ChainTake ==
  ASSUME NEW y \in Seq(Nat), NEW d \in Nat, NEW b \in Seq(Nat), NEW s \in Nat,
         Ordered(y), Chained(y, <<d>>, b, s)
  PROVE  Chained(Append(y, d), <<>>, b, s) /\ Ordered(Append(y, d))
<1> DEFINE k == Len(y)
           c == y \o <<d>> \o b
<1>1. k \in Nat /\ Len(b) \in Nat /\ Len(c) = k + 1 + Len(b)
  OBVIOUS
<1>2. Append(y, d) \o <<>> \o b = c
  <2>1. Append(y, d) = y \o <<d>>
    OBVIOUS
  <2>2. Append(y, d) \in Seq(Nat) /\ Append(y, d) \o <<>> = Append(y, d)
    OBVIOUS
  <2> QED
    BY <2>1, <2>2, Zenon
<1>3. DOMAIN Upto(s) = 1..s /\ \A i \in 1..s : Upto(s)[i] = i
  BY Zenon DEF Upto
<1>4. DOMAIN c = 1..Len(c) /\ Len(c) \in Nat
  BY <1>1
<1>5. Len(c) = s
  <2>1. c = Upto(s)
    BY Zenon DEF Chained
  <2> HIDE DEF c
  <2>2. 1..Len(c) = 1..s
    BY <1>3, <1>4, <2>1, Zenon
  <2> QED
    BY <1>4, <2>2, SameEnd, Zenon
<1>6. c[k + 1] = d
  BY <1>1
<1>7. d = k + 1
  <2>1. k + 1 \in 1..s
    BY <1>1, <1>5
  <2> HIDE DEF c, k
  <2>2. Upto(s)[k + 1] = k + 1
    BY <1>3, <2>1, Zenon
  <2>3. c = Upto(s)
    BY DEF Chained, c
  <2> QED
    BY <1>6, <2>2, <2>3, Zenon
<1>8. Append(y, d) \in Seq(Nat) /\ Len(Append(y, d)) = k + 1 /\ DOMAIN Append(y, d) = 1..(k + 1)
  BY <1>1
<1>9. \A i \in 1..k : y[i] = i
  <2>1. y = Upto(k)
    BY Zenon DEF Ordered
  <2> HIDE DEF k
  <2>2. \A i \in 1..k : Upto(k)[i] = i
    BY Zenon DEF Upto
  <2> QED
    BY <2>1, <2>2, Zenon
<1>10. \A i \in 1..(k + 1) : Append(y, d)[i] = i
  <2>1. Append(y, d)[k + 1] = d /\ \A i \in 1..k : Append(y, d)[i] = y[i]
    BY <1>1
  <2> HIDE DEF k
  <2> QED
    BY <1>1, <1>7, <1>9, <2>1
<1>11. Append(y, d) = [i \in 1..(k + 1) |-> Append(y, d)[i]]
  <2>1. ASSUME NEW q \in Seq(Nat), DOMAIN q = 1..(k + 1) PROVE q = [i \in 1..(k + 1) |-> q[i]]
    BY <2>1
  <2> HIDE DEF k
  <2> QED
    BY <1>8, <2>1, Zenon
<1> HIDE DEF k, c
<1>12. c = Upto(s)
  BY DEF Chained, c
<1>13. Append(y, d) = Upto(k + 1)
  BY <1>10, <1>11, Zenon DEF Upto
<1> QED
  BY <1>2, <1>8, <1>12, <1>13, Zenon DEF Chained, Ordered

(* The next message is received.                                           *)
LEMMA ChainGet ==
  ASSUME NEW y \in Seq(Nat), NEW b \in Seq(Nat), b # <<>>, NEW s
  PROVE  /\ Chained(y, <<>>, b, s) => Chained(y, <<Head(b)>>, Tail(b), s)
         /\ Head(b) \in Nat /\ Tail(b) \in Seq(Nat)
<1>1. Head(b) \in Nat /\ Tail(b) \in Seq(Nat) /\ Len(Tail(b)) = Len(b) - 1 /\ Len(b) \in Nat \ {0}
  OBVIOUS
<1>2. b = <<Head(b)>> \o Tail(b)
  BY <1>1
<1>3. (y \o <<Head(b)>>) \o Tail(b) = y \o (<<Head(b)>> \o Tail(b))
  BY <1>1, SMTT(60)
<1>4. y \o <<>> = y
  OBVIOUS
<1> QED
  BY <1>1, <1>2, <1>3, <1>4, Zenon DEF Chained

(* What is appended to the second is at the end of both.                   *)
LEMMA AppendLast ==
  ASSUME NEW a \in Seq(Nat), NEW b \in Seq(Nat), NEW x \in Nat
  PROVE  a \o b \in Seq(Nat) /\ a \o Append(b, x) = Append(a \o b, x)
<1>1. <<x>> \in Seq(Nat) /\ a \o b \in Seq(Nat)
  OBVIOUS
<1>a. \A q \in Seq(Nat) : Append(q, x) = q \o <<x>>
  OBVIOUS
<1>2. Append(b, x) = b \o <<x>> /\ Append(a \o b, x) = (a \o b) \o <<x>>
  BY <1>1, <1>a, Zenon
<1>3. (a \o b) \o <<x>> = a \o (b \o <<x>>)
  BY SMTT(60)
<1> QED
  BY <1>1, <1>2, <1>3, Zenon

(* The server sends another one.                                           *)
LEMMA ChainSend ==
  ASSUME NEW y \in Seq(Nat), NEW h \in Seq(Nat), NEW b \in Seq(Nat), NEW s \in Nat,
         Chained(y, h, b, s)
  PROVE  Chained(y, h, Append(b, s + 1), s + 1)
<1> DEFINE a == y \o h
<1>a. a \in Seq(Nat)
  OBVIOUS
<1> HIDE DEF a
<1> DEFINE c == a \o b
           n == a \o Append(b, s + 1)
<1>0. s + 1 \in Nat
  OBVIOUS
<1>b. \A x \in Nat : a \o b \in Seq(Nat) /\ a \o Append(b, x) = Append(a \o b, x)
  BY <1>a, AppendLast, Zenon
<1>1. c \in Seq(Nat) /\ n = Append(c, s + 1)
  BY <1>0, <1>b, Zenon
<1>2. DOMAIN Upto(s) = 1..s /\ \A i \in 1..s : Upto(s)[i] = i
  BY Zenon DEF Upto
<1> HIDE DEF c, n
<1>3. DOMAIN c = 1..Len(c) /\ Len(c) \in Nat /\ c = Upto(s)
  <2>1. c = Upto(s)
    BY Zenon DEF c, a, Chained
  <2> QED
    BY <1>1, <2>1
<1>4. Len(c) = s
  BY <1>2, <1>3
<1>5. Append(c, s + 1) \in Seq(Nat) /\ DOMAIN Append(c, s + 1) = 1..(s + 1)
  BY <1>1, <1>4
<1>6. \A i \in 1..(s + 1) : Append(c, s + 1)[i] = i
  <2>1. Append(c, s + 1)[s + 1] = s + 1 /\ \A i \in 1..s : Append(c, s + 1)[i] = c[i]
    BY <1>1, <1>4
  <2> QED
    BY <1>2, <1>3, <2>1
<1>7. Append(c, s + 1) = [i \in 1..(s + 1) |-> Append(c, s + 1)[i]]
  BY <1>5
<1>8. Append(c, s + 1) = Upto(s + 1)
  BY <1>6, <1>7, Zenon DEF Upto
<1>9. y \o h \o Append(b, s + 1) = n
  BY Zenon DEF n, a
<1> QED
  BY <1>1, <1>8, <1>9, Zenon DEF Chained

(* When all were returned, they are as many as the server sent.            *)
LEMMA ChainAll ==
  ASSUME NEW y \in Seq(Nat), NEW s \in Nat, Chained(y, <<>>, <<>>, s) PROVE Len(y) = s
<1>1. y = Upto(s)
  <2>1. y \o <<>> \o <<>> = y
    OBVIOUS
  <2> QED
    BY <2>1, Zenon DEF Chained
<1>2. DOMAIN y = 1..Len(y) /\ Len(y) \in Nat /\ DOMAIN Upto(s) = 1..s
  BY DEF Upto
<1>3. 1..Len(y) = 1..s
  BY <1>1, <1>2, Zenon
<1> QED
  BY <1>2, <1>3, SameEnd, Zenon

-----------------------------------------------------------------------------
(* The steps of the receiver, and of core.                                 *)

(* What a cancel does to the call: nothing once its status was reported.   *)
CallEnds ==
  /\ outcome' \in {"none", "ok", "failed"}
  /\ share.close # "pending" => outcome' = outcome
  /\ outcome' = outcome \/ outcome' = "failed"

(* Call::cancel and the drop of a half.                                    *)
LEMMA Cancels ==
  ASSUME outcome \in {"none", "ok", "failed"},
         CoreCancels \/ Cancel \/ (\E c, o : DropHalf(c, o)) \/ UNCHANGED outcome
  PROVE  CallEnds
<1>1. CoreCancels \/ UNCHANGED outcome
  BY Zenon DEF Cancel, DropHalf
<1> QED
  BY <1>1, Zenon DEF CoreCancels, CallEnds

ReadVars == <<share, recv, reader, yielded, inbox, sent, open, duplex>>

(* What the sink does leaves the receiver as it is.                        *)
LEMMA OthersKeep ==
  ASSUME ShareInv, StreamInv, UNCHANGED ReadVars, CallEnds
  PROVE  ShareInv' /\ StreamInv'
<1>1. ShareInv'
  BY Zenon DEF ShareInv, ReadVars, CallEnds
<1>2. Held' = Held /\ (Lost' <=> Lost) /\ (Chain' <=> Chain)
  BY Zenon DEF ReadVars, Held, Lost, Chain
<1>3. StreamInv'
  BY <1>2, Zenon DEF StreamInv, ReadVars, CallEnds
<1> QED
  BY <1>1, <1>3, Zenon

(* poll_finish: the receiver remembers that the status was taken.          *)
LEMMA ShareFinish ==
  ASSUME Shapes, ShareInv, RecvFinish
  PROVE  /\ ShareInv'
         /\ reader'.at \in {"polling", "failed"} /\ DOMAIN reader' = TaskDom
         /\ share' = share \/ (share.close \in {"ok", "failed"} /\ share'.close = "stale")
         /\ DOMAIN share' = {"close", "finished"} /\ DOMAIN recv' = RecvDom
<1>0. duplex /\ reader.at = "poll" /\ UNCHANGED <<duplex, outcome>>
  BY Zenon DEF RecvFinish, CoreSame
<1>1. CASE recv.finished
  <2>1. reader' = Goes("polling") /\ UNCHANGED <<share, recv>>
    BY <1>1, Zenon DEF RecvFinish
  <2>2. reader'.at = "polling" /\ DOMAIN reader' = TaskDom
    BY <2>1, TaskFields, Zenon
  <2> QED
    BY <1>0, <1>1, <2>1, <2>2, Zenon DEF ShareInv, Shapes, ReaderAt
<1>2. CASE ~recv.finished
  <2>1. share.close \in {"pending", "ok", "failed"} /\ ~share.finished
    BY <1>0, <1>2, Zenon DEF ShareInv
  <2>2. recv'.finished = share'.finished /\ DOMAIN recv' = RecvDom
    BY <1>2, RecvFields, Zenon DEF Shapes
  <2>3. CASE share.close = "pending"
    <3>1. share' = share
      BY <1>2, <2>3, Zenon DEF RecvFinish, PollFinish
    <3>2. reader' = [Goes("polling") EXCEPT !.on = {"finish"}]
      BY <1>2, <2>3, Zenon DEF RecvFinish
    <3>3. reader'.at = "polling" /\ DOMAIN reader' = TaskDom
      BY <3>2, Zenon DEF Goes, TaskDom
    <3> QED
      BY <1>0, <1>2, <2>1, <2>2, <2>3, <3>1, <3>3, Zenon DEF ShareInv, Shapes, ReaderAt
  <2>4. CASE share.close \in {"ok", "failed"}
    <3>1. share' = [close |-> "stale", finished |-> TRUE]
      BY <1>2, <2>4, Zenon DEF RecvFinish, PollFinish
    <3>2. reader' = Goes("polling") \/ reader' = Goes("failed")
      BY <1>2, <2>4, Zenon DEF RecvFinish
    <3>3. reader'.at \in {"polling", "failed"} /\ DOMAIN reader' = TaskDom
      BY <3>2, TaskFields, Zenon
    <3>4. share'.close = "stale" /\ share'.finished /\ DOMAIN share' = {"close", "finished"}
      BY <3>1, Zenon
    <3> QED
      BY <1>0, <1>2, <2>1, <2>2, <2>4, <3>3, <3>4, Zenon DEF ShareInv, Shapes, ReaderAt
  <2> QED
    BY <2>1, <2>3, <2>4, Zenon
<1> QED
  BY <1>1, <1>2, Zenon

(* ClientCStreamReceiver::poll, which takes the status once.               *)
LEMMA ShareResponse ==
  ASSUME Shapes, ShareInv, RecvResponse
  PROVE  /\ ShareInv'
         /\ reader'.at \in {"poll", "ended", "failed"} /\ DOMAIN reader' = TaskDom
         /\ reader'.at = "ended" => share.close = "ok"
         /\ share' = share \/ share'.close = "stale"
         /\ DOMAIN share' = {"close", "finished"} /\ DOMAIN recv' = RecvDom
         /\ recv'.msg = recv.msg /\ recv'.data = recv.data /\ recv'.done = recv.done
         /\ recv'.err = recv.err
         /\ reader'.at = "ended" => share'.close = "stale"
<1>0. ~duplex /\ reader.at = "poll" /\ UNCHANGED <<duplex, outcome>>
  BY Zenon DEF RecvResponse, CoreSame
<1>1. share.close \in {"pending", "ok", "failed"} /\ ~share.finished
  BY <1>0, Zenon DEF ShareInv
<1>2. /\ DOMAIN recv' = RecvDom /\ recv'.msg = recv.msg /\ recv'.data = recv.data
      /\ recv'.done = recv.done /\ recv'.err = recv.err
  BY Zenon DEF RecvResponse, Shapes, RecvDom
<1>3. CASE share.close = "pending"
  <2>1. share' = share /\ reader' = Sleeps("poll", {"finish"})
    BY <1>3, Zenon DEF RecvResponse, PollFinish
  <2>2. reader'.at = "poll" /\ DOMAIN reader' = TaskDom
    BY <2>1, TaskFields, Zenon
  <2> QED
    BY <1>0, <1>1, <1>2, <1>3, <2>1, <2>2, Zenon DEF ShareInv, Shapes, ReaderAt
<1>4. CASE share.close \in {"ok", "failed"}
  <2>1. share' = [close |-> "stale", finished |-> TRUE]
    BY <1>4, Zenon DEF RecvResponse, PollFinish
  <2>2. reader' = IF share.close = "ok" THEN Goes("ended") ELSE Goes("failed")
    BY <1>4, Zenon DEF RecvResponse
  <2>3. reader'.at = (IF share.close = "ok" THEN "ended" ELSE "failed") /\ DOMAIN reader' = TaskDom
    BY <2>2, TaskFields, Zenon
  <2>4. share'.close = "stale" /\ share'.finished /\ DOMAIN share' = {"close", "finished"}
    BY <2>1
  <2> QED
    BY <1>0, <1>1, <1>2, <1>4, <2>3, <2>4, Zenon DEF ShareInv, Shapes, ReaderAt
<1> QED
  BY <1>1, <1>3, <1>4, Zenon

(* The status of the call as the stream sees it.                           *)
LEMMA StreamFinish == ASSUME Shapes, ShareInv, StreamInv, RecvFinish PROVE StreamInv'
<1>1. /\ UNCHANGED <<yielded, inbox, sent, open, duplex, outcome>> /\ reader.at = "poll" /\ duplex
      /\ reader'.at \in {"polling", "failed"}
      /\ share' = share \/ (share.close \in {"ok", "failed"} /\ share'.close = "stale")
  BY ShareFinish, Zenon DEF RecvFinish, CoreSame
<1>2. recv'.msg = recv.msg /\ recv'.data = recv.data /\ recv'.done = recv.done
  BY RecvFields, Zenon DEF RecvFinish, Shapes
<1>3. (recv.err => recv'.err) /\ (share.close = "failed" /\ share'.close = "stale" => recv'.err)
  <2>1. CASE recv.finished
    <3>1. share' = share /\ recv' = recv
      BY <2>1, Zenon DEF RecvFinish
    <3> QED
      BY <3>1, Zenon
  <2>2. CASE ~recv.finished
    <3>1. recv'.err <=> (recv.err \/ share.close = "failed")
      BY <2>2, RecvFields, Zenon DEF Shapes
    <3> QED
      BY <3>1, Zenon
  <2> QED
    BY <2>1, <2>2, Zenon
<1>4. Held' = Held /\ (Lost => Lost') /\ (Chain => Chain')
  BY <1>1, <1>2, <1>3, Zenon DEF Held, Lost, Chain
<1>5. share'.close = "stale" /\ ~recv'.err => outcome = "ok"
  BY <1>1, <1>3, Zenon DEF StreamInv, ShareInv
<1> QED
  BY <1>1, <1>2, <1>4, <1>5, Zenon DEF StreamInv

(* A step that leaves the messages alone, and the reader not at its end.   *)
LEMMA StreamMoves ==
  ASSUME StreamInv, UNCHANGED <<share, recv, yielded, inbox, sent, open, duplex, outcome>>,
         reader.at # "dropped", reader'.at \notin {"ended", "dropped"}
  PROVE  StreamInv'
<1>1. Held' = Held /\ (Lost => Lost') /\ (Chain => Chain')
  BY Zenon DEF Held, Lost, Chain
<1> QED
  BY <1>1, Zenon DEF StreamInv

(* The end of the messages: the status, when it comes, is the last word.   *)
LEMMA StreamEof == ASSUME Shapes, ShareInv, StreamInv, RecvEof PROVE StreamInv'
<1>1. /\ UNCHANGED <<share, yielded, inbox, sent, open, duplex, outcome>> /\ reader.at = "polling"
      /\ recv.msg \in {"eof", "stale"}
  BY Zenon DEF RecvEof, CoreSame, StreamInv
<1>2. /\ recv'.msg = "stale" /\ recv'.finished = recv.finished /\ recv'.err = recv.err
      /\ reader'.at = IF recv.finished THEN "ended" ELSE "poll"
  BY RecvFields, Zenon DEF Shapes
<1>3. Chain /\ Held = <<>> /\ Held' = <<>>
  BY <1>1, <1>2, Zenon DEF StreamInv, Lost, Held
<1>4. Chain'
  BY <1>1, <1>3, Zenon DEF Chain
<1>5. duplex /\ (recv.finished => share.close = "stale")
  BY <1>1, Zenon DEF ShareInv
<1> QED
  BY <1>1, <1>2, <1>4, <1>5, Zenon DEF StreamInv

(* The message that was received is returned when the next one was asked   *)
(* for; when it could not be, the stream has failed.                       *)
LEMMA StreamReads == ASSUME Shapes, ShareInv, StreamInv, RecvStart PROVE StreamInv'
<1>1. /\ UNCHANGED <<share, inbox, sent, open, duplex, outcome>> /\ reader.at = "polling"
      /\ recv.msg \in {"none", "data"} /\ ~recv.done /\ duplex
  BY Zenon DEF RecvStart, CoreSame, ShareInv
<1>2. CASE open /\ recv.msg = "data"
  <2>1. /\ recv' = [recv EXCEPT !.msg = "pending", !.data = 0]
        /\ reader' = Goes("poll") /\ yielded' = Append(yielded, recv.data)
    BY <1>2, Zenon DEF RecvStart
  <2>2. recv'.msg = "pending" /\ recv'.done = recv.done /\ recv'.err = recv.err
    BY <2>1, Zenon DEF Shapes, RecvDom
  <2>3. reader'.at = "poll"
    BY <2>1, TaskFields, Zenon
  <2>4. Chain /\ Held = <<recv.data>> /\ Held' = <<>>
    BY <1>1, <1>2, <2>2, Zenon DEF StreamInv, Lost, Held
  <2>5. /\ yielded \in Seq(Nat) /\ inbox \in Seq(Nat) /\ sent \in Nat /\ recv.data \in Nat
        /\ Ordered(yielded)
    BY <1>2, Zenon DEF StreamInv
  <2>6. Chained(yielded, <<recv.data>>, inbox, sent)
    BY <2>4, Zenon DEF Chain
  <2>7. /\ Chained(Append(yielded, recv.data), <<>>, inbox, sent)
        /\ Ordered(Append(yielded, recv.data))
    BY <2>5, <2>6, ChainTake, Zenon
  <2>8. Chain' /\ Ordered(yielded)'
    BY <1>1, <2>1, <2>4, <2>7, Zenon DEF Chain, Ordered
  <2>9. yielded' \in Seq(Nat)
    BY <2>1, <2>5
  <2> QED
    BY <1>1, <2>2, <2>3, <2>8, <2>9, Zenon DEF StreamInv
<1>3. CASE open /\ recv.msg = "none"
  <2>1. recv' = [recv EXCEPT !.msg = "pending", !.data = 0] /\ UNCHANGED <<reader, yielded>>
    BY <1>3, Zenon DEF RecvStart
  <2>2. recv'.msg = "pending" /\ recv'.done = recv.done /\ recv'.err = recv.err
    BY <2>1, Zenon DEF Shapes, RecvDom
  <2>3. Chain /\ Held = <<>> /\ Held' = <<>>
    BY <1>1, <1>3, <2>2, Zenon DEF StreamInv, Lost, Held
  <2>4. Chain'
    BY <1>1, <2>1, <2>3, Zenon DEF Chain
  <2> QED
    BY <1>1, <2>1, <2>2, <2>4, Zenon DEF StreamInv
<1>4. CASE ~open
  <2>1. /\ recv' = [recv EXCEPT !.msg = "none", !.data = 0, !.err = TRUE]
        /\ reader' = Goes("failed") /\ UNCHANGED yielded
    BY <1>4, Zenon DEF RecvStart
  <2>2. recv'.msg = "none" /\ recv'.done = recv.done /\ recv'.err
    BY <2>1, Zenon DEF Shapes, RecvDom
  <2>3. reader'.at = "failed"
    BY <2>1, TaskFields, Zenon
  <2>4. Lost'
    BY <1>1, <1>4, <2>2, Zenon DEF Lost
  <2> QED
    BY <1>1, <2>1, <2>2, <2>3, <2>4, Zenon DEF StreamInv
<1> QED
  BY <1>1, <1>2, <1>3, <1>4, Zenon

(* The response of a client streaming call, the drop of the receiver.      *)
LEMMA StreamResponse == ASSUME Shapes, ShareInv, StreamInv, RecvResponse PROVE StreamInv'
<1>1. /\ UNCHANGED <<yielded, inbox, sent, open, duplex, outcome>> /\ reader.at = "poll" /\ ~duplex
  BY Zenon DEF RecvResponse, CoreSame
<1>2. /\ reader'.at \in {"poll", "ended", "failed"}
      /\ reader'.at = "ended" => share.close = "ok" /\ share'.close = "stale"
      /\ recv'.msg = recv.msg /\ recv'.data = recv.data /\ recv'.done = recv.done
      /\ recv'.err = recv.err
  BY ShareResponse, Zenon
<1>3. Held' = Held /\ (Lost => Lost') /\ (Chain => Chain')
  BY <1>1, <1>2, Zenon DEF Held, Lost, Chain
<1>4. reader'.at = "ended" => outcome = "ok"
  BY <1>2, Zenon DEF ShareInv
<1> QED
  BY <1>1, <1>2, <1>3, <1>4, Zenon DEF StreamInv

(* The drop of the receiver.                                               *)
LEMMA DropReads == ASSUME ShareInv, StreamInv, RecvDrop PROVE ShareInv' /\ StreamInv'
<1>1. /\ reader' = Goes("dropped") /\ recv' = NewRecv
      /\ UNCHANGED <<share, yielded, inbox, sent, open, duplex>>
  BY Zenon DEF RecvDrop
<1>2. CallEnds
  BY Cancels, Zenon DEF RecvDrop, ShareInv
<1>3. reader'.at = "dropped" /\ recv'.msg = "none" /\ ~recv'.done
  BY <1>1, TaskFields, Zenon DEF NewRecv
<1>4. ShareInv'
  BY <1>1, <1>2, <1>3, Zenon DEF ShareInv, CallEnds, ReaderAt
<1>5. Lost'
  BY <1>3, Zenon DEF Lost
<1> QED
  BY <1>1, <1>2, <1>3, <1>4, <1>5, Zenon DEF StreamInv, CallEnds

(* The messages and the status of the server.                              *)
LEMMA PeerSteps ==
  ASSUME ShareInv, StreamInv, PeerSend \/ PeerFinish \/ QueueShutdown
  PROVE  ShareInv' /\ StreamInv'
<1>0. UNCHANGED <<share, recv, reader, yielded, duplex>>
  BY Zenon DEF PeerSend, PeerFinish, QueueShutdown, ReaderSame
<1>1. CASE PeerSend
  <2>1. /\ duplex /\ outcome = "none" /\ sent' = sent + 1 /\ inbox' = Append(inbox, sent + 1)
        /\ UNCHANGED <<outcome, open>>
    BY <1>1, Zenon DEF PeerSend
  <2>2. sent \in Nat /\ yielded \in Seq(Nat) /\ inbox \in Seq(Nat)
    BY Zenon DEF StreamInv
  <2>3. Held \in Seq(Nat) /\ Held' = Held
    BY <1>0 DEF StreamInv, Held
  <2>4. Chain => Chained(yielded, Held, Append(inbox, sent + 1), sent + 1)
    BY <2>2, <2>3, ChainSend, Zenon DEF Chain
  <2>5. (Chain => Chain') /\ (Lost => Lost')
    BY <1>0, <2>1, <2>3, <2>4, Zenon DEF Chain, Lost
  <2>6. ShareInv'
    BY <1>0, <2>1, Zenon DEF ShareInv
  <2>7. sent' \in Nat /\ inbox' \in Seq(Nat)
    BY <2>1, <2>2
  <2> QED
    BY <1>0, <2>1, <2>5, <2>6, <2>7, Zenon DEF StreamInv
<1>2. CASE PeerFinish
  <2>1. outcome = "none" /\ outcome' \in {"ok", "failed"} /\ UNCHANGED <<inbox, sent, open>>
    BY <1>2, Zenon DEF PeerFinish
  <2>2. Held' = Held /\ (Lost => Lost') /\ (Chain => Chain')
    BY <1>0, <2>1, Zenon DEF Held, Lost, Chain
  <2>3. ShareInv'
    BY <1>0, <2>1, Zenon DEF ShareInv
  <2> QED
    BY <1>0, <2>1, <2>2, <2>3, Zenon DEF StreamInv
<1>3. CASE QueueShutdown
  <2>1. ~open' /\ UNCHANGED <<outcome, inbox, sent>>
    BY <1>3, Zenon DEF QueueShutdown
  <2>2. Held' = Held /\ (Lost => Lost') /\ (Chain => Chain')
    BY <1>0, <2>1, Zenon DEF Held, Lost, Chain
  <2>3. ShareInv'
    BY <1>0, <2>1, Zenon DEF ShareInv
  <2> QED
    BY <1>0, <2>1, <2>2, <2>3, Zenon DEF StreamInv
<1> QED
  BY <1>1, <1>2, <1>3, Zenon

(* Core reports the status, or a message.                                  *)
LEMMA Resolves ==
  ASSUME Shapes, ShareInv, StreamInv, CloseResolves \/ RecvResolves
  PROVE  ShareInv' /\ StreamInv'
<1>1. reader'.at = reader.at /\ UNCHANGED <<yielded, sent, open, duplex, outcome>>
  BY WokenStays, Zenon DEF CloseResolves, RecvResolves, Shapes, CoreSame
<1>2. CASE CloseResolves
  <2>1. /\ share.close = "pending" /\ outcome # "none" /\ UNCHANGED <<recv, inbox>>
        /\ share' = [share EXCEPT !.close = outcome]
    BY <1>2, Zenon DEF CloseResolves, CoreSame
  <2>2. share'.close = outcome /\ share'.finished = share.finished
    BY <2>1, Zenon DEF Shapes
  <2>3. Held' = Held /\ (Lost => Lost') /\ (Chain => Chain')
    BY <1>1, <2>1, Zenon DEF Held, Lost, Chain
  <2>4. ShareInv'
    BY <1>1, <2>1, <2>2, Zenon DEF ShareInv
  <2>5. share'.close \in {"ok", "failed"}
    BY <2>1, <2>2, Zenon DEF ShareInv
  <2> QED
    BY <1>1, <2>1, <2>3, <2>4, <2>5, Zenon DEF StreamInv
<1>3. CASE RecvResolves
  <2>1. recv.msg = "pending" /\ share' = share
    BY <1>3, Zenon DEF RecvResolves
  <2>2. \/ /\ inbox # <<>> /\ inbox' = Tail(inbox)
           /\ recv' = [recv EXCEPT !.msg = "data", !.data = Head(inbox)]
        \/ /\ outcome = "failed" \/ (outcome = "ok" /\ inbox = <<>>)
           /\ recv' = [recv EXCEPT !.msg = "eof"] /\ inbox' = inbox
    BY <1>3, Zenon DEF RecvResolves
  <2>3. recv'.done = recv.done /\ recv'.finished = recv.finished /\ recv'.err = recv.err
    BY <2>2, Zenon DEF Shapes, RecvDom
  <2>4. ShareInv'
    BY <1>1, <2>1, <2>3, Zenon DEF ShareInv
  <2>5. Held = <<>> /\ (Lost => Lost')
    BY <1>1, <2>1, Zenon DEF Held, Lost
  <2>6. ~recv.done /\ duplex
    BY <2>1, Zenon DEF StreamInv
  <2>7. reader.at = "ended" => FALSE
    BY <2>1, <2>6, Zenon DEF StreamInv
  <2>8. CASE inbox # <<>> /\ inbox' = Tail(inbox)
             /\ recv' = [recv EXCEPT !.msg = "data", !.data = Head(inbox)]
    <3>1. recv'.msg = "data" /\ recv'.data = Head(inbox)
      BY <2>8, Zenon DEF Shapes, RecvDom
    <3>2. /\ yielded \in Seq(Nat) /\ inbox \in Seq(Nat)
      BY Zenon DEF StreamInv
    <3>3. /\ Head(inbox) \in Nat /\ Tail(inbox) \in Seq(Nat)
          /\ Chained(yielded, <<>>, inbox, sent) => Chained(yielded, <<Head(inbox)>>, Tail(inbox), sent)
      BY <2>8, <3>2, ChainGet, Zenon
    <3>4. Held' = <<Head(inbox)>>
      BY <3>1, Zenon DEF Held
    <3>5. Chain => Chain'
      BY <1>1, <2>5, <2>8, <3>3, <3>4, Zenon DEF Chain
    <3> QED
      BY <1>1, <2>1, <2>3, <2>4, <2>5, <2>6, <2>7, <2>8, <3>1, <3>3, <3>5, Zenon DEF StreamInv
  <2>9. CASE /\ outcome = "failed" \/ (outcome = "ok" /\ inbox = <<>>)
             /\ recv' = [recv EXCEPT !.msg = "eof"] /\ inbox' = inbox
    <3>1. recv'.msg = "eof"
      BY <2>9, Zenon DEF Shapes, RecvDom
    <3>2. Held' = <<>>
      BY <3>1, Zenon DEF Held
    <3>3. Chain => Chain'
      BY <1>1, <2>5, <2>9, <3>2, Zenon DEF Chain
    <3> QED
      BY <1>1, <2>1, <2>3, <2>4, <2>5, <2>6, <2>7, <2>9, <3>1, <3>3, Zenon DEF StreamInv
  <2> QED
    BY <2>2, <2>8, <2>9, Zenon
<1> QED
  BY <1>2, <1>3, Zenon

(* A poll of the receiver that leaves the share of the call alone.         *)
LEMMA ShareMoves ==
  ASSUME ShareInv, UNCHANGED <<share, outcome, duplex>>, recv'.finished = recv.finished,
         reader.at # "dropped", reader'.at \in ReaderAt \ {"polling", "panicked", "dropped"},
         ~duplex => reader'.at # "poll"
  PROVE  ShareInv'
BY Zenon DEF ShareInv

(* Every step keeps what is known of the receiver.                         *)
LEMMA ReceiverStep ==
  ASSUME Shapes, ShareInv, StreamInv, [Next]_vars PROVE ShareInv' /\ StreamInv'
<1>0. outcome \in {"none", "ok", "failed"} /\ reader.at \in ReaderAt
  BY Zenon DEF ShareInv
<1>1. ASSUME SinkNext \/ BatchResolves \/ CloseSendResolves \/ UNCHANGED vars \/ Ended \/ RecvCancel
      PROVE  ShareInv' /\ StreamInv'
  <2>1. UNCHANGED ReadVars
    BY <1>1, Zenon DEF SinkNext, SinkReady, SinkSendCheck, SinkSend, SinkFlushCheck, SinkFlush,
                SinkGiveUpFlush, SinkClose, SinkCloseWait, SinkEnhance, SinkCancel, SinkDrop,
                BatchResolves, CloseSendResolves, RecvCancel, Ended, ReaderSame, CoreSame,
                vars, ReadVars
  <2>2. Cancel \/ (\E c, o : DropHalf(c, o)) \/ UNCHANGED outcome
    BY <1>1, Zenon DEF SinkNext, SinkReady, SinkSendCheck, SinkSend, SinkFlushCheck, SinkFlush,
                SinkGiveUpFlush, SinkClose, SinkCloseWait, SinkEnhance, SinkCancel, SinkDrop,
                BatchResolves, CloseSendResolves, RecvCancel, Ended, CoreSame, vars
  <2>3. CallEnds
    BY <1>0, <2>2, Cancels, Zenon
  <2> QED
    BY <2>1, <2>3, OthersKeep, Zenon
<1>2. ASSUME RecvFinish PROVE ShareInv' /\ StreamInv'
  BY <1>2, ShareFinish, StreamFinish, Zenon
<1>3. ASSUME RecvPending \/ RecvAgain PROVE ShareInv' /\ StreamInv'
  <2>1. /\ reader'.at = "poll" /\ reader.at \in {"polling", "failed"} /\ duplex
        /\ UNCHANGED <<share, recv, yielded, inbox, sent, open, duplex, outcome>>
    BY <1>3, RecvFields, TaskFields, Zenon DEF RecvPending, RecvAgain, CoreSame, Shapes, ShareInv
  <2> QED
    BY <2>1, ShareMoves, StreamMoves, Zenon DEF ReaderAt
<1>4. ASSUME RecvEof PROVE ShareInv' /\ StreamInv'
  <2>1. /\ reader'.at \in {"ended", "poll"} /\ reader.at = "polling" /\ duplex
        /\ recv'.finished = recv.finished /\ UNCHANGED <<share, outcome, duplex>>
    BY <1>4, RecvFields, Zenon DEF RecvEof, CoreSame, Shapes, ShareInv
  <2> QED
    BY <1>4, <2>1, ShareMoves, StreamEof, Zenon DEF ReaderAt
<1>5. ASSUME RecvStart PROVE ShareInv' /\ StreamInv'
  <2>1. reader.at = "polling" /\ duplex /\ UNCHANGED <<share, outcome, duplex>>
    BY <1>5, Zenon DEF RecvStart, CoreSame, ShareInv
  <2>2. recv'.finished = recv.finished
    BY <1>5, Zenon DEF RecvStart, Shapes, RecvDom
  <2>3. reader'.at \in {"poll", "failed"} \/ reader'.at = reader.at
    BY <1>5, TaskFields, Zenon DEF RecvStart
  <2>4. ShareInv'
    BY <2>1, <2>2, <2>3, Zenon DEF ShareInv, ReaderAt
  <2> QED
    BY <1>5, <2>4, StreamReads, Zenon
<1>6. ASSUME RecvResponse PROVE ShareInv' /\ StreamInv'
  BY <1>6, ShareResponse, StreamResponse, Zenon
<1>7. ASSUME RecvDrop PROVE ShareInv' /\ StreamInv'
  BY <1>7, DropReads, Zenon
<1>8. ASSUME PeerSend \/ PeerFinish \/ QueueShutdown PROVE ShareInv' /\ StreamInv'
  BY <1>8, PeerSteps, Zenon
<1>9. ASSUME CloseResolves \/ RecvResolves PROVE ShareInv' /\ StreamInv'
  BY <1>9, Resolves, Zenon
<1> QED
  BY <1>1, <1>2, <1>3, <1>4, <1>5, <1>6, <1>7, <1>8, <1>9, Zenon DEF Next, RecvNext, Core

-----------------------------------------------------------------------------
(* What the operations of the sink leave in it.                            *)

(* poll_ready.                                                             *)
LEMMA Polled ==
  ASSUME NEW s, DOMAIN s = SinkDom, s.batch \in Futures
  PROVE  LET r == PollBatch(s) IN
         /\ DOMAIN r.sink = SinkDom
         /\ r.sink.buf = s.buf /\ r.sink.lastHint = s.lastHint /\ r.sink.meta = s.meta
         /\ r.sink.enhance = s.enhance /\ r.sink.accepted = s.accepted /\ r.sink.wire = s.wire
         /\ \/ r.res = "ok" /\ s.batch \in {"none", "ok"} /\ r.sink.batch = "none"
            \/ r.res = "pending" /\ r.sink.batch = "pending"
            \/ r.res = "err" /\ r.sink.batch = "stale"
            \/ r.res = "panic" /\ r.sink.batch = "stale" /\ s.batch = "stale"
<1>1. CASE s.batch \in {"none", "pending", "stale"}
  BY <1>1, Zenon DEF PollBatch, Result
<1>2. CASE s.batch \in {"ok", "err"}
  BY <1>2, Zenon DEF PollBatch, Result, SinkDom
<1> QED
  BY <1>1, <1>2, Zenon DEF Futures

(* What the buffered message is on the wire, and where sending it leads.   *)
Wired(s, m, hint) == Append(s.wire, [msg |-> m, hint |-> hint, meta |-> s.meta])
BufferGoes(s, hint, o, r) ==
  /\ DOMAIN r.sink = SinkDom /\ DOMAIN r = {"sink", "res"}
  /\ s.batch # "none" => r.res = "panic" /\ r.sink = s
  /\ s.batch = "none" /\ ~o => r.res = "err" /\ r.sink = s
  /\ s.batch = "none" /\ o =>
       /\ r.res = "ok" /\ r.sink.batch = "pending" /\ r.sink.buf = NoMsg
       /\ r.sink.lastHint = s.lastHint /\ r.sink.meta = s.meta
       /\ r.sink.enhance = s.enhance /\ r.sink.accepted = s.accepted
       /\ r.sink.wire = Wired(s, s.buf.msg, hint)

(* start_send_buffer_message.                                              *)
LEMMA Buffered ==
  ASSUME NEW s, DOMAIN s = SinkDom, NEW hint, NEW o
  PROVE  BufferGoes(s, hint, o, SendBuffer(s, hint, o))
<1>1. CASE s.batch # "none"
  BY <1>1, Zenon DEF SendBuffer, Result, BufferGoes
<1>2. CASE s.batch = "none" /\ ~o
  BY <1>2, Zenon DEF SendBuffer, Result, BufferGoes
<1>3. CASE s.batch = "none" /\ o
  BY <1>3, Zenon DEF SendBuffer, Result, SinkDom, BufferGoes, Wired
<1> QED
  BY <1>1, <1>2, <1>3, Zenon

(* The message of start_send in the place of the one that was held.        *)
Holding(s, m, hint) ==
  [s EXCEPT !.buf = [msg |-> m, hint |-> hint], !.lastHint = @ /\ hint]

Message(m, hint) == [msg |-> m, hint |-> hint]
NowHolds(s, m, hint, h) ==
  /\ DOMAIN h = SinkDom
  /\ h.buf = Message(m, hint) /\ h.lastHint = (s.lastHint /\ hint)
  /\ h.batch = s.batch /\ h.meta = s.meta /\ h.enhance = s.enhance
  /\ h.accepted = s.accepted /\ h.wire = s.wire

(* The new message is held, with what it asks for.                         *)
LEMMA HoldingFields ==
  ASSUME NEW s, DOMAIN s = SinkDom, NEW m, NEW hint
  PROVE  NowHolds(s, m, hint, Holding(s, m, hint))
BY Zenon DEF Holding, SinkDom, NowHolds, Message

(* start_send of a message that is not the first.                          *)
LEMMA Later ==
  ASSUME NEW s, NEW m, NEW hint, NEW o
  PROVE  LET b == IF s.buf = NoMsg THEN Result(s, "ok") ELSE SendBuffer(s, TRUE, o)
             h == Holding(b.sink, m, hint)
         IN  SendLater(s, m, hint, o) =
               IF b.res # "ok" THEN b
               ELSE IF h.enhance THEN Result(h, "ok") ELSE SendBuffer(h, hint, o)
BY Zenon DEF SendLater, Holding

Taken(r, m, hint, a) ==
  /\ a.res = r.res /\ DOMAIN a.sink = SinkDom
  /\ r.res # "ok" => a.sink = r.sink
  /\ r.res = "ok" => a.sink.accepted = Append(r.sink.accepted, Message(m, hint))
  /\ a.sink.buf = r.sink.buf /\ a.sink.lastHint = r.sink.lastHint
  /\ a.sink.meta = r.sink.meta /\ a.sink.enhance = r.sink.enhance
  /\ a.sink.batch = r.sink.batch /\ a.sink.wire = r.sink.wire

(* What start_send returns is either an error or the message is accepted.  *)
LEMMA Accepts ==
  ASSUME NEW r, DOMAIN r = {"sink", "res"}, DOMAIN r.sink = SinkDom, NEW m, NEW hint
  PROVE  Taken(r, m, hint, Accept(r, m, hint))
<1>1. CASE r.res # "ok"
  BY <1>1, Zenon DEF Accept, Taken
<1>2. CASE r.res = "ok"
  BY <1>2, Zenon DEF Accept, SinkDom, Taken, Message
<1> QED
  BY <1>1, <1>2, Zenon

(* The ways start_send goes: from s with the message m to t, with a result.*)

Holds(s, t, m, hint, res) ==
  /\ res = "ok" /\ s.buf = NoMsg /\ s.enhance
  /\ t.batch = "none" /\ t.buf = Message(m, hint) /\ t.lastHint = (s.lastHint /\ hint)
  /\ t.accepted = Append(s.accepted, Message(m, hint)) /\ t.wire = s.wire
SendsIt(s, t, m, hint, res) ==
  /\ res = "ok" /\ s.buf = NoMsg /\ t.batch = "pending" /\ t.buf = NoMsg
  /\ t.lastHint = (s.lastHint /\ hint)
  /\ t.accepted = Append(s.accepted, Message(m, hint)) /\ t.wire = Wired(s, m, hint)
SendsHeld(s, t, m, hint, res) ==
  /\ res = "ok" /\ s.buf # NoMsg /\ s.enhance
  /\ t.batch = "pending" /\ t.buf = Message(m, hint) /\ t.lastHint = (s.lastHint /\ hint)
  /\ t.accepted = Append(s.accepted, Message(m, hint)) /\ t.wire = Wired(s, s.buf.msg, TRUE)
SendsTwice(s, t, m, hint, res) ==
  /\ res = "panic" /\ s.buf # NoMsg /\ ~s.enhance
  /\ t.batch = "pending" /\ t.buf = Message(m, hint) /\ t.lastHint = (s.lastHint /\ hint)
  /\ t.accepted = s.accepted /\ t.wire = Wired(s, s.buf.msg, TRUE)
Refused(s, t, m, hint, res) ==
  /\ res = "err" /\ s.buf = NoMsg /\ t.buf = Message(m, hint) /\ t.lastHint = (s.lastHint /\ hint)
  /\ t.batch = "none" /\ t.accepted = s.accepted /\ t.wire = s.wire

StartGoes(s, t, m, hint, res) ==
  \/ Holds(s, t, m, hint, res) \/ SendsIt(s, t, m, hint, res)
  \/ SendsHeld(s, t, m, hint, res) \/ SendsTwice(s, t, m, hint, res)
  \/ Refused(s, t, m, hint, res)
  \/ res = "err" /\ t = s

(* start_send on a sink that is ready.                                     *)
LEMMA Starts ==
  ASSUME NEW s, DOMAIN s = SinkDom, ~s.meta, s.batch = "none", NEW m, NEW hint, NEW o
  PROVE  LET r == StartSend(s, m, hint, o) IN
         /\ DOMAIN r.sink = SinkDom /\ r.sink.meta = s.meta /\ r.sink.enhance = s.enhance
         /\ StartGoes(s, r.sink, m, hint, r.res)
<1> DEFINE l == SendLater(s, m, hint, o)
           r == StartSend(s, m, hint, o)
           h1 == Holding(s, m, hint)
           b == SendBuffer(s, TRUE, o)
           h2 == Holding(b.sink, m, hint)
<1>0. r = Accept(l, m, hint)
  BY Zenon DEF StartSend
<1>1. \A x, e : Result(x, e).sink = x /\ Result(x, e).res = e /\ DOMAIN Result(x, e) = {"sink", "res"}
  BY Zenon DEF Result
<1>2. ASSUME DOMAIN l = {"sink", "res"}, DOMAIN l.sink = SinkDom
      PROVE  Taken(l, m, hint, r)
  BY <1>0, <1>2, Accepts, Zenon
<1>3. NowHolds(s, m, hint, h1)
  BY HoldingFields, Zenon
<1>4. BufferGoes(s, TRUE, o, b)
  BY Buffered, Zenon
<1>5. NowHolds(b.sink, m, hint, h2)
  <2>1. DOMAIN b.sink = SinkDom
    BY <1>4, Zenon DEF BufferGoes
  <2> QED
    BY <2>1, HoldingFields, Zenon
<1>6. CASE s.buf = NoMsg
  <2>1. l = IF h1.enhance THEN Result(h1, "ok") ELSE SendBuffer(h1, hint, o)
    BY <1>1, <1>6, Later, Zenon
  <2>2. BufferGoes(h1, hint, o, SendBuffer(h1, hint, o))
    <3>1. DOMAIN h1 = SinkDom
      BY <1>3, Zenon DEF NowHolds
    <3> QED
      BY <3>1, Buffered, Zenon
  <2>3. CASE s.enhance
    <3>1. l = Result(h1, "ok")
      BY <1>3, <2>1, <2>3, Zenon DEF NowHolds
    <3> HIDE DEF l, h1, r
    <3>2. l.sink = h1 /\ l.res = "ok" /\ DOMAIN l = {"sink", "res"} /\ DOMAIN l.sink = SinkDom
      BY <1>1, <1>3, <3>1 DEF NowHolds
    <3>3. Taken(l, m, hint, r)
      BY <1>2, <3>2, Zenon
    <3>4. Holds(s, r.sink, m, hint, r.res)
      BY <1>3, <1>6, <2>3, <3>2, <3>3 DEF Taken, NowHolds, Holds
    <3>5. DOMAIN r.sink = SinkDom /\ r.sink.meta = s.meta /\ r.sink.enhance = s.enhance
      BY <1>3, <3>2, <3>3, Zenon DEF Taken, NowHolds
    <3> QED
      BY <3>4, <3>5, Zenon DEF r, StartGoes
  <2>4. CASE ~s.enhance
    <3>1. l = SendBuffer(h1, hint, o)
      BY <1>3, <2>1, <2>4, Zenon DEF NowHolds
    <3>2. BufferGoes(h1, hint, o, l)
      BY <2>2, <3>1, Zenon
    <3> HIDE DEF l, h1, r
    <3>3. Taken(l, m, hint, r)
      BY <1>2, <3>2, Zenon DEF BufferGoes
    <3>4. CASE o
      <4>1. SendsIt(s, r.sink, m, hint, r.res)
        BY <1>3, <1>6, <3>2, <3>3, <3>4, SMTT(60) DEF Taken, NowHolds, BufferGoes, SendsIt,
           Wired, Message
      <4>2. DOMAIN r.sink = SinkDom /\ r.sink.meta = s.meta /\ r.sink.enhance = s.enhance
        BY <1>3, <3>2, <3>3, <3>4, Zenon DEF Taken, NowHolds, BufferGoes
      <4> QED
        BY <4>1, <4>2, Zenon DEF r, StartGoes
    <3>5. CASE ~o
      <4>1. Refused(s, r.sink, m, hint, r.res)
        BY <1>3, <1>6, <3>2, <3>3, <3>5, SMTT(60) DEF Taken, NowHolds, BufferGoes, Refused
      <4>2. DOMAIN r.sink = SinkDom /\ r.sink.meta = s.meta /\ r.sink.enhance = s.enhance
        BY <1>3, <3>2, <3>3, <3>5, Zenon DEF Taken, NowHolds, BufferGoes
      <4> QED
        BY <4>1, <4>2, Zenon DEF r, StartGoes
    <3> QED
      BY <3>4, <3>5, Zenon DEF r, StartGoes
  <2> QED
    BY <2>3, <2>4, Zenon
<1>7. CASE s.buf # NoMsg
  <2>1. l = IF b.res # "ok" THEN b
            ELSE IF h2.enhance THEN Result(h2, "ok") ELSE SendBuffer(h2, hint, o)
    BY <1>7, Later, Zenon
  <2>2. BufferGoes(h2, hint, o, SendBuffer(h2, hint, o))
    <3>1. DOMAIN h2 = SinkDom
      BY <1>5, Zenon DEF NowHolds
    <3> QED
      BY <3>1, Buffered, Zenon
  <2>3. CASE ~o
    <3> HIDE DEF b, h2
    <3>1. b.res = "err" /\ b.sink = s /\ DOMAIN b = {"sink", "res"} /\ DOMAIN b.sink = SinkDom
      BY <1>4, <2>3, Zenon DEF BufferGoes
    <3>2. l = b
      BY <2>1, <3>1, Zenon
    <3> HIDE DEF l, r
    <3>3. Taken(l, m, hint, r)
      BY <1>2, <3>1, <3>2, Zenon
    <3>4. r.res = "err" /\ r.sink = s
      BY <3>1, <3>2, <3>3, Zenon DEF Taken
    <3> QED
      BY <3>4, Zenon DEF r, StartGoes
  <2>4. CASE o
    <3> HIDE DEF b, h2
    <3>1. /\ b.res = "ok" /\ b.sink.batch = "pending" /\ b.sink.meta = s.meta
          /\ b.sink.lastHint = s.lastHint
          /\ b.sink.enhance = s.enhance /\ b.sink.accepted = s.accepted
          /\ b.sink.wire = Wired(s, s.buf.msg, TRUE)
      BY <1>4, <2>4, Zenon DEF BufferGoes
    <3>2. l = IF h2.enhance THEN Result(h2, "ok") ELSE SendBuffer(h2, hint, o)
      BY <2>1, <3>1, Zenon
    <3>3. /\ h2.buf = Message(m, hint) /\ h2.lastHint = (s.lastHint /\ hint)
          /\ h2.batch = "pending" /\ h2.meta = s.meta /\ h2.enhance = s.enhance
          /\ h2.accepted = s.accepted /\ h2.wire = Wired(s, s.buf.msg, TRUE)
          /\ DOMAIN h2 = SinkDom
      BY <1>5, <3>1, Zenon DEF NowHolds
    <3> HIDE DEF l, r
    <3>4. CASE s.enhance
      <4>1. l.sink = h2 /\ l.res = "ok" /\ DOMAIN l = {"sink", "res"}
        BY <1>1, <3>2, <3>3, <3>4
      <4>2. Taken(l, m, hint, r)
        BY <1>2, <3>3, <4>1, Zenon
      <4>3. SendsHeld(s, r.sink, m, hint, r.res)
        BY <1>7, <3>3, <3>4, <4>1, <4>2 DEF Taken, SendsHeld
      <4>4. DOMAIN r.sink = SinkDom /\ r.sink.meta = s.meta /\ r.sink.enhance = s.enhance
        BY <3>3, <4>1, <4>2, Zenon DEF Taken
      <4> QED
        BY <4>3, <4>4, Zenon DEF r, StartGoes
    <3>5. CASE ~s.enhance
      <4>1. l.sink = h2 /\ l.res = "panic" /\ DOMAIN l = {"sink", "res"}
        BY <2>2, <3>2, <3>3, <3>5, Zenon DEF BufferGoes
      <4>2. Taken(l, m, hint, r)
        BY <1>2, <3>3, <4>1, Zenon
      <4>3. r.res = "panic" /\ r.sink = h2
        BY <4>1, <4>2, Zenon DEF Taken
      <4>4. SendsTwice(s, r.sink, m, hint, r.res)
        BY <1>7, <3>3, <3>5, <4>3, Zenon DEF SendsTwice
      <4> QED
        BY <3>3, <4>3, <4>4, Zenon DEF r, StartGoes
    <3> QED
      BY <3>4, <3>5, Zenon DEF r, StartGoes
  <2> QED
    BY <2>3, <2>4, Zenon
<1> QED
  BY <1>6, <1>7, Zenon

(* The ways poll_flush goes: it waits or fails, has nothing left, or sends *)
(* what is held.                                                           *)
FlushKeeps(s, t, res) ==
  /\ \/ res = "pending" /\ t.batch = "pending"
     \/ res = "err" /\ t.batch \in {"none", "stale"}
  /\ t.buf = s.buf /\ t.lastHint = s.lastHint /\ t.accepted = s.accepted /\ t.wire = s.wire
FlushEmpty(s, t, res) ==
  /\ res = "ok" /\ s.buf = NoMsg /\ t.batch = "none" /\ t.lastHint = TRUE
  /\ t.buf = s.buf /\ t.accepted = s.accepted /\ t.wire = s.wire
FlushSends(s, t, res) ==
  /\ res = "pending" /\ s.buf # NoMsg /\ t.batch = "pending" /\ t.lastHint = s.lastHint
  /\ t.buf = NoMsg /\ t.accepted = s.accepted /\ t.wire = Wired(s, s.buf.msg, s.lastHint)

(* poll_flush on a sink whose last result was not an error.                *)
LEMMA Flushes ==
  ASSUME NEW s, DOMAIN s = SinkDom, s.batch \in Futures \ {"stale"}, NEW o
  PROVE  LET r == Flush(s, o) IN
         /\ DOMAIN r.sink = SinkDom /\ r.sink.meta = s.meta /\ r.sink.enhance = s.enhance
         /\ \/ FlushKeeps(s, r.sink, r.res)
            \/ FlushEmpty(s, r.sink, r.res)
            \/ FlushSends(s, r.sink, r.res)
<1> DEFINE p == PollBatch(s)
           b == SendBuffer(p.sink, s.lastHint, o)
           r == Flush(s, o)
<1>1. /\ DOMAIN p.sink = SinkDom
      /\ p.sink.buf = s.buf /\ p.sink.lastHint = s.lastHint /\ p.sink.meta = s.meta
      /\ p.sink.enhance = s.enhance /\ p.sink.accepted = s.accepted /\ p.sink.wire = s.wire
      /\ \/ p.res = "ok" /\ p.sink.batch = "none"
         \/ p.res = "pending" /\ p.sink.batch = "pending"
         \/ p.res = "err" /\ p.sink.batch = "stale"
  BY Polled, Zenon
<1>2. BufferGoes(p.sink, s.lastHint, o, b)
  BY <1>1, Buffered, Zenon
<1>3. r = IF p.res # "ok" THEN p
          ELSE IF p.sink.buf = NoMsg THEN Result([p.sink EXCEPT !.lastHint = TRUE], "ok")
          ELSE IF b.res = "ok" THEN Result(b.sink, "pending") ELSE b
  BY Zenon DEF Flush
<1> HIDE DEF p, b, r
<1>4. CASE p.res # "ok"
  <2>1. r = p
    BY <1>3, <1>4, Zenon
  <2>2. FlushKeeps(s, r.sink, r.res)
    BY <1>1, <1>4, <2>1, Zenon DEF FlushKeeps
  <2> QED
    BY <1>1, <2>1, <2>2, Zenon DEF r
<1>5. CASE p.res = "ok" /\ s.buf = NoMsg
  <2>1. r = Result([p.sink EXCEPT !.lastHint = TRUE], "ok")
    BY <1>1, <1>3, <1>5, Zenon
  <2>2. /\ r.res = "ok" /\ DOMAIN r.sink = SinkDom /\ r.sink.buf = s.buf /\ r.sink.meta = s.meta
        /\ r.sink.enhance = s.enhance /\ r.sink.accepted = s.accepted /\ r.sink.wire = s.wire
        /\ r.sink.batch = "none" /\ r.sink.lastHint = TRUE
    BY <1>1, <1>5, <2>1, Zenon DEF Result, SinkDom
  <2>3. FlushEmpty(s, r.sink, r.res)
    BY <1>5, <2>2, Zenon DEF FlushEmpty
  <2> QED
    BY <2>2, <2>3, Zenon DEF r
<1>6. CASE p.res = "ok" /\ s.buf # NoMsg
  <2>1. r = IF b.res = "ok" THEN Result(b.sink, "pending") ELSE b
    BY <1>1, <1>3, <1>6, Zenon
  <2>2. p.sink.batch = "none"
    BY <1>1, <1>6, Zenon
  <2>3. CASE o
    <3>1. /\ b.res = "ok" /\ b.sink.batch = "pending" /\ b.sink.buf = NoMsg
          /\ b.sink.meta = s.meta /\ b.sink.lastHint = s.lastHint /\ DOMAIN b.sink = SinkDom
          /\ b.sink.enhance = s.enhance /\ b.sink.accepted = s.accepted
          /\ b.sink.wire = Wired(s, s.buf.msg, s.lastHint)
      BY <1>1, <1>2, <2>2, <2>3, Zenon DEF BufferGoes, Wired
    <3>2. r.sink = b.sink /\ r.res = "pending"
      BY <2>1, <3>1, Zenon DEF Result
    <3>3. FlushSends(s, r.sink, r.res)
      BY <1>6, <3>1, <3>2, Zenon DEF FlushSends
    <3> QED
      BY <3>1, <3>2, <3>3, Zenon DEF r
  <2>4. CASE ~o
    <3>1. b.res = "err" /\ b.sink = p.sink
      BY <1>2, <2>2, <2>4, Zenon DEF BufferGoes
    <3>2. r.sink = p.sink /\ r.res = "err"
      BY <2>1, <3>1, Zenon
    <3>3. FlushKeeps(s, r.sink, r.res)
      BY <1>1, <2>2, <3>2, Zenon DEF FlushKeeps
    <3> QED
      BY <1>1, <3>2, <3>3, Zenon DEF r
  <2> QED
    BY <2>3, <2>4, Zenon
<1> QED
  BY <1>1, <1>4, <1>5, <1>6, Zenon

(* Where a poll leads its task.                                            *)
LEMMA AfterAt ==
  ASSUME NEW res \in {"ok", "pending", "err", "panic"}, NEW next, NEW stay, NEW on
  PROVE  /\ DOMAIN After(res, next, stay, on) = TaskDom
         /\ res = "ok" => After(res, next, stay, on).at = next
         /\ res = "pending" => After(res, next, stay, on).at = stay
         /\ res = "err" => After(res, next, stay, on).at = "failed"
         /\ res = "panic" => After(res, next, stay, on).at = "panicked"
<1>1. CASE res = "ok"
  BY <1>1, TaskFields, Zenon DEF After
<1>2. CASE res = "pending"
  BY <1>2, TaskFields, Zenon DEF After
<1>3. CASE res = "err"
  BY <1>3, TaskFields, Zenon DEF After
<1>4. CASE res = "panic"
  BY <1>4, TaskFields, Zenon DEF After
<1> QED
  BY <1>1, <1>2, <1>3, <1>4, Zenon

-----------------------------------------------------------------------------
(* The steps of the sink's task.                                           *)

SinkKept ==
  /\ sink'.buf = sink.buf /\ sink'.lastHint = sink.lastHint /\ sink'.meta = sink.meta
  /\ sink'.accepted = sink.accepted /\ sink'.wire = sink.wire

(* poll_ready and the start of poll_close, which wait for the batch.       *)
LEMMA PollStep ==
  ASSUME Shapes, TaskInv, SinkReady \/ SinkClose
  PROVE  /\ TaskInv' /\ DOMAIN sink' = SinkDom /\ DOMAIN sender' = TaskDom
         /\ SinkKept /\ sink'.enhance = sink.enhance
         /\ sender.at \in {"idle", "close"} /\ sender'.at \in {"idle", "ready", "close", "failed"}
         /\ sender'.at \in Working => sender.at \in Working
         /\ UNCHANGED <<share, late>>
<1> DEFINE r == PollBatch(sink)
<1>0. /\ sender.at \in {"idle", "close"} /\ sink.batch \in Futures /\ sink.batch # "stale"
      /\ closeF = "none"
  BY Zenon DEF TaskInv, SinkReady, SinkClose, Working
<1>1. /\ DOMAIN r.sink = SinkDom
      /\ r.sink.buf = sink.buf /\ r.sink.lastHint = sink.lastHint /\ r.sink.meta = sink.meta
      /\ r.sink.enhance = sink.enhance /\ r.sink.accepted = sink.accepted /\ r.sink.wire = sink.wire
      /\ \/ r.res = "ok" /\ r.sink.batch = "none"
         \/ r.res = "pending" /\ r.sink.batch = "pending"
         \/ r.res = "err" /\ r.sink.batch = "stale"
  BY <1>0, Polled, Zenon DEF Shapes
<1>2. sink' = r.sink /\ UNCHANGED <<share, late>>
  BY Zenon DEF SinkReady, SinkClose
<1>3. CASE SinkReady
  <2>1. sender' = After(r.res, "ready", "idle", {"batch"}) /\ closeF' = closeF /\ sender.at = "idle"
    BY <1>3, Zenon DEF SinkReady
  <2> HIDE DEF r
  <2>2. /\ DOMAIN sender' = TaskDom
        /\ r.res = "ok" => sender'.at = "ready"
        /\ r.res = "pending" => sender'.at = "idle"
        /\ r.res = "err" => sender'.at = "failed"
    BY <1>1, <2>1, AfterAt
  <2> QED
    BY <1>0, <1>1, <1>2, <2>1, <2>2, Zenon DEF TaskInv, SinkKept, SenderAt, Working, Futures
<1>4. CASE SinkClose
  <2>1. \/ r.res # "ok" /\ sender' = After(r.res, "close", "close", {"batch"}) /\ closeF' = closeF
        \/ r.res = "ok" /\ sender' = Goes("failed") /\ closeF' = closeF
        \/ r.res = "ok" /\ sender' = Goes("close") /\ closeF' = "pending"
    BY <1>4, Zenon DEF SinkClose
  <2> HIDE DEF r
  <2>2. /\ DOMAIN sender' = TaskDom
        /\ \/ r.res = "pending" /\ sender'.at = "close" /\ closeF' = closeF
           \/ sender'.at = "failed" /\ closeF' = closeF
           \/ r.res = "ok" /\ sender'.at = "close" /\ closeF' = "pending"
    BY <1>1, <2>1, AfterAt, TaskFields, SMTT(60)
  <2> QED
    BY <1>0, <1>1, <1>2, <2>2, Zenon DEF TaskInv, SinkKept, SenderAt, Working, Futures
<1> QED
  BY <1>3, <1>4, Zenon

(* start_send.                                                             *)
SinkStarts(hint, res) ==
  /\ StartGoes(sink, sink', Len(sink.accepted) + 1, hint, res)
  /\ \/ res = "ok" /\ sender'.at = "idle"
     \/ res = "err" /\ sender'.at = "failed"
     \/ res = "panic" /\ sender'.at = "panicked"

LEMMA StartStep ==
  ASSUME Shapes, TaskInv, ~sink.meta, NEW hint, SinkSend(hint)
  PROVE  /\ TaskInv' /\ DOMAIN sink' = SinkDom /\ DOMAIN sender' = TaskDom
         /\ sink'.meta = sink.meta /\ sink'.enhance = sink.enhance
         /\ sender.at = "sending"
         /\ \E res : SinkStarts(hint, res)
         /\ late' = IF Alive THEN late ELSE late + Len(sink'.wire) - Len(sink.wire)
         /\ share' = share
<1> DEFINE m == Len(sink.accepted) + 1
           r == StartSend(sink, m, hint, open)
<1>0. sender.at = "sending" /\ sink.batch = "none" /\ closeF' = closeF /\ closeF = "none"
  BY Zenon DEF TaskInv, SinkSend, Working
<1>1. /\ DOMAIN r.sink = SinkDom /\ r.sink.meta = sink.meta /\ r.sink.enhance = sink.enhance
      /\ StartGoes(sink, r.sink, m, hint, r.res)
  <2>1. DOMAIN sink = SinkDom /\ ~sink.meta /\ sink.batch = "none"
    BY <1>0, Zenon DEF Shapes
  <2> HIDE DEF m
  <2> QED
    BY <2>1, Starts, Zenon
<1>2. /\ sink' = r.sink /\ sender' = After(r.res, "idle", "idle", {})
      /\ late' = IF Alive THEN late ELSE late + Len(r.sink.wire) - Len(sink.wire)
      /\ share' = share
  BY Zenon DEF SinkSend
<1> HIDE DEF r, m
<1>3. r.res \in {"ok", "err", "panic"} /\ r.sink.batch \in {"none", "pending"}
  BY <1>0, <1>1, Zenon DEF StartGoes, Holds, SendsIt, SendsHeld, SendsTwice, Refused
<1>4. /\ DOMAIN sender' = TaskDom
      /\ \/ r.res = "ok" /\ sender'.at = "idle"
         \/ r.res = "err" /\ sender'.at = "failed"
         \/ r.res = "panic" /\ sender'.at = "panicked"
  BY <1>2, <1>3, AfterAt
<1>5. TaskInv'
  BY <1>0, <1>2, <1>3, <1>4, Zenon DEF TaskInv, SenderAt, Working, Futures
<1>6. SinkStarts(hint, r.res)
  BY <1>1, <1>2, <1>4, Zenon DEF SinkStarts, m
<1> QED
  BY <1>0, <1>1, <1>2, <1>4, <1>5, <1>6, Zenon

(* poll_flush.                                                             *)
SinkFlushes(res) ==
  /\ \/ FlushKeeps(sink, sink', res)
     \/ FlushEmpty(sink, sink', res)
     \/ FlushSends(sink, sink', res)
  /\ \/ res = "ok" /\ sender'.at = "idle"
     \/ res = "pending" /\ sender'.at = "flush"
     \/ res = "err" /\ sender'.at = "failed"

LEMMA FlushStep ==
  ASSUME Shapes, TaskInv, SinkFlush
  PROVE  /\ TaskInv' /\ DOMAIN sink' = SinkDom /\ DOMAIN sender' = TaskDom
         /\ sink'.meta = sink.meta /\ sink'.enhance = sink.enhance
         /\ sender.at = "flushing"
         /\ \E res : SinkFlushes(res)
         /\ late' = IF Alive THEN late ELSE late + Len(sink'.wire) - Len(sink.wire)
         /\ share' = share
<1> DEFINE r == Flush(sink, open)
<1>0. /\ sender.at = "flushing" /\ sink.batch \in Futures \ {"stale"}
      /\ closeF' = closeF /\ closeF = "none"
  BY Zenon DEF TaskInv, SinkFlush, Working
<1>1. /\ DOMAIN r.sink = SinkDom /\ r.sink.meta = sink.meta /\ r.sink.enhance = sink.enhance
      /\ \/ FlushKeeps(sink, r.sink, r.res)
         \/ FlushEmpty(sink, r.sink, r.res)
         \/ FlushSends(sink, r.sink, r.res)
  <2>1. DOMAIN sink = SinkDom
    BY Zenon DEF Shapes
  <2> QED
    BY <1>0, <2>1, Flushes, Zenon
<1>2. /\ sink' = r.sink /\ sender' = After(r.res, "idle", "flush", {"batch"})
      /\ late' = IF Alive THEN late ELSE late + Len(r.sink.wire) - Len(sink.wire)
      /\ share' = share
  BY Zenon DEF SinkFlush
<1> HIDE DEF r
<1>3. /\ r.res \in {"ok", "err", "pending"}
      /\ r.sink.batch \in {"none", "pending", "stale"} /\ (r.res # "err" => r.sink.batch # "stale")
  BY <1>1, Zenon DEF FlushKeeps, FlushEmpty, FlushSends
<1>4. /\ DOMAIN sender' = TaskDom
      /\ \/ r.res = "ok" /\ sender'.at = "idle"
         \/ r.res = "pending" /\ sender'.at = "flush"
         \/ r.res = "err" /\ sender'.at = "failed"
  BY <1>2, <1>3, AfterAt
<1>5. TaskInv'
  BY <1>0, <1>2, <1>3, <1>4, Zenon DEF TaskInv, SenderAt, Working, Futures
<1>6. SinkFlushes(r.res)
  BY <1>1, <1>2, <1>4, Zenon DEF SinkFlushes
<1> QED
  BY <1>0, <1>1, <1>2, <1>4, <1>5, <1>6, Zenon

(* The steps that leave what the sink holds alone.                         *)
Aside ==
  \/ SinkSendCheck \/ SinkFlushCheck \/ SinkGiveUpFlush \/ SinkCloseWait \/ SinkEnhance
  \/ BatchResolves \/ CloseSendResolves

LEMMA AsideStep ==
  ASSUME Shapes, TaskInv, Aside
  PROVE  /\ TaskInv' /\ DOMAIN sink' = SinkDom /\ DOMAIN sender' = TaskDom
         /\ SinkKept
         /\ sink'.enhance = sink.enhance \/ SinkEnhance
         /\ sender'.at \in {"sending", "flushing"} /\ sender.at \notin {"sending", "flushing"} => Alive
         /\ sender'.at # sender.at => sender'.at # "panicked"
         /\ sender'.at \in Working => sender.at \in Working
         /\ sender'.at \notin {"failed", "panicked", "dropped"} =>
              sender.at \notin {"failed", "panicked", "dropped"}
         /\ UNCHANGED <<share, late>>
<1>1. CASE SinkSendCheck \/ SinkFlushCheck \/ SinkGiveUpFlush
  <2>1. /\ UNCHANGED <<share, late, sink, closeF>>
        /\ \/ sender.at = "ready" /\ sender' = Goes("sending") /\ Alive
           \/ sender.at = "ready" /\ sender' = Goes("failed")
           \/ sender.at \in {"idle", "flush"} /\ sender' = Goes("flushing") /\ Alive
           \/ sender.at \in {"idle", "flush"} /\ sender' = Goes("failed")
           \/ sender.at = "flush" /\ sender' = Goes("idle")
    BY <1>1, Zenon DEF SinkSendCheck, SinkFlushCheck, SinkGiveUpFlush
  <2>2. /\ DOMAIN sender' = TaskDom
        /\ \/ sender.at = "ready" /\ sender'.at = "sending" /\ Alive
           \/ sender.at = "ready" /\ sender'.at = "failed"
           \/ sender.at \in {"idle", "flush"} /\ sender'.at = "flushing" /\ Alive
           \/ sender.at \in {"idle", "flush"} /\ sender'.at = "failed"
           \/ sender.at = "flush" /\ sender'.at = "idle"
    BY <2>1, TaskFields, Zenon
  <2> QED
    BY <2>1, <2>2, Zenon DEF TaskInv, SinkKept, Shapes, SenderAt, Working
<1>2. CASE SinkCloseWait
  <2>1. /\ UNCHANGED <<share, late, sink>> /\ sender.at = "close" /\ closeF \in {"ok", "err", "pending"}
        /\ closeF' = IF closeF = "pending" THEN closeF ELSE "stale"
    BY <1>2, Zenon DEF SinkCloseWait, TaskInv, Futures
  <2>2. \/ closeF = "ok" /\ sender' = Goes("closed")
        \/ closeF # "ok" /\ sender' = Goes("failed")
        \/ closeF = "pending" /\ sender' = Sleeps("close", {"close"})
    BY <1>2, <2>1, Zenon DEF SinkCloseWait
  <2>3. /\ DOMAIN sender' = TaskDom
        /\ \/ sender'.at \in {"closed", "failed"}
           \/ closeF = "pending" /\ sender'.at = "close"
    BY <2>2, TaskFields
  <2> QED
    BY <2>1, <2>3, Zenon DEF TaskInv, SinkKept, Shapes, SenderAt, Working, Futures
<1>3. CASE SinkEnhance
  <2>1. UNCHANGED <<share, late, closeF, sender>> /\ sink' = [sink EXCEPT !.enhance = ~@]
    BY <1>3, Zenon DEF SinkEnhance
  <2>2. SinkKept /\ sink'.batch = sink.batch /\ DOMAIN sink' = SinkDom
    BY <2>1, Zenon DEF Shapes, SinkDom, SinkKept
  <2> QED
    BY <1>3, <2>1, <2>2, Zenon DEF TaskInv, Shapes
<1>4. CASE BatchResolves
  <2>1. sink.batch = "pending" /\ UNCHANGED <<share, late, closeF>> /\ sender' = Woken(sender, "batch")
    BY <1>4, Zenon DEF BatchResolves
  <2>2. PICK e \in {"ok", "err"} : sink' = [sink EXCEPT !.batch = e]
    BY <1>4, Zenon DEF BatchResolves
  <2>3. SinkKept /\ sink'.batch = e /\ DOMAIN sink' = SinkDom /\ sink'.enhance = sink.enhance
    BY <2>2, Zenon DEF Shapes, SinkDom, SinkKept
  <2>4. sender'.at = sender.at /\ DOMAIN sender' = TaskDom
    BY <2>1, WokenStays, Zenon DEF Shapes
  <2> QED
    BY <2>1, <2>3, <2>4, Zenon DEF TaskInv, Futures, Working
<1>5. CASE CloseSendResolves
  <2>1. /\ closeF = "pending" /\ UNCHANGED <<share, late, sink>> /\ sender' = Woken(sender, "close")
        /\ closeF' \in {"ok", "err"}
    BY <1>5, Zenon DEF CloseSendResolves
  <2>2. sender'.at = sender.at /\ DOMAIN sender' = TaskDom
    BY <2>1, WokenStays, Zenon DEF Shapes
  <2> QED
    BY <2>1, <2>2, Zenon DEF TaskInv, Futures, Working, SinkKept, Shapes
<1> QED
  BY <1>1, <1>2, <1>3, <1>4, <1>5, Zenon DEF Aside

(* The drop of the sink.                                                   *)
LEMMA DropStep ==
  ASSUME Shapes, TaskInv, SinkDrop
  PROVE  /\ TaskInv' /\ DOMAIN sink' = SinkDom /\ DOMAIN sender' = TaskDom
         /\ sender'.at = "dropped" /\ sink' = NewSink(FALSE) /\ UNCHANGED <<share, late>>
<1>1. sender' = Goes("dropped") /\ sink' = NewSink(FALSE) /\ UNCHANGED <<share, late, closeF>>
  BY Zenon DEF SinkDrop
<1>2. sender'.at = "dropped" /\ DOMAIN sender' = TaskDom
  BY <1>1, TaskFields, Zenon
<1>3. sink'.batch = "none" /\ DOMAIN sink' = SinkDom
  BY <1>1, Zenon DEF NewSink, SinkDom
<1> QED
  BY <1>1, <1>2, <1>3, Zenon DEF TaskInv, SenderAt, Futures, Working

(* Every step is one of these for the sink, or leaves it alone.            *)
LEMMA Kinds ==
  ASSUME [Next]_vars
  PROVE  \/ SinkReady \/ SinkClose \/ (\E h \in BOOLEAN : SinkSend(h)) \/ SinkFlush \/ Aside
         \/ SinkDrop \/ SenderSame
BY Zenon DEF Next, SinkNext, RecvNext, Core, Ended, vars, Aside, SenderSame, SinkCancel, RecvFinish,
       RecvPending, RecvEof, RecvStart, RecvAgain, RecvResponse, RecvCancel, RecvDrop, PeerSend,
       PeerFinish, QueueShutdown, CloseResolves, RecvResolves

(* The sink's futures.                                                     *)
LEMMA TaskStep ==
  ASSUME Shapes, TaskInv, ~sink.meta, [Next]_vars
  PROVE  TaskInv' /\ DOMAIN sink' = SinkDom /\ DOMAIN sender' = TaskDom
<1>1. CASE SinkReady \/ SinkClose
  BY <1>1, PollStep, Zenon
<1>2. CASE \E h \in BOOLEAN : SinkSend(h)
  BY <1>2, StartStep, Zenon
<1>3. CASE SinkFlush
  BY <1>3, FlushStep, Zenon
<1>4. CASE Aside
  BY <1>4, AsideStep, Zenon
<1>5. CASE SinkDrop
  BY <1>5, DropStep, Zenon
<1>6. CASE SenderSame
  BY <1>6, Zenon DEF SenderSame, TaskInv, Shapes
<1> QED
  BY <1>1, <1>2, <1>3, <1>4, <1>5, <1>6, Kinds, Zenon

(* The receiver's records.                                                 *)
LEMMA ShapeStep ==
  ASSUME Shapes, ShareInv, TaskInv, ~sink.meta, [Next]_vars PROVE Shapes'
<1>0. DOMAIN sink' = SinkDom /\ DOMAIN sender' = TaskDom
  BY TaskStep, Zenon
<1>1. /\ DOMAIN share = {"close", "finished"} /\ DOMAIN recv = RecvDom /\ DOMAIN reader = TaskDom
  BY Zenon DEF Shapes
<1>2. ASSUME UNCHANGED <<share, recv, reader>> PROVE Shapes'
  BY <1>0, <1>1, <1>2, Zenon DEF Shapes
<1>3. CASE RecvFinish \/ RecvResponse
  BY <1>0, <1>3, ShareFinish, ShareResponse, Zenon DEF Shapes
<1>4. CASE RecvPending \/ RecvEof
  <2>1. share' = share /\ (RecvPending => recv' = recv)
    BY <1>4, Zenon DEF RecvPending, RecvEof
  <2>2. DOMAIN recv' = RecvDom /\ DOMAIN reader' = TaskDom
    BY <1>1, <1>4, <2>1, RecvFields, Zenon
  <2> QED
    BY <1>0, <1>1, <2>1, <2>2, Zenon DEF Shapes
<1>5. CASE RecvStart
  <2>1. share' = share
    BY <1>5, Zenon DEF RecvStart
  <2>2. DOMAIN recv' = RecvDom
    BY <1>1, <1>5, Zenon DEF RecvStart, RecvDom
  <2>3. DOMAIN reader' = TaskDom
    BY <1>1, <1>5, TaskFields, Zenon DEF RecvStart
  <2> QED
    BY <1>0, <1>1, <2>1, <2>2, <2>3, Zenon DEF Shapes
<1>6. CASE RecvAgain \/ RecvDrop
  <2>1. share' = share /\ (recv' = recv \/ recv' = NewRecv)
    BY <1>6, Zenon DEF RecvAgain, RecvDrop
  <2>2. DOMAIN recv' = RecvDom
    BY <1>1, <2>1, Zenon DEF NewRecv, RecvDom
  <2>3. DOMAIN reader' = TaskDom
    BY <1>6, TaskFields, Zenon DEF RecvAgain, RecvDrop
  <2> QED
    BY <1>0, <1>1, <2>1, <2>2, <2>3, Zenon DEF Shapes
<1>7. CASE CloseResolves \/ RecvResolves
  <2>1. DOMAIN reader' = TaskDom
    BY <1>1, <1>7, WokenStays DEF CloseResolves, RecvResolves
  <2>2. DOMAIN share' = {"close", "finished"}
    BY <1>1, <1>7, Zenon DEF CloseResolves, RecvResolves
  <2>3. DOMAIN recv' = RecvDom
    BY <1>1, <1>7, Zenon DEF CloseResolves, RecvResolves, RecvDom
  <2> QED
    BY <1>0, <2>1, <2>2, <2>3, Zenon DEF Shapes
<1>8. CASE SinkNext \/ BatchResolves \/ CloseSendResolves \/ UNCHANGED vars \/ Ended \/ RecvCancel
  <2>1. UNCHANGED <<share, recv, reader>>
    BY <1>8, Zenon DEF SinkNext, SinkReady, SinkSendCheck, SinkSend, SinkFlushCheck, SinkFlush,
                SinkGiveUpFlush, SinkClose, SinkCloseWait, SinkEnhance, SinkCancel, SinkDrop,
                BatchResolves, CloseSendResolves, RecvCancel, Ended, ReaderSame, vars
  <2> QED
    BY <1>2, <2>1, Zenon
<1>9. CASE PeerSend \/ PeerFinish \/ QueueShutdown
  BY <1>2, <1>9, Zenon DEF PeerSend, PeerFinish, QueueShutdown, ReaderSame
<1> QED
  BY <1>3, <1>4, <1>5, <1>6, <1>7, <1>8, <1>9, Zenon DEF Next, RecvNext, Core

(* A call that is over stays so.                                           *)
LEMMA EndStays ==
  ASSUME Shapes, ShareInv, ShareInv', [Next]_vars PROVE ~Alive => ~Alive'
<1>1. (Alive <=> share.close = "pending") /\ (Alive' <=> share'.close = "pending")
  BY Zenon DEF ShareInv, Alive, ShareAlive, CheckAlive
<1>2. CASE RecvFinish \/ RecvResponse
  <2>1. share' = share \/ share'.close = "stale"
    BY <1>2, ShareFinish, ShareResponse, Zenon
  <2> QED
    BY <1>1, <2>1, Zenon
<1>3. CASE CloseResolves
  BY <1>1, <1>3, Zenon DEF CloseResolves
<1>4. CASE ~(RecvFinish \/ RecvResponse \/ CloseResolves)
  <2>1. share' = share
    BY <1>4, Zenon DEF Next, SinkNext, RecvNext, Core, Ended, vars, SinkReady, SinkSendCheck,
       SinkSend,
                SinkFlushCheck, SinkFlush, SinkGiveUpFlush, SinkClose, SinkCloseWait, SinkEnhance,
                SinkCancel, SinkDrop, BatchResolves, CloseSendResolves, RecvPending, RecvEof,
                RecvStart, RecvAgain, RecvCancel, RecvDrop, PeerSend, PeerFinish, QueueShutdown,
                RecvResolves
  <2> QED
    BY <1>1, <2>1, Zenon
<1> QED
  BY <1>2, <1>3, <1>4, Zenon

(* A poll hands over one message at most.                                  *)
LEMMA WireGrows ==
  ASSUME NEW s, NEW t, s.wire \in Seq(OnWire),
         \/ \E m, hint, res : StartGoes(s, t, m, hint, res)
         \/ \E res : FlushKeeps(s, t, res) \/ FlushEmpty(s, t, res) \/ FlushSends(s, t, res)
  PROVE  Len(t.wire) \in {Len(s.wire), Len(s.wire) + 1}
<1>1. t.wire = s.wire \/ \E m, hint : t.wire = Wired(s, m, hint)
  BY ZenonT(60) DEF StartGoes, Holds, SendsIt, SendsHeld, SendsTwice, Refused, FlushKeeps,
     FlushEmpty, FlushSends
<1>2. CASE t.wire = s.wire
  BY <1>2, Zenon
<1>3. ASSUME NEW m, NEW hint, t.wire = Wired(s, m, hint) PROVE Len(t.wire) = Len(s.wire) + 1
  <2> DEFINE x == [msg |-> m, hint |-> hint, meta |-> s.meta]
             w == s.wire
  <2>1. t.wire = Append(w, x)
    BY <1>3, Zenon DEF Wired
  <2>2. w \in Seq(OnWire)
    BY Zenon
  <2> HIDE DEF x, w
  <2>3. Len(Append(w, x)) = Len(w) + 1 /\ Len(w) \in Nat
    BY <2>2
  <2> QED
    BY <2>1, <2>3, Zenon DEF w
<1> QED
  BY <1>1, <1>2, <1>3, Zenon

(* Only the message whose check came before the end is handed over late.   *)
LEMMA LateStep ==
  ASSUME Shapes, ShareInv, ShareInv', TaskInv, LateInv, ~sink.meta, sink.wire \in Seq(OnWire),
         [Next]_vars
  PROVE  LateInv'
<1>1. ~Alive => ~Alive'
  BY EndStays, Zenon
<1>2. ASSUME UNCHANGED late,
             sender'.at \in {"sending", "flushing"} /\ sender.at \notin {"sending", "flushing"} => Alive
      PROVE  LateInv'
  BY <1>1, <1>2, Zenon DEF LateInv
<1>3. ASSUME sender.at \in {"sending", "flushing"}, sender'.at \notin {"sending", "flushing"},
             late' = IF Alive THEN late ELSE late + Len(sink'.wire) - Len(sink.wire),
             Len(sink'.wire) \in {Len(sink.wire), Len(sink.wire) + 1}
      PROVE  LateInv'
  <2>1. late = 0
    BY <1>3, Zenon DEF LateInv
  <2>2. CASE Alive
    BY <1>3, <2>1, <2>2, Zenon DEF LateInv
  <2>3. CASE ~Alive
    <3> DEFINE n == Len(sink'.wire)
               o == Len(sink.wire)
    <3>1. o \in Nat /\ n \in {o, o + 1} /\ late' = late + n - o
      BY <1>3, <2>3
    <3> HIDE DEF n, o
    <3>3. late' \in {0, 1}
      BY <2>1, <3>1
    <3> QED
      BY <1>1, <1>3, <2>3, <3>3, Zenon DEF LateInv
  <2> QED
    BY <2>2, <2>3, Zenon
<1>4. CASE SinkReady \/ SinkClose
  BY <1>2, <1>4, PollStep, Zenon
<1>5. ASSUME NEW h \in BOOLEAN, SinkSend(h) PROVE LateInv'
  <2>1. /\ sender.at = "sending"
        /\ \E res : SinkStarts(h, res)
        /\ late' = IF Alive THEN late ELSE late + Len(sink'.wire) - Len(sink.wire)
    BY <1>5, StartStep, Zenon
  <2>2. PICK res : SinkStarts(h, res)
    BY <2>1, Zenon
  <2>3. Len(sink'.wire) \in {Len(sink.wire), Len(sink.wire) + 1}
    BY <2>2, WireGrows, Zenon DEF SinkStarts
  <2>4. sender'.at \notin {"sending", "flushing"}
    BY <2>2, Zenon DEF SinkStarts
  <2> QED
    BY <1>3, <2>1, <2>3, <2>4, Zenon
<1>6. CASE SinkFlush
  <2>1. /\ sender.at = "flushing"
        /\ \E res : SinkFlushes(res)
        /\ late' = IF Alive THEN late ELSE late + Len(sink'.wire) - Len(sink.wire)
    BY <1>6, FlushStep, Zenon
  <2>2. PICK res : SinkFlushes(res)
    BY <2>1, Zenon
  <2>3. Len(sink'.wire) \in {Len(sink.wire), Len(sink.wire) + 1}
    BY <2>2, WireGrows, Zenon DEF SinkFlushes
  <2>4. sender'.at \notin {"sending", "flushing"}
    BY <2>2, Zenon DEF SinkFlushes
  <2> QED
    BY <1>3, <2>1, <2>3, <2>4, Zenon
<1>7. CASE Aside
  BY <1>2, <1>7, AsideStep, Zenon
<1>8. CASE SinkDrop
  BY <1>2, <1>8, DropStep, Zenon
<1>9. CASE SenderSame
  BY <1>2, <1>9, Zenon DEF SenderSame
<1> QED
  BY <1>4, <1>5, <1>6, <1>7, <1>8, <1>9, Kinds, Zenon

(* A sink that is not switched over while it works never starts a batch    *)
(* over another.                                                           *)
LEMMA PlainStep ==
  ASSUME Shapes, TaskInv, PlainInv, ~sink.meta, sink.accepted \in Seq(Offered), ~Toggle, [Next]_vars
  PROVE  PlainInv'
<1>1. ASSUME SinkKept, sink'.enhance = sink.enhance, sender'.at # "panicked",
             sender'.at \in Working => sender.at \in Working
      PROVE  PlainInv'
  BY <1>1, Zenon DEF PlainInv, SinkKept
<1>2. CASE SinkReady \/ SinkClose
  BY <1>1, <1>2, PollStep, Zenon
<1>3. ASSUME NEW h \in BOOLEAN, SinkSend(h) PROVE PlainInv'
  <2>1. PICK res : SinkStarts(h, res)
    BY <1>3, StartStep, Zenon
  <2>2. sender.at = "sending" /\ sink'.enhance = sink.enhance
    BY <1>3, StartStep, Zenon
  <2>3. sink.buf = NoMsg \/ (sink.enhance /\ sink.accepted # <<>>)
    BY <2>2, Zenon DEF PlainInv, Working
  <2>4. ~SendsTwice(sink, sink', Len(sink.accepted) + 1, h, res)
    BY <2>3, Zenon DEF SendsTwice
  <2>5. res # "panic" /\ sender'.at # "panicked"
    BY <2>1, <2>4, Zenon DEF SinkStarts, StartGoes, Holds, SendsIt, SendsHeld, Refused
  <2>6. res = "ok" => sink'.buf = NoMsg \/ (sink.enhance /\ sink'.accepted # <<>>)
    <3>1. ASSUME NEW x PROVE Append(sink.accepted, x) # <<>>
      <4>1. Len(sink.accepted) \in Nat /\ Len(Append(sink.accepted, x)) = Len(sink.accepted) + 1
        OBVIOUS
      <4> QED
        BY <4>1
    <3> QED
      BY <2>1, <2>4, <3>1, Zenon DEF SinkStarts, StartGoes, Holds, SendsIt, SendsHeld, Refused
  <2>7. sender'.at \in Working => res = "ok"
    BY <2>1, Zenon DEF SinkStarts, Working
  <2> QED
    BY <2>2, <2>5, <2>6, <2>7, Zenon DEF PlainInv
<1>4. CASE SinkFlush
  <2>1. PICK res : SinkFlushes(res)
    BY <1>4, FlushStep, Zenon
  <2>2. sender.at = "flushing" /\ sink'.enhance = sink.enhance
    BY <1>4, FlushStep, Zenon
  <2>3. sink.buf = NoMsg \/ (sink.enhance /\ sink.accepted # <<>>)
    BY <2>2, Zenon DEF PlainInv, Working
  <2> QED
    BY <2>1, <2>2, <2>3, Zenon DEF PlainInv, SinkFlushes, FlushKeeps, FlushEmpty, FlushSends
<1>5. CASE Aside
  <2>1. /\ SinkKept /\ (sender'.at \in Working => sender.at \in Working) /\ sender'.at # "panicked"
        /\ sink'.enhance = sink.enhance \/ SinkEnhance
    BY <1>5, AsideStep, Zenon DEF PlainInv
  <2>2. CASE SinkEnhance
    <3>1. sink.accepted = <<>>
      BY <2>2, Zenon DEF SinkEnhance
    <3> QED
      BY <2>1, <3>1, Zenon DEF PlainInv, SinkKept
  <2> QED
    BY <1>1, <2>1, <2>2, Zenon
<1>6. CASE SinkDrop
  BY <1>6, DropStep, Zenon DEF PlainInv, Working
<1>7. CASE SenderSame
  BY <1>7, Zenon DEF SenderSame, PlainInv
<1> QED
  BY <1>2, <1>3, <1>4, <1>5, <1>6, <1>7, Kinds, Zenon

-----------------------------------------------------------------------------
(* The messages that were accepted, and those that were handed over.       *)

(* One more message waits only if it asked to be sent at once.             *)
LEMMA WaitsMore ==
  ASSUME NEW a \in Seq(Offered), NEW w \in Seq(OnWire), NEW y
  PROVE  /\ Len(Append(a, y)) = Len(a) + 1
         /\ \A i \in Waiting(Append(a, y), w) : i \in Waiting(a, w) \/ Urgent(y)
<1>1. Len(a) \in Nat /\ Len(Append(a, y)) = Len(a) + 1
  OBVIOUS
<1>2. \A i \in 1..Len(a) : Append(a, y)[i] = a[i]
  OBVIOUS
<1>3. Append(a, y)[Len(a) + 1] = y
  OBVIOUS
<1> SUFFICES ASSUME NEW i \in Waiting(Append(a, y), w), ~Urgent(y) PROVE i \in Waiting(a, w)
  BY <1>1, Zenon
<1> HIDE DEF Urgent
<1>4. i \in 1..(Len(a) + 1) /\ Urgent(Append(a, y)[i]) /\ \A j \in i..Len(w) : ~Urgent(w[j])
  BY <1>1, Zenon DEF Waiting
<1>5. i # Len(a) + 1
  BY <1>3, <1>4, Zenon
<1>6. i \in 1..Len(a)
  BY <1>1, <1>4, <1>5
<1>7. Urgent(a[i])
  BY <1>2, <1>4, <1>6, Zenon
<1> QED
  BY <1>4, <1>6, <1>7, Zenon DEF Waiting

(* A message that is handed over lets none wait that did not, and none at  *)
(* all when it is sent at once.                                            *)
LEMMA WaitsLess ==
  ASSUME NEW a \in Seq(Offered), NEW w \in Seq(OnWire), NEW x
  PROVE  /\ Len(Append(w, x)) = Len(w) + 1
         /\ Waiting(a, Append(w, x)) \subseteq Waiting(a, w)
         /\ Urgent(x) /\ Len(a) <= Len(w) + 1 => Waiting(a, Append(w, x)) = {}
<1>1. Len(a) \in Nat /\ Len(w) \in Nat /\ Len(Append(w, x)) = Len(w) + 1
  OBVIOUS
<1>2. \A i \in 1..Len(w) : Append(w, x)[i] = w[i]
  OBVIOUS
<1>3. Append(w, x)[Len(w) + 1] = x
  OBVIOUS
<1> HIDE DEF Urgent
<1>4. ASSUME NEW i \in Waiting(a, Append(w, x))
      PROVE  i \in Waiting(a, w) /\ (Urgent(x) /\ Len(a) <= Len(w) + 1 => FALSE)
  <2>1. /\ i \in 1..Len(a) /\ Urgent(a[i])
        /\ \A j \in i..(Len(w) + 1) : ~Urgent(Append(w, x)[j])
    BY <1>1, <1>4, Zenon DEF Waiting
  <2>2. ASSUME NEW j \in i..Len(w) PROVE ~Urgent(w[j])
    <3>1. j \in 1..Len(w) /\ j \in i..(Len(w) + 1)
      BY <1>1, <2>1
    <3> QED
      BY <1>2, <2>1, <3>1, Zenon
  <2>3. Len(a) <= Len(w) + 1 => ~Urgent(x)
    <3>1. Len(a) <= Len(w) + 1 => Len(w) + 1 \in i..(Len(w) + 1)
      BY <1>1, <2>1, SMTT(60)
    <3> QED
      BY <1>3, <2>1, <3>1, Zenon
  <2> QED
    BY <2>1, <2>2, <2>3, Zenon DEF Waiting
<1> QED
  BY <1>1, <1>4, Zenon

(* The numbers of a queue with one more message.                           *)
LEMMA NumbersMore ==
  ASSUME NEW S, NEW q \in Seq(S), \A x \in S : x.msg \in Nat, NEW y \in S
  PROVE  /\ Numbers(Append(q, y)) = Append(Numbers(q), y.msg)
         /\ Numbers(q) \in Seq(Nat) /\ Len(Numbers(q)) = Len(q)
<1>1. Len(q) \in Nat /\ Len(Append(q, y)) = Len(q) + 1 /\ Append(q, y) \in Seq(S)
  OBVIOUS
<1>2. \A i \in 1..Len(q) : q[i] \in S /\ q[i].msg \in Nat
  OBVIOUS
<1>3. Numbers(q) \in Seq(Nat) /\ Len(Numbers(q)) = Len(q) /\ \A i \in 1..Len(q) : Numbers(q)[i] = q[i].msg
  <2> DEFINE k == Len(q)
  <2>1. k \in Nat /\ \A i \in 1..k : q[i].msg \in Nat
    BY <1>1, <1>2, Zenon
  <2>2. Numbers(q) = [i \in 1..k |-> q[i].msg]
    BY Zenon DEF Numbers
  <2> HIDE DEF k
  <2>3. Numbers(q) \in Seq(Nat) /\ Len(Numbers(q)) = k /\ \A i \in 1..k : Numbers(q)[i] = q[i].msg
    BY <2>1, <2>2
  <2> QED
    BY <2>3, Zenon DEF k
<1>4. /\ Append(q, y)[Len(q) + 1] = y
      /\ \A i \in 1..Len(q) : Append(q, y)[i] = q[i]
  OBVIOUS
<1>5. ASSUME NEW i \in 1..(Len(q) + 1)
      PROVE  Append(q, y)[i].msg = Append(Numbers(q), y.msg)[i]
  <2>1. CASE i = Len(q) + 1
    BY <1>3, <1>4, <2>1
  <2>2. CASE i \in 1..Len(q)
    BY <1>3, <1>4, <2>2
  <2>3. i = Len(q) + 1 \/ i \in 1..Len(q)
    BY <1>1
  <2> QED
    BY <2>1, <2>2, <2>3, Zenon
<1>6. /\ y.msg \in Nat /\ Append(Numbers(q), y.msg) \in Seq(Nat)
      /\ DOMAIN Append(Numbers(q), y.msg) = 1..(Len(q) + 1)
  BY <1>1, <1>3
<1>7. Append(Numbers(q), y.msg) = [i \in 1..(Len(q) + 1) |-> Append(Numbers(q), y.msg)[i]]
  <2>1. ASSUME NEW f \in Seq(Nat), NEW k, DOMAIN f = 1..k PROVE f = [i \in 1..k |-> f[i]]
    BY <2>1
  <2> QED
    BY <1>6, <2>1, Zenon
<1>8. Numbers(Append(q, y)) = [i \in 1..(Len(q) + 1) |-> Append(q, y)[i].msg]
  BY <1>1, Zenon DEF Numbers
<1> QED
  BY <1>3, <1>5, <1>7, <1>8, Zenon

(* Accounted, of a sink that has handed over w, holds b and accepted a.    *)
Rest(b) == IF b = NoMsg THEN <<>> ELSE <<b.msg>>
InAll(w, b, a) == Numbers(w) \o Rest(b) = Numbers(a)
WireMsg(b, h) == [msg |-> b.msg, hint |-> h, meta |-> FALSE]

(* The numbers on the wire and those accepted are numbers.                 *)
LEMMA Queues ==
  ASSUME NEW a \in Seq(Offered), NEW w \in Seq(OnWire)
  PROVE  /\ Numbers(a) \in Seq(Nat) /\ Len(Numbers(a)) = Len(a) /\ Len(a) \in Nat
         /\ Numbers(w) \in Seq(Nat) /\ Len(Numbers(w)) = Len(w) /\ Len(w) \in Nat
         /\ \A y \in Offered : Numbers(Append(a, y)) = Append(Numbers(a), y.msg)
         /\ \A y \in OnWire : Numbers(Append(w, y)) = Append(Numbers(w), y.msg)
<1>1. (\A x \in Offered : x.msg \in Nat) /\ NoMsg \in Offered
  BY Zenon DEF Offered, NoMsg
<1>2. (\A x \in OnWire : x.msg \in Nat) /\ [msg |-> 0, hint |-> TRUE, meta |-> TRUE] \in OnWire
  BY Zenon DEF OnWire
<1>3. /\ Numbers(a) \in Seq(Nat) /\ Len(Numbers(a)) = Len(a)
      /\ \A y \in Offered : Numbers(Append(a, y)) = Append(Numbers(a), y.msg)
  BY <1>1, NumbersMore, Zenon
<1>4. /\ Numbers(w) \in Seq(Nat) /\ Len(Numbers(w)) = Len(w)
      /\ \A y \in OnWire : Numbers(Append(w, y)) = Append(Numbers(w), y.msg)
  BY <1>2, NumbersMore, Zenon
<1>5. Len(a) \in Nat /\ Len(w) \in Nat
  OBVIOUS
<1> QED
  BY <1>3, <1>4, <1>5, Zenon

(* How many are held.                                                      *)
LEMMA Counts ==
  ASSUME NEW a \in Seq(Offered), NEW w \in Seq(OnWire), NEW b \in Offered, InAll(w, b, a)
  PROVE  Len(a) = IF b = NoMsg THEN Len(w) ELSE Len(w) + 1
<1> DEFINE n == Numbers(a)
           v == Numbers(w)
           c == Rest(b)
<1>1. n \in Seq(Nat) /\ Len(n) = Len(a) /\ v \in Seq(Nat) /\ Len(v) = Len(w)
  BY Queues, Zenon
<1>2. c \in Seq(Nat) /\ Len(c) = IF b = NoMsg THEN 0 ELSE 1
  BY DEF Rest, Offered
<1>3. v \o c = n
  BY Zenon DEF InAll
<1> HIDE DEF n, v, c
<1>4. Len(v \o c) = Len(v) + Len(c) /\ Len(v) \in Nat
  <2>1. ASSUME NEW p \in Seq(Nat), NEW q \in Seq(Nat)
        PROVE  Len(p \o q) = Len(p) + Len(q) /\ Len(p) \in Nat
    OBVIOUS
  <2> QED
    BY <1>1, <1>2, <2>1, Zenon
<1> QED
  BY <1>1, <1>2, <1>3, <1>4

(* The next message is held.                                               *)
LEMMA AllHold ==
  ASSUME NEW a \in Seq(Offered), NEW w \in Seq(OnWire), InAll(w, NoMsg, a),
         NEW y \in Offered, y # NoMsg
  PROVE  InAll(w, y, Append(a, y))
<1> DEFINE n == Numbers(a)
           v == Numbers(w)
           k == y.msg
<1>1. n \in Seq(Nat) /\ v \in Seq(Nat) /\ k \in Nat /\ Numbers(Append(a, y)) = Append(n, k)
  BY Queues, Zenon DEF Offered
<1>2. v \o <<>> = n /\ Rest(y) = <<k>>
  BY Zenon DEF InAll, Rest
<1>3. InAll(w, y, Append(a, y)) <=> v \o Rest(y) = Append(n, k)
  BY <1>1, Zenon DEF InAll
<1> HIDE DEF n, v, k
<1>4. v = n
  BY <1>1, <1>2
<1>5. Append(n, k) = n \o <<k>>
  BY <1>1
<1> QED
  BY <1>2, <1>3, <1>4, <1>5, Zenon

(* The held message is handed over.                                        *)
LEMMA AllMove ==
  ASSUME NEW a \in Seq(Offered), NEW w \in Seq(OnWire), NEW b \in Offered, b # NoMsg,
         InAll(w, b, a), NEW h \in BOOLEAN
  PROVE  WireMsg(b, h) \in OnWire /\ InAll(Append(w, WireMsg(b, h)), NoMsg, a)
<1> DEFINE n == Numbers(a)
           v == Numbers(w)
           k == b.msg
<1>0. WireMsg(b, h) \in OnWire /\ WireMsg(b, h).msg = k
  BY Zenon DEF WireMsg, OnWire, Offered
<1>1. /\ n \in Seq(Nat) /\ v \in Seq(Nat) /\ k \in Nat
      /\ Numbers(Append(w, WireMsg(b, h))) = Append(v, k)
  BY <1>0, Queues, Zenon DEF Offered
<1>2. v \o <<k>> = n /\ Rest(NoMsg) = <<>>
  BY Zenon DEF InAll, Rest
<1>3. InAll(Append(w, WireMsg(b, h)), NoMsg, a) <=> Append(v, k) \o Rest(NoMsg) = n
  BY <1>1, Zenon DEF InAll
<1> HIDE DEF n, v, k
<1>4. Append(v, k) = v \o <<k>> /\ Append(v, k) \o <<>> = Append(v, k)
  BY <1>1
<1> QED
  BY <1>0, <1>2, <1>3, <1>4, Zenon

(* The messages accepted and those handed over, when one that asked to be  *)
(* sent at once waits only while the hint of the last ones says so.        *)
Timely(a, w, h) ==
  /\ a \in Seq(Offered) /\ w \in Seq(OnWire) /\ h \in BOOLEAN
  /\ Len(w) <= Len(a)
  /\ Waiting(a, w) # {} => ~h

(* A message that is offered with the hint g.                              *)
Asks(y, g) == y \in Offered /\ y # NoMsg /\ (Urgent(y) <=> ~g)

(* Another hint that asks for more leaves it so.                           *)
LEMMA TimelyHint ==
  ASSUME NEW a, NEW w, NEW h, Timely(a, w, h), NEW g \in BOOLEAN PROVE Timely(a, w, h /\ g)
BY Zenon DEF Timely

(* One more message is accepted.                                           *)
LEMMA TimelyAccept ==
  ASSUME NEW a, NEW w, NEW h, Timely(a, w, h),
         NEW g \in BOOLEAN, NEW y, Asks(y, g)
  PROVE  /\ Timely(Append(a, y), w, h /\ g)
         /\ g /\ Waiting(a, w) = {} => Waiting(Append(a, y), w) = {}
<1>1. a \in Seq(Offered) /\ w \in Seq(OnWire) /\ h \in BOOLEAN
  BY Zenon DEF Timely
<1>2. Len(w) <= Len(a)
  BY Zenon DEF Timely
<1>3. Waiting(a, w) # {} => ~h
  BY Zenon DEF Timely
<1>4. Len(Append(a, y)) = Len(a) + 1
  BY <1>1, WaitsMore, Zenon
<1>5. Waiting(Append(a, y), w) # {} => Waiting(a, w) # {} \/ Urgent(y)
  BY <1>1, WaitsMore, Zenon
<1>6. Append(a, y) \in Seq(Offered)
  BY <1>1 DEF Asks
<1>7. Len(a) \in Nat /\ Len(w) \in Nat
  BY <1>1
<1>8. Len(w) <= Len(Append(a, y))
  BY <1>2, <1>4, <1>7
<1>9. Waiting(Append(a, y), w) # {} => ~(h /\ g)
  BY <1>3, <1>5, Zenon DEF Asks
<1> QED
  BY <1>1, <1>5, <1>6, <1>8, <1>9, Zenon DEF Timely, Asks

(* The message that is held is handed over, with the hint k.               *)
LEMMA TimelySend ==
  ASSUME NEW a, NEW w, NEW h, Timely(a, w, h), NEW b \in Offered, b # NoMsg, InAll(w, b, a),
         NEW k \in BOOLEAN
  PROVE  LET x == WireMsg(b, k) IN
         /\ Timely(a, Append(w, x), h) /\ InAll(Append(w, x), NoMsg, a)
         /\ ~k \/ Waiting(a, w) = {} => Waiting(a, Append(w, x)) = {}
<1> DEFINE x == WireMsg(b, k)
<1>1. a \in Seq(Offered) /\ w \in Seq(OnWire) /\ h \in BOOLEAN
  BY Zenon DEF Timely
<1>2. Waiting(a, w) # {} => ~h
  BY Zenon DEF Timely
<1>3. x \in OnWire /\ InAll(Append(w, x), NoMsg, a)
  BY <1>1, AllMove, Zenon
<1>4. Urgent(x) <=> ~k
  BY Zenon DEF Urgent, WireMsg
<1> HIDE DEF x
<1>5. Len(a) = Len(w) + 1
  <2>1. Len(a) = IF b = NoMsg THEN Len(w) ELSE Len(w) + 1
    BY <1>1, Counts, Zenon
  <2> QED
    BY <2>1, Zenon
<1>6. Len(a) \in Nat /\ Len(w) \in Nat
  BY <1>1
<1>7. Len(Append(w, x)) = Len(w) + 1 /\ Waiting(a, Append(w, x)) \subseteq Waiting(a, w)
  BY <1>1, WaitsLess, Zenon
<1>8. Urgent(x) /\ Len(a) <= Len(w) + 1 => Waiting(a, Append(w, x)) = {}
  BY <1>1, WaitsLess, Zenon
<1>9. Len(a) <= Len(w) + 1 /\ Len(Append(w, x)) <= Len(a)
  BY <1>5, <1>6, <1>7
<1>10. Append(w, x) \in Seq(OnWire)
  BY <1>1, <1>3
<1>11. Waiting(a, Append(w, x)) # {} => Waiting(a, w) # {}
  BY <1>7, Zenon
<1>12. Timely(a, Append(w, x), h)
  BY <1>1, <1>2, <1>9, <1>10, <1>11, Zenon DEF Timely
<1>13. ~k \/ Waiting(a, w) = {} => Waiting(a, Append(w, x)) = {}
  BY <1>4, <1>8, <1>9, <1>11, Zenon
<1> QED
  BY <1>3, <1>12, <1>13, Zenon DEF x

(* What is good about a sink, by its fields.                               *)
LEMMA GoodIs ==
  ASSUME NEW s
  PROVE  SinkGood(s) <=> /\ Timely(s.accepted, s.wire, s.lastHint) /\ s.buf \in Offered
                         /\ s.meta = FALSE
                         /\ Waiting(s.accepted, s.wire) # {} => s.buf # NoMsg
BY Zenon DEF SinkGood, Timely

(* What start_send accepts waits in the sink, or was handed over.          *)
LEMMA StartGood ==
  ASSUME NEW s, NEW t, SinkGood(s), InAll(s.wire, s.buf, s.accepted), t.meta = FALSE,
         NEW m \in Nat \ {0}, NEW hint \in BOOLEAN, NEW res, StartGoes(s, t, m, hint, res)
  PROVE  SinkGood(t) /\ (res = "ok" => InAll(t.wire, t.buf, t.accepted))
<1> DEFINE a == s.accepted
           w == s.wire
           b == s.buf
           h == s.lastHint
           y == Message(m, hint)
           x == WireMsg(b, TRUE)
           z == WireMsg(y, hint)
<1>0. /\ Timely(a, w, h) /\ b \in Offered /\ s.meta = FALSE /\ InAll(w, b, a)
      /\ Waiting(a, w) # {} => b # NoMsg
  BY GoodIs, Zenon
<1>1. y \in Offered /\ y # NoMsg /\ y.msg = m
  BY Zenon DEF Message, Offered, NoMsg
<1>a. Asks(y, hint)
  BY <1>1, Zenon DEF Asks, Urgent, Message
<1>2. Wired(s, b.msg, TRUE) = Append(w, x) /\ Wired(s, m, hint) = Append(w, z)
  BY <1>0, <1>1, Zenon DEF WireMsg, Wired
<1>3. a \in Seq(Offered) /\ w \in Seq(OnWire)
  BY <1>0, Zenon DEF Timely
<1>4. CASE Holds(s, t, m, hint, res)
  <2>1. b = NoMsg
    BY <1>4, Zenon DEF Holds
  <2>2. /\ t.buf = y /\ t.lastHint = (h /\ hint)
        /\ t.accepted = Append(a, y) /\ t.wire = w
    BY <1>4, Zenon DEF Holds
  <2> HIDE DEF a, w, b, h, y
  <2>3. Timely(Append(a, y), w, h /\ hint)
    BY <1>0, <1>a, TimelyAccept, Zenon
  <2>4. InAll(w, y, Append(a, y))
    BY <1>0, <1>1, <1>3, <2>1, AllHold, Zenon
  <2>5. SinkGood(t)
    BY <1>1, <2>2, <2>3, GoodIs, Zenon
  <2> QED
    BY <2>2, <2>4, <2>5, Zenon
<1>5. CASE SendsIt(s, t, m, hint, res)
  <2>1. b = NoMsg
    BY <1>5, Zenon DEF SendsIt
  <2>2. /\ t.buf = NoMsg /\ t.lastHint = (h /\ hint)
        /\ t.accepted = Append(a, y) /\ t.wire = Append(w, z)
    BY <1>2, <1>5, Zenon DEF SendsIt
  <2> HIDE DEF a, w, b, h, y
  <2>3. Timely(Append(a, y), w, h /\ hint) /\ (hint => Waiting(Append(a, y), w) = {})
    BY <1>0, <1>a, <2>1, TimelyAccept, Zenon
  <2>4. InAll(w, y, Append(a, y))
    BY <1>0, <1>1, <1>3, <2>1, AllHold, Zenon
  <2>5. /\ Timely(Append(a, y), Append(w, z), h /\ hint) /\ InAll(Append(w, z), NoMsg, Append(a, y))
        /\ ~hint \/ Waiting(Append(a, y), w) = {} => Waiting(Append(a, y), Append(w, z)) = {}
    BY <1>1, <2>3, <2>4, TimelySend, Zenon
  <2> HIDE DEF z
  <2>6. NoMsg \in Offered
    BY <1>0, <2>1, Zenon
  <2>7. SinkGood(t)
    BY <2>2, <2>3, <2>5, <2>6, GoodIs, Zenon
  <2> QED
    BY <2>2, <2>5, <2>7, Zenon
<1>6. CASE SendsHeld(s, t, m, hint, res)
  <2>1. b # NoMsg
    BY <1>6, Zenon DEF SendsHeld
  <2>2. /\ t.buf = y /\ t.lastHint = (h /\ hint)
        /\ t.accepted = Append(a, y) /\ t.wire = Append(w, x)
    BY <1>2, <1>6, Zenon DEF SendsHeld
  <2> HIDE DEF a, w, b, h, y
  <2>3. Timely(a, Append(w, x), h) /\ InAll(Append(w, x), NoMsg, a)
    BY <1>0, <2>1, TimelySend, Zenon
  <2> HIDE DEF x
  <2>4. Timely(Append(a, y), Append(w, x), h /\ hint)
    BY <1>a, <2>3, TimelyAccept, Zenon
  <2>5. Append(w, x) \in Seq(OnWire)
    BY <2>3, Zenon DEF Timely
  <2>6. InAll(Append(w, x), y, Append(a, y))
    BY <1>1, <1>3, <2>3, <2>5, AllHold, Zenon
  <2>7. SinkGood(t)
    BY <1>1, <2>2, <2>4, GoodIs, Zenon
  <2> QED
    BY <2>2, <2>6, <2>7, Zenon
<1>7. CASE SendsTwice(s, t, m, hint, res)
  <2>1. b # NoMsg /\ res # "ok"
    BY <1>7, Zenon DEF SendsTwice
  <2>2. t.buf = y /\ t.lastHint = (h /\ hint) /\ t.accepted = a /\ t.wire = Append(w, x)
    BY <1>2, <1>7, Zenon DEF SendsTwice
  <2> HIDE DEF a, w, b, h, y
  <2>3. Timely(a, Append(w, x), h)
    BY <1>0, <2>1, TimelySend, Zenon
  <2> HIDE DEF x
  <2>4. Timely(a, Append(w, x), h /\ hint)
    BY <2>3, TimelyHint, Zenon
  <2>5. SinkGood(t)
    BY <1>1, <2>2, <2>4, GoodIs, Zenon
  <2> QED
    BY <2>1, <2>5, Zenon
<1>8. CASE Refused(s, t, m, hint, res)
  <2>1. res # "ok"
    BY <1>8, Zenon DEF Refused
  <2>2. t.buf = y /\ t.lastHint = (h /\ hint) /\ t.accepted = a /\ t.wire = w
    BY <1>8, Zenon DEF Refused
  <2> HIDE DEF a, w, b, h, y
  <2>3. Timely(a, w, h /\ hint)
    BY <1>0, TimelyHint, Zenon
  <2>4. SinkGood(t)
    BY <1>1, <2>2, <2>3, GoodIs, Zenon
  <2> QED
    BY <2>1, <2>4, Zenon
<1>9. CASE res = "err" /\ t = s
  BY <1>9, Zenon
<1> QED
  BY <1>4, <1>5, <1>6, <1>7, <1>8, <1>9, Zenon DEF StartGoes

(* What poll_flush sends was held.                                         *)
LEMMA FlushGood ==
  ASSUME NEW s, NEW t, SinkGood(s), InAll(s.wire, s.buf, s.accepted), t.meta = FALSE, NEW res,
         FlushKeeps(s, t, res) \/ FlushEmpty(s, t, res) \/ FlushSends(s, t, res)
  PROVE  SinkGood(t) /\ InAll(t.wire, t.buf, t.accepted)
<1> DEFINE a == s.accepted
           w == s.wire
           b == s.buf
           h == s.lastHint
           x == WireMsg(b, h)
<1>0. /\ Timely(a, w, h) /\ b \in Offered /\ s.meta = FALSE /\ InAll(w, b, a)
      /\ Waiting(a, w) # {} => b # NoMsg
  BY GoodIs, Zenon
<1>1. CASE FlushKeeps(s, t, res)
  <2>1. t.buf = b /\ t.lastHint = h /\ t.accepted = a /\ t.wire = w
    BY <1>1, Zenon DEF FlushKeeps
  <2> QED
    BY <2>1, GoodIs, Zenon
<1>2. CASE FlushEmpty(s, t, res)
  <2>1. t.buf = b /\ t.lastHint = TRUE /\ t.accepted = a /\ t.wire = w /\ b = NoMsg
    BY <1>2, Zenon DEF FlushEmpty
  <2>2. Timely(a, w, TRUE)
    BY <1>0, <2>1, Zenon DEF Timely
  <2> HIDE DEF a, w, b, h
  <2>3. SinkGood(t)
    BY <1>0, <2>1, <2>2, GoodIs, Zenon
  <2> QED
    BY <1>0, <2>1, <2>3, Zenon
<1>3. CASE FlushSends(s, t, res)
  <2>1. Wired(s, b.msg, h) = Append(w, x)
    BY <1>0, Zenon DEF Wired, WireMsg
  <2>2. t.buf = NoMsg /\ t.lastHint = h /\ t.accepted = a /\ t.wire = Append(w, x) /\ b # NoMsg
    BY <1>3, <2>1, Zenon DEF FlushSends
  <2>3. NoMsg \in Offered
    BY Zenon DEF NoMsg, Offered
  <2>4. h \in BOOLEAN /\ (~h \/ Waiting(a, w) = {})
    BY <1>0, Zenon DEF Timely
  <2> HIDE DEF a, w, b, h
  <2>5. /\ Timely(a, Append(w, x), h) /\ InAll(Append(w, x), NoMsg, a)
        /\ ~h \/ Waiting(a, w) = {} => Waiting(a, Append(w, x)) = {}
    BY <1>0, <2>2, <2>4, TimelySend, Zenon
  <2> HIDE DEF x
  <2>6. SinkGood(t)
    BY <2>2, <2>3, <2>4, <2>5, GoodIs, Zenon
  <2> QED
    BY <2>2, <2>5, <2>6, Zenon
<1> QED
  BY <1>1, <1>2, <1>3, Zenon

(* Accounted is about what was handed over, held and accepted.             *)
LEMMA AccountedIs == ASSUME NEW s PROVE Accounted(s) <=> InAll(s.wire, s.buf, s.accepted)
BY Zenon DEF Accounted, Passed, InAll, Rest

(* A step that leaves what the sink holds alone.                           *)
LEMMA KeptGood ==
  ASSUME NEW s, NEW t, SinkGood(s), t.buf = s.buf, t.lastHint = s.lastHint, t.meta = s.meta,
         t.accepted = s.accepted, t.wire = s.wire
  PROVE  SinkGood(t) /\ (InAll(s.wire, s.buf, s.accepted) => InAll(t.wire, t.buf, t.accepted))
BY Zenon DEF SinkGood

(* Of two empty queues neither is longer.                                  *)
LEMMA EmptyLen == Len(<<>>) <= Len(<<>>)
BY SMTT(60)

(* A new sink has accepted nothing.                                        *)
LEMMA NewGood ==
  ASSUME NEW s, s = NewSink(FALSE) PROVE SinkGood(s) /\ InAll(s.wire, s.buf, s.accepted)
<1>1. /\ s.buf = NoMsg /\ s.lastHint = TRUE /\ s.meta = FALSE /\ s.accepted = <<>> /\ s.wire = <<>>
  BY Zenon DEF NewSink
<1>2. NoMsg \in Offered /\ <<>> \in Seq(Offered) /\ <<>> \in Seq(OnWire) /\ Len(<<>>) = 0
  BY DEF NoMsg, Offered
<1>3. Waiting(<<>>, <<>>) = {}
  BY <1>2 DEF Waiting
<1>4. Numbers(<<>>) = <<>>
  BY DEF Numbers
<1>5. InAll(<<>>, NoMsg, <<>>)
  BY <1>4 DEF InAll, Rest
<1>6. s.lastHint \in BOOLEAN /\ Len(s.wire) <= Len(s.accepted)
  BY <1>1, EmptyLen, Zenon
<1>7. Waiting(s.accepted, s.wire) = {} /\ InAll(s.wire, s.buf, s.accepted)
  BY <1>1, <1>3, <1>5, Zenon
<1> QED
  BY <1>1, <1>2, <1>6, <1>7, Zenon DEF SinkGood

(* What the sink accepted is accounted for in every step.                  *)
LEMMA SinkStep == ASSUME Shapes, TaskInv, SinkInv, [Next]_vars PROVE SinkInv'
<1>0. SinkGood(sink) /\ sink.meta = FALSE /\ ~sink.meta
  BY Zenon DEF SinkInv, SinkGood
<1>1. ASSUME SinkKept,
             sender'.at \notin {"failed", "panicked", "dropped"} =>
               sender.at \notin {"failed", "panicked", "dropped"}
      PROVE  SinkInv'
  <2>1. SinkGood(sink') /\ (Accounted(sink) => Accounted(sink'))
    BY <1>0, <1>1, KeptGood, AccountedIs, Zenon DEF SinkKept
  <2>2. SinkGood(sink)' <=> SinkGood(sink')
    BY Zenon
  <2> QED
    BY <1>1, <2>1, <2>2, Zenon DEF SinkInv
<1>2. CASE SinkReady \/ SinkClose
  BY <1>1, <1>2, PollStep, Zenon
<1>3. ASSUME NEW h \in BOOLEAN, SinkSend(h) PROVE SinkInv'
  <2>1. PICK res : SinkStarts(h, res)
    BY <1>0, <1>3, StartStep, Zenon
  <2>2. sender.at = "sending" /\ sink'.meta = FALSE
    BY <1>0, <1>3, StartStep, Zenon
  <2>3. InAll(sink.wire, sink.buf, sink.accepted)
    BY <2>2, AccountedIs, Zenon DEF SinkInv
  <2>4. Len(sink.accepted) + 1 \in Nat \ {0}
    BY <1>0 DEF SinkGood
  <2>5. SinkGood(sink') /\ (res = "ok" => InAll(sink'.wire, sink'.buf, sink'.accepted))
    BY <1>0, <2>1, <2>2, <2>3, <2>4, StartGood, Zenon DEF SinkStarts
  <2>6. SinkGood(sink') /\ (res = "ok" => Accounted(sink'))
    BY <2>5, AccountedIs, Zenon
  <2> QED
    BY <2>1, <2>6, Zenon DEF SinkInv, SinkStarts
<1>4. CASE SinkFlush
  <2>1. PICK res : SinkFlushes(res)
    BY <1>4, FlushStep, Zenon
  <2>2. sender.at = "flushing" /\ sink'.meta = FALSE
    BY <1>0, <1>4, FlushStep, Zenon
  <2>3. InAll(sink.wire, sink.buf, sink.accepted)
    BY <2>2, AccountedIs, Zenon DEF SinkInv
  <2>4. SinkGood(sink') /\ InAll(sink'.wire, sink'.buf, sink'.accepted)
    BY <1>0, <2>1, <2>2, <2>3, FlushGood, Zenon DEF SinkFlushes
  <2>5. SinkGood(sink') /\ Accounted(sink')
    BY <2>4, AccountedIs, Zenon
  <2> QED
    BY <2>5, Zenon DEF SinkInv
<1>5. CASE Aside
  BY <1>1, <1>5, AsideStep, Zenon
<1>6. CASE SinkDrop
  <2>1. sender'.at = "dropped" /\ sink' = NewSink(FALSE)
    BY <1>6, DropStep, Zenon
  <2>2. SinkGood(sink')
    BY <2>1, NewGood, ZenonT(60)
  <2> QED
    BY <2>1, <2>2, Zenon DEF SinkInv
<1>7. CASE SenderSame
  BY <1>7, Zenon DEF SenderSame, SinkInv
<1> QED
  BY <1>2, <1>3, <1>4, <1>5, <1>6, <1>7, Kinds, Zenon

-----------------------------------------------------------------------------
(* The call as a whole.                                                    *)

(* A new call.                                                             *)
LEMMA ClientStart == ASSUME Init PROVE ClientInv /\ PlainInv
<1>1. /\ share = NewShare /\ sink = NewSink(FALSE) /\ closeF = "none" /\ sender = Goes("idle")
      /\ recv = NewRecv /\ reader = Goes("poll") /\ yielded = <<>> /\ late = 0
      /\ outcome = "none" /\ inbox = <<>> /\ sent = 0
  BY Zenon DEF Init, NewStreamingCallSink
<1>2. sender.at = "idle" /\ reader.at = "poll" /\ DOMAIN sender = TaskDom /\ DOMAIN reader = TaskDom
  BY <1>1, TaskFields, Zenon
<1>3. /\ share.close = "pending" /\ ~share.finished /\ DOMAIN share = {"close", "finished"}
      /\ recv.msg = "none" /\ ~recv.done /\ ~recv.finished /\ ~recv.err /\ DOMAIN recv = RecvDom
  BY <1>1, Zenon DEF NewShare, NewRecv, RecvDom
<1>4. sink.batch = "none" /\ sink.buf = NoMsg /\ DOMAIN sink = SinkDom
  BY <1>1, Zenon DEF NewSink, SinkDom
<1>5. Shapes
  BY <1>2, <1>3, <1>4, Zenon DEF Shapes
<1>6. ShareInv
  BY <1>1, <1>2, <1>3, Zenon DEF ShareInv, ReaderAt
<1>7. StreamInv
  <2>1. Held = <<>>
    BY <1>3, Zenon DEF Held
  <2>2. Upto(0) = <<>> /\ Len(<<>>) = 0 /\ <<>> \in Seq(Nat) /\ <<>> \o <<>> \o <<>> = <<>>
    BY DEF Upto
  <2>3. Ordered(<<>>) /\ Chained(<<>>, <<>>, <<>>, 0)
    BY <2>2, Zenon DEF Ordered, Chained
  <2>4. Chain
    BY <1>1, <2>1, <2>3, Zenon DEF Chain
  <2> QED
    BY <1>1, <1>2, <1>3, <2>2, <2>3, <2>4, Zenon DEF StreamInv
<1>8. TaskInv
  BY <1>1, <1>2, <1>4, Zenon DEF TaskInv, Futures, SenderAt, Working
<1>9. LateInv
  BY <1>1, Zenon DEF LateInv
<1>10. SinkInv
  BY <1>1, NewGood, AccountedIs, Zenon DEF SinkInv
<1>11. PlainInv
  BY <1>2, <1>4, Zenon DEF PlainInv
<1> QED
  BY <1>5, <1>6, <1>7, <1>8, <1>9, <1>10, <1>11, Zenon DEF ClientInv

(* Every step of the two halves and of core.                               *)
LEMMA ClientStep == ASSUME ClientInv, [Next]_vars PROVE ClientInv'
<1>0. ~sink.meta /\ sink.wire \in Seq(OnWire)
  BY Zenon DEF ClientInv, SinkInv, SinkGood
<1>1. ShareInv' /\ StreamInv'
  BY ReceiverStep, Zenon DEF ClientInv
<1>2. Shapes'
  BY <1>0, ShapeStep, Zenon DEF ClientInv
<1>3. TaskInv'
  BY <1>0, TaskStep, Zenon DEF ClientInv
<1>4. LateInv'
  BY <1>0, <1>1, LateStep, Zenon DEF ClientInv
<1>5. SinkInv'
  BY SinkStep, Zenon DEF ClientInv
<1> QED
  BY <1>1, <1>2, <1>3, <1>4, <1>5, Zenon DEF ClientInv

(* The sink, the receiver and the call they share keep ClientInv, for any  *)
(* numbers of messages and whether or not the batching is switched         *)
(* (call/client.rs, ShareCall and SinkBase in call/mod.rs).                *)
THEOREM ClientInductive == Spec => []ClientInv
<1>1. Init => ClientInv
  BY ClientStart, Zenon
<1>2. ClientInv /\ [Next]_vars => ClientInv'
  BY ClientStep, Zenon
<1> QED
  BY <1>1, <1>2, PTL DEF Spec

(* A stream that ends without an error has returned every message of the   *)
(* server, in order, and the call succeeded (ResponseStreamImpl::poll).    *)
THEOREM StreamEndsComplete == Spec => []StreamComplete
<1>1. ClientInv => StreamComplete
  <2> SUFFICES ASSUME ClientInv PROVE StreamComplete
    BY Zenon
  <2>1. ShareInv /\ StreamInv
    BY Zenon DEF ClientInv
  <2>2. yielded = [i \in 1..Len(yielded) |-> i]
    BY <2>1, Zenon DEF StreamInv, Ordered, Upto
  <2>3. ASSUME reader.at = "ended", ~recv.err PROVE outcome = "ok" /\ Len(yielded) = sent
    <3>1. CASE duplex
      <4>1. recv.msg = "stale" /\ share.close = "stale"
        BY <2>1, <2>3, <3>1, Zenon DEF StreamInv
      <4>2. outcome = "ok" /\ inbox = <<>> /\ Held = <<>> /\ Chain
        BY <2>1, <2>3, <3>1, <4>1, Zenon DEF StreamInv, Held, Lost
      <4>3. Chained(yielded, <<>>, <<>>, sent)
        BY <4>2, Zenon DEF Chain
      <4>4. Len(yielded) = sent
        BY <2>1, <4>3, ChainAll, Zenon DEF StreamInv
      <4> QED
        BY <4>2, <4>4, Zenon
    <3>2. CASE ~duplex
      BY <2>1, <2>3, <3>2, Zenon DEF StreamInv
    <3> QED
      BY <3>1, <3>2, Zenon
  <2> QED
    BY <2>2, <2>3, Zenon DEF StreamComplete
<1> QED
  BY <1>1, ClientInductive, PTL

(* What start_send accepted is held or was handed over, once and in order, *)
(* no hint of the user is lost, and at most one message follows the end of *)
(* the call (SinkBase, StreamingCallSink).                                 *)
THEOREM AcceptedKept == Spec => []AcceptedAccounted
<1>1. ClientInv => AcceptedAccounted
  <2> SUFFICES ASSUME ClientInv PROVE AcceptedAccounted
    OBVIOUS
  <2>1. SinkInv /\ LateInv /\ SinkGood(sink)
    BY Zenon DEF ClientInv, SinkInv
  <2>2. late <= 1
    BY <2>1 DEF LateInv
  <2>3. HintsKept(sink)
    <3> DEFINE a == sink.accepted
               w == sink.wire
    <3>1. /\ a \in Seq(Offered) /\ w \in Seq(OnWire) /\ Len(w) <= Len(a)
          /\ sink.buf = NoMsg => Waiting(a, w) = {}
      BY <2>1, Zenon DEF SinkGood
    <3>2. HintsKept(sink) <=>
            (sink.buf = NoMsg => \A i \in 1..Len(w) : Urgent(a[i]) => \E j \in i..Len(w) : Urgent(w[j]))
      BY Zenon DEF HintsKept, Urgent
    <3>3. Len(a) \in Nat /\ Len(w) \in Nat
      BY <3>1
    <3> HIDE DEF a, w, Urgent
    <3>4. \A i \in 1..Len(w) : i \in 1..Len(a)
      BY <3>1, <3>3
    <3> QED
      BY <3>1, <3>2, <3>4, Zenon DEF Waiting
  <2> QED
    BY <2>1, <2>2, <2>3, Zenon DEF AcceptedAccounted, SinkInv
<1> QED
  BY <1>1, ClientInductive, PTL

(* Neither half panics as long as the user switches the batching only      *)
(* before the first message: no future is polled after its result and no   *)
(* batch is started over another (SinkBase::start_send, ShareCall).        *)
THEOREM HalvesNeverPanic == ASSUME ~Toggle PROVE Spec => []NoPanic
<1>1. Init => ClientInv /\ PlainInv
  BY ClientStart, Zenon
<1>2. ClientInv /\ PlainInv /\ [Next]_vars => ClientInv' /\ PlainInv'
  <2> SUFFICES ASSUME ClientInv, PlainInv, [Next]_vars PROVE ClientInv' /\ PlainInv'
    BY Zenon
  <2>1. Shapes /\ TaskInv /\ ~sink.meta /\ sink.accepted \in Seq(Offered)
    BY Zenon DEF ClientInv, SinkInv, SinkGood
  <2> QED
    BY <2>1, PlainStep, ClientStep, Zenon
<1>3. ClientInv /\ PlainInv => NoPanic
  BY Zenon DEF ClientInv, ShareInv, PlainInv, NoPanic
<1> QED
  BY <1>1, <1>2, <1>3, PTL DEF Spec
=============================================================================
