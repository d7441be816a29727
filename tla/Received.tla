---------------------------------- MODULE Received ----------------------------------
(***************************************************************************)
(* A message on its way in: core puts its byte buffer into the context of  *)
(* the batch that asked for it (call/mod.rs, BatchContext), recv_message   *)
(* takes it out and wraps it in the reader of ByteReader, and the reader   *)
(* owns both the buffer and a reference to the slice it stands in          *)
(* (buf.rs). refs counts the references to each slice of the message: the  *)
(* buffer has one, and so has the reader for its current slice.            *)
(***************************************************************************)
EXTENDS ByteReader

VARIABLES
  ctx,         \* recv_message of the context: waiting, message, null; or gone
  cur,         \* the number of the reader's current slice, 0: the empty one
  refs         \* the references to each slice

recvVars == <<ctx, cur, refs, vars>>

Refs(b, k, n) == [i \in 1..b.n |-> (IF n = 0 THEN 0 ELSE 1) + (IF i = k THEN 1 ELSE 0)]
First(b) == Taken(b, 0)

(* Before recv_message there is no reader: pc is "none".                   *)
ReceivedInit ==
  /\ buffer \in Buffers
  /\ next = 0 /\ slice = [lo |-> 0, hi |-> 0] /\ offset = 0 /\ remain = 0 /\ off = 0
  /\ pc = "none"
  /\ ctx = "waiting" /\ cur = 0 /\ refs = Refs(buffer, 0, 0)

Reading == <<next, slice, offset, remain, off, pc>>

(* The batch is done: with a message, or with none at the end of a stream. *)
RecvDone(some) ==
  /\ ctx = "waiting"
  /\ ctx' = IF some THEN "message" ELSE "null"
  /\ refs' = IF some THEN Refs(buffer, 0, 1) ELSE refs
  /\ UNCHANGED <<buffer, cur, Reading>>

(* recv_message: take_recv_message leaves null, so that the buffer is      *)
(* taken once, and GrpcByteBufferReader::new asks for the first slice.     *)
RecvMessage ==
  /\ ctx = "message"
  /\ ctx' = "null"
  /\ next' = First(buffer) /\ slice' = NextSlice(buffer, 0)
  /\ offset' = 0 /\ remain' = Length(buffer) /\ off' = 0
  /\ pc' = "idle"
  /\ cur' = First(buffer) /\ refs' = Refs(buffer, First(buffer), 1)
  /\ UNCHANGED buffer

(* Drop of the context: a message that was not taken goes with it.         *)
DropCtx ==
  /\ ctx \in {"message", "null"}
  /\ ctx' = "gone"
  /\ refs' = IF ctx = "message" THEN [i \in DOMAIN refs |-> refs[i] - 1] ELSE refs
  /\ UNCHANGED <<buffer, cur, Reading>>

(* Mutant: the slice that was read is not dropped.                         *)
LoadNextSliceKeeps ==
  /\ LoadNext
  /\ cur' = IF next < buffer.n THEN next + 1 ELSE 0
  /\ refs' = [i \in DOMAIN refs |-> refs[i] + (IF i = cur' THEN 1 ELSE 0)]
  /\ UNCHANGED ctx

(* load_next_slice: the reader's reference moves on with it.               *)
LoadNextSlice ==
  /\ LoadNext
  /\ cur' = IF next < buffer.n THEN next + 1 ELSE 0
  /\ refs' = [i \in DOMAIN refs |->
                refs[i] + (IF i = cur' THEN 1 ELSE 0) - (IF i = cur THEN 1 ELSE 0)]
  /\ UNCHANGED ctx

(* Drop of the reader, at any moment that no call of it is running: its    *)
(* slice, and the buffer it was made from.                                 *)
DropReader ==
  /\ pc = "idle"
  /\ pc' = "gone"
  /\ refs' = [i \in DOMAIN refs |-> refs[i] - 1 - (IF i = cur THEN 1 ELSE 0)]
  /\ cur' = 0
  /\ UNCHANGED <<ctx, buffer, next, slice, offset, remain, off>>

(* The calls of the reader are those of ByteReader.                        *)
Calls == (ReadToEnd \/ \E n \in 0..MaxAmt : Read(n) \/ Skip(n)) /\ UNCHANGED <<ctx, cur, refs>>
GoesOn ==
  \/ LoadNextSlice
  \/ (ConsumeReturns \/ ToEndConsumed \/ ReadToEndFill) /\ UNCHANGED <<ctx, cur, refs>>

ReceivedNext ==
  \/ \E some \in BOOLEAN : RecvDone(some)
  \/ RecvMessage \/ DropCtx \/ Calls \/ GoesOn \/ DropReader

-----------------------------------------------------------------------------
(* The slice whose bytes the reader shows is the one it holds a reference  *)
(* to, so that they stay valid (fill_buf, chunk) even when core's buffer   *)
(* was freed; every slice has as many references as holders, so that it is *)
(* freed once, when context and reader are gone.                           *)
SlicesOwned ==
  /\ pc \notin {"none", "gone"} /\ SliceLen > 0 =>
       cur > 0 /\ slice = [lo |-> buffer.end[cur - 1], hi |-> buffer.end[cur]]
  /\ \A i \in DOMAIN refs :
       refs[i] = (IF ctx = "message" \/ pc \notin {"none", "gone"} THEN 1 ELSE 0)
                   + (IF pc \notin {"none", "gone"} /\ i = cur THEN 1 ELSE 0)
=============================================================================
