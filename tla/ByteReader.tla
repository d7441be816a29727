---------------------------------- MODULE ByteReader ----------------------------------
(***************************************************************************)
(* GrpcByteBufferReader (buf.rs): the reader of a message that core hands  *)
(* over as slices. A byte is known by its position in the message, and a   *)
(* buffer b by the number of its slices and where they end: slice i holds  *)
(* the positions b.end[i - 1] .. b.end[i] - 1.                             *)
(*                                                                         *)
(* The user reads and skips pieces of any size, so that a consume ends     *)
(* inside a slice, at its end, or slices further on; the loop of consume   *)
(* is one step per slice.                                                  *)
(***************************************************************************)
EXTENDS Integers

CONSTANTS
  Buffers,     \* the byte buffers core may hand over
  MaxAmt       \* bound on the size of a piece

(* Core's messages have no empty slice before data.                        *)
WellFormed(b) ==
  /\ b.n \in Nat /\ b.end \in [0..b.n -> Nat] /\ b.end[0] = 0
  /\ \A i, j \in 0..b.n :
       i < j => b.end[i] <= b.end[j] /\ (b.end[i] = b.end[j] => b.end[j] = b.end[b.n])

ASSUME BuffersAssumption == \A b \in Buffers : WellFormed(b)
ASSUME AmtAssumption == MaxAmt \in Nat

VARIABLES
  buffer,      \* the grpc_byte_buffer
  next,        \* core's reader: how many slices it has given out
  slice,       \* the current slice: its first position, and the one after it
  offset,      \* the offset in it that has not been read
  remain,      \* how many bytes are pending
  off,         \* the local offset of consume
  pc           \* idle, in the loop of consume, or in that of read_to_end

vars == <<buffer, next, slice, offset, remain, off, pc>>

Length(b) == b.end[b.n]
SliceLen == slice.hi - slice.lo

(* grpc_byte_buffer_reader_next, or the empty slice when there is none.    *)
NextSlice(b, k) ==
  IF k < b.n THEN [lo |-> b.end[k], hi |-> b.end[k + 1]]
  ELSE [lo |-> b.end[b.n], hi |-> b.end[b.n]]
Taken(b, k) == IF k < b.n THEN k + 1 ELSE k

(* GrpcByteBufferReader::new.                                              *)
Init ==
  /\ buffer \in Buffers
  /\ next = Taken(buffer, 0)
  /\ slice = NextSlice(buffer, 0)
  /\ offset = 0
  /\ remain = Length(buffer)
  /\ off = 0
  /\ pc = "idle"

(* fill_buf and chunk: how many bytes of the slice are left.               *)
FillBuf == SliceLen - offset

(* Mutant: consume does not look at what is left.                          *)
ConsumeAll(amt, at) ==
  /\ remain' = remain - amt
  /\ off' = offset + amt
  /\ pc' = at
  /\ UNCHANGED <<buffer, next, slice, offset>>

(* consume: no more than what is left.                                     *)
Consume(amt, at) ==
  /\ remain' = remain - (IF amt > remain THEN remain ELSE amt)
  /\ off' = offset + (IF amt > remain THEN remain ELSE amt)
  /\ pc' = at
  /\ UNCHANGED <<buffer, next, slice, offset>>

(* Mutant: a slice that was read to its end is kept until the next call.   *)
LoopsPast == off > SliceLen

(* The condition of its loop,                                              *)
Loops == off >= SliceLen /\ off > 0

(* a turn of the loop, which is load_next_slice,                           *)
LoadNext ==
  /\ pc \in {"consume", "toend"} /\ Loops
  /\ off' = off - SliceLen
  /\ slice' = NextSlice(buffer, next) /\ next' = Taken(buffer, next)
  /\ offset' = 0
  /\ UNCHANGED <<buffer, remain, pc>>

(* and the end of consume; read_to_end goes on to the next slice until     *)
(* nothing is left.                                                        *)
ConsumeReturns ==
  /\ pc = "consume" /\ ~Loops
  /\ offset' = off
  /\ pc' = "idle"
  /\ UNCHANGED <<buffer, next, slice, remain, off>>

ToEndConsumed ==
  /\ pc = "toend" /\ ~Loops
  /\ offset' = off
  /\ pc' = IF remain > 0 THEN "fill" ELSE "idle"
  /\ UNCHANGED <<buffer, next, slice, remain, off>>

(* The user: read, consume or advance, and read_to_end.                    *)
Read(n) == pc = "idle" /\ Consume(IF n < FillBuf THEN n ELSE FillBuf, "consume")
Skip(n) == pc = "idle" /\ Consume(n, "consume")
ReadToEnd ==
  /\ pc = "idle"
  /\ pc' = IF remain > 0 THEN "fill" ELSE "idle"
  /\ UNCHANGED <<buffer, next, slice, offset, remain, off>>
ReadToEndFill == pc = "fill" /\ Consume(FillBuf, "toend")

Step == LoadNext \/ ConsumeReturns \/ ToEndConsumed \/ ReadToEndFill
Next == (\E n \in 0..MaxAmt : Read(n) \/ Skip(n)) \/ ReadToEnd \/ Step

Spec == Init /\ [][Next]_vars

-----------------------------------------------------------------------------
(* The position of the next byte in the message.                           *)
Position == Length(buffer) - remain

(* Every variable has its type, and no subtraction of usize goes below 0.  *)
TypeOK ==
  /\ buffer \in Buffers
  /\ next \in 0..buffer.n
  /\ slice \in [lo : 0..Length(buffer), hi : 0..Length(buffer)] /\ slice.lo <= slice.hi
  /\ offset \in 0..SliceLen
  /\ remain \in 0..Length(buffer)
  /\ off \in Nat
  /\ pc \in {"idle", "consume", "fill", "toend"}

(* Whatever was read or skipped before, the bytes fill_buf shows are the   *)
(* next ones of the message, and it shows none only when none is left: a   *)
(* read returns 0 only at the end, and read_to_end does not turn in place. *)
ShowsNextBytes ==
  pc \in {"idle", "fill"} => /\ slice.lo + offset = Position
                             /\ remain > 0 => FillBuf > 0 /\ FillBuf <= remain

(* Every consume and every read_to_end returns, the latter with nothing    *)
(* left over.                                                              *)
CallsReturn == pc \in {"consume", "fill", "toend"} ~> pc = "idle"
=============================================================================
