-------------------------------- MODULE MessageProofs --------------------------------
(***************************************************************************)
(* Proofs about Message: the reader of a received message and what it      *)
(* holds, for every buffer; a message on its way out, for every length and *)
(* any number of clones and batches; and a status, for every code and      *)
(* text.                                                                   *)
(***************************************************************************)
EXTENDS Message, FiniteSetTheorems, TLAPS

-----------------------------------------------------------------------------
(* The reader of a message.                                                *)

(* What holds between the steps: the slice ends where core's reader        *)
(* stands, an empty one is at the end of the message, and inside consume   *)
(* the local offset, which may lie beyond the slice, tells the position.   *)
Inv ==
  /\ TypeOK
  /\ slice.hi = buffer.end[next]
  /\ slice.lo = slice.hi => slice.hi = Length(buffer)
  /\ pc \in {"idle", "fill"} => /\ slice.lo + offset = Position
                                /\ remain > 0 => offset < SliceLen
  /\ pc \in {"consume", "toend"} => slice.lo + off = Position

(* The ends of the slices of a buffer are positions of the message, in     *)
(* order, and only the last slice may be empty.                            *)
LEMMA Ends ==
  ASSUME NEW b \in Buffers
  PROVE  /\ b.n \in Nat /\ b.end[0] = 0 /\ Length(b) \in Nat
         /\ \A k \in 0..b.n : b.end[k] \in 0..Length(b)
         /\ \A k \in 0..b.n : k < b.n => /\ k + 1 \in 0..b.n /\ b.end[k] <= b.end[k + 1]
                                         /\ b.end[k] = b.end[k + 1] => b.end[k + 1] = Length(b)
<1>1. WellFormed(b)
  BY BuffersAssumption, Zenon
<1>2. b.n \in Nat /\ b.end \in [0..b.n -> Nat] /\ b.end[0] = 0
  BY <1>1, Zenon DEF WellFormed
<1>3. Length(b) \in Nat
  BY <1>2 DEF Length
<1>4. \A i, j \in 0..b.n :
        i < j => b.end[i] <= b.end[j] /\ (b.end[i] = b.end[j] => b.end[j] = Length(b))
  BY <1>1, Zenon DEF WellFormed, Length
<1>5. ASSUME NEW k \in 0..b.n PROVE b.end[k] \in 0..Length(b)
  <2>1. CASE k = b.n
    BY <1>3, <2>1 DEF Length
  <2>2. CASE k # b.n
    <3>1. k < b.n /\ b.n \in 0..b.n /\ b.end[k] \in Nat
      BY <1>2, <2>2
    <3>2. b.end[k] <= Length(b)
      BY <1>4, <3>1, Zenon DEF Length
    <3> QED
      BY <1>3, <3>1, <3>2
  <2> QED
    BY <2>1, <2>2, Zenon
<1>6. ASSUME NEW k \in 0..b.n, k < b.n
      PROVE  /\ k + 1 \in 0..b.n /\ b.end[k] <= b.end[k + 1]
             /\ b.end[k] = b.end[k + 1] => b.end[k + 1] = Length(b)
  <2>1. k + 1 \in 0..b.n /\ k < k + 1
    BY <1>2, <1>6
  <2> QED
    BY <1>4, <2>1, Zenon
<1> QED
  BY <1>2, <1>3, <1>5, <1>6, Zenon

(* load_next_slice goes on where the slice before it ended.                *)
LEMMA NextSliceFollows ==
  ASSUME NEW b \in Buffers, NEW k \in 0..b.n
  PROVE  /\ Taken(b, k) \in 0..b.n
         /\ NextSlice(b, k) \in [lo : 0..Length(b), hi : 0..Length(b)]
         /\ NextSlice(b, k).lo = b.end[k] /\ NextSlice(b, k).hi = b.end[Taken(b, k)]
         /\ NextSlice(b, k).lo <= NextSlice(b, k).hi
         /\ NextSlice(b, k).lo = NextSlice(b, k).hi => NextSlice(b, k).hi = Length(b)
<1>1. CASE k < b.n
  BY <1>1, Ends, Zenon DEF Taken, NextSlice, Length
<1>2. CASE k = b.n
  BY <1>2, Ends DEF Taken, NextSlice, Length
<1> QED
  BY <1>1, <1>2, Ends

(* A new reader is at the first byte.                                      *)
LEMMA InitInv == Init => Inv
<1> SUFFICES ASSUME Init PROVE Inv
  BY Zenon
<1>1. buffer \in Buffers /\ 0 \in 0..buffer.n
  BY Ends DEF Init
<1>2. /\ next \in 0..buffer.n /\ slice.lo = 0 /\ slice.hi = buffer.end[next]
      /\ slice \in [lo : 0..Length(buffer), hi : 0..Length(buffer)] /\ slice.lo <= slice.hi
      /\ slice.lo = slice.hi => slice.hi = Length(buffer)
  BY <1>1, Ends, NextSliceFollows, Zenon DEF Init
<1>3. Length(buffer) \in Nat
  BY <1>1, Ends, Zenon
<1> QED
  BY <1>1, <1>2, <1>3 DEF Init, Inv, TypeOK, SliceLen, Position

(* consume of any amount enters its loop with the offset of the position   *)
(* it leaves the reader at.                                                *)
LEMMA ConsumeInv ==
  ASSUME Inv, pc \in {"idle", "fill"}, NEW amt \in Nat, NEW at \in {"consume", "toend"},
         Consume(amt, at)
  PROVE  Inv'
<1>1. buffer \in Buffers /\ Length(buffer) \in Nat
  BY Ends, Zenon DEF Inv, TypeOK
<1>2. PICK a \in 0..remain : remain' = remain - a /\ off' = offset + a
  BY <1>1 DEF Inv, TypeOK, Consume
<1>3. TypeOK'
  BY <1>1, <1>2 DEF Inv, TypeOK, Consume, SliceLen, Length
<1>4. slice.lo + off' = Length(buffer) - remain'
  BY <1>1, <1>2 DEF Inv, TypeOK, Position, SliceLen
<1> QED
  BY <1>3, <1>4, Zenon DEF Inv, Consume, Position, SliceLen, Length

(* A turn of the loop keeps the position.                                  *)
LEMMA LoadNextInv == ASSUME Inv, LoadNext PROVE Inv'
<1>1. buffer \in Buffers /\ next \in 0..buffer.n /\ Length(buffer) \in Nat
  BY Ends, Zenon DEF Inv, TypeOK
<1>2. /\ next' \in 0..buffer.n /\ slice' \in [lo : 0..Length(buffer), hi : 0..Length(buffer)]
      /\ slice'.lo = slice.hi /\ slice'.hi = buffer.end[next'] /\ slice'.lo <= slice'.hi
      /\ slice'.lo = slice'.hi => slice'.hi = Length(buffer)
  BY <1>1, NextSliceFollows, Zenon DEF LoadNext, Inv
<1>3. /\ slice.lo \in 0..Length(buffer) /\ slice.hi \in 0..Length(buffer)
      /\ off \in Nat /\ off >= slice.hi - slice.lo /\ off' = off - (slice.hi - slice.lo)
      /\ slice.lo + off = Length(buffer) - remain /\ remain \in 0..Length(buffer)
  BY Zenon DEF LoadNext, Loops, Inv, TypeOK, SliceLen, Position
<1>4. off' \in Nat /\ slice'.lo + off' = Length(buffer) - remain
  BY <1>1, <1>2, <1>3
<1> QED
  BY <1>1, <1>2, <1>3, <1>4 DEF LoadNext, Inv, TypeOK, SliceLen, Position, Length

(* The loop ends inside a slice with bytes left, or at the end of the      *)
(* message.                                                                *)
LEMMA ReturnInv ==
  ASSUME Inv, pc \in {"consume", "toend"}, ~Loops, offset' = off, pc' \in {"idle", "fill"},
         UNCHANGED <<buffer, next, slice, remain, off>>
  PROVE  Inv'
<1>1. buffer \in Buffers /\ Length(buffer) \in Nat
  BY Ends, Zenon DEF Inv, TypeOK
<1>2. /\ slice.lo \in 0..Length(buffer) /\ slice.hi \in 0..Length(buffer) /\ slice.lo <= slice.hi
      /\ off \in Nat /\ (off < slice.hi - slice.lo \/ off = 0) /\ remain \in 0..Length(buffer)
      /\ slice.lo + off = Length(buffer) - remain
      /\ slice.lo = slice.hi => slice.hi = Length(buffer)
  BY DEF Inv, TypeOK, Loops, SliceLen, Position
<1>3. off \in 0..(slice.hi - slice.lo) /\ (remain > 0 => off < slice.hi - slice.lo)
  BY <1>1, <1>2
<1> QED
  BY <1>1, <1>2, <1>3, Zenon DEF Inv, TypeOK, SliceLen, Position, Length

(* Every step of the reader and of its user keeps the invariant.           *)
LEMMA NextInv == Inv /\ [Next]_vars => Inv'
<1> SUFFICES ASSUME Inv, [Next]_vars PROVE Inv'
  BY Zenon
<1>1. FillBuf \in Nat \/ pc \notin {"idle", "fill"}
  BY Ends DEF Inv, TypeOK, FillBuf, SliceLen
<1>2. ASSUME NEW n \in 0..MaxAmt, Read(n) PROVE Inv'
  <2>1. (IF n < FillBuf THEN n ELSE FillBuf) \in Nat
    BY <1>1, <1>2, AmtAssumption DEF Read
  <2> QED
    BY <1>2, <2>1, ConsumeInv, Zenon DEF Read
<1>3. ASSUME NEW n \in 0..MaxAmt, Skip(n) PROVE Inv'
  BY <1>3, ConsumeInv, AmtAssumption DEF Skip
<1>4. CASE ReadToEnd
  BY <1>4, Zenon DEF ReadToEnd, Inv, TypeOK, SliceLen, Position, Length
<1>5. CASE ReadToEndFill
  BY <1>5, <1>1, ConsumeInv, Zenon DEF ReadToEndFill
<1>6. CASE LoadNext
  BY <1>6, LoadNextInv, Zenon
<1>7. CASE ConsumeReturns
  BY <1>7, ReturnInv, Zenon DEF ConsumeReturns
<1>8. CASE ToEndConsumed
  BY <1>8, ReturnInv, Zenon DEF ToEndConsumed
<1>9. CASE UNCHANGED vars
  BY <1>9, Zenon DEF vars, Inv, TypeOK, SliceLen, Position, Length
<1> QED
  BY <1>2, <1>3, <1>4, <1>5, <1>6, <1>7, <1>8, <1>9, Zenon DEF Next, Step

(* The invariant says what the user of fill_buf relies on.                 *)
LEMMA InvShows == Inv => ShowsNextBytes
<1> SUFFICES ASSUME Inv, pc \in {"idle", "fill"}
             PROVE  slice.lo + offset = Position /\ (remain > 0 => FillBuf > 0 /\ FillBuf <= remain)
  BY Zenon DEF ShowsNextBytes
<1>1. Length(buffer) \in Nat
  BY Ends, Zenon DEF Inv, TypeOK
<1> QED
  BY <1>1 DEF Inv, TypeOK, FillBuf, SliceLen, Position

(* Whatever pieces are read or skipped, GrpcByteBufferReader shows the     *)
(* next bytes of the message and shows none only at its end; no offset     *)
(* leaves its slice and no subtraction of its counters goes below 0.       *)
THEOREM ReaderCorrect == Spec => []ShowsNextBytes
<1>1. Init => Inv
  BY InitInv, Zenon
<1>2. Inv /\ [Next]_vars => Inv'
  BY NextInv, Zenon
<1>3. Inv => ShowsNextBytes
  BY InvShows, Zenon
<1> QED
  BY <1>1, <1>2, <1>3, PTL DEF Spec

(* The counters of the reader keep their types and ranges.                 *)
THEOREM ReaderTyped == Spec => []TypeOK
<1>1. Inv => TypeOK
  BY Zenon DEF Inv
<1> QED
  BY <1>1, InitInv, NextInv, PTL DEF Spec

-----------------------------------------------------------------------------
(* The references of a received message: while a reader exists it          *)
(* satisfies the invariant above, and it holds the slice it shows.         *)

Reader == pc \notin {"none", "gone"}
Count(i) == (IF ctx = "message" \/ Reader THEN 1 ELSE 0)
              + (IF Reader /\ i = cur THEN 1 ELSE 0)

(* The reader is there or holds nothing, it appears when the message has   *)
(* left the context, a current slice is the one its number says, and a     *)
(* slice without a number is empty.                                        *)
ReceivedInv ==
  /\ buffer \in Buffers
  /\ ctx \in {"waiting", "message", "null", "gone"}
  /\ Reader => Inv
  /\ ~Reader => cur = 0
  /\ ctx \in {"waiting", "message"} => pc = "none"
  /\ cur \in 0..buffer.n
  /\ Reader => slice = IF cur = 0 THEN [lo |-> Length(buffer), hi |-> Length(buffer)]
                       ELSE [lo |-> buffer.end[cur - 1], hi |-> buffer.end[cur]]
  /\ refs = [i \in 1..buffer.n |-> Count(i)]

(* Before the batch is done nobody holds a slice.                          *)
LEMMA ReceivedInitial == ReceivedInit => ReceivedInv
<1> SUFFICES ASSUME ReceivedInit PROVE ReceivedInv
  OBVIOUS
<1>1. buffer \in Buffers /\ 0 \in 0..buffer.n
  BY Ends DEF ReceivedInit
<1>2. refs = [i \in 1..buffer.n |-> Count(i)]
  BY <1>1, Ends DEF ReceivedInit, Refs, Count, Reader
<1> QED
  BY <1>1, <1>2, Zenon DEF ReceivedInit, ReceivedInv, Reader

(* The message arrives in the context, or none does.                       *)
LEMMA RecvDoneKeeps ==
  ASSUME ReceivedInv, NEW some \in BOOLEAN, RecvDone(some) PROVE ReceivedInv'
<1>1. buffer.n \in Nat
  BY Ends, Zenon DEF ReceivedInv
<1>2. pc = "none" /\ pc' = "none" /\ cur = 0 /\ cur' = 0 /\ buffer' = buffer /\ ctx = "waiting"
  BY Zenon DEF ReceivedInv, RecvDone, Reading, Reader
<1>3. refs' = [i \in 1..buffer.n |-> Count(i)']
  <2>1. CASE some
    BY <2>1, <1>1, <1>2 DEF RecvDone, Refs, Count, Reader
  <2>2. CASE ~some
    BY <2>2, <1>1, <1>2, Zenon DEF RecvDone, Count, Reader, ReceivedInv
  <2> QED
    BY <2>1, <2>2, Zenon
<1>4. ctx' \in {"message", "null"}
  BY Zenon DEF RecvDone
<1> QED
  BY <1>1, <1>2, <1>3, <1>4, Zenon DEF ReceivedInv, Reader

(* recv_message makes the reader of a buffer that the context gives up:    *)
(* it holds the buffer and the first slice.                                *)
LEMMA RecvMessageKeeps == ASSUME ReceivedInv, RecvMessage PROVE ReceivedInv'
<1>1. buffer \in Buffers /\ buffer.n \in Nat /\ buffer' = buffer
  BY Ends, Zenon DEF ReceivedInv, RecvMessage
<1>2. Inv'
  <2>1. /\ next' \in 0..buffer.n /\ slice'.lo = 0 /\ slice'.hi = buffer.end[next']
        /\ slice' \in [lo : 0..Length(buffer), hi : 0..Length(buffer)]
        /\ slice'.lo <= slice'.hi
        /\ slice'.lo = slice'.hi => slice'.hi = Length(buffer)
    BY <1>1, Ends, NextSliceFollows DEF RecvMessage, First
  <2>2. Length(buffer) \in Nat
    BY <1>1, Ends, Zenon
  <2> QED
    BY <1>1, <2>1, <2>2 DEF RecvMessage, Inv, TypeOK, SliceLen, Position, Length
<1>3. /\ cur' \in 0..buffer.n
      /\ slice' = IF cur' = 0 THEN [lo |-> Length(buffer), hi |-> Length(buffer)]
                  ELSE [lo |-> buffer.end[cur' - 1], hi |-> buffer.end[cur']]
  BY <1>1 DEF RecvMessage, First, Taken, NextSlice, Length
<1>4. refs' = [i \in 1..buffer.n |-> Count(i)']
  BY <1>1, <1>3, Zenon DEF RecvMessage, Refs, Count, Reader
<1>5. Reader' /\ ctx' = "null"
  BY Zenon DEF RecvMessage, Reader
<1> QED
  BY <1>1, <1>2, <1>3, <1>4, <1>5, Zenon DEF ReceivedInv, Length

(* A context that is dropped with its message frees the buffer, which no   *)
(* reader has; after recv_message it frees nothing.                        *)
LEMMA DropCtxKeeps == ASSUME ReceivedInv, DropCtx PROVE ReceivedInv'
<1>1. /\ UNCHANGED <<buffer, cur, next, slice, offset, remain, off, pc>> /\ ctx' = "gone"
      /\ buffer.n \in Nat
  BY Ends, Zenon DEF DropCtx, Reading, ReceivedInv
<1>2. Reader' = Reader /\ (Reader => Inv')
  BY <1>1, Zenon DEF ReceivedInv, Reader, Inv, TypeOK, SliceLen, Position, Length
<1>3. refs' = [i \in 1..buffer.n |-> Count(i)']
  <2>1. CASE ctx = "message"
    BY <2>1, <1>1 DEF DropCtx, Count, Reader, ReceivedInv
  <2>2. CASE ctx # "message"
    BY <2>2, <1>1, Zenon DEF DropCtx, Count, Reader, ReceivedInv
  <2> QED
    BY <2>1, <2>2, Zenon
<1> QED
  BY <1>1, <1>2, <1>3, Zenon DEF ReceivedInv, Length, Reader

(* load_next_slice takes a reference to the next slice and drops the one   *)
(* to the slice before it.                                                 *)
LEMMA LoadNextSliceHolds == ASSUME ReceivedInv, LoadNextSlice PROVE ReceivedInv'
<1>1. /\ Reader /\ Reader' /\ buffer \in Buffers /\ buffer.n \in Nat
      /\ ctx' = ctx /\ buffer' = buffer /\ ctx \notin {"waiting", "message"}
  BY Ends, Zenon DEF LoadNextSlice, LoadNext, Reader, ReceivedInv
<1>2. Inv'
  BY <1>1, LoadNextInv, Zenon DEF LoadNextSlice, ReceivedInv
<1>3. next \in 0..buffer.n
  BY <1>1, Zenon DEF ReceivedInv, Inv, TypeOK
<1>4. /\ cur' \in 0..buffer.n
      /\ slice' = IF cur' = 0 THEN [lo |-> Length(buffer), hi |-> Length(buffer)]
                  ELSE [lo |-> buffer.end[cur' - 1], hi |-> buffer.end[cur']]
  BY <1>1, <1>3 DEF LoadNextSlice, LoadNext, NextSlice, Length
<1>5. refs' = [i \in 1..buffer.n |-> Count(i)']
  BY <1>1, <1>4 DEF LoadNextSlice, Count, ReceivedInv
<1> QED
  BY <1>1, <1>2, <1>4, <1>5, Zenon DEF ReceivedInv, Length

(* Drop of the reader gives back its slice and the buffer.                 *)
LEMMA DropReaderKeeps == ASSUME ReceivedInv, DropReader PROVE ReceivedInv'
<1>1. /\ Reader /\ ~Reader' /\ cur' = 0 /\ buffer' = buffer /\ buffer.n \in Nat
      /\ ctx' = ctx /\ ctx \notin {"waiting", "message"}
  BY Ends, Zenon DEF DropReader, Reader, ReceivedInv
<1>2. refs' = [i \in 1..buffer.n |-> Count(i)']
  BY <1>1 DEF DropReader, Count, ReceivedInv
<1> QED
  BY <1>1, <1>2 DEF ReceivedInv

(* The other steps of the reader move within the slice it holds.           *)
LEMMA WithinSlice ==
  ASSUME ReceivedInv, Reader, Reader', Inv', UNCHANGED <<ctx, cur, refs, buffer, slice>>
  PROVE  ReceivedInv'
<1>1. refs' = [i \in 1..buffer'.n |-> Count(i)']
  BY Zenon DEF ReceivedInv, Count
<1>2. ctx' \notin {"waiting", "message"}
  BY Zenon DEF ReceivedInv, Reader
<1> QED
  BY <1>1, <1>2, Zenon DEF ReceivedInv, Length

(* So do the calls of the user,                                            *)
LEMMA CallsKeep == ASSUME ReceivedInv, Calls PROVE ReceivedInv'
<1>1. Reader /\ Reader' /\ UNCHANGED <<ctx, cur, refs, buffer, slice>>
  BY Zenon DEF Calls, ReadToEnd, Read, Skip, Consume, Reader
<1>2. Next
  BY Zenon DEF Calls, Next
<1> QED
  BY <1>1, <1>2, WithinSlice, NextInv, Zenon DEF ReceivedInv

(* and what goes on in them.                                               *)
LEMMA GoesOnKeeps == ASSUME ReceivedInv, GoesOn PROVE ReceivedInv'
<1>1. CASE LoadNextSlice
  BY <1>1, LoadNextSliceHolds, Zenon
<1>2. CASE (ConsumeReturns \/ ToEndConsumed \/ ReadToEndFill) /\ UNCHANGED <<ctx, cur, refs>>
  <2>1. Reader /\ Reader' /\ UNCHANGED <<ctx, cur, refs, buffer, slice>>
    BY <1>2, Zenon DEF ConsumeReturns, ToEndConsumed, ReadToEndFill, Consume, Reader
  <2>2. Next
    BY <1>2, Zenon DEF Next, Step
  <2> QED
    BY <2>1, <2>2, WithinSlice, NextInv DEF ReceivedInv
<1> QED
  BY <1>1, <1>2, Zenon DEF GoesOn

(* Every step keeps the invariant.                                         *)
LEMMA ReceivedStep == ReceivedInv /\ [ReceivedNext]_recvVars => ReceivedInv'
<1> SUFFICES ASSUME ReceivedInv, [ReceivedNext]_recvVars PROVE ReceivedInv'
  OBVIOUS
<1>1. CASE UNCHANGED recvVars
  BY <1>1, Zenon DEF recvVars, vars, ReceivedInv, Reader, Count, Inv, TypeOK, SliceLen, Position,
     Length
<1> QED
  BY <1>1, RecvDoneKeeps, RecvMessageKeeps, DropCtxKeeps, CallsKeep, GoesOnKeeps,
     DropReaderKeeps, Zenon DEF ReceivedNext

(* The invariant gives the references the slices are promised.             *)
LEMMA InvOwns == ReceivedInv => SlicesOwned
<1> SUFFICES ASSUME ReceivedInv PROVE SlicesOwned
  BY Zenon
<1>1. Reader /\ SliceLen > 0 =>
        cur > 0 /\ slice = [lo |-> buffer.end[cur - 1], hi |-> buffer.end[cur]]
  <2>1. Length(buffer) \in Nat /\ buffer.n \in Nat
    BY Ends, Zenon DEF ReceivedInv
  <2> QED
    BY <2>1 DEF ReceivedInv, SliceLen
<1>2. \A i \in DOMAIN refs : refs[i] = Count(i)
  BY Zenon DEF ReceivedInv
<1> QED
  BY <1>1, <1>2, Zenon DEF SlicesOwned, Reader, Count

-----------------------------------------------------------------------------
(* A message on its way out.                                               *)

Block == [refs : Int, holds : Nat]
Holders(b) == {k \in held : k.slice.at = b}
Mine(b) == IF own.at = b THEN 1 ELSE 0

(* Slices refer to blocks there are, the ids tell what is held apart, and  *)
(* a block counts its holders.                                             *)
SliceInv ==
  /\ heap \in Seq(Block) /\ made \in Nat
  /\ own.at \in -1..Len(heap)
  /\ IsFiniteSet(held)
  /\ \A k \in held : k.id \in 1..made /\ k.slice.at \in -1..Len(heap)
  /\ InFlightIntact

(* Nothing is held yet.                                                    *)
LEMMA SliceStart == SlicesInit => SliceInv
<1> SUFFICES ASSUME SlicesInit PROVE SliceInv
  OBVIOUS
<1>1. heap = <<>> /\ held = {} /\ made = 0 /\ own.at = 0
  BY Zenon DEF SlicesInit, EmptySlice, Inline
<1>2. IsFiniteSet(held)
  BY <1>1, FS_EmptySet, Zenon
<1> QED
  BY <1>1, <1>2 DEF SliceInv, InFlightIntact

(* grpc_slice_ref adds a reference to the block of the slice, if it is in  *)
(* one.                                                                    *)
LEMMA RefAdds ==
  ASSUME NEW h \in Seq(Block), NEW s, s.at \in -1..Len(h)
  PROVE  /\ Ref(h, s) \in Seq(Block) /\ Len(Ref(h, s)) = Len(h)
         /\ \A b \in DOMAIN h : /\ Ref(h, s)[b].holds = h[b].holds
                                /\ Ref(h, s)[b].refs = h[b].refs + (IF s.at = b THEN 1 ELSE 0)
<1>1. CASE InBlock(s)
  <2> DEFINE a == s.at
             e == [h[a] EXCEPT !.refs = @ + 1]
  <2>1. a \in 1..Len(h) /\ h[a] \in Block
    BY <1>1 DEF InBlock
  <2>2. e \in Block /\ e.holds = h[a].holds /\ e.refs = h[a].refs + 1
    <3>1. ASSUME NEW x \in Block, NEW v \in Int
          PROVE  LET y == [x EXCEPT !.refs = v] IN y \in Block /\ y.holds = x.holds /\ y.refs = v
      BY Zenon DEF Block
    <3>2. h[a].refs + 1 \in Int
      BY <2>1 DEF Block
    <3> QED
      BY <2>1, <3>1, <3>2, Zenon
  <2>3. Ref(h, s) = [h EXCEPT ![a] = e]
    BY <1>1, Zenon DEF Ref
  <2> HIDE DEF e, a
  <2>4. Ref(h, s) \in Seq(Block) /\ Len(Ref(h, s)) = Len(h)
        /\ \A b \in 1..Len(h) : Ref(h, s)[b] = IF b = a THEN e ELSE h[b]
    BY <2>1, <2>2, <2>3, SMT
  <2>5. \A b \in DOMAIN h : b \in 1..Len(h) /\ h[b] \in Block
    OBVIOUS
  <2>6. ASSUME NEW b \in DOMAIN h
        PROVE  /\ Ref(h, s)[b].holds = h[b].holds
               /\ Ref(h, s)[b].refs = h[b].refs + (IF s.at = b THEN 1 ELSE 0)
    <3>1. CASE b = a
      BY <2>2, <2>4, <2>5, <3>1, Zenon DEF a
    <3>2. CASE b # a
      <4>1. h[b].refs \in Int /\ s.at # b /\ Ref(h, s)[b] = h[b]
        BY <2>4, <2>5, <3>2, Zenon DEF a, Block
      <4> QED
        BY <4>1
    <3> QED
      BY <3>1, <3>2, Zenon
  <2> QED
    BY <2>4, <2>6, Zenon
<1>2. CASE ~InBlock(s)
  <2>1. Ref(h, s) = h /\ \A b \in DOMAIN h : s.at # b /\ h[b] \in Block
    BY <1>2 DEF Ref, InBlock
  <2> QED
    BY <2>1 DEF Block
<1> QED
  BY <1>1, <1>2, Zenon

(* grpc_slice_unref takes it away.                                         *)
LEMMA UnrefTakes ==
  ASSUME NEW h \in Seq(Block), NEW s, s.at \in -1..Len(h)
  PROVE  /\ Unref(h, s) \in Seq(Block) /\ Len(Unref(h, s)) = Len(h)
         /\ \A b \in DOMAIN h : /\ Unref(h, s)[b].holds = h[b].holds
                                /\ Unref(h, s)[b].refs = h[b].refs - (IF s.at = b THEN 1 ELSE 0)
<1>1. CASE InBlock(s)
  <2> DEFINE a == s.at
             e == [h[a] EXCEPT !.refs = @ - 1]
  <2>1. a \in 1..Len(h) /\ h[a] \in Block
    BY <1>1 DEF InBlock
  <2>2. e \in Block /\ e.holds = h[a].holds /\ e.refs = h[a].refs - 1
    <3>1. ASSUME NEW x \in Block, NEW v \in Int
          PROVE  LET y == [x EXCEPT !.refs = v] IN y \in Block /\ y.holds = x.holds /\ y.refs = v
      BY Zenon DEF Block
    <3>2. h[a].refs - 1 \in Int
      BY <2>1 DEF Block
    <3> QED
      BY <2>1, <3>1, <3>2, Zenon
  <2>3. Unref(h, s) = [h EXCEPT ![a] = e]
    BY <1>1, Zenon DEF Unref
  <2> HIDE DEF e, a
  <2>4. Unref(h, s) \in Seq(Block) /\ Len(Unref(h, s)) = Len(h)
        /\ \A b \in 1..Len(h) : Unref(h, s)[b] = IF b = a THEN e ELSE h[b]
    BY <2>1, <2>2, <2>3, SMT
  <2>5. \A b \in DOMAIN h : b \in 1..Len(h) /\ h[b] \in Block
    OBVIOUS
  <2>6. ASSUME NEW b \in DOMAIN h
        PROVE  /\ Unref(h, s)[b].holds = h[b].holds
               /\ Unref(h, s)[b].refs = h[b].refs - (IF s.at = b THEN 1 ELSE 0)
    <3>1. CASE b = a
      BY <2>2, <2>4, <2>5, <3>1, Zenon DEF a
    <3>2. CASE b # a
      <4>1. h[b].refs \in Int /\ s.at # b /\ Unref(h, s)[b] = h[b]
        BY <2>4, <2>5, <3>2 DEF a, Block
      <4> QED
        BY <4>1
    <3> QED
      BY <3>1, <3>2, Zenon
  <2> QED
    BY <2>4, <2>6, Zenon
<1>2. CASE ~InBlock(s)
  <2>1. Unref(h, s) = h /\ \A b \in DOMAIN h : s.at # b /\ h[b] \in Block
    BY <1>2 DEF Unref, InBlock
  <2> QED
    BY <2>1 DEF Block
<1> QED
  BY <1>1, <1>2, Zenon

(* Bytes are put into a slice: into itself, or into a new block whose only *)
(* reference it is.                                                        *)
Fresh(h, r) ==
  \/ r.heap = h /\ r.slice.at \in {-1, 0}
  \/ /\ r.slice.at = Len(h) + 1
     /\ \E m \in Nat : r.heap = Append(h, [refs |-> 1, holds |-> m])

(* So do realloc and each of the conversions.                              *)
LEMMA CopiedFresh == ASSUME NEW h, NEW n, NEW m \in Nat PROVE Fresh(h, Copied(h, n, m))
<1>1. Fresh(h, Inlined(h, n, m))
  BY Zenon DEF Fresh, Inlined, Inline
<1>2. Fresh(h, Allocated(h, n, m))
  BY Zenon DEF Fresh, Allocated
<1> QED
  BY <1>1, <1>2, Zenon DEF Copied

(* The same of From.                                                       *)
LEMMA ConvertedFresh ==
  ASSUME NEW h, NEW n, NEW m \in Nat, NEW from \in {"vec", "static", "copy"}
  PROVE  Fresh(h, Converted(from, h, n, m))
<1>1. CASE from = "vec"
  <2>1. Fresh(h, [heap |-> h, slice |-> EmptySlice])
    BY Zenon DEF Fresh, EmptySlice, Inline
  <2>2. Fresh(h, Allocated(h, n, m))
    BY Zenon DEF Fresh, Allocated
  <2> QED
    BY <1>1, <2>1, <2>2, Zenon DEF Converted
<1>2. CASE from = "static"
  BY <1>2, Zenon DEF Converted, Fresh, Static
<1>3. CASE from = "copy"
  BY <1>3, CopiedFresh, Zenon DEF Converted
<1> QED
  BY <1>1, <1>2, <1>3, Zenon

(* A new slice takes the place of the old one, whose reference goes; a     *)
(* block that others hold is not written to.                               *)
LEMMA Replaces ==
  ASSUME SliceInv, NEW r, Fresh(Unref(heap, own), r), heap' = r.heap, own' = r.slice,
         UNCHANGED held, made' = made + 1
  PROVE  SliceInv'
<1> DEFINE h == Unref(heap, own)
<1>1. /\ h \in Seq(Block) /\ Len(h) = Len(heap) /\ Len(heap) \in Nat
      /\ \A b \in DOMAIN heap : h[b].holds = heap[b].holds /\ h[b].refs = heap[b].refs - Mine(b)
  BY UnrefTakes DEF SliceInv, Mine
<1>2. Fresh(h, r)
  BY Zenon
<1> HIDE DEF h
<1>3. /\ heap' \in Seq(Block) /\ Len(heap') \in Nat /\ Len(heap') >= Len(heap)
      /\ own'.at \in -1..Len(heap')
      /\ \A b \in DOMAIN heap : b \in DOMAIN heap' /\ heap'[b] = h[b] /\ own'.at # b
      /\ \A b \in DOMAIN heap' : b \in DOMAIN heap \/ (b = Len(heap) + 1 /\ own'.at = b /\ heap'[b].refs = 1)
  <2>1. CASE r.heap = h /\ r.slice.at \in {-1, 0}
    BY <1>1, <2>1
  <2>2. CASE r.slice.at = Len(h) + 1 /\ \E m \in Nat : r.heap = Append(h, [refs |-> 1, holds |-> m])
    <3>1. PICK m \in Nat : r.heap = Append(h, [refs |-> 1, holds |-> m])
      BY <2>2, Zenon
    <3> DEFINE e == [refs |-> 1, holds |-> m]
    <3>2. e \in Block /\ e.refs = 1
      BY DEF Block
    <3>3. heap' = Append(h, e) /\ own'.at = Len(h) + 1
      BY <2>2, <3>1, Zenon
    <3> HIDE DEF e
    <3> QED
      BY <1>1, <3>2, <3>3
  <2> QED
    BY <1>2, <2>1, <2>2, Zenon DEF Fresh
<1>4. \A k \in held : k.slice.at \in -1..Len(heap) /\ k.id \in 1..made
  BY Zenon DEF SliceInv
<1>5. \A k \in held' : Bytes(k.slice)' = k.bytes
  <2> SUFFICES ASSUME NEW k \in held PROVE Bytes(k.slice)' = k.bytes
    BY Zenon
  <2>1. CASE InBlock(k.slice)
    <3>1. k.slice.at \in DOMAIN heap
      BY <1>4, <2>1 DEF InBlock, SliceInv
    <3> QED
      BY <1>1, <1>3, <2>1, <3>1, SMTT(60) DEF Bytes, SliceInv, InFlightIntact, InBlock
  <2>2. CASE ~InBlock(k.slice)
    BY <2>2, Zenon DEF Bytes, SliceInv, InFlightIntact, InBlock
  <2> QED
    BY <2>1, <2>2, Zenon
<1>6. \A b \in DOMAIN heap' : heap'[b].refs = Cardinality(Holders(b)) + (IF own'.at = b THEN 1 ELSE 0)
  <2> SUFFICES ASSUME NEW b \in DOMAIN heap'
               PROVE  heap'[b].refs = Cardinality(Holders(b)) + (IF own'.at = b THEN 1 ELSE 0)
    BY Zenon
  <2>0. IsFiniteSet(Holders(b)) /\ Cardinality(Holders(b)) \in Nat
    BY FS_Subset, FS_CardinalityType, Zenon DEF SliceInv, Holders
  <2>1. CASE b \in DOMAIN heap
    <3>1. heap[b].refs = Cardinality(Holders(b)) + Mine(b)
      BY <2>1, Zenon DEF SliceInv, InFlightIntact, Holders, Mine
    <3> QED
      BY <1>1, <1>3, <2>0, <2>1, <3>1, SMTT(60) DEF Mine
  <2>2. CASE b = Len(heap) + 1 /\ own'.at = b /\ heap'[b].refs = 1
    <3>1. Holders(b) = {}
      BY <1>1, <1>4, <2>2 DEF Holders
    <3>2. Cardinality(Holders(b)) = 0
      BY <3>1, FS_EmptySet, Zenon
    <3> QED
      BY <2>2, <3>2
  <2> QED
    BY <1>3, <2>1, <2>2, Zenon
<1>7. InFlightIntact'
  BY <1>5, <1>6, Zenon DEF InFlightIntact, Holders
<1> QED
  BY <1>3, <1>4, <1>7 DEF SliceInv

(* A reference more: a clone, or the byte buffer of a batch, which gets    *)
(* the sink's own when the sink gives its slice up.                        *)
LEMMA Keeps ==
  ASSUME SliceInv, NEW kind, held' = held \cup {Kept(kind)}, made' = made + 1,
         heap' \in Seq(Block), Len(heap') = Len(heap), own'.at \in -1..Len(heap),
         \A b \in DOMAIN heap : /\ heap'[b].holds = heap[b].holds
                                /\ heap'[b].refs = heap[b].refs + Mine(b) + Mine(b)' - Mine(b)
  PROVE  SliceInv'
<1>0. PICK k : k = Kept(kind)
  BY Zenon
<1>1. k.id = made + 1 /\ k.slice = own /\ k.bytes = Bytes(own) /\ held' = held \cup {k}
  BY <1>0, Zenon DEF Kept
<1>2. k \notin held /\ IsFiniteSet(held) /\ made \in Nat /\ Len(heap) \in Nat
  BY <1>1 DEF SliceInv
<1>3. DOMAIN heap' = DOMAIN heap /\ DOMAIN heap = 1..Len(heap)
  BY DEF SliceInv
<1>4. IsFiniteSet(held')
  BY <1>1, <1>2, FS_AddElement
<1>5. \A x \in held' : x.id \in 1..made' /\ x.slice.at \in -1..Len(heap')
  BY <1>1, <1>2, SMTT(60) DEF SliceInv
<1>6. ASSUME NEW s, s.at \in -1..Len(heap) PROVE Bytes(s)' = Bytes(s)
  <2>1. CASE InBlock(s)
    BY <1>2, <1>3, <1>6, <2>1, SMTT(60) DEF Bytes, InBlock
  <2>2. CASE ~InBlock(s)
    BY <2>2, Zenon DEF Bytes, InBlock
  <2> QED
    BY <2>1, <2>2, Zenon
<1>7. \A x \in held' : Bytes(x.slice)' = x.bytes
  <2>1. ASSUME NEW x \in held PROVE Bytes(x.slice)' = x.bytes
    <3>1. Bytes(x.slice) = x.bytes /\ x.slice.at \in -1..Len(heap)
      BY Zenon DEF SliceInv, InFlightIntact
    <3> QED
      BY <1>6, <3>1, Zenon
  <2>2. Bytes(k.slice)' = k.bytes
    BY <1>1, <1>6, Zenon DEF SliceInv
  <2> QED
    BY <1>1, <2>1, <2>2, Zenon
<1>8. ASSUME NEW b \in DOMAIN heap'
      PROVE  heap'[b].refs = Cardinality({x \in held' : x.slice.at = b}) + (IF own'.at = b THEN 1 ELSE 0)
  <2> DEFINE H == {x \in held' : x.slice.at = b}
  <2>0. IsFiniteSet(Holders(b)) /\ Cardinality(Holders(b)) \in Nat /\ k \notin Holders(b)
    BY <1>2, FS_Subset, FS_CardinalityType, Zenon DEF Holders
  <2>1. heap[b].refs = Cardinality(Holders(b)) + Mine(b)
    BY <1>3, SMTT(60) DEF SliceInv, InFlightIntact, Holders, Mine
  <2>2. Cardinality(H) = Cardinality(Holders(b)) + Mine(b)
    <3>1. CASE own.at = b
      <4>1. H = Holders(b) \cup {k}
        BY <1>1, <3>1, Zenon DEF Holders
      <4>2. Cardinality(Holders(b) \cup {k}) = Cardinality(Holders(b)) + 1
        BY <2>0, FS_AddElement, Zenon
      <4> QED
        BY <3>1, <4>1, <4>2, Zenon DEF Mine
    <3>2. CASE own.at # b
      <4>1. H = Holders(b)
        BY <1>1, <3>2, Zenon DEF Holders
      <4>2. Mine(b) = 0 /\ Cardinality(H) = Cardinality(Holders(b))
        BY <3>2, <4>1, ZenonT(60) DEF Mine
      <4> HIDE DEF H
      <4> QED
        BY <2>0, <4>2
    <3> QED
      BY <3>1, <3>2, Zenon
  <2>3. heap'[b].refs = heap[b].refs + Mine(b) + Mine(b)' - Mine(b)
    BY <1>3, Zenon
  <2>4. Mine(b) \in {0, 1} /\ Mine(b)' = IF own'.at = b THEN 1 ELSE 0
    BY Zenon DEF Mine
  <2> HIDE DEF H
  <2>5. heap'[b].refs = Cardinality(H) + (IF own'.at = b THEN 1 ELSE 0)
    BY <2>0, <2>1, <2>2, <2>3, <2>4
  <2> QED
    BY <2>5, Zenon DEF H
<1>9. InFlightIntact'
  BY <1>7, <1>8, Zenon DEF InFlightIntact
<1> QED
  BY <1>2, <1>4, <1>5, <1>9 DEF SliceInv

(* One reference less, of what is held or of the slice of the sink.        *)
LEMMA Releases ==
  ASSUME SliceInv, made' = made,
         \/ DropOwn
         \/ \E k \in held : DropHeld(k)
  PROVE  SliceInv'
<1>1. Len(heap) \in Nat /\ made \in Nat /\ DOMAIN heap = 1..Len(heap) /\ heap \in Seq(Block)
      /\ own.at \in -1..Len(heap) /\ IsFiniteSet(held)
  BY DEF SliceInv
<1>2. PICK s : s.at \in -1..Len(heap) /\ heap' = Unref(heap, s)
  BY Zenon DEF DropOwn, DropHeld, SliceInv
<1>3. /\ heap' \in Seq(Block) /\ Len(heap') = Len(heap) /\ DOMAIN heap' = DOMAIN heap
      /\ \A b \in DOMAIN heap : heap'[b].holds = heap[b].holds
  BY <1>1, <1>2, UnrefTakes, SMTT(60)
<1>4. held' \subseteq held
  BY Zenon DEF DropOwn, DropHeld
<1>5. IsFiniteSet(held')
  BY <1>1, <1>4, FS_Subset, Zenon
<1>6. \A x \in held' : x.id \in 1..made' /\ x.slice.at \in -1..Len(heap')
  BY <1>3, <1>4, Zenon DEF SliceInv
<1>7. \A x \in held' : Bytes(x.slice)' = x.bytes
  <2> SUFFICES ASSUME NEW x \in held PROVE Bytes(x.slice)' = x.bytes
    BY <1>4, Zenon
  <2>1. Bytes(x.slice) = x.bytes /\ x.slice.at \in -1..Len(heap)
    BY Zenon DEF SliceInv, InFlightIntact
  <2>2. CASE InBlock(x.slice)
    BY <1>1, <1>3, <2>1, <2>2, SMTT(60) DEF Bytes, InBlock
  <2>3. CASE ~InBlock(x.slice)
    BY <2>1, <2>3, Zenon DEF Bytes, InBlock
  <2> QED
    BY <2>2, <2>3, Zenon
<1>8. ASSUME NEW b \in DOMAIN heap
      PROVE  /\ IsFiniteSet(Holders(b)) /\ Cardinality(Holders(b)) \in Nat
             /\ heap[b].refs = Cardinality(Holders(b)) + Mine(b)
  <2>1. IsFiniteSet(Holders(b)) /\ Cardinality(Holders(b)) \in Nat
    BY <1>1, FS_Subset, FS_CardinalityType, Zenon DEF Holders
  <2> QED
    BY <2>1, Zenon DEF SliceInv, InFlightIntact, Holders, Mine
<1>9. own'.at \in -1..Len(heap) /\ \A b \in DOMAIN heap' :
        heap'[b].refs = Cardinality({x \in held' : x.slice.at = b}) + (IF own'.at = b THEN 1 ELSE 0)
  <2>1. CASE DropOwn
    <3>1. held' = held /\ own'.at = 0 /\ heap' = Unref(heap, own)
      BY <2>1, Zenon DEF DropOwn, EmptySlice, Inline
    <3>2. \A b \in DOMAIN heap : heap'[b].refs = heap[b].refs - (IF own.at = b THEN 1 ELSE 0)
      BY <1>1, <3>1, UnrefTakes, SMTT(60)
    <3>3. ASSUME NEW b \in DOMAIN heap' PROVE heap'[b].refs = Cardinality(Holders(b)) /\ own'.at # b
      BY <1>1, <1>3, <1>8, <3>1, <3>2 DEF Mine
    <3>4. ASSUME NEW b \in DOMAIN heap' PROVE {x \in held' : x.slice.at = b} = Holders(b)
      BY <3>1, Zenon DEF Holders
    <3>5. ASSUME NEW b \in DOMAIN heap'
          PROVE  heap'[b].refs = Cardinality({x \in held' : x.slice.at = b}) + (IF own'.at = b THEN 1 ELSE 0)
      <4>1. heap'[b].refs = Cardinality(Holders(b)) + (IF own'.at = b THEN 1 ELSE 0)
        BY <1>3, <1>8, <3>3
      <4> QED
        BY <3>4, <4>1, Zenon
    <3> QED
      BY <1>1, <3>1, <3>5
  <2>2. CASE \E k \in held : DropHeld(k)
    <3>1. PICK k \in held : heap' = Unref(heap, k.slice) /\ held' = held \ {k} /\ own' = own
      BY <2>2, Zenon DEF DropHeld
    <3>2. \A b \in DOMAIN heap : heap'[b].refs = heap[b].refs - (IF k.slice.at = b THEN 1 ELSE 0)
      BY <1>1, <3>1, UnrefTakes, SMTT(60) DEF SliceInv
    <3>3. ASSUME NEW b \in DOMAIN heap
          PROVE  heap'[b].refs = Cardinality({x \in held' : x.slice.at = b}) + Mine(b)
      <4> DEFINE H == {x \in held' : x.slice.at = b}
      <4>1. CASE k.slice.at = b
        <5>1. H = Holders(b) \ {k} /\ k \in Holders(b)
          BY <3>1, <4>1, Zenon DEF Holders
        <5>2. Cardinality(H) = Cardinality(Holders(b)) - 1
          BY <1>8, <5>1, FS_RemoveElement, Zenon
        <5> HIDE DEF H
        <5>3. heap'[b].refs = Cardinality(H) + Mine(b)
          BY <1>8, <3>2, <4>1, <5>2 DEF Mine
        <5> QED
          BY <5>3, Zenon DEF H
      <4>2. CASE k.slice.at # b
        <5>1. H = Holders(b)
          BY <3>1, <4>2 DEF Holders
        <5>2. heap'[b].refs = Cardinality(Holders(b)) + Mine(b)
          BY <1>8, <3>2, <4>2 DEF Mine
        <5> QED
          BY <5>1, <5>2, Zenon
      <4> QED
        BY <4>1, <4>2, Zenon
    <3> QED
      BY <1>1, <1>3, <3>1, <3>3, Zenon DEF Mine
  <2> QED
    BY <2>1, <2>2, Zenon
<1>10. InFlightIntact'
  BY <1>7, <1>9, Zenon DEF InFlightIntact
<1> QED
  BY <1>1, <1>3, <1>5, <1>6, <1>9, <1>10, Zenon DEF SliceInv

(* Every step of the sinks, calls, clones and batches keeps it.            *)
LEMMA SliceStep == ASSUME SliceInv, SlicesNext PROVE SliceInv'
<1>0. /\ heap \in Seq(Block) /\ own.at \in -1..Len(heap) /\ made \in Nat /\ made + 1 \in Nat
      /\ DOMAIN heap = 1..Len(heap) /\ Len(heap) \in Nat
      /\ \A b \in DOMAIN heap : heap[b].refs \in Int
  <2>1. \A b \in DOMAIN heap : heap[b] \in Block
    BY DEF SliceInv
  <2> QED
    BY <2>1 DEF SliceInv, Block
<1>1. ASSUME NEW n, Ser(n) PROVE SliceInv'
  <2> DEFINE r == Realloc(heap, own, n, made + 1)
  <2>1. Fresh(Unref(heap, own), r)
    BY <1>0, CopiedFresh, Zenon DEF Realloc
  <2>2. heap' = r.heap /\ own' = r.slice /\ UNCHANGED held /\ made' = made + 1
    BY <1>1, Zenon DEF Ser
  <2> HIDE DEF r
  <2> QED
    BY <2>1, <2>2, Replaces, Zenon
<1>2. ASSUME NEW n, NEW from \in {"vec", "static", "copy"}, From(from, n) PROVE SliceInv'
  <2> DEFINE r == Converted(from, Unref(heap, own), n, made + 1)
  <2>1. Fresh(Unref(heap, own), r)
    BY <1>0, ConvertedFresh, Zenon
  <2>2. heap' = r.heap /\ own' = r.slice /\ UNCHANGED held /\ made' = made + 1
    BY <1>2, Zenon DEF From
  <2> HIDE DEF r
  <2> QED
    BY <2>1, <2>2, Replaces, Zenon
<1>3. ASSUME NEW kind, heap' = Ref(heap, own), own' = own, held' = held \cup {Kept(kind)}, made' = made + 1
      PROVE  SliceInv'
  <2>1. /\ heap' \in Seq(Block) /\ Len(heap') = Len(heap)
        /\ \A b \in DOMAIN heap : heap'[b].holds = heap[b].holds /\ heap'[b].refs = heap[b].refs + Mine(b)
    BY <1>0, <1>3, RefAdds DEF Mine
  <2>2. \A b \in DOMAIN heap : Mine(b) \in {0, 1} /\ Mine(b)' = Mine(b)
    BY <1>3, Zenon DEF Mine
  <2>3. \A b \in DOMAIN heap : heap'[b].refs = heap[b].refs + Mine(b) + Mine(b)' - Mine(b)
    BY <1>0, <2>1, <2>2
  <2> QED
    BY <1>0, <1>3, <2>1, <2>3, Keeps, Zenon
<1>4. CASE CloneSlice \/ SendKept
  BY <1>3, <1>4, Zenon DEF CloneSlice, SendKept
<1>5. CASE SendSlice
  <2>1. held' = held \cup {Kept("batch")} /\ made' = made + 1
    BY <1>5, Zenon DEF SendSlice
  <2>2. CASE IsInline(own)
    <3>1. heap' = heap /\ own' = own /\ own.at = 0
      BY <1>5, <2>2, Zenon DEF SendSlice, IsInline, Inline
    <3>2. \A b \in DOMAIN heap : Mine(b) = 0 /\ Mine(b)' = 0
      BY <1>0, <3>1 DEF Mine
    <3>3. \A b \in DOMAIN heap : heap'[b].refs = heap[b].refs + Mine(b) + Mine(b)' - Mine(b)
      BY <1>0, <3>1, <3>2, SMTT(60)
    <3> QED
      BY <1>0, <2>1, <3>1, <3>3, Keeps, Zenon
  <2>3. CASE ~IsInline(own)
    <3> DEFINE h == Ref(heap, own)
    <3>1. /\ h \in Seq(Block) /\ Len(h) = Len(heap)
          /\ \A b \in DOMAIN heap : h[b].holds = heap[b].holds /\ h[b].refs = heap[b].refs + Mine(b)
      BY <1>0, RefAdds DEF Mine
    <3>2. heap' = Unref(h, own) /\ own'.at = 0
      BY <1>5, <2>3, SMTT(60) DEF SendSlice, EmptySlice, Inline
    <3> HIDE DEF h
    <3>3. DOMAIN h = DOMAIN heap
      BY <1>0, <3>1, SMTT(60)
    <3>4. /\ heap' \in Seq(Block) /\ Len(heap') = Len(heap)
          /\ \A b \in DOMAIN heap : heap'[b].holds = h[b].holds /\ heap'[b].refs = h[b].refs - Mine(b)
      BY <1>0, <3>1, <3>2, <3>3, UnrefTakes, SMTT(60) DEF Mine
    <3>5. \A b \in DOMAIN heap : Mine(b) \in {0, 1} /\ Mine(b)' = 0
      BY <1>0, <3>2, SMTT(60) DEF Mine
    <3>6. \A b \in DOMAIN heap : /\ heap'[b].holds = heap[b].holds
                                 /\ heap'[b].refs = heap[b].refs + Mine(b) + Mine(b)' - Mine(b)
      <4> SUFFICES ASSUME NEW b \in DOMAIN heap
                   PROVE  /\ heap'[b].holds = heap[b].holds
                          /\ heap'[b].refs = heap[b].refs + Mine(b) + Mine(b)' - Mine(b)
        BY Zenon
      <4>1. heap'[b].holds = heap[b].holds /\ heap'[b].refs = (heap[b].refs + Mine(b)) - Mine(b)
        BY <3>1, <3>4, Zenon
      <4> QED
        BY <4>1, <1>0, <3>5, SMTT(60)
    <3> QED
      BY <1>0, <2>1, <3>2, <3>4, <3>6, Keeps, SMTT(60)
  <2> QED
    BY <2>2, <2>3, Zenon
<1>6. CASE DropOwn \/ \E k \in held : DropHeld(k)
  BY <1>6, Releases, Zenon DEF DropOwn, DropHeld
<1> QED
  BY <1>1, <1>2, <1>4, <1>5, <1>6, Zenon DEF SlicesNext

-----------------------------------------------------------------------------
(* The status of a call.                                                   *)

(* What core was given is made of the status, and what the client sees is  *)
(* what StatusArrives says.                                                *)
StatusInv ==
  /\ \E r \in Rich :
       \/ origin = <<r>> /\ status = ToRpcStatus(r)
       \/ origin = <<>> /\ status = WithDetails(r.code, r.message, <<>>)
  /\ wire = <<>> \/ \/ way = "finish" /\ wire = OnWire(status, Trailing(status.details))
                    \/ way = "abort" /\ wire = OnWire(status, NewArray(0))
  /\ wire # <<>> => way # "none"
  /\ seen # <<>> => wire # <<>>
  /\ StatusArrives

(* A search among other entries finds nothing, and the details behind them *)
(* if there are any.                                                       *)
LEMMA SearchFinds ==
  ASSUME NEW other \in OtherEntries, NEW c
  PROVE  /\ SearchDetails([cap |-> c, entries |-> other \o <<>>]) = <<>>
         /\ \A d : SearchDetails([cap |-> c, entries |-> other \o <<[key |-> DetailsKey, value |-> d]>>]) = <<d>>
<1> DEFINE K == [name |-> "k", capital |-> FALSE, suffix |-> "-bin"]
           o == [key |-> K, value |-> <<>>]
<1>1. other = <<>> \/ other = <<o>>
  BY Zenon DEF OtherEntries
<1>2. o.key # DetailsKey
  BY Zenon DEF DetailsKey
<1> HIDE DEF o
<1>3. SearchDetails([cap |-> c, entries |-> other \o <<>>]) = <<>>
  <2> DEFINE a == [cap |-> c, entries |-> other \o <<>>]
  <2>1. CASE other = <<>>
    <3>1. Iterated(a) = {}
      BY <2>1 DEF Iterated, Get
    <3> QED
      BY <3>1, Zenon DEF SearchDetails
  <2>2. CASE other = <<o>>
    <3>1. Len(a.entries) = 1 /\ a.entries[1] = o
      BY <2>2
    <3> HIDE DEF a
    <3>2. Iterated(a) = {0} /\ Get(a, 0) = <<o>>
      BY <3>1 DEF Iterated, Get
    <3>3. {i \in Iterated(a) : Get(a, i)[1].key = DetailsKey} = {}
      BY <1>2, <3>2
    <3>4. SearchDetails(a) = <<>>
      BY <3>3, Zenon DEF SearchDetails
    <3> QED
      BY <3>4, Zenon DEF a
  <2> QED
    BY <1>1, <2>1, <2>2, Zenon
<1>4. ASSUME NEW d
      PROVE  SearchDetails([cap |-> c, entries |-> other \o <<[key |-> DetailsKey, value |-> d]>>]) = <<d>>
  <2> DEFINE e == [key |-> DetailsKey, value |-> d]
             a == [cap |-> c, entries |-> other \o <<e>>]
             hits == {i \in Iterated(a) : Get(a, i)[1].key = DetailsKey}
  <2>0. e.key = DetailsKey /\ e.value = d
    BY Zenon
  <2>1. ASSUME NEW n \in {0, 1}, hits = {n}, Get(a, n) = <<e>> PROVE SearchDetails(a) = <<d>>
    <3>1. (CHOOSE i \in hits : \A j \in hits : i <= j) = n
      <4> HIDE DEF hits
      <4> QED
        BY <2>1, SMTT(60)
    <3>2. SearchDetails(a) = <<Get(a, CHOOSE i \in hits : \A j \in hits : i <= j)[1].value>>
      BY <2>1, Zenon DEF SearchDetails
    <3>3. SearchDetails(a) = <<e.value>>
      <4> DEFINE k == CHOOSE i \in hits : \A j \in hits : i <= j
      <4>1. SearchDetails(a) = <<Get(a, k)[1].value>> /\ k = n
        BY <3>1, <3>2, ZenonT(60)
      <4> HIDE DEF k, a, e
      <4> QED
        BY <2>1, <4>1, SMTT(60)
    <3> QED
      BY <2>0, <3>3, Zenon
  <2>2. CASE other = <<>>
    <3>1. Len(a.entries) = 1 /\ a.entries[1] = e
      BY <2>2
    <3> HIDE DEF a, e
    <3>2. Iterated(a) = {0} /\ Get(a, 0) = <<e>>
      BY <3>1 DEF Iterated, Get
    <3>3. hits = {0}
      BY <2>0, <3>2
    <3>4. SearchDetails(a) = <<d>>
      BY <2>1, <3>2, <3>3, Zenon
    <3> QED
      BY <3>4, Zenon DEF a, e
  <2>3. CASE other = <<o>>
    <3>1. Len(a.entries) = 2 /\ a.entries[1] = o /\ a.entries[2] = e
      BY <2>3
    <3> HIDE DEF a, e
    <3>2. Iterated(a) = {0, 1} /\ Get(a, 0) = <<o>> /\ Get(a, 1) = <<e>>
      BY <3>1 DEF Iterated, Get
    <3>3. hits = {1}
      BY <1>2, <2>0, <3>2
    <3>4. SearchDetails(a) = <<d>>
      BY <2>1, <3>2, <3>3, Zenon
    <3> QED
      BY <3>4 DEF a, e
  <2> QED
    BY <1>1, <2>2, <2>3, Zenon
<1> QED
  BY <1>3, <1>4, Zenon

(* No call has been finished yet.                                          *)
LEMMA StatusStart == StatusInit => StatusInv
BY Zenon DEF StatusInit, StatusInv, StatusArrives

(* rpc_status gives back the code, the message and the details that were   *)
(* given to core, or OK alone.                                             *)
LEMMA StatusRead ==
  ASSUME NEW other \in OtherEntries, NEW s, NEW d, s = WithDetails(s.code, s.message, d),
         NEW t, t = Trailing(d) \/ t = NewArray(0)
  PROVE  LET got == RpcStatus(OnWire(s, t)[1], other)
         IN  /\ s.code = 0 => got = Ok
             /\ s.code # 0 => got.code = s.code /\ got.message = s.message
             /\ s.code # 0 /\ t = Trailing(d) => got.details = d
<1> DEFINE w == OnWire(s, t)[1]
           found == SearchDetails([w.trailing EXCEPT !.entries = other \o @])
           got == RpcStatus(w, other)
<1>1. w.code = s.code /\ w.message = (IF s.code = 0 THEN "" ELSE s.message) /\ w.trailing = t
  BY Zenon DEF OnWire
<1>2. got = IF w.code = 0 THEN Ok
            ELSE WithDetails(w.code, w.message, IF found = <<>> THEN <<>> ELSE found[1])
  BY Zenon DEF RpcStatus
<1>a. ASSUME NEW c, NEW es, NEW a, a = [cap |-> c, entries |-> es]
      PROVE  [a EXCEPT !.entries = other \o @] = [cap |-> c, entries |-> other \o es]
  BY <1>a, SMTT(60)
<1>b. ASSUME NEW c, NEW es, t = [cap |-> c, entries |-> es]
      PROVE  found = SearchDetails([cap |-> c, entries |-> other \o es])
  <2>1. w.trailing = [cap |-> c, entries |-> es]
    BY <1>1, <1>b, Zenon
  <2> HIDE DEF w
  <2> QED
    BY <1>a, <2>1, Zenon
<1>3. ASSUME t = Trailing(d) PROVE (IF found = <<>> THEN <<>> ELSE found[1]) = d
  <2>1. CASE d = <<>>
    <3>1. t = [cap |-> 0, entries |-> <<>>]
      BY <1>3, <2>1, Zenon DEF Trailing, NewArray
    <3>2. found = SearchDetails([cap |-> 0, entries |-> other \o <<>>])
      BY <1>b, <3>1, Zenon
    <3>3. found = <<>>
      BY <3>2, SearchFinds, Zenon
    <3> QED
      BY <2>1, <3>3, Zenon
  <2>2. CASE d # <<>>
    <3> DEFINE e == [key |-> DetailsKey, value |-> d]
    <3>1. t = Shrunk(ArrayAdd(NewArray(0), e))
      BY <1>3, <2>2, Zenon DEF Trailing
    <3>2. \E c : t = [cap |-> c, entries |-> <<e>>]
      <4>1. ASSUME NEW x PROVE Shrunk(ArrayAdd(NewArray(0), x)) = [cap |-> 1, entries |-> <<x>>]
        <5>1. ArrayAdd(NewArray(0), x) = [cap |-> 4, entries |-> <<x>>]
          BY DEF ArrayAdd, NewArray
        <5>2. ASSUME NEW a, a = [cap |-> 4, entries |-> <<x>>]
              PROVE  Shrunk(a) = [cap |-> Len(<<x>>), entries |-> <<x>>]
          BY <5>2 DEF Shrunk
        <5>3. Len(<<x>>) = 1
          BY Zenon
        <5> QED
          BY <5>1, <5>2, <5>3, ZenonT(60)
      <4> HIDE DEF e
      <4> QED
        BY <3>1, <4>1, Zenon
    <3>3. PICK c : t = [cap |-> c, entries |-> <<e>>]
      BY <3>2, Zenon
    <3>4. found = SearchDetails([cap |-> c, entries |-> other \o <<e>>])
      BY <1>b, <3>3, Zenon
    <3> HIDE DEF found
    <3>5. found = <<d>>
      BY <3>4, SearchFinds, Zenon
    <3> QED
      BY <3>5, Zenon
  <2> QED
    BY <2>1, <2>2, Zenon
<1> HIDE DEF w, found, got
<1>4. s.code = 0 => got = Ok
  BY <1>1, <1>2, Zenon
<1>5. s.code # 0 => got.code = s.code /\ got.message = s.message
  BY <1>1, <1>2, Zenon DEF WithDetails
<1>6. s.code # 0 /\ t = Trailing(d) => got.details = d
  BY <1>1, <1>2, <1>3, Zenon DEF WithDetails
<1> QED
  BY <1>4, <1>5, <1>6, ZenonT(60) DEF got, w

(* The client reads what the server wrote.                                 *)
LEMMA StatusStep == ASSUME StatusInv, StatusNext PROVE StatusInv'
<1>1. PICK r \in Rich : \/ origin = <<r>> /\ status = ToRpcStatus(r)
                        \/ origin = <<>> /\ status = WithDetails(r.code, r.message, <<>>)
  BY Zenon DEF StatusInv
<1>2. CASE SendStatus \/ Abort
  <2>1. way = "none" /\ UNCHANGED <<origin, status, seen>>
    BY <1>2, Zenon DEF SendStatus, Abort
  <2>2. seen = <<>>
    BY <2>1, Zenon DEF StatusInv
  <2>3. \/ way' = "finish" /\ wire' = OnWire(status, Trailing(status.details))
        \/ way' = "abort" /\ wire' = OnWire(status, NewArray(0))
    BY <1>2, Zenon DEF SendStatus, Abort
  <2>4. way' # "none"
    BY <2>3, Zenon
  <2> QED
    BY <1>1, <2>1, <2>2, <2>3, <2>4, Zenon DEF StatusInv, StatusArrives
<1>3. ASSUME NEW other \in OtherEntries, GetStatus(other) PROVE StatusInv'
  <2>1. wire # <<>> /\ UNCHANGED <<origin, status, way, wire>> /\ seen' = <<RpcStatus(wire[1], other)>>
    BY <1>3, Zenon DEF GetStatus
  <2> DEFINE got == RpcStatus(wire[1], other)
             d == status.details
  <2>2. status = WithDetails(status.code, status.message, d)
    BY <1>1, Zenon DEF ToRpcStatus, WithDetails
  <2>3. PICK t : /\ wire = OnWire(status, t)
                 /\ t = Trailing(d) \/ t = NewArray(0)
                 /\ way = "finish" => t = Trailing(d)
    <3>1. CASE way = "finish" /\ wire = OnWire(status, Trailing(status.details))
      BY <3>1, Zenon
    <3>2. CASE way = "abort" /\ wire = OnWire(status, NewArray(0))
      BY <3>2, Zenon
    <3> QED
      BY <2>1, <3>1, <3>2, Zenon DEF StatusInv
  <2>4. t = Trailing(d) \/ t = NewArray(0)
    BY <2>3, Zenon
  <2>5. /\ status.code = 0 => got = Ok
        /\ status.code # 0 => got.code = status.code /\ got.message = status.message
        /\ status.code # 0 /\ t = Trailing(d) => got.details = d
    <3>1. got = RpcStatus(OnWire(status, t)[1], other)
      BY <2>3, Zenon
    <3> HIDE DEF got, d
    <3>2. /\ status.code = 0 => RpcStatus(OnWire(status, t)[1], other) = Ok
          /\ status.code # 0 => /\ RpcStatus(OnWire(status, t)[1], other).code = status.code
                               /\ RpcStatus(OnWire(status, t)[1], other).message = status.message
          /\ status.code # 0 /\ t = Trailing(d) =>
               RpcStatus(OnWire(status, t)[1], other).details = d
      BY <2>2, <2>4, StatusRead
    <3> QED
      BY <3>1, <3>2, Zenon
  <2>6. seen'[1] = got /\ seen' # <<>>
    BY <2>1, Zenon
  <2> HIDE DEF got
  <2>7. /\ got.code = status.code
        /\ got.message = IF status.code = 0 THEN "" ELSE status.message
    <3>1. Ok.code = 0 /\ Ok.message = ""
      BY Zenon DEF Ok, WithDetails
    <3> QED
      BY <2>5, <3>1, Zenon
  <2>8. ASSUME origin # <<>>, way = "finish"
        PROVE  FromRpcStatus(got) = IF status.code = 0 THEN <<Default>> ELSE origin
    <3>1. origin = <<r>> /\ status.code = r.code /\ status.message = r.message /\ d = Encoded(r)
      BY <1>1, <2>8 DEF ToRpcStatus, WithDetails
    <3>2. CASE status.code = 0
      <4>1. got = Ok
        BY <2>5, <3>2, Zenon
      <4>2. Decoded(Ok.details) = Default
        BY Zenon DEF Ok, WithDetails, Decoded
      <4>3. Default.code = Ok.code /\ Default.message = Ok.message
        BY Zenon DEF Default, Ok, WithDetails
      <4> QED
        BY <3>2, <4>1, <4>2, <4>3, Zenon DEF FromRpcStatus
    <3>3. CASE status.code # 0
      <4>1. r # Default
        <5>1. Default.code = 0
          BY Zenon DEF Default
        <5> QED
          BY <3>1, <3>3, <5>1, Zenon
      <4>2. d = <<r>>
        BY <3>1, <4>1, Zenon DEF Encoded
      <4>3. Decoded(got.details) = r
        <5> HIDE DEF d
        <5>1. got.details = <<r>>
          BY <2>3, <2>5, <2>8, <3>3, <4>2, Zenon
        <5>2. <<r>> # <<>> /\ <<r>>[1] = r
          BY Zenon
        <5> QED
          BY <5>1, <5>2, Zenon DEF Decoded
      <4>4. r.code = got.code /\ r.message = got.message
        BY <2>5, <3>1, <3>3, Zenon
      <4> QED
        BY <3>1, <3>3, <4>3, <4>4, Zenon DEF FromRpcStatus
    <3> QED
      BY <3>2, <3>3, Zenon
  <2>9. StatusArrives'
    BY <2>1, <2>6, <2>7, <2>8, Zenon DEF StatusArrives
  <2> QED
    BY <1>1, <2>1, <2>9, Zenon DEF StatusInv
<1> QED
  BY <1>2, <1>3, Zenon DEF StatusNext

-----------------------------------------------------------------------------
(* The headers of a call, and its flags.                                   *)

Given == {[name |-> k.name, value |-> v, binary |-> b] : k \in Keys, v \in Values, b \in BOOLEAN}
Made == {Entry(g) : g \in Given}
Arrays == [cap : Nat, entries : Seq(Made)]

(* The entries that were accepted, as they are kept, and an array that     *)
(* holds nothing or these.                                                 *)
Want == [i \in DOMAIN given |-> Entry(given[i])]
Fits(a) == a \in Arrays /\ (a.entries = <<>> \/ a.entries = Want) /\ Len(a.entries) <= a.cap

HeadersInv ==
  /\ Fits(mine) /\ Fits(copy) /\ Fits(batch)
  /\ live = Len(mine.entries) + Len(copy.entries) + Len(batch.entries)
  /\ given \in Seq(Given)
  /\ stage \in {"builder", "built", "raw", "option"} => mine.entries = Want /\ batch.entries = <<>>
  /\ stage = "builder" => copy.entries = <<>>

FlagsInv ==
  /\ wanted \in [Flags -> BOOLEAN]
  /\ \A f \in Flags : f \in opt <=> wanted[f]
  /\ stage = "launched" => passed = IF call \in WithRequest THEN opt ELSE opt \ WriteBits

MetaInv == HeadersInv /\ FlagsInv

(* What normalize_key accepts becomes the entry it is to be.               *)
LEMMA Accepted ==
  ASSUME NEW k \in Keys, NEW v \in Values, NEW b \in BOOLEAN, NormalizeKey(k, b) # Refused
  PROVE  LET g == [name |-> k.name, value |-> v, binary |-> b]
         IN  g \in Given /\ [key |-> NormalizeKey(k, b), value |-> v] = Entry(g)
<1> DEFINE g == [name |-> k.name, value |-> v, binary |-> b]
           x == IF b THEN "-bin" ELSE ""
<1>1. g \in Given
  BY DEF Given
<1>2. NormalizeKey(k, b) = Lower(k) /\ (b <=> Lower(k).suffix = "-bin")
  BY Zenon DEF NormalizeKey
<1> DEFINE z == IF k.suffix = "" THEN "" ELSE "-bin"
<1>3. Lower(k) = [name |-> k.name, capital |-> FALSE, suffix |-> z]
  BY Zenon DEF Lower
<1>4. Lower(k).suffix = z
  <2>1. ASSUME NEW n, NEW x1 PROVE [name |-> n, capital |-> FALSE, suffix |-> x1].suffix = x1
    BY Zenon
  <2> HIDE DEF z
  <2>2. [name |-> k.name, capital |-> FALSE, suffix |-> z].suffix = z
    BY <2>1, Zenon
  <2> QED
    BY <1>3, <2>2, Zenon
<1>5. Lower(k).suffix = x
  BY <1>2, <1>4, Zenon
<1>6. Lower(k) = [name |-> k.name, capital |-> FALSE, suffix |-> x]
  BY <1>3, <1>4, <1>5, ZenonT(60)
<1>7. Entry(g) = [key |-> [name |-> g.name, capital |-> FALSE, suffix |-> IF g.binary THEN "-bin" ELSE ""],
                  value |-> g.value]
  BY Zenon DEF Entry
<1>8. g.name = k.name /\ g.value = v /\ (g.binary <=> b)
  BY Zenon
<1>9. (IF g.binary THEN "-bin" ELSE "") = x
  BY <1>8, Zenon
<1> HIDE DEF g, x
<1>10. Entry(g) = [key |-> [name |-> k.name, capital |-> FALSE, suffix |-> x], value |-> v]
  BY <1>7, <1>8, <1>9, ZenonT(60)
<1> QED
  BY <1>1, <1>2, <1>6, <1>10, ZenonT(60) DEF g

(* grpcwrap_metadata_array_add: the new entry is the last, and there is    *)
(* room for it.                                                            *)
LEMMA AddFits ==
  ASSUME NEW a \in Arrays, NEW e \in Made, Len(a.entries) <= a.cap
  PROVE  LET n == ArrayAdd(a, e)
         IN  /\ n \in Arrays /\ n.entries = Append(a.entries, e)
             /\ Len(n.entries) = Len(a.entries) + 1 /\ Len(n.entries) <= n.cap
<1> DEFINE c == IF Len(a.entries) < a.cap THEN a.cap ELSE IF a.cap = 0 THEN 4 ELSE 2 * a.cap
           s == Append(a.entries, e)
<1>1. a.cap \in Nat /\ a.entries \in Seq(Made)
  BY Zenon DEF Arrays
<1>2. s \in Seq(Made) /\ Len(s) = Len(a.entries) + 1 /\ Len(a.entries) \in Nat
  BY <1>1
<1>3. c \in Nat /\ Len(a.entries) + 1 <= c
  BY <1>1, <1>2
<1>4. ArrayAdd(a, e) = [cap |-> c, entries |-> s]
  BY Zenon DEF ArrayAdd
<1> HIDE DEF c, s
<1>5. [cap |-> c, entries |-> s] \in Arrays
  BY <1>2, <1>3, Zenon DEF Arrays
<1>6. [cap |-> c, entries |-> s].cap = c /\ [cap |-> c, entries |-> s].entries = s
  BY Zenon
<1> QED
  BY <1>2, <1>3, <1>4, <1>5, <1>6, Zenon DEF s

(* grpcwrap_metadata_array_shrink_to_fit keeps the entries.                *)
LEMMA ShrinkFits ==
  ASSUME NEW a \in Arrays
  PROVE  /\ Shrunk(a) \in Arrays /\ Shrunk(a).entries = a.entries
         /\ Len(a.entries) <= Shrunk(a).cap
<1>1. a.entries \in Seq(Made) /\ Len(a.entries) \in Nat
  BY DEF Arrays
<1>2. Shrunk(a) = [cap |-> Len(a.entries), entries |-> a.entries]
  BY DEF Shrunk, Arrays
<1> QED
  BY <1>1, <1>2 DEF Arrays

(* clone: the iterator yields every entry, in order.                       *)
LEMMA CloneFits ==
  ASSUME NEW a \in Arrays PROVE Cloned(a) \in Arrays /\ Cloned(a).entries = a.entries
<1> DEFINE D == {j + 1 : j \in Iterated(a)}
           n == Len(a.entries)
           f == [i \in D |-> Get(a, i - 1)[1]]
<1>1. a.entries \in Seq(Made) /\ n \in Nat /\ DOMAIN a.entries = 1..n
  BY DEF Arrays
<1>2. \A i \in 0..n : Get(a, i) = IF n <= i THEN <<>> ELSE <<a.entries[i + 1]>>
  BY Zenon DEF Get
<1>3. ASSUME NEW i \in 0..n PROVE Get(a, i) # <<>> <=> i < n
  <2>1. \A x : <<x>> # <<>>
    BY Zenon
  <2>2. Get(a, i) # <<>> <=> ~(n <= i)
    BY <1>2, <2>1, Zenon
  <2> HIDE DEF n
  <2> QED
    BY <1>1, <2>2
<1>4. Iterated(a) = {i \in 0..n : i < n}
  BY <1>3, Zenon DEF Iterated
<1>5. D = 1..n
  <2>1. \A i \in 1..n : i - 1 \in Iterated(a) /\ i = (i - 1) + 1
    BY <1>1, <1>4
  <2>2. \A j \in Iterated(a) : j + 1 \in 1..n
    BY <1>1, <1>4
  <2> QED
    BY <2>1, <2>2, Zenon
<1>6. \A i \in 1..n : Get(a, i - 1)[1] = a.entries[i]
  <2> SUFFICES ASSUME NEW i \in 1..n PROVE Get(a, i - 1)[1] = a.entries[i]
    BY Zenon
  <2>1. i - 1 \in 0..n /\ ~(n <= i - 1) /\ (i - 1) + 1 = i
    BY <1>1
  <2>2. Get(a, i - 1) = <<a.entries[i]>>
    BY <1>2, <2>1, Zenon
  <2> QED
    BY <2>2
<1> HIDE DEF D, n
<1>7. f = [i \in 1..n |-> a.entries[i]]
  BY <1>5, <1>6, Zenon
<1>8. f = a.entries
  BY <1>1, <1>7, SMTT(60)
<1>9. Cloned(a) = [cap |-> n, entries |-> f]
  BY Zenon DEF Cloned, D, n
<1> HIDE DEF f
<1> QED
  BY <1>1, <1>8, <1>9 DEF Arrays

(* A builder that was just made holds nothing.                             *)
LEMMA MetaStart == MetadataInit => MetaInv
<1> SUFFICES ASSUME MetadataInit PROVE MetaInv
  OBVIOUS
<1>1. \A cap \in Nat : /\ NewArray(cap) \in Arrays /\ NewArray(cap).entries = <<>>
                       /\ NewArray(cap).cap = cap
  BY DEF NewArray, Arrays
<1>2. PICK cap \in Nat : mine = NewArray(cap)
  BY CapacitiesAssumption, Zenon DEF MetadataInit
<1>3. given = <<>> /\ Want = <<>>
  BY DEF MetadataInit, Want
<1>4. Len(<<>>) = 0 /\ 0 \in Nat
  BY Zenon
<1>5. Fits(mine) /\ mine.entries = <<>>
  BY <1>1, <1>2, <1>4 DEF Fits
<1>6. copy = NewArray(0) /\ batch = NewArray(0) /\ live = 0
  BY Zenon DEF MetadataInit
<1>7. Fits(NewArray(0)) /\ NewArray(0).entries = <<>>
  BY <1>1, <1>4, SMTT(60) DEF Fits
<1>8. HeadersInv
  BY <1>3, <1>4, <1>5, <1>6, <1>7, SMTT(60) DEF HeadersInv, MetadataInit
<1>9. FlagsInv
  BY DEF FlagsInv, MetadataInit
<1> QED
  BY <1>8, <1>9, Zenon DEF MetaInv

(* change_flag and write_flags leave each flag as it was last asked for,   *)
(* and a start passes the flags on.                                        *)
LEMMA FlagsStep == ASSUME FlagsInv, MetadataNext PROVE FlagsInv'
<1>1. wanted \in [Flags -> BOOLEAN] /\ \A f \in Flags : f \in opt <=> wanted[f]
  BY Zenon DEF FlagsInv
<1>2. ASSUME NEW f \in CallFlags, NEW on \in BOOLEAN, SetFlag(f, on) PROVE FlagsInv'
  <2>1. /\ wanted' = [wanted EXCEPT ![f] = on] /\ opt' = ChangeFlag(opt, f, on)
        /\ stage' # "launched" /\ f \in Flags
    BY <1>2, Zenon DEF SetFlag, Flags
  <2>2. wanted' \in [Flags -> BOOLEAN] /\ \A g \in Flags : wanted'[g] = IF g = f THEN on ELSE wanted[g]
    BY <1>1, <2>1, Zenon
  <2>3. ASSUME NEW g \in Flags PROVE g \in opt' <=> IF g = f THEN on ELSE g \in opt
    <3>1. CASE on
      BY <2>1, <3>1, Zenon DEF ChangeFlag
    <3>2. CASE ~on
      BY <2>1, <3>2, Zenon DEF ChangeFlag
    <3> QED
      BY <3>1, <3>2, Zenon
  <2>4. ASSUME NEW g \in Flags PROVE g \in opt' <=> wanted'[g]
    <3>1. CASE g = f
      BY <2>2, <2>3, <3>1, Zenon
    <3>2. CASE g # f
      BY <1>1, <2>2, <2>3, <3>2, Zenon
    <3> QED
      BY <3>1, <3>2, Zenon
  <2> QED
    BY <2>1, <2>2, <2>4, Zenon DEF FlagsInv
<1>3. ASSUME NEW W \in SUBSET WriteBits, SetWriteFlags(W) PROVE FlagsInv'
  <2>1. /\ wanted' = [f \in Flags |-> IF f \in WriteBits THEN f \in W ELSE wanted[f]]
        /\ opt' = (opt \ WriteBits) \cup W /\ stage' # "launched"
    BY <1>3, Zenon DEF SetWriteFlags
  <2>2. wanted' \in [Flags -> BOOLEAN]
        /\ \A g \in Flags : wanted'[g] = IF g \in WriteBits THEN g \in W ELSE wanted[g]
    <3> DEFINE w(g) == IF g \in WriteBits THEN g \in W ELSE wanted[g]
    <3>1. ASSUME NEW g \in Flags PROVE w(g) \in BOOLEAN
      <4>1. CASE g \in WriteBits
        BY <4>1
      <4>2. CASE g \notin WriteBits
        BY <1>1, <4>2, Zenon
      <4> QED
        BY <4>1, <4>2, Zenon
    <3>2. wanted' = [g \in Flags |-> w(g)]
      BY <2>1, Zenon
    <3> HIDE DEF w
    <3>3. wanted' \in [Flags -> BOOLEAN] /\ \A g \in Flags : wanted'[g] = w(g)
      BY <3>1, <3>2, Zenon
    <3> QED
      BY <3>3, Zenon DEF w
  <2>3. ASSUME NEW g \in Flags PROVE g \in opt' <=> wanted'[g]
    <3>1. CASE g \in WriteBits
      BY <2>1, <2>2, <3>1, Zenon
    <3>2. CASE g \notin WriteBits
      BY <1>1, <1>3, <2>1, <2>2, <3>2, Zenon
    <3> QED
      BY <3>1, <3>2, Zenon
  <2> QED
    BY <2>1, <2>2, <2>3, Zenon DEF FlagsInv
<1>4. ASSUME NEW kind \in Kinds, Launch(kind) PROVE FlagsInv'
  <2>1. UNCHANGED <<opt, wanted>> /\ call' = kind
        /\ passed' = IF kind \in WithRequest THEN opt ELSE opt \ WriteBits
    BY <1>4, Zenon DEF Launch
  <2> QED
    BY <1>1, <2>1, Zenon DEF FlagsInv
<1>5. ASSUME NEW k, NEW v, NEW b, AddEntry(k, v, b) PROVE FlagsInv'
  <2>1. UNCHANGED <<stage, opt, wanted, call, passed>>
    BY <1>5, Zenon DEF AddEntry, Options
  <2> QED
    BY <1>1, <2>1, Zenon DEF FlagsInv
<1>6. CASE \/ BuildMetadata \/ CloneMetadata \/ DropClone \/ IntoRawParts \/ FromRawParts \/ Headers
           \/ DropMetadata \/ DestroyBatch
  <2>1. UNCHANGED <<opt, wanted, call, passed>> /\ (stage' = "launched" => stage = "launched")
    BY <1>6, Zenon DEF BuildMetadata, CloneMetadata, DropClone, IntoRawParts, FromRawParts, Headers,
                DropMetadata, DestroyBatch, Options
  <2> QED
    BY <1>1, <2>1, Zenon DEF FlagsInv
<1> QED
  BY <1>2, <1>3, <1>4, <1>5, <1>6, Zenon DEF MetadataNext

(* Where the headers go: every step of metadata.rs and of CallOption moves *)
(* them, copies them or frees them, and counts what it frees.              *)
LEMMA HeadersStep == ASSUME HeadersInv, MetadataNext PROVE HeadersInv'
<1> DEFINE Empty == NewArray(0)
<1>1. /\ Empty \in Arrays /\ Empty.entries = <<>>
      /\ Len(Empty.entries) = 0 /\ Len(Empty.entries) <= Empty.cap
  BY DEF NewArray, Arrays
<1>2. \A a \in Arrays : Len(a.entries) \in Nat /\ a.cap \in Nat /\ a.entries \in Seq(Made)
  BY DEF Arrays
<1>3. mine \in Arrays /\ copy \in Arrays /\ batch \in Arrays
  BY Zenon DEF HeadersInv, Fits
<1> DEFINE m == Len(mine.entries)
           c == Len(copy.entries)
           b == Len(batch.entries)
<1>5. m \in Nat /\ c \in Nat /\ b \in Nat
  BY <1>2, <1>3, Zenon
<1>7. Len(mine.entries) = m /\ Len(copy.entries) = c /\ Len(batch.entries) = b
  BY Zenon
<1>4. live = m + c + b
  BY Zenon DEF HeadersInv
<1>6. ASSUME given' = given PROVE Want' = Want
  BY <1>6, Zenon DEF Want
<1> HIDE DEF Empty, m, c, b
<1>8. ASSUME NEW k \in Keys, NEW v \in Values, NEW y \in BOOLEAN, AddEntry(k, v, y) PROVE HeadersInv'
  <2> DEFINE g == [name |-> k.name, value |-> v, binary |-> y]
             e == [key |-> NormalizeKey(k, y), value |-> v]
  <2>1. /\ stage = "builder" /\ stage' = "builder" /\ NormalizeKey(k, y) # Refused
        /\ mine' = ArrayAdd(mine, e) /\ live' = live + 1 /\ given' = Append(given, g)
        /\ copy' = copy /\ batch' = batch
    BY <1>8, Zenon DEF AddEntry
  <2>2. g \in Given /\ e = Entry(g)
    BY <2>1, Accepted, ZenonT(60)
  <2>3. e \in Made
    BY <2>2, Zenon DEF Made
  <2> HIDE DEF g, e
  <2>4. given \in Seq(Given) /\ mine.entries = Want /\ copy.entries = <<>> /\ batch.entries = <<>>
    BY <2>1, ZenonT(60) DEF HeadersInv
  <2>5. Len(mine.entries) <= mine.cap
    BY Zenon DEF HeadersInv, Fits
  <2>6. /\ mine' \in Arrays /\ mine'.entries = Append(Want, e)
        /\ Len(mine'.entries) = Len(mine.entries) + 1 /\ Len(mine'.entries) <= mine'.cap
    BY <1>3, <2>1, <2>3, <2>4, <2>5, AddFits
  <2>7. Want' = Append(Want, e)
    <3> DEFINE n == Len(given)
    <3>1. n \in Nat /\ DOMAIN given = 1..n /\ DOMAIN given' = 1..(n + 1)
      BY <2>1, <2>2, <2>4
    <3>2. given'[n + 1] = g /\ \A i \in 1..n : given'[i] = given[i]
      BY <2>1, <2>2, <2>4
    <3>3. Want' = [i \in 1..(n + 1) |-> Entry(given'[i])]
      BY <3>1, Zenon DEF Want
    <3>4. Want = [i \in 1..n |-> Entry(given[i])]
      BY <3>1, Zenon DEF Want
    <3>5. Want \in Seq(Made) /\ Len(Want) = n
      <4>1. Want \in Seq(Made)
        BY <1>2, <1>3, <2>4, Zenon
      <4>2. DOMAIN Want = 1..n /\ Len(Want) \in Nat
        BY <3>4, <4>1
      <4> QED
        BY <3>1, <4>1, <4>2
    <3> HIDE DEF n
    <3>6. DOMAIN Append(Want, e) = 1..(n + 1) /\ Append(Want, e)[n + 1] = e
      BY <2>3, <3>1, <3>5, SMTT(60)
    <3>7. \A i \in 1..n : Append(Want, e)[i] = Entry(given'[i])
      BY <3>1, <3>2, <3>4, <3>5, <2>3, SMTT(60)
    <3>8. Append(Want, e) = [i \in 1..(n + 1) |-> Append(Want, e)[i]]
      <4>1. Append(Want, e) \in Seq(Made)
        BY <2>3, <3>5
      <4>2. ASSUME NEW s \in Seq(Made), DOMAIN s = 1..(n + 1) PROVE s = [i \in 1..(n + 1) |-> s[i]]
        BY <4>2
      <4> QED
        BY <3>6, <4>1, <4>2, ZenonT(60)
    <3>9. \A i \in 1..(n + 1) : Append(Want, e)[i] = Entry(given'[i])
      BY <2>2, <3>1, <3>2, <3>6, <3>7
    <3> QED
      BY <3>3, <3>8, <3>9, ZenonT(60)
  <2>8. Fits(mine)'
    BY <2>6, <2>7, Zenon DEF Fits
  <2>9. Fits(copy)' /\ Fits(batch)'
    BY <2>1, <2>4, Zenon DEF Fits, HeadersInv
  <2>10. live' = Len(mine'.entries) + Len(copy'.entries) + Len(batch'.entries)
    <3>1. Len(mine'.entries) = m + 1 /\ Len(copy'.entries) = c /\ Len(batch'.entries) = b
      BY <1>7, <2>1, <2>6, Zenon
    <3> QED
      BY <1>4, <1>5, <2>1, <3>1, SMTT(60)
  <2>11. given' \in Seq(Given)
    BY <2>1, <2>2, <2>4, SMTT(60)
  <2> QED
    BY <2>1, <2>4, <2>6, <2>7, <2>8, <2>9, <2>10, <2>11, SMTT(60) DEF HeadersInv
<1>9. CASE BuildMetadata
  <2>1. /\ stage = "builder" /\ stage' = "built" /\ mine' = Shrunk(mine)
        /\ UNCHANGED <<copy, batch, live, given>>
    BY <1>9, Zenon DEF BuildMetadata
  <2>2. mine' \in Arrays /\ mine'.entries = mine.entries /\ Len(mine'.entries) <= mine'.cap
    BY <1>3, <2>1, ShrinkFits, Zenon
  <2>3. Want' = Want
    BY <1>6, <2>1, Zenon
  <2>4. mine.entries = Want
    BY <2>1, Zenon DEF HeadersInv
  <2> QED
    BY <1>4, <2>1, <2>2, <2>3, <2>4, Zenon DEF HeadersInv, Fits
<1>10. CASE CloneMetadata
  <2>1. /\ stage \in {"built", "option"} /\ copy.entries = <<>> /\ copy' = Shrunk(Cloned(mine))
        /\ live' = live + Len(copy'.entries) /\ UNCHANGED <<stage, mine, batch, given>>
    BY <1>10, Zenon DEF CloneMetadata
  <2>2. copy' \in Arrays /\ copy'.entries = mine.entries /\ Len(copy'.entries) <= copy'.cap
    BY <1>3, <2>1, CloneFits, ShrinkFits, Zenon
  <2>3. Want' = Want
    BY <1>6, <2>1, Zenon
  <2>4. mine.entries = Want
    BY <2>1, Zenon DEF HeadersInv
  <2>5. live' = Len(mine'.entries) + Len(copy'.entries) + Len(batch'.entries)
    <3>1. Len(mine'.entries) = m /\ Len(copy'.entries) = m /\ Len(batch'.entries) = b
      BY <1>7, <2>1, <2>2, Zenon
    <3>2. c = 0
      BY <1>7, <2>1, Zenon
    <3> QED
      BY <1>4, <1>5, <2>1, <3>1, <3>2, SMTT(60)
  <2> QED
    BY <2>1, <2>2, <2>3, <2>4, <2>5, Zenon DEF HeadersInv, Fits
<1>11. CASE DropClone
  <2>1. copy' = Empty /\ live' = live - Len(copy.entries) /\ UNCHANGED <<stage, mine, batch, given>>
    BY <1>11, Zenon DEF DropClone, Empty
  <2>2. live' = Len(mine'.entries) + Len(copy'.entries) + Len(batch'.entries)
    <3>1. Len(mine'.entries) = m /\ Len(copy'.entries) = 0 /\ Len(batch'.entries) = b
      BY <1>1, <1>7, <2>1, Zenon
    <3>2. live' = live - c
      BY <1>7, <2>1, Zenon
    <3> QED
      BY <1>4, <1>5, <3>1, <3>2
  <2>3. Want' = Want
    BY <1>6, <2>1, Zenon
  <2> QED
    BY <1>1, <2>1, <2>2, <2>3, Zenon DEF HeadersInv, Fits
<1>12. CASE IntoRawParts \/ FromRawParts \/ Headers
  <2>1. /\ stage \in {"built", "raw"} /\ stage' \in {"built", "raw", "option"}
        /\ UNCHANGED <<mine, copy, batch, live, given>>
    BY <1>12, Zenon DEF IntoRawParts, FromRawParts, Headers
  <2>2. Want' = Want
    BY <1>6, <2>1, Zenon
  <2> QED
    BY <2>1, <2>2, Zenon DEF HeadersInv, Fits
<1>13. ASSUME \/ \E f \in CallFlags, on \in BOOLEAN : SetFlag(f, on)
              \/ \E W \in SUBSET WriteBits : SetWriteFlags(W)
       PROVE  HeadersInv'
  <2>1. UNCHANGED <<stage, mine, copy, batch, live, given>>
    BY <1>13, Zenon DEF SetFlag, SetWriteFlags
  <2>2. Want' = Want
    BY <1>6, <2>1, Zenon
  <2> QED
    BY <2>1, <2>2, Zenon DEF HeadersInv, Fits
<1>14. ASSUME NEW kind, Launch(kind) PROVE HeadersInv'
  <2>1. /\ stage = "option" /\ stage' = "launched" /\ batch' = mine /\ mine' = Empty
        /\ UNCHANGED <<copy, live, given>>
    BY <1>14, Zenon DEF Launch, Empty
  <2>2. batch.entries = <<>>
    BY <2>1, Zenon DEF HeadersInv
  <2>3. live' = Len(mine'.entries) + Len(copy'.entries) + Len(batch'.entries)
    <3>1. Len(mine'.entries) = 0 /\ Len(copy'.entries) = c /\ Len(batch'.entries) = m
      BY <1>1, <1>7, <2>1, Zenon
    <3>2. live' = live /\ b = 0
      BY <1>1, <1>7, <2>1, <2>2, Zenon
    <3> QED
      BY <1>4, <1>5, <3>1, <3>2
  <2>4. Want' = Want
    BY <1>6, <2>1, Zenon
  <2> QED
    BY <1>1, <2>1, <2>3, <2>4, Zenon DEF HeadersInv, Fits
<1>15. CASE DropMetadata
  <2>1. /\ stage' = "dropped" /\ mine' = Empty /\ live' = live - Len(mine.entries)
        /\ UNCHANGED <<copy, batch, given>>
    BY <1>15, Zenon DEF DropMetadata, Empty
  <2>2. live' = Len(mine'.entries) + Len(copy'.entries) + Len(batch'.entries)
    <3>1. Len(mine'.entries) = 0 /\ Len(copy'.entries) = c /\ Len(batch'.entries) = b
      BY <1>1, <1>7, <2>1, Zenon
    <3>2. live' = live - m
      BY <1>7, <2>1, Zenon
    <3> QED
      BY <1>4, <1>5, <3>1, <3>2
  <2>3. Want' = Want
    BY <1>6, <2>1, Zenon
  <2> QED
    BY <1>1, <2>1, <2>2, <2>3, Zenon DEF HeadersInv, Fits
<1>16. CASE DestroyBatch
  <2>1. batch' = Empty /\ live' = live - Len(batch.entries) /\ UNCHANGED <<stage, mine, copy, given>>
    BY <1>16 DEF DestroyBatch, Empty
  <2>2. live' = Len(mine'.entries) + Len(copy'.entries) + Len(batch'.entries)
    <3>1. Len(mine'.entries) = m /\ Len(copy'.entries) = c /\ Len(batch'.entries) = 0
      BY <1>1, <1>7, <2>1, Zenon
    <3>2. live' = live - b
      BY <1>7, <2>1, Zenon
    <3> QED
      BY <1>4, <1>5, <3>1, <3>2
  <2>3. Want' = Want
    BY <1>6, <2>1
  <2> QED
    BY <1>1, <2>1, <2>2, <2>3, Zenon DEF HeadersInv, Fits
<1> QED
  BY <1>8, <1>9, <1>10, <1>11, <1>12, <1>13, <1>14, <1>15, <1>16, ZenonT(60) DEF MetadataNext

(* The invariant of the headers is what HeadersKept says, and more.        *)
LEMMA MetaKeeps == MetaInv => HeadersKept
<1> SUFFICES ASSUME MetaInv PROVE HeadersKept
  OBVIOUS
<1>1. ASSUME NEW a \in {mine, copy, batch}
      PROVE  /\ a.entries = <<>> \/ a.entries = [i \in DOMAIN given |-> Entry(given[i])]
             /\ Len(a.entries) <= a.cap
  <2>1. Fits(a)
    BY <1>1, Zenon DEF MetaInv, HeadersInv
  <2> QED
    BY <2>1, Zenon DEF Fits, Want
<1>2. live = Len(mine.entries) + Len(copy.entries) + Len(batch.entries)
  BY Zenon DEF MetaInv, HeadersInv
<1>3. ASSUME stage = "launched", NEW f \in Flags
      PROVE  f \in passed <=> wanted[f] /\ (f \in CallFlags \/ call \in WithRequest)
  <2>1. (f \in opt <=> wanted[f]) /\ passed = IF call \in WithRequest THEN opt ELSE opt \ WriteBits
    BY <1>3, Zenon DEF MetaInv, FlagsInv
  <2>2. f \in CallFlags <=> f \notin WriteBits
    BY FlagsAssumption, Zenon DEF Flags
  <2>3. CASE call \in WithRequest
    BY <2>1, <2>3, Zenon
  <2>4. CASE call \notin WithRequest
    BY <2>1, <2>2, <2>4, Zenon
  <2> QED
    BY <2>3, <2>4, Zenon
<1> QED
  BY <1>1, <1>2, <1>3, Zenon DEF HeadersKept

-----------------------------------------------------------------------------
(* The parts together.                                                     *)

MessageInv == SliceInv /\ ReceivedInv /\ MetaInv /\ StatusInv

(* A step of one part leaves the others as they are.                       *)
LEMMA MessageStep == ASSUME MessageInv, [MessageNext]_allVars PROVE MessageInv'
<1>1. SlicesNext \/ UNCHANGED sliceVars
  BY Zenon DEF MessageNext, allVars
<1>2. [ReceivedNext]_recvVars
  BY Zenon DEF MessageNext, allVars
<1>3. MetadataNext \/ UNCHANGED metaVars
  BY Zenon DEF MessageNext, allVars
<1>4. StatusNext \/ UNCHANGED statusVars
  BY Zenon DEF MessageNext, allVars
<1>5. SliceInv'
  <2>1. CASE UNCHANGED sliceVars
    BY <2>1, Zenon DEF MessageInv, sliceVars, SliceInv, InFlightIntact, Bytes
  <2> QED
    BY <1>1, <2>1, SliceStep, Zenon DEF MessageInv
<1>6. ReceivedInv'
  BY <1>2, ReceivedStep, Zenon DEF MessageInv
<1>7. HeadersInv'
  <2>1. CASE UNCHANGED metaVars
    BY <2>1, Zenon DEF MessageInv, metaVars, MetaInv, HeadersInv, Fits, Want
  <2> QED
    BY <1>3, <2>1, HeadersStep, Zenon DEF MessageInv, MetaInv
<1>8. FlagsInv'
  <2>1. CASE UNCHANGED metaVars
    BY <2>1, Zenon DEF MessageInv, metaVars, MetaInv, FlagsInv
  <2> QED
    BY <1>3, <2>1, FlagsStep, Zenon DEF MessageInv, MetaInv
<1>9. StatusInv'
  <2>1. CASE UNCHANGED statusVars
    BY <2>1, Zenon DEF MessageInv, statusVars, StatusInv, StatusArrives
  <2> QED
    BY <1>4, <2>1, StatusStep, Zenon DEF MessageInv
<1> QED
  BY <1>5, <1>6, <1>7, <1>8, <1>9, Zenon DEF MessageInv, MetaInv

(* The invariants of the four parts are kept by every step of a message,   *)
(* of headers and of a status.                                             *)
THEOREM MessageInductive == MessageSpec => []MessageInv
<1>1. MessageInit => MessageInv
  BY SliceStart, ReceivedInitial, MetaStart, StatusStart, Zenon DEF MessageInit, MessageInv
<1>2. MessageInv /\ [MessageNext]_allVars => MessageInv'
  BY MessageStep
<1> QED
  BY <1>1, <1>2, PTL DEF MessageSpec

(* Whatever is serialised, sent, cloned, converted and dropped, in any     *)
(* order and of any length: a message that core has not sent keeps its     *)
(* bytes and a block of memory is freed exactly when nobody refers to it   *)
(* (GrpcSlice::realloc, start_send_buffer_message).                        *)
THEOREM InFlight == MessageSpec => []InFlightIntact
<1>1. MessageInv => InFlightIntact
  BY Zenon DEF MessageInv, SliceInv
<1> QED
  BY <1>1, MessageInductive, PTL

(* Whatever is read of a message and whenever context and reader are       *)
(* dropped, the slice that fill_buf and chunk show is one the reader holds *)
(* a reference to, and each slice has exactly as many references as        *)
(* holders: buf.rs frees it once, and not before.                          *)
THEOREM SlicesHeld == MessageSpec => []SlicesOwned
<1>1. MessageInv => SlicesOwned
  BY InvOwns, Zenon DEF MessageInv
<1> QED
  BY <1>1, MessageInductive, PTL

(* The reader that recv_message makes shows the next bytes of the message, *)
(* as ByteReader's does, though the context it came from may be gone.      *)
THEOREM ReceivedReads == MessageSpec => []ShowsNextBytes
<1>1. MessageInv => ShowsNextBytes
  BY InvShows, Zenon DEF MessageInv, ReceivedInv, Reader, ShowsNextBytes
<1> QED
  BY <1>1, MessageInductive, PTL

(* For any keys and any number of entries and flags: a call is started     *)
(* with the accepted headers in their order, each entry allocated is owned *)
(* once, and the flags are the ones last asked for (metadata.rs,           *)
(* grpcwrap_metadata_array_move, change_flag).                             *)
THEOREM HeadersArrive == MessageSpec => []HeadersKept
<1>1. MessageInv => HeadersKept
  BY MetaKeeps, Zenon DEF MessageInv
<1> QED
  BY <1>1, MessageInductive, PTL

(* For any codes and texts: the client gets the code and the message the   *)
(* server finished with, and the google.rpc.Status that was in the details *)
(* of a call that failed (rpc_status, proto/src/util.rs).                  *)
THEOREM StatusRoundTrip == MessageSpec => []StatusArrives
<1>1. MessageInv => StatusArrives
  BY Zenon DEF MessageInv, StatusInv
<1> QED
  BY <1>1, MessageInductive, PTL
=============================================================================
