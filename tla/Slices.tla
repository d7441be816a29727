----------------------------------- MODULE Slices -----------------------------------
(***************************************************************************)
(* GrpcSlice (buf.rs), the bytes of a message on their way out: the sink   *)
(* or the call serialises each message into one slice that it keeps, and   *)
(* hands the slice to a batch, whose context keeps a byte buffer with a    *)
(* reference to it until the batch is done. Short bytes lie in the slice   *)
(* itself and are copied with it; longer ones lie in a block that counts   *)
(* its references.                                                         *)
(*                                                                         *)
(* The contents of a slice are known by the number of the message they     *)
(* were written for.                                                       *)
(***************************************************************************)
EXTENDS Integers, Sequences, FiniteSets

CONSTANTS
  Lengths,     \* the lengths of messages
  InlinedSize, \* INLINED_SIZE
  MaxMade      \* bound on the messages, clones and conversions

Inline == 0    \* where the bytes of a slice are: in it,
Static == -1   \* in the program, or else in the block of that number

VARIABLES
  heap,        \* the blocks ever allocated: references and contents
  own,         \* the slice that is serialised into
  held,        \* the other slices: byte buffers of batches, and clones
  made         \* the number of messages and clones so far

sliceVars == <<heap, own, held, made>>

(* GrpcSlice::default.                                                     *)
EmptySlice == [at |-> Inline, len |-> 0, holds |-> 0]

SlicesInit == heap = <<>> /\ own = EmptySlice /\ held = {} /\ made = 0

InBlock(s) == s.at > 0
Bytes(s) == IF InBlock(s) THEN heap[s.at].holds ELSE s.holds

(* is_inline: the slice has no reference count.                            *)
IsInline(s) == s.at = Inline

(* Clone and Drop: grpc_slice_ref and grpc_slice_unref.                    *)
Ref(h, s) == IF InBlock(s) THEN [h EXCEPT ![s.at].refs = @ + 1] ELSE h
Unref(h, s) == IF InBlock(s) THEN [h EXCEPT ![s.at].refs = @ - 1] ELSE h

(* A new block with contents m, or m in the slice itself.                  *)
Allocated(h, n, m) ==
  [heap |-> Append(h, [refs |-> 1, holds |-> m]),
   slice |-> [at |-> Len(h) + 1, len |-> n, holds |-> 0]]
Inlined(h, n, m) == [heap |-> h, slice |-> [at |-> Inline, len |-> n, holds |-> m]]
Copied(h, n, m) == IF n <= InlinedSize THEN Inlined(h, n, m) ELSE Allocated(h, n, m)

(* Mutant: a block that is large enough is used again.                     *)
ReallocInPlace(h, s, n, m) ==
  IF InBlock(s) /\ n <= s.len
  THEN [heap |-> [h EXCEPT ![s.at].holds = m], slice |-> s]
  ELSE Copied(Unref(h, s), n, m)

(* realloc and the writing of the message that follows it in the codecs:   *)
(* what the slice referred to is released, never written over.             *)
Realloc(h, s, n, m) == Copied(Unref(h, s), n, m)

(* ser of the codecs: the slice has the length of the message.             *)
Ser(n) ==
  LET r == Realloc(heap, own, n, made + 1)
  IN  /\ made < MaxMade
      /\ made' = made + 1
      /\ heap' = r.heap /\ own' = r.slice
      /\ UNCHANGED held

(* From: a Vec without room to spare becomes the block of the slice, one   *)
(* with room is copied, as is what is borrowed; what is 'static is shared. *)
(* The slice made replaces the old one.                                    *)
Converted(from, h, n, m) ==
  CASE from = "vec"    -> IF n = 0 THEN [heap |-> h, slice |-> EmptySlice] ELSE Allocated(h, n, m)
    [] from = "static" -> [heap |-> h, slice |-> [at |-> Static, len |-> n, holds |-> m]]
    [] from = "copy"   -> Copied(h, n, m)

From(from, n) ==
  LET r == Converted(from, Unref(heap, own), n, made + 1)
  IN  /\ made < MaxMade
      /\ made' = made + 1
      /\ heap' = r.heap /\ own' = r.slice
      /\ UNCHANGED held

Kept(kind) == [kind |-> kind, id |-> made + 1, slice |-> own, bytes |-> Bytes(own)]

(* A clone of the slice, or a byte buffer made of it.                      *)
CloneSlice ==
  /\ made < MaxMade
  /\ made' = made + 1
  /\ heap' = Ref(heap, own)
  /\ held' = held \cup {Kept("clone")}
  /\ UNCHANGED own

(* start_send_message: the byte buffer of the batch refers to the slice,   *)
(* and a sink gives a slice that is not inline up at once.                 *)
SendSlice ==
  /\ made < MaxMade
  /\ made' = made + 1
  /\ held' = held \cup {Kept("batch")}
  /\ IF IsInline(own) THEN heap' = heap /\ own' = own
     ELSE heap' = Unref(Ref(heap, own), own) /\ own' = EmptySlice

(* A call with one message keeps its slice until it returns.               *)
SendKept ==
  /\ made < MaxMade
  /\ made' = made + 1
  /\ heap' = Ref(heap, own)
  /\ held' = held \cup {Kept("batch")}
  /\ UNCHANGED own

(* A clone is dropped, or a batch is done and its context destroyed.       *)
DropHeld(k) ==
  /\ heap' = Unref(heap, k.slice)
  /\ held' = held \ {k}
  /\ UNCHANGED <<own, made>>

(* The sink or the call is dropped.                                        *)
DropOwn ==
  /\ own # EmptySlice
  /\ heap' = Unref(heap, own)
  /\ own' = EmptySlice
  /\ UNCHANGED <<held, made>>

SlicesNext ==
  \/ \E n \in Lengths : Ser(n) \/ \E from \in {"vec", "static", "copy"} : From(from, n)
  \/ CloneSlice \/ SendSlice \/ SendKept \/ DropOwn
  \/ \E k \in held : DropHeld(k)

-----------------------------------------------------------------------------
(* A message that core has not sent yet, and a clone, keep the bytes they  *)
(* had, in a block that is not freed, whatever is serialised into the      *)
(* sink's slice meanwhile (realloc, start_send_buffer_message); and a      *)
(* block is freed when nobody refers to it, so that none is leaked.        *)
InFlightIntact ==
  /\ \A k \in held : Bytes(k.slice) = k.bytes
  /\ \A b \in DOMAIN heap :
       heap[b].refs = Cardinality({k \in held : k.slice.at = b}) + (IF own.at = b THEN 1 ELSE 0)
=============================================================================
