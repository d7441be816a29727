---------------------------------- MODULE Metadata ----------------------------------
(***************************************************************************)
(* The headers of a call: MetadataBuilder and Metadata (metadata.rs) over  *)
(* the arrays of grpc_wrap.cc, the CallOption they are put into            *)
(* (call/client.rs) and the move into the context of the batch that starts *)
(* the call, after which the array of the caller is empty.                 *)
(*                                                                         *)
(* A key is what normalize_key tells apart: its name without the suffix,   *)
(* whether a letter of that is a capital, and the suffix; the name "" with *)
(* no suffix is the empty key, "?" is one with a character not allowed.    *)
(***************************************************************************)
EXTENDS Integers, Sequences

CONSTANTS
  Keys,        \* the keys the user tries
  Capacities,  \* the capacities it asks for
  CallFlags,   \* the bits of call_flags
  WriteBits,   \* the bits of WriteFlags
  MaxEntries   \* bound on the entries

ASSUME KeysAssumption == Keys \subseteq [name : STRING, capital : BOOLEAN, suffix : STRING]
ASSUME CapacitiesAssumption == Capacities \subseteq Nat
ASSUME FlagsAssumption == CallFlags \cap WriteBits = {}

Flags == CallFlags \cup WriteBits
Values == {"text", "bytes"}   \* ASCII and printable, or not
(* The kinds of a call, and those whose start carries the request.         *)
Kinds == {"unary", "client_streaming", "server_streaming", "duplex_streaming"}
WithRequest == {"unary", "server_streaming"}
Refused == [name |-> "?", capital |-> FALSE, suffix |-> ""]

VARIABLES
  stage,       \* builder, built, raw, option, launched, dropped
  mine,        \* the array of the builder, the Metadata or the option
  copy,        \* a clone of it
  batch,       \* send_initial_metadata of the batch context
  live,        \* how many entries are allocated
  given,       \* the entries that were accepted, as the user gave them
  opt,         \* the flags of the CallOption
  wanted,      \* for each flag, whether the user last asked for it
  call,        \* the kind of the call that was started
  passed       \* the flags given to core

metaVars == <<stage, mine, copy, batch, live, given, opt, wanted, call, passed>>

(* normalize_key: the suffix is looked at when the key is in lower case.   *)
Lower(k) ==
  [name |-> k.name, capital |-> FALSE, suffix |-> IF k.suffix = "" THEN "" ELSE "-bin"]

NoKey(k) == k.name = "?" \/ (k.name = "" /\ k.suffix = "")

(* Mutant: the suffix is compared as the user wrote it.                    *)
NormalizeKeyFirst(k, binary) ==
  IF NoKey(k) \/ binary # (k.suffix = "-bin") THEN Refused ELSE Lower(k)

NormalizeKey(k, binary) ==
  IF NoKey(k) \/ binary # (Lower(k).suffix = "-bin") THEN Refused ELSE Lower(k)

(* grpcwrap_metadata_array_init, _add and _shrink_to_fit.                  *)
NewArray(cap) == [cap |-> cap, entries |-> <<>>]
ArrayAdd(a, e) ==
  [cap |-> IF Len(a.entries) < a.cap THEN a.cap
           ELSE IF a.cap = 0 THEN 4 ELSE 2 * a.cap,
   entries |-> Append(a.entries, e)]
Shrunk(a) == [a EXCEPT !.cap = Len(a.entries)]

(* get, and the iterator: it stops where get has nothing.                  *)
Get(a, i) == IF Len(a.entries) <= i THEN <<>> ELSE <<a.entries[i + 1]>>
Iterated(a) == {i \in 0..Len(a.entries) : Get(a, i) # <<>>}

(* search_binary_error_details: the first entry with that key.             *)
DetailsKey == [name |-> "grpc-status-details", capital |-> FALSE, suffix |-> "-bin"]
SearchDetails(a) ==
  LET hits == {i \in Iterated(a) : Get(a, i)[1].key = DetailsKey}
  IN  IF hits = {} THEN <<>>
      ELSE <<Get(a, CHOOSE i \in hits : \A j \in hits : i <= j)[1].value>>

MetadataInit ==
  /\ stage = "builder"
  /\ mine \in {NewArray(cap) : cap \in Capacities}
  /\ copy = NewArray(0) /\ batch = NewArray(0) /\ live = 0 /\ given = <<>>
  /\ opt = {} /\ wanted = [f \in Flags |-> FALSE] /\ call = "none" /\ passed = {}

Options == <<opt, wanted, call, passed>>

(* add_str and add_bytes: the values of the first are printable.           *)
AddEntry(k, value, binary) ==
  LET key == NormalizeKey(k, binary)
  IN  /\ stage = "builder" /\ Len(given) < MaxEntries
      /\ ~binary => value = "text"
      /\ key # Refused
      /\ mine' = ArrayAdd(mine, [key |-> key, value |-> value])
      /\ live' = live + 1
      /\ given' = Append(given, [name |-> k.name, value |-> value, binary |-> binary])
      /\ UNCHANGED <<stage, copy, batch, Options>>

(* build.                                                                  *)
BuildMetadata ==
  /\ stage = "builder"
  /\ stage' = "built"
  /\ mine' = Shrunk(mine)
  /\ UNCHANGED <<copy, batch, live, given, Options>>

(* Clone: a builder with the capacity for all, to which each entry of the  *)
(* iterator is added as it is, and Drop of the clone.                      *)
Cloned(a) ==
  [cap |-> Len(a.entries), entries |-> [i \in {j + 1 : j \in Iterated(a)} |-> Get(a, i - 1)[1]]]
CloneMetadata ==
  /\ stage \in {"built", "option"} /\ copy.entries = <<>>
  /\ copy' = Shrunk(Cloned(mine))
  /\ live' = live + Len(copy'.entries)
  /\ UNCHANGED <<stage, mine, batch, given, Options>>

DropClone ==
  /\ copy.entries # <<>>
  /\ live' = live - Len(copy.entries)
  /\ copy' = NewArray(0)
  /\ UNCHANGED <<stage, mine, batch, given, Options>>

(* into_raw_parts, whose destructor does not run, and from_raw_parts.      *)
IntoRawParts ==
  /\ stage = "built" /\ stage' = "raw"
  /\ UNCHANGED <<mine, copy, batch, live, given, Options>>
FromRawParts ==
  /\ stage = "raw" /\ stage' = "built"
  /\ UNCHANGED <<mine, copy, batch, live, given, Options>>

(* CallOption::headers.                                                    *)
Headers ==
  /\ stage = "built" /\ stage' = "option"
  /\ UNCHANGED <<mine, copy, batch, live, given, Options>>

(* change_flag.                                                            *)
ChangeFlag(flags, f, on) == IF on THEN flags \cup {f} ELSE flags \ {f}

(* idempotent, wait_for_ready and cacheable.                               *)
SetFlag(f, on) ==
  /\ stage = "option"
  /\ opt' = ChangeFlag(opt, f, on)
  /\ wanted' = [wanted EXCEPT ![f] = on]
  /\ UNCHANGED <<stage, mine, copy, batch, live, given, call, passed>>

(* CallOption::write_flags: the WriteFlags the user made replace those     *)
(* that were there.                                                        *)
SetWriteFlags(W) ==
  /\ stage = "option"
  /\ opt' = (opt \ WriteBits) \cup W
  /\ wanted' = [f \in Flags |-> IF f \in WriteBits THEN f \in W ELSE wanted[f]]
  /\ UNCHANGED <<stage, mine, copy, batch, live, given, call, passed>>

(* The call is started: grpcwrap_metadata_array_move, the call_flags, and  *)
(* the write flags where the request goes with the start.                  *)
Launch(kind) ==
  /\ stage = "option" /\ stage' = "launched"
  /\ batch' = mine /\ mine' = NewArray(0)
  /\ call' = kind
  /\ passed' = IF kind \in WithRequest THEN opt ELSE opt \ WriteBits
  /\ UNCHANGED <<copy, live, given, opt, wanted>>

(* Drop of the builder, of the Metadata or of the option, launched or not. *)
DropMetadata ==
  /\ stage \notin {"raw", "dropped"}
  /\ stage' = "dropped"
  /\ live' = live - Len(mine.entries)
  /\ mine' = NewArray(0)
  /\ UNCHANGED <<copy, batch, given, Options>>

(* grpcwrap_batch_context_destroy.                                         *)
DestroyBatch ==
  /\ batch.entries # <<>>
  /\ live' = live - Len(batch.entries)
  /\ batch' = NewArray(0)
  /\ UNCHANGED <<stage, mine, copy, given, Options>>

MetadataNext ==
  \/ \E k \in Keys, value \in Values, binary \in BOOLEAN : AddEntry(k, value, binary)
  \/ BuildMetadata \/ CloneMetadata \/ DropClone \/ IntoRawParts \/ FromRawParts \/ Headers
  \/ \E f \in CallFlags, on \in BOOLEAN : SetFlag(f, on)
  \/ \E W \in SUBSET WriteBits : SetWriteFlags(W)
  \/ \E kind \in Kinds : Launch(kind)
  \/ DropMetadata \/ DestroyBatch

-----------------------------------------------------------------------------
(* What an entry is to be: in lower case, with the suffix -bin when and    *)
(* only when its value was added as bytes.                                 *)
Entry(g) ==
  [key |-> [name |-> g.name, capital |-> FALSE, suffix |-> IF g.binary THEN "-bin" ELSE ""],
   value |-> g.value]

(* Wherever the headers are, in the builder, a clone, the option or the    *)
(* context of the batch (metadata.rs, grpcwrap_metadata_array_move), they  *)
(* are the accepted entries in their order, within the capacity; each      *)
(* entry is owned once, so that it is freed once; and the call is started  *)
(* with the call flags as they were last asked for (change_flag), and with *)
(* the write flags too when its start carries the request.                 *)
HeadersKept ==
  /\ \A a \in {mine, copy, batch} :
       /\ a.entries = <<>> \/ a.entries = [i \in DOMAIN given |-> Entry(given[i])]
       /\ Len(a.entries) <= a.cap
  /\ live = Len(mine.entries) + Len(copy.entries) + Len(batch.entries)
  /\ stage = "launched" =>
       \A f \in Flags : f \in passed <=> wanted[f] /\ (f \in CallFlags \/ call \in WithRequest)
=============================================================================
