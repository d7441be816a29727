----------------------------------- MODULE Status -----------------------------------
(***************************************************************************)
(* How the status of a call reaches the client (call/mod.rs, RpcStatus):   *)
(* the server gives core its code, its message and, as an entry of the     *)
(* trailing metadata, its details; rpc_status reads them back from the     *)
(* context of the client's batch. With the rich error model the details    *)
(* are a google.rpc.Status, and proto/src/util.rs converts between the     *)
(* two.                                                                    *)
(*                                                                         *)
(* Details are <<>> or hold the Status they encode; a Status of default    *)
(* values is encoded as no bytes.                                          *)
(***************************************************************************)
EXTENDS Metadata

CONSTANTS Codes, Texts    \* i32 codes with 0 for OK, and messages with "" among them

VARIABLES
  origin,      \* the google.rpc.Status the RpcStatus was made of, or <<>>
  status,      \* the RpcStatus it finishes the call with
  way,         \* how it does so: none yet, finish or abort
  wire,        \* what core was given
  seen         \* what the client got, or <<>>

statusVars == <<origin, status, way, wire, seen>>

Rich == [code : Codes, message : Texts]

(* RpcStatus::with_details, with_message and ok.                           *)
WithDetails(code, message, details) ==
  [code |-> code, message |-> message, details |-> details]
Ok == WithDetails(0, "", <<>>)

(* Encoding and merge_from_bytes of a google.rpc.Status.                   *)
Default == [code |-> 0, message |-> ""]
Encoded(rich) == IF rich = Default THEN <<>> ELSE <<rich>>
Decoded(details) == IF details = <<>> THEN Default ELSE details[1]

(* TryFrom<Status> for RpcStatus, and back: the details must agree with    *)
(* the code and the message.                                               *)
ToRpcStatus(rich) == WithDetails(rich.code, rich.message, Encoded(rich))
FromRpcStatus(s) ==
  LET rich == Decoded(s.details)
  IN  IF rich.code = s.code /\ rich.message = s.message THEN <<rich>> ELSE <<>>

(* A status with details of its own, with a message only, or converted.    *)
StatusInit ==
  /\ \/ \E r \in Rich : origin = <<r>> /\ status = ToRpcStatus(r)
     \/ \E r \in Rich : origin = <<>> /\ status = WithDetails(r.code, r.message, <<>>)
  /\ way = "none" /\ wire = <<>> /\ seen = <<>>

(* The arguments for core: no message with OK, and an array with one entry *)
(* when there are details.                                                 *)
Trailing(details) ==
  IF details = <<>> THEN NewArray(0)
  ELSE Shrunk(ArrayAdd(NewArray(0), [key |-> DetailsKey, value |-> details]))
OnWire(s, trailing) ==
  <<[code |-> s.code, message |-> IF s.code = 0 THEN "" ELSE s.message, trailing |-> trailing]>>

(* Mutant: the details are dropped, as abort does.                         *)
SendStatusPlain ==
  /\ way = "none"
  /\ way' = "finish"
  /\ wire' = OnWire(status, NewArray(0))
  /\ UNCHANGED <<origin, status, seen>>

(* start_send_status_from_server.                                          *)
SendStatus ==
  /\ way = "none"
  /\ way' = "finish"
  /\ wire' = OnWire(status, Trailing(status.details))
  /\ UNCHANGED <<origin, status, seen>>

(* abort: no trailing metadata.                                            *)
Abort ==
  /\ way = "none"
  /\ way' = "abort"
  /\ wire' = OnWire(status, NewArray(0))
  /\ UNCHANGED <<origin, status, seen>>

(* rpc_status: of a status that is not OK, the details are the first entry *)
(* with the key among all the metadata core received.                      *)
RpcStatus(w, other) ==
  LET trailing == [w.trailing EXCEPT !.entries = other \o @]
      found == SearchDetails(trailing)
  IN  IF w.code = 0 THEN Ok
      ELSE WithDetails(w.code, w.message, IF found = <<>> THEN <<>> ELSE found[1])

OtherEntries == {<<>>, <<[key |-> [name |-> "k", capital |-> FALSE, suffix |-> "-bin"], value |-> <<>>]>>}

GetStatus(other) ==
  /\ wire # <<>> /\ seen = <<>>
  /\ seen' = <<RpcStatus(wire[1], other)>>
  /\ UNCHANGED <<origin, status, way, wire>>

StatusNext == SendStatus \/ Abort \/ \E other \in OtherEntries : GetStatus(other)

-----------------------------------------------------------------------------
(* The client sees the code the server finished with, and its message; a   *)
(* call that failed with a google.rpc.Status and was not aborted gives     *)
(* that Status back (proto/src/util.rs), and one that is OK an empty one.  *)
StatusArrives ==
  seen # <<>> =>
    /\ seen[1].code = status.code
    /\ seen[1].message = IF status.code = 0 THEN "" ELSE status.message
    /\ origin # <<>> /\ way = "finish" =>
         FromRpcStatus(seen[1]) = IF status.code = 0 THEN <<Default>> ELSE origin
=============================================================================
