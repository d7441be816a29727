----------------------------------- MODULE Message -----------------------------------
(***************************************************************************)
(* What a call carries and who owns it: a message on its way out (Slices)  *)
(* or in (Received, which is ByteReader with the references to the slices  *)
(* it reads), the headers it starts with (Metadata) and the status it ends *)
(* with (Status). They share nothing but the context of a batch, each with *)
(* fields of its own in it, so a behaviour follows one of them.            *)
(***************************************************************************)
EXTENDS Slices, Received, Status

VARIABLE part  \* out, in, headers or status

allVars == <<part, sliceVars, recvVars, metaVars, statusVars>>

MessageInit ==
  \/ /\ part = "in" /\ ReceivedInit /\ SlicesInit /\ MetadataInit /\ StatusInit
     /\ status = Ok /\ origin = <<>> /\ mine.cap = 0
  \/ /\ part \in {"out", "headers", "status"}
     /\ ReceivedInit /\ buffer.n = 0 /\ SlicesInit /\ MetadataInit /\ StatusInit
     /\ part # "status" => status = Ok /\ origin = <<>>
     /\ part # "headers" => mine.cap = 0

MessageNext ==
  \/ part = "out" /\ SlicesNext /\ UNCHANGED <<part, recvVars, metaVars, statusVars>>
  \/ part = "in" /\ ReceivedNext /\ UNCHANGED <<part, sliceVars, metaVars, statusVars>>
  \/ part = "headers" /\ MetadataNext /\ UNCHANGED <<part, sliceVars, recvVars, statusVars>>
  \/ part = "status" /\ StatusNext /\ UNCHANGED <<part, sliceVars, recvVars, metaVars>>

(* A call of the reader goes on until it returns.                          *)
Reads == GoesOn /\ UNCHANGED <<part, sliceVars, metaVars, statusVars>>

MessageSpec == MessageInit /\ [][MessageNext]_allVars /\ WF_allVars(Reads)
=============================================================================
