-------------------------------- MODULE Rundown --------------------------------
(***************************************************************************)
(* What a completion queue promises to those who start requests on it:     *)
(* while somebody holds it, it is not shut down; after it was closed       *)
(* nobody gets hold of it; and it is shut down once, when the last holder  *)
(* is gone. Nothing here is said of counters or compare-exchanges.         *)
(***************************************************************************)
CONSTANT Holders

VARIABLES
  open,      \* requests are accepted
  holding,   \* the holders of a reference
  shut       \* gRPC core's queue was shut down

vars == <<open, holding, shut>>

Init == open = TRUE /\ holding = {} /\ shut = FALSE

Borrow(h) ==
  /\ open /\ h \notin holding
  /\ holding' = holding \cup {h}
  /\ UNCHANGED <<open, shut>>

GiveBack(h) ==
  /\ h \in holding
  /\ holding' = holding \ {h}
  /\ UNCHANGED <<open, shut>>

Close ==
  /\ open
  /\ open' = FALSE
  /\ UNCHANGED <<holding, shut>>

Shut ==
  /\ ~open /\ holding = {} /\ ~shut
  /\ shut' = TRUE
  /\ UNCHANGED <<open, holding>>

Next ==
  \/ \E h \in Holders : Borrow(h) \/ GiveBack(h)
  \/ Close
  \/ Shut

Spec == Init /\ [][Next]_vars
=============================================================================
