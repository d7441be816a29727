-------------------------------- MODULE MCServer --------------------------------
(* Server for TLC: two queues with a slot each, a call of a unary method   *)
(* and one of a method nobody registered, which takes the path of a        *)
(* streaming method up to its answer.                                      *)
EXTENDS Server
CONSTANTS q1, q2, s1, s2, c1, c2

MCSlotCq == [s \in Slots |-> IF s = s2 THEN q2 ELSE q1]
MCKind == [c \in Calls |-> IF c = c1 THEN "unary" ELSE "unknown"]
=============================================================================
