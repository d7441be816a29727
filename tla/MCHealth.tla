-------------------------------- MODULE MCHealth --------------------------------
(* Health for TLC: two setters, two watchers and two StatusCast objects.   *)
EXTENDS Health
CONSTANTS p1, p2, w1, w2, k1, k2
=============================================================================
