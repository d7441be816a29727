--------------------------------- MODULE MCServices ---------------------------------
(* Two setters, two watchers and two StatusCast objects; a worker with two *)
(* executors.                                                              *)
EXTENDS Services
CONSTANTS p1, p2, w1, w2, k1, k2
=============================================================================
