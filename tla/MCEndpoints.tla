------------------------------- MODULE MCEndpoints -------------------------------
(* Endpoints for TLC: two poll threads, a channel, a future passed      *)
(* between two tasks; setters of each kind of conversion, one of them      *)
(* called with a name that another setter has.                             *)
EXTENDS Endpoints
CONSTANTS q1, q2, t1, t2, m1

MCInputs ==
  {[setter |-> "keepalive_time", arg |-> [secs |-> 2, ms |-> 4]],
   [setter |-> "keepalive_timeout", arg |-> [secs |-> 2, ms |-> 6]],
   [setter |-> "raw_cfg", key |-> "KEEPALIVE_TIME_MS", arg |-> 1],
   [setter |-> "primary_user_agent", arg |-> "app"],
   [setter |-> "http2_bdp_probe", arg |-> TRUE]}
=============================================================================
