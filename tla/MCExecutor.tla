------------------------------ MODULE MCExecutor ------------------------------
(* Executor for TLC: tasks a and b, the poll thread p with one nested poll *)
(* n, and a thread o1 of the application.                                  *)
EXTENDS Executor
CONSTANTS a, b, p, n, o1
=============================================================================
