--------------------------- MODULE MCCompletionQueue ---------------------------
(* CompletionQueue for TLC: the users u1, u2, u3 and the closers e (the    *)
(* Environment) and s (another caller of shutdown) are model values.       *)
EXTENDS CompletionQueue
CONSTANTS u1, u2, u3, e, s
=============================================================================
