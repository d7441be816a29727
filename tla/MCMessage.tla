---------------------------------- MODULE MCMessage ----------------------------------
(* All buffers of up to three slices of at most three bytes in which no    *)
(* empty slice comes before data; keys of both kinds, in both cases, the   *)
(* suffix in both cases, a key that is only the suffix, and keys that are  *)
(* refused.                                                                *)
EXTENDS Message
Cuts(n) == {e \in [0..n -> 0..(3 * n)] :
              e[0] = 0 /\ \A i \in 1..n : e[i] - e[i - 1] \in 0..3}
MCBuffers == {b \in UNION {{[n |-> n, end |-> e] : e \in Cuts(n)} : n \in 0..3} : WellFormed(b)}
MCKeys == [name : {"a", "", "?"}, capital : BOOLEAN, suffix : {"", "-bin", "-Bin"}]
=============================================================================
