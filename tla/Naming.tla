----------------------------------- MODULE Naming -----------------------------------
(***************************************************************************)
(* How the code generators make Rust names of proto names                  *)
(* (compiler/src/util.rs): NameSpliter yields the parts of a name one      *)
(* after the other, to_snake_case joins them with underscores and          *)
(* to_camel_case capitalises them.                                         *)
(*                                                                         *)
(* Of a character only its class counts: "U", a capital, "under", an       *)
(* underscore, and "l", anything else. Positions count from 0, as in the   *)
(* code, and a part is the half-open interval of its positions.            *)
(***************************************************************************)
EXTENDS Integers, Sequences

CONSTANT MaxName   \* bound on the length of a name

ASSUME MaxNameAssumption == MaxName \in Nat

VARIABLES
  name,        \* NameSpliter.name
  pos,         \* NameSpliter.pos
  parts,       \* what next() has returned
  camel        \* what to_camel_case does: "none" yet, "ok", "panic"

nameVars == <<name, pos, parts, camel>>

Classes == {"U", "l", "under"}
At(i) == name[i + 1]
From(lo, hi, c) == {i \in lo..(hi - 1) : At(i) = c}

NamingInit ==
  /\ name \in UNION {[1..n -> Classes] : n \in 1..MaxName}
  /\ pos = 0 /\ parts = <<>> /\ camel = "none"

(* The part begins behind the underscores ...                              *)
Skips(p) ==
  /\ \A i \in pos..(p - 1) : At(i) = "under"
  /\ p < Len(name) => At(p) # "under"

(* Mutant: one capital is enough.                                          *)
EndsAtOne(p, i, stop) ==
  \/ At(i) = "U" /\ From(p, i, "l") # {} /\ stop = i
  \/ At(i) = "under" /\ stop = i
  \/ At(i) = "l" /\ From(p, i, "U") # {} /\ stop = i - 1

(* ... and ends before a capital that follows something else, before an    *)
(* underscore, and before the last of several capitals ...                 *)
EndsAt(p, i, stop) ==
  \/ At(i) = "U" /\ From(p, i, "l") # {} /\ stop = i
  \/ At(i) = "under" /\ stop = i
  \/ At(i) = "l" /\ (\E j, k \in From(p, i, "U") : j # k) /\ stop = i - 1

(* ... whichever the loop meets first.                                     *)
Passes(p, i) == \A j \in p..(i - 1) : ~EndsAt(p, j, j) /\ ~EndsAt(p, j, j - 1)
PartEnds(p, stop) ==
  \/ Passes(p, Len(name)) /\ stop = Len(name)
  \/ \E i \in p..(Len(name) - 1) : Passes(p, i) /\ EndsAt(p, i, stop)

(* next. A name that ends in an underscore has an empty last part.         *)
NextPart ==
  \E p, stop \in 0..Len(name) :
    /\ pos < Len(name) /\ pos <= p /\ Skips(p) /\ PartEnds(p, stop)
    /\ parts' = Append(parts, <<p, stop>>)
    /\ pos' = stop
    /\ UNCHANGED <<name, camel>>

(* to_camel_case unwraps the first character of each part; to_snake_case   *)
(* takes the parts as they are.                                            *)
ToCamelCase ==
  /\ pos = Len(name) /\ camel = "none"
  /\ camel' = IF \E k \in DOMAIN parts : parts[k][1] = parts[k][2] THEN "panic" ELSE "ok"
  /\ UNCHANGED <<name, pos, parts>>

NamingNext == NextPart \/ ToCamelCase

-----------------------------------------------------------------------------
(* Where a word begins, seen from the whole name.                          *)
WordStart(i) ==
  /\ At(i) # "under"
  /\ \/ i = 0
     \/ At(i - 1) = "under"
     \/ At(i) = "U" /\ At(i - 1) = "l"
     \/ At(i) = "U" /\ At(i - 1) = "U" /\ i + 1 < Len(name) /\ At(i + 1) = "l"

(* The parts that are not empty.                                           *)
Words == {k \in DOMAIN parts : parts[k][1] < parts[k][2]}

(* Every part but the last is a word, and they come in order, so that the  *)
(* splitter goes forward to the end of every name. There its parts are the *)
(* words of the name: they begin where a word begins, none is left out,    *)
(* and they have every character but the underscores. to_camel_case panics *)
(* for the names that end in an underscore, no others (util.rs:24-82).     *)
NamesSplit ==
  /\ \A k \in DOMAIN parts :
       /\ k < Len(parts) => k \in Words
       /\ k > 1 => parts[k - 1][2] <= parts[k][1]
  /\ pos = Len(name) =>
       /\ {parts[k][1] : k \in Words} = {i \in 0..(Len(name) - 1) : WordStart(i)}
       /\ UNION {parts[k][1]..(parts[k][2] - 1) : k \in Words}
            = {i \in 0..(Len(name) - 1) : At(i) # "under"}
  /\ camel # "none" => (camel = "panic" <=> At(Len(name) - 1) = "under")
=============================================================================
