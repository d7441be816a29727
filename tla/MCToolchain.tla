-------------------------------- MODULE MCToolchain --------------------------------
(* Names of up to five characters; files of one service with up to two     *)
(* methods of every kind, whose names clash in some of them, and of two    *)
(* services, one of which may be empty; targets with and without bindings. *)
EXTENDS Toolchain
Methods(names) == [name : names, cs : BOOLEAN, ss : BOOLEAN]
Service(n, ms) == [name |-> n, methods |-> ms]
(* T has words of its own, S.bar_m and SBar.m share their words, and A_B   *)
(* and AB are told apart by the path only.                                 *)
Pairs == {<<<<"s">>, <<"t">>>>, <<<<"s">>, <<"s", "bar">>>>, <<<<"a", "b">>, <<"ab">>>>}
MCFiles ==
  [package : {"", "p"},
   services :
     {<<>>}
     \cup {<<Service(<<"s">>, ms)>> : ms \in UNION {[1..k ->
             Methods({<<"m">>, <<"m", "n">>, <<"m", "opt">>, <<"new">>})] : k \in 0..2}}
     \cup {<<Service(t[1], <<m>>), Service(t[2], <<n>>)>> : t \in Pairs,
             m, n \in Methods({<<"m">>, <<"bar">>, <<"bar", "m">>})}
     \cup {<<Service(<<"s">>, <<m>>), Service(<<"t">>, <<>>)>> : m \in Methods({<<"m">>})}]
MCOne == [known |-> TRUE, bindgen |-> TRUE, ssl |-> "none"]
MCFeatures == {MCOne, [known |-> FALSE, bindgen |-> TRUE, ssl |-> "openssl"],
               [known |-> FALSE, bindgen |-> FALSE, ssl |-> "boringssl"],
               [known |-> TRUE, bindgen |-> FALSE, ssl |-> "boringssl"]}
=============================================================================
