------------------------------ MODULE ToolchainProofs ------------------------------
(***************************************************************************)
(* Proofs about Toolchain: for any compilers, directories, edits, failures *)
(* and kills, what cargo calls built is current (BuildInv); a maintenance  *)
(* command that is run again repairs what an interrupted one has left      *)
(* (CommandInv); names of any length are split into their words            *)
(* (SplitInv); and for any proto files the stubs of clients and servers    *)
(* meet, for both generators alike (GenInv).                               *)
(***************************************************************************)
EXTENDS Toolchain, TLAPS

-----------------------------------------------------------------------------
(* The generators of stubs.                                                *)

(* The words of names and of what the generators add to them.              *)
Lexicon == STRING \cup {"METHOD", "opt", "async", "new", "spawn"}

(* The length and the elements of a concatenation.                         *)
LEMMA Joined ==
  ASSUME NEW S, NEW a \in Seq(S), NEW b \in Seq(S)
  PROVE  /\ a \o b \in Seq(S) /\ Len(a \o b) = Len(a) + Len(b)
         /\ \A i \in 1..Len(a) : (a \o b)[i] = a[i]
         /\ \A i \in 1..Len(b) : (a \o b)[Len(a) + i] = b[i]
BY SMT

(* Two sequences of one length and the same elements are equal.            *)
LEMMA SameSeq ==
  ASSUME NEW S, NEW a \in Seq(S), NEW b \in Seq(S), Len(a) = Len(b),
         \A i \in 1..Len(a) : a[i] = b[i]
  PROVE  a = b
BY SMT

(* A common beginning can be taken away.                                   *)
LEMMA Cancel ==
  ASSUME NEW S, NEW a \in Seq(S), NEW b \in Seq(S), NEW c \in Seq(S), a \o b = a \o c
  PROVE  b = c
<1>1. Len(b) = Len(c)
  BY Joined, SMT
<1>2. \A i \in 1..Len(b) : b[i] = c[i]
  BY <1>1, Joined, SMTT(60)
<1> QED
  BY <1>1, <1>2, SameSeq, Zenon

(* Concatenation is associative; the inner ones are named.                 *)
LEMMA JoinedThrice ==
  ASSUME NEW S, NEW a \in Seq(S), NEW b \in Seq(S), NEW c \in Seq(S),
         NEW ab, ab = a \o b, NEW bc, bc = b \o c
  PROVE  ab \o c = a \o bc
BY SMTT(60)

(* What short concatenations are.                                          *)
LEMMA JoinedWords ==
  ASSUME NEW a, NEW b, NEW c, NEW d
  PROVE  /\ <<a>> \o <<b>> = <<a, b>>
         /\ <<a>> \o <<b>> \o <<c>> = <<a, b, c>>
         /\ <<a, b>> \o <<c, d>> = <<a, b, c, d>>
         /\ <<a>> \o <<>> \o <<b>> = <<a, b>>
         /\ <<>> \o <<a>> = <<a>> /\ <<a>> \o <<>> = <<a>>
         /\ <<>> \o <<>> = <<>>
<1> DEFINE S == {a, b, c, d}
<1>1. <<a>> \o <<b>> = <<a, b>>
  <2>1. <<a>> \in Seq(S) /\ <<b>> \in Seq(S) /\ Len(<<a>>) = 1 /\ Len(<<b>>) = 1
        /\ <<a, b>> \in Seq(S) /\ Len(<<a, b>>) = 2
    BY SMT
  <2>2. <<a>> \o <<b>> \in Seq(S) /\ Len(<<a>> \o <<b>>) = 2
    BY <2>1, SMT
  <2>3. (<<a>> \o <<b>>)[1] = a /\ (<<a>> \o <<b>>)[2] = b
    BY <2>1, SMT
  <2>4. <<a, b>>[1] = a /\ <<a, b>>[2] = b
    BY SMT
  <2>5. \A i \in 1..2 : i = 1 \/ i = 2
    BY SMT
  <2>6. \A i \in 1..2 : (<<a>> \o <<b>>)[i] = <<a, b>>[i]
    BY <2>3, <2>4, <2>5, Zenon
  <2> QED
    BY <2>1, <2>2, <2>6, SameSeq, Zenon
<1>2. <<a, b>> \o <<c>> = <<a, b, c>>
  <2>1. <<a, b>> \in Seq(S) /\ <<c>> \in Seq(S) /\ Len(<<a, b>>) = 2 /\ Len(<<c>>) = 1
        /\ <<a, b, c>> \in Seq(S) /\ Len(<<a, b, c>>) = 3
    BY SMT
  <2>2. <<a, b>> \o <<c>> \in Seq(S) /\ Len(<<a, b>> \o <<c>>) = 3
    BY <2>1, SMT
  <2>3. (<<a, b>> \o <<c>>)[1] = a /\ (<<a, b>> \o <<c>>)[2] = b /\ (<<a, b>> \o <<c>>)[3] = c
    BY <2>1, SMT
  <2>4. <<a, b, c>>[1] = a /\ <<a, b, c>>[2] = b /\ <<a, b, c>>[3] = c
    BY SMT
  <2>5. \A i \in 1..3 : i = 1 \/ i = 2 \/ i = 3
    BY SMT
  <2>6. \A i \in 1..3 : (<<a, b>> \o <<c>>)[i] = <<a, b, c>>[i]
    BY <2>3, <2>4, <2>5, Zenon
  <2> QED
    BY <2>1, <2>2, <2>6, SameSeq, Zenon
<1>3. <<a, b>> \o <<c, d>> = <<a, b, c, d>>
  <2>1. <<a, b>> \in Seq(S) /\ <<c, d>> \in Seq(S) /\ Len(<<a, b>>) = 2 /\ Len(<<c, d>>) = 2
        /\ <<a, b, c, d>> \in Seq(S) /\ Len(<<a, b, c, d>>) = 4
    BY SMT
  <2>2. <<a, b>> \o <<c, d>> \in Seq(S) /\ Len(<<a, b>> \o <<c, d>>) = 4
    BY <2>1, SMT
  <2>3. (<<a, b>> \o <<c, d>>)[1] = a /\ (<<a, b>> \o <<c, d>>)[2] = b /\ (<<a, b>> \o <<c, d>>)[3] = c /\ (<<a, b>> \o <<c, d>>)[4] = d
    BY <2>1, SMT
  <2>4. <<a, b, c, d>>[1] = a /\ <<a, b, c, d>>[2] = b /\ <<a, b, c, d>>[3] = c /\ <<a, b, c, d>>[4] = d
    BY SMT
  <2>5. \A i \in 1..4 : i = 1 \/ i = 2 \/ i = 3 \/ i = 4
    BY SMT
  <2>6. \A i \in 1..4 : (<<a, b>> \o <<c, d>>)[i] = <<a, b, c, d>>[i]
    BY <2>3, <2>4, <2>5, Zenon
  <2> QED
    BY <2>1, <2>2, <2>6, SameSeq, Zenon
<1>4. <<>> \o <<a>> = <<a>> /\ <<a>> \o <<>> = <<a>>
  BY SMT
<1>5. <<>> \o <<>> = <<>>
  BY SMT
<1> QED
  BY <1>1, <1>2, <1>3, <1>4, <1>5, Zenon

(* The elements of short sequences.                                        *)
LEMMA ElementsOf ==
  ASSUME NEW a, NEW b, NEW c, NEW d
  PROVE  /\ Elements(<<>>) = {} /\ Elements(<<a>>) = {a} /\ Elements(<<a, b>>) = {a, b}
         /\ Elements(<<a, b, c, d>>) = {a, b, c, d}
<1>1. DOMAIN <<>> = {} /\ DOMAIN <<a>> = {1} /\ DOMAIN <<a, b>> = {1, 2} /\ DOMAIN <<a, b, c, d>> = {1, 2, 3, 4}
  BY SMT
<1>2. /\ <<a>>[1] = a /\ <<a, b>>[1] = a /\ <<a, b>>[2] = b
      /\ <<a, b, c, d>>[1] = a /\ <<a, b, c, d>>[2] = b /\ <<a, b, c, d>>[3] = c /\ <<a, b, c, d>>[4] = d
  BY SMT
<1>3. Elements(<<>>) = {} 
  BY <1>1, Zenon DEF Elements
<1>4. Elements(<<a>>) = {a}
  BY <1>1, <1>2, Zenon DEF Elements
<1>5. Elements(<<a, b>>) = {a, b}
  BY <1>1, <1>2, Zenon DEF Elements
<1>6. Elements(<<a, b, c, d>>) = {a, b, c, d}
  BY <1>1, <1>2, Zenon DEF Elements
<1> QED
  BY <1>3, <1>4, <1>5, <1>6, Zenon

(* The name of a method of a file is a word or more, and its streaming     *)
(* flags are Booleans.                                                     *)
LEMMA NamesTyped ==
  ASSUME NEW m \in ProtoMethods
  PROVE  m.name \in Seq(Lexicon) /\ m.name # <<>> /\ m.cs \in BOOLEAN /\ m.ss \in BOOLEAN
BY SMT DEF ProtoMethods, ProtoName, Lexicon

(* The two generators' names for the kinds of methods are the same.        *)
LEMMA TypesAgree ==
  ASSUME NEW m
  PROVE  FromMethod(m) = MethodTypeOf(m)
BY Zenon DEF FromMethod, MethodTypeOf

(* A method has one of four kinds, by its two streaming flags.             *)
LEMMA TypeCases ==
  ASSUME NEW m \in ProtoMethods
  PROVE  \/ ~m.cs /\ ~m.ss /\ MethodTypeOf(m) = "Unary"
         \/ m.cs /\ ~m.ss /\ MethodTypeOf(m) = "ClientStreaming"
         \/ ~m.cs /\ m.ss /\ MethodTypeOf(m) = "ServerStreaming"
         \/ m.cs /\ m.ss /\ MethodTypeOf(m) = "Duplex"
<1>1. m.cs \in BOOLEAN /\ m.ss \in BOOLEAN
  BY NamesTyped, Zenon
<1> QED
  BY <1>1, SMT DEF MethodTypeOf

(* The constants.                                                          *)
LEMMA ConstsAgree ==
  ASSUME NEW s, NEW m
  PROVE  /\ ProstConstMethodName(s, m) = ConstMethodName(s, m).words
         /\ GenerateMethod(s, m) = WriteDefinition(s, m)
<1>1. ProstConstMethodName(s, m) = ConstMethodName(s, m).words
  BY Zenon DEF ProstConstMethodName, ConstMethodName
<1>2. ConstMethodName(s, m).path = Append(ServicePath(s), m.name)
  BY Zenon DEF ConstMethodName
<1>3. ProstServicePath(s) = ServicePath(s)
  BY Zenon DEF ProstServicePath, ServicePath
<1>4. GenerateMethod(s, m) = WriteDefinition(s, m)
  BY <1>1, <1>2, <1>3, TypesAgree, Zenon DEF GenerateMethod, WriteDefinition
<1> QED
  BY <1>1, <1>4

(* The server's side.                                                      *)
LEMMA ServersAgree ==
  ASSUME NEW s, NEW m \in ProtoMethods, NEW instance
  PROVE  /\ GenerateServerMethod(m) = WriteService(m)
         /\ GenerateMethodBind(s, m, instance) = WriteBind(s, m, instance)
<1>1. GenerateMethodBind(s, m, instance) = WriteBind(s, m, instance)
  BY ConstsAgree, TypesAgree, Zenon DEF GenerateMethodBind, WriteBind
<1>2. GenerateServerMethod(m) = WriteService(m)
  <2>1. CASE MethodTypeOf(m) = "Unary"
    BY <2>1, TypesAgree, SMT DEF GenerateServerMethod, WriteService
  <2>2. CASE MethodTypeOf(m) = "ClientStreaming"
    BY <2>2, TypesAgree, SMT DEF GenerateServerMethod, WriteService
  <2>3. CASE MethodTypeOf(m) = "ServerStreaming"
    BY <2>3, TypesAgree, SMT DEF GenerateServerMethod, WriteService
  <2>4. CASE MethodTypeOf(m) = "Duplex"
    BY <2>4, TypesAgree, SMT DEF GenerateServerMethod, WriteService
  <2> QED
    BY <2>1, <2>2, <2>3, <2>4, TypeCases, Zenon
<1> QED
  BY <1>1, <1>2

(* A client's function of a method: whether it is the asynchronous one,    *)
(* and whether it takes options.                                           *)
Variant(async, opt) ==
  IF async THEN IF opt THEN <<"async", "opt">> ELSE <<"async">> ELSE IF opt THEN <<"opt">> ELSE <<>>
Req(m) == MethodTypeOf(m) \in {"Unary", "ServerStreaming"}
Ret(m, async) ==
  CASE MethodTypeOf(m) = "Unary" /\ ~async -> <<"Resp">>
    [] MethodTypeOf(m) = "Unary" /\ async -> <<"ClientUnaryReceiver">>
    [] MethodTypeOf(m) = "ClientStreaming" -> <<"ClientCStreamSender", "ClientCStreamReceiver">>
    [] MethodTypeOf(m) = "ServerStreaming" -> <<"ClientSStreamReceiver">>
    [] MethodTypeOf(m) = "Duplex" -> <<"ClientDuplexSender", "ClientDuplexReceiver">>
Fn(s, m, async, opt) ==
  [name |-> m.name \o Variant(async, opt), args |-> If(Req(m), "req") \o If(opt, "opt"),
   ret |-> Ret(m, async), on |-> IF opt THEN "client" ELSE "self",
   calls |-> IF opt THEN <<Kind(m)[1]>> \o If(async, "async") ELSE m.name \o Variant(async, TRUE),
   with |-> IF opt THEN <<ConstMethodName(s, m).words>> \o If(Req(m), "req") \o <<"opt">>
                   ELSE If(Req(m), "req") \o <<"default">>]
Fns(s, m) ==
  IF MethodTypeOf(m) = "Unary"
  THEN <<Fn(s, m, FALSE, TRUE), Fn(s, m, FALSE, FALSE), Fn(s, m, TRUE, TRUE), Fn(s, m, TRUE, FALSE)>>
  ELSE <<Fn(s, m, FALSE, TRUE), Fn(s, m, FALSE, FALSE)>>

(* The suffixes of a client's function say which of the four it is.        *)
LEMMA VariantTyped ==
  ASSUME NEW async \in BOOLEAN, NEW opt \in BOOLEAN
  PROVE  /\ Variant(async, opt) \in Seq(Lexicon) /\ Variant(async, opt) \in Variants
         /\ "opt" \in Elements(Variant(async, opt)) <=> opt
         /\ "async" \in Elements(Variant(async, opt)) <=> async
         /\ Variant(async, opt) = If(async, "async") \o If(opt, "opt")
         /\ If(async, "async") \in Seq(Lexicon) /\ If(opt, "opt") \in Seq(Lexicon)
<1> DEFINE none == <<>>
           o == <<"opt">>
           a == <<"async">>
           ao == <<"async", "opt">>
<1>1. none \in Seq(Lexicon) /\ o \in Seq(Lexicon) /\ a \in Seq(Lexicon) /\ ao \in Seq(Lexicon)
  BY SMT DEF Lexicon
<1>2. Elements(none) = {} /\ Elements(o) = {"opt"} /\ Elements(a) = {"async"} /\ Elements(ao) = {"async", "opt"}
  BY ElementsOf, Zenon
<1>3. a \o o = ao /\ a \o none = a /\ none \o o = o /\ none \o none = none
  BY JoinedWords, Zenon
<1>4. Variants = {none, o, a, ao}
  BY Zenon DEF Variants
<1>5. /\ Variant(async, opt) = IF async THEN IF opt THEN ao ELSE a ELSE IF opt THEN o ELSE none
      /\ If(async, "async") = IF async THEN a ELSE none
      /\ If(opt, "opt") = IF opt THEN o ELSE none
  BY Zenon DEF Variant, If
<1> HIDE DEF none, o, a, ao
<1>6. CASE async /\ opt
  BY <1>1, <1>2, <1>3, <1>4, <1>5, <1>6, Zenon
<1>7. CASE async /\ ~opt
  BY <1>1, <1>2, <1>3, <1>4, <1>5, <1>7, Zenon
<1>8. CASE ~async /\ opt
  BY <1>1, <1>2, <1>3, <1>4, <1>5, <1>8, Zenon
<1>9. CASE ~async /\ ~opt
  BY <1>1, <1>2, <1>3, <1>4, <1>5, <1>9, Zenon
<1> QED
  BY <1>6, <1>7, <1>8, <1>9, Zenon

(* The suffixes of a function's name are added one after the other.        *)
LEMMA VariantName ==
  ASSUME NEW m \in ProtoMethods, NEW async \in BOOLEAN, NEW opt \in BOOLEAN
  PROVE  m.name \o If(async, "async") \o If(opt, "opt") = m.name \o Variant(async, opt)
<1>1. m.name \in Seq(Lexicon)
  BY NamesTyped, Zenon
<1>2. If(async, "async") \in Seq(Lexicon) /\ If(opt, "opt") \in Seq(Lexicon)
      /\ Variant(async, opt) = If(async, "async") \o If(opt, "opt")
  BY VariantTyped, Zenon
<1> DEFINE n == m.name
           a == If(async, "async")
           b == If(opt, "opt")
           c == Variant(async, opt)
<1>3. n \in Seq(Lexicon) /\ a \in Seq(Lexicon) /\ b \in Seq(Lexicon) /\ c = a \o b
  BY <1>1, <1>2, Zenon
<1> HIDE DEF n, a, b, c
<1>4. n \o a \o b = n \o c
  <2>1. PICK na : na = n \o a
    BY Zenon
  <2>2. na \o b = n \o c
    BY <1>3, <2>1, JoinedThrice, SMTT(60)
  <2> QED
    BY <2>1, <2>2, Zenon
<1> QED
  BY <1>4, Zenon DEF n, a, b, c

(* A function that prost_codegen writes (ClientMethod::generate,           *)
(* prost_codegen.rs:365-437) is the one named Fn.                          *)
LEMMA ProstFunction ==
  ASSUME NEW s, NEW m \in ProtoMethods, NEW async \in BOOLEAN, NEW opt \in BOOLEAN
  PROVE  ClientMethod(s, m, opt, Req(m), async, Ret(m, async), Kind(m)[1]) = Fn(s, m, async, opt)
<1>1. m.name \o If(async, "async") \o If(opt, "opt") = m.name \o Variant(async, opt)
  BY VariantName, Zenon
<1>2. m.name \o If(async, "async") \o <<"opt">> = m.name \o Variant(async, TRUE)
  <2>1. m.name \o If(async, "async") \o If(TRUE, "opt") = m.name \o Variant(async, TRUE)
    BY VariantName, Zenon
  <2> QED
    BY <2>1, Zenon DEF If
<1>3. ProstConstMethodName(s, m) = ConstMethodName(s, m).words
  BY ConstsAgree, Zenon
<1>4. CASE opt
  BY <1>1, <1>3, <1>4, Zenon DEF ClientMethod, Fn, GenerateInnerBody
<1>5. CASE ~opt
  BY <1>1, <1>2, <1>5, Zenon DEF ClientMethod, Fn, GenerateOptBody
<1> QED
  BY <1>4, <1>5, Zenon

(* generate_client_method (prost_codegen.rs:191-362) writes the functions  *)
(* of a method, in order.                                                  *)
LEMMA ProstClient ==
  ASSUME NEW s, NEW m \in ProtoMethods
  PROVE  GenerateClientMethod(s, m) = Fns(s, m)
<1> DEFINE Both(req, async, rets, inner) ==
             <<ClientMethod(s, m, TRUE, req, async, rets, inner),
               ClientMethod(s, m, FALSE, req, async, rets, inner)>>
           now == Both(TRUE, FALSE, <<"Resp">>, "unary_call")
           later == Both(TRUE, TRUE, <<"ClientUnaryReceiver">>, "unary_call")
           cs == Both(FALSE, FALSE, <<"ClientCStreamSender", "ClientCStreamReceiver">>, "client_streaming")
           ss == Both(TRUE, FALSE, <<"ClientSStreamReceiver">>, "server_streaming")
           duplex == Both(FALSE, FALSE, <<"ClientDuplexSender", "ClientDuplexReceiver">>, "duplex_streaming")
           unary == now \o later
           ty == MethodTypeOf(m)
           Made(async) == <<Fn(s, m, async, TRUE), Fn(s, m, async, FALSE)>>
<1>0. FromMethod(m) = ty
  BY TypesAgree, Zenon
<1>1. GenerateClientMethod(s, m) =
        CASE ty = "Unary" -> unary [] ty = "ClientStreaming" -> cs
          [] ty = "ServerStreaming" -> ss [] ty = "Duplex" -> duplex
  BY <1>0, Zenon DEF GenerateClientMethod
<1>2. /\ \A async \in BOOLEAN :
           /\ ClientMethod(s, m, TRUE, Req(m), async, Ret(m, async), Kind(m)[1]) = Fn(s, m, async, TRUE)
           /\ ClientMethod(s, m, FALSE, Req(m), async, Ret(m, async), Kind(m)[1]) = Fn(s, m, async, FALSE)
  BY ProstFunction, Zenon
<1>3. \A async \in BOOLEAN : Both(Req(m), async, Ret(m, async), Kind(m)[1]) = Made(async)
  BY <1>2, Zenon
<1>4. ty = "Unary" => now = Made(FALSE) /\ later = Made(TRUE)
  <2> SUFFICES ASSUME ty = "Unary" PROVE now = Made(FALSE) /\ later = Made(TRUE)
    BY Zenon
  <2>1. ~m.cs /\ ~m.ss
    BY TypeCases, SMT
  <2>2. Kind(m)[1] = "unary_call" /\ Ret(m, FALSE) = <<"Resp">> /\ Ret(m, TRUE) = <<"ClientUnaryReceiver">>
    BY <2>1, SMT DEF Kind, Ret
  <2>3. Req(m) = TRUE
    BY SMT DEF Req
  <2> QED
    BY <1>3, <2>2, <2>3, Zenon
<1>5. ty = "ClientStreaming" => cs = Made(FALSE)
  <2> SUFFICES ASSUME ty = "ClientStreaming" PROVE cs = Made(FALSE)
    BY Zenon
  <2>1. m.cs /\ ~m.ss
    BY TypeCases, SMT
  <2>2. Kind(m)[1] = "client_streaming" /\ Ret(m, FALSE) = <<"ClientCStreamSender", "ClientCStreamReceiver">>
    BY <2>1, SMT DEF Kind, Ret
  <2>3. Req(m) = FALSE
    BY SMT DEF Req
  <2> QED
    BY <1>3, <2>2, <2>3, Zenon
<1>6. ty = "ServerStreaming" => ss = Made(FALSE)
  <2> SUFFICES ASSUME ty = "ServerStreaming" PROVE ss = Made(FALSE)
    BY Zenon
  <2>1. ~m.cs /\ m.ss
    BY TypeCases, SMT
  <2>2. Kind(m)[1] = "server_streaming" /\ Ret(m, FALSE) = <<"ClientSStreamReceiver">>
    BY <2>1, SMT DEF Kind, Ret
  <2>3. Req(m) = TRUE
    BY SMT DEF Req
  <2> QED
    BY <1>3, <2>2, <2>3, Zenon
<1>7. ty = "Duplex" => duplex = Made(FALSE)
  <2> SUFFICES ASSUME ty = "Duplex" PROVE duplex = Made(FALSE)
    BY Zenon
  <2>1. m.cs /\ m.ss
    BY TypeCases, SMT
  <2>2. Kind(m)[1] = "duplex_streaming" /\ Ret(m, FALSE) = <<"ClientDuplexSender", "ClientDuplexReceiver">>
    BY <2>1, SMT DEF Kind, Ret
  <2>3. Req(m) = FALSE
    BY SMT DEF Req
  <2> QED
    BY <1>3, <2>2, <2>3, Zenon
<1>8. Made(FALSE) \o Made(TRUE) =
        <<Fn(s, m, FALSE, TRUE), Fn(s, m, FALSE, FALSE), Fn(s, m, TRUE, TRUE), Fn(s, m, TRUE, FALSE)>>
  BY JoinedWords, ZenonT(60)
<1>9. ty \in {"Unary", "ClientStreaming", "ServerStreaming", "Duplex"}
  BY TypeCases, Zenon
<1>10. /\ ty = "Unary" => Fns(s, m) = Made(FALSE) \o Made(TRUE)
       /\ ty # "Unary" => Fns(s, m) = Made(FALSE)
  BY <1>8, Zenon DEF Fns
<1> DEFINE none == Made(FALSE) some == Made(TRUE)
<1>11. /\ ty = "Unary" => now = none /\ later = some /\ Fns(s, m) = none \o some
       /\ ty # "Unary" => Fns(s, m) = none
       /\ ty = "ClientStreaming" => cs = none
       /\ ty = "ServerStreaming" => ss = none
       /\ ty = "Duplex" => duplex = none
  BY <1>4, <1>5, <1>6, <1>7, <1>10, Zenon
<1>12. ty = "Unary" => unary = none \o some
  BY <1>11, Zenon
<1> HIDE DEF ty, unary, cs, ss, duplex, none, some, now, later, Made, Both
<1>13. /\ ty = "Unary" => GenerateClientMethod(s, m) = unary
       /\ ty = "ClientStreaming" => GenerateClientMethod(s, m) = cs
       /\ ty = "ServerStreaming" => GenerateClientMethod(s, m) = ss
       /\ ty = "Duplex" => GenerateClientMethod(s, m) = duplex
  BY <1>1, SMT
<1> QED
  BY <1>9, <1>11, <1>12, <1>13, Zenon

(* The signatures the plugin writes (codegen.rs:277-392).                  *)
LEMMA PluginSignature ==
  ASSUME NEW m \in ProtoMethods, NEW async \in BOOLEAN, NEW opt \in BOOLEAN
  PROVE  /\ Signature(m, Variant(async, opt)).name = m.name \o Variant(async, opt)
         /\ Signature(m, Variant(async, opt)).args = If(Req(m), "req") \o If(opt, "opt")
         /\ Signature(m, Variant(async, opt)).ret = Ret(m, async)
<1> DEFINE z == Variant(async, opt)
           ty == MethodTypeOf(m)
           resp == <<"Resp">>
           later == <<"ClientUnaryReceiver">>
           cs == <<"ClientCStreamSender", "ClientCStreamReceiver">>
           ss == <<"ClientSStreamReceiver">>
           duplex == <<"ClientDuplexSender", "ClientDuplexReceiver">>
           inA == "async" \in Elements(z)
           ret == CASE ty = "Unary" /\ "async" \notin Elements(z) -> resp
                    [] ty = "Unary" /\ "async" \in Elements(z) -> later
                    [] ty = "ClientStreaming" -> cs
                    [] ty = "ServerStreaming" -> ss
                    [] ty = "Duplex" -> duplex
<1>1. /\ "opt" \in Elements(z) <=> opt
      /\ "async" \in Elements(z) <=> async
  BY VariantTyped, Zenon
<1>2. Ret(m, async) = CASE ty = "Unary" /\ ~async -> resp
                        [] ty = "Unary" /\ async -> later
                        [] ty = "ClientStreaming" -> cs
                        [] ty = "ServerStreaming" -> ss
                        [] ty = "Duplex" -> duplex
  BY Zenon DEF Ret
<1>3. ret = Ret(m, async)
  <2>1. ty \in {"Unary", "ClientStreaming", "ServerStreaming", "Duplex"}
    BY TypeCases, Zenon
  <2> HIDE DEF ty, z, resp, later, cs, ss, duplex
  <2>2. CASE ty = "Unary" /\ async
    BY <1>1, <1>2, <2>2, SMT
  <2>3. CASE ty = "Unary" /\ ~async
    BY <1>1, <1>2, <2>3, SMT
  <2>4. CASE ty = "ClientStreaming"
    BY <1>1, <1>2, <2>4, SMT
  <2>5. CASE ty = "ServerStreaming"
    BY <1>1, <1>2, <2>5, SMT
  <2>6. CASE ty = "Duplex"
    BY <1>1, <1>2, <2>6, SMT
  <2> QED
    BY <2>1, <2>2, <2>3, <2>4, <2>5, <2>6, Zenon
<1>4. /\ Signature(m, z).name = m.name \o z
      /\ Signature(m, z).args = (IF ty \in {"Unary", "ServerStreaming"} THEN <<"req">> ELSE <<>>)
                                  \o (IF "opt" \in Elements(z) THEN <<"opt">> ELSE <<>>)
      /\ Signature(m, z).ret = ret
  BY Zenon DEF Signature
<1>5. (IF ty \in {"Unary", "ServerStreaming"} THEN <<"req">> ELSE <<>>) = If(Req(m), "req")
  BY Zenon DEF If, Req
<1>6. (IF "opt" \in Elements(z) THEN <<"opt">> ELSE <<>>) = If(opt, "opt")
  BY <1>1, Zenon DEF If
<1>7. Signature(m, z).args = If(Req(m), "req") \o If(opt, "opt") /\ Signature(m, z).ret = Ret(m, async)
  BY <1>3, <1>4, <1>5, <1>6, Zenon
<1> QED
  BY <1>4, <1>7, Zenon

(* write_client of the plugin (codegen.rs:394-490) writes the same         *)
(* functions, in the same order.                                           *)
LEMMA PluginClient ==
  ASSUME NEW s, NEW m \in ProtoMethods
  PROVE  MethodWriteClient(s, m) = Fns(s, m)
<1> DEFINE c == ConstMethodName(s, m).words
           ty == MethodTypeOf(m)
           F(async, opt) == Fn(s, m, async, opt)
           Streaming(inner, req) ==
             <<PubFn(Signature(m, <<"opt">>), "client", inner, <<c>> \o req \o <<"opt">>),
               PubFn(Signature(m, <<>>), "self", m.name \o <<"opt">>, req \o <<"default">>)>>
           unary ==
             <<PubFn(Signature(m, <<"opt">>), "client", <<"unary_call">>, <<c, "req", "opt">>),
               PubFn(Signature(m, <<>>), "self", m.name \o <<"opt">>, <<"req", "default">>),
               PubFn(Signature(m, <<"async", "opt">>), "client", <<"unary_call", "async">>,
                     <<c, "req", "opt">>),
               PubFn(Signature(m, <<"async">>), "self", m.name \o <<"async", "opt">>,
                     <<"req", "default">>)>>
           cs == Streaming(<<"client_streaming">>, <<>>)
           ss == Streaming(<<"server_streaming">>, <<"req">>)
           duplex == Streaming(<<"duplex_streaming">>, <<>>)
<1>1. MethodWriteClient(s, m) =
        CASE ty = "Unary" -> unary [] ty = "ClientStreaming" -> cs
          [] ty = "ServerStreaming" -> ss [] ty = "Duplex" -> duplex
  BY Zenon DEF MethodWriteClient
<1>2. \A async \in BOOLEAN :
        PubFn(Signature(m, Variant(async, TRUE)), "client", <<Kind(m)[1]>> \o If(async, "async"),
              <<c>> \o If(Req(m), "req") \o <<"opt">>) = F(async, TRUE)
  BY PluginSignature, Zenon DEF PubFn, Fn
<1>3. \A async \in BOOLEAN :
        PubFn(Signature(m, Variant(async, FALSE)), "self", m.name \o Variant(async, TRUE),
              If(Req(m), "req") \o <<"default">>) = F(async, FALSE)
  BY PluginSignature, Zenon DEF PubFn, Fn
<1>4. /\ Variant(FALSE, FALSE) = <<>> /\ Variant(FALSE, TRUE) = <<"opt">>
      /\ Variant(TRUE, FALSE) = <<"async">> /\ Variant(TRUE, TRUE) = <<"async", "opt">>
  BY Zenon DEF Variant
<1>5. ty = "Unary" =>
        unary = <<F(FALSE, TRUE), F(FALSE, FALSE), F(TRUE, TRUE), F(TRUE, FALSE)>>
  <2> SUFFICES ASSUME ty = "Unary"
               PROVE  unary = <<F(FALSE, TRUE), F(FALSE, FALSE), F(TRUE, TRUE), F(TRUE, FALSE)>>
    BY Zenon
  <2>1. ~m.cs /\ ~m.ss
    BY TypeCases, SMT
  <2>2. Kind(m)[1] = "unary_call"
    BY <2>1, SMT DEF Kind
  <2>3. Req(m) = TRUE
    BY SMT DEF Req
  <2>4. /\ If(Req(m), "req") = <<"req">> /\ If(FALSE, "async") = <<>> /\ If(TRUE, "async") = <<"async">>
        /\ <<"unary_call">> \o <<>> = <<"unary_call">> /\ <<"unary_call">> \o <<"async">> = <<"unary_call", "async">>
        /\ <<c>> \o <<"req">> \o <<"opt">> = <<c, "req", "opt">> /\ <<"req">> \o <<"default">> = <<"req", "default">>
    BY <2>3, JoinedWords, Zenon DEF If
  <2>5. /\ PubFn(Signature(m, <<"opt">>), "client", <<"unary_call">>, <<c, "req", "opt">>) = F(FALSE, TRUE)
        /\ PubFn(Signature(m, <<"async", "opt">>), "client", <<"unary_call", "async">>, <<c, "req", "opt">>)
             = F(TRUE, TRUE)
    BY <1>2, <1>4, <2>2, <2>4, Zenon
  <2>6. /\ PubFn(Signature(m, <<>>), "self", m.name \o <<"opt">>, <<"req", "default">>) = F(FALSE, FALSE)
        /\ PubFn(Signature(m, <<"async">>), "self", m.name \o <<"async", "opt">>, <<"req", "default">>)
             = F(TRUE, FALSE)
    BY <1>3, <1>4, <2>4, Zenon
  <2> QED
    BY <2>5, <2>6, Zenon
<1>6. ty = "ClientStreaming" => cs = <<F(FALSE, TRUE), F(FALSE, FALSE)>>
  <2> SUFFICES ASSUME ty = "ClientStreaming" PROVE cs = <<F(FALSE, TRUE), F(FALSE, FALSE)>>
    BY Zenon
  <2>1. m.cs /\ ~m.ss
    BY TypeCases, SMT
  <2>2. Kind(m)[1] = "client_streaming"
    BY <2>1, SMT DEF Kind
  <2>3. Req(m) = FALSE
    BY SMT DEF Req
  <2>4. If(Req(m), "req") = <<>> /\ If(FALSE, "async") = <<>> /\ <<"client_streaming">> \o <<>> = <<"client_streaming">>
    BY <2>3, JoinedWords, Zenon DEF If
  <2>5. /\ PubFn(Signature(m, <<"opt">>), "client", <<"client_streaming">>, <<c>> \o <<>> \o <<"opt">>) = F(FALSE, TRUE)
        /\ PubFn(Signature(m, <<>>), "self", m.name \o <<"opt">>, <<>> \o <<"default">>) = F(FALSE, FALSE)
    BY <1>2, <1>3, <1>4, <2>2, <2>4, Zenon
  <2> QED
    BY <2>5, Zenon
<1>7. ty = "ServerStreaming" => ss = <<F(FALSE, TRUE), F(FALSE, FALSE)>>
  <2> SUFFICES ASSUME ty = "ServerStreaming" PROVE ss = <<F(FALSE, TRUE), F(FALSE, FALSE)>>
    BY Zenon
  <2>1. ~m.cs /\ m.ss
    BY TypeCases, SMT
  <2>2. Kind(m)[1] = "server_streaming"
    BY <2>1, SMT DEF Kind
  <2>3. Req(m) = TRUE
    BY SMT DEF Req
  <2>4. If(Req(m), "req") = <<"req">> /\ If(FALSE, "async") = <<>> /\ <<"server_streaming">> \o <<>> = <<"server_streaming">>
    BY <2>3, JoinedWords, Zenon DEF If
  <2>5. /\ PubFn(Signature(m, <<"opt">>), "client", <<"server_streaming">>, <<c>> \o <<"req">> \o <<"opt">>) = F(FALSE, TRUE)
        /\ PubFn(Signature(m, <<>>), "self", m.name \o <<"opt">>, <<"req">> \o <<"default">>) = F(FALSE, FALSE)
    BY <1>2, <1>3, <1>4, <2>2, <2>4, Zenon
  <2> QED
    BY <2>5, Zenon
<1>8. ty = "Duplex" => duplex = <<F(FALSE, TRUE), F(FALSE, FALSE)>>
  <2> SUFFICES ASSUME ty = "Duplex" PROVE duplex = <<F(FALSE, TRUE), F(FALSE, FALSE)>>
    BY Zenon
  <2>1. m.cs /\ m.ss
    BY TypeCases, SMT
  <2>2. Kind(m)[1] = "duplex_streaming"
    BY <2>1, SMT DEF Kind
  <2>3. Req(m) = FALSE
    BY SMT DEF Req
  <2>4. If(Req(m), "req") = <<>> /\ If(FALSE, "async") = <<>> /\ <<"duplex_streaming">> \o <<>> = <<"duplex_streaming">>
    BY <2>3, JoinedWords, Zenon DEF If
  <2>5. /\ PubFn(Signature(m, <<"opt">>), "client", <<"duplex_streaming">>, <<c>> \o <<>> \o <<"opt">>) = F(FALSE, TRUE)
        /\ PubFn(Signature(m, <<>>), "self", m.name \o <<"opt">>, <<>> \o <<"default">>) = F(FALSE, FALSE)
    BY <1>2, <1>3, <1>4, <2>2, <2>4, Zenon
  <2> QED
    BY <2>5, Zenon
<1>9. ty \in {"Unary", "ClientStreaming", "ServerStreaming", "Duplex"}
  BY TypeCases, Zenon
<1>10. /\ ty = "Unary" => Fns(s, m) = unary
       /\ ty = "ClientStreaming" => Fns(s, m) = cs
       /\ ty = "ServerStreaming" => Fns(s, m) = ss
       /\ ty = "Duplex" => Fns(s, m) = duplex
  BY <1>5, <1>6, <1>7, <1>8, Zenon DEF Fns
<1> HIDE DEF ty, unary, cs, ss, duplex, Streaming, F, c
<1>11. /\ ty = "Unary" => MethodWriteClient(s, m) = unary
       /\ ty = "ClientStreaming" => MethodWriteClient(s, m) = cs
       /\ ty = "ServerStreaming" => MethodWriteClient(s, m) = ss
       /\ ty = "Duplex" => MethodWriteClient(s, m) = duplex
  BY <1>1, SMT
<1> QED
  BY <1>9, <1>10, <1>11, Zenon

(* The stub of a service, as far as a generator has come.                  *)
Defined(s) == [i \in DOMAIN s.methods |-> WriteDefinition(s, s.methods[i])]
ClientFunctions(s) == [i \in DOMAIN s.methods |-> Fns(s, s.methods[i])]
Past(a, k, stages) == k < a.service \/ (k = a.service /\ a.stage \in stages)
Built(a, k) ==
  LET s == file.services[k] IN
  [consts |-> IF Past(a, k, {"client", "server", "panic", "done"}) THEN Defined(s) ELSE <<>>,
   first |-> IF Past(a, k, {"server", "panic", "done"}) THEN Ctor ELSE <<>>,
   fns |-> IF Past(a, k, {"server", "panic", "done"}) THEN ClientFunctions(s) ELSE <<>>,
   last |-> IF Past(a, k, {"server", "panic", "done"}) THEN Spawn ELSE <<>>,
   handlers |-> IF Past(a, k, {"done"}) THEN WriteServer(s).handlers ELSE <<>>,
   binds |-> IF Past(a, k, {"done"}) THEN WriteServer(s).binds ELSE <<>>]

GeneratorStages == {"start", "none", "failed", "definitions", "client", "server", "panic", "done"}
Positions == [stage : GeneratorStages, service : Nat \ {0}]
PlaceInv(a) ==
  /\ a \in Positions
  /\ a.stage \in {"start", "none", "failed"} => a.service = 1
  /\ a.stage \notin {"start", "none", "failed"} => a.service \in DOMAIN file.services
  /\ a.stage = "done" => a.service = Len(file.services)
  /\ a.stage = "panic" => file.services[a.service].methods = <<>>
  /\ \A k \in DOMAIN file.services : Past(a, k, {"done"}) => file.services[k].methods # <<>>

(* Each generator is at some place, and has written what it has passed.    *)
GenInv ==
  /\ file \in Files
  /\ at = [g \in Generators |-> at[g]]
  /\ \A g \in Generators : PlaceInv(at[g])
  /\ made = [g \in Generators |-> [k \in DOMAIN file.services |-> Built(at[g], k)]]

(* The services and the methods of a file.                                 *)
LEMMA FileTyped ==
  ASSUME file \in Files
  PROVE  /\ file.services \in Seq(ProtoServices)
         /\ \A k \in DOMAIN file.services :
              /\ k \in Nat /\ k >= 1 /\ k <= Len(file.services)
              /\ file.services[k].methods \in Seq(ProtoMethods)
              /\ Rejoined(file.services[k].name) \in Seq(Lexicon)
              /\ \A i \in DOMAIN file.services[k].methods : file.services[k].methods[i] \in ProtoMethods
<1>1. /\ file.services \in Seq(ProtoServices)
      /\ \A k \in DOMAIN file.services : Rejoined(file.services[k].name) \in Seq(STRING)
  BY FilesAssumption, Zenon
<1>2. \A k \in DOMAIN file.services : k \in Nat /\ k >= 1 /\ k <= Len(file.services) /\ file.services[k] \in ProtoServices
  BY <1>1, SMT
<1>3. \A t \in ProtoServices : t.methods \in Seq(ProtoMethods)
  BY Zenon DEF ProtoServices
<1>4. \A n \in Seq(STRING) : n \in Seq(Lexicon)
  BY SMT DEF Lexicon
<1>5. \A ms \in Seq(ProtoMethods) : \A i \in DOMAIN ms : ms[i] \in ProtoMethods
  BY SMT
<1> QED
  BY <1>1, <1>2, <1>3, <1>4, <1>5, Zenon

(* Before a generator runs nothing is written.                             *)
LEMMA CodegenStarts ==
  ASSUME CodegenInit
  PROVE  GenInv
<1> DEFINE a == [stage |-> "start", service |-> 1]
<1>1. file \in Files /\ at = [g \in Generators |-> a]
      /\ made = [g \in Generators |-> [k \in DOMAIN file.services |-> Nothing]]
  BY Zenon DEF CodegenInit
<1>2. a \in Positions /\ a.stage = "start" /\ a.service = 1
  BY SMT DEF Positions, GeneratorStages
<1> HIDE DEF a
<1>3. \A k \in DOMAIN file.services : ~(k < 1)
  BY <1>1, FileTyped
<1>4. \A S : \A k \in DOMAIN file.services : "start" \notin S => ~Past(a, k, S)
  BY <1>2, <1>3, Zenon DEF Past
<1>5. ASSUME NEW k \in DOMAIN file.services PROVE Built(a, k) = Nothing
  <2>1. ~Past(a, k, {"client", "server", "panic", "done"}) /\ ~Past(a, k, {"server", "panic", "done"}) /\ ~Past(a, k, {"done"})
    BY <1>4, Zenon
  <2> QED
    BY <2>1, Zenon DEF Built, Nothing
<1>6. PlaceInv(a)
  BY <1>2, <1>4, Zenon DEF PlaceInv
<1> QED
  BY <1>1, <1>5, <1>6, Zenon DEF GenInv

(* What a generator has to have written at a position depends on the file  *)
(* only.                                                                   *)
LEMMA BuiltStays ==
  ASSUME UNCHANGED file, NEW CONSTANT a, NEW CONSTANT k
  PROVE  Built(a, k)' = Built(a, k) /\ PlaceInv(a)' = PlaceInv(a)
<1>1. \A s : ServicePath(s)' = ServicePath(s)
  BY Zenon DEF ServicePath
<1>2. \A s, m : ConstMethodName(s, m)' = ConstMethodName(s, m)
  BY <1>1, Zenon DEF ConstMethodName
<1>3. \A s, m : WriteDefinition(s, m)' = WriteDefinition(s, m)
  BY <1>2, Zenon DEF WriteDefinition, MethodTypeOf
<1>4. \A s, m, i : WriteBind(s, m, i)' = WriteBind(s, m, i)
  BY <1>2, Zenon DEF WriteBind, MethodTypeOf
<1>5. \A s, m, z, y : Fn(s, m, z, y)' = Fn(s, m, z, y)
  BY <1>2, ZenonT(60) DEF Fn
<1>6. \A s, m : Fns(s, m)' = Fns(s, m)
  BY <1>5, Zenon DEF Fns, MethodTypeOf
<1>7. \A s : Defined(s)' = Defined(s)
  BY <1>3, Zenon DEF Defined
<1>8. \A s : ClientFunctions(s)' = ClientFunctions(s)
  BY <1>6, Zenon DEF ClientFunctions
<1>9. \A s : WriteServer(s)' = WriteServer(s)
  BY <1>4, ZenonT(60) DEF WriteServer, WriteService, MethodTypeOf
<1>10. Built(a, k)' = Built(a, k)
  BY <1>7, <1>8, <1>9, Zenon DEF Built, Past, Ctor, Spawn
<1>11. PlaceInv(a)' = PlaceInv(a)
  BY Zenon DEF PlaceInv, Past, Positions, GeneratorStages
<1> QED
  BY <1>10, <1>11

(* A generator goes to its next place and writes its current service.      *)
LEMMA GenMoves ==
  ASSUME GenInv, NEW g \in Generators, NEW CONSTANT b, NEW CONSTANT w, UNCHANGED file,
         at' = [at EXCEPT ![g] = b], PlaceInv(b),
         made' = [made EXCEPT ![g] = w],
         w = [k \in DOMAIN file.services |-> Built(b, k)]
  PROVE  GenInv'
<1>1. at' = [h \in Generators |-> at'[h]] /\ at'[g] = b /\ \A h \in Generators \ {g} : at'[h] = at[h]
  BY Zenon DEF GenInv
<1>2. \A h \in Generators : PlaceInv(at'[h])
  BY <1>1, Zenon DEF GenInv
<1>3. \A h \in Generators : PlaceInv(at[h])'
  <2> TAKE h \in Generators
  <2>1. PICK c : c = at'[h]
    OBVIOUS
  <2>2. PlaceInv(c)' = PlaceInv(c) /\ PlaceInv(c)
    BY <1>2, <2>1, BuiltStays, Zenon
  <2> QED
    BY <2>1, <2>2, Zenon DEF PlaceInv, Past, Positions, GeneratorStages
<1>4. made' = [h \in Generators |-> [k \in DOMAIN file.services |-> Built(at'[h], k)]]
  BY <1>1, Zenon DEF GenInv
<1>5. \A h \in Generators : [k \in DOMAIN file.services |-> Built(at[h], k)]'
                            = [k \in DOMAIN file.services |-> Built(at'[h], k)]
  <2> TAKE h \in Generators
  <2>1. PICK c : c = at'[h]
    OBVIOUS
  <2>2. \A k : Built(c, k)' = Built(c, k)
    BY BuiltStays, Zenon
  <2> QED
    BY <2>1, <2>2, Zenon
<1>6. made' = [h \in Generators |-> [k \in DOMAIN file.services |-> Built(at[h], k)]]'
  BY <1>4, <1>5, Zenon
<1>7. file' \in Files
  BY Zenon DEF GenInv
<1> QED
  BY <1>1, <1>3, <1>6, <1>7, Zenon DEF GenInv, Generators

(* Only the current service's stub depends on the stage.                   *)
LEMMA OthersStay ==
  ASSUME NEW a, NEW b, NEW k, b.service = a.service, k # a.service
  PROVE  Built(b, k) = Built(a, k) /\ \A S : Past(b, k, S) = Past(a, k, S)
<1>1. \A S : Past(b, k, S) = Past(a, k, S)
  BY Zenon DEF Past
<1> QED
  BY <1>1, Zenon DEF Built

(* What is written of the current service, by stage.                       *)
Stub(c, f, fs, l, h, b) ==
  [consts |-> c, first |-> f, fns |-> fs, last |-> l, handlers |-> h, binds |-> b]

(* What is to be written of the service a generator is at, stage by stage. *)
LEMMA BuiltStage ==
  ASSUME NEW a, NEW i \in Nat, i = a.service
  PROVE  LET s == file.services[i]
             c == Defined(s)
             w == WriteServer(s)
         IN
         /\ a.stage = "definitions" => Built(a, i) = Stub(<<>>, <<>>, <<>>, <<>>, <<>>, <<>>)
         /\ a.stage = "client" => Built(a, i) = Stub(c, <<>>, <<>>, <<>>, <<>>, <<>>)
         /\ a.stage \in {"server", "panic"} => Built(a, i) = Stub(c, Ctor, ClientFunctions(s), Spawn, <<>>, <<>>)
         /\ a.stage = "done" => Built(a, i) = Stub(c, Ctor, ClientFunctions(s), Spawn, w.handlers, w.binds)
<1> DEFINE s == file.services[i]
<1>1. ~(i < i)
  OBVIOUS
<1>2. \A S : Past(a, i, S) <=> a.stage \in S
  BY <1>1, Zenon DEF Past
<1>3. CASE a.stage = "definitions"
  <2>1. ~Past(a, i, {"client", "server", "panic", "done"}) /\ ~Past(a, i, {"server", "panic", "done"}) /\ ~Past(a, i, {"done"})
    BY <1>2, <1>3, SMT
  <2> QED
    BY <1>3, <2>1, Zenon DEF Built, Stub
<1>4. CASE a.stage = "client"
  <2>1. Past(a, i, {"client", "server", "panic", "done"}) /\ ~Past(a, i, {"server", "panic", "done"}) /\ ~Past(a, i, {"done"})
    BY <1>2, <1>4, SMT
  <2> QED
    BY <1>4, <2>1, Zenon DEF Built, Stub
<1>5. CASE a.stage = "server"
  <2>1. Past(a, i, {"client", "server", "panic", "done"}) /\ Past(a, i, {"server", "panic", "done"}) /\ ~Past(a, i, {"done"})
    BY <1>2, <1>5, SMT
  <2> QED
    BY <1>5, <2>1, Zenon DEF Built, Stub
<1>6. CASE a.stage = "panic"
  <2>1. Past(a, i, {"client", "server", "panic", "done"}) /\ Past(a, i, {"server", "panic", "done"}) /\ ~Past(a, i, {"done"})
    BY <1>2, <1>6, SMT
  <2> QED
    BY <1>6, <2>1, Zenon DEF Built, Stub
<1>7. CASE a.stage = "done"
  <2>1. Past(a, i, {"client", "server", "panic", "done"}) /\ Past(a, i, {"server", "panic", "done"}) /\ Past(a, i, {"done"})
    BY <1>2, <1>7, SMT
  <2> QED
    BY <1>7, <2>1, Zenon DEF Built, Stub
<1> QED
  BY <1>3, <1>4, <1>5, <1>6, <1>7, Zenon

(* The method definitions of a service are written (codegen.rs:632-640,    *)
(* prost_codegen.rs:84-94).                                                *)
LEMMA DefinitionsStep ==
  ASSUME GenInv, NEW g \in Generators, MethodDefinitions(g)
  PROVE  GenInv'
<1>1. PICK a : a = at[g]
  OBVIOUS
<1> DEFINE i == a.service
           s == file.services[i]
           D == [e \in DOMAIN s.methods |-> IF g = "prost" THEN GenerateMethod(s, s.methods[e])
                                                           ELSE WriteDefinition(s, s.methods[e])]
           b == [a EXCEPT !.stage = "client"]
           n == [made[g][i] EXCEPT !.consts = D]
<1>2. a.stage = "definitions" /\ at' = [at EXCEPT ![g] = b]
      /\ made' = [made EXCEPT ![g] = [made[g] EXCEPT ![i] = n]]
      /\ UNCHANGED file
  BY <1>1, Zenon DEF MethodDefinitions, Go, Current
<1>3. D = Defined(s)
  BY ConstsAgree, Zenon DEF Defined
<1>4. PlaceInv(a) /\ i \in DOMAIN file.services /\ i \in Nat
  <2>1. PlaceInv(a)
    BY <1>1, Zenon DEF GenInv
  <2> QED
    BY <1>2, <2>1, Zenon DEF PlaceInv, Positions
<1>5. b.service = i /\ b.stage = "client" /\ b \in Positions
  BY <1>4, Zenon DEF PlaceInv, Positions, GeneratorStages
<1> HIDE DEF b, D
<1>6. made[g][i] = Built(a, i)
  BY <1>1, <1>4, Zenon DEF GenInv
<1>7. made[g][i] = Stub(<<>>, <<>>, <<>>, <<>>, <<>>, <<>>)
  BY <1>2, <1>4, <1>6, BuiltStage, Zenon
<1>8. n = Stub(D, <<>>, <<>>, <<>>, <<>>, <<>>)
  BY <1>7, SMT DEF Stub
<1> HIDE DEF n
<1>9. n = Built(b, i)
  BY <1>3, <1>4, <1>5, <1>8, BuiltStage, Zenon
<1>10. [made[g] EXCEPT ![i] = n] = [k \in DOMAIN file.services |-> Built(b, k)]
  <2>1. \A k \in DOMAIN file.services : k # i => Built(b, k) = Built(a, k)
    BY <1>5, OthersStay, Zenon
  <2>2. made[g] = [k \in DOMAIN file.services |-> Built(a, k)]
    BY <1>1, Zenon DEF GenInv
  <2> QED
    BY <1>4, <1>9, <2>1, <2>2, Zenon
<1>11. PlaceInv(b)
  <2>1. \A k \in DOMAIN file.services : Past(b, k, {"done"}) => Past(a, k, {"done"})
    BY <1>5, Zenon DEF Past
  <2> QED
    BY <1>4, <1>5, <2>1, Zenon DEF PlaceInv
<1> QED
  BY <1>2, <1>10, <1>11, GenMoves, Zenon

(* The client of a service is written (codegen.rs:575-601,                 *)
(* prost_codegen.rs:162-189).                                              *)
LEMMA ClientStep ==
  ASSUME GenInv, NEW g \in Generators, WriteOutClient(g)
  PROVE  GenInv'
<1>1. PICK a : a = at[g]
  OBVIOUS
<1> DEFINE i == a.service
           s == file.services[i]
           w == IF g = "prost" THEN GenerateClient(s) ELSE WriteClient(s)
           b == [a EXCEPT !.stage = "server"]
           f == w.first
           fs == w.fns
           l == w.last
           n == [made[g][i] EXCEPT !.first = f, !.fns = fs, !.last = l]
<1>2. a.stage = "client" /\ at' = [at EXCEPT ![g] = b] /\ UNCHANGED file
  BY <1>1, Zenon DEF WriteOutClient, Go
<1>3. PlaceInv(a) /\ i \in DOMAIN file.services /\ i \in Nat
  <2>1. PlaceInv(a)
    BY <1>1, Zenon DEF GenInv
  <2> QED
    BY <1>2, <2>1, Zenon DEF PlaceInv, Positions
<1>4. f = Ctor /\ fs = ClientFunctions(s) /\ l = Spawn
  <2>1. \A e \in DOMAIN s.methods : s.methods[e] \in ProtoMethods
    BY <1>3, FileTyped, Zenon DEF GenInv
  <2>2. \A e \in DOMAIN s.methods : /\ GenerateClientMethod(s, s.methods[e]) = Fns(s, s.methods[e])
                                    /\ MethodWriteClient(s, s.methods[e]) = Fns(s, s.methods[e])
    BY <2>1, ProstClient, PluginClient, Zenon
  <2> QED
    BY <2>2, Zenon DEF ClientFunctions, GenerateClient, WriteClient
<1> HIDE DEF w, f, fs, l
<1>5. made' = [made EXCEPT ![g] = [made[g] EXCEPT ![i] = n]]
  <2>1. made' = [made EXCEPT ![g][i].first = f, ![g][i].fns = fs, ![g][i].last = l]
    BY <1>1, Zenon DEF WriteOutClient, Current, w, f, fs, l
  <2>2. DOMAIN made = Generators /\ made[g] = [k \in DOMAIN file.services |-> Built(a, k)]
    BY <1>1, Zenon DEF GenInv
  <2>3. made[g][i] = Built(a, i)
    BY <1>3, <2>2, Zenon
  <2> QED
    BY <1>3, <2>1, <2>2, <2>3, Zenon DEF Built
<1>6. b.service = i /\ b.stage = "server" /\ b \in Positions
  BY <1>3, Zenon DEF PlaceInv, Positions, GeneratorStages
<1> HIDE DEF b
<1>7. made[g][i] = Stub(Defined(s), <<>>, <<>>, <<>>, <<>>, <<>>)
  <2>1. made[g][i] = Built(a, i)
    BY <1>1, <1>3, Zenon DEF GenInv
  <2> QED
    BY <1>2, <1>3, <2>1, BuiltStage, Zenon
<1>8. n = Stub(Defined(s), f, fs, l, <<>>, <<>>)
  <2>1. PICK r1 : r1 = [made[g][i] EXCEPT !.first = f]
    BY Zenon
  <2>2. PICK r2 : r2 = [r1 EXCEPT !.fns = fs]
    BY Zenon
  <2>3. n = [r2 EXCEPT !.last = l]
    BY <2>1, <2>2, Zenon
  <2> HIDE DEF n
  <2>4. r1 = Stub(Defined(s), f, <<>>, <<>>, <<>>, <<>>)
    BY <1>7, <2>1, SMT DEF Stub
  <2>5. r2 = Stub(Defined(s), f, fs, <<>>, <<>>, <<>>)
    BY <2>2, <2>4, SMT DEF Stub
  <2> QED
    BY <2>3, <2>5, SMT DEF Stub
<1> HIDE DEF n
<1>9. n = Built(b, i)
  BY <1>3, <1>4, <1>6, <1>8, BuiltStage, ZenonT(60)
<1>10. [made[g] EXCEPT ![i] = n] = [k \in DOMAIN file.services |-> Built(b, k)]
  <2>1. \A k \in DOMAIN file.services : k # i => Built(b, k) = Built(a, k)
    BY <1>6, OthersStay, Zenon
  <2>2. made[g] = [k \in DOMAIN file.services |-> Built(a, k)]
    BY <1>1, Zenon DEF GenInv
  <2> QED
    BY <1>3, <1>9, <2>1, <2>2, Zenon
<1>11. PlaceInv(b)
  <2>1. \A k \in DOMAIN file.services : Past(b, k, {"done"}) => Past(a, k, {"done"})
    BY <1>6, Zenon DEF Past
  <2> QED
    BY <1>3, <1>6, <2>1, Zenon DEF PlaceInv
<1> QED
  BY <1>2, <1>5, <1>10, <1>11, GenMoves, Zenon

(* The server's trait and create_ are written, or the generator panics at  *)
(* a service without methods (codegen.rs:603-630,                          *)
(* prost_codegen.rs:448-501).                                              *)
LEMMA ServerStep ==
  ASSUME GenInv, NEW g \in Generators, WriteOutServer(g)
  PROVE  GenInv'
<1>1. PICK a : a = at[g]
  OBVIOUS
<1> DEFINE i == a.service
           s == file.services[i]
           w == IF g = "prost" THEN GenerateServer(s) ELSE WriteServer(s)
           hs == w.handlers
           bs == w.binds
           n == [made[g][i] EXCEPT !.handlers = hs, !.binds = bs]
<1>2. a.stage = "server" /\ UNCHANGED file
  BY <1>1, Zenon DEF WriteOutServer
<1>3. PlaceInv(a) /\ i \in DOMAIN file.services /\ i \in Nat /\ a \in Positions /\ i <= Len(file.services)
  <2>1. PlaceInv(a)
    BY <1>1, Zenon DEF GenInv
  <2>2. i \in DOMAIN file.services /\ a \in Positions
    BY <1>2, <2>1, Zenon DEF PlaceInv
  <2>3. i \in Nat /\ i <= Len(file.services)
    BY <2>2, FileTyped, Zenon DEF GenInv
  <2> QED
    BY <2>1, <2>2, <2>3
<1>4. hs = WriteServer(s).handlers /\ bs = WriteServer(s).binds
  <2>1. \A e \in DOMAIN s.methods : s.methods[e] \in ProtoMethods
    BY <1>3, FileTyped, Zenon DEF GenInv
  <2>2. \A e \in DOMAIN s.methods : GenerateServerMethod(s.methods[e]) = WriteService(s.methods[e])
    BY <2>1, ServersAgree, Zenon
  <2>3. \A e \in DOMAIN s.methods : \A q : GenerateMethodBind(s, s.methods[e], q) = WriteBind(s, s.methods[e], q)
    BY <2>1, ServersAgree, Zenon
  <2> QED
    BY <2>2, <2>3, Zenon DEF GenerateServer, WriteServer
<1> HIDE DEF w, hs, bs
<1>5. made[g][i] = Stub(Defined(s), Ctor, ClientFunctions(s), Spawn, <<>>, <<>>) /\ made[g][i] = Built(a, i)
  <2>1. made[g][i] = Built(a, i)
    BY <1>1, <1>3, Zenon DEF GenInv
  <2> QED
    BY <1>2, <1>3, <2>1, BuiltStage, Zenon
<1>6. made[g] = [k \in DOMAIN file.services |-> Built(a, k)] /\ DOMAIN made = Generators
  BY <1>1, Zenon DEF GenInv
<1>7. CASE s.methods = <<>>
  <2> DEFINE b == [a EXCEPT !.stage = "panic"]
  <2>1. at' = [at EXCEPT ![g] = b] /\ made' = made
    BY <1>1, <1>7, Zenon DEF WriteOutServer, Go, Current
  <2>2. b.service = i /\ b.stage = "panic" /\ b \in Positions
    BY <1>3, Zenon DEF Positions, GeneratorStages
  <2> HIDE DEF b
  <2>3. Built(b, i) = Built(a, i)
    BY <1>2, <1>3, <2>2, BuiltStage, Zenon
  <2>4. \A k \in DOMAIN file.services : Built(b, k) = Built(a, k)
    BY <2>2, <2>3, OthersStay, Zenon
  <2>5. made' = [made EXCEPT ![g] = [k \in DOMAIN file.services |-> Built(b, k)]]
    <3>1. PICK v : v = [k \in DOMAIN file.services |-> Built(b, k)]
      BY Zenon
    <3>2. made[g] = v
      BY <1>6, <2>4, <3>1, Zenon
    <3>3. made = [made EXCEPT ![g] = v]
      BY <3>2, Zenon DEF GenInv
    <3> QED
      BY <2>1, <3>1, <3>3, Zenon
  <2>6. PlaceInv(b)
    <3>1. \A k \in DOMAIN file.services : Past(b, k, {"done"}) => Past(a, k, {"done"})
      BY <2>2, Zenon DEF Past
    <3> QED
      BY <1>3, <1>7, <2>2, <3>1, Zenon DEF PlaceInv
  <2> QED
    BY <1>2, <2>1, <2>5, <2>6, GenMoves, Zenon
<1>8. CASE s.methods # <<>>
  <2> DEFINE L == Len(file.services)
             b == IF i = L THEN [a EXCEPT !.stage = "done"]
                           ELSE [stage |-> "definitions", service |-> i + 1]
  <2>1. at' = [at EXCEPT ![g] = b]
    BY <1>1, <1>8, Zenon DEF WriteOutServer, Current
  <2>2. made' = [made EXCEPT ![g] = [made[g] EXCEPT ![i] = n]]
    <3>1. made' = [made EXCEPT ![g][i].handlers = hs, ![g][i].binds = bs]
      BY <1>1, <1>8, Zenon DEF WriteOutServer, Current, w, hs, bs
    <3> QED
      BY <1>3, <1>5, <1>6, <3>1, Zenon
  <2>3. n = Stub(Defined(s), Ctor, ClientFunctions(s), Spawn, hs, bs)
    <3>1. PICK r1 : r1 = [made[g][i] EXCEPT !.handlers = hs]
      BY Zenon
    <3>2. n = [r1 EXCEPT !.binds = bs]
      BY <3>1, Zenon
    <3> HIDE DEF n
    <3>3. r1 = Stub(Defined(s), Ctor, ClientFunctions(s), Spawn, hs, <<>>)
      BY <1>5, <3>1, SMT DEF Stub
    <3> QED
      BY <3>2, <3>3, SMT DEF Stub
  <2> HIDE DEF n
  <2>4. CASE i = L
    <3>1. b.service = i /\ b.stage = "done" /\ b \in Positions
      BY <1>3, <2>4, Zenon DEF Positions, GeneratorStages
    <3> HIDE DEF b
    <3>2. n = Built(b, i)
      BY <1>3, <1>4, <2>3, <3>1, BuiltStage, Zenon
    <3>3. [made[g] EXCEPT ![i] = n] = [k \in DOMAIN file.services |-> Built(b, k)]
      <4>1. \A k \in DOMAIN file.services : k # i => Built(b, k) = Built(a, k)
        BY <3>1, OthersStay, Zenon
      <4> QED
        BY <1>3, <1>6, <3>2, <4>1, Zenon
    <3>4. PlaceInv(b)
      <4>1. \A k \in DOMAIN file.services : Past(b, k, {"done"}) => Past(a, k, {"done"}) \/ k = i
        BY <3>1, ZenonT(60) DEF Past
      <4> QED
        BY <1>3, <1>8, <2>4, <3>1, <4>1, Zenon DEF PlaceInv
    <3> QED
      BY <1>2, <2>1, <2>2, <3>3, <3>4, GenMoves, Zenon
  <2>5. CASE i # L
    <3>1. b.service = i + 1 /\ b.stage = "definitions" /\ b \in Positions
      BY <1>3, <2>5 DEF Positions, GeneratorStages
    <3> HIDE DEF b
    <3>2. i + 1 \in DOMAIN file.services
      <4>1. file.services \in Seq(ProtoServices)
        BY FileTyped, Zenon DEF GenInv
      <4> QED
        BY <1>3, <2>5, <4>1, SMT
    <3>3. \A k \in DOMAIN file.services : /\ k < i + 1 <=> k < i \/ k = i
                                          /\ k = i + 1 => ~(k < i) /\ k # i
      BY <1>3, FileTyped, SMT DEF GenInv
    <3>4. \A k \in DOMAIN file.services : \A S : "definitions" \notin S => (Past(b, k, S) <=> k < i \/ k = i)
      BY <3>1, <3>3, Zenon DEF Past
    <3>5. \A k \in DOMAIN file.services : k # i => \A S : "definitions" \notin S => (Past(a, k, S) <=> k < i)
      BY Zenon DEF Past
    <3>6. \A k \in DOMAIN file.services : k # i => Built(b, k) = Built(a, k)
      BY <3>4, <3>5, ZenonT(60) DEF Built
    <3>7. n = Built(b, i)
      BY <1>3, <1>4, <2>3, <3>4, Zenon DEF Built, Stub
    <3>8. [made[g] EXCEPT ![i] = n] = [k \in DOMAIN file.services |-> Built(b, k)]
      BY <1>3, <1>6, <3>6, <3>7, Zenon
    <3>9. PlaceInv(b)
      <4>1. \A k \in DOMAIN file.services : Past(b, k, {"done"}) => Past(a, k, {"done"}) \/ k = i
        BY <3>4, <3>5, Zenon
      <4> QED
        BY <1>3, <1>8, <3>1, <3>2, <4>1, Zenon DEF PlaceInv
    <3> QED
      BY <1>2, <2>1, <2>2, <3>8, <3>9, GenMoves, Zenon
  <2> QED
    BY <2>4, <2>5
<1> QED
  BY <1>7, <1>8

(* gen_file and compile_protos come before the first service.              *)
LEMMA StartStep ==
  ASSUME GenInv, NEW g \in Generators, at[g].stage = "start",
         NEW st, Go(g, st), UNCHANGED <<file, made>>,
         st = "failed" \/ st = "none" \/ (st = "definitions" /\ file.services # <<>>)
  PROVE  GenInv'
<1>1. PICK a : a = at[g]
  OBVIOUS
<1> DEFINE b == [a EXCEPT !.stage = st]
<1>2. at' = [at EXCEPT ![g] = b]
  BY <1>1, Zenon DEF Go
<1>3. PlaceInv(a) /\ a \in Positions /\ a.service = 1 /\ a.stage = "start"
  <2>1. PlaceInv(a)
    BY <1>1, Zenon DEF GenInv
  <2> QED
    BY <1>1, <2>1, Zenon DEF PlaceInv
<1>4. b.service = 1 /\ b.stage = st /\ b \in Positions
  BY <1>3, Zenon DEF Positions, GeneratorStages
<1> HIDE DEF b
<1>5. \A k \in DOMAIN file.services : ~(k < 1)
  BY FileTyped, SMT DEF GenInv
<1>6. \A S : "start" \notin S /\ st \notin S =>
        \A k \in DOMAIN file.services : ~Past(a, k, S) /\ ~Past(b, k, S)
  BY <1>3, <1>4, <1>5, Zenon DEF Past
<1>7. \A k \in DOMAIN file.services :
        /\ ~Past(a, k, {"client", "server", "panic", "done"}) /\ ~Past(b, k, {"client", "server", "panic", "done"})
        /\ ~Past(a, k, {"server", "panic", "done"}) /\ ~Past(b, k, {"server", "panic", "done"})
        /\ ~Past(a, k, {"done"}) /\ ~Past(b, k, {"done"})
  BY <1>6, Zenon
<1>8. \A k \in DOMAIN file.services : Built(b, k) = Built(a, k)
  BY <1>7, Zenon DEF Built
<1>9. made' = [made EXCEPT ![g] = [k \in DOMAIN file.services |-> Built(b, k)]]
  <2>1. PICK v : v = [k \in DOMAIN file.services |-> Built(b, k)]
    BY Zenon
  <2>2. made[g] = v
    BY <1>1, <1>8, <2>1, Zenon DEF GenInv
  <2>3. made = [made EXCEPT ![g] = v]
    BY <2>2, Zenon DEF GenInv
  <2> QED
    BY <2>1, <2>3, Zenon
<1>10. PlaceInv(b)
  <2>1. st = "definitions" => 1 \in DOMAIN file.services
    <3>1. file.services \in Seq(ProtoServices)
      BY FileTyped, Zenon DEF GenInv
    <3> QED
      BY <3>1, SMT
  <2> QED
    BY <1>3, <1>4, <1>7, <2>1, Zenon DEF PlaceInv
<1> QED
  BY <1>2, <1>9, <1>10, GenMoves, Zenon

(* Every step of either generator keeps the invariant.                     *)
LEMMA CodegenSteps ==
  ASSUME GenInv, [CodegenNext]_genVars
  PROVE  GenInv'
<1>1. CASE Gen
  <2>1. /\ "protobuf" \in Generators /\ at["protobuf"].stage = "start" /\ UNCHANGED <<file, made>>
        /\ \/ Go("protobuf", "none")
           \/ Go("protobuf", "definitions") /\ file.services # <<>>
    BY <1>1, Zenon DEF Gen, Generators
  <2> QED
    BY <2>1, StartStep, Zenon
<1>2. CASE CompileProtos
  <2>1. /\ "prost" \in Generators /\ at["prost"].stage = "start" /\ UNCHANGED <<file, made>>
        /\ \/ Go("prost", "failed") \/ Go("prost", "none")
           \/ Go("prost", "definitions") /\ file.services # <<>>
    BY <1>2, Zenon DEF CompileProtos, Generators
  <2> QED
    BY <2>1, StartStep, Zenon
<1>3. ASSUME NEW g \in Generators, MethodDefinitions(g) \/ WriteOutClient(g) \/ WriteOutServer(g)
      PROVE  GenInv'
  BY <1>3, DefinitionsStep, ClientStep, ServerStep, Zenon
<1>4. CASE UNCHANGED genVars
  <2>1. PICK g \in Generators : g = "prost"
    BY Zenon DEF Generators
  <2>2. PICK a : a = at[g]
    OBVIOUS
  <2>3. UNCHANGED <<file, made, at>>
    BY <1>4, Zenon DEF genVars
  <2>4. PICK v : v = [k \in DOMAIN file.services |-> Built(a, k)]
    BY Zenon
  <2>5. PlaceInv(a) /\ made[g] = v
    BY <2>2, <2>4, Zenon DEF GenInv
  <2>6. made = [made EXCEPT ![g] = v] 
    BY <2>5, Zenon DEF GenInv
  <2>7. at = [at EXCEPT ![g] = a]
    BY <2>2, Zenon DEF GenInv
  <2> QED
    BY <2>3, <2>4, <2>5, <2>6, <2>7, GenMoves, Zenon
<1> QED
  BY <1>1, <1>2, <1>3, <1>4, Zenon DEF CodegenNext

(* If a concatenation is one word and its beginning is not empty, the      *)
(* beginning is that word.                                                 *)
LEMMA OneWord ==
  ASSUME NEW S, NEW a \in Seq(S), NEW b \in Seq(S), NEW w \in S, a # <<>>, a \o b = <<w>>
  PROVE  a = <<w>>
<1>1. Len(<<w>>) = 1 /\ <<w>>[1] = w /\ <<w>> \in Seq(S)
  BY SMT
<1>2. Len(a) + Len(b) = 1 /\ \A i \in 1..Len(a) : a[i] = <<w>>[i]
  <2>1. Len(a \o b) = Len(a) + Len(b) /\ \A i \in 1..Len(a) : (a \o b)[i] = a[i]
    BY Joined, ZenonT(60)
  <2> QED
    BY <1>1, <2>1, Zenon
<1>3. Len(a) = 1
  BY <1>2, SMT
<1> QED
  BY <1>1, <1>2, <1>3, SameSeq, Zenon

(* What kind of call, registration and sink the stub has for a method.     *)
LEMMA KindsWritten ==
  ASSUME NEW s, NEW m \in ProtoMethods, NEW q
  PROVE  /\ WriteBind(s, m, q).add = Kind(m)[2]
         /\ WriteService(m).sink = Kind(m)[3]
         /\ Kind(m)[1] = "unary_call" <=> MethodTypeOf(m) = "Unary"
         /\ Kind(m)[1] # "async"
<1>1. CASE ~m.cs /\ ~m.ss /\ MethodTypeOf(m) = "Unary"
  BY <1>1, SMT DEF WriteBind, WriteService, Kind
<1>2. CASE m.cs /\ ~m.ss /\ MethodTypeOf(m) = "ClientStreaming"
  BY <1>2, SMT DEF WriteBind, WriteService, Kind
<1>3. CASE ~m.cs /\ m.ss /\ MethodTypeOf(m) = "ServerStreaming"
  BY <1>3, SMT DEF WriteBind, WriteService, Kind
<1>4. CASE m.cs /\ m.ss /\ MethodTypeOf(m) = "Duplex"
  BY <1>4, SMT DEF WriteBind, WriteService, Kind
<1> QED
  BY <1>1, <1>2, <1>3, <1>4, TypeCases, Zenon

(* A constant's name without its first word.                               *)
Dropped(u) == [i \in 1..(Len(u) - 1) |-> u[i + 1]]

(* The words of a constant's name, but for METHOD, are those of its        *)
(* service and its method.                                                 *)
LEMMA WordsDropped ==
  ASSUME NEW r, NEW q, Rejoined(r.name) \in Seq(Lexicon), q.name \in Seq(Lexicon)
  PROVE  Rejoined(r.name) \o q.name = Dropped(ConstMethodName(r, q).words)
<1>1. PICK M \in Lexicon : M = "METHOD"
  BY Zenon DEF Lexicon
<1>2. PICK s \in Seq(Lexicon) : s = Rejoined(r.name)
  OBVIOUS
<1>3. PICK m \in Seq(Lexicon) : m = q.name
  OBVIOUS
<1>4. PICK u : u = <<M>> \o s \o m
  BY Zenon
<1>5. u = ConstMethodName(r, q).words
  BY <1>1, <1>2, <1>3, <1>4, Zenon DEF ConstMethodName
<1>6. PICK n \in Nat : n = Len(s) + Len(m)
  BY SMT
<1>7. u \in Seq(Lexicon) /\ Len(u) = n + 1
  BY <1>4, <1>6, SMT
<1>16. PICK v : v = s \o m
  BY Zenon
<1>8. v \in Seq(Lexicon) /\ v = s \o m /\ Len(v) = n
  BY <1>6, <1>16, SMT
<1>9. \A i \in 1..n : v[i] = u[i + 1]
  BY <1>4, <1>6, <1>8, SMT
<1>10. PICK d : d = [i \in 1..n |-> u[i + 1]]
  BY Zenon
<1>11. Dropped(u) = d
  <2>1. Len(u) - 1 = n
    BY <1>7
  <2> QED
    BY <1>10, <2>1, Zenon DEF Dropped
<1>12. \A i \in 1..n : u[i + 1] \in Lexicon
  BY <1>7, SMT
<1>13. d \in [1..n -> Lexicon] /\ \A i \in 1..n : d[i] = v[i]
  BY <1>9, <1>10, <1>12, Zenon
<1>14. d \in Seq(Lexicon) /\ Len(d) = n
  BY <1>13, SMT
<1>15. v = d
  BY <1>8, <1>13, <1>14, SameSeq, Zenon
<1> QED
  BY <1>2, <1>3, <1>5, <1>8, <1>11, <1>15, ZenonT(60)

(* Names that do not clash are told apart by the constants ...             *)
LEMMA ConstUnique ==
  ASSUME file \in Files, ~Clash,
         NEW j \in DOMAIN file.services, NEW k \in DOMAIN file.services,
         NEW a \in DOMAIN file.services[j].methods, NEW b \in DOMAIN file.services[k].methods,
         ConstMethodName(file.services[j], file.services[j].methods[a]).words
           = ConstMethodName(file.services[k], file.services[k].methods[b]).words
  PROVE  j = k /\ a = b
<1> DEFINE s == file.services[j]
           t == file.services[k]
           m == s.methods[a]
           n == t.methods[b]
<1>1. /\ Rejoined(s.name) \in Seq(Lexicon) /\ Rejoined(t.name) \in Seq(Lexicon)
      /\ m.name \in Seq(Lexicon) /\ n.name \in Seq(Lexicon)
  BY FileTyped, NamesTyped, Zenon
<1>2. Rejoined(s.name) \o m.name = Rejoined(t.name) \o n.name
  BY <1>1, WordsDropped, Zenon
<1>3. j # k \/ a # b => <<j, a>> # <<k, b>>
  BY Zenon
<1> QED
  BY <1>2, <1>3, Zenon DEF Clash

(* A client's function of a method, by what its name adds to the method's. *)
Plain == <<>>
Opt == <<"opt">>
Async == <<"async">>
AsyncOpt == <<"async", "opt">>
FnOf(s, m, z) ==
  IF z = Plain THEN Fn(s, m, FALSE, FALSE) ELSE IF z = Opt THEN Fn(s, m, FALSE, TRUE)
  ELSE IF z = Async THEN Fn(s, m, TRUE, FALSE) ELSE Fn(s, m, TRUE, TRUE)
FnName(m, z) == m.name \o z
WithOpt(z) == IF z \in {Async, AsyncOpt} THEN AsyncOpt ELSE Opt

(* The four functions of a method are told apart by their suffixes.        *)
LEMMA VariantsTold ==
  /\ Variants = {Plain, Opt, Async, AsyncOpt}
  /\ Plain # Opt /\ Plain # Async /\ Plain # AsyncOpt /\ Opt # Async /\ Opt # AsyncOpt /\ Async # AsyncOpt
  /\ "async" \notin Elements(Plain) /\ "async" \notin Elements(Opt)
  /\ "async" \in Elements(Async) /\ "async" \in Elements(AsyncOpt)
  /\ \A z \in Variants : z \in Seq(Lexicon)
  /\ Variant(FALSE, FALSE) = Plain /\ Variant(FALSE, TRUE) = Opt
  /\ Variant(TRUE, FALSE) = Async /\ Variant(TRUE, TRUE) = AsyncOpt
<1>1. Variants = {Plain, Opt, Async, AsyncOpt}
  BY Zenon DEF Variants, Plain, Opt, Async, AsyncOpt
<1>2. Plain # Opt /\ Plain # Async /\ Plain # AsyncOpt /\ Opt # Async /\ Opt # AsyncOpt /\ Async # AsyncOpt
  BY SMT DEF Plain, Opt, Async, AsyncOpt
<1>3. /\ "async" \notin Elements(Plain) /\ "async" \notin Elements(Opt)
      /\ "async" \in Elements(Async) /\ "async" \in Elements(AsyncOpt)
  <2>1. Elements(<<>>) = {} /\ Elements(<<"opt">>) = {"opt"} /\ Elements(<<"async">>) = {"async"}
    BY SMT DEF Elements
  <2>2. "async" = <<"async", "opt">>[1] /\ 1 \in DOMAIN <<"async", "opt">> /\ "async" # "opt"
    BY SMT
  <2>3. "async" \in Elements(<<"async", "opt">>)
    BY <2>2, Zenon DEF Elements
  <2> QED
    BY <2>1, <2>2, <2>3, Zenon DEF Plain, Opt, Async, AsyncOpt
<1>4. Plain \in Seq(Lexicon) /\ Opt \in Seq(Lexicon) /\ Async \in Seq(Lexicon) /\ AsyncOpt \in Seq(Lexicon)
  BY SMT DEF Lexicon, Plain, Opt, Async, AsyncOpt
<1>5. /\ Variant(FALSE, FALSE) = Plain /\ Variant(FALSE, TRUE) = Opt
      /\ Variant(TRUE, FALSE) = Async /\ Variant(TRUE, TRUE) = AsyncOpt
  BY Zenon DEF Variant, Plain, Opt, Async, AsyncOpt
<1> QED
  BY <1>1, <1>2, <1>3, <1>4, <1>5, Zenon

(* In a file without clashes no two functions of a client have one name.   *)
LEMMA FnUnique ==
  ASSUME file \in Files, ~Clash, NEW k \in DOMAIN file.services,
         NEW a \in DOMAIN file.services[k].methods, NEW b \in DOMAIN file.services[k].methods,
         NEW z \in Variants, NEW y \in Variants,
         FnName(file.services[k].methods[a], z) = FnName(file.services[k].methods[b], y)
  PROVE  a = b /\ z = y
<1> DEFINE m == file.services[k].methods[a].name
           n == file.services[k].methods[b].name
<1>1. m \in Seq(Lexicon) /\ n \in Seq(Lexicon)
  BY FileTyped, NamesTyped, Zenon
<1>2. z \in Seq(Lexicon) /\ y \in Seq(Lexicon)
  BY VariantsTold, Zenon
<1>3. m \o z = n \o y
  BY Zenon DEF FnName
<1>4. a = b
  <2>1. a # b => <<k, a>> # <<k, b>>
    BY Zenon
  <2> QED
    BY <1>3, <2>1, Zenon DEF Clash
<1>5. m \o z = m \o y
  BY <1>3, <1>4, Zenon
<1>6. z = y
  <2> HIDE DEF m, n
  <2> QED
    BY <1>1, <1>2, <1>5, Cancel, Zenon
<1> QED
  BY <1>4, <1>6, Zenon

(* In a file without clashes no function of a client is named new or       *)
(* spawn.                                                                  *)
LEMMA FnNotCtor ==
  ASSUME file \in Files, ~Clash, NEW k \in DOMAIN file.services, NEW a \in DOMAIN file.services[k].methods,
         NEW z \in Variants
  PROVE  FnName(file.services[k].methods[a], z) # Ctor.name /\ FnName(file.services[k].methods[a], z) # Spawn.name
<1> DEFINE m == file.services[k].methods[a].name
<1>1. m \in Seq(Lexicon) /\ m # <<>>
  BY FileTyped, NamesTyped, Zenon
<1>2. z \in Seq(Lexicon)
  BY VariantsTold, Zenon
<1>3. m # <<"new">> /\ m # <<"spawn">>
  BY Zenon DEF Clash
<1>4. "new" \in Lexicon /\ "spawn" \in Lexicon
  BY Zenon DEF Lexicon
<1>5. Ctor.name = <<"new">> /\ Spawn.name = <<"spawn">>
  BY Zenon DEF Ctor, Spawn
<1>7. FnName(file.services[k].methods[a], z) = m \o z
  BY Zenon DEF FnName
<1> HIDE DEF m
<1>6. m \o z # <<"new">> /\ m \o z # <<"spawn">>
  BY <1>1, <1>2, <1>3, <1>4, OneWord, Zenon
<1> QED
  BY <1>5, <1>6, <1>7, Zenon

(* The whole stub of a service.                                            *)
Whole(k) ==
  LET s == file.services[k] IN
  Stub(Defined(s), Ctor, ClientFunctions(s), Spawn, WriteServer(s).handlers, WriteServer(s).binds)

(* A generator that is done has written the whole stub of every service.   *)
LEMMA AllWritten ==
  ASSUME GenInv, NEW g \in Generators, at[g].stage = "done"
  PROVE  /\ made[g] = [k \in DOMAIN file.services |-> Whole(k)]
         /\ \A k \in DOMAIN file.services : made[g][k] = Whole(k) /\ file.services[k].methods # <<>>
<1>1. PICK a : a = at[g]
  OBVIOUS
<1>2. PlaceInv(a) /\ a.stage = "done"
  BY <1>1, Zenon DEF GenInv
<1>3. a.service = Len(file.services) /\ a.service \in Nat
  BY <1>2, Zenon DEF PlaceInv, Positions
<1>4. \A k \in DOMAIN file.services : k < a.service \/ k = a.service
  BY <1>3, FileTyped, SMT DEF GenInv
<1>5. \A S : "done" \in S => \A k \in DOMAIN file.services : Past(a, k, S)
  BY <1>2, <1>4, Zenon DEF Past
<1>6. \A k \in DOMAIN file.services : Past(a, k, {"client", "server", "panic", "done"})
                                      /\ Past(a, k, {"server", "panic", "done"}) /\ Past(a, k, {"done"})
  BY <1>5, Zenon
<1>7. \A k \in DOMAIN file.services : Built(a, k) = Whole(k)
  BY <1>6, Zenon DEF Built, Whole, Stub
<1>8. made[g] = [k \in DOMAIN file.services |-> Built(a, k)]
  BY <1>1, Zenon DEF GenInv
<1>9. made[g] = [k \in DOMAIN file.services |-> Whole(k)]
  BY <1>7, <1>8, Zenon
<1>10. \A k \in DOMAIN file.services : file.services[k].methods # <<>>
  BY <1>2, <1>6, Zenon DEF PlaceInv
<1> QED
  BY <1>9, <1>10, Zenon

(* A client has its constructor, spawn, and the functions of its methods.  *)
Needs(m, z) == z \in {Async, AsyncOpt} => MethodTypeOf(m) = "Unary"

(* The functions of a method: the four of a unary one, the two of another. *)
LEMMA ElementsFns ==
  ASSUME NEW s, NEW m
  PROVE  \A f : f \in Elements(Fns(s, m)) <=> \E z \in Variants : Needs(m, z) /\ f = FnOf(s, m, z)
<1>0. PICK a, b, c, d : a = Fn(s, m, FALSE, TRUE) /\ b = Fn(s, m, FALSE, FALSE)
                        /\ c = Fn(s, m, TRUE, TRUE) /\ d = Fn(s, m, TRUE, FALSE)
  BY Zenon
<1>1. FnOf(s, m, Opt) = a /\ FnOf(s, m, Plain) = b /\ FnOf(s, m, AsyncOpt) = c /\ FnOf(s, m, Async) = d
  BY <1>0, VariantsTold, Zenon DEF FnOf
<1>2. PICK e : e = Fns(s, m)
  OBVIOUS
<1>3. CASE MethodTypeOf(m) = "Unary"
  <2>1. e = <<a, b, c, d>>
    BY <1>0, <1>2, <1>3, Zenon DEF Fns
  <2>2. DOMAIN e = {1, 2, 3, 4} /\ e[1] = a /\ e[2] = b /\ e[3] = c /\ e[4] = d
    BY <2>1, SMT
  <2>3. Elements(e) = {a, b, c, d}
    BY <2>2, Zenon DEF Elements
  <2>4. Needs(m, Plain) /\ Needs(m, Opt) /\ Needs(m, Async) /\ Needs(m, AsyncOpt)
    BY <1>3, VariantsTold, Zenon DEF Needs
  <2> QED
    BY <1>1, <1>2, <2>3, <2>4, VariantsTold, Zenon
<1>4. CASE MethodTypeOf(m) # "Unary"
  <2>1. e = <<a, b>>
    BY <1>0, <1>2, <1>4, Zenon DEF Fns
  <2>2. DOMAIN e = {1, 2} /\ e[1] = a /\ e[2] = b
    BY <2>1, SMT
  <2>3. Elements(e) = {a, b}
    BY <2>2, Zenon DEF Elements
  <2>4. Needs(m, Plain) /\ Needs(m, Opt) /\ ~Needs(m, Async) /\ ~Needs(m, AsyncOpt)
    BY <1>4, VariantsTold, Zenon DEF Needs
  <2> QED
    BY <1>1, <1>2, <2>3, <2>4, VariantsTold, Zenon
<1> QED
  BY <1>3, <1>4

(* The parts of a whole stub.                                              *)
LEMMA WholeFields ==
  ASSUME NEW k
  PROVE  /\ Whole(k).consts = Defined(file.services[k])
         /\ Whole(k).first = Ctor /\ Whole(k).last = Spawn
         /\ Whole(k).fns = ClientFunctions(file.services[k])
         /\ Whole(k).handlers = WriteServer(file.services[k]).handlers
         /\ Whole(k).binds = WriteServer(file.services[k]).binds
<1>1. PICK c, fs, h, b : c = Defined(file.services[k]) /\ fs = ClientFunctions(file.services[k])
        /\ h = WriteServer(file.services[k]).handlers /\ b = WriteServer(file.services[k]).binds
  OBVIOUS
<1>2. PICK ct, sp : ct = Ctor /\ sp = Spawn
  OBVIOUS
<1>3. Whole(k) = [consts |-> c, first |-> ct, fns |-> fs, last |-> sp, handlers |-> h, binds |-> b]
  BY <1>1, <1>2, Zenon DEF Whole, Stub
<1>4. /\ Whole(k).consts = c /\ Whole(k).first = ct /\ Whole(k).last = sp
      /\ Whole(k).fns = fs /\ Whole(k).handlers = h /\ Whole(k).binds = b
  <2>1. PICK r : r = Whole(k)
    OBVIOUS
  <2>2. r.consts = c /\ r.first = ct /\ r.last = sp /\ r.fns = fs /\ r.handlers = h /\ r.binds = b
    BY <1>3, <2>1, SMT
  <2> QED
    BY <2>1, <2>2, Zenon
<1> QED
  BY <1>1, <1>2, <1>4

(* The functions of a client are its constructor, spawn, and those of the  *)
(* service's methods.                                                      *)
LEMMA FunctionsWritten ==
  ASSUME NEW g, NEW k, made[g][k] = Whole(k), NEW f
  PROVE  f \in FunctionsOf(g, k) <=>
           \/ f = Ctor \/ f = Spawn
           \/ \E a \in DOMAIN file.services[k].methods, z \in Variants :
                /\ Needs(file.services[k].methods[a], z)
                /\ f = FnOf(file.services[k], file.services[k].methods[a], z)
<1> DEFINE s == file.services[k]
<1>1. made[g][k].first = Ctor /\ made[g][k].last = Spawn /\ made[g][k].fns = ClientFunctions(s)
  BY WholeFields, Zenon
<1>2. DOMAIN ClientFunctions(s) = DOMAIN s.methods /\ \A a \in DOMAIN s.methods : ClientFunctions(s)[a] = Fns(s, s.methods[a])
  BY Zenon DEF ClientFunctions
<1>3. f \in FunctionsOf(g, k) <=>
        f = Ctor \/ f = Spawn \/ \E a \in DOMAIN s.methods : f \in Elements(Fns(s, s.methods[a]))
  BY <1>1, <1>2, ZenonT(60) DEF FunctionsOf
<1>4. \A a : f \in Elements(Fns(s, s.methods[a])) <=>
             \E z \in Variants : Needs(s.methods[a], z) /\ f = FnOf(s, s.methods[a], z)
  BY ElementsFns, SMT
<1> QED
  BY <1>3, <1>4, Zenon

(* A function without options calls the one with options on the same       *)
(* client and returns what that returns; the one with options calls the    *)
(* Client.                                                                 *)
LEMMA FnFields ==
  ASSUME NEW s, NEW m, NEW z \in Variants
  PROVE  /\ FnOf(s, m, z).ret = FnOf(s, m, WithOpt(z)).ret
         /\ z \in {Plain, Async} => FnOf(s, m, z).on = "self" /\ FnOf(s, m, z).calls = FnName(m, WithOpt(z))
         /\ z \in {Opt, AsyncOpt} => WithOpt(z) = z /\ FnOf(s, m, z).on = "client"
         /\ WithOpt(z) \in {Opt, AsyncOpt} /\ (WithOpt(z) = AsyncOpt <=> "async" \in Elements(z))
<1>1. /\ FnOf(s, m, Plain) = Fn(s, m, FALSE, FALSE) /\ FnOf(s, m, Opt) = Fn(s, m, FALSE, TRUE)
      /\ FnOf(s, m, Async) = Fn(s, m, TRUE, FALSE) /\ FnOf(s, m, AsyncOpt) = Fn(s, m, TRUE, TRUE)
  BY VariantsTold, Zenon DEF FnOf
<1>3. /\ WithOpt(Plain) = Opt /\ WithOpt(Opt) = Opt /\ WithOpt(Async) = AsyncOpt /\ WithOpt(AsyncOpt) = AsyncOpt
  BY VariantsTold, Zenon DEF WithOpt
<1>4. /\ Fn(s, m, FALSE, FALSE).ret = Ret(m, FALSE)
      /\ Fn(s, m, FALSE, FALSE).on = "self" /\ Fn(s, m, FALSE, FALSE).calls = FnName(m, Opt)
  BY VariantsTold, Zenon DEF Fn, FnName
<1>5. /\ Fn(s, m, TRUE, FALSE).ret = Ret(m, TRUE)
      /\ Fn(s, m, TRUE, FALSE).on = "self" /\ Fn(s, m, TRUE, FALSE).calls = FnName(m, AsyncOpt)
  BY VariantsTold, Zenon DEF Fn, FnName
<1>6. Fn(s, m, FALSE, TRUE).ret = Ret(m, FALSE) /\ Fn(s, m, FALSE, TRUE).on = "client"
  BY Zenon DEF Fn
<1>7. Fn(s, m, TRUE, TRUE).ret = Ret(m, TRUE) /\ Fn(s, m, TRUE, TRUE).on = "client"
  BY Zenon DEF Fn
<1>8. CASE z = Plain
  BY <1>1, <1>3, <1>4, <1>6, <1>8, VariantsTold, ZenonT(60)
<1>9. CASE z = Opt
  BY <1>1, <1>3, <1>6, <1>9, VariantsTold, Zenon
<1>10. CASE z = Async
  BY <1>1, <1>3, <1>5, <1>7, <1>10, VariantsTold, Zenon
<1>11. CASE z = AsyncOpt
  BY <1>1, <1>3, <1>7, <1>11, VariantsTold, Zenon
<1> QED
  BY <1>8, <1>9, <1>10, <1>11, VariantsTold, Zenon

(* The name of a function is its method's with the suffixes.               *)
LEMMA FnNamed ==
  ASSUME NEW s, NEW m, NEW z \in Variants
  PROVE  FnOf(s, m, z).name = FnName(m, z)
<1>1. /\ FnOf(s, m, Plain) = Fn(s, m, FALSE, FALSE) /\ FnOf(s, m, Opt) = Fn(s, m, FALSE, TRUE)
      /\ FnOf(s, m, Async) = Fn(s, m, TRUE, FALSE) /\ FnOf(s, m, AsyncOpt) = Fn(s, m, TRUE, TRUE)
  BY VariantsTold, Zenon DEF FnOf
<1>2. /\ Fn(s, m, FALSE, FALSE).name = FnName(m, Plain) /\ Fn(s, m, FALSE, TRUE).name = FnName(m, Opt)
      /\ Fn(s, m, TRUE, FALSE).name = FnName(m, Async) /\ Fn(s, m, TRUE, TRUE).name = FnName(m, AsyncOpt)
  BY VariantsTold, Zenon DEF Fn, FnName
<1> QED
  BY <1>1, <1>2, VariantsTold, Zenon

Only(S, f) == S = {f}

(* A call by name in a client reaches the one function that is meant.      *)
LEMMA CalledIs ==
  ASSUME file \in Files, ~Clash, NEW g, NEW k \in DOMAIN file.services, made[g][k] = Whole(k),
         NEW a \in DOMAIN file.services[k].methods, NEW z \in Variants, Needs(file.services[k].methods[a], z),
         NEW f, f = FnOf(file.services[k], file.services[k].methods[a], z)
  PROVE  f \in FunctionsOf(g, k) /\ Only(Called(g, k, FnName(file.services[k].methods[a], z)), f)
<1> DEFINE s == file.services[k]
           m == s.methods[a]
           n == FnName(m, z)
<1>1. f \in FunctionsOf(g, k)
  BY FunctionsWritten, SMT
<1>2. f.name = n
  BY FnNamed, SMT
<1>3. ASSUME NEW h \in FunctionsOf(g, k), h.name = n PROVE h = f
  <2>1. h # Ctor /\ h # Spawn
    BY <1>3, FnNotCtor, ZenonT(60)
  <2>2. PICK b \in DOMAIN s.methods, y \in Variants : h = FnOf(s, s.methods[b], y)
    BY <1>3, <2>1, FunctionsWritten, SMTT(60)
  <2>3. FnName(s.methods[b], y) = n
    BY <1>3, <2>2, FnNamed, SMTT(60)
  <2>4. b = a /\ y = z
    BY <2>3, FnUnique, SMT
  <2> QED
    BY <2>2, <2>4, Zenon
<1> HIDE DEF n
<1>4. Called(g, k, n) = {f}
  BY <1>1, <1>2, <1>3, Zenon DEF Called
<1>5. Only(Called(g, k, n), f)
  BY <1>4, Zenon DEF Only
<1> QED
  BY <1>1, <1>5, Zenon DEF n

(* The constants of a stub are those of the service's methods.             *)
LEMMA DefinedWritten ==
  ASSUME NEW g, NEW k, made[g][k] = Whole(k), NEW c
  PROVE  c \in Elements(made[g][k].consts) <=>
           \E a \in DOMAIN file.services[k].methods : c = WriteDefinition(file.services[k], file.services[k].methods[a])
<1>1. made[g][k].consts = Defined(file.services[k])
  BY WholeFields, Zenon
<1> QED
  BY <1>1, Zenon DEF Defined, Elements

(* The functions of a server's trait are those of the service's methods.   *)
LEMMA HandlersWritten ==
  ASSUME NEW g, NEW k, made[g][k] = Whole(k), NEW h
  PROVE  h \in Elements(made[g][k].handlers) <=>
           \E a \in DOMAIN file.services[k].methods : h = WriteService(file.services[k].methods[a])
<1> DEFINE s == file.services[k]
<1>1. PICK e : e = made[g][k].handlers
  OBVIOUS
<1>2. e = WriteServer(s).handlers
  BY <1>1, WholeFields, Zenon
<1>3. e = [a \in DOMAIN s.methods |-> WriteService(s.methods[a])]
  BY <1>2, Zenon DEF WriteServer
<1>4. DOMAIN e = DOMAIN s.methods /\ \A a \in DOMAIN s.methods : e[a] = WriteService(s.methods[a])
  BY <1>3, Zenon
<1>5. h \in Elements(e) <=> \E a \in DOMAIN s.methods : h = WriteService(s.methods[a])
  BY <1>4, Zenon DEF Elements
<1> QED
  BY <1>1, <1>5, Zenon

(* create_ binds the methods in order; the last takes the instance and the *)
(* others a clone.                                                         *)
LEMMA BindsWritten ==
  ASSUME NEW g, NEW k, made[g][k] = Whole(k)
  PROVE  /\ DOMAIN made[g][k].binds = DOMAIN file.services[k].methods
         /\ \A a \in DOMAIN file.services[k].methods :
              made[g][k].binds[a] = WriteBind(file.services[k], file.services[k].methods[a],
                                              IF a < Len(file.services[k].methods) THEN "clone" ELSE "moved")
<1>1. made[g][k].binds = WriteServer(file.services[k]).binds
  BY WholeFields, Zenon
<1> QED
  BY <1>1, Zenon DEF WriteServer

(* A function with options calls the Client's function of the method's     *)
(* kind with the method's constant.                                        *)
LEMMA FnCalls ==
  ASSUME NEW s, NEW m \in ProtoMethods, NEW z \in {Opt, AsyncOpt}
  PROVE  LET f == FnOf(s, m, z) IN
         /\ f.on = "client" /\ f.calls[1] = Kind(m)[1]
         /\ f.calls[Len(f.calls)] = "async" <=> z = AsyncOpt
         /\ f.with[1] = ConstMethodName(s, m).words
<1>1. PICK c, kind : c = ConstMethodName(s, m).words /\ kind = Kind(m)[1]
  OBVIOUS
<1>2. kind # "async"
  BY <1>1, KindsWritten, Zenon
<1>3. If(TRUE, "async") = <<"async">> /\ If(FALSE, "async") = <<>>
  BY Zenon DEF If
<1>4. <<kind>> \o If(FALSE, "async") = <<kind>> /\ <<kind>> \o If(TRUE, "async") = <<kind, "async">>
  BY <1>3, JoinedWords, Zenon
<1>5. PICK w : w = <<c>> \o If(Req(m), "req") \o <<"opt">>
  BY Zenon
<1>6. w[1] = c
  <2>1. If(Req(m), "req") = <<"req">> \/ If(Req(m), "req") = <<>>
    BY Zenon DEF If
  <2>2. w = <<c, "req", "opt">> \/ w = <<c, "opt">>
    <3>1. <<c>> \o <<"req">> \o <<"opt">> = <<c, "req", "opt">>
      BY JoinedWords, Zenon
    <3>2. <<c>> \o <<>> \o <<"opt">> = <<c, "opt">>
      BY JoinedWords, Zenon
    <3> QED
      BY <1>5, <2>1, <3>1, <3>2, Zenon
  <2> QED
    BY <2>2, SMT
<1>7. <<kind>>[1] = kind /\ <<kind, "async">>[1] = kind /\ Len(<<kind>>) = 1 /\ Len(<<kind, "async">>) = 2 /\ <<kind, "async">>[2] = "async"
  BY SMT
<1>8. CASE z = Opt
  <2>1. FnOf(s, m, Opt) = Fn(s, m, FALSE, TRUE)
    BY VariantsTold, Zenon DEF FnOf
  <2>2. PICK f : f = Fn(s, m, FALSE, TRUE)
    BY Zenon
  <2>3. f.on = "client" /\ f.calls = <<kind>> \o If(FALSE, "async") /\ f.with = w
    BY <1>1, <1>5, <2>2, Zenon DEF Fn
  <2> QED
    BY <1>1, <1>2, <1>4, <1>6, <1>7, <1>8, <2>1, <2>2, <2>3, VariantsTold, ZenonT(60)
<1>9. CASE z = AsyncOpt
  <2>1. FnOf(s, m, AsyncOpt) = Fn(s, m, TRUE, TRUE)
    BY VariantsTold, Zenon DEF FnOf
  <2>2. PICK f : f = Fn(s, m, TRUE, TRUE)
    BY Zenon
  <2>3. f.on = "client" /\ f.calls = <<kind>> \o If(TRUE, "async") /\ f.with = w
    BY <1>1, <1>5, <2>2, Zenon DEF Fn
  <2> QED
    BY <1>1, <1>2, <1>4, <1>6, <1>7, <1>9, <2>1, <2>2, <2>3, VariantsTold, Zenon
<1> QED
  BY <1>8, <1>9, Zenon

(* The constant of a method is defined once among all services of the      *)
(* file, with the path of that method.                                     *)
LEMMA DefinedOnce ==
  ASSUME file \in Files, ~Clash, NEW g, \A j \in DOMAIN file.services : made[g][j] = Whole(j),
         NEW k \in DOMAIN file.services, NEW a \in DOMAIN file.services[k].methods
  PROVE  LET s == file.services[k] m == s.methods[a] IN
         {c.path : c \in Consts(g, ConstMethodName(s, m).words)} = {Append(ServicePath(s), m.name)}
<1> DEFINE s == file.services[k]
           m == s.methods[a]
<1>1. PICK w, p, d : w = ConstMethodName(s, m).words /\ p = Append(ServicePath(s), m.name) /\ d = WriteDefinition(s, m)
  BY Zenon
<1>2. d.name = w /\ d.path = p
  BY <1>1, Zenon DEF WriteDefinition, ConstMethodName
<1>3. \A j \in DOMAIN file.services : \A c : c \in Elements(made[g][j].consts) <=>
         \E b \in DOMAIN file.services[j].methods : c = WriteDefinition(file.services[j], file.services[j].methods[b])
  BY DefinedWritten, SMT
<1>4. d \in Elements(made[g][k].consts)
  BY <1>1, <1>3, Zenon
<1>5. d \in Consts(g, w)
  BY <1>2, <1>4, SMT DEF Consts
<1>6. ASSUME NEW c \in Consts(g, w) PROVE c = d
  <2>1. PICK j \in DOMAIN file.services : c \in Elements(made[g][j].consts) /\ c.name = w
    BY <1>6, Zenon DEF Consts
  <2>2. PICK b \in DOMAIN file.services[j].methods : c = WriteDefinition(file.services[j], file.services[j].methods[b])
    BY <1>3, <2>1, Zenon
  <2>3. c.name = ConstMethodName(file.services[j], file.services[j].methods[b]).words
    BY <2>2, Zenon DEF WriteDefinition
  <2>4. ConstMethodName(file.services[j], file.services[j].methods[b]).words = ConstMethodName(s, m).words
    BY <1>1, <2>1, <2>3, ZenonT(60)
  <2>5. j = k /\ b = a
    BY <2>4, ConstUnique, SMT
  <2> QED
    BY <1>1, <2>2, <2>5, Zenon
<1>7. Consts(g, w) = {d}
  BY <1>5, <1>6, Zenon
<1> QED
  BY <1>1, <1>2, <1>7, Zenon

(* The constant of a method is bound once in create_, with the add_        *)
(* function of its kind and the handler of that name.                      *)
LEMMA BoundOnce ==
  ASSUME file \in Files, ~Clash, NEW g, NEW k \in DOMAIN file.services, made[g][k] = Whole(k),
         NEW a \in DOMAIN file.services[k].methods
  PROVE  LET s == file.services[k] m == s.methods[a] IN
         /\ {b \in DOMAIN made[g][k].binds : made[g][k].binds[b].const = ConstMethodName(s, m).words} = {a}
         /\ made[g][k].binds[a].add = Kind(m)[2] /\ made[g][k].binds[a].calls = m.name
<1> DEFINE s == file.services[k]
           m == s.methods[a]
<1>1. PICK e, w : e = made[g][k].binds /\ w = ConstMethodName(s, m).words
  OBVIOUS
<1>2. DOMAIN e = DOMAIN s.methods
      /\ \A b \in DOMAIN s.methods : e[b] = WriteBind(s, s.methods[b], IF b < Len(s.methods) THEN "clone" ELSE "moved")
  BY <1>1, BindsWritten, Zenon
<1>3. \A b \in DOMAIN s.methods : e[b].const = ConstMethodName(s, s.methods[b]).words /\ e[b].calls = s.methods[b].name
  <2>1. \A b, q : WriteBind(s, s.methods[b], q).const = ConstMethodName(s, s.methods[b]).words
                 /\ WriteBind(s, s.methods[b], q).calls = s.methods[b].name
    BY Zenon DEF WriteBind
  <2> QED
    BY <1>2, <2>1, ZenonT(60)
<1>4. e[a].add = Kind(m)[2]
  BY <1>2, KindsWritten, FileTyped, SMTT(60)
<1>5. \A b \in DOMAIN s.methods : ConstMethodName(s, s.methods[b]).words = w => b = a
  BY <1>1, ConstUnique, SMT
<1>6. {b \in DOMAIN e : e[b].const = w} = {a}
  BY <1>1, <1>2, <1>3, <1>5, Zenon
<1> QED
  BY <1>1, <1>3, <1>4, <1>6, Zenon

(* The handler of that name in the server's trait has the sink of the      *)
(* method's kind.                                                          *)
LEMMA HandledOnce ==
  ASSUME file \in Files, ~Clash, NEW g, NEW k \in DOMAIN file.services, made[g][k] = Whole(k),
         NEW a \in DOMAIN file.services[k].methods
  PROVE  LET m == file.services[k].methods[a] IN
         {h.sink : h \in {e \in Elements(made[g][k].handlers) : e.name = m.name}} = {Kind(m)[3]}
<1> DEFINE s == file.services[k]
           m == s.methods[a]
<1>1. PICK H, n, d, q : H = Elements(made[g][k].handlers) /\ n = m.name /\ d = WriteService(m) /\ q = Kind(m)[3]
  OBVIOUS
<1>2. \A e : e \in H <=> \E b \in DOMAIN s.methods : e = WriteService(s.methods[b])
  <2>1. \A e : e \in Elements(made[g][k].handlers) <=> \E b \in DOMAIN s.methods : e = WriteService(s.methods[b])
    BY HandlersWritten, ZenonT(60)
  <2> QED
    BY <1>1, <2>1, Zenon
<1>3. d \in H /\ d.name = n /\ d.sink = q
  <2>1. d.name = n
    BY <1>1, Zenon DEF WriteService
  <2>2. d.sink = q
    BY <1>1, KindsWritten, FileTyped, Zenon
  <2> QED
    BY <1>1, <1>2, <2>1, <2>2, Zenon
<1>4. ASSUME NEW e \in H, e.name = n PROVE e = d
  <2>1. PICK b \in DOMAIN s.methods : e = WriteService(s.methods[b])
    BY <1>2, <1>4, Zenon
  <2>2. e.name = s.methods[b].name
    BY <2>1, Zenon DEF WriteService
  <2>3. s.methods[b].name \in Seq(Lexicon) /\ m.name \in Seq(Lexicon)
    BY FileTyped, NamesTyped, Zenon
  <2>4. FnName(s.methods[b], Plain) = s.methods[b].name /\ FnName(m, Plain) = m.name
    <3>1. \A u \in Seq(Lexicon) : u \o <<>> = u
      BY SMT
    <3> QED
      BY <2>3, <3>1, Zenon DEF FnName, Plain
  <2>5. FnName(s.methods[b], Plain) = FnName(m, Plain) /\ Plain \in Variants
    BY <1>1, <1>4, <2>2, <2>4, VariantsTold, ZenonT(60)
  <2>6. b = a
    BY <2>5, FnUnique, SMT
  <2> QED
    BY <1>1, <2>1, <2>6, Zenon
<1>5. {e \in H : e.name = n} = {d}
  BY <1>3, <1>4, Zenon
<1>6. {h.sink : h \in {e \in H : e.name = n}} = {q}
  BY <1>3, <1>5, Zenon
<1> QED
  BY <1>1, <1>6, Zenon

(* A client's function reaches the handler of its own method: constant,    *)
(* path, binding and kinds agree.                                          *)
LEMMA ReachesIt ==
  ASSUME file \in Files, ~Clash, NEW g, \A j \in DOMAIN file.services : made[g][j] = Whole(j),
         NEW k \in DOMAIN file.services, NEW a \in DOMAIN file.services[k].methods, NEW z \in Variants
  PROVE  Reaches(g, k, a, z, FnOf(file.services[k], file.services[k].methods[a], WithOpt(z)))
<1> DEFINE s == file.services[k]
           m == s.methods[a]
<1>1. PICK f, w, y : f = FnOf(s, m, y) /\ w = ConstMethodName(s, m).words /\ y = WithOpt(z)
  OBVIOUS
<1>2. m \in ProtoMethods
  BY FileTyped, Zenon
<1>3. y \in {Opt, AsyncOpt} /\ (y = AsyncOpt <=> "async" \in Elements(z))
  BY <1>1, FnFields, Zenon
<1>4. /\ f.on = "client" /\ f.calls[1] = Kind(m)[1]
      /\ f.calls[Len(f.calls)] = "async" <=> y = AsyncOpt
      /\ f.with[1] = w
  <2>1. /\ FnOf(s, m, y).on = "client" /\ FnOf(s, m, y).calls[1] = Kind(m)[1]
        /\ FnOf(s, m, y).calls[Len(FnOf(s, m, y).calls)] = "async" <=> y = AsyncOpt
        /\ FnOf(s, m, y).with[1] = ConstMethodName(s, m).words
    BY <1>2, <1>3, FnCalls, ZenonT(60)
  <2> QED
    BY <1>1, <2>1, Zenon
<1>5. {c.path : c \in Consts(g, w)} = {Append(ServicePath(s), m.name)}
  BY <1>1, DefinedOnce, Zenon
<1>6. /\ {b \in DOMAIN made[g][k].binds : made[g][k].binds[b].const = w} = {a}
      /\ made[g][k].binds[a].add = Kind(m)[2] /\ made[g][k].binds[a].calls = m.name
  <2>1. /\ {b \in DOMAIN made[g][k].binds : made[g][k].binds[b].const = ConstMethodName(s, m).words} = {a}
        /\ made[g][k].binds[a].add = Kind(m)[2] /\ made[g][k].binds[a].calls = m.name
    <3>1. made[g][k] = Whole(k)
      BY Zenon
    <3> QED
      BY <3>1, BoundOnce, SMT
  <2> QED
    BY <1>1, <2>1, Zenon
<1>7. {h.sink : h \in {e \in Elements(made[g][k].handlers) : e.name = m.name}} = {Kind(m)[3]}
  BY HandledOnce, ZenonT(60)
<1> QED
  BY <1>1, <1>3, <1>4, <1>5, <1>6, <1>7, ZenonT(60) DEF Reaches

(* The instance is moved into the last binding and into no other.          *)
LEMMA MovedOnce ==
  ASSUME file \in Files, NEW g, NEW k \in DOMAIN file.services, made[g][k] = Whole(k), file.services[k].methods # <<>>
  PROVE  {i \in DOMAIN made[g][k].binds : made[g][k].binds[i].instance = "moved"} = {Len(file.services[k].methods)}
<1>1. PICK e, ms : e = made[g][k].binds /\ ms = file.services[k].methods
  OBVIOUS
<1>2. DOMAIN e = DOMAIN ms
      /\ \A b \in DOMAIN ms : e[b] = WriteBind(file.services[k], ms[b], IF b < Len(ms) THEN "clone" ELSE "moved")
  BY <1>1, BindsWritten, Zenon
<1>3. \A b \in DOMAIN ms : e[b].instance = "moved" <=> ~(b < Len(ms))
  <2>1. \A b \in DOMAIN ms : e[b].instance = IF b < Len(ms) THEN "clone" ELSE "moved"
    BY <1>2, SMT DEF WriteBind
  <2> QED
    BY <2>1, Zenon
<1>4. ms \in Seq(ProtoMethods) /\ ms # <<>>
  BY <1>1, FileTyped, Zenon
<1>5. Len(ms) \in DOMAIN ms /\ \A b \in DOMAIN ms : ~(b < Len(ms)) <=> b = Len(ms)
  BY <1>4, SMT
<1> QED
  BY <1>1, <1>2, <1>3, <1>5, Zenon

(* The invariant gives StubsAgree: the generators that are done wrote the  *)
(* same stubs, and each function reaches its handler.                      *)
LEMMA StubsFollow ==
  ASSUME GenInv
  PROVE  StubsAgree
<1>0. file \in Files
  BY Zenon DEF GenInv
<1>1. ASSUME NEW g \in Generators, at[g].stage = "panic"
      PROVE  \E k \in DOMAIN file.services : file.services[k].methods = <<>>
  <2>1. PlaceInv(at[g])
    BY Zenon DEF GenInv
  <2>2. at[g].service \in DOMAIN file.services /\ file.services[at[g].service].methods = <<>>
    BY <1>1, <2>1, Zenon DEF PlaceInv
  <2> QED
    BY <2>2, Zenon
<1>2. ASSUME NEW g \in Generators, at[g].stage = "done", ~Clash, NEW k \in DOMAIN file.services,
             NEW a \in DOMAIN file.services[k].methods, NEW z \in Variants,
             Kind(file.services[k].methods[a])[1] = "unary_call" \/ "async" \notin Elements(z)
      PROVE  \E f \in FunctionsOf(g, k) :
               /\ Called(g, k, file.services[k].methods[a].name \o z) = {f}
               /\ IF f.on = "self"
                  THEN \E h \in FunctionsOf(g, k) :
                         /\ Called(g, k, f.calls) = {h} /\ h.ret = f.ret
                         /\ Reaches(g, k, a, z, h)
                  ELSE Reaches(g, k, a, z, f)
  <2> DEFINE s == file.services[k]
             m == s.methods[a]
  <2>1. \A j \in DOMAIN file.services : made[g][j] = Whole(j)
    BY <1>2, AllWritten, Zenon
  <2>2. made[g][k] = Whole(k)
    BY <2>1, Zenon
  <2>3. m \in ProtoMethods
    BY <1>0, FileTyped, Zenon
  <2>4. PICK y : y = WithOpt(z)
    OBVIOUS
  <2>5. y \in Variants /\ Needs(m, z) /\ Needs(m, y)
    <3>1. "async" \in Elements(z) => MethodTypeOf(m) = "Unary"
      BY <1>2, <2>3, KindsWritten, Zenon
    <3>2. y \in {Opt, AsyncOpt} /\ (y = AsyncOpt <=> "async" \in Elements(z))
      BY <2>4, FnFields, Zenon
    <3> QED
      BY <3>1, <3>2, VariantsTold, Zenon DEF Needs
  <2>6. PICK f, h : f = FnOf(s, m, z) /\ h = FnOf(s, m, y)
    OBVIOUS
  <2>7. f \in FunctionsOf(g, k) /\ Called(g, k, FnName(m, z)) = {f}
    <3>1. f \in FunctionsOf(g, k) /\ Only(Called(g, k, FnName(m, z)), f)
      BY <1>0, <1>2, <2>2, <2>5, <2>6, CalledIs, SMTT(60)
    <3> QED
      BY <3>1, ZenonT(60) DEF Only
  <2>8. h \in FunctionsOf(g, k) /\ Called(g, k, FnName(m, y)) = {h}
    <3>1. h \in FunctionsOf(g, k) /\ Only(Called(g, k, FnName(m, y)), h)
      BY <1>0, <1>2, <2>2, <2>5, <2>6, CalledIs, SMTT(60)
    <3> QED
      BY <3>1, ZenonT(60) DEF Only
  <2>9. Reaches(g, k, a, z, h)
    BY <1>0, <1>2, <2>1, <2>4, <2>6, ReachesIt, Zenon
  <2>10. FnName(m, z) = m.name \o z
    BY Zenon DEF FnName
  <2>11. h.ret = f.ret
    BY <2>4, <2>6, FnFields, SMT
  <2>12. CASE z \in {Plain, Async}
    <3>1. f.on = "self" /\ f.calls = FnName(m, y)
      BY <2>4, <2>6, <2>12, FnFields, SMTT(60)
    <3> QED
      BY <2>7, <2>8, <2>9, <2>10, <2>11, <3>1, ZenonT(60)
  <2>13. CASE z \in {Opt, AsyncOpt}
    <3>1. f.on = "client" /\ f = h
      BY <2>4, <2>6, <2>13, FnFields, SMTT(60)
    <3>2. "client" # "self"
      BY Zenon
    <3> QED
      BY <2>7, <2>9, <2>10, <3>1, <3>2, ZenonT(60)
  <2> QED
    BY <2>12, <2>13, VariantsTold, Zenon
<1>3. ASSUME NEW g \in Generators, at[g].stage = "done", NEW k \in DOMAIN file.services
      PROVE  {i \in DOMAIN made[g][k].binds : made[g][k].binds[i].instance = "moved"}
               = {Len(file.services[k].methods)}
  <2>1. made[g][k] = Whole(k) /\ file.services[k].methods # <<>>
    BY <1>3, AllWritten, Zenon
  <2> QED
    BY <1>0, <2>1, MovedOnce, Zenon
<1>4. ASSUME \A g \in Generators : at[g].stage = "done" PROVE made["protobuf"] = made["prost"]
  <2>1. "protobuf" \in Generators /\ "prost" \in Generators
    BY Zenon DEF Generators
  <2> QED
    BY <1>4, <2>1, AllWritten, Zenon
<1> QED
  BY <1>1, <1>2, <1>3, <1>4, Zenon DEF StubsAgree

(* Whatever the proto file, when its names do not clash every function of  *)
(* a generated client reaches the handler of its own method, and the two   *)
(* generators write the same interface (codegen.rs:394-630,                *)
(* prost_codegen.rs:191-538).                                              *)
THEOREM StubsAlwaysAgree == ToolchainSpec => []StubsAgree
<1>1. ToolchainInit => GenInv
  BY CodegenStarts, Zenon DEF ToolchainInit
<1>2. GenInv /\ [ToolchainNext]_toolVars => GenInv'
  <2> SUFFICES ASSUME GenInv, [ToolchainNext]_toolVars PROVE GenInv'
    OBVIOUS
  <2>1. [CodegenNext]_genVars
    BY Zenon DEF ToolchainNext, toolVars
  <2> QED
    BY <2>1, CodegenSteps, Zenon
<1>3. GenInv => StubsAgree
  BY StubsFollow, Zenon
<1> QED
  BY <1>1, <1>2, <1>3, PTL DEF ToolchainSpec

-----------------------------------------------------------------------------
(* The splitter.                                                           *)

Pairs == Nat \X Nat
Begins == {parts[k][1] : k \in Words}
Covers == UNION {parts[k][1]..(parts[k][2] - 1) : k \in Words}
IsName == name \in Seq(Classes) /\ Len(name) \in Nat /\ Len(name) > 0

(* The parts so far are the words of what lies before the position, and    *)
(* the position is where one may begin.                                    *)
SplitInv ==
  /\ IsName
  /\ pos \in 0..Len(name)
  /\ parts \in Seq(Pairs)
  /\ parts = <<>> => pos = 0
  /\ parts # <<>> => parts[Len(parts)][2] = pos
  /\ \A k \in DOMAIN parts :
       /\ parts[k][1] <= parts[k][2]
       /\ k < Len(parts) => parts[k][1] < parts[k][2]
       /\ k > 1 => parts[k - 1][2] <= parts[k][1]
       /\ parts[k][1] = parts[k][2] => pos = Len(name) /\ At(Len(name) - 1) = "under"
  /\ Begins = {i \in 0..(pos - 1) : WordStart(i)}
  /\ Covers = {i \in 0..(pos - 1) : At(i) # "under"}
  /\ pos \in {0, Len(name)} \/ At(pos) = "under" \/ WordStart(pos)
  /\ camel # "none" =>
       pos = Len(name) /\ (camel = "panic" <=> \E k \in DOMAIN parts : parts[k][1] = parts[k][2])

(* Every position of a name has a class.                                   *)
LEMMA AtTyped ==
  ASSUME IsName, NEW i \in 0..(Len(name) - 1)
  PROVE  At(i) \in Classes
BY DEF IsName, At

(* As long as the loop passes on, the part is capitals and then others,    *)
(* and it has one capital when it has others.                              *)
LEMMA PassesOn ==
  ASSUME IsName, NEW p \in 0..(Len(name) - 1), NEW s \in p..Len(name), Passes(p, s),
         NEW i \in p..(s - 1)
  PROVE  /\ At(i) # "under"
         /\ At(i) = "U" => \A j \in p..(i - 1) : At(j) = "U"
         /\ At(i) = "l" => \A j, k \in p..(i - 1) : At(j) = "U" /\ At(k) = "U" => j = k
<1>0. i \in 0..(Len(name) - 1) /\ i \in Int /\ p \in Int /\ s \in Int
  BY DEF IsName
<1>1. ~EndsAt(p, i, i) /\ ~EndsAt(p, i, i - 1)
  BY Zenon DEF Passes
<1>2. At(i) # "under"
  BY <1>1, Zenon DEF EndsAt
<1>3. At(i) = "U" => From(p, i, "l") = {}
  BY <1>1, Zenon DEF EndsAt
<1>4. At(i) = "l" => \A j, k \in From(p, i, "U") : j = k
  BY <1>1, Zenon DEF EndsAt
<1>5. ASSUME NEW j \in p..(i - 1) PROVE At(j) \in {"U", "l"}
  <2>1. j \in p..(s - 1) /\ j \in 0..(Len(name) - 1)
    BY <1>0
  <2>2. ~EndsAt(p, j, j)
    BY <2>1, Zenon DEF Passes
  <2>3. At(j) # "under"
    BY <2>2, Zenon DEF EndsAt
  <2> QED
    BY <2>1, <2>3, AtTyped, Zenon DEF Classes
<1>6. At(i) = "U" => \A j \in p..(i - 1) : At(j) = "U"
  BY <1>3, <1>5, Zenon DEF From
<1>7. At(i) = "l" => \A j, k \in p..(i - 1) : At(j) = "U" /\ At(k) = "U" => j = k
  BY <1>4, Zenon DEF From
<1> QED
  BY <1>2, <1>6, <1>7, Zenon

(* No word begins inside what the loop has passed, but perhaps its last    *)
(* capital.                                                                *)
LEMMA NoneInside ==
  ASSUME IsName, NEW p \in 0..(Len(name) - 1), NEW s \in p..Len(name), Passes(p, s),
         NEW i \in (p + 1)..(s - 1), WordStart(i)
  PROVE  i = s - 1 /\ At(s - 2) = "U" /\ At(i) = "U" /\ s < Len(name) /\ At(s) = "l"
<1>0. /\ i \in p..(s - 1) /\ i - 1 \in p..(s - 1) /\ i # 0 /\ i \in Int /\ s \in Int /\ p \in Int
      /\ i - 1 \in p..(i - 1) /\ Len(name) \in Nat
  BY DEF IsName
<1>1. At(i - 1) # "under" /\ (At(i) = "U" => At(i - 1) = "U")
  BY <1>0, PassesOn, ZenonT(60)
<1>2. At(i) = "U" /\ At(i - 1) = "U" /\ i + 1 < Len(name) /\ At(i + 1) = "l"
  BY <1>0, <1>1, Zenon DEF WordStart
<1>3. ASSUME i + 1 < s PROVE FALSE
  <2>1. PICK n \in p..(s - 1) : n = i + 1
    BY <1>0, <1>3
  <2>2. i \in p..(n - 1) /\ i - 1 \in p..(n - 1) /\ i # i - 1 /\ At(n) = "l"
    BY <1>0, <1>2, <2>1
  <2>3. \A j, k \in p..(n - 1) : At(j) = "U" /\ At(k) = "U" => j = k
    BY <2>2, PassesOn, Zenon
  <2> QED
    BY <1>2, <2>2, <2>3, Zenon
<1>4. i + 1 = s /\ i - 1 = s - 2
  BY <1>0, <1>3
<1> QED
  BY <1>0, <1>2, <1>4

(* A part begins and ends as a word does, and has no other in it.          *)
LEMMA PartIsWord ==
  ASSUME IsName, NEW p \in 0..(Len(name) - 1), At(p) # "under", NEW stop \in 0..Len(name),
         PartEnds(p, stop)
  PROVE  /\ p < stop
         /\ \A i \in p..(stop - 1) : At(i) # "under"
         /\ \A i \in (p + 1)..(stop - 1) : ~WordStart(i)
         /\ stop = Len(name) \/ At(stop) = "under" \/ WordStart(stop)
<1>0. Len(name) \in Nat /\ p \in Int /\ stop \in Int
  BY DEF IsName
<1>1. CASE Passes(p, Len(name)) /\ stop = Len(name)
  <2>1. Len(name) \in p..Len(name) /\ p < stop
    BY <1>0, <1>1
  <2>2. \A i \in p..(stop - 1) : At(i) # "under"
    BY <1>1, <2>1, PassesOn, Zenon
  <2>3. \A i \in (p + 1)..(stop - 1) : ~WordStart(i)
    <3> SUFFICES ASSUME NEW i \in (p + 1)..(stop - 1), WordStart(i) PROVE FALSE
      OBVIOUS
    <3>1. Len(name) < Len(name)
      BY <1>1, <2>1, NoneInside, Zenon
    <3> QED
      BY <1>0, <3>1
  <2> QED
    BY <1>1, <2>1, <2>2, <2>3
<1>2. ASSUME NEW s \in p..(Len(name) - 1), Passes(p, s), EndsAt(p, s, stop)
      PROVE  /\ p < stop
             /\ \A i \in p..(stop - 1) : At(i) # "under"
             /\ \A i \in (p + 1)..(stop - 1) : ~WordStart(i)
             /\ At(stop) = "under" \/ WordStart(stop)
  <2>0. s \in p..Len(name) /\ s \in Int /\ s \in 0..(Len(name) - 1)
    BY <1>0
  <2>1. \A i \in p..(s - 1) : At(i) # "under"
    BY <1>2, <2>0, PassesOn, Zenon
  <2>2. CASE At(s) = "under" /\ stop = s
    <3>1. p < s
      BY <1>0, <2>0, <2>2, SMT
    <3>2. \A i \in (p + 1)..(stop - 1) : ~WordStart(i)
      <4> SUFFICES ASSUME NEW i \in (p + 1)..(s - 1), WordStart(i) PROVE FALSE
        BY <2>2
      <4>1. At(s) = "l"
        BY <1>2, <2>0, NoneInside, Zenon
      <4> QED
        BY <2>2, <4>1
    <3> QED
      BY <2>1, <2>2, <3>1, <3>2
  <2>3. CASE At(s) = "U" /\ From(p, s, "l") # {} /\ stop = s
    <3>1. PICK j \in p..(s - 1) : At(j) = "l"
      BY <2>3, Zenon DEF From
    <3>2. s - 1 \in p..(s - 1) /\ p < s /\ s # 0
      BY <1>0, <2>0, <3>1
    <3>3. At(s - 1) # "U"
      <4>1. CASE j = s - 1
        BY <3>1, <4>1
      <4>2. CASE j # s - 1
        <5>1. j \in p..((s - 1) - 1)
          BY <1>0, <2>0, <3>1, <4>2
        <5>2. At(s - 1) = "U" => \A i \in p..((s - 1) - 1) : At(i) = "U"
          BY <1>2, <2>0, <3>2, PassesOn, Zenon
        <5> QED
          BY <3>1, <5>1, <5>2, Zenon
      <4> QED
        BY <4>1, <4>2
    <3>4. At(s - 1) = "l"
      <4>1. s - 1 \in 0..(Len(name) - 1)
        BY <1>0, <2>0, <3>2
      <4> QED
        BY <2>1, <3>2, <3>3, <4>1, AtTyped, Zenon DEF Classes
    <3>5. WordStart(s)
      BY <2>3, <3>4, Zenon DEF WordStart
    <3>6. \A i \in (p + 1)..(stop - 1) : ~WordStart(i)
      <4> SUFFICES ASSUME NEW i \in (p + 1)..(s - 1), WordStart(i) PROVE FALSE
        BY <2>3
      <4>1. At(s) = "l"
        BY <1>2, <2>0, NoneInside, Zenon
      <4> QED
        BY <2>3, <4>1
    <3> QED
      BY <2>1, <2>3, <3>2, <3>5, <3>6
  <2>4. CASE At(s) = "l" /\ (\E j, k \in From(p, s, "U") : j # k) /\ stop = s - 1
    <3>1. PICK j \in p..(s - 1), k \in p..(s - 1) : At(j) = "U" /\ At(k) = "U" /\ j < k
      <4>1. PICK j \in p..(s - 1), k \in p..(s - 1) : At(j) = "U" /\ At(k) = "U" /\ j # k
        BY <2>4, Zenon DEF From
      <4>2. j < k \/ k < j
        BY <2>0, <4>1
      <4> QED
        BY <4>1, <4>2, Zenon
    <3>2. /\ s - 1 \in p..(s - 1) /\ s - 2 \in p..(s - 1) /\ p < s - 1 /\ s - 2 \in p..((s - 1) - 1)
          /\ (s - 1) - 1 = s - 2 /\ s - 1 # 0 /\ (s - 1) + 1 = s
          /\ s - 1 \in 0..(Len(name) - 1) /\ s < Len(name)
      BY <1>0, <2>0, <3>1
    <3>3. At(s - 1) = "U"
      <4>1. At(s - 1) # "l"
        <5>1. CASE k = s - 1
          BY <3>1, <5>1
        <5>2. CASE k # s - 1
          <6>1. j \in p..((s - 1) - 1) /\ k \in p..((s - 1) - 1) /\ j # k
            BY <1>0, <2>0, <3>1, <5>2
          <6>2. At(s - 1) = "l" =>
                  \A a, b \in p..((s - 1) - 1) : At(a) = "U" /\ At(b) = "U" => a = b
            BY <1>2, <2>0, <3>2, PassesOn, Zenon
          <6> QED
            BY <3>1, <6>1, <6>2, Zenon
        <5> QED
          BY <5>1, <5>2
      <4> QED
        BY <2>1, <3>2, <4>1, AtTyped, Zenon DEF Classes
    <3>4. At(s - 2) = "U"
      <4>1. \A i \in p..((s - 1) - 1) : At(i) = "U"
        BY <1>2, <2>0, <3>2, <3>3, PassesOn, Zenon
      <4> QED
        BY <3>2, <4>1, Zenon
    <3>5. WordStart(s - 1)
      BY <2>4, <3>2, <3>3, <3>4 DEF WordStart
    <3>6. \A i \in (p + 1)..(stop - 1) : ~WordStart(i)
      <4> SUFFICES ASSUME NEW i \in (p + 1)..((s - 1) - 1), WordStart(i) PROVE FALSE
        BY <2>4
      <4>1. i \in (p + 1)..(s - 1) /\ i # s - 1
        BY <1>0, <2>0
      <4> QED
        BY <1>2, <2>0, <4>1, NoneInside, Zenon
    <3>7. \A i \in p..(stop - 1) : i \in p..(s - 1)
      BY <1>0, <2>0, <2>4
    <3> QED
      BY <2>1, <2>4, <3>2, <3>5, <3>6, <3>7
  <2> QED
    BY <1>2, <2>2, <2>3, <2>4, Zenon DEF EndsAt
<1> QED
  BY <1>1, <1>2, Zenon DEF PartEnds

(* A new splitter (util.rs:13-18) has yielded nothing.                     *)
LEMMA SplitStarts ==
  ASSUME NamingInit
  PROVE  SplitInv
<1>1. PICK n \in 1..MaxName : name \in [1..n -> Classes]
  BY Zenon DEF NamingInit
<1>2. n \in Nat /\ n > 0
  BY <1>1, MaxNameAssumption
<1>3. name \in Seq(Classes) /\ Len(name) = n
  BY <1>1, <1>2, SMT
<1>4. IsName /\ pos = 0 /\ parts = <<>> /\ camel = "none" /\ pos \in 0..Len(name)
  BY <1>2, <1>3 DEF IsName, NamingInit
<1>5. DOMAIN parts = {} /\ parts \in Seq(Pairs)
  BY <1>4, SMT
<1>6. Words = {}
  BY <1>5, Zenon DEF Words
<1>7. Begins = {} /\ Covers = {}
  BY <1>6, Zenon DEF Begins, Covers
<1>8. 0..(pos - 1) = {}
  BY <1>4
<1> QED
  BY <1>4, <1>5, <1>7, <1>8, Zenon DEF SplitInv

(* One more part, behind the others.                                       *)
LEMMA PartAppended ==
  ASSUME parts \in Seq(Pairs), NEW p \in Nat, NEW stop \in Nat, p <= stop,
         parts' = Append(parts, <<p, stop>>)
  PROVE  /\ parts' \in Seq(Pairs) /\ Len(parts') = Len(parts) + 1 /\ parts' # <<>>
         /\ DOMAIN parts' = DOMAIN parts \cup {Len(parts) + 1}
         /\ Len(parts) + 1 \notin DOMAIN parts
         /\ \A k \in DOMAIN parts : parts'[k] = parts[k] /\ k < Len(parts) + 1
         /\ parts'[Len(parts) + 1][1] = p /\ parts'[Len(parts) + 1][2] = stop
         /\ Begins' = Begins \cup {i \in {p} : p < stop}
         /\ Covers' = Covers \cup p..(stop - 1)
<1> DEFINE n == Len(parts) + 1
           w == <<p, stop>>
<1>1. w \in Pairs /\ w[1] = p /\ w[2] = stop
  BY SMT DEF Pairs
<1> HIDE DEF w
<1>2. /\ parts' \in Seq(Pairs) /\ Len(parts') = Len(parts) + 1
      /\ DOMAIN parts' = DOMAIN parts \cup {n}
      /\ \A k \in DOMAIN parts : parts'[k] = parts[k] /\ k < n
      /\ parts'[n] = w /\ n \notin DOMAIN parts
  BY <1>1, SMT DEF w
<1>3. parts' # <<>>
  BY <1>2, SMT
<1>4. \A i \in p..(stop - 1) : p < stop
  BY SMT
<1>5. Words' = Words \cup {k \in {n} : p < stop}
  BY <1>1, <1>2, Zenon DEF Words
<1> HIDE DEF n
<1>6. Begins' = Begins \cup {i \in {p} : p < stop}
  <2>1. ASSUME NEW i, i \in Begins' PROVE i \in Begins \cup {j \in {p} : p < stop}
    <3>1. PICK k \in Words' : i = parts'[k][1]
      BY <2>1, Zenon DEF Begins
    <3>2. CASE k \in Words
      <4>1. parts'[k] = parts[k]
        BY <1>2, <3>2, Zenon DEF Words
      <4> QED
        BY <3>1, <3>2, <4>1, Zenon DEF Begins
    <3>3. CASE k = n /\ p < stop
      BY <1>1, <1>2, <3>1, <3>3, Zenon
    <3> QED
      BY <1>5, <3>1, <3>2, <3>3, Zenon
  <2>2. ASSUME NEW i, i \in Begins PROVE i \in Begins'
    <3>1. PICK k \in Words : i = parts[k][1]
      BY <2>2, Zenon DEF Begins
    <3> QED
      BY <1>2, <1>5, <3>1, Zenon DEF Begins, Words
  <2>3. ASSUME p < stop PROVE p \in Begins'
    BY <1>1, <1>2, <1>5, <2>3, Zenon DEF Begins
  <2> QED
    BY <2>1, <2>2, <2>3, Zenon
<1>7. Covers' = Covers \cup p..(stop - 1)
  <2>1. ASSUME NEW i, i \in Covers' PROVE i \in Covers \cup p..(stop - 1)
    <3>1. PICK k \in Words' : i \in parts'[k][1]..(parts'[k][2] - 1)
      BY <2>1, Zenon DEF Covers
    <3> QED
      BY <1>1, <1>2, <1>5, <3>1, ZenonT(60) DEF Covers, Words
  <2>2. ASSUME NEW i, i \in Covers PROVE i \in Covers'
    <3>1. PICK k \in Words : i \in parts[k][1]..(parts[k][2] - 1)
      BY <2>2, Zenon DEF Covers
    <3> QED
      BY <1>2, <1>5, <3>1, Zenon DEF Covers, Words
  <2>3. ASSUME NEW i \in p..(stop - 1) PROVE i \in Covers'
    <3>1. n \in Words'
      BY <1>4, <1>5, <2>3, Zenon
    <3> QED
      BY <1>1, <1>2, <2>3, <3>1, Zenon DEF Covers
  <2> QED
    BY <2>1, <2>2, <2>3, Zenon
<1> QED
  BY <1>1, <1>2, <1>3, <1>6, <1>7, Zenon DEF n

(* NameSpliter::next (util.rs:24-59) yields the next word of the name, or  *)
(* an empty part after a trailing underscore.                              *)
LEMMA SplitStep ==
  ASSUME SplitInv, NextPart
  PROVE  SplitInv'
<1>1. PICK p \in 0..Len(name), stop \in 0..Len(name) :
        /\ pos < Len(name) /\ pos <= p /\ Skips(p) /\ PartEnds(p, stop)
        /\ parts' = Append(parts, <<p, stop>>)
        /\ pos' = stop
        /\ UNCHANGED <<name, camel>>
  BY Zenon DEF NextPart
<1> DEFINE L == Len(name)
           n == Len(parts) + 1
<1>2. IsName /\ L \in Nat /\ L > 0 /\ pos \in 0..L /\ pos \in Nat /\ p \in Nat /\ stop \in Nat
      /\ pos' \in 0..L /\ parts \in Seq(Pairs)
  BY <1>1 DEF SplitInv, IsName
<1>3. /\ p <= stop
      /\ \A i \in p..(stop - 1) : At(i) # "under"
      /\ \A i \in (p + 1)..(stop - 1) : ~WordStart(i)
      /\ stop = L \/ At(stop) = "under" \/ WordStart(stop)
      /\ p = stop => stop = L /\ At(L - 1) = "under"
      /\ p < stop => WordStart(p)
  <2>1. CASE p = L
    <3>1. stop = L
      BY <1>1, <1>2, <2>1 DEF PartEnds
    <3>2. L - 1 \in pos..(p - 1)
      BY <1>1, <1>2, <2>1
    <3>3. At(L - 1) = "under"
      BY <1>1, <3>2, Zenon DEF Skips
    <3>4. p..(stop - 1) = {} /\ (p + 1)..(stop - 1) = {}
      BY <1>2, <2>1, <3>1
    <3> QED
      BY <1>2, <2>1, <3>1, <3>3, <3>4
  <2>2. CASE p # L
    <3>1. p \in 0..(L - 1) /\ p < L
      BY <1>2, <2>2
    <3>2. At(p) # "under"
      BY <1>1, <3>1, Zenon DEF Skips
    <3>3. /\ p < stop
          /\ \A i \in p..(stop - 1) : At(i) # "under"
          /\ \A i \in (p + 1)..(stop - 1) : ~WordStart(i)
          /\ stop = L \/ At(stop) = "under" \/ WordStart(stop)
      BY <1>1, <1>2, <3>1, <3>2, PartIsWord, Zenon
    <3>4. WordStart(p)
      <4>1. CASE p = pos
        <5>1. p # 0 => WordStart(p)
          BY <1>1, <1>2, <3>2, <4>1 DEF SplitInv
        <5> QED
          BY <3>2, <5>1, Zenon DEF WordStart
      <4>2. CASE p # pos
        <5>1. p - 1 \in pos..(p - 1)
          BY <1>1, <1>2, <4>2
        <5>2. At(p - 1) = "under"
          BY <1>1, <5>1, Zenon DEF Skips
        <5> QED
          BY <3>2, <5>2, Zenon DEF WordStart
      <4> QED
        BY <4>1, <4>2
    <3>5. p <= stop /\ p # stop
      BY <1>2, <3>3
    <3> QED
      BY <3>3, <3>4, <3>5
  <2> QED
    BY <2>1, <2>2
<1>4. /\ parts' \in Seq(Pairs) /\ Len(parts') = n /\ parts' # <<>>
      /\ DOMAIN parts' = DOMAIN parts \cup {n} /\ n \notin DOMAIN parts
      /\ \A k \in DOMAIN parts : parts'[k] = parts[k] /\ k < n
      /\ parts'[n][1] = p /\ parts'[n][2] = stop
      /\ Begins' = Begins \cup {i \in {p} : p < stop}
      /\ Covers' = Covers \cup p..(stop - 1)
  BY <1>1, <1>2, <1>3, PartAppended, Zenon
<1>5. \A i \in pos..(p - 1) : At(i) = "under" /\ ~WordStart(i)
  BY <1>1, Zenon DEF Skips, WordStart
<1>6. \A i : At(i)' = At(i)
  BY <1>1, Zenon DEF At
<1>7. \A i : WordStart(i)' = WordStart(i)
  BY <1>1, <1>6, Zenon DEF WordStart
<1>8. Begins' = {i \in 0..(pos' - 1) : WordStart(i)'}
  <2>1. Begins = {i \in 0..(pos - 1) : WordStart(i)}
    BY Zenon DEF SplitInv
  <2>2. \A i \in 0..(stop - 1) : i \in 0..(pos - 1) \/ i \in pos..(p - 1) \/ i = p \/ i \in (p + 1)..(stop - 1)
    BY <1>2, SMT
  <2>3. \A i \in 0..(pos - 1) : i \in 0..(stop - 1)
    BY <1>1, <1>2, <1>3, SMT
  <2>4. p < stop => p \in 0..(stop - 1)
    BY <1>2
  <2>5. p \in 0..(stop - 1) => p < stop
    BY <1>2
  <2> QED
    BY <1>1, <1>3, <1>4, <1>5, <1>7, <2>1, <2>2, <2>3, <2>4, <2>5, Zenon
<1>9. Covers' = {i \in 0..(pos' - 1) : At(i)' # "under"}
  <2>1. Covers = {i \in 0..(pos - 1) : At(i) # "under"}
    BY Zenon DEF SplitInv
  <2>2. \A i \in 0..(stop - 1) : i \in 0..(pos - 1) \/ i \in pos..(p - 1) \/ i \in p..(stop - 1)
    BY <1>2, SMT
  <2>3. /\ \A i \in 0..(pos - 1) : i \in 0..(stop - 1)
        /\ \A i \in p..(stop - 1) : i \in 0..(stop - 1)
    BY <1>1, <1>2, <1>3, SMT
  <2> QED
    BY <1>1, <1>3, <1>4, <1>5, <1>6, <2>1, <2>2, <2>3, Zenon
<1>10. pos' \in {0, L} \/ At(pos') = "under" \/ WordStart(pos')
  BY <1>1, <1>3, Zenon
<1>11. camel = "none"
  BY <1>1, <1>2 DEF SplitInv
<1>12. ASSUME NEW k \in DOMAIN parts'
       PROVE  /\ parts'[k][1] <= parts'[k][2]
              /\ k < Len(parts') => parts'[k][1] < parts'[k][2]
              /\ k > 1 => parts'[k - 1][2] <= parts'[k][1]
              /\ parts'[k][1] = parts'[k][2] => pos' = L /\ At(L - 1) = "under"
  <2>1. CASE k = n
    <3>1. n > 1 => parts'[n - 1][2] <= p
      <4> SUFFICES ASSUME n > 1 PROVE parts'[n - 1][2] <= p
        OBVIOUS
      <4>1. n - 1 = Len(parts) /\ n - 1 \in DOMAIN parts /\ parts # <<>>
        BY <1>2, SMT
      <4>2. parts'[n - 1] = parts[Len(parts)]
        BY <1>4, <4>1, Zenon
      <4>3. parts[Len(parts)][2] = pos
        BY <4>1, Zenon DEF SplitInv
      <4> QED
        BY <1>1, <4>2, <4>3, Zenon
    <3>2. ~(n < n)
      BY <1>2, SMT
    <3> QED
      BY <1>1, <1>3, <1>4, <2>1, <3>1, <3>2, Zenon
  <2>2. CASE k # n
    <3>1. k \in DOMAIN parts /\ parts'[k] = parts[k] /\ k < n
      BY <1>4, <2>2, Zenon
    <3>2. /\ parts[k][1] <= parts[k][2] /\ parts[k][1] # parts[k][2]
          /\ k > 1 => parts[k - 1][2] <= parts[k][1]
      <4>1. pos # L
        BY <1>1, <1>2
      <4> QED
        BY <3>1, <4>1, Zenon DEF SplitInv
    <3>3. parts[k][1] \in Nat /\ parts[k][2] \in Nat
      BY <1>2, <3>1, SMT DEF Pairs
    <3>4. parts[k][1] < parts[k][2]
      BY <3>2, <3>3
    <3>5. k > 1 => parts'[k - 1] = parts[k - 1]
      <4>1. k > 1 => k - 1 \in DOMAIN parts
        BY <1>2, <3>1, SMT
      <4> QED
        BY <1>4, <4>1, Zenon
    <3> QED
      BY <3>1, <3>2, <3>4, <3>5, Zenon
  <2> QED
    BY <2>1, <2>2
<1>13. parts'[Len(parts')][2] = pos'
  BY <1>1, <1>4, Zenon
<1>14. IsName'
  BY <1>1, <1>2, Zenon DEF IsName, Classes
<1>15. L' = L
  BY <1>1, Zenon
<1>16. At(Len(name) - 1)' = At(L - 1) /\ WordStart(pos)' = WordStart(pos') /\ At(pos)' = At(pos')
  BY <1>1, Zenon DEF At, WordStart
<1> QED
  BY <1>1, <1>2, <1>4, <1>8, <1>9, <1>10, <1>11, <1>12, <1>13, <1>14, <1>15, <1>16, Zenon
     DEF SplitInv, Pairs

(* to_camel_case (util.rs:74-82) goes over the parts; it panics on an      *)
(* empty one (chs.next().unwrap(), util.rs:78).                            *)
LEMMA CamelStep ==
  ASSUME SplitInv, ToCamelCase
  PROVE  SplitInv'
<1>1. UNCHANGED <<name, pos, parts>> /\ pos = Len(name)
      /\ camel' = IF \E k \in DOMAIN parts : parts[k][1] = parts[k][2] THEN "panic" ELSE "ok"
  BY Zenon DEF ToCamelCase
<1>2. camel' = "panic" <=> \E k \in DOMAIN parts : parts[k][1] = parts[k][2]
  BY <1>1, Zenon
<1>3. Words' = Words
  BY <1>1, Zenon DEF Words
<1>4. Begins' = Begins /\ Covers' = Covers
  BY <1>1, <1>3, Zenon DEF Begins, Covers
<1>5. \A i : At(i)' = At(i) /\ WordStart(i)' = WordStart(i)
  BY <1>1, Zenon DEF At, WordStart
<1>6. At(Len(name) - 1)' = At(Len(name) - 1) /\ WordStart(pos)' = WordStart(pos) /\ At(pos)' = At(pos)
  BY <1>1, Zenon DEF At, WordStart
<1>7. IsName' /\ Len(name)' = Len(name)
  BY <1>1, Zenon DEF SplitInv, IsName, Classes
<1> QED
  BY <1>1, <1>2, <1>4, <1>5, <1>6, <1>7, Zenon DEF SplitInv, Pairs

(* The invariant gives NamesSplit once all parts are there.                *)
LEMMA SplitFollows ==
  ASSUME SplitInv
  PROVE  NamesSplit
<1>1. \A k \in DOMAIN parts :
        /\ k < Len(parts) => k \in Words
        /\ k > 1 => parts[k - 1][2] <= parts[k][1]
  BY Zenon DEF SplitInv, Words
<1>2. pos = Len(name) => /\ Begins = {i \in 0..(Len(name) - 1) : WordStart(i)}
                         /\ Covers = {i \in 0..(Len(name) - 1) : At(i) # "under"}
  BY Zenon DEF SplitInv
<1>3. ASSUME camel # "none" PROVE camel = "panic" <=> At(Len(name) - 1) = "under"
  <2>0. pos = Len(name) /\ (camel = "panic" <=> \E k \in DOMAIN parts : parts[k][1] = parts[k][2])
        /\ Len(name) \in Nat /\ Len(name) > 0 /\ parts \in Seq(Pairs)
    BY <1>3, Zenon DEF SplitInv, IsName
  <2>1. ASSUME camel = "panic" PROVE At(Len(name) - 1) = "under"
    BY <2>0, <2>1, Zenon DEF SplitInv
  <2>2. ASSUME At(Len(name) - 1) = "under", \A k \in DOMAIN parts : parts[k][1] # parts[k][2]
        PROVE  FALSE
    <3>1. parts # <<>>
      BY <2>0 DEF SplitInv
    <3> DEFINE n == Len(parts)
    <3>2. n \in DOMAIN parts
      BY <2>0, <3>1, SMT
    <3>3. parts[n][2] = Len(name) /\ parts[n][1] <= parts[n][2] /\ parts[n][1] # parts[n][2]
      BY <2>0, <2>2, <3>1, <3>2, Zenon DEF SplitInv
    <3>4. parts[n][1] \in Nat
      BY <2>0, <3>2, SMT DEF Pairs
    <3>5. Len(name) - 1 \in parts[n][1]..(parts[n][2] - 1) /\ parts[n][1] < parts[n][2]
      BY <2>0, <3>3, <3>4
    <3>6. Len(name) - 1 \in Covers
      BY <3>2, <3>5, Zenon DEF Covers, Words
    <3> QED
      BY <1>2, <2>0, <2>2, <3>6, Zenon
  <2> QED
    BY <2>0, <2>1, <2>2, Zenon
<1> QED
  BY <1>1, <1>2, <1>3, Zenon DEF NamesSplit, Begins, Covers

(* The other programs leave the splitter alone.                            *)
LEMMA SplitStays ==
  ASSUME SplitInv, UNCHANGED nameVars
  PROVE  SplitInv'
<1>1. UNCHANGED <<name, pos, parts, camel>>
  BY Zenon DEF nameVars
<1>2. Words' = Words
  BY <1>1, Zenon DEF Words
<1>3. Begins' = Begins /\ Covers' = Covers
  BY <1>1, <1>2, Zenon DEF Begins, Covers
<1>4. \A i : At(i)' = At(i) /\ WordStart(i)' = WordStart(i)
  BY <1>1, Zenon DEF At, WordStart
<1>5. At(Len(name) - 1)' = At(Len(name) - 1) /\ WordStart(pos)' = WordStart(pos) /\ At(pos)' = At(pos)
  BY <1>1, Zenon DEF At, WordStart
<1>6. IsName' /\ Len(name)' = Len(name)
  BY <1>1, Zenon DEF SplitInv, IsName, Classes
<1> QED
  BY <1>1, <1>3, <1>4, <1>5, <1>6, Zenon DEF SplitInv, Pairs

(* However long the name, the splitter finds its words, and to_camel_case  *)
(* panics only where the name ends in an underscore (util.rs:24-82).       *)
THEOREM NamesAreSplit == ToolchainSpec => []NamesSplit
<1>1. ToolchainInit => SplitInv
  BY SplitStarts, Zenon DEF ToolchainInit
<1>2. SplitInv /\ [ToolchainNext]_toolVars => SplitInv'
  <2> SUFFICES ASSUME SplitInv, [ToolchainNext]_toolVars PROVE SplitInv'
    OBVIOUS
  <2>1. CASE NextPart
    BY <2>1, SplitStep, Zenon
  <2>2. CASE ToCamelCase
    BY <2>2, CamelStep, Zenon
  <2>3. CASE UNCHANGED nameVars
    BY <2>3, SplitStays, Zenon
  <2>4. NextPart \/ ToCamelCase \/ UNCHANGED nameVars
    BY Zenon DEF ToolchainNext, toolVars, NamingNext
  <2> QED
    BY <2>1, <2>2, <2>3, <2>4, Zenon
<1>3. SplitInv => NamesSplit
  BY SplitFollows, Zenon
<1> QED
  BY <1>1, <1>2, <1>3, PTL DEF ToolchainSpec

-----------------------------------------------------------------------------
(* The build script.                                                       *)

Names == Compilers \cup {DefaultCxx}
Watched == {"grpc", "grpc_wrap.cc", "bindings"}
Stages == {"idle", "main", "probe", "prepare", "clean", "cmake", "link", "wrap", "bind"}
Libraries == {"system", "grpc", "grpc_unsecure", "ssl", "static ssl"}
File == [rev : Int, raw : BOOLEAN, whole : BOOLEAN]
Outputs ==
  [cache : {<<>>} \cup (Names \X {"name", "path"}), lib : (Names \cup {"none"}) \X Int,
   wrap : Int, bound : Int, links : SUBSET Libraries]
Records == [vars : SUBSET {"cxx", "pkg", "update"}, files : SUBSET Watched, env : Env]
Jobs ==
  [at : Stages, dir : Dirs, env : Env, vars : SUBSET {"cxx", "pkg", "update"},
   files : SUBSET Watched, left : BOOLEAN]

BuildTypeOK ==
  /\ feat \in Features
  /\ tree \in [grpc : Int, wrap : Int, there : BOOLEAN]
  /\ bindings \in File
  /\ out \in [Dirs -> Outputs]
  /\ seen \in [Dirs -> Records]
  /\ touched \in [Dirs -> SUBSET Watched]
  /\ job \in Jobs
  /\ asked \in [Dirs -> {<<>>} \cup {<<e>> : e \in Env}]

(* What a build with the environment e leaves: the libraries that it       *)
(* links, the one it builds and the bindings.                              *)
LinksFor(o, e) ==
  /\ e.pkg => o.links = {"system"}
  /\ ~e.pkg => /\ "system" \notin o.links
               /\ (\E l \in {"ssl", "static ssl"} : l \in o.links) <=> feat.ssl # "none"
CompiledFor(o, e) == ~e.pkg => o.lib = <<Compiler(e), tree.grpc>>
BoundFor(o, e) ==
  /\ feat.bindgen /\ ~feat.known => o.bound = tree.grpc
  /\ feat.bindgen /\ feat.known /\ e.update => bindings.rev = tree.grpc

(* The last build's environment is the recorded one, as far as the script  *)
(* has looked at it.                                                       *)
Alike(e, f) == e.pkg = f.pkg /\ e.update = f.update /\ (~e.pkg => e.cxx = f.cxx)

(* A run that cargo counts named what it depends on, and what it left is   *)
(* of the present sources unless one of them was touched. One that wrote   *)
(* bindings has touched them after they were named, so that the next build *)
(* with UPDATE_BIND runs the script again.                                 *)
DirInv(d) ==
  /\ seen[d] = Never => asked[d] = <<>>
  /\ seen[d] # Never =>
       /\ asked[d] # <<>> /\ Alike(seen[d].env, asked[d][1])
       /\ {"update", "pkg"} \subseteq seen[d].vars
       /\ ~seen[d].env.pkg => "cxx" \in seen[d].vars
       /\ {"grpc", "grpc_wrap.cc"} \subseteq seen[d].files
       /\ LinksFor(out[d], seen[d].env)
       /\ "grpc_wrap.cc" \notin touched[d] => out[d].wrap = tree.wrap
       /\ "grpc" \notin touched[d] =>
            CompiledFor(out[d], seen[d].env) /\ BoundFor(out[d], seen[d].env)
       /\ feat.known /\ feat.bindgen /\ seen[d].env.update =>
            "bindings" \in seen[d].files \cap touched[d]

(* What a run has done so far.                                             *)
JobInv ==
  /\ job.at = "idle" => job = Idle
  /\ job.at # "idle" => seen[job.dir] = Never /\ asked[job.dir] = <<>>
  /\ job.at \notin {"idle", "main"} =>
       {"update", "pkg"} \subseteq job.vars /\ job.files = {"grpc_wrap.cc", "grpc"}
  /\ job.at = "probe" => job.env.pkg
  /\ job.at \in {"prepare", "clean", "cmake", "link"} => ~job.env.pkg
  /\ job.at \in {"clean", "cmake", "link", "wrap", "bind"} /\ ~job.env.pkg => "cxx" \in job.vars
  /\ job.at \in {"wrap", "bind"} => LinksFor(Here, job.env)
  /\ job.at \in {"link", "wrap", "bind"} /\ "grpc" \notin touched[job.dir] =>
       CompiledFor(Here, job.env)
  /\ job.at = "bind" /\ "grpc_wrap.cc" \notin touched[job.dir] => Here.wrap = tree.wrap
  /\ job.at = "cmake" /\ ~job.left => Agrees

BuildInv == BuildTypeOK /\ JobInv /\ \A d \in Dirs : DirInv(d)

(* A target directory stays as it is when nothing a build reads or writes  *)
(* changes.                                                                *)
LEMMA DirSame ==
  ASSUME UNCHANGED <<feat, tree, bindings, out, seen, touched, asked>>, NEW d \in Dirs, DirInv(d)
  PROVE  DirInv(d)'
BY Zenon DEF DirInv, LinksFor, CompiledFor, BoundFor, Alike, Compiler

(* The script writes to its own OUT_DIR only: another directory keeps what *)
(* it holds.                                                               *)
LEMMA DirApart ==
  ASSUME UNCHANGED <<feat, tree, bindings, seen, touched, asked>>, NEW d \in Dirs, DirInv(d),
         out'[d] = out[d]
  PROVE  DirInv(d)'
BY Zenon DEF DirInv, LinksFor, CompiledFor, BoundFor, Alike, Compiler

(* While a script runs, what it writes counts for nothing yet.             *)
LEMMA DirsRun ==
  ASSUME BuildInv, job.at # "idle", NEW o, Output(o),
         UNCHANGED <<feat, tree, bindings, seen, touched, asked>>
  PROVE  \A d \in Dirs : DirInv(d)'
<1> SUFFICES ASSUME NEW d \in Dirs PROVE DirInv(d)'
  OBVIOUS
<1>1. CASE d = job.dir
  <2>1. seen[d] = Never /\ asked[d] = <<>>
    BY <1>1, Zenon DEF BuildInv, JobInv
  <2>2. (seen[d] = Never)' /\ (asked[d] = <<>>)'
    BY <2>1, Zenon DEF Never, Unset
  <2> QED
    BY <2>2, Zenon DEF DirInv
<1>2. CASE d # job.dir
  <2>1. out'[d] = out[d]
    BY <1>2, SMT DEF BuildInv, BuildTypeOK, Output
  <2> QED
    BY <2>1, DirApart, Zenon DEF BuildInv
<1> QED
  BY <1>1, <1>2, Zenon

(* What a step of the script leaves is what its directory then holds.      *)
LEMMA HereIs ==
  ASSUME BuildInv, NEW o, Output(o), job'.dir = job.dir
  PROVE  Here' = o
BY SMT DEF BuildInv, BuildTypeOK, Output, Here, Jobs

(* No build is running: the state cargo leaves behind.                     *)
LEMMA IdleJob == Idle \in Jobs /\ Idle.at = "idle"
BY SMT DEF Idle, Jobs, Stages, Dirs, Unset, Env

(* main (build.rs:420-447) names both variables and both sources before    *)
(* anything can fail, so no run that succeeds goes without them.           *)
LEMMA StepMain ==
  ASSUME BuildInv, Main
  PROVE  BuildInv'
<1> DEFINE a == IF job.env.pkg THEN "probe" ELSE "prepare"
<1>0. a \in Stages /\ a # "idle" /\ a # "main" /\ (a = "probe" => job.env.pkg)
      /\ (a = "prepare" => ~job.env.pkg) /\ a \in {"probe", "prepare"}
  BY Zenon DEF Stages
<1> DEFINE v == {"update", "pkg"}
           f == {"grpc_wrap.cc", "grpc"}
<1>1. v \in SUBSET {"cxx", "pkg", "update"} /\ f \in SUBSET Watched
  BY Zenon DEF Watched
<1>2. job' = [job EXCEPT !.at = a, !.vars = v, !.files = f]
  BY Zenon DEF Main
<1> HIDE DEF a, v, f
<1>3. /\ job' \in Jobs /\ job'.at = a /\ job'.vars = v
      /\ job'.files = f /\ job'.dir = job.dir /\ job'.env = job.env
  <2>1. job \in Jobs
    BY Zenon DEF BuildInv, BuildTypeOK
  <2> QED
    BY <1>0, <1>1, <1>2, <2>1, Zenon DEF Jobs
<1>4. BuildTypeOK'
  BY <1>3, Zenon DEF BuildInv, BuildTypeOK, Main
<1>5. JobInv'
  BY <1>0, <1>3, Zenon DEF BuildInv, JobInv, Main, v, f
<1>6. \A d \in Dirs : DirInv(d)'
  BY DirSame, Zenon DEF BuildInv, Main
<1> QED
  BY <1>4, <1>5, <1>6, Zenon DEF BuildInv

(* An output written to a directory keeps the directories typed.           *)
LEMMA OutTyped ==
  ASSUME BuildInv, NEW o \in Outputs, Output(o)
  PROVE  out' \in [Dirs -> Outputs]
BY Zenon DEF BuildInv, BuildTypeOK, Output

(* The running build has a directory, and its output there is typed.       *)
LEMMA HereTyped ==
  ASSUME BuildInv
  PROVE  Here \in Outputs /\ job \in Jobs /\ job.dir \in Dirs
BY Zenon DEF BuildInv, BuildTypeOK, Here, Jobs

(* Naming the libraries to link changes nothing that was built.            *)
LEMMA OutLinks ==
  ASSUME NEW o \in Outputs, NEW ls \in SUBSET Libraries, NEW p, p = [o EXCEPT !.links = ls]
  PROVE  p \in Outputs /\ p.links = ls /\ p.lib = o.lib /\ p.wrap = o.wrap
BY Zenon DEF Outputs

Others == <<feat, tree, bindings, seen, touched, asked>>

(* A step of a running script, once the part about the script is shown.    *)
LEMMA RunKeeps ==
  ASSUME BuildInv, job.at # "idle", NEW o \in Outputs, UNCHANGED out \/ Output(o),
         job' \in Jobs, JobInv', UNCHANGED Others
  PROVE  BuildInv'
<1>1. UNCHANGED <<feat, tree, bindings, seen, touched, asked>>
  BY Zenon DEF Others
<1>2. out' \in [Dirs -> Outputs]
  BY OutTyped, Zenon DEF BuildInv, BuildTypeOK
<1>3. BuildTypeOK'
  BY <1>1, <1>2, Zenon DEF BuildInv, BuildTypeOK
<1>4. CASE UNCHANGED out
  BY <1>1, <1>3, <1>4, DirSame, Zenon DEF BuildInv
<1>5. CASE Output(o)
  BY <1>1, <1>3, <1>5, DirsRun, Zenon DEF BuildInv
<1> QED
  BY <1>4, <1>5, Zenon

(* A panic of the script leaves a run that cargo does not count.           *)
LEMMA PanicKeeps ==
  ASSUME BuildInv, job.at # "idle", NEW o \in Outputs, UNCHANGED out \/ Output(o), Panic,
         UNCHANGED Others
  PROVE  BuildInv'
<1>1. job' = Idle
  BY Zenon DEF Panic
<1>2. job' \in Jobs /\ JobInv'
  BY <1>1, IdleJob, Zenon DEF JobInv
<1> QED
  BY <1>2, RunKeeps, Zenon

(* probe_library (build.rs:32-41) with GRPCIO_SYS_USE_PKG_CONFIG: the      *)
(* system's library is linked, or the script panics.                       *)
LEMMA StepProbe ==
  ASSUME BuildInv, ProbeLibrary
  PROVE  BuildInv'
<1>0. job.at = "probe" /\ job.at # "idle" /\ UNCHANGED Others /\ Here \in Outputs /\ job \in Jobs
  BY HereTyped, Zenon DEF ProbeLibrary, Others
<1>1. CASE Panic /\ UNCHANGED out
  BY <1>0, <1>1, PanicKeeps, Zenon
<1>2. CASE Step("wrap") /\ Output([Here EXCEPT !.links = {"system"}])
  <2> DEFINE p == [Here EXCEPT !.links = {"system"}]
  <2>1. {"system"} \in SUBSET Libraries /\ "wrap" \in Stages
    BY Zenon DEF Libraries, Stages
  <2>2. p \in Outputs /\ p.links = {"system"}
    BY <1>0, <2>1, OutLinks, Zenon
  <2>3. /\ job' \in Jobs /\ job'.at = "wrap" /\ job'.vars = job.vars /\ job'.files = job.files
        /\ job'.dir = job.dir /\ job'.env = job.env
    BY <1>0, <1>2, <2>1, Zenon DEF Step, Jobs
  <2> HIDE DEF p
  <2>4. Here' = p
    BY <1>2, <2>3, HereIs, Zenon DEF p
  <2>5. JobInv'
    BY <1>0, <2>2, <2>3, <2>4, Zenon DEF BuildInv, JobInv, LinksFor, CompiledFor, Others
  <2> QED
    BY <1>0, <1>2, <2>2, <2>3, <2>5, RunKeeps, Zenon DEF p
<1> QED
  BY <1>1, <1>2, Zenon DEF ProbeLibrary

(* prepare_grpc (build.rs:43-61) refuses a tree without its submodules;    *)
(* after it CXX is read and named.                                         *)
LEMMA StepPrepare ==
  ASSUME BuildInv, PrepareGrpc
  PROVE  BuildInv'
<1>0. /\ job.at = "prepare" /\ job.at # "idle" /\ UNCHANGED Others /\ UNCHANGED out
      /\ Here \in Outputs /\ job \in Jobs
  BY HereTyped, Zenon DEF PrepareGrpc, Others
<1>1. CASE Panic
  BY <1>0, <1>1, PanicKeeps, Zenon
<1>2. CASE job' = [job EXCEPT !.at = "clean", !.vars = @ \cup {"cxx"}]
  <2> DEFINE v == job.vars \cup {"cxx"}
  <2>1. v \in SUBSET {"cxx", "pkg", "update"} /\ "clean" \in Stages
    BY <1>0, Zenon DEF Jobs, Stages
  <2>2. job' = [job EXCEPT !.at = "clean", !.vars = v]
    BY <1>2, Zenon
  <2>3. job.vars \subseteq v /\ "cxx" \in v
    BY Zenon
  <2> HIDE DEF v
  <2>4. /\ job' \in Jobs /\ job'.at = "clean" /\ job'.vars = v /\ job'.files = job.files
        /\ job'.dir = job.dir /\ job'.env = job.env
    BY <1>0, <2>1, <2>2, Zenon DEF Jobs
  <2>5. JobInv'
    BY <1>0, <2>3, <2>4, Zenon DEF BuildInv, JobInv, Others
  <2> QED
    BY <1>0, <2>4, <2>5, RunKeeps, Zenon
<1> QED
  BY <1>1, <1>2, Zenon DEF PrepareGrpc

(* clean_up_stale_cache (build.rs:77-100): unless the removal fails, the   *)
(* cache it leaves is of the compiler about to be used.                    *)
LEMMA StepClean ==
  ASSUME BuildInv, CleanUpStaleCache
  PROVE  BuildInv'
<1> DEFINE cxx == Compared(job.env)
           stale == Stale(Here.cache, cxx)
           p == [Here EXCEPT !.cache = <<>>]
<1>0. /\ job.at = "clean" /\ job.at # "idle" /\ UNCHANGED Others
      /\ Here \in Outputs /\ job \in Jobs /\ "cmake" \in Stages
  BY HereTyped, Zenon DEF CleanUpStaleCache, Others, Stages
<1>1. ASSUME job'.at = "cmake", job' \in Jobs, job'.vars = job.vars, job'.files = job.files,
             job'.dir = job.dir, job'.env = job.env, ~job'.left => Agrees'
      PROVE  JobInv'
  BY <1>0, <1>1, Zenon DEF BuildInv, JobInv, Others
<1>2. CASE ~stale /\ Step("cmake") /\ UNCHANGED out
  <2>1. /\ job' \in Jobs /\ job'.at = "cmake" /\ job'.vars = job.vars /\ job'.files = job.files
        /\ job'.dir = job.dir /\ job'.env = job.env
    BY <1>0, <1>2, Zenon DEF Step, Jobs
  <2>2. Here' = Here
    BY <1>2, <2>1, Zenon DEF Here
  <2>3. Agrees'
    <3>1. CASE Here.cache = <<>>
      BY <2>2, <3>1, Zenon DEF Agrees
    <3>2. CASE Here.cache = <<cxx, "name">>
      <4>0. Here.cache \in {<<>>} \cup Names \X {"name", "path"}
        BY <1>0, Zenon DEF Outputs
      <4>1. cxx \in Names
        <5> HIDE DEF cxx
        <5>1. <<cxx, "name">> # <<>>
          OBVIOUS
        <5>2. <<cxx, "name">> \in Names \X {"name", "path"}
          BY <3>2, <4>0, <5>1, Zenon
        <5> QED
          BY <5>2
      <4>2. cxx = Compiler(job.env)
        BY <4>1, DefaultCcAssumption, Zenon DEF Compared, Compiler, Names
      <4>3. Compiler(job'.env) = cxx
        BY <2>1, <4>2, Zenon
      <4> QED
        BY <2>2, <3>2, <4>3, Zenon DEF Agrees
    <3> QED
      BY <1>2, <3>1, <3>2, Zenon DEF Stale
  <2> QED
    BY <1>0, <1>1, <1>2, <2>1, <2>3, RunKeeps, Zenon
<1>3. CASE stale /\ Step("cmake") /\ Output(p)
  <2>1. /\ job' \in Jobs /\ job'.at = "cmake" /\ job'.vars = job.vars /\ job'.files = job.files
        /\ job'.dir = job.dir /\ job'.env = job.env
    BY <1>0, <1>3, Zenon DEF Step, Jobs
  <2>2. p \in Outputs /\ p.cache = <<>>
    BY <1>0, Zenon DEF Outputs
  <2> HIDE DEF p
  <2>3. Here' = p
    BY <1>3, <2>1, HereIs, Zenon
  <2>4. Agrees'
    BY <2>2, <2>3, Zenon DEF Agrees
  <2> QED
    BY <1>0, <1>1, <1>3, <2>1, <2>2, <2>4, RunKeeps, Zenon
<1>4. CASE stale /\ job' = [job EXCEPT !.at = "cmake", !.left = TRUE] /\ UNCHANGED out
  <2>1. /\ job' \in Jobs /\ job'.at = "cmake" /\ job'.vars = job.vars /\ job'.files = job.files
        /\ job'.dir = job.dir /\ job'.env = job.env /\ job'.left = TRUE
    BY <1>0, <1>4, Zenon DEF Jobs
  <2> QED
    BY <1>0, <1>1, <1>4, <2>1, RunKeeps, Zenon
<1> QED
  BY <1>2, <1>3, <1>4, Zenon DEF CleanUpStaleCache

(* The CMake build of build_grpc (build.rs:102-196): the library is of the *)
(* present sources and of the compiler asked for, whatever an interrupted  *)
(* run left.                                                               *)
LEMMA StepCMake ==
  ASSUME BuildInv, BuildGrpc
  PROVE  BuildInv'
<1> DEFINE cxx == Compiler(job.env)
           l == <<cxx, tree.grpc>>
<1>0. /\ job.at = "cmake" /\ job.at # "idle" /\ UNCHANGED Others
      /\ Here \in Outputs /\ job \in Jobs /\ "link" \in Stages
  BY HereTyped, Zenon DEF BuildGrpc, Others, Stages
<1>1. cxx \in Names /\ tree.grpc \in Int
  BY <1>0, Zenon DEF BuildInv, BuildTypeOK, Compiler, Names, Jobs, Env
<1>2. l \in (Names \cup {"none"}) \X Int
  BY <1>1, Zenon
<1>3. CASE Panic /\ UNCHANGED out
  BY <1>0, <1>3, PanicKeeps, Zenon
<1>4. ASSUME NEW form \in {"name", "path"}
      PROVE  /\ Panic /\ Output([Here EXCEPT !.cache = <<cxx, form>>]) => BuildInv'
             /\ Step("link") /\ Output([Here EXCEPT !.cache = <<cxx, form>>, !.lib = l]) => BuildInv'
  <2> DEFINE c == <<cxx, form>>
  <2>1. c \in {<<>>} \cup (Names \X {"name", "path"})
    BY <1>1, Zenon
  <2>2. ASSUME Panic, Output([Here EXCEPT !.cache = c])
        PROVE  BuildInv'
    <3> DEFINE p == [Here EXCEPT !.cache = c]
    <3>1. p \in Outputs
      BY <1>0, <2>1, Zenon DEF Outputs
    <3> QED
      BY <1>0, <2>2, <3>1, PanicKeeps, Zenon
  <2>3. ASSUME Step("link"), Output([Here EXCEPT !.cache = c, !.lib = l])
        PROVE  BuildInv'
    <3> DEFINE p == [Here EXCEPT !.cache = c, !.lib = l]
    <3>1. p \in Outputs /\ p.lib = l
      BY <1>0, <1>2, <2>1, Zenon DEF Outputs
    <3>2. /\ job' \in Jobs /\ job'.at = "link" /\ job'.vars = job.vars /\ job'.files = job.files
          /\ job'.dir = job.dir /\ job'.env = job.env
      BY <1>0, <2>3, Zenon DEF Step, Jobs
    <3> HIDE DEF p
    <3>3. Here' = p
      BY <2>3, <3>2, HereIs, Zenon DEF p
    <3>4. CompiledFor(Here, job.env)'
      BY <1>0, <3>1, <3>2, <3>3, Zenon DEF CompiledFor, Compiler, Others
    <3>5. JobInv'
      BY <1>0, <3>2, <3>4, Zenon DEF BuildInv, JobInv, Others
    <3> QED
      BY <1>0, <2>3, <3>1, <3>2, <3>5, RunKeeps, Zenon DEF p
  <2> QED
    BY <2>2, <2>3, Zenon
<1> QED
  BY <1>3, <1>4, Zenon DEF BuildGrpc

(* The libraries that are linked (build.rs:197-262) follow the ssl         *)
(* feature.                                                                *)
LEMMA StepLink ==
  ASSUME BuildInv, LinkLibraries
  PROVE  BuildInv'
<1> DEFINE ls == CASE feat.ssl = "none" -> {"grpc_unsecure"}
                   [] feat.ssl = "boringssl" -> {"grpc", "static ssl"}
                   [] feat.ssl = "openssl" -> {"grpc", "ssl"}
           p == [Here EXCEPT !.links = ls]
<1>0. /\ job.at = "link" /\ job.at # "idle" /\ UNCHANGED Others
      /\ Here \in Outputs /\ job \in Jobs /\ "wrap" \in Stages
  BY HereTyped, Zenon DEF LinkLibraries, Others, Stages
<1>1. CASE Panic /\ UNCHANGED out
  BY <1>0, <1>1, PanicKeeps, Zenon
<1>2. CASE Step("wrap") /\ Output(p)
  <2>1. /\ ls \in SUBSET Libraries /\ "system" \notin ls
        /\ (\E n \in {"ssl", "static ssl"} : n \in ls) <=> feat.ssl # "none"
    <3>1. feat.ssl \in {"none", "boringssl", "openssl"}
      BY FeaturesAssumption, Zenon DEF BuildInv, BuildTypeOK
    <3>2. CASE feat.ssl = "none"
      <4>1. ls = {"grpc_unsecure"}
        BY <3>2, SMT
      <4> QED
        BY <3>2, <4>1, Zenon DEF Libraries
    <3>3. CASE feat.ssl = "boringssl"
      <4>1. ls = {"grpc", "static ssl"}
        BY <3>3, SMT
      <4> QED
        BY <3>3, <4>1, Zenon DEF Libraries
    <3>4. CASE feat.ssl = "openssl"
      <4>1. ls = {"grpc", "ssl"}
        BY <3>4, SMT
      <4> QED
        BY <3>4, <4>1, Zenon DEF Libraries
    <3> QED
      BY <3>1, <3>2, <3>3, <3>4, Zenon
  <2> HIDE DEF ls
  <2>2. p \in Outputs /\ p.links = ls /\ p.lib = Here.lib
    BY <1>0, <2>1, Zenon DEF Outputs
  <2>3. /\ job' \in Jobs /\ job'.at = "wrap" /\ job'.vars = job.vars /\ job'.files = job.files
        /\ job'.dir = job.dir /\ job'.env = job.env
    BY <1>0, <1>2, Zenon DEF Step, Jobs
  <2> HIDE DEF p
  <2>4. Here' = p
    BY <1>2, <2>3, HereIs, Zenon
  <2>5. LinksFor(Here, job.env)'
    BY <1>0, <2>1, <2>2, <2>3, <2>4, Zenon DEF BuildInv, JobInv, LinksFor, Others
  <2>6. CompiledFor(Here, job.env) => CompiledFor(Here, job.env)'
    BY <1>0, <2>2, <2>3, <2>4, Zenon DEF CompiledFor, Compiler, Others
  <2>7. JobInv'
    BY <1>0, <2>3, <2>5, <2>6, Zenon DEF BuildInv, JobInv, Others
  <2> QED
    BY <1>0, <1>2, <2>2, <2>3, <2>7, RunKeeps, Zenon
<1> QED
  BY <1>1, <1>2, Zenon DEF LinkLibraries

(* cc compiles grpc_wrap.cc as it is now (build.rs:449-455).               *)
LEMMA StepWrap ==
  ASSUME BuildInv, CompileWrap
  PROVE  BuildInv'
<1> DEFINE p == [Here EXCEPT !.wrap = tree.wrap]
<1>0. /\ job.at = "wrap" /\ job.at # "idle" /\ UNCHANGED Others
      /\ Here \in Outputs /\ job \in Jobs /\ "bind" \in Stages /\ tree.wrap \in Int
  BY HereTyped, Zenon DEF CompileWrap, Others, Stages, BuildInv, BuildTypeOK
<1>1. CASE Panic /\ UNCHANGED out
  BY <1>0, <1>1, PanicKeeps, Zenon
<1>2. CASE Step("bind") /\ Output(p)
  <2>1. p \in Outputs /\ p.links = Here.links /\ p.lib = Here.lib /\ p.wrap = tree.wrap
    BY <1>0, Zenon DEF Outputs
  <2>2. /\ job' \in Jobs /\ job'.at = "bind" /\ job'.vars = job.vars /\ job'.files = job.files
        /\ job'.dir = job.dir /\ job'.env = job.env
    BY <1>0, <1>2, Zenon DEF Step, Jobs
  <2> HIDE DEF p
  <2>3. Here' = p
    BY <1>2, <2>2, HereIs, Zenon
  <2>4. LinksFor(Here, job.env) => LinksFor(Here, job.env)'
    BY <1>0, <2>1, <2>2, <2>3, Zenon DEF LinksFor, Others
  <2>5. CompiledFor(Here, job.env) => CompiledFor(Here, job.env)'
    BY <1>0, <2>1, <2>2, <2>3, Zenon DEF CompiledFor, Compiler, Others
  <2>6. Here'.wrap = tree'.wrap
    BY <1>0, <2>1, <2>3, Zenon DEF Others
  <2>7. JobInv'
    BY <1>0, <2>2, <2>4, <2>5, <2>6, Zenon DEF BuildInv, JobInv, Others
  <2> QED
    BY <1>0, <1>2, <2>1, <2>2, <2>7, RunKeeps, Zenon
<1> QED
  BY <1>1, <1>2, Zenon DEF CompileWrap

(* A file is touched for every run that counts, or may.                    *)
LEMMA Touched ==
  ASSUME BuildInv, NEW f \in Watched, Touch(f)
  PROVE  /\ touched' \in [Dirs -> SUBSET Watched]
         /\ \A d \in Dirs : seen[d] # Never \/ (job.at # "idle" /\ job.dir = d) =>
              touched'[d] = touched[d] \cup {f}
<1>1. touched \in [Dirs -> SUBSET Watched]
  BY Zenon DEF BuildInv, BuildTypeOK
<1>2. \A d \in Dirs : touched[d] \cup {f} \in SUBSET Watched /\ {} \in SUBSET Watched
  BY <1>1, Zenon
<1> QED
  BY <1>1, <1>2, Zenon DEF Touch

(* What a step that touches f may do to the sources.                       *)
Changes(f) ==
  /\ tree'.grpc = tree.grpc \/ f = "grpc"
  /\ tree'.wrap = tree.wrap \/ f = "grpc_wrap.cc"
  /\ bindings'.rev = bindings.rev \/ bindings'.rev = tree'.grpc

(* A file that a build reads has changed and was touched: a directory that *)
(* was built owes nothing for it until the next run.                       *)
LEMMA DirTouched ==
  ASSUME BuildInv, NEW f \in Watched, Touch(f), Changes(f), NEW d \in Dirs,
         feat' = feat, seen'[d] = seen[d], asked'[d] = asked[d], out'[d] = out[d]
  PROVE  DirInv(d)'
<1>0. DirInv(d)
  BY Zenon DEF BuildInv
<1>1. CASE seen[d] = Never
  <2>1. (seen[d] = Never)' /\ (asked[d] = <<>>)'
    BY <1>0, <1>1, Zenon DEF DirInv, Never, Unset
  <2> QED
    BY <2>1, Zenon DEF DirInv
<1>2. CASE seen[d] # Never
  <2>1. touched'[d] = touched[d] \cup {f}
    BY <1>2, Touched, Zenon
  <2>2. ("grpc_wrap.cc" \notin touched'[d]) => "grpc_wrap.cc" \notin touched[d] /\ f # "grpc_wrap.cc"
    BY <2>1, Zenon
  <2>3. ("grpc" \notin touched'[d]) => "grpc" \notin touched[d] /\ f # "grpc"
    BY <2>1, Zenon
  <2>4. touched[d] \subseteq touched'[d]
    BY <2>1, Zenon
  <2>5. seen'[d] # Never'
    BY <1>2, Zenon DEF Never, Unset
  <2>6. LinksFor(out[d], seen[d].env)'
    BY <1>0, <1>2, Zenon DEF DirInv, LinksFor
  <2>7. Alike(seen[d].env, asked[d][1])'
    BY <1>0, <1>2, Zenon DEF DirInv, Alike
  <2>8. ("grpc_wrap.cc" \notin touched[d])' => (out[d].wrap = tree.wrap)'
    BY <1>0, <1>2, <2>2, Zenon DEF DirInv, Changes
  <2>9. ("grpc" \notin touched[d])' => CompiledFor(out[d], seen[d].env)'
    BY <1>0, <1>2, <2>3, Zenon DEF DirInv, Changes, CompiledFor, Compiler
  <2>10. ("grpc" \notin touched[d])' => BoundFor(out[d], seen[d].env)'
    BY <1>0, <1>2, <2>3, Zenon DEF DirInv, Changes, BoundFor
  <2> QED
    BY <1>0, <1>2, <2>4, <2>5, <2>6, <2>7, <2>8, <2>9, <2>10, Zenon DEF DirInv
<1> QED
  BY <1>1, <1>2, Zenon

(* The same for the build that is running: it owes nothing for a file that *)
(* was touched after it started.                                           *)
LEMMA JobTouched ==
  ASSUME BuildInv, NEW f \in Watched, Touch(f), Changes(f), UNCHANGED <<feat, out, seen, job, asked>>
  PROVE  JobInv'
<1>1. CASE job.at = "idle"
  <2>1. job' = Idle
    BY <1>1, Zenon DEF BuildInv, JobInv
  <2> QED
    BY <2>1, IdleJob, Zenon DEF JobInv
<1>2. CASE job.at # "idle"
  <2>0. job.dir \in Dirs
    BY HereTyped, Zenon
  <2>1. touched'[job.dir] = touched[job.dir] \cup {f}
    BY <1>2, <2>0, Touched, Zenon
  <2>2. ("grpc_wrap.cc" \notin touched'[job.dir]) =>
          "grpc_wrap.cc" \notin touched[job.dir] /\ f # "grpc_wrap.cc"
    BY <2>1, Zenon
  <2>3. ("grpc" \notin touched'[job.dir]) => "grpc" \notin touched[job.dir] /\ f # "grpc"
    BY <2>1, Zenon
  <2>4. Here' = Here
    BY Zenon DEF Here
  <2>5. LinksFor(Here, job.env) => LinksFor(Here, job.env)'
    BY <2>4, Zenon DEF LinksFor
  <2>6. ("grpc" \notin touched[job.dir])' /\ CompiledFor(Here, job.env) =>
          CompiledFor(Here, job.env)'
    BY <2>3, <2>4, Zenon DEF CompiledFor, Compiler, Changes
  <2>7. ("grpc_wrap.cc" \notin touched[job.dir])' /\ Here.wrap = tree.wrap =>
          (Here.wrap = tree.wrap)'
    BY <2>2, <2>4, Zenon DEF Changes
  <2>8. Agrees' = Agrees
    BY <2>4, Zenon DEF Agrees, Compiler
  <2>9. (seen[job.dir] = Never /\ asked[job.dir] = <<>>)'
    BY <1>2, Zenon DEF BuildInv, JobInv, Never, Unset
  <2> QED
    BY <1>2, <2>2, <2>3, <2>5, <2>6, <2>7, <2>8, <2>9, Zenon DEF BuildInv, JobInv
<1> QED
  BY <1>1, <1>2, Zenon

(* An edit of a watched file keeps the invariant.                          *)
LEMMA TouchKeeps ==
  ASSUME BuildInv, NEW f \in Watched, Touch(f), Changes(f), UNCHANGED <<feat, out, seen, job, asked>>,
         tree' \in [grpc : Int, wrap : Int, there : BOOLEAN], bindings' \in File
  PROVE  BuildInv'
<1>1. BuildTypeOK'
  BY Touched, Zenon DEF BuildInv, BuildTypeOK
<1>2. \A d \in Dirs : DirInv(d)'
  BY DirTouched, Zenon
<1> QED
  BY <1>1, <1>2, JobTouched, Zenon DEF BuildInv

(* Every edit of the sources keeps the invariant.                          *)
LEMMA StepEdit ==
  ASSUME BuildInv, Edit
  PROVE  BuildInv'
<1>0. /\ tree \in [grpc : Int, wrap : Int, there : BOOLEAN] /\ bindings \in File
      /\ "grpc" \in Watched /\ "grpc_wrap.cc" \in Watched
      /\ tree.grpc + 1 \in Int /\ tree.wrap + 1 \in Int
  <2>1. tree \in [grpc : Int, wrap : Int, there : BOOLEAN] /\ bindings \in File
    BY Zenon DEF BuildInv, BuildTypeOK
  <2>2. tree.grpc \in Int /\ tree.wrap \in Int
    BY <2>1, Zenon
  <2>3. \A i \in Int : i + 1 \in Int
    BY SMT
  <2> QED
    BY <2>1, <2>2, <2>3, Zenon DEF Watched
<1>1. CASE tree' = [tree EXCEPT !.grpc = @ + 1] /\ Touch("grpc")
  <2> DEFINE n == tree.grpc + 1
  <2>1. tree' = [tree EXCEPT !.grpc = n]
    BY <1>1, Zenon
  <2>2. n \in Int
    BY <1>0
  <2> HIDE DEF n
  <2>3. tree' \in [grpc : Int, wrap : Int, there : BOOLEAN] /\ tree'.wrap = tree.wrap
    BY <1>0, <2>1, <2>2, Zenon
  <2>4. Changes("grpc")
    BY <2>3, Zenon DEF Changes, Edit
  <2> QED
    BY <1>0, <1>1, <2>3, <2>4, TouchKeeps, Zenon DEF Edit
<1>2. CASE tree' = [tree EXCEPT !.wrap = @ + 1] /\ Touch("grpc_wrap.cc")
  <2> DEFINE n == tree.wrap + 1
  <2>1. tree' = [tree EXCEPT !.wrap = n]
    BY <1>2, Zenon
  <2>2. n \in Int
    BY <1>0
  <2> HIDE DEF n
  <2>3. tree' \in [grpc : Int, wrap : Int, there : BOOLEAN] /\ tree'.grpc = tree.grpc
    BY <1>0, <2>1, <2>2, Zenon
  <2>4. Changes("grpc_wrap.cc")
    BY <2>3, Zenon DEF Changes, Edit
  <2> QED
    BY <1>0, <1>2, <2>3, <2>4, TouchKeeps, Zenon DEF Edit
<1>3. CASE tree' = [tree EXCEPT !.there = ~@] /\ Touch("grpc")
  <2> DEFINE b == ~tree.there
  <2>1. tree' = [tree EXCEPT !.there = b] /\ b \in BOOLEAN
    BY <1>3, Zenon
  <2> HIDE DEF b
  <2>2. /\ tree' \in [grpc : Int, wrap : Int, there : BOOLEAN]
        /\ tree'.grpc = tree.grpc /\ tree'.wrap = tree.wrap
    BY <1>0, <2>1, Zenon
  <2>3. Changes("grpc")
    BY <2>2, Zenon DEF Changes, Edit
  <2> QED
    BY <1>0, <1>3, <2>2, <2>3, TouchKeeps, Zenon DEF Edit
<1> QED
  BY <1>1, <1>2, <1>3, Zenon DEF Edit

(* cargo build: a directory it finds fresh had no watched file touched and *)
(* the recorded environment; otherwise the script runs. A build with       *)
(* UPDATE_BIND is never fresh, since the last one touched the bindings it  *)
(* named.                                                                  *)
LEMMA StepCargo ==
  ASSUME BuildInv, NEW d \in Dirs, NEW e \in Env, CargoBuild(d, e)
  PROVE  /\ BuildInv'
         /\ feat.known /\ feat.bindgen /\ e.update =>
              asked'[d] = <<>> /\ job'.at = "main"
         /\ job'.at # "idle" => job'.dir = d /\ job'.env = e
<1>0. /\ job.at = "idle" /\ job = Idle /\ UNCHANGED <<feat, tree, bindings, out>>
      /\ asked \in [Dirs -> {<<>>} \cup {<<f>> : f \in Env}]
      /\ touched \in [Dirs -> SUBSET Watched] /\ seen \in [Dirs -> Records]
  BY Zenon DEF BuildInv, BuildTypeOK, JobInv, CargoBuild
<1>1. CASE Fresh(d, e) /\ asked' = [asked EXCEPT ![d] = <<e>>] /\ UNCHANGED <<seen, touched, job>>
  <2>1. asked'[d] = <<e>> /\ asked' \in [Dirs -> {<<>>} \cup {<<f>> : f \in Env}]
        /\ \A c \in Dirs : c # d => asked'[c] = asked[c]
    BY <1>0, <1>1, Zenon
  <2>2. BuildTypeOK'
    BY <1>0, <1>1, <2>1, Zenon DEF BuildInv, BuildTypeOK
  <2>3. JobInv'
    BY <1>0, <1>1, IdleJob, Zenon DEF JobInv
  <2>4. DirInv(d) /\ seen[d] # Never
    BY <1>1, Zenon DEF BuildInv, Fresh
  <2>5. Alike(seen[d].env, e)
    <3>1. seen[d].env["pkg"] = e["pkg"] /\ seen[d].env["update"] = e["update"]
      BY <1>1, <2>4, Zenon DEF DirInv, Fresh
    <3>2. ~seen[d].env.pkg => seen[d].env["cxx"] = e["cxx"]
      BY <1>1, <2>4, Zenon DEF DirInv, Fresh
    <3> QED
      BY <3>1, <3>2, Zenon DEF Alike
  <2>6. <<e>> # <<>> /\ <<e>>[1] = e
    BY SMT
  <2>7. asked'[d] # <<>> /\ asked'[d][1] = e
    BY <2>1, <2>6, Zenon
  <2>8. ASSUME NEW c \in Dirs PROVE DirInv(c)'
    <3>1. CASE c = d
      <4>1. Alike(seen[d].env, asked[d][1])'
        BY <1>1, <2>5, <2>7, Zenon DEF Alike
      <4>2. (seen[d] # Never)'
        BY <1>1, <2>4, Zenon DEF Never, Unset
      <4>3. LinksFor(out[d], seen[d].env)' /\ (CompiledFor(out[d], seen[d].env)' = CompiledFor(out[d], seen[d].env))
            /\ (BoundFor(out[d], seen[d].env)' = BoundFor(out[d], seen[d].env))
        BY <1>0, <1>1, <2>4, Zenon DEF DirInv, LinksFor, CompiledFor, BoundFor, Compiler
      <4> QED
        BY <1>0, <1>1, <2>4, <2>7, <3>1, <4>1, <4>2, <4>3, Zenon DEF DirInv
    <3>2. CASE c # d
      <4>1. DirInv(c) /\ asked'[c] = asked[c]
        BY <2>1, <3>2, Zenon DEF BuildInv
      <4> QED
        BY <1>0, <1>1, <4>1, Zenon DEF DirInv, LinksFor, CompiledFor, BoundFor, Alike, Compiler
    <3> QED
      BY <3>1, <3>2, Zenon
  <2>9. feat.known /\ feat.bindgen => ~e.update
    <3>1. seen[d].files \cap touched[d] = {}
      BY <1>1, Zenon DEF Fresh
    <3>2. feat.known /\ feat.bindgen => ~seen[d].env.update
      BY <2>4, <3>1, Zenon DEF DirInv
    <3> QED
      BY <2>5, <3>2, Zenon DEF Alike
  <2> QED
    BY <1>0, <1>1, <2>2, <2>3, <2>8, <2>9, Zenon DEF BuildInv
<1>2. CASE /\ seen' = [seen EXCEPT ![d] = Never]
           /\ asked' = [asked EXCEPT ![d] = <<>>]
           /\ touched' = [touched EXCEPT ![d] = {}]
           /\ job' = [Idle EXCEPT !.at = "main", !.dir = d, !.env = e]
  <2>1. Never \in Records /\ {} \in SUBSET Watched
    BY SMT DEF Never, Records, Unset, Env
  <2>2. /\ seen' \in [Dirs -> Records] /\ touched' \in [Dirs -> SUBSET Watched]
        /\ asked' \in [Dirs -> {<<>>} \cup {<<f>> : f \in Env}]
        /\ seen'[d] = Never /\ asked'[d] = <<>>
        /\ \A c \in Dirs : c # d => /\ asked'[c] = asked[c] /\ seen'[c] = seen[c]
                                    /\ touched'[c] = touched[c]
    BY <1>0, <1>2, <2>1, Zenon
  <2>3. /\ job' \in Jobs /\ job'.at = "main" /\ job'.dir = d /\ job'.env = e
    <3>1. "main" \in Stages
      BY Zenon DEF Stages
    <3> QED
      BY <1>2, <3>1, IdleJob, Zenon DEF Jobs
  <2>4. BuildTypeOK'
    BY <1>0, <2>2, <2>3, Zenon DEF BuildInv, BuildTypeOK
  <2>5. JobInv'
    BY <2>2, <2>3, Zenon DEF JobInv, Never, Unset
  <2>6. ASSUME NEW c \in Dirs PROVE DirInv(c)'
    <3>1. CASE c = d
      BY <2>2, <3>1, Zenon DEF DirInv, Never, Unset
    <3>2. CASE c # d
      <4>1. DirInv(c) /\ asked'[c] = asked[c] /\ seen'[c] = seen[c] /\ touched'[c] = touched[c]
        BY <2>2, <3>2, Zenon DEF BuildInv
      <4> QED
        BY <1>0, <4>1, Zenon DEF DirInv, LinksFor, CompiledFor, BoundFor, Alike, Compiler
    <3> QED
      BY <3>1, <3>2, Zenon
  <2> QED
    BY <2>2, <2>3, <2>4, <2>5, <2>6, Zenon DEF BuildInv
<1> QED
  BY <1>1, <1>2, Zenon DEF CargoBuild

(* A build killed at any point (or a script that panics) leaves its        *)
(* directory uncounted.                                                    *)
LEMMA StepKilled ==
  ASSUME BuildInv, Killed
  PROVE  BuildInv' /\ job' = Idle /\ bindings'.rev = bindings.rev
<1>0. /\ job.at # "idle" /\ job' = Idle /\ UNCHANGED <<feat, tree, out, seen, asked>>
      /\ Here \in Outputs /\ bindings \in File
      /\ tree \in [grpc : Int, wrap : Int, there : BOOLEAN]
  BY HereTyped, Zenon DEF Killed, BuildInv, BuildTypeOK
<1>1. CASE UNCHANGED <<bindings, touched>>
  BY <1>0, <1>1, PanicKeeps, Zenon DEF Panic, Others
<1>2. CASE bindings' = [bindings EXCEPT !.whole = FALSE] /\ Touch("bindings")
  <2>1. "bindings" \in Watched
    BY Zenon DEF Watched
  <2>2. bindings' \in File /\ bindings'.rev = bindings.rev
    BY <1>0, <1>2, Zenon DEF File
  <2>3. Changes("bindings")
    BY <1>0, <2>2, Zenon DEF Changes
  <2>4. \A d \in Dirs : DirInv(d)'
    BY <1>0, <1>2, <2>1, <2>3, DirTouched, Zenon
  <2>5. JobInv' /\ job' \in Jobs
    BY <1>0, IdleJob, Zenon DEF JobInv
  <2>6. BuildTypeOK'
    BY <1>0, <1>2, <2>1, <2>2, <2>5, Touched, Zenon DEF BuildInv, BuildTypeOK
  <2> QED
    BY <1>0, <2>2, <2>4, <2>5, <2>6, Zenon DEF BuildInv
<1> QED
  BY <1>0, <1>1, <1>2, Zenon DEF Killed

(* What a script that is done leaves for cargo to count.                   *)
LEMMA DoneKeeps ==
  ASSUME BuildInv, job.at = "bind", NEW fs \in SUBSET Watched, job.files \subseteq fs,
         Done(job.vars, fs), UNCHANGED <<feat, tree>>, bindings' \in File,
         touched' \in [Dirs -> SUBSET Watched], touched[job.dir] \subseteq touched'[job.dir],
         out' \in [Dirs -> Outputs], out'[job.dir].links = Here.links,
         out'[job.dir].lib = Here.lib, out'[job.dir].wrap = Here.wrap,
         feat.bindgen /\ ~feat.known => out'[job.dir].bound = tree.grpc,
         feat.bindgen /\ feat.known /\ job.env.update =>
           bindings'.rev = tree.grpc /\ "bindings" \in fs \cap touched'[job.dir],
         \A d \in Dirs : d # job.dir /\ seen'[d] = seen[d] /\ asked'[d] = asked[d] => DirInv(d)'
  PROVE  BuildInv' /\ job' = Idle /\ asked'[job.dir] = <<job.env>>
<1>c. PICK c \in Dirs : c = job.dir
  BY HereTyped, Zenon
<1> DEFINE r == [vars |-> job.vars, files |-> fs, env |-> job.env]
<1>0. /\ job \in Jobs /\ job.env \in Env /\ job.vars \in SUBSET {"cxx", "pkg", "update"}
      /\ asked \in [Dirs -> {<<>>} \cup {<<f>> : f \in Env}] /\ seen \in [Dirs -> Records]
      /\ feat \in Features /\ tree \in [grpc : Int, wrap : Int, there : BOOLEAN]
  BY HereTyped, Zenon DEF BuildInv, BuildTypeOK, Jobs
<1>1. r \in Records /\ r.vars = job.vars /\ r.files = fs /\ r.env = job.env
  BY <1>0, Zenon DEF Records
<1>2. r # Never
  <2>1. "pkg" \in job.vars
    BY Zenon DEF BuildInv, JobInv
  <2>2. "pkg" \notin Never.vars
    BY Zenon DEF Never
  <2> QED
    BY <1>1, <2>1, <2>2, Zenon
<1> HIDE DEF r
<1>3. /\ seen' = [seen EXCEPT ![c] = r] /\ asked' = [asked EXCEPT ![c] = <<job.env>>]
      /\ job' = Idle
  BY <1>c, Zenon DEF Done, r
<1>4. /\ seen' \in [Dirs -> Records] /\ seen'[c] = r
      /\ \A d \in Dirs : d # c => seen'[d] = seen[d]
  BY <1>0, <1>1, <1>3, Zenon
<1>5. /\ asked' \in [Dirs -> {<<>>} \cup {<<f>> : f \in Env}] /\ asked'[c] = <<job.env>>
      /\ \A d \in Dirs : d # c => asked'[d] = asked[d]
  BY <1>0, <1>3, Zenon
<1>6. BuildTypeOK'
  BY <1>0, <1>3, <1>4, <1>5, IdleJob, Zenon DEF BuildTypeOK
<1>7. JobInv'
  BY <1>3, IdleJob, Zenon DEF JobInv
<1>8. DirInv(c)'
  <2>0. <<job.env>> # <<>> /\ <<job.env>>[1] = job.env
    BY SMT
  <2>1. asked'[c] # <<>> /\ Alike(seen[c].env, asked[c][1])' /\ (seen[c] # Never)'
    <3>1. asked'[c][1] = job.env /\ seen'[c].env = job.env
      BY <1>1, <1>4, <1>5, <2>0, Zenon
    <3>2. (seen[c] # Never)'
      BY <1>2, <1>4, Zenon DEF Never, Unset
    <3> QED
      BY <1>5, <2>0, <3>1, <3>2, Zenon DEF Alike
  <2>2. /\ {"update", "pkg"} \subseteq job.vars /\ job.files = {"grpc_wrap.cc", "grpc"}
        /\ ~job.env.pkg => "cxx" \in job.vars
        /\ LinksFor(Here, job.env)
        /\ "grpc" \notin touched[c] => CompiledFor(Here, job.env)
        /\ "grpc_wrap.cc" \notin touched[c] => Here.wrap = tree.wrap
    BY <1>c, Zenon DEF BuildInv, JobInv
  <2>3. {"grpc", "grpc_wrap.cc"} \subseteq fs
    BY <2>2, Zenon
  <2>4. LinksFor(out[c], seen[c].env)'
    BY <1>c, <1>1, <1>4, <2>2, Zenon DEF LinksFor
  <2>5. ("grpc" \notin touched[c])' => CompiledFor(out[c], seen[c].env)'
    BY <1>c, <1>1, <1>4, <2>2, Zenon DEF CompiledFor, Compiler
  <2>6. BoundFor(out[c], seen[c].env)'
    BY <1>c, <1>1, <1>4, Zenon DEF BoundFor
  <2>7. ("grpc_wrap.cc" \notin touched[c])' => (out[c].wrap = tree.wrap)'
    BY <1>c, <2>2, Zenon
  <2> QED
    BY <1>1, <1>4, <1>c, <2>1, <2>2, <2>3, <2>4, <2>5, <2>6, <2>7, Zenon DEF DirInv
<1>9. \A d \in Dirs : DirInv(d)'
  BY <1>4, <1>5, <1>8, <1>c, Zenon
<1> QED
  BY <1>3, <1>5, <1>6, <1>7, <1>9, <1>c, Zenon DEF BuildInv

(* config_binding_path (build.rs:384-418) ends the run: the bindings are   *)
(* named, and written anew on request, and cargo counts the run.           *)
LEMMA StepBind ==
  ASSUME BuildInv, ConfigBindingPath
  PROVE  /\ BuildInv'
         /\ job' = Idle /\ UNCHANGED <<feat, tree>>
         /\ asked'[job.dir] # <<>> /\ feat.known /\ feat.bindgen /\ job.env.update =>
              asked'[job.dir][1].update /\ bindings'.whole
<1>0. /\ job.at = "bind" /\ job.at # "idle" /\ UNCHANGED <<feat, tree>>
      /\ Here \in Outputs /\ bindings \in File /\ job.dir \in Dirs
      /\ touched \in [Dirs -> SUBSET Watched] /\ out \in [Dirs -> Outputs]
      /\ tree.grpc \in Int /\ job.files \in SUBSET Watched /\ "bindings" \in Watched
      /\ asked[job.dir] = <<>> /\ Here = out[job.dir]
      /\ job.files \cup Named \in SUBSET Watched /\ job.files \subseteq job.files \cup Named
      /\ feat.known => "bindings" \in job.files \cup Named
  BY HereTyped, Zenon DEF ConfigBindingPath, BuildInv, BuildTypeOK, JobInv, Jobs, Watched, Here, Named
<1>e. <<job.env>> # <<>> /\ <<job.env>>[1] = job.env
  BY SMT
<1>1. CASE /\ feat.known /\ job.env.update /\ BindgenGrpc
           /\ bindings' = [rev |-> tree.grpc, raw |-> TRUE, whole |-> TRUE] /\ Touch("bindings")
           /\ Done(job.vars, job.files \cup Named) /\ UNCHANGED out
  <2>1. bindings' \in File /\ bindings'.rev = tree.grpc /\ bindings'.whole
    BY <1>0, <1>1, Zenon DEF File
  <2>2. Changes("bindings")
    BY <1>0, <2>1, Zenon DEF Changes
  <2>3. /\ touched' \in [Dirs -> SUBSET Watched]
        /\ touched[job.dir] \subseteq touched'[job.dir] /\ "bindings" \in touched'[job.dir]
    <3>1. /\ touched' \in [Dirs -> SUBSET Watched]
          /\ touched'[job.dir] = touched[job.dir] \cup {"bindings"}
      BY <1>0, <1>1, Touched, Zenon
    <3> QED
      BY <3>1, Zenon
  <2>4. \A d \in Dirs : seen'[d] = seen[d] /\ asked'[d] = asked[d] => DirInv(d)'
    BY <1>0, <1>1, <2>2, DirTouched, Zenon
  <2>5. BuildInv' /\ job' = Idle /\ asked'[job.dir] = <<job.env>>
    <3> DEFINE fs == job.files \cup Named
    <3>1. fs \in SUBSET Watched /\ job.files \subseteq fs /\ Done(job.vars, fs)
          /\ "bindings" \in fs \cap touched'[job.dir]
      BY <1>0, <1>1, <2>3, Zenon
    <3> HIDE DEF fs
    <3> QED
      BY <1>0, <1>1, <2>1, <2>3, <2>4, <3>1, DoneKeeps, Zenon
  <2> QED
    BY <1>0, <1>1, <1>e, <2>1, <2>5, Zenon
<1>2. ASSUME NEW fs \in SUBSET Watched, job.files \subseteq fs, Done(job.vars, fs),
             UNCHANGED <<bindings, touched>>, ~(feat.known /\ feat.bindgen /\ job.env.update),
             out' \in [Dirs -> Outputs], out'[job.dir].links = Here.links,
             out'[job.dir].lib = Here.lib, out'[job.dir].wrap = Here.wrap,
             feat.bindgen /\ ~feat.known => out'[job.dir].bound = tree.grpc,
             \A d \in Dirs : d # job.dir => out'[d] = out[d]
      PROVE  BuildInv' /\ job' = Idle
  <2>1. ASSUME NEW d \in Dirs, d # job.dir, seen'[d] = seen[d], asked'[d] = asked[d] PROVE DirInv(d)'
    BY <1>0, <1>2, <2>1, ZenonT(60) DEF BuildInv, DirInv, LinksFor, CompiledFor, BoundFor, Alike, Compiler,
       Never, Unset
  <2> QED
    BY <1>0, <1>2, <2>1, DoneKeeps, Zenon
<1>3. CASE /\ feat.known /\ (job.env.update => ~feat.bindgen)
           /\ Done(job.vars, job.files \cup Named) /\ UNCHANGED <<bindings, touched, out>>
  BY <1>0, <1>2, <1>3, Zenon
<1>4. CASE /\ ~feat.known /\ BindgenGrpc /\ Output([Here EXCEPT !.bound = tree.grpc])
           /\ Done(job.vars, job.files) /\ UNCHANGED <<bindings, touched>>
  <2> DEFINE p == [Here EXCEPT !.bound = tree.grpc]
  <2>1. /\ p \in Outputs /\ p.links = Here.links /\ p.lib = Here.lib /\ p.wrap = Here.wrap
        /\ p.bound = tree.grpc
    BY <1>0, Zenon DEF Outputs
  <2>2. out' = [out EXCEPT ![job.dir] = p]
    BY <1>4, Zenon DEF Output
  <2> HIDE DEF p
  <2>3. /\ out' \in [Dirs -> Outputs] /\ out'[job.dir] = p
        /\ \A d \in Dirs : d # job.dir => out'[d] = out[d]
    BY <1>0, <2>1, <2>2, Zenon
  <2> QED
    BY <1>0, <1>2, <1>4, <2>1, <2>3, Zenon
<1>5. CASE /\ ~feat.known /\ ~feat.bindgen
           /\ Done(job.vars, job.files) /\ UNCHANGED <<bindings, touched, out>>
  BY <1>0, <1>2, <1>5, Zenon
<1>6. CASE Panic /\ UNCHANGED <<bindings, out, seen, touched, asked>>
  BY <1>0, <1>6, PanicKeeps, Zenon DEF Panic, Others
<1> QED
  BY <1>0, <1>1, <1>3, <1>4, <1>5, <1>6, Zenon DEF ConfigBindingPath

-----------------------------------------------------------------------------
(* The commands.                                                           *)

CodegenStages ==
  {"messages", "plugin", "stubs", "patch", "patching", "prost", "prostbin", "prostrun"}
Places == {"own", "other"}
Held == {<<>>, <<Patched(RawNames)>>} \cup (Places \X File)
Points == {"idle", "start", "build", "filter", "returned"} \cup CodegenStages
Commands ==
  [cmd : {"none", "bindgen", "codegen", "submodule", "clang-lint"}, at : Points,
   todo : SUBSET Places, held : Held, failed : BOOLEAN]
Programs == [comp : Int, plugin : Int, prostbin : Int]
Generated == [names : {{}, RawNames, Patched(RawNames)}, pb : Int, prost : Int]
CommandTypeOK ==
  /\ part \in {"names", "stubs", "build", "core", "generate"}
  /\ other \in File
  /\ gen \in Programs
  /\ health \in Generated
  /\ x \in Commands

(* A build runs between two commands, or is bindgen's. That has written the       *)
(* bindings, or it did not succeed: cargo never finds it fresh. From then  *)
(* on they are whole, but for the one file that has just been emptied and  *)
(* whose content is held; a file that is done has been filtered.           *)
BindgenInv ==
  /\ part = "build" => x = Rest
  /\ part # "build" /\ job.at # "idle" =>
       x = Rest \/ (Doing("bindgen", "build") /\ job.dir = "tuple" /\ job.env.update)
  /\ x.at \in {"start", "build"} => x.held = <<>>
  /\ Doing("bindgen", "filter") /\ x.held # <<>> =>
       /\ x.held[1] \in x.todo /\ x.held[2] \in File
       /\ x.held[1] = "own" => ~x.held[2].raw /\ x.held[2].rev = bindings.rev
  /\ feat.known /\ feat.bindgen =>
       /\ Doing("bindgen", "build") /\ asked["tuple"] # <<>> =>
            asked["tuple"][1].update /\ bindings.whole
       /\ Doing("bindgen", "filter") /\ ~x.failed =>
            /\ asked["tuple"] # <<>> /\ asked["tuple"][1].update
            /\ x.held = <<>> => bindings.whole
            /\ x.held # <<>> /\ x.held[1] = "other" => bindings.whole
            /\ x.held # <<>> /\ x.held[1] = "own" => x.held[2].whole
            /\ "own" \notin x.todo => ~bindings.raw
       /\ Doing("bindgen", "returned") /\ ~x.failed =>
            /\ asked["tuple"] # <<>> /\ asked["tuple"][1].update
            /\ bindings.whole /\ ~bindings.raw

(* What codegen has made by each of its stages, when nothing failed.       *)
CodegenInv ==
  x.cmd = "codegen" =>
    /\ x.at \in {"plugin", "stubs", "patch"} => health.names = RawNames
    /\ x.at = "patching" => x.held = <<Patched(RawNames)>>
    /\ x.at \in {"prost", "prostbin", "prostrun", "returned"} => health.names = Patched(RawNames)
    /\ ~x.failed =>
         /\ x.at = "stubs" => gen.plugin = gen.comp
         /\ x.at \in {"patch", "patching", "prost", "prostbin", "prostrun", "returned"} =>
              health.pb = gen.comp
         /\ x.at = "prostrun" => gen.prostbin = gen.comp
         /\ x.at = "returned" => health.prost = gen.comp

(* What every step of a command keeps.                                     *)
CommandInv == CommandTypeOK /\ BindgenInv /\ CodegenInv

(* No command is running.                                                  *)
LEMMA RestIs ==
  /\ Rest \in Commands /\ Rest.cmd = "none" /\ Rest.at = "idle" /\ Rest.held = <<>>
BY Zenon DEF Rest, Commands, Points, Held

(* The invariant of the builds holds while no step of theirs is taken.     *)
LEMMA BuildSame ==
  ASSUME BuildInv, UNCHANGED buildVars
  PROVE  BuildInv'
<1>1. UNCHANGED <<feat, tree, bindings, out, seen, touched, asked, job>>
  BY Zenon DEF buildVars
<1>2. BuildTypeOK'
  BY <1>1, Zenon DEF BuildInv, BuildTypeOK
<1>3. JobInv'
  BY <1>1, Zenon DEF BuildInv, JobInv, LinksFor, CompiledFor, Compiler, Here, Agrees, Idle, Never, Unset
<1>4. \A d \in Dirs : DirInv(d)'
  BY <1>1, DirSame, Zenon DEF BuildInv
<1> QED
  BY <1>2, <1>3, <1>4, Zenon DEF BuildInv

(* A command other than bindgen, or bindgen before its build.              *)
LEMMA BindgenQuiet ==
  ASSUME part' = "build" => x' = Rest, part' # "build" => x' = Rest \/ job'.at = "idle",
         x'.at = "start" => x'.held = <<>>,
         x'.cmd # "bindgen" \/ x'.at \in {"idle", "start"}, x'.at # "build"
  PROVE  BindgenInv'
<1>1. Rest' = Rest
  BY Zenon DEF Rest
<1> QED
  BY <1>1, Zenon DEF BindgenInv, Doing

(* A command that has not yet made anything owes nothing.                  *)
LEMMA CodegenQuiet ==
  ASSUME x'.cmd # "codegen" \/ x'.at \in {"idle", "start", "messages"}
  PROVE  CodegenInv'
BY Zenon DEF CodegenInv

(* No command runs.                                                        *)
LEMMA Resting ==
  ASSUME CommandTypeOK, x' = Rest, UNCHANGED <<part, other, gen, health>>
  PROVE  CommandInv'
<1>1. CommandTypeOK'
  BY RestIs, Zenon DEF CommandTypeOK
<1>2. BindgenInv'
  BY RestIs, BindgenQuiet, Zenon
<1>3. CodegenInv'
  BY RestIs, CodegenQuiet, Zenon
<1> QED
  BY <1>1, <1>2, <1>3, Zenon DEF CommandInv

(* A command that is not bindgen finds no build running.                   *)
LEMMA NoBuild ==
  ASSUME BuildInv, CommandInv, x.cmd # "none", ~Doing("bindgen", "build")
  PROVE  part # "build" /\ job.at = "idle"
BY RestIs, Zenon DEF CommandInv, BindgenInv

(* The script goes on with its directory and environment, and leaves the   *)
(* bindings alone before its last step.                                    *)
LEMMA ScriptJob ==
  ASSUME BuildInv, Script
  PROVE  /\ job.at # "idle" /\ feat' = feat
         /\ job'.at # "idle" => job'.dir = job.dir /\ job'.env = job.env
         /\ ConfigBindingPath \/ UNCHANGED <<asked, bindings>>
<1>0. job \in Jobs /\ Idle.at = "idle"
  BY HereTyped, IdleJob, Zenon
<1>1. CASE Main
  <2> DEFINE a == IF job.env.pkg THEN "probe" ELSE "prepare"
             v == {"update", "pkg"}
             f == {"grpc_wrap.cc", "grpc"}
  <2>1. job' = [job EXCEPT !.at = a, !.vars = v, !.files = f]
    BY <1>1, Zenon DEF Main
  <2> HIDE DEF a, v, f
  <2>2. job'.dir = job.dir /\ job'.env = job.env
    BY <1>0, <2>1, Zenon DEF Jobs
  <2> QED
    BY <1>1, <2>2, Zenon DEF Main
<1>2. CASE ProbeLibrary
  BY <1>0, <1>2, Zenon DEF ProbeLibrary, Step, Panic, Jobs
<1>3. CASE PrepareGrpc
  BY <1>0, <1>3, Zenon DEF PrepareGrpc, Step, Panic, Jobs
<1>4. CASE CleanUpStaleCache
  BY <1>0, <1>4, Zenon DEF CleanUpStaleCache, Step, Panic, Jobs
<1>5. CASE BuildGrpc
  BY <1>0, <1>5, Zenon DEF BuildGrpc, Step, Panic, Jobs
<1>6. CASE LinkLibraries
  BY <1>0, <1>6, Zenon DEF LinkLibraries, Step, Panic, Jobs
<1>7. CASE CompileWrap
  BY <1>0, <1>7, Zenon DEF CompileWrap, Step, Panic, Jobs
<1>8. CASE ConfigBindingPath
  BY <1>0, <1>8, StepBind, Zenon DEF ConfigBindingPath
<1> QED
  BY <1>1, <1>2, <1>3, <1>4, <1>5, <1>6, <1>7, <1>8, Zenon DEF Script

(* Every step of the build script keeps the invariant.                     *)
LEMMA StepScript ==
  ASSUME BuildInv, Script
  PROVE  BuildInv'
BY StepMain, StepProbe, StepPrepare, StepClean, StepCMake, StepLink, StepWrap, StepBind, Zenon
   DEF Script

(* The script's steps while bindgen waits for its build (xtask             *)
(* main.rs:76-80).                                                         *)
LEMMA CommandScript ==
  ASSUME BuildInv, CommandInv, part # "build", Script, UNCHANGED <<part, other, gen, health, x>>
  PROVE  BuildInv' /\ CommandInv'
<1>1. BuildInv'
  BY StepScript
<1>2. CommandTypeOK'
  BY Zenon DEF CommandInv, CommandTypeOK
<1>3. CodegenInv'
  BY Zenon DEF CommandInv, CodegenInv
<1>4. CASE x = Rest
  BY <1>1, <1>4, Resting, Zenon DEF CommandInv
<1>5. CASE x # Rest
  <2>1. Doing("bindgen", "build") /\ job.dir = "tuple" /\ job.env.update
    BY <1>5, ScriptJob, Zenon DEF CommandInv, BindgenInv
  <2>2. part' # "build" /\ job'.at # "idle" => Doing("bindgen", "build")' /\ job'.dir = "tuple" /\ job'.env.update
    BY <2>1, ScriptJob, Zenon DEF Doing
  <2>3. x'.cmd = "bindgen" /\ x'.at = "build" /\ x'.held = <<>>
    BY <2>1, Zenon DEF CommandInv, BindgenInv, Doing
  <2>4. feat'.known /\ feat'.bindgen /\ asked'["tuple"] # <<>> =>
          asked'["tuple"][1].update /\ bindings'.whole
    <3>1. CASE ConfigBindingPath
      BY <2>1, <3>1, StepBind, ScriptJob, Zenon
    <3>2. CASE UNCHANGED <<asked, bindings>>
      BY <2>1, <3>2, ScriptJob, Zenon DEF CommandInv, BindgenInv
    <3> QED
      BY <3>1, <3>2, ScriptJob, Zenon
  <2>5. BindgenInv'
    BY <2>2, <2>3, <2>4, Zenon DEF BindgenInv, Doing
  <2> QED
    BY <1>1, <1>2, <1>3, <2>5, Zenon DEF CommandInv
<1> QED
  BY <1>4, <1>5

(* A build between two commands starts or is killed.                       *)
LEMMA CommandBetween ==
  ASSUME BuildInv, CommandInv, part' = part, BuildBetween
  PROVE  BuildInv' /\ CommandInv'
<1> DEFINE e == [Unset EXCEPT !.update = TRUE]
<1>1. e \in Env /\ "plain" \in Dirs
  BY Zenon DEF Unset, Env, Dirs
<1>2. CargoBuild("plain", e) \/ Killed
  BY Zenon DEF BuildBetween
<1> HIDE DEF e
<1>3. BuildInv'
  BY <1>1, <1>2, StepCargo, StepKilled, Zenon
<1>4. CommandInv'
  BY Resting, Zenon DEF BuildBetween, CommandInv
<1> QED
  BY <1>3, <1>4

(* An edit while a command runs.                                           *)
LEMMA CommandEdit ==
  ASSUME BuildInv, CommandInv, Edit, UNCHANGED <<part, other, gen, health, x>>
  PROVE  BuildInv' /\ CommandInv'
<1>1. BuildInv'
  BY StepEdit
<1>2. UNCHANGED <<feat, bindings, job, asked>>
  BY Zenon DEF Edit
<1>3. CommandTypeOK' /\ CodegenInv'
  BY Zenon DEF CommandInv, CommandTypeOK, CodegenInv
<1>4. BindgenInv'
  BY <1>2, Zenon DEF CommandInv, BindgenInv, Doing, Rest
<1> QED
  BY <1>1, <1>3, <1>4, Zenon DEF CommandInv

(* main of xtask (main.rs:267-282) starts a command while no build runs.   *)
LEMMA CommandStart ==
  ASSUME BuildInv, CommandInv, part # "build", part' = part,
         NEW cmd \in {"bindgen", "codegen", "submodule", "clang-lint"}, Start(cmd)
  PROVE  BuildInv' /\ CommandInv'
<1>1. BuildInv'
  BY BuildSame, Zenon DEF Start
<1>2. x' \in Commands /\ x'.cmd = cmd /\ x'.at = "start" /\ x'.held = <<>>
  <2>1. "start" \in Points
    BY Zenon DEF Points
  <2>2. cmd \in {"none", "bindgen", "codegen", "submodule", "clang-lint"}
    BY Zenon
  <2> QED
    BY <2>1, <2>2, RestIs, Zenon DEF Start, Commands
<1>3. CommandTypeOK'
  BY <1>2, Zenon DEF CommandInv, CommandTypeOK, Start
<1>4. BindgenInv'
  BY <1>2, BindgenQuiet, Zenon DEF Start, buildVars
<1>5. CodegenInv'
  BY <1>2, CodegenQuiet, Zenon
<1> QED
  BY <1>1, <1>3, <1>4, <1>5, Zenon DEF CommandInv

(* A command ends and nothing of it is left behind.                        *)
LEMMA CommandReturn ==
  ASSUME BuildInv, CommandInv, part # "build", part' = part, Return
  PROVE  BuildInv' /\ CommandInv'
<1>1. BuildInv'
  BY BuildSame, Zenon DEF Return
<1> QED
  BY <1>1, Resting, Zenon DEF Return, Ends, CommandInv

(* A command is interrupted between two of its steps; none of its promises *)
(* is owed any more.                                                       *)
LEMMA CommandInterrupted ==
  ASSUME BuildInv, CommandInv, part # "build", part' = part, Interrupted
  PROVE  BuildInv' /\ CommandInv'
<1>1. CASE job.at = "idle" /\ UNCHANGED buildVars
  BY <1>1, BuildSame, Resting, Zenon DEF Interrupted, Ends, CommandInv, buildVars
<1>2. CASE Killed
  BY <1>2, StepKilled, Resting, Zenon DEF Interrupted, Ends, CommandInv
<1> QED
  BY <1>1, <1>2, Zenon DEF Interrupted

(* bindgen starts cargo build with UPDATE_BIND (main.rs:76-80): cargo      *)
(* never finds the tree fresh, so the bindings are written.                *)
LEMMA CommandBuild ==
  ASSUME BuildInv, CommandInv, part' = part, BindgenBuild
  PROVE  BuildInv' /\ CommandInv'
<1> DEFINE e == [Unset EXCEPT !.update = TRUE]
<1>0. e \in Env /\ e.update = TRUE /\ "tuple" \in Dirs
  BY Zenon DEF Unset, Env, Dirs
<1>1. CargoBuild("tuple", e)
  BY Zenon DEF BindgenBuild
<1> HIDE DEF e
<1>2. /\ BuildInv'
      /\ feat.known /\ feat.bindgen => asked'["tuple"] = <<>>
      /\ job'.at # "idle" => job'.dir = "tuple" /\ job'.env = e
  BY <1>0, <1>1, StepCargo, Zenon
<1>3. x \in Commands /\ x' = [x EXCEPT !.at = "build"] /\ x.cmd = "bindgen" /\ x.held = <<>>
  BY Zenon DEF BindgenBuild, To, Doing, CommandInv, BindgenInv, CommandTypeOK
<1>4. x' \in Commands /\ x'.cmd = "bindgen" /\ x'.at = "build" /\ x'.held = <<>>
  BY <1>3, Zenon DEF Commands, Points
<1>5. part # "build"
  BY <1>3, RestIs, Zenon DEF CommandInv, BindgenInv
<1>6. CommandTypeOK'
  BY <1>4, Zenon DEF CommandInv, CommandTypeOK, BindgenBuild
<1>7. feat' = feat
  BY <1>1, Zenon DEF CargoBuild
<1>8. BindgenInv'
  BY <1>0, <1>2, <1>4, <1>5, <1>7, Zenon DEF BindgenInv, Doing
<1>9. CodegenInv'
  BY <1>4, CodegenQuiet, Zenon
<1> QED
  BY <1>2, <1>6, <1>8, <1>9, Zenon DEF CommandInv

(* The build bindgen waited for has ended: it wrote whole bindings, or the *)
(* command has failed.                                                     *)
LEMMA CommandBuildEnds ==
  ASSUME BuildInv, CommandInv, part' = part, BuildEnds
  PROVE  BuildInv' /\ CommandInv'
<1> DEFINE b == asked["tuple"] = <<>>
<1>1. BuildInv'
  BY BuildSame, Zenon DEF BuildEnds
<1>2. x \in Commands /\ x.cmd = "bindgen" /\ x.held = <<>> /\ x.at = "build"
  BY Zenon DEF BuildEnds, Doing, CommandInv, BindgenInv, CommandTypeOK
<1>3. x' = [x EXCEPT !.at = "filter", !.todo = Places, !.failed = b] /\ b \in BOOLEAN
      /\ Places \in SUBSET Places /\ "filter" \in Points
  BY Zenon DEF BuildEnds, Places, Points
<1>4. UNCHANGED <<feat, bindings, asked, job>> /\ job.at = "idle"
  BY Zenon DEF BuildEnds, buildVars
<1>5. b => asked["tuple"] = <<>>
  OBVIOUS
<1>6. ~b => asked["tuple"] # <<>>
  OBVIOUS
<1>7. "own" \in Places
  BY Zenon DEF Places
<1> HIDE DEF b
<1>8. /\ x' \in Commands /\ x'.cmd = "bindgen" /\ x'.at = "filter" /\ x'.held = <<>>
      /\ x'.todo = Places /\ x'.failed = b
  BY <1>2, <1>3, Zenon DEF Commands
<1>9. part # "build"
  BY <1>2, RestIs, Zenon DEF CommandInv, BindgenInv
<1>10. CommandTypeOK'
  BY <1>8, Zenon DEF CommandInv, CommandTypeOK, BuildEnds
<1>11. BindgenInv'
  BY <1>2, <1>4, <1>6, <1>7, <1>8, <1>9, Zenon DEF CommandInv, BindgenInv, Doing
<1>12. CodegenInv'
  BY <1>8, CodegenQuiet, Zenon
<1> QED
  BY <1>1, <1>10, <1>11, <1>12, Zenon DEF CommandInv

(* A step of a command that touches a file without changing a revision.    *)
LEMMA TouchCommand ==
  ASSUME BuildInv, NEW f \in Watched, Touch(f), UNCHANGED <<feat, out, seen, job, asked>>,
         tree' = tree \/ tree' = [tree EXCEPT !.there = TRUE],
         bindings' \in File, bindings'.rev = bindings.rev
  PROVE  BuildInv'
<1>1. tree \in [grpc : Int, wrap : Int, there : BOOLEAN]
  BY Zenon DEF BuildInv, BuildTypeOK
<1>2. /\ tree' \in [grpc : Int, wrap : Int, there : BOOLEAN]
      /\ tree'.grpc = tree.grpc /\ tree'.wrap = tree.wrap
  BY <1>1, Zenon
<1>3. Changes(f)
  BY <1>2, Zenon DEF Changes
<1> QED
  BY <1>2, <1>3, TouchKeeps, Zenon

(* bindgen reads a file and empties it with File::create (main.rs:81-91):  *)
(* its content, filtered, is held.                                         *)
LEMMA CommandFilterOpen ==
  ASSUME BuildInv, CommandInv, part' = part, NEW f \in Places, FilterOpen(f)
  PROVE  BuildInv' /\ CommandInv'
<1>0. /\ x \in Commands /\ bindings \in File /\ other \in File /\ "bindings" \in Watched
      /\ x.cmd = "bindgen" /\ x.at = "filter" /\ x.held = <<>> /\ f \in x.todo
      /\ UNCHANGED <<feat, tree, out, seen, job, asked, gen, health>>
      /\ part # "build" /\ job.at = "idle"
  <2>1. x.cmd = "bindgen" /\ x.at = "filter" /\ x.held = <<>> /\ f \in x.todo
    BY Zenon DEF FilterOpen, Doing
  <2>2. part # "build" /\ job.at = "idle"
    BY <2>1, NoBuild, Zenon DEF Doing
  <2> QED
    BY <2>1, <2>2, Zenon DEF FilterOpen, CommandInv, CommandTypeOK, BuildInv, BuildTypeOK, Watched
<1> DEFINE c == [Content(f) EXCEPT !.raw = FALSE]
           w == [Content(f) EXCEPT !.whole = FALSE]
<1>1. Content(f) \in File
  BY <1>0, Zenon DEF Content
<1>2. /\ c \in File /\ c.raw = FALSE /\ c.rev = Content(f).rev /\ c.whole = Content(f).whole
      /\ w \in File /\ w.rev = Content(f).rev
  BY <1>1, Zenon DEF File
<1>3. Store(f, w) /\ x' = [x EXCEPT !.held = <<f, c>>]
  BY Zenon DEF FilterOpen
<1> HIDE DEF c, w
<1>4. <<f, c>> \in Held /\ <<f, c>> # <<>> /\ <<f, c>>[1] = f /\ <<f, c>>[2] = c
  <2>1. <<f, c>> \in Held
    BY <1>2, Zenon DEF Held
  <2>2. <<f, c>> # <<>> /\ <<f, c>>[1] = f /\ <<f, c>>[2] = c
    BY SMT
  <2> QED
    BY <2>1, <2>2
<1> DEFINE h == <<f, c>>
<1>5. h \in Held /\ h # <<>> /\ h[1] = f /\ h[2] = c /\ x' = [x EXCEPT !.held = h]
  BY <1>3, <1>4, Zenon
<1> HIDE DEF h
<1>6. /\ x' \in Commands /\ x'.cmd = "bindgen" /\ x'.at = "filter" /\ x'.held = h
      /\ x'.todo = x.todo /\ x'.failed = x.failed
  BY <1>0, <1>5, Zenon DEF Commands
<1>7. f # "own" => f = "other"
  BY Zenon DEF Places
<1>8. CASE f = "own"
  <2>1. bindings' = w /\ Touch("bindings") /\ other' = other /\ Content(f) = bindings
    BY <1>3, <1>8, Zenon DEF Store, Content
  <2>2. BuildInv'
    BY <1>0, <1>2, <2>1, TouchCommand, Zenon
  <2>3. CommandTypeOK'
    BY <1>0, <1>6, <2>1, Zenon DEF CommandInv, CommandTypeOK
  <2>4. BindgenInv'
    <3>1. feat.known /\ feat.bindgen /\ ~x.failed =>
            asked["tuple"] # <<>> /\ asked["tuple"][1].update /\ c.whole
      BY <1>0, <1>2, <2>1, Zenon DEF CommandInv, BindgenInv, Doing
    <3>2. "own" # "other"
      OBVIOUS
    <3> QED
      BY <1>0, <1>2, <1>5, <1>6, <1>8, <2>1, <3>1, <3>2, Zenon DEF BindgenInv, Doing
  <2> QED
    BY <1>6, <2>2, <2>3, <2>4, CodegenQuiet, Zenon DEF CommandInv
<1>9. CASE f # "own"
  <2>1. other' = w /\ UNCHANGED <<bindings, touched>>
    BY <1>3, <1>9, Zenon DEF Store
  <2>2. BuildInv'
    BY <1>0, <2>1, BuildSame, Zenon DEF buildVars
  <2>3. CommandTypeOK'
    BY <1>0, <1>2, <1>6, <2>1, Zenon DEF CommandInv, CommandTypeOK
  <2>4. BindgenInv'
    <3>1. feat.known /\ feat.bindgen /\ ~x.failed =>
            /\ asked["tuple"] # <<>> /\ asked["tuple"][1].update /\ bindings.whole
            /\ "own" \notin x.todo => ~bindings.raw
      BY <1>0, Zenon DEF CommandInv, BindgenInv, Doing
    <3> QED
      BY <1>0, <1>2, <1>5, <1>6, <1>9, <2>1, <3>1, Zenon DEF BindgenInv, Doing
  <2> QED
    BY <1>6, <2>2, <2>3, <2>4, CodegenQuiet, Zenon DEF CommandInv
<1> QED
  BY <1>8, <1>9

(* write_all fills the file with what is held (main.rs:91-94).             *)
LEMMA CommandFilterWrite ==
  ASSUME BuildInv, CommandInv, part' = part, FilterWrite
  PROVE  BuildInv' /\ CommandInv'
<1> DEFINE f == x.held[1]
           c == x.held[2]
           left == x.todo \ {f}
           a == IF left = {} THEN "returned" ELSE x.at
<1>0. /\ x \in Commands /\ bindings \in File /\ other \in File /\ "bindings" \in Watched
      /\ x.cmd = "bindgen" /\ x.at = "filter" /\ x.held # <<>>
      /\ UNCHANGED <<feat, tree, out, seen, job, asked, gen, health>>
      /\ part # "build" /\ job.at = "idle"
  <2>1. x.cmd = "bindgen" /\ x.at = "filter" /\ x.held # <<>>
    BY Zenon DEF FilterWrite, Doing
  <2>2. part # "build" /\ job.at = "idle"
    BY <2>1, NoBuild, Zenon DEF Doing
  <2> QED
    BY <2>1, <2>2, Zenon DEF FilterWrite, CommandInv, CommandTypeOK, BuildInv, BuildTypeOK, Watched
<1>1. f \in x.todo /\ c \in File /\ (f = "own" => ~c.raw /\ c.rev = bindings.rev)
  BY <1>0, Zenon DEF CommandInv, BindgenInv, Doing
<1>2. Store(f, c) /\ x' = [x EXCEPT !.held = <<>>, !.todo = left, !.at = a]
  BY Zenon DEF FilterWrite
<1>3. /\ left \in SUBSET Places
      /\ "own" \notin left => "own" \notin x.todo \/ f = "own"
      /\ f \in Places /\ (f # "own" => f = "other")
  BY <1>0, <1>1, Zenon DEF Commands, Places
<1>4. a \in Points /\ a \in {"filter", "returned"} /\ (a = "returned" => "own" \notin left)
      /\ <<>> \in Held
  BY <1>0, Zenon DEF Points, Held
<1>5. feat.known /\ feat.bindgen /\ ~x.failed =>
        /\ asked["tuple"] # <<>> /\ asked["tuple"][1].update
        /\ f = "own" => c.whole
        /\ f = "other" => bindings.whole
        /\ "own" \notin x.todo => ~bindings.raw
  BY <1>0, Zenon DEF CommandInv, BindgenInv, Doing
<1> HIDE DEF f, c, left, a
<1>6. /\ x' \in Commands /\ x'.cmd = "bindgen" /\ x'.at = a /\ x'.held = <<>>
      /\ x'.todo = left /\ x'.failed = x.failed
  BY <1>0, <1>2, <1>3, <1>4, Zenon DEF Commands
<1>7. CASE f = "own"
  <2>1. bindings' = c /\ Touch("bindings") /\ other' = other
    BY <1>2, <1>7, Zenon DEF Store
  <2>2. BuildInv'
    BY <1>0, <1>1, <1>7, <2>1, TouchCommand, Zenon
  <2>3. CommandTypeOK'
    BY <1>0, <1>6, <2>1, Zenon DEF CommandInv, CommandTypeOK
  <2>4. BindgenInv'
    BY <1>0, <1>1, <1>4, <1>5, <1>6, <1>7, <2>1, Zenon DEF BindgenInv, Doing
  <2> QED
    BY <1>6, <2>2, <2>3, <2>4, CodegenQuiet, Zenon DEF CommandInv
<1>8. CASE f # "own"
  <2>1. other' = c /\ UNCHANGED <<bindings, touched>>
    BY <1>2, <1>8, Zenon DEF Store
  <2>2. BuildInv'
    BY <1>0, <2>1, BuildSame, Zenon DEF buildVars
  <2>3. CommandTypeOK'
    BY <1>0, <1>1, <1>6, <2>1, Zenon DEF CommandInv, CommandTypeOK
  <2>4. BindgenInv'
    BY <1>0, <1>3, <1>4, <1>5, <1>6, <1>8, <2>1, Zenon DEF BindgenInv, Doing
  <2> QED
    BY <1>6, <2>2, <2>3, <2>4, CodegenQuiet, Zenon DEF CommandInv
<1> QED
  BY <1>7, <1>8

(* What submodule and clang-lint do to themselves.                         *)
LEMMA CommandTouches ==
  ASSUME BuildInv, BuildInv', CommandInv, part' = part, UNCHANGED <<job, other, gen, health>>,
         x.cmd \in {"submodule", "clang-lint"},
         To("returned") \/ ExecFails("returned") \/ Ends
  PROVE  CommandInv'
<1>1. part # "build" /\ job.at = "idle"
  BY NoBuild, Zenon DEF Doing
<1>2. CASE Ends
  BY <1>1, <1>2, Resting, Zenon DEF Ends, CommandInv
<1>3. CASE To("returned") \/ ExecFails("returned")
  <2>1. "returned" \in Points /\ TRUE \in BOOLEAN /\ x \in Commands
    BY Zenon DEF Points, CommandInv, CommandTypeOK
  <2>2. x' \in Commands /\ x'.cmd = x.cmd /\ x'.at = "returned"
    BY <1>3, <2>1, Zenon DEF Commands, To, ExecFails
  <2>3. CommandTypeOK'
    BY <2>2, Zenon DEF CommandInv, CommandTypeOK
  <2>4. x'.cmd # "bindgen" /\ x'.cmd # "codegen"
    BY <2>2, Zenon
  <2> QED
    BY <1>1, <2>2, <2>3, <2>4, BindgenQuiet, CodegenQuiet, Zenon DEF CommandInv
<1> QED
  BY <1>2, <1>3

(* submodule (main.rs:108-128) brings the sources back.                    *)
LEMMA CommandSubmodule ==
  ASSUME BuildInv, CommandInv, part' = part, Submodule
  PROVE  BuildInv' /\ CommandInv'
<1>1. bindings \in File /\ "grpc" \in Watched
  BY Zenon DEF BuildInv, BuildTypeOK, Watched
<1>2. BuildInv'
  BY <1>1, TouchCommand, Zenon DEF Submodule
<1> QED
  BY <1>2, CommandTouches, Zenon DEF Submodule, Doing

(* clang_lint (main.rs:130-140) rewrites grpc_wrap.cc.                     *)
LEMMA CommandClangLint ==
  ASSUME BuildInv, CommandInv, part' = part, ClangLint
  PROVE  BuildInv' /\ CommandInv'
<1>1. bindings \in File /\ "grpc_wrap.cc" \in Watched
  BY Zenon DEF BuildInv, BuildTypeOK, Watched
<1>2. BuildInv'
  BY <1>1, TouchCommand, Zenon DEF ClangLint
<1> QED
  BY <1>2, CommandTouches, Zenon DEF ClangLint, Doing

(* A step of codegen: the messages and programs it has, and where it goes. *)
LEMMA CodegenStep ==
  ASSUME BuildInv, CommandInv, part' = part, UNCHANGED <<buildVars, other>>,
         gen' \in Programs, health' \in Generated, x.cmd = "codegen",
         x' = Rest \/ (x' \in Commands /\ x'.cmd = "codegen" /\ x'.at \in CodegenStages \cup {"returned"}),
         CodegenInv'
  PROVE  BuildInv' /\ CommandInv'
<1>1. part # "build" /\ job.at = "idle"
  BY NoBuild, Zenon DEF Doing
<1>2. BuildInv' /\ job'.at = "idle"
  BY <1>1, BuildSame, Zenon DEF buildVars
<1>3. CommandTypeOK'
  BY RestIs, Zenon DEF CommandInv, CommandTypeOK
<1>4. x'.at # "build" /\ (x'.at = "start" => x'.held = <<>>)
      /\ (x'.cmd # "bindgen" \/ x'.at \in {"idle", "start"})
  BY RestIs, Zenon DEF CodegenStages
<1>5. BindgenInv'
  BY <1>1, <1>2, <1>4, BindgenQuiet, Zenon
<1> QED
  BY <1>2, <1>3, <1>5, Zenon DEF CommandInv

(* The types of what codegen makes.                                        *)
LEMMA GeneratorTypes ==
  ASSUME CommandInv
  PROVE  /\ gen \in Programs /\ gen.comp \in Int /\ gen.plugin \in Int /\ gen.prostbin \in Int
         /\ health \in Generated /\ x \in Commands /\ NoFile \in Int
         /\ \A a \in CodegenStages \cup {"returned"} : a \in Points
<1>1. NoFile \in Int
  BY SMT DEF NoFile
<1> QED
  BY <1>1, Zenon DEF CommandInv, CommandTypeOK, Programs, Points

(* generate_protobuf removes the directory (main.rs:162-165), and with it  *)
(* what was patched before.                                                *)
LEMMA CommandRemoveProtobuf ==
  ASSUME BuildInv, CommandInv, part' = part, RemoveProtobuf
  PROVE  BuildInv' /\ CommandInv'
<1>1. UNCHANGED <<buildVars, other, gen>> /\ x.cmd = "codegen"
  BY Zenon DEF RemoveProtobuf, Doing
<1>2. CASE Ends /\ UNCHANGED health
  BY <1>1, <1>2, CodegenStep, CodegenQuiet, GeneratorTypes, RestIs, Zenon DEF Ends
<1>3. CASE To("messages") /\ health' = [health EXCEPT !.names = {}, !.pb = NoFile]
  <2>1. "messages" \in CodegenStages \cup {"returned"}
    BY Zenon DEF CodegenStages
  <2>2. x' \in Commands /\ x'.cmd = "codegen" /\ x'.at = "messages"
    BY <1>1, <1>3, <2>1, GeneratorTypes, Zenon DEF To, Commands
  <2>3. health' \in Generated
    BY <1>3, GeneratorTypes, Zenon DEF Generated
  <2> QED
    BY <1>1, <2>1, <2>2, <2>3, CodegenStep, CodegenQuiet, GeneratorTypes, Zenon
<1> QED
  BY <1>2, <1>3, Zenon DEF RemoveProtobuf

(* protoc_rust writes the messages with their raw names (main.rs:168-174). *)
LEMMA CommandWriteMessages ==
  ASSUME BuildInv, CommandInv, part' = part, WriteMessages
  PROVE  BuildInv' /\ CommandInv'
<1>1. UNCHANGED <<buildVars, other, gen>> /\ x.cmd = "codegen"
  BY Zenon DEF WriteMessages, Doing
<1>2. CASE Ends /\ UNCHANGED health
  BY <1>1, <1>2, CodegenStep, CodegenQuiet, GeneratorTypes, RestIs, Zenon DEF Ends
<1>3. CASE To("plugin") /\ health' = [health EXCEPT !.names = RawNames]
  <2>1. "plugin" \in CodegenStages \cup {"returned"}
    BY Zenon DEF CodegenStages
  <2>2. x' \in Commands /\ x'.cmd = "codegen" /\ x'.at = "plugin"
    BY <1>1, <1>3, <2>1, GeneratorTypes, Zenon DEF To, Commands
  <2>3. health' \in Generated /\ health'.names = RawNames
    BY <1>3, GeneratorTypes, Zenon DEF Generated
  <2>4. CodegenInv'
    BY <2>2, <2>3, Zenon DEF CodegenInv, RawNames
  <2> QED
    BY <1>1, <2>1, <2>2, <2>3, <2>4, CodegenStep, GeneratorTypes, Zenon
<1> QED
  BY <1>2, <1>3, Zenon DEF WriteMessages

(* cargo builds the plugin of the present compiler (main.rs:176), or exec  *)
(* fails.                                                                  *)
LEMMA CommandBuildPlugin ==
  ASSUME BuildInv, CommandInv, part' = part, BuildPlugin
  PROVE  BuildInv' /\ CommandInv'
<1>1. UNCHANGED <<buildVars, other, health>> /\ x.cmd = "codegen" /\ x.at = "plugin"
  BY Zenon DEF BuildPlugin, Doing
<1>2. "stubs" \in CodegenStages \cup {"returned"} /\ health.names = RawNames
  BY <1>1, Zenon DEF CodegenStages, CommandInv, CodegenInv
<1>3. CASE To("stubs") /\ gen' = [gen EXCEPT !.plugin = gen.comp]
  <2>2. x' \in Commands /\ x'.cmd = "codegen" /\ x'.at = "stubs" /\ x'.failed = x.failed
    BY <1>1, <1>2, <1>3, GeneratorTypes, Zenon DEF To, Commands
  <2>3. gen' \in Programs /\ gen'.plugin = gen.comp /\ gen'.comp = gen.comp
    BY <1>3, GeneratorTypes, Zenon DEF Programs
  <2>4. CodegenInv'
    BY <1>1, <1>2, <2>2, <2>3, Zenon DEF CodegenInv, RawNames
  <2> QED
    BY <1>1, <1>2, <2>2, <2>3, <2>4, CodegenStep, GeneratorTypes, Zenon
<1>4. CASE ExecFails("stubs") /\ UNCHANGED gen
  <2>2. x' \in Commands /\ x'.cmd = "codegen" /\ x'.at = "stubs" /\ x'.failed = TRUE
    BY <1>1, <1>2, <1>4, GeneratorTypes, Zenon DEF ExecFails, Commands
  <2>4. CodegenInv'
    BY <1>1, <1>2, <2>2, Zenon DEF CodegenInv, RawNames
  <2> QED
    BY <1>1, <1>2, <1>4, <2>2, <2>4, CodegenStep, GeneratorTypes, Zenon
<1> QED
  BY <1>3, <1>4, Zenon DEF BuildPlugin

(* protoc runs the plugin that is there (main.rs:177-184); unless          *)
(* something failed it is the one just built.                              *)
LEMMA CommandWriteStubs ==
  ASSUME BuildInv, CommandInv, part' = part, WriteStubs
  PROVE  BuildInv' /\ CommandInv'
<1>1. UNCHANGED <<buildVars, other, gen>> /\ x.cmd = "codegen" /\ x.at = "stubs"
  BY Zenon DEF WriteStubs, Doing
<1>2. /\ "patch" \in CodegenStages \cup {"returned"} /\ health.names = RawNames
      /\ ~x.failed => gen.plugin = gen.comp
  BY <1>1, Zenon DEF CodegenStages, CommandInv, CodegenInv
<1>3. CASE To("patch") /\ health' = [health EXCEPT !.pb = gen.plugin]
  <2>2. x' \in Commands /\ x'.cmd = "codegen" /\ x'.at = "patch" /\ x'.failed = x.failed
    BY <1>1, <1>2, <1>3, GeneratorTypes, Zenon DEF To, Commands
  <2>3. health' \in Generated /\ health'.pb = gen.plugin /\ health'.names = health.names
    BY <1>3, GeneratorTypes, Zenon DEF Generated
  <2>4. CodegenInv'
    BY <1>1, <1>2, <2>2, <2>3, Zenon DEF CodegenInv, RawNames
  <2> QED
    BY <1>1, <1>2, <2>2, <2>3, <2>4, CodegenStep, GeneratorTypes, Zenon
<1>4. CASE ExecFails("patch") /\ UNCHANGED health
  <2>2. x' \in Commands /\ x'.cmd = "codegen" /\ x'.at = "patch" /\ x'.failed = TRUE
    BY <1>1, <1>2, <1>4, GeneratorTypes, Zenon DEF ExecFails, Commands
  <2>4. CodegenInv'
    BY <1>1, <1>2, <1>4, <2>2, Zenon DEF CodegenInv, RawNames
  <2> QED
    BY <1>1, <1>2, <1>4, <2>2, <2>4, CodegenStep, GeneratorTypes, Zenon
<1> QED
  BY <1>3, <1>4, Zenon DEF WriteStubs

(* The messages are read, patched and the file emptied (main.rs:186-197).  *)
LEMMA CommandPatchOpen ==
  ASSUME BuildInv, CommandInv, part' = part, PatchOpen
  PROVE  BuildInv' /\ CommandInv'
<1>1. UNCHANGED <<buildVars, other, gen>> /\ x.cmd = "codegen" /\ x.at = "patch"
  BY Zenon DEF PatchOpen, Doing
<1>2. /\ "patching" \in CodegenStages \cup {"returned"} /\ health.names = RawNames
      /\ ~x.failed => health.pb = gen.comp
  BY <1>1, Zenon DEF CodegenStages, CommandInv, CodegenInv
<1> DEFINE h == <<Patched(RawNames)>>
<1>3. h \in Held
  BY Zenon DEF Held
<1>4. x' = [x EXCEPT !.at = "patching", !.held = h]
  BY <1>2, Zenon DEF PatchOpen
<1> HIDE DEF h
<1>5. /\ x' \in Commands /\ x'.cmd = "codegen" /\ x'.at = "patching" /\ x'.held = h
      /\ x'.failed = x.failed
  BY <1>1, <1>2, <1>3, <1>4, GeneratorTypes, Zenon DEF Commands
<1>6. health' \in Generated /\ health'.pb = health.pb
  BY GeneratorTypes, Zenon DEF Generated, PatchOpen
<1>7. CodegenInv'
  BY <1>1, <1>2, <1>5, <1>6, Zenon DEF CodegenInv, h
<1> QED
  BY <1>1, <1>2, <1>5, <1>6, <1>7, CodegenStep, GeneratorTypes, Zenon

(* The patched names are written back (main.rs:197-199).                   *)
LEMMA CommandPatchWrite ==
  ASSUME BuildInv, CommandInv, part' = part, PatchWrite
  PROVE  BuildInv' /\ CommandInv'
<1>1. UNCHANGED <<buildVars, other, gen>> /\ x.cmd = "codegen" /\ x.at = "patching"
  BY Zenon DEF PatchWrite, Doing
<1>2. /\ "prost" \in CodegenStages \cup {"returned"} /\ x.held = <<Patched(RawNames)>>
      /\ ~x.failed => health.pb = gen.comp
  BY <1>1, Zenon DEF CodegenStages, CommandInv, CodegenInv
<1>3. <<Patched(RawNames)>>[1] = Patched(RawNames)
  BY SMT
<1>4. <<>> \in Held
  BY Zenon DEF Held
<1>5. /\ x' \in Commands /\ x'.cmd = "codegen" /\ x'.at = "prost" /\ x'.failed = x.failed
  BY <1>1, <1>2, <1>4, GeneratorTypes, Zenon DEF Commands, PatchWrite
<1>6. health' = [health EXCEPT !.names = Patched(RawNames)]
  BY <1>2, <1>3, Zenon DEF PatchWrite
<1>7. health' \in Generated /\ health'.pb = health.pb /\ health'.names = Patched(RawNames)
  BY <1>6, GeneratorTypes, Zenon DEF Generated
<1>8. CodegenInv'
  BY <1>1, <1>2, <1>5, <1>7, Zenon DEF CodegenInv
<1> QED
  BY <1>1, <1>2, <1>5, <1>7, <1>8, CodegenStep, GeneratorTypes, Zenon

(* generate_prost removes the directory of the prost stubs                 *)
(* (main.rs:204-208).                                                      *)
LEMMA CommandRemoveProst ==
  ASSUME BuildInv, CommandInv, part' = part, RemoveProst
  PROVE  BuildInv' /\ CommandInv'
<1>1. UNCHANGED <<buildVars, other, gen>> /\ x.cmd = "codegen" /\ x.at = "prost"
  BY Zenon DEF RemoveProst, Doing
<1>2. /\ "prostbin" \in CodegenStages \cup {"returned"} /\ health.names = Patched(RawNames)
      /\ ~x.failed => health.pb = gen.comp
  BY <1>1, Zenon DEF CodegenStages, CommandInv, CodegenInv
<1>3. x' \in Commands /\ x'.cmd = "codegen" /\ x'.at = "prostbin" /\ x'.failed = x.failed
  BY <1>1, <1>2, GeneratorTypes, Zenon DEF Commands, RemoveProst, To
<1>4. health' \in Generated /\ health'.pb = health.pb /\ health'.names = health.names
  BY GeneratorTypes, Zenon DEF Generated, RemoveProst
<1>5. CodegenInv'
  BY <1>1, <1>2, <1>3, <1>4, Zenon DEF CodegenInv
<1> QED
  BY <1>1, <1>2, <1>3, <1>4, <1>5, CodegenStep, GeneratorTypes, Zenon

(* cargo builds grpc_rust_prost (main.rs:209-220).                         *)
LEMMA CommandBuildProst ==
  ASSUME BuildInv, CommandInv, part' = part, BuildProst
  PROVE  BuildInv' /\ CommandInv'
<1>1. UNCHANGED <<buildVars, other, health>> /\ x.cmd = "codegen" /\ x.at = "prostbin"
  BY Zenon DEF BuildProst, Doing
<1>2. /\ "prostrun" \in CodegenStages \cup {"returned"} /\ health.names = Patched(RawNames)
      /\ ~x.failed => health.pb = gen.comp
  BY <1>1, Zenon DEF CodegenStages, CommandInv, CodegenInv
<1>3. CASE To("prostrun") /\ gen' = [gen EXCEPT !.prostbin = gen.comp]
  <2>1. x' \in Commands /\ x'.cmd = "codegen" /\ x'.at = "prostrun" /\ x'.failed = x.failed
    BY <1>1, <1>2, <1>3, GeneratorTypes, Zenon DEF Commands, To
  <2>2. gen' \in Programs /\ gen'.prostbin = gen.comp /\ gen'.comp = gen.comp
    BY <1>3, GeneratorTypes, Zenon DEF Programs
  <2>3. CodegenInv'
    BY <1>1, <1>2, <2>1, <2>2, Zenon DEF CodegenInv
  <2> QED
    BY <1>1, <1>2, <2>1, <2>2, <2>3, CodegenStep, GeneratorTypes, Zenon
<1>4. CASE ExecFails("prostrun") /\ UNCHANGED gen
  <2>1. x' \in Commands /\ x'.cmd = "codegen" /\ x'.at = "prostrun" /\ x'.failed = TRUE
    BY <1>1, <1>2, <1>4, GeneratorTypes, Zenon DEF Commands, ExecFails
  <2>2. CodegenInv'
    BY <1>1, <1>2, <1>4, <2>1, Zenon DEF CodegenInv
  <2> QED
    BY <1>1, <1>2, <1>4, <2>1, <2>2, CodegenStep, GeneratorTypes, Zenon
<1> QED
  BY <1>3, <1>4, Zenon DEF BuildProst

(* grpc_rust_prost, just built unless something failed, writes the prost   *)
(* stubs (main.rs:221-226).                                                *)
LEMMA CommandRunProst ==
  ASSUME BuildInv, CommandInv, part' = part, RunProst
  PROVE  BuildInv' /\ CommandInv'
<1>1. UNCHANGED <<buildVars, other, gen>> /\ x.cmd = "codegen" /\ x.at = "prostrun"
  BY Zenon DEF RunProst, Doing
<1>2. /\ "returned" \in CodegenStages \cup {"returned"} /\ health.names = Patched(RawNames)
      /\ ~x.failed => health.pb = gen.comp /\ gen.prostbin = gen.comp
  BY <1>1, Zenon DEF CommandInv, CodegenInv
<1>3. CASE Ends /\ UNCHANGED health
  BY <1>1, <1>3, CodegenStep, CodegenQuiet, GeneratorTypes, RestIs, Zenon DEF Ends
<1>4. CASE To("returned") /\ health' = [health EXCEPT !.prost = gen.prostbin]
  <2>1. x' \in Commands /\ x'.cmd = "codegen" /\ x'.at = "returned" /\ x'.failed = x.failed
    BY <1>1, <1>2, <1>4, GeneratorTypes, Zenon DEF Commands, To
  <2>2. /\ health' \in Generated /\ health'.pb = health.pb /\ health'.names = health.names
        /\ health'.prost = gen.prostbin
    BY <1>4, GeneratorTypes, Zenon DEF Generated
  <2>3. CodegenInv'
    BY <1>1, <1>2, <2>1, <2>2, Zenon DEF CodegenInv
  <2> QED
    BY <1>1, <1>2, <2>1, <2>2, <2>3, CodegenStep, GeneratorTypes, Zenon
<1>5. CASE ExecFails("returned") /\ UNCHANGED health
  <2>1. x' \in Commands /\ x'.cmd = "codegen" /\ x'.at = "returned" /\ x'.failed = TRUE
    BY <1>1, <1>2, <1>5, GeneratorTypes, Zenon DEF Commands, ExecFails
  <2>2. CodegenInv'
    BY <1>1, <1>2, <1>5, <2>1, Zenon DEF CodegenInv
  <2> QED
    BY <1>1, <1>2, <1>5, <2>1, <2>2, CodegenStep, GeneratorTypes, Zenon
<1> QED
  BY <1>3, <1>4, <1>5, Zenon DEF RunProst

(* An edit of the compiler crate between two commands.                     *)
LEMMA CommandEditGenerator ==
  ASSUME BuildInv, CommandInv, part' = part, EditGenerator
  PROVE  BuildInv' /\ CommandInv'
<1>1. UNCHANGED <<buildVars, other, health, x>> /\ x.at = "idle"
  BY Zenon DEF EditGenerator
<1> DEFINE n == gen.comp + 1
<1>2. gen' = [gen EXCEPT !.comp = n]
  BY Zenon DEF EditGenerator
<1>3. n \in Int
  BY GeneratorTypes, SMT
<1> HIDE DEF n
<1>4. gen' \in Programs
  BY <1>2, <1>3, GeneratorTypes, Zenon DEF Programs
<1>5. CommandTypeOK'
  BY <1>1, <1>4, Zenon DEF CommandInv, CommandTypeOK
<1>6. CodegenInv'
  BY <1>1, CodegenQuiet, Zenon
<1>7. BindgenInv'
  BY <1>1, Zenon DEF CommandInv, BindgenInv, Doing, Rest, buildVars
<1> QED
  BY <1>1, <1>5, <1>6, <1>7, BuildSame, Zenon DEF CommandInv

-----------------------------------------------------------------------------
(* A fresh checkout, nothing built: the invariants hold.                   *)
LEMMA BuildStarts ==
  ASSUME XtaskInit, part \in {"names", "stubs", "build", "core", "generate"}
  PROVE  BuildInv /\ CommandInv
<1> DEFINE o == [cache |-> <<>>, lib |-> <<"none", NoFile>>, wrap |-> NoFile,
                 bound |-> NoFile, links |-> {}]
<1>0. NoFile \in Int /\ 0 \in Int
  BY SMT DEF NoFile
<1>1. o \in Outputs
  BY <1>0, Zenon DEF Outputs
<1> HIDE DEF o
<1>2. Never \in Records /\ {} \in SUBSET Watched
  BY Zenon DEF Never, Records, Unset, Env
<1>3. /\ feat \in Features /\ job = Idle /\ x = Rest
      /\ out = [d \in Dirs |-> o] /\ seen = [d \in Dirs |-> Never]
      /\ touched = [d \in Dirs |-> {}] /\ asked = [d \in Dirs |-> <<>>]
      /\ tree = [grpc |-> 0, wrap |-> 0, there |-> TRUE]
      /\ bindings = [rev |-> 0, raw |-> FALSE, whole |-> TRUE]
      /\ other = [rev |-> 0, raw |-> FALSE, whole |-> TRUE]
      /\ gen = [comp |-> 0, plugin |-> NoFile, prostbin |-> NoFile]
      /\ health = [names |-> {}, pb |-> NoFile, prost |-> NoFile]
  BY Zenon DEF XtaskInit, BuildInit, o
<1>4. BuildTypeOK
  <2>1. tree \in [grpc : Int, wrap : Int, there : BOOLEAN] /\ bindings \in File
    BY <1>0, <1>3, Zenon DEF File
  <2>2. /\ out \in [Dirs -> Outputs] /\ seen \in [Dirs -> Records]
        /\ touched \in [Dirs -> SUBSET Watched]
        /\ asked \in [Dirs -> {<<>>} \cup {<<e>> : e \in Env}]
    BY <1>1, <1>2, <1>3, Zenon
  <2> QED
    BY <1>3, <2>1, <2>2, IdleJob, Zenon DEF BuildTypeOK
<1>5. JobInv
  BY <1>3, IdleJob, Zenon DEF JobInv
<1>6. \A d \in Dirs : DirInv(d)
  BY <1>3, Zenon DEF DirInv
<1>7. CommandTypeOK
  BY <1>0, <1>3, RestIs, Zenon DEF CommandTypeOK, File, Programs, Generated
<1>8. BindgenInv
  BY <1>3, RestIs, IdleJob, Zenon DEF BindgenInv, Doing
<1>9. CodegenInv
  BY <1>3, RestIs, Zenon DEF CodegenInv
<1> QED
  BY <1>4, <1>5, <1>6, <1>7, <1>8, <1>9, Zenon DEF BuildInv, CommandInv

(* Every step of the toolchain keeps the invariants of the builds and of   *)
(* the commands.                                                           *)
LEMMA BuildSteps ==
  ASSUME BuildInv, CommandInv, [ToolchainNext]_toolVars
  PROVE  BuildInv' /\ CommandInv'
<1>1. ASSUME UNCHANGED <<part, xtaskVars>> PROVE BuildInv' /\ CommandInv'
  <2>1. UNCHANGED <<buildVars, part, other, gen, health, x>>
    BY <1>1, Zenon DEF xtaskVars
  <2>2. CommandTypeOK' /\ CodegenInv'
    BY <2>1, Zenon DEF CommandInv, CommandTypeOK, CodegenInv
  <2>3. BindgenInv'
    BY <2>1, Zenon DEF CommandInv, BindgenInv, Doing, Rest, buildVars
  <2> QED
    BY <2>1, <2>2, <2>3, BuildSame, Zenon DEF CommandInv
<1>2. CASE part = "build" /\ BuildNext /\ UNCHANGED <<part, other, gen, health, x>>
  <2>1. x' = Rest
    BY <1>2, Zenon DEF CommandInv, BindgenInv
  <2>2. CommandInv'
    BY <1>2, <2>1, Resting, Zenon DEF CommandInv
  <2>3. ASSUME UserBuilds PROVE BuildInv'
    <3>1. PICK e \in Env : CargoBuild("plain", e)
      BY <2>3, Zenon DEF UserBuilds
    <3>2. "plain" \in Dirs
      BY Zenon DEF Dirs
    <3> QED
      BY <3>1, <3>2, StepCargo, Zenon
  <2>4. BuildInv'
    BY <1>2, <2>3, StepEdit, StepScript, StepKilled, Zenon DEF BuildNext
  <2> QED
    BY <2>2, <2>4
<1>3. CASE part = "core" /\ CoreNext /\ part' = part
  <2>1. part # "build"
    BY <1>3
  <2>2. CASE (Script \/ Edit) /\ UNCHANGED <<other, gen, health, x>>
    BY <1>3, <2>1, <2>2, CommandScript, CommandEdit, Zenon
  <2>3. CASE \E cmd \in {"bindgen", "submodule", "clang-lint"} : Start(cmd)
    BY <1>3, <2>1, <2>3, CommandStart, Zenon
  <2>4. CASE BindgenBuild \/ BuildEnds \/ FilterWrite
    BY <1>3, <2>4, CommandBuild, CommandBuildEnds, CommandFilterWrite, Zenon
  <2>5. CASE \E f \in {"own", "other"} : FilterOpen(f)
    BY <1>3, <2>5, CommandFilterOpen, Zenon DEF Places
  <2>6. CASE Submodule \/ ClangLint \/ Return \/ Interrupted
    BY <1>3, <2>1, <2>6, CommandSubmodule, CommandClangLint, CommandReturn, CommandInterrupted, Zenon
  <2>7. CASE BuildBetween
    BY <1>3, <2>7, CommandBetween, Zenon
  <2> QED
    BY <1>3, <2>2, <2>3, <2>4, <2>5, <2>6, <2>7, Zenon DEF CoreNext
<1>4. CASE part = "generate" /\ GenerateNext /\ part' = part
  <2>1. part # "build"
    BY <1>4
  <2>2. CASE \E cmd \in {"codegen", "submodule"} : Start(cmd)
    BY <1>4, <2>1, <2>2, CommandStart, Zenon
  <2>3. CASE RemoveProtobuf \/ WriteMessages \/ BuildPlugin \/ WriteStubs \/ PatchOpen \/ PatchWrite
    BY <1>4, <2>3, CommandRemoveProtobuf, CommandWriteMessages, CommandBuildPlugin, CommandWriteStubs,
       CommandPatchOpen, CommandPatchWrite, Zenon
  <2>4. CASE RemoveProst \/ BuildProst \/ RunProst \/ EditGenerator
    BY <1>4, <2>4, CommandRemoveProst, CommandBuildProst, CommandRunProst, CommandEditGenerator, Zenon
  <2>5. CASE Submodule \/ Return \/ Interrupted
    BY <1>4, <2>1, <2>5, CommandSubmodule, CommandReturn, CommandInterrupted, Zenon
  <2>6. CASE Edit /\ UNCHANGED <<other, gen, health, x>>
    BY <1>4, <2>6, CommandEdit, Zenon
  <2> QED
    BY <1>4, <2>2, <2>3, <2>4, <2>5, <2>6, Zenon DEF GenerateNext
<1> QED
  BY <1>1, <1>2, <1>3, <1>4, Zenon DEF ToolchainNext, toolVars

(* The build script and the commands keep their invariants: every step of  *)
(* main of build.rs, with edits, kills and other builds between any two    *)
(* (grpc-sys/build.rs:405-459), and every step of the maintenance commands *)
(* (xtask/src/main.rs:40-250).                                             *)
THEOREM ToolchainInvariants == ToolchainSpec => [](BuildInv /\ CommandInv)
<1>1. ToolchainInit => BuildInv /\ CommandInv
  BY BuildStarts, Zenon DEF ToolchainInit
<1>2. BuildInv /\ CommandInv /\ [ToolchainNext]_toolVars => (BuildInv /\ CommandInv)'
  BY BuildSteps, Zenon
<1> QED
  BY <1>1, <1>2, PTL DEF ToolchainSpec

(* What cargo calls built is what a build from nothing would give.         *)
LEMMA CurrentFollows ==
  ASSUME BuildInv
  PROVE  BuildIsCurrent
<1>1. job.at = "cmake" /\ ~job.left => Agrees
  BY Zenon DEF BuildInv, JobInv
<1>2. ASSUME NEW d \in Dirs, asked[d] # <<>>, touched[d] \cap {"grpc", "grpc_wrap.cc"} = {}
      PROVE  LET e == asked[d][1] o == out[d] IN
             /\ o.wrap = tree.wrap
             /\ e.pkg => o.links = {"system"}
             /\ ~e.pkg => /\ o.lib = <<Compiler(e), tree.grpc>>
                          /\ "system" \notin o.links
                          /\ (\E l \in {"ssl", "static ssl"} : l \in o.links) <=> feat.ssl # "none"
             /\ feat.bindgen /\ ~feat.known => o.bound = tree.grpc
             /\ feat.bindgen /\ feat.known /\ e.update => bindings.rev = tree.grpc
  <2> DEFINE e == asked[d][1]
             r == seen[d].env
  <2>1. DirInv(d) /\ seen[d] # Never
    BY <1>2, Zenon DEF BuildInv, DirInv
  <2>2. "grpc" \notin touched[d] /\ "grpc_wrap.cc" \notin touched[d]
    BY <1>2, Zenon
  <2>3. /\ Alike(r, e) /\ LinksFor(out[d], r) /\ CompiledFor(out[d], r) /\ BoundFor(out[d], r)
        /\ out[d].wrap = tree.wrap
    BY <2>1, <2>2, Zenon DEF DirInv
  <2> HIDE DEF e, r
  <2>4. /\ e.pkg => out[d].links = {"system"}
        /\ ~e.pkg => /\ out[d].lib = <<Compiler(e), tree.grpc>>
                     /\ "system" \notin out[d].links
                     /\ (\E l \in {"ssl", "static ssl"} : l \in out[d].links) <=> feat.ssl # "none"
    BY <2>3, Zenon DEF Alike, LinksFor, CompiledFor, Compiler
  <2>5. /\ feat.bindgen /\ ~feat.known => out[d].bound = tree.grpc
        /\ feat.bindgen /\ feat.known /\ e.update => bindings.rev = tree.grpc
    BY <2>3, Zenon DEF Alike, BoundFor
  <2> QED
    BY <2>3, <2>4, <2>5, Zenon DEF e
<1> QED
  BY <1>1, <1>2, Zenon DEF BuildIsCurrent

(* A build that cargo reports done is one of the present sources, whatever *)
(* was edited, killed or built before, for every target, set of features,  *)
(* set of compilers and number of edits (grpc-sys/build.rs:76-100,         *)
(* :294-303, :384-459).                                                    *)
THEOREM BuildsAreCurrent == ToolchainSpec => []BuildIsCurrent
<1>1. BuildInv /\ CommandInv => BuildIsCurrent
  BY CurrentFollows, Zenon
<1> QED
  BY <1>1, ToolchainInvariants, PTL

(* A pattern replaces itself; a longer one leaves all other names alone,   *)
(* and one of one word leaves other names of one word alone.               *)
LEMMA ReplaceSelf ==
  ASSUME NEW n, NEW to
  PROVE  Replace(n, n, to) = to
BY Zenon DEF Replace

(* str::replace leaves a name that does not hold the pattern.              *)
LEMMA ReplaceOther ==
  ASSUME NEW n, NEW from, NEW to, n # from, Len(from) # 1
  PROVE  Replace(n, from, to) = n
BY Zenon DEF Replace

(* The same for a name of one word and a pattern of one word.              *)
LEMMA ReplaceWord ==
  ASSUME NEW w, NEW a, NEW to, w # a
  PROVE  Replace(<<w>>, <<a>>, to) = <<w>>
<1>1. Len(<<a>>) = 1 
  BY SMT
<1>2. <<w>>[1] = w /\ <<a>>[1] = a
  BY SMT
<1>3. DOMAIN <<w>> = 1..1
  BY SMT
<1>4. <<w>> # <<a>>
  BY <1>2
<1>5. \A i \in DOMAIN <<w>> : i = 1
  BY <1>3, SMT
<1> DEFINE f == [i \in DOMAIN <<w>> |-> IF <<w>>[i] = <<a>>[1] THEN to[1] ELSE <<w>>[i]]
<1>6. f = [i \in DOMAIN <<w>> |-> <<w>>[i]]
  BY <1>2, <1>5, Zenon
<1>7. <<w>> = [i \in DOMAIN <<w>> |-> <<w>>[i]]
  BY SMT
<1> QED
  BY <1>1, <1>4, <1>6, <1>7, Zenon DEF Replace

(* NAMING_PATCH gives every enumerator its Rust name: the two-word names   *)
(* are replaced before the words in them (xtask/src/main.rs:148-200).      *)
LEMMA RustNames ==
  Patched(RawNames) = {<<"ServingStatus">>, <<"Unknown">>, <<"Serving">>, <<"NotServing">>,
                       <<"ServiceUnknown">>}
<1> DEFINE status == <<"HealthCheckResponse", "ServingStatus">>
           not == <<"NOT", "SERVING">>
           service == <<"SERVICE", "UNKNOWN">>
           First(n) == Replace(n, status, <<"ServingStatus">>)
           Second(n) == Replace(n, not, <<"NotServing">>)
           Third(n) == Replace(n, service, <<"ServiceUnknown">>)
           Fourth(n) == Replace(n, <<"UNKNOWN">>, <<"Unknown">>)
           Fifth(n) == Replace(n, <<"SERVING">>, <<"Serving">>)
<1>1. /\ NamingPatch[1][1] = status /\ NamingPatch[1][2] = <<"ServingStatus">>
      /\ NamingPatch[2][1] = not /\ NamingPatch[2][2] = <<"NotServing">>
      /\ NamingPatch[3][1] = service /\ NamingPatch[3][2] = <<"ServiceUnknown">>
      /\ NamingPatch[4][1] = <<"UNKNOWN">> /\ NamingPatch[4][2] = <<"Unknown">>
      /\ NamingPatch[5][1] = <<"SERVING">> /\ NamingPatch[5][2] = <<"Serving">>
  BY SMT DEF NamingPatch
<1>2. ASSUME NEW n PROVE PatchedName(n) = Fifth(Fourth(Third(Second(First(n)))))
  BY <1>1, Zenon DEF PatchedName
<1>0. Len(status) # 1 /\ Len(not) # 1 /\ Len(service) # 1
  BY SMT
<1>3. ASSUME NEW w
      PROVE  /\ First(<<w>>) = <<w>> /\ Second(<<w>>) = <<w>> /\ Third(<<w>>) = <<w>>
             /\ w # "UNKNOWN" => Fourth(<<w>>) = <<w>>
             /\ w # "SERVING" => Fifth(<<w>>) = <<w>>
  <2>1. <<w>> # status /\ <<w>> # not /\ <<w>> # service
    BY SMT
  <2>2. First(<<w>>) = <<w>> /\ Second(<<w>>) = <<w>> /\ Third(<<w>>) = <<w>>
    BY <1>0, <2>1, ReplaceOther, Zenon
  <2> QED
    BY <2>2, ReplaceWord, Zenon
<1>4. not # status /\ service # status /\ service # not
  BY SMT
<1>5. PatchedName(status) = <<"ServingStatus">>
  <2>1. First(status) = <<"ServingStatus">>
    BY ReplaceSelf, Zenon
  <2>2. "ServingStatus" # "UNKNOWN" /\ "ServingStatus" # "SERVING"
    OBVIOUS
  <2> QED
    BY <1>2, <1>3, <2>1, <2>2, Zenon
<1>6. PatchedName(not) = <<"NotServing">>
  <2>1. First(not) = not /\ Second(not) = <<"NotServing">>
    BY <1>4, <1>0, ReplaceOther, ReplaceSelf, Zenon
  <2> QED
    BY <1>2, <1>3, <2>1, Zenon
<1>7. PatchedName(service) = <<"ServiceUnknown">>
  <2>1. First(service) = service /\ Second(service) = service /\ Third(service) = <<"ServiceUnknown">>
    BY <1>4, <1>0, ReplaceOther, ReplaceSelf, Zenon
  <2> QED
    BY <1>2, <1>3, <2>1, Zenon
<1>8. PatchedName(<<"UNKNOWN">>) = <<"Unknown">>
  <2>1. Fourth(<<"UNKNOWN">>) = <<"Unknown">>
    BY ReplaceSelf, Zenon
  <2> QED
    BY <1>2, <1>3, <2>1, Zenon
<1>9. PatchedName(<<"SERVING">>) = <<"Serving">>
  <2>1. Fifth(<<"SERVING">>) = <<"Serving">>
    BY ReplaceSelf, Zenon
  <2> QED
    BY <1>2, <1>3, <2>1, Zenon
<1>10. RawNames = {status, <<"UNKNOWN">>, <<"SERVING">>, not, service}
  BY Zenon DEF RawNames
<1> HIDE DEF status, not, service
<1> QED
  BY <1>5, <1>6, <1>7, <1>8, <1>9, <1>10, Zenon DEF Patched

(* The bindings are of the present sources when bindgen has returned.      *)
LEMMA RepairsFollow ==
  ASSUME BuildInv, CommandInv
  PROVE  RerunRepairs
<1>1. ASSUME Doing("bindgen", "returned"), ~x.failed, feat.known, feat.bindgen
      PROVE  /\ bindings.whole /\ ~bindings.raw
             /\ "grpc" \in touched["tuple"] \/ bindings.rev = tree.grpc
  <2>1. /\ asked["tuple"] # <<>> /\ asked["tuple"][1].update
        /\ bindings.whole /\ ~bindings.raw
    BY <1>1, Zenon DEF CommandInv, BindgenInv
  <2>2. "tuple" \in Dirs
    BY Zenon DEF Dirs
  <2>3. DirInv("tuple") /\ seen["tuple"] # Never
    BY <2>1, <2>2, Zenon DEF BuildInv, DirInv
  <2> QED
    BY <1>1, <2>1, <2>3, Zenon DEF DirInv, BoundFor, Alike
<1>2. ASSUME Doing("codegen", "returned"), ~x.failed
      PROVE  /\ health.pb = gen.comp /\ health.prost = gen.comp
             /\ health.names = Patched(RawNames)
  BY <1>2, Zenon DEF CommandInv, CodegenInv, Doing
<1> QED
  BY <1>1, <1>2, RustNames, Zenon DEF RerunRepairs

(* A command that returns without a failure has left whole, filtered and   *)
(* current files, whatever commands, builds or edits were interrupted or   *)
(* came before it (xtask/src/main.rs:70-96, :148-227).                     *)
THEOREM CommandsRepair == ToolchainSpec => []RerunRepairs
<1>1. BuildInv /\ CommandInv => RerunRepairs
  BY RepairsFollow, Zenon
<1> QED
  BY <1>1, ToolchainInvariants, PTL

=============================================================================
