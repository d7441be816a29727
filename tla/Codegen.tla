---------------------------------- MODULE Codegen ----------------------------------
(***************************************************************************)
(* The two generators of service stubs (compiler/src/): codegen.rs, the    *)
(* protoc plugin for rust-protobuf, and prost_codegen.rs, the service      *)
(* generator given to prost-build. Each reads a proto file and writes, for *)
(* every service, the constants that describe its methods, a client, a     *)
(* trait, and a function that binds an implementation to the methods.      *)
(*                                                                         *)
(* A name is the sequence of the words NameSpliter makes of it (Naming), a *)
(* Rust function's name the words its underscores join. What is written is *)
(* kept by what it says, not by its text: a constant by its name, type and *)
(* path, a function by its name, its arguments, what it returns and what   *)
(* its body calls. Message types, which both take from the proto, are left *)
(* out.                                                                    *)
(***************************************************************************)
EXTENDS Integers, Sequences

CONSTANT Files   \* proto files: [package, services], with what is below

(* cs and ss: whether the client and the server stream.                    *)
ProtoName == Seq(STRING) \ {<<>>}
ProtoMethods == [name : ProtoName, cs : BOOLEAN, ss : BOOLEAN]
ProtoServices == [name : ProtoName, methods : Seq(ProtoMethods)]

(* to_snake_case(to_camel_case(name)), of a name with these words: each is *)
(* capitalised and they are joined without underscores, so that the        *)
(* splitter takes neighbours of one letter for one word, as in A_B and AB. *)
Rejoined(words) ==
  LET Letter(i) == i \in DOMAIN words /\ Len(words[i]) = 1
      upTo[n \in 0..Len(words)] ==
        IF n = 0 THEN <<>>
        ELSE IF Letter(n - 1) /\ Letter(n)
        THEN [upTo[n - 1] EXCEPT ![Len(upTo[n - 1])] = @ \o words[n]]
        ELSE Append(upTo[n - 1], words[n])
  IN  upTo[Len(words)]

ASSUME FilesAssumption ==
  \A f \in Files : /\ f.services \in Seq(ProtoServices)
                   /\ \A k \in DOMAIN f.services : Rejoined(f.services[k].name) \in Seq(STRING)

VARIABLES
  file,    \* the proto file
  made,    \* what each generator has written, per service
  at       \* what each generator does next, [stage, service]

genVars == <<file, made, at>>

Generators == {"protobuf", "prost"}
Nothing == [consts |-> <<>>, first |-> <<>>, fns |-> <<>>, last |-> <<>>, handlers |-> <<>>,
            binds |-> <<>>]

(* The members of a sequence.                                              *)
Elements(seq) == {seq[i] : i \in DOMAIN seq}

CodegenInit ==
  /\ file \in Files
  /\ made = [g \in Generators |-> [k \in DOMAIN file.services |-> Nothing]]
  /\ at = [g \in Generators |-> [stage |-> "start", service |-> 1]]

-----------------------------------------------------------------------------
(* codegen.rs                                                              *)

MethodTypeOf(m) ==
  CASE ~m.cs /\ ~m.ss -> "Unary"
    [] m.cs /\ ~m.ss -> "ClientStreaming"
    [] ~m.cs /\ m.ss -> "ServerStreaming"
    [] m.cs /\ m.ss -> "Duplex"

(* ServiceGen.new: the path of a service, without a dot when the file has  *)
(* no package.                                                             *)
ServicePath(s) ==
  IF file.package = "" THEN <<"/", s.name>> ELSE <<"/", file.package, ".", s.name>>

(* Mutant: the constant is named for the method alone.                     *)
ConstMethodNameShort(s, m) == [words |-> <<"METHOD">> \o m.name, path |-> Append(ServicePath(s), m.name)]

ConstMethodName(s, m) ==
  [words |-> <<"METHOD">> \o Rejoined(s.name) \o m.name, path |-> Append(ServicePath(s), m.name)]

WriteDefinition(s, m) ==
  [name |-> ConstMethodName(s, m).words, ty |-> MethodTypeOf(m),
   path |-> ConstMethodName(s, m).path]

(* The signatures unary ... duplex_streaming_opt.                          *)
Signature(m, suffix) ==
  LET ty == MethodTypeOf(m) IN
  [name |-> m.name \o suffix,
   args |-> (IF ty \in {"Unary", "ServerStreaming"} THEN <<"req">> ELSE <<>>)
              \o (IF "opt" \in Elements(suffix) THEN <<"opt">> ELSE <<>>),
   ret |-> CASE ty = "Unary" /\ "async" \notin Elements(suffix) -> <<"Resp">>
             [] ty = "Unary" /\ "async" \in Elements(suffix) -> <<"ClientUnaryReceiver">>
             [] ty = "ClientStreaming" -> <<"ClientCStreamSender", "ClientCStreamReceiver">>
             [] ty = "ServerStreaming" -> <<"ClientSStreamReceiver">>
             [] ty = "Duplex" -> <<"ClientDuplexSender", "ClientDuplexReceiver">>]

PubFn(sig, on, calls, args) ==
  [name |-> sig.name, args |-> sig.args, ret |-> sig.ret, on |-> on,
   calls |-> calls, with |-> args]

MethodWriteClient(s, m) ==
  LET c == ConstMethodName(s, m).words
      Streaming(inner, req) ==
        <<PubFn(Signature(m, <<"opt">>), "client", inner, <<c>> \o req \o <<"opt">>),
          PubFn(Signature(m, <<>>), "self", m.name \o <<"opt">>, req \o <<"default">>)>>
  IN CASE MethodTypeOf(m) = "Unary" ->
            <<PubFn(Signature(m, <<"opt">>), "client", <<"unary_call">>, <<c, "req", "opt">>),
              PubFn(Signature(m, <<>>), "self", m.name \o <<"opt">>, <<"req", "default">>),
              PubFn(Signature(m, <<"async", "opt">>), "client", <<"unary_call", "async">>,
                    <<c, "req", "opt">>),
              PubFn(Signature(m, <<"async">>), "self", m.name \o <<"async", "opt">>,
                    <<"req", "default">>)>>
       [] MethodTypeOf(m) = "ClientStreaming" -> Streaming(<<"client_streaming">>, <<>>)
       [] MethodTypeOf(m) = "ServerStreaming" -> Streaming(<<"server_streaming">>, <<"req">>)
       [] MethodTypeOf(m) = "Duplex" -> Streaming(<<"duplex_streaming">>, <<>>)

WriteService(m) ==
  LET h == CASE MethodTypeOf(m) = "Unary" -> <<"req", "UnarySink">>
             [] MethodTypeOf(m) = "ClientStreaming" -> <<"stream", "ClientStreamingSink">>
             [] MethodTypeOf(m) = "ServerStreaming" -> <<"req", "ServerStreamingSink">>
             [] MethodTypeOf(m) = "Duplex" -> <<"stream", "DuplexSink">>
  IN  [name |-> m.name, takes |-> h[1], sink |-> h[2]]

WriteBind(s, m, instance) ==
  [add |-> CASE MethodTypeOf(m) = "Unary" -> "add_unary_handler"
             [] MethodTypeOf(m) = "ClientStreaming" -> "add_client_streaming_handler"
             [] MethodTypeOf(m) = "ServerStreaming" -> "add_server_streaming_handler"
             [] MethodTypeOf(m) = "Duplex" -> "add_duplex_streaming_handler",
   const |-> ConstMethodName(s, m).words, calls |-> m.name, instance |-> instance]

Ctor == [name |-> <<"new">>, args |-> <<"channel">>, ret |-> <<"Self">>, on |-> "Client",
         calls |-> <<"new">>, with |-> <<"channel">>]
Spawn == [name |-> <<"spawn">>, args |-> <<"f">>, ret |-> <<>>, on |-> "client",
          calls |-> <<"spawn">>, with |-> <<"f">>]

(* ServiceGen.write_client                                                 *)
WriteClient(s) ==
  [first |-> Ctor, fns |-> [i \in DOMAIN s.methods |-> MethodWriteClient(s, s.methods[i])],
   last |-> Spawn]

(* ServiceGen.write_server: a clone of the implementation for each method  *)
(* but the last, which takes the implementation itself.                    *)
WriteServer(s) ==
  [handlers |-> [i \in DOMAIN s.methods |-> WriteService(s.methods[i])],
   binds |-> [i \in DOMAIN s.methods |->
                WriteBind(s, s.methods[i], IF i < Len(s.methods) THEN "clone" ELSE "moved")]]

-----------------------------------------------------------------------------
(* prost_codegen.rs. The Rust names come from prost-build, the paths from  *)
(* the names in the proto. A method's Rust name is taken to be made of the *)
(* words NameSpliter finds, and a service's to be to_camel_case's, which   *)
(* is so but for the digits and the keywords prost-build has rules for.    *)

ProstServicePath(s) ==
  IF file.package = "" THEN <<"/", s.name>> ELSE <<"/", file.package, ".", s.name>>

FromMethod(m) ==
  CASE ~m.cs /\ ~m.ss -> "Unary"
    [] m.cs /\ ~m.ss -> "ClientStreaming"
    [] ~m.cs /\ m.ss -> "ServerStreaming"
    [] m.cs /\ m.ss -> "Duplex"

ProstConstMethodName(s, m) == <<"METHOD">> \o Rejoined(s.name) \o m.name

GenerateMethod(s, m) ==
  [name |-> ProstConstMethodName(s, m), ty |-> FromMethod(m),
   path |-> Append(ProstServicePath(s), m.name)]

If(b, word) == IF b THEN <<word>> ELSE <<>>

GenerateOptBody(m, req, async) ==
  [on |-> "self", calls |-> m.name \o If(async, "async") \o <<"opt">>,
   with |-> If(req, "req") \o <<"default">>]

GenerateInnerBody(s, m, req, async, inner) ==
  [on |-> "client", calls |-> <<inner>> \o If(async, "async"),
   with |-> <<ProstConstMethodName(s, m)>> \o If(req, "req") \o <<"opt">>]

(* ClientMethod.generate                                                   *)
ClientMethod(s, m, opt, req, async, rets, inner) ==
  LET body == IF opt THEN GenerateInnerBody(s, m, req, async, inner)
                     ELSE GenerateOptBody(m, req, async)
  IN  [name |-> m.name \o If(async, "async") \o If(opt, "opt"),
       args |-> If(req, "req") \o If(opt, "opt"), ret |-> rets,
       on |-> body.on, calls |-> body.calls, with |-> body.with]

GenerateClientMethod(s, m) ==
  LET Both(req, async, rets, inner) ==
        <<ClientMethod(s, m, TRUE, req, async, rets, inner),
          ClientMethod(s, m, FALSE, req, async, rets, inner)>>
  IN CASE FromMethod(m) = "Unary" ->
            Both(TRUE, FALSE, <<"Resp">>, "unary_call")
              \o Both(TRUE, TRUE, <<"ClientUnaryReceiver">>, "unary_call")
       [] FromMethod(m) = "ClientStreaming" ->
            Both(FALSE, FALSE, <<"ClientCStreamSender", "ClientCStreamReceiver">>, "client_streaming")
       [] FromMethod(m) = "ServerStreaming" ->
            Both(TRUE, FALSE, <<"ClientSStreamReceiver">>, "server_streaming")
       [] FromMethod(m) = "Duplex" ->
            Both(FALSE, FALSE, <<"ClientDuplexSender", "ClientDuplexReceiver">>, "duplex_streaming")

GenerateClient(s) ==
  [first |-> Ctor, fns |-> [i \in DOMAIN s.methods |-> GenerateClientMethod(s, s.methods[i])],
   last |-> Spawn]

GenerateServerMethod(m) ==
  LET ty == FromMethod(m) IN
  [name |-> m.name,
   takes |-> IF ty \in {"Unary", "ServerStreaming"} THEN "req" ELSE "stream",
   sink |-> CASE ty = "Unary" -> "UnarySink"
              [] ty = "ClientStreaming" -> "ClientStreamingSink"
              [] ty = "ServerStreaming" -> "ServerStreamingSink"
              [] ty = "Duplex" -> "DuplexSink"]

GenerateMethodBind(s, m, instance) ==
  [add |-> CASE FromMethod(m) = "Unary" -> "add_unary_handler"
             [] FromMethod(m) = "ClientStreaming" -> "add_client_streaming_handler"
             [] FromMethod(m) = "ServerStreaming" -> "add_server_streaming_handler"
             [] FromMethod(m) = "Duplex" -> "add_duplex_streaming_handler",
   const |-> ProstConstMethodName(s, m), calls |-> m.name, instance |-> instance]

GenerateServer(s) ==
  [handlers |-> [i \in DOMAIN s.methods |-> GenerateServerMethod(s.methods[i])],
   binds |-> [i \in DOMAIN s.methods |->
                GenerateMethodBind(s, s.methods[i], IF i < Len(s.methods) THEN "clone" ELSE "moved")]]

-----------------------------------------------------------------------------
(* The steps, a service at a time. The generators are two programs; here   *)
(* the second runs when the first has ended.                               *)

Stopped(g) == at[g].stage \in {"done", "none", "panic", "failed"}
Turn(g) == ~Stopped(g) /\ (g = "prost" => Stopped("protobuf"))
Go(g, stage) == at' = [at EXCEPT ![g].stage = stage]
Current(g) == file.services[at[g].service]

(* gen and gen_file: no output for a file without services.                *)
Gen ==
  /\ Turn("protobuf") /\ at["protobuf"].stage = "start"
  /\ Go("protobuf", IF file.services = <<>> THEN "none" ELSE "definitions")
  /\ UNCHANGED <<file, made>>

(* compile_protos: protoc first checks the files, and its failure is the   *)
(* program's; prost-build then calls the generator for each service.       *)
CompileProtos ==
  /\ Turn("prost") /\ at["prost"].stage = "start"
  /\ \/ Go("prost", "failed")
     \/ Go("prost", IF file.services = <<>> THEN "none" ELSE "definitions")
  /\ UNCHANGED <<file, made>>

(* write_method_definitions; generate_methods                              *)
MethodDefinitions(g) ==
  LET s == Current(g) IN
  /\ Turn(g) /\ at[g].stage = "definitions"
  /\ made' = [made EXCEPT ![g][at[g].service].consts =
                [i \in DOMAIN s.methods |-> IF g = "prost" THEN GenerateMethod(s, s.methods[i])
                                                           ELSE WriteDefinition(s, s.methods[i])]]
  /\ Go(g, "client")
  /\ UNCHANGED file

WriteOutClient(g) ==
  LET s == Current(g)
      w == IF g = "prost" THEN GenerateClient(s) ELSE WriteClient(s)
  IN
  /\ Turn(g) /\ at[g].stage = "client"
  /\ made' = [made EXCEPT ![g][at[g].service].first = w.first, ![g][at[g].service].fns = w.fns,
                          ![g][at[g].service].last = w.last]
  /\ Go(g, "server")
  /\ UNCHANGED file

(* The binding of the last method is written apart: a service without      *)
(* methods has none, and len() - 1 panics.                                 *)
WriteOutServer(g) ==
  LET s == Current(g)
      w == IF g = "prost" THEN GenerateServer(s) ELSE WriteServer(s)
  IN
  /\ Turn(g) /\ at[g].stage = "server"
  /\ IF s.methods = <<>> THEN Go(g, "panic") /\ UNCHANGED made ELSE
       /\ made' = [made EXCEPT ![g][at[g].service].handlers = w.handlers,
                               ![g][at[g].service].binds = w.binds]
       /\ at' = [at EXCEPT ![g] = IF @.service = Len(file.services)
                                  THEN [@ EXCEPT !.stage = "done"]
                                  ELSE [stage |-> "definitions", service |-> @.service + 1]]
  /\ UNCHANGED file

CodegenNext ==
  \/ Gen \/ CompileProtos
  \/ \E g \in Generators : MethodDefinitions(g) \/ WriteOutClient(g) \/ WriteOutServer(g)

-----------------------------------------------------------------------------
(* The names of a file clash when two methods have the same constant, or   *)
(* two functions of a client the same name: Foo.BarBaz and FooBar.Baz, A_B *)
(* and AB, get and get_opt, a method named new. rustc refuses the output   *)
(* then.                                                                   *)
Variants == {<<>>, <<"opt">>, <<"async">>, <<"async", "opt">>}
Clash ==
  \/ \E j, k \in DOMAIN file.services : \E a \in DOMAIN file.services[j].methods,
                                           b \in DOMAIN file.services[k].methods :
       /\ <<j, a>> # <<k, b>>
       /\ LET s == file.services[j] t == file.services[k]
              m == s.methods[a] n == t.methods[b]
          IN  \/ Rejoined(s.name) \o m.name = Rejoined(t.name) \o n.name
              \/ j = k /\ \E x, y \in Variants : m.name \o x = n.name \o y
  \/ \E k \in DOMAIN file.services : \E a \in DOMAIN file.services[k].methods :
       file.services[k].methods[a].name \in {<<"new">>, <<"spawn">>}

(* The functions of a client, and the constants of a file, by their names. *)
FunctionsOf(g, k) ==
  {made[g][k].first, made[g][k].last}
    \cup UNION {Elements(made[g][k].fns[a]) : a \in DOMAIN made[g][k].fns}
Called(g, k, name) == {f \in FunctionsOf(g, k) : f.name = name}
Consts(g, words) ==
  UNION {{c \in Elements(made[g][k].consts) : c.name = words} : k \in DOMAIN file.services}

(* The call that a method of the proto should be: which of the library's   *)
(* calls, which registration, which sink.                                  *)
Kind(m) ==
  IF m.cs THEN IF m.ss THEN <<"duplex_streaming", "add_duplex_streaming_handler", "DuplexSink">>
                       ELSE <<"client_streaming", "add_client_streaming_handler", "ClientStreamingSink">>
          ELSE IF m.ss THEN <<"server_streaming", "add_server_streaming_handler", "ServerStreamingSink">>
                       ELSE <<"unary_call", "add_unary_handler", "UnarySink">>

(* A client's function of a method, followed to the library's call, and    *)
(* what the server has under the constant it uses.                         *)
Reaches(g, k, a, x, f) ==
  LET s == file.services[k]
      m == s.methods[a]
  IN
  /\ f.on = "client" /\ f.calls[1] = Kind(m)[1]
  /\ f.calls[Len(f.calls)] = "async" <=> "async" \in Elements(x)
  /\ {c.path : c \in Consts(g, f.with[1])} = {Append(ServicePath(s), m.name)}
  /\ {b \in DOMAIN made[g][k].binds : made[g][k].binds[b].const = f.with[1]} = {a}
  /\ made[g][k].binds[a].add = Kind(m)[2]
  /\ {h.sink : h \in {e \in Elements(made[g][k].handlers) : e.name = made[g][k].binds[a].calls}}
       = {Kind(m)[3]}

(* What a client calls is what the server has bound. When a generator is   *)
(* done with a file whose names do not clash, every method has one         *)
(* function per variant of its call, and that function, followed to the    *)
(* library's call, uses a constant that is defined once, with the method's *)
(* own path, and the server binds that constant once, with the             *)
(* registration and to the handler of the same kind; the implementation is *)
(* moved into the last binding and into no other. A generator panics on a  *)
(* service without methods, and only there. The two generators write the   *)
(* same interface, so that code changes from one codec to the other with   *)
(* nothing but the messages to adapt (codegen.rs:394-630,                  *)
(* prost_codegen.rs:191-538).                                              *)
StubsAgree ==
  /\ \A g \in Generators :
       /\ at[g].stage = "panic" => \E k \in DOMAIN file.services : file.services[k].methods = <<>>
       /\ at[g].stage = "done" /\ ~Clash =>
            \A k \in DOMAIN file.services : LET s == file.services[k] IN
              /\ \A a \in DOMAIN s.methods, x \in Variants :
                   LET m == s.methods[a] IN
                   Kind(m)[1] = "unary_call" \/ "async" \notin Elements(x) =>
                     \E f \in FunctionsOf(g, k) :
                       /\ Called(g, k, m.name \o x) = {f}
                       /\ IF f.on = "self"
                          THEN \E h \in FunctionsOf(g, k) :
                                 /\ Called(g, k, f.calls) = {h} /\ h.ret = f.ret
                                 /\ Reaches(g, k, a, x, h)
                          ELSE Reaches(g, k, a, x, f)
              /\ {i \in DOMAIN made[g][k].binds : made[g][k].binds[i].instance = "moved"}
                   = {Len(s.methods)}
  /\ (\A g \in Generators : at[g].stage = "done") => made["protobuf"] = made["prost"]
=============================================================================
