----------------------------------- MODULE Xtask -----------------------------------
(***************************************************************************)
(* The maintenance commands (xtask/src/main.rs) that write generated       *)
(* sources into the repository: bindgen runs a build with UPDATE_BIND and  *)
(* filters every file of bindings; codegen makes the health service's      *)
(* messages and stubs anew, with the generators of this repository, and    *)
(* patches the names in one file; submodule and clang-lint call tools.     *)
(* Files are rewritten in place, a command may be interrupted between any  *)
(* two steps, and exec looks at whether a child could be started, not at   *)
(* how it ended.                                                           *)
(***************************************************************************)
EXTENDS BuildScript

VARIABLES
  other,   \* the bindings of the other architecture: [rev, raw, whole]
  gen,     \* [comp, plugin, prostbin]: revisions of the generators' sources and programs
  health,  \* health/src/proto: [names, pb, prost], what is generated
  x        \* the command: [cmd, at, todo, held, failed]

xtaskVars == <<buildVars, other, gen, health, x>>

(* The enumerators as rust-protobuf writes them, with the underscores as   *)
(* boundaries of words.                                                    *)
RawNames == {<<"HealthCheckResponse", "ServingStatus">>, <<"UNKNOWN">>, <<"SERVING">>,
             <<"NOT", "SERVING">>, <<"SERVICE", "UNKNOWN">>}
Rest == [cmd |-> "none", at |-> "idle", todo |-> {}, held |-> <<>>, failed |-> FALSE]

XtaskInit ==
  /\ BuildInit
  /\ other = [rev |-> 0, raw |-> FALSE, whole |-> TRUE]
  /\ gen = [comp |-> 0, plugin |-> NoFile, prostbin |-> NoFile]
  /\ health = [names |-> {}, pb |-> NoFile, prost |-> NoFile]
  /\ x = Rest

Doing(cmd, at) == x.cmd = cmd /\ x.at = at
To(at) == x' = [x EXCEPT !.at = at]
(* exec: a child that failed is as good as one that did not.               *)
ExecFails(at) == x' = [x EXCEPT !.at = at, !.failed = TRUE]
(* A child that cannot be started, or an unwrap, ends the command.         *)
Ends == x' = Rest

EditGenerator ==
  /\ gen.comp < MaxRev /\ gen' = [gen EXCEPT !.comp = @ + 1]
  /\ x.at = "idle"
  /\ UNCHANGED <<buildVars, other, health, x>>

(* main                                                                    *)
Start(cmd) ==
  /\ x.cmd = "none" /\ job.at = "idle"
  /\ x' = [Rest EXCEPT !.cmd = cmd, !.at = "start"]
  /\ UNCHANGED <<buildVars, other, gen, health>>

Return ==
  /\ x.at = "returned" /\ Ends
  /\ UNCHANGED <<buildVars, other, gen, health>>

-----------------------------------------------------------------------------
(* bindgen                                                                 *)

BindgenBuild ==
  /\ Doing("bindgen", "start")
  /\ CargoBuild("tuple", [Unset EXCEPT !.update = TRUE])
  /\ To("build")
  /\ UNCHANGED <<other, gen, health>>

(* The build has ended, well or not.                                       *)
BuildEnds ==
  /\ Doing("bindgen", "build") /\ job.at = "idle"
  /\ x' = [x EXCEPT !.at = "filter", !.todo = {"own", "other"}, !.failed = asked["tuple"] = <<>>]
  /\ UNCHANGED <<buildVars, other, gen, health>>

Content(f) == IF f = "own" THEN bindings ELSE other
Store(f, c) ==
  IF f = "own" THEN bindings' = c /\ Touch("bindings") /\ UNCHANGED other
               ELSE other' = c /\ UNCHANGED <<bindings, touched>>

(* File::create empties the file that was read ...                         *)
FilterOpen(f) ==
  /\ Doing("bindgen", "filter") /\ x.held = <<>> /\ f \in x.todo
  /\ Store(f, [Content(f) EXCEPT !.whole = FALSE])
  /\ x' = [x EXCEPT !.held = <<f, [Content(f) EXCEPT !.raw = FALSE]>>]
  /\ UNCHANGED <<feat, tree, out, seen, job, asked, gen, health>>

(* ... and write_all fills it, without the type aliases.                   *)
FilterWrite ==
  /\ Doing("bindgen", "filter") /\ x.held # <<>>
  /\ Store(x.held[1], x.held[2])
  /\ LET left == x.todo \ {x.held[1]} IN
     x' = [x EXCEPT !.held = <<>>, !.todo = left, !.at = IF left = {} THEN "returned" ELSE @]
  /\ UNCHANGED <<feat, tree, out, seen, job, asked, gen, health>>

-----------------------------------------------------------------------------
(* codegen                                                                 *)

(* Mutant: the shorter names first.                                        *)
NamingPatchSorted ==
  << <<<<"HealthCheckResponse", "ServingStatus">>, <<"ServingStatus">>>>,
     <<<<"SERVING">>, <<"Serving">>>>, <<<<"UNKNOWN">>, <<"Unknown">>>>,
     <<<<"NOT", "SERVING">>, <<"NotServing">>>>,
     <<<<"SERVICE", "UNKNOWN">>, <<"ServiceUnknown">>>> >>

(* NAMING_PATCH: "Order is important."                                     *)
NamingPatch ==
  << <<<<"HealthCheckResponse", "ServingStatus">>, <<"ServingStatus">>>>,
     <<<<"NOT", "SERVING">>, <<"NotServing">>>>,
     <<<<"SERVICE", "UNKNOWN">>, <<"ServiceUnknown">>>>,
     <<<<"UNKNOWN">>, <<"Unknown">>>>, <<<<"SERVING">>, <<"Serving">>>> >>

(* str::replace: a pattern is the whole of a name or a word of it.         *)
Replace(n, from, to) ==
  IF n = from THEN to
  ELSE IF Len(from) = 1 THEN [i \in DOMAIN n |-> IF n[i] = from[1] THEN to[1] ELSE n[i]]
  ELSE n

(* The replacements of NAMING_PATCH, one after the other.                  *)
PatchedName(n) ==
  LET By(m, k) == Replace(m, NamingPatch[k][1], NamingPatch[k][2])
  IN  By(By(By(By(By(n, 1), 2), 3), 4), 5)
Patched(names) == {PatchedName(n) : n \in names}

(* codegen lists the protos, which takes the submodule; generate_protobuf  *)
(* removes what is there ...                                               *)
RemoveProtobuf ==
  /\ Doing("codegen", "start")
  /\ \/ ~tree.there /\ Ends /\ UNCHANGED health
     \/ tree.there /\ To("messages") /\ health' = [health EXCEPT !.names = {}, !.pb = NoFile]
  /\ UNCHANGED <<buildVars, other, gen>>

(* ... writes the messages, whose failure is a panic, ...                  *)
WriteMessages ==
  /\ Doing("codegen", "messages")
  /\ \/ Ends /\ UNCHANGED health
     \/ To("plugin") /\ health' = [health EXCEPT !.names = RawNames]
  /\ UNCHANGED <<buildVars, other, gen>>

(* ... builds the plugin, ...                                              *)
BuildPlugin ==
  /\ Doing("codegen", "plugin")
  /\ \/ To("stubs") /\ gen' = [gen EXCEPT !.plugin = gen.comp]
     \/ ExecFails("stubs") /\ UNCHANGED gen
  /\ UNCHANGED <<buildVars, other, health>>

(* ... runs protoc with it: with the program that is there, ...            *)
WriteStubs ==
  /\ Doing("codegen", "stubs")
  /\ \/ /\ gen.plugin # NoFile
        /\ To("patch") /\ health' = [health EXCEPT !.pb = gen.plugin]
     \/ ExecFails("patch") /\ UNCHANGED health
  /\ UNCHANGED <<buildVars, other, gen>>

(* ... and patches the names, emptying the file and filling it.            *)
PatchOpen ==
  /\ Doing("codegen", "patch")
  /\ x' = [x EXCEPT !.at = "patching", !.held = <<Patched(health.names)>>]
  /\ health' = [health EXCEPT !.names = {}]
  /\ UNCHANGED <<buildVars, other, gen>>

PatchWrite ==
  /\ Doing("codegen", "patching")
  /\ x' = [x EXCEPT !.at = "prost", !.held = <<>>]
  /\ health' = [health EXCEPT !.names = x.held[1]]
  /\ UNCHANGED <<buildVars, other, gen>>

(* generate_prost                                                          *)
RemoveProst ==
  /\ Doing("codegen", "prost") /\ To("prostbin")
  /\ health' = [health EXCEPT !.prost = NoFile]
  /\ UNCHANGED <<buildVars, other, gen>>

BuildProst ==
  /\ Doing("codegen", "prostbin")
  /\ \/ To("prostrun") /\ gen' = [gen EXCEPT !.prostbin = gen.comp]
     \/ ExecFails("prostrun") /\ UNCHANGED gen
  /\ UNCHANGED <<buildVars, other, health>>

(* A program that is not there cannot be started.                          *)
RunProst ==
  /\ Doing("codegen", "prostrun")
  /\ \/ gen.prostbin = NoFile /\ Ends /\ UNCHANGED health
     \/ gen.prostbin # NoFile /\ To("returned") /\ health' = [health EXCEPT !.prost = gen.prostbin]
     \/ gen.prostbin # NoFile /\ ExecFails("returned") /\ UNCHANGED health
  /\ UNCHANGED <<buildVars, other, gen>>

-----------------------------------------------------------------------------
(* submodule: git brings the sources back, then files in them are removed. *)
Submodule ==
  /\ Doing("submodule", "start")
  /\ \/ tree' = [tree EXCEPT !.there = TRUE] /\ To("returned")
     \/ tree.there /\ ExecFails("returned") /\ UNCHANGED tree
     \/ ~tree.there /\ Ends /\ UNCHANGED tree
  /\ Touch("grpc")
  /\ UNCHANGED <<feat, bindings, out, seen, job, asked, other, gen, health>>

(* clang-lint formats the wrapper.                                         *)
ClangLint ==
  /\ Doing("clang-lint", "start") /\ (To("returned") \/ ExecFails("returned"))
  /\ Touch("grpc_wrap.cc")
  /\ UNCHANGED <<feat, tree, bindings, out, seen, job, asked, other, gen, health>>

(* The command is interrupted, with the build it waits for.                *)
Interrupted ==
  /\ x.cmd # "none" /\ Ends
  /\ IF job.at = "idle" THEN UNCHANGED buildVars ELSE Killed
  /\ UNCHANGED <<other, gen, health>>

(* A build by the user between two commands, in the other directory, which *)
(* writes the bindings too; it may be killed.                              *)
BuildBetween ==
  /\ x = Rest
  /\ CargoBuild("plain", [Unset EXCEPT !.update = TRUE]) \/ Killed
  /\ UNCHANGED <<other, gen, health, x>>

(* The commands that deal with the C core, and codegen: what they write is *)
(* apart, but all need the submodule.                                      *)
CoreNext ==
  \/ (Script \/ Edit) /\ UNCHANGED <<other, gen, health, x>>
  \/ BuildBetween
  \/ \E cmd \in {"bindgen", "submodule", "clang-lint"} : Start(cmd)
  \/ BindgenBuild \/ BuildEnds \/ (\E f \in {"own", "other"} : FilterOpen(f)) \/ FilterWrite
  \/ Submodule \/ ClangLint \/ Return \/ Interrupted

GenerateNext ==
  \/ \E cmd \in {"codegen", "submodule"} : Start(cmd)
  \/ RemoveProtobuf \/ WriteMessages \/ BuildPlugin \/ WriteStubs \/ PatchOpen \/ PatchWrite
  \/ RemoveProst \/ BuildProst \/ RunProst \/ Submodule \/ EditGenerator \/ Return \/ Interrupted
  \/ Edit /\ UNCHANGED <<other, gen, health, x>>

-----------------------------------------------------------------------------
(* Running a command again repairs what an interrupted one has left. When  *)
(* bindgen returns and its build succeeded, the bindings of its target are *)
(* whole and filtered, and of the present sources unless these have just   *)
(* changed; when codegen returns and none of its children failed, stubs of *)
(* both kinds come from the present generators and every enumerator has    *)
(* its Rust name (main.rs:70-96, :148-227).                                *)
RerunRepairs ==
  /\ Doing("bindgen", "returned") /\ ~x.failed /\ feat.known /\ feat.bindgen =>
       /\ bindings.whole /\ ~bindings.raw
       /\ "grpc" \in touched["tuple"] \/ bindings.rev = tree.grpc
  /\ Doing("codegen", "returned") /\ ~x.failed =>
       /\ health.pb = gen.comp /\ health.prost = gen.comp
       /\ health.names = {<<"ServingStatus">>, <<"Unknown">>, <<"Serving">>, <<"NotServing">>,
                          <<"ServiceUnknown">>}
=============================================================================
