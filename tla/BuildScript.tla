-------------------------------- MODULE BuildScript --------------------------------
(***************************************************************************)
(* The build script of grpcio-sys (grpc-sys/build.rs), run by cargo when   *)
(* what the script registered with cargo:rerun-if-... has changed since    *)
(* its last successful run. It brings the C core's library, the wrapper    *)
(* and the bindings up to date in directories that outlive it; a step may  *)
(* fail, the whole may be killed, and the files it reads may be edited     *)
(* while it runs.                                                          *)
(*                                                                         *)
(* Cargo, CMake and pkg-config are external. Cargo keeps one directory for *)
(* builds of the host ("plain") and one for builds with --target           *)
(* ("tuple"), and runs one build at a time. CMake fails when the compiler  *)
(* of its cache is not the one it is given, and otherwise builds with it   *)
(* from the sources as they are; its cache holds the compiler's name as    *)
(* given or as the path it was found under.                                *)
(***************************************************************************)
EXTENDS Integers, Sequences, FiniteSets

CONSTANTS
  Features,     \* [known, bindgen, ssl]: whether the target has pre-generated bindings,
                \* whether bindgen may be used, and which ssl library
  Compilers,    \* values CXX may have, besides unset
  DefaultCxx,   \* the compiler that is used without CXX
  DefaultCc,    \* the compiler the script then compares the cache with: that
                \* of C, or, for musl, the same one
  MaxRev        \* bound on the edits of a file

ASSUME FeaturesAssumption ==
  Features \subseteq [known : BOOLEAN, bindgen : BOOLEAN, ssl : {"none", "boringssl", "openssl"}]
ASSUME MaxRevAssumption == MaxRev \in Nat
ASSUME DefaultCcAssumption == DefaultCc = DefaultCxx \/ DefaultCc \notin Compilers

VARIABLES
  feat,       \* target and features of the build
  tree,       \* the sources: revisions of grpc and grpc_wrap.cc, and whether grpc is there
  bindings,   \* grpc-sys/bindings/<target>-bindings.rs: [rev, raw, whole]
  out,        \* per directory: [cache, lib, wrap, bound, links]
  seen,       \* per directory: what cargo recorded of the last successful run
  touched,    \* per directory: files changed since that run started
  job,        \* the build that runs: [at, dir, env, vars, files, left]
  asked       \* per directory: the environment of the last build, if it succeeded

buildVars == <<feat, tree, bindings, out, seen, touched, job, asked>>

Dirs == {"plain", "tuple"}
(* CXX, GRPCIO_SYS_USE_PKG_CONFIG and UPDATE_BIND, as a build finds them.  *)
Env == [cxx : Compilers \cup {"unset"}, pkg : BOOLEAN, update : BOOLEAN]
Unset == [cxx |-> "unset", pkg |-> FALSE, update |-> FALSE]
Never == [vars |-> {}, files |-> {}, env |-> Unset]
Idle == [at |-> "idle", dir |-> "plain", env |-> Unset, vars |-> {}, files |-> {},
         left |-> FALSE]
NoFile == -1

BuildInit ==
  /\ feat \in Features
  /\ tree = [grpc |-> 0, wrap |-> 0, there |-> TRUE]
  /\ bindings = [rev |-> 0, raw |-> FALSE, whole |-> TRUE]
  /\ out = [d \in Dirs |-> [cache |-> <<>>, lib |-> <<"none", NoFile>>, wrap |-> NoFile,
                            bound |-> NoFile, links |-> {}]]
  /\ seen = [d \in Dirs |-> Never]
  /\ touched = [d \in Dirs |-> {}]
  /\ job = Idle
  /\ asked = [d \in Dirs |-> <<>>]

-----------------------------------------------------------------------------
(* Around the script.                                                      *)

(* It matters to the directories with a run that cargo counts, or may yet. *)
Touch(f) ==
  touched' = [d \in Dirs |-> IF seen[d] # Never \/ (job.at # "idle" /\ job.dir = d)
                             THEN touched[d] \cup {f} ELSE {}]

(* A pull, an edit of the wrapper, a checkout without or with submodules;  *)
(* the script may be running.                                              *)
Edit ==
  /\ \/ tree.grpc < MaxRev /\ tree' = [tree EXCEPT !.grpc = @ + 1] /\ Touch("grpc")
     \/ tree.wrap < MaxRev /\ tree' = [tree EXCEPT !.wrap = @ + 1] /\ Touch("grpc_wrap.cc")
     \/ job.at = "idle" /\ tree' = [tree EXCEPT !.there = ~@] /\ Touch("grpc")
  /\ UNCHANGED <<feat, bindings, out, seen, job, asked>>

(* cargo build: a directory is fresh when the variables the script named   *)
(* are as they were and no file it named has changed.                      *)
Fresh(d, e) ==
  /\ seen[d] # Never
  /\ \A v \in seen[d].vars : seen[d].env[v] = e[v]
  /\ seen[d].files \cap touched[d] = {}

CargoBuild(d, e) ==
  /\ job.at = "idle"
  /\ IF Fresh(d, e)
     THEN asked' = [asked EXCEPT ![d] = <<e>>] /\ UNCHANGED <<seen, touched, job>>
     ELSE /\ seen' = [seen EXCEPT ![d] = Never]
          /\ asked' = [asked EXCEPT ![d] = <<>>]
          /\ touched' = [touched EXCEPT ![d] = {}]
          /\ job' = [Idle EXCEPT !.at = "main", !.dir = d, !.env = e]
  /\ UNCHANGED <<feat, tree, bindings, out>>

UserBuilds == \E e \in Env : CargoBuild("plain", e)

-----------------------------------------------------------------------------
(* The script.                                                             *)

Step(at) == job' = [job EXCEPT !.at = at]
Panic == job' = Idle
Here == out[job.dir]
Output(o) == out' = [out EXCEPT ![job.dir] = o]

(* main                                                                    *)
Main ==
  /\ job.at = "main"
  /\ job' = [job EXCEPT !.at = IF job.env.pkg THEN "probe" ELSE "prepare",
                        !.vars = {"update", "pkg"}, !.files = {"grpc_wrap.cc", "grpc"}]
  /\ UNCHANGED <<feat, tree, bindings, out, seen, touched, asked>>

(* probe_library: the system's library, or a panic.                        *)
ProbeLibrary ==
  /\ job.at = "probe"
  /\ \/ Panic /\ UNCHANGED out
     \/ Step("wrap") /\ Output([Here EXCEPT !.links = {"system"}])
  /\ UNCHANGED <<feat, tree, bindings, seen, touched, asked>>

(* Mutant: CXX is read without being named to cargo.                       *)
PrepareGrpcUnnamed ==
  /\ job.at = "prepare"
  /\ IF tree.there THEN Step("clean") ELSE Panic
  /\ UNCHANGED <<feat, tree, bindings, out, seen, touched, asked>>

(* prepare_grpc, and the first lines of build_grpc.                        *)
PrepareGrpc ==
  /\ job.at = "prepare"
  /\ IF tree.there THEN job' = [job EXCEPT !.at = "clean", !.vars = @ \cup {"cxx"}] ELSE Panic
  /\ UNCHANGED <<feat, tree, bindings, out, seen, touched, asked>>

Compiler(e) == IF e.cxx = "unset" THEN DefaultCxx ELSE e.cxx

(* cxx_compiler, which CMake gets from CXX; cc is not yet told to be C++.  *)
Compared(e) == IF e.cxx = "unset" THEN DefaultCc ELSE e.cxx

Stale(cache, cxx) == cache # <<>> /\ cache # <<cxx, "name">>

(* clean_up_stale_cache. The removal may fail, and that is ignored.        *)
CleanUpStaleCache ==
  LET stale == Stale(Here.cache, Compared(job.env)) IN
  /\ job.at = "clean"
  /\ \/ ~stale /\ Step("cmake") /\ UNCHANGED out
     \/ stale /\ Step("cmake") /\ Output([Here EXCEPT !.cache = <<>>])
     \/ stale /\ job' = [job EXCEPT !.at = "cmake", !.left = TRUE] /\ UNCHANGED out
  /\ UNCHANGED <<feat, tree, bindings, seen, touched, asked>>

Agrees == Here.cache \in {<<>>, <<Compiler(job.env), "name">>, <<Compiler(job.env), "path">>}

(* The rest of build_grpc: boringssl, the definitions, libz, CMake. It     *)
(* configures, which may be all that gets done, and builds.                *)
BuildGrpc ==
  LET cxx == Compiler(job.env)
  IN
  /\ job.at = "cmake"
  /\ \/ Panic /\ UNCHANGED out
     \/ /\ Agrees
        /\ \E form \in {"name", "path"} :
             \/ Panic /\ Output([Here EXCEPT !.cache = <<cxx, form>>])
             \/ Step("link") /\ Output([Here EXCEPT !.cache = <<cxx, form>>, !.lib = <<cxx, tree.grpc>>])
  /\ UNCHANGED <<feat, tree, bindings, seen, touched, asked>>

(* The libraries to link. With the system's openssl, figure_ssl_path reads *)
(* their place from CMake's cache and panics unless it finds both.         *)
LinkLibraries ==
  /\ job.at = "link"
  /\ \/ /\ Step("wrap")
        /\ Output([Here EXCEPT !.links =
             CASE feat.ssl = "none" -> {"grpc_unsecure"}
               [] feat.ssl = "boringssl" -> {"grpc", "static ssl"}
               [] feat.ssl = "openssl" -> {"grpc", "ssl"}])
     \/ feat.ssl = "openssl" /\ Panic /\ UNCHANGED out
  /\ UNCHANGED <<feat, tree, bindings, seen, touched, asked>>

CompileWrap ==
  /\ job.at = "wrap"
  /\ \/ Panic /\ UNCHANGED out
     \/ Step("bind") /\ Output([Here EXCEPT !.wrap = tree.wrap])
  /\ UNCHANGED <<feat, tree, bindings, seen, touched, asked>>

(* bindgen_grpc, from the headers and the wrapper.                         *)
BindgenGrpc == tree.there /\ feat.bindgen

Named == IF feat.known THEN {"bindings"} ELSE {}

(* config_binding_path: the pre-generated file, written anew in its place  *)
(* only on request, or one in the build's own directory. Then the script   *)
(* is done, and cargo records what it named.                               *)
Done(vars, files) ==
  /\ seen' = [seen EXCEPT ![job.dir] = [vars |-> vars, files |-> files, env |-> job.env]]
  /\ asked' = [asked EXCEPT ![job.dir] = <<job.env>>]
  /\ job' = Idle

ConfigBindingPath ==
  /\ job.at = "bind"
  /\ \/ /\ feat.known /\ job.env.update /\ BindgenGrpc
        /\ bindings' = [rev |-> tree.grpc, raw |-> TRUE, whole |-> TRUE] /\ Touch("bindings")
        /\ Done(job.vars, job.files \cup Named) /\ UNCHANGED out
     \/ /\ feat.known /\ (job.env.update => ~feat.bindgen)
        /\ Done(job.vars, job.files \cup Named) /\ UNCHANGED <<bindings, touched, out>>
     \/ /\ ~feat.known /\ BindgenGrpc /\ Output([Here EXCEPT !.bound = tree.grpc])
        /\ Done(job.vars, job.files) /\ UNCHANGED <<bindings, touched>>
     \/ /\ ~feat.known /\ ~feat.bindgen
        /\ Done(job.vars, job.files) /\ UNCHANGED <<bindings, touched, out>>
     \/ /\ (feat.known => job.env.update) /\ feat.bindgen /\ Panic
        /\ UNCHANGED <<bindings, out, seen, touched, asked>>
  /\ UNCHANGED <<feat, tree>>

(* The build is interrupted, perhaps while the bindings are written.       *)
Killed ==
  /\ job.at # "idle" /\ job' = Idle
  /\ \/ UNCHANGED <<bindings, touched>>
     \/ /\ job.at = "bind" /\ feat.known /\ job.env.update /\ BindgenGrpc
        /\ bindings' = [bindings EXCEPT !.whole = FALSE] /\ Touch("bindings")
  /\ UNCHANGED <<feat, tree, out, seen, asked>>

Script ==
  \/ Main \/ ProbeLibrary \/ PrepareGrpc \/ CleanUpStaleCache \/ BuildGrpc
  \/ LinkLibraries \/ CompileWrap \/ ConfigBindingPath

BuildNext == Edit \/ UserBuilds \/ Script \/ Killed

-----------------------------------------------------------------------------
(* What cargo calls built is what a build from nothing would give. After a *)
(* build that succeeded, as long as the sources have not changed since it  *)
(* started, the library is the system's or is built by the compiler the    *)
(* build asked for, from the sources as they are; the wrapper and the      *)
(* bindings are of these sources too, and the libraries linked are those   *)
(* of the chosen ssl: whatever builds failed or were killed before, and    *)
(* whatever was edited while one ran. And CMake is not started on the cache *)
(* of another compiler, which it cannot handle, unless the cache could not *)
(* be removed (build.rs:76-100, :294-303, :384-459).                       *)
BuildIsCurrent ==
  /\ job.at = "cmake" /\ ~job.left => Agrees
  /\ \A d \in Dirs : asked[d] # <<>> /\ touched[d] \cap {"grpc", "grpc_wrap.cc"} = {} =>
       LET e == asked[d][1] o == out[d] IN
       /\ o.wrap = tree.wrap
       /\ e.pkg => o.links = {"system"}
       /\ ~e.pkg => /\ o.lib = <<Compiler(e), tree.grpc>>
                    /\ "system" \notin o.links
                    /\ (\E l \in {"ssl", "static ssl"} : l \in o.links) <=> feat.ssl # "none"
       /\ feat.bindgen /\ ~feat.known => o.bound = tree.grpc
       /\ feat.bindgen /\ feat.known /\ e.update => bindings.rev = tree.grpc
=============================================================================
