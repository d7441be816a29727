----------------------------------- MODULE Worker -----------------------------------
(***************************************************************************)
(* The benchmark worker (benchmark/src): a driver opens a stream to        *)
(* run_server and one to run_client, sends a setup and then marks on each, *)
(* closes them and asks the worker to quit. run_client starts executors    *)
(* that make calls to the benchmark server until they are told to stop. A  *)
(* mark is answered with figures, which are left out.                      *)
(*                                                                         *)
(* An executor is one of sync (execute_unary, a thread), unary             *)
(* (execute_unary_async), pingpong (execute_stream_ping_pong and the       *)
(* generic executor's execute_stream) and fromclient                       *)
(* (execute_stream_from_client).                                           *)
(***************************************************************************)
EXTENDS Integers, Sequences, FiniteSets

CONSTANTS
  Kinds,     \* of executors, as above
  Execs,     \* outstanding_rpcs_per_channel executors of a channel
  MaxMarks   \* bound on the marks of a stream

VARIABLES
  kind,      \* ClientConfig: which executor
  stream,    \* per handler: what the driver did, [at, args]
  handler,   \* per handler: where run_client and run_server are
  keep,      \* Client.keep_running
  ex,        \* the executors
  core,      \* the benchmark server: none, up, draining or down
  main       \* the worker's main: serving, quitting, exited; the shutdown notifier is
             \* there while it is serving

workerVars == <<kind, stream, handler, keep, ex, core, main>>

Handlers == {"client", "server"}
Streaming == kind \in {"pingpong", "fromclient"}

WorkerInit ==
  /\ kind \in Kinds
  /\ stream = [c \in Handlers |-> [at |-> "none", args |-> <<>>, marks |-> 0]]
  /\ handler = [c \in Handlers |-> "none"]
  /\ keep = TRUE /\ ex = [e \in Execs |-> "none"]
  /\ core = "none"
  /\ main = "serving"

-----------------------------------------------------------------------------
(* The driver (external).                                                  *)

Open(c, args) ==
  /\ main = "serving" /\ stream[c].at = "none"
  /\ stream' = [stream EXCEPT ![c] = [at |-> "open", args |-> args, marks |-> 0]]
  /\ handler' = [handler EXCEPT ![c] = "setup"]
  /\ UNCHANGED <<kind, keep, ex, core, main>>

SendMark(c) ==
  /\ stream[c].at = "open" /\ stream[c].marks < MaxMarks /\ handler[c] # "setup"
  /\ stream' = [stream EXCEPT ![c].args = Append(@, "mark"), ![c].marks = @ + 1]
  /\ UNCHANGED <<kind, handler, keep, ex, core, main>>

(* The driver is done with a stream, or is lost.                           *)
Hangup(c, at) ==
  /\ stream[c].at = "open" /\ stream' = [stream EXCEPT ![c].at = at]
  /\ UNCHANGED <<kind, handler, keep, ex, core, main>>

-----------------------------------------------------------------------------
(* worker.rs                                                               *)

(* A stream that ends without an argument is closed in turn.               *)
CloseUnused(c) ==
  /\ handler[c] = "setup" /\ stream[c].at = "closed" /\ stream[c].args = <<>>
  /\ handler' = [handler EXCEPT ![c] = "done"]
  /\ UNCHANGED <<kind, stream, keep, ex, core, main>>

(* The first argument, if there is one, sets up the executors (Client::new *)
(* and execute) or the server (Server::new).                               *)
FirstStep == IF kind \in {"sync", "fromclient"} THEN "check" ELSE "call"
ClientNew == ex' = [e \in Execs |-> FirstStep] /\ UNCHANGED core
ServerNew == core' = "up" /\ UNCHANGED ex

Setup(c) ==
  /\ handler[c] = "setup" /\ stream[c].at # "cancelled"
  /\ stream[c].args # <<>>
  /\ stream' = [stream EXCEPT ![c].args = Tail(@)]
  /\ handler' = [handler EXCEPT ![c] = "answer"]
  /\ IF c = "client" THEN ClientNew ELSE ServerNew
  /\ UNCHANGED <<kind, keep, main>>

Answer(c) ==
  /\ handler[c] = "answer" /\ stream[c].at # "cancelled"
  /\ handler' = [handler EXCEPT ![c] = "marks"]
  /\ UNCHANGED <<kind, stream, keep, ex, core, main>>

Mark(c) ==
  /\ handler[c] = "marks" /\ stream[c].at # "cancelled" /\ stream[c].args # <<>>
  /\ stream' = [stream EXCEPT ![c].args = Tail(@)]
  /\ handler' = [handler EXCEPT ![c] = "answer"]
  /\ UNCHANGED <<kind, keep, ex, core, main>>

(* Mutant: the executors are not told.                                     *)
EndOfStreamUntold(c) ==
  /\ handler[c] = "marks" /\ stream[c].at = "closed" /\ stream[c].args = <<>>
  /\ handler' = [handler EXCEPT ![c] = "shutdown"]
  /\ IF c = "client" THEN UNCHANGED <<keep, core>> ELSE core' = "draining" /\ UNCHANGED keep
  /\ UNCHANGED <<kind, stream, ex, main>>

(* The stream has ended: Client.shutdown, Server.shutdown.                 *)
EndOfStream(c) ==
  /\ handler[c] = "marks" /\ stream[c].at = "closed" /\ stream[c].args = <<>>
  /\ handler' = [handler EXCEPT ![c] = "shutdown"]
  /\ IF c = "client" THEN keep' = FALSE /\ UNCHANGED core ELSE core' = "draining" /\ UNCHANGED keep
  /\ UNCHANGED <<kind, stream, ex, main>>

(* Every executor has dropped its _trace; the server has come down. Then   *)
(* the sink is closed.                                                     *)
Finish(c) ==
  /\ handler[c] = "shutdown"
  /\ IF c = "client" THEN \A e \in Execs : ex[e] = "done" ELSE core = "down"
  /\ handler' = [handler EXCEPT ![c] = "done"]
  /\ UNCHANGED <<kind, stream, keep, ex, core, main>>

(* A cancelled stream fails the next await, and what the handler owns is   *)
(* dropped: the server with its calls, but of the client only the          *)
(* receivers, for nobody tells the executors.                              *)
Fail(c) ==
  /\ handler[c] \in {"setup", "answer", "marks"} /\ stream[c].at = "cancelled"
  /\ handler' = [handler EXCEPT ![c] = "failed"]
  /\ core' = IF c = "server" /\ core # "none" THEN "down" ELSE core
  /\ UNCHANGED <<kind, stream, keep, ex, main>>

(* quit_worker: only the first finds the notifier.                         *)
QuitWorker ==
  /\ main = "serving" /\ main' = "quitting"
  /\ UNCHANGED <<kind, stream, handler, keep, ex, core>>

(* main waits for the worker's own server, which waits for the handlers.   *)
Exit ==
  /\ main = "quitting" /\ \A c \in Handlers : handler[c] \in {"none", "done", "failed"}
  /\ main' = "exited"
  /\ UNCHANGED <<kind, stream, handler, keep, ex, core>>

-----------------------------------------------------------------------------
(* client.rs: an executor's loop. A call may always fail, and ends the     *)
(* executor; it cannot succeed without a server. A server that drains goes *)
(* on with the streams it has.                                             *)

Reached == core = "up" \/ (core = "draining" /\ Streaming)
Move(e, at) == ex' = [ex EXCEPT ![e] = at]

CallStep(e) ==
  /\ ex[e] = "call"
  /\ \/ Reached /\ Move(e, IF kind = "pingpong" THEN "recv" ELSE "observe")
     \/ Move(e, "done")
  /\ UNCHANGED <<kind, stream, handler, keep, core, main>>

RecvStep(e) ==
  /\ ex[e] = "recv"
  /\ (Reached /\ Move(e, "observe")) \/ Move(e, "done")
  /\ UNCHANGED <<kind, stream, handler, keep, core, main>>

(* observe_latency, under the histogram's lock, which all executors share. *)
Observe(e) ==
  /\ ex[e] = "observe" /\ Move(e, "check")
  /\ UNCHANGED <<kind, stream, handler, keep, core, main>>

(* The loop goes round after the backoff, a delay like any other here.     *)
KeepGoing(e) ==
  /\ ex[e] = "check"
  /\ Move(e, IF keep THEN "call" ELSE IF Streaming THEN "close" ELSE "done")
  /\ UNCHANGED <<kind, stream, handler, keep, core, main>>

(* The stream is closed and its end, or its one response, awaited: whether *)
(* that goes well or not, the executor ends.                               *)
CloseStep(e) ==
  /\ ex[e] = "close" /\ Move(e, "done")
  /\ UNCHANGED <<kind, stream, handler, keep, core, main>>

(* bench.rs: a streaming handler echoes until its stream ends, and the     *)
(* server is down when none is left.                                       *)
Drained ==
  /\ core = "draining" /\ core' = "down"
  /\ Streaming => \A e \in Execs : ex[e] \in {"none", "done"}
  /\ UNCHANGED <<kind, stream, handler, keep, ex, main>>

HandlerStep(c) ==
  Setup(c) \/ CloseUnused(c) \/ Answer(c) \/ Mark(c) \/ EndOfStream(c) \/ Finish(c) \/ Fail(c)
ExecutorStep(e) ==
  CallStep(e) \/ RecvStep(e) \/ Observe(e) \/ KeepGoing(e) \/ CloseStep(e)
DriverLeaves(c) == Hangup(c, "closed") \/ Hangup(c, "cancelled")

WorkerNext ==
  \/ \E c \in Handlers : \/ \E args \in {<<>>, <<"setup">>} : Open(c, args)
                         \/ SendMark(c) \/ DriverLeaves(c) \/ HandlerStep(c)
  \/ \E e \in Execs : ExecutorStep(e)
  \/ Drained \/ QuitWorker \/ Exit

(* Every task and thread gets its turn, a call ends in one way or another, *)
(* and the driver leaves the streams it has opened.                        *)
WorkerFairness ==
  /\ \A c \in Handlers : WF_workerVars(HandlerStep(c)) /\ WF_workerVars(DriverLeaves(c))
  /\ \A e \in Execs : WF_workerVars(ExecutorStep(e))
  /\ WF_workerVars(Drained) /\ WF_workerVars(Exit)

-----------------------------------------------------------------------------
(* A worker that is asked to quit stops: the client's executors, the       *)
(* benchmark server and the worker wait for one another in no circle. The  *)
(* exception is a driver that was lost while run_client served it, for     *)
(* then nobody tells the executors (worker.rs:31-118, client.rs:442-446).  *)
Untold == handler["client"] = "failed" /\ \E e \in Execs : ex[e] # "none"
WorkerStops == main = "quitting" ~> (main = "exited" \/ Untold)
=============================================================================
