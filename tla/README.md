# A TLA+ verification of grpc-rs

grpc-rs wraps the C library of gRPC ("core" below) for Rust. Core reports the
end of every operation through a *completion queue*; grpc-rs gives each queue a
thread that polls it, turns operations into futures, and runs spawned futures on
the poll threads. Most of what is hard about the crate is in that machinery:
counters and state words shared by threads, callbacks on poll threads, calls
whose two halves belong to two tasks, memory shared with core, shutdown while
work is going on. Around it stand two services, two code generators, a build
script and maintenance commands.

This directory holds TLA+ modules that model the machinery and the programs
around it, TLC configurations that check the models on small instances, and
TLAPS proofs of the central theorems for instances of any size. `PROJECT.json`
ties every definition to the lines it models, and lists hazards, runs, mutants,
findings and theorems. Paths below are relative to the repository's root.

## 1. The system and its parts

| part | source | modules |
|---|---|---|
| Completion queue: reference count, shutdown, destruction | `src/cq.rs` | `CompletionQueue`, abstractly `Rundown` |
| Environment: builder, poll threads, queues dealt in turn, drop | `src/env.rs` | `Environment`; the poll loop in `CompletionQueue` and `Executor` |
| Promises: call tags, `NotifyHandle`, `CqFuture` | `src/task/mod.rs`, `src/task/promise.rs` | `Promise`; the results of each type of batch in `Rpc` |
| Executor of spawned futures, wakers, kicks | `src/task/executor.rs`, `WorkQueue` in `src/cq.rs` | `Executor` |
| Server while it serves: slots, registries, shutdown, drop | `src/server.rs`, `src/task/callback.rs`, dispatch in `src/call/server.rs` | `Server` |
| Server before and after: builder, ports, registration, last owner | `src/server.rs` | `ServerSetup` |
| Channel: options, connectivity, waits, calls on a queue | `src/channel.rs`, `src/client.rs` | `ChannelBuilder`, `Channel` |
| Credentials | `src/security/credentials.rs` | `Credentials` |
| a process that uses the above | | `Endpoints` |
| Sinks, the message held back for batching | `SinkBase` in `src/call/mod.rs` | `SinkBase` |
| Streaming calls of a client | `src/call/client.rs`, `ShareCall` in `src/call/mod.rs` | `ClientCall` |
| Streaming calls and single answers of a server | `src/call/server.rs` | `ServerCall` |
| The batches of a call, both sides | `src/call/*.rs`, `grpc-sys/grpc_wrap.cc` | `Rpc` |
| Bytes of a message: slices out, reader in | `src/buf.rs`, `src/call/mod.rs` | `Slices`, `ByteReader`, `Received` |
| Headers and status of a call | `src/metadata.rs`, `src/call/`, `proto/src/util.rs`, `grpc-sys/grpc_wrap.cc` | `Metadata`, `Status` |
| all that a call carries | | `Message` |
| Health service | `health/src/service.rs` | `Health` |
| Benchmark worker | `benchmark/src/` | `Worker`; with the health service in `Services` |
| Code generators | `compiler/src/` | `Naming`, `Codegen` |
| Build script, maintenance commands | `grpc-sys/build.rs`, `xtask/src/main.rs` | `BuildScript`, `Xtask`; all programs around the library in `Toolchain` |

How the parts interact:

- Whoever starts an operation **borrows** the completion queue (`add_ref`), hands
  core a tag, and gives the reference back. The queue is shut down in core when
  the last reference is gone.
- The **poll thread** takes an event from core, turns its tag back into a boxed
  `CallTag` and resolves it: a promise gets its result and wakes a task, a
  request slot dispatches a call, a spawn tag polls a future. Then it empties
  the thread's own work queue.
- A **wake** of a spawned task either pushes it onto the work queue (on the poll
  thread) or kicks the queue with a spawn tag (on any other thread).
- A **call** is a set of batches. Both halves of a streaming call share the call
  and the future of its end behind a mutex; each half also owns futures. A batch
  borrows slices and metadata until core is done with it.
- A **server** keeps a fixed number of slots per queue asking core for calls, and
  races all poll threads on one flag when it shuts down.
- **Channels and servers** share the `Environment` through an `Arc`; its last
  owner closes the queues and waits for nobody.

## 2. The modules

`Rundown` is the abstract specification of what a completion queue promises to
those who use it: `Borrow` while it is open, `GiveBack`, `Close` once, and `Shut`
of the resource once, after the close and with no borrow outstanding.
`CompletionQueue` implements it; `Executor` uses it as the queue it kicks.

**CompletionQueue.** `ref_cnt`, the program counter and local `cnt` of every
process, the owners of a clone of the `Arc`, the shutdown calls into core, the
operations pending in core, the poll thread, the destruction. Each load and each
compare-exchange of `add_ref`, `unref` and `shutdown` is a step of its own, weak
exchanges may fail spuriously, and core's shutdown is a step after the count
became 0. An *aborter* starts its batch as `Call::abort` does, after it dropped
the reference that showed the queue to be open.

**Promise.** One tag and the `CqFuture` that shares its `NotifyHandle`. `Resolve`
sets the result and takes the waker under the lock, `Wake` calls it after the
unlock; the future is polled, moved to another task, or dropped in between.

**Executor.** `SpawnTask.state` with its four values, the `UnsafeCell` of the
future, the steps of `poll` and of `wake_by_ref` of every thread, the work queue,
the spawn tags in core and the loop of the poll thread. `Nested` threads stand
for a spawn inside the poll of another future. A kick that a closed queue rejects
drops its tag (`lost`). `due` is a history variable: the tasks woken since their
last poll began.

**Server.** Request slots, the tag each has with core, what each poll thread does
with which slot, the calls in core, their answers in order, the owner's steps
through `start`, `shutdown`, `cancel_all_calls` and `drop`, the flag, and which
queues are still open. A slot's life is: ask core, be matched or failed, wait for
a payload if the method takes a single message, run the handler, load the flag,
ask again. Two uses are told apart by `AwaitShutdown`.

**Environment, Credentials, ChannelBuilder, Channel, ServerSetup, Endpoints.**
`Environment` starts the threads, receives their queues in the order they send
them, deals them in turn and closes them one by one. `Credentials` follows every
string a builder turned into a raw pointer until it is turned back, and every
private key until its bytes are cleared: a key arrives in a buffer with no spare
room, one byte or more, and the allocator may move what it resizes. Google's default
credentials lend none. `ChannelBuilder` keeps the map of options and what becomes of
it as core's arguments; durations are cut to a `c_int`, with `I32Max` and `U64` as
parameters. `Channel` has core's connectivity
changes, deadlines, `wait_for_state_change` and `wait_for_connected` over the
future of `Promise`, calls, and drops. `ServerSetup` has the binders, the build
with a port that fails, registration, start, and the `ServerCore` that slots keep
alive after the `Server` is gone. In `Endpoints` one process makes credentials
and an Environment, is then a client or a server, and lets go of everything in
any order.

**SinkBase, ClientCall, ServerCall.** `SinkBase` is the sink common to both
sides: the message held back while `enhance_batch` is on, its hint, and the batch
in flight. `ClientCall` adds the `StreamingCallSink` and the two receivers,
`ServerCall` the `RequestStream`, the sinks that stream and those that answer
once, `fail` and the drops. A user may close a sink at any moment, also one that
still holds a message back. In both, the halves run in two tasks which sleep and
are woken through the futures they polled; core ends the call, resolves batches
and closes the queue at any moment. A step that releases a lock and goes on is
two steps.

**Rpc.** One call of each of the four kinds from the client's first batch to its
result. Core is modelled by what the wrapper relies on: an operation is accepted
once per call and side (messages: one at a time), batches complete when their
operations do, events are delivered in any order. `event` is what the queue
holds, `fut` what the promise made of it. Batches whose futures nobody looks at
(headers, close, status) stay under way: core then rejects at least as much. The
payload of a unary request may be there, be missing, or not be read at all when the
call is over before. The
paths of a server that abort, refuse, fail, drop and answer a call are separate
actions with the operations they start.

**Slices, ByteReader, Received, Metadata, Status, Message.** `Slices` is a
message on its way out: the slice a sink serialises into and uses again, inline
or in a counted block, and the batches that refer to it. `ByteReader` is
`GrpcByteBufferReader` over a buffer given by its cut points, with `consume` as a
loop whose turns are steps; `Received` adds the references that context, buffer
and reader hold, and their drops. `Metadata` is the builder with its keys, the
growing array, clones, the move into the batch that starts the call, and the flags
of a call and of its messages, of which the write flags go out only with the kinds
of calls that start with their request. `Status`
takes an `RpcStatus` over the paths that send it and back, with `proto`'s
conversion of rich errors. `Message` puts them side by side; a behaviour follows
one of them.

**Health.** For one service name: the map behind the lock of `Inner`, the
`StatusCast` with its version, status and subscribers behind another, setters
between the two locks, watchers that look, register, look again, sleep and leave,
`check` and `shutdown`. `serial` tells callers that take turns from those that do not.

**Worker, Services.** The worker's two handlers with the driver's streams that
close or are lost, the executors of four kinds that `run_client` starts and that
only a closed channel stops, the benchmark server, and the quit. `Services` holds
the health service and the worker, which share nothing.

**Naming, Codegen, BuildScript, Xtask, Toolchain.** `Naming` is `NameSpliter` over
names of which only the classes of characters are kept. `Codegen` is what both
generators write for each service: constants, client functions, the trait and the
bindings, as records; `Rejoined` is what is left of a service's words once
`to_camel_case` has joined them. `BuildScript` is a run of `build.rs` with what cargo
remembers, the CMake cache, the two output directories and the bindings, under
edits, failures and kills. The compiler the script compares the cache with and the
one CMake then uses are two (`Compared`, `Compiler`). `Xtask` is the four commands,
which call the build script and rewrite files in place, with builds of the user's own
between them.

## 3. What the runs check

| run | instance | what it shows |
|---|---|---|
| `completion_queue` | 2 users (one aborts), 2 closers, 2 pending operations; 38,675 states | the count is exact (`CountsReferences`), core's queue is destroyed drained and after its poll thread ended (`DestroyedDrained`), the code implements `Rundown` (`ImplementsRundown`), the poll thread ends (`PollThreadStops`) |
| `executor` | 2 tasks, poll thread, one nested poll, one other thread, 2 wakes; 216,896 states | the panics of `poll` are unreachable (`NoPanic`), a future runs on one thread at a time (`HandleExclusive`), a woken task is polled (`WokenIsPolled`) |
| `endpoints` | 2 poll threads, 1 channel, 2 tasks, 2 binders, 2 certificates; 122,154 states | what was set is what core is given (`ArgsMatchSetters`), strings lent to core come back and keys are cleared, with two exceptions (`SecretsReclaimed`, section 6), a live user finds its queue open (`UsersHaveQueues`), a server is built whole or not at all and outlives its slots (`ServerWhole`), waits answer truly and end (`WaitAnswersTruly`, `WaitEnds`), the teardown ends (`TeardownEnds`) |
| `server` | 2 queues, a slot each, a unary call and one of an unknown method; 110,103 states | no slot is lost, a registry is used on its own thread, no call is answered twice (`SlotsConserved`), core's server is destroyed after its shutdown (`DestroyedAfterShutdown`), the drop returns (`DropCompletes`) |
| `client_call` | 2 messages out, 1 in, duplex and client streaming; 481,050 states | accepted messages are on the wire, held or reported lost, at most one of them after the end was seen (`AcceptedAccounted`); a stream that ends well is complete (`StreamComplete`); no panic (`NoPanic`); the end reaches both halves (`EndIsSeen`) |
| `server_call` | 2 messages out, 1 in; 383,488 states | initial metadata goes out once (`MetadataOnce`), a close sends the status behind every accepted message but one held back, and ends after the call (`ClosedComplete`), the end reaches both halves (`EndIsSeen`) |
| `rpc` | 2 messages (1 each way in duplex calls), four kinds; 163,556 states | core accepts every batch (`CoreAccepts`), a success at the client is the handler's, with all its messages (`ResultIsAnswer`), the end reaches the client (`EndReachesClient`) |
| `message` | buffers of up to 3 slices of 1 to 3 bytes, also with empty ones at the end; slices of 4 lengths around `INLINED_SIZE`; 18 keys; 3 codes; 1,201,781 states | bytes in flight are not written over and no block leaks (`InFlightIntact`), the reader shows the next bytes (`ShowsNextBytes`) of a slice it holds (`SlicesOwned`) and its calls return (`CallsReturn`), headers are kept through every move and the flags asked for last go out (`HeadersKept`), the client sees the server's status (`StatusArrives`) |
| `services` | 2 setters, 2 watchers, 2 casts, 3 updates; a worker with 2 executors of each kind; 388,580 states | `watch` agrees with `check` when callers take turns (`CastAgreesWithMap`), a watcher catches up (`WatcherCatchesUp`), a worker asked to quit stops (`WorkerStops`) |
| `toolchain` | names of up to 5 characters; files of up to 2 services and 2 methods; 4 targets; 2 compilers; 1 edit of each source; 2,532,723 states | names are split into their words (`NamesSplit`), client and server stubs meet, for both generators alike (`StubsAgree`), what cargo calls built is current (`BuildIsCurrent`), a command run again repairs an interrupted one (`RerunRepairs`) |

Two runs show a disagreement between the code and what a comment says of it:

- `server_drop`: a `Server` dropped after `shutdown()` whose future was not
  awaited does not wait; core's server can be destroyed during its shutdown,
  which the comment at `src/server.rs:627` says must not happen.
- `health_shutdown`: a `set_serving_status` that left the first lock before
  `shutdown` broadcasts after it, and watchers are shown its status for good;
  the documentation at `health/src/service.rs:150` says later changes are
  ignored.

Every property of a passing run has a *mutant*: a definition with a plausible bug
(a dropped guard, a missing reset, a swapped order), written before the correct
one in the module, under which TLC finds the property violated.

### Bounds, and why they are enough

Two tasks, two queues, two users are the least for which processes interfere.
Two wakes let one fall into the poll the other caused. `MaxOut` = 2 lets one
message be held while another goes out. Three updates let a watcher be
overtaken. Three connectivity changes let a channel become ready and fall back
between two looks. Slices of one to three bytes with skips up to ten cover a stop
inside a slice, at its end and past the buffer. `PerSec`, `U64` and `I32Max` are
scaled down so that one duration just fits a `c_int` and another just does not; none
overflows the `u64`. Names of five characters have
every context `NameSpliter` looks at, twice. The pairs of services have words of
their own, share them (`S.bar_m`, `SBar.m`), or differ in their paths only (`A_B`,
`AB`). One edit per source is enough for a build to be stale, and two directories let
it be so in one and not in the other; builds between two commands are made in one of
them, with bindings. What is proved
(section 5) holds without these bounds. All counters that the code does not bound
(`MaxPending`, `MaxWakes`, `MaxUpdates`, `MaxOut`, `MaxIn`, `MaxMsgs`, `MaxSets`,
`MaxCerts`, `MaxChanges`, `MaxCalls`, `MaxBinders`, `MaxMade`, `MaxEntries`,
`MaxMarks`, `MaxRev`) are bounded in guards. No symmetry is used, as
most runs check liveness.

`message`, `services`, `toolchain` and `health_shutdown` do without the deadlock
check: messages are read to their end, generators finish, users need not act. In
the other modules a finished system stutters in an explicit step whose guard says
what finished means.

`Message`, `Services` and `Toolchain` hold parts that share no state, and a
behaviour moves one of them (`part`); the others keep an initial state. This adds
the parts' state spaces instead of multiplying them and loses no behaviour of a
part.

## 4. Fairness

- A thread inside a function of the crate goes on (weak fairness of its steps).
  A compare-exchange loop needs strong fairness of the successful exchange: a
  weak exchange does not fail for ever, and each failure that is not spurious is
  the progress of another thread.
- Poll threads run, and core delivers events that are on its queue: weak
  fairness for the poll loop, strong fairness for the choice of one of several
  waiting events.
- Core completes operations: always for actions that need no peer, and for
  batches of a call once that call is over. A deadline passes, and a watch that is
  due ends. Nothing is assumed of the peer, of the handler or of the users: they
  may stop.
- A task that is awake is polled; in `Endpoints` strongly fair, as the future may
  be passed from task to task meanwhile.
- `Executor` assumes that user code does not wake itself for ever, `Server` that
  a handler returns and that the flag, loaded with Relaxed ordering, is
  eventually seen.
- `Worker` assumes that a benchmark call ends in one way or another and that the
  driver leaves the streams it opened; not in which way, nor that it quits.

## 5. What is proved

All theorems hold for every value of the constants that satisfies the named
assumptions (finiteness of users and threads, distinct model values, natural
bounds). Each proof follows the same argument: an inductive invariant, checked by
TLC first, one lemma per action or group of actions, one step per conjunct that
the action can disturb. What follows says for each module what had to be added to
the property to make it inductive, and why.

**CompletionQueueProofs.** `IInv` is the type, the exact count, the one finisher,
the ownership and the drained exit. `CountsReferences` alone is not inductive: a
shutdown needs to know that the process which brought the count to 0 is the one
about to call core (`CoreShutdownOnce`), and the destruction needs the poll
thread's clone (`Ownership`). From it follow `TypeCorrect`, `CountIsExact`,
`ShutdownOnce`, `RefProtectsQueue`, `DestroyAfterDrain` and `Refinement`: the initial state maps to `Rundown`'s, and every step maps to a
`Rundown` step or a stutter. The count is treated as a cardinality, with the
library's theorems on finite sets.

**ServerProofs.** For the server, `IInv` is `TypeOK /\ Hands /\ Given /\ Served`: in
whose hands each slot is, that only the flag or a closed queue makes a thread give
one up, and that a call not answered yet is with one slot. `SlotsKept` follows.
`DestroyedLate` needs `Awaited` beside it: the owner that drops the server after
it awaited the shutdown knows that core has reported it. The theorem has
`AwaitShutdown` as a hypothesis; without it the property is false (`server_drop`).
For the health service: `WatchAgreesWithCheck`, `UpdateKept` and `OneCast`, for
any setters, watchers, casts and statuses. That `watch` agrees with `check` is not
inductive: a setter between the locks must be the only one (`InTurns`), and its
cast must still be the one the map holds, though casts are removed with their
last watcher and made anew (`SharedCast`). `UpdateKept` needs no turns: a watcher
that sleeps has seen the state of its cast and is registered there.

**ClientCallProofs.** `ClientInv` describes the two halves of a streaming call
together: the future of its end and what each half knows of it (`ShareInv`), the
messages of the server as the concatenation of those returned, those held by a
resolved future and those in core (`StreamInv`), what the sending task may still do
(`TaskInv`), that at most one message was accepted after the end was there to be
seen (`LateInv`), and what the sink holds or has in flight (`SinkInv`). From it
follow `StreamEndsComplete` and `AcceptedKept`. `HalvesNeverPanic` adds `PlainInv`
and has as hypothesis that `enhance_batch` is not switched while messages are
held (section 6).

**ServerCallProofs.** `CallInv` is `Shapes /\ SinkInv /\ StatusInv /\ EndInv /\
PollInv`, for any number of messages and for sinks that stream and that answer
once. `MetadataOnce` counts the batches that carry the initial metadata. To
know that a further batch will not, the proof needs that nothing is in flight
or counted before the metadata are out, and that a status once started ends all
sending (`SinkInv`, `StatusInv`). `ClosedComplete` needs that the futures of the
status and of the end tell what core did (`EndInv`), and the books of the sink
(`BooksInv`, `SinkKeepsBooks`): what was accepted is on the wire, in order, or held
back, as long as no error has ended the sink. From it: `MetadataGoesOnce`,
`CloseIsComplete`, and `HandlerSinkNeverPanics` for a handler that sets
`enhance_batch` before its first message, as the model's does.

**RpcProofs**, first on `Executor`, then on `Rpc`. For the executor, `TaskInv` says
who may run a future (`Owners`), that a future lives until COMPLETED (`Lives`), and
where the one notification of a NOTIFIED task is: with a waking thread, in the work queue, in core or lost to a closed queue
(`Tokens`, `NotDoubled`, `Accounted`). It gives `TaskTypeCorrect`, `PanicFree`,
`Exclusive`, `NoLostWake`, `NoWakeSwallowed`, `NoDoubleSchedule` and `DropOnce`.
`Accounted` alone is not inductive, since a poll that starts needs to know that no
second notification of its task is under way.

For a call: `NeverRejected` (`CoreAccepts`) and `TrueResult` (`ResultIsAnswer`),
for all four kinds of calls and any number of messages. That core accepts a batch
rests on the futures: a batch is started only when the future of the one before
has resolved. `IInv` therefore ties batches to events and futures (`Tagged`), each
operation under way to one batch (`CoreSound`), and says which operations each
side may still start (`ClientFree`, `ServerFree`, `MetaFree`). For the result,
`Answered` relates status and messages to the handler, and `Known` says that what
waits in an event or a future is true of them.

**EndpointsProofs.** `WakeupKept` and `DeliveryOnce` of `Promise`: both become
inductive once the tag's state is tied to what it left behind (reported, the waker
in hand). `QueuesOpen` from `ArcInv`: who may use a queue holds the Environment.
`NothingLeaks` from `CredInv`: which strings are raw in which state of a builder, and
that no step frees a key but by one of the two exceptions.
`StartedWhole` from `EnvInv`, that the Environment has each thread's queue once,
and `SetupInv`, what is bound and registered at each point of the build; that
every queue is registered combines the two. `WaitsAnswerTruly` is an action
property: `WaitInv` and `AnswerInv` say that a wait refers to a live channel and
that core reports "not changed" only past the deadline. `SettersTold`
(`ArgsMatchSetters`) is proved from `BuilderInv`: an option is in the map when some
setter was called for it, with what the last of these calls was given, converted; the
user agent is there from the moment the arguments are made. It has a hypothesis,
`NoOverflow`: no duration given to a setter overflows the `u64` of `dur_to_ms`
(`src/channel.rs:45`), where the code would panic or wrap, by the build. That no two
setters share a name is read off the table of setters, pair by pair.

**MessageProofs.** `ReaderCorrect` and `ReaderTyped`, for buffers of any number and
length of slices in which no empty slice comes before data (`BuffersAssumption`):
the invariant ties slice, offset and remaining length to one position in the
message, also in the middle of a `consume`. `SlicesHeld` and `ReceivedReads`
(`ReceivedInv`): the reader's current slice is the one it counts a reference for,
and context and reader never hold the buffer at the same time. `InFlight`
(`SliceInv`): a block counts those that hold it, as a cardinality, so a slice with
a single holder may be written. `HeadersArrive` (`MetaInv`): each array holds
nothing or all accepted entries, normalised, and the entries alive are those in
the arrays; the bits of the flags are the ones asked for last (`FlagsInv`), whatever
order the setters were called in. `StatusRoundTrip` (`StatusInv`): what is on the wire is made of the
status by the path that sent it, and the search for the details among the trailing
metadata finds them. `MessageInductive` puts them together.

**ToolchainProofs.** The programs around the library, for any compilers, target
directories, features, proto files, lengths of names, edits, failures and kills.

- `BuildsAreCurrent` (`BuildIsCurrent`) from `BuildInv`. What a directory holds is
  current *unless touched*, which says nothing about a run that cargo skips. `DirInv`
  adds what makes skipping right: a run that cargo remembers has named every variable
  and file that it depended on, was given the environment cargo remembers, and, when it
  wrote bindings, has touched them after it named them. `JobInv` says what each stage
  of a running script has achieved, and that a directory in work counts as never built,
  so that a kill at any stage leaves nothing that is taken for finished.
- `CommandsRepair` (`RerunRepairs`) from `CommandInv` beside `BuildInv`. `bindgen`
  reads what its build has left, so `BindgenInv` needs that a build during the command
  is its own, in the directory of the host tuple with the variable for updating
  bindings set, that cargo never finds it fresh, and what is held in memory while a file is empty.
  `CodegenInv` says what each stage of `codegen` has made when no child failed. The
  five replacements of the patch are carried out on the five names, in order.
- `NamesAreSplit` (`NamesSplit`) from `SplitInv`: the parts so far are the words of
  what lies before the position, and the position is the end, an underscore or the
  beginning of a word. The step is a lemma about one part (`PassesOn`: capitals and then
  others, one capital when there are others), so that no induction over the name is
  needed: the steps of the splitter are the induction.
- `StubsAlwaysAgree` (`StubsAgree`) from `GenInv`: what a generator has written is
  the stub of every service it has passed (`Built`). The two generators write it in
  different ways, and `PluginClient`, `ProstClient`, `ConstsAgree` and `ServersAgree`
  show that the results are one. The rest is about finished stubs, with names as
  sequences of words: names that do not clash stay apart in constants (`ConstUnique`)
  and in functions with their suffixes (`FnUnique`), so that a call by name reaches one
  function (`CalledIs`), a constant is defined and bound once (`DefinedOnce`,
  `BoundOnce`), and the kinds agree (`ReachesIt`).

### Only model-checked

All liveness properties (`PollThreadStops`, `WokenIsPolled`, `WaitEnds`,
`TeardownEnds`, `DropCompletes`, both `EndIsSeen`, `EndReachesClient`, `CallsReturn`,
`WatcherCatchesUp`, `WorkerStops`): fairness and ENABLED are out of the prover's
reach. Every invariant and every action property of a passing run is also a theorem,
`ArgsMatchSetters`, `DestroyedAfterShutdown` and `NoPanic` of `ClientCall` under the
hypotheses given above. The strings of names are sequences of words in `Codegen` and
classes of characters in `Naming`; what `to_lowercase` and `to_uppercase` make of
them is in neither.

## 6. Observations without a run

What the models make visible, and no line of the repository contradicts or no
property forbids.

Queues, tasks and the server:

- `Call::abort` starts its batch after it dropped its reference to the queue
  (`src/call/mod.rs:439`), so the start may follow the queue's shutdown.
- `spawn` polls the future on the caller's thread first (`src/task/executor.rs:254`).
- A kick that a closed queue rejects drops its tag and leaves its task NOTIFIED
  for ever; the comment at `src/task/executor.rs:158` expects the tag to be
  "notified eventually". `WokenIsPolled` therefore speaks of an open queue.
- `build` of a server leaves with `?` when a queue cannot be borrowed, after core's
  server was created. With the `Environment` alive this does not happen.
- `wait_for_state_change` on a closed queue returns without freeing the tag it
  made. A channel keeps its queue open (`UsersHaveQueues`), so this is not met.

Calls:

- Switching `enhance_batch` off while a message is held makes the next
  `start_send` fail the assertion at `src/call/mod.rs:782`, although a ready
  `poll_ready` went before. `ClientCall` has the switch (`Toggle`); the run fixes
  it for the life of a sink, and `HalvesNeverPanic` is about such sinks. The
  handler of `ServerCall` sets it before its first message.
- Closing a sink while it holds a message back ends the stream without that
  message, on either side (`src/call/client.rs:396`, `src/call/server.rs:530`); a
  flush before the close avoids it. The models close at any moment, and
  `ClosedComplete` and `AcceptedAccounted` say that this one message is the only one.
- A server's `fail()` with an OK status would give the client an OK status
  without a message, and the client's unwrap would panic (`ClResponse` has the
  panic). `Rpc` is about handlers whose `fail` gives an error status; the types do
  not enforce it.
- `abort` sends no details of a status, and an OK status arrives without message
  and details. `StatusArrives` says so.
- An empty slice before data would stall the message reader; core sends none. Empty
  slices at the end are modelled, and do no harm.
- A blocking `unary_call` on a poll thread waits for an event of its own queue.

Channel and credentials:

- A second `cert()` drops the first pair's key without clearing it
  (`src/security/credentials.rs:268`); `SecretsReclaimed` excepts that key.
- A key in a buffer with more room than it needs is shrunk by `CString::new`; where
  the allocator moves it, the old buffer is freed as it is. `SecretsReclaimed` excepts
  this too. A PEM string with a NUL in it makes the builder panic; the models' have
  none.
- `dur_to_ms` (`src/channel.rs:45`) sums up in a `u64`, which wraps (or panics, with
  overflow checks) for durations near its limit, before it is cut to a `c_int`.

Programs around the library:

- Both generators panic on a service without methods, and `to_camel_case` on a
  name that ends in an underscore (`StubsAgree`, `NamesSplit` say where).
- Names that differ in the proto may be one in Rust: the constants of `Foo.BarBaz`
  and `FooBar.Baz` or of services `A_B` and `AB`, a method `get_opt` beside `get`, methods called `new` or
  `spawn`. `StubsAgree` is about files without such a clash.
- `build.rs` reads `CMAKE_TARGET_OVERRIDE` and `CMAKE_PREFIX_PATH` without telling
  cargo. A compiler given by name and cached by path costs a needless full build.
- `exec` of xtask does not look at the exit status of its child
  (`xtask/src/main.rs:33`). A kill while `bindgen` rewrites the bindings of the
  *other* architecture leaves that file truncated, and running the command again
  does not make it anew: it is only filtered. `RerunRepairs` speaks of the file
  the command's own build writes.
- `run_client` of the benchmark worker does not stop its executors when its
  stream fails; they go on, and can hold up the benchmark server's shutdown
  (`Untold` in `Worker`). A configuration it does not support, or a port it
  cannot bind, panics on a poll thread. `timeval_to_seconds` multiplies
  microseconds by 10e-6.

## 7. What is left out of the modelled parts

Memory ordering weaker than sequential consistency, except that the server's
flag may be seen late. The contents of messages. Deadlines of calls, which are
one more way for core to end a call. `Rpc` keeps its queues open; calls on a
queue that closes are in `ClientCall`, `ServerCall`, `Server` and `Channel`. The
accessors of batch and request contexts, which only read. The formatting of
errors. In the generators, layout, imports, the types of messages, and prost-build's
own rules for digits and keywords in names. In the build script, the flags and libraries of macOS, iOS and Windows.
In the worker, the figures it reports (histogram, CPU time).

## 8. Not modelled

- `grpc-sys/bindings` and `proto`'s generated messages: generated declarations
  without behaviour of their own. gRPC core is outside the repository and appears
  only as what the wrapper relies on.
- `src/auth_context.rs`: iterators over what core holds. `src/codec.rs`: calls into
  the protobuf libraries. `src/quota.rs`, `src/log_util.rs`: set a value in core,
  forward its log lines.
- `interop`, `tests-and-examples`: programs that use the crate. They
  were read as descriptions of how it is meant to be used.
