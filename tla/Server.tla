--------------------------------- MODULE Server ---------------------------------
(***************************************************************************)
(* A server's request slots and its shutdown. Every completion queue gets  *)
(* a fixed number of slots (server.rs, start): a slot is a clone of a      *)
(* RequestCallContext that asks core for one new call (request_call), is   *)
(* woken on its queue's poll thread when the call is there                 *)
(* (task/callback.rs), waits for the payload if the method takes a single  *)
(* message, runs the handler on the poll thread (call/server.rs), and asks *)
(* again. The owner of the Server shuts it down and drops it on a thread   *)
(* of its own, racing all poll threads on the shutdown flag.               *)
(***************************************************************************)
EXTENDS Naturals, FiniteSets, Sequences

CONSTANTS
  Cqs,            \* the Environment's completion queues
  First,          \* completion_queues()[0]
  Slots,          \* the request slots of all queues
  SlotCq,         \* the queue whose registry a slot's context holds
  Calls,          \* the calls clients make
  Kind,           \* of a call: "stream", "unary" or "unknown" method
  AwaitShutdown,  \* the owner awaits its ShutdownFuture before the drop
  None

ASSUME QueuesAssumption == First \in Cqs /\ SlotCq \in [Slots -> Cqs]
ASSUME KindAssumption == Kind \in [Calls -> {"stream", "unary", "unknown"}]
ASSUME UsageAssumption == AwaitShutdown \in BOOLEAN
ASSUME NoneAssumption == None \notin Slots \cup Calls

VARIABLES
  slot,      \* where a slot's context is
  tagCq,     \* the queue a slot's tag was registered with
  taken,     \* the call a slot was given
  loop,      \* what a poll thread is doing, and with which slot
  call,      \* the life of a call in core
  answers,   \* how the server answered a call, in order of occurrence
  owner,     \* the step the owner of the Server is at
  flag,      \* ServerCore.shutdown
  coreShut,  \* grpc_server_shutdown_and_notify was called
  notified,  \* its tag: with core, on the queue, delivered
  open       \* the queues that can be borrowed

vars == <<slot, tagCq, taken, loop, call, answers, owner, flag, coreShut,
          notified, open>>

(* "core" is a request core has not answered; "failed", "matched" and the  *)
(* results of recv_message ("payload", "empty", "broken") are completions  *)
(* on the queue; "recv" waits for the payload; "thread" is a local of the  *)
(* poll thread.                                                            *)
SlotStates == {"new", "core", "failed", "matched", "recv", "payload", "empty",
               "broken", "thread", "gone"}
LoopStates == {"next", "execute", "load", "issue"}
CallStates == {"none", "incoming", "taken", "over"}
OwnerStates == {"built", "starting", "serving", "storing", "shutdown", "dropStoring",
                "cancelWait", "cancel", "waiting", "released", "panicked"}
Answers == {"handler", "unimplemented", "aborted", "dropped"}
Idle == [at |-> "next", slot |-> None]

(* A built server: bound, its queues registered, nothing requested yet.    *)
Init ==
  /\ slot = [s \in Slots |-> "new"]
  /\ tagCq = [s \in Slots |-> None]
  /\ taken = [s \in Slots |-> None]
  /\ loop = [q \in Cqs |-> Idle]
  /\ call = [c \in Calls |-> "none"]
  /\ answers = [c \in Calls |-> <<>>]
  /\ owner = "built"
  /\ flag = FALSE /\ coreShut = FALSE /\ notified = "no"
  /\ open = Cqs

CallsSame == UNCHANGED <<call, answers>>
OwnerSame == UNCHANGED <<owner, flag, coreShut, notified, open>>

-----------------------------------------------------------------------------
(* gRPC core. A request on a server that was shut down fails at once.      *)
Request(s, q) ==
  /\ slot' = [slot EXCEPT ![s] = IF coreShut THEN "failed" ELSE "core"]
  /\ tagCq' = [tagCq EXCEPT ![s] = q]
  /\ taken' = [taken EXCEPT ![s] = None]

Arrive(c) ==
  /\ call[c] = "none" /\ ~coreShut
  /\ owner \notin {"built"}
  /\ call' = [call EXCEPT ![c] = "incoming"]
  /\ UNCHANGED <<slot, tagCq, taken, loop, answers>> /\ OwnerSame

Match(c, s) ==
  /\ call[c] = "incoming" /\ slot[s] = "core"
  /\ call' = [call EXCEPT ![c] = "taken"]
  /\ slot' = [slot EXCEPT ![s] = "matched"]
  /\ taken' = [taken EXCEPT ![s] = c]
  /\ UNCHANGED <<tagCq, loop, answers>> /\ OwnerSame

(* recv_message completes: with the payload, without one because the       *)
(* client closed its side, or as a failure because the call is over.       *)
Received(s) ==
  /\ slot[s] = "recv"
  /\ \E r \in {"payload", "empty", "broken"} :
       /\ r = "payload" => call[taken[s]] # "over"
       /\ r = "broken" => call[taken[s]] = "over"
       /\ slot' = [slot EXCEPT ![s] = r]
  /\ UNCHANGED <<tagCq, taken, loop>> /\ CallsSame /\ OwnerSame

(* The call ends: answered, cancelled by either side, or out of time.      *)
CallOver(c) ==
  /\ call[c] \in {"incoming", "taken"}
  /\ call' = [call EXCEPT ![c] = "over"]
  /\ UNCHANGED <<slot, tagCq, taken, loop, answers>> /\ OwnerSame

(* A server that was shut down reports so when no call is alive.           *)
ShutdownComplete ==
  /\ notified = "core"
  /\ \A c \in Calls : call[c] \in {"none", "over"}
  /\ notified' = "queued"
  /\ UNCHANGED <<slot, tagCq, taken, loop, owner, flag, coreShut, open>> /\ CallsSame

-----------------------------------------------------------------------------
(* The poll thread of queue q takes a completion of slot s: Request::      *)
(* resolve for "failed" and "matched", UnaryRequest::resolve for the rest. *)
NextTag(q, s, from) ==
  /\ loop[q] = Idle
  /\ slot[s] = from /\ tagCq[s] = q

Busy(q, s, at) ==
  /\ slot' = [slot EXCEPT ![s] = "thread"]
  /\ loop' = [loop EXCEPT ![q] = [at |-> at, slot |-> s]]

Answer(c, a) == answers' = [answers EXCEPT ![c] = Append(@, a)]

(* Mutant: a failed request is not made again.                             *)
ResolveFailedDrops(q, s) ==
  /\ NextTag(q, s, "failed") \/ NextTag(q, s, "broken")
  /\ slot' = [slot EXCEPT ![s] = "gone"]
  /\ UNCHANGED <<tagCq, taken, loop>> /\ CallsSame /\ OwnerSame

(* Not a success: the slot goes straight back to request_call.             *)
ResolveFailed(q, s) ==
  /\ NextTag(q, s, "failed") \/ NextTag(q, s, "broken")
  /\ Busy(q, s, "load")
  /\ UNCHANGED <<tagCq, taken>> /\ CallsSame /\ OwnerSame

(* handle_stream_req: a streaming or unknown method is executed now.       *)
ResolveStream(q, s) ==
  /\ NextTag(q, s, "matched")
  /\ Kind[taken[s]] # "unary"
  /\ Busy(q, s, "execute")
  /\ UNCHANGED <<tagCq, taken>> /\ CallsSame /\ OwnerSame

(* handle_unary_req: fetch the message first; the slot stays with the tag. *)
ResolveUnary(q, s) ==
  /\ NextTag(q, s, "matched")
  /\ Kind[taken[s]] = "unary"
  /\ slot' = [slot EXCEPT ![s] = "recv"]
  /\ UNCHANGED <<tagCq, taken, loop>> /\ CallsSame /\ OwnerSame

ResolvePayload(q, s) ==
  /\ NextTag(q, s, "payload")
  /\ Busy(q, s, "execute")
  /\ UNCHANGED <<tagCq, taken>> /\ CallsSame /\ OwnerSame

(* UnaryRequestContext::handle without a reader: "No payload".             *)
ResolveEmpty(q, s) ==
  /\ NextTag(q, s, "empty")
  /\ Busy(q, s, "load")
  /\ Answer(taken[s], IF q \in open THEN "aborted" ELSE "dropped")
  /\ UNCHANGED <<tagCq, taken, call>> /\ OwnerSame

(* execute: a checker may abort the call; a queue that is shutting down    *)
(* makes accept_call! return; a message that cannot be decoded aborts the  *)
(* call; else the handler runs, or UNIMPLEMENTED is sent.                  *)
Outcomes(q, c) ==
  IF Kind[c] = "unknown"
  THEN IF q \in open THEN {"unimplemented"} ELSE {"dropped"}
  ELSE IF q \in open THEN {"handler", "aborted"} ELSE {"dropped"}

Execute(q) ==
  LET s == loop[q].slot IN
  /\ loop[q].at = "execute"
  /\ \E a \in Outcomes(q, taken[s]) : Answer(taken[s], a)
  /\ loop' = [loop EXCEPT ![q].at = "load"]
  /\ UNCHANGED <<slot, tagCq, taken, call>> /\ OwnerSame

Retire(q) ==
  /\ slot' = [slot EXCEPT ![loop[q].slot] = "gone"]
  /\ loop' = [loop EXCEPT ![q] = Idle]

(* request_call loads the flag with Ordering::Relaxed: a load after the    *)
(* store may still miss it.                                                *)
LoadSet(q) ==
  /\ loop[q].at = "load" /\ flag
  /\ Retire(q)
  /\ UNCHANGED <<tagCq, taken>> /\ CallsSame /\ OwnerSame

LoadUnset(q) ==
  /\ loop[q].at = "load"
  /\ loop' = [loop EXCEPT ![q].at = "issue"]
  /\ UNCHANGED <<slot, tagCq, taken>> /\ CallsSame /\ OwnerSame

(* The queue is borrowed and the request made, or the slot is given up.    *)
Issue(q) ==
  LET s == loop[q].slot IN
  /\ loop[q].at = "issue" /\ q \in open
  /\ Request(s, q)
  /\ loop' = [loop EXCEPT ![q] = Idle]
  /\ CallsSame /\ OwnerSame

IssueClosed(q) ==
  /\ loop[q].at = "issue" /\ q \notin open
  /\ Retire(q)
  /\ UNCHANGED <<tagCq, taken>> /\ CallsSame /\ OwnerSame

(* The tag of the shutdown, always on the first queue: Action::resolve.    *)
ResolveShutdown ==
  /\ loop[First] = Idle /\ notified = "queued"
  /\ notified' = "done"
  /\ UNCHANGED <<slot, tagCq, taken, loop, owner, flag, coreShut, open>> /\ CallsSame

-----------------------------------------------------------------------------
(* The owner. Server::start: one request_call for every slot.              *)
Step(from, to) == owner = from /\ owner' = to

Start ==
  /\ Step("built", "starting")
  /\ UNCHANGED <<slot, tagCq, taken, loop, flag, coreShut, notified, open>> /\ CallsSame

StartSlot(s) ==
  /\ owner = "starting" /\ slot[s] = "new"
  /\ IF SlotCq[s] \in open
     THEN Request(s, SlotCq[s])
     ELSE slot' = [slot EXCEPT ![s] = "gone"] /\ UNCHANGED <<tagCq, taken>>
  /\ UNCHANGED loop /\ CallsSame /\ OwnerSame

Started ==
  /\ Step("starting", "serving")
  /\ \A s \in Slots : slot[s] # "new"
  /\ UNCHANGED <<slot, tagCq, taken, loop, flag, coreShut, notified, open>> /\ CallsSame

(* Server::shutdown: core first, which fails all unanswered requests, then *)
(* the flag. Called by the owner, or by the drop when the flag is not set. *)
ShutdownFrom == {"built", "serving"}
ShutdownAndNotify ==
  /\ First \in open
  /\ owner \in ShutdownFrom
  /\ owner' \in {"storing", "dropStoring"}
  /\ coreShut' = TRUE /\ notified' = "core"
  /\ slot' = [s \in Slots |-> IF slot[s] = "core" THEN "failed" ELSE slot[s]]
  /\ call' = [c \in Calls |-> IF call[c] = "incoming" THEN "over" ELSE call[c]]
  /\ UNCHANGED <<tagCq, taken, loop, answers, flag, open>>

(* borrow().unwrap() on a queue that was shut down.                        *)
ShutdownPanic ==
  /\ First \notin open
  /\ owner \in ShutdownFrom
  /\ owner' = "panicked"
  /\ UNCHANGED <<slot, tagCq, taken, loop, flag, coreShut, notified, open>> /\ CallsSame

(* Mutant: shutdown leaves the flag to the drop.                           *)
StoreFlagNever ==
  /\ Step("storing", "shutdown") \/ Step("dropStoring", "cancelWait")
  /\ UNCHANGED <<slot, tagCq, taken, loop, flag, coreShut, notified, open>> /\ CallsSame

StoreFlag ==
  /\ Step("storing", "shutdown") \/ Step("dropStoring", "cancelWait")
  /\ flag' = TRUE
  /\ UNCHANGED <<slot, tagCq, taken, loop, coreShut, notified, open>> /\ CallsSame

(* Server::drop of a server that was shut down before.                     *)
DropAfterShutdown ==
  /\ Step("shutdown", "cancel")
  /\ AwaitShutdown => notified = "done"
  /\ UNCHANGED <<slot, tagCq, taken, loop, flag, coreShut, notified, open>> /\ CallsSame

(* Mutant: the drop does not block.                                        *)
CancelNoBlock ==
  /\ owner \in {"cancelWait", "cancel"} /\ owner' = "released"
  /\ call' = [c \in Calls |-> IF call[c] = "taken" THEN "over" ELSE call[c]]
  /\ UNCHANGED <<slot, tagCq, taken, loop, answers, flag, coreShut, notified, open>>

(* cancel_all_calls; then block_on the future, if this drop made it.       *)
Cancel ==
  /\ Step("cancelWait", "waiting") \/ Step("cancel", "released")
  /\ call' = [c \in Calls |-> IF call[c] = "taken" THEN "over" ELSE call[c]]
  /\ UNCHANGED <<slot, tagCq, taken, loop, answers, flag, coreShut, notified, open>>

Unblock ==
  /\ Step("waiting", "released")
  /\ notified = "done"
  /\ UNCHANGED <<slot, tagCq, taken, loop, flag, coreShut, notified, open>> /\ CallsSame

(* The queues close when the Environment is dropped, which the Server's    *)
(* Arc prevents until it is gone, or when somebody calls shutdown on one   *)
(* of Environment::completion_queues, at any time.                         *)
CloseQueue(q) ==
  /\ q \in open
  /\ open' = open \ {q}
  /\ UNCHANGED <<slot, tagCq, taken, loop, owner, flag, coreShut, notified>> /\ CallsSame

(* ServerCore's Arc is held by the Server and by every slot's context.     *)
CoreRefs == {s \in Slots : slot[s] \notin {"new", "gone"}}
Destroyed == owner = "released" /\ CoreRefs = {}

Terminated == (Destroyed \/ owner = "panicked") /\ UNCHANGED vars

PollThread(q) ==
  \/ \E s \in Slots :
       \/ ResolveFailed(q, s) \/ ResolveStream(q, s) \/ ResolveUnary(q, s)
       \/ ResolvePayload(q, s) \/ ResolveEmpty(q, s)
  \/ Execute(q)
  \/ LoadSet(q) \/ LoadUnset(q)
  \/ Issue(q) \/ IssueClosed(q)
  \/ q = First /\ ResolveShutdown

OwnerNext ==
  \/ Start \/ (\E s \in Slots : StartSlot(s)) \/ Started
  \/ ShutdownAndNotify \/ ShutdownPanic \/ StoreFlag
  \/ DropAfterShutdown \/ Cancel \/ Unblock

Core ==
  \/ \E c \in Calls : Arrive(c) \/ CallOver(c) \/ \E s \in Slots : Match(c, s)
  \/ \E s \in Slots : Received(s)
  \/ ShutdownComplete

Next ==
  \/ \E q \in Cqs : PollThread(q) \/ CloseQueue(q)
  \/ OwnerNext
  \/ Core
  \/ Terminated

Spec == Init /\ [][Next]_vars

(* Poll threads run, handlers return, and a store becomes visible to the   *)
(* loads that are repeated; core answers what it owes; clients end their   *)
(* calls or send what the method asks for, the deadline of a call at the   *)
(* latest. The owner finishes what it has begun.                           *)
Fairness ==
  /\ \A q \in Cqs : WF_vars(PollThread(q)) /\ SF_vars(LoadSet(q))
  /\ WF_vars(ResolveShutdown)
  /\ \A s \in Slots : LET q == SlotCq[s] IN
       SF_vars(ResolveFailed(q, s) \/ ResolveStream(q, s) \/ ResolveUnary(q, s)
               \/ ResolvePayload(q, s) \/ ResolveEmpty(q, s))
  /\ \A s \in Slots : WF_vars(Received(s)) /\ WF_vars(StartSlot(s))
  /\ \A c \in Calls : WF_vars(\E s \in Slots : Match(c, s))
  /\ WF_vars(ShutdownComplete)
  /\ WF_vars(Started) /\ WF_vars(StoreFlag) /\ WF_vars(Cancel) /\ WF_vars(Unblock)

FairSpec == Spec /\ Fairness

-----------------------------------------------------------------------------
TypeOK ==
  /\ slot \in [Slots -> SlotStates]
  /\ tagCq \in [Slots -> Cqs \cup {None}]
  /\ taken \in [Slots -> Calls \cup {None}]
  /\ loop \in [Cqs -> [at : LoopStates, slot : Slots \cup {None}]]
  /\ call \in [Calls -> CallStates]
  /\ answers \in [Calls -> Seq(Answers)]
  /\ owner \in OwnerStates
  /\ flag \in BOOLEAN /\ coreShut \in BOOLEAN
  /\ notified \in {"no", "core", "queued", "done"}
  /\ open \subseteq Cqs

(* A slot is never lost while the server serves: its context is with core, *)
(* in a tag on its queue, or in the hands of the poll thread of its own    *)
(* queue, whose registry is behind an UnsafeCell that asks for "the same   *)
(* thread" (server.rs:479). So every path through Request::resolve and     *)
(* UnaryRequest::resolve (task/callback.rs:22-64) leads back to            *)
(* request_call, and only a flag that is set or a queue that is closed     *)
(* ends it (server.rs:497-505); and on every path the call is answered at  *)
(* most once, whatever the shutdown, a checker, a missing payload or a     *)
(* cancel do to it.                                                        *)
SlotsConserved ==
  /\ \A s \in Slots :
       /\ slot[s] = "gone" => flag \/ SlotCq[s] \notin open
       /\ {q \in Cqs : loop[q].slot = s} = IF slot[s] = "thread" THEN {SlotCq[s]} ELSE {}
  /\ \A c \in Calls : Len(answers[c]) <= 1

(* A core server is destroyed only after its shutdown is complete: "if the *)
(* server is not shutdown completely, destroy a server will core"          *)
(* (server.rs:627).                                                        *)
DestroyedAfterShutdown == Destroyed => notified \in {"queued", "done"}

(* The drop of a Server comes to its end: the calls it cancels end, core   *)
(* reports the end of the shutdown, the first queue's poll thread delivers *)
(* it and the drop returns (server.rs:625-637); and every slot is given    *)
(* up, although core fails the requests before the flag is there and the   *)
(* poll threads may make them again and again meanwhile, so that core's    *)
(* server is destroyed.                                                    *)
DropCompletes == owner \in {"cancelWait", "released"} ~> Destroyed
=============================================================================
