---------------------------- MODULE CompletionQueue ----------------------------
(***************************************************************************)
(* One completion queue of an Environment: the reference count that keeps  *)
(* gRPC core's queue open while requests are being started (cq.rs), the    *)
(* loop of the thread that polls it (env.rs, poll_queue), and the life of  *)
(* the Arc<CompletionQueueHandle> whose drop destroys the core queue.      *)
(*                                                                         *)
(* Every load and every compare-exchange of ref_cnt is a step of its own,  *)
(* and so is the call into gRPC core that follows a count of 0.            *)
(***************************************************************************)
EXTENDS Integers, FiniteSets

CONSTANTS
  Users,       \* holders of a clone of the queue: calls, channels, kickers
  Aborters,    \* the users that start their operation as Call::abort does
  Closers,     \* callers of CompletionQueue::shutdown
  Env,         \* the closer that is the Environment's Drop
  MaxPending   \* bound on the operations outstanding in gRPC core

ASSUME UsersAssumption == IsFiniteSet(Users) /\ Aborters \subseteq Users
ASSUME ClosersAssumption == Env \in Closers /\ Users \cap Closers = {}
ASSUME MaxPendingAssumption == MaxPending \in Nat

Procs == Users \cup Closers

VARIABLES
  ref_cnt,     \* CompletionQueueHandle.ref_cnt
  pc,          \* the step each process is at
  cnt,         \* the local variable cnt of add_ref, unref and shutdown
  owners,      \* who, besides the poll thread, owns a clone of the queue
  coreCalls,   \* how often grpc_completion_queue_shutdown was called
  pending,     \* operations gRPC core has not completed yet
  poller,      \* the poll thread: in its loop, or returned from poll_queue
  destroyed    \* grpc_completion_queue_destroy was called

vars == <<ref_cnt, pc, cnt, owners, coreCalls, pending, poller, destroyed>>

(* "held" is a live CompletionQueueRef; "aborting" has dropped its         *)
(* reference and is about to call into core all the same.                  *)
UserSteps == {"idle", "add_ref", "held", "unref", "core", "aborting"}
CloserSteps == {"idle", "shutdown", "core", "return", "gone"}

(* The process has read ref_cnt and is at `next`.                          *)
Load(p, from, next) ==
  /\ pc[p] = from
  /\ pc' = [pc EXCEPT ![p] = next]
  /\ cnt' = [cnt EXCEPT ![p] = ref_cnt]

(* Mutant: a plain store, which does not compare.                          *)
CasBlind(p, new, next) ==
  /\ ref_cnt' = new
  /\ pc' = [pc EXCEPT ![p] = next]
  /\ UNCHANGED cnt

(* compare_exchange_weak succeeded.                                        *)
CasOk(p, new, next) ==
  /\ ref_cnt = cnt[p]
  /\ ref_cnt' = new
  /\ pc' = [pc EXCEPT ![p] = next]
  /\ UNCHANGED cnt

(* compare_exchange_weak failed, for another count or spuriously.          *)
CasFail(p) ==
  /\ cnt' = [cnt EXCEPT ![p] = ref_cnt]
  /\ UNCHANGED <<ref_cnt, pc>>

CoreSame == UNCHANGED <<coreCalls, pending, poller>>
OwnersSame == UNCHANGED <<owners, destroyed>>

(* An owner left: the last one runs CompletionQueueHandle::drop.           *)
Owned(os, p) == os # {} \/ p = "next"
Release(os, p) ==
  /\ owners' = os
  /\ poller' = p
  /\ destroyed' = ~Owned(os, p)

(* CompletionQueueHandle::new, one clone kept by the Environment.          *)
Init ==
  /\ ref_cnt = 1
  /\ pc = [p \in Procs |-> "idle"]
  /\ cnt = [p \in Procs |-> 0]
  /\ owners = {Env}
  /\ coreCalls = 0
  /\ pending = 0
  /\ poller = "next"
  /\ destroyed = FALSE

-----------------------------------------------------------------------------
(* A user gets a clone from an owner, and drops it when it is idle.        *)
Clone(u) ==
  /\ u \notin owners /\ pc[u] = "idle"
  /\ Owned(owners, poller)
  /\ owners' = owners \cup {u}
  /\ UNCHANGED <<ref_cnt, pc, cnt, destroyed>> /\ CoreSame

DropClone(u) ==
  /\ u \in owners /\ pc[u] = "idle"
  /\ Release(owners \ {u}, poller)
  /\ UNCHANGED <<ref_cnt, pc, cnt, coreCalls, pending>>

(* CompletionQueue::borrow -> add_ref                                      *)
AddRefLoad(u) ==
  /\ u \in owners
  /\ Load(u, "idle", "add_ref")
  /\ UNCHANGED ref_cnt /\ CoreSame /\ OwnersSame

AddRefReject(u) ==
  /\ pc[u] = "add_ref" /\ cnt[u] <= 0
  /\ pc' = [pc EXCEPT ![u] = "idle"]
  /\ UNCHANGED <<ref_cnt, cnt>> /\ CoreSame /\ OwnersSame

(* Mutant: the count is not tested again before the exchange.              *)
AddRefAnyCount(u) ==
  /\ pc[u] = "add_ref"
  /\ CasOk(u, cnt[u] + 1, "held")
  /\ CoreSame /\ OwnersSame

AddRefCasOk(u) ==
  /\ pc[u] = "add_ref" /\ cnt[u] > 0
  /\ CasOk(u, cnt[u] + 1, "held")
  /\ CoreSame /\ OwnersSame

AddRefCasFail(u) ==
  /\ pc[u] = "add_ref" /\ cnt[u] > 0
  /\ CasFail(u)
  /\ CoreSame /\ OwnersSame

(* A batch is started while the CompletionQueueRef lives.                  *)
StartOp(u) ==
  /\ u \notin Aborters
  /\ pc[u] = "held"
  /\ pending < MaxPending
  /\ pending' = pending + 1
  /\ UNCHANGED <<ref_cnt, pc, cnt, coreCalls, poller>> /\ OwnersSame

(* CompletionQueueRef::drop -> unref                                       *)
UnrefLoad(u) ==
  /\ Load(u, "held", "unref")
  /\ UNCHANGED ref_cnt /\ CoreSame /\ OwnersSame

Signum(n) == IF n > 0 THEN 1 ELSE IF n < 0 THEN -1 ELSE 0

AfterUnref(u) == IF u \in Aborters THEN "aborting" ELSE "idle"

(* Mutant: unref leaves the call into core to shutdown.                    *)
UnrefNoCore(u) ==
  /\ pc[u] = "unref"
  /\ CasOk(u, cnt[u] - Signum(cnt[u]), AfterUnref(u))
  /\ CoreSame /\ OwnersSame

UnrefCasOk(u) ==
  LET new == cnt[u] - Signum(cnt[u]) IN
  /\ pc[u] = "unref"
  /\ CasOk(u, new, IF new = 0 THEN "core" ELSE AfterUnref(u))
  /\ CoreSame /\ OwnersSame

UnrefCasFail(u) ==
  /\ pc[u] = "unref"
  /\ CasFail(u)
  /\ CoreSame /\ OwnersSame

(* gRPC core takes no operation once it was shut down with none pending.   *)
CoreFinished == coreCalls > 0 /\ pending = 0

(* Call::abort: the reference was dropped with the match that checked it,  *)
(* and the batch is started only now.                                      *)
AbortStart(u) ==
  /\ pc[u] = "aborting"
  /\ pending < MaxPending
  /\ pc' = [pc EXCEPT ![u] = "idle"]
  /\ pending' = IF CoreFinished THEN pending ELSE pending + 1
  /\ UNCHANGED <<ref_cnt, cnt, coreCalls, poller>> /\ OwnersSame

-----------------------------------------------------------------------------
(* CompletionQueue::shutdown. A call through &Environment is over before   *)
(* the Environment can be dropped; the drop is Env's call.                 *)
MayClose(c) ==
  IF c = Env THEN \A d \in Closers : pc[d] = "idle"
             ELSE pc[Env] = "idle"

ShutdownLoad(c) ==
  /\ MayClose(c)
  /\ Load(c, "idle", "shutdown")
  /\ UNCHANGED ref_cnt /\ CoreSame /\ OwnersSame

ShutdownSkip(c) ==
  /\ pc[c] = "shutdown" /\ cnt[c] <= 0
  /\ pc' = [pc EXCEPT ![c] = "return"]
  /\ UNCHANGED <<ref_cnt, cnt>> /\ CoreSame /\ OwnersSame

ShutdownCasOk(c) ==
  LET new == 1 - cnt[c] IN
  /\ pc[c] = "shutdown" /\ cnt[c] > 0
  /\ CasOk(c, new, IF new = 0 THEN "core" ELSE "return")
  /\ CoreSame /\ OwnersSame

ShutdownCasFail(c) ==
  /\ pc[c] = "shutdown" /\ cnt[c] > 0
  /\ CasFail(c)
  /\ CoreSame /\ OwnersSame

(* shutdown returned; after Environment::drop its clone is gone as well.   *)
ShutdownReturn(c) ==
  /\ pc[c] = "return"
  /\ pc' = [pc EXCEPT ![c] = IF c = Env THEN "gone" ELSE "idle"]
  /\ IF c = Env THEN Release(owners \ {Env}, poller)
                ELSE UNCHANGED <<owners, poller, destroyed>>
  /\ UNCHANGED <<ref_cnt, cnt, coreCalls, pending>>

(* grpc_completion_queue_shutdown, by whoever brought the count to 0.      *)
AfterCore(p) == IF p \in Users THEN AfterUnref(p) ELSE "return"

CoreShutdown(p) ==
  /\ pc[p] = "core"
  /\ pc' = [pc EXCEPT ![p] = AfterCore(p)]
  /\ coreCalls' = coreCalls + 1
  /\ UNCHANGED <<ref_cnt, cnt, pending, poller>> /\ OwnersSame

-----------------------------------------------------------------------------
(* Mutant: the queue ends undrained.                                       *)
QueueShutdownEarly ==
  /\ poller = "next" /\ coreCalls > 0
  /\ Release(owners, "exited")
  /\ UNCHANGED <<ref_cnt, pc, cnt, coreCalls, pending>>

(* poll_queue: next() returns a completed operation, or the end of a queue *)
(* that was shut down and has nothing outstanding.                         *)
OpComplete ==
  /\ poller = "next" /\ pending > 0
  /\ pending' = pending - 1
  /\ UNCHANGED <<ref_cnt, pc, cnt, coreCalls, poller>> /\ OwnersSame

QueueShutdown ==
  /\ poller = "next" /\ CoreFinished
  /\ Release(owners, "exited")
  /\ UNCHANGED <<ref_cnt, pc, cnt, coreCalls, pending>>

UserNext(u) ==
  \/ Clone(u) \/ DropClone(u)
  \/ AddRefLoad(u) \/ AddRefReject(u) \/ AddRefCasOk(u) \/ AddRefCasFail(u)
  \/ StartOp(u) \/ AbortStart(u)
  \/ UnrefLoad(u) \/ UnrefCasOk(u) \/ UnrefCasFail(u)

CloserNext(c) ==
  \/ ShutdownLoad(c) \/ ShutdownSkip(c)
  \/ ShutdownCasOk(c) \/ ShutdownCasFail(c) \/ ShutdownReturn(c)

(* Nothing is left once the queue is destroyed.                            *)
Destroyed == destroyed /\ UNCHANGED vars

Next ==
  \/ \E u \in Users : UserNext(u)
  \/ \E c \in Closers : CloserNext(c)
  \/ \E p \in Procs : CoreShutdown(p)
  \/ OpComplete
  \/ QueueShutdown
  \/ Destroyed

Spec == Init /\ [][Next]_vars

(* A thread that is inside add_ref, unref, shutdown or abort goes on; a    *)
(* reference is a local of a function that returns; core completes what    *)
(* was started. A weak compare-exchange that finds the count it expects    *)
(* again and again does not fail for ever, so its success is strongly fair.*)
(* Nothing forces a user to borrow, or the Environment to be dropped.      *)
Fairness ==
  /\ \A u \in Users :
       /\ WF_vars(AddRefReject(u) \/ AddRefCasFail(u)) /\ SF_vars(AddRefCasOk(u))
       /\ WF_vars(UnrefLoad(u) \/ UnrefCasFail(u)) /\ SF_vars(UnrefCasOk(u))
       /\ WF_vars(AbortStart(u))
  /\ \A c \in Closers :
       /\ WF_vars(ShutdownSkip(c) \/ ShutdownCasFail(c) \/ ShutdownReturn(c))
       /\ SF_vars(ShutdownCasOk(c))
  /\ \A p \in Procs : WF_vars(CoreShutdown(p))
  /\ WF_vars(OpComplete) /\ WF_vars(QueueShutdown)

FairSpec == Spec /\ Fairness

-----------------------------------------------------------------------------
TypeOK ==
  /\ ref_cnt \in Int
  /\ pc \in [Procs -> UserSteps \cup CloserSteps]
  /\ \A u \in Users : pc[u] \in UserSteps
  /\ \A c \in Closers : pc[c] \in CloserSteps
  /\ cnt \in [Procs -> Int]
  /\ owners \subseteq Users \cup {Env}
  /\ coreCalls \in Nat
  /\ pending \in Nat
  /\ poller \in {"next", "exited"}
  /\ destroyed \in BOOLEAN

(* The live CompletionQueueRefs: borrowed and not yet given back.          *)
Held == {u \in Users : pc[u] \in {"held", "unref"}}

(* The count is what its comment claims (cq.rs:20-23): one more than the   *)
(* live references while the queue accepts requests, minus the live        *)
(* references once shutdown was called, whatever order the                 *)
(* compare-exchanges of add_ref, unref and shutdown took effect in.        *)
CountsReferences ==
  ref_cnt = IF ref_cnt > 0 THEN Cardinality(Held) + 1 ELSE -Cardinality(Held)

(* gRPC core's queue is shut down at most once, although shutdown may be   *)
(* called several times and raced by the last unref (env.rs:165); only one *)
(* process is ever on its way to that call; and the call is due exactly    *)
(* when the count is 0 (cq.rs:21-22).                                      *)
Finishers == {p \in Procs : pc[p] = "core"}
CoreShutdownOnce ==
  IF ref_cnt = 0
  THEN \/ coreCalls = 0 /\ \E p \in Procs : Finishers = {p}
       \/ coreCalls = 1 /\ Finishers = {}
  ELSE coreCalls = 0 /\ Finishers = {}

(* A live CompletionQueueRef keeps the queue open: as_ptr of a reference   *)
(* (cq.rs:120-124) is never the pointer of a queue that was shut down.     *)
RefKeepsQueueOpen == Held # {} => coreCalls = 0 /\ ~destroyed

(* The core queue is destroyed only after it was shut down and drained and *)
(* its poll thread left next(): the last Arc cannot go before that.        *)
DestroyedDrained ==
  destroyed => coreCalls = 1 /\ pending = 0 /\ poller = "exited"

(* Who is inside the API owns a clone, the Environment owns one until its  *)
(* drop is over, and the handle is destroyed when nobody owns one.         *)
Ownership ==
  /\ \A u \in Users : pc[u] # "idle" => u \in owners
  /\ Env \in owners <=> pc[Env] # "gone"
  /\ destroyed <=> ~Owned(owners, poller)

ExitedDrained == poller = "exited" => CoreFinished

(* The inductive invariant: the count, the one finisher, and the ownership *)
(* that makes the poll thread's exit precede the destruction.              *)
IInv ==
  /\ TypeOK
  /\ CountsReferences
  /\ CoreShutdownOnce
  /\ Ownership
  /\ ExitedDrained

(* The reference count implements the rundown protocol: a successful       *)
(* compare-exchange of add_ref is a Borrow, that of unref a GiveBack, that *)
(* of shutdown the Close, and the call into core the one Shut; so no       *)
(* borrow succeeds after shutdown (cq.rs:41-44), not even one that read    *)
(* the count before.                                                       *)
Promise ==
  INSTANCE Rundown WITH Holders <- Users, open <- ref_cnt > 0,
                        holding <- Held, shut <- coreCalls > 0
ImplementsRundown == Promise!Spec

(* Dropping the Environment ends the poll thread: no interleaving of       *)
(* borrows, drops and a second shutdown loses the call that shuts core's   *)
(* queue down.                                                             *)
PollThreadStops == pc[Env] = "shutdown" ~> poller = "exited"
=============================================================================
