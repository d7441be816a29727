------------------------------- MODULE Executor -------------------------------
(***************************************************************************)
(* The executor that drives spawned futures on a completion queue          *)
(* (task/executor.rs), the queue's thread-local work queue (cq.rs), and    *)
(* the loop of its poll thread (env.rs, poll_queue).                       *)
(*                                                                         *)
(* A thread is in at most one call of poll and one call of wake_by_ref, the*)
(* wake inside the poll. A spawn from inside a future's poll runs a second *)
(* poll on the poll thread: it is a thread of the set Nested, which runs   *)
(* only while the loop is in user code. Each atomic operation on a task's  *)
(* state is one step. Kicks go through the Rundown protocol, which         *)
(* CompletionQueue implements.                                             *)
(***************************************************************************)
EXTENDS Integers, Sequences

CONSTANTS
  Tasks,      \* spawned futures
  Poller,     \* the poll thread of the completion queue
  Nested,     \* polls nested in the user code of the poll thread
  Others,     \* all other threads: other poll threads, the application's
  MaxWakes    \* bound on the calls of wake_by_ref

ASSUME ThreadsAssumption ==
  /\ Poller \notin Nested \cup Others
  /\ Nested \cap Others = {}
ASSUME TasksAssumption == Tasks # {}
ASSUME MaxWakesAssumption == MaxWakes \in Nat

OnPoll == Nested \cup {Poller}
Threads == OnPoll \cup Others

VARIABLES
  state,     \* SpawnTask.state, or "unborn" before the spawn
  handle,    \* SpawnTask.handle is Some
  wakers,    \* the tasks that were polled: a waker of theirs may be anywhere
  ppc,       \* the step of poll a thread is at
  ptask,     \* the task it polls
  init,      \* init_state of that poll
  wpc,       \* the step of wake_by_ref a thread is at
  wtask,     \* the task it wakes
  work,      \* WorkQueue.pending_work
  kicks,     \* how many Spawn tags of a task gRPC core holds
  lost,      \* the tasks whose Spawn tag was dropped by a rejected kick
  loop,      \* the poll thread's place in poll_queue
  panicked,  \* a panic! of poll was reached
  wakes,     \* calls of wake_by_ref so far
  due,       \* history: the tasks woken since the last poll of theirs began
  open, holding, shut   \* the completion queue (Rundown)

cqVars == <<open, holding, shut>>
pollVars == <<ppc, ptask, init>>
wakeVars == <<wpc, wtask>>
taskVars == <<state, handle, wakers, pollVars, wakeVars, work, kicks, lost, loop,
          panicked, wakes, due, cqVars>>

Cq == INSTANCE Rundown WITH Holders <- Threads

TaskInit ==
  /\ state = [k \in Tasks |-> "unborn"]
  /\ handle = [k \in Tasks |-> FALSE]
  /\ wakers = {}
  /\ ppc = [t \in Threads |-> "none"]
  /\ ptask = [t \in Threads |-> CHOOSE k \in Tasks : TRUE]
  /\ init = [t \in Threads |-> "IDLE"]
  /\ wpc = [t \in Threads |-> "none"]
  /\ wtask = ptask
  /\ work = <<>>
  /\ kicks = [k \in Tasks |-> 0]
  /\ lost = {}
  /\ loop = "next"
  /\ panicked = FALSE
  /\ wakes = 0
  /\ due = {}
  /\ Cq!Init

-----------------------------------------------------------------------------
(* Where user code runs: in a future's poll, in the drop of a completed    *)
(* future, in a tag's callback, in the before_stop hook, or on a thread of *)
(* the application.                                                        *)
LoopInUserCode ==
  \/ ppc[Poller] \in {"user", "take"}
  \/ ppc[Poller] = "none" /\ loop \in {"resolve", "exited"}

InUserCode(t) ==
  /\ wpc[t] = "none"
  /\ \/ ppc[t] \in {"user", "take"}
     \/ /\ ppc[t] = "none"
        /\ t = Poller => loop \in {"resolve", "exited"}
        /\ t \in Nested => LoopInUserCode /\ wpc[Poller] = "none"

(* The poll thread leaves user code when the polls nested in it returned.  *)
LeavesUserCode(t) ==
  /\ wpc[t] = "none"
  /\ t = Poller => \A n \in Nested : ppc[n] = "none" /\ wpc[n] = "none"

Enter(t, k, s) ==
  /\ ppc' = [ppc EXCEPT ![t] = "cas"]
  /\ ptask' = [ptask EXCEPT ![t] = k]
  /\ init' = [init EXCEPT ![t] = s]

(* Executor::spawn polls at once, on the thread that called it.            *)
Spawn(t, k) ==
  /\ state[k] = "unborn"
  /\ InUserCode(t) /\ ppc[t] = "none"
  /\ state' = [state EXCEPT ![k] = "IDLE"]
  /\ handle' = [handle EXCEPT ![k] = TRUE]
  /\ Enter(t, k, "IDLE")
  /\ UNCHANGED <<wakers, wakeVars, work, kicks, lost, loop, panicked, wakes, due, cqVars>>

(* poll: the compare-exchange init_state -> POLLING at the head of the     *)
(* loop; COMPLETED ends the call, any other state is the first panic.      *)
PollBegin(t) ==
  LET k == ptask[t] IN
  /\ ppc[t] = "cas" /\ state[k] = init[t]
  /\ state' = [state EXCEPT ![k] = "POLLING"]
  /\ ppc' = [ppc EXCEPT ![t] = "user"]
  /\ wakers' = wakers \cup {k}
  /\ due' = due \ {k}
  /\ UNCHANGED <<handle, ptask, init, wakeVars, work, kicks, lost, loop, panicked, wakes, cqVars>>

PollCompleted(t) ==
  /\ ppc[t] = "cas" /\ state[ptask[t]] # init[t]
  /\ ppc' = [ppc EXCEPT ![t] = "none"]
  /\ panicked' = (panicked \/ state[ptask[t]] # "COMPLETED")
  /\ UNCHANGED <<state, handle, wakers, ptask, init, wakeVars, work, kicks, lost, loop, wakes, due, cqVars>>

(* The future is ready: COMPLETED is stored, then the future is dropped.   *)
PollReady(t) ==
  /\ ppc[t] = "user" /\ LeavesUserCode(t)
  /\ state' = [state EXCEPT ![ptask[t]] = "COMPLETED"]
  /\ ppc' = [ppc EXCEPT ![t] = "take"]
  /\ UNCHANGED <<handle, wakers, ptask, init, wakeVars, work, kicks, lost, loop, panicked, wakes, due, cqVars>>

TakeHandle(t) ==
  /\ ppc[t] = "take" /\ LeavesUserCode(t)
  /\ handle' = [handle EXCEPT ![ptask[t]] = FALSE]
  /\ ppc' = [ppc EXCEPT ![t] = "cas"]
  /\ UNCHANGED <<state, wakers, ptask, init, wakeVars, work, kicks, lost, loop, panicked, wakes, due, cqVars>>

(* The future is pending: POLLING -> IDLE ends the call, NOTIFIED polls    *)
(* again, any other state is the second panic.                             *)
PollPending(t) ==
  LET k == ptask[t] IN
  /\ ppc[t] = "user" /\ LeavesUserCode(t)
  /\ state' = IF state[k] = "POLLING" THEN [state EXCEPT ![k] = "IDLE"] ELSE state
  /\ ppc' = [ppc EXCEPT ![t] = IF state[k] = "NOTIFIED" THEN "cas" ELSE "none"]
  /\ init' = [init EXCEPT ![t] = IF state[k] = "NOTIFIED" THEN "NOTIFIED" ELSE @]
  /\ panicked' = (panicked \/ state[k] \notin {"POLLING", "NOTIFIED"})
  /\ UNCHANGED <<handle, wakers, ptask, wakeVars, work, kicks, lost, loop, wakes, due, cqVars>>

-----------------------------------------------------------------------------
(* SpawnTask::wake_by_ref, and mark_notified, its first part.              *)
WakeSame == UNCHANGED <<handle, wakers, pollVars, loop, panicked>>

Wake(t, k) ==
  /\ k \in wakers
  /\ InUserCode(t)
  /\ wakes < MaxWakes
  /\ wakes' = wakes + 1
  /\ due' = due \cup {k}
  /\ wpc' = [wpc EXCEPT ![t] = "mark"]
  /\ wtask' = [wtask EXCEPT ![t] = k]
  /\ WakeSame /\ UNCHANGED <<state, work, kicks, lost, cqVars>>

(* IDLE -> NOTIFIED: the task was idle and must be scheduled.              *)
MarkIdle(t) ==
  /\ wpc[t] = "mark" /\ state[wtask[t]] = "IDLE"
  /\ state' = [state EXCEPT ![wtask[t]] = "NOTIFIED"]
  /\ wpc' = [wpc EXCEPT ![t] = "push"]
  /\ WakeSame /\ UNCHANGED <<wtask, work, kicks, lost, wakes, due, cqVars>>

(* Mutant: a task that is being polled is scheduled as well.               *)
MarkPollingSchedules(t) ==
  /\ wpc[t] = "mark2" /\ state[wtask[t]] = "POLLING"
  /\ state' = [state EXCEPT ![wtask[t]] = "NOTIFIED"]
  /\ wpc' = [wpc EXCEPT ![t] = "push"]
  /\ WakeSame /\ UNCHANGED <<wtask, work, kicks, lost, wakes, due, cqVars>>

(* Not IDLE: POLLING tries the second exchange, otherwise there is nothing *)
(* to do.                                                                  *)
MarkBusy(t) ==
  /\ wpc[t] = "mark" /\ state[wtask[t]] # "IDLE"
  /\ wpc' = [wpc EXCEPT ![t] = IF state[wtask[t]] = "POLLING" THEN "mark2" ELSE "none"]
  /\ WakeSame /\ UNCHANGED <<state, wtask, work, kicks, lost, wakes, due, cqVars>>

(* POLLING -> NOTIFIED: whoever polls the task will poll it again.         *)
MarkPolling(t) ==
  /\ wpc[t] = "mark2" /\ state[wtask[t]] = "POLLING"
  /\ state' = [state EXCEPT ![wtask[t]] = "NOTIFIED"]
  /\ wpc' = [wpc EXCEPT ![t] = "none"]
  /\ WakeSame /\ UNCHANGED <<wtask, work, kicks, lost, wakes, due, cqVars>>

(* The second exchange failed: retry for IDLE and, spuriously, POLLING.    *)
MarkAgain(t) ==
  /\ wpc[t] = "mark2"
  /\ wpc' = [wpc EXCEPT ![t] =
               IF state[wtask[t]] \in {"IDLE", "POLLING"} THEN "mark" ELSE "none"]
  /\ WakeSame /\ UNCHANGED <<state, wtask, work, kicks, lost, wakes, due, cqVars>>

(* WorkQueue::push_work: only the poll thread may push.                    *)
PushWork(t) ==
  /\ wpc[t] = "push" /\ t \in OnPoll
  /\ work' = Append(work, wtask[t])
  /\ wpc' = [wpc EXCEPT ![t] = "none"]
  /\ WakeSame /\ UNCHANGED <<state, wtask, kicks, lost, wakes, due, cqVars>>

PushRefused(t) ==
  /\ wpc[t] = "push" /\ t \in Others
  /\ wpc' = [wpc EXCEPT ![t] = "kick"]
  /\ WakeSame /\ UNCHANGED <<state, wtask, work, kicks, lost, wakes, due, cqVars>>

(* Kicker::kick: borrow the queue, hand the tag to core, give it back. On  *)
(* a queue that was shut down the boxed tag is dropped.                    *)
KickBorrow(t) ==
  /\ wpc[t] = "kick"
  /\ Cq!Borrow(t)
  /\ wpc' = [wpc EXCEPT ![t] = "kicking"]
  /\ WakeSame /\ UNCHANGED <<state, wtask, work, kicks, lost, wakes, due>>

KickRejected(t) ==
  /\ wpc[t] = "kick" /\ ~open
  /\ lost' = lost \cup {wtask[t]}
  /\ wpc' = [wpc EXCEPT ![t] = "none"]
  /\ WakeSame /\ UNCHANGED <<state, wtask, work, kicks, wakes, due, cqVars>>

KickCore(t) ==
  /\ wpc[t] = "kicking"
  /\ kicks' = [kicks EXCEPT ![wtask[t]] = @ + 1]
  /\ wpc' = [wpc EXCEPT ![t] = "unref"]
  /\ WakeSame /\ UNCHANGED <<state, wtask, work, lost, wakes, due, cqVars>>

KickDone(t) ==
  /\ wpc[t] = "unref"
  /\ Cq!GiveBack(t)
  /\ wpc' = [wpc EXCEPT ![t] = "none"]
  /\ WakeSame /\ UNCHANGED <<state, wtask, work, kicks, lost, wakes, due>>

-----------------------------------------------------------------------------
(* poll_queue: take a tag, resolve it, run the work queue dry, go on.      *)
LoopSame == UNCHANGED <<state, handle, wakers, wakeVars, lost, panicked, wakes, due, cqVars>>

(* A Spawn tag: executor::resolve polls the task with woken = true.        *)
NextSpawn(k) ==
  /\ loop = "next" /\ kicks[k] > 0
  /\ kicks' = [kicks EXCEPT ![k] = @ - 1]
  /\ loop' = "resolve"
  /\ Enter(Poller, k, "NOTIFIED")
  /\ LoopSame /\ UNCHANGED work

(* Any other tag: its callback may wake and spawn tasks.                   *)
NextCallback ==
  /\ loop = "next"
  /\ loop' = "resolve"
  /\ LoopSame /\ UNCHANGED <<pollVars, work, kicks>>

Resolved ==
  /\ loop = "resolve"
  /\ ppc[Poller] = "none" /\ LeavesUserCode(Poller)
  /\ loop' = "drain"
  /\ LoopSame /\ UNCHANGED <<pollVars, work, kicks>>

(* WorkQueue::pop_work pops the work pushed last.                          *)
PopWork ==
  /\ loop = "drain" /\ ppc[Poller] = "none" /\ work # <<>>
  /\ work' = SubSeq(work, 1, Len(work) - 1)
  /\ Enter(Poller, work[Len(work)], "NOTIFIED")
  /\ LoopSame /\ UNCHANGED <<kicks, loop>>

(* Mutant: one task is polled after each completion, not the whole queue.  *)
DrainedOnce ==
  /\ loop = "drain" /\ ppc[Poller] = "none"
  /\ loop' = "next"
  /\ LoopSame /\ UNCHANGED <<pollVars, work, kicks>>

Drained ==
  /\ loop = "drain" /\ ppc[Poller] = "none" /\ work = <<>>
  /\ loop' = "next"
  /\ LoopSame /\ UNCHANGED <<pollVars, work, kicks>>

NextShutdown ==
  /\ loop = "next" /\ shut /\ \A k \in Tasks : kicks[k] = 0
  /\ loop' = "exited"
  /\ LoopSame /\ UNCHANGED <<pollVars, work, kicks>>

(* The Environment closes the queue; core shuts it down after the last     *)
(* reference is gone.                                                      *)
CloseQueue ==
  /\ Cq!Close \/ Cq!Shut
  /\ UNCHANGED <<state, handle, wakers, pollVars, wakeVars, work, kicks, lost,
                 loop, panicked, wakes, due>>

(* Nothing is left to do after the poll thread ended.                      *)
Stopped ==
  /\ loop = "exited" /\ \A t \in Threads : ppc[t] = "none" /\ wpc[t] = "none"
  /\ UNCHANGED taskVars

PollNext(t) ==
  \/ PollBegin(t) \/ PollCompleted(t) \/ PollReady(t) \/ TakeHandle(t)
  \/ PollPending(t)

WakeNext(t) ==
  \/ MarkIdle(t) \/ MarkBusy(t) \/ MarkPolling(t) \/ MarkAgain(t)
  \/ PushWork(t) \/ PushRefused(t)
  \/ KickBorrow(t) \/ KickRejected(t) \/ KickCore(t) \/ KickDone(t)

LoopNext ==
  \/ \E k \in Tasks : NextSpawn(k)
  \/ NextCallback \/ Resolved \/ PopWork \/ Drained \/ NextShutdown

TaskNext ==
  \/ \E t \in Threads, k \in Tasks : Spawn(t, k) \/ Wake(t, k)
  \/ \E t \in Threads : PollNext(t) \/ WakeNext(t)
  \/ LoopNext
  \/ CloseQueue
  \/ Stopped

TaskSpec == TaskInit /\ [][TaskNext]_taskVars

(* A thread inside poll or wake_by_ref goes on and user code returns; a    *)
(* weak compare-exchange does not fail spuriously for ever; the poll       *)
(* thread goes on, and gRPC core hands out a tag it keeps having. No       *)
(* thread has to spawn, to wake or to close the queue.                     *)
TaskFairness ==
  /\ \A t \in Threads :
       /\ WF_taskVars(PollBegin(t) \/ PollCompleted(t) \/ TakeHandle(t))
       /\ WF_taskVars(PollReady(t) \/ PollPending(t))
       /\ WF_taskVars(MarkIdle(t) \/ MarkBusy(t))
       /\ WF_taskVars(MarkAgain(t)) /\ SF_taskVars(MarkPolling(t))
  /\ \A t \in OnPoll : WF_taskVars(PushWork(t))
  /\ \A t \in Others :
       /\ WF_taskVars(PushRefused(t)) /\ WF_taskVars(KickBorrow(t) \/ KickRejected(t))
       /\ WF_taskVars(KickCore(t)) /\ WF_taskVars(KickDone(t))
  /\ \A k \in Tasks : SF_taskVars(NextSpawn(k))
  /\ WF_taskVars(Resolved) /\ WF_taskVars(PopWork \/ Drained)

TaskFairSpec == TaskSpec /\ TaskFairness

-----------------------------------------------------------------------------
TaskStates == {"unborn", "IDLE", "NOTIFIED", "POLLING", "COMPLETED"}
WakeSteps == {"none", "mark", "mark2", "push", "kick", "kicking", "unref"}

TaskTypeOK ==
  /\ state \in [Tasks -> TaskStates]
  /\ handle \in [Tasks -> BOOLEAN]
  /\ wakers \subseteq Tasks
  /\ ppc \in [Threads -> {"none", "cas", "user", "take"}]
  /\ ptask \in [Threads -> Tasks]
  /\ init \in [Threads -> {"IDLE", "NOTIFIED"}]
  /\ wpc \in [Threads -> WakeSteps]
  /\ wtask \in [Threads -> Tasks]
  /\ work \in Seq(Tasks)
  /\ kicks \in [Tasks -> Nat]
  /\ lost \subseteq Tasks
  /\ loop \in {"next", "resolve", "drain", "exited"}
  /\ panicked \in BOOLEAN
  /\ wakes \in Nat
  /\ due \subseteq Tasks
  /\ open \in BOOLEAN /\ shut \in BOOLEAN
  /\ holding \subseteq Threads

(* A thread is inside poll for the task.                                   *)
Polls(t, k) == ppc[t] # "none" /\ ptask[t] = k

(* The three places a notification can be: with the thread that marked the *)
(* task and has not queued it yet, in the work queue, in gRPC core.        *)
InHand(t, k) == wpc[t] \in {"push", "kick", "kicking"} /\ wtask[t] = k
InWork(i, k) == i \in DOMAIN work /\ work[i] = k
InCore(k) == kicks[k] > 0

Carried(k) ==
  \/ \E t \in Threads : InHand(t, k)
  \/ \E i \in DOMAIN work : InWork(i, k)
  \/ InCore(k)

(* poll never meets a state it panics on (executor.rs:194, 222): no wake   *)
(* schedules a task twice, none reaches a task that is being spawned, and  *)
(* none is delivered to a task another thread is polling.                  *)
NoPanic == ~panicked

(* The state word is a lock on the future (executor.rs:200): two threads   *)
(* never run one future, and a future is run or dropped only while it is   *)
(* there, though any thread may wake it at any time.                       *)
HandleExclusive ==
  \A t \in Threads :
    ppc[t] \in {"user", "take"} =>
      /\ handle[ptask[t]]
      /\ \A u \in Threads \ {t} : ~Polls(u, ptask[t])

(* A notification is never lost while the queue is open, and never         *)
(* doubled: a NOTIFIED task is being polled (and polled again after), or   *)
(* its notification is in exactly one place, or a kick was rejected        *)
(* because the queue was closed.                                           *)
Placed(k) ==
  \/ \E t \in Threads : Polls(t, k)
  \/ Carried(k)
  \/ k \in lost /\ ~open

Accounted == \A k \in Tasks : state[k] = "NOTIFIED" => Placed(k)

(* The notification of a task is in one place only: a wake that finds the  *)
(* task already NOTIFIED adds none.                                        *)
NotDoubled ==
  \A k \in Tasks :
    /\ kicks[k] \leq 1
    /\ \A i, j \in DOMAIN work : InWork(i, k) /\ InWork(j, k) => i = j
    /\ \A t, u \in Threads : InHand(t, k) /\ InHand(u, k) => t = u
    /\ \A t \in Threads : InHand(t, k) => ~InCore(k) /\ \A i \in DOMAIN work : ~InWork(i, k)
    /\ InCore(k) => \A i \in DOMAIN work : ~InWork(i, k)

(* A wake is not dropped when it meets a poll that is just ending: until a *)
(* poll begins after the wake, the task is NOTIFIED or finished, or some   *)
(* thread is still inside mark_notified for it (executor.rs:110-135, 217). *)
Marks(t, k) == wpc[t] \in {"mark", "mark2"} /\ wtask[t] = k
WakeNotDropped ==
  \A k \in due :
    state[k] \in {"NOTIFIED", "COMPLETED"} \/ \E t \in Threads : Marks(t, k)

(* The inductive invariant. Whoever is inside poll is alone with the task  *)
(* and knows its state; a task whose waker is not out yet is not woken.    *)
Owners ==
  /\ \A t, u \in Threads :
       ppc[t] # "none" /\ ppc[u] # "none" /\ ptask[t] = ptask[u] => t = u
  /\ \A t \in Threads :
       /\ ppc[t] = "user" => state[ptask[t]] \in {"POLLING", "NOTIFIED"}
       /\ ppc[t] = "take" => state[ptask[t]] = "COMPLETED" /\ handle[ptask[t]]
       /\ ppc[t] = "cas" => state[ptask[t]] \in {init[t], "COMPLETED"}
       /\ ppc[t] = "cas" /\ state[ptask[t]] = "IDLE" => ptask[t] \notin wakers
       /\ wpc[t] # "none" => wtask[t] \in wakers
  /\ loop = "next" => ppc[Poller] = "none"

Lives ==
  \A k \in Tasks :
    /\ state[k] \in {"IDLE", "NOTIFIED", "POLLING"} => handle[k]
    /\ state[k] = "unborn" => k \notin wakers
    /\ state[k] = "POLLING" => \E t \in Threads : Polls(t, k)

(* A notification on its way belongs to a NOTIFIED task nobody polls.      *)
Tokens ==
  \A k \in Tasks :
    Carried(k) => state[k] = "NOTIFIED" /\ \A t \in Threads : ~Polls(t, k)

LostClosed == lost # {} => ~open

TaskInv ==
  TaskTypeOK /\ Owners /\ Lives /\ Tokens /\ NotDoubled /\ Accounted /\ LostClosed
  /\ NoPanic /\ WakeNotDropped

(* The future is only dropped when it completed, and by then for good.     *)
CompletedOnce ==
  [][\A k \in Tasks : /\ state[k] = "COMPLETED" => state'[k] = "COMPLETED"
                      /\ handle[k] /\ ~handle'[k] => state[k] = "COMPLETED"]_taskVars

(* A woken task is polled: whatever the interleaving of wakes and polls,   *)
(* after a wake a poll of the task begins, unless the task is finished or  *)
(* the queue was closed.                                                   *)
WokenIsPolled ==
  \A k \in Tasks : k \in due ~> k \notin due \/ state[k] = "COMPLETED" \/ ~open
=============================================================================
