--------------------------------- MODULE Promise ---------------------------------
(***************************************************************************)
(* The link between an operation of gRPC core and the task that awaits it  *)
(* (task/mod.rs, task/promise.rs): a tag given to core and a CqFuture      *)
(* share a NotifyHandle behind a mutex. The poll thread of the queue sets  *)
(* the result under the lock and wakes the task after the lock is          *)
(* released; the task polls under the lock; meanwhile the future may be    *)
(* moved from one task to another, or be dropped.                          *)
(***************************************************************************)
CONSTANTS
  Tasks,     \* the tasks that may hold the future
  Results,   \* what core may report, as set_result stores it
  None

ASSUME NoneAssumption == None \notin Tasks \cup Results

VARIABLES
  result,    \* NotifyHandle.result
  waker,     \* NotifyHandle.waker: the task it wakes
  stale,     \* NotifyHandle.stale
  tag,       \* the tag: "core", "waking" between unlock and wake, "gone"
  hand,      \* the waker the poll thread took out of the handle
  holder,    \* the task that holds the CqFuture
  woken,     \* the tasks that will poll what they hold
  reported,  \* what core reported
  got        \* what poll returned, None while it is Pending

vars == <<result, waker, stale, tag, hand, holder, woken, reported, got>>

(* batch_pair or action_pair: the tag is with core, a task has the future. *)
Init ==
  /\ result = None /\ waker = None /\ stale = FALSE
  /\ tag = "core" /\ hand = None
  /\ holder \in Tasks /\ woken = {holder}
  /\ reported = None /\ got = None

(* Mutant: a waker that is there is kept although another task polls.      *)
PollPendingFirst(t) ==
  /\ holder = t /\ t \in woken /\ got = None
  /\ ~stale /\ result = None
  /\ waker' = IF waker = None THEN t ELSE waker
  /\ woken' = woken \ {t}
  /\ UNCHANGED <<result, stale, tag, hand, holder, reported, got>>

(* CqFuture::poll by the task that holds the future and was woken.         *)
PollPending(t) ==
  /\ holder = t /\ t \in woken /\ got = None
  /\ ~stale /\ result = None
  /\ waker' = t
  /\ woken' = woken \ {t}
  /\ UNCHANGED <<result, stale, tag, hand, holder, reported, got>>

PollReady(t) ==
  /\ holder = t /\ t \in woken /\ got = None
  /\ ~stale /\ result # None
  /\ result' = None /\ stale' = TRUE
  /\ got' = result
  /\ UNCHANGED <<waker, tag, hand, holder, woken, reported>>

SetResult(r) == result' = r /\ hand' = waker /\ waker' = None

(* read_one_msg, finish_response, handle_unary_response, Action::resolve:  *)
(* set_result under the lock ...                                           *)
Resolve(r) ==
  /\ tag = "core"
  /\ SetResult(r) /\ reported' = r
  /\ tag' = "waking"
  /\ UNCHANGED <<stale, holder, woken, got>>

(* ... and task.map(|t| t.wake()) after it; the tag's box is freed.        *)
Wake ==
  /\ tag = "waking"
  /\ woken' = woken \cup ({hand} \ {None})
  /\ hand' = None
  /\ tag' = "gone"
  /\ UNCHANGED <<result, waker, stale, holder, reported, got>>

(* The future is moved to another task, which polls it; or is dropped.     *)
Move(t) ==
  /\ holder # None /\ holder # t /\ got = None
  /\ holder' = t
  /\ woken' = woken \cup {t}
  /\ UNCHANGED <<result, waker, stale, tag, hand, reported, got>>

DropFuture ==
  /\ holder # None
  /\ holder' = None
  /\ UNCHANGED <<result, waker, stale, tag, hand, woken, reported, got>>

Over == (holder = None \/ got # None) /\ tag = "gone" /\ UNCHANGED vars

Next ==
  \/ \E t \in Tasks : PollPending(t) \/ PollReady(t) \/ Move(t)
  \/ \E r \in Results : Resolve(r)
  \/ Wake \/ DropFuture \/ Over

Spec == Init /\ [][Next]_vars

(* Core completes every operation, the poll thread goes on, and a task     *)
(* that was woken is polled; a task does not hand a future on for ever.    *)
Fairness ==
  /\ WF_vars(\E r \in Results : Resolve(r)) /\ WF_vars(Wake)
  /\ \A t \in Tasks : SF_vars(PollPending(t) \/ PollReady(t))

FairSpec == Spec /\ Fairness

-----------------------------------------------------------------------------
TypeOK ==
  /\ result \in Results \cup {None}
  /\ waker \in Tasks \cup {None}
  /\ stale \in BOOLEAN
  /\ tag \in {"core", "waking", "gone"}
  /\ hand \in Tasks \cup {None}
  /\ holder \in Tasks \cup {None}
  /\ woken \subseteq Tasks
  /\ reported \in Results \cup {None}
  /\ got \in Results \cup {None}

(* A task that sleeps on the future is certain to be woken: its waker is   *)
(* the one in the handle and core still has the tag, or the poll thread    *)
(* has it in hand. However polls, moves and the two halves of the resolve  *)
(* (task/promise.rs:42-52) interleave, no wakeup is lost.                  *)
Asleep == holder # None /\ holder \notin woken /\ got = None
NoLostWakeup ==
  Asleep => \/ tag = "core" /\ waker = holder
            \/ tag = "waking" /\ hand = holder

(* The task gets what core reported, and the handle knows exactly then     *)
(* that it is stale (task/mod.rs:88-95): a result that was taken is not    *)
(* there a second time.                                                    *)
DeliveredOnce ==
  /\ got # None => got = reported
  /\ stale <=> got # None
  /\ result = IF stale THEN None ELSE reported

(* Whoever holds the future to the end gets the result.                    *)
Delivered == <>(holder = None \/ got # None)

(* With the type, the two invariants are inductive once the tag's state is *)
(* tied to what it left behind.                                            *)
IInv ==
  /\ TypeOK
  /\ NoLostWakeup
  /\ DeliveredOnce
  /\ tag = "core" <=> reported = None
  /\ tag # "waking" => hand = None
=============================================================================
