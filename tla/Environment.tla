------------------------------- MODULE Environment -------------------------------
(***************************************************************************)
(* The Environment (env.rs): EnvBuilder::build starts a poll thread per    *)
(* completion queue and collects the queues over a channel, in whatever    *)
(* order the threads send them; the users of the Environment hold an Arc   *)
(* to it, are dealt queues in turn, and the last of them to go drops it,   *)
(* which shuts the queues down one by one and joins nobody. A queue is     *)
(* what its poll thread is: it is named after the thread.                  *)
(***************************************************************************)
EXTENDS Naturals, Sequences, FiniteSets

CONSTANTS
  Threads,   \* 0..cq_count-1, the poll threads
  Users      \* who may hold an Arc<Environment>: the builder and channels

ASSUME ThreadsAssumption == IsFiniteSet(Threads) /\ Threads # {}

VARIABLES
  thread,    \* where a poll thread is
  mail,      \* the mpsc channel of build()
  cqs,       \* Environment.cqs, or what build() has received of it
  idx,       \* Environment.idx
  arcs,      \* the users that hold the Environment
  life,      \* "building", "up", "dropping", "dropped"
  closed,    \* the queues that were shut down
  queued     \* a queue's operations that are not resolved yet

envVars == <<thread, mail, cqs, idx, arcs, life, closed, queued>>

ThreadStates == {"unborn", "hook", "start", "polling", "stopping", "gone"}

EnvInit ==
  /\ thread = [t \in Threads |-> "unborn"]
  /\ mail = <<>> /\ cqs = <<>> /\ idx = 0
  /\ arcs = {} /\ life = "building"
  /\ closed = {}
  /\ queued = [t \in Threads |-> 0]

(* EnvBuilder::build spawns the threads ...                                *)
Spawn(t) ==
  /\ life = "building" /\ thread[t] = "unborn"
  /\ thread' = [thread EXCEPT ![t] = "hook"]
  /\ UNCHANGED <<mail, cqs, idx, arcs, life, closed, queued>>

(* ... each of which runs the after_start hook and sends its queue ...     *)
AfterStart(t) ==
  /\ thread[t] = "hook"
  /\ thread' = [thread EXCEPT ![t] = "start"]
  /\ UNCHANGED <<mail, cqs, idx, arcs, life, closed, queued>>

SendQueue(t) ==
  /\ thread[t] = "start"
  /\ thread' = [thread EXCEPT ![t] = "polling"]
  /\ mail' = Append(mail, t)
  /\ UNCHANGED <<cqs, idx, arcs, life, closed, queued>>

(* ... and receives as many queues as it has spawned threads.              *)
RecvQueue(u) ==
  /\ life = "building" /\ mail # <<>>
  /\ \A t \in Threads : thread[t] # "unborn"
  /\ cqs' = Append(cqs, Head(mail)) /\ mail' = Tail(mail)
  /\ IF Len(cqs') = Cardinality(Threads)
     THEN life' = "up" /\ arcs' = {u}
     ELSE UNCHANGED <<life, arcs>>
  /\ UNCHANGED <<thread, idx, closed, queued>>

(* pick_cq: fetch_add, then the queue at idx % len. The counter is a usize *)
(* and never comes near its limit; what matters of it is its remainder.    *)
Picked == cqs[(idx % Len(cqs)) + 1]
Advance == idx' = (idx + 1) % Len(cqs)

(* A loop over the queues that has done some of them: the places that are  *)
(* left, and the next queue.                                               *)
Left(done) == {i \in DOMAIN cqs : cqs[i] \notin done}
NextOf(done) == cqs[CHOOSE i \in Left(done) : \A j \in Left(done) : i <= j]

(* Mutant: the drop closes the first queue only.                           *)
CloseQueueFirst ==
  /\ life = "dropping"
  /\ closed' = closed \cup {cqs[1]}
  /\ life' = "dropped"
  /\ UNCHANGED <<thread, mail, cqs, idx, arcs, queued>>

(* Drop for Environment: cq.shutdown() on one queue after the other.       *)
CloseQueue ==
  /\ life = "dropping"
  /\ closed' = closed \cup {NextOf(closed)}
  /\ life' = IF Left(closed') = {} THEN "dropped" ELSE "dropping"
  /\ UNCHANGED <<thread, mail, cqs, idx, arcs, queued>>

(* An Arc is given back; the last one drops the Environment.               *)
Unref(u) ==
  /\ arcs' = arcs \ {u}
  /\ life' = IF arcs = {u} THEN "dropping" ELSE life

(* An operation on queue q begins under a borrow, which fails when the     *)
(* queue was shut down; its tag comes back to the poll thread, which has   *)
(* to see all of them before core ends its loop.                           *)
CanBorrow(q) == q \notin closed
Enqueue(q) == queued' = [queued EXCEPT ![q] = @ + 1]
Dequeue(q) == thread[q] = "polling" /\ queued' = [queued EXCEPT ![q] = @ - 1]

QueueShutdown(q) ==
  /\ thread[q] = "polling" /\ q \in closed /\ queued[q] = 0
  /\ thread' = [thread EXCEPT ![q] = "stopping"]
  /\ UNCHANGED <<mail, cqs, idx, arcs, life, closed, queued>>

BeforeStop(t) ==
  /\ thread[t] = "stopping"
  /\ thread' = [thread EXCEPT ![t] = "gone"]
  /\ UNCHANGED <<mail, cqs, idx, arcs, life, closed, queued>>

EnvNext ==
  \/ \E t \in Threads :
       Spawn(t) \/ AfterStart(t) \/ SendQueue(t) \/ QueueShutdown(t) \/ BeforeStop(t)
  \/ CloseQueue
=============================================================================
