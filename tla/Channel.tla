--------------------------------- MODULE Channel ---------------------------------
(***************************************************************************)
(* Channels (channel.rs) over the Environment: a ChannelBuilder connects,  *)
(* which picks a queue and keeps the Environment alive; a task watches the *)
(* connectivity of a channel with wait_for_state_change or                 *)
(* wait_for_connected, over a tag given to core and a CqFuture, the        *)
(* Promise; clients (client.rs) start calls on the channel's queue; and    *)
(* channels and the Environment are dropped meanwhile.                     *)
(***************************************************************************)
EXTENDS Promise, Environment, ChannelBuilder, Credentials

CONSTANTS
  Chans,       \* the channels that are made, 1 first
  Busy,        \* those of them that are waited on and called
  Owner,       \* the user's own Arc<Environment>
  Caller,      \* the task that calls the waits, and may pass a future on
  MaxChanges,  \* bound on the changes of a channel's connectivity
  MaxCalls     \* bound on the operations a queue has

ASSUME ChansAssumption == Chans \subseteq Nat /\ Busy \subseteq Chans
ASSUME CallerAssumption == Caller \in Tasks
ASSUME UsersAssumption == Chans \cup {Owner} \subseteq Users /\ Owner \notin Chans
ASSUME ResultsAssumption == Results = BOOLEAN

VARIABLES
  chan,      \* a channel: "none", "building", "live", "destroyed", "gone"
  chanCq,    \* the queue picked for it
  conn,      \* its connectivity in core
  trying,    \* the channels that were asked to connect
  changes,   \* how often connectivity changed
  wait,      \* the wait of the task: what it is, where, and its answer
  watch,     \* the watch in core: channel, state last seen, and its event
  expired,   \* the deadline of the wait has passed
  late,      \* wakeups of an earlier watch that are still to come
  panicked   \* Client::new unwrapped a QueueShutdown

waitVars == <<wait, watch, expired, late>>
chanVars == <<chan, chanCq, conn, trying, changes, panicked>>
channelVars == <<vars, envVars, builderVars, credVars, waitVars, chanVars>>

ConnStates == {"IDLE", "CONNECTING", "READY", "TRANSIENT_FAILURE", "SHUTDOWN"}
NoWait == [mode |-> "none", at |-> "over", of |-> None, last |-> None, ret |-> None]
NoWatch == [of |-> None, last |-> None, event |-> None]

ChannelInit ==
  /\ EnvInit /\ BuilderInit
  /\ result = None /\ waker = None /\ stale = FALSE /\ tag = "gone" /\ hand = None
  /\ holder = None /\ woken = {} /\ reported = None /\ got = None
  /\ chan = [c \in Chans |-> "none"]
  /\ chanCq = [c \in Chans |-> None]
  /\ conn = [c \in Chans |-> "IDLE"]
  /\ trying = {} /\ changes = 0 /\ panicked = FALSE
  /\ wait = NoWait /\ watch = NoWatch /\ expired = FALSE /\ late = {}

-----------------------------------------------------------------------------
(* ChannelBuilder::new takes an Arc of the Environment.                    *)
NewBuilder(c) ==
  /\ life = "up" /\ Owner \in arcs
  /\ chan[c] = "none"
  /\ \A d \in Chans : chan[d] # "building" /\ (d < c => chan[d] # "none")
  /\ chan' = [chan EXCEPT ![c] = "building"]
  /\ arcs' = arcs \cup {c}
  /\ UNCHANGED <<vars, thread, mail, cqs, idx, life, closed, queued, builderVars, credVars,
                 waitVars, chanCq, conn, trying, changes, panicked>>

(* Mutant: a channel keeps no Arc of the Environment.                      *)
ForgetEnv(c) == Unref(c)

(* ChannelInner._env.                                                      *)
KeepEnv(c) == UNCHANGED <<arcs, life>>

(* connect, connect_from_fd and secure_connect: the builder's Arc moves    *)
(* into the channel, the builder and its arguments are dropped.            *)
Connect(c, secure) ==
  /\ args # Empty /\ chan[c] = "building"
  /\ IF secure THEN Release ELSE UNCHANGED credVars
  /\ chan' = [chan EXCEPT ![c] = "live"]
  /\ chanCq' = [chanCq EXCEPT ![c] = Picked]
  /\ Advance
  /\ KeepEnv(c)
  /\ sets' = <<>> /\ options' = Empty /\ args' = Empty
  /\ UNCHANGED <<vars, thread, mail, cqs, closed, queued, waitVars, conn, trying, changes,
                 panicked>>

(* A channel is not dropped while wait_for_connected borrows it, or in the *)
(* middle of wait_for_state_change; the future of the latter does not      *)
(* borrow it.                                                              *)
Borrowed(c) ==
  wait.of = c /\ (wait.at = "watch" \/ (wait.mode = "connected" /\ wait.at # "over"))

(* Drop for ChannelInner: core's channel goes first ...                    *)
DropChannel(c) ==
  /\ chan[c] = "live" /\ ~Borrowed(c)
  /\ chan' = [chan EXCEPT ![c] = "destroyed"]
  /\ conn' = [conn EXCEPT ![c] = "SHUTDOWN"]
  /\ trying' = trying \ {c}
  /\ UNCHANGED <<vars, envVars, builderVars, credVars, waitVars, chanCq, changes, panicked>>

(* ... then its Arc of the Environment.                                    *)
DropEnvArc(c) ==
  /\ chan[c] = "destroyed"
  /\ chan' = [chan EXCEPT ![c] = "gone"]
  /\ Unref(c)
  /\ UNCHANGED <<vars, thread, mail, cqs, idx, closed, queued, builderVars, credVars,
                 waitVars, chanCq, conn, trying, changes, panicked>>

DropOwner ==
  /\ life = "up" /\ Owner \in arcs
  /\ Unref(Owner)
  /\ UNCHANGED <<vars, thread, mail, cqs, idx, closed, queued, builderVars, credVars,
                 waitVars, chanVars>>

(* create_kicker for Client::new, which unwraps, and create_call: both     *)
(* borrow the queue; the call's operations come back to the queue.         *)
StartCall(c) ==
  /\ chan[c] = "live"
  /\ IF CanBorrow(chanCq[c])
     THEN queued[chanCq[c]] < MaxCalls /\ Enqueue(chanCq[c]) /\ UNCHANGED panicked
     ELSE panicked' = TRUE /\ UNCHANGED queued
  /\ UNCHANGED <<vars, thread, mail, cqs, idx, arcs, life, closed, builderVars, credVars,
                 waitVars, chan, chanCq, conn, trying, changes>>

WatchOn(q) == watch.of # None /\ chanCq[watch.of] = q
ResolveCall(q) ==
  /\ queued[q] > (IF WatchOn(q) THEN 1 ELSE 0)
  /\ Dequeue(q)
  /\ UNCHANGED <<vars, thread, mail, cqs, idx, arcs, life, closed, builderVars, credVars,
                 waitVars, chanVars>>

-----------------------------------------------------------------------------
(* gRPC core: connectivity changes, a deadline passes, and a watch ends    *)
(* when the state is another than the one last seen, or at its deadline.   *)
Steps == [IDLE |-> {}, CONNECTING |-> {"READY", "TRANSIENT_FAILURE"}, READY |-> {"IDLE"},
          TRANSIENT_FAILURE |-> {"CONNECTING"}, SHUTDOWN |-> {}]
Change(c) ==
  /\ chan[c] = "live" /\ changes < MaxChanges
  /\ \E s \in Steps[conn[c]] \cup (IF c \in trying /\ conn[c] = "IDLE"
                                   THEN {"CONNECTING"} ELSE {}) :
       conn' = [conn EXCEPT ![c] = s]
  /\ trying' = trying \ {c}
  /\ changes' = changes + 1
  /\ UNCHANGED <<vars, envVars, builderVars, credVars, waitVars, chan, chanCq, panicked>>

Expire ==
  /\ wait.at # "over" /\ ~expired
  /\ expired' = TRUE
  /\ UNCHANGED <<vars, envVars, builderVars, credVars, wait, watch, late, chanVars>>

WatchEnds ==
  /\ watch.of # None /\ watch.event = None
  /\ \E e \in Results :
       /\ IF e THEN conn[watch.of] # watch.last ELSE expired
       /\ watch' = [watch EXCEPT !.event = e]
  /\ UNCHANGED <<vars, envVars, builderVars, credVars, wait, expired, late, chanVars>>

(* The poll thread of the channel's queue: Action::resolve, then the wake. *)
ResolveWatch ==
  /\ watch.event # None
  /\ Resolve(watch.event)
  /\ Dequeue(chanCq[watch.of])
  /\ watch' = NoWatch
  /\ UNCHANGED <<thread, mail, cqs, idx, arcs, life, closed, builderVars, credVars,
                 wait, expired, late, chanVars>>

WakeTask ==
  /\ Wake
  /\ UNCHANGED <<envVars, builderVars, credVars, waitVars, chanVars>>

WakeLate(t) ==
  /\ t \in late
  /\ late' = late \ {t} /\ woken' = IF holder = t THEN woken \cup {t} ELSE woken
  /\ UNCHANGED <<result, waker, stale, tag, hand, holder, reported, got, envVars,
                 builderVars, credVars, wait, watch, expired, chanVars>>

-----------------------------------------------------------------------------
(* A handle of a new pair, or what is left of an old one: nothing.         *)
NewHandle(t) ==
  /\ result' = None /\ waker' = None /\ stale' = FALSE /\ tag' = t /\ hand' = None
  /\ reported' = None /\ got' = None

(* The task. A wait begins, of either kind: wait_for_state_change with a   *)
(* state the caller has seen, wait_for_connected with a look of its own.   *)
Begin(c, mode) ==
  /\ chan[c] = "live" /\ wait = NoWait /\ tag = "gone" /\ late = {}
  /\ wait' = [mode |-> mode, at |-> IF mode = "change" THEN "watch" ELSE "first",
              of |-> c, last |-> conn[c], ret |-> None]
  /\ expired' = FALSE
  /\ holder' = Caller /\ woken' = {Caller}
  /\ NewHandle("gone")
  /\ UNCHANGED <<envVars, builderVars, credVars, watch, late, chanVars>>

Answer(ret) == [wait EXCEPT !.at = "over", !.ret = ret]

(* check_connectivity_state(true), and what wait_for_connected makes of    *)
(* the state: its first look knows no SHUTDOWN.                            *)
Check ==
  LET state == conn[wait.of] IN
  /\ wait.at \in {"first", "check"}
  /\ wait' = CASE state = "READY" -> Answer(TRUE)
               [] state = "SHUTDOWN" /\ wait.at = "check" -> Answer(FALSE)
               [] OTHER -> [wait EXCEPT !.at = "watch", !.last = state]
  /\ trying' = IF state = "IDLE" THEN trying \cup {wait.of} ELSE trying
  /\ UNCHANGED <<vars, envVars, builderVars, credVars, watch, expired, late, chan, chanCq,
                 conn, changes, panicked>>

(* wait_for_state_change: a new pair, whose tag goes to core if the queue  *)
(* can be borrowed. The wake of the pair before may still be on its way.   *)
Watch ==
  LET q == chanCq[wait.of] IN
  /\ wait.at = "watch" /\ CanBorrow(q)
  /\ NewHandle("core")
  /\ late' = late \cup ({hand} \ {None})
  /\ watch' = [of |-> wait.of, last |-> wait.last, event |-> None]
  /\ Enqueue(q)
  /\ wait' = [wait EXCEPT !.at = "await"]
  /\ UNCHANGED <<holder, woken, thread, mail, cqs, idx, arcs, life, closed, builderVars,
                 credVars, expired, chanVars>>

WatchClosed ==
  /\ wait.at = "watch" /\ ~CanBorrow(chanCq[wait.of])
  /\ wait' = Answer(FALSE)
  /\ UNCHANGED <<vars, envVars, builderVars, credVars, watch, expired, late, chanVars>>

(* The future is polled: Pending, or the answer of the watch. A change is  *)
(* what wait_for_state_change waits for; wait_for_connected looks again.   *)
Poll(t) ==
  /\ wait.at = "await" /\ PollPending(t)
  /\ UNCHANGED <<envVars, builderVars, credVars, waitVars, chanVars>>

(* Mutant: any change will do.                                             *)
AfterWaitAny(changed) == Answer(changed)

AfterWait(changed) ==
  IF wait.mode = "connected" /\ changed
  THEN [wait EXCEPT !.at = "check"]
  ELSE Answer(changed)

PollDone(t) ==
  /\ wait.at = "await" /\ PollReady(t)
  /\ wait' = AfterWait(result)
  /\ UNCHANGED <<envVars, builderVars, credVars, watch, expired, late, chanVars>>

(* Between polls, the task may pass the future on, once, or drop it.       *)
PassOn(t) ==
  /\ wait.at = "await" /\ holder = Caller /\ Move(t)
  /\ UNCHANGED <<envVars, builderVars, credVars, waitVars, chanVars>>

DropWait ==
  /\ wait.at = "await" /\ DropFuture
  /\ wait' = NoWait
  /\ UNCHANGED <<envVars, builderVars, credVars, watch, expired, late, chanVars>>

(* The caller has its answer and may wait again, when the poll thread is   *)
(* done with the wakes: a bound, one wait at a time.                       *)
Return ==
  /\ wait # NoWait /\ wait.at = "over" /\ tag = "gone" /\ late = {}
  /\ wait' = NoWait /\ expired' = FALSE
  /\ holder' = None /\ woken' = {}
  /\ NewHandle("gone")
  /\ UNCHANGED <<envVars, builderVars, credVars, watch, late, chanVars>>
=============================================================================
