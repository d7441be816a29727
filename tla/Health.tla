--------------------------------- MODULE Health ---------------------------------
(***************************************************************************)
(* The health service (health/src/service.rs), for one service name. The   *)
(* status is kept in a map behind the lock of Inner; watchers of the name  *)
(* share a StatusCast, a word with a version and a status and a lock of    *)
(* its own for their wakers. set_serving_status writes the map under the   *)
(* first lock and the cast, after it released that lock, under the second. *)
(***************************************************************************)
EXTENDS Naturals, FiniteSets

CONSTANTS
  Setters,     \* threads that call set_serving_status
  Watchers,    \* watch calls
  Casts,       \* StatusCast objects
  Statuses,    \* the statuses a setter sets
  MaxUpdates,  \* bound on the calls of set_serving_status
  Absent

NotServing == "NotServing"
Unknown == "ServiceUnknown"
NotFound == "NotFound"

ASSUME StatusAssumption ==
  NotServing \in Statuses /\ Unknown \notin Statuses /\ NotFound \notin Statuses
ASSUME UpdatesAssumption == MaxUpdates \in Nat
ASSUME AbsentAssumption == Absent \notin Casts \cup Statuses \cup Setters \cup {Unknown}

VARIABLES
  stopped,   \* Inner.shutdown
  status,    \* Inner.status of the name, Absent while it is not in the map
  cast,      \* Inner.casts of the name, Absent while it is not in the map
  fresh,     \* the StatusCasts not created yet
  state,     \* StatusCast.state, the version apart from the status
  subs,      \* StatusCast.subscribers
  setter,    \* a setter's local variables between the two locks
  updates,   \* calls of set_serving_status so far
  watcher,   \* a watch call: its step, its cast, its last_state
  stopping,  \* the caller of shutdown: "before", or "after" it returned
  serial     \* the callers take turns in changing the status, or do not

healthVars == <<stopped, status, cast, fresh, state, subs, setter, updates, watcher, stopping, serial>>

States == [ver : Nat, st : Statuses \cup {Unknown}]
Fresh(st) == [ver |-> 1, st |-> st]
Zero == [ver |-> 0, st |-> Unknown]    \* last_state: 0 is no state of a cast
AtRest == [cast |-> Absent, st |-> Absent]

HealthInit ==
  /\ stopped = FALSE /\ status = Absent /\ cast = Absent
  /\ fresh = Casts
  /\ state = [c \in Casts |-> Zero]
  /\ subs = [c \in Casts |-> {}]
  /\ setter = [p \in Setters |-> AtRest]
  /\ updates = 0
  /\ watcher = [w \in Watchers |-> [at |-> "none", cast |-> Absent, last |-> Zero]]
  /\ stopping = "before"
  /\ serial \in BOOLEAN

InnerSame == UNCHANGED <<stopped, status, cast, fresh>>
CastSame == UNCHANGED <<state, subs>>

(* StatusCast::broadcast: a new version, and every waker is called.        *)
Broadcast(c, st) ==
  /\ state' = [state EXCEPT ![c] = [ver |-> @.ver + 1, st |-> st]]
  /\ subs' = [subs EXCEPT ![c] = {}]
  /\ watcher' = [w \in Watchers |->
       IF w \in subs[c] /\ watcher[w].at = "asleep"
       THEN [watcher[w] EXCEPT !.at = "awake"] ELSE watcher[w]]

MayCall == serial => \A p \in Setters : setter[p] = AtRest

(* set_serving_status, under the lock of Inner ...                         *)
SetStatus(p, st) ==
  /\ MayCall /\ setter[p] = AtRest /\ updates < MaxUpdates
  /\ ~stopped
  /\ status' = st
  /\ setter' = [setter EXCEPT ![p] = IF cast = Absent THEN AtRest ELSE [cast |-> cast, st |-> st]]
  /\ updates' = updates + 1
  /\ UNCHANGED <<stopped, cast, fresh, watcher, stopping>> /\ CastSame

SetIgnored(p) ==
  /\ setter[p] = AtRest /\ updates < MaxUpdates
  /\ stopped
  /\ updates' = updates + 1
  /\ UNCHANGED <<setter, watcher, stopping>> /\ InnerSame /\ CastSame

(* ... and the broadcast after it, on the cast cloned under the lock.      *)
SetBroadcast(p) ==
  /\ setter[p] # AtRest
  /\ Broadcast(setter[p].cast, setter[p].st)
  /\ setter' = [setter EXCEPT ![p] = AtRest]
  /\ UNCHANGED <<updates, stopping>> /\ InnerSame

(* Mutant: shutdown does not tell the watchers.                            *)
ShutdownSilent ==
  /\ MayCall /\ stopping = "before" /\ stopping' = "after"
  /\ stopped' = TRUE
  /\ status' = IF status = Absent THEN Absent ELSE NotServing
  /\ UNCHANGED <<cast, fresh, setter, updates, watcher>> /\ CastSame

(* shutdown does both under the lock of Inner.                             *)
Shutdown ==
  /\ MayCall /\ stopping = "before" /\ stopping' = "after"
  /\ stopped' = TRUE
  /\ status' = IF status = Absent THEN Absent ELSE NotServing
  /\ IF cast = Absent THEN CastSame /\ UNCHANGED watcher ELSE Broadcast(cast, NotServing)
  /\ UNCHANGED <<cast, fresh, setter, updates>>

-----------------------------------------------------------------------------
(* watch: join the cast of the name, or make one from the map's status.    *)
WatchJoin(w) ==
  /\ watcher[w].at = "none" /\ cast # Absent
  /\ watcher' = [watcher EXCEPT ![w].at = "awake", ![w].cast = cast]
  /\ UNCHANGED <<setter, updates, stopping>> /\ InnerSame /\ CastSame

WatchNew(w) ==
  /\ watcher[w].at = "none" /\ cast = Absent
  /\ \E c \in fresh :
       /\ cast' = c /\ fresh' = fresh \ {c}
       /\ state' = [state EXCEPT ![c] = Fresh(IF status = Absent THEN Unknown ELSE status)]
       /\ watcher' = [watcher EXCEPT ![w].at = "awake", ![w].cast = c]
  /\ UNCHANGED <<stopped, status, subs, setter, updates, stopping>>

Current(w) == state[watcher[w].cast]

(* Mutant: the statuses are compared, and not the words with the version.  *)
PollChangedStatus(w) ==
  /\ watcher[w].at \in {"awake", "locking"}
  /\ Current(w).st # watcher[w].last.st
  /\ watcher' = [watcher EXCEPT ![w].last = Current(w), ![w].at = "awake"]
  /\ UNCHANGED <<setter, updates, stopping>> /\ InnerSame /\ CastSame

(* StatusSubscriber::poll_next: without the lock first, then with it.      *)
PollChanged(w) ==
  /\ watcher[w].at \in {"awake", "locking"}
  /\ Current(w) # watcher[w].last
  /\ watcher' = [watcher EXCEPT ![w].last = Current(w), ![w].at = "awake"]
  /\ UNCHANGED <<setter, updates, stopping>> /\ InnerSame /\ CastSame

PollSame(w) ==
  /\ watcher[w].at = "awake"
  /\ Current(w) = watcher[w].last
  /\ watcher' = [watcher EXCEPT ![w].at = "locking"]
  /\ UNCHANGED <<setter, updates, stopping>> /\ InnerSame /\ CastSame

PollSubscribe(w) ==
  /\ watcher[w].at = "locking"
  /\ Current(w) = watcher[w].last
  /\ subs' = [subs EXCEPT ![watcher[w].cast] = @ \cup {w}]
  /\ watcher' = [watcher EXCEPT ![w].at = "asleep"]
  /\ UNCHANGED <<state, setter, updates, stopping>> /\ InnerSame

(* The client left, send_all returns: the subscriber is dropped ...        *)
Leave(w) ==
  /\ watcher[w].at \in {"awake", "asleep"}
  /\ subs' = [subs EXCEPT ![watcher[w].cast] = @ \ {w}]
  /\ watcher' = [watcher EXCEPT ![w].at = "leaving", ![w].cast = Absent]
  /\ UNCHANGED <<state, setter, updates, stopping>> /\ InnerSame

(* ... and a cast that only the map refers to is removed.                  *)
Referrers(c) ==
  {w \in Watchers : watcher[w].cast = c} \cup {p \in Setters : setter[p].cast = c}

Cleanup(w) ==
  /\ watcher[w].at = "leaving"
  /\ cast' = IF cast # Absent /\ Referrers(cast) = {} THEN Absent ELSE cast
  /\ watcher' = [watcher EXCEPT ![w].at = "gone"]
  /\ UNCHANGED <<stopped, status, fresh, setter, updates, stopping>> /\ CastSame

(* check answers with the status in the map, or fails with NOT_FOUND.      *)
Check == IF status = Absent THEN NotFound ELSE status

HealthAction ==
  \/ \E p \in Setters :
       (\E st \in Statuses : SetStatus(p, st)) \/ SetIgnored(p) \/ SetBroadcast(p)
  \/ Shutdown
  \/ \E w \in Watchers :
       \/ WatchJoin(w) \/ WatchNew(w)
       \/ PollChanged(w) \/ PollSame(w) \/ PollSubscribe(w)
       \/ Leave(w) \/ Cleanup(w)

HealthNext == HealthAction /\ UNCHANGED serial

HealthSpec == HealthInit /\ [][HealthNext]_healthVars

(* A thread between the two locks goes on, a stream that was woken is      *)
(* polled, and the task of a client that left finishes.                    *)
HealthFairness ==
  /\ \A p \in Setters : WF_healthVars(SetBroadcast(p) /\ UNCHANGED serial)
  /\ \A w \in Watchers :
       /\ WF_healthVars((PollChanged(w) \/ PollSame(w) \/ PollSubscribe(w)) /\ UNCHANGED serial)
       /\ WF_healthVars(Cleanup(w) /\ UNCHANGED serial)

-----------------------------------------------------------------------------
HealthTypeOK ==
  /\ stopped \in BOOLEAN
  /\ status \in Statuses \cup {Absent}
  /\ cast \in Casts \cup {Absent}
  /\ fresh \subseteq Casts
  /\ state \in [Casts -> States]
  /\ subs \in [Casts -> SUBSET Watchers]
  /\ setter \in [Setters -> [cast : Casts \cup {Absent}, st : Statuses \cup {Absent}]]
  /\ updates \in 0..MaxUpdates
  /\ watcher \in [Watchers -> [at : {"none", "awake", "locking", "asleep", "leaving", "gone"},
                               cast : Casts \cup {Absent}, last : States]]
  /\ stopping \in {"before", "after"}
  /\ serial \in BOOLEAN

(* What the watchers of a name are shown is what check answers, once no    *)
(* set_serving_status is on its way between the two locks, provided        *)
(* that the callers of set_serving_status and shutdown took turns: nothing *)
(* in service.rs:127-164 orders the broadcasts of two that overlap.        *)
CastAgreesWithMap ==
  serial /\ cast # Absent /\ Check # NotFound /\ (\A p \in Setters : setter[p] = AtRest)
    => state[cast].st = Check

(* Every watcher that stays sees the latest state of its cast.             *)
WatcherCatchesUp ==
  \A w \in Watchers :
    []<>(watcher[w].cast = Absent \/ watcher[w].last = Current(w))

(* shutdown "sets all serving status to NotServing, and configures the     *)
(* server to ignore all future status changes" (service.rs:150-151): after *)
(* it returned no watcher is shown another status.                         *)
ShutdownSticks ==
  [][stopping = "after" =>
       \A c \in Casts : state[c].ver > 0 /\ state'[c] # state[c] => state'[c].st = NotServing]_healthVars
=============================================================================
