----------------------------- MODULE EndpointsProofs -----------------------------
(***************************************************************************)
(* Proofs about Endpoints, for any poll threads, channels, binders, pairs  *)
(* of certificates, tasks and options of a channel, and about the Promise  *)
(* that a wait rests on.                                                   *)
(***************************************************************************)
EXTENDS Endpoints, FiniteSetTheorems, TLAPS

-----------------------------------------------------------------------------
(* Tables: the setters of ChannelBuilder, and core's connectivity states.  *)

(* Where no two entries of a table share core's name, and none of one has  *)
(* a name of the other's, no two of both do.                               *)
Distinct(f) == \A s, t \in DOMAIN f : f[s][1] = f[t][1] => s = t
Apart(f, g) == \A s \in DOMAIN f, t \in DOMAIN g : f[s][1] # g[t][1] /\ s # t
LEMMA MergedDistinct ==
  ASSUME NEW f, NEW g, Distinct(f), Distinct(g), Apart(f, g) PROVE Distinct(Merged(f, g))
<1>1. PICK m : m = Merged(f, g)
  OBVIOUS
<1>2. /\ DOMAIN m = DOMAIN f \cup DOMAIN g
      /\ \A k \in DOMAIN f : m[k] = f[k]
      /\ \A k \in DOMAIN g : k \notin DOMAIN f => m[k] = g[k]
  BY <1>1, Zenon DEF Merged
<1>3. ASSUME NEW s \in DOMAIN m, NEW t \in DOMAIN m, m[s][1] = m[t][1] PROVE s = t
  <2>1. CASE s \in DOMAIN f /\ t \in DOMAIN f
    BY <1>2, <1>3, <2>1, Zenon DEF Distinct
  <2>2. CASE s \notin DOMAIN f /\ t \notin DOMAIN f
    <3>1. m[t] = g[t] /\ m[s] = g[s] /\ s \in DOMAIN g /\ t \in DOMAIN g
      BY <1>2, <2>2, Zenon
    <3> QED
      BY <1>3, <3>1, Zenon DEF Distinct
  <2>3. CASE s \in DOMAIN f /\ t \notin DOMAIN f
    <3>1. m[s] = f[s] /\ m[t] = g[t] /\ t \in DOMAIN g
      BY <1>2, <2>3, Zenon
    <3>2. f[s][1] # g[t][1]
      BY <2>3, <3>1, Zenon DEF Apart
    <3> QED
      BY <1>3, <3>1, <3>2, Zenon
  <2>4. CASE s \notin DOMAIN f /\ t \in DOMAIN f
    <3>1. m[t] = f[t] /\ m[s] = g[s] /\ s \in DOMAIN g
      BY <1>2, <2>4, Zenon
    <3>2. f[t][1] # g[s][1]
      BY <2>4, <3>1, Zenon DEF Apart
    <3> QED
      BY <1>3, <3>1, <3>2, Zenon
  <2> QED
    BY <2>1, <2>2, <2>3, <2>4, Zenon
<1> QED
  BY <1>1, <1>3, Zenon DEF Distinct

(* A table laid over two others.                                           *)
LEMMA MergedApart ==
  ASSUME NEW f, NEW g, NEW h, Apart(f, g), Apart(f, h) PROVE Apart(f, Merged(g, h))
<1>1. PICK m : m = Merged(g, h)
  OBVIOUS
<1>2. /\ DOMAIN m = DOMAIN g \cup DOMAIN h
      /\ \A k \in DOMAIN g : m[k] = g[k]
      /\ \A k \in DOMAIN h : k \notin DOMAIN g => m[k] = h[k]
  BY <1>1, Zenon DEF Merged
<1>3. ASSUME NEW s \in DOMAIN f, NEW t \in DOMAIN m PROVE f[s][1] # m[t][1] /\ s # t
  <2>1. CASE t \in DOMAIN g
    <3>1. f[s][1] # g[t][1] /\ s # t /\ m[t] = g[t]
      BY <1>2, <2>1, Zenon DEF Apart
    <3> QED
      BY <3>1, Zenon
  <2>2. CASE t \notin DOMAIN g
    <3>1. f[s][1] # h[t][1] /\ s # t /\ m[t] = h[t]
      BY <1>2, <2>2, ZenonT(60) DEF Apart
    <3> QED
      BY <3>1, Zenon
  <2> QED
    BY <2>1, <2>2, Zenon
<1> QED
  BY <1>1, <1>3, Zenon DEF Apart

(* No two setters of ChannelBuilder write one option (channel.rs:87-374).  *)
LEMMA SettersDistinct == Distinct(Setters)
<1>1. Distinct(Limits) /\ Distinct(Policies) /\ Distinct(Ssl)
  BY SMTT(60) DEF Distinct, Limits, Policies, Ssl
<1>2. Distinct(Transport)
  BY SMT DEF Distinct, Transport
<1>3. Distinct(Pings)
  BY SMT DEF Distinct, Pings
<1>4. Apart(Policies, Ssl)
  BY SMTT(60) DEF Apart, Policies, Ssl
<1>5. Apart(Pings, Policies) /\ Apart(Pings, Ssl)
  BY SMTT(60) DEF Apart, Pings, Policies, Ssl
<1>6. Apart(Transport, Pings)
  BY SMTT(60) DEF Apart, Transport, Pings
<1>7. Apart(Transport, Policies) /\ Apart(Transport, Ssl)
  BY SMTT(60) DEF Apart, Transport, Policies, Ssl
<1>8. Apart(Limits, Transport)
  BY SMTT(60) DEF Apart, Limits, Transport
<1>9. Apart(Limits, Pings)
  BY SMTT(60) DEF Apart, Limits, Pings
<1>10. Apart(Limits, Policies) /\ Apart(Limits, Ssl)
  BY SMT DEF Apart, Limits, Policies, Ssl
<1>11. Distinct(Merged(Policies, Ssl)) /\ Apart(Pings, Merged(Policies, Ssl))
       /\ Apart(Transport, Merged(Policies, Ssl)) /\ Apart(Limits, Merged(Policies, Ssl))
  BY <1>1, <1>4, <1>5, <1>7, <1>10, MergedDistinct, MergedApart, Zenon
<1>12. Distinct(Merged(Pings, Merged(Policies, Ssl)))
       /\ Apart(Transport, Merged(Pings, Merged(Policies, Ssl))) /\ Apart(Limits, Merged(Pings, Merged(Policies, Ssl)))
  BY <1>3, <1>6, <1>9, <1>11, MergedDistinct, MergedApart, Zenon
<1>13. Distinct(Merged(Transport, Merged(Pings, Merged(Policies, Ssl))))
       /\ Apart(Limits, Merged(Transport, Merged(Pings, Merged(Policies, Ssl))))
  BY <1>2, <1>8, <1>12, MergedDistinct, MergedApart, Zenon
<1> QED
  BY <1>1, <1>13, MergedDistinct, Zenon DEF Setters

(* Core takes a channel from a state to another, never to SHUTDOWN.        *)
LEMMA StepsOf ==
  ASSUME NEW a \in ConnStates PROVE Steps[a] \subseteq ConnStates \ {"SHUTDOWN"}
BY SMT DEF Steps, ConnStates

-----------------------------------------------------------------------------
(* The handle that a future and a tag share.                               *)

(* A fresh pair of future and tag satisfies the inductive invariant.       *)
LEMMA PromiseInit == Init => IInv
<1> SUFFICES ASSUME Init PROVE IInv
  BY Zenon
<1> USE DEF Init
<1>1. TypeOK
  BY NoneAssumption, Zenon DEF TypeOK
<1>2. NoLostWakeup /\ DeliveredOnce
  BY NoneAssumption, Zenon DEF NoLostWakeup, Asleep, DeliveredOnce
<1> QED
  BY <1>1, <1>2, Zenon DEF IInv

(* Every step of a task, of the poll thread and of core preserves it.      *)
LEMMA PromiseStep == IInv /\ [Next]_vars => IInv'
<1> SUFFICES ASSUME IInv, [Next]_vars PROVE IInv'
  BY Zenon
<1> USE NoneAssumption DEF IInv, TypeOK, NoLostWakeup, Asleep, DeliveredOnce
<1>1. ASSUME NEW t \in Tasks, PollPending(t) PROVE IInv'
  BY <1>1, Zenon DEF PollPending
<1>2. ASSUME NEW t \in Tasks, PollReady(t) PROVE IInv'
  BY <1>2, Zenon DEF PollReady
<1>3. ASSUME NEW t \in Tasks, Move(t) PROVE IInv'
  BY <1>3, Zenon DEF Move
<1>4. ASSUME NEW r \in Results, Resolve(r) PROVE IInv'
  BY <1>4, Zenon DEF Resolve, SetResult
<1>5. CASE Wake
  BY <1>5, Zenon DEF Wake
<1>6. CASE DropFuture
  BY <1>6, Zenon DEF DropFuture
<1>7. CASE UNCHANGED vars
  BY <1>7, Zenon DEF vars
<1> QED
  BY <1>1, <1>2, <1>3, <1>4, <1>5, <1>6, <1>7, Zenon DEF Next, Over

(* The inductive invariant of the promise holds in every behaviour.        *)
THEOREM Invariance == Spec => []IInv
BY PromiseInit, PromiseStep, PTL DEF Spec

(* The handle, the tag and the tasks keep their types.                     *)
THEOREM TypeCorrect == Spec => []TypeOK
<1>1. IInv => TypeOK
  BY Zenon DEF IInv
<1> QED
  BY <1>1, Invariance, PTL

(* No interleaving of poll, of a move to another task and of the two       *)
(* halves of a resolve loses the wakeup of the task that holds the future. *)
THEOREM WakeupKept == Spec => []NoLostWakeup
<1>1. IInv => NoLostWakeup
  BY Zenon DEF IInv
<1> QED
  BY <1>1, Invariance, PTL

(* poll returns what core reported, and returns it once.                   *)
THEOREM DeliveryOnce == Spec => []DeliveredOnce
<1>1. IInv => DeliveredOnce
  BY Zenon DEF IInv
<1> QED
  BY <1>1, Invariance, PTL

-----------------------------------------------------------------------------
(* The Environment and its users.                                          *)

ServerUses == {"open", "bind", "register", "built", "serving"}

(* Why the queues of a user are open: a queue is closed only when the      *)
(* Environment is being dropped, which is after its last Arc went, and     *)
(* everything that needs a queue holds an Arc.                             *)
ArcInv ==
  /\ life \in {"building", "up"} => closed = {}
  /\ life # "up" => arcs = {}
  /\ \A c \in Chans : chan[c] \in {"building", "live", "destroyed"} => c \in arcs
  /\ at \in ServerUses => ServerArc \in arcs
  /\ chan \in [Chans -> {"none", "building", "live", "destroyed", "gone"}]
  /\ life \in {"building", "up", "dropping", "dropped"}

(* While an Arc of the Environment is held, no queue is closed.            *)
LEMMA HeldOpen == ASSUME ArcInv, NEW u, u \in arcs PROVE closed = {}
BY Zenon DEF ArcInv

(* An Environment that is being built has no users.                        *)
LEMMA ArcInit == EndpointsInit => ArcInv
BY DEF EndpointsInit, ChannelInit, SetupInit, EnvInit, ArcInv, ServerUses

(* What the Arcs depend on.                                                *)
ArcVars == <<closed, life, arcs, chan, at>>

(* A step that changes none of it.                                         *)
LEMMA ArcSame == ASSUME ArcInv, UNCHANGED ArcVars PROVE ArcInv'
BY Zenon DEF ArcInv, ArcVars

(* The steps that give an Arc back, and what they do to the users.         *)
LEMMA ArcBack ==
  ASSUME ArcInv, NEW u, Unref(u), UNCHANGED closed,
         \/ u = Owner /\ UNCHANGED <<chan, at>>
         \/ u \in Chans /\ chan[u] = "destroyed" /\ chan' = [chan EXCEPT ![u] = "gone"] /\ UNCHANGED at
         \/ u = ServerArc /\ at' \notin ServerUses /\ UNCHANGED chan
  PROVE  ArcInv'
<1> USE ArcsAssumption, UsersAssumption
<1>1. /\ life' \in {"building", "up"} => closed' = {}
      /\ life' # "up" => arcs' = {}
      /\ life' \in {"building", "up", "dropping", "dropped"}
  BY Zenon DEF Unref, ArcInv
<1>2. chan' \in [Chans -> {"none", "building", "live", "destroyed", "gone"}]
  BY Zenon DEF ArcInv
<1>3. \A c \in Chans : chan'[c] \in {"building", "live", "destroyed"} => c \in arcs'
  BY Zenon DEF Unref, ArcInv
<1>4. at' \in ServerUses => ServerArc \in arcs'
  BY Zenon DEF Unref, ArcInv
<1> QED
  BY <1>1, <1>2, <1>3, <1>4, Zenon DEF ArcInv

(* The life of the Environment: it is built, and its queues are closed.    *)
LEMMA ArcEnv == ASSUME ArcInv, MakeEnv PROVE ArcInv'
<1> USE DEF ChannelRest, chanVars, setupVars
<1>1. CASE RecvQueue(Owner)
  BY <1>1, Zenon DEF MakeEnv, RecvQueue, ArcInv, ServerUses
<1>2. CASE CloseQueue
  BY <1>2, Zenon DEF MakeEnv, CloseQueue, ArcInv
<1>3. CASE \E t \in Threads :
             Spawn(t) \/ AfterStart(t) \/ SendQueue(t) \/ QueueShutdown(t) \/ BeforeStop(t)
  BY <1>3, ArcSame, Zenon DEF MakeEnv, Spawn, AfterStart, SendQueue, QueueShutdown, BeforeStop,
     ArcVars
<1> QED
  BY <1>1, <1>2, <1>3, Zenon DEF MakeEnv, EnvNext

(* Channels come and go.                                                   *)
LEMMA ArcChannels == ASSUME ArcInv, Channels, UNCHANGED setupVars PROVE ArcInv'
<1> USE DEF setupVars, ArcVars
<1>1. ASSUME NEW c \in Chans, Connect(c, creds = "live") PROVE ArcInv'
  BY <1>1, Zenon DEF Connect, KeepEnv, ArcInv
<1>2. ASSUME NEW c \in Chans, NewBuilder(c) PROVE ArcInv'
  BY <1>2, Zenon DEF NewBuilder, ArcInv
<1>3. ASSUME NEW c \in Chans, DropChannel(c) PROVE ArcInv'
  BY <1>3, Zenon DEF DropChannel, ArcInv, envVars
<1>4. ASSUME NEW c \in Chans, DropEnvArc(c) PROVE ArcInv'
  BY <1>4, ArcBack, Zenon DEF DropEnvArc
<1>5. ASSUME NEW c \in Busy, StartCall(c) \/ Change(c) \/ (\E mode \in {"change", "connected"} : Begin(c, mode))
      PROVE  ArcInv'
  BY <1>5, ArcSame, Zenon DEF StartCall, Change, Begin, envVars, chanVars
<1>6. ASSUME NEW q \in Threads, ResolveCall(q) PROVE ArcInv'
  BY <1>6, ArcSame, Zenon DEF ResolveCall, chanVars
<1>7. CASE Expire \/ WatchEnds \/ ResolveWatch \/ WakeTask \/ (\E t \in Tasks : WakeLate(t))
  BY <1>7, ArcSame, Zenon DEF Expire, WatchEnds, ResolveWatch, WakeTask, WakeLate, envVars, chanVars
<1>8. CASE Check \/ Watch \/ WatchClosed \/ DropWait \/ Return
  BY <1>8, ArcSame, Zenon DEF Check, Watch, WatchClosed, DropWait, Return, envVars, chanVars
<1>9. ASSUME NEW t \in Tasks, Poll(t) \/ PollDone(t) \/ PassOn(t) PROVE ArcInv'
  BY <1>9, ArcSame, Zenon DEF Poll, PollDone, PassOn, envVars, chanVars
<1> QED
  BY <1>1, <1>2, <1>3, <1>4, <1>5, <1>6, <1>7, <1>8, <1>9, SMTT(60) DEF Channels

(* A server is built, serves and goes.                                     *)
LEMMA ArcServe == ASSUME ArcInv, Serve, ChannelRest PROVE ArcInv'
<1> USE DEF ChannelRest, chanVars, ArcVars, envVars
<1>1. CASE NewServerBuilder(Owner) /\ life = "up"
  BY <1>1, Zenon DEF NewServerBuilder, EnvRest, ArcInv
<1>2. ASSUME NEW how, Bind(how) PROVE ArcInv'
  BY <1>2, ArcSame, Zenon DEF Bind
<1>3. ASSUME NEW m, NEW type, AddHandler(m, type) PROVE ArcInv'
  BY <1>3, ArcSame, Zenon DEF AddHandler
<1>4. CASE CreateServer \/ BindPort \/ BindDone \/ Start
  BY <1>4, Zenon DEF CreateServer, BindPort, BindDone, Start, ArcInv, ServerUses
<1>5. CASE BindFail
  BY <1>5, ArcBack, Zenon DEF BindFail, EnvRest, ServerUses
<1>6. CASE Register
  <2>1. CASE UNCHANGED <<arcs, life>> /\ at' \in {"register", "built"}
    BY <1>6, <2>1, Zenon DEF Register, EnvRest, ArcInv, ServerUses
  <2>2. CASE at' = "failed" /\ Unref(ServerArc)
    BY <1>6, <2>2, ArcBack, Zenon DEF Register, EnvRest, ServerUses
  <2> QED
    BY <1>6, <2>1, <2>2, Zenon DEF Register
<1>7. CASE DropServer
  BY <1>7, ArcBack, Zenon DEF DropServer, EnvRest, ServerUses
<1>8. CASE DropServerCore
  BY <1>8, Zenon DEF DropServerCore, ArcInv, ServerUses
<1>9. ASSUME NEW q \in Threads, RetireSlot(q) PROVE ArcInv'
  BY <1>9, ArcSame, Zenon DEF RetireSlot
<1> QED
  BY <1>1, <1>2, <1>3, <1>4, <1>5, <1>6, <1>7, <1>8, <1>9 DEF Serve

(* Every step of the process keeps the Arcs' invariant.                    *)
LEMMA ArcStep == ASSUME ArcInv, [EndpointsNext]_allVars PROVE ArcInv'
<1> USE DEF ArcVars, envVars, chanVars, setupVars, channelVars
<1>1. CASE MakeCreds
  BY <1>1, ArcSame, Zenon DEF MakeCreds, ChannelRest
<1>2. CASE Configure
  BY <1>2, ArcSame, Zenon DEF Configure
<1>3. CASE DropOwner /\ UNCHANGED setupVars
  BY <1>3, ArcBack, Zenon DEF DropOwner
<1>4. CASE UNCHANGED allVars
  BY <1>4, ArcSame, Zenon DEF allVars
<1> QED
  BY <1>1, <1>2, <1>3, <1>4, ArcEnv, ArcChannels, ArcServe, Zenon DEF EndpointsNext, Ended

(* No user of a queue that it needs unwraps a QueueShutdown.               *)
LEMMA NoUnwrap == ASSUME ArcInv, ~panicked, [EndpointsNext]_allVars PROVE ~panicked'
<1>1. ASSUME NEW c \in Chans, StartCall(c) PROVE panicked' = panicked
  <2>1. closed = {}
    BY <1>1, HeldOpen, Zenon DEF StartCall, ArcInv
  <2>2. CanBorrow(chanCq[c])
    BY <2>1, Zenon DEF CanBorrow
  <2> QED
    BY <1>1, <2>2, Zenon DEF StartCall
<1>2. CASE \A c \in Busy : ~StartCall(c)
  <2>1. CASE Channels
    <3> USE DEF chanVars
    <3>1. CASE \E c \in Chans : Connect(c, creds = "live") \/ NewBuilder(c) \/ DropChannel(c) \/ DropEnvArc(c)
      BY <3>1, Zenon DEF Connect, NewBuilder, DropChannel, DropEnvArc
    <3>2. CASE \E c \in Busy : Change(c) \/ \E mode \in {"change", "connected"} : Begin(c, mode)
      BY <3>2, Zenon DEF Change, Begin
    <3>3. CASE (\E q \in Threads : ResolveCall(q)) \/ Expire \/ WatchEnds \/ ResolveWatch
      BY <3>3, Zenon DEF ResolveCall, Expire, WatchEnds, ResolveWatch
    <3>4. CASE WakeTask \/ (\E t \in Tasks : WakeLate(t)) \/ Check \/ Watch \/ WatchClosed \/ DropWait \/ Return
      BY <3>4, Zenon DEF WakeTask, WakeLate, Check, Watch, WatchClosed, DropWait, Return
    <3>5. CASE \E t \in Tasks : Poll(t) \/ PollDone(t) \/ PassOn(t)
      BY <3>5, Zenon DEF Poll, PollDone, PassOn
    <3> QED
      BY <1>2, <2>1, <3>1, <3>2, <3>3, <3>4, <3>5 DEF Channels
  <2>2. CASE MakeCreds \/ MakeEnv \/ ChannelRest \/ Configure \/ DropOwner \/ Ended \/ UNCHANGED allVars
    BY <2>2, Zenon DEF MakeCreds, MakeEnv, ChannelRest, Configure, DropOwner, Ended, chanVars,
       allVars,
       channelVars
  <2> QED
    BY <2>1, <2>2, Zenon DEF EndpointsNext
<1> QED
  BY <1>1, <1>2, ChansAssumption, Zenon

(* As long as a channel or a server is there, the queues of the            *)
(* Environment are open, and neither Client::new nor Server::shutdown      *)
(* unwraps an error, in whatever order the Arcs are dropped                *)
(* (client.rs:26, channel.rs:614-628, server.rs:562).                      *)
THEOREM QueuesOpen == EndpointsSpec => []UsersHaveQueues
<1>1. EndpointsInit => ArcInv /\ ~panicked
  BY ArcInit, Zenon DEF EndpointsInit, ChannelInit
<1>2. ArcInv /\ ~panicked /\ [EndpointsNext]_allVars => (ArcInv /\ ~panicked)'
  BY ArcStep, NoUnwrap, Zenon
<1>3. ArcInv /\ ~panicked => UsersHaveQueues
  BY HeldOpen, Zenon DEF ArcInv, UsersHaveQueues, ServerUses
<1> QED
  BY <1>1, <1>2, <1>3, PTL DEF EndpointsSpec

-----------------------------------------------------------------------------
(* The credential builders.                                                *)

BuilderAt == {"open", "create", "reclaim", "built", "gone"}

(* Why nothing is lost: outside of build the root is not raw, the server's *)
(* builder has only raw pairs, the channel's has at most one pair, which   *)
(* is raw only during build; and a pair can be replaced only by a second   *)
(* call.                                                                   *)
CredInv ==
  /\ cb \in [kind : {"channel", "server"}, at : BuilderAt, root : {"none", "owned", "raw"},
             pairs : Seq({"owned", "raw"}), given : Nat]
  /\ Len(cb.pairs) <= cb.given
  /\ cb.at \in {"open", "built", "gone"} => cb.root # "raw"
  /\ cb.kind = "server" => \A i \in DOMAIN cb.pairs : cb.pairs[i] = "raw"
  /\ cb.kind = "channel" =>
       /\ Len(cb.pairs) <= 1
       /\ cb.at \in {"open", "built"} => \A i \in DOMAIN cb.pairs : cb.pairs[i] = "owned"
  /\ SecretsReclaimed

(* A new builder has nothing to give back.                                 *)
LEMMA CredStart == EndpointsInit => CredInv
<1> SUFFICES ASSUME EndpointsInit PROVE CredInv
  OBVIOUS
<1>1. PICK k \in {"channel", "server"} : cb = Builder(k)
  BY Zenon DEF EndpointsInit, CredInit
<1>2. dirty = {} /\ leaked = 0
  BY Zenon DEF EndpointsInit, CredInit
<1> QED
  BY <1>1, <1>2 DEF CredInv, SecretsReclaimed, Builder, BuilderAt

(* Every call on a builder keeps the invariant: the key goes to            *)
(* CString::new in a buffer with room, and what became raw comes back.     *)
LEMMA CredCalls == ASSUME CredInv, CredNext PROVE CredInv'
<1> DEFINE T == [kind : {"channel", "server"}, at : BuilderAt, root : {"none", "owned", "raw"},
                 pairs : Seq({"owned", "raw"}), given : Nat]
<1>t. /\ cb \in T /\ leaked = 0
      /\ cb.pairs \in Seq({"owned", "raw"}) /\ cb.given \in Nat /\ cb.root \in {"none", "owned", "raw"}
      /\ cb.at \in BuilderAt /\ cb.kind \in {"channel", "server"}
  BY Zenon DEF CredInv, SecretsReclaimed
<1>k. ASSUME NEW spare \in Spares, NEW moves \in BOOLEAN PROVE KeyCString(spare, moves) \subseteq {"shrunk"}
  <2> DEFINE n == IF spare = 0 THEN 1 ELSE spare
  <2>1. n # 0
    BY DEF Spares
  <2> HIDE DEF n
  <2>2. NewCString(n, moves) \subseteq {"shrunk"}
    BY <2>1, Zenon DEF NewCString
  <2> QED
    BY <2>2, Zenon DEF KeyCString, n
<1>1. CASE RootCert
  <2>1. /\ cb' \in T /\ cb'.kind = cb.kind /\ cb'.at = "open" /\ cb.at = "open" /\ cb'.root = "owned"
        /\ cb'.pairs = cb.pairs /\ cb'.given = cb.given
    BY <1>1, <1>t, Zenon DEF RootCert
  <2>2. dirty' = {} /\ leaked' = 0
    BY <1>1, <1>t, Zenon DEF RootCert
  <2> QED
    BY <2>1, <2>2, <1>t DEF CredInv, SecretsReclaimed
<1>3. ASSUME NEW spare \in Spares, NEW moves \in BOOLEAN, AddCert(spare, moves) PROVE CredInv'
  <2> DEFINE P == Append(cb.pairs, "raw")
             G == cb.given + 1
  <2>p. P \in Seq({"owned", "raw"}) /\ G \in Nat
    BY <1>t
  <2>q. cb.kind = "server" /\ cb.at = "open" /\ cb' = [cb EXCEPT !.pairs = P, !.given = G]
    BY <1>3, Zenon DEF AddCert
  <2> HIDE DEF P, G
  <2>1. /\ cb' \in T /\ cb'.kind = "server" /\ cb.kind = "server" /\ cb'.at = "open" /\ cb.at = "open"
        /\ cb'.root = cb.root /\ cb'.pairs = P /\ cb'.given = G
    BY <2>p, <2>q, <1>t, Zenon
  <2>2. dirty' \subseteq {"shrunk"} /\ leaked' = 0
    BY <1>3, <1>t, <1>k, Zenon DEF AddCert
  <2>3. Len(cb'.pairs) = Len(cb.pairs) + 1 /\ \A i \in DOMAIN cb'.pairs : cb'.pairs[i] = "raw"
    BY <2>1, <1>t DEF CredInv, P
  <2> QED
    BY <2>1, <2>2, <2>3, <1>t DEF CredInv, SecretsReclaimed, G
<1>4. ASSUME NEW spare \in Spares, NEW moves \in BOOLEAN, Cert(spare, moves) PROVE CredInv'
  <2> DEFINE P == <<"owned">>
             G == cb.given + 1
  <2>p. P \in Seq({"owned", "raw"}) /\ G \in Nat
    BY <1>t
  <2>q. cb.kind = "channel" /\ cb.at = "open" /\ cb' = [cb EXCEPT !.pairs = P, !.given = G]
    BY <1>4, Zenon DEF Cert
  <2> HIDE DEF P, G
  <2>1. /\ cb' \in T /\ cb'.kind = "channel" /\ cb.kind = "channel" /\ cb'.at = "open" /\ cb.at = "open"
        /\ cb'.root = cb.root /\ cb'.pairs = P /\ cb'.given = G
    BY <2>p, <2>q, <1>t, Zenon
  <2>2. /\ dirty' \subseteq {"shrunk", "replaced"} /\ leaked' = 0
        /\ "replaced" \in dirty' => cb.pairs # <<>>
    <3>1. dirty' = KeyCString(spare, moves) \cup (IF cb.pairs = <<>> THEN {} ELSE {"replaced"}) /\ leaked' = 0
      BY <1>4, <1>t, Zenon DEF Cert
    <3>2. KeyCString(spare, moves) \subseteq {"shrunk"} /\ "replaced" # "shrunk"
      BY <1>k, Zenon
    <3> QED
      BY <3>1, <3>2, Zenon
  <2>3. Len(cb'.pairs) = 1 /\ \A i \in DOMAIN cb'.pairs : cb'.pairs[i] = "owned"
    BY <2>1 DEF P
  <2>4. Len(cb.pairs) \in Nat /\ Len(cb.pairs) <= cb.given /\ (cb.pairs # <<>> => Len(cb.pairs) # 0)
        /\ cb.root # "raw"
    BY <2>1, <1>t DEF CredInv
  <2> QED
    BY <2>1, <2>2, <2>3, <2>4, <1>t DEF CredInv, SecretsReclaimed, G
<1>5. CASE IntoRaw
  <2> DEFINE P == [i \in DOMAIN cb.pairs |-> Raw(cb.pairs[i])]
             R == Raw(cb.root)
  <2>p. P \in Seq({"owned", "raw"}) /\ R \in {"none", "raw"}
    BY <1>t DEF Raw
  <2>q. cb' = [cb EXCEPT !.at = "create", !.root = R, !.pairs = P]
    BY <1>5, Zenon DEF IntoRaw
  <2> HIDE DEF P, R
  <2>1. /\ cb' \in T /\ cb'.kind = cb.kind /\ cb'.at = "create" /\ cb'.given = cb.given
        /\ cb'.pairs = P
    BY <2>p, <2>q, <1>t, Zenon DEF BuilderAt
  <2>2. dirty' = {} /\ leaked' = 0
    BY <1>5, <1>t, Zenon DEF IntoRaw
  <2>3. Len(cb'.pairs) = Len(cb.pairs) /\ \A i \in DOMAIN cb'.pairs : cb'.pairs[i] = "raw"
    BY <2>1, <1>t DEF P, Raw
  <2> QED
    BY <2>1, <2>2, <2>3, <1>t DEF CredInv, SecretsReclaimed
<1>6. CASE Create
  <2>1. /\ cb' \in T /\ cb'.kind = cb.kind /\ cb'.at = "reclaim" /\ cb'.given = cb.given
        /\ cb'.pairs = cb.pairs /\ cb.at = "create"
    BY <1>6, <1>t, Zenon DEF Create, BuilderAt
  <2>2. dirty' = dirty /\ leaked' = 0
    BY <1>6, <1>t, Zenon DEF Create
  <2> QED
    BY <2>1, <2>2, <1>t, Zenon DEF CredInv, SecretsReclaimed
<1>7. CASE Reclaim
  <2>1. cb.at = "reclaim" /\ dirty' = dirty /\ leaked' = 0
    BY <1>7, <1>t, Zenon DEF Reclaim
  <2>2. CASE cb.kind = "server"
    <3>1. /\ cb' \in T /\ cb'.kind = "server" /\ cb'.at = "built" /\ cb'.given = cb.given
          /\ cb'.pairs = cb.pairs /\ cb'.root = "none"
      BY <1>7, <2>2, <1>t, Zenon DEF Reclaim, BuilderAt
    <3> QED
      BY <3>1, <2>1, <2>2, <1>t, Zenon DEF CredInv, SecretsReclaimed
  <2>3. CASE cb.kind = "channel"
    <3> DEFINE P == [i \in DOMAIN cb.pairs |-> "owned"]
               R == IF cb.root = "none" THEN "none" ELSE "owned"
    <3>p. P \in Seq({"owned", "raw"}) /\ R \in {"none", "owned"}
      BY <1>t
    <3>q. cb' = [cb EXCEPT !.at = "built", !.root = R, !.pairs = P]
      BY <1>7, <2>3, Zenon DEF Reclaim
    <3> HIDE DEF P, R
    <3>1. /\ cb' \in T /\ cb'.kind = "channel" /\ cb'.at = "built" /\ cb'.given = cb.given
          /\ cb'.pairs = P /\ cb'.root \in {"none", "owned"}
      BY <3>p, <3>q, <2>3, <1>t, Zenon DEF BuilderAt
    <3>2. Len(cb'.pairs) = Len(cb.pairs) /\ \A i \in DOMAIN cb'.pairs : cb'.pairs[i] = "owned"
      BY <3>1, <1>t DEF P
    <3> QED
      BY <3>1, <3>2, <2>1, <2>3, <1>t, Zenon DEF CredInv, SecretsReclaimed
  <2> QED
    BY <2>2, <2>3, <1>t, Zenon
<1>8. CASE DropBuilder
  <2>0. cb.at \in {"open", "built"} /\ dirty' = {} /\ cb' = [Builder(cb.kind) EXCEPT !.at = "gone"]
    BY <1>8, Zenon DEF DropBuilder
  <2>1. {i \in DOMAIN cb.pairs : cb.pairs[i] # Freed(cb.kind)} = {} /\ cb.root # "raw"
    BY <2>0, <1>t, Zenon DEF CredInv, Freed
  <2>2. Cardinality({i \in DOMAIN cb.pairs : cb.pairs[i] # Freed(cb.kind)}) = 0
    BY <2>1, FS_EmptySet, Zenon
  <2>3. leaked' = 0
    BY <1>8, <1>t, <2>1, <2>2 DEF DropBuilder
  <2>q. cb' = [kind |-> cb.kind, at |-> "gone", root |-> "none", pairs |-> <<>>, given |-> 0]
    BY <2>0, Zenon DEF Builder
  <2>4. /\ cb' \in T /\ cb'.kind = cb.kind /\ cb'.at = "gone" /\ cb'.given = 0
        /\ cb'.pairs = <<>> /\ cb'.root = "none"
    BY <2>q, <1>t, SMTT(60) DEF BuilderAt
  <2> QED
    BY <2>0, <2>3, <2>4, <1>t DEF CredInv, SecretsReclaimed
<1>9. CASE GoogleDefaultCredentials
  <2>1. /\ cb' \in T /\ cb'.kind = "channel" /\ cb'.at = "gone" /\ cb'.given = 0
        /\ cb'.pairs = <<>> /\ cb'.root = "none" /\ dirty' = {} /\ leaked' = 0
    BY <1>9, <1>t, Zenon DEF GoogleDefaultCredentials, Builder, BuilderAt
  <2> QED
    BY <2>1, <1>t DEF CredInv, SecretsReclaimed
<1> QED
  BY <1>1, <1>3, <1>4, <1>5, <1>6, <1>7, <1>8, <1>9, SMTT(60) DEF CredNext

(* Nothing but the builders' own calls touches what they handle.           *)
LEMMA CredStep == ASSUME CredInv, [EndpointsNext]_allVars PROVE CredInv'
<1>1. CASE UNCHANGED <<cb, dirty, leaked>>
  BY <1>1, Zenon DEF CredInv, SecretsReclaimed
<1>2. CASE MakeCreds
  BY <1>2, CredCalls, Zenon DEF MakeCreds
<1>3. CASE Channels
  <2> USE DEF credVars
  <2>1. CASE \E c \in Chans : Connect(c, creds = "live") \/ NewBuilder(c) \/ DropChannel(c) \/ DropEnvArc(c)
    BY <1>1, <2>1, Zenon DEF Connect, Release, NewBuilder, DropChannel, DropEnvArc
  <2>2. CASE \E c \in Busy : StartCall(c) \/ Change(c) \/ \E mode \in {"change", "connected"} : Begin(c, mode)
    BY <1>1, <2>2, Zenon DEF StartCall, Change, Begin
  <2>3. CASE (\E q \in Threads : ResolveCall(q)) \/ Expire \/ WatchEnds \/ ResolveWatch
    BY <1>1, <2>3, Zenon DEF ResolveCall, Expire, WatchEnds, ResolveWatch
  <2>4. CASE WakeTask \/ (\E t \in Tasks : WakeLate(t)) \/ Check \/ Watch \/ WatchClosed \/ DropWait \/ Return
    BY <1>1, <2>4, Zenon DEF WakeTask, WakeLate, Check, Watch, WatchClosed, DropWait, Return
  <2>5. CASE \E t \in Tasks : Poll(t) \/ PollDone(t) \/ PassOn(t)
    BY <1>1, <2>5, Zenon DEF Poll, PollDone, PassOn
  <2> QED
    BY <1>3, <2>1, <2>2, <2>3, <2>4, <2>5, SMTT(60) DEF Channels
<1>4. CASE MakeEnv \/ Configure \/ DropOwner \/ Ended \/ UNCHANGED allVars
  BY <1>1, <1>4, Zenon DEF MakeEnv, Configure, DropOwner, Ended, credVars, allVars, channelVars
<1>5. CASE Serve
  <2> USE DEF credVars
  <2>1. CASE NewServerBuilder(Owner) \/ (\E how \in {"plain", "cred", "fetcher"} : Bind(how))
             \/ (\E m \in Methods, type \in MethodTypes : AddHandler(m, type))
    BY <1>1, <2>1, Zenon DEF NewServerBuilder, Bind, AddHandler
  <2>2. CASE CreateServer \/ BindPort \/ BindFail \/ BindDone \/ Register \/ Start
    BY <1>1, <2>2, Zenon DEF CreateServer, BindPort, BindFail, BindDone, Register, Start
  <2>3. CASE DropServer \/ DropServerCore \/ (\E q \in Threads : RetireSlot(q))
    BY <1>1, <2>3, Zenon DEF DropServer, DropServerCore, RetireSlot
  <2> QED
    BY <1>5, <2>1, <2>2, <2>3, Zenon DEF Serve
<1> QED
  BY <1>2, <1>3, <1>4, <1>5, Zenon DEF EndpointsNext

(* No string given to a credential builder stays raw, and no buffer is     *)
(* freed with a private key in it, in any order of calls on the builder,   *)
(* build and drop; but for the pair a further call of cert replaces        *)
(* (security/credentials.rs:153-166, 200-210, 268, 326-332).               *)
THEOREM NothingLeaks == EndpointsSpec => []SecretsReclaimed
<1>1. CredInv /\ [EndpointsNext]_allVars => CredInv'
  BY CredStep
<1>2. CredInv => SecretsReclaimed
  BY Zenon DEF CredInv
<1> QED
  BY <1>1, <1>2, CredStart, PTL DEF EndpointsSpec

-----------------------------------------------------------------------------
(* The queues of the Environment, and the server that is built over them.  *)

Early == {"unborn", "hook", "start"}

(* A thread sends its queue once: no queue is twice in cqs and the mail of *)
(* build, and so cqs has them all when it is as long as there are threads. *)
EnvInv ==
  /\ thread \in [Threads -> ThreadStates]
  /\ cqs \in Seq(Threads) /\ mail \in Seq(Threads)
  /\ \A i, j \in DOMAIN cqs : cqs[i] = cqs[j] => i = j
  /\ \A i, j \in DOMAIN mail : mail[i] = mail[j] => i = j
  /\ \A i \in DOMAIN cqs : \A j \in DOMAIN mail : cqs[i] # mail[j]
  /\ \A i \in DOMAIN cqs : thread[cqs[i]] \notin Early
  /\ \A i \in DOMAIN mail : thread[mail[i]] \notin Early
  /\ life # "building" => Len(cqs) = Cardinality(Threads)

(* The Environment that is about to be built has no queues.                *)
LEMMA EnvStart == EndpointsInit => EnvInv
BY DEF EndpointsInit, ChannelInit, EnvInit, EnvInv, ThreadStates

(* No poll thread goes back to before it sent its queue, and each sends    *)
(* it once.                                                                *)
LEMMA EnvThreads ==
  ASSUME EnvInv, NEW t \in Threads, 
         Spawn(t) \/ AfterStart(t) \/ SendQueue(t) \/ QueueShutdown(t) \/ BeforeStop(t)
  PROVE  EnvInv'
<1>1. CASE Spawn(t) \/ AfterStart(t)
  BY <1>1, SMTT(60) DEF Spawn, AfterStart, EnvInv, Early, ThreadStates
<1>2. CASE QueueShutdown(t) \/ BeforeStop(t)
  BY <1>2 DEF QueueShutdown, BeforeStop, EnvInv, Early, ThreadStates
<1>3. CASE SendQueue(t)
  <2>1. /\ mail' \in Seq(Threads) /\ DOMAIN mail' = 1..(Len(mail) + 1)
        /\ \A i \in DOMAIN mail : mail'[i] = mail[i]
        /\ mail'[Len(mail) + 1] = t
        /\ DOMAIN mail = 1..Len(mail) /\ Len(mail) \in Nat
    BY <1>3 DEF SendQueue, EnvInv
  <2>2. /\ thread' \in [Threads -> ThreadStates]
        /\ \A u \in Threads : thread'[u] = IF u = t THEN "polling" ELSE thread[u]
        /\ thread[t] = "start"
        /\ cqs' = cqs /\ life' = life
    BY <1>3, Zenon DEF SendQueue, EnvInv, ThreadStates
  <2>3. (\A i \in DOMAIN mail : mail[i] # t) /\ (\A i \in DOMAIN cqs : cqs[i] # t)
    BY <2>2, ZenonT(60) DEF EnvInv, Early
  <2>4. \A i \in DOMAIN mail' : i \in DOMAIN mail \/ i = Len(mail) + 1
    BY <2>1
  <2>5. \A i, j \in DOMAIN mail' : mail'[i] = mail'[j] => i = j
    BY <2>1, <2>3, <2>4, Zenon DEF EnvInv
  <2>6. \A i \in DOMAIN cqs' : \A j \in DOMAIN mail' : cqs'[i] # mail'[j]
    BY <2>1, <2>2, <2>3, <2>4 DEF EnvInv
  <2>7. \A i \in DOMAIN cqs : cqs[i] \in Threads /\ thread'[cqs[i]] \notin Early
    BY <2>2 DEF EnvInv, Early
  <2>8. \A i \in DOMAIN mail' : thread'[mail'[i]] \notin Early
    BY <2>1, <2>2, <2>4 DEF EnvInv, Early
  <2> QED
    BY <2>1, <2>2, <2>5, <2>6, <2>7, <2>8, ZenonT(60) DEF EnvInv
<1> QED
  BY <1>1, <1>2, <1>3, Zenon

(* build moves a queue from its mail to cqs, until it has as many as there *)
(* are threads.                                                            *)
LEMMA EnvReceives == ASSUME EnvInv, RecvQueue(Owner) PROVE EnvInv'
<1>1. /\ mail' \in Seq(Threads) /\ Head(mail) \in Threads
      /\ \A j \in DOMAIN mail' : j + 1 \in DOMAIN mail /\ j \in Nat /\ mail'[j] = mail[j + 1]
      /\ 1 \in DOMAIN mail /\ Head(mail) = mail[1]
  BY SMTT(60) DEF RecvQueue, EnvInv
<1>2. /\ cqs' \in Seq(Threads) /\ Len(cqs) \in Nat
      /\ \A i \in DOMAIN cqs : cqs'[i] = cqs[i]
      /\ cqs'[Len(cqs) + 1] = Head(mail)
      /\ \A i \in DOMAIN cqs' : i \in DOMAIN cqs \/ i = Len(cqs) + 1
      /\ thread' = thread
  BY <1>1 DEF RecvQueue, EnvInv
<1>3. life' # "building" => Len(cqs') = Cardinality(Threads)
  BY Zenon DEF RecvQueue
<1>4. \A i, j \in DOMAIN mail' : mail'[i] = mail'[j] => i = j
  BY <1>1, SMTT(60) DEF EnvInv
<1>5. \A i, j \in DOMAIN cqs' : cqs'[i] = cqs'[j] => i = j
  BY <1>1, <1>2, SMTT(60) DEF EnvInv
<1>6. \A i \in DOMAIN cqs' : \A j \in DOMAIN mail' : cqs'[i] # mail'[j]
  <2> SUFFICES ASSUME NEW i \in DOMAIN cqs', NEW j \in DOMAIN mail' PROVE cqs'[i] # mail'[j]
    BY Zenon
  <2>1. j + 1 \in DOMAIN mail /\ j + 1 # 1 /\ mail'[j] = mail[j + 1]
    BY <1>1, SMTT(60)
  <2>2. CASE i \in DOMAIN cqs
    BY <2>1, <2>2, <1>2, SMTT(60) DEF EnvInv
  <2>3. CASE i = Len(cqs) + 1
    BY <2>1, <2>3, <1>1, <1>2, SMTT(60) DEF EnvInv
  <2> QED
    BY <2>2, <2>3, <1>2, Zenon
<1>7. \A i \in DOMAIN cqs' : thread'[cqs'[i]] \notin Early
  BY <1>1, <1>2, ZenonT(60) DEF EnvInv
<1>8. \A i \in DOMAIN mail' : thread'[mail'[i]] \notin Early
  BY <1>1, <1>2 DEF EnvInv
<1> QED
  BY <1>1, <1>2, <1>3, <1>4, <1>5, <1>6, <1>7, <1>8, Zenon DEF EnvInv

(* What the other steps do to the Environment: an Arc that goes may be its *)
(* last.                                                                   *)
EnvKept == /\ UNCHANGED <<thread, mail, cqs>>
           /\ life' = life \/ (life = "up" /\ life' = "dropping")

(* The last Arc is given back while the Environment is up.                 *)
LEMMA UnrefKeeps == ASSUME ArcInv, NEW u, Unref(u), UNCHANGED <<thread, mail, cqs>> PROVE EnvKept
BY Zenon DEF ArcInv, Unref, EnvKept

(* Channels change nothing of the queues.                                  *)
LEMMA ChannelsKeepEnv == ASSUME ArcInv, Channels PROVE EnvKept
<1> USE DEF envVars
<1>1. CASE \E c \in Chans : Connect(c, creds = "live") \/ NewBuilder(c) \/ DropChannel(c)
  BY <1>1, Zenon DEF Connect, KeepEnv, NewBuilder, DropChannel, EnvKept
<1>2. CASE \E c \in Chans : DropEnvArc(c)
  BY <1>2, UnrefKeeps, Zenon DEF DropEnvArc
<1>3. CASE \E c \in Busy : StartCall(c) \/ Change(c) \/ \E mode \in {"change", "connected"} : Begin(c, mode)
  BY <1>3, Zenon DEF StartCall, Change, Begin, EnvKept
<1>4. CASE (\E q \in Threads : ResolveCall(q)) \/ Expire \/ WatchEnds \/ ResolveWatch
  BY <1>4, Zenon DEF ResolveCall, Expire, WatchEnds, ResolveWatch, EnvKept
<1>5. CASE WakeTask \/ (\E t \in Tasks : WakeLate(t)) \/ Check \/ Watch \/ WatchClosed \/ DropWait \/ Return
  BY <1>5, Zenon DEF WakeTask, WakeLate, Check, Watch, WatchClosed, DropWait, Return, EnvKept
<1>6. CASE \E t \in Tasks : Poll(t) \/ PollDone(t) \/ PassOn(t)
  BY <1>6, Zenon DEF Poll, PollDone, PassOn, EnvKept
<1> QED
  BY <1>1, <1>2, <1>3, <1>4, <1>5, <1>6, Zenon DEF Channels

(* Neither does a server.                                                  *)
LEMMA ServeKeepsEnv == ASSUME ArcInv, Serve PROVE EnvKept
<1> USE DEF envVars, EnvRest
<1>1. CASE NewServerBuilder(Owner) /\ life = "up"
  BY <1>1, Zenon DEF NewServerBuilder, EnvKept
<1>2. CASE (\E how \in {"plain", "cred", "fetcher"} : Bind(how))
           \/ (\E m \in Methods, type \in MethodTypes : AddHandler(m, type))
  BY <1>2, Zenon DEF Bind, AddHandler, EnvKept
<1>3. CASE CreateServer \/ BindPort \/ BindDone \/ Start \/ DropServerCore \/ (\E q \in Threads : RetireSlot(q))
  BY <1>3, Zenon DEF CreateServer, BindPort, BindDone, Start, DropServerCore, RetireSlot, EnvKept
<1>4. CASE BindFail \/ DropServer
  BY <1>4, UnrefKeeps, Zenon DEF BindFail, DropServer
<1>5. CASE Register
  <2>1. UNCHANGED <<thread, mail, cqs>> /\ (UNCHANGED life \/ Unref(ServerArc))
    BY <1>5, Zenon DEF Register
  <2> QED
    BY <2>1, UnrefKeeps, Zenon DEF EnvKept
<1> QED
  BY <1>1, <1>2, <1>3, <1>4, <1>5, Zenon DEF Serve

(* Every step keeps the queues' invariant.                                 *)
LEMMA EnvStep == ASSUME EnvInv, ArcInv, [EndpointsNext]_allVars PROVE EnvInv'
<1>1. ASSUME EnvKept PROVE EnvInv'
  BY <1>1 DEF EnvKept, EnvInv
<1>2. CASE MakeEnv
  <2>1. CASE CloseQueue
    BY <2>1, Zenon DEF CloseQueue, EnvInv
  <2> QED
    BY <1>2, <2>1, EnvThreads, EnvReceives, Zenon DEF MakeEnv, EnvNext
<1>3. CASE MakeCreds \/ Configure \/ Ended \/ UNCHANGED allVars
  BY <1>1, <1>3, Zenon DEF MakeCreds, Configure, Ended, allVars, channelVars, envVars, EnvKept
<1>4. CASE DropOwner
  BY <1>1, <1>4, UnrefKeeps, Zenon DEF DropOwner
<1> QED
  BY <1>1, <1>2, <1>3, <1>4, ChannelsKeepEnv, ServeKeepsEnv, SMTT(60) DEF EndpointsNext

(* An Environment that is built has the queue of every thread.             *)
LEMMA AllQueues == ASSUME EnvInv, life # "building" PROVE \A t \in Threads : \E i \in DOMAIN cqs : cqs[i] = t
<1> DEFINE D == 1..Len(cqs)
<1>1. D = DOMAIN cqs /\ Len(cqs) \in Nat
  BY DEF EnvInv
<1>2. Cardinality(D) = Cardinality(Threads)
  BY <1>1, FS_Interval DEF EnvInv
<1>3. cqs \in Injection(D, Threads)
  BY <1>1 DEF EnvInv, Injection, IsInjective
<1>4. cqs \in Surjection(D, Threads)
  BY <1>2, <1>3, FS_Injection, ThreadsAssumption, Zenon
<1> QED
  BY <1>1, <1>4, Zenon DEF Surjection

(* A place that is left is chosen, the first.                              *)
LEMMA FirstOf ==
  ASSUME NEW S \in SUBSET Nat, S # {}
  PROVE  /\ (CHOOSE i \in S : \A j \in S : i <= j) \in S
         /\ \A j \in S : (CHOOSE i \in S : \A k \in S : i <= k) <= j
<1> DEFINE R == OpToRel(<, Nat)
<1>1. IsWellFoundedOn(R, Nat)
  BY NatLessThanWellFounded, Zenon
<1>2. \A x, y \in Nat : ~(<<y, x>> \in R) => x <= y
  BY DEF OpToRel
<1> HIDE DEF R
<1>3. PICK x \in S : \A y \in S : ~(<<y, x>> \in R)
  BY <1>1, WFMin, Zenon
<1>4. \A y \in S : x <= y
  BY <1>2, <1>3, Zenon
<1> QED
  BY <1>4, Zenon

AfterBind == {"register", "built", "serving", "dropping", "dropped"}
Binders == [how : {"plain", "cred", "fetcher"}, port : Nat, box : {"none", "held", "freed"}]

(* Where the server is, and what it has by then; as long as core's server  *)
(* is there no fetcher is freed.                                           *)
SetupInv ==
  /\ binders \in Seq(Binders)
  /\ registered \subseteq Threads
  /\ at # "none" => life # "building"
  /\ at \in {"none", "open"} => core = "none"
  /\ at \in {"bind", "register", "built"} => core = "created"
  /\ at \in AfterBind => Unbound = {}
  /\ at \in AfterBind \ {"register"} => registered = Threads
  /\ core = "started" => at \in {"serving", "dropping", "dropped"}
  /\ core = "started" => \A q \in Threads : registry[q] = handlers
  /\ core # "destroyed" => \A i \in DOMAIN binders : binders[i].box # "freed"
  /\ at = "failed" => core = "destroyed"

(* Nothing is there before new is called.                                  *)
LEMMA SetupStart == EndpointsInit => SetupInv
BY DEF EndpointsInit, SetupInit, SetupInv, AfterBind

(* A drop of the binders keeps their ports.                                *)
LEMMA FreeKeeps ==
  ASSUME binders \in Seq(Binders)
  PROVE  /\ Free \in Seq(Binders) /\ DOMAIN Free = DOMAIN binders
         /\ \A i \in DOMAIN binders : Free[i].port = binders[i].port
<1>1. ASSUME NEW i \in DOMAIN binders
      PROVE  Free[i] \in Binders /\ Free[i].port = binders[i].port
  <2>1. binders[i] \in Binders
    OBVIOUS
  <2>2. Free[i] = IF binders[i].box = "held" THEN [binders[i] EXCEPT !.box = "freed"] ELSE binders[i]
    BY Zenon DEF Free
  <2> QED
    BY <2>1, <2>2, Zenon DEF Binders
<1>2. DOMAIN Free = 1..Len(binders) /\ Len(binders) \in Nat
  BY DEF Free
<1>3. Free \in [1..Len(binders) -> Binders]
  <2>1. Free = [i \in 1..Len(binders) |-> Free[i]]
    BY <1>2, Zenon DEF Free
  <2>2. \A i \in 1..Len(binders) : Free[i] \in Binders
    BY <1>1
  <2> HIDE DEF Free
  <2> QED
    BY <2>1, <2>2, Zenon
<1>4. DOMAIN Free = DOMAIN binders /\ Free \in Seq(Binders)
  BY <1>2, <1>3
<1> QED
  BY <1>1, <1>4, Zenon

(* The drop of core's server, with the binders after it, or of one of the  *)
(* contexts that hold it.                                                  *)
LEMMA CoreGoes ==
  ASSUME SetupInv, at \in {"dropping", "dropped"}, at' \in {"dropping", "dropped"},
         NEW S, NEW a, DropCore(S, a),
         UNCHANGED <<life, registered, registry, handlers>>
  PROVE  SetupInv'
<1>1. CASE core' = core /\ binders' = binders
  BY <1>1, Zenon DEF SetupInv, Unbound, AfterBind
<1>2. CASE core' = "destroyed" /\ binders' = Free
  <2>1. Unbound' = {}
    BY <1>2, FreeKeeps, Zenon DEF SetupInv, Unbound, AfterBind
  <2> QED
    BY <1>2, <2>1, FreeKeeps, Zenon DEF SetupInv, AfterBind
<1> QED
  BY <1>1, <1>2, Zenon DEF DropCore

(* A binder is added, and one is bound.                                    *)
LEMMA SetupBinds ==
  ASSUME SetupInv, BindPort \/ (\E how \in {"plain", "cred", "fetcher"} : Bind(how))
  PROVE  SetupInv'
<1>1. ASSUME NEW how \in {"plain", "cred", "fetcher"}, Bind(how) PROVE SetupInv'
  <2> DEFINE b == [how |-> how, port |-> 0, box |-> IF how = "fetcher" THEN "held" ELSE "none"]
  <2>1. b \in Binders /\ b.box # "freed"
    BY Zenon DEF Binders
  <2>2. binders' = Append(binders, b) /\ at = "open" /\ UNCHANGED <<life, at, registered, core>>
    BY <1>1, Zenon DEF Bind, envVars
  <2> HIDE DEF b
  <2>3. binders' \in Seq(Binders) /\ \A i \in DOMAIN binders' :
           (i \in DOMAIN binders /\ binders'[i] = binders[i]) \/ binders'[i] = b
    BY <2>1, <2>2, SMTT(60) DEF SetupInv
  <2>4. core # "destroyed" => \A i \in DOMAIN binders' : binders'[i].box # "freed"
    BY <2>1, <2>3, Zenon DEF SetupInv
  <2> QED
    BY <2>2, <2>3, <2>4, Zenon DEF SetupInv, AfterBind
<1>2. CASE BindPort
  <2> DEFINE k == CHOOSE i \in Unbound : \A j \in Unbound : i <= j
  <2>0. Unbound \in SUBSET Nat /\ Unbound # {}
    BY <1>2, SMTT(60) DEF BindPort, Unbound, SetupInv
  <2>1. k \in DOMAIN binders /\ k \in Nat
    BY <2>0, FirstOf, Zenon DEF Unbound
  <2>2. /\ binders' = [binders EXCEPT ![k].port = k] /\ at = "bind"
        /\ UNCHANGED <<life, at, registered, core>>
    BY <1>2, Zenon DEF BindPort, envVars
  <2> HIDE DEF k
  <2>3. \A i \in DOMAIN binders : binders[i] \in Binders
    BY DEF SetupInv
  <2>4. DOMAIN binders' = DOMAIN binders /\ \A i \in DOMAIN binders :
           binders'[i] = IF i = k THEN [binders[i] EXCEPT !.port = k] ELSE binders[i]
    BY <2>2, Zenon DEF SetupInv
  <2>5. \A i \in DOMAIN binders : binders'[i] \in Binders /\ binders'[i].box = binders[i].box
    BY <2>1, <2>3, <2>4 DEF Binders
  <2>6. binders' \in Seq(Binders)
    <3>1. DOMAIN binders = 1..Len(binders) /\ Len(binders) \in Nat
      BY DEF SetupInv
    <3>2. binders' = [i \in 1..Len(binders) |-> binders'[i]]
      BY <3>1, <2>2, Zenon DEF SetupInv
    <3>3. binders' \in [1..Len(binders) -> Binders]
      BY <3>1, <3>2, <2>5, Zenon
    <3> QED
      BY <3>1, <3>3, SMT
  <2> QED
    BY <2>2, <2>4, <2>5, <2>6, Zenon DEF SetupInv, AfterBind
<1> QED
  BY <1>1, <1>2, Zenon

(* No queue that the server is to register was shut down: build knows each *)
(* of them when the loop is done.                                          *)
LEMMA SetupRegisters == ASSUME SetupInv, EnvInv, ArcInv, Register PROVE SetupInv'
<1>1. ServerArc \in arcs /\ at = "register" /\ life # "building"
  BY Zenon DEF Register, ArcInv, SetupInv, ServerUses
<1>2. closed = {}
  BY <1>1, HeldOpen, Zenon
<1>3. CASE Left(registered) = {}
  <2>0. \A t \in Threads : \E i \in DOMAIN cqs : cqs[i] = t
    BY <1>1, AllQueues, Zenon
  <2>a. \A i \in DOMAIN cqs : cqs[i] \in registered
    BY <1>3, Zenon DEF Left
  <2>1. registered = Threads
    <3>1. \A t \in Threads : t \in registered
      BY <2>0, <2>a, Zenon
    <3> QED
      BY <3>1, ZenonT(60) DEF SetupInv
  <2>2. at' = "built" /\ UNCHANGED <<registered, binders, life, core, registry, handlers>>
    BY <1>3, Zenon DEF Register
  <2> QED
    BY <1>1, <2>1, <2>2, Zenon DEF SetupInv, Unbound, AfterBind
<1>4. CASE Left(registered) # {}
  <2>1. Left(registered) \in SUBSET Nat
    BY SMTT(60) DEF Left, EnvInv
  <2>2. NextOf(registered) \in Threads
    <3> DEFINE L == Left(registered)
               k == CHOOSE i \in L : \A j \in L : i <= j
    <3>1. k \in L
      <4> HIDE DEF L
      <4> QED
        BY <1>4, <2>1, FirstOf, Zenon DEF L
    <3>2. NextOf(registered) = cqs[k] /\ L \subseteq DOMAIN cqs
      BY Zenon DEF NextOf, Left
    <3> QED
      BY <3>1, <3>2 DEF EnvInv
  <2>3. /\ registered' = registered \cup {NextOf(registered)}
        /\ UNCHANGED <<at, binders, life, core, registry, handlers>>
    BY <1>2, <1>4, Zenon DEF Register, CanBorrow
  <2> QED
    BY <1>1, <2>2, <2>3, Zenon DEF SetupInv, Unbound, AfterBind
<1> QED
  BY <1>3, <1>4, Zenon

(* The rest of the life of a server, from new to the last of its Arcs.     *)
LEMMA SetupServe == ASSUME SetupInv, EnvInv, ArcInv, Serve PROVE SetupInv'
<1> USE DEF envVars
<1>1. CASE NewServerBuilder(Owner) /\ life = "up"
  BY <1>1, Zenon DEF NewServerBuilder, SetupInv, AfterBind
<1>2. CASE \E m \in Methods, type \in MethodTypes : AddHandler(m, type)
  BY <1>2, Zenon DEF AddHandler, SetupInv, AfterBind
<1>3. CASE CreateServer
  BY <1>3, Zenon DEF CreateServer, SetupInv, AfterBind
<1>4. CASE BindFail
  <2>1. /\ binders' \in Seq(Binders) /\ at' = "failed" /\ core' = "destroyed"
        /\ registered' = registered /\ at = "bind"
    BY <1>4, FreeKeeps, ZenonT(60) DEF BindFail, SetupInv
  <2>2. life' # "building"
    BY <1>4, Zenon DEF BindFail, Unref, SetupInv
  <2> QED
    BY <2>1, <2>2, Zenon DEF SetupInv, AfterBind
<1>5. CASE BindDone
  BY <1>5, Zenon DEF BindDone, SetupInv, Unbound, AfterBind
<1>6. CASE Start
  <2>1. /\ at = "built" /\ at' = "serving" /\ core' = "started"
        /\ UNCHANGED <<life, binders, handlers, registered>>
    BY <1>6, Zenon DEF Start
  <2>2. \A q \in Threads : registry'[q] = handlers'
    BY <1>6, Zenon DEF Start
  <2> QED
    BY <2>1, <2>2, Zenon DEF SetupInv, Unbound, AfterBind
<1>7. CASE DropServer
  <2>1. at' = "dropping" /\ UNCHANGED <<binders, handlers, registry, core, registered>>
    BY <1>7, Zenon DEF DropServer
  <2>2. life' # "building" /\ at \in {"built", "serving"}
    BY <1>7, Zenon DEF DropServer, Unref, SetupInv
  <2> QED
    BY <2>1, <2>2, Zenon DEF SetupInv, Unbound, AfterBind
<1>8. CASE DropServerCore
  BY <1>8, CoreGoes, Zenon DEF DropServerCore
<1>9. ASSUME NEW q \in Threads, RetireSlot(q) PROVE SetupInv'
  <2> DEFINE S == slots'
  <2>1. DropCore(S, at) /\ at \in {"dropping", "dropped"} /\ UNCHANGED <<at, life, registered, registry, handlers>>
    BY <1>9, Zenon DEF RetireSlot
  <2> HIDE DEF S
  <2> QED
    BY <2>1, CoreGoes, Zenon
<1> QED
  BY <1>1, <1>2, <1>3, <1>4, <1>5, <1>6, <1>7, <1>8, <1>9, SetupBinds, SetupRegisters,
     SMTT(60) DEF Serve

(* Every step keeps the server's invariant.                                *)
LEMMA SetupStep == ASSUME SetupInv, EnvInv, ArcInv, [EndpointsNext]_allVars PROVE SetupInv'
<1>1. ASSUME UNCHANGED setupVars, life # "building" => life' # "building" PROVE SetupInv'
  BY <1>1, Zenon DEF setupVars, SetupInv, Unbound
<1>2. CASE MakeEnv
  BY <1>1, <1>2, Zenon DEF MakeEnv, EnvNext, RecvQueue, Spawn, AfterStart, SendQueue,
     QueueShutdown, BeforeStop,
     CloseQueue
<1>3. CASE MakeCreds \/ Configure \/ Ended \/ UNCHANGED allVars
  BY <1>1, <1>3, Zenon DEF MakeCreds, Configure, Ended, allVars, channelVars, envVars
<1>4. CASE Channels /\ UNCHANGED setupVars
  BY <1>1, <1>4, ChannelsKeepEnv, Zenon DEF EnvKept
<1>5. CASE DropOwner /\ UNCHANGED setupVars
  BY <1>1, <1>5, Zenon DEF DropOwner, Unref
<1> QED
  BY <1>2, <1>3, <1>4, <1>5, SetupServe, Zenon DEF EndpointsNext

(* A server that core has started has every port bound, every queue        *)
(* registered and all handlers on each; a fetcher outlives core's server;  *)
(* and a build that fails leaves none behind, for any number of queues,    *)
(* binders, methods and request slots (server.rs:356-393, 453-464).        *)
THEOREM StartedWhole == EndpointsSpec => []ServerWhole
<1> DEFINE Inv == ArcInv /\ EnvInv /\ SetupInv
<1>1. EndpointsInit => Inv
  BY ArcInit, EnvStart, SetupStart, Zenon
<1>2. Inv /\ [EndpointsNext]_allVars => Inv'
  BY ArcStep, EnvStep, SetupStep, Zenon
<1>3. Inv => ServerWhole
  BY Zenon DEF SetupInv, ServerWhole, AfterBind
<1> QED
  BY <1>1, <1>2, <1>3, PTL DEF EndpointsSpec

-----------------------------------------------------------------------------
(* The waits.                                                              *)

(* The fields of a wait and of a watch.                                    *)
Shapes ==
  /\ wait = [mode |-> wait.mode, at |-> wait.at, of |-> wait.of, last |-> wait.last, ret |-> wait.ret]
  /\ watch = [of |-> watch.of, last |-> watch.last, event |-> watch.event]

(* The channel that a wait looks at or is about to watch is there, and so  *)
(* is not shut down; the tag is with core as long as the watch is.         *)
WaitInv ==
  /\ Shapes
  /\ conn \in [Chans -> ConnStates]
  /\ \A c \in Chans : chan[c] \in {"none", "building", "live"} => conn[c] # "SHUTDOWN"
  /\ wait.at \in {"first", "check"} => wait.mode = "connected"
  /\ wait.at = "watch" \/ (wait.mode = "connected" /\ wait.at # "over")
       => wait.of \in Chans /\ chan[wait.of] = "live"
  /\ watch.of # None => tag = "core"

(* There is no wait, no watch and no tag yet.                              *)
LEMMA WaitStart == EndpointsInit => WaitInv
BY SMTT(60) DEF EndpointsInit, ChannelInit, WaitInv, Shapes, NoWait, NoWatch, ConnStates

(* What the waits depend on.                                               *)
WaitOn == <<conn, chan, wait, watch, tag>>

(* A step that changes none of it.                                         *)
LEMMA WaitSame == ASSUME WaitInv, UNCHANGED WaitOn PROVE WaitInv'
BY Zenon DEF WaitInv, WaitOn, Shapes

(* Channels come and go, but for the one that a wait borrows.              *)
LEMMA WaitChannels ==
  ASSUME WaitInv, ArcInv, NEW c \in Chans,
         Connect(c, creds = "live") \/ NewBuilder(c) \/ DropChannel(c) \/ DropEnvArc(c) \/ StartCall(c) \/ Change(c)
  PROVE  WaitInv'
<1>1. CASE NewBuilder(c) \/ DropEnvArc(c)
  <2>1. /\ UNCHANGED <<conn, wait, watch, tag>> /\ chan[c] # "live"
        /\ \/ chan[c] = "none" /\ chan' = [chan EXCEPT ![c] = "building"]
           \/ chan' = [chan EXCEPT ![c] = "gone"]
    BY <1>1, ZenonT(60) DEF NewBuilder, DropEnvArc, vars, waitVars
  <2> QED
    BY <2>1, SMTT(60) DEF WaitInv, ArcInv, Shapes
<1>2. CASE Connect(c, creds = "live")
  <2>1. UNCHANGED <<conn, wait, watch, tag>> /\ chan' = [chan EXCEPT ![c] = "live"]
    BY <1>2, Zenon DEF Connect, vars, waitVars
  <2>2. conn[c] # "SHUTDOWN"
    BY <1>2, ZenonT(60) DEF Connect, WaitInv
  <2> QED
    BY <2>1, <2>2, Zenon DEF WaitInv, ArcInv, Shapes
<1>3. CASE DropChannel(c)
  <2>1. /\ UNCHANGED <<wait, watch, tag>> /\ ~Borrowed(c)
        /\ chan' = [chan EXCEPT ![c] = "destroyed"] /\ conn' = [conn EXCEPT ![c] = "SHUTDOWN"]
    BY <1>3, Zenon DEF DropChannel, vars, waitVars
  <2> QED
    BY <2>1, Zenon DEF WaitInv, ArcInv, Shapes, Borrowed, ConnStates
<1>4. CASE StartCall(c)
  BY <1>4, WaitSame, ZenonT(60) DEF StartCall, vars, waitVars, WaitOn
<1>5. CASE Change(c)
  <2>1. UNCHANGED <<chan, wait, watch, tag>>
    BY <1>5, ZenonT(60) DEF Change, vars, waitVars
  <2>2. PICK s \in Steps[conn[c]] \cup (IF c \in trying /\ conn[c] = "IDLE" THEN {"CONNECTING"} ELSE {}) :
          conn' = [conn EXCEPT ![c] = s]
    BY <1>5, ZenonT(60) DEF Change
  <2>3. s \in ConnStates \ {"SHUTDOWN"}
    <3>1. conn[c] \in ConnStates
      BY Zenon DEF WaitInv
    <3>2. "CONNECTING" \in ConnStates \ {"SHUTDOWN"}
      BY Zenon DEF ConnStates
    <3> QED
      BY <2>2, <3>1, <3>2, StepsOf, Zenon
  <2> QED
    BY <2>1, <2>2, <2>3, ZenonT(60) DEF WaitInv, ArcInv, Shapes
<1> QED
  BY <1>1, <1>2, <1>3, <1>4, <1>5, Zenon

(* An answer ends the wait and changes nothing else of it.                 *)
LEMMA AnswerEnds ==
  ASSUME Shapes, NEW r, wait' = Answer(r)
  PROVE  /\ wait'.at = "over" /\ wait'.ret = r /\ wait'.mode = wait.mode /\ wait'.of = wait.of
         /\ wait' = [mode |-> wait'.mode, at |-> wait'.at, of |-> wait'.of, last |-> wait'.last, ret |-> wait'.ret]
BY Zenon DEF Shapes, Answer

(* A step of wait_for_connected from one place to the next.                *)
LEMMA WaitGoesOn ==
  ASSUME Shapes, NEW a, NEW s, wait' = [wait EXCEPT !.at = a, !.last = s] \/ wait' = [wait EXCEPT !.at = a]
  PROVE  /\ wait'.at = a /\ wait'.mode = wait.mode /\ wait'.of = wait.of
         /\ wait' = [mode |-> wait'.mode, at |-> wait'.at, of |-> wait'.of, last |-> wait'.last, ret |-> wait'.ret]
BY ZenonT(60) DEF Shapes

(* The steps of a wait. Those of wait_for_connected borrow the channel.    *)
LEMMA WaitTask ==
  ASSUME WaitInv, ArcInv,
         \/ \E c \in Busy : \E mode \in {"change", "connected"} : Begin(c, mode)
         \/ Check \/ Watch \/ WatchClosed \/ DropWait \/ Return \/ \E t \in Tasks : PollDone(t)
  PROVE  WaitInv'
<1>0. Busy \subseteq Chans /\ Shapes
  BY ChansAssumption, Zenon DEF WaitInv
<1>1. ASSUME NEW c \in Busy, NEW mode \in {"change", "connected"}, Begin(c, mode) PROVE WaitInv'
  <2>1. /\ chan[c] = "live" /\ UNCHANGED <<conn, chan, watch>> /\ tag' = "gone" /\ tag = "gone"
        /\ wait' = [mode |-> mode, at |-> IF mode = "change" THEN "watch" ELSE "first",
                    of |-> c, last |-> conn[c], ret |-> None]
    BY <1>1, ZenonT(60) DEF Begin, NewHandle, chanVars
  <2> QED
    BY <1>0, <2>1, ZenonT(60) DEF WaitInv, Shapes
<1>2. ASSUME NEW r, wait' = Answer(r), UNCHANGED <<conn, chan, watch, tag>> PROVE WaitInv'
  <2> USE <1>2, <1>0, AnswerEnds
  <2>1. Shapes'
    BY Zenon DEF Shapes
  <2> QED
    BY <2>1, SMTT(60) DEF WaitInv
<1>3. CASE Check
  <2>1. /\ wait.at \in {"first", "check"} /\ UNCHANGED <<conn, chan, watch, tag>>
        /\ \/ wait' = Answer(TRUE) \/ wait' = Answer(FALSE)
           \/ wait' = [wait EXCEPT !.at = "watch", !.last = conn[wait.of]]
    BY <1>3, Zenon DEF Check, vars
  <2>2. CASE wait' = [wait EXCEPT !.at = "watch", !.last = conn[wait.of]]
    <3>1. Shapes' /\ wait'.at = "watch" /\ wait'.mode = wait.mode /\ wait'.of = wait.of
      BY <1>0, <2>1, <2>2, WaitGoesOn, Zenon DEF Shapes
    <3> QED
      BY <2>1, <3>1, Zenon DEF WaitInv
  <2> QED
    BY <1>2, <2>1, <2>2, Zenon
<1>4. CASE Watch
  <2>1. /\ wait.at = "watch" /\ wait' = [wait EXCEPT !.at = "await"] /\ tag' = "core"
        /\ watch' = [of |-> wait.of, last |-> wait.last, event |-> None] /\ UNCHANGED <<conn, chan>>
    BY <1>4, Zenon DEF Watch, NewHandle, chanVars
  <2>2. Shapes' /\ wait'.at = "await" /\ wait'.mode = wait.mode /\ wait'.of = wait.of
    BY <1>0, <2>1, WaitGoesOn, Zenon DEF Shapes
  <2> QED
    BY <2>1, <2>2, Zenon DEF WaitInv
<1>5. CASE WatchClosed
  BY <1>2, <1>5, ZenonT(60) DEF WatchClosed, chanVars, vars
<1>6. CASE DropWait \/ Return
  <2>1. /\ wait' = NoWait /\ UNCHANGED <<conn, chan, watch>> /\ tag' = tag
    BY <1>6, Zenon DEF DropWait, DropFuture, Return, NewHandle, chanVars
  <2> QED
    BY <1>0, <2>1, Zenon DEF WaitInv, Shapes, NoWait
<1>7. ASSUME NEW t \in Tasks, PollDone(t) PROVE WaitInv'
  <2>1. UNCHANGED <<conn, chan, watch, tag>> /\ wait.at = "await"
    BY <1>7, Zenon DEF PollDone, PollReady, chanVars
  <2>2. wait' = Answer(result) \/ (wait.mode = "connected" /\ wait' = [wait EXCEPT !.at = "check"])
    BY <1>7, Zenon DEF PollDone, AfterWait
  <2>3. CASE wait.mode = "connected" /\ wait' = [wait EXCEPT !.at = "check"]
    <3>1. Shapes' /\ wait'.at = "check" /\ wait'.mode = wait.mode /\ wait'.of = wait.of
      BY <1>0, <2>1, <2>3, WaitGoesOn, Zenon DEF Shapes
    <3> QED
      BY <2>1, <2>3, <3>1, Zenon DEF WaitInv
  <2> QED
    BY <1>2, <2>1, <2>2, <2>3, Zenon
<1> QED
  BY <1>1, <1>3, <1>4, <1>5, <1>6, <1>7, Zenon

(* The steps of core and of the poll thread.                               *)
LEMMA WaitCore ==
  ASSUME WaitInv, WatchEnds \/ ResolveWatch \/ WakeTask
  PROVE  WaitInv'
<1>1. CASE WatchEnds
  <2>1. PICK e \in Results : watch' = [watch EXCEPT !.event = e]
    BY <1>1, Zenon DEF WatchEnds
  <2>2. UNCHANGED <<conn, chan, wait, tag>>
    BY <1>1, Zenon DEF WatchEnds, chanVars, vars
  <2>3. Shapes' /\ watch'.of = watch.of
    <3>1. ASSUME NEW x, watch' = [watch EXCEPT !.event = x] PROVE Shapes' /\ watch'.of = watch.of
      BY <3>1, <2>2, Zenon DEF WaitInv, Shapes
    <3> QED
      BY <2>1, <3>1, Zenon
  <2> QED
    BY <2>2, <2>3, Zenon DEF WaitInv
<1>2. CASE ResolveWatch
  <2>1. watch' = NoWatch /\ UNCHANGED <<conn, chan, wait>>
    BY <1>2, ZenonT(60) DEF ResolveWatch, chanVars
  <2> QED
    BY <2>1, Zenon DEF WaitInv, Shapes, NoWatch
<1>3. CASE WakeTask
  <2>1. tag = "waking" /\ UNCHANGED <<conn, chan, wait, watch>>
    BY <1>3, Zenon DEF WakeTask, Wake, chanVars, waitVars
  <2> QED
    BY <2>1, Zenon DEF WaitInv, Shapes
<1> QED
  BY <1>1, <1>2, <1>3, Zenon

(* Every step keeps the waits' invariant.                                  *)
LEMMA WaitStep == ASSUME WaitInv, ArcInv, [EndpointsNext]_allVars PROVE WaitInv'
<1> USE DEF WaitOn
<1>1. CASE UNCHANGED WaitOn
  BY <1>1, WaitSame, Zenon
<1>2. CASE Channels
  <2>1. CASE Expire \/ (\E q \in Threads : ResolveCall(q)) \/ (\E t \in Tasks : WakeLate(t) \/ Poll(t) \/ PassOn(t))
    <3>1. UNCHANGED WaitOn
      BY <2>1, Zenon DEF Expire, ResolveCall, WakeLate, Poll, PollPending, PassOn, Move, vars,
         waitVars, chanVars
    <3> QED
      BY <3>1, <1>1, Zenon
  <2> QED
    BY <1>2, <2>1, WaitChannels, WaitTask, WaitCore, ChansAssumption, ZenonT(60) DEF Channels
<1>3. CASE MakeCreds \/ MakeEnv \/ ChannelRest \/ Configure \/ DropOwner \/ Ended \/ UNCHANGED allVars
  <2>1. UNCHANGED WaitOn
    BY <1>3, Zenon DEF MakeCreds, MakeEnv, ChannelRest, Configure, DropOwner, Ended, vars,
       waitVars, chanVars,
       channelVars, allVars
  <2> QED
    BY <2>1, <1>1
<1> QED
  BY <1>2, <1>3, Zenon DEF EndpointsNext

(* What a watch or a handle reports as a missed deadline is one.           *)
AnswerInv ==
  /\ watch.event # None => watch.of # None
  /\ watch.event \in BOOLEAN \cup {None} /\ result \in BOOLEAN \cup {None}
  /\ watch.event = FALSE => expired
  /\ result = FALSE => expired

(* Nothing is reported yet.                                                *)
LEMMA AnswerStart == EndpointsInit => AnswerInv
<1> SUFFICES ASSUME EndpointsInit PROVE AnswerInv
  OBVIOUS
<1>1. watch.event = None /\ watch.of = None /\ result = None
  BY Zenon DEF EndpointsInit, ChannelInit, NoWatch
<1>2. None # FALSE
  BY NoneAssumption, ResultsAssumption, ZenonT(60)
<1> QED
  BY <1>1, <1>2, ZenonT(60) DEF AnswerInv

(* A new handle and a deadline that is yet to come: a new wait, or none.   *)
LEMMA AnswerFresh ==
  ASSUME WaitInv, AnswerInv,
         \/ \E c \in Busy : \E mode \in {"change", "connected"} : Begin(c, mode)
         \/ Return
  PROVE  AnswerInv'
<1>1. tag # "core" /\ watch' = watch /\ result' = None
  <2>1. tag = "gone" /\ watch' = watch /\ result' = None
    BY Zenon DEF Begin, Return, NewHandle
  <2> QED
    BY <2>1, Zenon
<1>2. watch.of = None
  BY <1>1, Zenon DEF WaitInv
<1>3. watch.event = None
  BY <1>2, Zenon DEF AnswerInv
<1>4. None # FALSE
  BY NoneAssumption, ResultsAssumption, Zenon
<1> QED
  BY <1>1, <1>2, <1>3, <1>4, Zenon DEF AnswerInv

(* Core ends a watch because of its deadline only after it, and the poll   *)
(* thread passes on what core said.                                        *)
LEMMA AnswerCore ==
  ASSUME WaitInv, AnswerInv, WatchEnds \/ ResolveWatch \/ Watch \/ Expire \/ \E t \in Tasks : PollDone(t)
  PROVE  AnswerInv'
<1>0. None # FALSE
  BY NoneAssumption, ResultsAssumption, Zenon
<1>1. CASE WatchEnds
  <2>1. PICK e \in Results : (IF e THEN conn[watch.of] # watch.last ELSE expired) /\ watch' = [watch EXCEPT !.event = e]
    BY <1>1, Zenon DEF WatchEnds
  <2>2. UNCHANGED <<result, expired>> /\ watch.of # None
    BY <1>1, Zenon DEF WatchEnds, vars
  <2>3. watch'.event = e /\ watch'.of = watch.of
    <3>1. ASSUME NEW x, watch' = [watch EXCEPT !.event = x] PROVE watch'.event = x /\ watch'.of = watch.of
      BY <3>1, Zenon DEF WaitInv, Shapes
    <3> QED
      BY <2>1, <3>1, Zenon
  <2>4. e \in BOOLEAN
    BY ResultsAssumption, Zenon
  <2>5. e = FALSE => expired
    BY <2>1, Zenon
  <2> QED
    BY <2>2, <2>3, <2>4, <2>5, Zenon DEF AnswerInv
<1>2. CASE ResolveWatch
  <2>1. watch' = NoWatch /\ result' = watch.event /\ expired' = expired
    BY <1>2, Zenon DEF ResolveWatch, Resolve, SetResult
  <2>2. watch'.event = None /\ watch'.of = None
    BY <2>1, Zenon DEF NoWatch
  <2> QED
    BY <2>1, <2>2, <1>0, Zenon DEF AnswerInv
<1>3. CASE Watch
  <2>1. result' = None /\ watch' = [of |-> wait.of, last |-> wait.last, event |-> None]
    BY <1>3, Zenon DEF Watch, NewHandle
  <2>2. watch'.event = None
    BY <2>1, Zenon
  <2> QED
    BY <2>1, <2>2, <1>0, Zenon DEF AnswerInv
<1>4. CASE Expire
  <2>1. expired' /\ watch' = watch /\ result' = result
    BY <1>4, Zenon DEF Expire, vars
  <2> QED
    BY <2>1, Zenon DEF AnswerInv
<1>5. ASSUME NEW t \in Tasks, PollDone(t) PROVE AnswerInv'
  <2>1. result' = None /\ watch' = watch /\ expired' = expired
    BY <1>5, Zenon DEF PollDone, PollReady
  <2> QED
    BY <2>1, <1>0, Zenon DEF AnswerInv
<1> QED
  BY <1>1, <1>2, <1>3, <1>4, <1>5, Zenon

(* Every step keeps the answers' invariant.                                *)
LEMMA AnswerStep == ASSUME WaitInv, AnswerInv, [EndpointsNext]_allVars PROVE AnswerInv'
<1>1. CASE UNCHANGED <<watch, result, expired>>
  BY <1>1, Zenon DEF AnswerInv
<1>2. CASE Channels
  <2> USE DEF vars, waitVars
  <2>1. CASE \E c \in Chans : Connect(c, creds = "live") \/ NewBuilder(c) \/ DropChannel(c) \/ DropEnvArc(c)
    BY <1>1, <2>1, Zenon DEF Connect, NewBuilder, DropChannel, DropEnvArc
  <2>2. CASE \E c \in Busy : StartCall(c) \/ Change(c)
    BY <1>1, <2>2, Zenon DEF StartCall, Change
  <2>3. CASE (\E q \in Threads : ResolveCall(q)) \/ WakeTask \/ Check \/ WatchClosed \/ DropWait
    BY <1>1, <2>3, Zenon DEF ResolveCall, WakeTask, Wake, Check, WatchClosed, DropWait, DropFuture
  <2>4. CASE \E t \in Tasks : WakeLate(t) \/ Poll(t) \/ PassOn(t)
    BY <1>1, <2>4, Zenon DEF WakeLate, Poll, PollPending, PassOn, Move
  <2> QED
    BY <1>2, <2>1, <2>2, <2>3, <2>4, AnswerFresh, AnswerCore, ZenonT(60) DEF Channels
<1>3. CASE MakeCreds \/ MakeEnv \/ ChannelRest \/ Configure \/ DropOwner \/ Ended \/ UNCHANGED allVars
  BY <1>1, <1>3, Zenon DEF MakeCreds, MakeEnv, ChannelRest, Configure, DropOwner, Ended, vars,
     waitVars,
     channelVars, allVars
<1> QED
  BY <1>2, <1>3, Zenon DEF EndpointsNext

AnsweredTruly ==
  Ends => IF wait'.ret
          THEN wait.mode = "connected" => conn[wait.of] = "READY"
          ELSE expired

(* Each step that ends a wait ends it truly: the channel of the wait is    *)
(* there when it is looked at, so it is not shut down, and its queue is    *)
(* open.                                                                   *)
LEMMA AnswerTrue ==
  ASSUME WaitInv, AnswerInv, ArcInv, [EndpointsNext]_allVars
  PROVE  AnsweredTruly
<1>0. Shapes
  BY Zenon DEF WaitInv
<1>1. ASSUME wait' = wait PROVE AnsweredTruly
  <2>1. ~Ends
    BY <1>1, Zenon DEF Ends
  <2> QED
    BY <2>1, Zenon DEF AnsweredTruly
<1>2. ASSUME wait'.at # "over" \/ wait'.mode = "none" PROVE AnsweredTruly
  <2>1. ~Ends
    BY <1>2, Zenon DEF Ends
  <2> QED
    BY <2>1, Zenon DEF AnsweredTruly
<1>3. CASE Check
  <2>1. /\ wait.at \in {"first", "check"}
        /\ wait' = CASE conn[wait.of] = "READY" -> Answer(TRUE)
                     [] conn[wait.of] = "SHUTDOWN" /\ wait.at = "check" -> Answer(FALSE)
                     [] OTHER -> [wait EXCEPT !.at = "watch", !.last = conn[wait.of]]
    BY <1>3, Zenon DEF Check
  <2>2. conn[wait.of] # "SHUTDOWN"
    BY <2>1, Zenon DEF WaitInv
  <2>3. CASE conn[wait.of] = "READY"
    <3>1. wait' = Answer(TRUE)
      BY <2>1, <2>2, <2>3, Zenon
    <3>2. wait'.ret = TRUE
      BY <1>0, <3>1, AnswerEnds, Zenon
    <3> QED
      BY <2>3, <3>2, Zenon DEF AnsweredTruly
  <2>4. CASE conn[wait.of] # "READY"
    <3>1. wait' = [wait EXCEPT !.at = "watch", !.last = conn[wait.of]]
      BY <2>1, <2>2, <2>4, Zenon
    <3>2. wait'.at = "watch"
      BY <1>0, <3>1, WaitGoesOn, ZenonT(60)
    <3> QED
      BY <1>2, <3>2, Zenon
  <2> QED
    BY <2>3, <2>4, Zenon
<1>4. CASE WatchClosed
  <2>1. wait.at = "watch" /\ ~CanBorrow(chanCq[wait.of])
    BY <1>4, Zenon DEF WatchClosed
  <2>2. closed = {}
    BY <2>1, HeldOpen, Zenon DEF WaitInv, ArcInv
  <2> QED
    BY <2>1, <2>2, Zenon DEF CanBorrow
<1>5. ASSUME NEW t \in Tasks, PollDone(t) PROVE AnsweredTruly
  <2>1. result # None /\ wait' = AfterWait(result)
    BY <1>5, Zenon DEF PollDone, PollReady
  <2>2. CASE result = TRUE
    <3>1. CASE wait.mode = "connected"
      <4>1. wait' = [wait EXCEPT !.at = "check"]
        BY <2>1, <2>2, <3>1, ZenonT(60) DEF AfterWait
      <4>2. wait'.at = "check"
        BY <1>0, <4>1, WaitGoesOn, Zenon
      <4> QED
        BY <1>2, <4>2, Zenon
    <3>2. CASE wait.mode # "connected"
      <4>1. wait' = Answer(TRUE)
        BY <2>1, <2>2, <3>2, Zenon DEF AfterWait
      <4>2. wait'.ret = TRUE
        BY <1>0, <4>1, AnswerEnds, Zenon
      <4> QED
        BY <3>2, <4>2, Zenon DEF AnsweredTruly
    <3> QED
      BY <3>1, <3>2, Zenon
  <2>3. CASE result = FALSE
    <3>1. wait' = Answer(FALSE)
      BY <2>1, <2>3, Zenon DEF AfterWait
    <3>2. wait'.ret = FALSE
      BY <1>0, <3>1, AnswerEnds, Zenon
    <3>3. expired
      BY <2>3, ZenonT(60) DEF AnswerInv
    <3> QED
      BY <3>2, <3>3, Zenon DEF AnsweredTruly
  <2> QED
    BY <2>1, <2>2, <2>3, Zenon DEF AnswerInv
<1>6. CASE DropWait \/ Return
  <2>1. wait' = NoWait
    BY <1>6, ZenonT(60) DEF DropWait, Return
  <2> QED
    BY <1>2, <2>1, Zenon DEF NoWait
<1>7. CASE Watch
  <2>1. wait' = [wait EXCEPT !.at = "await"]
    BY <1>7, Zenon DEF Watch
  <2> QED
    BY <1>0, <1>2, <2>1, WaitGoesOn, Zenon
<1>8. ASSUME NEW c \in Busy, NEW mode \in {"change", "connected"}, Begin(c, mode) PROVE AnsweredTruly
  <2>1. wait'.at = IF mode = "change" THEN "watch" ELSE "first"
    BY <1>8, Zenon DEF Begin
  <2> QED
    BY <1>2, <2>1, Zenon
<1>9. CASE Channels
  <2> USE DEF waitVars
  <2>1. CASE \E c \in Chans : Connect(c, creds = "live") \/ NewBuilder(c) \/ DropChannel(c) \/ DropEnvArc(c)
    BY <1>1, <2>1, Zenon DEF Connect, NewBuilder, DropChannel, DropEnvArc
  <2>2. CASE \E c \in Busy : StartCall(c) \/ Change(c)
    BY <1>1, <2>2, Zenon DEF StartCall, Change
  <2>3. CASE (\E q \in Threads : ResolveCall(q)) \/ WakeTask \/ WatchEnds \/ ResolveWatch \/ Expire
    BY <1>1, <2>3, Zenon DEF ResolveCall, WakeTask, WatchEnds, ResolveWatch, Expire
  <2>4. CASE \E t \in Tasks : WakeLate(t) \/ Poll(t) \/ PassOn(t)
    BY <1>1, <2>4, Zenon DEF WakeLate, Poll, PassOn
  <2> QED
    BY <1>3, <1>4, <1>5, <1>6, <1>7, <1>8, <1>9, <2>1, <2>2, <2>3, <2>4, ZenonT(60) DEF Channels
<1>10. CASE MakeCreds \/ MakeEnv \/ ChannelRest \/ Configure \/ DropOwner \/ Ended \/ UNCHANGED allVars
  BY <1>1, <1>10, Zenon DEF MakeCreds, MakeEnv, ChannelRest, Configure, DropOwner, Ended, waitVars,
     channelVars, allVars
<1> QED
  BY <1>9, <1>10, ZenonT(60) DEF EndpointsNext

(* A wait returns false only after its deadline, and wait_for_connected    *)
(* returns true only when it sees the channel connected, however           *)
(* connectivity changes, watches end, futures move between tasks and       *)
(* handles are dropped (channel.rs:604-657).                               *)
THEOREM WaitsAnswerTruly == EndpointsSpec => WaitAnswersTruly
<1> DEFINE Inv == ArcInv /\ WaitInv /\ AnswerInv
<1>1. EndpointsInit => Inv
  BY ArcInit, WaitStart, AnswerStart
<1>2. Inv /\ [EndpointsNext]_allVars => Inv'
  BY ArcStep, WaitStep, AnswerStep, Zenon
<1>3. Inv /\ [EndpointsNext]_allVars => AnsweredTruly
  BY AnswerTrue, Zenon
<1>4. AnsweredTruly => [Ends => IF wait'.ret
                               THEN wait.mode = "connected" => conn[wait.of] = "READY"
                               ELSE expired]_allVars
  BY Zenon DEF AnsweredTruly
<1> QED
  BY <1>1, <1>2, <1>3, <1>4, PTL DEF EndpointsSpec, WaitAnswersTruly

-----------------------------------------------------------------------------
(* The options of a channel.                                               *)

(* No duration given to a setter overflows the u64 of dur_to_ms            *)
(* (channel.rs:45); one that does panics or wraps, by the build.           *)
NoOverflow == \A in \in Inputs : As(in) = "ms" => in.arg.secs * PerSec + in.arg.ms < U64

(* The call of a setter that decides an option, and what the map holds.    *)
LastSet(i, k) ==
  /\ i \in DOMAIN sets /\ Key(sets[i]) = k
  /\ \A j \in DOMAIN sets : j > i => Key(sets[j]) # k
WasSet(k) == \E i \in DOMAIN sets : Key(sets[i]) = k
BuilderInv ==
  /\ sets \in Seq(Inputs)
  /\ \A k : k \in DOMAIN options <=> WasSet(k) \/ (args # Empty /\ k = UserAgent)
  /\ \A k \in DOMAIN options :
       /\ WasSet(k) => \E i : LastSet(i, k) /\ options[k] = Converted(sets[i])
       /\ ~WasSet(k) => options[k] = <<"grpc-rust">>
  /\ args # Empty => args = options

(* What a map has that another is laid over.                               *)
LEMMA MergedHas ==
  ASSUME NEW f, NEW g
  PROVE  /\ DOMAIN Merged(f, g) = DOMAIN f \cup DOMAIN g
         /\ \A k \in DOMAIN f : Merged(f, g)[k] = f[k]
         /\ \A k \in DOMAIN g : k \notin DOMAIN f => Merged(f, g)[k] = g[k]
BY Zenon DEF Merged

(* A map with one entry.                                                   *)
LEMMA EntryHas == ASSUME NEW k, NEW v PROVE DOMAIN Entry(k, v) = {k} /\ Entry(k, v)[k] = v
BY Zenon DEF Entry

(* A new builder has no options.                                           *)
LEMMA BuilderStart ==
  ASSUME sets = <<>>, options = Empty, args = Empty PROVE BuilderInv
<1>1. sets \in Seq(Inputs) /\ DOMAIN sets = {}
  OBVIOUS
<1>2. DOMAIN options = {}
  BY Zenon DEF Empty
<1> QED
  BY <1>1, <1>2, Zenon DEF BuilderInv, WasSet

(* A setter (channel.rs:87-394) puts its value over the one that was       *)
(* there, and leaves the other options.                                    *)
LEMMA BuilderSet ==
  ASSUME BuilderInv, NEW in \in Inputs, Set(in) PROVE BuilderInv'
<1>1. PICK n, q : n = Len(sets) + 1 /\ q = Key(in)
  OBVIOUS
<1>2. args = Empty /\ args' = Empty
  BY Zenon DEF Set
<1>3. /\ sets' \in Seq(Inputs) /\ DOMAIN sets' = DOMAIN sets \cup {n} /\ n \notin DOMAIN sets
      /\ \A i \in DOMAIN sets : sets'[i] = sets[i] /\ n > i /\ ~(i > n) /\ i \in Nat
      /\ sets'[n] = in /\ n \in Nat /\ ~(n > n)
  <2>1. sets \in Seq(Inputs) /\ sets' = Append(sets, in)
    BY Zenon DEF Set, BuilderInv
  <2> QED
    BY <1>1, <2>1, SMT
<1>4. PICK e : e = Entry(q, Converted(in))
  OBVIOUS
<1>5. DOMAIN e = {q} /\ e[q] = Converted(in) /\ options' = Merged(e, options)
  BY <1>1, <1>4, EntryHas, Zenon DEF Set
<1>6. /\ DOMAIN options' = DOMAIN options \cup {q} /\ options'[q] = Converted(in)
      /\ \A k \in DOMAIN options : k # q => options'[k] = options[k]
  <2>1. /\ DOMAIN Merged(e, options) = DOMAIN e \cup DOMAIN options
        /\ \A k \in DOMAIN e : Merged(e, options)[k] = e[k]
        /\ \A k \in DOMAIN options : k \notin DOMAIN e => Merged(e, options)[k] = options[k]
    BY MergedHas, Zenon
  <2> QED
    BY <1>5, <2>1, Zenon
<1>7. \A k : WasSet(k)' <=> WasSet(k) \/ k = q
  BY <1>1, <1>3, Zenon DEF WasSet
<1>8. LastSet(n, q)'
  BY <1>1, <1>3, Zenon DEF LastSet
<1>9. \A i, k : k # q /\ LastSet(i, k) => LastSet(i, k)' /\ sets'[i] = sets[i]
  BY <1>1, <1>3, Zenon DEF LastSet
<1>10. \A k : k \in DOMAIN options' <=> WasSet(k)' \/ (args' # Empty /\ k = UserAgent)
  BY <1>2, <1>6, <1>7, Zenon DEF BuilderInv
<1>11. ASSUME NEW k \in DOMAIN options'
       PROVE  /\ WasSet(k)' => \E i : LastSet(i, k)' /\ options'[k] = Converted(sets'[i])
              /\ ~WasSet(k)' => options'[k] = <<"grpc-rust">>
  <2>1. CASE k = q
    BY <1>3, <1>6, <1>7, <1>8, <2>1, Zenon
  <2>2. CASE k # q
    <3>1. k \in DOMAIN options /\ options'[k] = options[k] /\ (WasSet(k)' <=> WasSet(k))
      BY <1>6, <1>7, <2>2, Zenon
    <3>2. /\ WasSet(k) => \E i : LastSet(i, k) /\ options[k] = Converted(sets[i])
          /\ ~WasSet(k) => options[k] = <<"grpc-rust">>
      BY <3>1, Zenon DEF BuilderInv
    <3> QED
      BY <1>9, <2>2, <3>1, <3>2, Zenon
  <2> QED
    BY <2>1, <2>2, Zenon
<1> QED
  BY <1>2, <1>3, <1>10, <1>11, Zenon DEF BuilderInv

(* prepare_connect_args (channel.rs:432-439) adds the user agent only if   *)
(* there is none, and hands core the whole map.                            *)
LEMMA BuilderArgs ==
  ASSUME BuilderInv, PrepareConnectArgs PROVE BuilderInv'
<1>1. PICK e : e = Entry(UserAgent, FormatUserAgent(""))
  BY Zenon
<1>2. args = Empty /\ UNCHANGED sets /\ args' = options' /\ options' = Merged(options, e)
  BY <1>1, Zenon DEF PrepareConnectArgs, BuildArgs
<1>3. DOMAIN e = {UserAgent} /\ e[UserAgent] = <<"grpc-rust">>
  BY <1>1, EntryHas, Zenon DEF FormatUserAgent
<1>4. /\ DOMAIN options' = DOMAIN options \cup {UserAgent}
      /\ \A k \in DOMAIN options : options'[k] = options[k]
      /\ UserAgent \notin DOMAIN options => options'[UserAgent] = <<"grpc-rust">>
  <2>1. /\ DOMAIN Merged(options, e) = DOMAIN options \cup DOMAIN e
        /\ \A k \in DOMAIN options : Merged(options, e)[k] = options[k]
        /\ \A k \in DOMAIN e : k \notin DOMAIN options => Merged(options, e)[k] = e[k]
    BY MergedHas, Zenon
  <2> QED
    BY <1>2, <1>3, <2>1, Zenon
<1>5. args' # Empty
  BY <1>2, <1>4, Zenon DEF Empty
<1>6. \A i, k : (WasSet(k)' <=> WasSet(k)) /\ (LastSet(i, k)' <=> LastSet(i, k))
  BY <1>2, Zenon DEF WasSet, LastSet
<1>7. \A k : k \in DOMAIN options' <=> WasSet(k)' \/ (args' # Empty /\ k = UserAgent)
  BY <1>2, <1>4, <1>5, <1>6, Zenon DEF BuilderInv
<1>8. ASSUME NEW k \in DOMAIN options'
      PROVE  /\ WasSet(k)' => \E i : LastSet(i, k)' /\ options'[k] = Converted(sets'[i])
             /\ ~WasSet(k)' => options'[k] = <<"grpc-rust">>
  <2>1. CASE k \in DOMAIN options
    BY <1>2, <1>4, <1>6, <2>1, Zenon DEF BuilderInv
  <2>2. CASE k \notin DOMAIN options
    BY <1>2, <1>4, <1>6, <2>2, Zenon DEF BuilderInv
  <2> QED
    BY <2>1, <2>2, Zenon
<1> QED
  BY <1>2, <1>7, <1>8, Zenon DEF BuilderInv

(* The other steps leave the builder's options alone, but for connect,     *)
(* which drops the builder.                                                *)
LEMMA BuilderStep == ASSUME BuilderInv, [EndpointsNext]_allVars PROVE BuilderInv'
<1>1. CASE UNCHANGED builderVars
  BY <1>1, Zenon DEF BuilderInv, builderVars, WasSet, LastSet
<1>2. CASE Configure
  BY <1>2, BuilderSet, BuilderArgs, Zenon DEF Configure
<1>3. CASE Channels
  <2>1. CASE \E c \in Chans : Connect(c, creds = "live")
    <3>1. sets' = <<>> /\ options' = Empty /\ args' = Empty
      BY <2>1, Zenon DEF Connect
    <3>2. sets' \in Seq(Inputs) /\ DOMAIN sets' = {}
      BY <3>1
    <3>3. DOMAIN options' = {}
      BY <3>1, Zenon DEF Empty
    <3> QED
      BY <3>1, <3>2, <3>3, Zenon DEF BuilderInv, WasSet
  <2>2. CASE \E c \in Chans : NewBuilder(c) \/ DropChannel(c) \/ DropEnvArc(c)
    BY <1>1, <2>2, Zenon DEF NewBuilder, DropChannel, DropEnvArc
  <2>3. CASE \E c \in Busy : StartCall(c) \/ Change(c) \/ \E mode \in {"change", "connected"} : Begin(c, mode)
    BY <1>1, <2>3, Zenon DEF StartCall, Change, Begin
  <2>4. CASE (\E q \in Threads : ResolveCall(q)) \/ Expire \/ WatchEnds \/ ResolveWatch
    BY <1>1, <2>4, Zenon DEF ResolveCall, Expire, WatchEnds, ResolveWatch
  <2>5. CASE WakeTask \/ (\E t \in Tasks : WakeLate(t)) \/ Check \/ Watch \/ WatchClosed \/ DropWait \/ Return
    BY <1>1, <2>5, Zenon DEF WakeTask, WakeLate, Check, Watch, WatchClosed, DropWait, Return
  <2>6. CASE \E t \in Tasks : Poll(t) \/ PollDone(t) \/ PassOn(t)
    BY <1>1, <2>6, Zenon DEF Poll, PollDone, PassOn
  <2> QED
    BY <1>3, <2>1, <2>2, <2>3, <2>4, <2>5, <2>6, SMTT(60) DEF Channels
<1>4. CASE MakeCreds \/ MakeEnv \/ (Serve /\ ChannelRest) \/ DropOwner \/ Ended \/ UNCHANGED allVars
  BY <1>1, <1>4, Zenon DEF MakeCreds, MakeEnv, ChannelRest, DropOwner, Ended, allVars, channelVars
<1> QED
  BY <1>2, <1>3, <1>4, Zenon DEF EndpointsNext

(* A value that is set is the one that is wanted, where dur_to_ms does not *)
(* overflow: the milliseconds, or the largest c_int.                       *)
LEMMA ConvertedWanted ==
  ASSUME NoOverflow, NEW in \in Inputs PROVE Converted(in) = Wanted(in)
<1>1. CASE As(in) # "ms"
  BY <1>1, Zenon DEF Wanted
<1>2. CASE As(in) = "ms"
  <2>1. PICK a, m, p : a = in.arg.secs /\ m = in.arg.ms /\ p = in.arg.secs * PerSec
    BY SMTT(60)
  <2>2. a \in Nat /\ m \in Nat /\ PerSec \in Nat /\ p + m < U64 /\ U64 \in Nat /\ I32Max \in Nat
    BY <1>2, <2>1, InputsAssumption, Zenon DEF NoOverflow
  <2>3. p \in Nat /\ p = PerSec * a
    BY <2>1, <2>2, SMT
  <2>4. PICK v : v = p + m
    OBVIOUS
  <2>5. v \in Nat /\ v < U64 /\ v % U64 = v
    BY <2>2, <2>3, <2>4, SMT
  <2>6. Converted(in) = Least(I32Max, v)
    BY <1>2, <2>1, <2>4, <2>5, Zenon DEF Converted, DurToMs
  <2>7. Wanted(in) = CHOOSE n \in 0..I32Max : n = v \/ (n = I32Max /\ v > I32Max)
    BY <1>2, <2>1, <2>3, <2>4, Zenon DEF Wanted
  <2>8. PICK l : l = Least(I32Max, v)
    OBVIOUS
  <2>9. /\ l \in 0..I32Max /\ (l = v \/ (l = I32Max /\ v > I32Max))
        /\ \A n \in 0..I32Max : n = v \/ (n = I32Max /\ v > I32Max) => n = l
    BY <2>2, <2>5, <2>8, SMT DEF Least
  <2>10. (CHOOSE n \in 0..I32Max : n = v \/ (n = I32Max /\ v > I32Max)) = l
    BY <2>9, Zenon
  <2> QED
    BY <2>6, <2>7, <2>8, <2>10, Zenon
<1> QED
  BY <1>1, <1>2, Zenon

(* The invariant gives the property: the call of a setter that is last is  *)
(* the one that decides.                                                   *)
LEMMA ArgsFollow == ASSUME BuilderInv, NoOverflow PROVE ArgsMatchSetters
<1>1. \A s, t \in DOMAIN Setters : Setters[s][1] = Setters[t][1] => s = t
  BY SettersDistinct, Zenon DEF Distinct
<1> SUFFICES ASSUME args # Empty
             PROVE  /\ DOMAIN args = {Key(sets[i]) : i \in DOMAIN sets} \cup {UserAgent}
                    /\ \A k \in DOMAIN args : IF WasSet(k) THEN args[k] = Wanted(Last(k))
                                                           ELSE args[k] = <<"grpc-rust">>
  BY <1>1, Zenon DEF ArgsMatchSetters, WasSet
<1>2. args = options /\ \A k : k \in DOMAIN options <=> WasSet(k) \/ k = UserAgent
  BY Zenon DEF BuilderInv
<1>3. DOMAIN args = {Key(sets[i]) : i \in DOMAIN sets} \cup {UserAgent}
  BY <1>2, Zenon DEF WasSet
<1>4. ASSUME NEW k \in DOMAIN args, WasSet(k) PROVE args[k] = Wanted(Last(k))
  <2>1. PICK i : LastSet(i, k) /\ options[k] = Converted(sets[i])
    BY <1>2, <1>4, Zenon DEF BuilderInv
  <2>2. i \in DOMAIN sets /\ sets[i] \in Inputs /\ DOMAIN sets \subseteq Nat
    <3>1. sets \in Seq(Inputs) /\ i \in DOMAIN sets
      BY <2>1, Zenon DEF BuilderInv, LastSet
    <3> QED
      BY <3>1, SMT
  <2>3. ASSUME NEW j, LastSet(j, k) PROVE j = i
    <3>1. j \in DOMAIN sets /\ ~(j > i) /\ ~(i > j)
      BY <2>1, <2>2, <2>3, Zenon DEF LastSet
    <3> QED
      BY <2>2, <3>1, SMT
  <2>4. (CHOOSE j \in DOMAIN sets : /\ Key(sets[j]) = k
                                    /\ \A h \in DOMAIN sets : h > j => Key(sets[h]) # k) = i
    BY <2>1, <2>3, Zenon DEF LastSet
  <2>5. Last(k) = sets[i]
    BY <2>4, Zenon DEF Last
  <2> QED
    BY <1>2, <2>1, <2>2, <2>5, ConvertedWanted, Zenon
<1>5. ASSUME NEW k \in DOMAIN args, ~WasSet(k) PROVE args[k] = <<"grpc-rust">>
  BY <1>2, <1>5, Zenon DEF BuilderInv
<1> QED
  BY <1>3, <1>4, <1>5, Zenon

(* Whatever setters are called, how often and in which order: core is told *)
(* the last value of every option, its own conversion of it, and a user    *)
(* agent, and nothing else (channel.rs:87-439); as long as no duration     *)
(* overflows the u64 of dur_to_ms.                                         *)
THEOREM SettersTold == ASSUME NoOverflow PROVE EndpointsSpec => []ArgsMatchSetters
<1>1. EndpointsInit => BuilderInv
  BY BuilderStart, Zenon DEF EndpointsInit, ChannelInit, BuilderInit
<1>2. BuilderInv /\ [EndpointsNext]_allVars => BuilderInv'
  BY BuilderStep, Zenon
<1>3. BuilderInv => ArgsMatchSetters
  BY ArgsFollow, Zenon
<1> QED
  BY <1>1, <1>2, <1>3, PTL DEF EndpointsSpec
=============================================================================
