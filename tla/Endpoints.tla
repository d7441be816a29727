-------------------------------- MODULE Endpoints --------------------------------
(***************************************************************************)
(* A process that uses the library: it makes credentials and an            *)
(* Environment, and then either channels, which it waits on and calls      *)
(* over, or a server; everything is dropped in any order the owners allow. *)
(***************************************************************************)
EXTENDS Channel, ServerSetup

ASSUME ArcsAssumption == ServerArc \in Users /\ ServerArc \notin Chans \cup {Owner}

VARIABLE role

allVars == <<channelVars, setupVars, role>>

EndpointsInit ==
  /\ ChannelInit /\ SetupInit
  /\ role \in {"client", "server"}
  /\ CredInit({IF role = "client" THEN "channel" ELSE "server"})

ChannelRest == UNCHANGED <<vars, builderVars, waitVars, chanVars>>

(* Credentials come first, or not at all: nothing else depends on when;    *)
(* the first channel is made with them, if they are there.                 *)
MakeCreds ==
  /\ life = "building" /\ \A t \in Threads : thread[t] = "unborn"
  /\ CredNext
  /\ UNCHANGED <<envVars, setupVars>> /\ ChannelRest

MakeEnv ==
  /\ cb.at = "gone"
  /\ \/ EnvNext
     \/ RecvQueue(Owner)
  /\ UNCHANGED <<credVars, setupVars>> /\ ChannelRest

(* Options concern nobody but their builder: those of the first channel    *)
(* stand for all.                                                          *)
Configure ==
  /\ \E c \in Chans : chan[c] = "building"
  /\ \/ (\E in \in Inputs : Set(in)) /\ \A c \in Chans : chan[c] \in {"none", "building"}
     \/ PrepareConnectArgs
  /\ UNCHANGED <<vars, envVars, credVars, waitVars, chanVars, setupVars>>

Channels ==
  \/ \E c \in Chans :
       \/ Connect(c, creds = "live")
       \/ NewBuilder(c) \/ DropChannel(c) \/ DropEnvArc(c)
  \/ \E c \in Busy :
       \/ StartCall(c) \/ Change(c)
       \/ \E mode \in {"change", "connected"} : Begin(c, mode)
  \/ \E q \in Threads : ResolveCall(q)
  \/ Expire \/ WatchEnds \/ ResolveWatch \/ WakeTask \/ (\E t \in Tasks : WakeLate(t))
  \/ Check \/ Watch \/ WatchClosed \/ DropWait \/ Return
  \/ \E t \in Tasks : Poll(t) \/ PollDone(t) \/ PassOn(t)

Serve ==
  \/ NewServerBuilder(Owner) /\ life = "up"
  \/ \E how \in {"plain", "cred", "fetcher"} : Bind(how)
  \/ \E m \in Methods, type \in MethodTypes : AddHandler(m, type)
  \/ CreateServer \/ BindPort \/ BindFail \/ BindDone \/ Register \/ Start
  \/ DropServer \/ DropServerCore
  \/ \E q \in Threads : RetireSlot(q)

Ended == life = "dropped" /\ UNCHANGED allVars

EndpointsNext ==
  /\ \/ MakeCreds \/ MakeEnv
     \/ role = "client" /\ (Configure \/ (Channels /\ UNCHANGED setupVars))
     \/ DropOwner /\ UNCHANGED setupVars
     \/ role = "server" /\ Serve /\ ChannelRest
     \/ Ended
  /\ UNCHANGED role

(* Threads run and hooks return; core ends a watch that is due, a deadline *)
(* passes, operations come back; a task that was woken is polled and a     *)
(* caller takes its answer; a drop that has begun goes on.                 *)
EndpointsSpec ==
  /\ EndpointsInit /\ [][EndpointsNext]_allVars
  /\ WF_allVars(MakeEnv /\ UNCHANGED role)
  /\ WF_allVars(Expire /\ UNCHANGED <<setupVars, role>>)
  /\ WF_allVars(WatchEnds /\ UNCHANGED <<setupVars, role>>)
  /\ WF_allVars((ResolveWatch \/ WakeTask) /\ UNCHANGED <<setupVars, role>>)
  /\ WF_allVars((Check \/ Watch \/ WatchClosed) /\ UNCHANGED <<setupVars, role>>)
  /\ \A t \in Tasks :
       SF_allVars((Poll(t) \/ PollDone(t)) /\ UNCHANGED <<setupVars, role>>)
  /\ \A q \in Threads :
       /\ WF_allVars(ResolveCall(q) /\ UNCHANGED <<setupVars, role>>)
       /\ WF_allVars(RetireSlot(q) /\ ChannelRest /\ UNCHANGED role)
  /\ WF_allVars(DropServerCore /\ ChannelRest /\ UNCHANGED role)

-----------------------------------------------------------------------------
(* As long as a channel is there its queue is open: Client::new does not   *)
(* unwrap an error (client.rs:26), a call can be made and a wait does not  *)
(* end because of the queue (channel.rs:614-628), in whatever order the    *)
(* Environment and the other channels are dropped; and so for a server     *)
(* (server.rs:562).                                                        *)
UsersHaveQueues ==
  /\ \A c \in Chans : chan[c] \in {"live", "destroyed"} => chanCq[c] \notin closed
  /\ at \in {"open", "bind", "register", "built", "serving"} => closed = {}
  /\ ~panicked

(* A wait answers truly: "Returns false means deadline excceeds"           *)
(* (channel.rs:604, 634), and wait_for_connected returns true only at a    *)
(* moment when it sees the channel connected, whatever the connectivity    *)
(* did between its looks.                                                  *)
Ends == wait.at # "over" /\ wait'.at = "over" /\ wait'.mode # "none"
WaitAnswersTruly ==
  [][Ends => IF wait'.ret
             THEN wait.mode = "connected" => conn[wait.of] = "READY"
             ELSE expired]_allVars

(* A wait that is not dropped ends, be its future passed from task to      *)
(* task, and the channel, its core and the Environment be gone meanwhile.  *)
WaitEnds == wait.at = "await" ~> wait.at = "over"

(* Once the Environment is dropped everything ends: the poll threads stop, *)
(* their before_stop hooks run, when core has handed them every tag of a   *)
(* closed queue (env.rs:162-168 joins nobody), and with the last context   *)
(* of a request slot core's server is destroyed (server.rs:460-464).       *)
TeardownEnds ==
  life = "dropped" ~> /\ \A t \in Threads : thread[t] = "gone"
                      /\ core \in {"none", "destroyed"}
=============================================================================
