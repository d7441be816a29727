------------------------------- MODULE ServerSetup -------------------------------
(***************************************************************************)
(* How a server comes to be and goes (server.rs): a ServerBuilder collects *)
(* binders and handlers, build creates core's server, binds the ports and  *)
(* registers the queues, start copies the handlers for each queue and asks *)
(* for calls, and after the drop of the Server the contexts of the request *)
(* slots still hold the ServerCore, until their queues return them. What   *)
(* happens to the slots while the server serves is the module Server.      *)
(***************************************************************************)
EXTENDS Environment, Credentials, TLC

CONSTANTS
  ServerArc,    \* the Arc<Environment> of the ServerBuilder, then of the Server
  Methods,      \* paths of methods
  MaxBinders,   \* bound on the binders
  Slots         \* slots_per_cq

MethodTypes == {"Unary", "ClientStreaming", "ServerStreaming", "Duplex"}

VARIABLES
  at,          \* where the builder, then the Server, is
  binders,     \* Binder: how it is secured, its port, its fetcher's box
  handlers,    \* path to method type
  registry,    \* a queue's copy of the handlers
  core,        \* core's server
  registered,  \* the queues core knows
  slots        \* the contexts of a queue's request slots

setupVars == <<at, binders, handlers, registry, core, registered, slots>>

SetupInit ==
  /\ at = "none" /\ binders = <<>>
  /\ handlers = <<>> /\ registry = [q \in Threads |-> <<>>]
  /\ core = "none" /\ registered = {} /\ slots = [q \in Threads |-> 0]

EnvRest == UNCHANGED <<thread, mail, cqs, idx, closed>>
NewServerBuilder(owner) ==
  /\ at = "none" /\ owner \in arcs
  /\ at' = "open"
  /\ arcs' = arcs \cup {ServerArc}
  /\ UNCHANGED <<life, queued, credVars, binders, handlers, registry, core, registered, slots>>
  /\ EnvRest

(* bind, bind_with_cred, and bind_with_fetcher, which lends the box of the *)
(* fetcher to core's credentials and takes it back at once.                *)
Bind(how) ==
  /\ at = "open" /\ Len(binders) < MaxBinders
  /\ IF how = "cred" THEN creds = "live" /\ cb.at = "gone" /\ creds' = "binder"
                     ELSE UNCHANGED creds
  /\ binders' = Append(binders, [how |-> how, port |-> 0,
                                 box |-> IF how = "fetcher" THEN "held" ELSE "none"])
  /\ UNCHANGED <<envVars, cb, dirty, leaked, at, handlers, registry, core, registered, slots>>

(* ServiceBuilder::add_*_handler and register_service: the last one counts. *)
AddHandler(m, type) ==
  /\ at = "open"
  /\ handlers' = (m :> type) @@ handlers
  /\ UNCHANGED <<envVars, credVars, at, binders, registry, core, registered, slots>>

(* ServerBuilder::build creates core's server ...                          *)
CreateServer ==
  /\ at = "open"
  /\ at' = "bind" /\ core' = "created"
  /\ UNCHANGED <<envVars, credVars, binders, handlers, registry, registered, slots>>

Unbound == {i \in DOMAIN binders : binders[i].port = 0}
Free == [i \in DOMAIN binders |-> IF binders[i].box = "held"
                                  THEN [binders[i] EXCEPT !.box = "freed"] ELSE binders[i]]

(* ... binds one port after the other, each with the credentials it takes  *)
(* out of the binder ...                                                   *)
BindPort ==
  /\ at = "bind" /\ Unbound # {}
  /\ LET i == CHOOSE i \in Unbound : \A j \in Unbound : i <= j IN
       /\ binders' = [binders EXCEPT ![i].port = i]
       /\ creds' = IF binders[i].how = "cred" THEN "none" ELSE creds
  /\ UNCHANGED <<envVars, cb, dirty, leaked, at, handlers, registry, core, registered, slots>>

(* ... gives up at the first that cannot be had: core's server goes, then  *)
(* the builder with its binders and its Arc ...                            *)
BindFail ==
  /\ at = "bind" /\ Unbound # {}
  /\ at' = "failed" /\ core' = "destroyed" /\ binders' = Free
  /\ creds' = IF creds = "binder" THEN "none" ELSE creds
  /\ Unref(ServerArc)
  /\ UNCHANGED <<queued, cb, dirty, leaked, handlers, registry, registered, slots>>
  /\ EnvRest

BindDone ==
  /\ at = "bind" /\ Unbound = {}
  /\ at' = "register"
  /\ UNCHANGED <<envVars, credVars, binders, handlers, registry, core, registered, slots>>

(* ... and registers the queues. A queue that was shut down ends build     *)
(* with the error of the borrow: core's server stays behind.               *)
Register ==
  /\ at = "register"
  /\ IF Left(registered) = {}
     THEN at' = "built" /\ UNCHANGED <<registered, binders, arcs, life>>
     ELSE IF CanBorrow(NextOf(registered))
     THEN registered' = registered \cup {NextOf(registered)} /\ UNCHANGED <<at, binders, arcs, life>>
     ELSE at' = "failed" /\ binders' = Free /\ Unref(ServerArc) /\ UNCHANGED registered
  /\ UNCHANGED <<queued, credVars, handlers, registry, core, slots>> /\ EnvRest

(* Server::start: core first, then a copy of the handlers and the request  *)
(* slots of every queue.                                                   *)
Start ==
  /\ at = "built"
  /\ at' = "serving" /\ core' = "started"
  /\ registry' = [q \in Threads |-> handlers]
  /\ slots' = [q \in Threads |-> IF CanBorrow(q) THEN Slots ELSE 0]
  /\ queued' = [q \in Threads |-> queued[q] + slots'[q]]
  /\ UNCHANGED <<thread, mail, cqs, idx, arcs, life, closed, credVars, binders, handlers,
                 registered>>

(* The drop of the Server has shut core's server down; its Arc of the      *)
(* Environment goes, then its Arc of the ServerCore.                       *)
DropServer ==
  /\ at \in {"built", "serving"}
  /\ at' = "dropping"
  /\ Unref(ServerArc)
  /\ UNCHANGED <<queued, credVars, binders, handlers, registry, core, registered, slots>>
  /\ EnvRest

(* Mutant: the binders belong to the Server, not to the ServerCore.        *)
DropCoreBinders(slotsLeft, atLeft) ==
  /\ core' = IF atLeft = "dropped" /\ \A q \in Threads : slotsLeft[q] = 0
             THEN "destroyed" ELSE core
  /\ binders' = IF atLeft = "dropped" THEN Free ELSE binders

(* Drop for ServerCore, when its last Arc goes: core's server, and after   *)
(* it the fields, the binders among them.                                  *)
DropCore(slotsLeft, atLeft) ==
  IF atLeft = "dropped" /\ \A q \in Threads : slotsLeft[q] = 0
  THEN core' = "destroyed" /\ binders' = Free
  ELSE UNCHANGED <<core, binders>>

DropServerCore ==
  /\ at = "dropping"
  /\ at' = "dropped"
  /\ DropCore(slots, "dropped")
  /\ UNCHANGED <<envVars, credVars, handlers, registry, registered, slots>>

(* A slot of a server that was shut down comes back to its poll thread,    *)
(* which drops its context.                                                *)
RetireSlot(q) ==
  /\ at \in {"dropping", "dropped"} /\ slots[q] > 0
  /\ slots' = [slots EXCEPT ![q] = @ - 1]
  /\ Dequeue(q)
  /\ DropCore(slots', at)
  /\ UNCHANGED <<thread, mail, cqs, idx, arcs, life, closed, credVars, at, handlers, registry,
                 registered>>

(* A server that serves is whole: every port it was to listen on is bound, *)
(* core knows every queue that it makes requests on and each queue has all *)
(* handlers, the last one registered of each path; the fetcher that core   *)
(* calls for every new connection (security/credentials.rs:97-121) is      *)
(* there as long as core's server is, although request slots outlive the   *)
(* Server; and a build that fails leaves no server of core's behind        *)
(* (server.rs:356-393, 453-464).                                           *)
ServerWhole ==
  /\ core = "started" =>
       /\ Unbound = {} /\ registered = Threads
       /\ \A q \in Threads : registry[q] = handlers
       /\ \A i \in DOMAIN binders : binders[i].box # "freed"
  /\ at = "failed" => core = "destroyed"
=============================================================================
