---------------------------------- MODULE Services ----------------------------------
(***************************************************************************)
(* The two services the repository ships over the library: the health      *)
(* service (Health) and the benchmark worker (Worker). They run in         *)
(* different programs, so a behaviour follows one.                         *)
(***************************************************************************)
EXTENDS Health, Worker

CONSTANT OneKind   \* the worker's configuration where it stands still

ASSUME OneKind \in Kinds

VARIABLE part  \* health or worker

serviceVars == <<part, healthVars, workerVars>>

ServicesInit ==
  /\ part \in {"health", "worker"}
  /\ HealthInit /\ (part # "health" => serial)
  /\ WorkerInit /\ (part # "worker" => kind = OneKind)

ServicesNext ==
  \/ part = "health" /\ HealthNext /\ UNCHANGED <<part, workerVars>>
  \/ part = "worker" /\ WorkerNext /\ UNCHANGED <<part, healthVars>>

ServicesSpec ==
  /\ ServicesInit /\ [][ServicesNext]_serviceVars
  /\ HealthFairness /\ WorkerFairness
=============================================================================
