------------------------------- MODULE MCParts -------------------------------
(* Three parts that share no state, each checked by itself while the others *)
(* stand still: the purchase of an agent, the registry with the agents that *)
(* register there, and a worker with its handlers, which shares nothing but *)
(* the task definition with other workers.                                  *)
EXTENDS MCProvisioning, MCWorkerRegistration, WorkerAgent

VARIABLE part

PartsInit ==
  /\ part \in {"provisioning", "registry", "worker"}
  /\ ProvisioningInit /\ (part # "provisioning" => kind = "worker")
  /\ RegistrationInit /\ (part # "registry" => admin = a1)
  /\ Init

PartsNext ==
  /\ UNCHANGED part
  /\ \/ part = "provisioning" /\ ProvisioningNext /\ UNCHANGED <<registrationVars, vars>>
     \/ part = "registry" /\ RegistrationNext /\ UNCHANGED <<provisioningVars, vars>>
     \/ part = "worker" /\ Next /\ UNCHANGED <<provisioningVars, registrationVars>>

\* A part that stands still is in its first state, where nothing its fairness is about
\* can happen.
PartsSpec ==
  /\ PartsInit /\ [][PartsNext]_<<part, provisioningVars, registrationVars, vars>>
  /\ ProvisioningFairness /\ Fairness
=============================================================================
