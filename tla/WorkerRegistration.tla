-------------------------- MODULE WorkerRegistration --------------------------
(***************************************************************************)
(* Agents that register themselves when they start: ensureRegistered of    *)
(* worker-agent/src/workers/task-handler.ts, and of the coordinator        *)
(* localRegisterCoordinator of contract/local-contract.ts.  A worker looks *)
(* its DID up in the registry and, an RPC later, registers, moves its      *)
(* endpoint or does nothing; a coordinator registers or does nothing.      *)
(* Meanwhile owners, admin and controllers call the registry as they       *)
(* please.                                                                 *)
(***************************************************************************)
EXTENDS Registry

CONSTANTS
  OwnAccount,     \* the account each worker signs with
  CoordinatorAccount,   \* and each coordinator
  CoordinatorRange,     \* MIN_WORKERS and MAX_WORKERS of each
  OwnDeposit,     \* DEPOSIT_0_1_NEAR, what it attaches
  ViewsMayFail,   \* whether a view call may fail, which reads as "no record"
  MaxStarts,      \* bound: starts in a behaviour
  NoEndpoint

ASSUME RegistrationAssumption ==
  /\ OwnAccount \in [WorkerDid -> Account]
  /\ CoordinatorAccount \in [CoordinatorDid -> Account]
  /\ CoordinatorRange \in [CoordinatorDid -> WorkerRanges]
  /\ OwnDeposit \in Deposit
  /\ ViewsMayFail \in BOOLEAN
  /\ MaxStarts \in Nat

VARIABLES
  start,   \* each worker's start: where it is and the URL it has this time
  coordinatorStart,   \* where each coordinator's is
  starts   \* ghost: starts so far

registrationVars == <<registryVars, start, coordinatorStart, starts>>

NotStarting == [pc |-> "idle", endpoint |-> NoEndpoint]

RegistrationInit ==
  /\ RegistryInit
  /\ start = [w \in WorkerDid |-> NotStarting]
  /\ coordinatorStart = [c \in CoordinatorDid |-> "idle"]
  /\ starts = 0

-----------------------------------------------------------------------------

\* get_worker_by_did or get_coordinator_by_did, which find inactive and unlisted
\* records too.
Viewed(record) == {record} \cup (IF ViewsMayFail THEN {NoRecord} ELSE {})

\* The process starts, perhaps at a new URL, and looks its record up.
LookUp(w, endpoint) ==
  /\ start[w].pc = "idle"
  /\ starts < MaxStarts
  /\ starts' = starts + 1
  /\ \E existing \in Viewed(workers_by_did[w]) :
       start' = [start EXCEPT ![w] =
         IF existing = NoRecord
         THEN [pc |-> "registering", endpoint |-> endpoint]
         ELSE IF existing.endpoint_url # endpoint
         THEN [pc |-> "updating", endpoint |-> endpoint]
         ELSE NotStarting]
  /\ UNCHANGED <<registryVars, coordinatorStart>>

\* The call is taken, or refused and only logged: the worker runs on either way.
Register(w) ==
  /\ start[w].pc = "registering"
  /\ IF WorkerAccepted(OwnAccount[w], w, OwnDeposit)
     THEN register_worker_inner(OwnAccount[w], w, OwnDeposit, start[w].endpoint, NoKey)
     ELSE UNCHANGED registryVars
  /\ start' = [start EXCEPT ![w] = NotStarting]
  /\ UNCHANGED <<coordinatorStart, starts>>

UpdateEndpoint(w) ==
  /\ start[w].pc = "updating"
  /\ IF EndpointAccepted(OwnAccount[w], w)
     THEN update_worker_endpoint(OwnAccount[w], w, start[w].endpoint)
     ELSE UNCHANGED registryVars
  /\ start' = [start EXCEPT ![w] = NotStarting]
  /\ UNCHANGED <<coordinatorStart, starts>>

\* The process ends before its call.
Stop(w) ==
  /\ start[w].pc # "idle"
  /\ start' = [start EXCEPT ![w] = NotStarting]
  /\ UNCHANGED <<registryVars, coordinatorStart, starts>>

-----------------------------------------------------------------------------

\* A coordinator that has a record leaves it as it is, whatever it says.
LookUpCoordinator(c) ==
  /\ coordinatorStart[c] = "idle"
  /\ starts < MaxStarts
  /\ starts' = starts + 1
  /\ \E existing \in Viewed(coordinators_by_did[c]) :
       coordinatorStart' = [coordinatorStart EXCEPT ![c] =
         IF existing = NoRecord THEN "registering" ELSE "idle"]
  /\ UNCHANGED <<registryVars, start>>

localRegisterCoordinator(c) ==
  /\ coordinatorStart[c] = "registering"
  /\ IF CoordinatorAccepted(CoordinatorAccount[c], c, OwnDeposit, CoordinatorRange[c])
     THEN register_coordinator(CoordinatorAccount[c], c, OwnDeposit, CoordinatorRange[c])
     ELSE UNCHANGED registryVars
  /\ coordinatorStart' = [coordinatorStart EXCEPT ![c] = "idle"]
  /\ UNCHANGED <<start, starts>>

StopCoordinator(c) ==
  /\ coordinatorStart[c] = "registering"
  /\ coordinatorStart' = [coordinatorStart EXCEPT ![c] = "idle"]
  /\ UNCHANGED <<registryVars, start, starts>>

RegistrationNext ==
  \/ Call /\ UNCHANGED <<start, coordinatorStart, starts>>
  \/ \E w \in WorkerDid :
       \/ \E endpoint \in Endpoint : LookUp(w, endpoint)
       \/ Register(w)
       \/ UpdateEndpoint(w)
       \/ Stop(w)
  \/ \E c \in CoordinatorDid :
       LookUpCoordinator(c) \/ localRegisterCoordinator(c) \/ StopCoordinator(c)

RegistrationSpec == RegistrationInit /\ [][RegistrationNext]_registrationVars

=============================================================================
