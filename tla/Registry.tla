------------------------------- MODULE Registry -------------------------------
(***************************************************************************)
(* The registry contract, registry-contract/src/lib.rs: who the workers    *)
(* and coordinators are.  Anyone registers a DID for a deposit; who pays   *)
(* owns the record; owner, admin or, for workers, the holder of a          *)
(* controller key deactivate it.  Coordinators find workers through        *)
(* list_active_workers.                                                    *)
(*                                                                         *)
(* The maps are near_sdk's IterableMap: entries lie in storage under a     *)
(* prefix, the order of their keys in a vector whose length lies in the    *)
(* contract's state.  Making the map anew under its old prefix forgets the *)
(* vector and leaves the entries, as a comment of the coordinator contract *)
(* (lib.rs:19-21) says of its own maps.  So a map is two variables here.   *)
(*                                                                         *)
(* Abstracted: cvm_id, time stamps, endpoints of coordinators; DIDs are    *)
(* well formed and nonces not empty; a signature is what was signed and    *)
(* with which key; next_worker_seq, which nothing uses.                    *)
(***************************************************************************)
EXTENDS Naturals, Sequences

CONSTANTS
  Account,         \* accounts that call the contract
  WorkerDid, CoordinatorDid,
  Endpoint,        \* URLs of workers
  Key,             \* keys of controllers
  Nonce,           \* nonces controllers sign
  Deposit,         \* deposits attached to calls and set as the minimum
  DefaultDeposit,  \* DEFAULT_MIN_DEPOSIT
  WorkerRanges,    \* pairs <<min_workers, max_workers>> coordinators ask for
  MaxReinits,      \* bound: calls of force_reinitialize
  NoRecord,        \* absence of an entry in a map
  NoKey            \* None in controller_pubkey

U8 == 0 .. 255

WorkerRecord ==
  [ account_id : Account, endpoint_url : Endpoint, is_active : BOOLEAN,
    controller_pubkey : Key \cup {NoKey} ]

CoordinatorRecord ==
  [ account_id : Account, min_workers : U8, max_workers : U8, is_active : BOOLEAN ]

ASSUME RegistryAssumption ==
  /\ Deposit \subseteq Nat
  /\ DefaultDeposit \in Deposit
  /\ WorkerRanges \subseteq U8 \X U8
  /\ MaxReinits \in Nat
  /\ NoRecord \notin WorkerRecord \cup CoordinatorRecord
  /\ NoKey \notin Key

VARIABLES
  admin,
  workers_by_did, workerKeys,             \* entries and keys of one map
  coordinators_by_did, coordinatorKeys,
  min_deposit,
  used_controller_nonces,
  taken,    \* ghost: how often a controller's signature was accepted
  reinits   \* ghost: calls of force_reinitialize

workerVars == <<workers_by_did, workerKeys>>
coordinatorVars == <<coordinators_by_did, coordinatorKeys>>
adminVars == <<admin, min_deposit, reinits>>
nonceVars == <<used_controller_nonces, taken>>
registryVars == <<workerVars, coordinatorVars, adminVars, nonceVars>>

RegistryInit ==
  /\ admin \in Account
  /\ workers_by_did = [w \in WorkerDid |-> NoRecord]
  /\ workerKeys = << >>
  /\ coordinators_by_did = [c \in CoordinatorDid |-> NoRecord]
  /\ coordinatorKeys = << >>
  /\ min_deposit = DefaultDeposit
  /\ used_controller_nonces = {}
  /\ taken = [p \in WorkerDid \X Nonce |-> 0]
  /\ reinits = 0

-----------------------------------------------------------------------------
(* Maps *)

\* Mutant: the key is added again when the entry is replaced.
KeysWith_Always(keys, map, did) == Append(keys, did)

\* IterableMap::insert adds the key only where it finds no entry.
KeysWith(keys, map, did) == IF map[did] = NoRecord THEN Append(keys, did) ELSE keys

\* list_active_workers, list_active_coordinators: the entries the keys lead to.
Listed(keys, map) == SelectSeq(keys, LAMBDA did : map[did].is_active)

-----------------------------------------------------------------------------
(* Registration *)

\* Mutant: the record of a deactivated DID is anybody's.
Entitled_Active(caller, record) ==
  (record # NoRecord /\ record.is_active) => caller \in {record.account_id, admin}

\* A DID that is taken can be registered again by its owner or the admin, who
\* then owns it.
Entitled(caller, record) == record # NoRecord => caller \in {record.account_id, admin}

CoordinatorAccepted(caller, did, deposit, range) ==
  /\ deposit >= min_deposit
  /\ range[1] <= range[2]
  /\ range[2] > 0
  /\ Entitled(caller, coordinators_by_did[did])

register_coordinator(caller, did, deposit, range) ==
  /\ CoordinatorAccepted(caller, did, deposit, range)
  /\ coordinators_by_did' = [coordinators_by_did EXCEPT ![did] =
       [account_id |-> caller, min_workers |-> range[1], max_workers |-> range[2],
        is_active |-> TRUE]]
  /\ coordinatorKeys' = KeysWith(coordinatorKeys, coordinators_by_did, did)
  /\ UNCHANGED <<workerVars, adminVars, nonceVars>>

WorkerAccepted(caller, did, deposit) ==
  /\ deposit >= min_deposit
  /\ Entitled(caller, workers_by_did[did])

\* register_worker passes no key, register_worker_with_controller one; either
\* way the record is replaced as a whole and active.
register_worker_inner(caller, did, deposit, endpoint, key) ==
  /\ WorkerAccepted(caller, did, deposit)
  /\ workers_by_did' = [workers_by_did EXCEPT ![did] =
       [account_id |-> caller, endpoint_url |-> endpoint, is_active |-> TRUE,
        controller_pubkey |-> key]]
  /\ workerKeys' = KeysWith(workerKeys, workers_by_did, did)
  /\ UNCHANGED <<coordinatorVars, adminVars, nonceVars>>

-----------------------------------------------------------------------------
(* Changes of a record *)

EndpointAccepted(caller, did) ==
  /\ workers_by_did[did] # NoRecord
  /\ Entitled(caller, workers_by_did[did])

update_worker_endpoint(caller, did, endpoint) ==
  /\ EndpointAccepted(caller, did)
  /\ workers_by_did' = [workers_by_did EXCEPT ![did].endpoint_url = endpoint]
  /\ UNCHANGED <<workerKeys, coordinatorVars, adminVars, nonceVars>>

deactivate_worker(caller, did) ==
  /\ workers_by_did[did] # NoRecord
  /\ Entitled(caller, workers_by_did[did])
  /\ workers_by_did' = [workers_by_did EXCEPT ![did].is_active = FALSE]
  /\ UNCHANGED <<workerKeys, coordinatorVars, adminVars, nonceVars>>

deactivate_coordinator(caller, did) ==
  /\ coordinators_by_did[did] # NoRecord
  /\ Entitled(caller, coordinators_by_did[did])
  /\ coordinators_by_did' = [coordinators_by_did EXCEPT ![did].is_active = FALSE]
  /\ UNCHANGED <<workerVars, coordinatorKeys, adminVars, nonceVars>>

\* What a controller signs, and with which key.
Signature == [key : Key, did : WorkerDid, nonce : Nonce]

\* Whoever calls: what counts is a signature of the key the record names now,
\* over this DID and a nonce not spent for it.
deactivate_worker_by_controller(did, nonce, sig) ==
  /\ workers_by_did[did] # NoRecord
  /\ workers_by_did[did].controller_pubkey # NoKey
  /\ <<did, nonce>> \notin used_controller_nonces
  /\ sig = [key |-> workers_by_did[did].controller_pubkey, did |-> did, nonce |-> nonce]
  /\ used_controller_nonces' = used_controller_nonces \cup {<<did, nonce>>}
  /\ taken' = [taken EXCEPT ![<<did, nonce>>] = @ + 1]
  /\ workers_by_did' = [workers_by_did EXCEPT ![did].is_active = FALSE]
  /\ UNCHANGED <<workerKeys, coordinatorVars, adminVars>>

set_min_deposit(caller, amount) ==
  /\ caller = admin
  /\ min_deposit' = amount
  /\ UNCHANGED <<admin, workerVars, coordinatorVars, nonceVars, reinits>>

\* Mutant: the maps are emptied as well, the spent nonces with them.
force_reinitialize_Clear(new_admin) ==
  /\ reinits < MaxReinits
  /\ reinits' = reinits + 1
  /\ admin' = new_admin
  /\ workers_by_did' = [w \in WorkerDid |-> NoRecord]
  /\ workerKeys' = << >>
  /\ coordinators_by_did' = [c \in CoordinatorDid |-> NoRecord]
  /\ coordinatorKeys' = << >>
  /\ min_deposit' = DefaultDeposit
  /\ used_controller_nonces' = {}
  /\ UNCHANGED taken

\* Called by the contract's own account after a deployment.  Maps and set are
\* made anew under their old prefixes: entries and spent nonces stay in storage.
force_reinitialize(new_admin) ==
  /\ reinits < MaxReinits
  /\ reinits' = reinits + 1
  /\ admin' = new_admin
  /\ workerKeys' = << >>
  /\ coordinatorKeys' = << >>
  /\ min_deposit' = DefaultDeposit
  /\ UNCHANGED <<workers_by_did, coordinators_by_did, nonceVars>>

-----------------------------------------------------------------------------

WorkerCall(caller, did) ==
  \/ \E deposit \in Deposit, endpoint \in Endpoint, key \in Key \cup {NoKey} :
       register_worker_inner(caller, did, deposit, endpoint, key)
  \/ \E endpoint \in Endpoint : update_worker_endpoint(caller, did, endpoint)
  \/ deactivate_worker(caller, did)

CoordinatorCall(caller, did) ==
  \/ \E deposit \in Deposit, range \in WorkerRanges :
       register_coordinator(caller, did, deposit, range)
  \/ deactivate_coordinator(caller, did)

Call ==
  \/ \E a \in Account, w \in WorkerDid : WorkerCall(a, w)
  \/ \E a \in Account, c \in CoordinatorDid : CoordinatorCall(a, c)
  \/ \E w \in WorkerDid, n \in Nonce, sig \in Signature :
       deactivate_worker_by_controller(w, n, sig)
  \/ \E a \in Account, amount \in Deposit : set_min_deposit(a, amount)
  \/ \E a \in Account : force_reinitialize(a)

RegistrySpec == RegistryInit /\ [][Call]_registryVars

-----------------------------------------------------------------------------
(* Correctness *)

RegistryTypeOK ==
  /\ admin \in Account
  /\ workers_by_did \in [WorkerDid -> WorkerRecord \cup {NoRecord}]
  /\ workerKeys \in Seq(WorkerDid)
  /\ coordinators_by_did \in [CoordinatorDid -> CoordinatorRecord \cup {NoRecord}]
  /\ coordinatorKeys \in Seq(CoordinatorDid)
  /\ min_deposit \in Deposit
  /\ used_controller_nonces \in SUBSET (WorkerDid \X Nonce)
  /\ taken \in [WorkerDid \X Nonce -> Nat]
  /\ reinits \in 0 .. MaxReinits

\* A signature takes a worker down once: not again after the worker was
\* registered anew, its key replaced and put back, or the contract
\* re-initialized.
SignatureTakenOnce ==
  \A p \in WorkerDid \X Nonce :
    /\ taken[p] <= 1
    /\ taken[p] = 1 <=> p \in used_controller_nonces

\* What the entries and the nonces keep, registered anew or re-initialized.
RegistryInv == RegistryTypeOK /\ SignatureTakenOnce

Lists(keys, did) == \E i \in DOMAIN keys : keys[i] = did

\* What discovery shows: no DID twice, none without a record, and, until the
\* contract is first re-initialized, every record.
KeysFit(keys, map) ==
  /\ \A i, j \in DOMAIN keys : keys[i] = keys[j] => i = j
  /\ \A i \in DOMAIN keys : map[keys[i]] # NoRecord
  /\ reinits = 0 => \A did \in DOMAIN map : map[did] # NoRecord => Lists(keys, did)

DiscoveryFits ==
  /\ KeysFit(workerKeys, workers_by_did)
  /\ KeysFit(coordinatorKeys, coordinators_by_did)

\* A DID stays with the account that registered it, through deactivation and
\* re-initialization, unless the admin takes it over.
OwnershipKept ==
  [][/\ \A w \in WorkerDid : workers_by_did[w] # NoRecord =>
          workers_by_did'[w].account_id \in {workers_by_did[w].account_id, admin}
     /\ \A c \in CoordinatorDid : coordinators_by_did[c] # NoRecord =>
          coordinators_by_did'[c].account_id \in {coordinators_by_did[c].account_id, admin}
    ]_registryVars

-----------------------------------------------------------------------------
(* What a comment of the source says and the code does not do *)

\* "List all active workers", and after a re-initialization existing workers are
\* to be registered again: a worker a call leaves active can be discovered.
RegisteredIsListed ==
  [][\A w \in WorkerDid :
       (workers_by_did'[w] # workers_by_did[w] /\ workers_by_did'[w].is_active)
         => Lists(Listed(workerKeys, workers_by_did)', w)]_registryVars
=============================================================================
