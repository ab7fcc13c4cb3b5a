---------------------------- MODULE RegistryProofs ----------------------------
(* Theorems of Registry, for all accounts, DIDs, keys, nonces and deposits,   *)
(* and their transfer to workers that register themselves.                    *)
EXTENDS WorkerRegistration, TLAPS

-----------------------------------------------------------------------------
(* Types *)

\* What KeysWith gives is again a list of keys.
LEMMA KeysType ==
  ASSUME NEW S, NEW keys \in Seq(S), NEW map, NEW did \in S
  PROVE  KeysWith(keys, map, did) \in Seq(S)
  BY DEF KeysWith

\* The absence of an entry is no record.
LEMMA NoRecordApart == NoRecord \notin WorkerRecord /\ NoRecord \notin CoordinatorRecord
  BY RegistryAssumption

\* Every call keeps the types.
LEMMA CallType == RegistryTypeOK /\ [Call]_registryVars => RegistryTypeOK'
<1> SUFFICES ASSUME RegistryTypeOK, [Call]_registryVars PROVE RegistryTypeOK'
  OBVIOUS
<1> USE DEF RegistryTypeOK
<1>1. ASSUME NEW a \in Account, NEW w \in WorkerDid, NEW deposit \in Deposit,
             NEW endpoint \in Endpoint, NEW key \in Key \cup {NoKey},
             register_worker_inner(a, w, deposit, endpoint, key)
      PROVE  RegistryTypeOK'
  <2>1. [account_id |-> a, endpoint_url |-> endpoint, is_active |-> TRUE,
         controller_pubkey |-> key] \in WorkerRecord
    BY DEF WorkerRecord
  <2>2. workerKeys' \in Seq(WorkerDid)
    BY <1>1, KeysType DEF register_worker_inner
  <2> QED BY <1>1, <2>1, <2>2 DEF register_worker_inner, coordinatorVars, adminVars, nonceVars
<1>2. ASSUME NEW a \in Account, NEW w \in WorkerDid, NEW endpoint \in Endpoint,
             update_worker_endpoint(a, w, endpoint)
      PROVE  RegistryTypeOK'
  <2>1. [workers_by_did[w] EXCEPT !.endpoint_url = endpoint] \in WorkerRecord
    BY <1>2 DEF update_worker_endpoint, EndpointAccepted, WorkerRecord
  <2> QED BY <1>2, <2>1 DEF update_worker_endpoint, coordinatorVars, adminVars, nonceVars
<1>3. ASSUME NEW a \in Account, NEW w \in WorkerDid, deactivate_worker(a, w)
      PROVE  RegistryTypeOK'
  <2>1. [workers_by_did[w] EXCEPT !.is_active = FALSE] \in WorkerRecord
    BY <1>3 DEF deactivate_worker, WorkerRecord
  <2> QED BY <1>3, <2>1 DEF deactivate_worker, coordinatorVars, adminVars, nonceVars
<1>4. ASSUME NEW a \in Account, NEW c \in CoordinatorDid, NEW deposit \in Deposit,
             NEW range \in WorkerRanges, register_coordinator(a, c, deposit, range)
      PROVE  RegistryTypeOK'
  <2>1. [account_id |-> a, min_workers |-> range[1], max_workers |-> range[2],
         is_active |-> TRUE] \in CoordinatorRecord
    BY RegistryAssumption DEF CoordinatorRecord
  <2>2. coordinatorKeys' \in Seq(CoordinatorDid)
    BY <1>4, KeysType DEF register_coordinator
  <2> QED BY <1>4, <2>1, <2>2 DEF register_coordinator, workerVars, adminVars, nonceVars
<1>5. ASSUME NEW a \in Account, NEW c \in CoordinatorDid, deactivate_coordinator(a, c)
      PROVE  RegistryTypeOK'
  <2>1. [coordinators_by_did[c] EXCEPT !.is_active = FALSE] \in CoordinatorRecord
    BY <1>5 DEF deactivate_coordinator, CoordinatorRecord
  <2> QED BY <1>5, <2>1 DEF deactivate_coordinator, workerVars, adminVars, nonceVars
<1>6. ASSUME NEW w \in WorkerDid, NEW n \in Nonce, NEW sig \in Signature,
             deactivate_worker_by_controller(w, n, sig)
      PROVE  RegistryTypeOK'
  <2>1. [workers_by_did[w] EXCEPT !.is_active = FALSE] \in WorkerRecord
    BY <1>6 DEF deactivate_worker_by_controller, WorkerRecord
  <2>2. taken' \in [WorkerDid \X Nonce -> Nat]
    BY <1>6 DEF deactivate_worker_by_controller
  <2> QED BY <1>6, <2>1, <2>2 DEF deactivate_worker_by_controller, coordinatorVars, adminVars
<1>7. ASSUME NEW a \in Account, NEW amount \in Deposit, set_min_deposit(a, amount)
      PROVE  RegistryTypeOK'
  BY <1>7 DEF set_min_deposit, workerVars, coordinatorVars, nonceVars
<1>8. ASSUME NEW a \in Account, force_reinitialize(a)
      PROVE  RegistryTypeOK'
  BY <1>8, RegistryAssumption DEF force_reinitialize, nonceVars
<1>9. CASE UNCHANGED registryVars
  BY <1>9 DEF registryVars, workerVars, coordinatorVars, adminVars, nonceVars
<1> QED BY <1>1, <1>2, <1>3, <1>4, <1>5, <1>6, <1>7, <1>8, <1>9
        DEF Call, WorkerCall, CoordinatorCall

\* The initial state has the types.
LEMMA InitType == RegistryInit => RegistryTypeOK
  BY RegistryAssumption DEF RegistryInit, RegistryTypeOK

\* Records, keys, nonces and deposits always have their types.
THEOREM TypeCorrect == RegistrySpec => []RegistryTypeOK
BY InitType, CallType, PTL DEF RegistrySpec

-----------------------------------------------------------------------------
(* Signatures *)

\* No call but an accepted signature touches the nonces.
LEMMA CallNonces ==
  ASSUME RegistryTypeOK, [Call]_registryVars
  PROVE  \/ UNCHANGED nonceVars
         \/ \E p \in WorkerDid \X Nonce :
              /\ p \notin used_controller_nonces
              /\ used_controller_nonces' = used_controller_nonces \cup {p}
              /\ taken' = [taken EXCEPT ![p] = @ + 1]
<1>1. ASSUME NEW w \in WorkerDid, NEW n \in Nonce, NEW sig \in Signature,
             deactivate_worker_by_controller(w, n, sig)
      PROVE  \E p \in WorkerDid \X Nonce :
              /\ p \notin used_controller_nonces
              /\ used_controller_nonces' = used_controller_nonces \cup {p}
              /\ taken' = [taken EXCEPT ![p] = @ + 1]
  <2> WITNESS <<w, n>> \in WorkerDid \X Nonce
  <2> QED BY <1>1 DEF deactivate_worker_by_controller
<1> QED
  BY <1>1 DEF Call, WorkerCall, CoordinatorCall, register_worker_inner,
       update_worker_endpoint, deactivate_worker, register_coordinator,
       deactivate_coordinator, set_min_deposit, force_reinitialize, nonceVars, registryVars

\* Signatures taken and nonces spent go together.
LEMMA CallSignatures ==
  RegistryTypeOK /\ SignatureTakenOnce /\ [Call]_registryVars => SignatureTakenOnce'
<1> SUFFICES ASSUME RegistryTypeOK, SignatureTakenOnce, [Call]_registryVars,
                    NEW p \in WorkerDid \X Nonce
             PROVE  taken'[p] <= 1 /\ (taken'[p] = 1 <=> p \in used_controller_nonces')
  BY DEF SignatureTakenOnce
<1>1. taken \in [WorkerDid \X Nonce -> Nat]
  BY DEF RegistryTypeOK
<1>2. CASE UNCHANGED nonceVars
  BY <1>2 DEF nonceVars, SignatureTakenOnce
<1>3. ASSUME NEW q \in WorkerDid \X Nonce,
             q \notin used_controller_nonces,
             used_controller_nonces' = used_controller_nonces \cup {q},
             taken' = [taken EXCEPT ![q] = @ + 1]
      PROVE  taken'[p] <= 1 /\ (taken'[p] = 1 <=> p \in used_controller_nonces')
  <2>1. taken[q] \in Nat /\ taken[q] <= 1 /\ taken[q] # 1
    BY <1>1, <1>3 DEF SignatureTakenOnce
  <2>2. taken'[q] = 1
    BY <1>1, <1>3, <2>1
  <2>3. p # q => taken'[p] = taken[p]
    BY <1>1, <1>3
  <2> QED BY <1>3, <2>2, <2>3 DEF SignatureTakenOnce
<1> QED BY <1>2, <1>3, CallNonces

\* A controller's signature takes a worker down once, ever.
THEOREM SignaturesOnce == RegistrySpec => []SignatureTakenOnce
<1>1. RegistryInit => SignatureTakenOnce
  BY DEF RegistryInit, SignatureTakenOnce
<1> QED BY <1>1, CallSignatures, TypeCorrect, PTL DEF RegistrySpec

\* Types and signatures together.
THEOREM RegistryCorrect == RegistrySpec => []RegistryInv
BY TypeCorrect, SignaturesOnce, PTL DEF RegistryInv

-----------------------------------------------------------------------------
(* Discovery *)

\* A registration keeps keys and entries together: a new DID is in no key.
LEMMA Inserted ==
  ASSUME NEW S, NEW keys \in Seq(S), NEW map, DOMAIN map = S, NEW did \in S,
         NEW entry, entry # NoRecord, KeysFit(keys, map)
  PROVE  KeysFit(KeysWith(keys, map, did), [map EXCEPT ![did] = entry])
<1> DEFINE new == [map EXCEPT ![did] = entry]
<1>1. \A x \in S : new[x] = IF x = did THEN entry ELSE map[x]
  OBVIOUS
<1>2. CASE map[did] # NoRecord
  BY <1>1, <1>2 DEF KeysFit, KeysWith, Lists
<1>3. CASE map[did] = NoRecord
  <2> DEFINE longer == Append(keys, did)
  <2>1. KeysWith(keys, map, did) = longer
    BY <1>3 DEF KeysWith
  <2>2. /\ DOMAIN longer = 1 .. Len(keys) + 1
        /\ \A i \in 1 .. Len(keys) : longer[i] = keys[i]
        /\ longer[Len(keys) + 1] = did
        /\ DOMAIN keys = 1 .. Len(keys) /\ Len(keys) \in Nat
    OBVIOUS
  <2>3. \A i \in DOMAIN keys : keys[i] # did
    BY <1>3 DEF KeysFit
  <2> HIDE DEF longer, new
  <2>4. \A i, j \in DOMAIN longer : longer[i] = longer[j] => i = j
    BY <2>2, <2>3 DEF KeysFit
  <2>5. \A i \in DOMAIN longer : new[longer[i]] # NoRecord
    BY <1>1, <2>2 DEF KeysFit
  <2>6. \A x \in S : x = did \/ Lists(keys, x) => Lists(longer, x)
    BY <2>2 DEF Lists
  <2>7. reinits = 0 => \A x \in S : new[x] # NoRecord => Lists(longer, x)
    BY <1>1, <2>6 DEF KeysFit
  <2> QED BY <2>1, <2>4, <2>5, <2>7 DEF KeysFit, new
<1> QED BY <1>2, <1>3

\* So does a change of a record that is there.
LEMMA Replaced ==
  ASSUME NEW S, NEW keys \in Seq(S), NEW map, DOMAIN map = S, NEW did \in S,
         NEW entry, entry # NoRecord, map[did] # NoRecord, KeysFit(keys, map)
  PROVE  KeysFit(keys, [map EXCEPT ![did] = entry])
<1>1. KeysWith(keys, map, did) = keys
  BY DEF KeysWith
<1>2. KeysFit(KeysWith(keys, map, did), [map EXCEPT ![did] = entry])
  BY Inserted
<1> QED BY <1>1, <1>2

\* The maps have the DIDs as their domains, and no record is missing one.
LEMMA Domains ==
  RegistryTypeOK => /\ DOMAIN workers_by_did = WorkerDid
            /\ DOMAIN coordinators_by_did = CoordinatorDid
  BY DEF RegistryTypeOK

\* Calls that change no map and do not re-initialize keep what discovery shows.
LEMMA DiscoveryKept ==
  ASSUME DiscoveryFits, UNCHANGED <<workerVars, coordinatorVars, reinits>>
  PROVE  DiscoveryFits'
  BY DEF DiscoveryFits, KeysFit, Lists, workerVars, coordinatorVars

\* What becomes of one map, the other being left alone.
LEMMA WorkersChanged ==
  ASSUME DiscoveryFits, reinits' = reinits, UNCHANGED coordinatorVars,
         KeysFit(workerKeys', workers_by_did')
  PROVE  DiscoveryFits'
  BY DEF DiscoveryFits, KeysFit, Lists, coordinatorVars

LEMMA CoordinatorsChanged ==
  ASSUME DiscoveryFits, reinits' = reinits, UNCHANGED workerVars,
         KeysFit(coordinatorKeys', coordinators_by_did')
  PROVE  DiscoveryFits'
  BY DEF DiscoveryFits, KeysFit, Lists, workerVars

\* Every call keeps what discovery shows.
LEMMA CallDiscovery ==
  RegistryTypeOK /\ DiscoveryFits /\ [Call]_registryVars => DiscoveryFits'
<1> SUFFICES ASSUME RegistryTypeOK, DiscoveryFits, [Call]_registryVars PROVE DiscoveryFits'
  OBVIOUS
<1>0. /\ KeysFit(workerKeys, workers_by_did)
      /\ KeysFit(coordinatorKeys, coordinators_by_did)
      /\ workerKeys \in Seq(WorkerDid) /\ coordinatorKeys \in Seq(CoordinatorDid)
  BY DEF DiscoveryFits, RegistryTypeOK
<1>1. ASSUME NEW a \in Account, NEW w \in WorkerDid, NEW deposit \in Deposit,
             NEW endpoint \in Endpoint, NEW key \in Key \cup {NoKey},
             register_worker_inner(a, w, deposit, endpoint, key)
      PROVE  DiscoveryFits'
  <2> DEFINE entry == [account_id |-> a, endpoint_url |-> endpoint, is_active |-> TRUE,
                       controller_pubkey |-> key]
  <2>0. entry \in WorkerRecord
    BY DEF WorkerRecord
  <2>1. entry # NoRecord
    BY <2>0, NoRecordApart
  <2> HIDE DEF entry
  <2>2. DOMAIN workers_by_did = WorkerDid
    BY Domains
  <2>3. KeysFit(KeysWith(workerKeys, workers_by_did, w), [workers_by_did EXCEPT ![w] = entry])
    BY <1>0, <2>1, <2>2, Inserted
  <2>4. KeysFit(workerKeys', workers_by_did')
    BY <1>1, <2>3 DEF register_worker_inner, entry
  <2> QED BY <1>1, <2>4, WorkersChanged DEF register_worker_inner, adminVars
<1>2. ASSUME NEW w \in WorkerDid, NEW entry \in WorkerRecord,
             workers_by_did[w] # NoRecord, workerKeys' = workerKeys,
             workers_by_did' = [workers_by_did EXCEPT ![w] = entry],
             UNCHANGED <<coordinatorVars, reinits>>
      PROVE  DiscoveryFits'
  <2>1. entry # NoRecord
    BY <1>2, NoRecordApart
  <2>2. KeysFit(workerKeys, [workers_by_did EXCEPT ![w] = entry])
    BY <1>0, <1>2, <2>1, Domains, Replaced
  <2>3. KeysFit(workerKeys', workers_by_did')
    BY <1>2, <2>2
  <2> QED BY <1>2, <2>3, WorkersChanged
<1>3. ASSUME NEW a \in Account, NEW w \in WorkerDid, NEW endpoint \in Endpoint,
             update_worker_endpoint(a, w, endpoint)
      PROVE  DiscoveryFits'
  <2>1. [workers_by_did[w] EXCEPT !.endpoint_url = endpoint] \in WorkerRecord
    BY <1>3 DEF update_worker_endpoint, EndpointAccepted, WorkerRecord, RegistryTypeOK
  <2> QED BY <1>3, <2>1, <1>2
          DEF update_worker_endpoint, EndpointAccepted, adminVars
<1>4. ASSUME NEW a \in Account, NEW w \in WorkerDid, deactivate_worker(a, w)
      PROVE  DiscoveryFits'
  <2>1. [workers_by_did[w] EXCEPT !.is_active = FALSE] \in WorkerRecord
    BY <1>4 DEF deactivate_worker, WorkerRecord, RegistryTypeOK
  <2> QED BY <1>4, <2>1, <1>2 DEF deactivate_worker, adminVars
<1>5. ASSUME NEW w \in WorkerDid, NEW n \in Nonce, NEW sig \in Signature,
             deactivate_worker_by_controller(w, n, sig)
      PROVE  DiscoveryFits'
  <2>1. [workers_by_did[w] EXCEPT !.is_active = FALSE] \in WorkerRecord
    BY <1>5 DEF deactivate_worker_by_controller, WorkerRecord, RegistryTypeOK
  <2> QED BY <1>5, <2>1, <1>2 DEF deactivate_worker_by_controller, adminVars
<1>6. ASSUME NEW a \in Account, NEW c \in CoordinatorDid, NEW deposit \in Deposit,
             NEW range \in WorkerRanges, register_coordinator(a, c, deposit, range)
      PROVE  DiscoveryFits'
  <2> DEFINE entry == [account_id |-> a, min_workers |-> range[1],
                       max_workers |-> range[2], is_active |-> TRUE]
  <2>1. entry \in CoordinatorRecord
    BY RegistryAssumption DEF CoordinatorRecord
  <2>2. entry # NoRecord
    BY <2>1, NoRecordApart
  <2> HIDE DEF entry
  <2>3. KeysFit(KeysWith(coordinatorKeys, coordinators_by_did, c),
                [coordinators_by_did EXCEPT ![c] = entry])
    BY <1>0, <2>2, Domains, Inserted
  <2>4. KeysFit(coordinatorKeys', coordinators_by_did')
    BY <1>6, <2>3 DEF register_coordinator, entry
  <2> QED BY <1>6, <2>4, CoordinatorsChanged DEF register_coordinator, adminVars
<1>7. ASSUME NEW a \in Account, NEW c \in CoordinatorDid, deactivate_coordinator(a, c)
      PROVE  DiscoveryFits'
  <2> DEFINE entry == [coordinators_by_did[c] EXCEPT !.is_active = FALSE]
  <2>1. entry \in CoordinatorRecord
    BY <1>7 DEF deactivate_coordinator, CoordinatorRecord, RegistryTypeOK
  <2>2. entry # NoRecord
    BY <2>1, NoRecordApart
  <2> HIDE DEF entry
  <2>3. KeysFit(coordinatorKeys, [coordinators_by_did EXCEPT ![c] = entry])
    BY <1>0, <1>7, <2>2, Domains, Replaced DEF deactivate_coordinator
  <2>4. coordinators_by_did' = [coordinators_by_did EXCEPT ![c] = entry]
    BY <1>7 DEF deactivate_coordinator, entry
  <2>5. KeysFit(coordinatorKeys', coordinators_by_did')
    BY <1>7, <2>3, <2>4 DEF deactivate_coordinator
  <2> QED BY <1>7, <2>5, CoordinatorsChanged DEF deactivate_coordinator, adminVars
<1>8. ASSUME NEW a \in Account, NEW amount \in Deposit, set_min_deposit(a, amount)
      PROVE  DiscoveryFits'
  BY <1>8, DiscoveryKept DEF set_min_deposit
<1>9. ASSUME NEW a \in Account, force_reinitialize(a)
      PROVE  DiscoveryFits'
  <2>1. reinits' # 0 /\ workerKeys' = << >> /\ coordinatorKeys' = << >>
    BY <1>9 DEF force_reinitialize, RegistryTypeOK
  <2> QED BY <2>1 DEF DiscoveryFits, KeysFit
<1>10. CASE UNCHANGED registryVars
  BY <1>10, DiscoveryKept DEF registryVars, adminVars
<1> QED BY <1>1, <1>3, <1>4, <1>5, <1>6, <1>7, <1>8, <1>9, <1>10
        DEF Call, WorkerCall, CoordinatorCall

\* Discovery names no DID twice and none without a record, and until the first
\* re-initialization it misses none.
THEOREM DiscoveryCorrect == RegistrySpec => []DiscoveryFits
<1>1. RegistryInit => DiscoveryFits
  BY DEF RegistryInit, DiscoveryFits, KeysFit, Lists
<1> QED BY <1>1, CallDiscovery, TypeCorrect, PTL DEF RegistrySpec

-----------------------------------------------------------------------------
(* Ownership *)

\* No call takes a DID from its owner but one of the admin.
LEMMA CallOwners ==
  ASSUME RegistryTypeOK, [Call]_registryVars
  PROVE  /\ \A w \in WorkerDid : workers_by_did[w] # NoRecord =>
              workers_by_did'[w].account_id \in {workers_by_did[w].account_id, admin}
         /\ \A c \in CoordinatorDid : coordinators_by_did[c] # NoRecord =>
              coordinators_by_did'[c].account_id \in {coordinators_by_did[c].account_id, admin}
<1> DEFINE WorkersKept ==
             \A w \in WorkerDid : workers_by_did[w] # NoRecord =>
               workers_by_did'[w].account_id \in {workers_by_did[w].account_id, admin}
           CoordinatorsKept ==
             \A c \in CoordinatorDid : coordinators_by_did[c] # NoRecord =>
               coordinators_by_did'[c].account_id \in {coordinators_by_did[c].account_id, admin}
<1>1. workers_by_did' = workers_by_did => WorkersKept
  OBVIOUS
<1>2. coordinators_by_did' = coordinators_by_did => CoordinatorsKept
  OBVIOUS
<1>3. ASSUME NEW w \in WorkerDid, NEW entry,
             workers_by_did' = [workers_by_did EXCEPT ![w] = entry],
             workers_by_did[w] # NoRecord =>
               entry.account_id \in {workers_by_did[w].account_id, admin}
      PROVE  WorkersKept
  <2> SUFFICES ASSUME NEW x \in WorkerDid, workers_by_did[x] # NoRecord
               PROVE  workers_by_did'[x].account_id \in {workers_by_did[x].account_id, admin}
    OBVIOUS
  <2>1. workers_by_did'[x] = IF x = w THEN entry ELSE workers_by_did[x]
    BY <1>3, Domains
  <2> QED BY <1>3, <2>1
<1>4. ASSUME NEW c \in CoordinatorDid, NEW entry,
             coordinators_by_did' = [coordinators_by_did EXCEPT ![c] = entry],
             coordinators_by_did[c] # NoRecord =>
               entry.account_id \in {coordinators_by_did[c].account_id, admin}
      PROVE  CoordinatorsKept
  <2> SUFFICES ASSUME NEW x \in CoordinatorDid, coordinators_by_did[x] # NoRecord
               PROVE  coordinators_by_did'[x].account_id
                        \in {coordinators_by_did[x].account_id, admin}
    OBVIOUS
  <2>1. coordinators_by_did'[x] = IF x = c THEN entry ELSE coordinators_by_did[x]
    BY <1>4, Domains
  <2> QED BY <1>4, <2>1
<1> HIDE DEF WorkersKept, CoordinatorsKept
<1>5. ASSUME NEW a \in Account, NEW w \in WorkerDid, WorkerCall(a, w)
      PROVE  WorkersKept /\ CoordinatorsKept
  <2>1. coordinators_by_did' = coordinators_by_did
    BY <1>5 DEF WorkerCall, register_worker_inner, update_worker_endpoint,
                deactivate_worker, coordinatorVars
  <2>2. PICK entry : /\ workers_by_did' = [workers_by_did EXCEPT ![w] = entry]
                     /\ workers_by_did[w] # NoRecord =>
                          entry.account_id \in {workers_by_did[w].account_id, admin}
    <3>1. ASSUME NEW deposit \in Deposit, NEW endpoint \in Endpoint,
                 NEW key \in Key \cup {NoKey},
                 register_worker_inner(a, w, deposit, endpoint, key)
          PROVE  \E entry :
                   /\ workers_by_did' = [workers_by_did EXCEPT ![w] = entry]
                   /\ workers_by_did[w] # NoRecord =>
                        entry.account_id \in {workers_by_did[w].account_id, admin}
      <4> WITNESS [account_id |-> a, endpoint_url |-> endpoint, is_active |-> TRUE,
                   controller_pubkey |-> key]
      <4> QED BY <3>1 DEF register_worker_inner, WorkerAccepted, Entitled
    <3>2. ASSUME NEW endpoint \in Endpoint, update_worker_endpoint(a, w, endpoint)
          PROVE  \E entry :
                   /\ workers_by_did' = [workers_by_did EXCEPT ![w] = entry]
                   /\ workers_by_did[w] # NoRecord =>
                        entry.account_id \in {workers_by_did[w].account_id, admin}
      <4>1. workers_by_did[w] \in WorkerRecord
        BY <3>2 DEF update_worker_endpoint, EndpointAccepted, RegistryTypeOK
      <4> WITNESS [workers_by_did[w] EXCEPT !.endpoint_url = endpoint]
      <4> QED BY <3>2, <4>1 DEF update_worker_endpoint, WorkerRecord
    <3>3. ASSUME deactivate_worker(a, w)
          PROVE  \E entry :
                   /\ workers_by_did' = [workers_by_did EXCEPT ![w] = entry]
                   /\ workers_by_did[w] # NoRecord =>
                        entry.account_id \in {workers_by_did[w].account_id, admin}
      <4>1. workers_by_did[w] \in WorkerRecord
        BY <3>3 DEF deactivate_worker, RegistryTypeOK
      <4> WITNESS [workers_by_did[w] EXCEPT !.is_active = FALSE]
      <4> QED BY <3>3, <4>1 DEF deactivate_worker, WorkerRecord
    <3> QED BY <1>5, <3>1, <3>2, <3>3 DEF WorkerCall
  <2> QED BY <1>2, <1>3, <2>1, <2>2
<1>6. ASSUME NEW a \in Account, NEW c \in CoordinatorDid, CoordinatorCall(a, c)
      PROVE  WorkersKept /\ CoordinatorsKept
  <2>1. workers_by_did' = workers_by_did
    BY <1>6 DEF CoordinatorCall, register_coordinator, deactivate_coordinator, workerVars
  <2>2. PICK entry : /\ coordinators_by_did' = [coordinators_by_did EXCEPT ![c] = entry]
                     /\ coordinators_by_did[c] # NoRecord =>
                          entry.account_id \in {coordinators_by_did[c].account_id, admin}
    <3>1. ASSUME NEW deposit \in Deposit, NEW range \in WorkerRanges,
                 register_coordinator(a, c, deposit, range)
          PROVE  \E entry :
                   /\ coordinators_by_did' = [coordinators_by_did EXCEPT ![c] = entry]
                   /\ coordinators_by_did[c] # NoRecord =>
                        entry.account_id \in {coordinators_by_did[c].account_id, admin}
      <4> WITNESS [account_id |-> a, min_workers |-> range[1], max_workers |-> range[2],
                   is_active |-> TRUE]
      <4> QED BY <3>1 DEF register_coordinator, CoordinatorAccepted, Entitled
    <3>2. ASSUME deactivate_coordinator(a, c)
          PROVE  \E entry :
                   /\ coordinators_by_did' = [coordinators_by_did EXCEPT ![c] = entry]
                   /\ coordinators_by_did[c] # NoRecord =>
                        entry.account_id \in {coordinators_by_did[c].account_id, admin}
      <4>1. coordinators_by_did[c] \in CoordinatorRecord
        BY <3>2 DEF deactivate_coordinator, RegistryTypeOK
      <4> WITNESS [coordinators_by_did[c] EXCEPT !.is_active = FALSE]
      <4> QED BY <3>2, <4>1 DEF deactivate_coordinator, CoordinatorRecord
    <3> QED BY <1>6, <3>1, <3>2 DEF CoordinatorCall
  <2> QED BY <1>1, <1>4, <2>1, <2>2
<1>7. ASSUME NEW w \in WorkerDid, NEW n \in Nonce, NEW sig \in Signature,
             deactivate_worker_by_controller(w, n, sig)
      PROVE  WorkersKept /\ CoordinatorsKept
  <2> DEFINE entry == [workers_by_did[w] EXCEPT !.is_active = FALSE]
  <2>1. workers_by_did[w] \in WorkerRecord
    BY <1>7 DEF deactivate_worker_by_controller, RegistryTypeOK
  <2>2. entry.account_id = workers_by_did[w].account_id
    BY <2>1 DEF WorkerRecord
  <2>3. /\ workers_by_did' = [workers_by_did EXCEPT ![w] = entry]
        /\ coordinators_by_did' = coordinators_by_did
    BY <1>7 DEF deactivate_worker_by_controller, coordinatorVars
  <2> HIDE DEF entry
  <2> QED BY <1>2, <1>3, <2>2, <2>3
<1>8. ASSUME workers_by_did' = workers_by_did, coordinators_by_did' = coordinators_by_did
      PROVE  WorkersKept /\ CoordinatorsKept
  BY <1>1, <1>2, <1>8
<1>9. WorkersKept /\ CoordinatorsKept
  <2>1. ASSUME NEW a \in Account, NEW amount \in Deposit, set_min_deposit(a, amount)
        PROVE  workers_by_did' = workers_by_did /\ coordinators_by_did' = coordinators_by_did
    BY <2>1 DEF set_min_deposit, workerVars, coordinatorVars
  <2>2. ASSUME NEW a \in Account, force_reinitialize(a)
        PROVE  workers_by_did' = workers_by_did /\ coordinators_by_did' = coordinators_by_did
    BY <2>2 DEF force_reinitialize
  <2>3. CASE UNCHANGED registryVars
    BY <1>8, <2>3 DEF registryVars, workerVars, coordinatorVars
  <2>4. CASE Call
    BY <1>5, <1>6, <1>7, <1>8, <2>1, <2>2, <2>4, Zenon DEF Call
  <2> QED BY <2>3, <2>4
<1> QED BY <1>9 DEF WorkersKept, CoordinatorsKept

\* A DID stays with its owner, unless the admin takes it over.
THEOREM Ownership == RegistrySpec => OwnershipKept
BY CallOwners, TypeCorrect, PTL DEF RegistrySpec, OwnershipKept

-----------------------------------------------------------------------------
(* Workers that register themselves *)

\* What a start that is going to call carries.
StartsFit ==
  \A w \in WorkerDid : start[w].pc \in {"registering", "updating"} =>
    start[w].endpoint \in Endpoint

\* A step of a start is a call like any other, or none.
LEMMA StartCalls ==
  ASSUME StartsFit, DOMAIN start = WorkerDid, [RegistrationNext]_registrationVars
  PROVE  [Call]_registryVars
<1>1. ASSUME NEW w \in WorkerDid, Register(w)
      PROVE  [Call]_registryVars
  <2>1. start[w].endpoint \in Endpoint /\ OwnAccount[w] \in Account /\ OwnDeposit \in Deposit
    BY <1>1, RegistrationAssumption DEF Register, StartsFit
  <2>2. CASE register_worker_inner(OwnAccount[w], w, OwnDeposit, start[w].endpoint, NoKey)
    BY <2>1, <2>2 DEF Call, WorkerCall
  <2> QED BY <1>1, <2>2 DEF Register
<1>2. ASSUME NEW w \in WorkerDid, UpdateEndpoint(w)
      PROVE  [Call]_registryVars
  <2>1. start[w].endpoint \in Endpoint /\ OwnAccount[w] \in Account
    BY <1>2, RegistrationAssumption DEF UpdateEndpoint, StartsFit
  <2>2. CASE update_worker_endpoint(OwnAccount[w], w, start[w].endpoint)
    BY <2>1, <2>2 DEF Call, WorkerCall
  <2> QED BY <1>2, <2>2 DEF UpdateEndpoint
<1>3. ASSUME NEW c \in CoordinatorDid, localRegisterCoordinator(c)
      PROVE  [Call]_registryVars
  <2>1. /\ CoordinatorAccount[c] \in Account /\ OwnDeposit \in Deposit
        /\ CoordinatorRange[c] \in WorkerRanges
    BY RegistrationAssumption
  <2>2. CASE register_coordinator(CoordinatorAccount[c], c, OwnDeposit, CoordinatorRange[c])
    BY <2>1, <2>2 DEF Call, CoordinatorCall
  <2> QED BY <1>3, <2>2 DEF localRegisterCoordinator
<1> QED BY <1>1, <1>2, <1>3
        DEF RegistrationNext, LookUp, Stop, LookUpCoordinator, StopCoordinator,
            registrationVars

\* A start always carries a URL.
LEMMA StartsKept ==
  ASSUME StartsFit, DOMAIN start = WorkerDid, [RegistrationNext]_registrationVars
  PROVE  StartsFit' /\ DOMAIN start' = WorkerDid
<1>1. ASSUME NEW w \in WorkerDid, NEW value,
             start' = [start EXCEPT ![w] = value],
             value.pc \in {"registering", "updating"} => value.endpoint \in Endpoint
      PROVE  StartsFit' /\ DOMAIN start' = WorkerDid
  BY <1>1 DEF StartsFit
<1>2. NotStarting.pc \notin {"registering", "updating"}
  BY DEF NotStarting
<1>3. ASSUME NEW w \in WorkerDid, NEW endpoint \in Endpoint, LookUp(w, endpoint)
      PROVE  StartsFit' /\ DOMAIN start' = WorkerDid
  <2>1. \E value \in {NotStarting, [pc |-> "registering", endpoint |-> endpoint],
                      [pc |-> "updating", endpoint |-> endpoint]} :
          start' = [start EXCEPT ![w] = value]
    BY <1>3 DEF LookUp
  <2> QED BY <1>1, <1>2, <2>1
<1>4. ASSUME NEW w \in WorkerDid, start' = [start EXCEPT ![w] = NotStarting]
      PROVE  StartsFit' /\ DOMAIN start' = WorkerDid
  BY <1>1, <1>2, <1>4
<1>5. CASE UNCHANGED start
  BY <1>5 DEF StartsFit
<1> QED BY <1>3, <1>4, <1>5
        DEF RegistrationNext, Register, UpdateEndpoint, Stop, LookUpCoordinator,
            localRegisterCoordinator, StopCoordinator, registrationVars

\* To the registry, agents that register themselves are callers like others:
\* what is proved of Registry holds with them too.
THEOREM StartsAreCalls == RegistrationSpec => RegistrySpec
<1>1. RegistrationInit => StartsFit /\ DOMAIN start = WorkerDid
  BY DEF RegistrationInit, StartsFit, NotStarting
<1>2. StartsFit /\ DOMAIN start = WorkerDid /\ [RegistrationNext]_registrationVars
        => (StartsFit /\ DOMAIN start = WorkerDid)'
  BY StartsKept
<1>3. StartsFit /\ DOMAIN start = WorkerDid /\ [RegistrationNext]_registrationVars
        => [Call]_registryVars
  BY StartCalls
<1>4. RegistrationInit => RegistryInit
  BY DEF RegistrationInit
<1> QED BY <1>1, <1>2, <1>3, <1>4, PTL DEF RegistrationSpec, RegistrySpec

\* So with agents that start, look themselves up, register and stop as they please,
\* a signature is taken once, discovery fits the entries and a DID keeps its owner.
THEOREM RegistrationCorrect ==
  RegistrationSpec => []RegistryInv /\ []DiscoveryFits /\ OwnershipKept
BY StartsAreCalls, RegistryCorrect, DiscoveryCorrect, Ownership, PTL
=============================================================================
