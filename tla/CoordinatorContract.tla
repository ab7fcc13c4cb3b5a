------------------------- MODULE CoordinatorContract -------------------------
(***************************************************************************)
(* The coordinator contract, coordinator-contract/src/lib.rs: the on-chain *)
(* life of a coordination.  start_coordination yields a promise and files  *)
(* a proposal; an approved coordinator records who voted, then resumes the *)
(* yield with the aggregated result; the callback of the yield settles the *)
(* proposal as Finalized, or as TimedOut when the network gave up waiting. *)
(*                                                                         *)
(* One action per public method.  A method that panics changes nothing, so *)
(* its require!s are guards here.  A call is atomic, but the callback of a *)
(* yield is a later, separate receipt: resumes in flight, the time-out and *)
(* every other call interleave.  The yield machinery (yields, resumes) is  *)
(* the runtime of the network, modelled from how the contract uses it.     *)
(*                                                                         *)
(* Abstracted: hash() is injective, so a configuration or a result stands  *)
(* for its hash; timestamps, requester, checksum, quorum (stored, never    *)
(* read on chain) and the length limits on texts are left out.             *)
(***************************************************************************)
EXTENDS Naturals, Sequences

CONSTANTS
  Account,         \* accounts that call the contract
  Codehash,        \* code measurements an owner may approve
  WorkerId,        \* ids under which workers may be registered
  Config,          \* task configurations, standing for their hashes too
  Result,          \* aggregated results, standing for their hashes too
  Submission,      \* inputs [worker_id, result_hash]; any id is accepted
  Batches,         \* the submission lists coordinators send
  ExpectedCounts,  \* the worker counts requesters ask for, a u8
  MaxProposals,    \* bound: coordinations started in a behaviour
  NoProposal,      \* absence of an entry in the proposals map
  NoResult,        \* None in finalized_result
  NoCode,          \* absence of an entry in coordinator_by_account_id
  NoWorker         \* absence of an entry in registered_workers

U8 == 256          \* `as u8` keeps a count modulo this

ProposalId == 1 .. MaxProposals

Proposal ==
  [ state                 : {"Created", "WorkersCompleted", "Finalized", "TimedOut"},
    config_hash           : Config,
    expected_worker_count : 0 .. U8 - 1,
    worker_submissions    : Seq(Submission),
    finalized_result      : Result \cup {NoResult} ]

RegisteredWorker == [active : BOOLEAN, registered_by : Account]

ASSUME ContractAssumption ==
  /\ MaxProposals \in Nat
  /\ \A b \in Batches : b \in Seq(Submission)
  /\ ExpectedCounts \subseteq 0 .. U8 - 1
  /\ NoProposal \notin Proposal
  /\ NoResult \notin Result
  /\ NoCode \notin Codehash
  /\ NoWorker \notin RegisteredWorker

VARIABLES
  owner,                      \* the account that may administer the contract
  approved_codehashes,        \* code the owner trusts at present
  coordinator_by_account_id,  \* code each coordinator registered with
  registered_workers,         \* the map of workers
  manifesto,                  \* TRUE once set_manifesto was called
  current_proposal_id,        \* id of the last coordination started
  proposals,                  \* the map of proposals
  yields,                     \* runtime: the promise behind each proposal
  resumes                     \* runtime: results and time-outs on their way

adminVars == <<owner, approved_codehashes, coordinator_by_account_id,
               registered_workers, manifesto>>
vars == <<owner, approved_codehashes, coordinator_by_account_id,
          registered_workers, manifesto, current_proposal_id, proposals,
          yields, resumes>>

\* What the callback of a yield is called with: a result, or NoResult when the
\* network timed the yield out.
Resume == [id : ProposalId, value : Result \cup {NoResult}]

Exists(id) == proposals[id] # NoProposal
InState(id, s) == Exists(id) /\ proposals[id].state = s
Unsettled(id) == InState(id, "Created") \/ InState(id, "WorkersCompleted")

Init ==
  /\ owner \in Account
  /\ approved_codehashes = {}
  /\ coordinator_by_account_id = [a \in Account |-> NoCode]
  /\ registered_workers = [w \in WorkerId |-> NoWorker]
  /\ manifesto = FALSE
  /\ current_proposal_id = 0
  /\ proposals = [id \in ProposalId |-> NoProposal]
  /\ yields = [id \in ProposalId |-> "none"]
  /\ resumes = {}

-----------------------------------------------------------------------------
(* Administration *)

require_owner(caller) == caller = owner

\* Registered, and under a codehash that is still approved at this call.
require_approved_codehash(caller) ==
  /\ coordinator_by_account_id[caller] # NoCode
  /\ coordinator_by_account_id[caller] \in approved_codehashes

set_manifesto(caller) ==
  /\ require_owner(caller)
  /\ manifesto' = TRUE
  /\ UNCHANGED <<owner, approved_codehashes, coordinator_by_account_id,
                 registered_workers, current_proposal_id, proposals, yields, resumes>>

approve_codehash(caller, code) ==
  /\ require_owner(caller)
  /\ approved_codehashes' = approved_codehashes \cup {code}
  /\ UNCHANGED <<owner, coordinator_by_account_id, registered_workers, manifesto,
                 current_proposal_id, proposals, yields, resumes>>

remove_codehash(caller, code) ==
  /\ require_owner(caller)
  /\ approved_codehashes' = approved_codehashes \ {code}
  /\ UNCHANGED <<owner, coordinator_by_account_id, registered_workers, manifesto,
                 current_proposal_id, proposals, yields, resumes>>

\* The owner can register no account but its own.
register_coordinator(caller, code) ==
  /\ require_owner(caller)
  /\ code \in approved_codehashes
  /\ coordinator_by_account_id' = [coordinator_by_account_id EXCEPT ![caller] = code]
  /\ UNCHANGED <<owner, approved_codehashes, registered_workers, manifesto,
                 current_proposal_id, proposals, yields, resumes>>

transfer_ownership(caller, new_owner) ==
  /\ require_owner(caller)
  /\ owner' = new_owner
  /\ UNCHANGED <<approved_codehashes, coordinator_by_account_id, registered_workers,
                 manifesto, current_proposal_id, proposals, yields, resumes>>

SetWorker(w, entry) ==
  /\ registered_workers' = [registered_workers EXCEPT ![w] = entry]
  /\ UNCHANGED <<owner, approved_codehashes, coordinator_by_account_id, manifesto,
                 current_proposal_id, proposals, yields, resumes>>

\* A registered coordinator may do it even after its codehash was revoked, and
\* registering again reactivates.
register_worker(caller, w) ==
  /\ require_owner(caller) \/ coordinator_by_account_id[caller] # NoCode
  /\ SetWorker(w, [active |-> TRUE, registered_by |-> caller])

remove_worker(caller, w) == require_owner(caller) /\ SetWorker(w, NoWorker)

deactivate_worker(caller, w) ==
  /\ require_owner(caller)
  /\ registered_workers[w] # NoWorker
  /\ SetWorker(w, [registered_workers[w] EXCEPT !.active = FALSE])

activate_worker(caller, w) ==
  /\ require_owner(caller)
  /\ registered_workers[w] # NoWorker
  /\ SetWorker(w, [registered_workers[w] EXCEPT !.active = TRUE])

-----------------------------------------------------------------------------
(* Coordinations *)

\* Mutant: the counter moves on by an id for each worker as well.
start_coordination_IdPerWorker(config, expected) ==
  LET id == current_proposal_id + 1 IN
  /\ manifesto
  /\ id \in ProposalId
  /\ current_proposal_id' = id + expected
  /\ proposals' = [proposals EXCEPT ![id] =
                     [state |-> "Created", config_hash |-> config,
                      expected_worker_count |-> expected,
                      worker_submissions |-> << >>, finalized_result |-> NoResult]]
  /\ yields' = [yields EXCEPT ![id] = "pending"]
  /\ UNCHANGED adminVars
  /\ UNCHANGED resumes

\* Anyone may start one; the yield is created before the proposal is stored.
start_coordination(config, expected) ==
  LET id == current_proposal_id + 1 IN
  /\ manifesto
  /\ id \in ProposalId
  /\ current_proposal_id' = id
  /\ proposals' = [proposals EXCEPT ![id] =
                     [state |-> "Created", config_hash |-> config,
                      expected_worker_count |-> expected,
                      worker_submissions |-> << >>, finalized_result |-> NoResult]]
  /\ yields' = [yields EXCEPT ![id] = "pending"]
  /\ UNCHANGED adminVars
  /\ UNCHANGED resumes

\* Mutant: the list is compared with what is stored only, not with itself.
AlreadySubmitted_StoredOnly(subs, from) ==
  {i \in from .. Len(subs) :
     \E j \in 1 .. from - 1 : subs[j].worker_id = subs[i].worker_id}

\* The nullifier check of the loop: positions from `from` on whose worker an
\* earlier position already names.
AlreadySubmitted(subs, from) ==
  {i \in from .. Len(subs) :
     \E j \in 1 .. i - 1 : subs[j].worker_id = subs[i].worker_id}

Recorded(id, submissions) == proposals[id].worker_submissions \o submissions

\* Mutant: a proposal whose submissions are recorded is recorded again.
RecordAccepted_AnyState(caller, id, submissions) ==
  /\ require_approved_codehash(caller)
  /\ Unsettled(id)
  /\ Len(submissions) % U8 = proposals[id].expected_worker_count
  /\ AlreadySubmitted(Recorded(id, submissions), Len(proposals[id].worker_submissions) + 1) = {}

\* The require!s of record_worker_submissions.
RecordAccepted(caller, id, submissions) ==
  /\ require_approved_codehash(caller)
  /\ InState(id, "Created")
  /\ Len(submissions) % U8 = proposals[id].expected_worker_count
  /\ AlreadySubmitted(Recorded(id, submissions), Len(proposals[id].worker_submissions) + 1) = {}

record_worker_submissions(caller, id, submissions) ==
  /\ RecordAccepted(caller, id, submissions)
  /\ proposals' = [proposals EXCEPT ![id].worker_submissions = Recorded(id, submissions),
                                    ![id].state = "WorkersCompleted"]
  /\ UNCHANGED adminVars
  /\ UNCHANGED <<current_proposal_id, yields, resumes>>

\* promise_yield_resume: takes effect only while the yield is pending, and the
\* contract ignores the answer.  The callback runs later.
PromiseYieldResume(id, r) ==
  resumes' = IF yields[id] = "pending" THEN resumes \cup {r} ELSE resumes

\* Mutant: resuming before the submissions are recorded.
coordinator_resume_AnyUnsettled(caller, id, result, config_hash) ==
  /\ require_approved_codehash(caller)
  /\ Unsettled(id)
  /\ proposals[id].config_hash = config_hash
  /\ PromiseYieldResume(id, [id |-> id, value |-> result])
  /\ UNCHANGED adminVars
  /\ UNCHANGED <<current_proposal_id, proposals, yields>>

\* The require!s of coordinator_resume; a result stands for its own hash.
ResumeAccepted(caller, id, config_hash) ==
  /\ require_approved_codehash(caller)
  /\ InState(id, "WorkersCompleted")
  /\ proposals[id].config_hash = config_hash

coordinator_resume(caller, id, result, config_hash) ==
  /\ ResumeAccepted(caller, id, config_hash)
  /\ PromiseYieldResume(id, [id |-> id, value |-> result])
  /\ UNCHANGED adminVars
  /\ UNCHANGED <<current_proposal_id, proposals, yields>>

clear_proposal(caller, id) ==
  /\ require_owner(caller)
  /\ proposals' = [proposals EXCEPT ![id] = NoProposal]
  /\ UNCHANGED adminVars
  /\ UNCHANGED <<current_proposal_id, yields, resumes>>

\* The network stops waiting for a resume.
YieldTimeout(id) ==
  /\ yields[id] = "pending"
  /\ resumes' = resumes \cup {[id |-> id, value |-> NoResult]}
  /\ UNCHANGED adminVars
  /\ UNCHANGED <<current_proposal_id, proposals, yields>>

\* Mutant: the time-out branch fails the promise but leaves the state.
return_coordination_result_SilentTimeout(id, r) ==
  IF ~Exists(id) \/ r.value = NoResult THEN UNCHANGED proposals
  ELSE proposals' = [proposals EXCEPT ![id].state = "Finalized",
                                      ![id].finalized_result = r.value]

\* Mutant: Finalized without the result.
return_coordination_result_NoValue(id, r) ==
  IF ~Exists(id) THEN UNCHANGED proposals
  ELSE proposals' = [proposals EXCEPT ![id].state =
                       IF r.value = NoResult THEN "TimedOut" ELSE "Finalized"]

\* The callback, private to the runtime.  It looks at no earlier state of the
\* proposal, which may have been cleared meanwhile.
return_coordination_result(id, r) ==
  IF ~Exists(id) THEN UNCHANGED proposals
  ELSE IF r.value = NoResult
    THEN proposals' = [proposals EXCEPT ![id].state = "TimedOut"]
    ELSE proposals' = [proposals EXCEPT ![id].state = "Finalized",
                                        ![id].finalized_result = r.value]

\* The first resume processed consumes the yield and runs the callback; the
\* others for the same yield find none and are dropped.  A time-out makes the
\* caller's promise fail (fail_on_timeout).
DeliverResume(r) ==
  /\ r \in resumes
  /\ yields[r.id] = "pending"
  /\ yields' = [yields EXCEPT ![r.id] = IF r.value = NoResult THEN "failed" ELSE "answered"]
  /\ resumes' = {q \in resumes : q.id # r.id}
  /\ return_coordination_result(r.id, r)
  /\ UNCHANGED adminVars
  /\ UNCHANGED current_proposal_id

-----------------------------------------------------------------------------

Admin(caller) ==
  \/ set_manifesto(caller)
  \/ \E code \in Codehash :
       \/ approve_codehash(caller, code)
       \/ remove_codehash(caller, code)
       \/ register_coordinator(caller, code)
  \/ \E a \in Account : transfer_ownership(caller, a)
  \/ \E w \in WorkerId :
       \/ register_worker(caller, w)
       \/ remove_worker(caller, w)
       \/ deactivate_worker(caller, w)
       \/ activate_worker(caller, w)

Coordination(caller, id) ==
  \/ \E b \in Batches : record_worker_submissions(caller, id, b)
  \/ \E v \in Result, c \in Config : coordinator_resume(caller, id, v, c)
  \/ clear_proposal(caller, id)

Runtime == \/ \E id \in ProposalId : YieldTimeout(id)
           \/ \E r \in resumes : DeliverResume(r)

Next ==
  \/ \E a \in Account : Admin(a)
  \/ \E c \in Config, n \in ExpectedCounts : start_coordination(c, n)
  \/ \E a \in Account, id \in ProposalId : Coordination(a, id)
  \/ Runtime

Spec == Init /\ [][Next]_vars

\* The network delivers some resume of every pending yield, because it resumes
\* a yield itself after a fixed number of blocks.  Nothing obliges a caller.
Fairness ==
  \A id \in ProposalId :
    /\ WF_vars(YieldTimeout(id))
    /\ WF_vars(\E r \in resumes : r.id = id /\ DeliverResume(r))

FairSpec == Spec /\ Fairness

-----------------------------------------------------------------------------
(* Correctness *)

\* Every variable keeps its type; a proposal exists only under an id already
\* given out.
TypeOK ==
  /\ owner \in Account
  /\ approved_codehashes \in SUBSET Codehash
  /\ coordinator_by_account_id \in [Account -> Codehash \cup {NoCode}]
  /\ registered_workers \in [WorkerId -> RegisteredWorker \cup {NoWorker}]
  /\ manifesto \in BOOLEAN
  /\ current_proposal_id \in 0 .. MaxProposals
  /\ proposals \in [ProposalId -> Proposal \cup {NoProposal}]
  /\ yields \in [ProposalId -> {"none", "pending", "answered", "failed"}]
  /\ resumes \in SUBSET Resume

\* The nullifier: once submissions are on chain no worker appears in them
\* twice, their number is the one the requester asked for (as a u8), and until
\* then there are none.
NullifierOnce ==
  \A id \in ProposalId : Exists(id) =>
    LET p == proposals[id] IN
    /\ \A i, j \in DOMAIN p.worker_submissions :
         p.worker_submissions[i].worker_id = p.worker_submissions[j].worker_id => i = j
    /\ p.state = "Created" => p.worker_submissions = << >>
    /\ p.state \in {"WorkersCompleted", "Finalized"} =>
         Len(p.worker_submissions) % U8 = p.expected_worker_count

\* The contract's record and the caller's promise tell the same story although
\* the callback never looks at the state it overwrites: an unsettled proposal
\* still has a promise that will settle it, Finalized means the promise was
\* answered and there is a result to show, TimedOut that it failed.
RecordAgreesWithPromise ==
  \A id \in ProposalId : Exists(id) =>
    /\ Unsettled(id) <=> yields[id] = "pending"
    /\ InState(id, "Finalized") <=> yields[id] = "answered"
    /\ InState(id, "TimedOut") <=> yields[id] = "failed"
    /\ InState(id, "Finalized") <=> proposals[id].finalized_result # NoResult

\* A result on its way to the callback belongs to a proposal whose submissions
\* are recorded, unless the owner cleared it meanwhile.
ResultsFollowSubmissions ==
  \A r \in resumes : r.value # NoResult =>
    ~Exists(r.id) \/ InState(r.id, "WorkersCompleted")

\* A proposal moves Created, WorkersCompleted, Finalized and no other way to
\* Finalized; a settled one changes no more and no step alters submissions
\* already recorded.  Only clear_proposal takes an entry out of this order.
LifecycleStep(id) ==
  (proposals[id] # proposals'[id] /\ proposals'[id] # NoProposal) =>
    \/ /\ proposals[id] = NoProposal
       /\ proposals'[id].state = "Created"
       /\ id = current_proposal_id + 1
    \/ /\ Exists(id)
       /\ <<proposals[id].state, proposals'[id].state>> \in
            { <<"Created", "WorkersCompleted">>, <<"Created", "TimedOut">>,
              <<"WorkersCompleted", "Finalized">>, <<"WorkersCompleted", "TimedOut">> }
       /\ proposals[id].state # "Created" =>
            proposals'[id].worker_submissions = proposals[id].worker_submissions

LifecycleOrder == [][\A id \in ProposalId : LifecycleStep(id)]_vars

\* Every coordination that is started settles, or is cleared, and its caller's
\* promise never hangs, whatever the coordinators do.
EveryCoordinationSettles ==
  \A id \in ProposalId : yields[id] = "pending" ~> ~Unsettled(id) /\ yields[id] # "pending"

\* The inductive strengthening behind the three invariants: ids are given out
\* in order, each with a promise of its own, and a resume travels only while its
\* promise is pending.
ContractInv ==
  /\ TypeOK
  /\ NullifierOnce
  /\ RecordAgreesWithPromise
  /\ ResultsFollowSubmissions
  /\ \A id \in ProposalId :
       /\ yields[id] = "none" <=> id > current_proposal_id
       /\ yields[id] = "none" => proposals[id] = NoProposal
  /\ \A r \in resumes : yields[r.id] = "pending"

-----------------------------------------------------------------------------
(* The contract implements Settlement. *)

ShownAs(id) ==
  IF ~Exists(id) THEN "absent"
  ELSE IF Unsettled(id) THEN "open"
  ELSE IF InState(id, "Finalized") THEN "finalized" ELSE "timed out"

ShownAnswer(id) == IF Exists(id) THEN proposals[id].finalized_result ELSE NoResult

Abstract == INSTANCE Settlement WITH
  Request <- ProposalId,
  Answer <- Result,
  NoAnswer <- NoResult,
  reply <- yields,
  record <- [id \in ProposalId |-> ShownAs(id)],
  answer <- [id \in ProposalId |-> ShownAnswer(id)]

\* Seen through promise and record, every behaviour of the contract is one of
\* Settlement: each request is answered once, and the record closes with that
\* answer in the same step.  With the network's fairness none waits forever.
SettlementSafety == Abstract!Spec
ImplementsSettlement == Abstract!FairSpec

=============================================================================
