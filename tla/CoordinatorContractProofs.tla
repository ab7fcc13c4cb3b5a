---------------------- MODULE CoordinatorContractProofs ----------------------
(***************************************************************************)
(* Theorems about CoordinatorContract, for every value of its constants:   *)
(* type correctness, the invariants, the order of a proposal's life and    *)
(* the implementation of Settlement's safety part.                         *)
(***************************************************************************)
EXTENDS CoordinatorContract, SequenceTheorems, TLAPS

\* What no administrative call touches.
coordVars == <<current_proposal_id, proposals, yields, resumes>>

\* The administrative methods leave the coordinations alone.
LEMMA AdminFrame ==
  ASSUME NEW a \in Account, Admin(a)
  PROVE  UNCHANGED coordVars
BY DEF Admin, set_manifesto, approve_codehash, remove_codehash,
       register_coordinator, transfer_ownership, register_worker,
       remove_worker, deactivate_worker, activate_worker, SetWorker, coordVars

-----------------------------------------------------------------------------
(* Types *)

\* The administrative methods keep the types.
LEMMA AdminType ==
  ASSUME TypeOK, NEW a \in Account, Admin(a)
  PROVE  TypeOK'
<1>1. UNCHANGED coordVars
  BY AdminFrame
<1>2. (proposals \in [ProposalId -> Proposal \cup {NoProposal}]
       /\ current_proposal_id \in 0 .. MaxProposals
       /\ yields \in [ProposalId -> {"none", "pending", "answered", "failed"}]
       /\ resumes \in SUBSET Resume)'
  BY <1>1 DEF TypeOK, coordVars
<1>3. CASE \E w \in WorkerId :
              \/ register_worker(a, w)
              \/ remove_worker(a, w)
              \/ deactivate_worker(a, w)
              \/ activate_worker(a, w)
  <2>1. PICK w \in WorkerId :
              \/ register_worker(a, w)
              \/ remove_worker(a, w)
              \/ deactivate_worker(a, w)
              \/ activate_worker(a, w)
    BY <1>3
  <2>2. PICK entry \in RegisteredWorker \cup {NoWorker} : SetWorker(w, entry)
    <3>1. registered_workers[w] \in RegisteredWorker \cup {NoWorker}
      BY DEF TypeOK
    <3>2. CASE register_worker(a, w)
      BY <3>2 DEF register_worker, RegisteredWorker
    <3>3. CASE remove_worker(a, w)
      BY <3>3 DEF remove_worker
    <3>4. CASE deactivate_worker(a, w)
      BY <3>1, <3>4 DEF deactivate_worker, RegisteredWorker
    <3>5. CASE activate_worker(a, w)
      BY <3>1, <3>5 DEF activate_worker, RegisteredWorker
    <3>6. QED
      BY <2>1, <3>2, <3>3, <3>4, <3>5
  <2>3. QED
    BY <1>2, <2>2 DEF TypeOK, SetWorker
<1>4. CASE set_manifesto(a)
  BY <1>2, <1>4 DEF TypeOK, set_manifesto
<1>5. CASE \E b \in Account : transfer_ownership(a, b)
  BY <1>2, <1>5 DEF TypeOK, transfer_ownership
<1>6. CASE \E code \in Codehash :
              \/ approve_codehash(a, code)
              \/ remove_codehash(a, code)
              \/ register_coordinator(a, code)
  BY <1>2, <1>6 DEF TypeOK, approve_codehash, remove_codehash, register_coordinator
<1>7. QED
  BY <1>3, <1>4, <1>5, <1>6 DEF Admin

\* Appending a list that coordinators may send keeps a list of submissions.
LEMMA RecordedType ==
  ASSUME NEW s \in Seq(Submission), NEW b \in Batches
  PROVE  s \o b \in Seq(Submission)
BY ContractAssumption, ConcatProperties DEF ContractAssumption

\* Every step keeps the types.
LEMMA NextType == TypeOK /\ [Next]_vars => TypeOK'
<1> SUFFICES ASSUME TypeOK, [Next]_vars
             PROVE  TypeOK'
  OBVIOUS
<1> USE ContractAssumption DEF ContractAssumption
<1>1. ASSUME NEW a \in Account, Admin(a)
      PROVE  TypeOK'
  BY <1>1, AdminType
<1>2. ASSUME NEW c \in Config, NEW n \in ExpectedCounts, start_coordination(c, n)
      PROVE  TypeOK'
  <2> DEFINE id == current_proposal_id + 1
  <2>1. [state |-> "Created", config_hash |-> c, expected_worker_count |-> n,
         worker_submissions |-> << >>, finalized_result |-> NoResult] \in Proposal
    BY EmptySeq DEF Proposal
  <2>2. id \in ProposalId /\ current_proposal_id' \in 0 .. MaxProposals
    BY <1>2 DEF start_coordination, TypeOK, ProposalId
  <2>3. QED
    BY <1>2, <2>1, <2>2 DEF start_coordination, TypeOK, adminVars
<1>3. ASSUME NEW a \in Account, NEW id \in ProposalId, NEW b \in Batches,
             record_worker_submissions(a, id, b)
      PROVE  TypeOK'
  <2> DEFINE recorded == proposals[id].worker_submissions \o b
  <2>1. proposals[id] \in Proposal
    BY <1>3 DEF record_worker_submissions, RecordAccepted, Recorded, InState, Exists, TypeOK
  <2>2. recorded \in Seq(Submission)
    BY <2>1, RecordedType DEF Proposal
  <2>3. [proposals[id] EXCEPT !.worker_submissions = recorded,
                              !.state = "WorkersCompleted"] \in Proposal
    BY <2>1, <2>2 DEF Proposal
  <2>4. proposals' = [proposals EXCEPT ![id] =
          [proposals[id] EXCEPT !.worker_submissions = recorded,
                                !.state = "WorkersCompleted"]]
    BY <1>3 DEF record_worker_submissions, RecordAccepted, Recorded, TypeOK
  <2>5. QED
    BY <1>3, <2>3, <2>4 DEF record_worker_submissions, RecordAccepted, Recorded, TypeOK, adminVars
<1>4. ASSUME NEW a \in Account, NEW id \in ProposalId, NEW v \in Result,
             NEW c \in Config, coordinator_resume(a, id, v, c)
      PROVE  TypeOK'
  BY <1>4 DEF coordinator_resume, ResumeAccepted, PromiseYieldResume, TypeOK, adminVars, Resume
<1>5. ASSUME NEW a \in Account, NEW id \in ProposalId, clear_proposal(a, id)
      PROVE  TypeOK'
  BY <1>5 DEF clear_proposal, TypeOK, adminVars
<1>6. ASSUME NEW id \in ProposalId, YieldTimeout(id)
      PROVE  TypeOK'
  BY <1>6 DEF YieldTimeout, TypeOK, adminVars, Resume
<1>7. ASSUME NEW r \in resumes, DeliverResume(r)
      PROVE  TypeOK'
  <2>1. r.id \in ProposalId /\ r.value \in Result \cup {NoResult}
    BY DEF TypeOK, Resume
  <2>2. (proposals \in [ProposalId -> Proposal \cup {NoProposal}])'
    <3>1. CASE ~Exists(r.id)
      BY <1>7, <3>1 DEF DeliverResume, return_coordination_result, TypeOK
    <3>2. CASE Exists(r.id)
      <4>1. proposals[r.id] \in Proposal
        BY <2>1, <3>2 DEF Exists, TypeOK
      <4>2. /\ [proposals[r.id] EXCEPT !.state = "TimedOut"] \in Proposal
            /\ [proposals[r.id] EXCEPT !.state = "Finalized",
                                       !.finalized_result = r.value] \in Proposal
        BY <2>1, <4>1 DEF Proposal
      <4>3. QED
        BY <1>7, <2>1, <3>2, <4>2 DEF DeliverResume, return_coordination_result, TypeOK
    <3>3. QED
      BY <3>1, <3>2
  <2>3. QED
    BY <1>7, <2>1, <2>2 DEF DeliverResume, TypeOK, adminVars
<1>8. CASE UNCHANGED vars
  BY <1>8 DEF vars, TypeOK
<1>9. QED
  BY <1>1, <1>2, <1>3, <1>4, <1>5, <1>6, <1>7, <1>8 DEF Next, Coordination, Runtime

\* The initial states have the right types.
LEMMA InitType == Init => TypeOK
<1> SUFFICES ASSUME Init
             PROVE  TypeOK
  OBVIOUS
<1>1. manifesto \in BOOLEAN
  BY Zenon DEF Init
<1>2. current_proposal_id \in 0 .. MaxProposals
  BY ContractAssumption DEF Init, ContractAssumption
<1>3. QED
  BY <1>1, <1>2 DEF Init, TypeOK

\* Type correctness, whatever the owner, the coordinators and the network do.
THEOREM TypeCorrect == Spec => []TypeOK
BY InitType, NextType, PTL DEF Spec

-----------------------------------------------------------------------------
(* The inductive invariant *)

\* No worker twice in a list of submissions.
OneEach(subs) ==
  \A i, j \in DOMAIN subs : subs[i].worker_id = subs[j].worker_id => i = j

\* The check of the loop, run on a whole list, finds every repetition.
LEMMA CheckFindsRepetition ==
  ASSUME NEW b \in Seq(Submission), AlreadySubmitted(b, 1) = {}
  PROVE  OneEach(b)
<1> SUFFICES ASSUME NEW i \in 1 .. Len(b), NEW j \in 1 .. Len(b),
                    b[i].worker_id = b[j].worker_id, i < j
             PROVE  FALSE
  BY LenProperties DEF OneEach
<1>1. i \in 1 .. j - 1 /\ j \in 1 .. Len(b)
  BY LenProperties
<1>2. QED
  BY <1>1 DEF AlreadySubmitted

\* What ContractInv says of one proposal, so that a step that changes one
\* proposal is checked on that one alone.
ProposalInv(id) ==
  /\ Exists(id) =>
       LET p == proposals[id] IN
       /\ OneEach(p.worker_submissions)
       /\ p.state = "Created" => p.worker_submissions = << >>
       /\ p.state \in {"WorkersCompleted", "Finalized"} =>
            Len(p.worker_submissions) % U8 = p.expected_worker_count
       /\ Unsettled(id) <=> yields[id] = "pending"
       /\ InState(id, "Finalized") <=> yields[id] = "answered"
       /\ InState(id, "TimedOut") <=> yields[id] = "failed"
       /\ InState(id, "Finalized") <=> p.finalized_result # NoResult
  /\ yields[id] = "none" <=> id > current_proposal_id
  /\ yields[id] = "none" => proposals[id] = NoProposal

ResumeInv(r) ==
  /\ r.value # NoResult => ~Exists(r.id) \/ InState(r.id, "WorkersCompleted")
  /\ yields[r.id] = "pending"

\* The invariant, proposal by proposal and resume by resume.
LEMMA InvByParts ==
  ContractInv <=> /\ TypeOK
                  /\ \A id \in ProposalId : ProposalInv(id)
                  /\ \A r \in resumes : ResumeInv(r)
BY DEF ContractInv, NullifierOnce, RecordAgreesWithPromise,
       ResultsFollowSubmissions, ProposalInv, ResumeInv, OneEach

\* The same, of the state a step leads to.
LEMMA NextInvByParts ==
  ASSUME TypeOK', \A id \in ProposalId : ProposalInv(id)',
         \A r \in resumes' : ResumeInv(r)'
  PROVE  ContractInv'
BY DEF ContractInv, NullifierOnce, RecordAgreesWithPromise,
       ResultsFollowSubmissions, ProposalInv, ResumeInv, OneEach

\* A proposal that a step leaves alone, promise included, stays good.
LEMMA ProposalFrame ==
  ASSUME NEW id \in ProposalId, ProposalInv(id),
         UNCHANGED <<proposals[id], yields[id]>>,
         (id > current_proposal_id) = (id > current_proposal_id)'
  PROVE  ProposalInv(id)'
BY DEF ProposalInv, Exists, Unsettled, InState

\* Starting a coordination: a fresh id, an empty proposal, a pending promise.
LEMMA StartInv ==
  ASSUME ContractInv, NEW c \in Config, NEW n \in ExpectedCounts,
         start_coordination(c, n), TypeOK'
  PROVE  ContractInv'
<1> USE ContractAssumption DEF ContractAssumption
<1>1. /\ TypeOK
      /\ \A id \in ProposalId : ProposalInv(id)
      /\ \A r \in resumes : ResumeInv(r)
  BY InvByParts
<1>2. current_proposal_id \in Nat
  BY <1>1 DEF TypeOK
<1> PICK new \in ProposalId : new = current_proposal_id + 1
  BY DEF start_coordination
<1>3. yields[new] = "none" /\ proposals[new] = NoProposal
  BY <1>1, <1>2 DEF ProposalInv
<1>4. \A id \in ProposalId \ {new} : UNCHANGED <<proposals[id], yields[id]>>
  BY <1>1, <1>2 DEF start_coordination, TypeOK
<1>5. \A id \in ProposalId : ProposalInv(id)'
  <2>1. ASSUME NEW id \in ProposalId, id # new
        PROVE  ProposalInv(id)'
    <3>1. (id > current_proposal_id) = (id > current_proposal_id)'
      BY <1>2, <2>1 DEF start_coordination, ProposalId
    <3>2. QED
      BY <1>1, <1>4, <2>1, <3>1, ProposalFrame
  <2>2. ProposalInv(new)'
    <3>1. /\ proposals'[new].state = "Created"
          /\ proposals'[new].worker_submissions = << >>
          /\ proposals'[new].finalized_result = NoResult
          /\ yields'[new] = "pending"
          /\ current_proposal_id' = new
      BY <1>1, <1>2 DEF start_coordination, TypeOK
    <3>2. proposals'[new] # NoProposal
      <4>1. proposals'[new] = [state |-> "Created", config_hash |-> c,
                      expected_worker_count |-> n,
                      worker_submissions |-> << >>, finalized_result |-> NoResult]
        BY <1>1, <1>2 DEF start_coordination, TypeOK
      <4>2. proposals'[new] \in Proposal
        BY <4>1, EmptySeq DEF Proposal
      <4>3. QED
        BY <4>2
    <3>3. OneEach(<< >>)
      BY DEF OneEach
    <3>4. ~(new > current_proposal_id')
      BY <1>2, <3>1
    <3>5. QED
      BY <3>1, <3>2, <3>3, <3>4 DEF ProposalInv, Exists, Unsettled, InState
  <2>3. QED
    BY <2>1, <2>2
<1>6. \A r \in resumes' : ResumeInv(r)'
  <2> SUFFICES ASSUME NEW r \in resumes
               PROVE  ResumeInv(r)'
    BY DEF start_coordination
  <2>1. r.id \in ProposalId /\ r.id # new
    BY <1>1, <1>3 DEF ResumeInv, TypeOK, Resume
  <2>2. QED
    BY <1>1, <1>4, <2>1 DEF ResumeInv, Exists, InState
<1>7. QED
  BY <1>5, <1>6, NextInvByParts

\* Recording submissions: the list is checked against itself, and no result can
\* be on its way yet.
LEMMA RecordInv ==
  ASSUME ContractInv, NEW a \in Account, NEW id \in ProposalId, NEW b \in Batches,
         record_worker_submissions(a, id, b), TypeOK'
  PROVE  ContractInv'
<1>1. /\ TypeOK
      /\ \A q \in ProposalId : ProposalInv(q)
      /\ \A r \in resumes : ResumeInv(r)
  BY InvByParts
<1>2. /\ Exists(id)
      /\ proposals[id].state = "Created"
      /\ proposals[id] \in Proposal
  BY <1>1 DEF record_worker_submissions, RecordAccepted, Recorded, InState, Exists, TypeOK
<1>3. proposals[id].worker_submissions = << >>
  BY <1>1, <1>2 DEF ProposalInv
<1>4. b \in Seq(Submission) /\ << >> \o b = b /\ Len(<< >>) = 0
  BY ContractAssumption, ConcatEmptySeq, EmptySeq DEF ContractAssumption
<1>5. /\ OneEach(b)
      /\ Len(b) % U8 = proposals[id].expected_worker_count
  BY <1>3, <1>4, CheckFindsRepetition DEF record_worker_submissions, RecordAccepted, Recorded
<1>6. proposals' = [proposals EXCEPT ![id] =
        [proposals[id] EXCEPT !.worker_submissions = b, !.state = "WorkersCompleted"]]
  BY <1>1, <1>3, <1>4 DEF record_worker_submissions, RecordAccepted, Recorded, TypeOK
<1>7. /\ proposals'[id].state = "WorkersCompleted"
      /\ proposals'[id].worker_submissions = b
      /\ proposals'[id].expected_worker_count = proposals[id].expected_worker_count
      /\ proposals'[id].finalized_result = proposals[id].finalized_result
  BY <1>1, <1>2, <1>6 DEF TypeOK, Proposal
<1>8. proposals'[id] # NoProposal
  <2>1. [proposals[id] EXCEPT !.worker_submissions = b,
                              !.state = "WorkersCompleted"] \in Proposal
    BY <1>2, <1>4 DEF Proposal
  <2>2. QED
    BY <1>1, <1>6, <2>1, ContractAssumption DEF TypeOK, ContractAssumption
<1>9. UNCHANGED <<current_proposal_id, yields, resumes>>
  BY DEF record_worker_submissions, RecordAccepted, Recorded
<1>10. \A q \in ProposalId : ProposalInv(q)'
  <2>1. ASSUME NEW q \in ProposalId, q # id
        PROVE  ProposalInv(q)'
    BY <1>1, <1>6, <1>9, <2>1, ProposalFrame DEF TypeOK
  <2>2. ProposalInv(id)'
    BY <1>1, <1>2, <1>5, <1>7, <1>8, <1>9 DEF ProposalInv, Exists, Unsettled, InState
  <2>3. QED
    BY <2>1, <2>2
<1>11. \A r \in resumes' : ResumeInv(r)'
  <2> SUFFICES ASSUME NEW r \in resumes
               PROVE  ResumeInv(r)'
    BY <1>9
  <2>1. ResumeInv(r) /\ r.id \in ProposalId
    BY <1>1 DEF TypeOK, Resume
  <2>2. CASE r.id = id
    BY <1>7, <1>9, <2>1, <2>2 DEF ResumeInv, Exists, InState
  <2>3. CASE r.id # id
    BY <1>1, <1>6, <1>9, <2>1, <2>3 DEF ResumeInv, Exists, InState, TypeOK
  <2>4. QED
    BY <2>2, <2>3
<1>12. QED
  BY <1>10, <1>11, NextInvByParts

\* Resuming, or timing out: one more resume of a pending promise; a result only
\* where the submissions are recorded.
LEMMA ResumeSent ==
  ASSUME ContractInv, NEW r \in Resume, TypeOK',
         resumes' = resumes \cup {r},
         yields[r.id] = "pending",
         r.value # NoResult => InState(r.id, "WorkersCompleted"),
         UNCHANGED <<current_proposal_id, proposals, yields>>
  PROVE  ContractInv'
<1>1. /\ \A q \in ProposalId : ProposalInv(q)
      /\ \A q \in resumes : ResumeInv(q)
  BY InvByParts
<1>2. \A q \in ProposalId : ProposalInv(q)'
  BY <1>1, ProposalFrame
<1>3. \A q \in resumes' : ResumeInv(q)'
  BY <1>1 DEF ResumeInv, Exists, InState
<1>4. QED
  BY <1>2, <1>3, NextInvByParts

\* A step that leaves the coordinations alone keeps the invariant.
LEMMA FrameInv ==
  ASSUME ContractInv, TypeOK', UNCHANGED coordVars
  PROVE  ContractInv'
<1>1. /\ \A q \in ProposalId : ProposalInv(q)
      /\ \A q \in resumes : ResumeInv(q)
  BY InvByParts
<1>2. \A q \in ProposalId : ProposalInv(q)'
  BY <1>1, ProposalFrame DEF coordVars
<1>3. \A q \in resumes' : ResumeInv(q)'
  BY <1>1 DEF ResumeInv, Exists, InState, coordVars
<1>4. QED
  BY <1>2, <1>3, NextInvByParts

\* Clearing: the promise stays pending, and what is on its way to the cleared
\* proposal finds none.
LEMMA ClearInv ==
  ASSUME ContractInv, NEW a \in Account, NEW id \in ProposalId,
         clear_proposal(a, id), TypeOK'
  PROVE  ContractInv'
<1>1. /\ TypeOK
      /\ \A q \in ProposalId : ProposalInv(q)
      /\ \A r \in resumes : ResumeInv(r)
  BY InvByParts
<1>2. /\ proposals'[id] = NoProposal
      /\ \A q \in ProposalId \ {id} : proposals'[q] = proposals[q]
      /\ UNCHANGED <<current_proposal_id, yields, resumes>>
  BY <1>1 DEF clear_proposal, TypeOK
<1>3. \A q \in ProposalId : ProposalInv(q)'
  <2>1. ASSUME NEW q \in ProposalId, q # id
        PROVE  ProposalInv(q)'
    BY <1>1, <1>2, <2>1, ProposalFrame
  <2>2. ProposalInv(id)'
    BY <1>1, <1>2 DEF ProposalInv, Exists
  <2>3. QED
    BY <2>1, <2>2
<1>4. \A r \in resumes' : ResumeInv(r)'
  <2> SUFFICES ASSUME NEW r \in resumes
               PROVE  ResumeInv(r)'
    BY <1>2
  <2>1. ResumeInv(r) /\ r.id \in ProposalId
    BY <1>1 DEF TypeOK, Resume
  <2>2. QED
    BY <1>2, <2>1 DEF ResumeInv, Exists, InState
<1>5. QED
  BY <1>3, <1>4, NextInvByParts

\* The callback: it settles the proposal its yield belongs to, if that is still
\* there, and takes every other resume of the yield with it.
LEMMA DeliverInv ==
  ASSUME ContractInv, NEW r \in resumes, DeliverResume(r), TypeOK'
  PROVE  ContractInv'
<1>1. /\ TypeOK
      /\ \A q \in ProposalId : ProposalInv(q)
      /\ \A q \in resumes : ResumeInv(q)
  BY InvByParts
<1> PICK id \in ProposalId : id = r.id
  BY <1>1 DEF TypeOK, Resume
<1>2. /\ yields'[id] = IF r.value = NoResult THEN "failed" ELSE "answered"
      /\ current_proposal_id' = current_proposal_id
      /\ \A q \in ProposalId \ {id} : UNCHANGED <<proposals[q], yields[q]>>
  BY <1>1 DEF DeliverResume, return_coordination_result, TypeOK
<1>3. ~(id > current_proposal_id) /\ yields[id] = "pending"
  BY <1>1 DEF DeliverResume, ProposalInv
<1>4. ProposalInv(id)'
  <2>1. CASE ~Exists(id)
    <3>1. proposals'[id] = NoProposal
      BY <2>1 DEF DeliverResume, return_coordination_result, Exists
    <3>2. QED
      BY <1>2, <1>3, <3>1 DEF ProposalInv, Exists
  <2>2. CASE Exists(id) /\ r.value = NoResult
    <3>1. proposals[id] \in Proposal
      BY <1>1, <2>2 DEF TypeOK, Exists
    <3>2. [proposals[id] EXCEPT !.state = "TimedOut"] \in Proposal
      BY <3>1 DEF Proposal
    <3>3. proposals'[id] = [proposals[id] EXCEPT !.state = "TimedOut"]
      BY <1>1, <2>2 DEF DeliverResume, return_coordination_result, TypeOK
    <3>4. /\ proposals'[id] # NoProposal
          /\ proposals'[id].state = "TimedOut"
          /\ proposals'[id].worker_submissions = proposals[id].worker_submissions
          /\ proposals'[id].finalized_result = proposals[id].finalized_result
      BY <3>1, <3>2, <3>3, ContractAssumption DEF Proposal, ContractAssumption
    <3>5. /\ OneEach(proposals[id].worker_submissions)
          /\ proposals[id].finalized_result = NoResult
      BY <1>1, <1>3, <2>2 DEF ProposalInv
    <3>6. QED
      BY <1>2, <1>3, <2>2, <3>4, <3>5 DEF ProposalInv, Exists, Unsettled, InState
  <2>3. CASE Exists(id) /\ r.value # NoResult
    <3>1. proposals[id] \in Proposal /\ r.value \in Result
      BY <1>1, <2>3 DEF TypeOK, Exists, Resume
    <3>2. InState(id, "WorkersCompleted")
      BY <1>1, <2>3 DEF ResumeInv
    <3>3. [proposals[id] EXCEPT !.state = "Finalized",
                                !.finalized_result = r.value] \in Proposal
      BY <3>1 DEF Proposal
    <3>4. proposals'[id] = [proposals[id] EXCEPT !.state = "Finalized",
                                                 !.finalized_result = r.value]
      BY <1>1, <2>3 DEF DeliverResume, return_coordination_result, TypeOK
    <3>5. /\ proposals'[id] # NoProposal
          /\ proposals'[id].state = "Finalized"
          /\ proposals'[id].worker_submissions = proposals[id].worker_submissions
          /\ proposals'[id].expected_worker_count = proposals[id].expected_worker_count
          /\ proposals'[id].finalized_result = r.value
      BY <3>1, <3>3, <3>4, ContractAssumption DEF Proposal, ContractAssumption
    <3>6. /\ OneEach(proposals[id].worker_submissions)
          /\ Len(proposals[id].worker_submissions) % U8
               = proposals[id].expected_worker_count
      BY <1>1, <3>2 DEF ProposalInv, InState
    <3>7. QED
      BY <1>2, <1>3, <2>3, <3>5, <3>6 DEF ProposalInv, Exists, Unsettled, InState
  <2>4. QED
    BY <2>1, <2>2, <2>3
<1>5. \A q \in ProposalId : ProposalInv(q)'
  <2>1. ASSUME NEW q \in ProposalId, q # id
        PROVE  ProposalInv(q)'
    BY <1>1, <1>2, <2>1, ProposalFrame
  <2>2. QED
    BY <1>4, <2>1
<1>6. \A q \in resumes' : ResumeInv(q)'
  <2> SUFFICES ASSUME NEW q \in resumes, q.id # id
               PROVE  ResumeInv(q)'
    BY DEF DeliverResume
  <2>1. ResumeInv(q) /\ q.id \in ProposalId
    BY <1>1 DEF TypeOK, Resume
  <2>2. QED
    BY <1>2, <2>1 DEF ResumeInv, Exists, InState
<1>7. QED
  BY <1>5, <1>6, NextInvByParts

\* Every step keeps the invariant.
LEMMA NextInv == ContractInv /\ [Next]_vars => ContractInv'
<1> SUFFICES ASSUME ContractInv, [Next]_vars
             PROVE  ContractInv'
  OBVIOUS
<1>1. TypeOK /\ TypeOK'
  BY NextType DEF ContractInv
<1>2. ASSUME NEW a \in Account, Admin(a)
      PROVE  ContractInv'
  BY <1>1, <1>2, AdminFrame, FrameInv
<1>3. ASSUME NEW c \in Config, NEW n \in ExpectedCounts, start_coordination(c, n)
      PROVE  ContractInv'
  BY <1>1, <1>3, StartInv
<1>4. ASSUME NEW a \in Account, NEW id \in ProposalId, NEW b \in Batches,
             record_worker_submissions(a, id, b)
      PROVE  ContractInv'
  BY <1>1, <1>4, RecordInv
<1>5. ASSUME NEW a \in Account, NEW id \in ProposalId, NEW v \in Result,
             NEW c \in Config, coordinator_resume(a, id, v, c)
      PROVE  ContractInv'
  <2> DEFINE r == [id |-> id, value |-> v]
  <2>1. r \in Resume
    BY DEF Resume
  <2>2. CASE yields[id] = "pending"
    <3>1. /\ resumes' = resumes \cup {r}
          /\ InState(r.id, "WorkersCompleted")
          /\ UNCHANGED <<current_proposal_id, proposals, yields>>
      BY <1>5, <2>2 DEF coordinator_resume, ResumeAccepted, PromiseYieldResume
    <3>2. QED
      BY <1>1, <2>1, <2>2, <3>1, ResumeSent
  <2>3. CASE yields[id] # "pending"
    BY <1>1, <1>5, <2>3, FrameInv DEF coordinator_resume, ResumeAccepted, PromiseYieldResume, coordVars
  <2>4. QED
    BY <2>2, <2>3
<1>6. ASSUME NEW a \in Account, NEW id \in ProposalId, clear_proposal(a, id)
      PROVE  ContractInv'
  BY <1>1, <1>6, ClearInv
<1>7. ASSUME NEW id \in ProposalId, YieldTimeout(id)
      PROVE  ContractInv'
  <2> DEFINE r == [id |-> id, value |-> NoResult]
  <2>1. r \in Resume
    BY DEF Resume
  <2>2. /\ resumes' = resumes \cup {r}
        /\ yields[r.id] = "pending"
        /\ UNCHANGED <<current_proposal_id, proposals, yields>>
    BY <1>7 DEF YieldTimeout
  <2>3. QED
    BY <1>1, <2>1, <2>2, ResumeSent
<1>8. ASSUME NEW r \in resumes, DeliverResume(r)
      PROVE  ContractInv'
  BY <1>1, <1>8, DeliverInv
<1>9. CASE UNCHANGED vars
  BY <1>1, <1>9, FrameInv DEF vars, coordVars
<1>10. QED
  BY <1>2, <1>3, <1>4, <1>5, <1>6, <1>7, <1>8, <1>9 DEF Next, Coordination, Runtime

\* Initially nothing has been started.
LEMMA InitInv == Init => ContractInv
<1> SUFFICES ASSUME Init
             PROVE  ContractInv
  OBVIOUS
<1>1. TypeOK
  BY InitType
<1>2. \A id \in ProposalId : ProposalInv(id)
  BY ContractAssumption DEF Init, ProposalInv, Exists, ProposalId, ContractAssumption
<1>3. \A r \in resumes : ResumeInv(r)
  BY DEF Init
<1>4. QED
  BY <1>1, <1>2, <1>3, InvByParts

\* The inductive invariant holds throughout.
THEOREM InvariantHolds == Spec => []ContractInv
BY InitInv, NextInv, PTL DEF Spec

\* No worker is ever on chain twice for a proposal, and what is recorded has the
\* size asked for, as a u8.
THEOREM Nullifier == Spec => []NullifierOnce
<1>1. ContractInv => NullifierOnce
  BY DEF ContractInv
<1>2. QED
  BY <1>1, InvariantHolds, PTL

\* Record and promise agree, although the callback overwrites the state blindly.
THEOREM Agreement == Spec => []RecordAgreesWithPromise
<1>1. ContractInv => RecordAgreesWithPromise
  BY DEF ContractInv
<1>2. QED
  BY <1>1, InvariantHolds, PTL

\* A result reaches the callback only for recorded submissions.
THEOREM ResultsLate == Spec => []ResultsFollowSubmissions
<1>1. ContractInv => ResultsFollowSubmissions
  BY DEF ContractInv
<1>2. QED
  BY <1>1, InvariantHolds, PTL

-----------------------------------------------------------------------------
(* Steps: the order of a proposal's life, and Settlement *)

\* What a delivered resume does to the proposal it is for.
LEMMA DeliverEffect ==
  ASSUME ContractInv, NEW r \in resumes, DeliverResume(r)
  PROVE  /\ r.id \in ProposalId
         /\ yields[r.id] = "pending"
         /\ yields' = [yields EXCEPT ![r.id] =
                         IF r.value = NoResult THEN "failed" ELSE "answered"]
         /\ \A q \in ProposalId \ {r.id} : proposals'[q] = proposals[q]
         /\ ~Exists(r.id) => proposals' = proposals
         /\ Exists(r.id) =>
              /\ r.value = NoResult =>
                   proposals'[r.id] = [proposals[r.id] EXCEPT !.state = "TimedOut"]
              /\ r.value # NoResult =>
                   proposals'[r.id] = [proposals[r.id] EXCEPT !.state = "Finalized",
                                                 !.finalized_result = r.value]
<1>1. TypeOK /\ r \in Resume
  BY DEF ContractInv, TypeOK
<1>2. QED
  BY <1>1 DEF DeliverResume, return_coordination_result, TypeOK, Resume

\* Every step respects the order of a proposal's life.
LEMMA NextLifecycle ==
  ASSUME ContractInv, [Next]_vars, NEW id \in ProposalId
  PROVE  LifecycleStep(id)
<1>1. /\ TypeOK
      /\ \A q \in ProposalId : ProposalInv(q)
      /\ \A r \in resumes : ResumeInv(r)
  BY InvByParts
<1>2. CASE UNCHANGED proposals
  BY <1>2 DEF LifecycleStep
<1>3. ASSUME NEW c \in Config, NEW n \in ExpectedCounts, start_coordination(c, n)
      PROVE  LifecycleStep(id)
  <2>1. PICK new \in ProposalId : new = current_proposal_id + 1
    BY <1>3 DEF start_coordination
  <2>2. current_proposal_id \in Nat
    BY <1>1 DEF TypeOK
  <2>3. proposals[new] = NoProposal
    BY <1>1, <2>1, <2>2 DEF ProposalInv
  <2>4. /\ \A q \in ProposalId \ {new} : proposals'[q] = proposals[q]
        /\ proposals'[new].state = "Created"
    BY <1>1, <1>3, <2>1 DEF start_coordination, TypeOK
  <2>5. QED
    BY <2>1, <2>3, <2>4 DEF LifecycleStep
<1>4. ASSUME NEW a \in Account, NEW q \in ProposalId, NEW b \in Batches,
             record_worker_submissions(a, q, b)
      PROVE  LifecycleStep(id)
  <2>1. /\ proposals[q] \in Proposal
        /\ proposals[q].state = "Created"
        /\ Exists(q)
    BY <1>1, <1>4 DEF record_worker_submissions, RecordAccepted, Recorded, InState, Exists, TypeOK
  <2>2. /\ \A k \in ProposalId \ {q} : proposals'[k] = proposals[k]
        /\ proposals'[q].state = "WorkersCompleted"
    BY <1>1, <1>4, <2>1 DEF record_worker_submissions, RecordAccepted, Recorded, TypeOK, Proposal
  <2>3. QED
    BY <2>1, <2>2 DEF LifecycleStep
<1>5. ASSUME NEW a \in Account, NEW q \in ProposalId, clear_proposal(a, q)
      PROVE  LifecycleStep(id)
  BY <1>1, <1>5 DEF clear_proposal, LifecycleStep, TypeOK
<1>6. ASSUME NEW r \in resumes, DeliverResume(r)
      PROVE  LifecycleStep(id)
  <2> PICK q \in ProposalId : q = r.id
    BY <1>6, DeliverEffect
  <2>1. CASE id # q \/ ~Exists(q)
    BY <1>6, <2>1, DeliverEffect DEF LifecycleStep
  <2>2. CASE id = q /\ Exists(q)
    <3>1. proposals[q] \in Proposal
      BY <1>1, <2>2 DEF TypeOK, Exists
    <3>2. Unsettled(q)
      BY <1>1, <1>6, <2>2, DeliverEffect DEF ProposalInv
    <3>3. CASE r.value = NoResult
      <4>1. /\ proposals'[q].state = "TimedOut"
            /\ proposals'[q].worker_submissions = proposals[q].worker_submissions
        BY <1>6, <2>2, <3>1, <3>3, DeliverEffect DEF Proposal
      <4>2. QED
        BY <2>2, <3>2, <4>1 DEF LifecycleStep, Unsettled, InState
    <3>4. CASE r.value # NoResult
      <4>1. /\ proposals'[q].state = "Finalized"
            /\ proposals'[q].worker_submissions = proposals[q].worker_submissions
        BY <1>6, <2>2, <3>1, <3>4, DeliverEffect DEF Proposal
      <4>2. InState(q, "WorkersCompleted")
        BY <1>1, <2>2, <3>4 DEF ResumeInv
      <4>3. QED
        BY <2>2, <4>1, <4>2 DEF LifecycleStep, InState
    <3>5. QED
      BY <3>3, <3>4
  <2>3. QED
    BY <2>1, <2>2
<1>7. ASSUME NEW a \in Account, NEW q \in ProposalId, NEW v \in Result,
             NEW c \in Config, coordinator_resume(a, q, v, c)
      PROVE  LifecycleStep(id)
  BY <1>2, <1>7 DEF coordinator_resume, ResumeAccepted
<1>8. ASSUME NEW q \in ProposalId, YieldTimeout(q)
      PROVE  LifecycleStep(id)
  BY <1>2, <1>8 DEF YieldTimeout
<1>9. ASSUME NEW a \in Account, Admin(a)
      PROVE  LifecycleStep(id)
  BY <1>2, <1>9, AdminFrame DEF coordVars
<1>10. CASE UNCHANGED vars
  BY <1>2, <1>10 DEF vars
<1>11. QED
  BY <1>3, <1>4, <1>5, <1>6, <1>7, <1>8, <1>9, <1>10 DEF Next, Coordination, Runtime

\* A settled proposal stays as it is and Finalized is reached through recorded
\* submissions only, in every behaviour.
THEOREM Lifecycle == Spec => LifecycleOrder
<1>1. ContractInv /\ [Next]_vars => [\A id \in ProposalId : LifecycleStep(id)]_vars
  BY NextLifecycle
<1>2. QED
  BY <1>1, InvariantHolds, PTL DEF Spec, LifecycleOrder

\* A step that changes one proposal changes one entry of what Settlement sees.
LEMMA ShownFrame ==
  ASSUME NEW id \in ProposalId,
         \A q \in ProposalId \ {id} : proposals'[q] = proposals[q]
  PROVE  /\ [q \in ProposalId |-> ShownAs(q)]' =
              [[q \in ProposalId |-> ShownAs(q)] EXCEPT ![id] = ShownAs(id)']
         /\ [q \in ProposalId |-> ShownAnswer(q)]' =
              [[q \in ProposalId |-> ShownAnswer(q)] EXCEPT ![id] = ShownAnswer(id)']
BY DEF ShownAs, ShownAnswer, Exists, Unsettled, InState

\* A step that touches neither proposals nor promises is a stutter of Settlement.
LEMMA ShownStutter ==
  ASSUME UNCHANGED <<proposals, yields>>
  PROVE  UNCHANGED Abstract!vars
BY DEF Abstract!vars, ShownAs, ShownAnswer, Exists, Unsettled, InState

\* The callback is the abstract answer or failure.
LEMMA DeliverSettles ==
  ASSUME ContractInv, ContractInv', NEW r \in resumes, DeliverResume(r)
  PROVE  Abstract!Next
<1>1. /\ TypeOK
      /\ \A q \in ProposalId : ProposalInv(q)
      /\ \A q \in resumes : ResumeInv(q)
  BY InvByParts
<1> PICK id \in ProposalId : id = r.id
  BY DeliverEffect
<1>2. /\ yields[id] = "pending"
      /\ yields' = [yields EXCEPT ![id] =
                      IF r.value = NoResult THEN "failed" ELSE "answered"]
      /\ \A q \in ProposalId \ {id} : proposals'[q] = proposals[q]
  BY DeliverEffect
<1>3. r.value \in Result \cup {NoResult}
  BY <1>1 DEF TypeOK, Resume
<1>4. CASE ~Exists(id)
  <2>1. UNCHANGED proposals
    BY <1>4, DeliverEffect
  <2>2. /\ [q \in ProposalId |-> ShownAs(q)]' = [q \in ProposalId |-> ShownAs(q)]
        /\ [q \in ProposalId |-> ShownAnswer(q)]' = [q \in ProposalId |-> ShownAnswer(q)]
    BY <2>1 DEF ShownAs, ShownAnswer, Exists, Unsettled, InState
  <2>3. ShownAs(id) = "absent"
    BY <1>4 DEF ShownAs
  <2>4. CASE r.value = NoResult
    <3>1. Abstract!Fail(id)
      BY <1>2, <2>2, <2>3, <2>4 DEF Abstract!Fail, Abstract!Close
    <3>2. QED
      BY <3>1 DEF Abstract!Next
  <2>5. CASE r.value # NoResult
    <3>1. Abstract!Succeed(id, r.value)
      BY <1>2, <2>2, <2>3, <2>5 DEF Abstract!Succeed, Abstract!Close
    <3>2. QED
      BY <1>3, <2>5, <3>1 DEF Abstract!Next
  <2>6. QED
    BY <2>4, <2>5
<1>5. CASE Exists(id)
  <2>1. proposals[id] \in Proposal
    BY <1>1, <1>5 DEF TypeOK, Exists
  <2>2. ShownAs(id) # "absent"
    BY <1>5 DEF ShownAs
  <2>3. CASE r.value = NoResult
    <3>1. proposals'[id] = [proposals[id] EXCEPT !.state = "TimedOut"]
      BY <1>5, <2>3, DeliverEffect
    <3>2. [proposals[id] EXCEPT !.state = "TimedOut"] \in Proposal
      BY <2>1 DEF Proposal
    <3>3. /\ proposals'[id] # NoProposal
          /\ proposals'[id].state = "TimedOut"
          /\ proposals'[id].finalized_result = proposals[id].finalized_result
      BY <2>1, <3>1, <3>2, ContractAssumption DEF Proposal, ContractAssumption
    <3>4. proposals[id].finalized_result = NoResult
      BY <1>1, <1>2, <1>5 DEF ProposalInv
    <3>5. ShownAs(id)' = "timed out" /\ ShownAnswer(id)' = NoResult
      BY <3>3, <3>4 DEF ShownAs, ShownAnswer, Exists, Unsettled, InState
    <3>6. Abstract!Fail(id)
      BY <1>2, <2>2, <2>3, <3>5, ShownFrame DEF Abstract!Fail, Abstract!Close
    <3>7. QED
      BY <3>6 DEF Abstract!Next
  <2>4. CASE r.value # NoResult
    <3>1. proposals'[id] = [proposals[id] EXCEPT !.state = "Finalized",
                                                 !.finalized_result = r.value]
      BY <1>5, <2>4, DeliverEffect
    <3>2. [proposals[id] EXCEPT !.state = "Finalized",
                                !.finalized_result = r.value] \in Proposal
      BY <1>3, <2>1 DEF Proposal
    <3>3. /\ proposals'[id] # NoProposal
          /\ proposals'[id].state = "Finalized"
          /\ proposals'[id].finalized_result = r.value
      BY <2>1, <3>1, <3>2, ContractAssumption DEF Proposal, ContractAssumption
    <3>4. ShownAs(id)' = "finalized" /\ ShownAnswer(id)' = r.value
      BY <3>3 DEF ShownAs, ShownAnswer, Exists, Unsettled, InState
    <3>5. Abstract!Succeed(id, r.value)
      BY <1>2, <2>2, <2>4, <3>4, ShownFrame DEF Abstract!Succeed, Abstract!Close
    <3>6. QED
      BY <1>3, <2>4, <3>5 DEF Abstract!Next
  <2>5. QED
    BY <2>3, <2>4
<1>6. QED
  BY <1>4, <1>5

\* Every step is a step of Settlement, or changes nothing it sees.
LEMMA NextSettles ==
  ASSUME ContractInv, ContractInv', [Next]_vars
  PROVE  [Abstract!Next]_(Abstract!vars)
<1>1. /\ TypeOK
      /\ \A q \in ProposalId : ProposalInv(q)
  BY InvByParts
<1>2. CASE UNCHANGED <<proposals, yields>>
  BY <1>2, ShownStutter
<1>3. ASSUME NEW c \in Config, NEW n \in ExpectedCounts, start_coordination(c, n)
      PROVE  Abstract!Next
  <2>1. PICK new \in ProposalId : new = current_proposal_id + 1
    BY <1>3 DEF start_coordination
  <2>2. current_proposal_id \in Nat
    BY <1>1 DEF TypeOK
  <2>3. yields[new] = "none" /\ proposals[new] = NoProposal
    BY <1>1, <2>1, <2>2 DEF ProposalInv
  <2>4. \A p \in ProposalId : p < new => yields[p] # "none"
    BY <1>1, <2>1, <2>2 DEF ProposalInv, ProposalId
  <2>5. /\ yields' = [yields EXCEPT ![new] = "pending"]
        /\ \A q \in ProposalId \ {new} : proposals'[q] = proposals[q]
        /\ proposals'[new].state = "Created"
        /\ proposals'[new].finalized_result = NoResult
    BY <1>1, <1>3, <2>1 DEF start_coordination, TypeOK
  <2>6. proposals'[new] # NoProposal
    <3>1. proposals'[new] = [state |-> "Created", config_hash |-> c,
                      expected_worker_count |-> n,
                      worker_submissions |-> << >>, finalized_result |-> NoResult]
      BY <1>1, <1>3, <2>1 DEF start_coordination, TypeOK
    <3>2. proposals'[new] \in Proposal
      BY <3>1, ContractAssumption, EmptySeq DEF Proposal, ContractAssumption
    <3>3. QED
      BY <3>2, ContractAssumption DEF ContractAssumption
  <2>7. ShownAs(new)' = "open" /\ ShownAnswer(new)' = NoResult
    BY <2>5, <2>6 DEF ShownAs, ShownAnswer, Exists, Unsettled, InState
  <2>8. ShownAnswer(new) = NoResult
    BY <2>3 DEF ShownAnswer, Exists
  <2>9. \A q \in ProposalId : ShownAnswer(q)' = ShownAnswer(q)
    BY <2>5, <2>7, <2>8 DEF ShownAnswer, Exists
  <2>10. UNCHANGED [q \in ProposalId |-> ShownAnswer(q)]
    BY <2>9
  <2>11. Abstract!Ask(new)
    BY <2>3, <2>4, <2>5, <2>7, <2>10, ShownFrame DEF Abstract!Ask
  <2>12. QED
    BY <2>11 DEF Abstract!Next
<1>4. ASSUME NEW a \in Account, NEW id \in ProposalId, NEW b \in Batches,
             record_worker_submissions(a, id, b)
      PROVE  UNCHANGED Abstract!vars
  <2>1. Exists(id) /\ Unsettled(id) /\ proposals[id] \in Proposal
    BY <1>1, <1>4 DEF record_worker_submissions, RecordAccepted, Recorded, Unsettled, InState, Exists, TypeOK
  <2>2. /\ \A q \in ProposalId \ {id} : proposals'[q] = proposals[q]
        /\ proposals'[id].state = "WorkersCompleted"
        /\ proposals'[id].finalized_result = proposals[id].finalized_result
        /\ UNCHANGED yields
    BY <1>1, <1>4, <2>1 DEF record_worker_submissions, RecordAccepted, Recorded, TypeOK, Proposal
  <2>3. proposals'[id] # NoProposal
    <3>1. proposals[id].worker_submissions \o b \in Seq(Submission)
      BY <2>1, RecordedType DEF Proposal
    <3>2. [proposals[id] EXCEPT !.worker_submissions = proposals[id].worker_submissions \o b,
                                !.state = "WorkersCompleted"] \in Proposal
      BY <2>1, <3>1 DEF Proposal
    <3>3. proposals'[id] = [proposals[id] EXCEPT
                              !.worker_submissions = proposals[id].worker_submissions \o b,
                              !.state = "WorkersCompleted"]
      BY <1>1, <1>4 DEF record_worker_submissions, RecordAccepted, Recorded, TypeOK
    <3>4. QED
      BY <3>2, <3>3, ContractAssumption DEF ContractAssumption
  <2>4. /\ ShownAs(id) = "open" /\ ShownAs(id)' = "open"
        /\ ShownAnswer(id)' = ShownAnswer(id)
    BY <2>1, <2>2, <2>3 DEF ShownAs, ShownAnswer, Exists, Unsettled, InState
  <2>5. QED
    BY <2>2, <2>4, ShownFrame DEF Abstract!vars
<1>5. ASSUME NEW a \in Account, NEW id \in ProposalId, clear_proposal(a, id)
      PROVE  Abstract!Next
  <2>1. /\ \A q \in ProposalId \ {id} : proposals'[q] = proposals[q]
        /\ proposals'[id] = NoProposal
        /\ UNCHANGED yields
    BY <1>1, <1>5 DEF clear_proposal, TypeOK
  <2>2. ShownAs(id)' = "absent" /\ ShownAnswer(id)' = NoResult
    BY <2>1 DEF ShownAs, ShownAnswer, Exists
  <2>3. Abstract!Withdraw(id)
    BY <2>1, <2>2, ShownFrame DEF Abstract!Withdraw
  <2>4. QED
    BY <2>3 DEF Abstract!Next
<1>6. ASSUME NEW r \in resumes, DeliverResume(r)
      PROVE  Abstract!Next
  BY <1>6, DeliverSettles
<1>7. ASSUME NEW a \in Account, NEW q \in ProposalId, NEW v \in Result,
             NEW c \in Config, coordinator_resume(a, q, v, c)
      PROVE  UNCHANGED <<proposals, yields>>
  BY <1>7 DEF coordinator_resume, ResumeAccepted
<1>8. ASSUME NEW q \in ProposalId, YieldTimeout(q)
      PROVE  UNCHANGED <<proposals, yields>>
  BY <1>8 DEF YieldTimeout
<1>9. ASSUME NEW a \in Account, Admin(a)
      PROVE  UNCHANGED <<proposals, yields>>
  BY <1>9, AdminFrame DEF coordVars
<1>10. CASE UNCHANGED vars
  BY <1>2, <1>10 DEF vars
<1>11. QED
  BY <1>2, <1>3, <1>4, <1>5, <1>6, <1>7, <1>8, <1>9, <1>10
     DEF Next, Coordination, Runtime

\* The initial states are initial states of Settlement.
LEMMA InitSettles == Init => Abstract!Init
BY ContractAssumption DEF Init, Abstract!Init, ShownAs, ShownAnswer, Exists

\* The contract implements Settlement's safety: each request is answered once,
\* and its record closes with that answer in the same step.
THEOREM Implementation == Spec => SettlementSafety
<1>1. ContractInv /\ ContractInv' /\ [Next]_vars => [Abstract!Next]_(Abstract!vars)
  BY NextSettles
<1>2. QED
  BY <1>1, InitSettles, InvariantHolds, PTL DEF Spec, SettlementSafety, Abstract!Spec
=============================================================================
