-------------------------- MODULE DeliberationRound --------------------------
(***************************************************************************)
(* A deliberation in production: the coordinator agent's loop,             *)
(* coordinator-agent/src/monitor/memory-monitor.ts, between the contract   *)
(* (CoordinatorContract) and the workers (WorkerAgent), with which it      *)
(* shares nothing but the keys of the Ensue memory.                        *)
(*                                                                         *)
(* setInterval starts a tick every few seconds whether or not earlier ones *)
(* have ended, so several ticks, often on the same proposal, run through   *)
(* processCoordination together.  A tick is cut at its awaits.             *)
(*                                                                         *)
(* Abstracted: the keys only the dashboard reads (coordinator status,      *)
(* proposal id, tally, timestamps), backups to Storacha and Filecoin, and  *)
(* legacy numeric tasks.  Workers answer over Ensue only: the webhook for  *)
(* IronClaw workers is left out.  The contract is set up, its owner being  *)
(* the one coordinator, and nobody administers it during a round.          *)
(***************************************************************************)
EXTENDS Naturals, Sequences, FiniteSets, SequencesExt

CONSTANTS
  Worker, Slot, Config, NoConfig, NoResult, EnsueMayFail, MaxRestarts,
  Tick,            \* bound: ticks in flight together
  ActiveSets,      \* answers of the worker discovery
  Quorum,          \* voting_config.quorum of each task, or NoQuorum
  NoQuorum,
  ExpectedCounts,  \* the worker counts requesters ask for
  CallsMayFail,    \* whether a call may fail although the contract took it
  MaxProposals,    \* bound: proposals in a behaviour
  MaxTicks,        \* bound: ticks in a behaviour
  MaxCrashes,      \* bound: restarts of the coordinator
  Coordinator, Code, NoCode, NoProposal, NoAnswer, NoWorker, NoTally

Vote == {"Approved", "Rejected"}

VARIABLES
  owner, approved_codehashes, coordinator_by_account_id, registered_workers, manifesto,
  current_proposal_id, proposals, yields, resumes,       \* the contract
  task_definition, status, result, slot, isExecuting, restarts,  \* workers
  tick,       \* the ticks in flight
  ticks,      \* ghost: ticks started
  crashes,    \* ghost: restarts of the coordinator
  snapshot,   \* coordination/coordinator/worker_snapshot_{id}
  archive,    \* coordination/proposals/{id}: tally and results
  index       \* coordination/proposals/_index

adminVars == <<owner, approved_codehashes, coordinator_by_account_id,
               registered_workers, manifesto>>
contractVars == <<adminVars, current_proposal_id, proposals, yields, resumes>>
workerVars == <<task_definition, status, result, slot, isExecuting, restarts>>
boardVars == <<snapshot, archive, index>>
vars == <<contractVars, workerVars, tick, ticks, crashes, boardVars>>

Agent == INSTANCE WorkerAgent

ProposalId == 1 .. MaxProposals

\* What the chain is shown of a tally.
OnChain ==
  [ proposalId : ProposalId, approved : Nat, rejected : Nat,
    decision : Vote, workerCount : Nat ]

Contract == INSTANCE CoordinatorContract WITH
  Account <- {Coordinator}, Codehash <- {Code}, WorkerId <- Worker,
  Result <- OnChain, Submission <- [worker_id : Worker, result_hash : Agent!ResultValue],
  Batches <- {}, NoResult <- NoAnswer

\* What a tick counts: on chain without the votes.
Tally ==
  [ proposalId : ProposalId, approved : Nat, rejected : Nat, decision : Vote,
    workerCount : Nat, votes : UNION {[W -> Agent!ResultValue] : W \in SUBSET Worker} ]

ASSUME RoundAssumption ==
  /\ IsFiniteSet(Worker)
  /\ ActiveSets \subseteq SUBSET Worker
  /\ ExpectedCounts \subseteq 0 .. Contract!U8 - 1
  /\ {MaxProposals, MaxTicks, MaxCrashes, MaxRestarts} \subseteq Nat
  /\ EnsueMayFail \in BOOLEAN
  /\ NoConfig \notin Config
  /\ NoResult \notin Agent!ResultValue
  /\ NoProposal \notin Contract!Proposal
  /\ NoAnswer \notin OnChain
  /\ NoCode # Code
  /\ NoWorker \notin Contract!RegisteredWorker
  /\ NoTally \notin Tally

\* A tick: where it is, and the local variables of its handlers.
IdleTick ==
  [ pc |-> "idle", id |-> 0, workers |-> {}, todo |-> {}, submissions |-> << >>,
    tally |-> NoTally, listed |-> {} ]

Init ==
  /\ owner = Coordinator
  /\ approved_codehashes = {Code}
  /\ coordinator_by_account_id = [a \in {Coordinator} |-> Code]
  /\ registered_workers = [w \in Worker |-> NoWorker]
  /\ manifesto = TRUE
  /\ current_proposal_id = 0
  /\ proposals = [id \in ProposalId |-> NoProposal]
  /\ yields = [id \in ProposalId |-> "none"]
  /\ resumes = {}
  /\ Agent!Init
  /\ tick = [t \in Tick |-> IdleTick]
  /\ ticks = 0
  /\ crashes = 0
  /\ snapshot = [id \in ProposalId |-> {}]
  /\ archive = [id \in ProposalId |-> NoTally]
  /\ index = {}

-----------------------------------------------------------------------------
(* Helpers *)

At(t, pc) == tick[t].pc = pc
Goto(t, pc) == tick' = [tick EXCEPT ![t].pc = pc]
End(t) == tick' = [tick EXCEPT ![t] = IdleTick]

\* What a read brings: the value, or nothing when it fails, which the client
\* reports as a key that is not there.
Reading(value, nothing) == IF EnsueMayFail THEN {value, nothing} ELSE {value}

\* A read of the result keys of workers W brings the workers that have one.
Readings(W) == Reading({w \in W : result[w] # NoResult}, {})

\* The submissions of the workers read, in the order of the discovery.
SubmissionsOf(read) ==
  LET inOrder == SetToSeq(read) IN
  [i \in DOMAIN inOrder |-> [worker_id |-> inOrder[i], result_hash |-> result[inOrder[i]]]]

\* The tally over workers W: a quorum set by the task, else a strict majority
\* of the workers asked; Approved when nobody voted at all.
TallyOf(id, W, read, config) ==
  LET approved == Cardinality({w \in read : result[w].vote = "Approved"})
      minPositives == IF config \in Config /\ Quorum[config] # NoQuorum
                      THEN Quorum[config] ELSE Cardinality(W) \div 2 + 1 IN
  [ proposalId |-> id,
    votes |-> [w \in read |-> result[w]],
    approved |-> approved,
    rejected |-> Cardinality(read) - approved,
    decision |-> IF read = {} \/ approved >= minPositives THEN "Approved" ELSE "Rejected",
    workerCount |-> Cardinality(read) ]

\* Votes stay off chain.
OnChainOf(tally) ==
  [ proposalId |-> tally.proposalId, approved |-> tally.approved,
    rejected |-> tally.rejected, decision |-> tally.decision,
    workerCount |-> tally.workerCount ]

-----------------------------------------------------------------------------
(* A tick of the coordinator *)

Pending == {id \in ProposalId : Contract!InState(id, "Created")}

\* The timer fires; the view call answers with the pending proposals and the
\* first of them is taken.  Ids are stored in order, so that is the least one.
checkAndCoordinate(t) ==
  /\ At(t, "idle")
  /\ ticks < MaxTicks
  /\ ticks' = ticks + 1
  /\ \E id \in Pending :
       /\ \A other \in Pending : id <= other
       /\ tick' = [tick EXCEPT ![t].pc = "discovering", ![t].id = id]
  /\ UNCHANGED <<contractVars, workerVars, boardVars, crashes>>

\* Whichever workers are registered, active and reachable at this moment.
getActiveWorkers(t) ==
  /\ At(t, "discovering")
  /\ \E W \in ActiveSets :
       tick' = [tick EXCEPT ![t].pc = "publishing", ![t].workers = W, ![t].todo = W]
  /\ UNCHANGED <<contractVars, workerVars, boardVars, ticks, crashes>>

\* triggerWorkers: first the one task definition all workers read ...
PublishTask(t) ==
  /\ At(t, "publishing")
  /\ task_definition' \in Agent!Stored(task_definition, proposals[tick[t].id].config_hash)
  /\ Goto(t, "resetting")
  /\ UNCHANGED <<contractVars, status, result, slot, isExecuting, restarts>>
  /\ UNCHANGED <<boardVars, ticks, crashes>>

\* ... then, in any order, the status of each worker.  RESULT is not cleared.
ResetStatus(t, w) ==
  /\ At(t, "resetting")
  /\ w \in tick[t].todo
  /\ Agent!WriteStatus(w, "pending")
  /\ tick' = [tick EXCEPT ![t].todo = @ \ {w}]
  /\ UNCHANGED <<contractVars, task_definition, result, slot, isExecuting, restarts>>
  /\ UNCHANGED <<boardVars, ticks, crashes>>

\* All triggered: remember who was asked, or give up if nobody was.
TakeSnapshot(t) ==
  /\ At(t, "resetting")
  /\ tick[t].todo = {}
  /\ IF tick[t].workers = {} THEN End(t) /\ UNCHANGED snapshot
     ELSE /\ \E stored \in Agent!Stored(snapshot[tick[t].id], tick[t].workers) :
               snapshot' = [snapshot EXCEPT ![tick[t].id] = stored]
          /\ Goto(t, "waiting")
  /\ UNCHANGED <<contractVars, workerVars, archive, index, ticks, crashes>>

\* waitForWorkers: one read shows every status; a failed worker counts as done.
AllDone(t) ==
  /\ At(t, "waiting")
  /\ \A w \in tick[t].workers : status[w] \in {"completed", "failed"}
  /\ Goto(t, "reading")
  /\ UNCHANGED <<contractVars, workerVars, boardVars, ticks, crashes>>

\* Mutant: the wait has no time-out.
WaitTimeout_Never(t) == FALSE /\ UNCHANGED vars

WaitTimeout(t) ==
  /\ At(t, "waiting")
  /\ End(t)
  /\ UNCHANGED <<contractVars, workerVars, boardVars, ticks, crashes>>

readResultsWithRetry(t) ==
  /\ At(t, "reading")
  /\ \E read \in Readings(tick[t].workers) :
       tick' = [tick EXCEPT ![t].pc = "recording", ![t].submissions = SubmissionsOf(read)]
  /\ UNCHANGED <<contractVars, workerVars, boardVars, ticks, crashes>>

\* A call of the coordinator on the contract: it is taken and the tick goes on,
\* it is refused and the tick ends, or the answer is lost and the tick ends
\* whether the call was taken or not.
Answered(t, accepted, call, next) ==
  \/ accepted /\ call /\ next
  \/ ~accepted /\ UNCHANGED contractVars /\ End(t)
  \/ CallsMayFail /\ End(t) /\ (UNCHANGED contractVars \/ (accepted /\ call))

RecordSubmissions(t) ==
  LET id == tick[t].id
      subs == tick[t].submissions IN
  /\ At(t, "recording")
  /\ Answered(t, Contract!RecordAccepted(Coordinator, id, subs),
              Contract!record_worker_submissions(Coordinator, id, subs),
              Goto(t, "aggregating"))
  /\ UNCHANGED <<workerVars, boardVars, ticks, crashes>>

\* Mutant: the workers are discovered again although there is a snapshot.
aggregateResults_Rediscover(t) ==
  /\ At(t, "aggregating")
  /\ \E W \in ActiveSets, read \in SUBSET Worker :
       /\ read \in Readings(W)
       /\ tick' = [tick EXCEPT ![t].pc = "archiving",
                    ![t].tally = TallyOf(tick[t].id, W, read, task_definition)]
  /\ UNCHANGED <<contractVars, workerVars, boardVars, ticks, crashes>>

\* Snapshot, task definition and results are read anew; without a snapshot the
\* workers are discovered again.
aggregateResults(t) ==
  LET id == tick[t].id IN
  /\ At(t, "aggregating")
  /\ \E stored \in Reading(snapshot[id], {}), config \in Reading(task_definition, NoConfig) :
       \E W \in (IF stored = {} THEN ActiveSets ELSE {stored}) :
         \E read \in Readings(W) :
           tick' = [tick EXCEPT ![t].pc = "archiving",
                                ![t].tally = TallyOf(id, W, read, config)]
  /\ UNCHANGED <<contractVars, workerVars, boardVars, ticks, crashes>>

\* Mutant: what is archived is counted once more.
archiveProposal_Recount(t) ==
  /\ At(t, "archiving")
  /\ \E read \in Readings(tick[t].workers) :
       archive' = [archive EXCEPT ![tick[t].id] =
                     TallyOf(tick[t].id, tick[t].workers, read, task_definition)]
  /\ Goto(t, "indexing")
  /\ UNCHANGED <<contractVars, workerVars, snapshot, index, ticks, crashes>>

\* The proposal's own keys.  The results of single workers are archived too,
\* but nothing reads them back.
archiveProposal(t) ==
  /\ At(t, "archiving")
  /\ \E stored \in Agent!Stored(archive[tick[t].id], tick[t].tally) :
       archive' = [archive EXCEPT ![tick[t].id] = stored]
  /\ Goto(t, "indexing")
  /\ UNCHANGED <<contractVars, workerVars, snapshot, index, ticks, crashes>>

ReadIndex(t) ==
  /\ At(t, "indexing")
  /\ \E seen \in Reading(index, {}) :
       tick' = [tick EXCEPT ![t].pc = "listing", ![t].listed = seen]
  /\ UNCHANGED <<contractVars, workerVars, boardVars, ticks, crashes>>

WriteIndex(t) ==
  /\ At(t, "listing")
  /\ IF tick[t].id \in tick[t].listed THEN UNCHANGED index
     ELSE index' \in Agent!Stored(index, tick[t].listed \cup {tick[t].id})
  /\ Goto(t, "resuming")
  /\ UNCHANGED <<contractVars, workerVars, snapshot, archive, ticks, crashes>>

\* Only the aggregate goes on chain.
resumeContractWithTally(t) ==
  LET id == tick[t].id
      config == proposals[id].config_hash IN
  /\ At(t, "resuming")
  /\ Answered(t, Contract!ResumeAccepted(Coordinator, id, config),
              Contract!coordinator_resume(Coordinator, id, OnChainOf(tick[t].tally), config),
              End(t))
  /\ UNCHANGED <<workerVars, boardVars, ticks, crashes>>

\* The coordinator's process is restarted: every tick in flight is forgotten.
Crash ==
  /\ crashes < MaxCrashes
  /\ crashes' = crashes + 1
  /\ tick' = [t \in Tick |-> IdleTick]
  /\ UNCHANGED <<contractVars, workerVars, boardVars, ticks>>

\* A step that brings a tick nearer to its end.
Advance(t) ==
  \/ getActiveWorkers(t)
  \/ PublishTask(t)
  \/ \E w \in Worker : ResetStatus(t, w)
  \/ TakeSnapshot(t)
  \/ AllDone(t)
  \/ WaitTimeout(t)
  \/ readResultsWithRetry(t)
  \/ RecordSubmissions(t)
  \/ aggregateResults(t)
  \/ archiveProposal(t)
  \/ ReadIndex(t)
  \/ WriteIndex(t)
  \/ resumeContractWithTally(t)

-----------------------------------------------------------------------------
(* The system *)

Request(c, n) ==
  /\ Contract!start_coordination(c, n)
  /\ UNCHANGED <<workerVars, tick, ticks, crashes, boardVars>>

Runtime == Contract!Runtime /\ UNCHANGED <<workerVars, tick, ticks, crashes, boardVars>>

WorkerStep(w) ==
  /\ Agent!WorkerStep(w)
  /\ UNCHANGED <<contractVars, tick, ticks, crashes, boardVars>>

Next ==
  \/ \E c \in Config, n \in ExpectedCounts : Request(c, n)
  \/ Runtime
  \/ \E w \in Worker : WorkerStep(w)
  \/ \E t \in Tick : checkAndCoordinate(t) \/ Advance(t)
  \/ Crash

Spec == Init /\ [][Next]_vars

\* Every await of a tick returns: fetch, the memory's client and the wait for
\* the workers all have time-outs.  The timer may be late for ever.
Fairness == \A t \in Tick : WF_vars(Advance(t))

FairSpec == Spec /\ Fairness

-----------------------------------------------------------------------------
(* Correctness *)

Past == {"aggregating", "archiving", "indexing", "listing", "resuming"}

TickType ==
  [ pc : {"idle", "discovering", "publishing", "resetting", "waiting", "reading",
          "recording"} \cup Past,
    id : 0 .. MaxProposals, workers : SUBSET Worker, todo : SUBSET Worker,
    submissions : Seq([worker_id : Worker, result_hash : Agent!ResultValue]),
    listed : SUBSET ProposalId ]

TypeOK ==
  /\ Contract!TypeOK
  /\ Agent!TypeOK
  /\ \A t \in Tick :
       /\ [f \in DOMAIN tick[t] \ {"tally"} |-> tick[t][f]] \in TickType
       /\ tick[t].pc \in {"archiving", "indexing", "listing", "resuming"}
            => OnChainOf(tick[t].tally) \in OnChain
  /\ ticks \in 0 .. MaxTicks
  /\ crashes \in 0 .. MaxCrashes
  /\ snapshot \in [ProposalId -> SUBSET Worker]
  /\ \A id \in ProposalId : archive[id] = NoTally \/ OnChainOf(archive[id]) \in OnChain
  /\ index \in SUBSET ProposalId

\* Ticks overlap without a lock, yet of those on one proposal only one gets
\* past the recording, and until it has answered no result of the proposal
\* exists, neither on its way nor on chain.
OneRecorder ==
  \A t \in Tick : tick[t].pc \in Past =>
    /\ \A u \in Tick : (tick[u].pc \in Past /\ tick[u].id = tick[t].id) => u = t
    /\ ~Contract!InState(tick[t].id, "Created")
    /\ ~Contract!InState(tick[t].id, "Finalized")
    /\ \A r \in resumes : r.id = tick[t].id => r.value = NoAnswer

\* What the history shows of a finalized proposal is what the chain says of it.
ArchiveAgreesWithChain ==
  \A id \in ProposalId : Contract!InState(id, "Finalized") =>
    /\ archive[id] # NoTally
    /\ OnChainOf(archive[id]) = proposals[id].finalized_result

\* Driven by the coordinator, and side by side, the contract and the workers keep
\* what each of them keeps on its own: the nullifier, a record that agrees with
\* the caller's promise, no result before the submissions; a raised flag that has
\* its execution, a result before "completed".
PartsKeepTheirWord ==
  /\ Contract!NullifierOnce
  /\ Contract!RecordAgreesWithPromise
  /\ Contract!ResultsFollowSubmissions
  /\ Agent!FlagHasExecution
  /\ Agent!ResultBeforeCompleted

\* What holds whatever overlaps, as long as the memory answers.
RoundInv == TypeOK /\ ArchiveAgreesWithChain /\ PartsKeepTheirWord

\* Every tick comes to an end, whatever workers, contract and memory do.
TicksEnd == \A t \in Tick : tick[t].pc # "idle" ~> tick[t].pc = "idle"

Counted(t) == tick[t].pc \in Past \ {"aggregating"}

\* "The result_hash commits the worker to their vote": the votes counted are
\* the ones recorded on chain.
TallyMatchesCommitments ==
  \A t \in Tick : Counted(t) =>
    LET votes == tick[t].tally.votes
        subs == proposals[tick[t].id].worker_submissions IN
    {[worker_id |-> w, result_hash |-> votes[w]] : w \in DOMAIN votes}
      = {subs[i] : i \in DOMAIN subs}

\* "Taken at vote start to prevent mid-vote registration from changing expected
\* count": from then on the snapshot names the workers the tick triggered.
SnapshotKept ==
  \A t \in Tick : tick[t].pc \in {"waiting", "reading", "recording"} \cup Past =>
    snapshot[tick[t].id] = tick[t].workers

\* "Overwritten each round": a vote counted for a proposal is a vote on it.
VotesAreOnTheProposal ==
  \A t \in Tick : Counted(t) =>
    \A w \in DOMAIN tick[t].tally.votes :
      tick[t].tally.votes[w].config = proposals[tick[t].id].config_hash

-----------------------------------------------------------------------------
(* The round implements Deliberation. *)

\* The timer's tick ends before the next one starts, the workers handle one task
\* at a time, and the memory answers.
Sequential ==
  /\ \A t, u \in Tick : t = u
  /\ \A r, s \in Slot : r = s
  /\ ~EnsueMayFail

PhaseOf(id) ==
  IF ~Contract!Exists(id) THEN "absent"
  ELSE CASE proposals[id].state = "Created" -> "open"
         [] proposals[id].state = "WorkersCompleted" -> "committed"
         [] proposals[id].state = "Finalized" -> "decided"
         [] OTHER -> "expired"

BallotsOf(id) == IF Contract!Exists(id) THEN proposals[id].worker_submissions ELSE << >>

DecisionOf(id) ==
  IF Contract!InState(id, "Finalized") THEN proposals[id].finalized_result ELSE NoTally

Abstract == INSTANCE Deliberation WITH
  Proposals <- ProposalId,
  Voter <- Worker,
  Choice <- Agent!ResultValue,
  NoEntry <- NoTally,
  Exact <- Sequential,
  phase <- [id \in ProposalId |-> PhaseOf(id)],
  ballots <- [id \in ProposalId |-> BallotsOf(id)],
  history <- archive,
  decision <- [id \in ProposalId |-> DecisionOf(id)]

\* Seen from chain and history the round is a Deliberation, whatever overlaps: an
\* exact one if ticks do not.
RoundDeliberates == Abstract!Spec

=============================================================================
