-------------------------- MODULE LocalCoordination --------------------------
(***************************************************************************)
(* A deliberation started by hand or bought: triggerLocalCoordination of   *)
(* memory-monitor.ts, the chain calls of local-contract.ts it makes, and   *)
(* the two routes that start it, /api/coordinate/trigger and the paid      *)
(* /x402/deliberate with its store of verdicts and its buyer.              *)
(*                                                                         *)
(* The contract, the workers, the tally and the keys of the memory are     *)
(* those of DeliberationRound.  What differs is the order - workers are    *)
(* dispatched first, the proposal is created after - and what a failure    *)
(* does: here most are logged and the run goes on.  Nothing keeps two runs *)
(* apart, so a run may take the proposal of another for its own; ghosts     *)
(* keep who took what.  A run is cut at its awaits; a Run is one request,  *)
(* made once.                                                              *)
(*                                                                         *)
(* Abstracted: failures of the memory (DeliberationRound has them); keys   *)
(* only the dashboard reads; payment, which a middleware of a library      *)
(* takes; backups; the archive index; IronClaw workers, whose webhook is   *)
(* another way to deliver the same task; what a call that timed out would  *)
(* do later than the check that follows it.                                *)
(***************************************************************************)
EXTENDS Naturals, Sequences, FiniteSets, SequencesExt

CONSTANTS
  Worker, Slot, Config, NoConfig, NoResult, MaxRestarts,
  Quorum, NoQuorum, CallsMayFail, MaxProposals, MaxCrashes,
  Coordinator, Code, NoCode, NoProposal, NoAnswer, NoWorker, NoTally,
  Run,           \* requests, each made at most once
  Paid,          \* those of them made at /x402/deliberate
  Keyless,       \* polling workers: not dispatched to
  Found,         \* answers of the worker discovery
  MinWorkers,    \* MIN_WORKERS, or min_workers of the task
  ViewsMayFail   \* whether a view call may fail, which the code reads as null

VARIABLES
  owner, approved_codehashes, coordinator_by_account_id, registered_workers, manifesto,
  current_proposal_id, proposals, yields, resumes,               \* the contract
  task_definition, status, result, slot, isExecuting, restarts,  \* workers
  snapshot, archive,                                             \* shared memory
  run,        \* the runs: where each is, and its local variables
  startTx,    \* start_coordination calls sent and not settled: the count asked, or 0
  startedBy,  \* ghost: the run whose call created each proposal
  verdict,    \* the verdict store
  buyer,      \* what each buyer has been told
  takers,     \* ghost: the runs that took each proposal for their own
  disturbed,  \* ghost: runs another ran beside, or that saw no id where there was one
  crashes     \* ghost: restarts of the coordinator

Round == INSTANCE DeliberationRound WITH
  Tick <- {}, ActiveSets <- Found, ExpectedCounts <- {}, MaxTicks <- 0,
  EnsueMayFail <- FALSE, tick <- << >>, ticks <- 0, index <- {}

contractVars == <<owner, approved_codehashes, coordinator_by_account_id,
                  registered_workers, manifesto, current_proposal_id, proposals,
                  yields, resumes>>
workerVars == <<task_definition, status, result, slot, isExecuting, restarts>>
boardVars == <<snapshot, archive>>
startVars == <<startTx, startedBy>>
saleVars == <<verdict, buyer>>
vars == <<contractVars, workerVars, boardVars, startVars, saleVars, run,
          takers, disturbed, crashes>>

ProposalId == 1 .. MaxProposals

ASSUME LocalAssumption ==
  /\ IsFiniteSet(Worker) /\ Cardinality(Worker) < Round!Contract!U8
  /\ Found \subseteq SUBSET Worker
  /\ {MaxProposals, MaxCrashes, MaxRestarts} \subseteq Nat
  /\ NoConfig \notin Config
  /\ NoResult \notin Round!Agent!ResultValue
  /\ NoProposal \notin Round!Contract!Proposal
  /\ NoAnswer \notin Round!OnChain
  /\ NoTally \notin Round!Tally
  /\ NoCode # Code
  /\ NoWorker \notin Round!Contract!RegisteredWorker

IdleRun ==
  [ pc |-> "idle", config |-> NoConfig, workers |-> {}, todo |-> {}, dropped |-> {},
    before |-> 0, id |-> 0, submissions |-> << >>, tally |-> NoTally ]

NoVerdict == [status |-> "none", nearProposalId |-> 0, tally |-> NoTally]

Init ==
  /\ owner = Coordinator
  /\ approved_codehashes = {Code}
  /\ coordinator_by_account_id = [a \in {Coordinator} |-> Code]
  /\ registered_workers = [w \in Worker |-> NoWorker]
  /\ manifesto = TRUE
  /\ current_proposal_id = 0
  /\ proposals = [id \in ProposalId |-> NoProposal]
  /\ yields = [id \in ProposalId |-> "none"]
  /\ resumes = {}
  /\ Round!Agent!Init
  /\ snapshot = [id \in ProposalId |-> {}]
  /\ archive = [id \in ProposalId |-> NoTally]
  /\ run = [r \in Run |-> IdleRun]
  /\ startTx = [r \in Run |-> 0]
  /\ startedBy = [id \in ProposalId |-> {}]
  /\ verdict = [r \in Run |-> NoVerdict]
  /\ buyer = [r \in Run |-> "none"]
  /\ takers = [id \in ProposalId |-> {}]
  /\ disturbed = {}
  /\ crashes = 0

-----------------------------------------------------------------------------
(* Helpers *)

At(r, pc) == run[r].pc = pc
Goto(r, pc) == run' = [run EXCEPT ![r].pc = pc]
Over(r) == run[r].pc \in {"idle", "returned", "lost"}

\* Under way, or with its start call still to land.
Active(r) == ~Over(r) \/ startTx[r] # 0

\* localViewCall answers null on any error, which its callers turn into `zero`.
View(value, zero) == IF ViewsMayFail THEN {value, zero} ELSE {value}

\* A signed call whose answer changes nothing in what the run does next: it is
\* taken, or it is refused, or it failed on its way.
Call(accepted, call) ==
  \/ accepted /\ call
  \/ (~accepted \/ CallsMayFail) /\ UNCHANGED contractVars

-----------------------------------------------------------------------------
(* The verdict store and its routes *)

\* Merges the update into a record the store still has.
updateRecord(record, update) == IF record.status = "none" THEN record ELSE update

Outcome(r, tally) ==
  IF tally = NoTally
  THEN [status |-> "failed", nearProposalId |-> 0, tally |-> NoTally]
  ELSE [status |-> "completed", nearProposalId |-> tally.proposalId, tally |-> tally]

\* Mutant: a run without a tally is not recorded.
runDeliberation_NullIgnored(r, tally) ==
  IF r \in Paid /\ tally # NoTally
  THEN /\ verdict' = [verdict EXCEPT ![r] = updateRecord(@, Outcome(r, tally))]
       /\ buyer' = [buyer EXCEPT ![r] = IF @ = "waiting" THEN verdict'[r].status ELSE @]
  ELSE UNCHANGED saleVars

\* What follows the return of a run at once: the record gets its outcome and, if
\* the buyer's connection is still held, it is answered 200 or 422 from it.
runDeliberation(r, tally) ==
  IF r \in Paid
  THEN /\ verdict' = [verdict EXCEPT ![r] = updateRecord(@, Outcome(r, tally))]
       /\ buyer' = [buyer EXCEPT ![r] = IF @ = "waiting" THEN verdict'[r].status ELSE @]
  ELSE UNCHANGED saleVars

\* The local variables go; the configuration is in the call it may have sent.
End(r, how) == [IdleRun EXCEPT !.pc = how, !.config = run[r].config]

Return(r, tally) ==
  /\ run' = [run EXCEPT ![r] = End(r, "returned")]
  /\ runDeliberation(r, tally)

\* Mutant: a window that closes settles the record as well.
AwaitExpires_Fails(r) ==
  /\ buyer[r] = "waiting"
  /\ buyer' = [buyer EXCEPT ![r] = "polling"]
  /\ verdict' = [verdict EXCEPT ![r].status = "failed"]
  /\ UNCHANGED <<contractVars, workerVars, boardVars, startVars, run,
                 takers, disturbed, crashes>>

\* The window closes first: 202, and the run goes on.
AwaitExpires(r) ==
  /\ buyer[r] = "waiting"
  /\ buyer' = [buyer EXCEPT ![r] = "polling"]
  /\ UNCHANGED <<contractVars, workerVars, boardVars, startVars, run,
                 takers, disturbed, crashes, verdict>>

\* GET /x402/verdict: 404 for a record no more there, 422, 200; 202 tells nothing.
PollVerdict(r) ==
  /\ buyer[r] = "polling"
  /\ verdict[r].status # "pending"
  /\ buyer' = [buyer EXCEPT ![r] = IF verdict[r].status = "none" THEN "lost"
                                   ELSE verdict[r].status]
  /\ UNCHANGED <<contractVars, workerVars, boardVars, startVars, run,
                 takers, disturbed, crashes, verdict>>

\* The last poll the buyer pays for was answered 202.
GiveUp(r) ==
  /\ buyer[r] = "polling"
  /\ verdict[r].status = "pending"
  /\ buyer' = [buyer EXCEPT ![r] = "gave up"]
  /\ UNCHANGED <<contractVars, workerVars, boardVars, startVars, run,
                 takers, disturbed, crashes, verdict>>

-----------------------------------------------------------------------------
(* A run of triggerLocalCoordination *)

\* POST /x402/deliberate creates the record and starts the run; POST /trigger
\* starts one and answers.  Neither looks whether another is under way.
Begin(r) ==
  LET others == {q \in Run : Active(q)} IN
  /\ At(r, "idle")
  /\ \E c \in Config :
       run' = [run EXCEPT ![r].pc = "discovering", ![r].config = c]
  /\ disturbed' = disturbed \cup others \cup (IF others = {} THEN {} ELSE {r})
  /\ IF r \in Paid
     THEN /\ verdict' = [verdict EXCEPT ![r].status = "pending"]
          /\ buyer' = [buyer EXCEPT ![r] = "waiting"]
     ELSE UNCHANGED saleVars
  /\ UNCHANGED <<contractVars, workerVars, boardVars, startVars, takers, crashes>>

getActiveWorkers(r) ==
  /\ At(r, "discovering")
  /\ \E W \in Found :
       IF Cardinality(W) < MinWorkers THEN Return(r, NoTally)
       ELSE /\ run' = [run EXCEPT ![r].pc = "publishing", ![r].workers = W, ![r].todo = W]
            /\ UNCHANGED saleVars
  /\ UNCHANGED <<contractVars, workerVars, boardVars, startVars,
                 takers, disturbed, crashes>>

\* triggerWorkers: the task definition, which all runs share ...
PublishTask(r) ==
  /\ At(r, "publishing")
  /\ task_definition' = run[r].config
  /\ Goto(r, "resetting")
  /\ UNCHANGED <<contractVars, status, result, slot, isExecuting, restarts>>
  /\ UNCHANGED <<boardVars, startVars, saleVars, takers, disturbed, crashes>>

\* ... every status, then at once a request to each worker that has a server ...
ResetStatus(r, w) ==
  LET left == run[r].todo \ {w} IN
  /\ At(r, "resetting")
  /\ w \in run[r].todo
  /\ Round!Agent!WriteStatus(w, "pending")
  /\ run' = [run EXCEPT ![r].pc = IF left = {} THEN "dispatching" ELSE @,
                        ![r].todo = IF left = {} THEN run[r].workers \ Keyless ELSE left]
  /\ UNCHANGED <<contractVars, task_definition, result, slot, isExecuting, restarts>>
  /\ UNCHANGED <<boardVars, startVars, saleVars, takers, disturbed, crashes>>

\* ... that the worker takes and answers, or that fails, its answer perhaps lost ...
Dispatch(r, w) ==
  LET Taken == \E s \in Slot : Round!Agent!execute(w, s, run[r].config) IN
  /\ At(r, "dispatching")
  /\ w \in run[r].todo
  /\ \/ /\ Taken
        /\ run' = [run EXCEPT ![r].todo = @ \ {w}]
     \/ /\ CallsMayFail
        /\ Taken \/ UNCHANGED workerVars
        /\ run' = [run EXCEPT ![r].todo = @ \ {w}, ![r].dropped = @ \cup {w}]
  /\ UNCHANGED <<contractVars, boardVars, startVars, saleVars, takers, disturbed, crashes>>

\* ... and a worker not reached is left out and set idle.
MarkUnreachable(r, w) ==
  /\ At(r, "dispatching")
  /\ w \in run[r].dropped
  /\ Round!Agent!WriteStatus(w, "idle")
  /\ run' = [run EXCEPT ![r].dropped = @ \ {w}, ![r].workers = @ \ {w}]
  /\ UNCHANGED <<contractVars, task_definition, result, slot, isExecuting, restarts>>
  /\ UNCHANGED <<boardVars, startVars, saleVars, takers, disturbed, crashes>>

\* With enough workers left, the last id on chain is looked up and the call sent,
\* not awaited.
localStartCoordination(r) ==
  /\ At(r, "dispatching")
  /\ run[r].todo = {} /\ run[r].dropped = {}
  /\ IF Cardinality(run[r].workers) < MinWorkers
     THEN Return(r, NoTally) /\ UNCHANGED <<startTx, disturbed>>
     ELSE /\ \E seen \in View(current_proposal_id, 0) :
               /\ run' = [run EXCEPT ![r].pc = "detecting", ![r].before = seen]
               /\ disturbed' = disturbed \cup {q \in {r} : seen # current_proposal_id}
          /\ startTx' = [startTx EXCEPT ![r] = Cardinality(run[r].workers)]
          /\ UNCHANGED saleVars
  /\ UNCHANGED <<contractVars, workerVars, boardVars, startedBy, takers, crashes>>

\* The call is executed, whenever that is.
StartLands(r) ==
  /\ startTx[r] # 0
  /\ Round!Contract!start_coordination(run[r].config, startTx[r])
  /\ startTx' = [startTx EXCEPT ![r] = 0]
  /\ startedBy' = [startedBy EXCEPT ![current_proposal_id + 1] = {r}]
  /\ UNCHANGED <<workerVars, boardVars, saleVars, run, takers, disturbed, crashes>>

StartLost(r) ==
  /\ startTx[r] # 0
  /\ CallsMayFail
  /\ startTx' = [startTx EXCEPT ![r] = 0]
  /\ UNCHANGED <<contractVars, workerVars, boardVars, saleVars, run,
                 takers, disturbed, crashes, startedBy>>

Take(r, id) ==
  /\ run' = [run EXCEPT ![r].pc = "snapshot", ![r].id = id]
  /\ takers' = [takers EXCEPT ![id] = @ \cup {r}]

\* Mutant: any id the chain shows is taken.
DetectProposal_Any(r) ==
  /\ At(r, "detecting")
  /\ \E seen \in View(current_proposal_id, 0) : seen > 0 /\ Take(r, seen)
  /\ UNCHANGED <<contractVars, workerVars, boardVars, startVars, saleVars, disturbed, crashes>>

\* The proposal is taken for the run's own once the last id has grown.
DetectProposal(r) ==
  /\ At(r, "detecting")
  /\ \E seen \in View(current_proposal_id, 0) : seen > run[r].before /\ Take(r, seen)
  /\ UNCHANGED <<contractVars, workerVars, boardVars, startVars, saleVars, disturbed, crashes>>

\* After 8 seconds the run goes on without the chain.
DetectTimeout(r) ==
  /\ At(r, "detecting")
  /\ Goto(r, "waiting")
  /\ UNCHANGED <<contractVars, workerVars, boardVars, startVars, saleVars,
                 takers, disturbed, crashes>>

TakeSnapshot(r) ==
  /\ At(r, "snapshot")
  /\ snapshot' = [snapshot EXCEPT ![run[r].id] = run[r].workers]
  /\ Goto(r, "waiting")
  /\ UNCHANGED <<contractVars, workerVars, archive, startVars, saleVars,
                 takers, disturbed, crashes>>

\* waitForWorkers; without a proposal nothing is recorded.
AllDone(r) ==
  /\ At(r, "waiting")
  /\ run[r].workers # {}
  /\ \A w \in run[r].workers : status[w] \in {"completed", "failed"}
  /\ Goto(r, IF run[r].id = 0 THEN "aggregating" ELSE "reading")
  /\ UNCHANGED <<contractVars, workerVars, boardVars, startVars, saleVars,
                 takers, disturbed, crashes>>

WaitTimeout(r) ==
  /\ At(r, "waiting")
  /\ Return(r, NoTally)
  /\ UNCHANGED <<contractVars, workerVars, boardVars, startVars,
                 takers, disturbed, crashes>>

ReadResults(r) ==
  /\ At(r, "reading")
  /\ \E read \in Round!Readings(run[r].workers) :
       run' = [run EXCEPT ![r].pc = "recording", ![r].submissions = Round!SubmissionsOf(read)]
  /\ UNCHANGED <<contractVars, workerVars, boardVars, startVars, saleVars,
                 takers, disturbed, crashes>>

\* Whether the submissions were recorded is only logged.
localRecordWorkerSubmissions(r) ==
  LET id == run[r].id
      subs == run[r].submissions IN
  /\ At(r, "recording")
  /\ Call(Round!Contract!RecordAccepted(Coordinator, id, subs),
          Round!Contract!record_worker_submissions(Coordinator, id, subs))
  /\ Goto(r, "aggregating")
  /\ UNCHANGED <<workerVars, boardVars, startVars, saleVars, takers, disturbed, crashes>>

\* Without a snapshot, so without a proposal, whoever is active now is counted.
aggregateResults(r) ==
  LET id == run[r].id
      stored == IF id = 0 THEN {} ELSE snapshot[id] IN
  /\ At(r, "aggregating")
  /\ \E W \in (IF stored = {} THEN Found ELSE {stored}) :
       \E read \in Round!Readings(W) :
         run' = [run EXCEPT ![r].pc = "archiving",
                            ![r].tally = Round!TallyOf(id, W, read, task_definition)]
  /\ UNCHANGED <<contractVars, workerVars, boardVars, startVars, saleVars,
                 takers, disturbed, crashes>>

\* The archive entry of a run without a proposal is under a name of its own.
archiveProposal(r) ==
  LET id == run[r].id IN
  /\ At(r, "archiving")
  /\ IF id = 0 THEN Return(r, run[r].tally) /\ UNCHANGED archive
     ELSE /\ archive' = [archive EXCEPT ![id] = run[r].tally]
          /\ Goto(r, "resuming")
          /\ UNCHANGED saleVars
  /\ UNCHANGED <<contractVars, workerVars, snapshot, startVars, takers, disturbed, crashes>>

\* Mutant: the votes are counted once more for the chain.
localCoordinatorResume_Recount(r) ==
  LET id == run[r].id
      config == run[r].config IN
  /\ At(r, "resuming")
  /\ \E read \in Round!Readings(run[r].workers) :
       LET tally == Round!TallyOf(id, run[r].workers, read, task_definition) IN
       /\ Round!Contract!ResumeAccepted(Coordinator, id, config)
       /\ Round!Contract!coordinator_resume(Coordinator, id, Round!OnChainOf(tally), config)
  /\ Goto(r, "resumed")
  /\ UNCHANGED <<workerVars, boardVars, startVars, saleVars, takers, disturbed, crashes>>

\* Taken or refused, or not known: a call that timed out is looked into, which
\* changes what is logged and nothing else.
localCoordinatorResume(r) ==
  LET id == run[r].id
      config == run[r].config IN
  /\ At(r, "resuming")
  /\ Call(Round!Contract!ResumeAccepted(Coordinator, id, config),
          Round!Contract!coordinator_resume(Coordinator, id,
            Round!OnChainOf(run[r].tally), config))
  /\ Goto(r, "resumed")
  /\ UNCHANGED <<workerVars, boardVars, startVars, saleVars, takers, disturbed, crashes>>

\* Settled on chain or not, the run has completed.
Complete(r) ==
  /\ At(r, "resumed")
  /\ Return(r, run[r].tally)
  /\ UNCHANGED <<contractVars, workerVars, boardVars, startVars,
                 takers, disturbed, crashes>>

Advance(r) ==
  \/ getActiveWorkers(r)
  \/ PublishTask(r)
  \/ \E w \in Worker : ResetStatus(r, w) \/ Dispatch(r, w) \/ MarkUnreachable(r, w)
  \/ localStartCoordination(r)
  \/ DetectProposal(r) \/ DetectTimeout(r)
  \/ TakeSnapshot(r)
  \/ AllDone(r) \/ WaitTimeout(r)
  \/ ReadResults(r)
  \/ localRecordWorkerSubmissions(r)
  \/ aggregateResults(r)
  \/ archiveProposal(r)
  \/ localCoordinatorResume(r)
  \/ Complete(r)

-----------------------------------------------------------------------------
(* The system *)

\* The coordinator's process is restarted: runs, verdicts and connections are gone.
Crash ==
  /\ crashes < MaxCrashes
  /\ crashes' = crashes + 1
  /\ run' = [r \in Run |-> IF Over(r) THEN run[r] ELSE End(r, "lost")]
  /\ verdict' = [r \in Run |-> NoVerdict]
  /\ buyer' = [r \in Run |-> IF buyer[r] = "waiting" THEN "lost" ELSE buyer[r]]
  /\ UNCHANGED <<contractVars, workerVars, boardVars, startVars, takers, disturbed>>

Runtime ==
  /\ Round!Contract!Runtime
  /\ UNCHANGED <<workerVars, boardVars, startVars, saleVars, run,
                 takers, disturbed, crashes>>

\* POST /api/coordinate/poll/vote, for polling workers without a key of the memory:
\* the coordinator stores a vote whenever it comes, and nobody its status.
PollVote(w) ==
  /\ w \in Keyless
  /\ task_definition # NoConfig
  /\ \E v \in Round!Vote : Round!Agent!WriteResult(w, [config |-> task_definition, vote |-> v])
  /\ UNCHANGED <<task_definition, status, slot, isExecuting, restarts>>

WorkerStep(w) ==
  /\ Round!Agent!WorkerStep(w) \/ PollVote(w)
  /\ UNCHANGED <<contractVars, boardVars, startVars, saleVars, run,
                 takers, disturbed, crashes>>

Next ==
  \/ \E r \in Run : \/ Begin(r) \/ Advance(r)
                    \/ StartLands(r) \/ StartLost(r)
                    \/ AwaitExpires(r) \/ PollVerdict(r) \/ GiveUp(r)
  \/ \E w \in Worker : WorkerStep(w)
  \/ Runtime
  \/ Crash

Spec == Init /\ [][Next]_vars

\* Every await of a run returns, by a time-out at the latest, the timer of the
\* window fires and a buyer's poll is answered.  A start call need never land.
Fairness ==
  \A r \in Run : WF_vars(Advance(r)) /\ WF_vars(AwaitExpires(r)) /\ WF_vars(PollVerdict(r))

FairSpec == Spec /\ Fairness

-----------------------------------------------------------------------------
(* Correctness *)

RunPC == { "idle", "discovering", "publishing", "resetting", "dispatching", "detecting",
           "snapshot", "waiting", "reading", "recording", "aggregating", "archiving",
           "resuming", "resumed", "returned", "lost" }

TypeOK ==
  /\ Round!Contract!TypeOK
  /\ Round!Agent!TypeOK
  /\ snapshot \in [ProposalId -> SUBSET Worker]
  /\ \A r \in Run :
       /\ run[r].pc \in RunPC
       /\ run[r].workers \cup run[r].todo \cup run[r].dropped \subseteq Worker
       /\ run[r].before \in 0 .. MaxProposals /\ run[r].id \in 0 .. MaxProposals
       /\ run[r].pc \in {"snapshot", "reading", "recording", "resuming"} => run[r].id # 0
       /\ verdict[r].status \in {"none", "pending", "completed", "failed"}
       /\ buyer[r] \in {"none", "waiting", "polling", "completed", "failed", "lost", "gave up"}
       /\ startTx[r] \in 0 .. Cardinality(Worker)
  /\ {startedBy, takers} \subseteq [ProposalId -> SUBSET Run] /\ disturbed \subseteq Run
  /\ crashes \in 0 .. MaxCrashes

\* "Does not resurrect terminal records": whatever the timers and the buyer do,
\* a verdict once given is never replaced by another; a restart may lose it.
VerdictStands ==
  [][\A r \in Run : verdict[r].status \in {"completed", "failed"}
       => verdict'[r] \in {verdict[r], NoVerdict}]_vars

\* No bought deliberation stays pending for good, whichever way its run ends.
VerdictSettles == \A r \in Run : verdict[r].status = "pending" ~> verdict[r].status # "pending"

\* A run that only waits for the last id on chain to grow takes none but the
\* proposal of its own call, unless another ran beside it or its look-up failed.
OwnProposal ==
  \A r \in Run : (run[r].id # 0 /\ r \notin disturbed) => startedBy[run[r].id] = {r}

\* What a buyer is sold is what the chain says, whenever the chain has settled, and
\* then the archive says it too: with whatever runs beside it, as long as no other
\* run took the same proposal.
VerdictAgreesWithChain ==
  \A r \in Run :
    LET id == verdict[r].nearProposalId IN
    (id # 0 /\ takers[id] = {r} /\ Round!Contract!InState(id, "Finalized")) =>
      /\ proposals[id].finalized_result = Round!OnChainOf(verdict[r].tally)
      /\ archive[id] = verdict[r].tally

\* The chain decides nothing behind everybody's back: a run that took the proposal
\* is not reported as failed, although time-outs, lost answers and runs beside it
\* may fail any of them.
FailedStaysUndecided ==
  \A id \in ProposalId : Round!Contract!InState(id, "Finalized") =>
    \E r \in takers[id] : verdict[r].status # "failed"

\* What a buyer was told, at once or when it polled, is what the store says as long
\* as it has the record: a second answer never differs.
ToldIsRecorded ==
  \A r \in Run : buyer[r] \in {"completed", "failed"} =>
    verdict[r].status \in {buyer[r], "none"}

\* What every step keeps, with runs beside each other, failing views and restarts: also
\* that contract and workers keep what they keep in a round, with workers set idle again
\* and votes stored for them.
LocalInv ==
  /\ TypeOK /\ OwnProposal /\ VerdictAgreesWithChain
  /\ FailedStaysUndecided /\ ToldIsRecorded /\ Round!PartsKeepTheirWord
=============================================================================
