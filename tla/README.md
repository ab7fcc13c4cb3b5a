# A verification of Delibera

Delibera lets a DAO on NEAR hand a proposal to a panel of AI workers. A request
reaches a **coordinator contract** on chain; a **coordinator agent** sees it,
tells the **worker agents** about it through a shared key-value memory (Ensue),
waits for their votes, records on chain who voted (with a hash of each vote),
counts, archives and sends the aggregate on chain, where the promise of the
requester settles. Around this core: deliberations started by hand or paid for, a
registry of agents, a service that provisions them and the pages that sell them,
a voting contract on another chain, the selection of juries, and what a worker
remembers of itself.

This directory holds TLA+ modules translated from that code, TLC instances that
check them, and proofs that TLAPS checks. `PROJECT.json` is the index: for every
definition that stands for code the lines it stands for, for every property a
mutation of the code that breaks it, and the list of hazards.

Contents: [1 inventory](#1-inventory), [2 plan](#2-plan),
[3 modules](#3-modules), [4 runs](#4-runs-what-is-checked),
[5 fairness](#5-fairness), [6 proofs](#6-what-is-proved),
[7 disagreements](#7-where-code-and-documentation-disagree),
[8 not modelled](#8-what-is-not-modelled), [9 how to run](#9-how-to-run).

## 1 Inventory

Paths are relative to `src/`.

### The core

**Coordinator contract** (`coordinator-contract/src/lib.rs`, Rust on NEAR).
State: owner, manifesto, approved code hashes, coordinators, workers, the
counter and map of proposals. Operations: administration by the owner;
`start_coordination` (anyone: creates a *yield*, i.e. a promise that the network
settles when it is resumed or after about 200 blocks);
`record_worker_submissions` and `coordinator_resume` (a coordinator whose code
hash is approved); `clear_proposal`; the private callback
`return_coordination_result`; `force_migrate`.
Hard: the callback is a later receipt than the resume; resume, retry, time-out
and clearing interleave; permissions may be revoked in the middle.
Correct when: a worker is recorded once per proposal; a proposal lives in the
order Created, WorkersCompleted, Finalized (or TimedOut); what the public record
says is what the requester's promise was told; every coordination settles.

**Coordinator agent, production loop** (`coordinator-agent/src/monitor/memory-monitor.ts`,
`contract/delibera-client.ts`). State: none that survives a tick but what it
leaves in Ensue (task definition, status of each worker, a snapshot of who was
asked, archive and index of proposals). `setInterval` starts a *tick* every few
seconds whether or not the earlier ones ended. A tick: poll the contract,
discover the workers, write the task, set every status to pending, snapshot,
wait, read the votes, record them on chain, read everything again and count,
archive, add to the index, resume.
Hard: ticks overlap, also on one proposal; every await separates a read from its
use; calls whose answer is lost; a memory client that swallows its errors; a
restart that forgets every tick.
Correct when: one tick alone records, counts and resumes a proposal; what is
counted is what was recorded; what is archived is what is on chain; every tick ends.
Nothing stops a tick from starting beside another (the timer fires every 5 seconds,
a round takes up to 120), so only what survives that can be promised; section 7 says
what does not.

**Worker agent** (`worker-agent/src/workers/task-handler.ts`, `routes/task.ts`).
State: keys STATUS and RESULT in Ensue, the flag `isExecuting`. Operations:
polling, an HTTP route that executes a task at once, the execution, start-up.
Hard: the flag is read before two awaits and raised after them; the route
ignores it; restart in the middle.
Correct when: who reads *completed* finds a result; the flag never stays up
without an execution; a pending task is picked up.

**Ensue client** (`ensue-client/src/ensue-client.ts`). Keys of an external
service. `updateMemory` and `readMultiple` log an error and return normally, so
a lost write looks like a write and a failed read like absent keys.

### Around the core

| Component | State and operations | Hard, and correct when |
|---|---|---|
| Local coordination (`memory-monitor.ts`, `contract/local-contract.ts`, `contract/resume-handler.ts`) | development mode: workers by HTTP, `near` calls through helper code, id of a new proposal found by polling the counter | two coordinations at once take one id; a time-out read as success; a failed record only logged. Correct when what is reported completed is on chain |
| Coordinator HTTP routes (`routes/coordinate.ts`) | `/trigger`, `/poll/vote`, `/reset`; the workers of the registry with verdicts of five minutes on whether they answer; registration; names | start rounds and write keys with nothing excluding them; probes under way when a worker changes. Correct when what is shown of a worker is true soon after the last change, and at once after a registration |
| Shared library (`shared/src/name-resolver.ts`) | names of workers, in Ensue and remembered for the life of a process | a look-up that meets a renaming. Correct when a name given is the name shown |
| Paid deliberation (`x402/`) | one record per paid request, in memory; the run races a timer | late verdict against time-out, update of a settled record, loss at a restart. Correct when a settled record stays and agrees with the run |
| Registry contract (`registry-contract/src/lib.rs`) and the workers' self-registration (`ensureRegistered` in `task-handler.ts`) | maps of coordinators and workers; register, update, deactivate by owner, admin or signed by a controller with a nonce; re-initialization after a deployment | re-registration after deactivation, replay, storage that outlives a re-initialization, a look-up that fails. Correct when a DID stays with its owner, a signature serves once, and who is registered is discovered |
| Factory contract (`factory-contract/src/lib.rs`) | list of deployed coordinators; one batch: create account, deploy, init | partial failure of the batch |
| Voting contract (`contracts/voting/contracts/DeliberaVoting.sol`) | proposals, who voted, encrypted counts; create, vote, finalize, publish | deadline, one vote each, unchecked vote value, publication guarded by non-zero counts |
| Provisioning API (`protocol-api/src/`) | jobs in memory, with private keys; deploy, poll, register on chain | status checked before and changed after awaits; restart |
| Jury selection (`coordinator-agent/src/vrf/`) | pure: seeded shuffle over a random beacon | a jury is a set of distinct candidates of the asked size |
| Archival (`storacha/vault.ts`, `identity.ts`, `ensue-backup.ts`, `filecoin/archiver.ts`) | clients made once and shared as promises; backups after each deliberation that nothing waits for; an archival record in Ensue | calls while the clients are being made, a promise rejected for good, gateways that fail. Correct when a call fails for a cause of its own or a shared one, and a record names its own backup |
| Persistent identity (`worker-agent/src/storacha/profile-client.ts`) | decisions, preferences, notes in cache, Ensue and Storacha | read-modify-write across awaits |
| Ensue MCP server (`ensue-mcp-server/src/`) | bounded map of sessions; register, touch, sweep | capacity checked before an await; sweeping a session in use |
| Frontend: pages that sell agents (`frontend/src/app/buy/`) | a job id in localStorage, a polling timer, signatures | reload in the middle, answers lost or late. Correct when the job shown is the one that would be found again, and the end shows its key |
| Frontend: onboarding of IronClaw agents (`frontend/src/app/onboard/ironclaw/`, `api/onboard/`) | a wizard of eight steps in sessionStorage; wallet, funds, policy and registration at Outlayer | answers that outlive their screen, a signature that is asked again. Correct when steps follow their conditions, the last screens follow an answer of Outlayer, and money is never behind a lost key |
| Frontend: demo of a paid deliberation (`frontend/src/app/x402-demo/page.tsx`, `api/x402-demo/route.ts`) | the phase shown, a stream of events, two lists of times for the limits | cancelling against an answer, timers against an answer, a disconnection noticed late. Correct when a page shows its own last run, in order, and limits hold |
| Frontend: polling (`frontend/src/lib/use-polling.ts`, `lib/api.ts`) | last answer and error of each poll, the selected agent | polls that overlap, another agent selected while one is under way. Correct when what is not said to be offline is recent, and of the selected agent |
| x402 client (`x402-client/client.ts`) | pays, is answered or polls | gives up before the verdict. Correct when what it was told is on record |
| Older workers (`worker-agent-1/src/nova/`, copied in `-2` and `-3`) | documents in a group at Nova, listed by position; a registry of file names to positions, uploaded after each | calls that overlap, a start or failure between document and registry, a group that is shared. Correct when a name leads to its document and no edit is lost |
| AI voting, payments webhook, scripts | external calls, types and key names, views | see [8](#8-what-is-not-modelled) |

### How the parts interact

```
requester --start_coordination--> contract --yield--> network (time-out)
                                   ^   ^                  |
     view, record, resume (RPC)    |   +---- callback ----+
coordinator agent -----------------+
     |  task_definition, STATUS := pending, snapshot, archive, index
     v
   Ensue  <--- STATUS, RESULT --- worker agents --- AI model
     ^
     +--- views, /poll/vote, /reset, paid requests
```

Nothing in this picture holds a lock: exclusion comes only from the guards of
the contract. That is why the contract was modelled first and why the most
important property of the loop (`OneRecorder`) is about how those guards protect
ticks that know nothing of each other. `PROJECT.json` lists the hazards at the
lines where they bite, with the properties that would catch them.

## 2 Plan

In the order of how much depends on each part. *Done* means that the module,
its runs and the proofs named here are in this directory.

| # | Module | Composes | Abstract specification | Theorems | |
|---|---|---|---|---|---|
| 1 | `CoordinatorContract` | the network's yields | `Settlement` | inductive invariant, life-cycle, implementation | done |
| 2 | `WorkerAgent` | Ensue keys | | types, flag, result before completed | done |
| 3 | `DeliberationRound` | 1 and 2 | `Deliberation`, and those of 1 | one recorder, types, history agrees with the chain; the parts keep their word inside it; implementation, with exact counts where ticks do not overlap | done |
| 4 | `Registry`, `WorkerRegistration` | the second joins starting workers and coordinators to the first | the starts are calls like others | types, signatures once, discovery, ownership, the same with starts | done |
| 5 | `LocalCoordination` (with the verdict store) | 1, 2 and the tally of 3 | | verdicts stand, what is told is recorded, own proposals, types, verdict and failure agree with the chain, all with overlapping runs | done |
| 6 | `Provisioning` (server, buying pages, factory) | | | own contracts, machines behind registrations, no droplet left | done |
| 7 | `DeliberaVoting` | | | ballots balance, results stand, closed votes stay | done |
| 8 | `SessionStore` | | | ceiling, no leak, bounded idleness, active sessions kept | done |
| 9 | `Jury` | | | a jury is of the pool, nobody twice; fair for one is fair for all | done |
| 10 | `ProfileClient` | | | edits are found again, the cache only grows | done |
| 11 | `Onboarding` (wizard and Outlayer) | | | money in hand, the end follows an answer, policy first, one signature, forward only | done |
| 12 | `NovaIdentity` | | | files are named; with turns: registry is last, edits are kept, decisions are known | done |
| 13 | `DemoBuyer` (page and route) | | | one reader, phases in order, verdicts are bought, limits hold | done |
| 14 | `WorkersView`, `DisplayNames`, `StatusBoard` | | | what answers is shown, under its name; what is shown is recent | done |
| 15 | `Vault` | | | throws for cause, gateways are tried, the archive names the backup | done |
| 16 | `CoordinatorMigration` | storage of 1 | | | not done, see [8](#8-what-is-not-modelled) |

The modules are written to be proved about: parameters are CONSTANTS with named
assumptions, one action per handler or stretch between awaits, no RECURSIVE
operator, invariants as conjunctions of named parts.

## 3 Modules

### Conventions

- An action is an operation of the code, named after it; where an `async`
  function is cut at its awaits, each stretch is an action.
- A call on the contract is atomic; a `require!` that fails changes nothing, so
  it is a guard.
- A definition with a suffix (`RecordAccepted_AnyState`, `Finish_Failing`, ...),
  marked *Mutant*, is a plausible bug in the definition below it. No
  specification uses it: substituted for the original it must break the property
  `PROJECT.json` names beside it.
- Variables commented *ghost* exist for bounds and for properties; no action of
  the code looks at them.

### `CoordinatorContract`

One variable per field of the contract (`owner`, `approved_codehashes`,
`coordinator_by_account_id`, `registered_workers`, `manifesto`,
`current_proposal_id`, `proposals`) and two for the network: `yields`, the
promise behind each proposal, and `resumes`, results and time-outs on their way
to the callback. One action per public method; `return_coordination_result` runs
inside `DeliverResume`, the receipt in which the network consumes a yield.
Three facts of the code decide the model: the callback overwrites the state
without looking at it; `promise_yield_resume`'s answer is ignored, so a
coordinator may resume twice; `submissions.len() as u8` compares modulo 256.

The nullifier loop of `record_worker_submissions` becomes the set of positions
whose worker an earlier position names; a lemma proves that this set is empty
exactly when the list has no repetition. A configuration and a result stand for
their hashes (the hash is taken to be injective). Timestamps, requester,
checksum, quorum and text limits decide nothing on chain and are left out.

### `Settlement`

What the contract promises a requester, without coordinators, workers, yields or
receipts: a request is answered once, with a result or a failure; the public
record closes in the same step and shows that answer; a record may be withdrawn,
an answer not. `CoordinatorContract!Abstract` maps `reply` to `yields` and the
record to what the proposal shows.

### `WorkerAgent`

The Ensue keys `task_definition`, `status`, `result`; for each worker the flag
`isExecuting` and its `slot`s, the handlers in flight. A handler of the timer
goes `PollStatus`, `ReadTask` (raises the flag), `StartProcessing`, `WriteVote`,
then `Complete` or, from working, `Fail`; a handler of the route enters at
`StartProcessing`. The flag is looked at before the read of the status is awaited:
where another handler is about to raise it, the look and the read are two steps
(`LookAtFlag`, `ReadStatus`), else nothing can come between and they are one. `Stored(old, new)` is a write through a client that hides
failures: the key has the new value or, with `EnsueMayFail`, the old one.
`initializeWorker` is a restart: handlers and flag gone, status *idle*. `Publish`
and `Assign` stand for any coordinator, and are replaced by the real one in
`DeliberationRound`.

### `DeliberationRound`

Joins the loop to instances of both: `Contract` (one account, the coordinator;
results are on-chain tallies) and `Agent`. `tick[t]` is a tick in flight, its
place and the local variables of its handlers; the rest are the keys the loop
keeps (`snapshot`, `archive`, `index`).

| Place | Action | Code (`memory-monitor.ts`, handler) |
|---|---|---|
| idle | `checkAndCoordinate` | poll the contract, take the first pending proposal |
| discovering | `getActiveWorkers` | whoever the registry lists at this moment |
| publishing, resetting | `PublishTask`, `ResetStatus`, `TakeSnapshot` | `triggerWorkers`, then the snapshot |
| waiting | `AllDone`, `WaitTimeout` | `waitForWorkers` |
| reading | `readResultsWithRetry` | results for the hashes |
| recording | `RecordSubmissions` | `record_worker_submissions` on chain |
| aggregating | `aggregateResults` | snapshot, task and results read again; the tally |
| archiving | `archiveProposal` | the proposal's own keys |
| indexing, listing | `ReadIndex`, `WriteIndex` | read-modify-write of the list |
| resuming | `resumeContractWithTally` | `coordinator_resume` on chain |

`Answered` is a call on the contract over RPC: taken and answered, refused, or
(`CallsMayFail`) unanswered, whether it was taken or not; in the last two cases
the tick ends. `Reading` is a read that may fail and then shows nothing.
`Crash` forgets every tick.

`PartsKeepTheirWord` are the invariants of the two instances, asked of them while the
loop drives them.

Left out here: coordinator status and other keys of the dashboard, the IronClaw
webhook, backups, legacy numeric tasks. Nobody administers the contract during a
round (`CoordinatorContract` on its own checks administration).

### `Deliberation`

What the production system promises to somebody who sees the chain and the history of
proposals and nothing of ticks, workers, memory and restarts. A proposal goes through
`Open`, `Commit` (the ballots, at most one of each voter), `Archive` (the one entry of
the history, which counts its own votes right) and `Decide` (the decision is what the
entry shows), or expires on the way. With `Exact` the votes in the entry are the
ballots. There is no action that takes any of it back. Proposals are independent, so a
step of the whole is a step or a stutter of each of them: a restart that ends several
ticks, or one call that does several things to one proposal, has to be explained proposal
by proposal. `DeliberationRound!Abstract` reads phase, ballots and decision off the
contract's record, the history off the archive, and claims exactness of `Sequential`
rounds only.

### `Registry`

An `IterableMap` of near_sdk is entries in storage and a vector of their keys;
the length of the vector lies in the contract's state. `workers_by_did` and
`workerKeys` are the two (and so for coordinators). Entries are found by DID
whether or not their key is listed; `list_active_workers` (`Listed`) goes through
the keys; `insert` (`KeysWith`) lists a key only where it finds no entry.
`force_reinitialize` makes maps and nonce set anew under the same prefixes: keys
are forgotten, entries and spent nonces are not. That is the code as it stands;
a developer who changes the record's layout also moves to fresh prefixes (the
comments on `StorageKey` in `lib.rs`), and then starts from nothing. One action
per method: `register_worker` and `register_worker_with_controller` are
`register_worker_inner` with and without a key. A signature of a controller is a
record of what was signed and with which key, so verification is a comparison;
replay is the same value again. `taken` is a ghost that counts acceptances.

### `WorkerRegistration`

`ensureRegistered`, cut at its awaits: `LookUp` (the view), then `Register` or
`UpdateEndpoint` a transaction later, or nothing; a refused call is only logged.
Between the two anybody may call the registry. With `ViewsMayFail` a look-up may
fail, which `nearViewCall` reports as null, the same as no record. A coordinator
that starts looks its DID up as well (`LookUpCoordinator`) and registers or does
nothing (`localRegisterCoordinator`).

### `LocalCoordination`

`triggerLocalCoordination` and its two routes. `run[r]` is a request: its place
and its local variables. Runs overlap as they may: nothing in the code keeps them
apart. Contract, workers, readings and tally are those of
`DeliberationRound`, used through the instance `Round`.

| Place | Action | Code |
|---|---|---|
| idle | `Begin` | `/trigger` or `/x402/deliberate`; a paid run gets a *pending* record and a waiting buyer |
| discovering | `getActiveWorkers` | fewer than `MIN_WORKERS`: null |
| publishing, resetting, dispatching | `PublishTask`, `ResetStatus`, `Dispatch`, `MarkUnreachable` | `triggerWorkers`; a worker not reached is set idle, even if it took the task |
| detecting | `DetectProposal`, `DetectTimeout` | the start call is not awaited (`startTx`, `StartLands`, `StartLost`); its id is the counter once it has grown |
| snapshot, waiting, reading, recording | `TakeSnapshot` ... `localRecordWorkerSubmissions` | a refused recording is logged |
| aggregating, archiving, resuming, resumed | `aggregateResults` ... `Complete` | a refused resume is logged and the run completes |

`Call` is a signed call whose answer decides nothing; `View` a view that with
`ViewsMayFail` reads as null. `Return` is the end of a run together with what
`runDeliberation` does at once with it: the record gets its outcome and a buyer
who still waits is answered. `AwaitExpires`, `PollVerdict` and `GiveUp` are the
window, the verdict route and the buyer (`x402-client/client.ts`). `Crash` loses
runs, records and connections. Workers in `Keyless` have no server to dispatch
to: they poll, and with `PollVote` vote through the coordinator, which stores the
vote and no status. Three ghosts say of which runs and proposals a property speaks:
`startedBy` (whose call made a proposal), `takers` (who took it for its own, by
`DetectProposal`) and `disturbed` (runs that another ran beside, or that saw an older
counter than there was).

### `Provisioning`

The server's `job`s walk through `Flow`, one status for each await (`Step`,
`Break`; the list differs for worker, coordinator and IronClaw droplet);
`machine` is what runs in the cloud. A purchase begins in three steps, with an await
between: `startProvision` sends the POST (`requests`), `CreateJob` is the route that
takes it and starts the job, `StartAnswered` the answer, with which the page stores the
id and begins to poll, or `StartFails`. A reload in between forgets the await and not
the POST: the job is then begun and nobody has its id, and so it is when the answer is
lost. The page (`ui`, `stored` in localStorage,
`interval`, `answers` under way, `posting`, `starting`) polls, is reloaded, resumes, signs or
skips, and closes; a coordinator's contract comes from the factory first
(`Configure`, `SignFactory`). One `Fault` may hit any call: a cloud call whose
answer is lost, a start, a registration, the first request after a reload, the
destruction of a droplet; or the server restarts. The five hooks are copies of
one; where they differ the map names the one translated.

### `DeliberaVoting`

One variable for each mapping of the contract; a ciphertext is the number it
carries, `Add` and `Sub` wrap at `Word`. `published` is a ghost: every result
ever published.

### `SessionStore`

The store and the handler around it: `Initialize` looks at the capacity,
`register` looks again once the connection is there. `sweep` runs when the timer
is due and takes the idle ones, `CloseSwept` is the close that follows.

### `Jury`

The generator's signed words, the loop of the shuffle as a recursive function (`Turn`
is its body), and the two routes, which treat a missing size as 3.

### `ProfileClient`

One document out of the four (they are handled alike; `blankCached` is their one
difference), as the sequence of edits in it. A call is cut at its awaits:
cache, Ensue, vault, then writing back. `sequential` says whether callers wait
for each other. `Rekey` starts the worker with another agent key. From that key come the
key of the encryption and the DID under which everything in Ensue is named, the CIDs that
lead to the vault included; so the worker finds nothing of what it had, in Ensue or in
the vault, and begins anew (`ensue` and `vault` are what it can reach).

### `Onboarding`

The wizard (`step`, `path`, `wallet`, kept in sessionStorage), the screen shown
(`mount`, `effectRun`, `advanced`), the requests under way and Outlayer's side of
them. A screen is unmounted when the step changes, when the NEAR wallet is
disconnected and when the page is loaded again; its requests may outlive it, and
what they asked for may still be done when nobody hears of it (`Lasting`). One
action for each thing a user does, each thing Outlayer does and each answer. The
screens use `advancedRef` so that late answers of one screen advance the wizard
once; `Screens` numbers the screens that still have requests under way.
`patient` says whether the user disconnects only when nothing is under way. Outlayer
may answer a registration with another status than success (`NotRegistered`); the
screen looks at the HTTP status only and goes on (`WorkerAnswered`). `answered` is a
ghost: the wallets whose registration was answered, whatever the answer said, and
`registered` those that are in the registry.

### `NovaIdentity`

Nova lists the uploads of a group by position, so `uploads` is a sequence and a
CID is a place in it. `cidRegistry` maps file names to places; it is uploaded
after each document, and a start takes the last upload of the group for it. A call
is cut at its awaits (`nova[a][s]`): read, upload, pause, upload of the registry.
`withRetry` is an upload that was recorded and sent again. `inTurn` says whether
the calls of an agent wait for each other, `members` which agents share the group.

### `DemoBuyer`

`page[v]` is what a visitor sees, `runs[r]` one run of the page together with the
run of the route that serves it: where the page is with it (`reader`), where the
route is (`pc`), and the events sent and not yet read (`stream`). `checkRateLimit`
is the synchronous check over the two lists of times, of which only the runs counted
then are kept, each with its time (`hit`); `Abort` is the moment the route notices
that its page is gone.

### `WorkersView`

`listed` is the registry, `answers` who is found at each endpoint. A request for the
workers (`view[v]`) is cut at its awaits: the registry's answer, the verdicts that
are recent enough, a probe of each other worker, its answer kept in
`validationCache`. `registration[r]` is `/workers/register`. Others move workers and
hosts at will (`Relisted`, `Rehosted`). Verdicts, requests and changes have ages, and
`Elapse` lets all of them grow; a probe and a view call take no longer than
`ProbeTime` and `ListTime`. `steady` and `fresh` say of which workers a view must
be right.

### `DisplayNames`

One worker's name: in Ensue (`displayName`) and remembered by the coordinator
(`cachedName`). `resolveName`, `NameRead` or `NameReadFails`, `Resolved` are a look-up;
`setName`, `NameStored` or `NameLost`, `NameSet` a renaming; `NameWritten` is a worker
or the provisioning API, which write past the coordinator.

### `StatusBoard`

`usePolling` on a page that shows an agent, with the five seconds of `safeFetch`.
`asked` holds the requests under way, `shown` the agent and the age of what is shown.
`follows` tells the two ways in which pages change the agent: the coordinator's URL is
read at each request, the worker is a parameter of the fetcher, which starts polling
anew.

### `Vault`

The vault of one agent, worker or coordinator (`ofWorker`). `identityModules` and
`storachaClient` are the module variables of `identity.ts`; the three promises those
of `vault.ts`, each *none*, *pending*, *ready* or *rejected*. A `task` is a call or
the making of the shared client, cut at its awaits; `Failed` is the loop over
gateways and attempts, `half` marks a call that found the modules half loaded. A
backup goes on to `archiveCID` and `logArchivalToNear`. `Reboot` ends the process.

### `MCParts`

The purchase (`Provisioning`), the registry with starting agents
(`WorkerRegistration`) and a worker with its handlers (`WorkerAgent`) share no state;
one run checks them, one at a time (`part`).

### `MCServices`

The eleven modules `DeliberaVoting`, `SessionStore`, `ProfileClient`, `Jury`,
`Onboarding`, `NovaIdentity`, `DemoBuyer`, `WorkersView`, `DisplayNames`,
`StatusBoard` and `Vault` share nothing in this run, with each other or with the core. One run
checks them, one at a time (`service`). `SmallEnough` and `FewRuns` say which of the
interesting circumstances of two of them come together: two agents in a group, or
calls that overlap, or requests that go wrong; two runs of the demo at once, or one
after the other while time passes. `ProfileInv` and `OnboardingInv` are checked by
themselves; `IdentityInv` is `NovaInv` and `VaultInv`, `PagesInv` is `DemoInv` and
`BoardInv`, `WorkersShown` is `ViewsInv` and `NamesInv`. `PROJECT.json` names one mutant
for each of these.

## 4 Runs: what is checked

A run that passes is finite and exhausted. Deadlock is checked in the run `contract`,
where something is always possible. The others say
`CHECK_DEADLOCK FALSE`: once ticks, runs, jobs, time or edits are used up and all
calls are answered, the bounded system rightly stops.

### Runs that pass

| Run | Distinct states | Bounds | Shows |
|---|---|---|---|
| `contract` | 114 588 | one account, one code hash, two proposals, two results, two configurations, lists of up to 2 submissions by 2 workers (one of them registered), counts 0, 1 and 2 | `TypeOK`, `NullifierOnce`, `RecordAgreesWithPromise`, `ResultsFollowSubmissions`, `LifecycleOrder`, `EveryCoordinationSettles`, `ImplementsSettlement` |
| `parts` | 173 523 | purchase: each kind of agent, two jobs, two prefixes, one reload, one fault. Registry: one worker and one coordinator DID, two accounts, two controller keys, one nonce, two deposits, one re-initialization, two starts of worker or coordinator with failing look-ups. Worker: one worker, two handlers, two tasks, one restart | `ProvisioningInv` (`TypeOK`, `RegisteredHasMachine`, `OwnContract`), `CompleteHasKey`, `ShownIsRemembered`, `FailedJobLeavesNoDroplet`, `UiSettles`; `RegistryInv` (`TypeOK`, `SignatureTakenOnce`), `DiscoveryFits`, `OwnershipKept`; `FlagInv` (`TypeOK`, `FlagHasExecution`), `ResultBeforeCompleted`, `PendingIsPickedUp` |
| `round_overlap` | 1 170 000 | two workers discovered in any subset, two overlapping ticks, one proposal, counts 1 and 2, lost answers, one crash | `RoundInv` (`TypeOK`, `ArchiveAgreesWithChain`, `PartsKeepTheirWord`), `OneRecorder`, `RoundDeliberates` |
| `round_sequential` | 1 520 000 | two workers, two proposals with different quorums, ticks one after another | `TallyMatchesCommitments` |
| `round_ends` | 192 000 | two ticks, one worker, one crash, writes, reads and answers lost | `TicksEnd` |
| `local` | 1 600 000 | one worker or none found, a paid and an unpaid run, overlapping or not, one proposal; views fail, calls refused or lost | `LocalInv` (`TypeOK`, `OwnProposal`, `FailedStaysUndecided`, `ToldIsRecorded`, `VerdictAgreesWithChain`, `PartsKeepTheirWord` of the round) |
| `local_ends` | 519 000 | two workers, one without a server of its own, one paid run, calls and views fail, one restart | `VerdictAgreesWithChain`, `VerdictStands`, `VerdictSettles` |
| `services` | 1 326 036 | three voters, words of 4, votes 0, 1, 3; four connections for two places; five ticks of the session store; two calls, three edits, one restart, one fault, one new key; five candidates, every seed of 8 bits; two wallets, two balance requests of a screen, one trouble; one or two agents of a group, two edits, one start again, one mishap (two calls together: one of the two), two calls together; two visitors, two runs, three ticks, limits 1 and 2; one worker, three endpoints, two views, one registration, two changes; two names, two look-ups, two renamings, three names given; two agents, an interval of 2 and a time-out of 3, two clicks; three calls of a vault, two at a time, two gateways, two failures, one restart | `VotingInv`, `ResultStands`, `SessionInv`, `ActiveIsKept`, `ProfileInv` (`SavedSurvives`), `IdentityInv` (`NovaInv`: `FilesAreNamed`, `RegistryIsLast`, `EditsAreKept`, `DecisionsAreKnown`; `VaultInv`: `ThrowsForCause`, `GatewaysAreTried`, `ArchivalNamesBackup`), `CacheGrows`, `FairJury`, `GoesForward`, `OnboardingInv` (`MoneyIsInHand`, `ShownWasAnswered`, `PolicyComesFirst`, `OneSignature`), `PagesInv` (`DemoInv`: `OneReader`, `RunningIsRead`, `StreamInOrder`, `VerdictIsBought`, `NotPaidForTheGone`, `LimitsHold`; `BoardInv`: `ShownIsRecent`), `WorkersShown` (`ViewsInv`: `TruthIsShown`; `NamesInv`: `GivenNameIsShown`) |

`contract`. Two proposals, because resumes of different proposals are in flight
together and `DeliverResume` drops only those of its own; two results, because a
resume may be repeated with another result; count 0, because a coordination
without workers settles too; lists of two over two workers, because one repeats
a worker and one does not, and two calls on one proposal could repeat one as
well. One account plays all roles: its code hash is approved and revoked while
its coordinations are open, which is what the guards are about, while who calls
matters to no property here; the proofs hold for any number of accounts. No
symmetry: liveness is checked.

`parts`, the worker. One worker: workers share nothing but the task definition,
which the environment changes at will. Two handlers are enough to overlap the
timer with the route and with itself; with two the flag can be cleared under
another execution. Writes are not lost here: with lost writes
`ResultBeforeCompleted` fails, since `task-handler.ts:213` writes *completed*
although the write of the result before it was lost (see section 7).

`round_overlap`. One proposal: ticks interfere by sharing one. Two ticks and one
crash give a tick overtaken by another, a tick killed between recording and
resuming, a call taken whose answer is lost, followed by another tick.
`ArchiveAgreesWithChain` does not survive lost writes, so Ensue is reliable here.
`RoundDeliberates` is the part of `Deliberation` that overlapping ticks keep; that ticks
one after another count exactly the ballots (`Exact`) is proved, and shows in
`round_sequential` as `TallyMatchesCommitments`.

`round_sequential`. One tick at a time is what a deployment has whose
`POLL_INTERVAL` exceeds the duration of a round; the default does not. So this run is
there for one question only, which overlap would drown: whether hashes and tally, read
apart with a call between them (`memory-monitor.ts:610`), are of the same results while
workers of a round that timed out are still at work. Ticks that time
out leave their workers running into the next tick, discovery differs from
tick to tick, and a proposal with quorum 1 and one with quorum 2 follow each
other, so that stale snapshots, votes and task definitions would show. When ticks
overlap `TallyMatchesCommitments` fails (section 7), and so do a snapshot that stays
(`round_snapshot`), a quorum of one's own and an index that is complete; the last two no
document claims, and no property states them.

`round_ends`. Everything that can go wrong at once, for one worker; a worker may
never answer, since only ticks are fair.

`parts`, the registry. DIDs share nothing but the lists of keys, and `DiscoveryFits` on one
list needs one DID to be listed twice or lost; a worker and a coordinator DID
exercise both lists. Two accounts give owner, admin and stranger in turn, since
the admin changes with a re-initialization; two keys let a key be
replaced and put back. One nonce: nonces do not interact, each is spent by itself, and
`SignatureTakenOnce` is proved for any number of them.

`local`. Two runs, beside each other or one after the other, so that the second meets
what the first does or left behind: its snapshot, statuses and votes, a start call that
landed late, a proposal that it takes for its own. Views fail: a first look at the counter
that reads as 0 makes any proposal look new. One proposal, the one both may take; that two
proposals may be crossed (each run taking the other's) needs more states than a run
has time for and is covered by the proofs, which hold for any number of both. What the
properties ask is what is left when nothing keeps runs apart: of a run that another ran
beside, that what is sold of a proposal that nobody else took is what the chain settled,
and that not everybody who took a decided proposal reports a failure.

`local_ends`. Liveness, so one run; all failures together, and the worker that
only polls, because it is the one nobody sets *completed*.

`parts`, the purchase. Two jobs, because a second job follows a failed, finished or
forgotten first one over the same page, server and factory; one fault, because a fault
and what the page then does is what the promises are about; one reload, which may fall
into the await of a POST. Two jobs exhaust the interference there is: page, server and
factory know of one job at a time, but for the POST of a page that was left.
`LatePolls = FALSE`: a status request is answered before anything else happens on the
page. With late answers `CompleteHasKey` fails, which `provisioning_late` shows, and so
do `UiSettles` (an answer may stop a timer that was started for another job) and
`ShownIsRemembered`; they are about a page that sends one request at a time. That the
page knows every job the server works on is not so and not claimed (section 7).

`services`. Words of 4 with three voters let counts wrap; a vote of 3 takes a
rejection away. Four connections for two places give two that race for the last
place. For the profile two calls overlap in every way there is, and a restart, a
fault and a new key, under which nothing is found, meet in one behaviour. For the jury the low bits of the
generator at 8 bits are those at 32, and every seed is tried. For the wizard one
trouble (a disconnection, a reload, a request that fails) falls between any two
steps; all of its properties also hold with two, an instance of 6 792 749 states
left out of the run for its time. Two wallets, because a wizard that starts over
asks for a second one. Two agents in a group load each other's registry; the other
circumstances of `NovaIdentity` (overlap, mishaps, a start again) concern one agent.
A limit of the demo is exceeded by a second run within the hour or the day, so two
runs are enough when each limit is 1 in turn; the order of phases is disturbed by
two runs at once, where no limit is in reach.
Workers are shown independently of each other, so there is one; two views, because one
keeps a verdict the other then uses, and two changes, because the second makes the
verdict on the first wrong. `SettleTime`, after which the view must be right, is tight:
with one unit less `TruthIsShown` fails. So is `Outdated`: with an interval of 2 and a
time-out of 3 requests overlap, an older one is answered after a younger one failed, and
a page may show what is two time-outs and an interval old.
Of the vault three calls are enough: two that wait for the shared client and fail with
it or not, after one that loads what both need; with four calls (350 633 states) the
same holds. Two gateways and one attempt at each, since the loop treats all fallbacks
alike, and two failures, so that a retrieval may fail at each.

### Runs that find a disagreement

`round_stale_vote`, `round_snapshot`, `registry_orphans` and `provisioning_late`: one
property each, stating what a comment or document of the repository says, violated by
what the code does. Section 7 tells what each shows.

### Bounds

`MaxProposals`, `MaxTicks`, `MaxCrashes`, `MaxRestarts`, `MaxReinits`, `MaxStarts`,
`MaxJobs`, `MaxReloads`, `MaxFaults`, `MaxBlock`, `MaxTime`, `MaxEdits`,
`MaxRekeys`, `MaxTroubles`, `MaxCalls`, `MaxWrites`, `MaxMishaps`, `MaxRuns`,
`MaxShifts`, `MaxNames`, `MaxClicks`, `MaxTasks`, `MaxFailures`, `MaxReboots`, `Slots` and the sets `View`, `Registration`,
`LookUp`, `Renaming`, `VaultCall`, `Tick`, `Slot`, `Run`, `Call`, `Connection`, `BalanceCheck`
and `Visitor` bound counters and concurrency; `MaxBatch` the length of submission
lists; `ActiveSets`, `Found`, `Batches`, `ExpectedCounts`, `Config`, `Quorum` are
the inputs, `Limit`, `HourTicks` and `DayTicks` the limits of the demo and what they
are measured in; `ValidationTTL`, `ProbeTime`, `ListTime`, `Interval` and `Timeout`
are times of the code, in the smallest numbers that keep their order. `Word` and
`LcgWord` are widths the code fixes at 2^32. Every bound is a CONSTANT the proofs
keep symbolic, so for the proved properties the bounds of the runs do not matter.

## 5 Fairness

- **Contract.** `WF(YieldTimeout(id))` and weak fairness of the delivery of some
  resume of each yield: NEAR itself resumes a yield with a failure after a fixed
  number of blocks and executes every receipt. No caller is fair: coordinators
  may never come back.
- **Worker.** Weak fairness of polling (`setInterval` keeps firing while the
  process lives) and of each step of a handler: the memory client gives up after
  15 seconds (`ensue-client.ts:5`), the OpenAI client after its default
  time-out and two retries, so every await returns. The coordinator is not fair,
  and `initializeWorker` is never obliged to happen.
- **Round.** Weak fairness of `Advance(t)`: `waitForWorkers` has a time-out of its
  own, the memory client 15 seconds, and `fetch`, under every RPC and contract call,
  Node's default limits on headers and body. Neither the timer that starts ticks,
  nor the workers, nor the network, nor the requester is fair, and `TicksEnd` needs
  none.
- **Local and paid.** Weak fairness of a run's steps, for the same reasons; of
  `AwaitExpires`, a timer that is cleared only when the run is over; and of
  `PollVerdict`, an answer to a poll. Neither the landing of a start call nor any
  worker is fair; a buyer may give up.
- **Provisioning.** Weak fairness of the server's steps (its waits have limits of
  their own), of the page's timer and of the answers to it. Users are not fair:
  nobody is obliged to sign, skip or reset. Nor is a POST fair: it may stay on its way.

The services are checked for safety only.

## 6 What is proved

TLAPS proves the following for every value of the constants, under the assumptions
named in the modules (`ContractAssumption`, `WorkerAssumption`,
`RegistryAssumption`, `RegistrationAssumption`, `VotingAssumption`,
`SessionAssumption`, `ProvisioningAssumption`, `RoundAssumption`,
`LocalAssumption`, `ProfileAssumption`, `OnboardingAssumption`, `NovaAssumption`,
`ViewsAssumption`, `NamesAssumption`, `BoardAssumption`, `VaultAssumption`,
`DemoAssumption`, `JuryAssumption`): absent
values are no values of the sets they complete (a missing document is no list of
edits, a profile's file name no number of a write, the shared client no call), bounds
are naturals, submission lists are lists, counts fit a u8, an hour is no longer than a day.

Where an argument is an induction over numbers - the first free number, the last edit,
the oldest request - the proofs take the least member of a set of naturals (`Least`,
from the library's theorem that the naturals are well-founded). The library's induction
rules take an operator as a parameter, which these provers cannot instantiate; where a
recursive function must be followed to its end (the shuffle) the proofs make the
induction themselves, with the set of the numbers for which the claim fails.

### `CoordinatorContractProofs`

`ContractInv` is inductive; `TypeCorrect`, `Nullifier`, `Agreement`,
`ResultsLate` and `Lifecycle` follow. Why the strengthening is needed: the
callback writes *Finalized* or *TimedOut* without looking at the state, so the
record stays right only because no resume is around once a promise is settled
(last conjunct), because a result in flight belongs to recorded submissions
(`ResultsFollowSubmissions`), and because a new id has neither promise nor entry
(ids are given out in order). One lemma per action (`StartInv`, `RecordInv`,
`ResumeSent`, `ClearInv`, `DeliverInv`), and `FrameInv` for the calls that leave
coordinations alone.

`Implementation`: every behaviour of the contract is one of `Settlement` without
its fairness. A start is `Ask`, a delivered resume `Succeed` or `Fail`, clearing
`Withdraw`, everything else a stutter. That the fairness of the network gives
that of `Settlement` is checked by the run `contract` only.

### `WorkerAgentProofs`

`WorkerInv` is inductive: types, `HandlerInv`, `FlagHasExecution` and `VotedInv`.
`HandlerInv` says that only the timer's handlers look at the status, so that the
handler that raises the flag is one that will clear it; without it a handler of
the route could raise a flag nobody takes down. Overlapping executions of the
timer do clear each other's flag, which leaves an execution without flag, never
a flag without execution. `VotedInv` says that an
execution past its vote has left a result; it needs that no write is lost, so
`ResultCorrect` is stated under `~EnsueMayFail`, and the other theorems are not.

### `DeliberationRoundProofs`

`OneRecorderHolds`: for any number of ticks, workers and proposals, with lost
answers, lost writes and restarts, one tick alone gets past the recording of a
proposal, and until it has answered no result of the proposal exists. The guards
that give it are the contract's: recording demands *Created* and leaves it for
good. `RecorderInv` adds what makes this inductive: a tick works on an id that
was given out (else a new proposal could be *Created* under a tick past its
recording), a proposal exists only under such an id, and a result travels only
after recording (else the callback could finalize the proposal under the tick).
`Shapes` is just enough typing for the updates of ticks. The steps of a tick that
call nothing are treated at once (`QuietStep`); the calls (`RecordingTaken`,
`ResumingTaken`), the start of a tick, the requester, the network and the crash
have a lemma each.

`TypeCorrect` is all of `TypeOK`, by `TypeInv` on the ground of `RecorderInv`. The
contract and the workers are instances, whose types are proved again for the
constants the round gives them (`ContractTypesNext`, one case for each action of a
worker). What a tick submits is the listing of a finite set (`Listed`), and a count of
votes is one of a subset of the workers (`TallyTyped`). `Started` and
`HandlersHaveTask` are what the types of the parts need from each other.

`RoundCorrect` is `RoundInv` under `~EnsueMayFail`: `ArchiveAgreesWithChain` follows
from `ArchiveInv`, which says where the equality comes from: a tick past the
archiving has in the archive what it will send, and a result on its way is in the
archive. Nobody else writes the archive of that proposal, because nobody else is past
the recording. A write that is lost leaves the archive empty, which the code cannot see.

Whether the votes counted are the ballots recorded depends on overlap, and only one
theorem speaks of it: `RoundImplements`, and only in the clause of `Deliberation` that
makes the count exact. Under `Sequential` (one tick, one handler for each worker, no lost
writes), `SequentialInv`
says of the one tick what it relies on from place to place. `Asked`: the workers it waits
for are the workers asked, and the task definition is its own. `Stands`: from the
reading on, none of the workers it read moves any more (`Silent`), because a
worker that still works says so in its status (`BusyIsShown`) and a worker whose status
is final has nothing left to do. `CountedRight`: hence the tally counts what was committed.
What such a deployment could rely on beside that (snapshot, quorum, index) is not stated
as a theorem: the code's own timer overlaps ticks, and then none of it is so.

**The parts inside the whole.** The round instantiates contract and workers and drives
them by actions of its own. `WorkersCompose` and `ContractComposes` say that this makes
nothing new of them: every behaviour of the round is, on their variables, one of
`WorkerAgent` (task and status set from outside are what `Publish` and `Assign` stand
for) and one of `CoordinatorContract`. Hence what is proved of them holds in here:
`RoundLifecycle`, `RoundSettles`, and `PartsKeepTheirWord` in `RoundCorrect`. The lemmas
of the parts are cited, not proved again: the modules of their proofs are instantiated
with the constants of the round (`Chain`, `Voters`), whose values satisfy the assumptions
of the parts (`PartsAssumptions`). What has to be proved is that a step of the round is one
of the part or leaves it alone (`NextIsCall`, `NextIsWork`). The contract of a
round is set up already, so that it starts in a state of `ContractInv`, not in `Init`.

**The round implements `Deliberation`.** `RoundImplements`, under `~EnsueMayFail`:
initial states map to initial states (`InitDeliberates`), and of each proposal every step
of the round is a step of `Deliberation` or a stutter (`NextDeliberates`). `Moved` lists
what a step may do to one proposal on chain: appear as *Created*, have submissions
recorded, be finalized by a result on its way, time out, or stay. Each has a lemma
(`SeenOpen`, `SeenCommit`, `SeenDecide`, `SeenExpire`), and `SeenArchive` is the tick that
archives. Two invariants of entries carry it. `EntryInv`: a proposal has an entry only if
its submissions were recorded (`EntriesFollow`), a tick on its way from recording to
archiving finds none (`NotYetArchived`), and what a tick carries counts its own votes
(`TalliesCount`), so that every entry adds up (`NextEntry`). That a decision is what its
entry shows comes from `ArchiveInv`, that nobody else writes the entry from `RecorderInv`, and that
the votes are the ballots, for ticks that do not overlap, from `SequentialInv`. If
writes are lost it is not true: a tick goes on to the decision with no entry.

### `RegistryProofs`

`RegistryCorrect` (`TypeCorrect`, `SignaturesOnce`), `DiscoveryCorrect` and `Ownership`, for any
number of accounts, DIDs, keys, nonces and re-initializations.
`SignatureTakenOnce` is inductive because it ties the count to the set of spent
nonces. `DiscoveryFits` needs that a DID is listed only when it had no entry
(`KeysWith`), and after a re-initialization that an entry outlives its key, never
the reverse. `StartsAreCalls`: the behaviours of `WorkerRegistration` are
behaviours of `Registry`, so all of this holds with workers and coordinators that
restart: `RegistrationCorrect`, about the specification of the run.

### `LocalCoordinationProofs`

Every step of a run is of one of a few kinds (`AdvanceKinds`): it goes on quietly,
sends its start call, takes a proposal, or returns. On this rest two inductive
invariants. `SaleInv` ties record, buyer and place of a run: no record before the
run begins, a buyer waits only on a *pending* one, a settled one means that the
run is over. From it `VerdictAlwaysStands`, the promise that
`verdict-store.ts` states and `updateRecord` does not enforce: it holds because
a run returns once, not because of the store. `ToldIsAlwaysRecorded` follows from
the same. `OwnInv` says of a run that nobody disturbs that it is the only one
active, counting a start call left behind, and that the counter is where it
was when the run looked, or one further and by the run's own call; it gives
`OwnProposalAlways`. A run is disturbed from the moment another is active beside it, or
when a view shows it an older counter than there is: those two are all that the comparison
of counters takes for granted, and the ghost says which runs have met them, so that the
theorem needs no hypothesis and still speaks of the undisturbed runs among any number of
others.

`LocalTypes` is `TypeOK`, without hypotheses: contract, workers and tally are those of the
round, so the lemmas about listings and counts are here again for the instance `Round`.
`TakenInv` says that `takers` has every run that works on a proposal. On it rests
`SettledInv`, what a verdict means: a result is sent by a run that took the
proposal and is not reported as failed (`ResultsOfSenders`); what is sent or final is in
the archive (`SentIsArchived`, `FinalIsArchived`), a run that sends has archived its tally
(`SenderHasArchived`), and what was sold is archived (`SoldIsArchived`) - the last four of
proposals that one run took. Two runs that take one proposal archive over each other, and
one of them sells a verdict that is not the chain's: this the code does, and the clause
names exactly it. No run has to be alone, no view has to succeed: `LocalCorrect`,
`VerdictCorrect` and `FailedCorrect` have no hypotheses, with refused, lost and late calls,
restarts, and buyers who give up at any moment. `FailedCorrect` is for shared proposals too:
the chain decides a proposal only by the result of a run that took it and does not report
a failure.

`LocalComposes` and `LocalSettles`: runs that take each other's
proposals still do to the contract only what `CoordinatorContract` allows (`NextIsCall`;
a start call is for as many workers as were dispatched, which fit a u8 because there are
fewer than 256 of them), so that `ContractInv` holds with them, and `LifecycleOrder` and
`Settlement` with it. Of the workers, `WorkerInv` is kept by two steps that `WorkerAgent`
does not know, `SetIdle` and `SetResult` (`VotersUnharmed`): neither touches a handler or
makes a worker *completed*, and a vote once stored is only replaced by another.

### `ProvisioningProofs`

`BoughtIsBacked` is `ProvisioningInv`, by the inductive `IInv`: types, `Views`
(what the page shows, reports or is about to show is of a job that was started),
`Machines`, `Requests` and `Contracts`. A registration is signed for a job the *page* shows as
awaiting, perhaps by an answer that came late, of a job the server has forgotten
since. So `Machines` says that whatever was ever shown as awaiting is settled: its
machine runs and nothing that works on the job is left to take it away. `Requests`: a POST
that is still on its way, perhaps of a page that was left, is for a job nobody has seen, so
that when it comes it begins that job and no other. `Contracts`
says that the contract in the page's hands belongs to no job and to no POST until the page
sends one, and `create_coordinator` gives it out once; a start whose answer is lost is
covered because the page then shows a failure, and forgets the contract with it
(`Unused`).
What the three lists of statuses have in common (`ListOK`) is all the proof knows of them.
`NoDropletLeft` needs that a running droplet is one whose id its job knows
(`Droplets`), which holds until a creation goes unanswered or a restart forgets
the job, hence `faults = 0`.

Both hold whether or not status requests overlap. What is only checked, and only for a page
that sends one at a time, is `CompleteHasKey`, `ShownIsRemembered` and `UiSettles`; a late
answer breaks them, see [7](#7-where-code-and-documentation-disagree).

### `ServicesProofs`

**Voting.** `BallotsAlwaysBalance`: a vote `v` adds `v` to one sum and `1 - v` to the
other, and modulo `Word` their sum grows by one (`VoteAddsOne`); this is why fewer
voters than words are assumed. `ResultAlwaysStands` needs the stronger
`PublishedIsStored`: every result ever published is the stored one or 0 to 0.
`FinalizedTallyAlwaysStands`: votes of a finalized proposal never change.

**Sessions.** `SessionsBounded` is `SessionInv`. The ceiling holds because `register`
looks again; `IdleIsBounded` is not inductive and follows from `TimesOK`: the next
sweep is never further from the last activity of a session than its time to live
and one period. `ActiveAlwaysKept` needs that the store knows the last request.

**Workers.** `NamesCorrect` rests on `GivenStays`: a name given last is in Ensue and in
the cache, unless something else was under way with it. `ViewsCorrect` is about time.
A verdict that is remembered (`RememberedRight`), an answer of the registry
(`ListedRight`), a probe's answer (`ProbedRight`) each have an age, and each is right of
every worker that has been steady for longer than that age and the time its own
request took. The ages that can add up on the way to a view are the time to live of a
verdict, a probe and a view call, and `SettleTime` is that sum; `SureRight` says that
what a view claims it claims on such grounds. `WorkersCorrect` joins the two for the
run `services`.

**Board.** Each answer is younger than the interval and the two time-outs because
requests end (`BoardIInv`), and of the agent selected because a request is of the
agent selected when it was sent, or of an earlier one and not younger than the
selection (`Followed`, `OfSelected`).

**Onboarding.** `OnboardingIInv` ties every request under way to the wizard.
`RequestRight` is what a request says whoever hears of it: one that is done has its
effect at Outlayer. `EffectRight`: a request of the effect of a screen belongs to the
screen shown only if the effect has run and the step is still its own; with it
`MoneyIsInHand` and `ShownWasAnswered` hold for any user and any troubles, because the
two answers that could replace the wallet or end the wizard are the ones
that look at their screen before they act. (That the wallet shown at the end is in the
registry is not so: the status of the answer is not looked at, see section 7.) For a `patient` user there is one request
at a time beside balance requests, and it is of the screen shown (`OneAtATime`,
`ScreenRight`); a balance request is of a screen that has advanced, or of the funding
screen that is shown. This gives `PolicyComesFirst`, and `AlwaysGoesForward` by the
steps an answer can take (`AnswerGoes`). `OneSignature` needs `SignedOnce`: a wallet
that was signed for has left the policy screen, or the rest of its commit is under
way there. That a remounted screen has a number of its own (`RemountSays`) is the
pigeonhole principle. The proof found that the model remembered a screen as advanced
which had been unmounted and mounted again with the number it had: a screen that is
mounted has not advanced, as in the code, where `advancedRef` is made with it.

**Demo.** `DemoIInv` says of each run that is read (`ReadersRight`) that it is the last of
its visitor and the one its page would abort, and that the phase shown and the stream
after it are in order, the last phase in them being the one its route is in
(`ReadRight`, `LastSaid`): what is appended is no earlier than that, and what is read
leaves the rest in order. `PaidRight` follows a run from the abort to the payment.
`HitsKept`, that a run within the window is still in its list, gives `LimitsHold`: the
runs of the window that ends now are those of the list and the one just counted, and
a window that ended before cannot get another. This needs an hour to be no longer than
a day (`DemoAssumption`).

`PagesCorrect` joins the demo and the board for the run `services`.

**The jury.** A turn of the loop exchanges two places (`TurnPermutes`), so that the
shuffle permutes the pool for every seed, width and generator (`ShufflePermutes`, by
induction over the turns). `JuryCorrect`: the beginning of a permutation takes nobody
twice. It needs a pool in which nobody is twice, which the routes do not check
(`IsInjective(Pool)`): a candidate who is listed twice may sit twice. `JuryFair`: whoever
can be drawn first can be drawn into a jury of any size, so a generator need be looked at
for juries of one only (`EachDrawn(1)`). That the generator of the code passes
is a computation over its seeds and is checked by the run `services`, at 8 bits.

### `IdentityProofs`

**The present client.** `ProfileCorrect`: `EditsKept` says where an edit that was
acknowledged is (in the vault if Storacha is used, else in Ensue), and `CallHolds` what each
call has in hand at each of its awaits. Acknowledged means under the present key: `Rekey`
forgets it with everything else, as the code does. `CacheAlwaysGrows` is the action property for
calls that began with a cache.

**The vault.** `VaultCorrect` rests on `TaskHolds`, for each place of a task what it has
made and tried, and `Tried`: each attempt before the present one has used up a failure
of its own, those at the primary gateway perhaps excepted.

**The older client.** `NovaRight` holds without hypotheses: a position in a registry is an
upload of that file, so that what is read under a name was uploaded under it
(`FilesAreNamed`). The rest is true if one agent has the group, its calls wait for each
other, and no upload was recorded and sent again. `NovaOrder` follows the one
call under way (`SlotInOrder`): a process that has just started and knows nothing yet
(`Fresh`) may find all that was kept by the last registry; a call that
writes has in hand all the edits kept of its file (`Covers`); the registry under which
every edit kept is found (`KeptIn`) is in the process, and at rest it is also the last
upload (`Stable`). `RegistryIsLast`, `EditsAreKept` and `DecisionsAreKnown` follow.

`IdentityCorrect` joins the last two for the run `services`.

### Only model-checked

- Liveness (`EveryCoordinationSettles`, `PendingIsPickedUp`, `TicksEnd`,
  `VerdictSettles`, `UiSettles`, the liveness of `ImplementsSettlement`), which is
  beyond the prover.
- That the generator of the jury draws everybody first for some seed (`EachDrawn(1)`, the
  hypothesis of `JuryFair`): a computation with its constants.
- That the workers of `LocalCoordination` take no steps but those of `WorkerAgent` is not
  true and not claimed: a run may set one idle in the middle of a task, or store its vote.
  `LocalComposes` says that the invariant of the workers survives both.

## 7 Where code and documentation disagree

Each with a run that finds it (`PROJECT.json`, `findings`):

1. `shared/src/constants.ts:7` says status and result are overwritten each round.
   `triggerWorkers` resets the status and not the result, and does not stop a worker of
   a round that timed out. In the run no worker fails: a slow one of the first round writes
   its vote on the old proposal, and then *completed*, after the second round has reset its
   status and before it has seen that; the second round takes *completed* for its own, and
   records and counts the old vote (`round_stale_vote`).
2. `registry-contract/src/lib.rs:97` and `docs/content/contracts/development.mdx:181`
   say that re-initialization clears all records; `lib.rs:115-116` tells to
   register workers again after it. The entries stay, so a key is not listed
   again and the re-registered worker is never discovered; a worker that starts
   finds its old record and does not even try (`registry_orphans`).
3. `shared/src/constants.ts:112-113` says the snapshot is taken at vote start so that a
   registration during the vote does not change the expected count. A tick starts every
   5 seconds while a proposal is pending: a second one discovers again, finds a worker
   that registered meanwhile, and overwrites the snapshot (`memory-monitor.ts:556`) from
   which the first then tallies (`round_snapshot`).
4. `useProvisionJob.ts:165` says the user can download the recovery file although the
   report of a registration failed. The timer asks every 5 seconds and a request may take
   10; an answer from before the signature was awaited may come after the one that showed
   the key and stopped the timer. The page then completes without the key the file is made
   of, and nothing asks again (`provisioning_late`).

Seen while modelling, without a run of their own:

The rounds:

- `coordinator-contract/README.md:80` says the hash commits a worker to its vote.
  With overlapping ticks the vote is replaced between recording and counting:
  `TallyMatchesCommitments` holds in `round_sequential` only.
- Two ticks that archive together lose an entry of the index (`memory-monitor.ts:1010`),
  although `shared/src/constants.ts:107` calls it the list of all proposal ids. `ReadIndex`
  and `WriteIndex` do so in the model; the list is for a dashboard and nothing is decided
  from it, so no property is spent on it.
- `memory-monitor.ts:946` speaks of a strict majority. When the read of the
  results fails there are no votes, and without votes the decision is *Approved*
  (948).
- `coordinator-contract/src/lib.rs:577` says deactivation of a worker "prevents
  participation"; recording never looks at registered workers.
- `lib.rs:265` says the count of submissions is validated; it is cut to a u8
  before it is compared (267), so 257 submissions pass for 1.
- "Only the original registrant or admin can update" (`registry-contract/src/lib.rs:232`):
  an admin who registers a DID again becomes its owner, and the original
  registrant can no longer update it.
- A coordinator whose code hash was revoked may still register workers
  (`lib.rs:555`).
- A proposal also times out from *WorkersCompleted*, which the life cycle at
  `coordinator-contract/README.md:22-27` does not show; `LifecycleOrder` allows it.
- The quorum is read from the shared task definition (`memory-monitor.ts:885`,
  used at 946), so a tick on another proposal may change it. No document says that it
  may not.
- A worker that fails leaves its result of an earlier round in place too, and the readings
  (577, 893) do not look at the status: that vote is counted. `Fail` and
  `readResultsWithRetry` model it; it is another way to violate what `round_stale_vote`
  shows, not the one shown there.
- A worker whose write of the result is lost still writes *completed*
  (`task-handler.ts:213`).

Registration:

- `task-handler.ts:102` says that self-registration is idempotent. A look-up that
  fails counts as "not registered", and registering again drops the controller
  key and undoes a deactivation. `OwnershipKept` says what remains: the owner.
- A coordinator that starts at another URL finds its record and leaves the old
  endpoint there (`local-contract.ts:348`); a worker moves its own.

Local and paid deliberations:

- Two runs under way together take the proposal of whichever call landed last
  (`local-contract.ts:140`), and a run whose first view failed takes an older one. Both
  runs then record, archive and sell under one id, and one of the buyers gets a verdict
  that is not the chain's; the properties of `local` except exactly this (`disturbed`,
  `takers`).
- A resume that failed is looked into and called "likely succeeded" if the
  proposal is not *Created* (`local-contract.ts:256`); after the recording it
  never is. Whatever the look shows, the run goes on the same way.
- The message for a null result names "contract resume failed" among its causes
  (`x402-deliberate.ts:212`); a run whose resume failed returns its tally and is
  reported completed. `VerdictAgreesWithChain` therefore speaks only of
  proposals the chain has finalized.
- `/poll/vote` (`coordinate.ts:823`) writes the vote and no status, so a round
  with a worker that only polls, and does not write its status itself, ends by
  its time-out, with no tally.

Provisioning:

- The server begins a job before its id is known to the page, which stores the id when the
  answer of the POST comes (`useProvisionJob.ts:106-115`): loaded again in between, or
  with the answer lost, the page never finds the job, which goes on to buy its machine.
  `startProvision`, `CreateJob` and `StartAnswered` model it, and no property claims the
  contrary: `ShownIsRemembered` speaks of jobs the page shows.
- A first request that fails after a reload makes the page forget its job
  (`useProvisionJob.ts:55`).
- A late answer may also stop the timer of a later job, and then that job's page does not
  settle: `UiSettles` holds for one request at a time.
- The answer with which a droplet's id is told may be lost after the droplet was created,
  and then nobody destroys it (`ironclaw-deployer.ts:76`); `FailedJobLeavesNoDroplet` is
  stated for no faults.

Identity (`profile-client.ts`):

- The CID that leads to the vault is itself kept in Ensue, under a name that begins with
  the worker's DID, and that DID comes from the same private key as the encryption
  (`local-crypto.ts:26`, `identity.ts:53`). So the vault helps neither after a loss of
  Ensue nor under a new key: what it is good for is a document in Ensue that cannot be
  read while its CID can. `SavedSurvives` promises that, and nothing over a change of key.
- A read that fails reads as an empty document, and the next save stores one.
- After a write to Ensue that failed, the older copy there is preferred over the
  vault, although comments call Storacha primary.
- The write-back after a cold start is not awaited and may overwrite a newer
  document; two first saves after a start may lose one edit. Both are why
  `SavedSurvives` asks for `sequential`.

Vault (`storacha/vault.ts`, `storacha/identity.ts`):

- A promise that was rejected is kept (`vault.ts:86`, `136`): after one failed
  connection to Lit every backup of a coordinator fails until it is restarted, and
  the failures are logged as not fatal. `ThrowsForCause` counts this as a cause.
- The modules pass for loaded once the first of them is there
  (`identity.ts:32`, in the worker `:34`): a call that comes before the last one throws. A worker's first
  `getAgentDid` is safe, since it loads them itself; a request to
  `/api/knowledge` at that moment is not.
- The archival record is "for the NEAR ledger" (`archiver.ts:6`) and is written to
  Ensue (`archiver.ts:182`).

Older workers (`worker-agent-1/src/nova/`):

- "The registry itself is always the last upload" (`agent-identity.ts:84`): it is
  not when two calls overlap, nor when the process ends or an upload fails between a
  document and its registry. `RegistryIsLast` names these conditions.
- Agents that share a group, the default `shadeboard-agents`
  (`nova-client.ts:136-137`), load each other's registry at their start and take the
  other's manifesto for theirs; `FilesAreNamed` therefore speaks of the author only
  where the group has one agent, as `.env.example` recommends.
- A list of uploads that fails at the start reads as an empty one: the worker seeds
  defaults, uploads a registry without its history, and never finds that again.

Onboarding:

- "ONE on-chain signature" (`ConnectScreen.tsx:20`): if the cache at Outlayer is not
  invalidated after the policy is stored, the user signs it again. `OneSignature`
  holds where nothing fails.
- A page loaded again while its wallet is being registered asks once more; the money
  pays for one deposit, so the second request fails and the wizard shows an error for
  a wallet that is registered. The register screen offers no second try but a reload.
- An answer that outlives its screen, because the user disconnected meanwhile, moves
  the wizard back or on; hence `patient` in `GoesForward`.
- `registerWorker` answers with a status that no screen looks at
  (`RegisterScreen.tsx:51-61`, the type at `outlayer-client-browser.ts:23`): any HTTP 200
  leads to the last screens, the first of which says "Your worker is registered on-chain"
  (`SkillInstallScreen.tsx:16`), whatever the answer said. The end-to-end test of the
  repository (`test-onboard-e2e.mjs:186-195`) does look. `ShownWasAnswered` says what is
  left: an answer there was, for the wallet in hand.

Demo of a paid deliberation:

- Cancelling before the route has answered ends in *failed* and not in *idle*: the
  handler of the aborted request (`x402-demo/page.tsx:94`) runs after the reset.
- `api/x402-demo/route.ts:302-305` says a disconnection is honoured so that the
  coordinator's handler is not kept; the coordinator does not look at it and goes on.
- "Payment settled" is shown three seconds after the request was sent, settled or not
  (`route.ts:268-275`).

Views of the workers:

- `DELETE /workers/:did` (`coordinate.ts:396`) removes the worker from the coordinator
  contract, while the list comes from the registry: the worker stays listed.
- A probe under way while a worker is registered puts the older verdict back after
  `validationCache.delete` (`coordinate.ts:382`); `TruthIsShown` therefore promises a
  worker at once only if no view was under way.
- A name that could not be read is remembered as missing until the coordinator is
  started again (`name-resolver.ts:44-45`); nothing calls `invalidate`.
- `/status` reads three keys one after another (`coordinate.ts:183-185`), and the tally
  is not cleared when a round begins: the next proposal is shown with the tally of the
  one before it while it is *monitoring*.
- The worker view of the dashboard (`dashboard/page.tsx:570`) takes no notice of the
  error of its poll, so where requests fail the proposals of the worker selected
  before stay under the new name; `ShownIsRecent` speaks of pages that do not say
  offline.
- `selectCoordinator` (`coordinator/page.tsx:67`) keeps the contract of the coordinator
  before it if the health of the new one cannot be fetched.

Deployment through `protocol-api/src/routes/deploy.ts` and `agents.ts`:

- Both call `update_worker`, `update_coordinator` and older forms of `register_*`,
  which the registry does not have; the failures are "non-fatal". Nothing in the
  frontend calls `deployToPhala`. `/api/agents/endpoints` reads fields the records do
  not have.

## 8 What is not modelled

About half of the repository's lines are frontend pages, generated contract
bindings (typechain) and documentation; what follows names the rest.

- **`force_migrate`** of the coordinator contract: an administrator's repair that
  depends on the storage layout; `Registry` models the same library behaviour
  for its own re-initialization.
- **`/reset`** deletes keys for tests; the views that only read (proposals, status,
  pending coordinations) decide nothing.
- **The IronClaw webhook** as a way to deliver a task: a dispatch like the others.
- **External workers** in provisioning: a key pair is made and forgotten.
- **`worker-agent/src/nova`**, a copy of the older identity that nothing imports, and
  **Lit** encryption of what the vault keeps.
- **`/api/deploy`**: written for a registry that no longer exists (section 7).
- **AI voting**: a call of an external model; `WorkerAgent` takes its answer as
  any vote or a failure.
- **Cryptography and attestation**: hashes are taken to be injective, encrypted
  counts are the counts they carry, attestation and the random beacon are
  external.
- **Payments webhook, agent listing**: proxies without state of their own. The
  **x402 facilitator** and its middleware are external.
- **Frontend** but for the pages that sell agents, the onboarding wizard, the demo and
  the polling: layout, and forms that send one request.
- **`worker-agent-1`, `-2`, `-3`** but for their identity: older copies of the worker
  with its protocol.
- **Docs, scripts, templates**: no part of the running program; quoted where the
  code disagrees with them.

## 9 How to run

```
tlasany DeliberationRound.tla
tlc -workers 2 -config MCRoundOverlap.cfg MCDeliberationRound.tla
tlapm CoordinatorContractProofs.tla
```

Every `.cfg` names its specification, constants and properties; `PROJECT.json`
says which module it belongs to. The longest runs take about four minutes.
