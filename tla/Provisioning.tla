---------------------------- MODULE Provisioning ----------------------------
(***************************************************************************)
(* Buying an agent: the provisioning API (protocol-api, routes/provision.ts*)
(* with the clouds it deploys to), the pages of the frontend under /buy    *)
(* that follow a job, and the factory contract a coordinator comes from.   *)
(*                                                                         *)
(* The server walks each job through a fixed list of statuses, one await   *)
(* after another, and keeps it in memory.  The browser remembers one job   *)
(* id in localStorage, asks for the status of the job every 5 seconds, and *)
(* at the end has the user sign the registration.  The five hooks of the   *)
(* pages are copies of each other and are one here.                        *)
(*                                                                         *)
(* Abstracted: the contents of keys, compose files and cloud-init, the     *)
(* name a user gives (its prefix is the account of the contract); external *)
(* workers, for which the API only makes a key pair; a poll that fails or  *)
(* finds no job, which the page ignores; the page's own step of a wallet   *)
(* that refuses.  What the registry does with a registration is Registry.  *)
(***************************************************************************)
EXTENDS Naturals, Sequences, FiniteSets, SequencesExt

CONSTANTS
  Kind,       \* what is bought: "worker", "coordinator" or "ironclaw"
  Prefix,     \* names of coordinator contracts
  NoPrefix, NoJob, NoView,
  MaxJobs,    \* bound: jobs started
  MaxReloads, \* bound: reloads of the page
  MaxFaults,  \* bound: calls that fail or whose answer is lost, and server restarts
  LatePolls   \* whether a status request may overlap what comes after it

\* The statuses a job is seen in; some only announce what comes in the same stretch.
ProvisionStatus ==
  { "generating_identity", "creating_space", "provisioning_ensue", "preparing_phala",
    "deploying_phala", "waiting_for_url", "creating_droplet", "waiting_for_ip",
    "waiting_for_ssh", "configuring_agent", "awaiting_near_signature", "registering",
    "complete", "failed" }

ProvisionJob == [ status : ProvisionStatus, key : BOOLEAN, droplet : BOOLEAN,
                  contract : Prefix \cup {NoPrefix} ]

\* What the page knows of a job; job 0 is one that never started.
JobState == [job : 0 .. MaxJobs, status : ProvisionStatus, key : BOOLEAN]

ASSUME ProvisioningAssumption ==
  /\ Kind \subseteq {"worker", "coordinator", "ironclaw"}
  /\ MaxJobs \in Nat /\ MaxReloads \in Nat /\ MaxFaults \in Nat
  /\ LatePolls \in BOOLEAN
  /\ NoPrefix \notin Prefix
  /\ NoJob \notin ProvisionJob /\ NoView \notin JobState

VARIABLES
  kind,      \* the page in use
  job,       \* the server's map of jobs
  machine,   \* what runs in the cloud for each job: a CVM or a droplet
  created,   \* how many jobs were started
  ui,        \* the job as the page shows it
  stored,    \* the job id in localStorage, or 0
  interval,  \* the job the page's timer asks for, or 0
  answers,   \* status answers under way to the page
  posting,   \* the registration being reported to the server
  starting,  \* the job whose POST the page awaits, or 0
  requests,  \* POSTs on their way to the server: the job and its contract
  signed,    \* jobs registered on chain
  pending,   \* coordinator page: the configuration waiting for its factory call
  address,   \* ... and the contract it has got from it
  deployed,  \* contracts the factory has created
  reloads, faults

serverVars == <<job, machine, created>>
startVars == <<starting, requests>>
pageVars == <<ui, stored, interval, answers, posting, startVars>>
factoryVars == <<pending, address, deployed>>
provisioningVars == <<serverVars, pageVars, factoryVars, kind, signed, reloads, faults>>

JobId == 1 .. MaxJobs
Final == {"complete", "failed"}
NoPost == [job |-> 0, sent |-> FALSE]

ProvisioningInit ==
  /\ kind \in Kind
  /\ job = [j \in JobId |-> NoJob]
  /\ machine = [j \in JobId |-> "none"]
  /\ created = 0
  /\ ui = NoView /\ stored = 0 /\ interval = 0
  /\ answers = {}
  /\ posting = NoPost
  /\ starting = 0 /\ requests = {}
  /\ signed = {}
  /\ pending = NoPrefix /\ address = NoPrefix
  /\ deployed = {}
  /\ reloads = 0 /\ faults = 0

-----------------------------------------------------------------------------
(* The server *)

\* The statuses a job goes through, one for each await.
provisionWorker ==
  << "generating_identity", "creating_space", "preparing_phala", "deploying_phala",
     "waiting_for_url", "awaiting_near_signature" >>

provisionCoordinator ==
  << "generating_identity", "creating_space", "provisioning_ensue", "preparing_phala",
     "deploying_phala", "waiting_for_url", "awaiting_near_signature" >>

\* The agent's start is announced and passed in one stretch.
provisionIronClawWorker ==
  << "generating_identity", "creating_space", "creating_droplet", "waiting_for_ip",
     "waiting_for_ssh", "configuring_agent", "awaiting_near_signature" >>

Flow ==
  CASE kind = "worker" -> provisionWorker
    [] kind = "coordinator" -> provisionCoordinator
    [] kind = "ironclaw" -> provisionIronClawWorker

Running(j) == job[j] # NoJob /\ job[j].status \in Range(Front(Flow))
Registering(j) == job[j] # NoJob /\ job[j].status = "registering"
AtMachine(j) == job[j].status \in {"deploying_phala", "creating_droplet"}

Fault == faults < MaxFaults /\ faults' = faults + 1

NewJob(contract) ==
  [status |-> "generating_identity", key |-> FALSE, droplet |-> FALSE, contract |-> contract]

\* The POST arrives: the job is in the map, and worked on, before it is answered.
CreateJob(q) ==
  /\ q \in requests
  /\ requests' = requests \ {q}
  /\ job' = [job EXCEPT ![q.job] = NewJob(q.contract)]
  /\ UNCHANGED <<machine, created, ui, stored, interval, answers, posting, starting>>
  /\ UNCHANGED <<factoryVars, kind, signed, reloads, faults>>

\* Mutant: the id of the droplet is kept only once the agent is configured.
Step_LateId(j) ==
  /\ Running(j)
  /\ LET i == CHOOSE k \in 1 .. Len(Flow) : Flow[k] = job[j].status IN
       job' = [job EXCEPT ![j].status = Flow[i + 1], ![j].key = TRUE,
                          ![j].droplet = @ \/ job[j].status = "configuring_agent"]
  /\ machine' = [machine EXCEPT ![j] = IF AtMachine(j) THEN "running" ELSE @]
  /\ UNCHANGED <<created, pageVars, factoryVars, kind, signed, reloads, faults>>

\* The step a job is at succeeds.  The key is there from the first step on.
Step(j) ==
  /\ Running(j)
  /\ LET i == CHOOSE k \in 1 .. Len(Flow) : Flow[k] = job[j].status IN
       job' = [job EXCEPT ![j].status = Flow[i + 1], ![j].key = TRUE,
                          ![j].droplet = @ \/ job[j].status = "creating_droplet"]
  /\ machine' = [machine EXCEPT ![j] = IF AtMachine(j) THEN "running" ELSE @]
  /\ UNCHANGED <<created, pageVars, factoryVars, kind, signed, reloads, faults>>

\* destroyDroplet swallows the failure of its call.
destroyDroplet(j) ==
  \/ machine' = [machine EXCEPT ![j] = "destroyed"] /\ UNCHANGED faults
  \/ Fault /\ UNCHANGED machine

\* It fails.  A droplet whose id is known is destroyed; a machine whose creation
\* was not answered stays, and so does a CVM.  The wait for the URL cannot fail.
Break(j) ==
  /\ Running(j)
  /\ job[j].status # "waiting_for_url"
  /\ job' = [job EXCEPT ![j].status = "failed"]
  /\ \/ job[j].droplet /\ destroyDroplet(j)
     \/ ~job[j].droplet /\ UNCHANGED <<machine, faults>>
     \/ AtMachine(j) /\ Fault /\ machine' = [machine EXCEPT ![j] = "running"]
  /\ UNCHANGED <<created, pageVars, factoryVars, kind, signed, reloads>>

\* POST /register answers once the display name is written, or has failed to be.
FinishRegister(j) ==
  /\ Registering(j)
  /\ job' = [job EXCEPT ![j].status = "complete"]
  /\ UNCHANGED <<machine, created, pageVars, factoryVars, kind, signed, reloads, faults>>

\* The API's process is restarted: every job, and the keys in it, is gone.
Crash ==
  /\ Fault
  /\ job' = [j \in JobId |-> NoJob]
  /\ UNCHANGED <<machine, created, pageVars, factoryVars, kind, signed, reloads>>

-----------------------------------------------------------------------------
(* The page *)

\* Mutant: the key is shown at the end only.
View_AtEnd(j) ==
  [job |-> j, status |-> job[j].status, key |-> job[j].status = "complete" /\ job[j].key]

\* GET /status: the key is shown while the signature is awaited and at the end.
View(j) ==
  LET revealSecrets == job[j].status \in {"awaiting_near_signature", "complete"} IN
  [job |-> j, status |-> job[j].status, key |-> revealSecrets /\ job[j].key]

NoRequest == LatePolls \/ answers = {}

\* The timer fires and the server answers.  Fetches may take longer than the
\* timer's period.
pollStatus ==
  /\ interval # 0
  /\ job[interval] # NoJob
  /\ NoRequest
  /\ answers' = answers \cup {[view |-> View(interval), via |-> "timer"]}
  /\ UNCHANGED <<serverVars, ui, stored, interval, posting, startVars, factoryVars, kind>>
  /\ UNCHANGED <<signed, reloads, faults>>

\* Mutant: any answer stops the timer.
PollAnswered_Stops(a) ==
  /\ a \in answers /\ a.via = "timer"
  /\ answers' = answers \ {a}
  /\ ui' = a.view
  /\ interval' = 0
  /\ UNCHANGED <<serverVars, stored, posting, startVars, factoryVars, kind, signed, reloads>>
  /\ UNCHANGED faults

\* Mutant: an answer that stops the timer also forgets the job.
PollAnswered_Forgets(a) ==
  /\ a \in answers /\ a.via = "timer"
  /\ answers' = answers \ {a}
  /\ ui' = a.view
  /\ IF a.view.status \in Final \cup {"awaiting_near_signature"}
     THEN interval' = 0 /\ stored' = 0 ELSE UNCHANGED <<interval, stored>>
  /\ UNCHANGED <<serverVars, posting, startVars, factoryVars, kind, signed, reloads, faults>>

\* The answer replaces what is shown, whatever that is by now, and a settled
\* status stops the timer, whosever it is by now.
PollAnswered(a) ==
  /\ a \in answers /\ a.via = "timer"
  /\ answers' = answers \ {a}
  /\ ui' = a.view
  /\ interval' = IF a.view.status \in Final \cup {"awaiting_near_signature"} THEN 0 ELSE interval
  /\ UNCHANGED <<serverVars, stored, posting, startVars, factoryVars, kind, signed, reloads>>
  /\ UNCHANGED faults

\* The page is loaded again: what it held is gone, but for localStorage, and with it
\* the answer to a POST it awaits, which the server may take none the less.
Reload ==
  /\ reloads < MaxReloads
  /\ reloads' = reloads + 1
  /\ ui' = NoView /\ interval' = 0 /\ posting' = NoPost /\ starting' = 0
  /\ pending' = NoPrefix /\ address' = NoPrefix
  /\ answers' = IF stored = 0 THEN {}
                ELSE {[view |-> IF job[stored] = NoJob THEN NoView ELSE View(stored),
                       via |-> "mount"]}
  /\ UNCHANGED <<serverVars, stored, requests, deployed, kind, signed, faults>>

\* It resumes the job it remembers; without one, or after it failed, it forgets.
Resume(a) ==
  /\ a \in answers /\ a.via = "mount"
  /\ answers' = answers \ {a}
  /\ IF a.view = NoView \/ a.view.status = "failed"
     THEN stored' = 0 /\ UNCHANGED <<ui, interval>>
     ELSE /\ ui' = a.view
          /\ interval' = IF a.view.status \in {"complete", "awaiting_near_signature"}
                         THEN interval ELSE a.view.job
          /\ UNCHANGED stored
  /\ UNCHANGED <<serverVars, posting, startVars, factoryVars, kind, signed, reloads, faults>>

\* The first request of a page failed, which it cannot tell from a job not found.
ResumeFails(a) ==
  /\ a \in answers /\ a.via = "mount"
  /\ Fault
  /\ answers' = answers \ {a}
  /\ stored' = 0
  /\ UNCHANGED <<serverVars, ui, interval, posting, startVars, factoryVars, kind, signed>>
  /\ UNCHANGED reloads

\* A configuration is confirmed.  A coordinator's goes to the factory first.
Configure(p) ==
  /\ kind = "coordinator"
  /\ ui = NoView /\ address = NoPrefix
  /\ pending' = p
  /\ UNCHANGED <<serverVars, pageVars, address, deployed, kind, signed, reloads, faults>>

\* Mutant: an account that exists is deployed to again.
create_coordinator_Again(p) ==
  deployed' = deployed \cup {p}

\* The batch of the factory fails as a whole if the account exists.
create_coordinator(p) ==
  /\ p \notin deployed
  /\ deployed' = deployed \cup {p}

SignFactory ==
  /\ pending # NoPrefix /\ address = NoPrefix
  /\ ui = NoView
  /\ create_coordinator(pending)
  /\ address' = pending
  /\ UNCHANGED <<serverVars, pageVars, pending, kind, signed, reloads, faults>>

\* The user confirms: the page sends a POST and awaits its answer.
startProvision ==
  /\ ui = NoView /\ starting = 0
  /\ NoRequest
  /\ kind = "coordinator" => address # NoPrefix
  /\ created < MaxJobs
  /\ created' = created + 1
  /\ starting' = created + 1
  /\ requests' = requests \cup {[job |-> created + 1, contract |-> address]}
  /\ UNCHANGED <<job, machine, ui, stored, interval, answers, posting, factoryVars, kind>>
  /\ UNCHANGED <<signed, reloads, faults>>

Arrived(j) == \A q \in requests : q.job # j

\* The answer: only now is the id of the job known to the page, and remembered.
StartAnswered ==
  /\ starting # 0 /\ Arrived(starting)
  /\ stored' = starting /\ interval' = starting
  /\ ui' = [job |-> starting, status |-> "generating_identity", key |-> FALSE]
  /\ starting' = 0
  /\ UNCHANGED <<serverVars, answers, posting, requests, factoryVars, kind, signed, reloads>>
  /\ UNCHANGED faults

\* The POST or its answer is lost, or late for the page: a failed job is shown.
StartFails ==
  /\ starting # 0
  /\ Fault
  /\ requests' \in {requests, {q \in requests : q.job # starting}}
  /\ ui' = [job |-> 0, status |-> "failed", key |-> FALSE]
  /\ starting' = 0
  /\ UNCHANGED <<serverVars, stored, interval, answers, posting, factoryVars, kind, signed>>
  /\ UNCHANGED reloads

\* The user signs the registration, which the page then reports ...
Sign ==
  /\ ui # NoView /\ ui.status = "awaiting_near_signature"
  /\ posting = NoPost
  /\ signed' = signed \cup {ui.job}
  /\ posting' = [job |-> ui.job, sent |-> FALSE]
  /\ UNCHANGED <<serverVars, ui, stored, interval, answers, startVars, factoryVars, kind>>
  /\ UNCHANGED <<reloads, faults>>

\* ... or skips it, which is reported in the same way.
Skip ==
  /\ ui # NoView /\ ui.status = "awaiting_near_signature"
  /\ posting = NoPost
  /\ posting' = [job |-> ui.job, sent |-> FALSE]
  /\ UNCHANGED <<serverVars, ui, stored, interval, answers, startVars, factoryVars, kind>>
  /\ UNCHANGED <<signed, reloads, faults>>

Awaiting(j) == job[j] # NoJob /\ job[j].status = "awaiting_near_signature"

\* POST /register has a display name to write before it is done; both routes refuse
\* a job that is not awaiting.
register(j) ==
  job' = IF Awaiting(j) THEN [job EXCEPT ![j].status = "registering"] ELSE job

coordinator_register(j) ==
  job' = IF Awaiting(j) THEN [job EXCEPT ![j].status = "complete"] ELSE job

PostRegister ==
  /\ posting # NoPost /\ ~posting.sent
  /\ posting' = [posting EXCEPT !.sent = TRUE]
  /\ \/ kind # "coordinator" /\ register(posting.job) /\ UNCHANGED faults
     \/ kind = "coordinator" /\ coordinator_register(posting.job) /\ UNCHANGED faults
     \/ Fault /\ UNCHANGED job
  /\ UNCHANGED <<machine, created, ui, stored, interval, answers, startVars, factoryVars>>
  /\ UNCHANGED <<kind, signed, reloads>>

\* The server is done with what was posted, or the answer is lost.
Answered(j) ==
  \/ ~Registering(j) /\ UNCHANGED faults
  \/ Fault

\* Whatever was answered, if anything, the page shows the job as complete and
\* forgets its id.
Close ==
  /\ posting # NoPost /\ posting.sent
  /\ Answered(posting.job)
  /\ ui' = IF ui = NoView THEN ui ELSE [ui EXCEPT !.status = "complete"]
  /\ stored' = 0
  /\ posting' = NoPost
  /\ UNCHANGED <<serverVars, interval, answers, startVars, factoryVars, kind, signed, reloads>>

\* The buttons of the last screen and of the error screen.
Reset ==
  /\ ui # NoView /\ ui.status \in Final
  /\ ui' = NoView /\ interval' = 0 /\ stored' = 0
  /\ pending' = NoPrefix /\ address' = NoPrefix
  /\ UNCHANGED <<serverVars, answers, posting, startVars, deployed, kind, signed, reloads>>
  /\ UNCHANGED faults

-----------------------------------------------------------------------------

Server(j) == Step(j) \/ Break(j) \/ FinishRegister(j)

ProvisioningNext ==
  \/ \E j \in JobId : Server(j)
  \/ Crash
  \/ \E q \in requests : CreateJob(q)
  \/ pollStatus
  \/ \E a \in answers : PollAnswered(a) \/ Resume(a) \/ ResumeFails(a)
  \/ Reload
  \/ \E p \in Prefix : Configure(p)
  \/ SignFactory \/ startProvision \/ StartAnswered \/ StartFails
  \/ Sign \/ Skip \/ PostRegister \/ Close \/ Reset

ProvisioningSpec == ProvisioningInit /\ [][ProvisioningNext]_provisioningVars

\* The awaits of the server end, the timer fires and its requests are answered;
\* of the users nothing is asked.
ProvisioningFairness ==
  /\ \A j \in JobId : WF_provisioningVars(Server(j))
  /\ WF_provisioningVars(pollStatus)
  /\ WF_provisioningVars(\E a \in answers : PollAnswered(a))
  /\ WF_provisioningVars(\E a \in answers : Resume(a) \/ ResumeFails(a))

ProvisioningFairSpec == ProvisioningSpec /\ ProvisioningFairness

-----------------------------------------------------------------------------
(* Correctness *)

ProvisioningTypeOK ==
  /\ kind \in Kind
  /\ job \in [JobId -> ProvisionJob \cup {NoJob}]
  /\ machine \in [JobId -> {"none", "running", "destroyed"}]
  /\ created \in 0 .. MaxJobs
  /\ \A j \in JobId : job[j] # NoJob => j <= created
  /\ ui \in JobState \cup {NoView}
  /\ stored \in 0 .. created /\ interval \in 0 .. created
  /\ answers \subseteq [view : JobState \cup {NoView}, via : {"timer", "mount"}]
  /\ posting \in [job : 0 .. created, sent : BOOLEAN]
  /\ starting \in 0 .. created
  /\ requests \subseteq [job : 1 .. created, contract : Prefix \cup {NoPrefix}]
  /\ signed \subseteq JobId
  /\ deployed \subseteq Prefix
  /\ pending \in Prefix \cup {NoPrefix} /\ address \in Prefix \cup {NoPrefix}

\* "Still transition to complete - user can download recovery file": a page that
\* shows the end of a purchase holds the key the file is made of, whatever of
\* the calls before it failed.
CompleteHasKey == (ui # NoView /\ ui.status = "complete") => ui.key

\* A job the page shows on its way, or waiting for its signature, is the one it would
\* find again if it were loaded anew, over reloads, lost calls and restarts.
ShownIsRemembered ==
  (ui # NoView /\ ui.job # 0 /\ ui.status \notin Final) => stored = ui.job

\* A deployment that failed leaves no droplet running on the user's bill - as
\* long as the cloud answers.
FailedJobLeavesNoDroplet ==
  (kind = "ironclaw" /\ faults = 0) => \A j \in JobId :
    (job[j] # NoJob /\ job[j].status = "failed") => machine[j] # "running"

\* What is registered on chain has a machine behind it, over reloads, restarts of
\* the API and lost calls.
RegisteredHasMachine == \A j \in signed : machine[j] = "running"

\* No two jobs are given the same coordinator contract, although a job is started
\* in a step apart from the factory's, its POST may arrive late, and users retry.
OwnContract ==
  \A i, j \in JobId :
    (i # j /\ job[i] # NoJob /\ job[j] # NoJob /\ job[i].contract # NoPrefix)
      => job[i].contract # job[j].contract

\* What every step keeps, whatever fails.
ProvisioningInv == ProvisioningTypeOK /\ RegisteredHasMachine /\ OwnContract

\* A page that shows progress comes to an end, or to the signature, unless the
\* server has lost the job.
UiSettles ==
  \A j \in JobId :
    (ui # NoView /\ ui.job = j /\ ui.status \notin Final \cup {"awaiting_near_signature"})
      ~> \/ ui = NoView \/ ui.job # j
         \/ ui.status \in Final \cup {"awaiting_near_signature"}
         \/ job[j] = NoJob
=============================================================================
