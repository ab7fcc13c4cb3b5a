-------------------------- MODULE ProvisioningProofs --------------------------
(***************************************************************************)
(* Theorems about Provisioning, for any number of jobs, names, reloads and *)
(* faults: what is registered has its machine, and no two jobs have one    *)
(* contract, whether or not status requests overlap what comes after; a    *)
(* deployment that failed leaves no droplet, as long as the cloud answers. *)
(***************************************************************************)
EXTENDS Provisioning, SequenceTheorems, TLAPS

-----------------------------------------------------------------------------
(* The invariant *)

\* What the page shows or is about to show is of a job that was started, or of none
\* if its start has failed; what it reports was started, and a timer's answer is
\* never empty.
Views ==
  /\ ui # NoView => ui.job <= created
  /\ posting # NoPost => posting.job \in 1 .. created
  /\ \A a \in answers :
       /\ a.view # NoView => a.view.job \in 1 .. created
       /\ a.via = "timer" => a.view # NoView

\* The statuses after the one in which the machine is made.
Late == { "waiting_for_url", "waiting_for_ip", "waiting_for_ssh", "configuring_agent",
          "awaiting_near_signature", "registering", "complete" }

Awaits(v) == v # NoView /\ v.status = "awaiting_near_signature"

\* The machine of a job that is no longer worked on stays as it is.
Settled(j) == j \in 1 .. created /\ machine[j] = "running" /\ ~Running(j)

\* A job past the making of its machine has one, and one that was ever shown as
\* waiting for its signature is settled, even if the server has forgotten it.
Machines ==
  /\ \A j \in JobId : (job[j] # NoJob /\ job[j].status \in Late) => machine[j] = "running"
  /\ \A j \in signed : Settled(j)
  /\ Awaits(ui) => Settled(ui.job)
  /\ \A a \in answers : Awaits(a.view) => Settled(a.view.job)

\* A POST on its way is for a job that the server has never seen, and there is but
\* one for each job.
Requests ==
  /\ \A j \in JobId : j > created => machine[j] = "none"
  /\ \A q \in requests : machine[q.job] = "none" /\ job[q.job] = NoJob
  /\ \A p, q \in requests : p.job = q.job => p = q

\* Neither a job nor a POST on its way has the contract.
Unused(c) ==
  /\ \A j \in JobId : job[j] # NoJob => job[j].contract # c
  /\ \A q \in requests : q.contract # c

\* A contract comes from the factory, which makes each once; until the page sends
\* the POST it is for, nothing has it, and it is forgotten with what is shown.
Contracts ==
  /\ address \in deployed \cup {NoPrefix}
  /\ \A j \in JobId : job[j] # NoJob => job[j].contract \in deployed \cup {NoPrefix}
  /\ \A q \in requests : q.contract \in deployed \cup {NoPrefix}
  /\ (ui = NoView /\ starting = 0 /\ address # NoPrefix) => Unused(address)
  /\ \A q \in requests : q.contract # NoPrefix =>
       /\ \A j \in JobId : job[j] # NoJob => job[j].contract # q.contract
       /\ \A p \in requests : p.contract = q.contract => p = q
  /\ OwnContract

\* The inductive invariant.
IInv == ProvisioningTypeOK /\ Views /\ Machines /\ Requests /\ Contracts

-----------------------------------------------------------------------------
(* The statuses *)

\* What the lists have in common: they end with the signature, name no status twice,
\* and make the machine right before the statuses that need it.
ListOK(f, n) ==
  /\ \A k \in 1 .. n : f[k] = "awaiting_near_signature" <=> k = n
  /\ \A k, m \in 1 .. n : f[k] = f[m] => k = m
  /\ \A k \in 1 .. n - 1 : f[k + 1] \in Late
       => f[k] \in Late \cup {"deploying_phala", "creating_droplet"}
  /\ f[1] = "generating_identity"
  /\ \A k \in 1 .. n : f[k] \notin Final \cup {"registering"}

LEMMA FlowOf ==
  ASSUME kind \in Kind
  PROVE  \E n \in {6, 7} : Flow \in Seq(ProvisionStatus) /\ Len(Flow) = n /\ ListOK(Flow, n)
<1>1. CASE kind = "worker"
  <2>1. Flow = provisionWorker
    BY <1>1 DEF Flow
  <2>2. Flow \in Seq(ProvisionStatus) /\ Len(Flow) = 6
    BY <2>1 DEF provisionWorker, ProvisionStatus
  <2>3. /\ Flow[1] = "generating_identity"
        /\ Flow[2] = "creating_space"
        /\ Flow[3] = "preparing_phala"
        /\ Flow[4] = "deploying_phala"
        /\ Flow[5] = "waiting_for_url"
        /\ Flow[6] = "awaiting_near_signature"
    BY <2>1 DEF provisionWorker
  <2>4. ListOK(Flow, 6)
    BY <2>3 DEF ListOK, Late, Final
  <2> QED
    BY <2>2, <2>4
<1>2. CASE kind = "coordinator"
  <2>1. Flow = provisionCoordinator
    BY <1>2 DEF Flow
  <2>2. Flow \in Seq(ProvisionStatus) /\ Len(Flow) = 7
    BY <2>1 DEF provisionCoordinator, ProvisionStatus
  <2>3. /\ Flow[1] = "generating_identity"
        /\ Flow[2] = "creating_space"
        /\ Flow[3] = "provisioning_ensue"
        /\ Flow[4] = "preparing_phala"
        /\ Flow[5] = "deploying_phala"
        /\ Flow[6] = "waiting_for_url"
        /\ Flow[7] = "awaiting_near_signature"
    BY <2>1 DEF provisionCoordinator
  <2>4. ListOK(Flow, 7)
    BY <2>3 DEF ListOK, Late, Final
  <2> QED
    BY <2>2, <2>4
<1>3. CASE kind = "ironclaw"
  <2>1. Flow = provisionIronClawWorker
    BY <1>3 DEF Flow
  <2>2. Flow \in Seq(ProvisionStatus) /\ Len(Flow) = 7
    BY <2>1 DEF provisionIronClawWorker, ProvisionStatus
  <2>3. /\ Flow[1] = "generating_identity"
        /\ Flow[2] = "creating_space"
        /\ Flow[3] = "creating_droplet"
        /\ Flow[4] = "waiting_for_ip"
        /\ Flow[5] = "waiting_for_ssh"
        /\ Flow[6] = "configuring_agent"
        /\ Flow[7] = "awaiting_near_signature"
    BY <2>1 DEF provisionIronClawWorker
  <2>4. ListOK(Flow, 7)
    BY <2>3 DEF ListOK, Late, Final
  <2> QED
    BY <2>2, <2>4
<1> QED
  BY <1>1, <1>2, <1>3, ProvisioningAssumption

\* Front leaves the last element out.
LEMMA RangesOf ==
  ASSUME NEW S, NEW f \in Seq(S), NEW n \in Nat \ {0}, Len(f) = n
  PROVE  /\ \A k \in 1 .. n : f[k] \in S
         /\ Range(Front(f)) = {f[k] : k \in 1 .. n - 1}
<1>1. \A k \in 1 .. n : f[k] \in S
  BY ElementOfSeq
<1>2. /\ Front(f) \in Seq(S) /\ Len(Front(f)) = n - 1
      /\ \A k \in 1 .. n - 1 : Front(f)[k] = f[k]
  <2>1. SubSeq(f, 1, n - 1) \in Seq(S)
    BY <1>1, SubSeqProperties
  <2>2. Len(SubSeq(f, 1, n - 1)) = n - 1
    BY <1>1, SubSeqProperties
  <2>3. \A k \in 1 .. n - 1 : SubSeq(f, 1, n - 1)[k] = f[k]
    BY <1>1, SubSeqProperties
  <2> QED
    BY <2>1, <2>2, <2>3 DEF Front
<1>3. DOMAIN f = 1 .. n /\ DOMAIN Front(f) = 1 .. n - 1
  BY <1>2
<1> QED
  BY <1>1, <1>2, <1>3 DEF Range

\* A job is worked on until it awaits its signature.
LEMMA WorkedOn ==
  ASSUME kind \in Kind
  PROVE  \A s \in Final \cup {"registering", "awaiting_near_signature"} : s \notin Range(Front(Flow))
<1>1. PICK n \in {6, 7} : Flow \in Seq(ProvisionStatus) /\ Len(Flow) = n /\ ListOK(Flow, n)
  BY FlowOf
<1>2. Range(Front(Flow)) = {Flow[k] : k \in 1 .. n - 1}
  BY <1>1, RangesOf
<1>3. \A k \in 1 .. n - 1 : Flow[k] \notin Final \cup {"registering", "awaiting_near_signature"}
  BY <1>1 DEF ListOK
<1> QED
  BY <1>2, <1>3

\* The next status of a job that is worked on.
LEMMA NextStatus ==
  ASSUME kind \in Kind, NEW s \in Range(Front(Flow))
  PROVE  LET i == CHOOSE k \in 1 .. Len(Flow) : Flow[k] = s IN
         /\ Flow[i + 1] \in ProvisionStatus \ Final
         /\ Flow[i + 1] \in Late => s \in Late \cup {"deploying_phala", "creating_droplet"}
<1> DEFINE i == CHOOSE k \in 1 .. Len(Flow) : Flow[k] = s
<1>1. PICK n \in {6, 7} : Flow \in Seq(ProvisionStatus) /\ Len(Flow) = n /\ ListOK(Flow, n)
  BY FlowOf
<1>2. /\ Range(Front(Flow)) = {Flow[k] : k \in 1 .. n - 1}
      /\ \A k \in 1 .. n : Flow[k] \in ProvisionStatus
  BY <1>1, RangesOf
<1>3. PICK m \in 1 .. n - 1 : s = Flow[m]
  BY <1>2
<1>4. i \in 1 .. n /\ Flow[i] = s
  BY <1>1, <1>3
<1> HIDE DEF i
<1>5. i = m
  BY <1>1, <1>3, <1>4 DEF ListOK
<1>6. Flow[m + 1] \in ProvisionStatus \ Final
  BY <1>1, <1>2, <1>3 DEF ListOK
<1>7. Flow[m + 1] \in Late => s \in Late \cup {"deploying_phala", "creating_droplet"}
  BY <1>1, <1>3 DEF ListOK
<1> QED
  BY <1>5, <1>6, <1>7 DEF i

-----------------------------------------------------------------------------
(* Views and machines, when the server or the page moves *)

\* What the server shows is a state of the page's.
LEMMA ViewType ==
  ASSUME ProvisioningTypeOK, NEW j \in JobId, job[j] # NoJob
  PROVE  View(j) \in JobState /\ View(j) # NoView /\ View(j).job = j
         /\ View(j).status = job[j].status /\ j \in 1 .. created
<1>1. job[j] \in ProvisionJob
  BY DEF ProvisioningTypeOK
<1>2. View(j) \in JobState
  BY <1>1, ProvisioningAssumption DEF View, JobState, ProvisionJob, JobId
<1> QED
  BY <1>2, ProvisioningAssumption DEF View, ProvisioningTypeOK, JobId

\* As long as the server stands still, settled jobs are the same ones.
LEMMA PageFrame ==
  ASSUME UNCHANGED <<job, machine, created, kind>>
  PROVE  \A j : Settled(j)' <=> Settled(j)
BY DEF Settled, Running, Flow

\* A step of the server keeps what is on its way to the page and on chain, if it
\* leaves the settled jobs alone and the machines of those that are past theirs.
LEMMA ServerFrame ==
  ASSUME Machines, ProvisioningTypeOK, created' >= created, created' \in Nat, UNCHANGED kind,
         \A j \in 1 .. created : Settled(j) => machine'[j] = "running" /\ ~Running(j)',
         \A j \in JobId : (job'[j] # NoJob /\ job'[j].status \in Late) => machine'[j] = "running",
         UNCHANGED <<signed, answers>>,
         Awaits(ui)' => Awaits(ui) /\ ui'.job = ui.job
  PROVE  Machines'
<1>1. \A j : Settled(j) => Settled(j)'
  BY DEF Settled, ProvisioningTypeOK
<1> QED
  BY <1>1 DEF Machines, Awaits

\* A POST on its way stays the first of its job while the server moves the others.
LEMMA RequestsFrame ==
  ASSUME ProvisioningTypeOK, Requests, NEW j \in JobId, job[j] # NoJob,
         \A k \in JobId \ {j} : job'[k] = job[k] /\ machine'[k] = machine[k],
         UNCHANGED <<requests, created>>
  PROVE  Requests'
<1>1. \A q \in requests : q.job # j /\ q.job \in JobId
  BY ProvisioningAssumption DEF ProvisioningTypeOK, Requests, JobId
<1>2. \A k \in JobId : k > created => k # j
  BY ProvisioningAssumption DEF ProvisioningTypeOK, JobId
<1>3. \A k \in JobId : k > created => machine'[k] = "none"
  BY <1>2 DEF Requests
<1>4. \A q \in requests : machine'[q.job] = "none" /\ job'[q.job] = NoJob
  BY <1>1 DEF Requests
<1> QED
  BY <1>3, <1>4 DEF Requests

-----------------------------------------------------------------------------
(* The steps *)

LEMMA InitHolds == ProvisioningInit => IInv
<1> SUFFICES ASSUME ProvisioningInit PROVE IInv
  OBVIOUS
<1>1. ProvisioningTypeOK
  BY ProvisioningAssumption DEF ProvisioningInit, ProvisioningTypeOK, NoPost
<1>2. Views /\ Machines /\ Requests /\ Contracts
  BY <1>1, ProvisioningAssumption
  DEF ProvisioningInit, Views, Machines, Requests, Contracts, OwnContract, Awaits
<1> QED
  BY <1>1, <1>2 DEF IInv

\* What a step does to its job, the next status being given a name.
LEMMA StepEffect ==
  ASSUME IInv, NEW j \in JobId, Step(j)
  PROVE  \E next \in ProvisionStatus \ Final :
           /\ next \in Late => job[j].status \in Late \/ AtMachine(j)
           /\ DOMAIN job' = JobId /\ \A k \in JobId \ {j} : job'[k] = job[k]
           /\ job'[j] = [job[j] EXCEPT !.status = next, !.key = TRUE,
                                       !.droplet = @ \/ job[j].status = "creating_droplet"]
           /\ job' = [k \in JobId |-> job'[k]]
<1> DEFINE i == CHOOSE k \in 1 .. Len(Flow) : Flow[k] = job[j].status
           next == Flow[i + 1]
<1>1. /\ ProvisioningTypeOK /\ job[j] \in ProvisionJob
      /\ job[j].status \in Range(Front(Flow)) /\ kind \in Kind
  BY DEF IInv, Step, ProvisioningTypeOK, Running
<1>2. /\ next \in ProvisionStatus \ Final
      /\ next \in Late => job[j].status \in Late \/ AtMachine(j)
  BY <1>1, NextStatus DEF AtMachine
<1>3. job' = [job EXCEPT ![j].status = next, ![j].key = TRUE,
                         ![j].droplet = @ \/ job[j].status = "creating_droplet"]
  BY DEF Step
<1> HIDE DEF i, next
<1>4. job = [k \in JobId |-> job[k]]
  BY <1>1 DEF ProvisioningTypeOK
<1>5. job[j] = [status |-> job[j].status, key |-> job[j].key, droplet |-> job[j].droplet,
                contract |-> job[j].contract]
  BY <1>1 DEF ProvisionJob
<1>6. /\ DOMAIN job' = JobId /\ \A k \in JobId \ {j} : job'[k] = job[k]
      /\ job'[j] = [job[j] EXCEPT !.status = next, !.key = TRUE,
                                  !.droplet = @ \/ job[j].status = "creating_droplet"]
      /\ job' = [k \in JobId |-> job'[k]]
  BY <1>3, <1>4, <1>5
<1> QED
  BY <1>2, <1>6

LEMMA StepKeeps == ASSUME IInv, NEW j \in JobId, Step(j) PROVE IInv'
<1>0. ProvisioningTypeOK /\ Views /\ Machines /\ Requests /\ Contracts /\ Running(j)
  BY DEF IInv, Step
<1>1. /\ job[j] \in ProvisionJob /\ job[j] # NoJob
      /\ job[j].status \in Range(Front(Flow)) /\ kind \in Kind
  BY <1>0 DEF ProvisioningTypeOK, Running
<1>2. PICK next \in ProvisionStatus \ Final :
        /\ next \in Late => job[j].status \in Late \/ AtMachine(j)
        /\ DOMAIN job' = JobId /\ \A k \in JobId \ {j} : job'[k] = job[k]
        /\ job'[j] = [job[j] EXCEPT !.status = next, !.key = TRUE,
                                    !.droplet = @ \/ job[j].status = "creating_droplet"]
        /\ job' = [k \in JobId |-> job'[k]]
  BY StepEffect
<1>3. /\ DOMAIN job' = JobId /\ \A k \in JobId \ {j} : job'[k] = job[k]
      /\ job' = [k \in JobId |-> job'[k]]
  BY <1>2
<1>4. job'[j] \in ProvisionJob /\ job'[j].contract = job[j].contract /\ job'[j].status = next
  BY <1>1, <1>2, <1>3 DEF ProvisionJob
<1>5. \A k \in JobId : (job'[k] # NoJob => job[k] # NoJob /\ job'[k].contract = job[k].contract)
  BY <1>1, <1>3, <1>4
<1>6. job' \in [JobId -> ProvisionJob \cup {NoJob}]
  BY <1>0, <1>3, <1>4 DEF ProvisioningTypeOK
<1>7. /\ UNCHANGED <<created, pageVars, factoryVars, kind, signed>>
      /\ machine' = [machine EXCEPT ![j] = IF AtMachine(j) THEN "running" ELSE @]
  BY DEF Step
<1>8. ProvisioningTypeOK'
  BY <1>0, <1>5, <1>6, <1>7 DEF ProvisioningTypeOK, pageVars, startVars, factoryVars
<1>9. Views'
  BY <1>0, <1>7 DEF Views, pageVars
<1>10. \A k \in 1 .. created : Settled(k) => machine'[k] = "running" /\ ~Running(k)'
  <2> SUFFICES ASSUME NEW k \in 1 .. created, Settled(k)
               PROVE  machine'[k] = "running" /\ ~Running(k)'
    OBVIOUS
  <2>1. k # j
    BY <1>0 DEF Settled
  <2>2. k \in JobId
    BY <1>0, ProvisioningAssumption DEF ProvisioningTypeOK, JobId
  <2>3. job'[k] = job[k] /\ machine'[k] = machine[k]
    BY <1>0, <1>3, <1>7, <2>1, <2>2 DEF ProvisioningTypeOK
  <2> QED
    BY <1>7, <2>3 DEF Settled, Running, Flow
<1>11. \A k \in JobId : (job'[k] # NoJob /\ job'[k].status \in Late) => machine'[k] = "running"
  <2> SUFFICES ASSUME NEW k \in JobId, job'[k] # NoJob, job'[k].status \in Late
               PROVE  machine'[k] = "running"
    OBVIOUS
  <2>1. CASE k = j
    BY <1>0, <1>1, <1>2, <1>4, <1>7, <2>1 DEF ProvisioningTypeOK, Machines
  <2>2. CASE k # j
    BY <1>0, <1>3, <1>7, <2>2 DEF ProvisioningTypeOK, Machines
  <2> QED
    BY <2>1, <2>2
<1>12. Machines'
  BY <1>0, <1>7, <1>10, <1>11, ServerFrame DEF ProvisioningTypeOK, pageVars, Awaits
<1>13. Contracts'
  BY <1>0, <1>5, <1>7
  DEF Contracts, Unused, OwnContract, pageVars, startVars, factoryVars
<1>14. Requests'
  <2>1. \A k \in JobId \ {j} : machine'[k] = machine[k]
    BY <1>0, <1>7 DEF ProvisioningTypeOK
  <2> QED
    BY <1>0, <1>1, <1>3, <1>7, <2>1, RequestsFrame DEF pageVars, startVars
<1> QED
  BY <1>8, <1>9, <1>12, <1>13, <1>14 DEF IInv

\* The steps that change no more than the status of a job that is not, or no longer,
\* worked on.
LEMMA StatusKeeps ==
  ASSUME IInv, NEW j \in JobId, job[j] # NoJob,
         NEW s \in ProvisionStatus, s \notin Range(Front(Flow)),
         job' = [job EXCEPT ![j].status = s],
         NEW m \in {"none", "running", "destroyed"}, machine' = [machine EXCEPT ![j] = m],
         s \in Late \/ Settled(j) => m = "running",
         UNCHANGED <<created, ui, stored, interval, answers, startVars, factoryVars, kind, signed>>,
         posting' \in [job : 0 .. created, sent : BOOLEAN],
         posting' # NoPost => posting'.job \in 1 .. created
  PROVE  IInv'
<1>0. ProvisioningTypeOK /\ Views /\ Machines /\ Requests /\ Contracts
  BY DEF IInv
<1>1. job[j] \in ProvisionJob
  BY <1>0 DEF ProvisioningTypeOK
<1>2. job'[j] = [job[j] EXCEPT !.status = s] /\ \A k \in JobId \ {j} : job'[k] = job[k]
  BY <1>0 DEF ProvisioningTypeOK
<1>3. job'[j] \in ProvisionJob /\ job'[j].contract = job[j].contract /\ job'[j].status = s
  BY <1>1, <1>2 DEF ProvisionJob
<1>4. \A k \in JobId : (job'[k] # NoJob => job[k] # NoJob /\ job'[k].contract = job[k].contract)
  BY <1>2, <1>3
<1>5. job' \in [JobId -> ProvisionJob \cup {NoJob}]
  BY <1>0, <1>2, <1>3 DEF ProvisioningTypeOK
<1>6. machine' \in [JobId -> {"none", "running", "destroyed"}]
  BY <1>0 DEF ProvisioningTypeOK
<1>7. ProvisioningTypeOK'
  BY <1>0, <1>4, <1>5, <1>6 DEF ProvisioningTypeOK, startVars, factoryVars
<1>8. Views'
  BY <1>0 DEF Views
<1>9. \A k \in 1 .. created : Settled(k) => machine'[k] = "running" /\ ~Running(k)'
  <2> SUFFICES ASSUME NEW k \in 1 .. created, Settled(k)
               PROVE  machine'[k] = "running" /\ ~Running(k)'
    OBVIOUS
  <2>1. k \in JobId /\ machine[k] = "running" /\ ~Running(k)
    BY <1>0, ProvisioningAssumption DEF ProvisioningTypeOK, JobId, Settled
  <2>2. Flow' = Flow
    BY DEF Flow
  <2>3. CASE k = j
    BY <1>0, <1>3, <2>2, <2>3 DEF Running, ProvisioningTypeOK
  <2>4. CASE k # j
    <3>1. job'[k] = job[k] /\ machine'[k] = machine[k]
      BY <1>0, <1>2, <2>1, <2>4 DEF ProvisioningTypeOK
    <3> QED
      BY <2>1, <2>2, <3>1 DEF Running
  <2> QED
    BY <2>3, <2>4
<1>10. \A k \in JobId : (job'[k] # NoJob /\ job'[k].status \in Late) => machine'[k] = "running"
  BY <1>0, <1>2, <1>3 DEF ProvisioningTypeOK, Machines
<1>11. Machines'
  BY <1>0, <1>9, <1>10, ServerFrame DEF ProvisioningTypeOK, Awaits
<1>12. Contracts'
  BY <1>0, <1>4 DEF Contracts, Unused, OwnContract, startVars, factoryVars
<1>13. Requests'
  <2>1. \A k \in JobId \ {j} : machine'[k] = machine[k]
    BY <1>0 DEF ProvisioningTypeOK
  <2> QED
    BY <1>0, <1>2, <2>1, RequestsFrame DEF startVars
<1> QED
  BY <1>7, <1>8, <1>11, <1>12, <1>13 DEF IInv

LEMMA BreakKeeps == ASSUME IInv, NEW j \in JobId, Break(j) PROVE IInv'
<1>1. job[j] # NoJob /\ "failed" \notin Range(Front(Flow)) /\ ~Settled(j)
  BY WorkedOn DEF IInv, ProvisioningTypeOK, Break, Running, Settled, Final
<1>2. PICK m \in {"none", "running", "destroyed"} : machine' = [machine EXCEPT ![j] = m]
  BY DEF IInv, ProvisioningTypeOK, Break, destroyDroplet
<1> QED
  BY <1>1, <1>2, StatusKeeps
  DEF Break, IInv, ProvisioningTypeOK, Views, pageVars, Late, ProvisionStatus

LEMMA FinishRegisterKeeps == ASSUME IInv, NEW j \in JobId, FinishRegister(j) PROVE IInv'
<1>1. job[j] # NoJob /\ "complete" \notin Range(Front(Flow)) /\ machine[j] = "running"
  BY WorkedOn DEF IInv, ProvisioningTypeOK, Machines, FinishRegister, Registering, Final, Late
<1>2. machine' = [machine EXCEPT ![j] = "running"]
  BY <1>1 DEF IInv, ProvisioningTypeOK, FinishRegister
<1> QED
  BY <1>1, <1>2, StatusKeeps
  DEF FinishRegister, IInv, ProvisioningTypeOK, Views, pageVars, ProvisionStatus

LEMMA PostRegisterKeeps == ASSUME IInv, PostRegister PROVE IInv'
<1> DEFINE j == posting.job
<1>1. /\ j \in JobId /\ j \in 1 .. created
      /\ posting' = [job |-> j, sent |-> TRUE]
  <2>1. posting \in [job : 0 .. created, sent : BOOLEAN] /\ created \in 0 .. MaxJobs
    BY DEF IInv, ProvisioningTypeOK
  <2>2. posting # NoPost /\ posting' = [posting EXCEPT !.sent = TRUE]
    BY DEF PostRegister
  <2>3. j \in 1 .. created
    BY <2>2 DEF IInv, Views
  <2>4. j \in JobId
    BY <2>1, <2>3, ProvisioningAssumption DEF JobId
  <2> QED
    BY <2>1, <2>2, <2>3, <2>4
<1> HIDE DEF j
<1>2. CASE UNCHANGED job
  <2>1. ProvisioningTypeOK'
    BY <1>1, <1>2 DEF IInv, ProvisioningTypeOK, PostRegister, startVars, factoryVars
  <2>2. Views'
    BY <1>1 DEF IInv, Views, PostRegister
  <2>3. Machines'
    BY <1>2, PageFrame DEF IInv, Machines, PostRegister, Awaits
  <2>4. Contracts'
    BY <1>2 DEF IInv, Contracts, Unused, OwnContract, PostRegister, startVars, factoryVars
  <2>5. Requests'
    BY <1>2 DEF IInv, Requests, PostRegister, startVars
  <2> QED
    BY <2>1, <2>2, <2>3, <2>4, <2>5 DEF IInv
<1>3. ASSUME Awaiting(j), NEW s \in {"registering", "complete"},
             job' = [job EXCEPT ![j].status = s]
      PROVE  IInv'
  <2>1. job[j] # NoJob /\ s \notin Range(Front(Flow)) /\ machine[j] = "running"
    BY <1>1, <1>3, WorkedOn DEF IInv, ProvisioningTypeOK, Machines, Awaiting, Final, Late
  <2>2. machine' = [machine EXCEPT ![j] = "running"]
    BY <2>1 DEF IInv, ProvisioningTypeOK, PostRegister
  <2>3. s \in ProvisionStatus
    BY <1>3 DEF ProvisionStatus
  <2>4. UNCHANGED <<created, ui, stored, interval, answers, startVars, factoryVars, kind, signed>>
    BY DEF PostRegister
  <2>5. posting' \in [job : 0 .. created, sent : BOOLEAN] /\ posting'.job \in 1 .. created
    BY <1>1 DEF IInv, ProvisioningTypeOK
  <2> QED
    BY <1>1, <1>3, <2>1, <2>2, <2>3, <2>4, <2>5, StatusKeeps
<1> QED
  BY <1>2, <1>3 DEF PostRegister, register, coordinator_register, j

LEMMA CrashKeeps == ASSUME IInv, Crash PROVE IInv'
<1>1. ProvisioningTypeOK'
  BY DEF IInv, ProvisioningTypeOK, Crash, pageVars, startVars, factoryVars
<1>2. Views'
  BY DEF IInv, Views, Crash, pageVars
<1>3. Machines'
  <2>1. \A k \in 1 .. created : Settled(k) => machine'[k] = "running" /\ ~Running(k)'
    BY ProvisioningAssumption DEF IInv, ProvisioningTypeOK, Crash, Settled, Running, JobId
  <2> QED
    BY <2>1, ServerFrame DEF IInv, ProvisioningTypeOK, Crash, pageVars, Awaits
<1>4. Contracts'
  BY DEF IInv, Contracts, Unused, OwnContract, Crash, pageVars, startVars, factoryVars
<1>5. Requests'
  BY ProvisioningAssumption
  DEF IInv, Requests, ProvisioningTypeOK, Crash, pageVars, startVars, JobId
<1> QED
  BY <1>1, <1>2, <1>3, <1>4, <1>5 DEF IInv

\* What the server shows as waiting for its signature is settled.
LEMMA ShownIsSettled ==
  ASSUME IInv, NEW j \in JobId, job[j] # NoJob, Awaits(View(j))
  PROVE  Settled(j)
<1>1. job[j].status = "awaiting_near_signature" /\ j \in 1 .. created
  BY ViewType DEF IInv, Awaits
<1>2. machine[j] = "running" /\ ~Running(j)
  BY <1>1, WorkedOn DEF IInv, ProvisioningTypeOK, Machines, Late, Running
<1> QED
  BY <1>1, <1>2 DEF Settled

\* A step of the page, with the server standing still: it shows or signs only what
\* was settled, and holds no new contract but one that the factory has made.
LEMMA PageKeeps ==
  ASSUME IInv, UNCHANGED <<job, machine, created, kind>>, ProvisioningTypeOK', Views',
         \A j \in signed' : j \in signed \/ Settled(j),
         Awaits(ui)' => Settled(ui'.job),
         \A a \in answers' : Awaits(a.view) => a \in answers \/ Settled(a.view.job),
         deployed \subseteq deployed', address' \in deployed' \cup {NoPrefix},
         requests' \subseteq requests,
         (ui' = NoView /\ starting' = 0 /\ address' # NoPrefix)
           => \/ ui = NoView /\ starting = 0 /\ address' = address
              \/ address' \notin deployed
  PROVE  IInv'
<1>1. Machines'
  BY PageFrame DEF IInv, Machines, Awaits
<1>2. Contracts'
  <2>1. (ui' = NoView /\ starting' = 0 /\ address' # NoPrefix) => Unused(address)'
    <3>1. SUFFICES ASSUME ui' = NoView, starting' = 0, address' # NoPrefix
                   PROVE  Unused(address)'
      OBVIOUS
    <3>2. CASE ui = NoView /\ starting = 0 /\ address' = address
      BY <3>1, <3>2 DEF IInv, Contracts, Unused
    <3>3. CASE address' \notin deployed
      BY <3>1, <3>3 DEF IInv, Contracts, Unused
    <3> QED
      BY <3>1, <3>2, <3>3
  <2> QED
    BY <2>1 DEF IInv, Contracts, OwnContract
<1>3. Requests'
  BY DEF IInv, Requests
<1> QED
  BY <1>1, <1>2, <1>3 DEF IInv

LEMMA PollStatusKeeps == ASSUME IInv, pollStatus PROVE IInv'
<1>1. interval \in JobId /\ job[interval] # NoJob
  BY ProvisioningAssumption DEF IInv, ProvisioningTypeOK, pollStatus, JobId
<1>2. /\ View(interval) \in JobState /\ View(interval) # NoView
      /\ View(interval).job = interval /\ interval \in 1 .. created
  BY <1>1, ViewType DEF IInv
<1>3. Awaits(View(interval)) => Settled(View(interval).job)
  BY <1>1, <1>2, ShownIsSettled
<1>4. answers' = answers \cup {[view |-> View(interval), via |-> "timer"]}
  BY DEF pollStatus
<1>5. ProvisioningTypeOK'
  BY <1>2, <1>4 DEF IInv, ProvisioningTypeOK, pollStatus, serverVars, startVars, factoryVars
<1>6. Views'
  BY <1>2, <1>4 DEF IInv, Views, pollStatus, serverVars
<1> QED
  BY <1>3, <1>4, <1>5, <1>6, PageKeeps
  DEF pollStatus, serverVars, startVars, factoryVars, IInv, Machines, Contracts, Awaits

\* An answer the page gets is of a job it may show.
LEMMA AnswerType ==
  ASSUME IInv, NEW a \in answers
  PROVE  /\ a.view \in JobState \cup {NoView}
         /\ a.view # NoView => a.view \in JobState /\ a.view.job \in 1 .. created
         /\ a.via = "timer" => a.view # NoView
         /\ Awaits(a.view) => Settled(a.view.job)
BY DEF IInv, ProvisioningTypeOK, Views, Machines

LEMMA AnswersKeep ==
  ASSUME IInv, NEW a \in answers, PollAnswered(a) \/ Resume(a) \/ ResumeFails(a)
  PROVE  IInv'
<1>1. /\ UNCHANGED <<serverVars, posting, startVars, factoryVars, kind, signed>>
      /\ answers' = answers \ {a}
      /\ ui' = ui \/ (ui' = a.view /\ a.view # NoView)
  BY AnswerType DEF PollAnswered, Resume, ResumeFails
<1>2. stored' \in 0 .. created
  BY DEF IInv, ProvisioningTypeOK, PollAnswered, Resume, ResumeFails
<1>3. interval' \in 0 .. created
  BY AnswerType DEF IInv, ProvisioningTypeOK, PollAnswered, Resume, ResumeFails
<1>4. ProvisioningTypeOK'
  BY <1>1, <1>2, <1>3, AnswerType
  DEF IInv, ProvisioningTypeOK, serverVars, startVars, factoryVars
<1>5. Views'
  BY <1>1, AnswerType DEF IInv, Views, serverVars
<1>6. Awaits(ui)' => Settled(ui'.job)
  BY <1>1, AnswerType DEF IInv, Machines, Awaits
<1> QED
  BY <1>1, <1>4, <1>5, <1>6, PageKeeps
  DEF IInv, Contracts, serverVars, startVars, factoryVars

LEMMA ReloadKeeps == ASSUME IInv, Reload PROVE IInv'
<1>1. \A a \in answers' :
        /\ a \in [view : JobState \cup {NoView}, via : {"timer", "mount"}]
        /\ a.via = "mount"
        /\ a.view # NoView => a.view.job \in 1 .. created
        /\ Awaits(a.view) => Settled(a.view.job)
  <2> SUFFICES ASSUME stored # 0, job[stored] # NoJob,
                      answers' = {[view |-> View(stored), via |-> "mount"]}
               PROVE  /\ View(stored) \in JobState /\ View(stored).job \in 1 .. created
                      /\ Awaits(View(stored)) => Settled(View(stored).job)
    BY DEF Reload, Awaits
  <2>1. stored \in JobId
    BY ProvisioningAssumption DEF IInv, ProvisioningTypeOK, JobId
  <2> QED
    BY <2>1, ViewType, ShownIsSettled DEF IInv
<1>2. ProvisioningTypeOK'
  BY <1>1 DEF IInv, ProvisioningTypeOK, Reload, serverVars, NoPost
<1>3. Views'
  BY <1>1 DEF IInv, Views, Reload, serverVars
<1> QED
  BY <1>1, <1>2, <1>3, PageKeeps DEF Reload, serverVars, Awaits

\* The calls of the user before a job is started.
LEMMA FactoryKeeps ==
  ASSUME IInv, (\E p \in Prefix : Configure(p)) \/ SignFactory
  PROVE  IInv'
<1>1. UNCHANGED <<serverVars, pageVars, kind, signed>>
  BY DEF Configure, SignFactory
<1>2. pending' \in Prefix \cup {NoPrefix} /\ address' \in Prefix \cup {NoPrefix}
      /\ deployed' \subseteq Prefix
  BY DEF IInv, ProvisioningTypeOK, Configure, SignFactory, create_coordinator
<1>3. /\ deployed \subseteq deployed' /\ address' \in deployed' \cup {NoPrefix}
      /\ address' = address \/ address' \notin deployed
  BY DEF IInv, Contracts, Configure, SignFactory, create_coordinator
<1>4. ProvisioningTypeOK'
  BY <1>1, <1>2 DEF IInv, ProvisioningTypeOK, serverVars, pageVars, startVars
<1>5. Views'
  BY <1>1 DEF IInv, Views, serverVars, pageVars
<1> QED
  BY <1>1, <1>3, <1>4, <1>5, PageKeeps
  DEF IInv, Machines, serverVars, pageVars, startVars, Awaits

LEMMA SignKeeps == ASSUME IInv, Sign \/ Skip PROVE IInv'
<1>1. /\ UNCHANGED <<serverVars, ui, stored, interval, answers, startVars, factoryVars, kind>>
      /\ posting' = [job |-> ui.job, sent |-> FALSE]
      /\ signed' \subseteq signed \cup {ui.job}
      /\ Awaits(ui)
  BY DEF Sign, Skip, Awaits
<1>2. Settled(ui.job) /\ ui.job \in 1 .. created /\ ui.job \in JobId
  BY <1>1, ProvisioningAssumption DEF IInv, ProvisioningTypeOK, Machines, Settled, JobId
<1>3. ProvisioningTypeOK'
  BY <1>1, <1>2 DEF IInv, ProvisioningTypeOK, serverVars, startVars, factoryVars
<1>4. Views'
  BY <1>1, <1>2 DEF IInv, Views, serverVars
<1> QED
  BY <1>1, <1>2, <1>3, <1>4, PageKeeps
  DEF IInv, Contracts, serverVars, startVars, factoryVars

LEMMA CloseKeeps == ASSUME IInv, Close PROVE IInv'
<1>1. ui' \in JobState \cup {NoView} /\ (ui' = NoView <=> ui = NoView) /\ ~Awaits(ui')
      /\ (ui' # NoView => ui'.job = ui.job)
  BY ProvisioningAssumption DEF IInv, ProvisioningTypeOK, Close, JobState, ProvisionStatus, Awaits
<1>2. ProvisioningTypeOK'
  BY <1>1 DEF IInv, ProvisioningTypeOK, Close, serverVars, startVars, factoryVars, NoPost
<1>3. Views'
  BY <1>1 DEF IInv, Views, Close, serverVars
<1> QED
  BY <1>1, <1>2, <1>3, PageKeeps
  DEF Close, IInv, Contracts, Awaits, serverVars, startVars, factoryVars

LEMMA ResetKeeps == ASSUME IInv, Reset PROVE IInv'
<1>1. ProvisioningTypeOK'
  BY DEF IInv, ProvisioningTypeOK, Reset, serverVars, startVars
<1>2. Views'
  BY DEF IInv, Views, Reset, serverVars
<1> QED
  BY <1>1, <1>2, PageKeeps DEF Reset, serverVars, startVars, Awaits

\* What the page shows of a start that failed, or was answered, waits for nothing.
LEMMA StartShown ==
  ASSUME NEW j \in 0 .. MaxJobs, NEW s \in {"generating_identity", "failed"},
         ui' = [job |-> j, status |-> s, key |-> FALSE]
  PROVE  ui' \in JobState /\ ui' # NoView /\ ~Awaits(ui') /\ ui'.job = j
<1>1. ui' \in JobState /\ ui'.job = j
  BY DEF JobState, ProvisionStatus
<1> QED
  BY <1>1, ProvisioningAssumption DEF Awaits

\* The end of a start is a step of the page, whether its POST has arrived, is lost, or
\* is still to come.
LEMMA StartEnds == ASSUME IInv, StartAnswered \/ StartFails PROVE IInv'
<1>1. /\ UNCHANGED <<serverVars, answers, posting, factoryVars, kind, signed>>
      /\ requests' \subseteq requests /\ starting' = 0 /\ starting \in 0 .. created
      /\ stored' \in {stored, starting} /\ interval' \in {interval, starting}
  BY DEF StartAnswered, StartFails, IInv, ProvisioningTypeOK
<1>2. created \in 0 .. MaxJobs /\ MaxJobs \in Nat
  BY ProvisioningAssumption DEF IInv, ProvisioningTypeOK
<1>3. ui' \in JobState /\ ui' # NoView /\ ~Awaits(ui') /\ ui'.job <= created
  <2>1. PICK j \in 0 .. created, s \in {"generating_identity", "failed"} :
          ui' = [job |-> j, status |-> s, key |-> FALSE]
    <3>1. \/ ui' = [job |-> starting, status |-> "generating_identity", key |-> FALSE]
          \/ ui' = [job |-> 0, status |-> "failed", key |-> FALSE]
      BY DEF StartAnswered, StartFails
    <3> QED
      BY <1>1, <1>2, <3>1
  <2>2. j \in 0 .. MaxJobs /\ j <= created
    BY <1>2
  <2> QED
    BY <2>1, <2>2, StartShown
<1>4. ProvisioningTypeOK'
  BY <1>1, <1>2, <1>3 DEF IInv, ProvisioningTypeOK, serverVars, factoryVars
<1>5. Views'
  BY <1>1, <1>3 DEF IInv, Views, serverVars
<1> QED
  BY <1>1, <1>3, <1>4, <1>5, PageKeeps
  DEF IInv, Contracts, Awaits, serverVars, factoryVars

\* A start takes the next job, of which there is nothing yet, and its contract, which
\* nothing has yet.
LEMMA StartKeeps == ASSUME IInv, startProvision PROVE IInv'
<1> DEFINE j == created + 1
           q == [job |-> j, contract |-> address]
<1>1. /\ created' = j /\ starting' = j /\ requests' = requests \cup {q}
      /\ ui = NoView /\ starting = 0
      /\ UNCHANGED <<job, machine, ui, stored, interval, answers, posting, factoryVars, kind, signed>>
  BY DEF startProvision
<1>2. /\ created \in Nat /\ j \in JobId /\ j \in 1 .. MaxJobs /\ created < j
      /\ \A k \in 1 .. created : k \in 1 .. j /\ k # j /\ k \in JobId
      /\ \A k \in 0 .. created : k \in 0 .. j
  BY ProvisioningAssumption DEF IInv, ProvisioningTypeOK, startProvision, JobId
<1>3. job[j] = NoJob /\ machine[j] = "none" /\ q.job = j /\ q.contract = address
  BY <1>2 DEF IInv, ProvisioningTypeOK, Requests
<1> HIDE DEF j, q
<1>4. q \in [job : 1 .. j, contract : Prefix \cup {NoPrefix}]
  BY <1>2 DEF IInv, ProvisioningTypeOK, q
<1>5. ProvisioningTypeOK'
  <2>1. requests' \subseteq [job : 1 .. j, contract : Prefix \cup {NoPrefix}]
    BY <1>1, <1>2, <1>4 DEF IInv, ProvisioningTypeOK
  <2>2. posting' \in [job : 0 .. j, sent : BOOLEAN]
    BY <1>1, <1>2 DEF IInv, ProvisioningTypeOK
  <2>3. \A k \in JobId : job'[k] # NoJob => k <= j
    BY <1>1, <1>2 DEF IInv, ProvisioningTypeOK, JobId
  <2>4. stored' \in 0 .. j /\ interval' \in 0 .. j /\ starting' \in 0 .. j /\ j \in 0 .. MaxJobs
    BY <1>1, <1>2 DEF IInv, ProvisioningTypeOK
  <2> QED
    BY <1>1, <2>1, <2>2, <2>3, <2>4 DEF IInv, ProvisioningTypeOK, factoryVars
<1>6. Views'
  <2>1. ui # NoView => ui.job <= j
    BY <1>1
  <2> QED
    BY <1>1, <1>2, <2>1 DEF IInv, Views
<1>7. Machines'
  <2>1. \A k \in 1 .. created : Settled(k) => machine'[k] = "running" /\ ~Running(k)'
    BY <1>1 DEF Settled, Running, Flow
  <2>2. \A k \in JobId : (job'[k] # NoJob /\ job'[k].status \in Late) => machine'[k] = "running"
    BY <1>1 DEF IInv, Machines
  <2>3. created' >= created /\ created' \in Nat
    BY <1>1, <1>2, ProvisioningAssumption DEF j
  <2>4. UNCHANGED <<signed, answers, kind>> /\ (Awaits(ui)' => Awaits(ui) /\ ui'.job = ui.job)
    BY <1>1 DEF Awaits
  <2> QED
    BY <2>1, <2>2, <2>3, <2>4, ServerFrame DEF IInv
<1>8. Requests'
  <2>1. \A p \in requests : p.job # j
    BY <1>2 DEF IInv, ProvisioningTypeOK
  <2>2. \A k \in JobId : k > j => machine[k] = "none"
    BY <1>2, ProvisioningAssumption DEF IInv, Requests, JobId, j
  <2>3. \A p \in requests' : machine'[p.job] = "none" /\ job'[p.job] = NoJob
    BY <1>1, <1>3 DEF IInv, Requests
  <2>4. \A p, r \in requests' : p.job = r.job => p = r
    BY <1>1, <1>3, <2>1 DEF IInv, Requests
  <2> QED
    BY <1>1, <2>2, <2>3, <2>4 DEF Requests
<1>9. Contracts'
  <2>1. address # NoPrefix => Unused(address)
    BY <1>1 DEF IInv, Contracts
  <2>2. starting' # 0
    BY <1>1, <1>2
  <2>3. \A p \in requests' : p.contract \in deployed \cup {NoPrefix}
    BY <1>1, <1>3 DEF IInv, Contracts
  <2>4. \A p \in requests' : p.contract # NoPrefix =>
          /\ \A k \in JobId : job[k] # NoJob => job[k].contract # p.contract
          /\ \A r \in requests' : r.contract = p.contract => r = p
    BY <1>1, <1>3, <2>1 DEF IInv, Contracts, Unused
  <2>5. address' \in deployed' \cup {NoPrefix} /\ deployed' = deployed /\ job' = job
    BY <1>1 DEF IInv, Contracts, factoryVars
  <2> QED
    BY <2>2, <2>3, <2>4, <2>5 DEF IInv, Contracts, OwnContract
<1> QED
  BY <1>5, <1>6, <1>7, <1>8, <1>9 DEF IInv

\* A job begins when its POST arrives, with the contract that came with it.
LEMMA CreateKeeps == ASSUME IInv, NEW q \in requests, CreateJob(q) PROVE IInv'
<1> DEFINE j == q.job
           new == NewJob(q.contract)
<1>1. /\ requests' = requests \ {q} /\ job' = [job EXCEPT ![j] = new]
      /\ UNCHANGED <<machine, created, ui, stored, interval, answers, posting, starting>>
      /\ UNCHANGED <<factoryVars, kind, signed>>
  BY DEF CreateJob
<1>2. /\ j \in JobId /\ j \in 1 .. created /\ machine[j] = "none" /\ job[j] = NoJob
      /\ created \in Nat /\ \A k \in 1 .. created : k \in JobId
  BY ProvisioningAssumption DEF IInv, ProvisioningTypeOK, Requests, JobId
<1>3. /\ new \in ProvisionJob /\ new.contract = q.contract
      /\ new.status = "generating_identity"
  BY DEF IInv, ProvisioningTypeOK, NewJob, ProvisionJob, ProvisionStatus
<1> HIDE DEF j, new
<1>4. job'[j] = new /\ \A k \in JobId \ {j} : job'[k] = job[k]
  BY <1>1, <1>2 DEF IInv, ProvisioningTypeOK
<1>5. job' \in [JobId -> ProvisionJob \cup {NoJob}]
  BY <1>1, <1>2, <1>3 DEF IInv, ProvisioningTypeOK
<1>6. ProvisioningTypeOK'
  <2>1. \A k \in JobId : job'[k] # NoJob => k <= created
    BY <1>2, <1>4 DEF IInv, ProvisioningTypeOK
  <2> QED
    BY <1>1, <1>5, <2>1 DEF IInv, ProvisioningTypeOK, factoryVars
<1>7. Views'
  BY <1>1 DEF IInv, Views
<1>8. Machines'
  <2>1. \A k \in 1 .. created : Settled(k) => machine'[k] = "running" /\ ~Running(k)'
    BY <1>1, <1>2, <1>4 DEF Settled, Running, Flow
  <2>2. \A k \in JobId : (job'[k] # NoJob /\ job'[k].status \in Late) => machine'[k] = "running"
    BY <1>1, <1>3, <1>4 DEF IInv, Machines, Late
  <2> QED
    BY <1>1, <1>2, <2>1, <2>2, ServerFrame DEF IInv, Awaits
<1>9. Requests'
  <2>1. \A p \in requests \ {q} : p.job # j /\ p.job \in JobId
    BY ProvisioningAssumption DEF IInv, ProvisioningTypeOK, Requests, JobId, j
  <2> QED
    BY <1>1, <1>4, <2>1 DEF IInv, Requests
<1>10. Contracts'
  <2>1. \A k \in JobId : job'[k] # NoJob => job'[k].contract \in deployed \cup {NoPrefix}
    BY <1>3, <1>4 DEF IInv, Contracts
  <2>2. \A p \in requests \ {q} : p.contract # NoPrefix => p.contract # q.contract
    BY DEF IInv, Contracts
  <2>3. \A p \in requests' : p.contract # NoPrefix =>
          /\ \A k \in JobId : job'[k] # NoJob => job'[k].contract # p.contract
          /\ \A r \in requests' : r.contract = p.contract => r = p
    BY <1>1, <1>3, <1>4, <2>2 DEF IInv, Contracts
  <2>4. OwnContract'
    BY <1>3, <1>4 DEF IInv, Contracts, OwnContract
  <2>5. (ui = NoView /\ starting = 0 /\ address # NoPrefix) =>
          \A k \in JobId : job'[k] # NoJob => job'[k].contract # address
    BY <1>3, <1>4 DEF IInv, Contracts, Unused
  <2>6. (ui' = NoView /\ starting' = 0 /\ address' # NoPrefix) => Unused(address)'
    BY <1>1, <2>5 DEF IInv, Contracts, Unused, factoryVars
  <2> QED
    BY <1>1, <2>1, <2>3, <2>4, <2>6 DEF IInv, Contracts, factoryVars
<1> QED
  BY <1>6, <1>7, <1>8, <1>9, <1>10 DEF IInv

LEMMA NextKeeps == IInv /\ [ProvisioningNext]_provisioningVars => IInv'
<1> SUFFICES ASSUME IInv, [ProvisioningNext]_provisioningVars PROVE IInv'
  OBVIOUS
<1>1. CASE UNCHANGED provisioningVars
  <2>1. ProvisioningTypeOK' /\ Views'
    BY <1>1
    DEF IInv, ProvisioningTypeOK, Views, provisioningVars, serverVars, pageVars, startVars,
        factoryVars
  <2> QED
    BY <1>1, <2>1, PageKeeps
    DEF IInv, Machines, Contracts, Awaits, provisioningVars, serverVars, pageVars, startVars,
        factoryVars
<1>2. ASSUME NEW j \in JobId, Server(j) PROVE IInv'
  BY <1>2, StepKeeps, BreakKeeps, FinishRegisterKeeps DEF Server
<1> QED
  BY <1>1, <1>2, CrashKeeps, PollStatusKeeps, AnswersKeep, ReloadKeeps, FactoryKeeps,
     SignKeeps, CloseKeeps, ResetKeeps, StartKeeps, StartEnds, CreateKeeps, PostRegisterKeeps
  DEF ProvisioningNext

-----------------------------------------------------------------------------
(* The theorems *)

\* The inductive invariant holds in every state of every behaviour.
THEOREM InvariantHolds == ProvisioningSpec => []IInv
BY InitHolds, NextKeeps, PTL DEF ProvisioningSpec

\* What was registered on chain has its machine, and no two jobs have one contract,
\* over any number of reloads, faults and restarts, with late answers and without.
THEOREM BoughtIsBacked == ProvisioningSpec => []ProvisioningInv
<1>1. IInv => ProvisioningInv
  BY DEF IInv, Machines, Contracts, Settled, ProvisioningInv, RegisteredHasMachine
<1> QED
  BY <1>1, InvariantHolds, PTL

-----------------------------------------------------------------------------
(* Droplets, as long as the cloud answers *)

\* A machine that runs is one whose id the job knows, and a failed job has none.
Droplets ==
  (kind = "ironclaw" /\ faults = 0) => \A j \in JobId :
    machine[j] = "running" => job[j] # NoJob /\ job[j].droplet /\ job[j].status # "failed"

\* A droplet is the only machine this kind of agent gets.
LEMMA DropletFlow ==
  ASSUME kind = "ironclaw", kind \in Kind
  PROVE  \A s \in Range(Front(Flow)) : s # "deploying_phala"
<1>1. Flow = provisionIronClawWorker
  BY DEF Flow
<1>2. PICK n \in {6, 7} : Flow \in Seq(ProvisionStatus) /\ Len(Flow) = n /\ ListOK(Flow, n)
  BY FlowOf
<1>3. Range(Front(Flow)) = {Flow[k] : k \in 1 .. n - 1}
  BY <1>2, RangesOf
<1>4. Flow[1] = "generating_identity" /\ Flow[2] = "creating_space" /\ Flow[3] = "creating_droplet"
      /\ Flow[4] = "waiting_for_ip" /\ Flow[5] = "waiting_for_ssh" /\ Flow[6] = "configuring_agent"
  BY <1>1 DEF provisionIronClawWorker
<1>5. \A k \in 1 .. n - 1 : Flow[k] # "deploying_phala"
  BY <1>4
<1> QED
  BY <1>3, <1>5

\* Faults are only counted up, and once there were any there always are.
LEMMA FaultsGrow ==
  ASSUME faults \in Nat, [ProvisioningNext]_provisioningVars
  PROVE  faults' \in Nat /\ (faults' = 0 => faults = 0 /\ ~Fault)
<1>1. UNCHANGED faults \/ Fault
  BY DEF ProvisioningNext, Server, Step, Break, destroyDroplet, FinishRegister, Crash, pollStatus,
     PollAnswered, Resume, ResumeFails, Reload, Configure, SignFactory, CreateJob,
     startProvision, StartAnswered, StartFails, Sign, Skip, PostRegister, Close, Answered,
     Reset, provisioningVars
<1>2. Fault => faults' = faults + 1
  BY DEF Fault
<1> QED
  BY <1>1, <1>2

LEMMA DropletsNext ==
  IInv /\ faults \in Nat /\ Droplets /\ [ProvisioningNext]_provisioningVars => Droplets'
<1> SUFFICES ASSUME IInv, faults \in Nat, Droplets, [ProvisioningNext]_provisioningVars,
                    kind' = "ironclaw", faults' = 0
             PROVE  \A j \in JobId : machine'[j] = "running" =>
                      job'[j] # NoJob /\ job'[j].droplet /\ job'[j].status # "failed"
  BY DEF Droplets
<1>1. /\ kind = "ironclaw" /\ kind' = kind /\ ~Fault
      /\ \A j \in JobId : machine[j] = "running" =>
           job[j] # NoJob /\ job[j].droplet /\ job[j].status # "failed"
  <2>1. kind' = kind
    BY DEF ProvisioningNext, Server, Step, Break, FinishRegister, Crash, pollStatus,
       PollAnswered, Resume, ResumeFails, Reload, Configure, SignFactory, CreateJob,
       startProvision, StartAnswered, StartFails, Sign, Skip, PostRegister, Close, Reset,
       provisioningVars
  <2> QED
    BY <2>1, FaultsGrow DEF Droplets
<1>2. CASE UNCHANGED <<job, machine>>
  BY <1>1, <1>2
<1>3. ASSUME NEW j \in JobId, Step(j)
      PROVE  \A k \in JobId : machine'[k] = "running" =>
               job'[k] # NoJob /\ job'[k].droplet /\ job'[k].status # "failed"
  <2>1. job[j] \in ProvisionJob /\ job[j].status \in Range(Front(Flow))
    BY <1>3 DEF IInv, ProvisioningTypeOK, Step, Running
  <2>2. PICK next \in ProvisionStatus \ Final :
          /\ \A k \in JobId \ {j} : job'[k] = job[k]
          /\ job'[j] = [job[j] EXCEPT !.status = next, !.key = TRUE,
                                      !.droplet = @ \/ job[j].status = "creating_droplet"]
    BY <1>3, StepEffect
  <2>3. /\ job'[j] \in ProvisionJob /\ job'[j].status # "failed"
        /\ job'[j].droplet = (job[j].droplet \/ job[j].status = "creating_droplet")
    BY <2>1, <2>2 DEF ProvisionJob, Final
  <2>4. machine' = [machine EXCEPT ![j] = IF AtMachine(j) THEN "running" ELSE @]
    BY <1>3 DEF Step
  <2>5. AtMachine(j) => job[j].status = "creating_droplet"
    BY <1>1, <2>1, DropletFlow DEF AtMachine, IInv, ProvisioningTypeOK
  <2>6. \A k \in JobId \ {j} : machine'[k] = machine[k]
    BY <2>4 DEF IInv, ProvisioningTypeOK
  <2>7. machine'[j] = "running" => AtMachine(j) \/ machine[j] = "running"
    BY <2>4 DEF IInv, ProvisioningTypeOK
  <2>8. job'[j] # NoJob
    BY <2>3, ProvisioningAssumption
  <2>9. machine'[j] = "running" => job'[j].droplet
    BY <1>1, <2>3, <2>5, <2>7, Zenon
  <2>10. ASSUME NEW k \in JobId, machine'[k] = "running"
         PROVE  job'[k] # NoJob /\ job'[k].droplet /\ job'[k].status # "failed"
    <3>1. CASE k = j
      BY <2>3, <2>8, <2>9, <2>10, <3>1
    <3>2. CASE k # j
      BY <1>1, <2>2, <2>6, <2>10, <3>2
    <3> QED
      BY <3>1, <3>2
  <2> QED
    BY <2>10
<1>4. ASSUME NEW j \in JobId, Break(j)
      PROVE  \A k \in JobId : machine'[k] = "running" =>
               job'[k] # NoJob /\ job'[k].droplet /\ job'[k].status # "failed"
  <2>1. job[j].droplet => machine'[j] = "destroyed"
    BY <1>1, <1>4 DEF Break, destroyDroplet, IInv, ProvisioningTypeOK
  <2>2. ~job[j].droplet => machine'[j] = machine[j]
    BY <1>1, <1>4 DEF Break, IInv, ProvisioningTypeOK
  <2>3. \A k \in JobId \ {j} : machine'[k] = machine[k] /\ job'[k] = job[k]
    BY <1>4 DEF Break, destroyDroplet, IInv, ProvisioningTypeOK
  <2> QED
    BY <1>1, <2>1, <2>2, <2>3
<1>5. ASSUME NEW j \in JobId, job[j] # NoJob, NEW s \in ProvisionStatus, s # "failed",
             job' = [job EXCEPT ![j].status = s], UNCHANGED machine
      PROVE  \A k \in JobId : machine'[k] = "running" =>
               job'[k] # NoJob /\ job'[k].droplet /\ job'[k].status # "failed"
  <2>1. job[j] \in ProvisionJob
    BY <1>5 DEF IInv, ProvisioningTypeOK
  <2>2. job'[j] = [job[j] EXCEPT !.status = s] /\ \A k \in JobId \ {j} : job'[k] = job[k]
    BY <1>5 DEF IInv, ProvisioningTypeOK
  <2>3. job'[j] \in ProvisionJob /\ job'[j].droplet = job[j].droplet /\ job'[j].status = s
    BY <2>1, <2>2 DEF ProvisionJob
  <2> QED
    BY <1>1, <1>5, <2>2, <2>3, ProvisioningAssumption
<1>6. ASSUME NEW j \in JobId, FinishRegister(j)
      PROVE  \A k \in JobId : machine'[k] = "running" =>
               job'[k] # NoJob /\ job'[k].droplet /\ job'[k].status # "failed"
  BY <1>5, <1>6 DEF FinishRegister, Registering, ProvisionStatus
<1>7. ASSUME PostRegister
      PROVE  \A k \in JobId : machine'[k] = "running" =>
               job'[k] # NoJob /\ job'[k].droplet /\ job'[k].status # "failed"
  <2>1. UNCHANGED machine
    BY <1>7 DEF PostRegister
  <2>2. CASE UNCHANGED job
    BY <1>2, <2>1, <2>2
  <2>3. CASE Awaiting(posting.job)
    <3>1. posting.job \in JobId
      BY <1>7, ProvisioningAssumption DEF PostRegister, IInv, Views, ProvisioningTypeOK, JobId
    <3>2. \/ UNCHANGED job
          \/ job' = [job EXCEPT ![posting.job].status = "registering"]
          \/ job' = [job EXCEPT ![posting.job].status = "complete"]
      BY <1>7, <2>3 DEF PostRegister, register, coordinator_register
    <3> QED
      BY <1>5, <2>1, <2>2, <2>3, <3>1, <3>2 DEF Awaiting, ProvisionStatus
  <2>4. CASE ~Awaiting(posting.job)
    BY <1>7, <2>2, <2>4 DEF PostRegister, register, coordinator_register
  <2> QED
    BY <2>3, <2>4
<1>8. ASSUME NEW q \in requests, CreateJob(q)
      PROVE  \A k \in JobId : machine'[k] = "running" =>
               job'[k] # NoJob /\ job'[k].droplet /\ job'[k].status # "failed"
  <2>1. UNCHANGED machine
    BY <1>8 DEF CreateJob
  <2>2. machine[q.job] = "none"
    BY DEF IInv, Requests
  <2>3. \A k \in JobId \ {q.job} : job'[k] = job[k]
    BY <1>8 DEF CreateJob, IInv, ProvisioningTypeOK
  <2> QED
    BY <1>1, <2>1, <2>2, <2>3
<1>9. CASE Crash
  BY <1>1, <1>9 DEF Crash
<1>10. ASSUME pollStatus \/ (\E a \in answers : PollAnswered(a) \/ Resume(a) \/ ResumeFails(a))
              \/ Reload \/ (\E p \in Prefix : Configure(p)) \/ SignFactory
              \/ startProvision \/ StartAnswered \/ StartFails
              \/ Sign \/ Skip \/ Close \/ Reset
       PROVE  UNCHANGED <<job, machine>>
  BY <1>10 DEF pollStatus, PollAnswered, Resume, ResumeFails, Reload, Configure, SignFactory,
     startProvision, StartAnswered, StartFails, Sign, Skip, Close, Reset, serverVars
<1>11. CASE UNCHANGED provisioningVars
  BY <1>2, <1>11 DEF provisioningVars, serverVars
<1> QED
  BY <1>2, <1>3, <1>4, <1>6, <1>7, <1>8, <1>9, <1>10, <1>11 DEF ProvisioningNext, Server

\* An agent whose deployment failed leaves no droplet running, for any number of jobs
\* and reloads, as long as no call is lost.
THEOREM NoDropletLeft == ProvisioningSpec => []FailedJobLeavesNoDroplet
<1> DEFINE DInv == IInv /\ faults \in Nat /\ Droplets
<1>1. ProvisioningInit => DInv
  <2>1. ProvisioningInit => faults \in Nat /\ Droplets
    BY DEF ProvisioningInit, Droplets
  <2> QED
    BY <2>1, InitHolds
<1>2. DInv /\ [ProvisioningNext]_provisioningVars => DInv'
  BY NextKeeps, FaultsGrow, DropletsNext
<1>3. DInv => FailedJobLeavesNoDroplet
  BY DEF Droplets, FailedJobLeavesNoDroplet
<1> QED
  BY <1>1, <1>2, <1>3, PTL DEF ProvisioningSpec

=============================================================================
