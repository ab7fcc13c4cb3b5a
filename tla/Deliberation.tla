----------------------------- MODULE Deliberation -----------------------------
(***************************************************************************)
(* What the production system promises to whoever looks at the chain and   *)
(* at the history of proposals, and knows nothing of ticks, workers and    *)
(* restarts: ballots are committed once, one for each voter; the history   *)
(* entry is written once, after the ballots and before the decision, and   *)
(* adds up; the decision is what the entry shows.  If the count is exact,  *)
(* the votes in the entry are the ballots committed.                       *)
(*                                                                         *)
(* Proposals are independent of each other: each takes a step or stays.    *)
(***************************************************************************)
EXTENDS Naturals, Sequences, FiniteSets

CONSTANTS
  Proposals,  \* ids in the order they are given out, 1 .. n
  Voter,
  Choice,     \* what voters choose, a record with a vote
  NoEntry,    \* absence of a history entry, and of a decision
  Exact       \* whether what is counted is what was committed

VARIABLES
  phase,      \* what the chain says of each proposal
  ballots,    \* the ballots committed on chain, a list
  history,    \* the entry of each proposal
  decision    \* the result on chain

vars == <<phase, ballots, history, decision>>

Ballot == [worker_id : Voter, result_hash : Choice]

Entry ==
  [ proposalId : Proposals, approved : Nat, rejected : Nat,
    decision : {"Approved", "Rejected"}, workerCount : Nat,
    votes : UNION {[V -> Choice] : V \in SUBSET Voter} ]

Init ==
  /\ phase = [id \in Proposals |-> "absent"]
  /\ ballots = [id \in Proposals |-> << >>]
  /\ history = [id \in Proposals |-> NoEntry]
  /\ decision = [id \in Proposals |-> NoEntry]

OneEach(list) ==
  \A i, j \in DOMAIN list : list[i].worker_id = list[j].worker_id => i = j

\* An entry counts each of its votes, and counts it right.
AddsUp(entry) ==
  /\ entry.workerCount = Cardinality(DOMAIN entry.votes)
  /\ entry.approved
       = Cardinality({v \in DOMAIN entry.votes : entry.votes[v].vote = "Approved"})
  /\ entry.approved + entry.rejected = entry.workerCount

Votes(entry) ==
  {[worker_id |-> v, result_hash |-> entry.votes[v]] : v \in DOMAIN entry.votes}

\* The votes stay off chain.
Shown(entry) ==
  [ proposalId |-> entry.proposalId, approved |-> entry.approved,
    rejected |-> entry.rejected, decision |-> entry.decision,
    workerCount |-> entry.workerCount ]

-----------------------------------------------------------------------------

Open(id) ==
  /\ phase[id] = "absent" /\ phase'[id] = "open"
  /\ \A earlier \in Proposals : earlier < id => phase[earlier] # "absent"
  /\ UNCHANGED <<ballots[id], history[id], decision[id]>>

Commit(id) ==
  /\ phase[id] = "open" /\ phase'[id] = "committed"
  /\ ballots'[id] \in Seq(Ballot) /\ OneEach(ballots'[id])
  /\ UNCHANGED <<history[id], decision[id]>>

\* The network may have given the proposal up meanwhile.
Archive(id) ==
  /\ phase[id] \in {"committed", "expired"} /\ history[id] = NoEntry
  /\ history'[id] \in Entry /\ history'[id].proposalId = id
  /\ AddsUp(history'[id])
  /\ Exact => Votes(history'[id]) = {ballots[id][i] : i \in DOMAIN ballots[id]}
  /\ UNCHANGED <<phase[id], ballots[id], decision[id]>>

Decide(id) ==
  /\ phase[id] = "committed" /\ phase'[id] = "decided"
  /\ history[id] # NoEntry
  /\ decision'[id] = Shown(history[id])
  /\ UNCHANGED <<ballots[id], history[id]>>

Expire(id) ==
  /\ phase[id] \in {"open", "committed"} /\ phase'[id] = "expired"
  /\ UNCHANGED <<ballots[id], history[id], decision[id]>>

Stay(id) ==
  /\ phase'[id] = phase[id]
  /\ ballots'[id] = ballots[id]
  /\ history'[id] = history[id]
  /\ decision'[id] = decision[id]

Step(id) ==
  \/ Stay(id)
  \/ Open(id)
  \/ Commit(id)
  \/ Archive(id)
  \/ Decide(id)
  \/ Expire(id)

Next == \A id \in Proposals : Step(id)

Spec == Init /\ [][Next]_vars
=============================================================================
