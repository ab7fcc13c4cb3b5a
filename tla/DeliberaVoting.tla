--------------------------- MODULE DeliberaVoting ---------------------------
(***************************************************************************)
(* The voting contract on the EVM chain, contracts/voting/contracts/       *)
(* DeliberaVoting.sol.  Votes are encrypted 32-bit numbers that the        *)
(* contract adds up without reading them; an authorized machine (TEE)      *)
(* closes a vote and publishes counts it says it has decrypted.            *)
(*                                                                         *)
(* A ciphertext is the number it carries; arithmetic on it wraps, and so   *)
(* nothing stops a vote other than 0 and 1.  Left out: descriptions, who   *)
(* may decrypt, and the views.                                             *)
(***************************************************************************)
EXTENDS Naturals, FiniteSets

CONSTANTS
  Address, Owner,
  Word,          \* 2^32, the modulus of euint32
  Vote,          \* numbers voters encrypt
  Count,         \* numbers the TEE publishes
  Duration,
  MaxProposals, MaxBlock  \* bounds

ASSUME VotingAssumption ==
  /\ Owner \in Address
  /\ IsFiniteSet(Address)
  /\ Word \in Nat /\ Cardinality(Address) < Word
  /\ Vote \subseteq 0 .. Word - 1 /\ Count \subseteq 0 .. Word - 1
  /\ 1 < Word
  /\ Duration \subseteq Nat
  /\ MaxProposals \in Nat /\ MaxBlock \in Nat

VARIABLES
  now,            \* block.timestamp
  teeAddress, proposalCount,
  proposals,
  hasVoted,
  published       \* ghost: ResultPublished events of each proposal

votingVars == <<now, teeAddress, proposalCount, proposals, hasVoted, published>>

ProposalId == 0 .. MaxProposals - 1

\* A slot of a mapping reads as zeros before it is written.
Zeros ==
  [ deadline |-> 0, encryptedApproved |-> 0, encryptedRejected |-> 0, voteCount |-> 0,
    finalized |-> FALSE, resultApproved |-> 0, resultRejected |-> 0 ]

VotingInit ==
  /\ now = 1
  /\ teeAddress \in Address
  /\ proposalCount = 0
  /\ proposals = [id \in ProposalId |-> Zeros]
  /\ hasVoted = [id \in ProposalId |-> {}]
  /\ published = [id \in ProposalId |-> {}]

\* FHE.add and FHE.sub on euint32.
Add(a, b) == IF a + b < Word THEN a + b ELSE a + b - Word
Sub(a, b) == IF b <= a THEN a - b ELSE a + Word - b

Exists(id) == proposals[id].deadline > 0

createProposal(sender, duration) ==
  /\ sender = Owner
  /\ proposalCount < MaxProposals
  /\ proposalCount' = proposalCount + 1
  /\ proposals' = [proposals EXCEPT ![proposalCount].deadline = now + duration]
  /\ UNCHANGED <<now, teeAddress, hasVoted, published>>

\* Mutant: rejections are counted as 1 whatever the vote.
castVote_Always(sender, id, vote) ==
  LET p == proposals[id] IN
  /\ Exists(id) /\ now <= p.deadline
  /\ sender \notin hasVoted[id]
  /\ ~p.finalized
  /\ hasVoted' = [hasVoted EXCEPT ![id] = @ \cup {sender}]
  /\ proposals' = [proposals EXCEPT
       ![id].encryptedApproved = Add(@, vote),
       ![id].encryptedRejected = IF vote = 1 THEN @ ELSE Add(@, 1),
       ![id].voteCount = @ + 1]
  /\ UNCHANGED <<now, teeAddress, proposalCount, published>>

castVote(sender, id, vote) ==
  LET p == proposals[id] IN
  /\ Exists(id) /\ now <= p.deadline
  /\ sender \notin hasVoted[id]
  /\ ~p.finalized
  /\ hasVoted' = [hasVoted EXCEPT ![id] = @ \cup {sender}]
  /\ proposals' = [proposals EXCEPT
       ![id].encryptedApproved = Add(@, vote),
       ![id].encryptedRejected = Add(@, Sub(1, vote)),
       ![id].voteCount = @ + 1]
  /\ UNCHANGED <<now, teeAddress, proposalCount, published>>

finalize(sender, id) ==
  /\ sender = teeAddress
  /\ Exists(id) /\ now > proposals[id].deadline
  /\ ~proposals[id].finalized
  /\ proposals' = [proposals EXCEPT ![id].finalized = TRUE]
  /\ UNCHANGED <<now, teeAddress, proposalCount, hasVoted, published>>

\* What ResultPublished says: a tie is an approval.
Result(approved, rejected) ==
  [ approved |-> approved, rejected |-> rejected,
    decision |-> IF approved >= rejected THEN "Approved" ELSE "Rejected" ]

\* Mutant: only an approval in the stored result counts as published.
publishResult_Approved(sender, id, approved, rejected) ==
  /\ sender = teeAddress
  /\ proposals[id].finalized
  /\ proposals[id].resultApproved = 0
  /\ proposals' = [proposals EXCEPT ![id].resultApproved = approved,
                                    ![id].resultRejected = rejected]
  /\ published' = [published EXCEPT ![id] = @ \cup {Result(approved, rejected)}]
  /\ UNCHANGED <<now, teeAddress, proposalCount, hasVoted>>

\* That a result was published is told by its numbers.
publishResult(sender, id, approved, rejected) ==
  /\ sender = teeAddress
  /\ proposals[id].finalized
  /\ proposals[id].resultApproved = 0 /\ proposals[id].resultRejected = 0
  /\ proposals' = [proposals EXCEPT ![id].resultApproved = approved,
                                    ![id].resultRejected = rejected]
  /\ published' = [published EXCEPT ![id] = @ \cup {Result(approved, rejected)}]
  /\ UNCHANGED <<now, teeAddress, proposalCount, hasVoted>>

setTeeAddress(sender, address) ==
  /\ sender = Owner
  /\ teeAddress' = address
  /\ UNCHANGED <<now, proposalCount, proposals, hasVoted, published>>

NextBlock ==
  /\ now < MaxBlock
  /\ now' = now + 1
  /\ UNCHANGED <<teeAddress, proposalCount, proposals, hasVoted, published>>

VotingNext ==
  \/ NextBlock
  \/ \E sender \in Address :
       \/ \E duration \in Duration : createProposal(sender, duration)
       \/ \E address \in Address : setTeeAddress(sender, address)
       \/ \E id \in ProposalId :
            \/ \E vote \in Vote : castVote(sender, id, vote)
            \/ finalize(sender, id)
            \/ \E approved, rejected \in Count : publishResult(sender, id, approved, rejected)

VotingSpec == VotingInit /\ [][VotingNext]_votingVars

-----------------------------------------------------------------------------
(* Correctness *)

VotingTypeOK ==
  /\ now \in Nat /\ now > 0
  /\ teeAddress \in Address
  /\ proposalCount \in 0 .. MaxProposals
  /\ proposals \in [ProposalId ->
       [ deadline : Nat, encryptedApproved : 0 .. Word - 1, encryptedRejected : 0 .. Word - 1,
         voteCount : Nat, finalized : BOOLEAN,
         resultApproved : 0 .. Word - 1, resultRejected : 0 .. Word - 1 ]]
  /\ hasVoted \in [ProposalId -> SUBSET Address]

\* The two hidden counts always add up to the number of voters, modulo 2^32: a
\* vote that is not 0 or 1 moves weight between them but adds none.
BallotsBalance ==
  \A id \in ProposalId :
    /\ Add(proposals[id].encryptedApproved, proposals[id].encryptedRejected)
         = proposals[id].voteCount
    /\ proposals[id].voteCount = Cardinality(hasVoted[id])

VotingInv == VotingTypeOK /\ BallotsBalance

\* What the TEE decrypts cannot change any more: votes are closed when the
\* proposal is finalized, and stay closed whoever the TEE is by then.
FinalizedTallyStands ==
  [][\A id \in ProposalId : proposals[id].finalized =>
       /\ proposals'[id].encryptedApproved = proposals[id].encryptedApproved
       /\ proposals'[id].encryptedRejected = proposals[id].encryptedRejected
       /\ proposals'[id].finalized]_votingVars

\* Of the results published for a proposal at most one has a vote in it: 0 to 0
\* can be replaced once, anything else stands, over a change of the TEE as well.
ResultStands ==
  \A id \in ProposalId : \A a, b \in published[id] :
    (a # b) => \E r \in {a, b} : r.approved = 0 /\ r.rejected = 0
=============================================================================
