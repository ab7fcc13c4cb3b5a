--------------------------- MODULE ServicesProofs ---------------------------
(***************************************************************************)
(* Theorems about the services, for all values of their constants: voting, *)
(* the sessions of the MCP server, what a coordinator says of its workers, *)
(* the board with the state of one agent, the wizard that brings one, the  *)
(* demo that buys a deliberation, and the selection of juries.             *)
(***************************************************************************)
EXTENDS MCServices, FiniteSetTheorems, WellFoundedInduction, TLAPS

(* Voting *)

\* Every result published is the one stored, or was replaced because it was 0 to 0.
PublishedIsStored ==
  \A id \in ProposalId : \A r \in published[id] :
    r = Result(0, 0)
      \/ r = Result(proposals[id].resultApproved, proposals[id].resultRejected)

PublishedOK == published \in [ProposalId -> SUBSET {Result(a, r) : a, r \in Nat}]

\* The inductive invariant.
VotingIInv == VotingTypeOK /\ BallotsBalance /\ PublishedOK /\ PublishedIsStored

-----------------------------------------------------------------------------
(* Arithmetic of words *)

LEMMA WordArithmetic ==
  ASSUME NEW a \in 0 .. Word - 1, NEW b \in 0 .. Word - 1
  PROVE  Add(a, b) \in 0 .. Word - 1 /\ Sub(a, b) \in 0 .. Word - 1
BY VotingAssumption DEF Add, Sub

\* A vote moves weight between the two sums, and adds one to their sum.
LEMMA VoteAddsOne ==
  ASSUME NEW a \in 0 .. Word - 1, NEW r \in 0 .. Word - 1, NEW v \in 0 .. Word - 1,
         Add(a, r) + 1 < Word
  PROVE  Add(Add(a, v), Add(r, Sub(1, v))) = Add(a, r) + 1
BY VotingAssumption DEF Add, Sub

-----------------------------------------------------------------------------
(* The steps *)

LEMMA VotingInitHolds == VotingInit => VotingIInv
<1> SUFFICES ASSUME VotingInit PROVE VotingIInv
  OBVIOUS
<1>1. VotingTypeOK
  BY VotingAssumption DEF VotingInit, VotingTypeOK, Zeros
<1>2. BallotsBalance
  BY VotingAssumption, FS_EmptySet DEF VotingInit, BallotsBalance, Zeros, Add
<1> QED
  BY <1>1, <1>2 DEF VotingInit, VotingIInv, PublishedOK, PublishedIsStored

LEMMA createProposalKeeps ==
  ASSUME VotingIInv, NEW sender \in Address, NEW duration \in Duration,
         createProposal(sender, duration)
  PROVE  VotingIInv'
<1>1. duration \in Nat /\ proposalCount \in ProposalId /\ MaxProposals \in Nat
  BY VotingAssumption DEF VotingIInv, VotingTypeOK, createProposal, ProposalId
<1>2. VotingTypeOK'
  BY <1>1 DEF VotingIInv, VotingTypeOK, createProposal
<1>3. BallotsBalance'
  BY <1>1 DEF VotingIInv, VotingTypeOK, createProposal, BallotsBalance
<1> QED
  BY <1>1, <1>2, <1>3 DEF VotingIInv, VotingTypeOK, createProposal, PublishedOK, PublishedIsStored

LEMMA castVoteKeeps ==
  ASSUME VotingIInv, NEW sender \in Address, NEW id \in ProposalId, NEW vote \in Vote,
         castVote(sender, id, vote)
  PROVE  VotingIInv'
<1> DEFINE p == proposals[id]
<1>1. /\ vote \in 0 .. Word - 1 /\ 1 \in 0 .. Word - 1
      /\ p.encryptedApproved \in 0 .. Word - 1 /\ p.encryptedRejected \in 0 .. Word - 1
      /\ p.voteCount \in Nat
  BY VotingAssumption DEF VotingIInv, VotingTypeOK
<1>2. /\ Add(p.encryptedApproved, vote) \in 0 .. Word - 1
      /\ Sub(1, vote) \in 0 .. Word - 1
      /\ Add(p.encryptedRejected, Sub(1, vote)) \in 0 .. Word - 1
  BY <1>1, WordArithmetic
<1>3. VotingTypeOK'
  BY <1>1, <1>2 DEF VotingIInv, VotingTypeOK, castVote
<1>4. /\ IsFiniteSet(hasVoted[id])
      /\ Cardinality(hasVoted[id] \cup {sender}) = Cardinality(hasVoted[id]) + 1
      /\ Cardinality(hasVoted[id] \cup {sender}) <= Cardinality(Address)
      /\ Cardinality(Address) \in Nat
  <2>1. hasVoted[id] \subseteq Address /\ hasVoted[id] \cup {sender} \subseteq Address
    BY DEF VotingIInv, VotingTypeOK
  <2>2. IsFiniteSet(hasVoted[id])
    BY <2>1, FS_Subset, VotingAssumption
  <2>3. sender \notin hasVoted[id]
    BY DEF castVote
  <2> QED
    BY <2>1, <2>2, <2>3, FS_AddElement, FS_Subset, FS_CardinalityType, VotingAssumption
<1>5. /\ Add(p.encryptedApproved, p.encryptedRejected) = p.voteCount
      /\ p.voteCount = Cardinality(hasVoted[id])
  BY DEF VotingIInv, BallotsBalance
<1>6. p.voteCount + 1 < Word
  BY <1>1, <1>4, <1>5, VotingAssumption
<1>7. Add(Add(p.encryptedApproved, vote), Add(p.encryptedRejected, Sub(1, vote)))
        = p.voteCount + 1
  BY <1>1, <1>5, <1>6, VoteAddsOne
<1>8. BallotsBalance'
  BY <1>4, <1>5, <1>7 DEF VotingIInv, VotingTypeOK, BallotsBalance, castVote
<1>9. PublishedOK' /\ PublishedIsStored'
  BY DEF VotingIInv, VotingTypeOK, PublishedOK, PublishedIsStored, castVote
<1> QED
  BY <1>3, <1>8, <1>9 DEF VotingIInv

LEMMA finalizeKeeps ==
  ASSUME VotingIInv, NEW sender \in Address, NEW id \in ProposalId, finalize(sender, id)
  PROVE  VotingIInv'
<1>1. VotingTypeOK'
  BY DEF VotingIInv, VotingTypeOK, finalize
<1>2. BallotsBalance'
  BY DEF VotingIInv, VotingTypeOK, finalize, BallotsBalance
<1> QED
  BY <1>1, <1>2 DEF VotingIInv, VotingTypeOK, finalize, PublishedOK, PublishedIsStored

LEMMA publishResultKeeps ==
  ASSUME VotingIInv, NEW sender \in Address, NEW id \in ProposalId,
         NEW approved \in Count, NEW rejected \in Count,
         publishResult(sender, id, approved, rejected)
  PROVE  VotingIInv'
<1>1. /\ approved \in 0 .. Word - 1 /\ rejected \in 0 .. Word - 1
      /\ approved \in Nat /\ rejected \in Nat
  BY VotingAssumption
<1>2. VotingTypeOK'
  BY ZenonT(40), <1>1 DEF VotingIInv, VotingTypeOK, publishResult
<1>3. BallotsBalance'
  BY DEF VotingIInv, VotingTypeOK, publishResult, BallotsBalance
<1>4. PublishedOK'
  BY <1>1 DEF VotingIInv, PublishedOK, publishResult
<1>5. ASSUME NEW i \in ProposalId, NEW r \in published'[i]
      PROVE  \/ r = Result(0, 0)
             \/ r = Result(proposals'[i].resultApproved, proposals'[i].resultRejected)
  <2>1. CASE i # id
    <3>1. r \in published[i] /\ proposals'[i] = proposals[i]
      BY <2>1, <1>5 DEF VotingIInv, VotingTypeOK, PublishedOK, publishResult
    <3> QED
      BY <3>1 DEF VotingIInv, PublishedIsStored
  <2>2. CASE i = id
    <3>1. /\ r \in published[id] \cup {Result(approved, rejected)}
          /\ proposals'[id].resultApproved = approved
          /\ proposals'[id].resultRejected = rejected
      BY <2>2, <1>5 DEF VotingIInv, VotingTypeOK, PublishedOK, publishResult
    <3>2. CASE r \in published[id]
      BY <3>2 DEF VotingIInv, PublishedIsStored, publishResult
    <3> QED
      BY <2>2, <3>1, <3>2
  <2> QED
    BY <2>1, <2>2
<1> QED
  BY <1>2, <1>3, <1>4, <1>5 DEF VotingIInv, PublishedIsStored

LEMMA VotingNextKeeps == VotingIInv /\ [VotingNext]_votingVars => VotingIInv'
<1> SUFFICES ASSUME VotingIInv, [VotingNext]_votingVars PROVE VotingIInv'
  OBVIOUS
<1>1. CASE NextBlock
  BY <1>1 DEF NextBlock, VotingIInv, VotingTypeOK, BallotsBalance, PublishedOK, PublishedIsStored
<1>2. ASSUME NEW sender \in Address, NEW duration \in Duration, createProposal(sender, duration)
      PROVE  VotingIInv'
  BY <1>2, createProposalKeeps
<1>3. ASSUME NEW sender \in Address, NEW address \in Address, setTeeAddress(sender, address)
      PROVE  VotingIInv'
  BY <1>3 DEF setTeeAddress, VotingIInv, VotingTypeOK, BallotsBalance, PublishedOK, PublishedIsStored
<1>4. ASSUME NEW sender \in Address, NEW id \in ProposalId, NEW vote \in Vote,
             castVote(sender, id, vote)
      PROVE  VotingIInv'
  BY <1>4, castVoteKeeps
<1>5. ASSUME NEW sender \in Address, NEW id \in ProposalId, finalize(sender, id)
      PROVE  VotingIInv'
  BY <1>5, finalizeKeeps
<1>6. ASSUME NEW sender \in Address, NEW id \in ProposalId,
             NEW approved \in Count, NEW rejected \in Count,
             publishResult(sender, id, approved, rejected)
      PROVE  VotingIInv'
  BY <1>6, publishResultKeeps
<1>7. CASE UNCHANGED votingVars
  BY <1>7 DEF votingVars, VotingIInv, VotingTypeOK, BallotsBalance, PublishedOK, PublishedIsStored
<1> QED
  BY <1>1, <1>2, <1>3, <1>4, <1>5, <1>6, <1>7 DEF VotingNext

-----------------------------------------------------------------------------
(* The theorems *)

\* The inductive invariant holds in every state of every behaviour.
THEOREM VotingInvariant == VotingSpec => []VotingIInv
BY VotingInitHolds, VotingNextKeeps, PTL DEF VotingSpec

\* The two hidden sums add up to the number of voters, however many vote and
\* whatever numbers they encrypt, as long as there are fewer voters than words.
THEOREM BallotsAlwaysBalance == VotingSpec => []VotingInv
<1>1. VotingIInv => VotingInv
  BY DEF VotingIInv, VotingInv
<1> QED
  BY <1>1, VotingInvariant, PTL

\* At most one of the results published for a proposal has a vote in it.
THEOREM ResultAlwaysStands == VotingSpec => []ResultStands
<1>1. VotingIInv => ResultStands
  <2> SUFFICES ASSUME VotingIInv, NEW id \in ProposalId,
                      NEW a \in published[id], NEW b \in published[id], a # b
               PROVE  \E r \in {a, b} : r.approved = 0 /\ r.rejected = 0
    BY DEF ResultStands
  <2>1. a = Result(0, 0) \/ b = Result(0, 0)
    BY DEF VotingIInv, PublishedIsStored
  <2>2. Result(0, 0).approved = 0 /\ Result(0, 0).rejected = 0
    BY DEF Result
  <2> QED
    BY <2>1, <2>2
<1> QED
  BY <1>1, VotingInvariant, PTL

\* A finalized proposal's sums never change again: a vote needs it open, and
\* nothing opens it, neither a new TEE nor a new proposal.
THEOREM FinalizedTallyAlwaysStands == VotingSpec => FinalizedTallyStands
<1> DEFINE Keeps == \A id \in ProposalId : proposals[id].finalized =>
       /\ proposals'[id].encryptedApproved = proposals[id].encryptedApproved
       /\ proposals'[id].encryptedRejected = proposals[id].encryptedRejected
       /\ proposals'[id].finalized
<1>1. VotingIInv /\ VotingNext => Keeps
  <2> SUFFICES ASSUME VotingIInv, VotingNext PROVE Keeps
    OBVIOUS
  <2>1. CASE NextBlock
    BY <2>1 DEF NextBlock
  <2>2. ASSUME NEW sender \in Address, NEW duration \in Duration, createProposal(sender, duration)
        PROVE  Keeps
    BY <2>2 DEF createProposal, VotingIInv, VotingTypeOK
  <2>3. ASSUME NEW sender \in Address, NEW address \in Address, setTeeAddress(sender, address)
        PROVE  Keeps
    BY <2>3 DEF setTeeAddress
  <2>4. ASSUME NEW sender \in Address, NEW i \in ProposalId, NEW vote \in Vote,
               castVote(sender, i, vote)
        PROVE  Keeps
    BY <2>4 DEF castVote, VotingIInv, VotingTypeOK
  <2>5. ASSUME NEW sender \in Address, NEW i \in ProposalId, finalize(sender, i)
        PROVE  Keeps
    BY <2>5 DEF finalize, VotingIInv, VotingTypeOK
  <2>6. ASSUME NEW sender \in Address, NEW i \in ProposalId,
               NEW approved \in Count, NEW rejected \in Count,
               publishResult(sender, i, approved, rejected)
        PROVE  Keeps
    BY <2>6 DEF publishResult, VotingIInv, VotingTypeOK
  <2> QED
    BY <2>1, <2>2, <2>3, <2>4, <2>5, <2>6 DEF VotingNext
<1>2. VotingIInv /\ [VotingNext]_votingVars => [Keeps]_votingVars
  BY <1>1
<1> QED
  BY <1>2, VotingInvariant, PTL DEF VotingSpec, FinalizedTallyStands

-----------------------------------------------------------------------------
(* Sessions *)

\* The next sweep is at most a period away, and the last one left no session that
\* was idle by then; the store knows of every request.
TimesOK ==
  /\ time <= nextSweep /\ nextSweep <= time + sweepIntervalMs
  /\ \A c \in sessions :
       /\ nextSweep <= lastActivity[c] + idleTtlMs + sweepIntervalMs
       /\ lastRequest[c] = lastActivity[c]

\* The inductive invariant; IdleIsBounded follows from it.
SessionIInv == SessionTypeOK /\ HardCeiling /\ NoLeak /\ TimesOK

-----------------------------------------------------------------------------
(* Finite sets *)

\* Sessions taken out never bring the store over its ceiling.
LEMMA FewerStayBelow ==
  ASSUME HardCeiling, NEW S, S \subseteq sessions, sessions \subseteq Connection
  PROVE  Cardinality(S) <= maxSessions
<1>1. IsFiniteSet(sessions)
  BY FS_Subset, SessionAssumption
<1>2. IsFiniteSet(S) /\ Cardinality(S) <= Cardinality(sessions)
  BY <1>1, FS_Subset
<1>3. Cardinality(S) \in Nat /\ Cardinality(sessions) \in Nat
  BY <1>1, <1>2, FS_CardinalityType
<1> QED
  BY <1>2, <1>3, SessionAssumption DEF HardCeiling

\* There is room for one more when the store is not at its capacity.
LEMMA OneMoreFits ==
  ASSUME ~isAtCapacity, NEW c, sessions \subseteq Connection
  PROVE  Cardinality(sessions \cup {c}) <= maxSessions
<1>1. IsFiniteSet(sessions)
  BY FS_Subset, SessionAssumption
<1>2. Cardinality(sessions) \in Nat
  BY <1>1, FS_CardinalityType
<1>3. \/ Cardinality(sessions \cup {c}) = Cardinality(sessions)
      \/ Cardinality(sessions \cup {c}) = Cardinality(sessions) + 1
  <2>1. CASE c \in sessions
    <3>1. sessions \cup {c} = sessions
      BY <2>1
    <3> QED
      BY <3>1
  <2>2. CASE c \notin sessions
    BY <2>2, <1>1, FS_AddElement
  <2> QED
    BY <2>1, <2>2
<1> QED
  BY <1>2, <1>3, SessionAssumption DEF isAtCapacity

-----------------------------------------------------------------------------
(* The steps *)

LEMMA SessionInitHolds == SessionInit => SessionIInv
<1> SUFFICES ASSUME SessionInit PROVE SessionIInv
  OBVIOUS
<1>1. SessionTypeOK /\ NoLeak /\ TimesOK
  BY SessionAssumption DEF SessionInit, SessionTypeOK, NoLeak, TimesOK
<1>2. HardCeiling
  BY SessionAssumption, FS_EmptySet DEF SessionInit, HardCeiling
<1> QED
  BY <1>1, <1>2 DEF SessionIInv

LEMMA registerKeeps ==
  ASSUME SessionIInv, NEW c \in Connection, register(c)
  PROVE  SessionIInv'
<1>1. CASE isAtCapacity
  BY <1>1 DEF SessionIInv, SessionTypeOK, HardCeiling, NoLeak, TimesOK, register
<1>2. CASE ~isAtCapacity
  <2>1. SessionTypeOK'
    BY <1>2 DEF SessionIInv, SessionTypeOK, register
  <2>2. HardCeiling'
    BY <1>2, OneMoreFits DEF SessionIInv, SessionTypeOK, HardCeiling, register
  <2>3. NoLeak'
    BY <1>2 DEF SessionIInv, SessionTypeOK, NoLeak, register
  <2>4. TimesOK'
    BY <1>2, SessionAssumption DEF SessionIInv, SessionTypeOK, TimesOK, register
  <2> QED
    BY <2>1, <2>2, <2>3, <2>4 DEF SessionIInv
<1> QED
  BY <1>1, <1>2

LEMMA touchKeeps ==
  ASSUME SessionIInv, NEW c \in Connection, touch(c)
  PROVE  SessionIInv'
<1>1. SessionTypeOK' /\ HardCeiling' /\ NoLeak'
  BY DEF SessionIInv, SessionTypeOK, HardCeiling, NoLeak, touch
<1>2. TimesOK'
  BY SessionAssumption DEF SessionIInv, SessionTypeOK, TimesOK, touch
<1> QED
  BY <1>1, <1>2 DEF SessionIInv

LEMMA removeKeeps ==
  ASSUME SessionIInv, NEW c \in Connection, remove(c) \/ CloseSwept(c)
  PROVE  SessionIInv'
<1>1. SessionTypeOK' /\ NoLeak' /\ TimesOK'
  BY DEF SessionIInv, SessionTypeOK, NoLeak, TimesOK, remove, CloseSwept
<1>2. HardCeiling'
  <2>1. sessions' \subseteq sessions /\ sessions \subseteq Connection
    BY DEF SessionIInv, SessionTypeOK, remove, CloseSwept
  <2> QED
    BY <2>1, FewerStayBelow DEF SessionIInv, HardCeiling
<1> QED
  BY <1>1, <1>2 DEF SessionIInv

LEMMA sweepKeeps ==
  ASSUME SessionIInv, sweep
  PROVE  SessionIInv'
<1>1. SessionTypeOK'
  BY SessionAssumption DEF SessionIInv, SessionTypeOK, sweep
<1>2. HardCeiling'
  <2>1. sessions' \subseteq sessions /\ sessions \subseteq Connection
    BY DEF SessionIInv, SessionTypeOK, sweep
  <2> QED
    BY <2>1, FewerStayBelow DEF SessionIInv, HardCeiling
<1>3. NoLeak'
  BY DEF SessionIInv, SessionTypeOK, NoLeak, sweep, Idle
<1>4. TimesOK'
  BY SessionAssumption DEF SessionIInv, SessionTypeOK, TimesOK, sweep, Idle
<1> QED
  BY <1>1, <1>2, <1>3, <1>4 DEF SessionIInv

LEMMA SessionNextKeeps == SessionIInv /\ [SessionNext]_sessionVars => SessionIInv'
<1> SUFFICES ASSUME SessionIInv, [SessionNext]_sessionVars PROVE SessionIInv'
  OBVIOUS
<1>1. ASSUME NEW c \in Connection, Initialize(c) \/ ConnectFails(c)
      PROVE  SessionIInv'
  BY <1>1 DEF SessionIInv, SessionTypeOK, HardCeiling, NoLeak, TimesOK, Initialize, ConnectFails
<1>2. ASSUME NEW c \in Connection, register(c)
      PROVE  SessionIInv'
  BY <1>2, registerKeeps
<1>3. ASSUME NEW c \in Connection, touch(c)
      PROVE  SessionIInv'
  BY <1>3, touchKeeps
<1>4. ASSUME NEW c \in Connection, remove(c) \/ CloseSwept(c)
      PROVE  SessionIInv'
  BY <1>4, removeKeeps
<1>5. CASE sweep
  BY <1>5, sweepKeeps
<1>6. CASE Tick
  <2>1. SessionTypeOK' /\ HardCeiling' /\ NoLeak'
    BY <1>6 DEF SessionIInv, SessionTypeOK, HardCeiling, NoLeak, Tick
  <2>2. TimesOK'
    BY <1>6, SessionAssumption DEF SessionIInv, SessionTypeOK, TimesOK, Tick
  <2> QED
    BY <2>1, <2>2 DEF SessionIInv
<1>7. CASE UNCHANGED sessionVars
  BY <1>7 DEF sessionVars, SessionIInv, SessionTypeOK, HardCeiling, NoLeak, TimesOK
<1> QED
  BY <1>1, <1>2, <1>3, <1>4, <1>5, <1>6, <1>7 DEF SessionNext

-----------------------------------------------------------------------------
(* The theorems *)

\* The inductive invariant holds in every state of every behaviour.
THEOREM SessionInvariant == SessionSpec => []SessionIInv
BY SessionInitHolds, SessionNextKeeps, PTL DEF SessionSpec

\* The store never holds more than maxSessions, holds exactly the open
\* transports, and none of them idle for longer than the time to live and one
\* period of the timer, however handlers and timer interleave.
THEOREM SessionsBounded == SessionSpec => []SessionInv
<1>1. SessionIInv => SessionInv
  <2> SUFFICES ASSUME SessionIInv PROVE SessionInv
    OBVIOUS
  <2>1. ASSUME NEW c \in sessions
        PROVE  time - lastActivity[c] <= idleTtlMs + sweepIntervalMs
    <3>1. /\ time \in Nat /\ nextSweep \in Nat /\ lastActivity[c] \in Nat
          /\ time <= nextSweep
          /\ nextSweep <= lastActivity[c] + idleTtlMs + sweepIntervalMs
      BY DEF SessionIInv, SessionTypeOK, TimesOK
    <3> QED
      BY <3>1, SessionAssumption
  <2> QED
    BY <2>1 DEF SessionIInv, SessionInv, IdleIsBounded
<1> QED
  BY <1>1, SessionInvariant, PTL

\* The sweep takes no session that got a request within the time to live.
THEOREM ActiveAlwaysKept == SessionSpec => ActiveIsKept
<1> DEFINE Keeps == \A c \in Connection :
       (transport[c] = "open" /\ transport'[c] = "closing")
         => lastRequest[c] + idleTtlMs < time
<1>1. SessionIInv /\ SessionNext => Keeps
  <2> SUFFICES ASSUME SessionIInv, SessionNext, NEW c \in Connection,
                      transport[c] = "open", transport'[c] = "closing"
               PROVE  lastRequest[c] + idleTtlMs < time
    OBVIOUS
  <2>1. CASE sweep
    <3>1. c \in Idle /\ c \in sessions
      BY <2>1 DEF sweep, SessionIInv, NoLeak
    <3> QED
      BY <3>1 DEF Idle, SessionIInv, TimesOK
  <2>2. ASSUME ~sweep PROVE FALSE
    BY <2>2 DEF SessionNext, Initialize, register, ConnectFails, touch, remove, CloseSwept,
                Tick, SessionIInv, SessionTypeOK
  <2> QED
    BY <2>1, <2>2
<1>2. SessionIInv /\ [SessionNext]_sessionVars => [Keeps]_sessionVars
  BY <1>1
<1> QED
  BY <1>2, SessionInvariant, PTL DEF SessionSpec, ActiveIsKept

-----------------------------------------------------------------------------
(* The names shown of workers *)

\* What holds of the name given last, as long as nothing was in its way: a request
\* that is still at it writes that name, and nobody looks it up meanwhile; after it
\* everyone who looks it up finds it.
GivenStays ==
  (named # NoName /\ ~disturbed) =>
    /\ \A r \in RenamingUnderWay :
         /\ renaming[r].name = named
         /\ renaming[r].pc = "written" => displayName = named
         /\ \A s \in RenamingUnderWay : s = r
         /\ \A l \in LookUp : lookUp[l].pc = "idle"
    /\ RenamingUnderWay = {} =>
         /\ cachedName \in {NoName, named} /\ displayName = named
         /\ \A l \in LookUp : lookUp[l].pc = "read" => lookUp[l].read = named

\* The inductive invariant of NamesInv.
NamesIInv == NamesTypeOK /\ GivenStays

LEMMA NamesInitHolds == NamesInit => NamesIInv
<1> SUFFICES ASSUME NamesInit PROVE NamesIInv
  OBVIOUS
<1>1. NamesTypeOK
  BY DEF NamesInit, NamesTypeOK, NoLookUp, NoRenaming
<1>2. GivenStays
  BY DEF NamesInit, GivenStays
<1> QED BY <1>1, <1>2 DEF NamesIInv

\* Requests to rename are as they were.
LEMMA NoneRenames ==
  ASSUME UNCHANGED renaming
  PROVE  RenamingUnderWay' = RenamingUnderWay
BY DEF RenamingUnderWay

LEMMA resolveNameKeeps ==
  ASSUME NamesIInv, NEW l \in LookUp, resolveName(l)
  PROVE  NamesIInv'
<1>1. disturbed' \in BOOLEAN /\ (~disturbed' => ~disturbed /\ RenamingUnderWay = {})
  BY DEF resolveName
<1>2. /\ UNCHANGED <<displayName, cachedName, renaming, named>>
      /\ lookUp' = [lookUp EXCEPT ![l] = [pc |-> "reading", read |-> NoName]]
  <2>1. [NoLookUp EXCEPT !.pc = "reading"] = [pc |-> "reading", read |-> NoName]
    BY DEF NoLookUp
  <2> QED BY <2>1 DEF resolveName, LookUpBecomes
<1>3. NamesTypeOK'
  BY <1>1, <1>2 DEF NamesIInv, NamesTypeOK
<1>4. GivenStays'
  BY <1>1, <1>2, NoneRenames DEF NamesIInv, NamesTypeOK, GivenStays
<1> QED BY <1>3, <1>4 DEF NamesIInv

LEMMA LookUpKeeps ==
  ASSUME NamesIInv, NEW l \in LookUp, NameRead(l) \/ NameReadFails(l) \/ Resolved(l)
  PROVE  NamesIInv'
<1>1. CASE NameRead(l)
  <2>1. NamesTypeOK'
    BY <1>1 DEF NamesIInv, NamesTypeOK, NameRead, LookUpBecomes
  <2>2. GivenStays'
    BY <1>1, NoneRenames DEF NamesIInv, NamesTypeOK, GivenStays, NameRead, LookUpBecomes
  <2> QED BY <2>1, <2>2 DEF NamesIInv
<1>2. CASE NameReadFails(l)
  <2>1. NamesTypeOK'
    BY <1>2 DEF NamesIInv, NamesTypeOK, NameReadFails, LookUpBecomes
  <2>2. GivenStays'
    BY <1>2 DEF GivenStays, NameReadFails
  <2> QED BY <2>1, <2>2 DEF NamesIInv
<1>3. CASE Resolved(l)
  <2>1. NamesTypeOK'
    BY <1>3 DEF NamesIInv, NamesTypeOK, Resolved, LookUpBecomes, NoLookUp
  <2>2. GivenStays'
    BY <1>3, NoneRenames DEF NamesIInv, NamesTypeOK, GivenStays, Resolved, LookUpBecomes, NoLookUp
  <2> QED BY <2>1, <2>2 DEF NamesIInv
<1> QED BY <1>1, <1>2, <1>3

LEMMA setNameKeeps ==
  ASSUME NamesIInv, NEW r \in Renaming, NEW n \in Name, setName(r, n)
  PROVE  NamesIInv'
<1>1. /\ disturbed' \in BOOLEAN
      /\ ~disturbed' => RenamingUnderWay = {} /\ \A l \in LookUp : lookUp[l].pc = "idle"
  BY DEF setName
<1>2. /\ UNCHANGED <<displayName, cachedName, lookUp>> /\ named' = n
      /\ renaming' = [renaming EXCEPT ![r] = [pc |-> "writing", name |-> n]]
  BY DEF setName, RenamingBecomes
<1>3. NamesTypeOK'
  BY <1>1, <1>2 DEF NamesIInv, NamesTypeOK
<1>4. RenamingUnderWay = {} => RenamingUnderWay' = {r}
  BY <1>2 DEF NamesIInv, NamesTypeOK, RenamingUnderWay
<1>5. renaming'[r] = [pc |-> "writing", name |-> n]
  BY <1>2 DEF NamesIInv, NamesTypeOK
<1>6. GivenStays'
  BY <1>1, <1>2, <1>4, <1>5 DEF GivenStays
<1> QED BY <1>3, <1>6 DEF NamesIInv

LEMMA RenamingKeeps ==
  ASSUME NamesIInv, NEW r \in Renaming, NameStored(r) \/ NameLost(r) \/ NameSet(r)
  PROVE  NamesIInv'
<1>1. NamesTypeOK'
  BY DEF NamesIInv, NamesTypeOK, NameStored, NameLost, NameSet, RenamingBecomes, NoRenaming, NameChange
<1>2. GivenStays'
  <2>1. CASE NameStored(r)
    <3>1. RenamingUnderWay' = RenamingUnderWay /\ r \in RenamingUnderWay
      BY <2>1 DEF NamesIInv, NamesTypeOK, NameStored, RenamingBecomes, RenamingUnderWay
    <3> QED BY <2>1, <3>1 DEF NamesIInv, NamesTypeOK, GivenStays, NameStored, RenamingBecomes
  <2>2. CASE NameLost(r)
    BY <2>2 DEF GivenStays, NameLost
  <2>3. CASE NameSet(r)
    <3>1. RenamingUnderWay' = RenamingUnderWay \ {r} /\ r \in RenamingUnderWay
      BY <2>3 DEF NamesIInv, NamesTypeOK, NameSet, RenamingBecomes, RenamingUnderWay, NoRenaming
    <3> QED BY <2>3, <3>1 DEF NamesIInv, NamesTypeOK, GivenStays, NameSet, RenamingBecomes
  <2> QED BY <2>1, <2>2, <2>3
<1> QED BY <1>1, <1>2 DEF NamesIInv

LEMMA NamesNextKeeps == NamesIInv /\ [NamesNext]_namesVars => NamesIInv'
<1> SUFFICES ASSUME NamesIInv, [NamesNext]_namesVars PROVE NamesIInv'
  OBVIOUS
<1>1. ASSUME NEW n \in Name, NameWritten(n) PROVE NamesIInv'
  BY <1>1 DEF NamesIInv, NamesTypeOK, GivenStays, NameWritten, NameChange
<1>2. CASE RestartCoordinator
  <2>1. NamesTypeOK'
    BY <1>2 DEF NamesIInv, NamesTypeOK, RestartCoordinator, NoLookUp, NoRenaming
  <2>2. RenamingUnderWay' = {}
    BY <1>2 DEF RestartCoordinator, RenamingUnderWay, NoRenaming
  <2>3. GivenStays'
    BY <1>2, <2>2 DEF NamesIInv, GivenStays, RestartCoordinator, NoLookUp
  <2> QED BY <2>1, <2>3 DEF NamesIInv
<1>3. CASE UNCHANGED namesVars
  BY <1>3 DEF namesVars, NamesIInv, NamesTypeOK, GivenStays, RenamingUnderWay
<1> QED BY <1>1, <1>2, <1>3, resolveNameKeeps, LookUpKeeps, setNameKeeps, RenamingKeeps DEF NamesNext

\* The name given last is shown, over restarts and whatever was remembered, unless a
\* look-up or another renaming was under way with it.
THEOREM NamesCorrect == NamesSpec => []NamesInv
<1>1. NamesIInv => NamesInv
  BY DEF NamesIInv, GivenStays, NamesInv, GivenNameIsShown
<1> QED BY <1>1, NamesInitHolds, NamesNextKeeps, PTL DEF NamesSpec

-----------------------------------------------------------------------------
(* The list of workers, and whether they answer *)

AskPlace == Endpoint \cup {NoEndpoint}
ViewRecord == [ pc : {"idle", "listing", "probing", "done"}, age : Nat,
  workers : [Did -> AskPlace], probe : [Did -> Probe], shown : SUBSET Did, sure : SUBSET Did ]

\* The types, those of the requests in full.
ViewsTyped ==
  /\ listed \in [Did -> AskPlace]
  /\ answers \in [Endpoint -> Did \cup {Nobody, Unnamed}]
  /\ validationCache \in [Did -> [valid : BOOLEAN, age : 0 .. ValidationTTL]]
  /\ view \in [View -> ViewRecord]
  /\ registration \in [Registration ->
       [pc : {"idle", "calling", "answered"}, did : Did \cup {Nobody}, endpoint : AskPlace]]
  /\ \A r \in Registration : registration[r].pc # "idle" => registration[r].did \in Did
  /\ steady \in [Did -> 0 .. SettleTime]
  /\ fresh \subseteq Did
  /\ shiftsLeft \in Nat

\* Nothing has changed about a worker for longer than that.
Since(w, age) == w \in fresh \/ steady[w] > age

\* What is remembered of a worker is right, unless it changed since the listing that
\* led to it.
RememberedRight(w) ==
  LET c == validationCache[w] IN
  (c.age < ValidationTTL /\ Since(w, c.age + ProbeTime + ListTime) /\ listed[w] # NoEndpoint) =>
    (c.valid <=> Answers(w, listed[w]))

\* What a view has of a worker is right, unless that changed since it was listed,
ListedRight(c, w) ==
  c.pc = "listing" => /\ c.age <= ListTime
                      /\ Since(w, c.age) => c.workers[w] = listed[w]
ProbedRight(c, w) ==
  c.pc = "probing" =>
    /\ c.age <= ProbeTime
    /\ c.probe[w] # "none" => c.workers[w] # NoEndpoint /\ w \notin c.shown
    /\ Since(w, c.age + ListTime) =>
         /\ c.workers[w] = listed[w]
         /\ c.probe[w] = "up" => Answers(w, listed[w])
         /\ c.probe[w] = "down" => ~Answers(w, listed[w])

\* and what it shows of a worker it is sure of is the truth.
SureRight(c, w) ==
  w \in c.sure =>
    /\ c.pc # "idle"
    /\ w \in fresh \/ steady[w] = SettleTime
    /\ (c.pc = "probing" /\ c.probe[w] = "none") \/ c.pc = "done" =>
         (w \in c.shown <=> Alive(w))

\* A view that is complete or not begun has no probes.
ViewRight(c) == \A w \in Did : ListedRight(c, w) /\ ProbedRight(c, w) /\ SureRight(c, w)

\* The inductive invariant of ViewsInv.
ViewsIInv ==
  /\ ViewsTyped
  /\ \A w \in Did : RememberedRight(w)
  /\ \A v \in View : ViewRight(view[v])

-----------------------------------------------------------------------------

LEMMA SettleTimes ==
  /\ SettleTime \in Nat
  /\ \A a \in Nat : a < ValidationTTL => SettleTime > a + ProbeTime + ListTime
  /\ \A a \in Nat : a <= ProbeTime => SettleTime > a + ListTime
  /\ \A a \in Nat : a <= ListTime => SettleTime > a
BY ViewsAssumption DEF SettleTime

LEMMA NoViewTyped == NoView \in ViewRecord
BY DEF NoView, ViewRecord, AskPlace, Probe

LEMMA ViewsInitHolds == ViewsInit => ViewsIInv
<1> SUFFICES ASSUME ViewsInit PROVE ViewsIInv
  OBVIOUS
<1>1. ViewsTyped
  BY NoViewTyped, SettleTimes, ViewsAssumption DEF ViewsInit, ViewsTyped, NoVerdict, NoRegistration, AskPlace
<1>2. \A w \in Did : RememberedRight(w)
  BY ViewsAssumption DEF ViewsInit, RememberedRight, NoVerdict
<1>3. \A v \in View : ViewRight(view[v])
  BY DEF ViewsInit, ViewRight, ListedRight, ProbedRight, SureRight, NoView
<1> QED BY <1>1, <1>2, <1>3 DEF ViewsIInv

\* Registry, endpoints and the ghosts that date them are as they were.
Steady == UNCHANGED <<listed, answers, steady, fresh>>

LEMMA SameTruth ==
  ASSUME Steady, NEW w \in Did
  PROVE  /\ \A e : Answers(w, e)' <=> Answers(w, e)
         /\ Alive(w)' <=> Alive(w)
         /\ \A a : Since(w, a)' <=> Since(w, a)
BY DEF Steady, Answers, Alive, Since

LEMMA SameView ==
  ASSUME Steady, NEW c, ViewRight(c)
  PROVE  ViewRight(c)'
BY SameTruth DEF Steady, ViewRight, ListedRight, ProbedRight, SureRight

LEMMA SameMemory ==
  ASSUME Steady, NEW w \in Did, RememberedRight(w), validationCache'[w] = validationCache[w]
  PROVE  RememberedRight(w)'
BY SameTruth DEF Steady, RememberedRight

\* A step of one view that leaves the memory of verdicts alone.
LEMMA OneView ==
  ASSUME ViewsIInv, NEW v \in View, NEW c \in ViewRecord, ViewBecomes(v, c), Steady,
         ViewRight(c), UNCHANGED <<validationCache, registration, shiftsLeft>>
  PROVE  ViewsIInv'
<1>1. ViewsTyped'
  BY DEF ViewsIInv, ViewsTyped, ViewBecomes, Steady
<1>2. \A w \in Did : RememberedRight(w)'
  BY SameMemory DEF ViewsIInv
<1>3. ASSUME NEW x \in View PROVE ViewRight(view[x])'
  <2>1. PICK d : d = view'[x] /\ ViewRight(d)
    BY DEF ViewsIInv, ViewsTyped, ViewBecomes
  <2>2. ViewRight(d)'
    BY <2>1, SameView
  <2> QED BY <2>1, <2>2 DEF ViewRight, ListedRight, ProbedRight, SureRight
<1> QED BY <1>1, <1>2, <1>3 DEF ViewsIInv

LEMMA listActiveWorkersKeeps ==
  ASSUME ViewsIInv, NEW v \in View, listActiveWorkers(v)
  PROVE  ViewsIInv'
<1> DEFINE c == [NoView EXCEPT !.pc = "listing", !.workers = listed,
                   !.sure = {w \in Did : steady[w] >= SettleTime \/ w \in fresh}]
<1>1. c \in ViewRecord
  BY NoViewTyped DEF ViewsIInv, ViewsTyped, ViewRecord
<1>2. /\ c.pc = "listing" /\ c.age = 0 /\ c.workers = listed
      /\ c.sure = {w \in Did : steady[w] >= SettleTime \/ w \in fresh}
  BY DEF NoView
<1>3. ViewRight(c)
  <2> SUFFICES ASSUME NEW w \in Did PROVE ListedRight(c, w) /\ ProbedRight(c, w) /\ SureRight(c, w)
    BY DEF ViewRight
  <2>1. ListedRight(c, w) /\ ProbedRight(c, w)
    BY <1>2, ViewsAssumption DEF ListedRight, ProbedRight
  <2>2. steady[w] \in 0 .. SettleTime
    BY DEF ViewsIInv, ViewsTyped
  <2>3. SureRight(c, w)
    BY <1>2, <2>2, SettleTimes DEF SureRight
  <2> QED BY <2>1, <2>3
<1>4. ViewBecomes(v, c) /\ Steady /\ UNCHANGED <<validationCache, registration, shiftsLeft>>
  BY DEF listActiveWorkers, Steady
<1> QED BY <1>1, <1>3, <1>4, OneView

LEMMA validateWorkerKeeps ==
  ASSUME ViewsIInv, NEW v \in View, NEW w \in Did, validateWorker(v, w)
  PROVE  ViewsIInv'
<1>1. PICK told \in {"up", "down"} :
        /\ told = "up" <=> Answers(w, view[v].workers[w])
        /\ ViewBecomes(v, [view[v] EXCEPT !.probe[w] = told])
  BY DEF validateWorker
<1> DEFINE b == view[v]
           c == [b EXCEPT !.probe[w] = told]
<1>2. b \in ViewRecord /\ b.pc = "probing" /\ b.probe[w] = "asked" /\ ViewRight(b)
  BY DEF ViewsIInv, ViewsTyped, validateWorker, AtView
<1>3. c \in ViewRecord
  BY <1>2 DEF ViewRecord, Probe
<1>4. /\ c.pc = "probing" /\ c.age = b.age /\ c.workers = b.workers /\ c.shown = b.shown
      /\ c.sure = b.sure /\ c.probe[w] = told
      /\ \A x \in Did \ {w} : c.probe[x] = b.probe[x]
  BY <1>2 DEF ViewRecord
<1>5. ViewRight(c)
  <2> SUFFICES ASSUME NEW x \in Did PROVE ListedRight(c, x) /\ ProbedRight(c, x) /\ SureRight(c, x)
    BY DEF ViewRight
  <2>1. ListedRight(b, x) /\ ProbedRight(b, x) /\ SureRight(b, x)
    BY <1>2 DEF ViewRight
  <2>2. CASE x # w
    BY <1>2, <1>4, <2>1, <2>2 DEF ListedRight, ProbedRight, SureRight
  <2>3. CASE x = w
    BY <1>1, <1>2, <1>4, <2>1, <2>3 DEF ListedRight, ProbedRight, SureRight
  <2> QED BY <2>2, <2>3
<1>6. ViewBecomes(v, c) /\ Steady /\ UNCHANGED <<validationCache, registration, shiftsLeft>>
  BY <1>1 DEF validateWorker, Steady
<1> QED BY <1>3, <1>5, <1>6, OneView
\* A view that goes on with its probes, or is complete.
LEMMA ProbingRight ==
  ASSUME ViewsIInv, NEW d \in ViewRecord, ViewRight([d EXCEPT !.pc = "probing"])
  PROVE  Probing(d) \in ViewRecord /\ ViewRight(Probing(d))
<1> DEFINE p == [d EXCEPT !.pc = "probing"]
           q == [NoView EXCEPT !.pc = "done", !.shown = d.shown, !.sure = d.sure]
<1>1. CASE \E w \in Did : d.probe[w] # "none"
  <2>1. Probing(d) = p
    BY <1>1 DEF Probing
  <2>2. p \in ViewRecord
    BY DEF ViewRecord
  <2> QED BY <2>1, <2>2
<1>2. CASE \A w \in Did : d.probe[w] = "none"
  <2>1. Probing(d) = q
    BY <1>2 DEF Probing
  <2>2. q \in ViewRecord
    BY NoViewTyped DEF ViewRecord
  <2>3. q.pc = "done" /\ q.shown = d.shown /\ q.sure = d.sure
    BY DEF NoView
  <2>4. p.pc = "probing" /\ p.shown = d.shown /\ p.sure = d.sure /\ p.probe = d.probe
    BY DEF ViewRecord
  <2>5. ASSUME NEW w \in Did PROVE ListedRight(q, w) /\ ProbedRight(q, w) /\ SureRight(q, w)
    <3>1. SureRight(p, w)
      BY DEF ViewRight
    <3> QED BY <1>2, <2>3, <2>4, <3>1 DEF ListedRight, ProbedRight, SureRight
  <2> QED BY <2>1, <2>2, <2>5 DEF ViewRight
<1> QED BY <1>1, <1>2

\* A step of one view that leaves verdicts behind.
LEMMA OneViewJudges ==
  ASSUME ViewsIInv, NEW v \in View, NEW c \in ViewRecord, ViewBecomes(v, c), Steady,
         ViewRight(c), UNCHANGED <<registration, shiftsLeft>>,
         validationCache' \in [Did -> [valid : BOOLEAN, age : 0 .. ValidationTTL]],
         \A w \in Did : validationCache'[w] # validationCache[w] => RememberedRight(w)'
  PROVE  ViewsIInv'
<1>1. ViewsTyped'
  BY DEF ViewsIInv, ViewsTyped, ViewBecomes, Steady
<1>2. \A w \in Did : RememberedRight(w)'
  BY SameMemory DEF ViewsIInv
<1>3. ASSUME NEW x \in View PROVE ViewRight(view[x])'
  <2>1. PICK d : d = view'[x] /\ ViewRight(d)
    BY DEF ViewsIInv, ViewsTyped, ViewBecomes
  <2>2. ViewRight(d)'
    BY <2>1, SameView
  <2> QED BY <2>1, <2>2 DEF ViewRight, ListedRight, ProbedRight, SureRight
<1> QED BY <1>1, <1>2, <1>3 DEF ViewsIInv

LEMMA ValidatedKeeps ==
  ASSUME ViewsIInv, NEW v \in View, NEW w \in Did, Validated(v, w)
  PROVE  ViewsIInv'
<1> DEFINE b == view[v]
           valid == b.probe[w] = "up"
           left == [b EXCEPT !.probe[w] = "none", !.shown = IF valid THEN @ \cup {w} ELSE @]
<1>1. /\ b.pc = "probing" /\ b.probe[w] \in {"up", "down"} /\ b \in ViewRecord /\ ViewRight(b)
      /\ validationCache' = [validationCache EXCEPT ![w] = [valid |-> valid, age |-> 0]]
      /\ ViewBecomes(v, Probing(left)) /\ Steady /\ UNCHANGED <<registration, shiftsLeft>>
  BY DEF Validated, ViewsIInv, ViewsTyped, AtView, Steady
<1>2. left \in ViewRecord
  BY <1>1 DEF ViewRecord, Probe
<1>3. /\ left.pc = "probing" /\ left.age = b.age /\ left.workers = b.workers /\ left.sure = b.sure
      /\ left.shown = IF valid THEN b.shown \cup {w} ELSE b.shown
      /\ left.probe[w] = "none"
      /\ \A x \in Did \ {w} : left.probe[x] = b.probe[x]
  BY <1>1 DEF ViewRecord
<1>4. ListedRight(b, w) /\ ProbedRight(b, w) /\ SureRight(b, w)
  BY <1>1 DEF ViewRight
<1>5. ViewRight(left)
  <2> SUFFICES ASSUME NEW x \in Did
               PROVE  ListedRight(left, x) /\ ProbedRight(left, x) /\ SureRight(left, x)
    BY DEF ViewRight
  <2>1. ListedRight(b, x) /\ ProbedRight(b, x) /\ SureRight(b, x)
    BY <1>1 DEF ViewRight
  <2>2. CASE x # w
    BY <1>1, <1>3, <2>1, <2>2 DEF ListedRight, ProbedRight, SureRight
  <2>3. CASE x = w
    <3>1. ListedRight(left, w) /\ ProbedRight(left, w)
      BY <1>1, <1>3, <1>4 DEF ListedRight, ProbedRight
    <3>2. ASSUME w \in left.sure PROVE w \in left.shown <=> Alive(w)
      <4>1. w \in fresh \/ steady[w] = SettleTime
        BY <1>3, <1>4, <3>2 DEF SureRight
      <4>2. Since(w, b.age + ListTime)
        BY <1>1, <1>4, <4>1, SettleTimes DEF Since, ProbedRight, ViewRecord
      <4> QED BY <1>1, <1>3, <1>4, <4>2 DEF ProbedRight, Alive
    <3>3. SureRight(left, w)
      BY <1>3, <1>4, <3>2 DEF SureRight
    <3> QED BY <2>3, <3>1, <3>3
  <2> QED BY <2>2, <2>3
<1>6. [left EXCEPT !.pc = "probing"] = left
  BY ZenonT(40), <1>2, <1>3 DEF ViewRecord
<1>7. Probing(left) \in ViewRecord /\ ViewRight(Probing(left))
  BY <1>2, <1>5, <1>6, ProbingRight
<1>8. validationCache' \in [Did -> [valid : BOOLEAN, age : 0 .. ValidationTTL]]
  <2>1. validationCache \in [Did -> [valid : BOOLEAN, age : 0 .. ValidationTTL]]
    BY DEF ViewsIInv, ViewsTyped
  <2>2. [valid |-> valid, age |-> 0] \in [valid : BOOLEAN, age : 0 .. ValidationTTL]
    BY ViewsAssumption
  <2> QED BY <1>1, <2>1, <2>2
<1>9. RememberedRight(w)'
  <2> SUFFICES ASSUME Since(w, 0 + ProbeTime + ListTime), listed[w] # NoEndpoint
               PROVE  valid <=> Answers(w, listed[w])
    <3>1. validationCache'[w] = [valid |-> valid, age |-> 0]
      BY <1>1 DEF ViewsIInv, ViewsTyped
    <3>2. validationCache'[w].valid = valid /\ validationCache'[w].age = 0
      BY <3>1
    <3> QED BY <1>1, <3>2, SameTruth DEF RememberedRight, Steady
  <2>1. b.age \in Nat /\ b.age <= ProbeTime /\ steady[w] \in Nat
    BY <1>1, <1>4, SettleTimes DEF ViewRecord, ProbedRight, ViewsIInv, ViewsTyped
  <2>2. Since(w, b.age + ListTime)
    BY <2>1, ViewsAssumption DEF Since
  <2> QED BY <1>1, <1>4, <2>2 DEF ProbedRight
<1>10. \A x \in Did : validationCache'[x] # validationCache[x] => x = w
  BY <1>1 DEF ViewsIInv, ViewsTyped
<1> HIDE DEF left
<1> QED BY <1>1, <1>7, <1>8, <1>9, <1>10, OneViewJudges

LEMMA filterValidatedWorkersKeeps ==
  ASSUME ViewsIInv, NEW v \in View, filterValidatedWorkers(v)
  PROVE  ViewsIInv'
<1> DEFINE b == view[v]
           Recent(w) == validationCache[w].age < ValidationTTL
           before == {w \in Did : b.workers[w] # NoEndpoint /\ Recent(w)}
           asking == {w \in Did : b.workers[w] # NoEndpoint /\ ~Recent(w)}
           pollers == {w \in asking : b.workers[w] \in PollingOnly}
           c == [b EXCEPT !.age = 0,
                  !.shown = {w \in before : validationCache[w].valid} \cup pollers,
                  !.probe = [w \in Did |-> IF w \in asking \ pollers THEN "asked" ELSE "none"]]
<1>1. /\ b.pc = "listing" /\ b \in ViewRecord /\ ViewRight(b)
      /\ validationCache' = [w \in Did |-> IF w \in pollers THEN [valid |-> TRUE, age |-> 0]
                                          ELSE validationCache[w]]
      /\ ViewBecomes(v, Probing(c)) /\ Steady /\ UNCHANGED <<registration, shiftsLeft>>
  BY DEF filterValidatedWorkers, ViewsIInv, ViewsTyped, AtView, Steady
<1>2. c \in ViewRecord
  BY <1>1 DEF ViewRecord, Probe
<1> DEFINE p == [c EXCEPT !.pc = "probing"]
<1>3. /\ p.pc = "probing" /\ p.age = 0 /\ p.workers = b.workers /\ p.sure = b.sure
      /\ p.shown = {w \in before : validationCache[w].valid} \cup pollers
      /\ p.probe = [w \in Did |-> IF w \in asking \ pollers THEN "asked" ELSE "none"]
  BY <1>1 DEF ViewRecord
<1>4. ASSUME NEW w \in Did, Since(w, ListTime) PROVE b.workers[w] = listed[w]
  <2>1. b.age \in Nat /\ b.age <= ListTime /\ steady[w] \in Nat
    BY <1>1, SettleTimes DEF ViewRecord, ViewRight, ListedRight, ViewsIInv, ViewsTyped
  <2>2. Since(w, b.age)
    BY <1>4, <2>1, ViewsAssumption DEF Since
  <2> QED BY <1>1, <2>2 DEF ViewRight, ListedRight
<1>5. ASSUME NEW w \in Did PROVE ListedRight(p, w) /\ ProbedRight(p, w) /\ SureRight(p, w)
  <2>1. ListedRight(p, w)
    BY <1>3 DEF ListedRight
  <2>2. ProbedRight(p, w)
    <3>1. p.probe[w] = IF w \in asking \ pollers THEN "asked" ELSE "none"
      BY <1>3
    <3>2. 0 + ListTime = ListTime /\ 0 <= ProbeTime
      BY ViewsAssumption
    <3> QED BY <1>3, <1>4, <3>1, <3>2 DEF ProbedRight
  <2>3. SureRight(p, w)
    <3> SUFFICES ASSUME w \in b.sure
                 PROVE  /\ w \in fresh \/ steady[w] = SettleTime
                        /\ p.probe[w] = "none" => (w \in p.shown <=> Alive(w))
      BY <1>3 DEF SureRight
    <3>1. w \in fresh \/ steady[w] = SettleTime
      BY <1>1 DEF ViewRight, SureRight
    <3>2. b.workers[w] = listed[w]
      BY <1>4, <3>1, SettleTimes, ViewsAssumption DEF Since
    <3>3. CASE w \in before
      <4>1. Since(w, validationCache[w].age + ProbeTime + ListTime)
        BY <3>1, <3>3, SettleTimes DEF Since, ViewsIInv, ViewsTyped
      <4>2. validationCache[w].valid <=> Answers(w, listed[w])
        BY <3>2, <3>3, <4>1 DEF ViewsIInv, RememberedRight
      <4> QED BY <1>3, <3>1, <3>2, <3>3, <4>2 DEF Alive
    <3>4. CASE w \in asking
      BY <1>3, <3>1, <3>2, <3>4 DEF Alive, Answers
    <3>5. CASE w \notin before \cup asking
      BY <1>3, <3>1, <3>2, <3>5 DEF Alive
    <3> QED BY <3>3, <3>4, <3>5
  <2> QED BY <2>1, <2>2, <2>3
<1>6. ViewRight(p)
  BY <1>5 DEF ViewRight
<1>7. Probing(c) \in ViewRecord /\ ViewRight(Probing(c))
  BY <1>2, <1>6, ProbingRight
<1>8. validationCache' \in [Did -> [valid : BOOLEAN, age : 0 .. ValidationTTL]]
  BY <1>1, ViewsAssumption DEF ViewsIInv, ViewsTyped
<1>9. ASSUME NEW w \in Did, validationCache'[w] # validationCache[w] PROVE RememberedRight(w)'
  <2>1. w \in pollers /\ validationCache'[w] = [valid |-> TRUE, age |-> 0]
    BY <1>1, <1>9
  <2>2. validationCache'[w].valid = TRUE /\ validationCache'[w].age = 0
    BY <2>1
  <2> SUFFICES ASSUME Since(w, 0 + ProbeTime + ListTime) PROVE Answers(w, listed[w])
    BY <1>1, <2>2, SameTruth DEF RememberedRight, Steady
  <2>3. Since(w, ListTime)
    BY ViewsAssumption, SettleTimes DEF Since, ViewsIInv, ViewsTyped
  <2> QED BY <1>4, <2>1, <2>3 DEF Answers
<1> HIDE DEF c
<1> QED BY <1>1, <1>7, <1>8, <1>9, OneViewJudges
\* Nothing has changed since about less than before, and what has not changed is as
\* it was: the registry and the endpoints touched no worker but ws, of which nothing is sure
\* any more.
LEMMA ShiftKeeps ==
  ASSUME ViewsIInv, NEW ws \in SUBSET Did, Shift(ws), fresh' = fresh \ ws,
         UNCHANGED validationCache,
         \A w \in Did \ ws : listed'[w] = listed[w] /\ (Answers(w, listed[w])' <=> Answers(w, listed[w])),
         ViewsTyped'
  PROVE  ViewsIInv'
<1>1. ASSUME NEW w \in Did, NEW a \in Nat, Since(w, a)'
      PROVE  w \notin ws /\ Since(w, a) /\ listed'[w] = listed[w]
             /\ (Answers(w, listed[w])' <=> Answers(w, listed[w]))
  <2>1. w \notin ws
    BY <1>1 DEF Since, Shift
  <2> QED BY <1>1, <2>1 DEF Since, Shift
<1>2. ASSUME NEW w \in Did PROVE RememberedRight(w)'
  <2>1. validationCache[w].age + ProbeTime + ListTime \in Nat
    BY ViewsAssumption DEF ViewsIInv, ViewsTyped
  <2> QED BY <1>1, <2>1 DEF ViewsIInv, RememberedRight
<1>3. ASSUME NEW v \in View PROVE ViewRight(view[v])'
  <2> DEFINE b == view[v]
             c == [b EXCEPT !.sure = @ \ ws]
  <2>1. b \in ViewRecord /\ ViewRight(b) /\ view'[v] = c
    BY DEF ViewsIInv, ViewsTyped, Shift
  <2>2. /\ c.pc = b.pc /\ c.age = b.age /\ c.workers = b.workers /\ c.probe = b.probe
        /\ c.shown = b.shown /\ c.sure = b.sure \ ws
    BY <2>1 DEF ViewRecord
  <2> SUFFICES ASSUME NEW w \in Did
               PROVE  (ListedRight(view[v], w) /\ ProbedRight(view[v], w) /\ SureRight(view[v], w))'
    BY DEF ViewRight
  <2>3. b.age \in Nat /\ b.age + ListTime \in Nat
    BY <2>1, ViewsAssumption DEF ViewRecord
  <2>4. ListedRight(b, w) /\ ProbedRight(b, w) /\ SureRight(b, w)
    BY <2>1 DEF ViewRight
  <2>5. ListedRight(view[v], w)'
    BY <1>1, <2>1, <2>2, <2>3, <2>4 DEF ListedRight
  <2>6. ProbedRight(view[v], w)'
    <3>1. PICK n \in Nat : n = b.age + ListTime
      BY <2>3
    <3>2. Since(w, n)' => Since(w, n) /\ listed'[w] = listed[w]
                          /\ (Answers(w, listed[w])' <=> Answers(w, listed[w]))
      BY <1>1
    <3>3. view'[v].age + ListTime = n
      BY <2>1, <2>2, <3>1
    <3>4. Since(w, view[v].age + ListTime)' <=> Since(w, n)'
      BY <3>3 DEF Since
    <3>5. Since(w, b.age + ListTime) <=> Since(w, n)
      BY <3>1
    <3> QED BY <2>1, <2>2, <2>4, <3>2, <3>4, <3>5 DEF ProbedRight
  <2>7. SureRight(view[v], w)'
    <3> SUFFICES ASSUME w \in b.sure, w \notin ws
                 PROVE  /\ b.pc # "idle"
                        /\ w \in fresh' \/ steady'[w] = SettleTime
                        /\ (b.pc = "probing" /\ b.probe[w] = "none") \/ b.pc = "done" =>
                             (w \in b.shown <=> Alive(w)')
      BY <2>1, <2>2 DEF SureRight
    <3>1. Alive(w)' <=> Alive(w)
      BY DEF Alive
    <3>2. steady'[w] = steady[w]
      BY DEF Shift
    <3> QED BY <2>4, <3>1, <3>2 DEF SureRight
  <2> QED BY <2>5, <2>6, <2>7
<1> QED BY <1>2, <1>3 DEF ViewsIInv
LEMMA ShiftTyped ==
  ASSUME ViewsIInv, NEW ws \in SUBSET Did, Shift(ws)
  PROVE  /\ view' \in [View -> ViewRecord]
         /\ steady' \in [Did -> 0 .. SettleTime]
         /\ shiftsLeft' \in Nat
<1>1. ASSUME NEW v \in View PROVE [view[v] EXCEPT !.sure = @ \ ws] \in ViewRecord
  <2>1. view[v] \in ViewRecord
    BY DEF ViewsIInv, ViewsTyped
  <2>2. view[v].sure \ ws \in SUBSET Did
    BY <2>1 DEF ViewRecord
  <2> QED BY <2>1, <2>2 DEF ViewRecord
<1>2. view' \in [View -> ViewRecord]
  BY <1>1 DEF Shift
<1> QED BY <1>2, SettleTimes DEF Shift, ViewsIInv, ViewsTyped

LEMMA ChangesKeep ==
  ASSUME ViewsIInv,
         \/ \E r \in Registration : localRegisterWorkerInRegistry(r)
         \/ \E w \in Did, e \in AskPlace : Relisted(w, e)
         \/ \E e \in Endpoint, who \in Did \cup {Nobody, Unnamed} : Rehosted(e, who)
  PROVE  ViewsIInv'
<1>1. ASSUME NEW r \in Registration, localRegisterWorkerInRegistry(r) PROVE ViewsIInv'
  <2> DEFINE w == registration[r].did
             c == [registration[r] EXCEPT !.pc = "answered"]
  <2>1. /\ w \in Did /\ registration[r].endpoint \in AskPlace /\ registration[r].pc = "calling"
        /\ Shift({w}) /\ fresh' = fresh \ {w}
        /\ listed' = [listed EXCEPT ![w] = registration[r].endpoint]
        /\ registration' = [registration EXCEPT ![r] = c]
        /\ UNCHANGED <<answers, validationCache>>
    BY <1>1 DEF localRegisterWorkerInRegistry, ViewsIInv, ViewsTyped
  <2>2. c \in [pc : {"idle", "calling", "answered"}, did : Did \cup {Nobody}, endpoint : AskPlace]
        /\ c.did = w
    BY DEF ViewsIInv, ViewsTyped
  <2>3. ViewsTyped'
    BY <2>1, <2>2, ShiftTyped DEF ViewsIInv, ViewsTyped
  <2>4. \A x \in Did \ {w} : listed'[x] = listed[x]
                             /\ (Answers(x, listed[x])' <=> Answers(x, listed[x]))
    BY <2>1 DEF ViewsIInv, ViewsTyped, Answers
  <2> QED BY <2>1, <2>3, <2>4, ShiftKeeps
<1>2. ASSUME NEW w \in Did, NEW e \in AskPlace, Relisted(w, e) PROVE ViewsIInv'
  <2>1. /\ Shift({w}) /\ fresh' = fresh \ {w} /\ listed' = [listed EXCEPT ![w] = e]
        /\ UNCHANGED <<answers, validationCache, registration>>
    BY <1>2 DEF Relisted
  <2>2. ViewsTyped'
    BY <2>1, ShiftTyped DEF ViewsIInv, ViewsTyped
  <2>3. \A x \in Did \ {w} : listed'[x] = listed[x]
                             /\ (Answers(x, listed[x])' <=> Answers(x, listed[x]))
    BY <2>1 DEF ViewsIInv, ViewsTyped, Answers
  <2> QED BY <2>1, <2>2, <2>3, ShiftKeeps
<1>3. ASSUME NEW e \in Endpoint, NEW who \in Did \cup {Nobody, Unnamed}, Rehosted(e, who)
      PROVE  ViewsIInv'
  <2> DEFINE touched == {w \in Did : listed[w] = e}
  <2>1. /\ Shift(touched) /\ fresh' = fresh \ touched /\ answers' = [answers EXCEPT ![e] = who]
        /\ UNCHANGED <<listed, validationCache, registration>>
    BY <1>3 DEF Rehosted
  <2>2. ViewsTyped'
    BY <2>1, ShiftTyped DEF ViewsIInv, ViewsTyped
  <2>3. \A x \in Did \ touched : listed'[x] = listed[x]
                                 /\ (Answers(x, listed[x])' <=> Answers(x, listed[x]))
    BY <2>1 DEF ViewsIInv, ViewsTyped, Answers
  <2> QED BY <2>1, <2>2, <2>3, ShiftKeeps
<1> QED BY <1>1, <1>2, <1>3

LEMMA ProbeToRegisterKeeps ==
  ASSUME ViewsIInv, NEW r \in Registration,
         RegistrationRefused(r) \/ \E e \in Endpoint : ProbeToRegister(r, e)
  PROVE  ViewsIInv'
<1>1. Steady /\ UNCHANGED <<validationCache, view, shiftsLeft>>
  BY DEF RegistrationRefused, ProbeToRegister, Steady
<1>2. ViewsTyped'
  <2>1. PICK c \in [pc : {"idle", "calling", "answered"}, did : Did \cup {Nobody}, endpoint : AskPlace] :
          /\ registration' = [registration EXCEPT ![r] = c]
          /\ c.pc # "idle" => c.did \in Did
    <3>1. CASE RegistrationRefused(r)
      <4>1. /\ NoRegistration \in
                 [pc : {"idle", "calling", "answered"}, did : Did \cup {Nobody}, endpoint : AskPlace]
            /\ NoRegistration.pc = "idle"
        BY DEF NoRegistration, AskPlace
      <4> QED BY <3>1, <4>1 DEF RegistrationRefused
    <3>2. ASSUME NEW e \in Endpoint, ProbeToRegister(r, e)
          PROVE  \E c \in [pc : {"idle", "calling", "answered"}, did : Did \cup {Nobody}, endpoint : AskPlace] :
                   /\ registration' = [registration EXCEPT ![r] = c]
                   /\ c.pc # "idle" => c.did \in Did
      <4> DEFINE c == [pc |-> "calling", did |-> answers[e], endpoint |-> e]
      <4>1. /\ c \in [pc : {"idle", "calling", "answered"}, did : Did \cup {Nobody}, endpoint : AskPlace]
            /\ c.pc = "calling" /\ c.did \in Did
        BY <3>2 DEF ProbeToRegister, AskPlace
      <4> QED BY <3>2, <4>1 DEF ProbeToRegister
    <3> QED BY <3>1, <3>2
  <2> QED BY <1>1, <2>1 DEF ViewsIInv, ViewsTyped, Steady
<1>3. \A w \in Did : RememberedRight(w)'
  BY <1>1, SameMemory DEF ViewsIInv
<1>4. ASSUME NEW v \in View PROVE ViewRight(view[v])'
  <2>1. PICK d : d = view[v] /\ ViewRight(d)
    BY DEF ViewsIInv
  <2>2. ViewRight(d)'
    BY <1>1, <2>1, SameView
  <2> QED BY <1>1, <2>1, <2>2 DEF ViewRight, ListedRight, ProbedRight, SureRight
<1> QED BY <1>2, <1>3, <1>4 DEF ViewsIInv

\* A worker is registered here: what was before of it is forgotten, and if no view is
\* under way nothing old can come back.
LEMMA RegisteredKeeps ==
  ASSUME ViewsIInv, NEW r \in Registration, Registered(r)
  PROVE  ViewsIInv'
<1> DEFINE w == registration[r].did
<1>1. /\ w \in Did
      /\ validationCache' = [validationCache EXCEPT ![w] = NoVerdict]
      /\ fresh' = IF NoViewUnderWay /\ Alive(w) THEN fresh \cup {w} ELSE fresh
      /\ registration' = [registration EXCEPT ![r] = NoRegistration]
      /\ UNCHANGED <<listed, answers, view, steady, shiftsLeft>>
  BY DEF Registered, ViewsIInv, ViewsTyped
<1>2. ViewsTyped'
  BY <1>1, ViewsAssumption DEF ViewsIInv, ViewsTyped, NoVerdict, NoRegistration, AskPlace
<1>3. ASSUME NEW x \in Did, x # w
      PROVE  \A a : Since(x, a)' <=> Since(x, a)
  BY <1>1, <1>3 DEF Since
<1>4. \A x \in Did : /\ \A e : Answers(x, e)' <=> Answers(x, e)
                     /\ Alive(x)' <=> Alive(x)
  BY <1>1 DEF Answers, Alive
<1>5. ASSUME NEW x \in Did PROVE RememberedRight(x)'
  <2>1. CASE x = w
    <3>1. validationCache'[w] = NoVerdict
      BY <1>1 DEF ViewsIInv, ViewsTyped
    <3> QED BY <2>1, <3>1, ViewsAssumption DEF RememberedRight, NoVerdict
  <2>2. CASE x # w
    BY <1>1, <1>3, <1>4, <2>2 DEF ViewsIInv, RememberedRight
  <2> QED BY <2>1, <2>2
<1>6. ASSUME NEW v \in View PROVE ViewRight(view[v])'
  <2> SUFFICES ASSUME NEW x \in Did
               PROVE  (ListedRight(view[v], x) /\ ProbedRight(view[v], x) /\ SureRight(view[v], x))'
    BY DEF ViewRight
  <2>1. ListedRight(view[v], x) /\ ProbedRight(view[v], x) /\ SureRight(view[v], x)
    BY DEF ViewsIInv, ViewRight
  <2>2. CASE ~NoViewUnderWay \/ x # w
    <3>1. \A a : Since(x, a)' <=> Since(x, a)
      BY <1>1, <1>3, <2>2 DEF Since
    <3>2. x \in fresh' <=> x \in fresh
      BY <1>1, <2>2
    <3> QED BY <1>1, <1>4, <2>1, <3>1, <3>2 DEF ListedRight, ProbedRight, SureRight
  <2>3. CASE NoViewUnderWay
    <3>1. view[v].pc \in {"idle", "done"}
      BY <2>3 DEF NoViewUnderWay, AtView
    <3> QED BY <1>1, <1>4, <2>1, <3>1 DEF ListedRight, ProbedRight, SureRight
  <2> QED BY <2>2, <2>3
<1> QED BY <1>2, <1>5, <1>6 DEF ViewsIInv

\* Time passes for all alike.
LEMMA ElapseKeeps ==
  ASSUME ViewsIInv, Elapse
  PROVE  ViewsIInv'
<1>1. ASSUME NEW w \in Did, NEW a \in Nat, a < SettleTime, Since(w, a + 1)' PROVE Since(w, a)
  <2>1. steady[w] \in 0 .. SettleTime /\ steady'[w] = IF steady[w] < SettleTime THEN steady[w] + 1 ELSE SettleTime
    BY DEF Elapse, ViewsIInv, ViewsTyped
  <2>2. fresh' = fresh
    BY DEF Elapse
  <2> QED BY <1>1, <2>1, <2>2, SettleTimes DEF Since
<1>2. \A w \in Did : /\ \A e : Answers(w, e)' <=> Answers(w, e)
                     /\ Alive(w)' <=> Alive(w)
  BY DEF Elapse, Answers, Alive
<1>3. ASSUME NEW v \in View
      PROVE  /\ view'[v] \in ViewRecord
             /\ \/ /\ view[v].pc \in {"idle", "done"} /\ view'[v] = view[v]
                \/ /\ view[v].pc \in {"listing", "probing"}
                   /\ view'[v] = [view[v] EXCEPT !.age = @ + 1]
  <2>1. view[v] \in ViewRecord
    BY DEF ViewsIInv, ViewsTyped
  <2>2. view'[v] = IF AtView(v, "listing") \/ AtView(v, "probing")
                   THEN [view[v] EXCEPT !.age = @ + 1] ELSE view[v]
    BY DEF Elapse
  <2>3. [view[v] EXCEPT !.age = @ + 1] \in ViewRecord
    BY <2>1 DEF ViewRecord
  <2> QED BY <2>1, <2>2, <2>3 DEF ViewRecord, AtView
<1>4. validationCache' \in [Did -> [valid : BOOLEAN, age : 0 .. ValidationTTL]]
  <2>1. ASSUME NEW w \in Did, validationCache[w].age + 1 < ValidationTTL
        PROVE  [validationCache[w] EXCEPT !.age = @ + 1] \in [valid : BOOLEAN, age : 0 .. ValidationTTL]
    BY <2>1, ViewsAssumption DEF ViewsIInv, ViewsTyped
  <2>2. NoVerdict \in [valid : BOOLEAN, age : 0 .. ValidationTTL]
    BY ViewsAssumption DEF NoVerdict
  <2> QED BY <2>1, <2>2 DEF Elapse
<1>5. ViewsTyped'
  <2>1. view' \in [View -> ViewRecord]
    BY <1>3 DEF Elapse
  <2>2. steady' \in [Did -> 0 .. SettleTime]
    BY SettleTimes DEF Elapse, ViewsIInv, ViewsTyped
  <2> QED BY <1>4, <2>1, <2>2 DEF Elapse, ViewsIInv, ViewsTyped
<1>6. ASSUME NEW w \in Did PROVE RememberedRight(w)'
  <2> DEFINE c == validationCache[w]
  <2>1. c \in [valid : BOOLEAN, age : 0 .. ValidationTTL] /\ RememberedRight(w)
    BY DEF ViewsIInv, ViewsTyped
  <2>2. CASE c.age + 1 < ValidationTTL
    <3>1. validationCache'[w] = [c EXCEPT !.age = @ + 1]
      BY <2>2 DEF Elapse
    <3>2. validationCache'[w].valid = c.valid /\ validationCache'[w].age = c.age + 1
      BY <2>1, <3>1
    <3>3. PICK n \in Nat : n = c.age + ProbeTime + ListTime
      BY <2>1, ViewsAssumption
    <3>4. /\ n < SettleTime
          /\ (c.age + 1) + ProbeTime + ListTime = n + 1
      BY <2>1, <2>2, <3>3, SettleTimes, ViewsAssumption
    <3>6. Since(w, n + 1)' => Since(w, n)
      BY <1>1, <3>4
    <3>7. Since(w, validationCache[w].age + ProbeTime + ListTime)' =>
            Since(w, c.age + ProbeTime + ListTime)
      BY <3>2, <3>3, <3>4, <3>6 DEF Since
    <3>5. listed' = listed
      BY DEF Elapse
    <3> QED BY <1>2, <2>1, <2>2, <3>2, <3>5, <3>7, ViewsAssumption DEF RememberedRight
  <2>3. CASE ~(c.age + 1 < ValidationTTL)
    <3>1. validationCache'[w] = NoVerdict
      BY <2>3 DEF Elapse
    <3> QED BY <3>1, ViewsAssumption DEF RememberedRight, NoVerdict
  <2> QED BY <2>2, <2>3
<1>7. ASSUME NEW v \in View PROVE ViewRight(view[v])'
  <2> SUFFICES ASSUME NEW w \in Did
               PROVE  (ListedRight(view[v], w) /\ ProbedRight(view[v], w) /\ SureRight(view[v], w))'
    BY DEF ViewRight
  <2> DEFINE b == view[v]
  <2>1. ListedRight(b, w) /\ ProbedRight(b, w) /\ SureRight(b, w) /\ b \in ViewRecord
    BY DEF ViewsIInv, ViewsTyped, ViewRight
  <2>2. /\ view'[v].pc = b.pc /\ view'[v].workers = b.workers /\ view'[v].probe = b.probe
        /\ view'[v].shown = b.shown /\ view'[v].sure = b.sure
        /\ b.pc \in {"listing", "probing"} => view'[v].age = b.age + 1
    BY ZenonT(40), <1>3, <2>1 DEF ViewRecord
  <2>3. UNCHANGED <<listed, answers, fresh>>
    BY DEF Elapse
  <2>4. ListedRight(view[v], w)'
    <3>1. CASE b.pc = "listing"
      <4>1. PICK n \in Nat : n = b.age /\ n < ListTime
        BY <2>1, <3>1 DEF Elapse, AtView, ViewRecord
      <4>2. n < SettleTime /\ n + 1 <= ListTime
        BY <4>1, SettleTimes, ViewsAssumption
      <4>3. Since(w, n + 1)' => b.workers[w] = listed[w]
        BY <1>1, <2>1, <3>1, <4>1, <4>2 DEF ListedRight
      <4>4. view'[v].age = n + 1
        BY <2>2, <3>1, <4>1
      <4>5. Since(w, view[v].age)' <=> Since(w, n + 1)'
        BY <4>4 DEF Since
      <4> QED BY <2>2, <2>3, <3>1, <4>2, <4>3, <4>4, <4>5 DEF ListedRight
    <3> QED BY <2>2, <3>1 DEF ListedRight
  <2>5. ProbedRight(view[v], w)'
    <3>1. CASE b.pc = "probing"
      <4>1. b.age \in Nat /\ b.age < ProbeTime
        BY <2>1, <3>1 DEF Elapse, AtView, ViewRecord
      <4>2. PICK n \in Nat : n = b.age + ListTime
        BY <4>1, ViewsAssumption
      <4>3. view'[v].age = b.age + 1 /\ view'[v].age <= ProbeTime /\ n < SettleTime
            /\ view'[v].age + ListTime = n + 1
        BY <2>2, <3>1, <4>1, <4>2, SettleTimes, ViewsAssumption
      <4>4. Since(w, n + 1)' => Since(w, n)
        BY <1>1, <4>3
      <4>5. Since(w, view[v].age + ListTime)' => Since(w, b.age + ListTime)
        BY <4>2, <4>3, <4>4 DEF Since
      <4> QED BY <1>2, <2>1, <2>2, <2>3, <3>1, <4>3, <4>5 DEF ProbedRight
    <3> QED BY <2>2, <3>1 DEF ProbedRight
  <2>6. SureRight(view[v], w)'
    <3>1. steady[w] = SettleTime => steady'[w] = SettleTime
      BY SettleTimes DEF Elapse
    <3> QED BY <1>2, <2>1, <2>2, <2>3, <3>1 DEF SureRight
  <2> QED BY <2>4, <2>5, <2>6
<1> QED BY <1>5, <1>6, <1>7 DEF ViewsIInv

LEMMA ViewsNextKeeps == ViewsIInv /\ [ViewsNext]_viewsVars => ViewsIInv'
<1> SUFFICES ASSUME ViewsIInv, [ViewsNext]_viewsVars PROVE ViewsIInv'
  OBVIOUS
<1>1. ASSUME NEW v \in View,
             \/ listActiveWorkers(v) \/ filterValidatedWorkers(v)
             \/ \E w \in Did : validateWorker(v, w) \/ Validated(v, w)
      PROVE  ViewsIInv'
  BY <1>1, listActiveWorkersKeeps, filterValidatedWorkersKeeps, validateWorkerKeeps, ValidatedKeeps
<1>2. ASSUME NEW r \in Registration,
             \/ \E e \in Endpoint : ProbeToRegister(r, e)
             \/ localRegisterWorkerInRegistry(r) \/ RegistrationRefused(r) \/ Registered(r)
      PROVE  ViewsIInv'
  BY <1>2, ProbeToRegisterKeeps, ChangesKeep, RegisteredKeeps
<1>3. CASE UNCHANGED viewsVars
  <2>1. UNCHANGED <<listed, answers, validationCache, view, registration, steady, fresh, shiftsLeft>>
    BY <1>3 DEF viewsVars
  <2> QED BY <2>1 DEF ViewsIInv, ViewsTyped, RememberedRight, ViewRight, ListedRight, ProbedRight,
            SureRight, Since, Alive, Answers
<1> QED BY <1>1, <1>2, <1>3, ChangesKeep, ElapseKeeps DEF ViewsNext, AskPlace

\* A worker of which nothing has changed for long enough is shown if and only if it
\* answers, whatever requests overlap and however late registry and endpoints answered.
THEOREM ViewsCorrect == ViewsSpec => []ViewsInv
<1>1. ViewsIInv => ViewsInv
  <2> SUFFICES ASSUME ViewsIInv PROVE ViewsInv
    OBVIOUS
  <2>1. ViewsTypeOK
    BY DEF ViewsIInv, ViewsTyped, ViewsTypeOK, ViewRecord, AskPlace
  <2>2. TruthIsShown
    BY DEF ViewsIInv, ViewsTyped, ViewRecord, ViewRight, SureRight, TruthIsShown, AtView
  <2> QED BY <2>1, <2>2 DEF ViewsInv
<1> QED BY <1>1, ViewsInitHolds, ViewsNextKeeps, PTL DEF ViewsSpec

-----------------------------------------------------------------------------
(* The board *)

LEMMA Least ==
  ASSUME NEW S \in SUBSET Nat, S # {}
  PROVE  \E n \in S : \A m \in S : n <= m
<1> DEFINE R == {ss \in Nat \X Nat : ss[1] < ss[2]}
<1>1. R = OpToRel(<, Nat)
  BY DEF OpToRel
<1>2. IsWellFoundedOn(R, Nat)
  BY <1>1, NatLessThanWellFounded
<1>3. \E n \in S : \A m \in S : <<m, n>> \notin R
  BY <1>2, WFMin
<1>4. ASSUME NEW n \in S, NEW m \in S, <<m, n>> \notin R PROVE n <= m
  <2>1. n \in Nat /\ m \in Nat
    OBVIOUS
  <2>2. ~(m < n)
    BY <1>4, <2>1
  <2> QED BY <2>1, <2>2
<1> HIDE DEF R
<1> QED BY <1>3, <1>4

\* What is shown is followed by a request that is asked within the interval, or was.
Followed(answer) ==
  \/ answer.age <= Timeout + timer
  \/ \E i \in Slot : asked[i] # NotAsked /\ answer.age <= Timeout + Interval + asked[i].age

\* A request under way, or an answer, that is younger than the selection is of the agent
\* selected.
OfSelected(answer) == answer.of = selected \/ answer.age >= selectedFor

\* The inductive invariant of BoardInv.
BoardIInv ==
  /\ BoardTypeOK /\ clicksLeft \in Nat
  /\ (shown.of # Nothing /\ ~error) => Followed(shown) /\ OfSelected(shown)
  /\ \A i \in Slot : asked[i] # NotAsked => OfSelected(asked[i])
  /\ ~open => shown = NobodyShown

Asked == [of : Agent \cup {Nothing}, age : 0 .. Timeout]

LEMMA RefreshedAdds ==
  ASSUME BoardTypeOK, NEW a \in Agent, Refreshed(a)
  PROVE  \E i \in Slot : /\ asked[i] = NotAsked
                         /\ asked' = [asked EXCEPT ![i] = [of |-> a, age |-> 0]]
<1> DEFINE i == CHOOSE i \in Free(asked) : \A j \in Free(asked) : i <= j
<1>1. asked' = [asked EXCEPT ![i] = [of |-> a, age |-> 0]]
  BY DEF Refreshed
<1>2. i \in Free(asked)
  <2>1. Free(asked) \in SUBSET Nat /\ Free(asked) # {}
    BY DEF Free, Refreshed, Slot
  <2>2. \E n \in Free(asked) : \A m \in Free(asked) : n <= m
    BY <2>1, Least
  <2> QED BY <2>2
<1>3. i \in Slot /\ asked[i] = NotAsked
  BY <1>2 DEF Free
<1> QED BY <1>1, <1>3

\* A request that is added, of the agent selected, keeps what requests and answer say, if
\* the timer starts anew or was not touched.
LEMMA RefreshedKeeps ==
  ASSUME BoardIInv, Refreshed(selected'), UNCHANGED <<shown, error>>,
         selected' \in Agent, timer' \in {0, timer},
         \/ UNCHANGED <<selected, selectedFor>>
         \/ selectedFor' = 0
  PROVE  /\ asked' \in [Slot -> [of : Agent \cup {Nothing}, age : 0 .. Timeout]]
         /\ ((shown.of # Nothing /\ ~error) => Followed(shown) /\ OfSelected(shown))'
         /\ (\A i \in Slot : asked[i] # NotAsked => OfSelected(asked[i]))'
<1>1. PICK i \in Slot : /\ asked[i] = NotAsked
                        /\ asked' = [asked EXCEPT ![i] = [of |-> selected', age |-> 0]]
  <2>1. PICK a \in Agent : a = selected'
    OBVIOUS
  <2> QED BY <2>1, RefreshedAdds DEF BoardIInv
<1>2. asked'[i] = [of |-> selected', age |-> 0] /\ asked'[i].of = selected' /\ asked'[i].age = 0
      /\ asked'[i] # NotAsked
  BY <1>1, BoardAssumption DEF BoardIInv, BoardTypeOK, NotAsked
<1>3. \A j \in Slot \ {i} : asked'[j] = asked[j]
  BY <1>1 DEF BoardIInv, BoardTypeOK
<1>4. asked' \in [Slot -> [of : Agent \cup {Nothing}, age : 0 .. Timeout]]
  BY <1>1, BoardAssumption DEF BoardIInv, BoardTypeOK
<1>5. selectedFor \in Nat /\ timer \in 0 .. Interval /\ shown.age \in Nat /\ selectedFor' \in Nat
  BY DEF BoardIInv, BoardTypeOK
<1>6. \A j \in Slot : asked[j] # NotAsked => asked[j].age \in Nat
  BY DEF BoardIInv, BoardTypeOK
<1>7. ASSUME NEW answer, answer.age \in Nat, OfSelected(answer) PROVE OfSelected(answer)'
  BY <1>5, <1>7 DEF OfSelected
<1>8. (\A j \in Slot : asked[j] # NotAsked => OfSelected(asked[j]))'
  <2> SUFFICES ASSUME NEW j \in Slot, asked'[j] # NotAsked PROVE OfSelected(asked[j])'
    OBVIOUS
  <2>1. CASE j = i
    BY <1>2, <2>1 DEF OfSelected
  <2>2. CASE j # i
    <3>1. PICK answer : answer = asked[j] /\ answer = asked'[j]
      BY <1>3, <2>2
    <3>2. OfSelected(answer)'
      BY <1>3, <1>6, <1>7, <2>2, <3>1 DEF BoardIInv
    <3> QED BY <3>1, <3>2 DEF OfSelected
  <2> QED BY <2>1, <2>2
<1>9. ASSUME shown.of # Nothing, ~error PROVE Followed(shown)' /\ OfSelected(shown)'
  <2>1. OfSelected(shown)'
    BY <1>5, <1>9 DEF BoardIInv, OfSelected
  <2>2. CASE shown.age <= Timeout + timer
    <3>1. shown.age <= Timeout + Interval + asked'[i].age
      BY <1>2, <1>5, <2>2, BoardAssumption
    <3> QED BY <1>2, <2>1, <3>1 DEF Followed
  <2>3. ASSUME NEW j \in Slot, asked[j] # NotAsked, shown.age <= Timeout + Interval + asked[j].age
        PROVE  Followed(shown)'
    <3>1. asked'[j] = asked[j]
      BY <1>1, <1>3, <2>3
    <3> QED BY <2>3, <3>1 DEF Followed
  <2> QED BY <1>9, <2>1, <2>2, <2>3 DEF BoardIInv, Followed
<1> QED BY <1>4, <1>8, <1>9

LEMMA BoardInitHolds == BoardInit => BoardIInv
<1> SUFFICES ASSUME BoardInit PROVE BoardIInv
  OBVIOUS
<1>1. {follows, open, error} \subseteq BOOLEAN
  BY DEF BoardInit
<1>2. NobodyShown \in [of : Agent \cup {Nothing}, age : 0 .. Outdated] /\ NobodyShown.of = Nothing
  BY BoardAssumption DEF NobodyShown, Outdated
<1>3. NotAsked \in [of : Agent \cup {Nothing}, age : 0 .. Timeout]
  BY BoardAssumption DEF NotAsked
<1>4. BoardTypeOK
  BY <1>1, <1>2, <1>3, BoardAssumption DEF BoardInit, BoardTypeOK, Outdated
<1> QED BY <1>2, <1>4, BoardAssumption DEF BoardInit, BoardIInv

\* Actions that send a request.
LEMMA AskingKeeps ==
  ASSUME BoardIInv,
         \/ OpenPage \/ IntervalFires \/ refresh
         \/ \E a \in Agent : selectWorker(a)
  PROVE  BoardIInv'
<1> DEFINE Polls == /\ Refreshed(selected') /\ UNCHANGED <<follows, shown, error>> /\ open' = TRUE
                    /\ selected' \in Agent /\ timer' \in {0, timer}
                    /\ \/ UNCHANGED <<selected, selectedFor>>
                       \/ selectedFor' = 0
                    /\ clicksLeft' \in Nat
<1>1. Polls
  <2>0. selected \in Agent /\ clicksLeft \in Nat
    BY DEF BoardIInv, BoardTypeOK
  <2>1. CASE OpenPage
    BY <2>0, <2>1 DEF OpenPage
  <2>2. CASE IntervalFires
    <3>1. open' = TRUE
      BY <2>2 DEF IntervalFires, BoardIInv, BoardTypeOK
    <3> QED BY <2>0, <2>2, <3>1 DEF IntervalFires
  <2>3. CASE refresh
    <3>1. open' = TRUE
      BY <2>3 DEF refresh, BoardIInv, BoardTypeOK
    <3> QED BY <2>0, <2>3, <3>1 DEF refresh, Click
  <2>4. ASSUME NEW a \in Agent, selectWorker(a) PROVE Polls
    <3>1. open' = TRUE
      BY <2>4 DEF selectWorker, BoardIInv, BoardTypeOK
    <3> QED BY <2>0, <2>4, <3>1 DEF selectWorker, Click
  <2> QED BY <2>1, <2>2, <2>3, <2>4
<1>2. BoardTypeOK'
  BY <1>1, RefreshedKeeps, BoardAssumption DEF BoardIInv, BoardTypeOK, Outdated
<1> QED BY <1>1, <1>2, RefreshedKeeps DEF BoardIInv

LEMMA LeavePageKeeps ==
  ASSUME BoardIInv, LeavePage
  PROVE  BoardIInv'
<1>1. NobodyShown \in [of : Agent \cup {Nothing}, age : 0 .. Outdated] /\ NobodyShown.of = Nothing
  BY BoardAssumption DEF NobodyShown, Outdated
<1>2. NotAsked \in [of : Agent \cup {Nothing}, age : 0 .. Timeout]
  BY BoardAssumption DEF NotAsked
<1>3. BoardTypeOK'
  <2>1. asked' \in [Slot -> [of : Agent \cup {Nothing}, age : 0 .. Timeout]]
    BY <1>2 DEF LeavePage
  <2>2. /\ selected' \in Agent /\ selectedFor' \in 0 .. Outdated
        /\ timer' \in 0 .. Interval
        /\ shown' \in [of : Agent \cup {Nothing}, age : 0 .. Outdated]
    BY <1>1, BoardAssumption DEF LeavePage, BoardIInv, BoardTypeOK, Outdated
  <2>3. {follows, open, error}' \subseteq BOOLEAN
    BY DEF LeavePage, BoardIInv, BoardTypeOK
  <2> QED BY <2>1, <2>2, <2>3 DEF BoardTypeOK, Outdated
<1>4. clicksLeft' \in Nat
  BY DEF LeavePage, Click, BoardIInv
<1> QED BY <1>1, <1>3, <1>4 DEF LeavePage, BoardIInv

LEMMA selectCoordinatorKeeps ==
  ASSUME BoardIInv, NEW a \in Agent, selectCoordinator(a)
  PROVE  BoardIInv'
<1>1. BoardTypeOK'
  BY BoardAssumption DEF selectCoordinator, BoardIInv, BoardTypeOK, Outdated
<1>2. clicksLeft' \in Nat
  BY DEF selectCoordinator, Click, BoardIInv
<1>3. UNCHANGED <<open, timer, asked, shown, error>> /\ selectedFor' = 0
  BY DEF selectCoordinator
<1>4. (\A i \in Slot : asked[i] # NotAsked => OfSelected(asked[i]))'
  BY <1>3 DEF BoardIInv, BoardTypeOK, OfSelected
<1>5. (shown.of # Nothing /\ ~error) => Followed(shown)' /\ OfSelected(shown)'
  BY <1>3 DEF BoardIInv, BoardTypeOK, OfSelected, Followed
<1> QED BY <1>1, <1>2, <1>3, <1>4, <1>5 DEF BoardIInv

LEMMA AnswerKeeps ==
  ASSUME BoardIInv, NEW i \in Slot, Fetched(i) \/ FetchFailed(i)
  PROVE  BoardIInv'
<1>1. /\ UNCHANGED <<follows, selected, selectedFor, open, timer, clicksLeft>>
      /\ asked' = [asked EXCEPT ![i] = NotAsked]
      /\ asked[i] # NotAsked /\ open
      /\ \/ shown' = asked[i] /\ error' = FALSE
         \/ shown' = shown /\ error' = TRUE
  BY DEF Fetched, FetchFailed
<1>2. NotAsked \in [of : Agent \cup {Nothing}, age : 0 .. Timeout]
  BY BoardAssumption DEF NotAsked
<1>3. /\ asked[i].of \in Agent \cup {Nothing} /\ asked[i].age \in 0 .. Timeout
      /\ asked[i] \in [of : Agent \cup {Nothing}, age : 0 .. Outdated]
  BY BoardAssumption DEF BoardIInv, BoardTypeOK, Outdated
<1>4. BoardTypeOK'
  BY <1>1, <1>2, <1>3 DEF BoardIInv, BoardTypeOK
<1>5. (\A j \in Slot : asked[j] # NotAsked => OfSelected(asked[j]))'
  <2> SUFFICES ASSUME NEW j \in Slot, asked'[j] # NotAsked PROVE OfSelected(asked[j])'
    OBVIOUS
  <2>1. asked'[j] = asked[j]
    BY <1>1 DEF BoardIInv, BoardTypeOK
  <2> QED BY <1>1, <2>1 DEF BoardIInv, OfSelected
<1>6. ASSUME ~error' PROVE Followed(shown)' /\ OfSelected(shown)'
  <2>1. shown' = asked[i] /\ OfSelected(asked[i])
    BY <1>1, <1>6 DEF BoardIInv
  <2>2. asked[i].age <= Timeout + timer
    BY <1>3, BoardAssumption DEF BoardIInv, BoardTypeOK
  <2> QED BY <1>1, <2>1, <2>2 DEF Followed, OfSelected
<1> QED BY <1>1, <1>4, <1>5, <1>6 DEF BoardIInv

\* Time passes for all alike, and stops at what is outdated.
LEMMA WaitKeeps ==
  ASSUME BoardIInv, Wait
  PROVE  BoardIInv'
<1>1. /\ timer \in Nat /\ timer' = timer + 1 /\ timer' \in 0 .. Interval
      /\ selectedFor \in 0 .. Outdated /\ selectedFor' = Later(selectedFor)
      /\ shown.age \in 0 .. Outdated /\ shown'.age = Later(shown.age) /\ shown'.of = shown.of
      /\ Outdated \in Nat
      /\ UNCHANGED <<follows, selected, open, error, clicksLeft>> /\ open
  BY BoardAssumption DEF Wait, BoardIInv, BoardTypeOK, Outdated
<1>2. \A a \in 0 .. Outdated : Later(a) \in 0 .. Outdated /\ a <= Later(a) /\ Later(a) <= a + 1
  BY <1>1 DEF Later
<1>3. ASSUME NEW i \in Slot
      PROVE  /\ asked'[i] \in [of : Agent \cup {Nothing}, age : 0 .. Timeout]
             /\ asked[i] = NotAsked => asked'[i] = NotAsked
             /\ asked[i] # NotAsked =>
                  /\ asked'[i] # NotAsked /\ asked'[i].of = asked[i].of
                  /\ asked'[i].age = asked[i].age + 1 /\ asked[i].age \in 0 .. Timeout
  <2>1. asked[i] \in [of : Agent \cup {Nothing}, age : 0 .. Timeout]
    BY DEF BoardIInv, BoardTypeOK
  <2>2. CASE asked[i] = NotAsked
    BY <2>1, <2>2 DEF Wait
  <2>3. CASE asked[i] # NotAsked
    <3>1. asked'[i] = [asked[i] EXCEPT !.age = @ + 1] /\ asked[i].age < Timeout
      BY <2>3 DEF Wait
    <3>2. asked'[i].of = asked[i].of /\ asked'[i].age = asked[i].age + 1
      BY <2>1, <3>1
    <3>3. asked'[i] \in [of : Agent \cup {Nothing}, age : 0 .. Timeout]
      BY <2>1, <3>1, BoardAssumption
    <3>4. asked'[i].age # 0
      BY <2>1, <3>2
    <3> QED BY <2>1, <2>3, <3>2, <3>3, <3>4 DEF NotAsked
  <2> QED BY <2>2, <2>3
<1>4. BoardTypeOK'
  <2>1. asked' \in [Slot -> [of : Agent \cup {Nothing}, age : 0 .. Timeout]]
    BY <1>3 DEF Wait
  <2>2. shown' \in [of : Agent \cup {Nothing}, age : 0 .. Outdated]
    BY <1>1, <1>2 DEF Wait, BoardIInv, BoardTypeOK
  <2> QED BY <1>1, <1>2, <2>1, <2>2 DEF BoardIInv, BoardTypeOK
<1>5. (\A i \in Slot : asked[i] # NotAsked => OfSelected(asked[i]))'
  <2> SUFFICES ASSUME NEW i \in Slot, asked'[i] # NotAsked PROVE OfSelected(asked[i])'
    OBVIOUS
  <2> QED BY <1>1, <1>2, <1>3 DEF BoardIInv, OfSelected
<1>6. ASSUME shown.of # Nothing, ~error PROVE Followed(shown)' /\ OfSelected(shown)'
  <2>1. Followed(shown) /\ OfSelected(shown)
    BY <1>6 DEF BoardIInv
  <2>2. OfSelected(shown)'
    BY <1>1, <1>2, <2>1 DEF OfSelected, Later
  <2>3. CASE shown.age <= Timeout + timer
    <3>1. shown'.age <= Timeout + timer'
      BY <1>1, <1>2, <2>3, BoardAssumption
    <3> QED BY <2>2, <3>1 DEF Followed
  <2>4. ASSUME NEW i \in Slot, asked[i] # NotAsked, shown.age <= Timeout + Interval + asked[i].age
        PROVE  Followed(shown)'
    <3>1. asked'[i] # NotAsked /\ shown'.age <= Timeout + Interval + asked'[i].age
      BY <1>1, <1>2, <1>3, <2>4, BoardAssumption
    <3> QED BY <3>1 DEF Followed
  <2> QED BY <2>1, <2>2, <2>3, <2>4 DEF Followed
<1> QED BY <1>1, <1>4, <1>5, <1>6 DEF BoardIInv

LEMMA BoardNextKeeps == BoardIInv /\ [BoardNext]_boardVars => BoardIInv'
<1> SUFFICES ASSUME BoardIInv, [BoardNext]_boardVars PROVE BoardIInv'
  OBVIOUS
<1>1. CASE UNCHANGED boardVars
  BY <1>1 DEF boardVars, BoardIInv, BoardTypeOK, Followed, OfSelected
<1> QED BY <1>1, AskingKeeps, LeavePageKeeps, selectCoordinatorKeeps, AnswerKeeps, WaitKeeps DEF BoardNext

\* What the board shows is recent and, in time, of the agent selected, in whatever order
\* its requests are answered, fail or time out.
THEOREM BoardCorrect == BoardSpec => []BoardInv
<1>1. BoardIInv => BoardInv
  <2> SUFFICES ASSUME BoardIInv, shown.of # Nothing, ~error
               PROVE  shown.age < Outdated /\ (selectedFor = Outdated => shown.of = selected)
    BY DEF BoardIInv, BoardInv, ShownIsRecent
  <2>1. Followed(shown) /\ OfSelected(shown)
    BY DEF BoardIInv
  <2>2. shown.age \in Nat /\ timer \in 0 .. Interval /\ Outdated \in Nat
        /\ \A i \in Slot : asked[i].age \in 0 .. Timeout
    BY BoardAssumption DEF BoardIInv, BoardTypeOK, Outdated
  <2>3. shown.age < Outdated
    BY <2>1, <2>2, BoardAssumption DEF Followed, Outdated
  <2> QED BY <2>1, <2>2, <2>3 DEF OfSelected
<1> QED BY <1>1, BoardInitHolds, BoardNextKeeps, PTL DEF BoardSpec

-----------------------------------------------------------------------------
(* The wizard *)

CommitPart == {"encryptAndSignPolicy", "signAndSendTransaction", "invalidateCache"}

\* What any request says, whether or not anybody hears of it.
RequestRight(r) ==
  /\ r.done = TRUE => r.heard = TRUE
  /\ r.op # "registerAnonymous" \/ r.done = TRUE => r.wallet \in Wallet
  /\ r.op = "signAndSendTransaction" /\ r.done = TRUE => r.wallet \in policy
  /\ r.op = "invalidateCache" =>
       r.wallet \in policy /\ (r.done = TRUE => r.wallet \notin noPolicyCached)
  /\ r.op = "registerWorker" /\ r.done = TRUE => r.wallet \in answered

\* A request of the screen shown that begins when the screen is mounted.
EffectRight(r) ==
  (r.heard = TRUE /\ r.from = mount) =>
    /\ r.op \in {"registerAnonymous", "registerWorker"} => effectRun = TRUE
    /\ r.op = "registerAnonymous" => step = "register"
    /\ r.op = "registerWorker" => step = "autonomous" /\ r.wallet = wallet

\* Where nobody disconnects while something is under way: a balance request is of a screen
\* that has advanced or is shown, any other of the one that is shown.
ScreenRight(r) ==
  r.heard = TRUE =>
    /\ accountId = TRUE
    /\ r.op = "checkBalance" => r.from \in advanced \/ (r.from = mount /\ step = "fund")
    /\ r.op # "checkBalance" => r.from = mount
    /\ r.op = "registerAnonymous" => step = "register" /\ path = "A_anonymous"
    /\ r.op \in CommitPart => step = "policy" /\ r.wallet = wallet
    /\ r.op = "registerWorker" => step = "autonomous" /\ r.wallet = wallet

Looked(w) == w \in policy /\ w \notin noPolicyCached

OneAtATime ==
  /\ \A r \in requests : ScreenRight(r)
  /\ \A q, r \in requests :
       (q.heard = TRUE /\ r.heard = TRUE /\ q.op # "checkBalance" /\ r.op # "checkBalance") => q = r
  /\ \A r \in requests : r.op = "registerWorker" => Looked(r.wallet)
  /\ step = "autonomous" /\ wallet # NoWallet => Looked(wallet)

\* A request of a wallet that is to be signed for, or made, finds it unsigned.
Unsigned(r) ==
  /\ r.heard = TRUE
  /\ r.op = "encryptAndSignPolicy" \/ (r.op = "signAndSendTransaction" /\ r.done = FALSE)
     \/ (r.op = "registerAnonymous" /\ r.done = TRUE) => signatures[r.wallet] = 0

\* The commit of a wallet that is signed for is under way, or behind it.
SignedOnce ==
  /\ \A r \in requests : Unsigned(r)
  /\ \A w \in Wallet : signatures[w] <= 1
  /\ wallet \in Wallet /\ signatures[wallet] # 0 =>
       \/ step \in {"autonomous", "install", "success"}
       \/ /\ step = "policy"
          /\ \E r \in requests :
               /\ r.heard = TRUE /\ r.from = mount
               /\ r.op = "invalidateCache" \/ (r.op = "signAndSendTransaction" /\ r.done = TRUE)

\* The inductive invariant of OnboardingInv.
OnboardingIInv ==
  /\ OnboardingTypeOK /\ IsFiniteSet(requests) /\ lost \in Nat /\ reopens \in Nat
  /\ MoneyIsInHand /\ ShownWasAnswered
  /\ \A r \in requests : RequestRight(r) /\ EffectRight(r)
  /\ step \in {"connect", "config", "register"} => wallet = NoWallet
  /\ \A w \in Wallet : signatures[w] # 0 => w \in policy
  /\ patient = TRUE => OneAtATime
  /\ (patient = TRUE /\ lost = 0 /\ reopens = 0) => SignedOnce

LEMMA StepsSay ==
  /\ {Step[k] : k \in 1 .. 8} =
       {"connect", "config", "register", "fund", "policy", "autonomous", "install", "success"}
  /\ DOMAIN Step = 1 .. 8
BY DEF Step

\* A request whose page is gone.
LEMMA UnheardSays ==
  ASSUME NEW r \in Request, NEW q \in Unheard(r)
  PROVE  /\ q \in Request /\ q.op = r.op /\ q.op \in Lasting /\ q.wallet = r.wallet
         /\ q.heard = FALSE /\ q.done = FALSE
<1>1. q = [r EXCEPT !.heard = FALSE, !.from = 0] /\ r.done = FALSE /\ r.op \in Lasting
  <2>1. ~r.done /\ r.op \in Lasting /\ q = [r EXCEPT !.heard = FALSE, !.from = 0]
    BY DEF Unheard
  <2>2. r.done \in BOOLEAN
    BY DEF Request
  <2> QED BY <2>1, <2>2
<1> QED BY <1>1 DEF Request

\* A request that is done, or goes on to its next part.
LEMMA DoneSays ==
  ASSUME NEW r \in Request, NEW w \in Wallet \cup {NoWallet}
  PROVE  \E q \in Request :
           /\ q = [r EXCEPT !.done = TRUE, !.wallet = w] /\ q.op = r.op /\ q.from = r.from
           /\ q.slot = r.slot /\ q.wallet = w /\ q.heard = r.heard /\ q.done = TRUE
<1>1. PICK q : q = [r EXCEPT !.done = TRUE, !.wallet = w]
  OBVIOUS
<1>2. /\ q.op = r.op /\ q.from = r.from /\ q.slot = r.slot /\ q.wallet = w
      /\ q.heard = r.heard /\ q.done = TRUE
  BY <1>1 DEF Request
<1>3. q \in Request
  BY <1>1 DEF Request
<1> QED BY <1>1, <1>2, <1>3, Zenon

LEMMA PartSays ==
  ASSUME NEW r \in Request
  PROVE  /\ \E q \in Request :
              /\ q = [r EXCEPT !.op = "invalidateCache", !.done = FALSE]
              /\ q.op = "invalidateCache" /\ q.from = r.from /\ q.wallet = r.wallet
              /\ q.heard = r.heard /\ q.done = FALSE
         /\ \E q \in Request :
              /\ q = [r EXCEPT !.op = "signAndSendTransaction"]
              /\ q.op = "signAndSendTransaction" /\ q.from = r.from /\ q.wallet = r.wallet
              /\ q.heard = r.heard /\ q.done = r.done
<1>1. {"invalidateCache", "signAndSendTransaction"} \subseteq Operation
  BY DEF Operation, Lasting
<1>2. PICK p : p = [r EXCEPT !.op = "invalidateCache", !.done = FALSE]
  OBVIOUS
<1>3. PICK q : q = [r EXCEPT !.op = "signAndSendTransaction"]
  OBVIOUS
<1>4. /\ p \in Request /\ p.op = "invalidateCache" /\ p.from = r.from /\ p.wallet = r.wallet
      /\ p.heard = r.heard /\ p.done = FALSE
  BY <1>1, <1>2 DEF Request
<1>5. /\ q \in Request /\ q.op = "signAndSendTransaction" /\ q.from = r.from
      /\ q.wallet = r.wallet /\ q.heard = r.heard /\ q.done = r.done
  BY <1>1, <1>3 DEF Request
<1> QED BY <1>2, <1>3, <1>4, <1>5

\* A screen that is mounted has a number of its own.
LEMMA RemountSays ==
  ASSUME NEW underWay \in SUBSET Request, IsFiniteSet(underWay), NEW spent \in SUBSET Nat,
         Remount(underWay, spent)
  PROVE  /\ mount' \in Nat /\ effectRun' = FALSE /\ advanced' \subseteq spent
         /\ \A r \in underWay : r.heard = TRUE => r.from # mount'
         /\ \A r \in underWay : r.heard = TRUE /\ r.from \in spent => r.from \in advanced'
<1> DEFINE S == Screens(underWay)
<1>1. S \subseteq Nat /\ \A r \in underWay : r.heard = TRUE => r.from \in S
  BY DEF Screens, Request
<1>2. IsFiniteSet(S)
  <2> DEFINE Heard == {q \in underWay : q.heard}
             f == [r \in Heard |-> r.from]
  <2>1. IsFiniteSet(Heard)
    BY FS_Subset
  <2>2. f \in Surjection(Heard, S)
    BY DEF Surjection, Screens
  <2> QED BY <2>1, <2>2, FS_Surjection
<1>3. PICK N \in Nat : N = Cardinality(S)
  BY <1>2, FS_CardinalityType
<1> DEFINE First(k) == k \notin S /\ \A m \in 0 .. k - 1 : m \in S
<1>4. \E n \in 0 .. N : First(n)
  <2>1. PICK Gaps : Gaps = {n \in 0 .. N : n \notin S} /\ Gaps \in SUBSET Nat
    <3>1. {n \in 0 .. N : n \notin S} \in SUBSET Nat
      OBVIOUS
    <3> QED BY <3>1
  <2>2. Gaps # {}
    <3> SUFFICES ASSUME Gaps = {} PROVE FALSE
      OBVIOUS
    <3>1. 0 .. N \in SUBSET S
      BY <2>1
    <3>2. Cardinality(0 .. N) = N + 1
      BY FS_Interval
    <3>3. Cardinality(0 .. N) <= N
      BY <1>2, <1>3, <3>1, FS_Subset
    <3> QED BY <3>2, <3>3
  <2>3. PICK n \in Gaps : \A m \in Gaps : n <= m
    BY <2>1, <2>2, Least
  <2>4. n \in 0 .. N /\ n \notin S
    BY <2>1
  <2>5. ASSUME NEW m \in 0 .. n - 1 PROVE m \in S
    <3>1. m \in 0 .. N /\ ~(n <= m)
      BY <2>4
    <3>2. m \notin Gaps
      BY <2>3, <3>1
    <3> QED BY <2>1, <3>1, <3>2
  <2> QED BY <2>4, <2>5
<1>5. /\ mount' = CHOOSE k \in 0 .. N : First(k)
      /\ effectRun' = FALSE /\ advanced' = spent \cap S
  BY <1>3 DEF Remount
<1>6. mount' \in 0 .. N /\ First(mount')
  <2> HIDE DEF First
  <2> QED BY <1>4, <1>5
<1> QED BY <1>1, <1>5, <1>6

\* The types that every step starts from.
LEMMA WizardTyped ==
  ASSUME OnboardingIInv
  PROVE  /\ accountId \in BOOLEAN /\ patient \in BOOLEAN /\ effectRun \in BOOLEAN
         /\ path \in Path /\ wallet \in Wallet \cup {NoWallet}
         /\ mount \in Nat /\ advanced \in SUBSET Nat
         /\ requests \in SUBSET Request /\ IsFiniteSet(requests)
         /\ signatures \in [Wallet -> Nat]
         /\ step \in {"connect", "config", "register", "fund", "policy", "autonomous",
                      "install", "success"}
         /\ lost \in Nat /\ reopens \in Nat /\ NoWallet \notin Wallet
BY StepsSay, OnboardingAssumption DEF OnboardingIInv, OnboardingTypeOK

\* Another screen is shown: its requests are none yet.
LEMMA ScreenChanges ==
  ASSUME OnboardingIInv,
         requests' \subseteq requests, mount' \in Nat, effectRun' = FALSE, advanced' \in SUBSET Nat,
         \A r \in requests' : r.heard = TRUE => r.from # mount',
         UNCHANGED <<patient, funded, policy, registered, noPolicyCached, signatures, answered, lost, reopens>>,
         step' \in {"connect", "config", "register", "fund", "policy", "autonomous",
                    "install", "success"},
         path' \in Path, wallet' \in Wallet \cup {NoWallet}, accountId' \in BOOLEAN,
         finished' \in SUBSET Wallet, MoneyIsInHand', ShownWasAnswered',
         step' \in {"connect", "config", "register"} => wallet' = NoWallet,
         patient = TRUE =>
           /\ \A r \in requests' : r.heard = TRUE =>
                accountId' = TRUE /\ r.op = "checkBalance" /\ r.from \in advanced'
           /\ step' = "autonomous" /\ wallet' # NoWallet => Looked(wallet'),
         (patient = TRUE /\ lost = 0 /\ reopens = 0 /\ wallet' \in Wallet /\ signatures[wallet'] # 0)
           => step' \in {"autonomous", "install", "success"}
  PROVE  OnboardingIInv'
<1>1. OnboardingTypeOK'
  BY StepsSay DEF OnboardingIInv, OnboardingTypeOK
<1>2. IsFiniteSet(requests') /\ lost' \in Nat /\ reopens' \in Nat
  BY WizardTyped, FS_Subset
<1>3. (\A r \in requests : RequestRight(r) /\ EffectRight(r))'
  BY DEF OnboardingIInv, RequestRight, EffectRight
<1>4. (\A w \in Wallet : signatures[w] # 0 => w \in policy)'
  BY DEF OnboardingIInv
<1>5. patient' = TRUE => OneAtATime'
  BY DEF OnboardingIInv, OneAtATime, ScreenRight, Looked, CommitPart
<1>6. ASSUME patient' = TRUE, lost' = 0, reopens' = 0 PROVE SignedOnce'
  <2>1. SignedOnce
    BY <1>6 DEF OnboardingIInv
  <2>2. (\A r \in requests : Unsigned(r))'
    BY <2>1 DEF SignedOnce, Unsigned
  <2>3. (wallet' \in Wallet /\ signatures'[wallet'] # 0) => step' \in {"autonomous", "install", "success"}
    BY <1>6
  <2> QED BY <2>1, <2>2, <2>3 DEF SignedOnce
<1> QED BY <1>1, <1>2, <1>3, <1>4, <1>5, <1>6 DEF OnboardingIInv

\* Requests come to nothing that anybody waits for.
LEMMA RequestsGone ==
  ASSUME OnboardingIInv, requests' \subseteq requests,
         UNCHANGED <<patient, accountId, step, path, wallet, mount, funded, policy,
                     registered, noPolicyCached, signatures, answered, finished, reopens>>,
         lost' \in Nat, lost' = 0 => lost = 0,
         effectRun' \in BOOLEAN, effectRun = TRUE => effectRun' = TRUE,
         advanced' \in SUBSET Nat, advanced \subseteq advanced',
         (patient = TRUE /\ lost' = 0 /\ reopens = 0) =>
           \A r \in requests \ requests' : r.op \notin {"signAndSendTransaction", "invalidateCache"}
  PROVE  OnboardingIInv'
<1>1. OnboardingTypeOK'
  BY DEF OnboardingIInv, OnboardingTypeOK
<1>2. IsFiniteSet(requests') /\ lost' \in Nat /\ reopens' \in Nat
  BY WizardTyped, FS_Subset
<1>3. (\A r \in requests : RequestRight(r) /\ EffectRight(r))'
  BY DEF OnboardingIInv, RequestRight, EffectRight
<1>4. patient' = TRUE => OneAtATime'
  BY DEF OnboardingIInv, OneAtATime, ScreenRight, Looked, CommitPart
<1>5. ASSUME patient' = TRUE, lost' = 0, reopens' = 0 PROVE SignedOnce'
  <2>1. SignedOnce
    BY <1>5 DEF OnboardingIInv
  <2> QED BY <1>5, <2>1 DEF SignedOnce, Unsigned
<1> QED BY <1>1, <1>2, <1>3, <1>4, <1>5 DEF OnboardingIInv, MoneyIsInHand, ShownWasAnswered

\* A request comes, alone or in place of another, as Outlayer may go on with what it knows.
LEMMA RequestComes ==
  ASSUME OnboardingIInv, NEW q \in Request, requests' \subseteq requests \cup {q},
         UNCHANGED <<patient, accountId, step, path, wallet, mount, advanced, finished>>,
         effectRun' \in BOOLEAN, effectRun = TRUE => effectRun' = TRUE,
         policy \subseteq policy', policy' \in SUBSET Wallet,
         noPolicyCached' \subseteq noPolicyCached,
         registered \subseteq registered', registered' \in SUBSET Wallet,
         answered \subseteq answered', answered' \in SUBSET Wallet,
         funded' \in SUBSET Wallet, funded' \cup registered' \subseteq funded \cup registered,
         signatures' \in [Wallet -> Nat], lost' \in Nat, reopens' = reopens,
         \A w \in Wallet : signatures'[w] # 0 => w \in policy',
         RequestRight(q)', EffectRight(q)',
         patient = TRUE =>
           /\ ScreenRight(q)'
           /\ q.op = "registerWorker" => Looked(q.wallet)'
           /\ (q.heard = TRUE /\ q.op # "checkBalance") =>
                \A r \in requests' : r = q \/ r.heard # TRUE \/ r.op = "checkBalance",
         (patient = TRUE /\ lost' = 0 /\ reopens = 0) => SignedOnce'
  PROVE  OnboardingIInv'
<1>1. OnboardingTypeOK'
  BY DEF OnboardingIInv, OnboardingTypeOK
<1>2. IsFiniteSet(requests') /\ lost' \in Nat /\ reopens' \in Nat
  <2>1. IsFiniteSet(requests \cup {q})
    BY WizardTyped, FS_AddElement
  <2> QED BY <2>1, WizardTyped, FS_Subset
<1>3. (\A r \in requests : RequestRight(r) /\ EffectRight(r))'
  <2>1. ASSUME NEW r \in requests' PROVE RequestRight(r)' /\ EffectRight(r)'
    <3>1. CASE r = q
      BY <3>1
    <3>2. CASE r \in requests
      BY <3>2 DEF OnboardingIInv, RequestRight, EffectRight
    <3> QED BY <3>1, <3>2
  <2> QED BY <2>1
<1>4. ASSUME patient' = TRUE PROVE OneAtATime'
  <2>1. OneAtATime
    BY <1>4 DEF OnboardingIInv
  <2>2. ASSUME NEW r \in requests'
        PROVE  ScreenRight(r)' /\ (r.op = "registerWorker" => Looked(r.wallet)')
    <3>1. CASE r = q
      BY <1>4, <3>1
    <3>2. CASE r \in requests
      BY <2>1, <3>2 DEF OneAtATime, ScreenRight, Looked, CommitPart
    <3> QED BY <3>1, <3>2
  <2>3. \A p, r \in requests' :
          (p.heard = TRUE /\ r.heard = TRUE /\ p.op # "checkBalance" /\ r.op # "checkBalance") => p = r
    BY <1>4, <2>1 DEF OneAtATime
  <2>4. (step = "autonomous" /\ wallet # NoWallet => Looked(wallet))'
    BY <2>1 DEF OneAtATime, Looked
  <2> QED BY <2>2, <2>3, <2>4 DEF OneAtATime, Looked
<1>5. MoneyIsInHand' /\ ShownWasAnswered'
  BY DEF OnboardingIInv, MoneyIsInHand, ShownWasAnswered
<1> QED BY <1>1, <1>2, <1>3, <1>4, <1>5 DEF OnboardingIInv

\* What stays with the wizard when only the screen is another.
LEMMA ScreenStays ==
  ASSUME OnboardingIInv,
         UNCHANGED <<step, path, wallet, funded, registered, answered, finished>>
  PROVE  /\ MoneyIsInHand' /\ ShownWasAnswered' /\ finished' \in SUBSET Wallet
         /\ step' \in {"connect", "config", "register"} => wallet' = NoWallet
BY DEF OnboardingIInv, OnboardingTypeOK, MoneyIsInHand, ShownWasAnswered

LEMMA connectKeeps == ASSUME OnboardingIInv, connect PROVE OnboardingIInv'
<1>1. /\ Remount(requests, advanced) /\ accountId' = TRUE /\ accountId = FALSE
      /\ UNCHANGED <<patient, step, path, wallet, requests, funded, policy, registered,
                     noPolicyCached, signatures, answered, finished, lost, reopens>>
  BY WizardTyped DEF connect, wizard, outlayer, limits
<1>2. /\ mount' \in Nat /\ effectRun' = FALSE /\ advanced' \in SUBSET Nat
      /\ \A r \in requests' : r.heard = TRUE => r.from # mount'
  BY <1>1, WizardTyped, RemountSays
<1>3. ASSUME patient = TRUE PROVE \A r \in requests' : r.heard # TRUE
  BY <1>1, <1>3 DEF OnboardingIInv, OneAtATime, ScreenRight
<1>4. patient = TRUE => (step' = "autonomous" /\ wallet' # NoWallet => Looked(wallet'))
  BY <1>1 DEF OnboardingIInv, OneAtATime, Looked
<1>5. (patient = TRUE /\ lost = 0 /\ reopens = 0 /\ wallet' \in Wallet /\ signatures[wallet'] # 0)
           => step' \in {"autonomous", "install", "success"}
  BY <1>1, <1>3 DEF OnboardingIInv, SignedOnce
<1> QED BY <1>1, <1>2, <1>3, <1>4, <1>5, WizardTyped, ScreenStays, ScreenChanges

LEMMA disconnectKeeps == ASSUME OnboardingIInv, disconnect PROVE OnboardingIInv'
<1>1. /\ Remount(requests, advanced) /\ accountId' = FALSE /\ (patient = TRUE => Quiet)
      /\ UNCHANGED <<patient, step, path, wallet, requests, funded, policy, registered,
                     noPolicyCached, signatures, answered, finished, lost, reopens>>
  BY WizardTyped DEF disconnect, wizard, outlayer
<1>2. /\ mount' \in Nat /\ effectRun' = FALSE /\ advanced' \in SUBSET Nat
      /\ \A r \in requests' : r.heard = TRUE => r.from # mount'
  BY <1>1, WizardTyped, RemountSays
<1>3. ASSUME patient = TRUE PROVE \A r \in requests' : r.heard # TRUE
  BY <1>1, <1>3 DEF Quiet
<1>4. patient = TRUE => (step' = "autonomous" /\ wallet' # NoWallet => Looked(wallet'))
  BY <1>1 DEF OnboardingIInv, OneAtATime, Looked
<1>5. (patient = TRUE /\ lost = 0 /\ reopens = 0 /\ wallet' \in Wallet /\ signatures[wallet'] # 0)
           => step' \in {"autonomous", "install", "success"}
  BY <1>1, <1>3 DEF OnboardingIInv, SignedOnce
<1> QED BY <1>1, <1>2, <1>3, <1>4, <1>5, WizardTyped, ScreenStays, ScreenChanges

\* The wizard goes to a step where no request of the step before is heard any more.
LEMMA AdvanceKeeps ==
  ASSUME OnboardingIInv, NEW s \in {"connect", "config", "register", "success"}, s # step,
         step \in {"connect", "config", "install", "success"}, accountId = TRUE,
         Advance(s, requests, advanced), requests' = requests,
         UNCHANGED <<patient, accountId, funded, policy, registered, noPolicyCached, signatures, answered,
                     lost, reopens>>,
         path' \in Path, wallet' \in {wallet, NoWallet}, finished' \in SUBSET Wallet,
         s \in {"connect", "config", "register"} => wallet' = NoWallet,
         MoneyIsInHand', ShownWasAnswered'
  PROVE  OnboardingIInv'
<1>1. step' = s /\ Remount(requests, advanced)
  BY DEF Advance
<1>2. /\ mount' \in Nat /\ effectRun' = FALSE /\ advanced' \in SUBSET Nat
      /\ \A r \in requests' : r.heard = TRUE => r.from # mount'
      /\ \A r \in requests' : r.heard = TRUE /\ r.from \in advanced => r.from \in advanced'
  BY <1>1, WizardTyped, RemountSays
<1>3. ASSUME patient = TRUE, NEW r \in requests', r.heard = TRUE
      PROVE  accountId' = TRUE /\ r.op = "checkBalance" /\ r.from \in advanced'
  <2>1. ScreenRight(r)
    BY <1>3 DEF OnboardingIInv, OneAtATime
  <2>2. r.op \in Operation
    BY WizardTyped DEF Request
  <2> QED BY <1>2, <1>3, <2>1, <2>2 DEF ScreenRight, Operation, Lasting, CommitPart
<1>4. (wallet' \in Wallet /\ signatures[wallet'] # 0) => step' \in {"autonomous", "install", "success"}
  BY <1>1, WizardTyped
<1> QED BY <1>1, <1>2, <1>3, <1>4, WizardTyped, ScreenChanges

LEMMA WizardAdvancesKeeps ==
  ASSUME OnboardingIInv,
         \/ LeaveConnect \/ SkillInstalled \/ reset
         \/ \E p \in Path : handleContinue(p)
  PROVE  OnboardingIInv'
<1>1. /\ requests' = requests /\ accountId = TRUE
      /\ UNCHANGED <<patient, accountId, funded, policy, registered, noPolicyCached, signatures, answered,
                     lost, reopens>>
  BY WizardTyped DEF LeaveConnect, SkillInstalled, reset, handleContinue, outlayer, limits
<1>2. CASE LeaveConnect
  <2>1. /\ step = "connect" /\ Advance("config", requests, advanced)
        /\ UNCHANGED <<path, wallet, finished>>
    BY <1>2 DEF LeaveConnect
  <2>2. wallet = NoWallet /\ step' = "config"
    BY <2>1 DEF OnboardingIInv, Advance
  <2>3. MoneyIsInHand' /\ ShownWasAnswered' /\ finished' \in SUBSET Wallet
    BY <1>1, <2>1, <2>2 DEF OnboardingIInv, OnboardingTypeOK, MoneyIsInHand, ShownWasAnswered
  <2> QED BY <1>1, <2>1, <2>2, <2>3, WizardTyped, AdvanceKeeps
<1>3. CASE SkillInstalled
  <2>1. /\ step = "install" /\ Advance("success", requests, advanced)
        /\ UNCHANGED <<path, wallet, finished>>
    BY <1>3 DEF SkillInstalled
  <2>2. MoneyIsInHand' /\ ShownWasAnswered' /\ finished' \in SUBSET Wallet
    BY <1>1, <2>1 DEF OnboardingIInv, OnboardingTypeOK, MoneyIsInHand, ShownWasAnswered
  <2> QED BY <1>1, <2>1, <2>2, WizardTyped, AdvanceKeeps
<1>4. CASE reset
  <2>1. /\ step = "success" /\ Advance("connect", requests, advanced)
        /\ path' = "A_anonymous" /\ wallet' = NoWallet /\ finished' = finished \cup {wallet}
    BY <1>4 DEF reset
  <2>2. wallet \in Wallet /\ step' = "connect" /\ path' \in Path
    BY <2>1 DEF OnboardingIInv, OnboardingTypeOK, ShownWasAnswered, Advance, Path
  <2>3. MoneyIsInHand' /\ ShownWasAnswered' /\ finished' \in SUBSET Wallet
    BY <1>1, <2>1, <2>2 DEF OnboardingIInv, OnboardingTypeOK, MoneyIsInHand, ShownWasAnswered
  <2> QED BY <1>1, <2>1, <2>2, <2>3, WizardTyped, AdvanceKeeps
<1>5. CASE \E p \in Path : handleContinue(p)
  <2>1. /\ step = "config" /\ Advance("register", requests, advanced) /\ path' \in Path
        /\ UNCHANGED <<wallet, finished>>
    BY <1>5 DEF handleContinue
  <2>2. wallet = NoWallet /\ step' = "register"
    BY <2>1 DEF OnboardingIInv, Advance
  <2>3. MoneyIsInHand' /\ ShownWasAnswered' /\ finished' \in SUBSET Wallet
    BY <1>1, <2>1, <2>2 DEF OnboardingIInv, OnboardingTypeOK, MoneyIsInHand, ShownWasAnswered
  <2> QED BY <1>1, <2>1, <2>2, <2>3, WizardTyped, AdvanceKeeps
<1> QED BY <1>2, <1>3, <1>4, <1>5

LEMMA ClaimScreenKeeps == ASSUME OnboardingIInv, ClaimScreen PROVE OnboardingIInv'
<1>1. /\ Remount(requests, advanced) /\ accountId = TRUE /\ step = "register" /\ path = "B_bound"
      /\ path' = "A_anonymous" /\ path' \in Path
      /\ UNCHANGED <<patient, accountId, step, wallet, requests, funded, policy, registered,
                     noPolicyCached, signatures, answered, finished, lost, reopens>>
  BY WizardTyped DEF ClaimScreen, outlayer, limits, Path
<1>2. /\ mount' \in Nat /\ effectRun' = FALSE /\ advanced' \in SUBSET Nat
      /\ \A r \in requests' : r.heard = TRUE => r.from # mount'
      /\ \A r \in requests' : r.heard = TRUE /\ r.from \in advanced => r.from \in advanced'
  BY <1>1, WizardTyped, RemountSays
<1>3. ASSUME patient = TRUE, NEW r \in requests', r.heard = TRUE
      PROVE  accountId' = TRUE /\ r.op = "checkBalance" /\ r.from \in advanced'
  <2>1. ScreenRight(r)
    BY <1>1, <1>3 DEF OnboardingIInv, OneAtATime
  <2>2. r.op \in Operation
    BY <1>1, WizardTyped DEF Request
  <2> QED BY <1>1, <1>2, <1>3, <2>1, <2>2 DEF ScreenRight, Operation, Lasting, CommitPart
<1>4. wallet' = NoWallet /\ wallet' \notin Wallet
  BY <1>1, WizardTyped DEF OnboardingIInv
<1>5. MoneyIsInHand' /\ ShownWasAnswered' /\ finished' \in SUBSET Wallet
  BY <1>1 DEF OnboardingIInv, OnboardingTypeOK, MoneyIsInHand, ShownWasAnswered
<1> QED BY <1>1, <1>2, <1>3, <1>4, <1>5, WizardTyped, ScreenChanges


\* The page loaded again: what is still under way is heard of by nobody.
LEMMA ReopenKeeps == ASSUME OnboardingIInv, Reopen PROVE OnboardingIInv'
<1>1. /\ requests' = UNION {Unheard(r) : r \in requests} /\ Remount({}, {}) /\ accountId' = FALSE
      /\ reopens' = reopens + 1
      /\ UNCHANGED <<patient, step, path, wallet, funded, policy, registered,
                     noPolicyCached, signatures, answered, finished, lost>>
  BY DEF Reopen, wizard, outlayer
<1>2. /\ mount' \in Nat /\ effectRun' = FALSE /\ advanced' \in SUBSET Nat
  <2>1. IsFiniteSet({}) /\ {} \in SUBSET Request /\ {} \in SUBSET Nat
    BY FS_EmptySet
  <2>2. /\ mount' \in Nat /\ effectRun' = FALSE /\ advanced' \subseteq {}
    BY <1>1, <2>1, RemountSays
  <2> QED BY <2>2
<1>3. ASSUME NEW q \in requests'
      PROVE  \E r \in requests : /\ q \in Request /\ q.op = r.op /\ q.op \in Lasting
                                 /\ q.wallet = r.wallet /\ q.heard = FALSE /\ q.done = FALSE
  <2>1. PICK r \in requests : q \in Unheard(r)
    BY <1>1
  <2>2. r \in Request
    BY WizardTyped
  <2> QED BY <2>1, <2>2, UnheardSays
<1>4. IsFiniteSet(requests')
  <2> DEFINE G == {r \in requests : ~r.done /\ r.op \in Lasting}
             f == [r \in G |-> [r EXCEPT !.heard = FALSE, !.from = 0]]
  <2>1. IsFiniteSet(G)
    BY WizardTyped, FS_Subset
  <2>2. ASSUME NEW q \in requests' PROVE \E r \in G : f[r] = q
    <3>1. PICK r \in requests : q \in Unheard(r)
      BY <1>1
    <3> QED BY <3>1 DEF Unheard
  <2>3. ASSUME NEW r \in G PROVE f[r] \in requests'
    <3>1. f[r] \in Unheard(r)
      BY DEF Unheard
    <3> QED BY <1>1, <3>1
  <2>4. f \in Surjection(G, requests')
    BY <2>2, <2>3 DEF Surjection
  <2> QED BY <2>1, <2>4, FS_Surjection
<1>5. requests' \in SUBSET Request
  BY <1>3
<1>6. OnboardingTypeOK'
  BY <1>1, <1>2, <1>5 DEF OnboardingIInv, OnboardingTypeOK
<1>7. (\A r \in requests : RequestRight(r) /\ EffectRight(r))'
  <2>1. ASSUME NEW q \in requests' PROVE RequestRight(q)' /\ EffectRight(q)'
    <3>1. PICK r \in requests : /\ q.op = r.op /\ q.op \in Lasting /\ q.wallet = r.wallet
                              /\ q.heard = FALSE /\ q.done = FALSE
      BY <1>3
    <3>2. /\ r.op # "registerAnonymous" => r.wallet \in Wallet
          /\ r.op = "invalidateCache" => r.wallet \in policy
      BY DEF OnboardingIInv, RequestRight
    <3>3. /\ q.op # "registerAnonymous" /\ q.wallet \in Wallet
          /\ q.op = "invalidateCache" => q.wallet \in policy'
      BY <1>1, <3>1, <3>2 DEF Lasting
    <3>4. q.done # TRUE /\ q.heard # TRUE
      BY <3>1
    <3> QED BY <3>3, <3>4 DEF RequestRight, EffectRight
  <2> QED BY <2>1
<1>8. ASSUME patient' = TRUE PROVE OneAtATime'
  <2>1. OneAtATime
    BY <1>1, <1>8 DEF OnboardingIInv
  <2> QED BY <1>1, <1>3, <2>1 DEF OneAtATime, ScreenRight, Looked
<1>9. reopens' \in Nat /\ lost' \in Nat /\ reopens' # 0
  BY <1>1, WizardTyped
<1>10. MoneyIsInHand' /\ ShownWasAnswered'
  BY <1>1 DEF OnboardingIInv, MoneyIsInHand, ShownWasAnswered
<1> QED BY <1>1, <1>4, <1>6, <1>7, <1>8, <1>9, <1>10 DEF OnboardingIInv

LEMMA FundKeeps == ASSUME OnboardingIInv, Fund PROVE OnboardingIInv'
<1>1. /\ funded' = funded \cup {wallet} /\ wallet # NoWallet /\ wallet \in Wallet
      /\ UNCHANGED <<patient, accountId, step, path, wallet, mount, effectRun, advanced, requests,
                     policy, registered, noPolicyCached, signatures, answered, finished, lost, reopens>>
  BY WizardTyped DEF Fund, wizard, screen, limits
<1>2. OnboardingTypeOK'
  BY <1>1 DEF OnboardingIInv, OnboardingTypeOK
<1>3. (\A r \in requests : RequestRight(r) /\ EffectRight(r))'
  BY <1>1 DEF OnboardingIInv, RequestRight, EffectRight
<1>4. patient' = TRUE => OneAtATime'
  BY <1>1 DEF OnboardingIInv, OneAtATime, ScreenRight, Looked, CommitPart
<1>5. (patient' = TRUE /\ lost' = 0 /\ reopens' = 0) => SignedOnce'
  BY <1>1 DEF OnboardingIInv, SignedOnce, Unsigned
<1>6. MoneyIsInHand' /\ ShownWasAnswered'
  BY <1>1 DEF OnboardingIInv, MoneyIsInHand, ShownWasAnswered
<1> QED BY <1>1, <1>2, <1>3, <1>4, <1>5, <1>6 DEF OnboardingIInv

LEMMA AskBalanceKeeps ==
  ASSUME OnboardingIInv, NEW n \in BalanceCheck, AskBalance(n) PROVE OnboardingIInv'
<1>1. /\ requests' = requests \cup {Ask("checkBalance", n, wallet)} /\ accountId = TRUE
      /\ step = "fund" /\ wallet # NoWallet /\ wallet \in Wallet
      /\ UNCHANGED <<patient, accountId, step, path, wallet, mount, effectRun, advanced, funded,
                     policy, registered, noPolicyCached, signatures, answered, finished, lost, reopens>>
  BY WizardTyped DEF AskBalance, wizard, screen, outlayer, limits
<1>2. /\ "checkBalance" \in Operation /\ n \in BalanceCheck \cup {0}
      /\ mount \in Nat /\ wallet \in Wallet \cup {NoWallet}
  BY WizardTyped DEF Operation
<1>3. PICK q \in Request :
        /\ q = Ask("checkBalance", n, wallet) /\ q.op = "checkBalance" /\ q.from = mount
        /\ q.slot = n /\ q.wallet = wallet /\ q.heard = TRUE /\ q.done = FALSE
  <2>1. PICK q : q = Ask("checkBalance", n, wallet)
    OBVIOUS
  <2>2. /\ q.op = "checkBalance" /\ q.from = mount /\ q.slot = n /\ q.wallet = wallet
        /\ q.heard = TRUE /\ q.done = FALSE
    BY <2>1 DEF Ask
  <2>3. q \in Request
    BY <1>2, <2>1 DEF Ask, Request
  <2> QED BY <2>1, <2>2, <2>3, Zenon
<1>4. RequestRight(q)' /\ EffectRight(q)' /\ ScreenRight(q)'
  BY <1>1, <1>3 DEF RequestRight, EffectRight, ScreenRight, CommitPart
<1>5. ASSUME patient = TRUE, lost' = 0, reopens = 0 PROVE SignedOnce'
  <2>1. SignedOnce
    BY <1>1, <1>5 DEF OnboardingIInv
  <2> QED BY <1>1, <1>3, <2>1 DEF SignedOnce, Unsigned
<1>6. requests' \subseteq requests \cup {q} /\ lost' \in Nat /\ signatures' \in [Wallet -> Nat]
  BY <1>1, <1>3, WizardTyped
<1>7. /\ policy' \in SUBSET Wallet /\ registered' \in SUBSET Wallet /\ funded' \in SUBSET Wallet
      /\ answered' \in SUBSET Wallet
      /\ \A w \in Wallet : signatures'[w] # 0 => w \in policy'
  BY <1>1 DEF OnboardingIInv, OnboardingTypeOK
<1>8. effectRun' \in BOOLEAN
  BY <1>1, WizardTyped
<1> QED BY <1>1, <1>3, <1>4, <1>5, <1>6, <1>7, <1>8, RequestComes

LEMMA handleCommitKeeps == ASSUME OnboardingIInv, handleCommit PROVE OnboardingIInv'
<1>1. /\ requests' = requests \cup {Ask("encryptAndSignPolicy", 0, wallet)} /\ accountId = TRUE
      /\ step = "policy" /\ wallet # NoWallet /\ wallet \in Wallet
      /\ \A r \in requests : r.heard = TRUE => r.from # mount
      /\ UNCHANGED <<patient, accountId, step, path, wallet, mount, effectRun, advanced, funded,
                     policy, registered, noPolicyCached, signatures, answered, finished, lost, reopens>>
  BY WizardTyped DEF handleCommit, Busy, wizard, screen, outlayer, limits
<1>2. /\ "encryptAndSignPolicy" \in Operation /\ 0 \in BalanceCheck \cup {0}
      /\ mount \in Nat /\ wallet \in Wallet \cup {NoWallet}
  BY WizardTyped DEF Operation
<1>3. PICK q \in Request :
        /\ q = Ask("encryptAndSignPolicy", 0, wallet) /\ q.op = "encryptAndSignPolicy"
        /\ q.from = mount /\ q.wallet = wallet /\ q.heard = TRUE /\ q.done = FALSE
  <2>1. PICK q : q = Ask("encryptAndSignPolicy", 0, wallet)
    OBVIOUS
  <2>2. /\ q.op = "encryptAndSignPolicy" /\ q.from = mount /\ q.slot = 0 /\ q.wallet = wallet
        /\ q.heard = TRUE /\ q.done = FALSE
    BY <2>1 DEF Ask
  <2>3. q \in Request
    BY <1>2, <2>1 DEF Ask, Request
  <2> QED BY <2>1, <2>2, <2>3, Zenon
<1>4. RequestRight(q)' /\ EffectRight(q)' /\ ScreenRight(q)'
  BY <1>1, <1>3 DEF RequestRight, EffectRight, ScreenRight, CommitPart
<1>5. ASSUME patient = TRUE, lost' = 0, reopens = 0 PROVE SignedOnce'
  <2>1. SignedOnce
    BY <1>1, <1>5 DEF OnboardingIInv
  <2>2. signatures[wallet] = 0
    BY <1>1, <2>1 DEF SignedOnce
  <2>3. (\A r \in requests : Unsigned(r))'
    BY <1>1, <1>3, <2>1, <2>2 DEF SignedOnce, Unsigned
  <2> QED BY <1>1, <2>1, <2>2, <2>3 DEF SignedOnce
<1>6. requests' \subseteq requests \cup {q} /\ lost' \in Nat /\ signatures' \in [Wallet -> Nat]
  BY <1>1, <1>3, WizardTyped
<1>7. /\ policy' \in SUBSET Wallet /\ registered' \in SUBSET Wallet /\ funded' \in SUBSET Wallet
      /\ answered' \in SUBSET Wallet
      /\ \A w \in Wallet : signatures'[w] # 0 => w \in policy'
  BY <1>1 DEF OnboardingIInv, OnboardingTypeOK
<1>8. effectRun' \in BOOLEAN
  BY <1>1, WizardTyped
<1>9. patient = TRUE => \A r \in requests' : r = q \/ r.heard # TRUE \/ r.op = "checkBalance"
  BY <1>1, <1>3 DEF OnboardingIInv, OneAtATime, ScreenRight
<1>10. q.op # "registerWorker"
  BY <1>3
<1> QED BY <1>1, <1>3, <1>4, <1>5, <1>6, <1>7, <1>8, <1>9, <1>10, RequestComes


\* The effect of a screen asks once: a request of it is under way only when it has run.
LEMMA RegisterEffectKeeps == ASSUME OnboardingIInv, RegisterEffect PROVE OnboardingIInv'
<1>1. /\ accountId = TRUE /\ effectRun = FALSE /\ effectRun' = TRUE
      /\ UNCHANGED <<patient, accountId, step, path, wallet, mount, advanced, funded,
                     policy, registered, noPolicyCached, signatures, answered, finished, lost, reopens>>
  BY WizardTyped DEF RegisterEffect, wizard, outlayer, limits
<1>2. /\ policy' \in SUBSET Wallet /\ registered' \in SUBSET Wallet /\ funded' \in SUBSET Wallet
      /\ answered' \in SUBSET Wallet
      /\ \A w \in Wallet : signatures'[w] # 0 => w \in policy'
      /\ lost' \in Nat /\ signatures' \in [Wallet -> Nat]
      /\ effectRun' \in BOOLEAN /\ (effectRun = TRUE => effectRun' = TRUE)
  BY <1>1, WizardTyped DEF OnboardingIInv, OnboardingTypeOK
<1>3. ASSUME patient = TRUE, step \in {"register", "autonomous"}, NEW r \in requests
      PROVE  r.heard # TRUE \/ r.op = "checkBalance"
  <2> SUFFICES ASSUME r.heard = TRUE, r.op # "checkBalance" PROVE FALSE
    OBVIOUS
  <2>1. ScreenRight(r) /\ EffectRight(r)
    BY <1>3 DEF OnboardingIInv, OneAtATime
  <2>2. r.op \in Operation
    BY WizardTyped DEF Request
  <2>3. r.from = mount /\ r.op \in {"registerAnonymous", "registerWorker"}
    BY <1>3, <2>1, <2>2 DEF ScreenRight, Operation, Lasting, CommitPart
  <2> QED BY <1>1, <2>1, <2>3 DEF EffectRight
<1>4. CASE step = "register" /\ path = "A_anonymous"
  <2>1. requests' = requests \cup {Ask("registerAnonymous", 0, NoWallet)}
    BY <1>4 DEF RegisterEffect
  <2>2. PICK q \in Request :
          /\ q = Ask("registerAnonymous", 0, NoWallet) /\ q.op = "registerAnonymous"
          /\ q.from = mount /\ q.wallet = NoWallet /\ q.heard = TRUE /\ q.done = FALSE
    <3>1. PICK q : q = Ask("registerAnonymous", 0, NoWallet)
      OBVIOUS
    <3>2. /\ q.op = "registerAnonymous" /\ q.from = mount /\ q.wallet = NoWallet
          /\ q.heard = TRUE /\ q.done = FALSE
      BY <3>1 DEF Ask
    <3>3. q \in Request
      BY <3>1, WizardTyped DEF Ask, Request, Operation
    <3> QED BY <3>1, <3>2, <3>3, Zenon
  <2>3. RequestRight(q)' /\ EffectRight(q)' /\ ScreenRight(q)'
    BY <1>1, <1>4, <2>2 DEF RequestRight, EffectRight, ScreenRight, CommitPart
  <2>4. ASSUME patient = TRUE, lost' = 0, reopens = 0 PROVE SignedOnce'
    <3>1. SignedOnce
      BY <1>1, <2>4 DEF OnboardingIInv
    <3> QED BY <1>1, <2>1, <2>2, <3>1 DEF SignedOnce, Unsigned
  <2>5. patient = TRUE => \A r \in requests' : r = q \/ r.heard # TRUE \/ r.op = "checkBalance"
    BY <1>3, <1>4, <2>1, <2>2
  <2>6. requests' \subseteq requests \cup {q} /\ q.op # "registerWorker"
    BY <2>1, <2>2
  <2> QED BY <1>1, <1>2, <2>3, <2>4, <2>5, <2>6, RequestComes
<1>5. CASE step = "autonomous" /\ wallet = NoWallet
  <2>1. requests' = requests
    BY <1>5 DEF RegisterEffect
  <2> QED BY <1>1, <1>2, <2>1, WizardTyped, RequestsGone
<1>6. CASE step = "autonomous" /\ wallet # NoWallet
  <2>1. requests' = requests \cup {Ask("registerWorker", 0, wallet)}
    BY <1>6 DEF RegisterEffect
  <2>2. PICK q \in Request :
          /\ q = Ask("registerWorker", 0, wallet) /\ q.op = "registerWorker"
          /\ q.from = mount /\ q.wallet = wallet /\ q.heard = TRUE /\ q.done = FALSE
    <3>1. PICK q : q = Ask("registerWorker", 0, wallet)
      OBVIOUS
    <3>2. /\ q.op = "registerWorker" /\ q.from = mount /\ q.wallet = wallet
          /\ q.heard = TRUE /\ q.done = FALSE
      BY <3>1 DEF Ask
    <3>3. q \in Request
      BY <3>1, WizardTyped DEF Ask, Request, Operation, Lasting
    <3> QED BY <3>1, <3>2, <3>3, Zenon
  <2>3. wallet \in Wallet
    BY <1>6, WizardTyped
  <2>4. RequestRight(q)' /\ EffectRight(q)' /\ ScreenRight(q)'
    BY <1>1, <1>6, <2>2, <2>3 DEF RequestRight, EffectRight, ScreenRight, CommitPart
  <2>5. ASSUME patient = TRUE, lost' = 0, reopens = 0 PROVE SignedOnce'
    <3>1. SignedOnce
      BY <1>1, <2>5 DEF OnboardingIInv
    <3> QED BY <1>1, <2>1, <2>2, <3>1 DEF SignedOnce, Unsigned
  <2>6. patient = TRUE => \A r \in requests' : r = q \/ r.heard # TRUE \/ r.op = "checkBalance"
    BY <1>3, <1>6, <2>1, <2>2
  <2>7. patient = TRUE => Looked(q.wallet)'
    BY <1>1, <1>6, <2>2 DEF OnboardingIInv, OneAtATime, Looked
  <2>8. requests' \subseteq requests \cup {q}
    BY <2>1, <2>2
  <2> QED BY <1>1, <1>2, <2>4, <2>5, <2>6, <2>7, <2>8, RequestComes
<1> QED BY <1>4, <1>5, <1>6 DEF RegisterEffect


\* What a request says when it is done, and its page waits for it or is gone.
LEMMA DoneGives ==
  ASSUME NEW r \in Request, r.done = FALSE, NEW w \in Wallet \cup {NoWallet},
         requests' = Done(r, w)
  PROVE  \E q \in Request :
           /\ requests' \subseteq (requests \ {r}) \cup {q} /\ requests \ {r} \subseteq requests'
           /\ q.op = r.op /\ q.from = r.from /\ q.heard = r.heard
           /\ \/ q = r /\ r.heard = FALSE /\ requests' = requests \ {r}
              \/ q.done = TRUE /\ q.heard = TRUE /\ q.wallet = w /\ q \in requests'
<1>1. r.heard \in BOOLEAN
  BY DEF Request
<1>2. CASE r.heard = FALSE
  <2>1. requests' = requests \ {r}
    BY <1>2 DEF Done
  <2> QED BY <1>2, <2>1
<1>3. CASE r.heard = TRUE
  <2>1. PICK q \in Request :
          /\ q = [r EXCEPT !.done = TRUE, !.wallet = w] /\ q.op = r.op /\ q.from = r.from
          /\ q.slot = r.slot /\ q.wallet = w /\ q.heard = r.heard /\ q.done = TRUE
    BY DoneSays
  <2>2. requests' = (requests \ {r}) \cup {q}
    BY <1>3, <2>1 DEF Done
  <2> QED BY <1>3, <2>1, <2>2
<1> QED BY <1>1, <1>2, <1>3

\* Outlayer goes on with a request: what that leaves to the wizard.
LEMMA ServeSays ==
  ASSUME OnboardingIInv, NEW r \in requests, Serve(r)
  PROVE  /\ UNCHANGED <<patient, accountId, step, path, wallet, mount, effectRun, advanced,
                        finished, lost, reopens>>
         /\ r \in Request /\ r.done = FALSE /\ lost' \in Nat /\ r.wallet \in Wallet \cup {NoWallet}
         /\ effectRun' \in BOOLEAN /\ (effectRun = TRUE => effectRun' = TRUE)
         /\ RequestRight(r) /\ EffectRight(r)
         /\ patient = TRUE => ScreenRight(r) /\ (r.op = "registerWorker" => Looked(r.wallet))
         /\ (patient = TRUE /\ r.heard = TRUE /\ r.op # "checkBalance") =>
              \A p \in requests \ {r} : p.heard # TRUE \/ p.op = "checkBalance"
         /\ policy \in SUBSET Wallet /\ registered \in SUBSET Wallet /\ funded \in SUBSET Wallet
         /\ answered \in SUBSET Wallet
         /\ \A w \in Wallet : signatures[w] # 0 => w \in policy
<1>1. /\ UNCHANGED <<patient, accountId, step, path, wallet, mount, effectRun, advanced,
                     finished, lost, reopens>>
      /\ ~r.done
  BY DEF Serve, wizard, screen, limits
<1>2. r \in Request /\ lost' \in Nat /\ effectRun' \in BOOLEAN
  BY <1>1, WizardTyped
<1>3. r.done = FALSE /\ r.wallet \in Wallet \cup {NoWallet}
  BY <1>1, <1>2 DEF Request
<1>4. RequestRight(r) /\ EffectRight(r)
  BY DEF OnboardingIInv
<1>5. patient = TRUE => ScreenRight(r) /\ (r.op = "registerWorker" => Looked(r.wallet))
  BY DEF OnboardingIInv, OneAtATime
<1>6. ASSUME patient = TRUE, r.heard = TRUE, r.op # "checkBalance", NEW p \in requests \ {r}
      PROVE  p.heard # TRUE \/ p.op = "checkBalance"
  BY <1>6 DEF OnboardingIInv, OneAtATime
<1>7. /\ policy \in SUBSET Wallet /\ registered \in SUBSET Wallet /\ funded \in SUBSET Wallet
      /\ answered \in SUBSET Wallet
      /\ \A w \in Wallet : signatures[w] # 0 => w \in policy
  BY DEF OnboardingIInv, OnboardingTypeOK
<1> QED BY <1>1, <1>2, <1>3, <1>4, <1>5, <1>6, <1>7

LEMMA outlayerRegisterKeeps ==
  ASSUME OnboardingIInv, NEW r \in requests, Serve(r), outlayerRegister(r) PROVE OnboardingIInv'
<1>1. /\ r.op = "registerAnonymous"
      /\ UNCHANGED <<funded, policy, registered, noPolicyCached, signatures, answered>>
  BY DEF outlayerRegister, outlayer
<1>2. PICK w \in Wallet \ Known : requests' = Done(r, w)
  BY DEF outlayerRegister
<1>3. PICK q \in Request :
        /\ requests' \subseteq (requests \ {r}) \cup {q} /\ requests \ {r} \subseteq requests'
        /\ q.op = r.op /\ q.from = r.from /\ q.heard = r.heard
        /\ \/ q = r /\ r.heard = FALSE /\ requests' = requests \ {r}
           \/ q.done = TRUE /\ q.heard = TRUE /\ q.wallet = w /\ q \in requests'
  <2>1. r \in Request /\ r.done = FALSE /\ w \in Wallet \cup {NoWallet}
    BY ServeSays
  <2> QED BY <1>2, <2>1, ZenonT(40), DoneGives
<1>4. RequestRight(q)' /\ EffectRight(q)'
  BY <1>1, <1>3, ServeSays DEF RequestRight, EffectRight
<1>5. patient = TRUE =>
        /\ ScreenRight(q)'
        /\ (q.heard = TRUE /\ q.op # "checkBalance") =>
             \A p \in requests' : p = q \/ p.heard # TRUE \/ p.op = "checkBalance"
  BY <1>1, <1>3, ServeSays DEF ScreenRight, CommitPart
<1>6. ASSUME patient = TRUE, lost' = 0, reopens = 0 PROVE SignedOnce'
  <2>1. SignedOnce
    BY <1>6, ServeSays DEF OnboardingIInv
  <2>2. signatures[w] = 0
    BY <1>2, ServeSays DEF Known
  <2>3. Unsigned(q)'
    BY <1>1, <1>3, <2>1, <2>2 DEF SignedOnce, Unsigned
  <2>4. (\A p \in requests : Unsigned(p))'
    BY <1>1, <1>3, <2>1, <2>3 DEF SignedOnce, Unsigned
  <2> QED BY <1>1, <1>3, <2>1, <2>4, ServeSays DEF SignedOnce
<1>7. q.op # "registerWorker" /\ requests' \subseteq requests \cup {q}
  BY <1>1, <1>3
<1>8. signatures' \in [Wallet -> Nat]
  BY <1>1, WizardTyped
<1> QED BY <1>1, <1>4, <1>5, <1>6, <1>7, <1>8, ServeSays, RequestComes

LEMMA viewAccountKeeps ==
  ASSUME OnboardingIInv, NEW r \in requests, Serve(r), viewAccount(r) PROVE OnboardingIInv'
<1>1. /\ r.op = "checkBalance"
      /\ UNCHANGED <<funded, policy, registered, noPolicyCached, signatures, answered>>
      /\ requests' = Done(r, r.wallet) \/ requests' = requests \ {r}
  BY DEF viewAccount, outlayer
<1>2. CASE requests' = requests \ {r}
  <2>1. requests' \subseteq requests /\ \A p \in requests \ requests' : p.op = "checkBalance"
    BY <1>1, <1>2
  <2> QED BY <1>1, <2>1, WizardTyped, ServeSays, RequestsGone
<1>3. CASE requests' = Done(r, r.wallet)
  <2>1. PICK q \in Request :
          /\ requests' \subseteq (requests \ {r}) \cup {q} /\ requests \ {r} \subseteq requests'
          /\ q.op = r.op /\ q.from = r.from /\ q.heard = r.heard
          /\ \/ q = r /\ r.heard = FALSE /\ requests' = requests \ {r}
             \/ q.done = TRUE /\ q.heard = TRUE /\ q.wallet = r.wallet /\ q \in requests'
    <3>1. r \in Request /\ r.done = FALSE /\ r.wallet \in Wallet \cup {NoWallet}
      BY ServeSays
    <3> QED BY <1>3, <3>1, ZenonT(40), DoneGives
  <2>2. RequestRight(q)' /\ EffectRight(q)'
    BY <1>1, <2>1, ServeSays DEF RequestRight, EffectRight
  <2>3. patient = TRUE => ScreenRight(q)'
    BY <1>1, <2>1, ServeSays DEF ScreenRight, CommitPart
  <2>4. ASSUME patient = TRUE, lost' = 0, reopens = 0 PROVE SignedOnce'
    <3>1. SignedOnce
      BY <2>4, ServeSays DEF OnboardingIInv
    <3>2. (\A p \in requests : Unsigned(p))'
      BY <1>1, <2>1, <3>1 DEF SignedOnce, Unsigned
    <3> QED BY <1>1, <2>1, <3>1, <3>2, ServeSays DEF SignedOnce
  <2>5. /\ q.op # "registerWorker" /\ q.op = "checkBalance" /\ requests' \subseteq requests \cup {q}
        /\ signatures' \in [Wallet -> Nat]
    BY <1>1, <2>1, WizardTyped
  <2> QED BY <1>1, <2>2, <2>3, <2>4, <2>5, ServeSays, RequestComes
<1> QED BY <1>1, <1>2, <1>3

LEMMA policyEncryptSignKeeps ==
  ASSUME OnboardingIInv, NEW r \in requests, Serve(r), policyEncryptSign(r) PROVE OnboardingIInv'
<1>1. /\ r.op = "encryptAndSignPolicy"
      /\ UNCHANGED <<funded, policy, registered, noPolicyCached, signatures, answered>>
      /\ requests' = (requests \ {r}) \cup {[r EXCEPT !.op = "signAndSendTransaction"]}
  BY DEF policyEncryptSign, outlayer
<1>2. PICK q \in Request :
        /\ q = [r EXCEPT !.op = "signAndSendTransaction"]
        /\ q.op = "signAndSendTransaction" /\ q.from = r.from /\ q.wallet = r.wallet
        /\ q.heard = r.heard /\ q.done = r.done
  BY ServeSays, PartSays
<1>3. requests' = (requests \ {r}) \cup {q}
  BY <1>1, <1>2
<1>4. RequestRight(q)' /\ EffectRight(q)'
  BY <1>1, <1>2, ServeSays DEF RequestRight, EffectRight
<1>5. patient = TRUE =>
        /\ ScreenRight(q)'
        /\ (q.heard = TRUE /\ q.op # "checkBalance") =>
             \A p \in requests' : p = q \/ p.heard # TRUE \/ p.op = "checkBalance"
  BY <1>1, <1>2, <1>3, ServeSays DEF ScreenRight, CommitPart
<1>6. ASSUME patient = TRUE, lost' = 0, reopens = 0 PROVE SignedOnce'
  <2>1. SignedOnce
    BY <1>6, ServeSays DEF OnboardingIInv
  <2>2. Unsigned(q)'
    BY <1>1, <1>2, <2>1 DEF SignedOnce, Unsigned
  <2>3. (\A p \in requests : Unsigned(p))'
    BY <1>1, <1>3, <2>1, <2>2 DEF SignedOnce, Unsigned
  <2> QED BY <1>1, <1>3, <2>1, <2>3, ServeSays DEF SignedOnce
<1>7. q.op # "registerWorker" /\ requests' \subseteq requests \cup {q}
  BY <1>2, <1>3
<1>8. signatures' \in [Wallet -> Nat]
  BY <1>1, WizardTyped
<1> QED BY <1>1, <1>4, <1>5, <1>6, <1>7, <1>8, ServeSays, RequestComes


\* The one signature: no other request is under way that would ask for a second.
LEMMA storeWalletPolicyKeeps ==
  ASSUME OnboardingIInv, NEW r \in requests, Serve(r), storeWalletPolicy(r) PROVE OnboardingIInv'
<1>1. /\ r.op = "signAndSendTransaction" /\ requests' = Done(r, r.wallet)
      /\ policy' = policy \cup {r.wallet} /\ signatures' = [signatures EXCEPT ![r.wallet] = @ + 1]
      /\ UNCHANGED <<funded, registered, noPolicyCached, answered>>
  BY DEF storeWalletPolicy
<1>2. r.wallet \in Wallet
  BY <1>1, ServeSays DEF RequestRight
<1>3. PICK q \in Request :
        /\ requests' \subseteq (requests \ {r}) \cup {q} /\ requests \ {r} \subseteq requests'
        /\ q.op = r.op /\ q.from = r.from /\ q.heard = r.heard
        /\ \/ q = r /\ r.heard = FALSE /\ requests' = requests \ {r}
           \/ q.done = TRUE /\ q.heard = TRUE /\ q.wallet = r.wallet /\ q \in requests'
  <2>1. r \in Request /\ r.done = FALSE /\ r.wallet \in Wallet \cup {NoWallet}
    BY ServeSays
  <2> QED BY <1>1, <2>1, ZenonT(40), DoneGives
<1>4. RequestRight(q)' /\ EffectRight(q)'
  BY <1>1, <1>2, <1>3, ServeSays DEF RequestRight, EffectRight
<1>5. patient = TRUE =>
        /\ ScreenRight(q)'
        /\ (q.heard = TRUE /\ q.op # "checkBalance") =>
             \A p \in requests' : p = q \/ p.heard # TRUE \/ p.op = "checkBalance"
  BY <1>1, <1>3, ServeSays DEF ScreenRight, CommitPart
<1>6. /\ signatures' \in [Wallet -> Nat] /\ signatures'[r.wallet] = signatures[r.wallet] + 1
      /\ \A w \in Wallet \ {r.wallet} : signatures'[w] = signatures[w]
  BY <1>1, <1>2, WizardTyped
<1>7. \A w \in Wallet : signatures'[w] # 0 => w \in policy'
  BY <1>1, <1>6, ServeSays
<1>8. ASSUME patient = TRUE, lost' = 0, reopens = 0 PROVE SignedOnce'
  <2>1. SignedOnce
    BY <1>8, ServeSays DEF OnboardingIInv
  <2>2. r.heard = TRUE /\ signatures[r.wallet] = 0
    BY <1>1, <2>1, ServeSays DEF SignedOnce, Unsigned
  <2>3. /\ r.wallet = wallet /\ r.from = mount /\ step = "policy"
        /\ q.done = TRUE /\ q.heard = TRUE /\ q.wallet = r.wallet /\ q \in requests'
    BY <1>1, <1>3, <1>8, <2>2, ServeSays DEF ScreenRight, CommitPart
  <2>4. ASSUME NEW p \in requests' PROVE Unsigned(p)'
    <3>1. CASE p = q
      BY <1>1, <1>3, <2>3, <3>1 DEF Unsigned
    <3>2. CASE p \in requests \ {r}
      <4>1. p.heard = TRUE
        BY <2>1, <3>2 DEF SignedOnce, Unsigned
      <4>2. p.op = "checkBalance"
        BY <1>1, <1>8, <2>2, <3>2, <4>1, ServeSays
      <4> QED BY <4>1, <4>2 DEF Unsigned
    <3> QED BY <1>3, <3>1, <3>2
  <2>5. \A w \in Wallet : signatures'[w] <= 1
    <3>1. \A w \in Wallet : signatures[w] <= 1
      BY <2>1 DEF SignedOnce
    <3> QED BY <1>6, <2>2, <3>1
  <2>6. /\ step' = "policy" /\ q \in requests' /\ q.heard = TRUE /\ q.from = mount'
        /\ q.op = "signAndSendTransaction" /\ q.done = TRUE
    BY <1>1, <1>3, <2>3, ServeSays
  <2>7. (\A p \in requests : Unsigned(p))'
    BY <2>4
  <2> QED BY <2>5, <2>6, <2>7 DEF SignedOnce
<1>9. q.op # "registerWorker" /\ requests' \subseteq requests \cup {q} /\ policy' \in SUBSET Wallet
  BY <1>1, <1>2, <1>3, ServeSays
<1> QED BY <1>1, <1>4, <1>5, <1>6, <1>7, <1>8, <1>9, ServeSays, RequestComes

LEMMA invalidateCacheKeeps ==
  ASSUME OnboardingIInv, NEW r \in requests, Serve(r), invalidateCache(r) PROVE OnboardingIInv'
<1>1. /\ r.op = "invalidateCache" /\ requests' = Done(r, r.wallet)
      /\ noPolicyCached' = noPolicyCached \ {r.wallet}
      /\ UNCHANGED <<funded, policy, registered, signatures, answered>>
  BY DEF invalidateCache
<1>2. PICK q \in Request :
        /\ requests' \subseteq (requests \ {r}) \cup {q} /\ requests \ {r} \subseteq requests'
        /\ q.op = r.op /\ q.from = r.from /\ q.heard = r.heard
        /\ \/ q = r /\ r.heard = FALSE /\ requests' = requests \ {r}
           \/ q.done = TRUE /\ q.heard = TRUE /\ q.wallet = r.wallet /\ q \in requests'
  <2>1. r \in Request /\ r.done = FALSE /\ r.wallet \in Wallet \cup {NoWallet}
    BY ServeSays
  <2> QED BY <1>1, <2>1, ZenonT(40), DoneGives
<1>3. RequestRight(q)' /\ EffectRight(q)'
  BY <1>1, <1>2, ServeSays DEF RequestRight, EffectRight
<1>4. patient = TRUE =>
        /\ ScreenRight(q)'
        /\ (q.heard = TRUE /\ q.op # "checkBalance") =>
             \A p \in requests' : p = q \/ p.heard # TRUE \/ p.op = "checkBalance"
  BY <1>1, <1>2, ServeSays DEF ScreenRight, CommitPart
<1>5. ASSUME patient = TRUE, lost' = 0, reopens = 0 PROVE SignedOnce'
  <2>1. SignedOnce
    BY <1>5, ServeSays DEF OnboardingIInv
  <2>2. r.heard = TRUE
    BY <2>1 DEF SignedOnce, Unsigned
  <2>3. /\ r.from = mount /\ step = "policy" /\ q \in requests' /\ q.heard = TRUE
        /\ q.from = mount /\ q.op = "invalidateCache"
    BY <1>1, <1>2, <1>5, <2>2, ServeSays DEF ScreenRight, CommitPart
  <2>4. (\A p \in requests : Unsigned(p))'
    BY <1>1, <1>2, <2>1, <2>3 DEF SignedOnce, Unsigned
  <2> QED BY <1>1, <2>1, <2>3, <2>4, ServeSays DEF SignedOnce
<1>6. /\ q.op # "registerWorker" /\ requests' \subseteq requests \cup {q}
      /\ signatures' \in [Wallet -> Nat] /\ noPolicyCached' \subseteq noPolicyCached
  BY <1>1, <1>2, WizardTyped
<1> QED BY <1>1, <1>3, <1>4, <1>5, <1>6, ServeSays, RequestComes

LEMMA registerWorkerKeeps ==
  ASSUME OnboardingIInv, NEW r \in requests, Serve(r), registerWorker(r) PROVE OnboardingIInv'
<1>1. /\ r.op = "registerWorker" /\ r.wallet \in Wallet
      /\ UNCHANGED <<policy, noPolicyCached, signatures>>
  BY ServeSays DEF registerWorker, RequestRight
<1>2. CASE requests' = requests \ {r} /\ UNCHANGED <<funded, registered, answered>>
  <2>1. requests' \subseteq requests /\ \A p \in requests \ requests' : p.op = "registerWorker"
    BY <1>1, <1>2
  <2> QED BY <1>1, <1>2, <2>1, WizardTyped, ServeSays, RequestsGone
<1>3. CASE /\ requests' = Done(r, r.wallet) /\ r.wallet \in funded
           /\ funded' = funded \ {r.wallet} /\ registered' = registered \cup {r.wallet}
           /\ answered' = answered \cup {r.wallet}
  <2>1. PICK q \in Request :
          /\ requests' \subseteq (requests \ {r}) \cup {q} /\ requests \ {r} \subseteq requests'
          /\ q.op = r.op /\ q.from = r.from /\ q.heard = r.heard
          /\ \/ q = r /\ r.heard = FALSE /\ requests' = requests \ {r}
             \/ q.done = TRUE /\ q.heard = TRUE /\ q.wallet = r.wallet /\ q \in requests'
    <3>1. r \in Request /\ r.done = FALSE /\ r.wallet \in Wallet \cup {NoWallet}
      BY ServeSays
    <3> QED BY <1>3, <3>1, ZenonT(40), DoneGives
  <2>2. RequestRight(q)' /\ EffectRight(q)'
    BY <1>1, <1>3, <2>1, ServeSays DEF RequestRight, EffectRight
  <2>3. patient = TRUE =>
          /\ ScreenRight(q)' /\ Looked(q.wallet)'
          /\ (q.heard = TRUE /\ q.op # "checkBalance") =>
               \A p \in requests' : p = q \/ p.heard # TRUE \/ p.op = "checkBalance"
    BY <1>1, <2>1, ServeSays DEF ScreenRight, CommitPart, Looked
  <2>4. ASSUME patient = TRUE, lost' = 0, reopens = 0 PROVE SignedOnce'
    <3>1. SignedOnce
      BY <2>4, ServeSays DEF OnboardingIInv
    <3>2. (\A p \in requests : Unsigned(p))'
      BY <1>1, <2>1, <3>1 DEF SignedOnce, Unsigned
    <3> QED BY <1>1, <2>1, <3>1, <3>2, ServeSays DEF SignedOnce
  <2>5. /\ requests' \subseteq requests \cup {q} /\ signatures' \in [Wallet -> Nat]
        /\ registered' \in SUBSET Wallet /\ funded' \in SUBSET Wallet
        /\ registered \subseteq registered' /\ funded' \cup registered' \subseteq funded \cup registered
        /\ answered \subseteq answered' /\ answered' \in SUBSET Wallet
    BY <1>1, <1>3, <2>1, WizardTyped, ServeSays
  <2> QED BY <1>1, <2>2, <2>3, <2>4, <2>5, ServeSays, RequestComes
<1> QED BY <1>2, <1>3 DEF registerWorker

LEMMA ServeKeeps ==
  ASSUME OnboardingIInv, NEW r \in requests, Serve(r) PROVE OnboardingIInv'
BY outlayerRegisterKeeps, viewAccountKeeps, policyEncryptSignKeeps, storeWalletPolicyKeeps,
   invalidateCacheKeeps, registerWorkerKeeps DEF Serve


\* What a request under way says of itself and the others.
LEMMA RequestSays ==
  ASSUME OnboardingIInv, NEW r \in requests
  PROVE  /\ r \in Request /\ RequestRight(r) /\ EffectRight(r)
         /\ patient = TRUE =>
              /\ ScreenRight(r) /\ (r.op = "registerWorker" => Looked(r.wallet))
              /\ (r.heard = TRUE /\ r.op # "checkBalance") =>
                   \A p \in requests \ {r} :
                     p.heard = TRUE =>
                       /\ accountId = TRUE /\ p.op = "checkBalance"
                       /\ p.from \in advanced \/ (p.from = mount /\ step = "fund")
         /\ policy \in SUBSET Wallet /\ registered \in SUBSET Wallet /\ funded \in SUBSET Wallet
         /\ finished \in SUBSET Wallet /\ answered \in SUBSET Wallet
<1>1. r \in Request
  BY WizardTyped
<1>2. RequestRight(r) /\ EffectRight(r)
  BY DEF OnboardingIInv
<1>3. ASSUME patient = TRUE
      PROVE  ScreenRight(r) /\ (r.op = "registerWorker" => Looked(r.wallet))
  BY <1>3 DEF OnboardingIInv, OneAtATime
<1>4. ASSUME patient = TRUE, r.heard = TRUE, r.op # "checkBalance",
             NEW p \in requests \ {r}, p.heard = TRUE
      PROVE  /\ accountId = TRUE /\ p.op = "checkBalance"
             /\ p.from \in advanced \/ (p.from = mount /\ step = "fund")
  <2>1. p.op = "checkBalance" /\ ScreenRight(p)
    BY <1>4 DEF OnboardingIInv, OneAtATime
  <2> QED BY <1>4, <2>1 DEF ScreenRight
<1>5. /\ policy \in SUBSET Wallet /\ registered \in SUBSET Wallet /\ funded \in SUBSET Wallet
      /\ finished \in SUBSET Wallet /\ answered \in SUBSET Wallet
  BY DEF OnboardingIInv, OnboardingTypeOK
<1> QED BY <1>1, <1>2, <1>3, <1>4, <1>5

LEMMA CommittedKeeps ==
  ASSUME OnboardingIInv, NEW r \in requests, Committed(r) PROVE OnboardingIInv'
<1>1. /\ r.heard = TRUE /\ r.done = TRUE /\ r.op = "signAndSendTransaction"
      /\ requests' = (requests \ {r}) \cup {[r EXCEPT !.op = "invalidateCache", !.done = FALSE]}
      /\ UNCHANGED <<patient, accountId, step, path, wallet, mount, effectRun, advanced, funded,
                     policy, registered, noPolicyCached, signatures, answered, finished, lost, reopens>>
  BY RequestSays DEF Committed, wizard, screen, outlayer, limits, Request
<1>2. PICK q \in Request :
        /\ q = [r EXCEPT !.op = "invalidateCache", !.done = FALSE]
        /\ q.op = "invalidateCache" /\ q.from = r.from /\ q.wallet = r.wallet
        /\ q.heard = r.heard /\ q.done = FALSE
  BY RequestSays, PartSays
<1>3. requests' = (requests \ {r}) \cup {q}
  BY <1>1, <1>2
<1>4. RequestRight(q)' /\ EffectRight(q)'
  <2>1. r.wallet \in Wallet /\ r.wallet \in policy
    BY <1>1, RequestSays DEF RequestRight
  <2>2. q.done # TRUE /\ q.wallet \in Wallet /\ q.wallet \in policy'
    BY <1>1, <1>2, <2>1
  <2> QED BY <1>2, <2>2 DEF RequestRight, EffectRight
<1>5. patient = TRUE =>
        /\ ScreenRight(q)'
        /\ (q.heard = TRUE /\ q.op # "checkBalance") =>
             \A p \in requests' : p = q \/ p.heard # TRUE \/ p.op = "checkBalance"
  BY <1>1, <1>2, <1>3, RequestSays DEF ScreenRight, CommitPart
<1>6. ASSUME patient = TRUE, lost' = 0, reopens = 0 PROVE SignedOnce'
  <2>1. SignedOnce
    BY <1>1, <1>6 DEF OnboardingIInv
  <2>2. Unsigned(q)'
    BY <1>1, <1>2 DEF Unsigned
  <2>3. (\A p \in requests : Unsigned(p))'
    BY <1>1, <1>3, <2>1, <2>2 DEF SignedOnce, Unsigned
  <2>4. r.from = mount /\ step = "policy"
    BY <1>1, <1>6, RequestSays DEF ScreenRight, CommitPart
  <2>5. /\ q \in requests' /\ q.heard = TRUE /\ q.from = mount' /\ q.op = "invalidateCache"
        /\ step' = "policy"
    BY <1>1, <1>2, <1>3, <2>4
  <2> QED BY <1>1, <2>1, <2>3, <2>5 DEF SignedOnce
<1>7. /\ q.op # "registerWorker" /\ requests' \subseteq requests \cup {q}
      /\ signatures' \in [Wallet -> Nat] /\ lost' \in Nat
      /\ effectRun' \in BOOLEAN /\ (effectRun = TRUE => effectRun' = TRUE)
      /\ \A w \in Wallet : signatures'[w] # 0 => w \in policy'
  BY <1>1, <1>2, <1>3, WizardTyped DEF OnboardingIInv
<1> QED BY <1>1, <1>4, <1>5, <1>6, <1>7, RequestSays, RequestComes

LEMMA FailKeeps ==
  ASSUME OnboardingIInv, NEW r \in requests, Fail(r) PROVE OnboardingIInv'
<1>1. /\ lost' = lost + 1
      /\ UNCHANGED <<patient, accountId, step, path, wallet, mount, effectRun, advanced, funded,
                     policy, registered, noPolicyCached, signatures, answered, finished, reopens>>
  BY DEF Fail, wizard, screen, outlayer
<1>2. /\ lost' \in Nat /\ lost' # 0 /\ signatures' \in [Wallet -> Nat]
      /\ effectRun' \in BOOLEAN /\ (effectRun = TRUE => effectRun' = TRUE)
      /\ advanced' \in SUBSET Nat
      /\ \A w \in Wallet : signatures'[w] # 0 => w \in policy'
  <2>1. \A w \in Wallet : signatures[w] # 0 => w \in policy
    BY DEF OnboardingIInv
  <2> QED BY <1>1, <2>1, WizardTyped
<1>3. CASE requests' = requests \ {r}
  <2>1. requests' \subseteq requests
    BY <1>3
  <2> QED BY <1>1, <1>2, <2>1, RequestsGone
<1>4. CASE \E q \in Unheard(r) : requests' = (requests \ {r}) \cup {q}
  <2>1. PICK q \in Unheard(r) : requests' = (requests \ {r}) \cup {q}
    BY <1>4
  <2>2. /\ q \in Request /\ q.op = r.op /\ q.op \in Lasting /\ q.wallet = r.wallet
        /\ q.heard = FALSE /\ q.done = FALSE
    BY RequestSays, UnheardSays
  <2>3. /\ q.op # "registerAnonymous" /\ q.wallet \in Wallet
        /\ q.op = "invalidateCache" => q.wallet \in policy'
    BY <1>1, <2>2, RequestSays DEF RequestRight, Lasting
  <2>4. q.done # TRUE /\ q.heard # TRUE
    BY <2>2
  <2>5. RequestRight(q)' /\ EffectRight(q)' /\ ScreenRight(q)'
    BY <2>3, <2>4 DEF RequestRight, EffectRight, ScreenRight
  <2>6. patient = TRUE => (q.op = "registerWorker" => Looked(q.wallet)')
    BY <1>1, <2>2, RequestSays DEF Looked
  <2>7. requests' \subseteq requests \cup {q}
    BY <2>1
  <2> QED BY <1>1, <1>2, <2>2, <2>4, <2>5, <2>6, <2>7, RequestSays, RequestComes
<1>5. CASE \E left \in {{}, Unheard(r)} : requests' = (requests \ {r}) \cup left
  BY <1>3, <1>4, <1>5 DEF Unheard
<1> QED BY <1>5 DEF Fail


LEMMA NotRegisteredKeeps ==
  ASSUME OnboardingIInv, NEW r \in requests, NotRegistered(r) PROVE OnboardingIInv'
<1>1. /\ r \in Request /\ r.op = "registerWorker" /\ r.done = FALSE /\ lost' = lost + 1
      /\ requests' = Done(r, r.wallet) /\ answered' = answered \cup {r.wallet}
      /\ UNCHANGED <<patient, accountId, step, path, wallet, mount, effectRun, advanced, funded,
                     policy, registered, noPolicyCached, signatures, finished, reopens>>
  BY RequestSays DEF NotRegistered, wizard, screen, Request
<1>2. r.wallet \in Wallet
  BY <1>1, RequestSays DEF RequestRight
<1>3. PICK q \in Request :
        /\ requests' \subseteq (requests \ {r}) \cup {q} /\ requests \ {r} \subseteq requests'
        /\ q.op = r.op /\ q.from = r.from /\ q.heard = r.heard
        /\ \/ q = r /\ r.heard = FALSE /\ requests' = requests \ {r}
           \/ q.done = TRUE /\ q.heard = TRUE /\ q.wallet = r.wallet /\ q \in requests'
  <2>1. r.wallet \in Wallet \cup {NoWallet}
    BY <1>2
  <2> QED BY <1>1, <2>1, ZenonT(40), DoneGives
<1>4. RequestRight(q)' /\ EffectRight(q)'
  BY <1>1, <1>2, <1>3, RequestSays DEF RequestRight, EffectRight
<1>5. patient = TRUE =>
        /\ ScreenRight(q)' /\ Looked(q.wallet)'
        /\ (q.heard = TRUE /\ q.op # "checkBalance") =>
             \A p \in requests' : p = q \/ p.heard # TRUE \/ p.op = "checkBalance"
  BY <1>1, <1>3, RequestSays DEF ScreenRight, CommitPart, Looked
<1>6. /\ lost' \in Nat /\ lost' # 0 /\ signatures' \in [Wallet -> Nat]
      /\ effectRun' \in BOOLEAN /\ (effectRun = TRUE => effectRun' = TRUE)
      /\ \A w \in Wallet : signatures'[w] # 0 => w \in policy'
  <2>1. \A w \in Wallet : signatures[w] # 0 => w \in policy
    BY DEF OnboardingIInv
  <2> QED BY <1>1, <2>1, WizardTyped
<1>7. /\ requests' \subseteq requests \cup {q} /\ answered \subseteq answered'
      /\ answered' \in SUBSET Wallet
  BY <1>1, <1>2, <1>3, RequestSays
<1> QED BY <1>1, <1>4, <1>5, <1>6, <1>7, RequestSays, RequestComes


\* An answer comes: the wizard goes on, and the screen that waits for it is another.
LEMMA AnswerAdvances ==
  ASSUME OnboardingIInv, NEW r \in requests, Answer(r), r.heard = TRUE,
         NEW s \in {"fund", "policy", "autonomous", "install"}, s # step,
         NEW spent \in SUBSET Nat, Advance(s, requests', spent),
         path' = path, wallet' \in Wallet \cup {NoWallet}, MoneyIsInHand', s = "install" => wallet' \in answered,
         patient = TRUE =>
           /\ \A p \in requests \ {r} : p.heard = TRUE =>
                accountId = TRUE /\ p.op = "checkBalance" /\ p.from \in spent
           /\ s = "autonomous" => Looked(wallet'),
         (patient = TRUE /\ lost = 0 /\ reopens = 0 /\ wallet' \in Wallet /\ signatures[wallet'] # 0)
           => s \in {"autonomous", "install"}
  PROVE  OnboardingIInv'
<1>1. /\ requests' = requests \ {r}
      /\ UNCHANGED <<patient, accountId, funded, policy, registered, noPolicyCached, signatures, answered,
                     finished, lost, reopens>>
  BY DEF Answer, outlayer, limits
<1>2. step' = s /\ Remount(requests', spent)
  BY DEF Advance
<1>3. requests' \in SUBSET Request /\ IsFiniteSet(requests') /\ requests' \subseteq requests
  BY <1>1, WizardTyped, FS_Subset
<1>4. /\ mount' \in Nat /\ effectRun' = FALSE /\ advanced' \in SUBSET Nat
      /\ \A p \in requests' : p.heard = TRUE => p.from # mount'
      /\ \A p \in requests' : p.heard = TRUE /\ p.from \in spent => p.from \in advanced'
  <2>1. /\ mount' \in Nat /\ effectRun' = FALSE /\ advanced' \subseteq spent
        /\ \A p \in requests' : p.heard = TRUE => p.from # mount'
        /\ \A p \in requests' : p.heard = TRUE /\ p.from \in spent => p.from \in advanced'
    BY <1>2, <1>3, RemountSays
  <2> QED BY <2>1
<1>5. ShownWasAnswered'
  BY <1>1, <1>2 DEF ShownWasAnswered
<1>6. patient = TRUE =>
        /\ \A p \in requests' : p.heard = TRUE =>
             accountId' = TRUE /\ p.op = "checkBalance" /\ p.from \in advanced'
        /\ step' = "autonomous" /\ wallet' # NoWallet => Looked(wallet')
  BY <1>1, <1>2, <1>4
<1>7. /\ step' \in {"connect", "config", "register", "fund", "policy", "autonomous",
                    "install", "success"}
      /\ step' \in {"connect", "config", "register"} => wallet' = NoWallet
      /\ (patient = TRUE /\ lost = 0 /\ reopens = 0 /\ wallet' \in Wallet /\ signatures[wallet'] # 0)
           => step' \in {"autonomous", "install", "success"}
  BY <1>2
<1>8. path' \in Path /\ accountId' \in BOOLEAN /\ finished' \in SUBSET Wallet
  BY <1>1, WizardTyped, RequestSays
<1> QED BY <1>1, <1>3, <1>4, <1>5, <1>6, <1>7, <1>8, ScreenChanges

\* An answer that nobody waits for any more, or that finds its step shown already.
LEMMA AnswerIgnored ==
  ASSUME OnboardingIInv, NEW r \in requests, Answer(r),
         UNCHANGED <<step, path, wallet, mount, effectRun>>,
         advanced' \in SUBSET Nat, advanced \subseteq advanced',
         patient = TRUE => r.op \notin {"signAndSendTransaction", "invalidateCache"}
  PROVE  OnboardingIInv'
<1>1. /\ requests' = requests \ {r}
      /\ UNCHANGED <<patient, accountId, funded, policy, registered, noPolicyCached, signatures, answered,
                     finished, lost, reopens>>
  BY DEF Answer, outlayer, limits
<1>2. /\ lost' \in Nat /\ (lost' = 0 => lost = 0)
      /\ effectRun' \in BOOLEAN /\ (effectRun = TRUE => effectRun' = TRUE)
  BY <1>1, WizardTyped
<1>3. /\ requests' \subseteq requests
      /\ \A p \in requests \ requests' : p = r
  BY <1>1
<1> QED BY <1>1, <1>2, <1>3, RequestsGone

LEMMA WalletAnsweredKeeps ==
  ASSUME OnboardingIInv, NEW r \in requests, Answer(r), r.heard = TRUE, r.done = TRUE,
         WalletAnswered(r)
  PROVE  OnboardingIInv'
<1>1. r.op = "registerAnonymous" /\ path' = path /\ advanced \in SUBSET Nat
  BY WizardTyped DEF WalletAnswered
<1>2. CASE r.from # mount
  <2>1. UNCHANGED <<step, path, wallet, mount, effectRun, advanced>>
    BY <1>1, <1>2 DEF WalletAnswered, Cancelled, screen
  <2> QED BY <1>1, <2>1, AnswerIgnored
<1>3. CASE r.from = mount
  <2>1. wallet' = r.wallet /\ Advance("fund", requests', advanced)
    BY <1>3 DEF WalletAnswered, Cancelled
  <2>2. step = "register" /\ wallet' \in Wallet /\ wallet = NoWallet
    BY <1>1, <1>3, <2>1, RequestSays DEF EffectRight, RequestRight, OnboardingIInv
  <2>3. MoneyIsInHand'
    <3>1. UNCHANGED <<funded, registered, finished>>
      BY DEF Answer, outlayer
    <3>2. (funded \cup registered) \ {NoWallet} \subseteq finished /\ NoWallet \notin Wallet
      BY <2>2, WizardTyped DEF OnboardingIInv, MoneyIsInHand
    <3> QED BY <3>1, <3>2, RequestSays DEF MoneyIsInHand
  <2>4. ASSUME patient = TRUE, NEW p \in requests \ {r}, p.heard = TRUE
        PROVE  accountId = TRUE /\ p.op = "checkBalance" /\ p.from \in advanced
    BY <1>1, <2>2, <2>4, RequestSays
  <2>5. ASSUME patient = TRUE, lost = 0, reopens = 0
        PROVE  signatures[wallet'] = 0
    <3>1. SignedOnce
      BY <2>5 DEF OnboardingIInv
    <3> QED BY <1>1, <2>1, <3>1 DEF SignedOnce, Unsigned
  <2> QED BY <1>1, <2>1, <2>2, <2>3, <2>4, <2>5, AnswerAdvances
<1> QED BY <1>2, <1>3

LEMMA BalanceAnsweredKeeps ==
  ASSUME OnboardingIInv, NEW r \in requests, Answer(r), r.heard = TRUE, BalanceAnswered(r)
  PROVE  OnboardingIInv'
<1>1. /\ r.op = "checkBalance" /\ path' = path /\ wallet' = wallet
      /\ advanced \in SUBSET Nat /\ advanced \cup {r.from} \in SUBSET Nat
  BY WizardTyped DEF BalanceAnswered, Request
<1>2. CASE r.from \in advanced
  <2>1. UNCHANGED <<step, path, wallet, mount, effectRun, advanced>>
    BY <1>1, <1>2 DEF BalanceAnswered, screen
  <2> QED BY <1>1, <2>1, AnswerIgnored
<1>3. CASE r.from \notin advanced
  <2>1. Advance("policy", requests', advanced \cup {r.from})
    BY <1>3 DEF BalanceAnswered
  <2>2. CASE step = "policy"
    <3>1. /\ UNCHANGED <<step, path, wallet, mount, effectRun>>
          /\ advanced' = advanced \cup {r.from}
      BY <1>1, <2>1, <2>2 DEF Advance
    <3> QED BY <1>1, <3>1, AnswerIgnored
  <2>3. CASE step # "policy"
    <3>1. ASSUME patient = TRUE PROVE r.from = mount /\ step = "fund"
      BY <1>1, <1>3, <3>1, RequestSays DEF ScreenRight
    <3>2. ASSUME patient = TRUE, NEW p \in requests \ {r}, p.heard = TRUE
          PROVE  accountId = TRUE /\ p.op = "checkBalance" /\ p.from \in advanced \cup {r.from}
      <4>1. ScreenRight(p) /\ p.op \in Operation
        BY <3>2, RequestSays DEF Request
      <4> QED BY <3>1, <3>2, <4>1 DEF ScreenRight, Operation, Lasting, CommitPart
    <3>3. MoneyIsInHand' /\ wallet' \in Wallet \cup {NoWallet}
      BY <1>1, WizardTyped DEF OnboardingIInv, MoneyIsInHand, Answer, outlayer
    <3>4. (patient = TRUE /\ lost = 0 /\ reopens = 0 /\ wallet' \in Wallet) => signatures[wallet'] = 0
      BY <1>1, <3>1 DEF OnboardingIInv, SignedOnce
    <3> QED BY <1>1, <2>1, <2>3, <3>2, <3>3, <3>4, AnswerAdvances
  <2> QED BY <2>2, <2>3
<1> QED BY <1>2, <1>3

LEMMA CacheDroppedKeeps ==
  ASSUME OnboardingIInv, NEW r \in requests, Answer(r), r.heard = TRUE, r.done = TRUE,
         CacheDropped(r)
  PROVE  OnboardingIInv'
<1>1. /\ r.op = "invalidateCache" /\ path' = path /\ wallet' = wallet /\ advanced \in SUBSET Nat
      /\ Advance("autonomous", requests', advanced)
  BY WizardTyped DEF CacheDropped
<1>2. ASSUME patient = TRUE PROVE step = "policy" /\ r.wallet = wallet
  BY <1>1, <1>2, RequestSays DEF ScreenRight, CommitPart
<1>3. CASE step = "autonomous"
  <2>1. UNCHANGED <<step, path, wallet, mount, effectRun, advanced>>
    BY <1>1, <1>3 DEF Advance
  <2> QED BY <1>1, <1>2, <1>3, <2>1, AnswerIgnored
<1>4. CASE step # "autonomous"
  <2>1. ASSUME patient = TRUE, NEW p \in requests \ {r}, p.heard = TRUE
        PROVE  accountId = TRUE /\ p.op = "checkBalance" /\ p.from \in advanced
    BY <1>1, <1>2, <2>1, RequestSays
  <2>2. ASSUME patient = TRUE PROVE Looked(wallet')
    BY <1>1, <1>2, <2>2, RequestSays DEF RequestRight, Looked
  <2>3. MoneyIsInHand' /\ wallet' \in Wallet \cup {NoWallet}
    BY <1>1, WizardTyped DEF OnboardingIInv, MoneyIsInHand, Answer, outlayer
  <2> QED BY <1>1, <1>4, <2>1, <2>2, <2>3, AnswerAdvances
<1> QED BY <1>3, <1>4

LEMMA WorkerAnsweredKeeps ==
  ASSUME OnboardingIInv, NEW r \in requests, Answer(r), r.heard = TRUE, r.done = TRUE,
         WorkerAnswered(r)
  PROVE  OnboardingIInv'
<1>1. r.op = "registerWorker" /\ path' = path /\ wallet' = wallet /\ advanced \in SUBSET Nat
  BY WizardTyped DEF WorkerAnswered
<1>2. CASE r.from # mount
  <2>1. UNCHANGED <<step, path, wallet, mount, effectRun, advanced>>
    BY <1>1, <1>2 DEF WorkerAnswered, Cancelled, screen
  <2> QED BY <1>1, <2>1, AnswerIgnored
<1>3. CASE r.from = mount
  <2>1. Advance("install", requests', advanced)
    BY <1>3 DEF WorkerAnswered, Cancelled
  <2>2. step = "autonomous" /\ r.wallet = wallet /\ wallet' \in answered
    BY <1>1, <1>3, RequestSays DEF EffectRight, RequestRight
  <2>3. ASSUME patient = TRUE, NEW p \in requests \ {r}, p.heard = TRUE
        PROVE  accountId = TRUE /\ p.op = "checkBalance" /\ p.from \in advanced
    BY <1>1, <2>2, <2>3, RequestSays
  <2>4. MoneyIsInHand' /\ wallet' \in Wallet \cup {NoWallet}
    BY <1>1, WizardTyped DEF OnboardingIInv, MoneyIsInHand, Answer, outlayer
  <2> QED BY <1>1, <2>1, <2>2, <2>3, <2>4, AnswerAdvances
<1> QED BY <1>2, <1>3

LEMMA WizardAnswerKeeps == ASSUME OnboardingIInv, NEW r \in requests, Answer(r) PROVE OnboardingIInv'
<1>1. r.heard = TRUE /\ r.done = TRUE
  BY RequestSays DEF Answer, Request
<1> QED BY <1>1, WalletAnsweredKeeps, BalanceAnsweredKeeps, CacheDroppedKeeps, WorkerAnsweredKeeps
        DEF Answer

LEMMA OnboardingInitKeeps == OnboardingInit => OnboardingIInv
<1> SUFFICES ASSUME OnboardingInit PROVE OnboardingIInv
  OBVIOUS
<1>1. OnboardingTypeOK
  BY StepsSay DEF OnboardingInit, OnboardingTypeOK, Path
<1>2. IsFiniteSet(requests) /\ requests = {}
  BY FS_EmptySet DEF OnboardingInit
<1>3. MoneyIsInHand /\ ShownWasAnswered /\ lost \in Nat /\ reopens \in Nat
  BY DEF OnboardingInit, MoneyIsInHand, ShownWasAnswered
<1>4. /\ \A w \in Wallet : signatures[w] = 0
      /\ wallet = NoWallet /\ step = "connect" /\ wallet \notin Wallet
  BY OnboardingAssumption DEF OnboardingInit
<1>5. OneAtATime /\ SignedOnce
  BY <1>2, <1>4 DEF OneAtATime, SignedOnce
<1> QED BY <1>1, <1>2, <1>3, <1>4, <1>5 DEF OnboardingIInv

LEMMA OnboardingStutters ==
  ASSUME OnboardingIInv, UNCHANGED onboardingVars PROVE OnboardingIInv'
<1> UNCHANGED <<patient, accountId, step, path, wallet, mount, effectRun, advanced, requests, funded,
                policy, registered, noPolicyCached, signatures, answered, finished, lost, reopens>>
  BY DEF onboardingVars, wizard, screen, outlayer, limits
<1>1. /\ lost' \in Nat /\ (lost' = 0 => lost = 0) /\ requests' \subseteq requests
      /\ effectRun' \in BOOLEAN /\ (effectRun = TRUE => effectRun' = TRUE)
      /\ advanced' \in SUBSET Nat
  BY WizardTyped
<1> QED BY <1>1, RequestsGone

LEMMA OnboardingKeeps == OnboardingIInv /\ [OnboardingNext]_onboardingVars => OnboardingIInv'
<1> SUFFICES ASSUME OnboardingIInv, [OnboardingNext]_onboardingVars PROVE OnboardingIInv'
  OBVIOUS
<1>1. CASE UNCHANGED onboardingVars
  BY <1>1, OnboardingStutters
<1>2. CASE connect \/ disconnect \/ Reopen
  BY <1>2, connectKeeps, disconnectKeeps, ReopenKeeps
<1>3. CASE LeaveConnect \/ SkillInstalled \/ reset \/ \E p \in Path : handleContinue(p)
  BY <1>3, WizardAdvancesKeeps
<1>4. CASE ClaimScreen \/ Fund \/ handleCommit \/ RegisterEffect
  BY <1>4, ClaimScreenKeeps, FundKeeps, handleCommitKeeps, RegisterEffectKeeps
<1>5. CASE \E n \in BalanceCheck : AskBalance(n)
  BY <1>5, AskBalanceKeeps
<1>6. CASE \E r \in requests :
              Serve(r) \/ NotRegistered(r) \/ Answer(r) \/ Committed(r) \/ Fail(r)
  BY <1>6, ServeKeeps, NotRegisteredKeeps, WizardAnswerKeeps, CommittedKeeps, FailKeeps
<1> QED BY <1>1, <1>2, <1>3, <1>4, <1>5, <1>6 DEF OnboardingNext

LEMMA OnboardingHolds == OnboardingIInv => OnboardingInv
<1> SUFFICES ASSUME OnboardingIInv PROVE OnboardingInv
  OBVIOUS
<1>1. PolicyComesFirst
  <2>1. patient = TRUE => OneAtATime
    BY DEF OnboardingIInv
  <2> QED BY <2>1 DEF PolicyComesFirst, OneAtATime, Looked
<1>2. OneSignature
  <2>1. (patient = TRUE /\ lost = 0 /\ reopens = 0) => SignedOnce
    BY DEF OnboardingIInv
  <2> QED BY <2>1 DEF OneSignature, SignedOnce
<1>3. OnboardingTypeOK /\ MoneyIsInHand /\ ShownWasAnswered
  BY DEF OnboardingIInv
<1> QED BY <1>1, <1>2, <1>3 DEF OnboardingInv

\* Whatever the user does and however answers fall, what pays is in hand, the last screens
\* are shown for a wallet that Outlayer has answered, the policy comes first, and the user
\* signs once.
THEOREM OnboardingCorrect == OnboardingSpec => []OnboardingInv
<1>1. OnboardingSpec => []OnboardingIInv
  BY OnboardingInitKeeps, OnboardingKeeps, PTL DEF OnboardingSpec
<1> QED BY <1>1, OnboardingHolds, PTL


LEMMA Places ==
  /\ Place("connect") = 1 /\ Place("config") = 2 /\ Place("register") = 3 /\ Place("fund") = 4
  /\ Place("policy") = 5 /\ Place("autonomous") = 6 /\ Place("install") = 7 /\ Place("success") = 8
BY DEF Place, Step

\* Where an answer takes a wizard whose user is patient.
LEMMA AnswerGoes ==
  ASSUME OnboardingIInv, patient = TRUE, NEW r \in requests, Answer(r)
  PROVE  \/ step' = step
         \/ step = "register" /\ step' = "fund"
         \/ step = "fund" /\ step' = "policy"
         \/ step = "policy" /\ step' = "autonomous"
         \/ step = "autonomous" /\ step' = "install"
<1>1. r.heard = TRUE /\ ScreenRight(r) /\ EffectRight(r)
  BY RequestSays DEF Answer, Request
<1>2. CASE WalletAnswered(r)
  BY <1>1, <1>2 DEF WalletAnswered, Cancelled, Advance, EffectRight
<1>3. CASE BalanceAnswered(r)
  BY <1>1, <1>3 DEF BalanceAnswered, Advance, ScreenRight
<1>4. CASE CacheDropped(r)
  BY <1>1, <1>4 DEF CacheDropped, Advance, ScreenRight, CommitPart
<1>5. CASE WorkerAnswered(r)
  BY <1>1, <1>5 DEF WorkerAnswered, Cancelled, Advance, EffectRight
<1> QED BY <1>2, <1>3, <1>4, <1>5 DEF Answer

LEMMA WizardGoes ==
  ASSUME OnboardingIInv, patient = TRUE, [OnboardingNext]_onboardingVars
  PROVE  \/ step' = step \/ step' = "connect"
         \/ step = "connect" /\ step' = "config"
         \/ step = "config" /\ step' = "register"
         \/ step = "register" /\ step' = "fund"
         \/ step = "fund" /\ step' = "policy"
         \/ step = "policy" /\ step' = "autonomous"
         \/ step = "autonomous" /\ step' = "install"
         \/ step = "install" /\ step' = "success"
<1>1. CASE \E r \in requests : Answer(r)
  BY <1>1, AnswerGoes
<1>2. CASE \E r \in requests : Serve(r) \/ NotRegistered(r) \/ Committed(r) \/ Fail(r)
  BY <1>2 DEF Serve, NotRegistered, Committed, Fail, wizard
<1>3. CASE LeaveConnect \/ SkillInstalled \/ reset \/ \E p \in Path : handleContinue(p)
  BY <1>3 DEF LeaveConnect, SkillInstalled, reset, handleContinue, Advance
<1>4. CASE connect \/ disconnect \/ Reopen \/ ClaimScreen \/ Fund \/ handleCommit \/ RegisterEffect
  BY <1>4 DEF connect, disconnect, Reopen, ClaimScreen, Fund, handleCommit, RegisterEffect, wizard
<1>5. CASE UNCHANGED onboardingVars \/ \E n \in BalanceCheck : AskBalance(n)
  BY <1>5 DEF onboardingVars, AskBalance, wizard
<1> QED BY <1>1, <1>2, <1>3, <1>4, <1>5 DEF OnboardingNext

\* The wizard of a patient user goes forward or starts again, however late answers come.
THEOREM AlwaysGoesForward == OnboardingSpec => GoesForward
<1>1. OnboardingIInv /\ [OnboardingNext]_onboardingVars =>
        [patient => step' = "connect" \/ Place(step') >= Place(step)]_onboardingVars
  <2> SUFFICES ASSUME OnboardingIInv, [OnboardingNext]_onboardingVars, patient = TRUE,
                      step' # "connect"
               PROVE  Place(step') >= Place(step)
    BY WizardTyped
  <2>1. CASE step' = step
    <3>1. Place(step) \in Nat
      BY Places, WizardTyped
    <3>2. Place(step') = Place(step)
      BY <2>1
    <3> QED BY <3>1, <3>2
  <2>2. CASE step' # step
    <3>1. PICK s, t : s = step /\ t = step'
      OBVIOUS
    <3>2. \/ s = "connect" /\ t = "config"
          \/ s = "config" /\ t = "register"
          \/ s = "register" /\ t = "fund"
          \/ s = "fund" /\ t = "policy"
          \/ s = "policy" /\ t = "autonomous"
          \/ s = "autonomous" /\ t = "install"
          \/ s = "install" /\ t = "success"
      BY <2>2, <3>1, WizardGoes
    <3>3. Place(t) >= Place(s)
      BY <3>2, Places
    <3> QED BY <3>1, <3>3
  <2> QED BY <2>1, <2>2
<1>2. OnboardingSpec => []OnboardingIInv
  BY OnboardingInitKeeps, OnboardingKeeps, PTL DEF OnboardingSpec
<1> QED BY <1>1, <1>2, PTL DEF OnboardingSpec, GoesForward

-----------------------------------------------------------------------------
(* The demo *)

\* What a stream can say.
Spoken == {"discovering", "discovered", "paying", "deliberating", "verdict", "failed"}

DemoRun ==
  [of : Visitor, reader : {"none", "fetching", "reading"},
   pc : {"requested", "refused", "info", "paying", "deliberating", "over"},
   stream : Seq(Spoken), gone : BOOLEAN, aborted : {"no", "early", "late"},
   paid : BOOLEAN, verdict : BOOLEAN, hit : Nat]

InOrder(s) == \A j, k \in DOMAIN s : j < k => Rank[s[j]] <= Rank[s[k]]

\* The last phase said by a route that is there.
LastSaid(pc, p) ==
  /\ pc \in {"requested", "refused", "info"} => p = "discovering"
  /\ pc \in {"paying", "deliberating"} => p = pc
  /\ pc = "over" => p \in Ended

\* A run that is read by a page that shows a phase.
ReadRight(run, phase) ==
  LET ahead == <<phase>> \o run.stream IN
  /\ ~run.gone /\ phase \in Spoken
  /\ InOrder(ahead) /\ LastSaid(run.pc, ahead[Len(ahead)])
  /\ run.pc \in {"requested", "refused"} => run.stream = << >>
  /\ \A k \in DOMAIN run.stream : run.stream[k] = "verdict" => run.paid /\ run.verdict

HasVerdict(e) == \E k \in DOMAIN e : e[k] = "verdict"

\* Of all runs, or of all pages, one is replaced.
Replaced(before, after, r, new) == after = [before EXCEPT ![r] = new]

PaidRight(run) ==
  /\ run.aborted = "early" => ~run.paid /\ run.pc \in {"info", "over"}
  /\ run.pc \in {"requested", "refused", "info"} => ~run.paid

DemoTyped ==
  /\ sameIp \in BOOLEAN /\ clock \in Nat /\ clock > DayTicks /\ perHour \in Nat /\ perDay \in Nat
  /\ page \in [Visitor -> [phase : Phase, abortRef : RunId \cup {NoRun}]]
  /\ runs \in Seq(DemoRun) /\ runsLeft \in Nat /\ Len(runs) + runsLeft <= MaxRuns
  /\ ticksLeft \in 0 .. MaxTicks
  /\ \A v \in Visitor : page[v].abortRef # NoRun =>
       page[v].abortRef \in Started /\ runs[page[v].abortRef].of = v

\* The run that is read is the one its page would abort, the last of its visitor.
ReadersRight ==
  \A r \in Started : runs[r].reader # "none" =>
    /\ page[runs[r].of].abortRef = r
    /\ \A s \in Started : runs[s].of = runs[r].of => s <= r
    /\ ReadRight(runs[r], page[runs[r].of].phase)

PaymentsRight == \A r \in Started : PaidRight(runs[r])

\* The lists keep every run counted within the hour, and within the day.
HitsKept ==
  \A s \in Started : /\ runs[s].hit <= clock
                     /\ runs[s].hit > clock - HourTicks => s \in ipHits[ip(runs[s].of)]
                     /\ runs[s].hit >= clock - DayTicks => s \in allHits

HitsRight ==
  ipHits \in [Visitor -> SUBSET Started] /\ allHits \subseteq Started /\ HitsKept

\* The pages and the streams.
PagesRight == DemoTyped /\ ReadersRight /\ PaymentsRight /\ RunningIsRead /\ VerdictIsBought

\* The inductive invariant of DemoInv.
DemoIInv == PagesRight /\ HitsRight /\ LimitsHold

-----------------------------------------------------------------------------

LEMMA Ranks ==
  /\ DOMAIN Rank = Spoken /\ Phase = Spoken \cup {"idle"} /\ Ended \subseteq Spoken
  /\ Rank["discovering"] = 1 /\ Rank["discovered"] = 2 /\ Rank["paying"] = 3
  /\ Rank["deliberating"] = 4 /\ Rank["verdict"] = 5 /\ Rank["failed"] = 5
  /\ \A p \in Spoken : Rank[p] \in 1 .. 5
BY DEF Rank, Spoken, Phase, Ended

\* In a stream in order nothing is before its first phase, nor after its last.
LEMMA EndsBound ==
  ASSUME NEW a \in Seq(Spoken), InOrder(a), NEW k \in DOMAIN a
  PROVE  Rank[a[1]] <= Rank[a[k]] /\ Rank[a[k]] <= Rank[a[Len(a)]]
<1>1. Len(a) \in Nat /\ DOMAIN a = 1 .. Len(a) /\ k \in Nat /\ 1 <= k /\ k <= Len(a)
  OBVIOUS
<1>2. 1 \in DOMAIN a /\ Len(a) \in DOMAIN a
  BY <1>1
<1>3. a[1] \in Spoken /\ a[k] \in Spoken /\ a[Len(a)] \in Spoken
  BY <1>2
<1>4. Rank[a[1]] \in Nat /\ Rank[a[k]] \in Nat /\ Rank[a[Len(a)]] \in Nat
  BY <1>3, Ranks
<1>5. Rank[a[1]] <= Rank[a[k]]
  <2>1. CASE k = 1
    BY <2>1, <1>4
  <2>2. CASE 1 < k
    BY <2>2, <1>2 DEF InOrder
  <2> QED BY <2>1, <2>2, <1>1
<1>6. Rank[a[k]] <= Rank[a[Len(a)]]
  <2>1. CASE k = Len(a)
    BY <2>1, <1>4
  <2>2. CASE k < Len(a)
    BY <2>2, <1>2 DEF InOrder
  <2> QED BY <2>1, <2>2, <1>1
<1> QED BY <1>5, <1>6

\* Two streams in order, the second of which begins no earlier than the first ends.
LEMMA JoinedInOrder ==
  ASSUME NEW a \in Seq(Spoken), NEW e \in Seq(Spoken), a # << >>, e # << >>,
         InOrder(a), InOrder(e), Rank[a[Len(a)]] <= Rank[e[1]]
  PROVE  /\ a \o e \in Seq(Spoken) /\ InOrder(a \o e)
         /\ (a \o e)[Len(a \o e)] = e[Len(e)]
<1> DEFINE b == a \o e
<1>1. Len(a) \in Nat \ {0} /\ Len(e) \in Nat \ {0} /\ DOMAIN a = 1 .. Len(a)
      /\ DOMAIN e = 1 .. Len(e) /\ b \in Seq(Spoken)
      /\ Len(b) = Len(a) + Len(e) /\ DOMAIN b = 1 .. Len(a) + Len(e)
  OBVIOUS
<1>2. \A k \in 1 .. Len(a) : b[k] = a[k]
  OBVIOUS
<1>3. \A k \in Nat : k > Len(a) /\ k <= Len(a) + Len(e) =>
        b[k] = e[k - Len(a)] /\ k - Len(a) \in DOMAIN e
  OBVIOUS
<1> HIDE DEF b
<1>4. b[Len(b)] = e[Len(e)]
  BY <1>1, <1>3
<1>5. ASSUME NEW j \in DOMAIN b, NEW k \in DOMAIN b, j < k
      PROVE  Rank[b[j]] <= Rank[b[k]]
  <2>0. j \in Nat /\ k \in Nat /\ j >= 1 /\ k <= Len(a) + Len(e)
    BY <1>1
  <2>1. CASE k <= Len(a)
    <3>1. j \in DOMAIN a /\ k \in DOMAIN a
      BY <1>1, <1>5, <2>0, <2>1
    <3>2. b[j] = a[j] /\ b[k] = a[k]
      BY <1>1, <1>2, <3>1
    <3> QED BY <1>5, <3>1, <3>2 DEF InOrder
  <2>2. CASE j > Len(a)
    <3> DEFINE l == j - Len(a)
               m == k - Len(a)
    <3>0. j <= Len(a) + Len(e) /\ k > Len(a)
      BY <1>1, <1>5, <2>0, <2>2
    <3>1. b[j] = e[l] /\ b[k] = e[m] /\ l \in DOMAIN e /\ m \in DOMAIN e
      BY <1>3, <2>0, <2>2, <3>0
    <3>2. l < m
      BY <1>1, <1>5, <2>0
    <3> HIDE DEF l, m
    <3> QED BY <3>1, <3>2 DEF InOrder
  <2>3. CASE j <= Len(a) /\ k > Len(a)
    <3> DEFINE m == k - Len(a)
    <3>1. b[j] = a[j] /\ j \in DOMAIN a
      BY <1>1, <1>2, <2>0, <2>3
    <3>2. b[k] = e[m] /\ m \in DOMAIN e
      BY <1>1, <1>3, <2>0, <2>3
    <3>3. a[j] \in Spoken /\ a[Len(a)] \in Spoken /\ e[1] \in Spoken /\ e[m] \in Spoken
      BY <1>1, <3>1, <3>2
    <3> HIDE DEF m
    <3>4. Rank[a[j]] <= Rank[a[Len(a)]] /\ Rank[e[1]] <= Rank[e[m]]
      BY <3>1, <3>2, EndsBound
    <3>5. Rank[a[j]] \in Nat /\ Rank[a[Len(a)]] \in Nat /\ Rank[e[1]] \in Nat /\ Rank[e[m]] \in Nat
      BY <3>3, Ranks, SMTT(30)
    <3>6. Rank[a[j]] <= Rank[e[m]]
      BY <3>4, <3>5
    <3> QED BY <3>1, <3>2, <3>6
  <2> QED BY <2>0, <2>1, <2>2, <2>3, <1>1
<1> QED BY <1>1, <1>4, <1>5 DEF b, InOrder

\* What is appended to a stream, no earlier than its end, leaves it in order.
LEMMA AppendedInOrder ==
  ASSUME NEW p \in Spoken, NEW s \in Seq(Spoken), NEW e \in Seq(Spoken), e # << >>,
         InOrder(<<p>> \o s), InOrder(e),
         Rank[(<<p>> \o s)[Len(<<p>> \o s)]] <= Rank[e[1]]
  PROVE  /\ InOrder(<<p>> \o (s \o e))
         /\ (<<p>> \o (s \o e))[Len(<<p>> \o (s \o e))] = e[Len(e)]
<1>1. <<p>> \o s \in Seq(Spoken) /\ <<p>> \o s # << >>
  OBVIOUS
<1>2. (<<p>> \o s) \o e = <<p>> \o (s \o e)
  OBVIOUS
<1> DEFINE a == <<p>> \o s
<1>3. a \in Seq(Spoken) /\ a # << >> /\ InOrder(a) /\ Rank[a[Len(a)]] <= Rank[e[1]]
  BY <1>1
<1>4. a \o e = <<p>> \o (s \o e)
  BY <1>2
<1> HIDE DEF a
<1>5. InOrder(a \o e) /\ (a \o e)[Len(a \o e)] = e[Len(e)]
  BY <1>3, JoinedInOrder
<1> QED BY <1>4, <1>5

\* What is read of a stream leaves the rest in order, and its end.
LEMMA RestInOrder ==
  ASSUME NEW p \in Spoken, NEW s \in Seq(Spoken), s # << >>, InOrder(<<p>> \o s)
  PROVE  /\ Head(s) \in Spoken /\ Tail(s) \in Seq(Spoken) /\ <<Head(s)>> \o Tail(s) = s
         /\ InOrder(s) /\ (<<p>> \o s)[Len(<<p>> \o s)] = s[Len(s)]
         /\ \A k \in DOMAIN Tail(s) : Tail(s)[k] = s[k + 1] /\ k + 1 \in DOMAIN s
<1> DEFINE a == <<p>> \o s
<1>1. Len(s) \in Nat \ {0} /\ Len(a) = Len(s) + 1 /\ DOMAIN a = 1 .. Len(s) + 1
      /\ DOMAIN s = 1 .. Len(s)
  OBVIOUS
<1>2. \A k \in 1 .. Len(s) : a[k + 1] = s[k]
  OBVIOUS
<1>3. InOrder(s)
  <2> SUFFICES ASSUME NEW j \in DOMAIN s, NEW k \in DOMAIN s, j < k
               PROVE  Rank[s[j]] <= Rank[s[k]]
    BY DEF InOrder
  <2>1. j + 1 \in DOMAIN a /\ k + 1 \in DOMAIN a /\ j + 1 < k + 1
    BY <1>1
  <2> QED BY <1>1, <1>2, <2>1 DEF InOrder
<1>4. a[Len(a)] = s[Len(s)]
  BY <1>1, <1>2
<1>5. Head(s) \in Spoken /\ Tail(s) \in Seq(Spoken) /\ <<Head(s)>> \o Tail(s) = s
  OBVIOUS
<1>6. \A k \in DOMAIN Tail(s) : Tail(s)[k] = s[k + 1] /\ k + 1 \in DOMAIN s
  OBVIOUS
<1> QED BY <1>3, <1>4, <1>5, <1>6

-----------------------------------------------------------------------------
(* A run that moves *)

\* What the route says is read after what it said before.
LEMMA SentIsRight ==
  ASSUME NEW run \in DemoRun, NEW p \in Spoken, ReadRight(run, p),
         NEW new \in DemoRun, NEW e \in Seq(Spoken), e # << >>, InOrder(e),
         new.stream = run.stream \o e, ~new.gone,
         run.pc = "paying" => Rank[e[1]] >= 3, run.pc = "deliberating" => Rank[e[1]] >= 4,
         run.pc \notin {"refused", "over"},
         new.pc \in {"info", "paying", "deliberating", "over"}, LastSaid(new.pc, e[Len(e)]),
         run.paid => new.paid, run.verdict => new.verdict,
         \A k \in DOMAIN e : e[k] = "verdict" => new.paid /\ new.verdict
  PROVE  ReadRight(new, p)
<1> DEFINE s == run.stream
           a == <<p>> \o s
           last == a[Len(a)]
<1>1. s \in Seq(Spoken) /\ new.stream \in Seq(Spoken)
      /\ run.pc \in {"requested", "refused", "info", "paying", "deliberating", "over"}
  BY DEF DemoRun
<1>2. InOrder(a) /\ LastSaid(run.pc, last)
  BY DEF ReadRight
<1>3. Len(e) \in Nat \ {0} /\ e[1] \in Spoken
  OBVIOUS
<1>4. Rank[last] <= Rank[e[1]]
  <2>1. Rank[e[1]] \in Nat /\ Rank[e[1]] >= 1
    BY <1>3, Ranks
  <2> HIDE DEF last
  <2>2. CASE run.pc \in {"requested", "info"}
    BY <1>2, <2>1, <2>2, Ranks DEF LastSaid
  <2>3. CASE run.pc \in {"paying", "deliberating"}
    BY <1>2, <2>1, <2>3, Ranks DEF LastSaid
  <2> QED BY <1>1, <2>2, <2>3
<1>5. InOrder(<<p>> \o (s \o e)) /\ (<<p>> \o (s \o e))[Len(<<p>> \o (s \o e))] = e[Len(e)]
  BY <1>1, <1>2, <1>4, AppendedInOrder
<1>6. ASSUME NEW k \in DOMAIN new.stream, new.stream[k] = "verdict"
      PROVE  new.paid /\ new.verdict
  <2>1. k \in DOMAIN s \/ (k - Len(s) \in DOMAIN e /\ new.stream[k] = e[k - Len(s)])
    BY <1>1, <1>6
  <2>2. CASE k \in DOMAIN s
    <3>1. s[k] = "verdict"
      BY <1>1, <1>6, <2>2
    <3>2. run.paid /\ run.verdict
      BY <2>2, <3>1 DEF ReadRight
    <3> QED BY <3>2
  <2> QED BY <1>6, <2>1, <2>2
<1>7. new.stream = s \o e
  OBVIOUS
<1> HIDE DEF s
<1>8. InOrder(<<p>> \o new.stream)
      /\ LastSaid(new.pc, (<<p>> \o new.stream)[Len(<<p>> \o new.stream)])
  BY <1>5, <1>7
<1> QED BY <1>6, <1>8 DEF ReadRight

\* A run that moves, and its page.  A page that changes is that of a run it reads.
LEMMA RunMoves ==
  ASSUME DemoAssumption, PagesRight, NEW r \in Started, NEW new \in DemoRun,
         NEW showing \in [phase : Phase, abortRef : RunId \cup {NoRun}],
         Replaced(runs, runs', r, new), new.of = runs[r].of,
         Replaced(page, page', runs[r].of, showing),
         showing = page[runs[r].of] \/ runs[r].reader # "none",
         showing.abortRef \in {NoRun, page[runs[r].of].abortRef},
         new.reader # "none" =>
           /\ runs[r].reader # "none" /\ showing.abortRef = page[runs[r].of].abortRef
           /\ ReadRight(new, showing.phase),
         runs[r].reader # "none" /\ new.reader = "none" =>
           showing.phase \in Ended \cup {"idle"},
         showing.phase = "verdict" => page[runs[r].of].phase = "verdict" \/ (new.paid /\ new.verdict),
         PaidRight(new), runs[r].paid => new.paid, runs[r].verdict => new.verdict,
         UNCHANGED <<setup, clock, demoBounds>>
  PROVE  PagesRight'
<1> DEFINE v == runs[r].of
<1>1. /\ runs \in Seq(DemoRun) /\ runs' \in Seq(DemoRun) /\ Started' = Started
      /\ Len(runs') = Len(runs)
      /\ \A s \in Started : runs[s] \in DemoRun
      /\ runs'[r] = new /\ \A s \in Started \ {r} : runs'[s] = runs[s]
  BY DEF PagesRight, DemoTyped, Started, Replaced
<1>2. v \in Visitor /\ \A s \in Started : runs'[s].of = runs[s].of /\ runs[s].of \in Visitor
  BY <1>1 DEF DemoRun
<1>3. /\ page \in [Visitor -> [phase : Phase, abortRef : RunId \cup {NoRun}]]
      /\ page' \in [Visitor -> [phase : Phase, abortRef : RunId \cup {NoRun}]]
      /\ page'[v] = showing /\ \A w \in Visitor \ {v} : page'[w] = page[w]
  BY <1>2 DEF PagesRight, DemoTyped, Replaced
<1>4. DemoTyped'
  <2>1. \A w \in Visitor : page'[w].abortRef # NoRun => page'[w].abortRef = page[w].abortRef
    BY <1>3
  <2>2. \A w \in Visitor : page[w].abortRef # NoRun =>
          page[w].abortRef \in Started /\ runs[page[w].abortRef].of = w
    BY DEF PagesRight, DemoTyped
  <2>3. \A w \in Visitor : page'[w].abortRef # NoRun =>
          page'[w].abortRef \in Started /\ runs'[page'[w].abortRef].of = w
    BY <1>2, <2>1, <2>2
  <2> QED BY <1>1, <1>3, <2>3 DEF PagesRight, DemoTyped, setup, demoBounds
<1>5. ReadersRight'
  <2> SUFFICES ASSUME NEW s \in Started, runs'[s].reader # "none"
               PROVE  /\ page'[runs'[s].of].abortRef = s
                      /\ \A t \in Started : runs'[t].of = runs'[s].of => t <= s
                      /\ ReadRight(runs'[s], page'[runs'[s].of].phase)
    BY <1>1 DEF ReadersRight
  <2>1. runs[s].reader # "none"
    BY <1>1
  <2>2. /\ page[runs[s].of].abortRef = s
        /\ \A t \in Started : runs[t].of = runs[s].of => t <= s
        /\ ReadRight(runs[s], page[runs[s].of].phase)
    BY <2>1 DEF PagesRight, ReadersRight
  <2>3. \A t \in Started : runs'[t].of = runs'[s].of => t <= s
    BY <1>2, <2>2
  <2>4. CASE s = r
    BY <1>1, <1>2, <1>3, <2>2, <2>3, <2>4
  <2>5. CASE s # r
    <3>1. page'[runs[s].of] = page[runs[s].of]
      <4>1. CASE runs[s].of # v
        BY <1>2, <1>3, <4>1
      <4>2. CASE runs[s].of = v
        <5>1. runs[r].reader = "none"
          <6>1. runs[r].reader # "none" => page[v].abortRef = r
            BY DEF PagesRight, ReadersRight
          <6> QED BY <2>2, <2>5, <4>2, <6>1
        <5> QED BY <1>3, <4>2, <5>1
      <4> QED BY <4>1, <4>2
    <3> QED BY <1>1, <2>2, <2>3, <2>5, <3>1
  <2> QED BY <2>4, <2>5
<1>6. PaymentsRight'
  BY <1>1 DEF PagesRight, PaymentsRight
<1>7. RunningIsRead'
  <2> SUFFICES ASSUME NEW w \in Visitor, page'[w].phase \notin Ended \cup {"idle"}
               PROVE  \E s \in Started : runs'[s].of = w /\ runs'[s].reader # "none"
    BY <1>1 DEF RunningIsRead
  <2>1. CASE runs[r].reader # "none" /\ w = v
    <3>1. new.reader # "none"
      BY <1>3, <2>1
    <3> QED BY <1>1, <1>2, <2>1, <3>1
  <2>2. CASE ~(runs[r].reader # "none" /\ w = v)
    <3>1. page'[w] = page[w]
      BY <1>3, <2>2
    <3>2. PICK s \in Started : runs[s].of = w /\ runs[s].reader # "none"
      BY <2>2, <3>1 DEF PagesRight, RunningIsRead
    <3>3. s # r
      BY <2>2, <3>2
    <3> QED BY <1>1, <3>2, <3>3
  <2> QED BY <2>1, <2>2
<1>8. VerdictIsBought'
  <2> SUFFICES ASSUME NEW w \in Visitor, page'[w].phase = "verdict"
               PROVE  \E s \in Started : /\ runs'[s].of = w /\ runs'[s].paid /\ runs'[s].verdict
                                         /\ \A t \in Started : runs'[t].of = w => t <= s
    BY <1>1 DEF VerdictIsBought
  <2>1. CASE page[w].phase = "verdict"
    <3>1. PICK s \in Started : /\ runs[s].of = w /\ runs[s].paid /\ runs[s].verdict
                               /\ \A t \in Started : runs[t].of = w => t <= s
      BY <2>1 DEF PagesRight, VerdictIsBought
    <3>2. runs'[s].of = w /\ \A t \in Started : runs'[t].of = w => t <= s
      BY <1>2, <3>1
    <3>3. runs'[s].paid /\ runs'[s].verdict
      BY <1>1, <3>1
    <3> QED BY <3>2, <3>3
  <2>2. CASE page[w].phase # "verdict"
    <3>1. w = v /\ showing # page[v] /\ new.paid /\ new.verdict
      BY <1>3, <2>2
    <3>2. \A t \in Started : runs[t].of = v => t <= r
      BY <3>1 DEF PagesRight, ReadersRight
    <3> QED BY <1>1, <1>2, <3>1, <3>2
  <2> QED BY <2>1, <2>2
<1> QED BY <1>4, <1>5, <1>6, <1>7, <1>8 DEF PagesRight

\* What the lists keep when no run is counted.
LEMMA HitsStay ==
  ASSUME DemoAssumption, PagesRight, HitsRight, LimitsHold,
         runs' \in Seq(DemoRun), Len(runs') = Len(runs),
         \A s \in Started : runs'[s].of = runs[s].of /\ runs'[s].hit = runs[s].hit,
         \/ UNCHANGED hits
         \/ ipHits' = FreshIp /\ allHits' = FreshAll,
         UNCHANGED <<setup, clock>>
  PROVE  HitsRight' /\ LimitsHold'
<1>1. Started' = Started /\ clock' = clock /\ clock \in Nat
  BY DEF Started, PagesRight, DemoTyped
<1>2. sameIp' = sameIp /\ perHour' = perHour /\ perDay' = perDay
  BY DEF setup
<1>3. \A s \in Started : runs[s].of \in Visitor /\ ip(runs[s].of) \in Visitor
      /\ ip(runs[s].of)' = ip(runs[s].of)
  <2>1. \A s \in Started : runs[s].of \in Visitor
    <3>1. \A s \in Started : runs[s] \in DemoRun
      BY DEF Started, PagesRight, DemoTyped
    <3> QED BY <3>1 DEF DemoRun
  <2>2. \A s \in Started : ip(runs[s].of) \in Visitor
    BY <2>1 DEF ip
  <2>3. \A s \in Started : ip(runs[s].of)' = ip(runs[s].of)
    BY <1>2 DEF ip
  <2> QED BY <2>1, <2>2, <2>3
<1>4. HitsRight'
  <2>1. CASE UNCHANGED hits
    BY <1>1, <1>2, <2>1 DEF HitsRight, HitsKept, hits, ip
  <2>2. CASE ipHits' = FreshIp /\ allHits' = FreshAll
    <3>1. ipHits' \in [Visitor -> SUBSET Started] /\ allHits' \subseteq Started
      BY <2>2 DEF HitsRight, HitsKept, FreshIp, FreshAll
    <3>2. ASSUME NEW s \in Started, runs[s].hit > clock - HourTicks
          PROVE  s \in ipHits'[ip(runs[s].of)]
      BY <1>3, <2>2, <3>2 DEF HitsRight, HitsKept, FreshIp
    <3>3. ASSUME NEW s \in Started, runs[s].hit >= clock - DayTicks
          PROVE  s \in allHits'
      BY <2>2, <3>3 DEF HitsRight, HitsKept, FreshAll
    <3>4. \A s \in Started : runs[s].hit <= clock
      BY DEF HitsRight, HitsKept
    <3> QED BY <1>1, <1>2, <3>1, <3>2, <3>3, <3>4 DEF HitsRight, HitsKept, ip
  <2> QED BY <2>1, <2>2
<1>5. LimitsHold'
  <2>1. ASSUME NEW t \in DayTicks + 1 .. clock, NEW i \in Visitor
        PROVE  {s \in Started : ip(runs[s].of)' = i /\ runs'[s].hit \in t - HourTicks + 1 .. t}
             = {s \in Started : ip(runs[s].of) = i /\ runs[s].hit \in t - HourTicks + 1 .. t}
    BY <1>3
  <2>2. ASSUME NEW t \in DayTicks + 1 .. clock
        PROVE  {s \in Started : runs'[s].hit \in t - DayTicks .. t}
             = {s \in Started : runs[s].hit \in t - DayTicks .. t}
    OBVIOUS
  <2> QED BY <1>1, <2>1, <2>2 DEF LimitsHold, setup
<1> QED BY <1>4, <1>5
\* A run that moves, without being counted.
LEMMA RunMovesOn ==
  ASSUME DemoAssumption, DemoIInv, NEW r \in Started, NEW new \in DemoRun,
         NEW showing \in [phase : Phase, abortRef : RunId \cup {NoRun}],
         Replaced(runs, runs', r, new), new.of = runs[r].of, new.hit = runs[r].hit,
         Replaced(page, page', runs[r].of, showing),
         showing = page[runs[r].of] \/ runs[r].reader # "none",
         showing.abortRef \in {NoRun, page[runs[r].of].abortRef},
         new.reader # "none" =>
           /\ runs[r].reader # "none" /\ showing.abortRef = page[runs[r].of].abortRef
           /\ ReadRight(new, showing.phase),
         runs[r].reader # "none" /\ new.reader = "none" =>
           showing.phase \in Ended \cup {"idle"},
         showing.phase = "verdict" => page[runs[r].of].phase = "verdict" \/ (new.paid /\ new.verdict),
         PaidRight(new), runs[r].paid => new.paid, runs[r].verdict => new.verdict,
         UNCHANGED <<setup, clock, demoBounds>>,
         \/ UNCHANGED hits
         \/ ipHits' = FreshIp /\ allHits' = FreshAll
  PROVE  DemoIInv'
<1>1. PagesRight /\ HitsRight /\ LimitsHold
  BY DEF DemoIInv
<1>2. PagesRight'
  BY <1>1, RunMoves
<1>3. runs' \in Seq(DemoRun) /\ Len(runs') = Len(runs)
      /\ \A s \in Started : runs'[s].of = runs[s].of /\ runs'[s].hit = runs[s].hit
  <2>1. runs \in Seq(DemoRun)
    BY <1>1 DEF PagesRight, DemoTyped
  <2> QED BY <2>1 DEF Started, Replaced
<1>4. HitsRight' /\ LimitsHold'
  BY <1>1, <1>3, HitsStay
<1> QED BY <1>2, <1>4 DEF DemoIInv

\* The same for a run whose page stays as it is.
LEMMA RouteMovesOn ==
  ASSUME DemoAssumption, DemoIInv, NEW r \in Started, NEW new \in DemoRun,
         Replaced(runs, runs', r, new), new.of = runs[r].of, new.hit = runs[r].hit,
         new.reader # "none" <=> runs[r].reader # "none",
         runs[r].reader # "none" /\ ReadRight(runs[r], page[runs[r].of].phase) =>
           ReadRight(new, page[runs[r].of].phase),
         PaidRight(runs[r]) => PaidRight(new),
         runs[r].paid => new.paid, runs[r].verdict => new.verdict,
         UNCHANGED <<setup, clock, page, demoBounds>>,
         \/ UNCHANGED hits
         \/ ipHits' = FreshIp /\ allHits' = FreshAll
  PROVE  DemoIInv'
<1> DEFINE v == runs[r].of
           showing == page[v]
<1>1. PagesRight /\ HitsRight /\ LimitsHold
  BY DEF DemoIInv
<1>2. page \in [Visitor -> [phase : Phase, abortRef : RunId \cup {NoRun}]] /\ runs[r] \in DemoRun
  BY <1>1 DEF PagesRight, DemoTyped, Started
<1>3. v \in Visitor
  BY <1>2 DEF DemoRun
<1>4. showing \in [phase : Phase, abortRef : RunId \cup {NoRun}]
  BY <1>2, <1>3
<1>5. Replaced(page, page', v, showing)
  BY <1>2, <1>3 DEF Replaced
<1>6. PaidRight(new)
  BY <1>1 DEF PagesRight, PaymentsRight
<1>7. new.reader # "none" => ReadRight(new, showing.phase)
  BY <1>1 DEF PagesRight, ReadersRight
<1> HIDE DEF showing, v
<1>8. showing = page[runs[r].of] /\ v = runs[r].of
  BY DEF showing, v
<1> QED BY <1>4, <1>5, <1>6, <1>7, <1>8, RunMovesOn

\* A run and its page.
LEMMA RunTyped ==
  ASSUME PagesRight, NEW r \in Started
  PROVE  /\ runs[r] \in DemoRun /\ runs[r].of \in Visitor
         /\ page[runs[r].of] \in [phase : Phase, abortRef : RunId \cup {NoRun}]
         /\ runs \in Seq(DemoRun)
         /\ PaidRight(runs[r])
         /\ runs[r].reader # "none" => ReadRight(runs[r], page[runs[r].of].phase)
<1>1. runs \in Seq(DemoRun) /\ runs[r] \in DemoRun
      /\ page \in [Visitor -> [phase : Phase, abortRef : RunId \cup {NoRun}]]
  BY DEF PagesRight, DemoTyped, Started
<1>2. runs[r].of \in Visitor
  BY <1>1 DEF DemoRun
<1> QED BY <1>1, <1>2 DEF PagesRight, ReadersRight, PaymentsRight

-----------------------------------------------------------------------------
(* The page *)

LEMMA RespondedKeeps ==
  ASSUME DemoAssumption, DemoIInv, NEW r \in Started, Responded(r)
  PROVE  DemoIInv'
<1>0. PagesRight
  BY DEF DemoIInv
<1> DEFINE run == runs[r]
           old == page[run.of]
<1>1. /\ run \in DemoRun /\ run.of \in Visitor /\ PaidRight(run) /\ runs \in Seq(DemoRun)
      /\ old \in [phase : Phase, abortRef : RunId \cup {NoRun}]
      /\ run.reader = "fetching" /\ run.pc # "requested" /\ ReadRight(run, old.phase)
  BY <1>0, RunTyped DEF Responded
<1>2. CASE run.pc = "refused"
  <2> DEFINE new == [run EXCEPT !.reader = "none"]
             showing == [phase |-> "failed", abortRef |-> old.abortRef]
  <2>1. new \in DemoRun /\ new.of = run.of /\ new.hit = run.hit /\ new.reader = "none"
        /\ new.paid = run.paid /\ new.verdict = run.verdict
        /\ new.pc = run.pc /\ new.aborted = run.aborted
    BY <1>1 DEF DemoRun
  <2>2. PaidRight(new)
    BY <1>1, <2>1 DEF PaidRight
  <2>3. /\ showing \in [phase : Phase, abortRef : RunId \cup {NoRun}]
        /\ showing.abortRef = old.abortRef /\ showing.phase = "failed" /\ "failed" \in Ended
    BY <1>1, Ranks DEF Spoken, Ended
  <2>4. Replaced(runs, runs', r, new) /\ Replaced(page, page', run.of, showing)
        /\ UNCHANGED <<setup, clock, hits, demoBounds>>
    BY <1>2 DEF Responded, Shows, Replaced
  <2> HIDE DEF new, showing
  <2> QED BY <1>1, <2>1, <2>2, <2>3, <2>4, RunMovesOn
<1>3. CASE run.pc # "refused"
  <2> DEFINE new == [run EXCEPT !.reader = "reading"]
  <2>1. new \in DemoRun /\ new.of = run.of /\ new.hit = run.hit /\ new.reader = "reading"
        /\ new.paid = run.paid /\ new.verdict = run.verdict /\ new.stream = run.stream
        /\ new.pc = run.pc /\ new.aborted = run.aborted /\ new.gone = run.gone
    BY <1>1 DEF DemoRun
  <2>2. PaidRight(new) /\ ReadRight(new, old.phase)
    BY <1>1, <2>1 DEF PaidRight, ReadRight
  <2>4. Replaced(runs, runs', r, new) /\ UNCHANGED <<setup, clock, page, hits, demoBounds>>
    BY <1>3 DEF Responded, Replaced
  <2> HIDE DEF new
  <2> QED BY <1>1, <2>1, <2>2, <2>4, RouteMovesOn
<1> QED BY <1>2, <1>3

LEMMA ReadEventKeeps ==
  ASSUME DemoAssumption, DemoIInv, NEW r \in Started, ReadEvent(r)
  PROVE  DemoIInv'
<1>0. PagesRight
  BY DEF DemoIInv
<1> DEFINE run == runs[r]
           old == page[run.of]
           s == run.stream
           new == [run EXCEPT !.stream = Tail(s)]
           showing == [phase |-> Head(s), abortRef |-> old.abortRef]
<1>1. /\ run \in DemoRun /\ run.of \in Visitor /\ PaidRight(run) /\ runs \in Seq(DemoRun)
      /\ old \in [phase : Phase, abortRef : RunId \cup {NoRun}]
      /\ run.reader = "reading" /\ s # << >> /\ ReadRight(run, old.phase)
  BY <1>0, RunTyped DEF ReadEvent
<1>2. s \in Seq(Spoken) /\ old.phase \in Spoken /\ InOrder(<<old.phase>> \o s)
  BY <1>1 DEF DemoRun, ReadRight
<1>3. /\ Head(s) \in Spoken /\ Tail(s) \in Seq(Spoken) /\ <<Head(s)>> \o Tail(s) = s
      /\ InOrder(s) /\ (<<old.phase>> \o s)[Len(<<old.phase>> \o s)] = s[Len(s)]
      /\ \A k \in DOMAIN Tail(s) : Tail(s)[k] = s[k + 1] /\ k + 1 \in DOMAIN s
  BY <1>1, <1>2, RestInOrder
<1>4. new \in DemoRun /\ new.of = run.of /\ new.hit = run.hit /\ new.reader = "reading"
      /\ new.paid = run.paid /\ new.verdict = run.verdict /\ new.stream = Tail(s)
      /\ new.pc = run.pc /\ new.aborted = run.aborted /\ new.gone = run.gone
  BY <1>1, <1>3 DEF DemoRun
<1>5. /\ showing \in [phase : Phase, abortRef : RunId \cup {NoRun}]
      /\ showing.abortRef = old.abortRef /\ showing.phase = Head(s)
  BY <1>1, <1>3, Ranks
<1>6. PaidRight(new)
  BY <1>1, <1>4 DEF PaidRight
<1>7. ReadRight(new, showing.phase)
  <2>1. InOrder(<<showing.phase>> \o new.stream)
        /\ (<<showing.phase>> \o new.stream)[Len(<<showing.phase>> \o new.stream)] = s[Len(s)]
    BY <1>3, <1>4, <1>5
  <2>2. LastSaid(run.pc, s[Len(s)]) /\ ~run.gone /\ run.pc \notin {"requested", "refused"}
    BY <1>1, <1>3 DEF ReadRight
  <2>3. \A k \in DOMAIN s : s[k] = "verdict" => run.paid /\ run.verdict
    BY <1>1 DEF ReadRight
  <2>4. \A k \in DOMAIN new.stream : new.stream[k] = "verdict" => new.paid /\ new.verdict
    BY <1>3, <1>4, <2>3
  <2> HIDE DEF new, showing
  <2> QED BY <1>3, <1>4, <1>5, <2>1, <2>2, <2>4 DEF ReadRight
<1>8. Head(s) = "verdict" => new.paid /\ new.verdict
  <2>1. 1 \in DOMAIN s /\ Head(s) = s[1]
    BY <1>1, <1>2
  <2> QED BY <1>1, <1>4, <2>1 DEF ReadRight
<1>9. Replaced(runs, runs', r, new) /\ Replaced(page, page', run.of, showing)
      /\ UNCHANGED <<setup, clock, hits, demoBounds>>
  BY DEF ReadEvent, Shows, Replaced
<1> HIDE DEF new, showing
<1> QED BY <1>1, <1>4, <1>5, <1>6, <1>7, <1>8, <1>9, RunMovesOn

LEMMA StreamDoneKeeps ==
  ASSUME DemoAssumption, DemoIInv, NEW r \in Started, StreamDone(r)
  PROVE  DemoIInv'
<1>0. PagesRight
  BY DEF DemoIInv
<1> DEFINE run == runs[r]
           old == page[run.of]
           new == [run EXCEPT !.reader = "none"]
           showing == [phase |-> old.phase, abortRef |-> NoRun]
<1>1. /\ run \in DemoRun /\ run.of \in Visitor /\ PaidRight(run) /\ runs \in Seq(DemoRun)
      /\ old \in [phase : Phase, abortRef : RunId \cup {NoRun}]
      /\ run.reader = "reading" /\ run.stream = << >> /\ run.pc = "over"
      /\ ReadRight(run, old.phase)
  BY <1>0, RunTyped DEF StreamDone
<1>2. old.phase \in Ended
  <2>1. (<<old.phase>> \o run.stream)[Len(<<old.phase>> \o run.stream)] = old.phase
    BY <1>1
  <2> QED BY <1>1, <2>1 DEF ReadRight, LastSaid
<1>3. run \in DemoRun
  BY <1>1
<1>4. new \in DemoRun /\ new.of = run.of /\ new.hit = run.hit /\ new.reader = "none"
      /\ new.paid = run.paid /\ new.verdict = run.verdict
      /\ new.pc = run.pc /\ new.aborted = run.aborted
  BY <1>3 DEF DemoRun
<1>5. /\ showing \in [phase : Phase, abortRef : RunId \cup {NoRun}]
      /\ showing.abortRef = NoRun /\ showing.phase = old.phase
  BY <1>1
<1>6. PaidRight(new)
  BY <1>1, <1>4 DEF PaidRight
<1>9. Replaced(runs, runs', r, new) /\ Replaced(page, page', run.of, showing)
      /\ UNCHANGED <<setup, clock, hits, demoBounds>>
  BY DEF StreamDone, Shows, Replaced
<1> HIDE DEF new, showing
<1> QED BY <1>1, <1>2, <1>4, <1>5, <1>6, <1>9, RunMovesOn

\* A run its page gives up.
LEMMA ClosedKeeps ==
  ASSUME DemoAssumption, DemoIInv, NEW r \in Started, runs[r].reader # "none",
         NEW p \in Ended \cup {"idle"}, p # "verdict", NEW ref \in {NoRun, page[runs[r].of].abortRef},
         Shows(runs[r].of, p, ref), runs' = [runs EXCEPT ![r] = Closes(r)],
         UNCHANGED <<setup, clock, hits, demoBounds>>
  PROVE  DemoIInv'
<1>0. PagesRight
  BY DEF DemoIInv
<1> DEFINE run == runs[r]
           old == page[run.of]
           new == [run EXCEPT !.reader = "none", !.gone = TRUE, !.stream = << >>]
           showing == [phase |-> p, abortRef |-> ref]
<1>1. /\ run \in DemoRun /\ run.of \in Visitor /\ PaidRight(run) /\ runs \in Seq(DemoRun)
      /\ old \in [phase : Phase, abortRef : RunId \cup {NoRun}]
  BY <1>0, RunTyped
<1>2. run \in DemoRun /\ << >> \in Seq(Spoken) /\ TRUE \in BOOLEAN
  BY <1>1
<1>4. new \in DemoRun /\ new.of = run.of /\ new.hit = run.hit /\ new.reader = "none"
      /\ new.paid = run.paid /\ new.verdict = run.verdict
      /\ new.pc = run.pc /\ new.aborted = run.aborted
  BY <1>2 DEF DemoRun
<1>5. /\ showing \in [phase : Phase, abortRef : RunId \cup {NoRun}]
      /\ showing.abortRef = ref /\ showing.phase = p
  BY <1>1, Ranks
<1>6. PaidRight(new)
  BY <1>1, <1>4 DEF PaidRight
<1>9. Replaced(runs, runs', r, new) /\ Replaced(page, page', run.of, showing)
  BY DEF Shows, Closes, Replaced
<1> HIDE DEF new, showing
<1> QED BY <1>1, <1>4, <1>5, <1>6, <1>9, RunMovesOn

LEMMA ConnectionLostKeeps ==
  ASSUME DemoAssumption, DemoIInv, NEW r \in Started, ConnectionLost(r)
  PROVE  DemoIInv'
<1>1. PICK ref \in {NoRun, page[runs[r].of].abortRef} : Shows(runs[r].of, "failed", ref)
  BY DEF ConnectionLost
<1>2. "failed" \in Ended
  BY DEF Ended
<1> QED BY <1>1, <1>2, ClosedKeeps DEF ConnectionLost

\* What the page shows of a visitor who reads nothing.
LEMMA NothingIsRead ==
  ASSUME PagesRight, NEW v \in Visitor,
         page[v].abortRef = NoRun \/ runs[page[v].abortRef].reader = "none" \/ page[v].phase = "idle"
  PROVE  \A s \in Started : runs[s].of = v => runs[s].reader = "none"
<1> SUFFICES ASSUME NEW s \in Started, runs[s].of = v, runs[s].reader # "none"
             PROVE  FALSE
  OBVIOUS
<1>1. page[v].abortRef = s /\ ReadRight(runs[s], page[v].phase)
  BY DEF PagesRight, ReadersRight
<1>2. s # NoRun
  BY DEF PagesRight, DemoTyped, Started, NoRun
<1>3. page[v].phase # "idle"
  BY <1>1 DEF ReadRight, Spoken
<1> QED BY <1>1, <1>2, <1>3

LEMMA ResetKeeps ==
  ASSUME DemoAssumption, DemoIInv, NEW v \in Visitor, resetPage(v)
  PROVE  DemoIInv'
<1>0. PagesRight
  BY DEF DemoIInv
<1> DEFINE r == page[v].abortRef
<1>1. CASE r # NoRun /\ runs[r].reader # "none"
  <2>1. r \in Started /\ runs[r].of = v
    BY <1>0, <1>1 DEF PagesRight, DemoTyped
  <2>2. PICK p \in {"failed", "idle"} : Shows(v, p, NoRun)
    BY <1>1 DEF resetPage
  <2>3. p \in Ended \cup {"idle"} /\ p # "verdict"
    BY DEF Ended
  <2>4. runs' = [runs EXCEPT ![r] = Closes(r)] /\ UNCHANGED <<setup, clock, hits, demoBounds>>
    BY <1>1 DEF resetPage
  <2> HIDE DEF r
  <2> QED BY <1>1, <2>1, <2>2, <2>3, <2>4, ClosedKeeps
<1>2. CASE ~(r # NoRun /\ runs[r].reader # "none")
  <2> DEFINE showing == [phase |-> "idle", abortRef |-> NoRun]
  <2>1. runs' = runs /\ Replaced(page, page', v, showing)
        /\ UNCHANGED <<setup, clock, hits, demoBounds>>
    BY <1>2 DEF resetPage, Shows, Replaced
  <2>2. \A s \in Started : runs[s].of = v => runs[s].reader = "none"
    BY <1>0, <1>2, NothingIsRead
  <2>3. /\ page \in [Visitor -> [phase : Phase, abortRef : RunId \cup {NoRun}]]
        /\ page' \in [Visitor -> [phase : Phase, abortRef : RunId \cup {NoRun}]]
        /\ page'[v] = showing /\ \A w \in Visitor \ {v} : page'[w] = page[w]
    <3>1. showing \in [phase : Phase, abortRef : RunId \cup {NoRun}]
      BY Ranks
    <3>2. page \in [Visitor -> [phase : Phase, abortRef : RunId \cup {NoRun}]]
      BY <1>0 DEF PagesRight, DemoTyped
    <3> HIDE DEF showing
    <3> QED BY <2>1, <3>1, <3>2 DEF Replaced
  <2>4. Started' = Started /\ runs \in Seq(DemoRun) /\ \A s \in Started : runs[s].of \in Visitor
    <3>1. runs \in Seq(DemoRun) /\ \A s \in Started : runs[s] \in DemoRun
      BY <1>0 DEF PagesRight, DemoTyped, Started
    <3> QED BY <2>1, <3>1 DEF Started, DemoRun
  <2>5. DemoTyped'
    <3>1. \A w \in Visitor : page'[w].abortRef # NoRun =>
            page'[w].abortRef \in Started /\ runs[page'[w].abortRef].of = w
      BY <1>0, <2>3 DEF PagesRight, DemoTyped
    <3> QED BY <1>0, <2>1, <2>3, <2>4, <3>1 DEF PagesRight, DemoTyped, setup, demoBounds
  <2>6. ReadersRight'
    BY <1>0, <2>1, <2>2, <2>3, <2>4 DEF PagesRight, ReadersRight
  <2>7. PaymentsRight' /\ RunningIsRead' /\ VerdictIsBought'
    BY <1>0, <2>1, <2>3, <2>4 DEF PagesRight, PaymentsRight, RunningIsRead, VerdictIsBought
  <2>8. HitsRight' /\ LimitsHold'
    <3>1. HitsRight /\ LimitsHold
      BY DEF DemoIInv
    <3> QED BY <1>0, <2>1, <2>4, <3>1, HitsStay
  <2> QED BY <2>5, <2>6, <2>7, <2>8 DEF DemoIInv, PagesRight
<1> QED BY <1>1, <1>2

-----------------------------------------------------------------------------
(* The route *)

\* What a route can say at once: its first and its last phase.
Speech(e, first, last) ==
  e \in Seq(Spoken) /\ e # << >> /\ InOrder(e) /\ e[1] = first /\ e[Len(e)] = last

Sold(run) == [run EXCEPT !.verdict = TRUE]

\* A run after the route said more, perhaps that it has a verdict.
Said(run, new, e, pc) ==
  /\ new.of = run.of /\ new.hit = run.hit /\ new.reader = run.reader
  /\ new.paid = run.paid /\ (run.verdict => new.verdict)
  /\ new.stream = (IF run.gone THEN run.stream ELSE run.stream \o e)
  /\ new.pc = pc /\ new.aborted = run.aborted /\ new.gone = run.gone

LEMMA SendsSays ==
  ASSUME NEW run \in DemoRun, NEW e, NEW first, NEW last, Speech(e, first, last),
         NEW pc \in {"info", "paying", "deliberating", "over"},
         NEW new \in {Sends(run, e, pc), Sold(Sends(run, e, pc))}
  PROVE  new \in DemoRun /\ Said(run, new, e, pc)
<1>1. run.stream \in Seq(Spoken) /\ run.stream \o e \in Seq(Spoken) /\ TRUE \in BOOLEAN
  BY DEF DemoRun, Speech
<1>2. Sends(run, e, pc) \in DemoRun /\ Said(run, Sends(run, e, pc), e, pc)
  BY <1>1 DEF DemoRun, Sends, Said
<1>3. CASE new = Sold(Sends(run, e, pc))
  BY <1>1, <1>2, <1>3 DEF DemoRun, Said, Sold
<1> QED BY <1>2, <1>3

\* A run of which the route says more.
LEMMA SendsKeeps ==
  ASSUME DemoAssumption, DemoIInv, NEW r \in Started,
         NEW e, NEW first, NEW last, Speech(e, first, last),
         NEW pc \in {"info", "paying", "deliberating", "over"}, LastSaid(pc, last),
         runs[r].pc = "paying" => Rank[first] >= 3,
         runs[r].pc = "deliberating" => Rank[first] >= 4,
         runs[r].pc \notin {"requested", "refused", "over"},
         pc = "info" => ~runs[r].paid,
         pc \in {"paying", "deliberating"} => runs[r].aborted # "early",
         NEW run \in DemoRun, run = runs[r],
         NEW new \in DemoRun, Said(run, new, e, pc),
         HasVerdict(e) => new.verdict /\ runs[r].paid,
         Replaced(runs, runs', r, new),
         UNCHANGED <<setup, clock, page, hits, demoBounds>>
  PROVE  DemoIInv'
<1>0. PagesRight
  BY DEF DemoIInv
<1> DEFINE old == page[run.of]
<1>1. /\ run \in DemoRun /\ run.of \in Visitor /\ PaidRight(run) /\ runs \in Seq(DemoRun)
      /\ run.reader # "none" => ReadRight(run, old.phase)
  BY <1>0, RunTyped
<1>2. run \in DemoRun
  BY <1>1
<1>3. /\ new.of = run.of /\ new.hit = run.hit /\ new.reader = run.reader
      /\ new.paid = run.paid /\ (run.verdict => new.verdict)
      /\ new.stream = (IF run.gone THEN run.stream ELSE run.stream \o e)
      /\ new.pc = pc /\ new.aborted = run.aborted /\ new.gone = run.gone
  BY DEF Said
<1>5. PaidRight(new)
  BY <1>1, <1>3 DEF PaidRight
<1>6. ASSUME run.reader # "none"
      PROVE  ReadRight(new, old.phase)
  <2>1. ReadRight(run, old.phase) /\ old.phase \in Spoken /\ ~run.gone
    BY <1>1, <1>6 DEF ReadRight
  <2>2. new.stream = run.stream \o e /\ ~new.gone
    BY <1>3, <2>1
  <2>3. \A k \in DOMAIN e : e[k] = "verdict" => new.paid /\ new.verdict
    BY <1>3 DEF HasVerdict
  <2>4. run.paid => new.paid
    BY <1>3
  <2>5. e \in Seq(Spoken) /\ e # << >> /\ InOrder(e) /\ e[1] = first /\ e[Len(e)] = last
    BY DEF Speech
  <2> QED BY <1>1, <1>3, <2>1, <2>2, <2>3, <2>4, <2>5, SentIsRight
<1>7. Replaced(runs, runs', r, new)
  BY DEF Replaced
<1> QED BY <1>1, <1>3, <1>5, <1>6, <1>7, RouteMovesOn

\* The steps of a purchase that can be told.
LEMMA OneSpeech ==
  ASSUME NEW p \in Spoken
  PROVE  Speech(<<p>>, p, p) /\ (HasVerdict(<<p>>) => p = "verdict")
BY DEF Speech, InOrder, HasVerdict

LEMMA TwoSpeech ==
  ASSUME NEW e, e = <<"discovered", "paying">>
  PROVE  Speech(e, "discovered", "paying") /\ ~HasVerdict(e)
<1>1. DOMAIN e = {1, 2} /\ e[1] = "discovered" /\ e[2] = "paying" /\ Len(e) = 2
  OBVIOUS
<1>2. InOrder(e)
  BY <1>1, Ranks DEF InOrder
<1>3. e \in Seq(Spoken) /\ e # << >>
  BY DEF Spoken
<1> QED BY <1>1, <1>2, <1>3 DEF HasVerdict, Speech

LEMMA ThreeSpeech ==
  ASSUME NEW e, e = <<"discovered", "paying", "failed">>
  PROVE  Speech(e, "discovered", "failed") /\ ~HasVerdict(e)
<1>1. DOMAIN e = {1, 2, 3} /\ e[1] = "discovered" /\ e[2] = "paying" /\ e[3] = "failed"
      /\ Len(e) = 3
  OBVIOUS
<1>2. InOrder(e)
  BY <1>1, Ranks DEF InOrder
<1>3. e \in Seq(Spoken) /\ e # << >>
  BY DEF Spoken
<1> QED BY <1>1, <1>2, <1>3 DEF HasVerdict, Speech

\* One phase is told.
LEMMA OneSaid ==
  ASSUME DemoAssumption, DemoIInv, NEW r \in Started, NEW run \in DemoRun, run = runs[r],
         NEW p \in Spoken, NEW pc \in {"deliberating", "over"}, LastSaid(pc, p),
         run.pc = "paying" => Rank[p] >= 3, run.pc = "deliberating" => Rank[p] >= 4,
         run.pc \in {"info", "paying", "deliberating"},
         pc = "deliberating" => run.aborted # "early",
         NEW new \in {Sends(run, <<p>>, pc), Sold(Sends(run, <<p>>, pc))},
         p = "verdict" => run.paid /\ new.verdict,
         Replaced(runs, runs', r, new),
         UNCHANGED <<setup, clock, page, hits, demoBounds>>
  PROVE  DemoIInv'
<1>1. PICK e : e = <<p>>
  OBVIOUS
<1>2. Speech(e, p, p) /\ (HasVerdict(e) => p = "verdict")
  BY <1>1, OneSpeech
<1>3. new \in {Sends(run, e, pc), Sold(Sends(run, e, pc))}
  BY <1>1
<1>4. new \in DemoRun /\ Said(run, new, e, pc)
  BY <1>2, <1>3, SendsSays
<1>5. HasVerdict(e) => new.verdict /\ runs[r].paid
  BY <1>2
<1>6. /\ runs[r].pc \notin {"requested", "refused", "over"} /\ pc # "info"
      /\ pc \in {"paying", "deliberating"} => runs[r].aborted # "early"
  OBVIOUS
<1> QED BY <1>2, <1>4, <1>5, <1>6, SendsKeeps

LEMMA DiscoveredKeeps ==
  ASSUME DemoAssumption, DemoIInv, NEW r \in Started, Discovered(r)
  PROVE  DemoIInv'
<1>1. /\ runs[r].pc = "info" /\ UNCHANGED <<setup, clock, page, hits, demoBounds>>
      /\ \/ runs' = [runs EXCEPT ![r] = Sends(@, <<"failed">>, "over")]
         \/ /\ runs[r].aborted = "no"
            /\ runs' = [runs EXCEPT ![r] = Sends(@, <<"discovered", "paying">>, "paying")]
         \/ runs' = [runs EXCEPT ![r] = Sends(@, <<"discovered", "paying", "failed">>, "over")]
  BY DEF Discovered
<1>2. PICK run \in DemoRun : run = runs[r]
  BY RunTyped DEF DemoIInv
<1>3. PICK e, first, last, pc :
        /\ pc \in {"paying", "over"}
        /\ Replaced(runs, runs', r, Sends(run, e, pc))
        /\ Speech(e, first, last)
        /\ LastSaid(pc, last) /\ ~HasVerdict(e)
        /\ pc = "paying" => run.aborted # "early"
  <2>1. CASE runs' = [runs EXCEPT ![r] = Sends(@, <<"failed">>, "over")]
    <3>1. PICK e : e = <<"failed">>
      OBVIOUS
    <3>2. Speech(e, "failed", "failed") /\ ~HasVerdict(e)
      BY <3>1, OneSpeech DEF Spoken
    <3>3. LastSaid("over", "failed")
      BY DEF LastSaid, Ended
    <3>4. Replaced(runs, runs', r, Sends(run, e, "over"))
      BY <1>2, <2>1, <3>1 DEF Replaced
    <3> QED BY <3>2, <3>3, <3>4
  <2>2. CASE /\ runs[r].aborted = "no"
             /\ runs' = [runs EXCEPT ![r] = Sends(@, <<"discovered", "paying">>, "paying")]
    <3>1. PICK e : e = <<"discovered", "paying">>
      OBVIOUS
    <3>2. Speech(e, "discovered", "paying") /\ ~HasVerdict(e)
      BY <3>1, TwoSpeech
    <3>3. LastSaid("paying", "paying")
      BY DEF LastSaid
    <3>4. Replaced(runs, runs', r, Sends(run, e, "paying")) /\ run.aborted # "early"
      BY <1>2, <2>2, <3>1 DEF Replaced
    <3> QED BY <3>2, <3>3, <3>4
  <2>3. CASE runs' = [runs EXCEPT ![r] = Sends(@, <<"discovered", "paying", "failed">>, "over")]
    <3>1. PICK e : e = <<"discovered", "paying", "failed">>
      OBVIOUS
    <3>2. Speech(e, "discovered", "failed") /\ ~HasVerdict(e)
      BY <3>1, ThreeSpeech
    <3>3. LastSaid("over", "failed")
      BY DEF LastSaid, Ended
    <3>4. Replaced(runs, runs', r, Sends(run, e, "over"))
      BY <1>2, <2>3, <3>1 DEF Replaced
    <3> QED BY <3>2, <3>3, <3>4
  <2> QED BY <1>1, <2>1, <2>2, <2>3
<1>4. Speech(e, first, last)
  BY <1>3
<1>5. PICK said : said = Sends(run, e, pc)
  OBVIOUS
<1>6. said \in DemoRun /\ Said(run, said, e, pc) /\ Replaced(runs, runs', r, said)
  BY <1>3, <1>4, <1>5, SendsSays
<1>7. /\ pc \in {"info", "paying", "deliberating", "over"} /\ pc # "info"
      /\ runs[r].pc \notin {"requested", "refused", "over", "paying", "deliberating"}
      /\ pc \in {"paying", "deliberating"} => runs[r].aborted # "early"
  BY <1>1, <1>2, <1>3
<1> QED BY <1>1, <1>2, <1>3, <1>4, <1>6, <1>7, SendsKeeps

LEMMA PhaseShiftKeeps ==
  ASSUME DemoAssumption, DemoIInv, NEW r \in Started, phaseShift(r)
  PROVE  DemoIInv'
<1>1. PICK run \in DemoRun : run = runs[r] /\ PaidRight(run)
  BY RunTyped DEF DemoIInv
<1>2. run.pc = "paying" /\ run.aborted # "early"
  BY <1>1 DEF PaidRight, phaseShift
<1>3. "deliberating" \in Spoken /\ Rank["deliberating"] >= 3
      /\ LastSaid("deliberating", "deliberating")
  BY Ranks DEF Spoken, LastSaid
<1>4. PICK new : new = Sends(run, <<"deliberating">>, "deliberating")
  OBVIOUS
<1>5. Replaced(runs, runs', r, new) /\ UNCHANGED <<setup, clock, page, hits, demoBounds>>
  BY <1>1, <1>4 DEF phaseShift, Replaced
<1> QED BY <1>1, <1>2, <1>3, <1>4, <1>5, OneSaid

LEMMA AnsweredKeeps ==
  ASSUME DemoAssumption, DemoIInv, NEW r \in Started, Answered(r)
  PROVE  DemoIInv'
<1>1. PICK run \in DemoRun : run = runs[r]
  BY RunTyped DEF DemoIInv
<1>2. run.pc \in {"paying", "deliberating"} /\ UNCHANGED <<setup, clock, page, hits, demoBounds>>
  BY <1>1 DEF Answered, Fetching
<1>3. \A p \in Ended : p \in Spoken /\ Rank[p] >= 3 /\ Rank[p] >= 4 /\ LastSaid("over", p)
  BY Ranks DEF Ended, Spoken, LastSaid
<1>4. PICK p \in Ended : \E new :
        /\ new \in {Sends(run, <<p>>, "over"), Sold(Sends(run, <<p>>, "over"))}
        /\ p = "verdict" => run.paid /\ new.verdict
        /\ Replaced(runs, runs', r, new)
  <2>1. CASE run.paid /\ runs' = [runs EXCEPT ![r] = [Sends(@, <<"verdict">>, "over") EXCEPT !.verdict = TRUE]]
    <3> DEFINE new == Sold(Sends(run, <<"verdict">>, "over"))
    <3>1. "verdict" \in Ended /\ <<"verdict">> \in Seq(Spoken)
      BY DEF Ended, Spoken
    <3>2. new.verdict
      <4>1. Sends(run, <<"verdict">>, "over") \in DemoRun
        BY <3>1, OneSpeech, SendsSays DEF Spoken
      <4> QED BY <4>1 DEF DemoRun, Sold
    <3>3. Replaced(runs, runs', r, new)
      BY <1>1, <2>1 DEF Replaced, Sold
    <3> HIDE DEF new
    <3>4. new \in {Sends(run, <<"verdict">>, "over"),
                   Sold(Sends(run, <<"verdict">>, "over"))}
      BY DEF new
    <3> QED BY <2>1, <3>1, <3>2, <3>3, <3>4
  <2>2. CASE runs' = [runs EXCEPT ![r] = Sends(@, <<"failed">>, "over")]
    <3> DEFINE new == Sends(run, <<"failed">>, "over")
    <3>1. "failed" \in Ended
      BY DEF Ended
    <3>2. Replaced(runs, runs', r, new)
      BY <1>1, <2>2 DEF Replaced
    <3> HIDE DEF new
    <3>3. new \in {Sends(run, <<"failed">>, "over"),
                   Sold(Sends(run, <<"failed">>, "over"))}
      BY DEF new
    <3> QED BY <3>1, <3>2, <3>3
  <2> QED BY <1>1, <2>1, <2>2 DEF Answered
<1>5. PICK new :
        /\ new \in {Sends(run, <<p>>, "over"), Sold(Sends(run, <<p>>, "over"))}
        /\ p = "verdict" => run.paid /\ new.verdict
        /\ Replaced(runs, runs', r, new)
  BY <1>4
<1>6. p \in Spoken /\ Rank[p] >= 3 /\ Rank[p] >= 4 /\ LastSaid("over", p)
  BY <1>3
<1> QED BY <1>1, <1>2, <1>5, <1>6, OneSaid

LEMMA PayKeeps ==
  ASSUME DemoAssumption, DemoIInv, NEW r \in Started, fetchWithPay(r)
  PROVE  DemoIInv'
<1>0. PagesRight
  BY DEF DemoIInv
<1> DEFINE run == runs[r]
           old == page[run.of]
           new == [run EXCEPT !.paid = TRUE]
<1>1. /\ run \in DemoRun /\ run.of \in Visitor /\ PaidRight(run) /\ runs \in Seq(DemoRun)
      /\ run.pc \in {"paying", "deliberating"} /\ TRUE \in BOOLEAN
  BY <1>0, RunTyped DEF fetchWithPay, Fetching
<1>2. new \in DemoRun /\ new.of = run.of /\ new.hit = run.hit /\ new.reader = run.reader
      /\ new.paid = TRUE /\ new.verdict = run.verdict /\ new.stream = run.stream
      /\ new.pc = run.pc /\ new.aborted = run.aborted /\ new.gone = run.gone
  BY <1>1 DEF DemoRun
<1>3. Replaced(runs, runs', r, new) /\ UNCHANGED <<setup, clock, page, hits, demoBounds>>
  BY DEF fetchWithPay, Replaced
<1> HIDE DEF new
<1>4. PaidRight(new)
  BY <1>1, <1>2 DEF PaidRight
<1>5. ReadRight(run, old.phase) => ReadRight(new, old.phase)
  BY <1>1, <1>2 DEF ReadRight
<1> QED BY <1>1, <1>2, <1>3, <1>4, <1>5, RouteMovesOn

LEMMA AbortKeeps ==
  ASSUME DemoAssumption, DemoIInv, NEW r \in Started, Abort(r)
  PROVE  DemoIInv'
<1>0. PagesRight
  BY DEF DemoIInv
<1> DEFINE run == runs[r]
           old == page[run.of]
           new == [run EXCEPT !.aborted = IF run.paid THEN "late" ELSE "early",
                              !.pc = IF Fetching(r) THEN "over" ELSE @]
<1>1. /\ run \in DemoRun /\ run.of \in Visitor /\ PaidRight(run) /\ runs \in Seq(DemoRun)
      /\ run.gone /\ (run.pc \in {"info", "paying", "deliberating"})
  BY <1>0, RunTyped DEF Abort, Fetching
<1>2. new \in DemoRun /\ new.of = run.of /\ new.hit = run.hit /\ new.reader = run.reader
      /\ new.paid = run.paid /\ new.verdict = run.verdict /\ new.stream = run.stream
      /\ new.pc = (IF Fetching(r) THEN "over" ELSE run.pc)
      /\ new.aborted = (IF run.paid THEN "late" ELSE "early") /\ new.gone = run.gone
  BY <1>1 DEF DemoRun, Fetching
<1>3. Replaced(runs, runs', r, new) /\ UNCHANGED <<setup, clock, page, hits, demoBounds>>
  BY DEF Abort, Replaced
<1> HIDE DEF new
<1>4. PaidRight(new)
  BY <1>1, <1>2 DEF PaidRight, Fetching
<1>5. run.reader = "none"
  BY <1>0, <1>1, RunTyped DEF ReadRight
<1> QED BY <1>1, <1>2, <1>3, <1>4, <1>5, RouteMovesOn

\* A request that is refused.
LEMMA RefusedKeeps ==
  ASSUME DemoAssumption, DemoIInv, NEW r \in Started, runs[r].pc = "requested",
         runs' = [runs EXCEPT ![r].pc = "refused"],
         \/ UNCHANGED hits
         \/ ipHits' = FreshIp /\ allHits' = FreshAll,
         UNCHANGED <<setup, clock, page, demoBounds>>
  PROVE  DemoIInv'
<1>0. PagesRight
  BY DEF DemoIInv
<1> DEFINE run == runs[r]
           old == page[run.of]
           new == [run EXCEPT !.pc = "refused"]
<1>1. /\ run \in DemoRun /\ run.of \in Visitor /\ PaidRight(run) /\ runs \in Seq(DemoRun)
  BY <1>0, RunTyped
<1>2. new \in DemoRun /\ new.of = run.of /\ new.hit = run.hit /\ new.reader = run.reader
      /\ new.paid = run.paid /\ new.verdict = run.verdict /\ new.stream = run.stream
      /\ new.pc = "refused" /\ new.aborted = run.aborted /\ new.gone = run.gone
  BY <1>1 DEF DemoRun
<1>3. Replaced(runs, runs', r, new)
  BY DEF Replaced
<1> HIDE DEF new
<1>4. PaidRight(new)
  BY <1>1, <1>2 DEF PaidRight
<1>5. ReadRight(run, old.phase) => ReadRight(new, old.phase)
  BY <1>1, <1>2 DEF ReadRight, LastSaid
<1> QED BY <1>1, <1>2, <1>3, <1>4, <1>5, RouteMovesOn

CountedAt(run, at) == [run EXCEPT !.hit = at]

\* The pages, when a request is counted.
LEMMA CountedPages ==
  ASSUME DemoAssumption, PagesRight, NEW r \in Started, NEW run \in DemoRun, run = runs[r],
         run.pc = "requested",
         NEW new, new = CountedAt(Sends(run, <<"discovering">>, "info"), clock),
         Replaced(runs, runs', r, new),
         UNCHANGED <<setup, clock, page, demoBounds>>
  PROVE  PagesRight' /\ new \in DemoRun /\ new.of = run.of /\ new.hit = clock
<1> DEFINE v == run.of
           old == page[v]
<1>1. PaidRight(run) /\ runs \in Seq(DemoRun) /\ v \in Visitor
      /\ old \in [phase : Phase, abortRef : RunId \cup {NoRun}]
      /\ (run.reader # "none" => ReadRight(run, old.phase)) /\ clock \in Nat
      /\ page \in [Visitor -> [phase : Phase, abortRef : RunId \cup {NoRun}]]
  BY RunTyped DEF PagesRight, DemoTyped
<1>2. PICK e : e = <<"discovering">>
  OBVIOUS
<1>3. Speech(e, "discovering", "discovering") /\ ~HasVerdict(e)
  BY <1>2, OneSpeech DEF Spoken
<1>4. PICK sent : sent = Sends(run, e, "info")
  OBVIOUS
<1>5. sent \in DemoRun /\ Said(run, sent, e, "info")
  BY <1>3, <1>4, SendsSays
<1>6. new = [sent EXCEPT !.hit = clock]
  BY <1>2, <1>4 DEF CountedAt
<1>7. new \in DemoRun /\ new.of = run.of /\ new.hit = clock /\ new.reader = run.reader
      /\ new.paid = run.paid /\ (run.verdict => new.verdict)
      /\ new.stream = (IF run.gone THEN run.stream ELSE run.stream \o e)
      /\ new.pc = "info" /\ new.aborted = run.aborted /\ new.gone = run.gone
  <2>1. sent \in DemoRun
    BY <1>5
  <2>2. new \in DemoRun /\ new.of = sent.of /\ new.hit = clock /\ new.reader = sent.reader
      /\ new.paid = sent.paid /\ new.verdict = sent.verdict
      /\ new.stream = sent.stream
      /\ new.pc = sent.pc /\ new.aborted = sent.aborted /\ new.gone = sent.gone
    BY <2>1, <1>1, <1>6 DEF DemoRun
  <2> QED BY <1>5, <2>2 DEF Said
<1>8. PaidRight(new)
  BY <1>1, <1>7 DEF PaidRight
<1>9. ASSUME run.reader # "none"
      PROVE  ReadRight(new, old.phase)
  <2>1. ReadRight(run, old.phase) /\ old.phase \in Spoken /\ ~run.gone
    BY <1>1, <1>9 DEF ReadRight
  <2>2. new.stream = run.stream \o e /\ ~new.gone
    BY <1>7, <2>1
  <2>3. \A k \in DOMAIN e : e[k] = "verdict" => new.paid /\ new.verdict
    BY <1>3 DEF HasVerdict
  <2>4. e \in Seq(Spoken) /\ e # << >> /\ InOrder(e) /\ LastSaid("info", e[Len(e)])
    BY <1>3 DEF Speech, LastSaid
  <2> QED BY <1>7, <2>1, <2>2, <2>3, <2>4, SentIsRight
<1>10. Replaced(page, page', v, old)
  BY <1>1 DEF Replaced
<1>11. PICK showing \in [phase : Phase, abortRef : RunId \cup {NoRun}] : showing = page[runs[r].of]
  BY <1>1
<1>12. /\ Replaced(page, page', runs[r].of, showing)
       /\ new.of = runs[r].of /\ (runs[r].paid => new.paid) /\ (runs[r].verdict => new.verdict)
       /\ (new.reader # "none" => runs[r].reader # "none" /\ ReadRight(new, showing.phase))
       /\ ~(runs[r].reader # "none" /\ new.reader = "none")
  BY <1>7, <1>9, <1>10, <1>11
<1> HIDE DEF old, v
<1>13. PagesRight'
  BY <1>7, <1>8, <1>11, <1>12, RunMoves
<1> QED BY <1>7, <1>13

\* Sets of runs are finite, and no larger than those they are part of.
LEMMA FewerRuns ==
  ASSUME NEW n \in Nat, NEW B \in SUBSET (1 .. n), NEW A \in SUBSET B
  PROVE  Cardinality(A) \in Nat /\ Cardinality(B) \in Nat /\ Cardinality(A) <= Cardinality(B)
<1>1. IsFiniteSet(1 .. n)
  BY FS_Interval
<1>2. IsFiniteSet(B)
  BY <1>1, FS_Subset
<1> QED BY <1>2, FS_Subset, FS_CardinalityType

LEMMA OneMoreRun ==
  ASSUME NEW n \in Nat, NEW B \in SUBSET (1 .. n), NEW r \in 1 .. n, NEW A \in SUBSET (B \cup {r})
  PROVE  Cardinality(A) <= Cardinality(B) + 1
<1>0. IsFiniteSet(1 .. n)
  BY FS_Interval
<1>1. IsFiniteSet(B) /\ Cardinality(B) \in Nat
  BY <1>0, FS_Subset, FS_CardinalityType
<1>2. Cardinality(B \cup {r}) \in {Cardinality(B), Cardinality(B) + 1}
  BY <1>1, FS_AddElement
<1>3. Cardinality(A) \in Nat /\ Cardinality(A) <= Cardinality(B \cup {r})
  BY FewerRuns
<1> QED BY <1>1, <1>2, <1>3

\* A request that is counted is within the limits.
LEMMA CountedKeeps ==
  ASSUME DemoAssumption, DemoIInv, NEW r \in Started, runs[r].pc = "requested",
         NEW i, i = ip(runs[r].of),
         Cardinality(FreshIp[i]) < perHour, Cardinality(FreshAll) < perDay,
         ipHits' = [FreshIp EXCEPT ![i] = @ \cup {r}], allHits' = FreshAll \cup {r},
         runs' = [runs EXCEPT ![r] = [Sends(@, <<"discovering">>, "info") EXCEPT !.hit = clock]],
         UNCHANGED <<setup, clock, page, demoBounds>>
  PROVE  DemoIInv'
<1>1. PagesRight /\ HitsRight /\ LimitsHold
  BY DEF DemoIInv
<1>2. PICK run \in DemoRun : run = runs[r]
  BY <1>1, RunTyped
<1>3. PICK new : new = CountedAt(Sends(run, <<"discovering">>, "info"), clock)
  OBVIOUS
<1>4. Replaced(runs, runs', r, new)
  BY <1>2, <1>3 DEF Replaced, CountedAt
<1>5. PagesRight' /\ new \in DemoRun /\ new.of = run.of /\ new.hit = clock
  BY <1>1, <1>2, <1>3, <1>4, CountedPages
<1>6. /\ runs \in Seq(DemoRun) /\ clock \in Nat /\ clock > DayTicks /\ perHour \in Nat /\ perDay \in Nat
      /\ HourTicks \in 0 .. DayTicks /\ DayTicks \in Nat
  BY <1>1 DEF PagesRight, DemoTyped, DemoAssumption
<1>7. /\ Started' = Started /\ Started = 1 .. Len(runs) /\ Len(runs) \in Nat
      /\ runs'[r] = new /\ \A s \in Started \ {r} : runs'[s] = runs[s]
      /\ \A s \in Started : runs[s] \in DemoRun
  BY <1>4, <1>5, <1>6 DEF Started, Replaced
<1>8. /\ \A s \in Started : runs[s].of \in Visitor /\ runs[s].hit \in Nat
                            /\ runs'[s].of = runs[s].of
      /\ runs'[r].hit = clock
      /\ \A s \in Started \ {r} : runs'[s].hit = runs[s].hit
  BY <1>2, <1>5, <1>7 DEF DemoRun
<1>9. sameIp' = sameIp /\ clock' = clock /\ perHour' = perHour /\ perDay' = perDay
  BY DEF setup
<1>10. \A s \in Started : ip(runs[s].of) \in Visitor /\ ip(runs[s].of)' = ip(runs[s].of)
  BY <1>8, <1>9 DEF ip
<1>11. i \in Visitor
  BY <1>8 DEF ip
<1>12. \A s \in Started : runs[s].hit <= clock
  BY <1>1 DEF HitsRight, HitsKept
<1>13. \A j \in Visitor : FreshIp[j] \subseteq Started /\ FreshAll \subseteq Started
  BY <1>1 DEF HitsRight, HitsKept, FreshIp, FreshAll
<1>14. ASSUME NEW s \in Started, runs[s].hit > clock - HourTicks
       PROVE  s \in FreshIp[ip(runs[s].of)]
  BY <1>1, <1>10, <1>14 DEF HitsRight, HitsKept, FreshIp
<1>15. ASSUME NEW s \in Started, runs[s].hit >= clock - DayTicks
       PROVE  s \in FreshAll
  BY <1>1, <1>15 DEF HitsRight, HitsKept, FreshAll
<1>16. HitsRight'
  <2>1. ipHits' \in [Visitor -> SUBSET Started] /\ allHits' \subseteq Started
    BY <1>11, <1>13 DEF FreshIp
  <2>2. \A j \in Visitor : FreshIp[j] \subseteq ipHits'[j]
    BY <1>11 DEF FreshIp
  <2>3. r \in ipHits'[ip(runs[r].of)]
    BY <1>11 DEF FreshIp
  <2>4. ASSUME NEW s \in Started
        PROVE  /\ runs'[s].hit <= clock
               /\ runs'[s].hit > clock - HourTicks => s \in ipHits'[ip(runs[s].of)]
               /\ runs'[s].hit >= clock - DayTicks => s \in allHits'
    <3>1. CASE s = r
      BY <1>6, <1>8, <2>3, <3>1
    <3>2. CASE s # r
      <4>1. runs'[s].hit = runs[s].hit
        BY <1>8, <3>2
      <4>2. runs[s].hit > clock - HourTicks => s \in ipHits'[ip(runs[s].of)]
        BY <1>10, <1>14, <2>2
      <4> QED BY <1>12, <1>15, <4>1, <4>2
    <3> QED BY <3>1, <3>2
  <2>5. HitsKept'
    <3>1. ASSUME NEW s \in Started
          PROVE  /\ (runs[s].hit <= clock)'
                 /\ (runs[s].hit > clock - HourTicks => s \in ipHits[ip(runs[s].of)])'
                 /\ (runs[s].hit >= clock - DayTicks => s \in allHits)'
      <4>1. runs'[s].of = runs[s].of
        BY <1>8
      <4>2. (runs[s].hit <= clock)' /\ (runs[s].hit >= clock - DayTicks => s \in allHits)'
        BY <1>9, <2>4
      <4>3. runs'[s].hit > clock - HourTicks => s \in ipHits'[ip(runs[s].of)]
        BY <2>4
      <4>4. (runs[s].hit > clock - HourTicks => s \in ipHits[ip(runs[s].of)])'
        BY <1>9, <4>1, <4>3 DEF ip
      <4> QED BY <4>2, <4>4
    <3> QED BY <1>7, <3>1 DEF HitsKept
  <2> QED BY <1>7, <2>1, <2>5 DEF HitsRight
<1>17. LimitsHold'
  <2>1. ASSUME NEW t \in DayTicks + 1 .. clock, NEW j \in Visitor
        PROVE  Cardinality({s \in Started : ip(runs[s].of)' = j
                                            /\ runs'[s].hit \in t - HourTicks + 1 .. t}) <= perHour
    <3> DEFINE W == {s \in Started : ip(runs[s].of)' = j /\ runs'[s].hit \in t - HourTicks + 1 .. t}
               V == {s \in Started : ip(runs[s].of) = j /\ runs[s].hit \in t - HourTicks + 1 .. t}
    <3>1. Cardinality(V) <= perHour
      BY <1>1 DEF LimitsHold
    <3>2. CASE t < clock \/ j # i
      <4>1. W \subseteq V
        BY <1>6, <1>8, <1>10, <3>2
      <4> HIDE DEF W, V
      <4>2. V \in SUBSET (1 .. Len(runs))
        BY <1>7 DEF V
      <4>3. Cardinality(W) \in Nat /\ Cardinality(V) \in Nat /\ Cardinality(W) <= Cardinality(V)
        BY <1>7, <4>1, <4>2, FewerRuns
      <4> QED BY <1>6, <3>1, <4>3 DEF W
    <3>3. CASE t = clock /\ j = i
      <4>1. W \subseteq FreshIp[i] \cup {r}
        <5> SUFFICES ASSUME NEW s \in W, s # r
                     PROVE  s \in FreshIp[i]
          OBVIOUS
        <5>1. s \in Started /\ ip(runs[s].of) = i /\ runs[s].hit \in clock - HourTicks + 1 .. clock
          BY <1>8, <1>10, <3>3
        <5>2. runs[s].hit > clock - HourTicks
          <6>1. runs[s].hit \in Int /\ runs[s].hit >= clock - HourTicks + 1
            BY <5>1, <1>6, <1>8
          <6>2. clock \in Int /\ HourTicks \in Int
            BY <1>6
          <6> QED BY <6>1, <6>2
        <5> QED BY <1>14, <5>1, <5>2
      <4> HIDE DEF W
      <4>2. FreshIp[i] \in SUBSET (1 .. Len(runs)) /\ r \in 1 .. Len(runs)
        BY <1>7, <1>11, <1>13
      <4>3. Cardinality(W) <= Cardinality(FreshIp[i]) + 1
        BY <1>7, <4>1, <4>2, OneMoreRun
      <4>4. W \in SUBSET (1 .. Len(runs))
        BY <1>7 DEF W
      <4>5. Cardinality(W) \in Nat /\ Cardinality(FreshIp[i]) \in Nat
        BY <1>7, <4>2, <4>4, FewerRuns
      <4> QED BY <1>6, <4>3, <4>5 DEF W
    <3> QED BY <3>2, <3>3, <1>6
  <2>2. ASSUME NEW t \in DayTicks + 1 .. clock
        PROVE  Cardinality({s \in Started : runs'[s].hit \in t - DayTicks .. t}) <= perDay
    <3> DEFINE W == {s \in Started : runs'[s].hit \in t - DayTicks .. t}
               V == {s \in Started : runs[s].hit \in t - DayTicks .. t}
    <3>1. Cardinality(V) <= perDay
      BY <1>1 DEF LimitsHold
    <3>2. CASE t < clock
      <4>1. W \subseteq V
        BY <1>6, <1>8, <3>2
      <4> HIDE DEF W, V
      <4>2. V \in SUBSET (1 .. Len(runs))
        BY <1>7 DEF V
      <4>3. Cardinality(W) \in Nat /\ Cardinality(V) \in Nat /\ Cardinality(W) <= Cardinality(V)
        BY <1>7, <4>1, <4>2, FewerRuns
      <4> QED BY <1>6, <3>1, <4>3 DEF W
    <3>3. CASE t = clock
      <4>1. W \subseteq FreshAll \cup {r}
        <5> SUFFICES ASSUME NEW s \in W, s # r
                     PROVE  s \in FreshAll
          OBVIOUS
        <5>1. s \in Started /\ runs[s].hit >= clock - DayTicks
          BY <1>6, <1>8, <3>3
        <5> QED BY <1>15, <5>1
      <4> HIDE DEF W
      <4>2. FreshAll \in SUBSET (1 .. Len(runs)) /\ r \in 1 .. Len(runs)
        BY <1>7, <1>11, <1>13
      <4>3. Cardinality(W) <= Cardinality(FreshAll) + 1
        BY <1>7, <4>1, <4>2, OneMoreRun
      <4>4. W \in SUBSET (1 .. Len(runs))
        BY <1>7 DEF W
      <4>5. Cardinality(W) \in Nat /\ Cardinality(FreshAll) \in Nat
        BY <1>7, <4>2, <4>4, FewerRuns
      <4> QED BY <1>6, <4>3, <4>5 DEF W
    <3> QED BY <3>2, <3>3, <1>6
  <2> QED BY <1>7, <1>9, <2>1, <2>2 DEF LimitsHold
<1> QED BY <1>5, <1>16, <1>17 DEF DemoIInv

LEMMA CheckKeeps ==
  ASSUME DemoAssumption, DemoIInv, NEW r \in Started, checkRateLimit(r)
  PROVE  DemoIInv'
<1> DEFINE i == ip(runs[r].of)
<1>1. runs[r].pc = "requested" /\ UNCHANGED <<setup, clock, page, demoBounds>>
  BY DEF checkRateLimit
<1>2. CASE /\ Cardinality(FreshIp[i]) < perHour /\ Cardinality(FreshAll) < perDay
           /\ ipHits' = [FreshIp EXCEPT ![i] = @ \cup {r}]
           /\ allHits' = FreshAll \cup {r}
           /\ runs' = [runs EXCEPT ![r] = [Sends(@, <<"discovering">>, "info") EXCEPT !.hit = clock]]
  BY <1>1, <1>2, CountedKeeps
<1>3. CASE /\ runs' = [runs EXCEPT ![r].pc = "refused"]
           /\ \/ UNCHANGED hits
              \/ ipHits' = FreshIp /\ allHits' = FreshAll
  BY <1>1, <1>3, RefusedKeeps
<1> QED BY <1>2, <1>3 DEF checkRateLimit

-----------------------------------------------------------------------------
(* A run that begins, and time that passes *)

LEMMA BeginsKeeps ==
  ASSUME DemoAssumption, DemoIInv, NEW v \in Visitor, runDemo(v)
  PROVE  DemoIInv'
<1> DEFINE n == Len(runs) + 1
           new == NewRun(v)
           showing == [phase |-> "discovering", abortRef |-> n]
<1>1. PagesRight /\ HitsRight /\ LimitsHold
  BY DEF DemoIInv
<1>2. /\ runs \in Seq(DemoRun) /\ clock \in Nat /\ clock > DayTicks /\ perHour \in Nat /\ perDay \in Nat
      /\ HourTicks \in 0 .. DayTicks /\ DayTicks \in Nat
      /\ Started = 1 .. Len(runs) /\ Len(runs) \in Nat
      /\ \A s \in Started : runs[s] \in DemoRun
  BY <1>1 DEF PagesRight, DemoTyped, DemoAssumption, Started
<1>3. /\ new \in DemoRun /\ new.of = v /\ new.reader = "fetching" /\ new.hit = 0 /\ new.stream = << >>
      /\ new.pc = "requested" /\ new.gone = FALSE /\ new.aborted = "no" /\ new.paid = FALSE
  <2>1. << >> \in Seq(Spoken)
    OBVIOUS
  <2> QED BY <2>1 DEF NewRun, DemoRun, NoTime
<1> HIDE DEF new
<1>4. /\ runs' = Append(runs, new) /\ runs' \in Seq(DemoRun) /\ Len(runs') = n
      /\ Started' = Started \cup {n} /\ n \notin Started /\ runs'[n] = new
      /\ \A s \in Started : runs'[s] = runs[s]
  <2>1. runs' = Append(runs, new)
    BY DEF runDemo, new
  <2> QED BY <1>2, <1>3, <2>1 DEF Started
<1>5. /\ page[v].phase = "idle" /\ runsLeft' = runsLeft - 1 /\ runsLeft > 0
      /\ page' = [page EXCEPT ![v] = showing]
      /\ UNCHANGED <<setup, clock, hits, alone, ticksLeft>>
  BY <1>4 DEF runDemo, Shows
<1>6. /\ \A s \in Started : runs[s].of \in Visitor /\ runs'[s].of = runs[s].of
                            /\ runs[s].hit \in Nat /\ runs'[s].hit = runs[s].hit
      /\ runs'[n].of = v /\ runs'[n].hit = 0
  BY <1>2, <1>3, <1>4 DEF DemoRun
<1>7. n \in RunId /\ showing \in [phase : Phase, abortRef : RunId \cup {NoRun}]
  <2>1. n \in RunId
    BY <1>1, <1>2, <1>5 DEF PagesRight, DemoTyped, DemoAssumption, RunId
  <2> QED BY <2>1, Ranks DEF Spoken
<1>8. /\ page \in [Visitor -> [phase : Phase, abortRef : RunId \cup {NoRun}]]
      /\ page' \in [Visitor -> [phase : Phase, abortRef : RunId \cup {NoRun}]]
      /\ page'[v].phase = "discovering" /\ page'[v].abortRef = n
      /\ \A w \in Visitor \ {v} : page'[w] = page[w]
  <2>1. page \in [Visitor -> [phase : Phase, abortRef : RunId \cup {NoRun}]]
    BY <1>1 DEF PagesRight, DemoTyped
  <2>2. showing.phase = "discovering" /\ showing.abortRef = n
    OBVIOUS
  <2> HIDE DEF showing
  <2> QED BY <1>5, <1>7, <2>1, <2>2
<1> HIDE DEF n
<1>9. \A s \in Started : runs[s].of = v => runs[s].reader = "none"
  BY <1>1, <1>5, NothingIsRead
<1>10. DemoTyped'
  <2>1. \A w \in Visitor : page'[w].abortRef # NoRun =>
          page'[w].abortRef \in Started' /\ runs'[page'[w].abortRef].of = w
    <3>1. \A w \in Visitor : page[w].abortRef # NoRun =>
            page[w].abortRef \in Started /\ runs[page[w].abortRef].of = w
      BY <1>1 DEF PagesRight, DemoTyped
    <3>2. page'[v].abortRef \in Started' /\ runs'[page'[v].abortRef].of = v
      BY <1>4, <1>6, <1>8
    <3>3. ASSUME NEW w \in Visitor \ {v}, page'[w].abortRef # NoRun
          PROVE  page'[w].abortRef \in Started' /\ runs'[page'[w].abortRef].of = w
      <4>1. page'[w].abortRef \in Started /\ runs[page'[w].abortRef].of = w
        BY <1>8, <3>1, <3>3
      <4> QED BY <1>4, <4>1
    <3> QED BY <3>2, <3>3
  <2>2. runsLeft' \in Nat /\ Len(runs') + runsLeft' <= MaxRuns
    BY <1>1, <1>2, <1>4, <1>5 DEF PagesRight, DemoTyped, DemoAssumption, n
  <2> QED BY <1>1, <1>4, <1>5, <1>8, <2>1, <2>2 DEF PagesRight, DemoTyped, setup
<1>11. ReadersRight'
  <2> SUFFICES ASSUME NEW s \in Started', runs'[s].reader # "none"
               PROVE  /\ page'[runs'[s].of].abortRef = s
                      /\ \A t \in Started' : runs'[t].of = runs'[s].of => t <= s
                      /\ ReadRight(runs'[s], page'[runs'[s].of].phase)
    BY DEF ReadersRight
  <2>1. CASE s = n
    <3>1. \A t \in Started' : t <= n
      BY <1>2, <1>4 DEF n
    <3>2. ReadRight(new, "discovering")
      <4>1. <<"discovering">> \o new.stream = <<"discovering">>
        BY <1>3
      <4>2. InOrder(<<"discovering">>) /\ LastSaid("requested", <<"discovering">>[Len(<<"discovering">>)])
        BY DEF InOrder, LastSaid
      <4> QED BY <1>3, <4>1, <4>2 DEF ReadRight, Spoken
    <3> QED BY <1>4, <1>6, <1>8, <2>1, <3>1, <3>2
  <2>2. CASE s \in Started
    <3>1. runs[s].reader # "none" /\ runs[s].of # v
      BY <1>4, <1>9, <2>2
    <3>2. /\ page[runs[s].of].abortRef = s
          /\ \A t \in Started : runs[t].of = runs[s].of => t <= s
          /\ ReadRight(runs[s], page[runs[s].of].phase)
      BY <1>1, <2>2, <3>1 DEF PagesRight, ReadersRight
    <3>3. page'[runs[s].of] = page[runs[s].of]
      BY <1>6, <1>8, <2>2, <3>1
    <3> QED BY <1>4, <1>6, <2>2, <3>1, <3>2, <3>3
  <2> QED BY <1>4, <2>1, <2>2
<1>12. PaymentsRight'
  <2>1. PaidRight(new)
    BY <1>3 DEF PaidRight
  <2> QED BY <1>1, <1>4, <2>1 DEF PagesRight, PaymentsRight
<1>13. RunningIsRead'
  <2> SUFFICES ASSUME NEW w \in Visitor, page'[w].phase \notin Ended \cup {"idle"}
               PROVE  \E s \in Started' : runs'[s].of = w /\ runs'[s].reader # "none"
    BY DEF RunningIsRead
  <2>1. CASE w = v
    BY <1>3, <1>4, <1>6, <2>1
  <2>2. CASE w # v
    <3>1. PICK s \in Started : runs[s].of = w /\ runs[s].reader # "none"
      BY <1>1, <1>8, <2>2 DEF PagesRight, RunningIsRead
    <3> QED BY <1>4, <3>1
  <2> QED BY <2>1, <2>2
<1>14. VerdictIsBought'
  <2> SUFFICES ASSUME NEW w \in Visitor, page'[w].phase = "verdict"
               PROVE  \E s \in Started' : /\ runs'[s].of = w /\ runs'[s].paid /\ runs'[s].verdict
                                          /\ \A t \in Started' : runs'[t].of = w => t <= s
    BY DEF VerdictIsBought
  <2>1. w # v
    BY <1>8
  <2>2. PICK s \in Started : /\ runs[s].of = w /\ runs[s].paid /\ runs[s].verdict
                             /\ \A t \in Started : runs[t].of = w => t <= s
    BY <1>1, <1>8, <2>1 DEF PagesRight, VerdictIsBought
  <2>3. runs'[s].of = w /\ runs'[s].paid /\ runs'[s].verdict /\ s \in Started'
    BY <1>4, <2>2
  <2>4. \A t \in Started' : runs'[t].of = w => t <= s
    BY <1>4, <1>6, <2>1, <2>2
  <2> QED BY <2>3, <2>4
<1>15. sameIp' = sameIp /\ clock' = clock /\ perHour' = perHour /\ perDay' = perDay
       /\ ipHits' = ipHits /\ allHits' = allHits
  BY <1>5 DEF setup, hits
<1>16. HitsRight'
  <2>1. ipHits' \in [Visitor -> SUBSET Started'] /\ allHits' \subseteq Started'
    BY <1>1, <1>4, <1>15 DEF HitsRight
  <2>2. HitsKept'
    <3>1. \A s \in Started : /\ runs[s].hit <= clock
                             /\ runs[s].hit > clock - HourTicks => s \in ipHits[ip(runs[s].of)]
                             /\ runs[s].hit >= clock - DayTicks => s \in allHits
      BY <1>1 DEF HitsRight, HitsKept
    <3>2. 0 <= clock /\ ~(0 > clock - HourTicks) /\ ~(0 >= clock - DayTicks)
      BY <1>2
    <3> QED BY <1>4, <1>6, <1>15, <3>1, <3>2 DEF HitsKept, ip
  <2> QED BY <2>1, <2>2 DEF HitsRight
<1>17. LimitsHold'
  <2>1. ASSUME NEW t \in DayTicks + 1 .. clock, NEW j \in Visitor
        PROVE  {s \in Started' : ip(runs[s].of)' = j /\ runs'[s].hit \in t - HourTicks + 1 .. t}
             = {s \in Started : ip(runs[s].of) = j /\ runs[s].hit \in t - HourTicks + 1 .. t}
    <3>1. 0 \notin t - HourTicks + 1 .. t
      BY <1>2
    <3> QED BY <1>4, <1>6, <1>15, <3>1 DEF ip
  <2>2. ASSUME NEW t \in DayTicks + 1 .. clock
        PROVE  {s \in Started' : runs'[s].hit \in t - DayTicks .. t}
             = {s \in Started : runs[s].hit \in t - DayTicks .. t}
    <3>1. 0 \notin t - DayTicks .. t
      BY <1>2
    <3> QED BY <1>4, <1>6, <3>1
  <2> QED BY <1>1, <1>15, <2>1, <2>2 DEF LimitsHold
<1> QED BY <1>10, <1>11, <1>12, <1>13, <1>14, <1>16, <1>17 DEF DemoIInv, PagesRight

LEMMA TockKeeps ==
  ASSUME DemoAssumption, DemoIInv, Tock
  PROVE  DemoIInv'
<1>1. PagesRight /\ HitsRight /\ LimitsHold
  BY DEF DemoIInv
<1>2. /\ runs \in Seq(DemoRun) /\ clock \in Nat /\ clock > DayTicks /\ perHour \in Nat /\ perDay \in Nat
      /\ HourTicks \in 0 .. DayTicks /\ DayTicks \in Nat
      /\ Started = 1 .. Len(runs) /\ Len(runs) \in Nat
      /\ \A s \in Started : runs[s] \in DemoRun
  BY <1>1 DEF PagesRight, DemoTyped, DemoAssumption, Started
<1>3. /\ clock' = clock + 1 /\ ticksLeft > 0 /\ ticksLeft' = ticksLeft - 1
      /\ sameIp' = sameIp /\ perHour' = perHour /\ perDay' = perDay /\ page' = page /\ runs' = runs
      /\ ipHits' = ipHits /\ allHits' = allHits /\ runsLeft' = runsLeft /\ Started' = Started
  BY DEF Tock, setup, hits, Started
<1>4. \A s \in Started : runs[s].of \in Visitor /\ runs[s].hit \in Nat /\ runs[s].hit <= clock
  BY <1>1, <1>2 DEF DemoRun, HitsRight, HitsKept
<1>5. PagesRight'
  <2>1. DemoTyped'
    BY <1>1, <1>2, <1>3, DemoAssumption DEF PagesRight, DemoTyped, DemoAssumption
  <2>2. ReadersRight' /\ PaymentsRight' /\ RunningIsRead' /\ VerdictIsBought'
    BY <1>1, <1>3 DEF PagesRight, ReadersRight, PaymentsRight, RunningIsRead, VerdictIsBought
  <2> QED BY <2>1, <2>2 DEF PagesRight
<1>6. HitsRight'
  <2>1. \A s \in Started : /\ runs[s].hit > clock - HourTicks => s \in ipHits[ip(runs[s].of)]
                           /\ runs[s].hit >= clock - DayTicks => s \in allHits
    BY <1>1 DEF HitsRight, HitsKept
  <2>2. \A s \in Started : /\ runs[s].hit <= clock + 1
                           /\ runs[s].hit > clock + 1 - HourTicks => runs[s].hit > clock - HourTicks
                           /\ runs[s].hit >= clock + 1 - DayTicks => runs[s].hit >= clock - DayTicks
    BY <1>2, <1>4
  <2>3. HitsKept'
    <3>1. ASSUME NEW s \in Started
          PROVE  /\ (runs[s].hit <= clock)'
                 /\ (runs[s].hit > clock - HourTicks => s \in ipHits[ip(runs[s].of)])'
                 /\ (runs[s].hit >= clock - DayTicks => s \in allHits)'
      <4>0. /\ runs[s].hit <= clock + 1
            /\ runs[s].hit > clock + 1 - HourTicks => s \in ipHits[ip(runs[s].of)]
            /\ runs[s].hit >= clock + 1 - DayTicks => s \in allHits
        BY <2>1, <2>2
      <4>1. (runs[s].hit <= clock)' /\ (runs[s].hit >= clock - DayTicks => s \in allHits)'
        BY <1>2, <1>3, <1>4, <4>0
      <4>2. (runs[s].hit > clock - HourTicks => s \in ipHits[ip(runs[s].of)])'
        BY <1>2, <1>3, <1>4, <4>0 DEF ip
      <4> QED BY <4>1, <4>2
    <3> QED BY <1>3, <3>1 DEF HitsKept
  <2> QED BY <1>1, <1>3, <2>3 DEF HitsRight
<1>7. LimitsHold'
  <2>1. ASSUME NEW t \in DayTicks + 1 .. clock + 1, NEW j \in Visitor
        PROVE  Cardinality({s \in Started : ip(runs[s].of)' = j
                                            /\ runs[s].hit \in t - HourTicks + 1 .. t}) <= perHour
    <3> DEFINE W == {s \in Started : ip(runs[s].of)' = j /\ runs[s].hit \in t - HourTicks + 1 .. t}
               u == IF t = clock + 1 THEN clock ELSE t
               V == {s \in Started : ip(runs[s].of) = j /\ runs[s].hit \in u - HourTicks + 1 .. u}
    <3>1. u \in DayTicks + 1 .. clock
      BY <1>2
    <3>2. Cardinality(V) <= perHour
      <4> HIDE DEF u
      <4> QED BY <1>1, <3>1 DEF LimitsHold
    <3>3. W \subseteq V
      <4>1. \A s \in Started : runs[s].hit \in t - HourTicks + 1 .. t =>
                                 runs[s].hit \in u - HourTicks + 1 .. u
        BY <1>2, <1>4
      <4>2. \A s \in Started : ip(runs[s].of)' = ip(runs[s].of)
        BY <1>3 DEF ip
      <4> HIDE DEF u
      <4> QED BY <4>1, <4>2
    <3> HIDE DEF W, V
    <3>4. V \in SUBSET (1 .. Len(runs))
      BY <1>2 DEF V
    <3>5. Cardinality(W) \in Nat /\ Cardinality(V) \in Nat /\ Cardinality(W) <= Cardinality(V)
      BY <1>2, <3>3, <3>4, FewerRuns
    <3> QED BY <1>2, <3>2, <3>5 DEF W
  <2>2. ASSUME NEW t \in DayTicks + 1 .. clock + 1
        PROVE  Cardinality({s \in Started : runs[s].hit \in t - DayTicks .. t}) <= perDay
    <3> DEFINE W == {s \in Started : runs[s].hit \in t - DayTicks .. t}
               u == IF t = clock + 1 THEN clock ELSE t
               V == {s \in Started : runs[s].hit \in u - DayTicks .. u}
    <3>1. u \in DayTicks + 1 .. clock
      BY <1>2
    <3>2. Cardinality(V) <= perDay
      <4> HIDE DEF u
      <4> QED BY <1>1, <3>1 DEF LimitsHold
    <3>3. W \subseteq V
      <4>1. \A s \in Started : runs[s].hit \in t - DayTicks .. t => runs[s].hit \in u - DayTicks .. u
        BY <1>2, <1>4
      <4> HIDE DEF u
      <4> QED BY <4>1
    <3> HIDE DEF W, V
    <3>4. V \in SUBSET (1 .. Len(runs))
      BY <1>2 DEF V
    <3>5. Cardinality(W) \in Nat /\ Cardinality(V) \in Nat /\ Cardinality(W) <= Cardinality(V)
      BY <1>2, <3>3, <3>4, FewerRuns
    <3> QED BY <1>2, <3>2, <3>5 DEF W
  <2> QED BY <1>3, <2>1, <2>2 DEF LimitsHold
<1> QED BY <1>5, <1>6, <1>7 DEF DemoIInv

-----------------------------------------------------------------------------

LEMMA DemoBegins == ASSUME DemoAssumption, DemoInit PROVE DemoIInv
<1>1. Started = {} /\ runs \in Seq(DemoRun) /\ Len(runs) = 0
  BY DEF DemoInit, Started
<1>2. DemoTyped
  <2>1. [phase |-> "idle", abortRef |-> NoRun] \in [phase : Phase, abortRef : RunId \cup {NoRun}]
    BY Ranks
  <2>2. \A v \in Visitor : page[v].abortRef = NoRun
    BY DEF DemoInit
  <2> QED BY <1>1, <2>1, <2>2 DEF DemoInit, DemoTyped, DemoAssumption
<1>3. ReadersRight /\ PaymentsRight /\ RunningIsRead /\ VerdictIsBought
  BY <1>1 DEF DemoInit, ReadersRight, PaymentsRight, RunningIsRead, VerdictIsBought
<1>4. HitsRight
  BY <1>1 DEF DemoInit, HitsRight, HitsKept
<1>5. LimitsHold
  <2>1. Cardinality({}) = 0
    BY FS_EmptySet
  <2>2. perHour \in Nat /\ perDay \in Nat
    BY DEF DemoInit, DemoAssumption
  <2>3. ASSUME NEW t, NEW i
        PROVE  Cardinality({s \in Started : ip(runs[s].of) = i /\ runs[s].hit \in t - HourTicks + 1 .. t}) <= perHour
    <3>1. {s \in Started : ip(runs[s].of) = i /\ runs[s].hit \in t - HourTicks + 1 .. t} = {}
      BY <1>1
    <3> QED BY <2>1, <2>2, <3>1
  <2>4. ASSUME NEW t
        PROVE  Cardinality({s \in Started : runs[s].hit \in t - DayTicks .. t}) <= perDay
    <3> DEFINE W == {s \in Started : runs[s].hit \in t - DayTicks .. t}
    <3>1. W = {}
      BY <1>1
    <3> HIDE DEF W
    <3>2. Cardinality(W) <= perDay
      BY <2>1, <2>2, <3>1
    <3> QED BY <3>2 DEF W
  <2> QED BY <2>3, <2>4 DEF LimitsHold
<1> QED BY <1>2, <1>3, <1>4, <1>5 DEF DemoIInv, PagesRight

LEMMA DemoStandsStill == ASSUME DemoIInv, UNCHANGED demoVars PROVE DemoIInv'
<1>1. /\ runs' = runs /\ page' = page /\ clock' = clock /\ ipHits' = ipHits /\ allHits' = allHits
      /\ runsLeft' = runsLeft /\ ticksLeft' = ticksLeft
      /\ sameIp' = sameIp /\ perHour' = perHour /\ perDay' = perDay
  BY DEF demoVars, setup, demoBounds
<1>2. PagesRight'
  BY <1>1 DEF DemoIInv, PagesRight, DemoTyped, ReadersRight, PaymentsRight, RunningIsRead,
              VerdictIsBought, Started
<1>3. HitsRight'
  BY <1>1 DEF DemoIInv, HitsRight, HitsKept, Started, ip
<1>4. LimitsHold'
  BY <1>1 DEF DemoIInv, LimitsHold, Started, ip
<1> QED BY <1>2, <1>3, <1>4 DEF DemoIInv

LEMMA DemoKeeps == ASSUME DemoAssumption, DemoIInv, [DemoNext]_demoVars PROVE DemoIInv'
<1>1. ASSUME NEW v \in Visitor, runDemo(v) \/ resetPage(v)
      PROVE  DemoIInv'
  BY <1>1, BeginsKeeps, ResetKeeps
<1>2. ASSUME NEW r \in Started,
             \/ Responded(r) \/ ReadEvent(r) \/ StreamDone(r) \/ ConnectionLost(r)
             \/ checkRateLimit(r) \/ Discovered(r) \/ phaseShift(r) \/ fetchWithPay(r)
             \/ Answered(r) \/ Abort(r)
      PROVE  DemoIInv'
  BY <1>2, RespondedKeeps, ReadEventKeeps, StreamDoneKeeps, ConnectionLostKeeps, CheckKeeps,
     DiscoveredKeeps, PhaseShiftKeeps, PayKeeps, AnsweredKeeps, AbortKeeps
<1> QED BY <1>1, <1>2, TockKeeps, DemoStandsStill DEF DemoNext

LEMMA DemoSays == ASSUME DemoAssumption, DemoIInv PROVE DemoInv
<1>1. PagesRight /\ HitsRight /\ LimitsHold
  BY DEF DemoIInv
<1>2. runs \in Seq(DemoRun) /\ Started = 1 .. Len(runs) /\ \A r \in Started : runs[r] \in DemoRun
  BY <1>1 DEF PagesRight, DemoTyped, Started
<1>3. DemoTypeOK
  <2>1. Started \subseteq RunId
    BY <1>1, <1>2 DEF PagesRight, DemoTyped, DemoAssumption, RunId
  <2>2. ASSUME NEW r \in Started
        PROVE  runs[r].of \in Visitor /\ ToSet(runs[r].stream) \subseteq Phase
    <3>1. runs[r].of \in Visitor /\ runs[r].stream \in Seq(Spoken)
      BY <1>2 DEF DemoRun
    <3> QED BY <3>1, Ranks DEF ToSet
  <2> QED BY <1>1, <2>1, <2>2 DEF PagesRight, DemoTyped, HitsRight, DemoTypeOK
<1>4. OneReader
  <2>1. ASSUME NEW r \in Started, runs[r].reader # "none"
        PROVE  page[runs[r].of].phase # "idle"
    BY <1>1, <2>1 DEF PagesRight, ReadersRight, ReadRight, Spoken
  <2> QED BY <1>1, <2>1 DEF PagesRight, ReadersRight, OneReader
<1>5. StreamInOrder
  <2> SUFFICES ASSUME NEW r \in Started, runs[r].reader = "reading",
                      NEW ahead, ahead = <<page[runs[r].of].phase>> \o runs[r].stream
               PROVE  /\ \A j, k \in DOMAIN ahead : j < k => Rank[ahead[j]] <= Rank[ahead[k]]
                      /\ runs[r].pc = "over" <=> Last(ahead) \in Ended
    BY DEF StreamInOrder
  <2>1. ReadRight(runs[r], page[runs[r].of].phase)
    BY <1>1 DEF PagesRight, ReadersRight
  <2>2. InOrder(ahead) /\ LastSaid(runs[r].pc, ahead[Len(ahead)])
    BY <2>1 DEF ReadRight
  <2>3. runs[r].pc \in {"requested", "refused", "info", "paying", "deliberating", "over"}
    BY <1>2 DEF DemoRun
  <2> QED BY <2>2, <2>3 DEF InOrder, LastSaid, Ended, Last
<1>6. NotPaidForTheGone
  BY <1>1 DEF PagesRight, PaymentsRight, PaidRight, NotPaidForTheGone
<1> QED BY <1>1, <1>3, <1>4, <1>5, <1>6 DEF DemoInv, PagesRight

\* A visitor of the demo sees the phases of the last run alone, in their order and to their
\* end; a verdict that is showing was paid for, nothing is paid for a visitor known to have
\* left, and the runs of no hour and of no day are more than their limits.
THEOREM DemoCorrect == DemoSpec => []DemoInv
<1>1. DemoSpec => []DemoIInv
  BY DemoAssumption, DemoBegins, DemoKeeps, PTL DEF DemoSpec
<1>2. DemoIInv => DemoInv
  BY DemoAssumption, DemoSays
<1> QED BY <1>1, <1>2, PTL

-----------------------------------------------------------------------------
(* What a coordinator says of its workers, and what the pages show *)

\* In the run with all services, one moves and the others stand still.
LEMMA ServicesKeep ==
  /\ [Next]_AllVars => [ViewsNext]_viewsVars /\ [NamesNext]_namesVars
  /\ [Next]_AllVars => [OnboardingNext]_onboardingVars
  /\ [Next]_AllVars => [DemoNext]_demoVars /\ [BoardNext]_boardVars
<1>1. [Next]_AllVars => [ViewsNext]_viewsVars /\ [NamesNext]_namesVars
  BY DEF Next, AllVars
<1>2. [Next]_AllVars => [OnboardingNext]_onboardingVars
  BY DEF Next, AllVars
<1>3. [Next]_AllVars => [DemoNext]_demoVars /\ [BoardNext]_boardVars
  BY DEF Next, AllVars
<1> QED BY <1>1, <1>2, <1>3

\* A worker is shown if it answers, and under the name it was given last.
THEOREM WorkersCorrect == Spec => []WorkersShown
<1>1. Init => ViewsInit /\ NamesInit
  BY DEF Init
<1>2. Spec => ViewsSpec /\ NamesSpec
  BY <1>1, ServicesKeep, PTL DEF Spec, ViewsSpec, NamesSpec
<1> QED BY <1>2, ViewsCorrect, NamesCorrect, PTL DEF WorkersShown

\* The demo and the board show what is so.
THEOREM PagesCorrect == Spec => []PagesInv
<1>1. Init => DemoInit /\ BoardInit
  BY DEF Init
<1>2. Spec => DemoSpec /\ BoardSpec
  BY <1>1, ServicesKeep, PTL DEF Spec, DemoSpec, BoardSpec
<1> QED BY <1>2, DemoCorrect, BoardCorrect, PTL DEF PagesInv

-----------------------------------------------------------------------------
(* The jury *)

\* Induction over a set of numbers.
LEMMA EveryNumber ==
  ASSUME NEW T, 0 \in T, \A n \in Nat : n \in T => n + 1 \in T
  PROVE  Nat \subseteq T
<1> SUFFICES ASSUME Nat \ T # {}
             PROVE  FALSE
  OBVIOUS
<1>1. PICK n \in Nat \ T : \A m \in Nat \ T : n <= m
  BY Least
<1>2. n - 1 \in Nat /\ ~(n <= n - 1)
  BY <1>1
<1> QED BY <1>1, <1>2

\* The places of the candidates.
Positions == 1 .. Len(Pool)

LEMMA PoolPositions == Len(Pool) \in Nat /\ Pool \in [Positions -> ToSet(Pool)]
BY JuryAssumption DEF JuryAssumption, Positions

\* What the loop starts from.
LoopStart(from) == [number |-> from % (LcgWord - 1), order |-> Pool]

\* A function that goes through the first turns of the loop.
GoesThrough(f, from, n) ==
  f = [i \in 0 .. n |-> IF i = 0 THEN LoopStart(from)
                           ELSE Turn(f[i - 1], Len(Pool) + 1 - i)]

\* There is one, however many the turns.
LEMMA TurnsExist ==
  ASSUME NEW from, NEW n \in Nat
  PROVE  \E f : GoesThrough(f, from, n)
<1> DEFINE T == {m \in Nat : \E f : GoesThrough(f, from, m)}
<1>1. 0 \in T
  <2> DEFINE f == [i \in 0 .. 0 |-> LoopStart(from)]
  <2>1. GoesThrough(f, from, 0)
    BY DEF GoesThrough
  <2> QED BY <2>1
<1>2. ASSUME NEW m \in Nat, m \in T
      PROVE  m + 1 \in T
  <2>1. PICK f : GoesThrough(f, from, m)
    BY <1>2
  <2> DEFINE g == [i \in 0 .. m + 1 |->
                     IF i <= m THEN f[i] ELSE Turn(f[m], Len(Pool) + 1 - (m + 1))]
             turn(i) == IF i = 0 THEN LoopStart(from)
                           ELSE Turn(g[i - 1], Len(Pool) + 1 - i)
  <2>2. ASSUME NEW i \in 0 .. m + 1
        PROVE  g[i] = turn(i)
    <3>1. CASE i <= m
      <4>1. f[i] = IF i = 0 THEN LoopStart(from) ELSE Turn(f[i - 1], Len(Pool) + 1 - i)
        <5>1. i \in 0 .. m
          BY <3>1
        <5> QED BY <2>1, <5>1, Zenon DEF GoesThrough
      <4>2. g[i] = f[i] /\ (i # 0 => g[i - 1] = f[i - 1])
        BY <3>1
      <4> HIDE DEF g
      <4> QED BY <4>1, <4>2
    <3>2. CASE i = m + 1
      <4>1. g[i] = Turn(f[m], Len(Pool) + 1 - (m + 1)) /\ g[i - 1] = f[m]
        BY <3>2
      <4> HIDE DEF g
      <4> QED BY <3>2, <4>1
    <3> QED BY <3>1, <3>2
  <2>3. g = [i \in 0 .. m + 1 |-> turn(i)]
    <3> HIDE DEF turn
    <3> QED BY <2>2
  <2>4. GoesThrough(g, from, m + 1)
    BY <2>3 DEF GoesThrough
  <2> QED BY <2>4
<1> HIDE DEF T
<1>3. Nat \subseteq T
  BY <1>1, <1>2, EveryNumber
<1> QED BY <1>3 DEF T

\* So the loop is one.
LEMMA LoopGoesThrough ==
  ASSUME NEW from, Len(Pool) # 0
  PROVE  GoesThrough(Loop(from), from, Len(Pool) - 1)
<1>1. Len(Pool) - 1 \in Nat
  BY PoolPositions
<1>2. \E f : GoesThrough(f, from, Len(Pool) - 1)
  BY <1>1, TurnsExist
<1>3. Loop(from) = CHOOSE f : GoesThrough(f, from, Len(Pool) - 1)
  BY DEF Loop, GoesThrough, LoopStart
<1> QED BY <1>2, <1>3

\* An order of the candidates: each place of the pool once.
Permuted(order) ==
  \E p \in [Positions -> Positions] :
    /\ \A i, j \in Positions : p[i] = p[j] => i = j
    /\ order = [i \in Positions |-> Pool[p[i]]]

\* A word is a number, whatever is masked.
LEMMA LcgTyped == ASSUME NEW n \in Int PROVE Lcg(n) \in Int
<1>1. n * Multiplier + Increment \in Int
  BY JuryAssumption DEF JuryAssumption
<1>2. \A m \in Int : Signed(m) \in Int
  BY JuryAssumption DEF JuryAssumption, Signed
<1> QED BY <1>1, <1>2 DEF Lcg

\* A place is taken from at or below the one to fill.
LEMMA PickBelow ==
  ASSUME NEW n \in Int, NEW place \in Nat, place > 0
  PROVE  Pick(n, place) \in 0 .. place - 1
<1>1. Abs(n) \in Nat
  BY DEF Abs
<1> QED BY <1>1 DEF Pick

\* A turn exchanges two candidates.
LEMMA TurnPermutes ==
  ASSUME NEW before, before.number \in Int, Permuted(before.order),
         NEW place \in Positions
  PROVE  Turn(before, place).number \in Int /\ Permuted(Turn(before, place).order)
<1> DEFINE number == Lcg(before.number)
           other == Pick(number, place) + 1
<1>1. number \in Int
  BY LcgTyped
<1>2. place \in Nat /\ place > 0 /\ place <= Len(Pool) /\ Len(Pool) \in Nat
  BY PoolPositions DEF Positions
<1>3. other \in Positions
  <2>1. Pick(number, place) \in 0 .. place - 1
    BY <1>1, <1>2, PickBelow
  <2> QED BY <1>2, <2>1 DEF Positions
<1>4. PICK p \in [Positions -> Positions] :
        /\ \A i, j \in Positions : p[i] = p[j] => i = j
        /\ before.order = [i \in Positions |-> Pool[p[i]]]
  BY DEF Permuted
<1> HIDE DEF number, other
<1>5. Permuted(Swap(before.order, place, other))
  <2> DEFINE q == [p EXCEPT ![place] = p[other], ![other] = p[place]]
  <2>1. q \in [Positions -> Positions] /\ \A i, j \in Positions : q[i] = q[j] => i = j
    BY <1>3, <1>4
  <2>2. Swap(before.order, place, other) = [i \in Positions |-> Pool[q[i]]]
    BY <1>3, <1>4 DEF Swap
  <2> HIDE DEF q
  <2> QED BY <2>1, <2>2 DEF Permuted
<1>6. Turn(before, place) = [number |-> number, order |-> Swap(before.order, place, other)]
  BY DEF Turn, number, other
<1> QED BY <1>1, <1>5, <1>6

\* So the shuffle only changes the order.
LEMMA ShufflePermutes ==
  ASSUME NEW from \in Int, Len(Pool) # 0
  PROVE  Permuted(fisherYatesShuffle(from))
<1> DEFINE last == Len(Pool) - 1
           Fine(n) == Loop(from)[n].number \in Int /\ Permuted(Loop(from)[n].order)
           T == {n \in Nat : n <= last => Fine(n)}
<1>1. last \in Nat /\ Len(Pool) = last + 1
  BY PoolPositions
<1>2. ASSUME NEW i \in 0 .. last
      PROVE  Loop(from)[i] = IF i = 0 THEN LoopStart(from)
                                ELSE Turn(Loop(from)[i - 1], Len(Pool) + 1 - i)
  BY LoopGoesThrough, Zenon DEF GoesThrough
<1>3. Fine(0)
  <2>1. Loop(from)[0] = LoopStart(from)
    BY <1>1, <1>2
  <2>2. from % (LcgWord - 1) \in Int
    BY JuryAssumption DEF JuryAssumption
  <2>3. Permuted(Pool)
    <3>1. [i \in Positions |-> i] \in [Positions -> Positions] /\ Pool = [i \in Positions |-> Pool[i]]
      BY PoolPositions
    <3> QED BY <3>1 DEF Permuted
  <2> QED BY <2>1, <2>2, <2>3 DEF LoopStart
<1>4. ASSUME NEW n \in Nat, n + 1 <= last, Fine(n)
      PROVE  Fine(n + 1)
  <2>1. Loop(from)[n + 1] = Turn(Loop(from)[n], Len(Pool) + 1 - (n + 1))
    BY <1>1, <1>2, <1>4
  <2>2. Len(Pool) + 1 - (n + 1) \in Positions
    BY <1>1, <1>4 DEF Positions
  <2> QED BY <1>4, <2>1, <2>2, TurnPermutes
<1> HIDE DEF Fine
<1>5. \A n \in Nat : n \in T => n + 1 \in T
  BY <1>1, <1>4
<1>6. 0 \in T
  BY <1>3
<1> HIDE DEF T
<1>7. last \in T
  BY <1>1, <1>5, <1>6, EveryNumber
<1> QED BY <1>1, <1>7 DEF T, Fine, fisherYatesShuffle

\* The beginning of an order names as many candidates as it has places, and each of
\* them is of the pool.
LEMMA BeginningOf ==
  ASSUME NEW order, Permuted(order), NEW n \in Positions
  PROVE  /\ SubSeq(order, 1, n) = [i \in 1 .. n |-> order[i]]
         /\ Len(SubSeq(order, 1, n)) = n
         /\ ToSet(SubSeq(order, 1, n)) = {order[i] : i \in 1 .. n}
         /\ \A i \in 1 .. n : order[i] \in ToSet(Pool)
<1>1. PICK p \in [Positions -> Positions] :
        /\ \A i, j \in Positions : p[i] = p[j] => i = j
        /\ order = [i \in Positions |-> Pool[p[i]]]
  BY DEF Permuted
<1>2. n \in Nat /\ n > 0 /\ n <= Len(Pool) /\ Len(Pool) \in Nat
  BY PoolPositions DEF Positions
<1>3. \A i \in Positions : order[i] \in ToSet(Pool)
  BY <1>1, PoolPositions
<1>4. SubSeq(order, 1, n) = [i \in 1 .. n |-> order[i]]
  <2>1. SubSeq(order, 1, n) = [i \in 1 .. n |-> order[1 + i - 1]]
    BY <1>2 DEF SubSeq
  <2> QED BY <1>2, <2>1
<1>5. Len(SubSeq(order, 1, n)) = n
  BY <1>2, <1>4
<1>6. ToSet(SubSeq(order, 1, n)) = {order[i] : i \in 1 .. n}
  <2>1. DOMAIN SubSeq(order, 1, n) = 1 .. n
    BY <1>4
  <2> QED BY <1>4, <2>1 DEF ToSet
<1> QED BY <1>2, <1>3, <1>4, <1>5, <1>6 DEF Positions

\* If no candidate is twice in the pool, none is twice in an order of it.
LEMMA NoneTwice ==
  ASSUME NEW order, Permuted(order), NEW n \in Positions, IsInjective(Pool)
  PROVE  Cardinality({order[i] : i \in 1 .. n}) = n
<1>1. PICK p \in [Positions -> Positions] :
        /\ \A i, j \in Positions : p[i] = p[j] => i = j
        /\ order = [i \in Positions |-> Pool[p[i]]]
  BY DEF Permuted
<1>2. n \in Nat /\ n > 0 /\ n <= Len(Pool) /\ Len(Pool) \in Nat
  BY PoolPositions DEF Positions
<1>3. \A i, j \in Positions : order[i] = order[j] => i = j
  BY <1>1, PoolPositions DEF IsInjective
<1> DEFINE f == [i \in 1 .. n |-> order[i]]
           T == {order[i] : i \in 1 .. n}
<1>4. f \in Bijection(1 .. n, T)
  <2>1. \A i \in 1 .. n : i \in Positions
    BY <1>2 DEF Positions
  <2>2. f \in Injection(1 .. n, T)
    BY <1>3, <2>1 DEF Injection, IsInjective
  <2>3. f \in Surjection(1 .. n, T)
    BY DEF Surjection
  <2> QED BY <2>2, <2>3 DEF Bijection
<1>5. IsFiniteSet(1 .. n) /\ Cardinality(1 .. n) = n
  BY <1>2, FS_Interval
<1> HIDE DEF f, T
<1>6. Cardinality(T) = n
  BY <1>4, <1>5, FS_Bijection DEF ExistsBijection
<1> QED BY <1>6 DEF T

\* Jury and request, as far as the argument needs them.
JuryTyped == seed \in 0 .. LcgWord - 1 /\ size \in Int

\* A jury is the beginning of an order of the pool.
JuryIsBeginning ==
  jury # << >> =>
    /\ JurySize \in Positions
    /\ \E order : Permuted(order) /\ jury = SubSeq(order, 1, JurySize)

JuryIInv == JuryTyped /\ JuryIsBeginning

LEMMA JuryInitHolds == JuryInit => JuryIInv
<1>1. \A n \in -1 .. Len(Pool) + 1 : n \in Int
  BY PoolPositions
<1> QED BY <1>1 DEF JuryInit, JuryIInv, JuryTyped, JuryIsBeginning

LEMMA JuryNextKeeps == JuryIInv /\ [JuryNext]_juryVars => JuryIInv'
<1> SUFFICES ASSUME JuryIInv, [JuryNext]_juryVars
             PROVE  JuryIInv'
  OBVIOUS
<1>1. CASE selectJury
  <2>1. /\ 0 < JurySize /\ JurySize <= Len(Pool)
        /\ jury' = SubSeq(fisherYatesShuffle(seed), 1, JurySize)
        /\ UNCHANGED <<seed, size>>
    BY <1>1 DEF selectJury
  <2>2. JurySize' = JurySize /\ JurySize \in Int
    BY <2>1 DEF JurySize, JuryIInv, JuryTyped
  <2>3. JurySize \in Positions
    BY <2>1, <2>2, PoolPositions DEF Positions
  <2>4. Permuted(fisherYatesShuffle(seed))
    <3>1. seed \in Int /\ Len(Pool) # 0
      BY <2>1, <2>2, PoolPositions, JuryAssumption DEF JuryIInv, JuryTyped, JuryAssumption
    <3> QED BY <3>1, ShufflePermutes
  <2>5. JuryIsBeginning'
    BY <2>1, <2>2, <2>3, <2>4 DEF JuryIsBeginning
  <2> QED BY <2>1, <2>5 DEF JuryIInv, JuryTyped
<1>2. CASE UNCHANGED juryVars
  BY <1>2 DEF juryVars, JuryIInv, JuryTyped, JuryIsBeginning, JurySize
<1> QED BY <1>1, <1>2 DEF JuryNext

\* What is drawn into a small jury is drawn into a larger one.
LEMMA EachDrawnGrows ==
  ASSUME EachDrawn(1), NEW n \in Positions
  PROVE  EachDrawn(n)
<1> SUFFICES ASSUME NEW c \in ToSet(Pool)
             PROVE  \E from \in 0 .. LcgWord - 1 : c \in ToSet(SubSeq(fisherYatesShuffle(from), 1, n))
  BY DEF EachDrawn
<1>1. PICK from \in 0 .. LcgWord - 1 : c \in ToSet(SubSeq(fisherYatesShuffle(from), 1, 1))
  BY DEF EachDrawn
<1>2. 1 \in Positions /\ Len(Pool) # 0 /\ from \in Int /\ n \in Nat /\ n >= 1
  BY PoolPositions, JuryAssumption DEF Positions, JuryAssumption
<1>3. Permuted(fisherYatesShuffle(from))
  BY <1>2, ShufflePermutes
<1>4. /\ ToSet(SubSeq(fisherYatesShuffle(from), 1, 1)) = {fisherYatesShuffle(from)[i] : i \in 1 .. 1}
      /\ ToSet(SubSeq(fisherYatesShuffle(from), 1, n)) = {fisherYatesShuffle(from)[i] : i \in 1 .. n}
  BY <1>2, <1>3, BeginningOf
<1>5. c \in ToSet(SubSeq(fisherYatesShuffle(from), 1, n))
  BY <1>1, <1>2, <1>4
<1> QED BY <1>5

LEMMA JuryFollows == JuryIInv /\ IsInjective(Pool) => JuryOfPool
<1> SUFFICES ASSUME JuryIInv, IsInjective(Pool), jury # << >>
             PROVE  JuryOfPool
  BY DEF JuryOfPool
<1>1. PICK n \in Positions : n = JurySize
  BY DEF JuryIInv, JuryIsBeginning
<1>2. PICK order : Permuted(order) /\ jury = SubSeq(order, 1, n)
  BY <1>1 DEF JuryIInv, JuryIsBeginning
<1>3. /\ Len(jury) = n
      /\ ToSet(jury) = {order[i] : i \in 1 .. n}
      /\ \A i \in 1 .. n : order[i] \in ToSet(Pool)
  BY <1>2, BeginningOf
<1>4. Cardinality(ToSet(jury)) = n
  BY <1>2, <1>3, NoneTwice
<1>5. ToSet(jury) \subseteq ToSet(Pool)
  BY <1>3
<1> QED BY <1>1, <1>3, <1>4, <1>5 DEF JuryOfPool

\* For every pool without repetitions, every generator and every beacon value: a jury
\* has the size asked for, and nobody sits on it twice.
THEOREM JuryCorrect ==
  ASSUME IsInjective(Pool)
  PROVE  JurySpec => []JuryOfPool
<1>1. JuryIInv => JuryOfPool
  BY JuryFollows
<1> QED BY <1>1, JuryInitHolds, JuryNextKeeps, PTL DEF JurySpec

\* Whether juries are fair need only be asked of juries of one: if the generator can
\* draw each candidate into such a jury, no jury of any size shuts one out.
THEOREM JuryFair ==
  ASSUME IsInjective(Pool), EachDrawn(1)
  PROVE  JurySpec => []FairJury
<1>1. JuryIInv => FairJury
  <2> SUFFICES ASSUME JuryIInv
               PROVE  FairJury
    OBVIOUS
  <2>1. JuryOfPool
    BY JuryFollows
  <2>2. ASSUME jury # << >>
        PROVE  EachDrawn(Len(jury))
    <3>1. JurySize \in Positions /\ Len(jury) = JurySize
      BY <2>1, <2>2 DEF JuryIInv, JuryIsBeginning, JuryOfPool
    <3> QED BY <3>1, EachDrawnGrows
  <2> QED BY <2>1, <2>2 DEF FairJury, NobodyShutOut
<1> QED BY <1>1, JuryInitHolds, JuryNextKeeps, PTL DEF JurySpec
=============================================================================
