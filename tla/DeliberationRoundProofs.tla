----------------------- MODULE DeliberationRoundProofs -----------------------
(* Proofs about DeliberationRound, for any number of ticks, workers and         *)
(* proposals.  Whatever overlaps: OneRecorder and the types; the history agrees *)
(* with the chain as long as the memory answers.  If ticks do not overlap: what *)
(* is counted is what was committed, asked for and listed.                      *)
EXTENDS DeliberationRound, FiniteSetTheorems, SequenceTheorems, TLAPS

-----------------------------------------------------------------------------
(* The inductive invariant of the recording *)

\* A variable holds a function, which TLC shows and the types will prove.
Function(f) == f = [x \in DOMAIN f |-> f[x]]

\* As much of the types as the argument needs: ticks are records with the
\* fields of IdleTick, and a proposal has a state.
Shapes ==
  /\ Function(tick) /\ DOMAIN tick = Tick
  /\ \A t \in Tick : Function(tick[t]) /\ DOMAIN tick[t] = DOMAIN IdleTick

\* A proposal that exists has a state, and an id the counter has passed.
ProposalsShaped ==
  /\ DOMAIN proposals = ProposalId
  /\ current_proposal_id \in Nat
  /\ \A id \in ProposalId : Contract!Exists(id) =>
       "state" \in DOMAIN proposals[id] /\ id <= current_proposal_id

\* A tick under way works on a proposal that was started.
TicksOnStarted ==
  \A t \in Tick : tick[t].pc # "idle" =>
    tick[t].id \in ProposalId /\ tick[t].id <= current_proposal_id

\* A result is on its way only for a proposal whose submissions are recorded.
ResultsAfterRecording ==
  \A r \in resumes : r.value # NoAnswer =>
    /\ r.id \in ProposalId /\ r.id <= current_proposal_id
    /\ ~Contract!InState(r.id, "Created")

\* The two parts of OneRecorder.
Alone ==
  \A t, u \in Tick :
    (tick[t].pc \in Past /\ tick[u].pc \in Past /\ tick[u].id = tick[t].id) => u = t

\* The submissions are recorded, but nobody has seen a result of the proposal.
NoResultYet(id) ==
  /\ ~Contract!InState(id, "Created")
  /\ ~Contract!InState(id, "Finalized")
  /\ \A r \in resumes : r.id = id => r.value = NoAnswer

\* No result exists before the tick past the recording has answered.
Unanswered == \A t \in Tick : tick[t].pc \in Past => NoResultYet(tick[t].id)

\* The inductive invariant of OneRecorder.
RecorderInv ==
  /\ Shapes /\ ProposalsShaped /\ TicksOnStarted /\ ResultsAfterRecording
  /\ Alone /\ Unanswered

\* The invariant says what OneRecorder says.
LEMMA OneRecorderFollows == RecorderInv => OneRecorder
  BY DEF RecorderInv, Alone, Unanswered, NoResultYet, OneRecorder

-----------------------------------------------------------------------------
(* Moves of one tick *)

\* Nothing but the tick t changed, and it kept its proposal.
Moves(t, pc) ==
  /\ Shapes'
  /\ tick'[t].pc = pc /\ tick'[t].id = tick[t].id
  /\ \A u \in Tick : u # t => tick'[u] = tick[u]

\* Nothing but the tick t changed, and it was forgotten.
Ends(t) ==
  /\ Shapes'
  /\ tick'[t].pc = "idle"
  /\ \A u \in Tick : u # t => tick'[u] = tick[u]

\* Goto moves one tick and leaves the others alone.
LEMMA GotoMoves ==
  ASSUME Shapes, NEW t \in Tick, NEW pc, Goto(t, pc)
  PROVE  Moves(t, pc)
  BY DEF Shapes, Function, IdleTick, Goto, Moves

\* End forgets one tick and leaves the others alone.
LEMMA EndEnds ==
  ASSUME Shapes, NEW t \in Tick, End(t)
  PROVE  Ends(t)
  BY DEF Shapes, Function, IdleTick, End, Ends

\* A tick that moves from before the recording to before it, from after it to
\* after it, or ends, while the contract stands still.
LEMMA QuietMove ==
  ASSUME RecorderInv, NEW t \in Tick,
         UNCHANGED <<current_proposal_id, proposals, resumes>>,
         \/ Ends(t)
         \/ \E pc : /\ Moves(t, pc)
                    /\ tick[t].pc # "idle"
                    /\ pc \in Past => tick[t].pc \in Past
  PROVE  RecorderInv'
<1>1. Shapes' /\ \A u \in Tick : u # t => tick'[u] = tick[u]
  BY DEF Ends, Moves
<1>2. /\ tick'[t].pc # "idle" => tick'[t].id = tick[t].id /\ tick[t].pc # "idle"
      /\ tick'[t].pc \in Past => tick'[t].id = tick[t].id /\ tick[t].pc \in Past
  BY DEF Ends, Moves, Past
<1>3. ProposalsShaped'
  BY DEF RecorderInv, ProposalsShaped, Contract!Exists
<1>4. TicksOnStarted'
  BY <1>1, <1>2 DEF RecorderInv, TicksOnStarted
<1>5. ResultsAfterRecording'
  BY DEF RecorderInv, ResultsAfterRecording, Contract!InState, Contract!Exists
<1>6. \A u \in Tick : tick'[u].pc \in Past => tick[u].pc \in Past /\ tick'[u].id = tick[u].id
  BY <1>1, <1>2
<1>7. Alone'
  BY <1>6 DEF RecorderInv, Alone
<1>8. Unanswered'
  BY <1>6 DEF RecorderInv, Unanswered, NoResultYet, Contract!InState, Contract!Exists
<1> QED BY <1>1, <1>3, <1>4, <1>5, <1>7, <1>8 DEF RecorderInv

-----------------------------------------------------------------------------
(* Steps of a tick *)

\* The steps that leave the contract alone.
QuietAdvance(t) ==
  \/ getActiveWorkers(t)
  \/ PublishTask(t)
  \/ \E w \in Worker : ResetStatus(t, w)
  \/ TakeSnapshot(t)
  \/ AllDone(t)
  \/ WaitTimeout(t)
  \/ readResultsWithRetry(t)
  \/ aggregateResults(t)
  \/ archiveProposal(t)
  \/ ReadIndex(t)
  \/ WriteIndex(t)

\* None of them disturbs the invariant.
LEMMA QuietStep ==
  ASSUME RecorderInv, NEW t \in Tick, QuietAdvance(t)
  PROVE  RecorderInv'
<1> USE DEF At
<1>1. Shapes
  BY DEF RecorderInv
<1>2. CASE getActiveWorkers(t)
  <2>1. PICK W : tick' = [tick EXCEPT ![t].pc = "publishing", ![t].workers = W, ![t].todo = W]
    BY <1>2 DEF getActiveWorkers
  <2>2. Moves(t, "publishing")
    BY <1>1, <2>1 DEF Shapes, Function, IdleTick, Moves
  <2> QED BY <1>2, <2>2, QuietMove DEF getActiveWorkers, contractVars, Past
<1>3. CASE PublishTask(t)
  <2>1. Moves(t, "resetting")
    BY <1>1, <1>3, GotoMoves DEF PublishTask
  <2> QED BY <1>3, <2>1, QuietMove DEF PublishTask, contractVars, Past
<1>4. ASSUME NEW w \in Worker, ResetStatus(t, w)
      PROVE  RecorderInv'
  <2>1. tick' = [tick EXCEPT ![t].todo = @ \ {w}] /\ tick[t].pc = "resetting"
    BY <1>4 DEF ResetStatus
  <2>2. Moves(t, "resetting")
    BY <1>1, <2>1 DEF Shapes, Function, IdleTick, Moves
  <2> QED BY <1>4, <2>1, <2>2, QuietMove DEF ResetStatus, contractVars, Past
<1>5. CASE TakeSnapshot(t)
  <2>1. Ends(t) \/ Moves(t, "waiting")
    BY <1>1, <1>5, EndEnds, GotoMoves DEF TakeSnapshot
  <2> QED BY <1>5, <2>1, QuietMove DEF TakeSnapshot, contractVars, Past
<1>6. CASE AllDone(t)
  <2>1. Moves(t, "reading")
    BY <1>1, <1>6, GotoMoves DEF AllDone
  <2> QED BY <1>6, <2>1, QuietMove DEF AllDone, contractVars, Past
<1>7. CASE WaitTimeout(t)
  <2>1. Ends(t)
    BY <1>1, <1>7, EndEnds DEF WaitTimeout
  <2> QED BY <1>7, <2>1, QuietMove DEF WaitTimeout, contractVars
<1>8. CASE readResultsWithRetry(t)
  <2>1. PICK x : tick' = [tick EXCEPT ![t].pc = "recording", ![t].submissions = x]
    BY <1>8 DEF readResultsWithRetry
  <2>2. Moves(t, "recording")
    BY <1>1, <2>1 DEF Shapes, Function, IdleTick, Moves
  <2> QED BY <1>8, <2>2, QuietMove DEF readResultsWithRetry, contractVars, Past
<1>9. CASE aggregateResults(t)
  <2>1. PICK x : tick' = [tick EXCEPT ![t].pc = "archiving", ![t].tally = x]
    BY <1>9 DEF aggregateResults
  <2>2. Moves(t, "archiving")
    BY <1>1, <2>1 DEF Shapes, Function, IdleTick, Moves
  <2> QED BY <1>9, <2>2, QuietMove DEF aggregateResults, contractVars, Past
<1>10. CASE archiveProposal(t)
  <2>1. Moves(t, "indexing")
    BY <1>1, <1>10, GotoMoves DEF archiveProposal
  <2> QED BY <1>10, <2>1, QuietMove DEF archiveProposal, contractVars, Past
<1>11. CASE ReadIndex(t)
  <2>1. PICK x : tick' = [tick EXCEPT ![t].pc = "listing", ![t].listed = x]
    BY <1>11 DEF ReadIndex
  <2>2. Moves(t, "listing")
    BY <1>1, <2>1 DEF Shapes, Function, IdleTick, Moves
  <2> QED BY <1>11, <2>2, QuietMove DEF ReadIndex, contractVars, Past
<1>12. CASE WriteIndex(t)
  <2>1. Moves(t, "resuming")
    BY <1>1, <1>12, GotoMoves DEF WriteIndex
  <2> QED BY <1>12, <2>1, QuietMove DEF WriteIndex, contractVars, Past
<1> QED BY <1>2, <1>3, <1>4, <1>5, <1>6, <1>7, <1>8, <1>9, <1>10, <1>11, <1>12
        DEF QuietAdvance

\* A tick starts on a proposal that is still Created.
LEMMA Start ==
  ASSUME RecorderInv, NEW t \in Tick, checkAndCoordinate(t)
  PROVE  RecorderInv'
<1>1. PICK id \in Pending : tick' = [tick EXCEPT ![t].pc = "discovering", ![t].id = id]
  BY DEF checkAndCoordinate
<1>2. Shapes
  BY DEF RecorderInv
<1>3. /\ Shapes'
      /\ tick'[t].pc = "discovering" /\ tick'[t].id = id
      /\ \A u \in Tick : u # t => tick'[u] = tick[u]
  BY <1>1, <1>2 DEF Shapes, Function, IdleTick
<1>4. UNCHANGED <<current_proposal_id, proposals, resumes>>
  BY DEF checkAndCoordinate, contractVars
<1>5. id \in ProposalId /\ id <= current_proposal_id
  BY DEF Pending, Contract!InState, RecorderInv, ProposalsShaped
<1>6. ProposalsShaped'
  BY <1>4 DEF RecorderInv, ProposalsShaped, Contract!Exists
<1>7. TicksOnStarted'
  BY <1>3, <1>4, <1>5 DEF RecorderInv, TicksOnStarted
<1>8. ResultsAfterRecording'
  BY <1>4 DEF RecorderInv, ResultsAfterRecording, Contract!InState, Contract!Exists
<1>9. \A u \in Tick : tick'[u].pc \in Past => tick[u].pc \in Past /\ tick'[u].id = tick[u].id
  BY <1>3 DEF Past
<1>10. Alone'
  BY <1>9 DEF RecorderInv, Alone
<1>11. Unanswered'
  BY <1>4, <1>9 DEF RecorderInv, Unanswered, NoResultYet, Contract!InState, Contract!Exists
<1> QED BY <1>3, <1>6, <1>7, <1>8, <1>10, <1>11 DEF RecorderInv

-----------------------------------------------------------------------------
(* The two calls of a tick on the contract *)

\* The contract takes the submissions of a proposal that is still Created, so
\* neither a tick nor a result is past its recording yet.
LEMMA RecordingTaken ==
  ASSUME RecorderInv, NEW t \in Tick, tick[t].pc = "recording",
         Contract!record_worker_submissions(Coordinator, tick[t].id, tick[t].submissions),
         Ends(t) \/ Moves(t, "aggregating")
  PROVE  RecorderInv'
<1>0. PICK id : id = tick[t].id
  OBVIOUS
<1>1. Contract!InState(id, "Created") /\ id \in ProposalId /\ "state" \in DOMAIN proposals[id]
  BY <1>0 DEF Contract!record_worker_submissions, Contract!RecordAccepted, Contract!InState,
         RecorderInv, TicksOnStarted, ProposalsShaped
<1>2. /\ proposals' = [proposals EXCEPT
           ![id].worker_submissions = Contract!Recorded(id, tick[t].submissions),
           ![id].state = "WorkersCompleted"]
      /\ UNCHANGED <<current_proposal_id, resumes>>
  BY <1>0 DEF Contract!record_worker_submissions
<1>3. /\ DOMAIN proposals' = ProposalId
      /\ \A other \in ProposalId : other # id => proposals'[other] = proposals[other]
      /\ proposals'[id].state = "WorkersCompleted"
      /\ "state" \in DOMAIN proposals'[id]
  BY <1>1, <1>2 DEF RecorderInv, ProposalsShaped
<1>4. /\ Shapes'
      /\ \A u \in Tick : u # t => tick'[u] = tick[u]
      /\ tick'[t].pc # "idle" => tick'[t].id = id
      /\ tick'[t].pc \in Past => tick'[t].id = id
  BY <1>0 DEF Ends, Moves, Past
<1>5. ProposalsShaped'
  <2> SUFFICES ASSUME NEW other \in ProposalId, Contract!Exists(other)'
               PROVE  "state" \in DOMAIN proposals'[other] /\ other <= current_proposal_id
    BY <1>2, <1>3 DEF RecorderInv, ProposalsShaped
  <2>1. CASE other = id
    BY <1>1, <1>3, <2>1 DEF RecorderInv, ProposalsShaped, Contract!InState
  <2>2. CASE other # id
    BY <1>3, <2>2 DEF RecorderInv, ProposalsShaped, Contract!Exists
  <2> QED BY <2>1, <2>2
<1>6. TicksOnStarted'
  <2>1. id \in ProposalId /\ id <= current_proposal_id
    BY <1>0 DEF RecorderInv, TicksOnStarted
  <2> QED BY <1>2, <1>4, <2>1 DEF RecorderInv, TicksOnStarted
<1>7. ResultsAfterRecording'
  <2> SUFFICES ASSUME NEW r \in resumes, r.value # NoAnswer
               PROVE  /\ r.id \in ProposalId /\ r.id <= current_proposal_id
                      /\ ~Contract!InState(r.id, "Created")'
    BY <1>2 DEF ResultsAfterRecording
  <2>1. r.id # id /\ r.id \in ProposalId
    BY <1>1 DEF RecorderInv, ResultsAfterRecording
  <2> QED BY <1>3, <2>1 DEF RecorderInv, ResultsAfterRecording, Contract!InState, Contract!Exists
<1>8. \A u \in Tick : tick[u].pc \in Past => tick[u].id # id /\ tick[u].id \in ProposalId
  BY <1>1 DEF RecorderInv, Unanswered, NoResultYet, TicksOnStarted, Past
<1>9. Alone'
  BY <1>4, <1>8 DEF RecorderInv, Alone
<1>10. Unanswered'
  <2> SUFFICES ASSUME NEW u \in Tick, tick'[u].pc \in Past, NEW i, i = tick'[u].id
               PROVE  NoResultYet(i)'
    BY DEF Unanswered
  <2>1. CASE u = t
    <3>1. i = id
      BY <1>4, <2>1
    <3>2. \A r \in resumes : r.id = id => r.value = NoAnswer
      BY <1>1 DEF RecorderInv, ResultsAfterRecording
    <3>3. ~Contract!InState(id, "Created")' /\ ~Contract!InState(id, "Finalized")'
      BY <1>3 DEF Contract!InState
    <3> QED BY <1>2, <3>1, <3>2, <3>3 DEF NoResultYet, Contract!InState, Contract!Exists
  <2>2. CASE u # t
    <3>1. i = tick[u].id /\ tick[u].pc \in Past /\ i # id /\ i \in ProposalId
      BY <1>4, <1>8, <2>2
    <3>2. proposals'[i] = proposals[i]
      BY <1>3, <3>1
    <3>3. NoResultYet(i)
      BY <3>1 DEF RecorderInv, Unanswered
    <3> QED BY <1>2, <3>1, <3>2, <3>3 DEF NoResultYet, Contract!InState, Contract!Exists
  <2> QED BY <2>1, <2>2
<1> QED BY <1>4, <1>5, <1>6, <1>7, <1>9, <1>10 DEF RecorderInv

\* The contract takes a result from the one tick that recorded, which ends.
LEMMA ResumingTaken ==
  ASSUME RecorderInv, NEW t \in Tick, tick[t].pc = "resuming", NEW value, NEW config,
         Contract!coordinator_resume(Coordinator, tick[t].id, value, config),
         Ends(t)
  PROVE  RecorderInv'
<1>0. PICK id : id = tick[t].id
  OBVIOUS
<1>1. /\ id \in ProposalId /\ id <= current_proposal_id
      /\ ~Contract!InState(id, "Created")
  BY <1>0 DEF RecorderInv, TicksOnStarted, Unanswered, NoResultYet, Past
<1>2. /\ UNCHANGED <<current_proposal_id, proposals>>
      /\ resumes' \subseteq resumes \cup {[id |-> id, value |-> value]}
  BY <1>0 DEF Contract!coordinator_resume, Contract!PromiseYieldResume
<1>3. /\ Shapes'
      /\ \A u \in Tick : u # t => tick'[u] = tick[u]
      /\ tick'[t].pc = "idle"
  BY DEF Ends
<1>4. ProposalsShaped'
  BY <1>2 DEF RecorderInv, ProposalsShaped, Contract!Exists
<1>5. TicksOnStarted'
  BY <1>2, <1>3 DEF RecorderInv, TicksOnStarted
<1>6. ResultsAfterRecording'
  <2> SUFFICES ASSUME NEW r \in resumes', r.value # NoAnswer
               PROVE  /\ r.id \in ProposalId /\ r.id <= current_proposal_id
                      /\ ~Contract!InState(r.id, "Created")
    BY <1>2 DEF ResultsAfterRecording, Contract!InState, Contract!Exists
  <2>1. CASE r \in resumes
    BY <2>1 DEF RecorderInv, ResultsAfterRecording
  <2>2. CASE r = [id |-> id, value |-> value]
    <3>1. r.id = id
      BY <2>2
    <3> QED BY <1>1, <3>1
  <2> QED BY <1>2, <2>1, <2>2
<1>7. \A u \in Tick : tick'[u].pc \in Past => u # t /\ tick'[u] = tick[u]
  BY <1>3 DEF Past
<1>8. Alone'
  BY <1>7 DEF RecorderInv, Alone
<1>9. Unanswered'
  <2> SUFFICES ASSUME NEW u \in Tick, tick'[u].pc \in Past, NEW i, i = tick'[u].id
               PROVE  NoResultYet(i)'
    BY DEF Unanswered
  <2>1. i = tick[u].id /\ tick[u].pc \in Past /\ i # id
    BY <1>0, <1>7 DEF RecorderInv, Alone, Past
  <2>2. NoResultYet(i)
    BY <2>1 DEF RecorderInv, Unanswered
  <2> QED BY <1>2, <2>1, <2>2 DEF NoResultYet, Contract!InState, Contract!Exists
<1> QED BY <1>3, <1>4, <1>5, <1>6, <1>8, <1>9 DEF RecorderInv

\* A call that is taken, refused, or taken without an answer.
LEMMA CallStep ==
  ASSUME RecorderInv, NEW t \in Tick, RecordSubmissions(t) \/ resumeContractWithTally(t)
  PROVE  RecorderInv'
<1>1. Shapes
  BY DEF RecorderInv
<1>2. CASE RecordSubmissions(t)
  <2>1. tick[t].pc = "recording"
    BY <1>2 DEF RecordSubmissions, At
  <2>2. \/ UNCHANGED contractVars /\ End(t)
        \/ /\ Contract!record_worker_submissions(Coordinator, tick[t].id, tick[t].submissions)
           /\ End(t) \/ Goto(t, "aggregating")
    BY <1>2 DEF RecordSubmissions, Answered
  <2> QED BY <1>1, <2>1, <2>2, EndEnds, GotoMoves, QuietMove, RecordingTaken DEF contractVars
<1>3. CASE resumeContractWithTally(t)
  <2>1. tick[t].pc = "resuming"
    BY <1>3 DEF resumeContractWithTally, At
  <2>2. \/ UNCHANGED contractVars /\ End(t)
        \/ /\ Contract!coordinator_resume(Coordinator, tick[t].id, OnChainOf(tick[t].tally),
                                          proposals[tick[t].id].config_hash)
           /\ End(t)
    BY <1>3 DEF resumeContractWithTally, Answered
  <2> QED BY <1>1, <2>1, <2>2, EndEnds, QuietMove, ResumingTaken DEF contractVars
<1> QED BY <1>2, <1>3

-----------------------------------------------------------------------------
(* Everything else *)

\* A new proposal has an id no tick and no result knows.
LEMMA NewProposal ==
  ASSUME RecorderInv, NEW c, NEW n, Request(c, n)
  PROVE  RecorderInv'
<1>1. PICK id : id = current_proposal_id + 1
  OBVIOUS
<1>2. /\ id \in ProposalId
      /\ current_proposal_id' = id
      /\ proposals' = [proposals EXCEPT ![id] =
           [state |-> "Created", config_hash |-> c, expected_worker_count |-> n,
            worker_submissions |-> << >>, finalized_result |-> NoAnswer]]
      /\ UNCHANGED <<resumes, tick>>
  BY <1>1 DEF Request, Contract!start_coordination, Contract!ProposalId, ProposalId
<1>3. current_proposal_id \in Nat /\ current_proposal_id < id
  BY <1>1 DEF RecorderInv, ProposalsShaped
<1>4. /\ DOMAIN proposals' = ProposalId
      /\ \A other \in ProposalId : other # id => proposals'[other] = proposals[other]
      /\ "state" \in DOMAIN proposals'[id]
  BY <1>2 DEF RecorderInv, ProposalsShaped
<1>5. ProposalsShaped'
  <2> SUFFICES ASSUME NEW other \in ProposalId, Contract!Exists(other)'
               PROVE  "state" \in DOMAIN proposals'[other] /\ other <= id
    BY <1>1, <1>2, <1>3, <1>4 DEF ProposalsShaped
  <2>1. CASE other = id
    BY <1>3, <1>4, <2>1 DEF ProposalId
  <2>2. CASE other # id
    <3>1. "state" \in DOMAIN proposals[other] /\ other <= current_proposal_id
      BY <1>4, <2>2 DEF RecorderInv, ProposalsShaped, Contract!Exists
    <3> QED BY <1>1, <1>3, <1>4, <2>2, <3>1 DEF ProposalId
  <2> QED BY <2>1, <2>2
<1>6. TicksOnStarted'
  BY <1>1, <1>2, <1>3 DEF RecorderInv, TicksOnStarted, ProposalId
<1>7. ResultsAfterRecording'
  <2> SUFFICES ASSUME NEW r \in resumes, r.value # NoAnswer, NEW i, i = r.id
               PROVE  /\ i \in ProposalId /\ i <= id
                      /\ ~Contract!InState(i, "Created")'
    BY <1>2 DEF ResultsAfterRecording, Contract!InState, Contract!Exists
  <2>1. i \in ProposalId /\ i <= current_proposal_id /\ ~Contract!InState(i, "Created")
    BY DEF RecorderInv, ResultsAfterRecording
  <2>2. i # id /\ i <= id
    BY <1>1, <1>3, <2>1 DEF ProposalId
  <2> QED BY <1>4, <2>1, <2>2 DEF Contract!InState, Contract!Exists
<1>8. Alone'
  BY <1>2 DEF RecorderInv, Alone
<1>9. Unanswered'
  <2> SUFFICES ASSUME NEW u \in Tick, tick[u].pc \in Past, NEW i, i = tick[u].id
               PROVE  NoResultYet(i)'
    BY <1>2 DEF Unanswered
  <2>1. i \in ProposalId /\ i <= current_proposal_id
    BY DEF RecorderInv, TicksOnStarted, Past
  <2>2. proposals'[i] = proposals[i]
    BY <1>3, <1>4, <2>1 DEF ProposalId
  <2>3. NoResultYet(i)
    BY DEF RecorderInv, Unanswered
  <2> QED BY <1>2, <2>2, <2>3 DEF NoResultYet, Contract!InState, Contract!Exists
<1>10. Shapes'
  BY <1>2 DEF RecorderInv, Shapes, Function
<1> QED BY <1>5, <1>6, <1>7, <1>8, <1>9, <1>10 DEF RecorderInv

\* The network times a yield out.
LEMMA NetworkTimeout ==
  ASSUME RecorderInv, UNCHANGED tick, NEW id \in ProposalId, Contract!YieldTimeout(id)
  PROVE  RecorderInv'
<1>1. /\ resumes' = resumes \cup {[id |-> id, value |-> NoAnswer]}
      /\ UNCHANGED <<current_proposal_id, proposals>>
  BY DEF Contract!YieldTimeout
<1>2. \A r \in resumes' : r \in resumes \/ r.value = NoAnswer
  BY <1>1
<1>3. Shapes' /\ ProposalsShaped' /\ TicksOnStarted' /\ Alone'
  BY <1>1 DEF RecorderInv, Shapes, Function, ProposalsShaped, TicksOnStarted, Alone,
              Contract!Exists
<1>4. ResultsAfterRecording'
  BY <1>1, <1>2 DEF RecorderInv, ResultsAfterRecording, Contract!InState, Contract!Exists
<1>5. Unanswered'
  BY <1>1, <1>2 DEF RecorderInv, Unanswered, NoResultYet, Contract!InState, Contract!Exists
<1> QED BY <1>3, <1>4, <1>5 DEF RecorderInv

\* The callback of the contract runs with a result or a time-out.
LEMMA Callback ==
  ASSUME RecorderInv, UNCHANGED tick, NEW r \in resumes, Contract!DeliverResume(r)
  PROVE  RecorderInv'
<1>1. PICK id : id = r.id
  OBVIOUS
<1>2. /\ resumes' \subseteq {q \in resumes : q.id # id}
      /\ UNCHANGED current_proposal_id
      /\ DOMAIN proposals' = ProposalId
      /\ \A other \in ProposalId : other # id => proposals'[other] = proposals[other]
  <2>1. /\ resumes' = {q \in resumes : q.id # id}
        /\ UNCHANGED current_proposal_id
    BY <1>1 DEF Contract!DeliverResume
  <2>2. \/ proposals' = proposals
        \/ proposals' = [proposals EXCEPT ![id].state = "TimedOut"]
        \/ proposals' = [proposals EXCEPT ![id].state = "Finalized",
                                          ![id].finalized_result = r.value]
    BY <1>1 DEF Contract!DeliverResume, Contract!return_coordination_result
  <2> QED BY <2>1, <2>2 DEF RecorderInv, ProposalsShaped
<1>3. ASSUME id \in ProposalId, Contract!Exists(id)
      PROVE  /\ "state" \in DOMAIN proposals'[id] /\ id <= current_proposal_id
             /\ r.value = NoAnswer => proposals'[id].state = "TimedOut"
             /\ proposals'[id].state # "Created"
  <2>1. "state" \in DOMAIN proposals[id] /\ id <= current_proposal_id
    BY <1>3 DEF RecorderInv, ProposalsShaped
  <2>2. CASE r.value = NoAnswer
    <3>1. proposals' = [proposals EXCEPT ![id].state = "TimedOut"]
      BY <1>1, <1>3, <2>2 DEF Contract!DeliverResume, Contract!return_coordination_result
    <3> QED BY <1>3, <2>1, <3>1 DEF RecorderInv, ProposalsShaped
  <2>3. CASE r.value # NoAnswer
    <3>1. proposals' = [proposals EXCEPT ![id].state = "Finalized",
                                         ![id].finalized_result = r.value]
      BY <1>1, <1>3, <2>3 DEF Contract!DeliverResume, Contract!return_coordination_result
    <3> QED BY <1>3, <2>1, <2>3, <3>1 DEF RecorderInv, ProposalsShaped
  <2> QED BY <2>2, <2>3
<1>4. ~Contract!Exists(id) => proposals' = proposals
  BY <1>1 DEF Contract!DeliverResume, Contract!return_coordination_result
<1>5. \A i \in ProposalId : Contract!InState(i, "Created")' => Contract!InState(i, "Created")
  BY <1>2, <1>3, <1>4 DEF Contract!InState, Contract!Exists
<1>6. ProposalsShaped'
  <2> SUFFICES ASSUME NEW i \in ProposalId, Contract!Exists(i)'
               PROVE  "state" \in DOMAIN proposals'[i] /\ i <= current_proposal_id
    BY <1>2 DEF RecorderInv, ProposalsShaped
  <2>1. CASE Contract!Exists(i)
    BY <1>2, <1>3, <2>1 DEF RecorderInv, ProposalsShaped
  <2>2. CASE ~Contract!Exists(i)
    BY <1>2, <1>4, <2>2 DEF Contract!Exists
  <2> QED BY <2>1, <2>2
<1>7. Shapes' /\ TicksOnStarted' /\ Alone'
  BY <1>2 DEF RecorderInv, Shapes, Function, TicksOnStarted, Alone
<1>8. ResultsAfterRecording'
  <2> SUFFICES ASSUME NEW q \in resumes, q.value # NoAnswer, NEW i, i = q.id
               PROVE  /\ i \in ProposalId /\ i <= current_proposal_id
                      /\ ~Contract!InState(i, "Created")'
    BY <1>2 DEF ResultsAfterRecording, Contract!InState, Contract!Exists
  <2> QED BY <1>5 DEF RecorderInv, ResultsAfterRecording
<1>9. Unanswered'
  <2> SUFFICES ASSUME NEW u \in Tick, tick[u].pc \in Past, NEW i, i = tick[u].id
               PROVE  NoResultYet(i)'
    BY DEF Unanswered
  <2>1. i \in ProposalId /\ NoResultYet(i)
    BY DEF RecorderInv, TicksOnStarted, Unanswered, Past
  <2>2. ~Contract!InState(i, "Created")' /\ \A q \in resumes' : q.id = i => q.value = NoAnswer
    BY <1>2, <1>5, <2>1 DEF NoResultYet
  <2>3. ~Contract!InState(i, "Finalized")'
    <3>1. CASE i = id /\ Contract!Exists(id)
      <4>1. r.value = NoAnswer
        BY <1>1, <2>1, <3>1 DEF NoResultYet
      <4> QED BY <1>3, <2>1, <3>1, <4>1 DEF Contract!InState
    <3>2. CASE i # id \/ ~Contract!Exists(id)
      BY <1>2, <1>4, <2>1, <3>2 DEF NoResultYet, Contract!InState, Contract!Exists
    <3> QED BY <3>1, <3>2
  <2> QED BY <2>2, <2>3 DEF NoResultYet
<1> QED BY <1>6, <1>7, <1>8, <1>9 DEF RecorderInv

\* After a restart no tick is under way.
LEMMA CrashForgets ==
  ASSUME RecorderInv, Crash
  PROVE  RecorderInv'
<1>1. /\ tick' = [t \in Tick |-> IdleTick]
      /\ UNCHANGED <<current_proposal_id, proposals, resumes>>
  BY DEF Crash, contractVars
<1>2. Shapes' /\ \A t \in Tick : tick'[t].pc = "idle"
  BY <1>1 DEF Shapes, Function, IdleTick
<1>3. ProposalsShaped' /\ ResultsAfterRecording'
  BY <1>1 DEF RecorderInv, ProposalsShaped, ResultsAfterRecording, Contract!InState,
              Contract!Exists
<1>4. TicksOnStarted' /\ Alone' /\ Unanswered'
  BY <1>2 DEF TicksOnStarted, Alone, Unanswered, Past
<1> QED BY <1>2, <1>3, <1>4 DEF RecorderInv

\* Workers touch neither ticks nor the contract.
LEMMA Elsewhere ==
  ASSUME RecorderInv, UNCHANGED <<tick, current_proposal_id, proposals, resumes>>
  PROVE  RecorderInv'
  BY DEF RecorderInv, Shapes, Function, ProposalsShaped, TicksOnStarted,
         ResultsAfterRecording, Alone, Unanswered, NoResultYet, Contract!InState,
         Contract!Exists

-----------------------------------------------------------------------------
(* The recording *)

\* At first there are neither ticks nor proposals nor results.
LEMMA InitRecorder == Init => RecorderInv
<1> SUFFICES ASSUME Init
             PROVE  RecorderInv
  OBVIOUS
<1>1. /\ tick = [t \in Tick |-> IdleTick]
      /\ proposals = [id \in ProposalId |-> NoProposal]
      /\ current_proposal_id = 0
      /\ resumes = {}
  BY DEF Init
<1>2. Shapes /\ \A t \in Tick : tick[t].pc = "idle"
  BY <1>1 DEF Shapes, Function, IdleTick
<1>3. ProposalsShaped /\ ResultsAfterRecording
  BY <1>1 DEF ProposalsShaped, ResultsAfterRecording, Contract!Exists
<1>4. TicksOnStarted /\ Alone /\ Unanswered
  BY <1>2 DEF TicksOnStarted, Alone, Unanswered, Past
<1> QED BY <1>2, <1>3, <1>4 DEF RecorderInv

\* Every step of coordinator, workers, requesters and network keeps it.
LEMMA NextRecorder == RecorderInv /\ [Next]_vars => RecorderInv'
<1> SUFFICES ASSUME RecorderInv, [Next]_vars
             PROVE  RecorderInv'
  OBVIOUS
<1>1. ASSUME NEW c \in Config, NEW n \in ExpectedCounts, Request(c, n)
      PROVE  RecorderInv'
  BY <1>1, NewProposal
<1>2. CASE Runtime
  <2>1. UNCHANGED tick
    BY <1>2 DEF Runtime
  <2>2. \/ \E id \in ProposalId : Contract!YieldTimeout(id)
        \/ \E r \in resumes : Contract!DeliverResume(r)
    BY <1>2 DEF Runtime, Contract!Runtime, Contract!ProposalId, ProposalId
  <2> QED BY <2>1, <2>2, NetworkTimeout, Callback
<1>3. ASSUME NEW w \in Worker, WorkerStep(w)
      PROVE  RecorderInv'
  BY <1>3, Elsewhere DEF WorkerStep, contractVars
<1>4. ASSUME NEW t \in Tick, checkAndCoordinate(t)
      PROVE  RecorderInv'
  BY <1>4, Start
<1>5. ASSUME NEW t \in Tick, Advance(t)
      PROVE  RecorderInv'
  BY <1>5, QuietStep, CallStep DEF Advance, QuietAdvance
<1>6. CASE Crash
  BY <1>6, CrashForgets
<1>7. CASE UNCHANGED vars
  BY <1>7, Elsewhere DEF vars, contractVars
<1> QED BY <1>1, <1>2, <1>3, <1>4, <1>5, <1>6, <1>7 DEF Next

\* The inductive invariant of the ticks and the contract.
THEOREM RecorderInvariant == Spec => []RecorderInv
BY InitRecorder, NextRecorder, PTL DEF Spec

\* Whatever ticks, workers, the network and crashes do, of the ticks on one
\* proposal one alone gets past the recording, and until it has answered no
\* result of the proposal exists.
THEOREM OneRecorderHolds == Spec => []OneRecorder
BY OneRecorderFollows, RecorderInvariant, PTL

-----------------------------------------------------------------------------
(* Types: the parts *)

\* Where a tick may be.
TickPc == {"idle", "discovering", "publishing", "resetting", "waiting", "reading",
           "recording"} \cup Past

\* What a worker submits.
Submission == [worker_id : Worker, result_hash : Agent!ResultValue]

\* The local variables of a tick, which has its tally once it has counted.
TickTyped(t) ==
  /\ tick[t].pc \in TickPc
  /\ tick[t].id \in 0 .. MaxProposals
  /\ tick[t].workers \in SUBSET Worker
  /\ tick[t].todo \in SUBSET Worker
  /\ tick[t].submissions \in Seq(Submission)
  /\ tick[t].listed \in SUBSET ProposalId
  /\ Counted(t) => tick[t].tally \in Tally

\* Every id given out has its proposal: nobody clears one during a round.
Started == \A id \in ProposalId : id <= current_proposal_id => Contract!Exists(id)

\* An execution has the task it votes on.
HandlersHaveTask ==
  \A w \in Worker, s \in Slot : Agent!Executing(w, s) => slot[w][s].config \in Config

\* The keys of the coordinator.
BoardTyped ==
  /\ snapshot \in [ProposalId -> SUBSET Worker]
  /\ archive \in [ProposalId -> Tally \cup {NoTally}]
  /\ index \in SUBSET ProposalId

\* The bounds of a behaviour.
CountersTyped == ticks \in 0 .. MaxTicks /\ crashes \in 0 .. MaxCrashes

\* The inductive invariant of TypeOK.
TypeInv ==
  /\ Contract!TypeOK /\ Started
  /\ Agent!TypeOK /\ HandlersHaveTask
  /\ \A t \in Tick : TickTyped(t)
  /\ BoardTyped
  /\ CountersTyped

-----------------------------------------------------------------------------
(* What the helpers return *)

\* The listing of a finite set names every member, and nothing else.
LEMMA Listed ==
  ASSUME NEW S, IsFiniteSet(S)
  PROVE  /\ Cardinality(S) \in Nat
         /\ SetToSeq(S) \in [1 .. Cardinality(S) -> S]
         /\ \A x \in S : \E i \in 1 .. Cardinality(S) : SetToSeq(S)[i] = x
<1> DEFINE n == Cardinality(S)
           good(f) == f \in [1 .. n -> S] /\ IsInjective(f)
<1>1. n \in Nat /\ \E f : good(f)
  <2>1. n \in Nat /\ Bijection(1 .. n, S) # {}
    BY FS_CardinalityType DEF ExistsBijection
  <2> QED BY <2>1 DEF Bijection, Injection
<1>2. SetToSeq(S) \in [1 .. n -> S] /\ IsInjective(SetToSeq(S))
  BY <1>1 DEF SetToSeq
<1>3. IsFiniteSet(1 .. n) /\ Cardinality(1 .. n) = n
  BY <1>1, FS_Interval
<1>4. SetToSeq(S) \in Injection(1 .. n, S)
  BY <1>2 DEF Injection
<1>5. SetToSeq(S) \in Surjection(1 .. n, S)
  BY <1>3, <1>4, FS_Injection
<1> QED BY <1>1, <1>2, <1>5 DEF Surjection

\* Workers read have a result.
LEMMA ReadHaveResults ==
  ASSUME NEW W \in SUBSET Worker, NEW read \in Readings(W)
  PROVE  /\ read \in SUBSET W
         /\ \A w \in read : result[w] # NoResult
         /\ ~EnsueMayFail => read = {w \in W : result[w] # NoResult}
BY DEF Readings, Reading

\* What is read of them is a result.
LEMMA ReadTyped ==
  ASSUME Agent!TypeOK, NEW W \in SUBSET Worker, NEW read \in Readings(W)
  PROVE  \A w \in read : result[w] \in Agent!ResultValue
<1>1. \A w \in read : w \in Worker /\ result[w] # NoResult
  BY ReadHaveResults
<1>2. result \in [Worker -> Agent!ResultValue \cup {NoResult}]
  BY DEF Agent!TypeOK
<1> QED BY <1>1, <1>2

\* The submissions are those of the workers read.
LEMMA SubmissionsListed ==
  ASSUME Agent!TypeOK, NEW W \in SUBSET Worker, NEW read \in Readings(W)
  PROVE  /\ SubmissionsOf(read) \in Seq(Submission)
         /\ LET subs == SubmissionsOf(read) IN
              {subs[i] : i \in DOMAIN subs}
                = {[worker_id |-> w, result_hash |-> result[w]] : w \in read}
<1> DEFINE n == Cardinality(read)
           order == SetToSeq(read)
<1>1. IsFiniteSet(read) /\ read \in SUBSET Worker
  BY ReadHaveResults, RoundAssumption, FS_Subset DEF RoundAssumption
<1>2. /\ n \in Nat
      /\ order \in [1 .. n -> read]
      /\ \A x \in read : \E i \in 1 .. n : order[i] = x
  BY <1>1, Listed
<1>3. SubmissionsOf(read)
        = [i \in 1 .. n |-> [worker_id |-> order[i], result_hash |-> result[order[i]]]]
  BY <1>2 DEF SubmissionsOf
<1>4. \A w \in read : w \in Worker /\ result[w] \in Agent!ResultValue
  BY <1>1, ReadTyped
<1> HIDE DEF n, order
<1>5. SubmissionsOf(read) \in [1 .. n -> Submission]
  BY <1>2, <1>3, <1>4 DEF Submission
<1>6. SubmissionsOf(read) \in Seq(Submission)
  BY <1>2, <1>5
<1>7. ASSUME NEW w \in read
      PROVE  \E i \in 1 .. n : SubmissionsOf(read)[i] = [worker_id |-> w, result_hash |-> result[w]]
  BY <1>2, <1>3
<1>8. ASSUME NEW i \in 1 .. n
      PROVE  \E w \in read : SubmissionsOf(read)[i] = [worker_id |-> w, result_hash |-> result[w]]
  BY <1>2, <1>3
<1>9. DOMAIN SubmissionsOf(read) = 1 .. n
  BY <1>3
<1> QED BY <1>6, <1>7, <1>8, <1>9

\* A tally is one, whoever was asked and whatever was read.
LEMMA TallyTyped ==
  ASSUME Agent!TypeOK, NEW id \in ProposalId, NEW W \in SUBSET Worker,
         NEW read \in Readings(W), NEW config
  PROVE  TallyOf(id, W, read, config) \in Tally
<1> DEFINE yes == {w \in read : result[w].vote = "Approved"}
<1>1. IsFiniteSet(read) /\ read \in SUBSET Worker
  BY ReadHaveResults, RoundAssumption, FS_Subset DEF RoundAssumption
<1>2. /\ Cardinality(read) \in Nat /\ Cardinality(yes) \in Nat
      /\ Cardinality(yes) <= Cardinality(read)
  <2>1. yes \in SUBSET read
    OBVIOUS
  <2> HIDE DEF yes
  <2>2. IsFiniteSet(yes) /\ Cardinality(yes) <= Cardinality(read)
    BY <1>1, <2>1, FS_Subset
  <2> QED BY <1>1, <2>2, FS_CardinalityType
<1>3. Cardinality(read) - Cardinality(yes) \in Nat
  BY <1>2
<1>4. [w \in read |-> result[w]] \in UNION {[V -> Agent!ResultValue] : V \in SUBSET Worker}
  <2>1. \A w \in read : result[w] \in Agent!ResultValue
    BY ReadTyped
  <2>2. [w \in read |-> result[w]] \in [read -> Agent!ResultValue]
    BY <2>1
  <2> QED BY <1>1, <2>2
<1> QED BY <1>2, <1>3, <1>4 DEF TallyOf, Tally, Vote

\* What is shown of a tally is fit for the chain.
LEMMA ShownTyped ==
  ASSUME NEW tally \in Tally
  PROVE  OnChainOf(tally) \in OnChain /\ OnChainOf(tally) # NoAnswer /\ tally # NoTally
BY RoundAssumption DEF RoundAssumption, Tally, OnChain, OnChainOf

-----------------------------------------------------------------------------
(* The contract keeps its types *)

\* Every id given out has its proposal: nobody clears one during a round.
ContractTyped == Contract!TypeOK /\ Started

\* The part of the contract the calls of a round touch.
LEMMA ContractTypes ==
  ContractTyped <=>
    /\ owner \in {Coordinator}
    /\ approved_codehashes \in SUBSET {Code}
    /\ coordinator_by_account_id \in [{Coordinator} -> {Code} \cup {NoCode}]
    /\ registered_workers \in [Worker -> Contract!RegisteredWorker \cup {NoWorker}]
    /\ manifesto \in BOOLEAN
    /\ current_proposal_id \in 0 .. MaxProposals
    /\ proposals \in [ProposalId -> Contract!Proposal \cup {NoProposal}]
    /\ yields \in [ProposalId -> {"none", "pending", "answered", "failed"}]
    /\ resumes \in SUBSET Contract!Resume
    /\ Started
BY DEF ContractTyped, Contract!TypeOK, Contract!ProposalId, ProposalId

\* The same for the next state.
LEMMA ContractTypesNext ==
  ASSUME ContractTyped, UNCHANGED adminVars,
         current_proposal_id' \in 0 .. MaxProposals,
         proposals' \in [ProposalId -> Contract!Proposal \cup {NoProposal}],
         yields' \in [ProposalId -> {"none", "pending", "answered", "failed"}],
         resumes' \in SUBSET Contract!Resume,
         Started'
  PROVE  ContractTyped'
BY DEF ContractTyped, Contract!TypeOK, Contract!ProposalId, ProposalId, adminVars

\* A stored proposal has its type: Exists tells it from NoProposal.
LEMMA ProposalTyped ==
  ASSUME ContractTyped, NEW id \in ProposalId, Contract!Exists(id)
  PROVE  proposals[id] \in Contract!Proposal
BY ContractTypes DEF Contract!Exists

\* Nothing happened to the contract.
LEMMA ContractStands ==
  ASSUME ContractTyped, UNCHANGED contractVars
  PROVE  ContractTyped'
BY DEF ContractTyped, Contract!TypeOK, Started, Contract!Exists, contractVars, adminVars

\* start_coordination stores a proposal under the next id, if there is one.
LEMMA RequestTyped ==
  ASSUME ContractTyped, NEW c \in Config, NEW n \in ExpectedCounts,
         Contract!start_coordination(c, n)
  PROVE  ContractTyped'
<1> DEFINE id == current_proposal_id + 1
           new == [state |-> "Created", config_hash |-> c, expected_worker_count |-> n,
                   worker_submissions |-> << >>, finalized_result |-> NoAnswer]
<1>1. /\ id \in ProposalId
      /\ current_proposal_id' = id
      /\ proposals' = [proposals EXCEPT ![id] = new]
      /\ yields' = [yields EXCEPT ![id] = "pending"]
      /\ UNCHANGED adminVars /\ UNCHANGED resumes
  BY DEF Contract!start_coordination, Contract!ProposalId, ProposalId, Contract!adminVars,
         adminVars
<1>2. n \in 0 .. Contract!U8 - 1
  BY RoundAssumption DEF RoundAssumption
<1>3. new \in Contract!Proposal
  BY <1>2 DEF Contract!Proposal
<1>4. new # NoProposal
  BY <1>3, RoundAssumption DEF RoundAssumption
<1> HIDE DEF new
<1>5. proposals' \in [ProposalId -> Contract!Proposal \cup {NoProposal}]
  BY <1>1, <1>3, ContractTypes
<1>6. yields' \in [ProposalId -> {"none", "pending", "answered", "failed"}]
  BY <1>1, ContractTypes
<1>7. current_proposal_id' \in 0 .. MaxProposals
  BY <1>1 DEF ProposalId
<1>8. Started'
  <2> SUFFICES ASSUME NEW q \in ProposalId, q <= id
               PROVE  proposals'[q] # NoProposal
    BY <1>1 DEF Started, Contract!Exists
  <2>1. CASE q = id
    BY <1>1, <1>4, <2>1, ContractTypes
  <2>2. CASE q # id
    <3>1. q <= current_proposal_id
      BY <2>2, ContractTypes DEF ProposalId
    <3> QED BY <1>1, <2>2, <3>1, ContractTypes DEF Started, Contract!Exists
  <2> QED BY <2>1, <2>2
<1> QED BY <1>1, <1>5, <1>6, <1>7, <1>8, ContractTypes, ContractTypesNext

\* A step that replaces one stored proposal by another leaves every id its own.
LEMMA ProposalReplaced ==
  ASSUME ContractTyped, NEW id \in ProposalId, Contract!Exists(id),
         NEW p \in Contract!Proposal,
         proposals' = [proposals EXCEPT ![id] = p],
         UNCHANGED <<adminVars, current_proposal_id>>,
         yields' \in [ProposalId -> {"none", "pending", "answered", "failed"}],
         resumes' \in SUBSET Contract!Resume
  PROVE  ContractTyped'
<1>1. p # NoProposal
  BY RoundAssumption DEF RoundAssumption
<1>2. proposals' \in [ProposalId -> Contract!Proposal \cup {NoProposal}]
  BY ContractTypes
<1>3. Started'
  BY <1>1, ContractTypes DEF Started, Contract!Exists
<1> QED BY <1>2, <1>3, ContractTypes, ContractTypesNext

\* Submissions are added to those of a proposal, which moves on.
LEMMA RecordTyped ==
  ASSUME ContractTyped, NEW id \in ProposalId, NEW subs \in Seq(Submission),
         Contract!record_worker_submissions(Coordinator, id, subs)
  PROVE  ContractTyped'
<1> DEFINE p == [proposals[id] EXCEPT !.worker_submissions = Contract!Recorded(id, subs),
                                      !.state = "WorkersCompleted"]
<1>1. Contract!Exists(id) /\ UNCHANGED <<adminVars, current_proposal_id, yields, resumes>>
  BY DEF Contract!record_worker_submissions, Contract!RecordAccepted, Contract!InState,
         Contract!adminVars, adminVars
<1>2. proposals[id] \in Contract!Proposal
  BY <1>1, ProposalTyped
<1>3. Contract!Recorded(id, subs) \in Seq(Submission)
  <2>1. proposals[id].worker_submissions \in Seq(Submission)
    BY <1>2 DEF Contract!Proposal, Submission
  <2> QED BY <2>1, ConcatProperties DEF Contract!Recorded
<1>4. p \in Contract!Proposal
  BY <1>2, <1>3 DEF Contract!Proposal, Submission
<1>5. proposals' = [proposals EXCEPT ![id] = p]
  <2>1. proposals' = [proposals EXCEPT ![id].worker_submissions = Contract!Recorded(id, subs),
                                       ![id].state = "WorkersCompleted"]
    BY DEF Contract!record_worker_submissions
  <2> QED BY <1>2, <2>1, ContractTypes DEF Contract!Proposal
<1> HIDE DEF p
<1> QED BY <1>1, <1>4, <1>5, ProposalReplaced, ContractTypes

\* A result is sent on its way.
LEMMA ResumeTyped ==
  ASSUME ContractTyped, NEW id \in ProposalId, NEW value \in OnChain, NEW config,
         Contract!coordinator_resume(Coordinator, id, value, config)
  PROVE  ContractTyped'
<1>1. /\ UNCHANGED <<adminVars, current_proposal_id, proposals, yields>>
      /\ resumes' \subseteq resumes \cup {[id |-> id, value |-> value]}
  BY DEF Contract!coordinator_resume, Contract!PromiseYieldResume, Contract!adminVars, adminVars
<1>2. [id |-> id, value |-> value] \in Contract!Resume
  BY DEF Contract!Resume, Contract!ProposalId, ProposalId
<1>3. Started'
  BY <1>1 DEF ContractTyped, Started, Contract!Exists
<1> QED BY <1>1, <1>2, <1>3, ContractTypes, ContractTypesNext

\* The network times out, or runs the callback.
LEMMA RuntimeTyped ==
  ASSUME ContractTyped, Contract!Runtime
  PROVE  ContractTyped'
<1>1. ASSUME NEW id \in ProposalId, Contract!YieldTimeout(id)
      PROVE  ContractTyped'
  <2>1. /\ resumes' = resumes \cup {[id |-> id, value |-> NoAnswer]}
        /\ UNCHANGED <<adminVars, current_proposal_id, proposals, yields>>
    BY <1>1 DEF Contract!YieldTimeout, Contract!adminVars, adminVars
  <2>2. [id |-> id, value |-> NoAnswer] \in Contract!Resume
    BY DEF Contract!Resume, Contract!ProposalId, ProposalId
  <2>3. Started'
    BY <2>1 DEF ContractTyped, Started, Contract!Exists
  <2> QED BY <2>1, <2>2, <2>3, ContractTypes, ContractTypesNext
<1>2. ASSUME NEW r \in resumes, Contract!DeliverResume(r)
      PROVE  ContractTyped'
  <2> DEFINE id == r.id
  <2>1. /\ id \in ProposalId
        /\ r.value \in OnChain \cup {NoAnswer}
    BY ContractTypes DEF Contract!Resume, Contract!ProposalId, ProposalId
  <2>2. /\ yields' = [yields EXCEPT ![id] = IF r.value = NoAnswer THEN "failed" ELSE "answered"]
        /\ resumes' = {q \in resumes : q.id # id}
        /\ Contract!return_coordination_result(id, r)
        /\ UNCHANGED <<adminVars, current_proposal_id>>
    BY <1>2 DEF Contract!DeliverResume, Contract!adminVars, adminVars
  <2> HIDE DEF id
  <2>3. /\ yields' \in [ProposalId -> {"none", "pending", "answered", "failed"}]
        /\ resumes' \in SUBSET Contract!Resume
    BY <2>1, <2>2, ContractTypes
  <2>4. CASE ~Contract!Exists(id)
    <3>1. UNCHANGED proposals
      BY <2>2, <2>4 DEF Contract!return_coordination_result
    <3>2. Started'
      BY <2>2, <3>1 DEF ContractTyped, Started, Contract!Exists
    <3> QED BY <2>2, <2>3, <3>1, <3>2, ContractTypes, ContractTypesNext
  <2>5. CASE Contract!Exists(id) /\ r.value = NoAnswer
    <3> DEFINE p == [proposals[id] EXCEPT !.state = "TimedOut"]
    <3>1. proposals[id] \in Contract!Proposal
      BY <2>1, <2>5, ProposalTyped
    <3>2. p \in Contract!Proposal
      BY <3>1 DEF Contract!Proposal
    <3>3. proposals' = [proposals EXCEPT ![id] = p]
      <4>1. proposals' = [proposals EXCEPT ![id].state = "TimedOut"]
        BY <2>2, <2>5 DEF Contract!return_coordination_result
      <4> QED BY <4>1, ContractTypes
    <3> HIDE DEF p
    <3> QED BY <2>1, <2>2, <2>3, <2>5, <3>2, <3>3, ProposalReplaced
  <2>6. CASE Contract!Exists(id) /\ r.value # NoAnswer
    <3> DEFINE p == [proposals[id] EXCEPT !.state = "Finalized", !.finalized_result = r.value]
    <3>1. proposals[id] \in Contract!Proposal
      BY <2>1, <2>6, ProposalTyped
    <3>2. p \in Contract!Proposal
      BY <2>1, <3>1 DEF Contract!Proposal
    <3>3. proposals' = [proposals EXCEPT ![id] = p]
      <4>1. proposals' = [proposals EXCEPT ![id].state = "Finalized",
                                           ![id].finalized_result = r.value]
        BY <2>2, <2>6 DEF Contract!return_coordination_result
      <4> QED BY <3>1, <4>1, ContractTypes DEF Contract!Proposal
    <3> HIDE DEF p
    <3> QED BY <2>1, <2>2, <2>3, <2>6, <3>2, <3>3, ProposalReplaced
  <2> QED BY <2>4, <2>5, <2>6
<1> QED BY <1>1, <1>2 DEF Contract!Runtime, Contract!ProposalId, ProposalId

-----------------------------------------------------------------------------
(* The workers keep their types *)

\* What the status key of a worker may say.
Status == {"idle", "pending", "processing", "completed", "failed"}

\* A handler of a worker, with the task it read.
Handler ==
  [pc : {"idle", "looking", "pending seen", "starting", "working", "voted"},
   config : Config \cup {NoConfig}, via : {"timer", "route"}]

\* The types of the workers; a handler at work has the task it votes on.
WorkersTyped == Agent!TypeOK /\ HandlersHaveTask

\* The types of the workers, one variable at a time.
LEMMA WorkerTypes ==
  WorkersTyped <=>
    /\ task_definition \in Config \cup {NoConfig}
    /\ status \in [Worker -> Status]
    /\ result \in [Worker -> Agent!ResultValue \cup {NoResult}]
    /\ slot \in [Worker -> [Slot -> Handler]]
    /\ isExecuting \in [Worker -> BOOLEAN]
    /\ restarts \in 0 .. MaxRestarts
    /\ HandlersHaveTask
BY DEF WorkersTyped, Agent!TypeOK, Status, Handler

\* The same for the next state.
LEMMA WorkerTypesNext ==
  ASSUME task_definition' \in Config \cup {NoConfig},
         status' \in [Worker -> Status],
         result' \in [Worker -> Agent!ResultValue \cup {NoResult}],
         slot' \in [Worker -> [Slot -> Handler]],
         isExecuting' \in [Worker -> BOOLEAN],
         restarts' \in 0 .. MaxRestarts,
         HandlersHaveTask'
  PROVE  WorkersTyped'
BY DEF WorkersTyped, Agent!TypeOK, Status, Handler

\* Nothing happened to the workers.
LEMMA WorkersStand ==
  ASSUME WorkersTyped, UNCHANGED workerVars
  PROVE  WorkersTyped'
BY DEF WorkersTyped, Agent!TypeOK, HandlersHaveTask, Agent!Executing, workerVars

\* A status written, or lost.
LEMMA StatusTyped ==
  ASSUME WorkersTyped, NEW w \in Worker, NEW s \in Status, Agent!WriteStatus(w, s)
  PROVE  /\ status' \in [Worker -> Status]
         /\ \A x \in Worker : status'[x] = status[x] \/ (x = w /\ status'[x] = s)
<1>1. PICK stored \in {status[w], s} : status' = [status EXCEPT ![w] = stored]
  BY DEF Agent!WriteStatus, Agent!Stored
<1> QED BY <1>1, WorkerTypes

\* The coordinator writes the task definition, or the status of a worker.
LEMMA AssignedTyped ==
  ASSUME WorkersTyped, UNCHANGED <<result, slot, isExecuting, restarts>>,
         \/ task_definition' \in Config \cup {NoConfig} /\ UNCHANGED status
         \/ UNCHANGED task_definition /\ \E w \in Worker : Agent!WriteStatus(w, "pending")
  PROVE  WorkersTyped'
<1>1. HandlersHaveTask'
  BY DEF WorkersTyped, HandlersHaveTask, Agent!Executing
<1>2. status' \in [Worker -> Status]
  <2>1. "pending" \in Status
    BY DEF Status
  <2> QED BY <2>1, StatusTyped, WorkerTypes
<1> QED BY <1>1, <1>2, WorkerTypes, WorkerTypesNext

\* One handler is replaced by another that has its task.
LEMMA HandlerTyped ==
  ASSUME WorkersTyped, NEW w \in Worker, NEW s \in Slot, NEW h \in Handler,
         slot' = [slot EXCEPT ![w][s] = h],
         h.pc \in {"starting", "working", "voted"} => h.config \in Config
  PROVE  /\ slot' \in [Worker -> [Slot -> Handler]]
         /\ slot'[w][s] = h
         /\ \A x \in Worker, r \in Slot : slot'[x][r] = slot[x][r] \/ (x = w /\ r = s)
         /\ HandlersHaveTask'
<1>1. /\ slot' \in [Worker -> [Slot -> Handler]]
      /\ slot'[w][s] = h
      /\ \A x \in Worker, r \in Slot : slot'[x][r] = slot[x][r] \/ (x = w /\ r = s)
  BY WorkerTypes
<1>2. HandlersHaveTask'
  <2> SUFFICES ASSUME NEW x \in Worker, NEW r \in Slot,
                      slot'[x][r].pc \in {"starting", "working", "voted"}
               PROVE  slot'[x][r].config \in Config
    BY DEF HandlersHaveTask, Agent!Executing
  <2>1. CASE slot'[x][r] = slot[x][r]
    BY <2>1 DEF WorkersTyped, HandlersHaveTask, Agent!Executing
  <2>2. CASE x = w /\ r = s
    BY <1>1, <2>2
  <2> QED BY <1>1, <2>1, <2>2
<1> QED BY <1>1, <1>2

\* A worker starts with idle handlers.
LEMMA IdleTyped == Agent!Idle \in Handler /\ Agent!Idle.pc = "idle"
BY DEF Agent!Idle, Handler

\* A handler moves on with the task it has.
LEMMA MovedTyped ==
  ASSUME WorkersTyped, NEW w \in Worker, NEW s \in Slot,
         NEW pc \in {"idle", "looking", "pending seen", "working", "voted"},
         pc \in {"working", "voted"} => Agent!Executing(w, s),
         Agent!Goto(w, s, pc)
  PROVE  /\ slot' \in [Worker -> [Slot -> Handler]]
         /\ slot'[w][s].pc = pc
         /\ \A x \in Worker, r \in Slot : slot'[x][r] = slot[x][r] \/ (x = w /\ r = s)
         /\ HandlersHaveTask'
<1> DEFINE h == [slot[w][s] EXCEPT !.pc = pc]
<1>1. slot[w][s] \in Handler
  BY WorkerTypes
<1>2. h \in Handler /\ h.pc = pc /\ h.config = slot[w][s].config
  BY <1>1 DEF Handler
<1>3. h.pc \in {"starting", "working", "voted"} => h.config \in Config
  BY <1>2 DEF WorkersTyped, HandlersHaveTask
<1>4. slot' = [slot EXCEPT ![w][s] = h]
  BY WorkerTypes DEF Agent!Goto
<1> HIDE DEF h
<1> QED BY <1>2, <1>3, <1>4, HandlerTyped

\* An execution that ends leaves an idle handler and touches no other.
LEMMA FinishedTyped ==
  ASSUME WorkersTyped, NEW w \in Worker, NEW s \in Slot, Agent!Finish(w, s)
  PROVE  /\ slot' \in [Worker -> [Slot -> Handler]]
         /\ slot'[w][s] = Agent!Idle
         /\ \A x \in Worker, r \in Slot : slot'[x][r] = slot[x][r] \/ (x = w /\ r = s)
         /\ HandlersHaveTask'
         /\ isExecuting' \in [Worker -> BOOLEAN]
<1>1. slot' = [slot EXCEPT ![w][s] = Agent!Idle]
  BY DEF Agent!Finish
<1>2. isExecuting' \in [Worker -> BOOLEAN]
  BY WorkerTypes DEF Agent!Finish
<1> QED BY <1>1, <1>2, IdleTyped, HandlerTyped

\* Every step of a worker, initializeWorker included, keeps the types.
LEMMA WorkerStepTyped ==
  ASSUME WorkersTyped, NEW w \in Worker, Agent!WorkerStep(w)
  PROVE  WorkersTyped'
<1>1. ASSUME NEW s \in Slot, Agent!PollStatus(w, s)
      PROVE  WorkersTyped'
  <2>1. Agent!Goto(w, s, "pending seen")
        /\ UNCHANGED <<task_definition, status, result, isExecuting, restarts>>
    BY <1>1 DEF Agent!PollStatus
  <2> QED BY <2>1, MovedTyped, WorkerTypes, WorkerTypesNext
<1>2. ASSUME NEW s \in Slot, Agent!ReadTask(w, s), task_definition = NoConfig
      PROVE  WorkersTyped'
  <2>1. slot' = [slot EXCEPT ![w][s] = Agent!Idle]
        /\ UNCHANGED <<task_definition, status, result, isExecuting, restarts>>
    BY <1>2 DEF Agent!ReadTask
  <2> QED BY <2>1, IdleTyped, HandlerTyped, WorkerTypes, WorkerTypesNext
<1>3. ASSUME NEW s \in Slot, Agent!ReadTask(w, s), task_definition # NoConfig
      PROVE  WorkersTyped'
  <2> DEFINE h == [slot[w][s] EXCEPT !.pc = "starting", !.config = task_definition]
  <2>1. /\ slot \in [Worker -> [Slot -> Handler]] /\ slot[w][s] \in Handler
        /\ task_definition \in Config
    BY <1>3, WorkerTypes
  <2>2. h \in Handler /\ h.config \in Config
    BY <2>1 DEF Handler
  <2>3. /\ slot' = [slot EXCEPT ![w][s].pc = "starting", ![w][s].config = task_definition]
        /\ isExecuting' = [isExecuting EXCEPT ![w] = TRUE]
        /\ UNCHANGED <<task_definition, status, result, restarts>>
    BY <1>3 DEF Agent!ReadTask
  <2>4. slot' = [slot EXCEPT ![w][s] = h]
    BY <2>1, <2>3 DEF Handler
  <2> HIDE DEF h
  <2>5. isExecuting' \in [Worker -> BOOLEAN]
    BY <2>3, WorkerTypes
  <2>6. slot' \in [Worker -> [Slot -> Handler]] /\ HandlersHaveTask'
    BY <2>2, <2>4, HandlerTyped
  <2> QED BY <2>3, <2>5, <2>6, WorkerTypes, WorkerTypesNext
<1>4. ASSUME NEW s \in Slot, Agent!StartProcessing(w, s)
      PROVE  WorkersTyped'
  <2>1. /\ Agent!Goto(w, s, "working") /\ Agent!Executing(w, s)
        /\ Agent!WriteStatus(w, "processing")
        /\ UNCHANGED <<task_definition, result, isExecuting, restarts>>
    BY <1>4 DEF Agent!StartProcessing, Agent!Executing
  <2>2. status' \in [Worker -> Status]
    BY <2>1, StatusTyped DEF Status
  <2> QED BY <2>1, <2>2, MovedTyped, WorkerTypes, WorkerTypesNext
<1>5. ASSUME NEW s \in Slot, NEW v \in Vote, Agent!WriteVote(w, s, v)
      PROVE  WorkersTyped'
  <2> DEFINE r == [config |-> slot[w][s].config, vote |-> v]
  <2>1. /\ Agent!Goto(w, s, "voted") /\ Agent!Executing(w, s)
        /\ Agent!WriteResult(w, r)
        /\ UNCHANGED <<task_definition, status, isExecuting, restarts>>
    BY <1>5 DEF Agent!WriteVote, Agent!Executing
  <2>2. r \in Agent!ResultValue
    BY <2>1 DEF WorkersTyped, HandlersHaveTask, Agent!ResultValue
  <2> HIDE DEF r
  <2>3. PICK stored \in {result[w], r} : result' = [result EXCEPT ![w] = stored]
    BY <2>1 DEF Agent!WriteResult, Agent!Stored
  <2>4. result' \in [Worker -> Agent!ResultValue \cup {NoResult}]
    BY <2>2, <2>3, WorkerTypes
  <2> QED BY <2>1, <2>4, MovedTyped, WorkerTypes, WorkerTypesNext
<1>6. ASSUME NEW s \in Slot, Agent!Complete(w, s) \/ Agent!Fail(w, s)
      PROVE  WorkersTyped'
  <2>1. PICK outcome \in Status : Agent!WriteStatus(w, outcome)
    BY <1>6 DEF Agent!Complete, Agent!Fail, Status
  <2>2. Agent!Finish(w, s) /\ UNCHANGED <<task_definition, result, restarts>>
    BY <1>6 DEF Agent!Complete, Agent!Fail
  <2>3. status' \in [Worker -> Status]
    BY <2>1, StatusTyped
  <2> QED BY <2>2, <2>3, FinishedTyped, WorkerTypes, WorkerTypesNext
<1>7. CASE Agent!initializeWorker(w)
  <2>1. /\ slot' = [slot EXCEPT ![w] = [s \in Slot |-> Agent!Idle]]
        /\ isExecuting' = [isExecuting EXCEPT ![w] = FALSE]
        /\ Agent!WriteStatus(w, "idle")
        /\ restarts < MaxRestarts /\ restarts' = restarts + 1
        /\ UNCHANGED <<task_definition, result>>
    BY <1>7 DEF Agent!initializeWorker
  <2>2. slot' \in [Worker -> [Slot -> Handler]] /\ isExecuting' \in [Worker -> BOOLEAN]
    BY <2>1, IdleTyped, WorkerTypes
  <2>3. HandlersHaveTask'
    <3> SUFFICES ASSUME NEW x \in Worker, NEW s \in Slot,
                        slot'[x][s].pc \in {"starting", "working", "voted"}
                 PROVE  slot'[x][s].config \in Config
      BY DEF HandlersHaveTask, Agent!Executing
    <3>1. slot'[x][s] = slot[x][s]
      BY <2>1, IdleTyped, WorkerTypes
    <3> QED BY <3>1 DEF WorkersTyped, HandlersHaveTask, Agent!Executing
  <2>4. status' \in [Worker -> Status]
    BY <2>1, StatusTyped DEF Status
  <2>5. restarts' \in 0 .. MaxRestarts
    BY <2>1, WorkerTypes, RoundAssumption DEF RoundAssumption
  <2> QED BY <2>1, <2>2, <2>3, <2>4, <2>5, WorkerTypes, WorkerTypesNext
<1>8. ASSUME NEW s \in Slot, Agent!LookAtFlag(w, s)
      PROVE  WorkersTyped'
  <2>1. Agent!Goto(w, s, "looking")
        /\ UNCHANGED <<task_definition, status, result, isExecuting, restarts>>
    BY <1>8 DEF Agent!LookAtFlag
  <2> QED BY <2>1, MovedTyped, WorkerTypes, WorkerTypesNext
<1>9. ASSUME NEW s \in Slot, Agent!ReadStatus(w, s)
      PROVE  WorkersTyped'
  <2>1. PICK pc \in {"idle", "pending seen"} :
          Agent!Goto(w, s, pc)
            /\ UNCHANGED <<task_definition, status, result, isExecuting, restarts>>
    BY <1>9, Zenon DEF Agent!ReadStatus
  <2> QED BY <2>1, MovedTyped, WorkerTypes, WorkerTypesNext
<1> QED BY <1>1, <1>2, <1>3, <1>4, <1>5, <1>6, <1>7, <1>8, <1>9
        DEF Agent!WorkerStep, Agent!Proceed, Vote

-----------------------------------------------------------------------------
(* Ticks and keys keep their types *)

\* The types of all ticks in flight.
TicksTyped == \A t \in Tick : TickTyped(t)

\* What a step of one tick has to show for the types of all.
LEMMA OneTickTyped ==
  ASSUME TicksTyped, Shapes, NEW t \in Tick,
         \A u \in Tick : u # t => tick'[u] = tick[u],
         TickTyped(t)'
  PROVE  TicksTyped'
<1> SUFFICES ASSUME NEW u \in Tick
             PROVE  TickTyped(u)'
  BY DEF TicksTyped
<1>1. CASE u # t
  BY <1>1 DEF TicksTyped, TickTyped, Counted
<1> QED BY <1>1

\* A tick that only moves, with its tally if it is past the counting.
LEMMA GotoTyped ==
  ASSUME TicksTyped, Shapes, NEW t \in Tick, NEW pc \in TickPc, Goto(t, pc),
         pc \in Past \ {"aggregating"} => Counted(t)
  PROVE  TicksTyped'
<1>1. /\ tick'[t] = [tick[t] EXCEPT !.pc = pc]
      /\ \A u \in Tick : u # t => tick'[u] = tick[u]
  BY DEF Goto, Shapes
<1>2. /\ tick'[t].pc = pc /\ tick'[t].id = tick[t].id /\ tick'[t].workers = tick[t].workers
      /\ tick'[t].todo = tick[t].todo /\ tick'[t].submissions = tick[t].submissions
      /\ tick'[t].tally = tick[t].tally /\ tick'[t].listed = tick[t].listed
  BY <1>1 DEF Shapes, Function, IdleTick
<1>3. TickTyped(t)'
  BY <1>2 DEF TicksTyped, TickTyped, Counted
<1> QED BY <1>1, <1>3, OneTickTyped

\* A tick that ends becomes IdleTick, whose fields have their types.
LEMMA EndTyped ==
  ASSUME TicksTyped, Shapes, NEW t \in Tick, End(t)
  PROVE  TicksTyped'
<1>1. tick'[t] = IdleTick /\ \A u \in Tick : u # t => tick'[u] = tick[u]
  BY DEF End, Shapes
<1>2. TickTyped(t)'
  BY <1>1, RoundAssumption DEF IdleTick, TickTyped, TickPc, Counted, Past, RoundAssumption
<1> QED BY <1>1, <1>2, OneTickTyped

\* Stored is what was there or what was written.
LEMMA StoredIsOneOf ==
  ASSUME NEW old, NEW new, NEW stored \in Agent!Stored(old, new)
  PROVE  stored = old \/ stored = new
BY DEF Agent!Stored

\* The steps of a tick between the calls on the contract.
LEMMA QuietTyped ==
  ASSUME TypeInv, RecorderInv, NEW t \in Tick, QuietAdvance(t)
  PROVE  /\ TicksTyped' /\ BoardTyped' /\ CountersTyped' /\ WorkersTyped'
         /\ UNCHANGED contractVars
<1>0. TicksTyped /\ Shapes /\ WorkersTyped /\ ContractTyped /\ BoardTyped /\ CountersTyped
      /\ TickTyped(t)
  BY DEF TypeInv, RecorderInv, TicksTyped, WorkersTyped, ContractTyped
<1>1. CASE getActiveWorkers(t)
  <2>1. PICK W \in ActiveSets :
          tick' = [tick EXCEPT ![t].pc = "publishing", ![t].workers = W, ![t].todo = W]
    BY <1>1 DEF getActiveWorkers
  <2>2. W \in SUBSET Worker
    BY RoundAssumption DEF RoundAssumption
  <2>3. /\ tick'[t].pc = "publishing" /\ tick'[t].id = tick[t].id
        /\ tick'[t].workers = W /\ tick'[t].todo = W
        /\ tick'[t].submissions = tick[t].submissions /\ tick'[t].listed = tick[t].listed
        /\ \A u \in Tick : u # t => tick'[u] = tick[u]
    BY <1>0, <2>1 DEF Shapes, Function, IdleTick
  <2>4. TickTyped(t)'
    BY <1>0, <2>2, <2>3 DEF TickTyped, TickPc, Counted, Past
  <2>5. UNCHANGED <<contractVars, workerVars, boardVars, ticks, crashes>>
    BY <1>1 DEF getActiveWorkers
  <2>6. BoardTyped' /\ CountersTyped'
    BY <1>0, <2>5 DEF BoardTyped, CountersTyped, boardVars
  <2> QED BY <1>0, <2>3, <2>4, <2>5, <2>6, OneTickTyped, WorkersStand
<1>2. CASE PublishTask(t)
  <2>1. /\ tick[t].pc = "publishing"
        /\ UNCHANGED <<contractVars, status, result, slot, isExecuting, restarts>>
        /\ UNCHANGED <<boardVars, ticks, crashes>>
        /\ Goto(t, "resetting")
    BY <1>2 DEF PublishTask, At
  <2>2. TicksTyped'
    BY <1>0, <2>1, GotoTyped DEF TickPc, Past
  <2>3. tick[t].id \in ProposalId /\ Contract!Exists(tick[t].id)
    BY <1>0, <2>1 DEF RecorderInv, TicksOnStarted, ContractTyped, Started
  <2>4. proposals[tick[t].id].config_hash \in Config
    BY <1>0, <2>3, ProposalTyped DEF Contract!Proposal
  <2>5. task_definition' \in Config \cup {NoConfig}
    BY <1>0, <1>2, <2>4, StoredIsOneOf, WorkerTypes DEF PublishTask
  <2>6. WorkersTyped'
    BY <1>0, <2>1, <2>5, AssignedTyped
  <2>7. BoardTyped' /\ CountersTyped'
    BY <1>0, <2>1 DEF BoardTyped, CountersTyped, boardVars
  <2> QED BY <2>1, <2>2, <2>6, <2>7
<1>3. ASSUME NEW w \in Worker, ResetStatus(t, w)
      PROVE  /\ TicksTyped' /\ BoardTyped' /\ CountersTyped' /\ WorkersTyped'
             /\ UNCHANGED contractVars
  <2>1. /\ tick[t].pc = "resetting"
        /\ tick' = [tick EXCEPT ![t].todo = @ \ {w}]
        /\ Agent!WriteStatus(w, "pending")
        /\ UNCHANGED <<contractVars, task_definition, result, slot, isExecuting, restarts>>
        /\ UNCHANGED <<boardVars, ticks, crashes>>
    BY <1>3 DEF ResetStatus, At
  <2>2. /\ tick'[t].pc = tick[t].pc /\ tick'[t].id = tick[t].id
        /\ tick'[t].workers = tick[t].workers /\ tick'[t].todo = tick[t].todo \ {w}
        /\ tick'[t].submissions = tick[t].submissions /\ tick'[t].listed = tick[t].listed
        /\ \A u \in Tick : u # t => tick'[u] = tick[u]
    BY <1>0, <2>1 DEF Shapes, Function, IdleTick
  <2>3. TickTyped(t)'
    BY <1>0, <2>1, <2>2 DEF TickTyped, Counted, Past
  <2>4. BoardTyped' /\ CountersTyped'
    BY <1>0, <2>1 DEF BoardTyped, CountersTyped, boardVars
  <2> QED BY <1>0, <2>1, <2>2, <2>3, <2>4, OneTickTyped, AssignedTyped
<1>4. CASE TakeSnapshot(t)
  <2>1. /\ tick[t].pc = "resetting"
        /\ UNCHANGED <<contractVars, workerVars, archive, index, ticks, crashes>>
        /\ End(t) \/ Goto(t, "waiting")
    BY <1>4 DEF TakeSnapshot, At
  <2>2. TicksTyped'
    BY <1>0, <2>1, GotoTyped, EndTyped DEF TickPc, Past
  <2>3. snapshot' \in [ProposalId -> SUBSET Worker]
    <3>1. \/ UNCHANGED snapshot
          \/ \E stored \in Agent!Stored(snapshot[tick[t].id], tick[t].workers) :
               snapshot' = [snapshot EXCEPT ![tick[t].id] = stored]
      BY <1>4 DEF TakeSnapshot
    <3>2. tick[t].workers \in SUBSET Worker /\ tick[t].id \in ProposalId
      BY <1>0, <2>1 DEF TickTyped, RecorderInv, TicksOnStarted
    <3> QED BY <1>0, <3>1, <3>2, StoredIsOneOf DEF BoardTyped
  <2>4. BoardTyped' /\ CountersTyped'
    BY <1>0, <2>1, <2>3 DEF BoardTyped, CountersTyped
  <2> QED BY <1>0, <2>1, <2>2, <2>4, WorkersStand
<1>5. CASE AllDone(t)
  <2>1. /\ Goto(t, "reading")
        /\ UNCHANGED <<contractVars, workerVars, boardVars, ticks, crashes>>
    BY <1>5 DEF AllDone
  <2>2. TicksTyped'
    BY <1>0, <2>1, GotoTyped DEF TickPc, Past
  <2>3. BoardTyped' /\ CountersTyped'
    BY <1>0, <2>1 DEF BoardTyped, CountersTyped, boardVars
  <2> QED BY <1>0, <2>1, <2>2, <2>3, WorkersStand
<1>6. CASE WaitTimeout(t)
  <2>1. End(t) /\ UNCHANGED <<contractVars, workerVars, boardVars, ticks, crashes>>
    BY <1>6 DEF WaitTimeout
  <2>2. BoardTyped' /\ CountersTyped'
    BY <1>0, <2>1 DEF BoardTyped, CountersTyped, boardVars
  <2> QED BY <1>0, <2>1, <2>2, EndTyped, WorkersStand
<1>7. CASE readResultsWithRetry(t)
  <2>1. PICK read \in Readings(tick[t].workers) :
          tick' = [tick EXCEPT ![t].pc = "recording", ![t].submissions = SubmissionsOf(read)]
    BY <1>7 DEF readResultsWithRetry
  <2>2. SubmissionsOf(read) \in Seq(Submission)
    BY <1>0, SubmissionsListed DEF TickTyped, WorkersTyped
  <2>3. /\ tick'[t].pc = "recording" /\ tick'[t].id = tick[t].id
        /\ tick'[t].workers = tick[t].workers /\ tick'[t].todo = tick[t].todo
        /\ tick'[t].submissions = SubmissionsOf(read) /\ tick'[t].listed = tick[t].listed
        /\ \A u \in Tick : u # t => tick'[u] = tick[u]
    BY <1>0, <2>1 DEF Shapes, Function, IdleTick
  <2>4. TickTyped(t)'
    BY <1>0, <2>2, <2>3 DEF TickTyped, TickPc, Counted, Past
  <2>5. UNCHANGED <<contractVars, workerVars, boardVars, ticks, crashes>>
    BY <1>7 DEF readResultsWithRetry
  <2>6. BoardTyped' /\ CountersTyped'
    BY <1>0, <2>5 DEF BoardTyped, CountersTyped, boardVars
  <2> QED BY <1>0, <2>3, <2>4, <2>5, <2>6, OneTickTyped, WorkersStand
<1>8. CASE aggregateResults(t)
  <2>0. tick[t].pc = "aggregating" /\ tick[t].id \in ProposalId
    BY <1>8 DEF aggregateResults, At, RecorderInv, TicksOnStarted
  <2>1. PICK stored \in Reading(snapshot[tick[t].id], {}),
             config \in Reading(task_definition, NoConfig) :
          \E W \in (IF stored = {} THEN ActiveSets ELSE {stored}) :
            \E read \in Readings(W) :
              tick' = [tick EXCEPT ![t].pc = "archiving",
                                   ![t].tally = TallyOf(tick[t].id, W, read, config)]
    BY <1>8 DEF aggregateResults
  <2>2. PICK W \in (IF stored = {} THEN ActiveSets ELSE {stored}) :
          \E read \in Readings(W) :
            tick' = [tick EXCEPT ![t].pc = "archiving",
                                 ![t].tally = TallyOf(tick[t].id, W, read, config)]
    BY <2>1
  <2>9. PICK read \in Readings(W) :
          tick' = [tick EXCEPT ![t].pc = "archiving",
                               ![t].tally = TallyOf(tick[t].id, W, read, config)]
    BY <2>2
  <2>3. W \in SUBSET Worker
    <3>1. stored \in SUBSET Worker
      BY <1>0, <2>0 DEF Reading, BoardTyped
    <3> QED BY <3>1, RoundAssumption DEF RoundAssumption
  <2>4. TallyOf(tick[t].id, W, read, config) \in Tally
    BY <1>0, <2>0, <2>3, TallyTyped DEF WorkersTyped
  <2>5. /\ tick'[t].pc = "archiving" /\ tick'[t].id = tick[t].id
        /\ tick'[t].workers = tick[t].workers /\ tick'[t].todo = tick[t].todo
        /\ tick'[t].submissions = tick[t].submissions /\ tick'[t].listed = tick[t].listed
        /\ tick'[t].tally = TallyOf(tick[t].id, W, read, config)
        /\ \A u \in Tick : u # t => tick'[u] = tick[u]
    BY <1>0, <2>9 DEF Shapes, Function, IdleTick
  <2>6. TickTyped(t)'
    BY <1>0, <2>4, <2>5 DEF TickTyped, TickPc, Past
  <2>7. UNCHANGED <<contractVars, workerVars, boardVars, ticks, crashes>>
    BY <1>8 DEF aggregateResults
  <2>8. BoardTyped' /\ CountersTyped'
    BY <1>0, <2>7 DEF BoardTyped, CountersTyped, boardVars
  <2> QED BY <1>0, <2>5, <2>6, <2>7, <2>8, OneTickTyped, WorkersStand
<1>9. CASE archiveProposal(t)
  <2>1. /\ tick[t].pc = "archiving" /\ Goto(t, "indexing")
        /\ UNCHANGED <<contractVars, workerVars, snapshot, index, ticks, crashes>>
    BY <1>9 DEF archiveProposal, At
  <2>2. TicksTyped'
    BY <1>0, <2>1, GotoTyped DEF TickPc, Past, Counted
  <2>3. tick[t].tally \in Tally /\ tick[t].id \in ProposalId
    BY <1>0, <2>1 DEF TickTyped, Counted, Past, RecorderInv, TicksOnStarted
  <2>4. archive' \in [ProposalId -> Tally \cup {NoTally}]
    <3>1. PICK stored \in Agent!Stored(archive[tick[t].id], tick[t].tally) :
            archive' = [archive EXCEPT ![tick[t].id] = stored]
      BY <1>9 DEF archiveProposal
    <3> QED BY <1>0, <2>3, <3>1, StoredIsOneOf DEF BoardTyped
  <2>5. BoardTyped' /\ CountersTyped'
    BY <1>0, <2>1, <2>4 DEF BoardTyped, CountersTyped
  <2> QED BY <1>0, <2>1, <2>2, <2>5, WorkersStand
<1>10. CASE ReadIndex(t)
  <2>1. PICK seen \in Reading(index, {}) :
          tick' = [tick EXCEPT ![t].pc = "listing", ![t].listed = seen]
    BY <1>10 DEF ReadIndex
  <2>2. seen \in SUBSET ProposalId
    BY <1>0 DEF Reading, BoardTyped
  <2>3. /\ tick'[t].pc = "listing" /\ tick'[t].id = tick[t].id
        /\ tick'[t].workers = tick[t].workers /\ tick'[t].todo = tick[t].todo
        /\ tick'[t].submissions = tick[t].submissions /\ tick'[t].listed = seen
        /\ tick'[t].tally = tick[t].tally
        /\ \A u \in Tick : u # t => tick'[u] = tick[u]
    BY <1>0, <2>1 DEF Shapes, Function, IdleTick
  <2>4. tick[t].tally \in Tally
    BY <1>0, <1>10 DEF ReadIndex, At, TickTyped, Counted, Past
  <2>5. TickTyped(t)'
    BY <1>0, <2>2, <2>3, <2>4 DEF TickTyped, TickPc, Past
  <2>6. UNCHANGED <<contractVars, workerVars, boardVars, ticks, crashes>>
    BY <1>10 DEF ReadIndex
  <2>7. BoardTyped' /\ CountersTyped'
    BY <1>0, <2>6 DEF BoardTyped, CountersTyped, boardVars
  <2> QED BY <1>0, <2>3, <2>5, <2>6, <2>7, OneTickTyped, WorkersStand
<1>11. CASE WriteIndex(t)
  <2>1. /\ tick[t].pc = "listing" /\ Goto(t, "resuming")
        /\ UNCHANGED <<contractVars, workerVars, snapshot, archive, ticks, crashes>>
        /\ index' = index \/ index' = tick[t].listed \cup {tick[t].id}
    BY <1>11, StoredIsOneOf DEF WriteIndex, At
  <2>2. TicksTyped'
    BY <1>0, <2>1, GotoTyped DEF TickPc, Past, Counted
  <2>3. tick[t].listed \in SUBSET ProposalId /\ tick[t].id \in ProposalId
    BY <1>0, <2>1 DEF TickTyped, RecorderInv, TicksOnStarted
  <2>4. BoardTyped' /\ CountersTyped'
    BY <1>0, <2>1, <2>3 DEF BoardTyped, CountersTyped
  <2> QED BY <1>0, <2>1, <2>2, <2>4, WorkersStand
<1> QED BY <1>1, <1>2, <1>3, <1>4, <1>5, <1>6, <1>7, <1>8, <1>9, <1>10, <1>11
        DEF QuietAdvance

\* The two calls of a tick on the contract.
LEMMA CallTyped ==
  ASSUME TypeInv, RecorderInv, NEW t \in Tick, RecordSubmissions(t) \/ resumeContractWithTally(t)
  PROVE  /\ ContractTyped' /\ TicksTyped'
         /\ UNCHANGED <<workerVars, boardVars, ticks, crashes>>
<1>0. TicksTyped /\ Shapes /\ ContractTyped /\ TickTyped(t)
  BY DEF TypeInv, RecorderInv, TicksTyped, ContractTyped
<1>1. CASE RecordSubmissions(t)
  <2>1. tick[t].pc = "recording" /\ tick[t].id \in ProposalId
    BY <1>1 DEF RecordSubmissions, At, RecorderInv, TicksOnStarted
  <2>2. /\ \/ UNCHANGED contractVars
           \/ Contract!record_worker_submissions(Coordinator, tick[t].id, tick[t].submissions)
        /\ End(t) \/ Goto(t, "aggregating")
        /\ UNCHANGED <<workerVars, boardVars, ticks, crashes>>
    BY <1>1 DEF RecordSubmissions, Answered
  <2>3. ContractTyped'
    BY <1>0, <2>1, <2>2, ContractStands, RecordTyped DEF TickTyped
  <2>4. TicksTyped'
    BY <1>0, <2>2, EndTyped, GotoTyped DEF TickPc, Past
  <2> QED BY <2>2, <2>3, <2>4
<1>2. CASE resumeContractWithTally(t)
  <2>1. tick[t].pc = "resuming" /\ tick[t].id \in ProposalId
    BY <1>2 DEF resumeContractWithTally, At, RecorderInv, TicksOnStarted
  <2>2. /\ \/ UNCHANGED contractVars
           \/ Contract!coordinator_resume(Coordinator, tick[t].id, OnChainOf(tick[t].tally),
                                          proposals[tick[t].id].config_hash)
        /\ End(t)
        /\ UNCHANGED <<workerVars, boardVars, ticks, crashes>>
    BY <1>2 DEF resumeContractWithTally, Answered
  <2>3. OnChainOf(tick[t].tally) \in OnChain
    BY <1>0, <2>1, ShownTyped DEF TickTyped, Counted, Past
  <2>4. ContractTyped'
    BY <1>0, <2>1, <2>2, <2>3, ContractStands, ResumeTyped
  <2> QED BY <1>0, <2>2, <2>4, EndTyped
<1> QED BY <1>1, <1>2

\* The parts of the invariant.
LEMMA TypeParts ==
  TypeInv <=> ContractTyped /\ WorkersTyped /\ TicksTyped /\ BoardTyped /\ CountersTyped
BY DEF TypeInv, ContractTyped, WorkersTyped, TicksTyped

\* The same for the next state.
LEMMA TypePartsNext ==
  ASSUME ContractTyped', WorkersTyped', TicksTyped', BoardTyped', CountersTyped'
  PROVE  TypeInv'
BY DEF TypeInv, ContractTyped, WorkersTyped, TicksTyped

\* Every step of coordinator, workers, requesters and network keeps the types.
LEMMA NextTyped == TypeInv /\ RecorderInv /\ [Next]_vars => TypeInv'
<1> SUFFICES ASSUME TypeInv, RecorderInv, [Next]_vars
             PROVE  TypeInv'
  OBVIOUS
<1>0. /\ ContractTyped /\ WorkersTyped /\ TicksTyped /\ BoardTyped /\ CountersTyped
      /\ Shapes
  BY TypeParts DEF RecorderInv
<1>a. UNCHANGED boardVars => BoardTyped'
  BY <1>0 DEF BoardTyped, boardVars
<1>b. UNCHANGED <<ticks, crashes>> => CountersTyped'
  BY <1>0 DEF CountersTyped
<1>c. UNCHANGED tick => TicksTyped'
  BY <1>0 DEF TicksTyped, TickTyped, Counted
<1>1. ASSUME NEW c \in Config, NEW n \in ExpectedCounts, Request(c, n)
      PROVE  TypeInv'
  <2>1. /\ Contract!start_coordination(c, n)
        /\ UNCHANGED <<workerVars, tick, ticks, crashes, boardVars>>
    BY <1>1 DEF Request
  <2> QED BY <1>0, <1>a, <1>b, <1>c, <2>1, RequestTyped, WorkersStand, TypePartsNext
<1>2. CASE Runtime
  <2>1. Contract!Runtime /\ UNCHANGED <<workerVars, tick, ticks, crashes, boardVars>>
    BY <1>2 DEF Runtime
  <2> QED BY <1>0, <1>a, <1>b, <1>c, <2>1, RuntimeTyped, WorkersStand, TypePartsNext
<1>3. ASSUME NEW w \in Worker, WorkerStep(w)
      PROVE  TypeInv'
  <2>1. Agent!WorkerStep(w) /\ UNCHANGED <<contractVars, tick, ticks, crashes, boardVars>>
    BY <1>3 DEF WorkerStep
  <2> QED BY <1>0, <1>a, <1>b, <1>c, <2>1, WorkerStepTyped, ContractStands, TypePartsNext
<1>4. ASSUME NEW t \in Tick, checkAndCoordinate(t)
      PROVE  TypeInv'
  <2>1. PICK id \in Pending : tick' = [tick EXCEPT ![t].pc = "discovering", ![t].id = id]
    BY <1>4 DEF checkAndCoordinate
  <2>2. /\ ticks < MaxTicks /\ ticks' = ticks + 1
        /\ UNCHANGED <<contractVars, workerVars, boardVars, crashes>>
    BY <1>4 DEF checkAndCoordinate
  <2>3. id \in 0 .. MaxProposals
    BY DEF Pending, ProposalId
  <2>4. /\ tick'[t].pc = "discovering" /\ tick'[t].id = id
        /\ tick'[t].workers = tick[t].workers /\ tick'[t].todo = tick[t].todo
        /\ tick'[t].submissions = tick[t].submissions /\ tick'[t].listed = tick[t].listed
        /\ \A u \in Tick : u # t => tick'[u] = tick[u]
    BY <1>0, <2>1 DEF Shapes, Function, IdleTick
  <2>5. TickTyped(t)'
    BY <1>0, <2>3, <2>4 DEF TicksTyped, TickTyped, TickPc, Counted, Past
  <2>6. CountersTyped'
    BY <1>0, <2>2, RoundAssumption DEF CountersTyped, RoundAssumption
  <2> QED BY <1>0, <1>a, <2>2, <2>4, <2>5, <2>6, OneTickTyped, ContractStands, WorkersStand,
             TypePartsNext
<1>5. ASSUME NEW t \in Tick, Advance(t)
      PROVE  TypeInv'
  <2>1. CASE QuietAdvance(t)
    BY <1>0, <2>1, QuietTyped, ContractStands, TypePartsNext
  <2>2. CASE RecordSubmissions(t) \/ resumeContractWithTally(t)
    BY <1>0, <1>a, <1>b, <2>2, CallTyped, WorkersStand, TypePartsNext
  <2> QED BY <1>5, <2>1, <2>2 DEF Advance, QuietAdvance
<1>6. CASE Crash
  <2>1. /\ crashes < MaxCrashes /\ crashes' = crashes + 1
        /\ tick' = [t \in Tick |-> IdleTick]
        /\ UNCHANGED <<contractVars, workerVars, boardVars, ticks>>
    BY <1>6 DEF Crash
  <2>2. TicksTyped'
    <3> SUFFICES ASSUME NEW t \in Tick
                 PROVE  TickTyped(t)'
      BY DEF TicksTyped
    <3>1. tick'[t] = IdleTick
      BY <2>1
    <3> QED BY <3>1, RoundAssumption DEF IdleTick, TickTyped, TickPc, Counted, Past,
                                         RoundAssumption
  <2>3. CountersTyped'
    BY <1>0, <2>1, RoundAssumption DEF CountersTyped, RoundAssumption
  <2> QED BY <1>0, <1>a, <2>1, <2>2, <2>3, ContractStands, WorkersStand, TypePartsNext
<1>7. CASE UNCHANGED vars
  <2>1. UNCHANGED <<contractVars, workerVars, tick, ticks, crashes, boardVars>>
    BY <1>7 DEF vars
  <2> QED BY <1>0, <1>a, <1>b, <1>c, <2>1, ContractStands, WorkersStand, TypePartsNext
<1> QED BY <1>1, <1>2, <1>3, <1>4, <1>5, <1>6, <1>7 DEF Next

\* At first nothing is stored but what the owner has set up.
LEMMA InitTyped == Init => TypeInv
<1> SUFFICES ASSUME Init
             PROVE  TypeInv
  OBVIOUS
<1> USE RoundAssumption DEF RoundAssumption
<1>1. ContractTyped
  <2>1. manifesto \in BOOLEAN
    BY Zenon DEF Init
  <2>2. current_proposal_id \in 0 .. MaxProposals /\ Started
    BY DEF Init, Started, ProposalId
  <2> QED BY <2>1, <2>2, ContractTypes DEF Init
<1>2. WorkersTyped
  <2>1. Agent!Init
    BY DEF Init
  <2>2. HandlersHaveTask
    BY <2>1, IdleTyped DEF Agent!Init, HandlersHaveTask, Agent!Executing
  <2>3. slot \in [Worker -> [Slot -> Handler]] /\ restarts \in 0 .. MaxRestarts
    BY <2>1, IdleTyped DEF Agent!Init
  <2> QED BY <2>1, <2>2, <2>3, WorkerTypes DEF Agent!Init, Status
<1>3. TicksTyped
  <2> SUFFICES ASSUME NEW t \in Tick
               PROVE  TickTyped(t)
    BY DEF TicksTyped
  <2>1. tick[t] = IdleTick
    BY DEF Init
  <2> QED BY <2>1 DEF IdleTick, TickTyped, TickPc, Counted, Past
<1>4. BoardTyped /\ CountersTyped
  BY DEF Init, BoardTyped, CountersTyped
<1> QED BY <1>1, <1>2, <1>3, <1>4, TypeParts

\* The types are those of TypeOK.
LEMMA TypeOKFollows == TypeInv /\ RecorderInv => TypeOK
<1> SUFFICES ASSUME TypeInv, RecorderInv
             PROVE  TypeOK
  OBVIOUS
<1>1. ASSUME NEW t \in Tick
      PROVE  /\ [f \in DOMAIN tick[t] \ {"tally"} |-> tick[t][f]] \in TickType
             /\ Counted(t) => OnChainOf(tick[t].tally) \in OnChain
  <2>1. TickTyped(t) /\ DOMAIN tick[t] \ {"tally"}
          = {"pc", "id", "workers", "todo", "submissions", "listed"}
    BY DEF TypeInv, RecorderInv, Shapes, IdleTick
  <2>2. [f \in DOMAIN tick[t] \ {"tally"} |-> tick[t][f]]
          = [pc |-> tick[t].pc, id |-> tick[t].id, workers |-> tick[t].workers,
             todo |-> tick[t].todo, submissions |-> tick[t].submissions,
             listed |-> tick[t].listed]
    BY <2>1
  <2>3. [f \in DOMAIN tick[t] \ {"tally"} |-> tick[t][f]] \in TickType
    BY <2>1, <2>2 DEF TickType, TickTyped, TickPc, Submission
  <2> QED BY <2>1, <2>3, ShownTyped DEF TickTyped
<1>2. ASSUME NEW id \in ProposalId
      PROVE  archive[id] = NoTally \/ OnChainOf(archive[id]) \in OnChain
  BY ShownTyped DEF TypeInv, BoardTyped
<1> QED BY <1>1, <1>2 DEF TypeInv, TypeOK, BoardTyped, CountersTyped, Counted, Past

-----------------------------------------------------------------------------
(* The history agrees with the chain *)

\* Where a tick is that has written the keys of the proposal.
Archived == {"indexing", "listing", "resuming"}

\* A tick past the archiving has archived the tally it will send.
ArchivedIsSent == \A t \in Tick : tick[t].pc \in Archived => archive[tick[t].id] = tick[t].tally

\* A result on its way is the one archived.
SentIsArchived ==
  \A r \in resumes : r.value # NoAnswer =>
    archive[r.id] # NoTally /\ OnChainOf(archive[r.id]) = r.value

\* The inductive invariant of ArchiveAgreesWithChain.
ArchiveInv == ArchivedIsSent /\ SentIsArchived /\ ArchiveAgreesWithChain

\* No tick got past the archiving in this step, and none changed its tally.
NoneArchives ==
  \A u \in Tick : tick'[u].pc \in Archived =>
    tick[u].pc \in Archived /\ tick'[u].id = tick[u].id /\ tick'[u].tally = tick[u].tally

\* Nothing happened to archive and contract.
LEMMA ArchiveStands ==
  ASSUME ArchiveInv, UNCHANGED <<archive, proposals, resumes>>, NoneArchives
  PROVE  ArchiveInv'
<1>1. ArchivedIsSent'
  BY DEF ArchiveInv, ArchivedIsSent, NoneArchives
<1>2. SentIsArchived'
  BY DEF ArchiveInv, SentIsArchived
<1>3. ArchiveAgreesWithChain'
  BY DEF ArchiveInv, ArchiveAgreesWithChain, Contract!InState, Contract!Exists
<1> QED BY <1>1, <1>2, <1>3 DEF ArchiveInv

\* Moves that do not archive.
LEMMA NoneByGoto ==
  ASSUME Shapes, NEW t \in Tick, NEW pc, Goto(t, pc),
         pc \in Archived => tick[t].pc \in Archived
  PROVE  NoneArchives
BY DEF Shapes, Function, IdleTick, Goto, NoneArchives

\* Ticks that end do not archive.
LEMMA NoneByEnd ==
  ASSUME Shapes, NEW t \in Tick, End(t)
  PROVE  NoneArchives
BY DEF Shapes, Function, IdleTick, End, Archived, NoneArchives

\* The steps of a tick that leave the contract alone, except the archiving.
LEMMA QuietArchives ==
  ASSUME Shapes, NEW t \in Tick, QuietAdvance(t), ~archiveProposal(t)
  PROVE  NoneArchives /\ UNCHANGED <<archive, proposals, resumes>>
<1>1. CASE getActiveWorkers(t)
  <2>1. PICK W : tick' = [tick EXCEPT ![t].pc = "publishing", ![t].workers = W, ![t].todo = W]
    BY <1>1 DEF getActiveWorkers
  <2>2. NoneArchives
    BY <2>1 DEF Shapes, Function, IdleTick, Archived, NoneArchives
  <2> QED BY <1>1, <2>2 DEF getActiveWorkers, contractVars, boardVars
<1>2. CASE PublishTask(t)
  BY <1>2, NoneByGoto DEF PublishTask, contractVars, boardVars, Archived
<1>3. ASSUME NEW w \in Worker, ResetStatus(t, w)
      PROVE  NoneArchives /\ UNCHANGED <<archive, proposals, resumes>>
  <2>1. tick' = [tick EXCEPT ![t].todo = @ \ {w}]
    BY <1>3 DEF ResetStatus
  <2>2. NoneArchives
    BY <2>1 DEF Shapes, Function, IdleTick, NoneArchives
  <2> QED BY <1>3, <2>2 DEF ResetStatus, contractVars, boardVars
<1>4. CASE TakeSnapshot(t)
  BY <1>4, NoneByGoto, NoneByEnd DEF TakeSnapshot, contractVars, Archived
<1>5. CASE AllDone(t)
  BY <1>5, NoneByGoto DEF AllDone, contractVars, boardVars, Archived
<1>6. CASE WaitTimeout(t)
  BY <1>6, NoneByEnd DEF WaitTimeout, contractVars, boardVars
<1>7. CASE readResultsWithRetry(t)
  <2>1. PICK x : tick' = [tick EXCEPT ![t].pc = "recording", ![t].submissions = x]
    BY <1>7 DEF readResultsWithRetry
  <2>2. NoneArchives
    BY <2>1 DEF Shapes, Function, IdleTick, Archived, NoneArchives
  <2> QED BY <1>7, <2>2 DEF readResultsWithRetry, contractVars, boardVars
<1>8. CASE aggregateResults(t)
  <2>1. PICK x : tick' = [tick EXCEPT ![t].pc = "archiving", ![t].tally = x]
    BY <1>8 DEF aggregateResults
  <2>2. NoneArchives
    BY <2>1 DEF Shapes, Function, IdleTick, Archived, NoneArchives
  <2> QED BY <1>8, <2>2 DEF aggregateResults, contractVars, boardVars
<1>9. CASE ReadIndex(t)
  <2>1. /\ tick[t].pc = "indexing"
        /\ \E x : tick' = [tick EXCEPT ![t].pc = "listing", ![t].listed = x]
    BY <1>9 DEF ReadIndex, At
  <2>2. NoneArchives
    BY <2>1 DEF Shapes, Function, IdleTick, Archived, NoneArchives
  <2> QED BY <1>9, <2>2 DEF ReadIndex, contractVars, boardVars
<1>10. CASE WriteIndex(t)
  BY <1>10, NoneByGoto DEF WriteIndex, At, contractVars, Archived
<1> QED BY <1>1, <1>2, <1>3, <1>4, <1>5, <1>6, <1>7, <1>8, <1>9, <1>10 DEF QuietAdvance

\* Archiving: no result of the proposal is on its way or on chain yet.
LEMMA Archives ==
  ASSUME ~EnsueMayFail, TypeInv, RecorderInv, ArchiveInv, NEW t \in Tick, archiveProposal(t)
  PROVE  ArchiveInv'
<1> DEFINE id == tick[t].id
<1>1. /\ tick[t].pc = "archiving"
      /\ archive' = [archive EXCEPT ![id] = tick[t].tally]
      /\ Goto(t, "indexing")
      /\ UNCHANGED <<proposals, resumes>>
  BY DEF archiveProposal, At, Agent!Stored, contractVars
<1>2. NoResultYet(id) /\ id \in ProposalId
  BY <1>1 DEF RecorderInv, Unanswered, TicksOnStarted, Past
<1>3. /\ tick'[t].pc = "indexing" /\ tick'[t].id = id /\ tick'[t].tally = tick[t].tally
      /\ \A u \in Tick : u # t => tick'[u] = tick[u]
  BY <1>1 DEF RecorderInv, Shapes, Function, IdleTick, Goto
<1>4. /\ archive'[id] = tick[t].tally
      /\ \A other \in ProposalId : other # id => archive'[other] = archive[other]
  BY <1>1, <1>2 DEF TypeInv, BoardTyped
<1>5. ArchivedIsSent'
  <2> SUFFICES ASSUME NEW u \in Tick, tick'[u].pc \in Archived, NEW i, i = tick'[u].id
               PROVE  archive'[i] = tick'[u].tally
    BY DEF ArchivedIsSent
  <2>1. CASE u = t
    BY <1>3, <1>4, <2>1
  <2>2. CASE u # t
    <3>1. tick'[u] = tick[u] /\ tick[u].id # id /\ tick[u].id \in ProposalId
      BY <1>1, <1>3, <2>2 DEF RecorderInv, Alone, TicksOnStarted, Past, Archived
    <3> QED BY <1>4, <3>1 DEF ArchiveInv, ArchivedIsSent
  <2> QED BY <2>1, <2>2
<1>6. SentIsArchived'
  <2> SUFFICES ASSUME NEW r \in resumes, r.value # NoAnswer, NEW i, i = r.id
               PROVE  archive'[i] # NoTally /\ OnChainOf(archive'[i]) = r.value
    BY <1>1 DEF SentIsArchived, OnChainOf
  <2>1. i # id /\ i \in ProposalId
    BY <1>2 DEF NoResultYet, RecorderInv, ResultsAfterRecording
  <2> QED BY <1>4, <2>1 DEF ArchiveInv, SentIsArchived
<1>7. ArchiveAgreesWithChain'
  <2> SUFFICES ASSUME NEW i \in ProposalId, Contract!InState(i, "Finalized")
               PROVE  archive'[i] # NoTally /\ OnChainOf(archive'[i]) = proposals[i].finalized_result
    BY <1>1 DEF ArchiveAgreesWithChain, OnChainOf, Contract!InState, Contract!Exists
  <2>1. i # id
    BY <1>2 DEF NoResultYet
  <2> QED BY <1>4, <2>1 DEF ArchiveInv, ArchiveAgreesWithChain
<1> QED BY <1>5, <1>6, <1>7 DEF ArchiveInv

\* The contract moved on, but no further proposal is Finalized, no further result
\* is on its way.
LEMMA ContractMoves ==
  ASSUME ArchiveInv, UNCHANGED archive, NoneArchives,
         \A r \in resumes' : r \in resumes \/ r.value = NoAnswer,
         \A id \in ProposalId : Contract!InState(id, "Finalized")' =>
           Contract!InState(id, "Finalized") /\ proposals'[id] = proposals[id]
  PROVE  ArchiveInv'
<1>1. ArchivedIsSent'
  BY DEF ArchiveInv, ArchivedIsSent, NoneArchives
<1>2. SentIsArchived'
  BY DEF ArchiveInv, SentIsArchived
<1>3. ArchiveAgreesWithChain'
  BY DEF ArchiveInv, ArchiveAgreesWithChain
<1> QED BY <1>1, <1>2, <1>3 DEF ArchiveInv

\* Every step keeps history and chain together, as long as the memory answers.
LEMMA NextArchive ==
  ASSUME ~EnsueMayFail
  PROVE  ArchiveInv /\ TypeInv /\ RecorderInv /\ [Next]_vars => ArchiveInv'
<1> SUFFICES ASSUME ArchiveInv, TypeInv, RecorderInv, [Next]_vars
             PROVE  ArchiveInv'
  OBVIOUS
<1>0. ContractTyped /\ Shapes
  BY TypeParts DEF RecorderInv
<1>a. UNCHANGED tick => NoneArchives
  BY DEF NoneArchives
<1>1. ASSUME NEW c \in Config, NEW n \in ExpectedCounts, Request(c, n)
      PROVE  ArchiveInv'
  <2>1. PICK id \in ProposalId :
          /\ id = current_proposal_id + 1
          /\ proposals' = [proposals EXCEPT ![id] =
               [state |-> "Created", config_hash |-> c, expected_worker_count |-> n,
                worker_submissions |-> << >>, finalized_result |-> NoAnswer]]
          /\ UNCHANGED <<resumes, tick, archive>>
    BY <1>1 DEF Request, Contract!start_coordination, Contract!ProposalId, ProposalId, boardVars
  <2>2. ASSUME NEW i \in ProposalId, Contract!InState(i, "Finalized")'
        PROVE  Contract!InState(i, "Finalized") /\ proposals'[i] = proposals[i]
    <3>1. i # id
      BY <1>0, <2>1, <2>2, ContractTypes DEF Contract!InState
    <3> QED BY <1>0, <2>1, <2>2, <3>1, ContractTypes DEF Contract!InState, Contract!Exists
  <2> QED BY <1>a, <2>1, <2>2, ContractMoves
<1>2. ASSUME NEW id \in ProposalId, Contract!YieldTimeout(id), UNCHANGED <<tick, archive>>
      PROVE  ArchiveInv'
  <2>1. /\ resumes' = resumes \cup {[id |-> id, value |-> NoAnswer]}
        /\ UNCHANGED proposals
    BY <1>2 DEF Contract!YieldTimeout
  <2> QED BY <1>2, <1>a, <2>1, ContractMoves DEF Contract!InState, Contract!Exists
<1>3. ASSUME NEW r \in resumes, Contract!DeliverResume(r), UNCHANGED <<tick, archive>>
      PROVE  ArchiveInv'
  <2>1. PICK id \in ProposalId : id = r.id
    BY <1>0, ContractTypes DEF Contract!Resume, Contract!ProposalId, ProposalId
  <2>2. resumes' \subseteq resumes /\ Contract!return_coordination_result(id, r)
    BY <1>3, <2>1 DEF Contract!DeliverResume
  <2>3. \A i \in ProposalId : i # id => proposals'[i] = proposals[i]
    BY <1>0, <2>1, <2>2, ContractTypes DEF Contract!return_coordination_result
  <2>4. CASE r.value # NoAnswer /\ Contract!Exists(id)
    <3>1. /\ proposals[id] \in Contract!Proposal
          /\ proposals' = [proposals EXCEPT ![id].state = "Finalized",
                                            ![id].finalized_result = r.value]
      BY <1>0, <2>2, <2>4, ProposalTyped DEF Contract!return_coordination_result
    <3>2. proposals'[id].finalized_result = r.value
      BY <1>0, <3>1, ContractTypes DEF Contract!Proposal
    <3>3. archive[id] # NoTally /\ OnChainOf(archive[id]) = r.value
      BY <2>1, <2>4 DEF ArchiveInv, SentIsArchived
    <3>4. ArchiveAgreesWithChain'
      <4> SUFFICES ASSUME NEW i \in ProposalId, Contract!InState(i, "Finalized")'
                   PROVE  /\ archive[i] # NoTally
                          /\ OnChainOf(archive[i]) = proposals'[i].finalized_result
        BY <1>3 DEF ArchiveAgreesWithChain, OnChainOf
      <4>1. CASE i = id
        BY <3>2, <3>3, <4>1
      <4>2. CASE i # id
        BY <2>3, <4>2 DEF ArchiveInv, ArchiveAgreesWithChain, Contract!InState, Contract!Exists
      <4> QED BY <4>1, <4>2
    <3>5. ArchivedIsSent' /\ SentIsArchived'
      BY <1>3, <2>2 DEF ArchiveInv, ArchivedIsSent, SentIsArchived
    <3> QED BY <3>4, <3>5 DEF ArchiveInv
  <2>5. CASE r.value = NoAnswer \/ ~Contract!Exists(id)
    <3>1. \/ UNCHANGED proposals
          \/ proposals' = [proposals EXCEPT ![id].state = "TimedOut"] /\ Contract!Exists(id)
      BY <2>2, <2>5 DEF Contract!return_coordination_result
    <3>2. Contract!InState(id, "Finalized")' => proposals' = proposals
      <4>1. CASE proposals' = [proposals EXCEPT ![id].state = "TimedOut"] /\ Contract!Exists(id)
        <5>1. proposals[id] \in Contract!Proposal
          BY <1>0, <4>1, ProposalTyped
        <5>2. proposals'[id].state = "TimedOut"
          BY <1>0, <4>1, <5>1, ContractTypes DEF Contract!Proposal
        <5> QED BY <5>2 DEF Contract!InState
      <4> QED BY <3>1, <4>1
    <3>3. ASSUME NEW i \in ProposalId, Contract!InState(i, "Finalized")'
          PROVE  Contract!InState(i, "Finalized") /\ proposals'[i] = proposals[i]
      BY <2>3, <3>2, <3>3 DEF Contract!InState, Contract!Exists
    <3> QED BY <1>3, <1>a, <2>2, <3>3, ContractMoves
  <2> QED BY <2>4, <2>5
<1>4. ASSUME NEW w \in Worker, WorkerStep(w)
      PROVE  ArchiveInv'
  BY <1>4, <1>a, ArchiveStands DEF WorkerStep, contractVars, boardVars
<1>5. ASSUME NEW t \in Tick, checkAndCoordinate(t)
      PROVE  ArchiveInv'
  <2>1. PICK id : tick' = [tick EXCEPT ![t].pc = "discovering", ![t].id = id]
    BY <1>5 DEF checkAndCoordinate
  <2>2. NoneArchives
    BY <1>0, <2>1 DEF Shapes, Function, IdleTick, Archived, NoneArchives
  <2> QED BY <1>5, <2>2, ArchiveStands DEF checkAndCoordinate, contractVars, boardVars
<1>6. ASSUME NEW t \in Tick, QuietAdvance(t)
      PROVE  ArchiveInv'
  BY <1>0, <1>6, Archives, QuietArchives, ArchiveStands
<1>7. ASSUME NEW t \in Tick, RecordSubmissions(t)
      PROVE  ArchiveInv'
  <2>1. PICK id \in ProposalId : id = tick[t].id
    BY <1>7 DEF RecordSubmissions, At, RecorderInv, TicksOnStarted
  <2>2. /\ \/ UNCHANGED contractVars
           \/ Contract!record_worker_submissions(Coordinator, id, tick[t].submissions)
        /\ End(t) \/ Goto(t, "aggregating")
        /\ UNCHANGED archive
    BY <1>7, <2>1 DEF RecordSubmissions, Answered, boardVars
  <2>3. NoneArchives
    BY <1>0, <2>2, NoneByEnd, NoneByGoto DEF Archived
  <2>4. CASE UNCHANGED contractVars
    BY <2>2, <2>3, <2>4, ArchiveStands DEF contractVars
  <2>5. CASE Contract!record_worker_submissions(Coordinator, id, tick[t].submissions)
    <3>1. /\ proposals' = [proposals EXCEPT
               ![id].worker_submissions = Contract!Recorded(id, tick[t].submissions),
               ![id].state = "WorkersCompleted"]
          /\ UNCHANGED resumes
          /\ Contract!Exists(id)
      BY <2>5 DEF Contract!record_worker_submissions, Contract!RecordAccepted, Contract!InState
    <3>2. proposals[id] \in Contract!Proposal
      BY <1>0, <3>1, ProposalTyped
    <3>3. proposals'[id].state = "WorkersCompleted"
      BY <1>0, <3>1, <3>2, ContractTypes DEF Contract!Proposal
    <3>4. \A i \in ProposalId : i # id => proposals'[i] = proposals[i]
      BY <1>0, <3>1, ContractTypes
    <3>5. ASSUME NEW i \in ProposalId, Contract!InState(i, "Finalized")'
          PROVE  Contract!InState(i, "Finalized") /\ proposals'[i] = proposals[i]
      BY <3>3, <3>4, <3>5 DEF Contract!InState, Contract!Exists
    <3> QED BY <2>2, <2>3, <3>1, <3>5, ContractMoves
  <2> QED BY <2>2, <2>4, <2>5
<1>8. ASSUME NEW t \in Tick, resumeContractWithTally(t)
      PROVE  ArchiveInv'
  <2>1. PICK id \in ProposalId : id = tick[t].id
    BY <1>8 DEF resumeContractWithTally, At, RecorderInv, TicksOnStarted
  <2>2. /\ tick[t].pc = "resuming"
        /\ \/ UNCHANGED contractVars
           \/ Contract!coordinator_resume(Coordinator, id, OnChainOf(tick[t].tally),
                                          proposals[id].config_hash)
        /\ End(t)
        /\ UNCHANGED archive
    BY <1>8, <2>1 DEF resumeContractWithTally, At, Answered, boardVars
  <2>3. NoneArchives
    BY <1>0, <2>2, NoneByEnd
  <2>4. /\ UNCHANGED proposals
        /\ resumes' \subseteq resumes \cup {[id |-> id, value |-> OnChainOf(tick[t].tally)]}
    BY <2>2 DEF Contract!coordinator_resume, Contract!PromiseYieldResume, contractVars
  <2>5. archive[id] = tick[t].tally /\ archive[id] # NoTally
    <3>1. tick[t].tally \in Tally
      BY <2>2 DEF TypeInv, TickTyped, Counted, Past
    <3> QED BY <2>1, <2>2, <3>1, ShownTyped DEF ArchiveInv, ArchivedIsSent, Archived
  <2>6. SentIsArchived'
    <3> SUFFICES ASSUME NEW r \in resumes', r.value # NoAnswer
                 PROVE  archive[r.id] # NoTally /\ OnChainOf(archive[r.id]) = r.value
      BY <2>2 DEF SentIsArchived, OnChainOf
    <3>1. CASE r \in resumes
      BY <3>1 DEF ArchiveInv, SentIsArchived
    <3>2. CASE r = [id |-> id, value |-> OnChainOf(tick[t].tally)]
      BY <2>5, <3>2
    <3> QED BY <2>4, <3>1, <3>2
  <2>7. ArchivedIsSent'
    BY <2>2, <2>3 DEF ArchiveInv, ArchivedIsSent, NoneArchives
  <2>8. ArchiveAgreesWithChain'
    BY <2>2, <2>4 DEF ArchiveInv, ArchiveAgreesWithChain, Contract!InState, Contract!Exists
  <2> QED BY <2>6, <2>7, <2>8 DEF ArchiveInv
<1>9. CASE Crash
  <2>1. \A t \in Tick : tick'[t].pc = "idle"
    BY <1>9 DEF Crash, IdleTick
  <2>2. NoneArchives
    BY <2>1 DEF NoneArchives, Archived
  <2> QED BY <1>9, <2>2, ArchiveStands DEF Crash, contractVars, boardVars
<1>10. CASE UNCHANGED vars
  BY <1>10, <1>a, ArchiveStands DEF vars, contractVars, boardVars
<1>11. CASE Runtime
  BY <1>2, <1>3, <1>11 DEF Runtime, Contract!Runtime, Contract!ProposalId, ProposalId, boardVars
<1> QED BY <1>1, <1>4, <1>5, <1>6, <1>7, <1>8, <1>9, <1>10, <1>11
        DEF Next, Advance, QuietAdvance

\* At first there is neither history nor result.
LEMMA InitArchive == Init => ArchiveInv
BY DEF Init, IdleTick, ArchiveInv, ArchivedIsSent, Archived, SentIsArchived,
       ArchiveAgreesWithChain, Contract!InState, Contract!Exists

-----------------------------------------------------------------------------
(* The parts inside the whole *)

\* The contract as a component of its own, with what is proved of it: there a
\* coordinator may send any list of submissions.
Chain == INSTANCE CoordinatorContractProofs WITH
  Account <- {Coordinator}, Codehash <- {Code}, WorkerId <- Worker,
  Result <- OnChain, Submission <- [worker_id : Worker, result_hash : Agent!ResultValue],
  Batches <- Seq([worker_id : Worker, result_hash : Agent!ResultValue]),
  NoResult <- NoAnswer

\* The workers as a component of their own.
Voters == INSTANCE WorkerAgentProofs

\* The constants of the round are fit for both.
LEMMA PartsAssumptions == Chain!ContractAssumption /\ Voters!WorkerAssumption
BY RoundAssumption
   DEF RoundAssumption, Chain!ContractAssumption, Voters!WorkerAssumption, Contract!U8,
       Chain!U8, Contract!Proposal, Chain!Proposal, Contract!RegisteredWorker,
       Chain!RegisteredWorker, Agent!ResultValue, Voters!ResultValue

\* A call of the coordinator, answered or not, is one of the contract or changes
\* nothing there.
LEMMA CallIsCall ==
  ASSUME TypeInv, RecorderInv, NEW t \in Tick,
         RecordSubmissions(t) \/ resumeContractWithTally(t)
  PROVE  [Chain!Next]_(Chain!vars)
<1> DEFINE id == tick[t].id
<1>1. TickTyped(t)
  BY DEF TypeInv
<1>2. CASE UNCHANGED contractVars
  BY <1>2 DEF contractVars, adminVars, Chain!vars
<1>3. CASE Contract!record_worker_submissions(Coordinator, id, tick[t].submissions)
           /\ tick[t].pc = "recording"
  <2>1. id \in ProposalId
    BY <1>3 DEF RecorderInv, TicksOnStarted
  <2>2. tick[t].submissions \in Seq([worker_id : Worker, result_hash : Agent!ResultValue])
    BY <1>1 DEF TickTyped, Submission
  <2>3. Chain!record_worker_submissions(Coordinator, id, tick[t].submissions)
    BY <1>3, Zenon DEF Contract!record_worker_submissions, Contract!RecordAccepted,
       Contract!require_approved_codehash, Contract!InState, Contract!Exists,
       Contract!Recorded, Contract!AlreadySubmitted, Contract!adminVars, Contract!U8,
       Chain!record_worker_submissions, Chain!RecordAccepted,
       Chain!require_approved_codehash, Chain!InState, Chain!Exists,
       Chain!Recorded, Chain!AlreadySubmitted, Chain!adminVars, Chain!U8
  <2>4. Chain!Coordination(Coordinator, id)
    BY <2>2, <2>3 DEF Chain!Coordination
  <2> QED BY <2>1, <2>4 DEF Chain!Next, Chain!ProposalId, ProposalId
<1>4. CASE /\ Contract!coordinator_resume(Coordinator, id, OnChainOf(tick[t].tally),
                                          proposals[id].config_hash)
           /\ tick[t].pc = "resuming"
  <2>1. id \in ProposalId
    BY <1>4 DEF RecorderInv, TicksOnStarted
  <2>2. OnChainOf(tick[t].tally) \in OnChain
    BY <1>1, <1>4, ShownTyped DEF TickTyped, Counted, Past
  <2>3. proposals[id].config_hash \in Config
    <3>1. Contract!Exists(id)
      BY <1>4 DEF Contract!coordinator_resume, Contract!ResumeAccepted, Contract!InState
    <3> QED BY <2>1, <3>1, ProposalTyped DEF TypeInv, ContractTyped, Contract!Proposal
  <2>4. Chain!coordinator_resume(Coordinator, id, OnChainOf(tick[t].tally),
                                 proposals[id].config_hash)
    BY <1>4 DEF Contract!coordinator_resume, Contract!ResumeAccepted,
       Contract!require_approved_codehash, Contract!InState, Contract!Exists,
       Contract!PromiseYieldResume, Contract!adminVars,
       Chain!coordinator_resume, Chain!ResumeAccepted,
       Chain!require_approved_codehash, Chain!InState, Chain!Exists,
       Chain!PromiseYieldResume, Chain!adminVars
  <2>5. Chain!Coordination(Coordinator, id)
    BY <2>2, <2>3, <2>4 DEF Chain!Coordination
  <2> QED BY <2>1, <2>5 DEF Chain!Next, Chain!ProposalId, ProposalId
<1> QED BY <1>2, <1>3, <1>4 DEF RecordSubmissions, resumeContractWithTally, Answered, At

\* Whatever the round does is, seen from the contract, a call that it allows, a
\* step of the network, or nothing.
LEMMA NextIsCall == TypeInv /\ RecorderInv /\ [Next]_vars => [Chain!Next]_(Chain!vars)
<1> SUFFICES ASSUME TypeInv, RecorderInv, [Next]_vars
             PROVE  [Chain!Next]_(Chain!vars)
  OBVIOUS
<1>1. CASE UNCHANGED contractVars
  BY <1>1 DEF contractVars, adminVars, Chain!vars
<1>2. ASSUME NEW c \in Config, NEW n \in ExpectedCounts, Request(c, n)
      PROVE  Chain!Next
  <2>1. Contract!start_coordination(c, n)
    BY <1>2 DEF Request
  <2>2. Chain!start_coordination(c, n)
    BY <2>1 DEF Contract!start_coordination, Contract!ProposalId, Contract!adminVars,
       Chain!start_coordination, Chain!ProposalId, Chain!adminVars
  <2> QED BY <2>2 DEF Chain!Next
<1>3. CASE Runtime
  <2>1. Contract!Runtime
    BY <1>3 DEF Runtime
  <2>2. Chain!Runtime
    BY <2>1, Zenon DEF Contract!Runtime, Contract!YieldTimeout, Contract!DeliverResume,
       Contract!return_coordination_result, Contract!Exists, Contract!adminVars,
       Contract!ProposalId,
       Chain!Runtime, Chain!YieldTimeout, Chain!DeliverResume,
       Chain!return_coordination_result, Chain!Exists, Chain!adminVars,
       Chain!ProposalId
  <2> QED BY <2>2 DEF Chain!Next
<1>4. ASSUME NEW t \in Tick, QuietAdvance(t) \/ checkAndCoordinate(t)
      PROVE  UNCHANGED contractVars
  BY <1>4, Zenon DEF QuietAdvance, checkAndCoordinate, getActiveWorkers, PublishTask, ResetStatus,
     TakeSnapshot, AllDone, WaitTimeout, readResultsWithRetry, aggregateResults,
     archiveProposal, ReadIndex, WriteIndex
<1>5. ASSUME NEW t \in Tick, RecordSubmissions(t) \/ resumeContractWithTally(t)
      PROVE  [Chain!Next]_(Chain!vars)
  BY <1>5, CallIsCall
<1>6. (\E w \in Worker : WorkerStep(w)) \/ Crash \/ UNCHANGED vars => UNCHANGED contractVars
  BY DEF WorkerStep, Crash, vars
<1> QED BY <1>1, <1>2, <1>3, <1>4, <1>5, <1>6 DEF Next, Advance, QuietAdvance

\* The contract the owner has set up, before the first request.
LEMMA InitChain == Init => Chain!ContractInv
<1> SUFFICES ASSUME Init
             PROVE  Chain!ContractInv
  OBVIOUS
<1>1. Chain!TypeOK
  <2>1. Contract!TypeOK
    BY InitTyped DEF TypeInv
  <2> QED BY <2>1 DEF Contract!TypeOK, Contract!RegisteredWorker, Contract!ProposalId,
             Contract!Proposal, Contract!U8, Contract!Resume,
             Chain!TypeOK, Chain!RegisteredWorker, Chain!ProposalId, Chain!Proposal, Chain!U8,
             Chain!Resume
<1>2. /\ current_proposal_id = 0 /\ resumes = {}
      /\ \A id \in ProposalId : proposals[id] = NoProposal /\ yields[id] = "none" /\ id > 0
  BY DEF Init, ProposalId
<1> QED BY <1>1, <1>2 DEF Chain!ContractInv, Chain!NullifierOnce,
           Chain!RecordAgreesWithPromise, Chain!ResultsFollowSubmissions, Chain!Exists,
           Chain!ProposalId, ProposalId

\* The contract's inductive invariant holds inside the round ...
LEMMA ChainInvariant == Spec => []Chain!ContractInv
<1>1. RecorderInv /\ TypeInv /\ [Next]_vars => TypeInv'
  BY NextTyped
<1>2. Chain!ContractInv /\ TypeInv /\ RecorderInv /\ [Next]_vars => Chain!ContractInv'
  <2>1. Chain!ContractInv /\ [Chain!Next]_(Chain!vars) => Chain!ContractInv'
    BY PartsAssumptions, Chain!NextInv
  <2> QED BY <2>1, NextIsCall
<1> QED BY <1>1, <1>2, InitTyped, InitChain, RecorderInvariant, PTL DEF Spec

\* ... and with it what the contract promises of its own state ...
LEMMA ChainPromises ==
  Chain!ContractInv => /\ Contract!NullifierOnce
                       /\ Contract!RecordAgreesWithPromise
                       /\ Contract!ResultsFollowSubmissions
BY DEF Chain!ContractInv, Chain!NullifierOnce, Chain!RecordAgreesWithPromise,
   Chain!ResultsFollowSubmissions, Chain!ProposalId, Chain!Unsettled, Chain!InState,
   Chain!Exists, Chain!U8, Contract!NullifierOnce, Contract!RecordAgreesWithPromise,
   Contract!ResultsFollowSubmissions, Contract!ProposalId, Contract!Unsettled,
   Contract!InState, Contract!Exists, Contract!U8

\* ... and of its steps.
LEMMA ChainSteps ==
  ASSUME Chain!ContractInv, Chain!ContractInv', [Chain!Next]_(Chain!vars)
  PROVE  /\ \A id \in Contract!ProposalId : Contract!LifecycleStep(id)
         /\ [Contract!Abstract!Next]_(Contract!Abstract!vars)
<1>1. \A id \in Chain!ProposalId : Chain!LifecycleStep(id)
  BY PartsAssumptions, Chain!NextLifecycle
<1>2. [Chain!Abstract!Next]_(Chain!Abstract!vars)
  BY PartsAssumptions, Chain!NextSettles
<1>3. \A id \in Contract!ProposalId : Contract!LifecycleStep(id)
  BY <1>1 DEF Chain!ProposalId, Chain!LifecycleStep, Chain!Exists,
     Contract!ProposalId, Contract!LifecycleStep, Contract!Exists
<1>4. [Contract!Abstract!Next]_(Contract!Abstract!vars)
  BY <1>2, Zenon DEF Chain!Abstract!Next, Chain!Abstract!vars, Chain!Abstract!Ask, Chain!Abstract!Succeed,
     Chain!Abstract!Fail, Chain!Abstract!Withdraw, Chain!Abstract!Close,
     Chain!ShownAs, Chain!ShownAnswer, Chain!Exists, Chain!InState, Chain!Unsettled,
     Chain!ProposalId,
     Contract!Abstract!Next, Contract!Abstract!vars, Contract!Abstract!Ask, Contract!Abstract!Succeed,
     Contract!Abstract!Fail, Contract!Abstract!Withdraw, Contract!Abstract!Close,
     Contract!ShownAs, Contract!ShownAnswer, Contract!Exists, Contract!InState,
     Contract!Unsettled, Contract!ProposalId
<1> QED BY <1>3, <1>4

\* Before the first request the contract shows nothing, set up or not.
LEMMA InitShowsNothing == Init => Contract!Abstract!Init
BY DEF Init, Contract!Abstract!Init, Contract!ShownAs, Contract!ShownAnswer, Contract!Exists,
   Contract!ProposalId, ProposalId

\* A worker's step is a worker's step, in company or not.
LEMMA VoterStep == ASSUME NEW w \in Worker, Agent!WorkerStep(w) PROVE Voters!WorkerStep(w)
BY Zenon DEF Agent!WorkerStep, Agent!PollStatus, Agent!LookAtFlag, Agent!ReadStatus,
   Agent!Proceed, Agent!ReadTask,
   Agent!StartProcessing, Agent!WriteVote, Agent!Complete, Agent!Fail, Agent!Finish,
   Agent!initializeWorker, Agent!Goto, Agent!WriteStatus, Agent!WriteResult, Agent!Stored,
   Agent!Idle, Voters!WorkerStep, Voters!PollStatus, Voters!LookAtFlag,
   Voters!ReadStatus, Voters!Proceed, Voters!ReadTask,
   Voters!StartProcessing, Voters!WriteVote, Voters!Complete, Voters!Fail, Voters!Finish,
   Voters!initializeWorker, Voters!Goto, Voters!WriteStatus, Voters!WriteResult,
   Voters!Stored, Voters!Idle

\* Whatever the round does is, seen from the workers, a task published or assigned,
\* a step of a worker, or nothing.
LEMMA NextIsWork == TypeInv /\ RecorderInv /\ [Next]_vars => [Voters!Next]_(Voters!vars)
<1> SUFFICES ASSUME TypeInv, RecorderInv, [Next]_vars
             PROVE  [Voters!Next]_(Voters!vars)
  OBVIOUS
<1>1. CASE UNCHANGED workerVars
  BY <1>1 DEF workerVars, Voters!vars
<1>2. ASSUME NEW w \in Worker, WorkerStep(w)
      PROVE  Voters!Next
  BY <1>2, VoterStep DEF WorkerStep, Voters!Next
<1>3. ASSUME NEW t \in Tick, PublishTask(t)
      PROVE  [Voters!Next]_(Voters!vars)
  <2> DEFINE c == proposals[tick[t].id].config_hash
  <2>1. /\ tick[t].pc = "publishing"
        /\ task_definition' \in {task_definition, c}
        /\ UNCHANGED <<status, result, slot, isExecuting, restarts>>
    BY <1>3 DEF PublishTask, At, Agent!Stored
  <2>2. tick[t].id \in ProposalId /\ Contract!Exists(tick[t].id)
    BY <2>1 DEF RecorderInv, TicksOnStarted, TypeInv, Started
  <2>3. c \in Config
    BY <2>2, ProposalTyped DEF TypeInv, ContractTyped, Contract!Proposal
  <2> HIDE DEF c
  <2>4. task_definition' = task_definition \/ Voters!Publish(c)
    BY <2>1 DEF Voters!Publish
  <2> QED BY <2>1, <2>3, <2>4 DEF Voters!Next, Voters!vars
<1>4. ASSUME NEW t \in Tick, NEW w \in Worker, ResetStatus(t, w)
      PROVE  [Voters!Next]_(Voters!vars)
  <2>1. PICK stored \in {status[w], "pending"} :
          /\ status' = [status EXCEPT ![w] = stored]
          /\ UNCHANGED <<task_definition, result, slot, isExecuting, restarts>>
    BY <1>4 DEF ResetStatus, Agent!WriteStatus, Agent!Stored
  <2>2. CASE stored = "pending"
    <3>1. Voters!Assign(w)
      BY <2>1, <2>2 DEF Voters!Assign
    <3> QED BY <3>1 DEF Voters!Next
  <2>3. CASE stored = status[w]
    <3>1. status \in [Worker -> Status]
      BY TypeParts, WorkerTypes
    <3>2. status' = status
      BY <2>1, <2>3, <3>1
    <3> QED BY <2>1, <3>2 DEF Voters!vars
  <2> QED BY <2>2, <2>3
<1>5. ASSUME NEW t \in Tick, checkAndCoordinate(t) \/ Advance(t)
      PROVE  \/ UNCHANGED workerVars
             \/ PublishTask(t)
             \/ \E w \in Worker : ResetStatus(t, w)
  BY <1>5, Zenon DEF Advance, checkAndCoordinate, getActiveWorkers, TakeSnapshot, AllDone,
     WaitTimeout, readResultsWithRetry, RecordSubmissions, aggregateResults,
     archiveProposal, ReadIndex, WriteIndex, resumeContractWithTally
<1>6. \/ \E c \in Config, n \in ExpectedCounts : Request(c, n)
      \/ Runtime \/ Crash \/ UNCHANGED vars
      => UNCHANGED workerVars
  BY Zenon DEF Request, Runtime, Crash, vars
<1> QED BY <1>1, <1>2, <1>3, <1>4, <1>5, <1>6 DEF Next

\* At first the workers are as they are on their own.
LEMMA InitIsWork == Init => Voters!Init
BY DEF Init, Agent!Init, Agent!Idle, Voters!Init, Voters!Idle

\* The workers' inductive invariant holds inside the round.
LEMMA VotersInvariant == Spec => []Voters!WorkerInv
<1>1. RecorderInv /\ TypeInv /\ [Next]_vars => TypeInv'
  BY NextTyped
<1>2. Voters!WorkerInv /\ TypeInv /\ RecorderInv /\ [Next]_vars => Voters!WorkerInv'
  <2>1. Voters!WorkerInv /\ [Voters!Next]_(Voters!vars) => Voters!WorkerInv'
    BY PartsAssumptions, Voters!NextInv
  <2> QED BY <2>1, NextIsWork
<1>3. Init => Voters!WorkerInv
  BY InitIsWork, PartsAssumptions, Voters!InitInv
<1> QED BY <1>1, <1>2, <1>3, InitTyped, RecorderInvariant, PTL DEF Spec

\* It says what the workers promise.
LEMMA VotersPromise ==
  Voters!WorkerInv => /\ Agent!FlagHasExecution
                      /\ ~EnsueMayFail => Agent!ResultBeforeCompleted
BY DEF Voters!WorkerInv, Voters!VotedInv, Voters!FlagHasExecution, Voters!Executing,
   Voters!ResultBeforeCompleted, Agent!FlagHasExecution, Agent!Executing,
   Agent!ResultBeforeCompleted

-----------------------------------------------------------------------------
(* Ticks that do not overlap *)

\* What a sequence lists, whatever the order.
Content(s) == {s[i] : i \in DOMAIN s}

\* The results of workers W, as they are submitted.
Answers(W) ==
  {[worker_id |-> w, result_hash |-> result[w]] : w \in {x \in W : result[x] # NoResult}}

\* A worker that has nothing to do.
Silent(w) == status[w] # "pending" /\ \A s \in Slot : slot[w][s].pc = "idle"

\* Whoever looks at the status of a busy worker sees that it is not done.
BusyIsShown ==
  \A w \in Worker, s \in Slot : slot[w][s].pc # "idle" => status[w] \in {"pending", "processing"}

\* A proposal still Created has no submissions.
NothingRecorded ==
  \A id \in ProposalId :
    Contract!InState(id, "Created") => proposals[id].worker_submissions = << >>

\* Whom a tick asked is what the snapshot still says.
Asked(t) ==
  tick[t].pc \in {"waiting", "reading", "recording"} \cup Past =>
    snapshot[tick[t].id] = tick[t].workers /\ tick[t].workers # {}

\* From the end of the wait to the counting the answers stand still.
Stands(t) ==
  /\ tick[t].pc \in {"reading", "recording", "aggregating"} =>
       \A w \in tick[t].workers : Silent(w)
  /\ tick[t].pc = "recording" => Content(tick[t].submissions) = Answers(tick[t].workers)
  /\ tick[t].pc = "aggregating" =>
       Content(proposals[tick[t].id].worker_submissions) = Answers(tick[t].workers)

\* What was counted is what was recorded.
CountedRight(t) ==
  Counted(t) =>
    LET votes == tick[t].tally.votes IN
    {[worker_id |-> w, result_hash |-> votes[w]] : w \in DOMAIN votes}
      = Content(proposals[tick[t].id].worker_submissions)

\* What the one tick relies on.
TickInv(t) == Asked(t) /\ Stands(t) /\ CountedRight(t)

\* The inductive invariant of ticks that do not overlap.
SequentialInv == NothingRecorded /\ BusyIsShown /\ \A t \in Tick : TickInv(t)

-----------------------------------------------------------------------------
(* Steps of others leave the tick its ground *)

\* A worker with nothing to do does nothing, and others do not disturb it.
LEMMA SilentStays ==
  ASSUME WorkersTyped, NEW x \in Worker, Agent!WorkerStep(x), NEW w \in Worker, Silent(w)
  PROVE  Silent(w)' /\ result'[w] = result[w]
<1>1. CASE x = w
  <2>1. Agent!initializeWorker(w)
    BY <1>1 DEF Agent!WorkerStep, Agent!PollStatus, Agent!LookAtFlag, Agent!ReadStatus,
   Agent!Proceed, Agent!ReadTask,
         Agent!StartProcessing, Agent!WriteVote, Agent!Complete, Agent!Fail, Silent
  <2>2. /\ slot' = [slot EXCEPT ![w] = [s \in Slot |-> Agent!Idle]]
        /\ Agent!WriteStatus(w, "idle") /\ UNCHANGED result
    BY <2>1 DEF Agent!initializeWorker
  <2>3. status'[w] # "pending"
    BY <2>2, StatusTyped DEF Status, Silent
  <2>4. \A s \in Slot : slot'[w][s].pc = "idle"
    BY <2>2, WorkerTypes, IdleTyped
  <2> QED BY <2>2, <2>3, <2>4 DEF Silent
<1>2. CASE x # w
  <2>1. status'[w] = status[w] /\ slot'[w] = slot[w] /\ result'[w] = result[w]
    <3>1. ASSUME NEW v, Agent!WriteStatus(x, v)
          PROVE  status'[w] = status[w]
      BY <1>2, <3>1, WorkerTypes DEF Agent!WriteStatus
    <3>2. ASSUME NEW v, Agent!WriteResult(x, v)
          PROVE  result'[w] = result[w]
      BY <1>2, <3>2, WorkerTypes DEF Agent!WriteResult
    <3>3. ASSUME NEW s \in Slot, NEW pc, Agent!Goto(x, s, pc)
          PROVE  slot'[w] = slot[w]
      BY <1>2, <3>3, WorkerTypes DEF Agent!Goto
    <3>4. ASSUME NEW s \in Slot, Agent!Finish(x, s)
          PROVE  slot'[w] = slot[w]
      BY <1>2, <3>4, WorkerTypes DEF Agent!Finish
    <3>5. ASSUME NEW s \in Slot, Agent!PollStatus(x, s)
          PROVE  status'[w] = status[w] /\ slot'[w] = slot[w] /\ result'[w] = result[w]
      BY <3>3, <3>5 DEF Agent!PollStatus
    <3>11. ASSUME NEW s \in Slot, Agent!LookAtFlag(x, s) \/ Agent!ReadStatus(x, s)
          PROVE  status'[w] = status[w] /\ slot'[w] = slot[w] /\ result'[w] = result[w]
      BY <3>3, <3>11 DEF Agent!LookAtFlag, Agent!ReadStatus
    <3>6. ASSUME NEW s \in Slot, Agent!ReadTask(x, s)
          PROVE  status'[w] = status[w] /\ slot'[w] = slot[w] /\ result'[w] = result[w]
      BY <1>2, <3>6, WorkerTypes DEF Agent!ReadTask
    <3>7. ASSUME NEW s \in Slot, Agent!StartProcessing(x, s)
          PROVE  status'[w] = status[w] /\ slot'[w] = slot[w] /\ result'[w] = result[w]
      BY <3>1, <3>3, <3>7 DEF Agent!StartProcessing
    <3>8. ASSUME NEW s \in Slot, NEW v, Agent!WriteVote(x, s, v)
          PROVE  status'[w] = status[w] /\ slot'[w] = slot[w] /\ result'[w] = result[w]
      BY <3>2, <3>3, <3>8 DEF Agent!WriteVote
    <3>9. ASSUME NEW s \in Slot, Agent!Complete(x, s) \/ Agent!Fail(x, s)
          PROVE  status'[w] = status[w] /\ slot'[w] = slot[w] /\ result'[w] = result[w]
      BY <3>1, <3>4, <3>9 DEF Agent!Complete, Agent!Fail
    <3>10. CASE Agent!initializeWorker(x)
      <4>1. status'[w] = status[w]
        BY <3>1, <3>10 DEF Agent!initializeWorker
      <4>2. slot'[w] = slot[w] /\ result'[w] = result[w]
        BY <1>2, <3>10, WorkerTypes DEF Agent!initializeWorker
      <4> QED BY <4>1, <4>2
    <3> QED BY <3>5, <3>6, <3>7, <3>8, <3>9, <3>10, <3>11 DEF Agent!WorkerStep, Agent!Proceed
  <2> QED BY <2>1 DEF Silent
<1> QED BY <1>1, <1>2

\* A worker says it is busy until its one handler ends.
LEMMA BusyStays ==
  ASSUME Sequential, WorkersTyped, BusyIsShown, NEW x \in Worker, Agent!WorkerStep(x)
  PROVE  BusyIsShown'
<1> SUFFICES ASSUME NEW w \in Worker, NEW r \in Slot, slot'[w][r].pc # "idle"
             PROVE  status'[w] \in {"pending", "processing"}
  BY DEF BusyIsShown
<1>1. ASSUME NEW s \in Slot, Agent!PollStatus(x, s)
      PROVE  status'[w] \in {"pending", "processing"}
  <2>1. Agent!Goto(x, s, "pending seen") /\ status[x] = "pending" /\ UNCHANGED status
    BY <1>1 DEF Agent!PollStatus
  <2>2. \A y \in Worker, q \in Slot : slot'[y][q] = slot[y][q] \/ (y = x /\ q = s)
    BY <2>1, MovedTyped
  <2> QED BY <2>1, <2>2 DEF BusyIsShown
<1>2. ASSUME NEW s \in Slot, Agent!ReadTask(x, s)
      PROVE  status'[w] \in {"pending", "processing"}
  <2>1. slot[x][s].pc = "pending seen" /\ UNCHANGED status
    BY <1>2 DEF Agent!ReadTask
  <2>2. \A y \in Worker : y # x => slot'[y] = slot[y]
    BY <1>2, WorkerTypes DEF Agent!ReadTask
  <2>3. r = s
    BY DEF Sequential
  <2> QED BY <2>1, <2>2, <2>3 DEF BusyIsShown
<1>3. ASSUME NEW s \in Slot, Agent!StartProcessing(x, s)
      PROVE  status'[w] \in {"pending", "processing"}
  <2>1. /\ Agent!Goto(x, s, "working") /\ Agent!Executing(x, s)
        /\ Agent!WriteStatus(x, "processing")
    BY <1>3 DEF Agent!StartProcessing, Agent!Executing
  <2>2. \A y \in Worker, q \in Slot : slot'[y][q] = slot[y][q] \/ (y = x /\ q = s)
    BY <2>1, MovedTyped
  <2>3. slot[w][r].pc # "idle"
    BY <2>1, <2>2 DEF Agent!Executing
  <2>4. status'[w] = status[w] \/ status'[w] = "processing"
    BY <2>1, StatusTyped DEF Status
  <2> QED BY <2>3, <2>4 DEF BusyIsShown
<1>4. ASSUME NEW s \in Slot, NEW v \in Vote, Agent!WriteVote(x, s, v)
      PROVE  status'[w] \in {"pending", "processing"}
  <2>1. /\ Agent!Goto(x, s, "voted") /\ Agent!Executing(x, s)
        /\ UNCHANGED status
    BY <1>4 DEF Agent!WriteVote, Agent!Executing
  <2>2. \A y \in Worker, q \in Slot : slot'[y][q] = slot[y][q] \/ (y = x /\ q = s)
    BY <2>1, WorkerTypes DEF Agent!Goto
  <2>3. slot[w][r].pc # "idle"
    BY <2>1, <2>2 DEF Agent!Executing
  <2> QED BY <2>1, <2>3 DEF BusyIsShown
<1>5. ASSUME NEW s \in Slot, Agent!Complete(x, s) \/ Agent!Fail(x, s)
      PROVE  status'[w] \in {"pending", "processing"}
  <2>1. PICK outcome \in Status : Agent!WriteStatus(x, outcome)
    BY <1>5 DEF Agent!Complete, Agent!Fail, Status
  <2>2. Agent!Finish(x, s)
    BY <1>5 DEF Agent!Complete, Agent!Fail
  <2>3. r = s
    BY DEF Sequential
  <2>4. w # x /\ slot'[w][r] = slot[w][r]
    BY <2>2, <2>3, FinishedTyped, IdleTyped
  <2>5. status'[w] = status[w]
    BY <2>1, <2>4, StatusTyped
  <2> QED BY <2>4, <2>5 DEF BusyIsShown
<1>6. CASE Agent!initializeWorker(x)
  <2>1. /\ slot' = [slot EXCEPT ![x] = [s \in Slot |-> Agent!Idle]]
        /\ Agent!WriteStatus(x, "idle")
    BY <1>6 DEF Agent!initializeWorker
  <2>2. w # x /\ slot'[w] = slot[w]
    BY <2>1, WorkerTypes, IdleTyped
  <2>3. status'[w] = status[w]
    BY <2>1, <2>2, StatusTyped DEF Status
  <2> QED BY <2>2, <2>3 DEF BusyIsShown
<1>7. ASSUME NEW s \in Slot, Agent!LookAtFlag(x, s)
      PROVE  FALSE
  <2>1. slot[x][s].pc = "idle"
    BY <1>7, IdleTyped, Zenon DEF Agent!LookAtFlag
  <2>2. PICK other \in Slot : slot[x][other].pc = "pending seen"
    BY <1>7, Zenon DEF Agent!LookAtFlag
  <2>3. other = s
    BY DEF Sequential
  <2> QED BY <2>1, <2>2, <2>3
<1>8. ASSUME NEW s \in Slot, Agent!ReadStatus(x, s)
      PROVE  status'[w] \in {"pending", "processing"}
  <2>1. slot[x][s].pc = "looking" /\ UNCHANGED status
    BY <1>8 DEF Agent!ReadStatus
  <2>2. \A y \in Worker : y # x => slot'[y] = slot[y]
    BY <1>8, WorkerTypes DEF Agent!ReadStatus, Agent!Goto
  <2>3. r = s
    BY DEF Sequential
  <2> QED BY <2>1, <2>2, <2>3 DEF BusyIsShown
<1> QED BY <1>1, <1>2, <1>3, <1>4, <1>5, <1>6, <1>7, <1>8
        DEF Agent!WorkerStep, Agent!Proceed, Vote

\* A step of a worker takes nothing from the tick.
LEMMA WorkerStepSequential ==
  ASSUME Sequential, TypeInv, SequentialInv, NEW x \in Worker, WorkerStep(x)
  PROVE  SequentialInv'
<1>1. /\ WorkersTyped /\ TicksTyped
      /\ Agent!WorkerStep(x) /\ UNCHANGED <<contractVars, tick, boardVars>>
  BY TypeParts DEF WorkerStep
<1>2. UNCHANGED task_definition
  BY <1>1 DEF Agent!WorkerStep, Agent!PollStatus, Agent!LookAtFlag, Agent!ReadStatus,
   Agent!Proceed, Agent!ReadTask,
       Agent!StartProcessing, Agent!WriteVote, Agent!Complete, Agent!Fail, Agent!initializeWorker
<1>3. BusyIsShown'
  BY <1>1, BusyStays DEF SequentialInv
<1>4. NothingRecorded'
  BY <1>1 DEF SequentialInv, NothingRecorded, Contract!InState, Contract!Exists, contractVars
<1>5. ASSUME NEW t \in Tick
      PROVE  TickInv(t)'
  <2>1. Asked(t)'
    BY <1>1, <1>2 DEF SequentialInv, TickInv, Asked, contractVars, boardVars
  <2>2. CountedRight(t)'
    BY <1>1 DEF SequentialInv, TickInv, CountedRight, Counted, contractVars
  <2>3. Stands(t)'
    <3>1. CASE tick[t].pc \in {"reading", "recording", "aggregating"}
      <4>1. tick[t].workers \in SUBSET Worker
        BY <1>1 DEF TicksTyped, TickTyped
      <4>2. \A w \in tick[t].workers : Silent(w)' /\ result'[w] = result[w]
        BY <1>1, <3>1, <4>1, SilentStays DEF SequentialInv, TickInv, Stands
      <4>3. Answers(tick[t].workers)' = Answers(tick[t].workers)
        BY <1>1, <4>2 DEF Answers
      <4> QED BY <1>1, <4>2, <4>3 DEF SequentialInv, TickInv, Stands, Content, contractVars
    <3>2. CASE tick[t].pc \notin {"reading", "recording", "aggregating"}
      BY <1>1, <3>2 DEF Stands
    <3> QED BY <3>1, <3>2
  <2> QED BY <2>1, <2>2, <2>3 DEF TickInv
<1> QED BY <1>3, <1>4, <1>5 DEF SequentialInv

\* A step that leaves what is recorded on proposals under way alone.
LEMMA ProposalsKept ==
  ASSUME TypeInv, RecorderInv, SequentialInv,
         UNCHANGED <<workerVars, tick, boardVars>>,
         \A id \in ProposalId : id <= current_proposal_id =>
           /\ proposals'[id].worker_submissions = proposals[id].worker_submissions
           /\ proposals'[id].config_hash = proposals[id].config_hash,
         NothingRecorded'
  PROVE  SequentialInv'
<1>1. BusyIsShown'
  BY DEF SequentialInv, BusyIsShown, workerVars
<1>2. ASSUME NEW t \in Tick
      PROVE  TickInv(t)'
  <2>1. CASE tick[t].pc = "idle"
    BY <2>1 DEF TickInv, Asked, Stands, CountedRight, Counted, Past
  <2>2. CASE tick[t].pc # "idle"
    <3> DEFINE id == tick[t].id
    <3>1. /\ proposals'[id].worker_submissions = proposals[id].worker_submissions
          /\ proposals'[id].config_hash = proposals[id].config_hash
      BY <2>2 DEF RecorderInv, TicksOnStarted
    <3>2. Asked(t)' /\ Stands(t)'
      BY <3>1 DEF SequentialInv, TickInv, Asked, Stands, Silent, Answers, Content, workerVars,
                  boardVars
    <3>3. CountedRight(t)'
      BY <3>1 DEF SequentialInv, TickInv, CountedRight, Counted
    <3> QED BY <3>2, <3>3 DEF TickInv
  <2> QED BY <2>1, <2>2
<1> QED BY <1>1, <1>2 DEF SequentialInv

\* A request, a time-out or the callback.
LEMMA OutsideSequential ==
  ASSUME TypeInv, RecorderInv, SequentialInv,
         Runtime \/ \E c \in Config, n \in ExpectedCounts : Request(c, n)
  PROVE  SequentialInv'
<1>0. ContractTyped
  BY TypeParts
<1>1. ASSUME NEW c \in Config, NEW n \in ExpectedCounts, Request(c, n)
      PROVE  SequentialInv'
  <2>1. PICK id \in ProposalId :
          /\ id = current_proposal_id + 1
          /\ proposals' = [proposals EXCEPT ![id] =
               [state |-> "Created", config_hash |-> c, expected_worker_count |-> n,
                worker_submissions |-> << >>, finalized_result |-> NoAnswer]]
          /\ UNCHANGED <<workerVars, tick, boardVars>>
    BY <1>1 DEF Request, Contract!start_coordination, Contract!ProposalId, ProposalId
  <2>2. \A i \in ProposalId : i # id => proposals'[i] = proposals[i]
    BY <1>0, <2>1, ContractTypes
  <2>3. \A i \in ProposalId : i <= current_proposal_id => i # id
    BY <1>0, <2>1, ContractTypes
  <2>4. NothingRecorded'
    <3>1. proposals'[id].worker_submissions = << >>
      BY <1>0, <2>1, ContractTypes
    <3> QED BY <2>2, <3>1 DEF SequentialInv, NothingRecorded, Contract!InState, Contract!Exists
  <2> QED BY <2>1, <2>2, <2>3, <2>4, ProposalsKept
<1>2. CASE Runtime
  <2>1. UNCHANGED <<workerVars, tick, boardVars>>
    BY <1>2 DEF Runtime
  <2>2. ASSUME NEW id \in ProposalId, Contract!YieldTimeout(id)
        PROVE  SequentialInv'
    <3>1. UNCHANGED proposals
      BY <2>2 DEF Contract!YieldTimeout
    <3>2. NothingRecorded'
      BY <3>1 DEF SequentialInv, NothingRecorded, Contract!InState, Contract!Exists
    <3> QED BY <2>1, <3>1, <3>2, ProposalsKept
  <2>3. ASSUME NEW r \in resumes, Contract!DeliverResume(r)
        PROVE  SequentialInv'
    <3>1. PICK id \in ProposalId : id = r.id
      BY <1>0, ContractTypes DEF Contract!Resume, Contract!ProposalId, ProposalId
    <3>2. Contract!return_coordination_result(id, r)
      BY <2>3, <3>1 DEF Contract!DeliverResume
    <3>3. \A i \in ProposalId : i # id => proposals'[i] = proposals[i]
      BY <1>0, <3>2, ContractTypes DEF Contract!return_coordination_result
    <3>4. Contract!Exists(id) =>
            /\ proposals'[id].worker_submissions = proposals[id].worker_submissions
            /\ proposals'[id].config_hash = proposals[id].config_hash
            /\ proposals'[id].state # "Created"
      <4> SUFFICES ASSUME Contract!Exists(id)
                   PROVE  /\ proposals'[id].worker_submissions = proposals[id].worker_submissions
                          /\ proposals'[id].config_hash = proposals[id].config_hash
                          /\ proposals'[id].state # "Created"
        OBVIOUS
      <4>1. proposals[id] \in Contract!Proposal
        BY <1>0, ProposalTyped
      <4>2. \/ proposals' = [proposals EXCEPT ![id].state = "TimedOut"]
            \/ proposals' = [proposals EXCEPT ![id].state = "Finalized",
                                              ![id].finalized_result = r.value]
        BY <3>2 DEF Contract!return_coordination_result
      <4> QED BY <1>0, <4>1, <4>2, ContractTypes DEF Contract!Proposal
    <3>5. ~Contract!Exists(id) => UNCHANGED proposals
      BY <3>2 DEF Contract!return_coordination_result
    <3>6. NothingRecorded'
      BY <3>3, <3>4, <3>5 DEF SequentialInv, NothingRecorded, Contract!InState, Contract!Exists
    <3> QED BY <2>1, <3>3, <3>4, <3>5, <3>6, ProposalsKept
  <2> QED BY <1>2, <2>2, <2>3
          DEF Runtime, Contract!Runtime, Contract!ProposalId, ProposalId
<1> QED BY <1>1, <1>2

-----------------------------------------------------------------------------
(* Steps of the one tick *)

\* A tick that moves keeps what it has.
LEMMA GotoKeeps ==
  ASSUME Shapes, NEW t \in Tick, NEW pc, Goto(t, pc)
  PROVE  /\ tick'[t].pc = pc /\ tick'[t].id = tick[t].id
         /\ tick'[t].workers = tick[t].workers /\ tick'[t].submissions = tick[t].submissions
         /\ tick'[t].tally = tick[t].tally /\ tick'[t].listed = tick[t].listed
BY DEF Shapes, Function, IdleTick, Goto

\* A tick that ends is idle.
LEMMA EndForgets ==
  ASSUME Shapes, NEW t \in Tick, End(t)
  PROVE  tick'[t].pc = "idle"
BY DEF Shapes, IdleTick, End

\* The one tick is all there is to look at.
LEMMA OneTick ==
  ASSUME Sequential, NEW t \in Tick, NothingRecorded', BusyIsShown', TickInv(t)'
  PROVE  SequentialInv'
<1> SUFFICES ASSUME NEW u \in Tick
             PROVE  TickInv(u)'
  BY DEF SequentialInv
<1>1. u = t
  BY DEF Sequential
<1> QED BY <1>1

\* Before the first key is written, and at the end, nothing is claimed.
LEMMA EarlyTick ==
  ASSUME NEW t \in Tick, tick'[t].pc \in {"idle", "discovering", "publishing"}
  PROVE  TickInv(t)'
BY DEF TickInv, Asked, Stands, CountedRight, Counted, Past

\* Nothing happened to the proposals.
LEMMA ContractKeptRecord ==
  ASSUME NothingRecorded, UNCHANGED proposals
  PROVE  NothingRecorded'
BY DEF NothingRecorded, Contract!InState, Contract!Exists

\* Nothing happened to the workers.
LEMMA BusyKept ==
  ASSUME BusyIsShown, UNCHANGED <<status, slot>>
  PROVE  BusyIsShown'
BY DEF BusyIsShown

\* The counting is of the answers recorded.
LEMMA CountsRight ==
  ASSUME Sequential, TypeInv, RecorderInv, SequentialInv, NEW t \in Tick, aggregateResults(t)
  PROVE  TickInv(t)'
<1> DEFINE id == tick[t].id
           W == tick[t].workers
<1>1. /\ tick[t].pc = "aggregating" /\ id \in ProposalId /\ Contract!Exists(id)
      /\ UNCHANGED <<contractVars, workerVars, boardVars>>
  BY DEF aggregateResults, At, RecorderInv, TicksOnStarted, TypeInv, Started
<1>2. /\ Asked(t) /\ Stands(t)
      /\ Shapes /\ W \in SUBSET Worker /\ Agent!TypeOK /\ ContractTyped
  BY TypeParts DEF SequentialInv, TickInv, RecorderInv, TicksTyped, TickTyped, WorkersTyped
<1>3. /\ snapshot[id] = W /\ W # {}
      /\ Content(proposals[id].worker_submissions) = Answers(W)
  BY <1>1, <1>2 DEF Asked, Stands, Past
<1> DEFINE read == {w \in W : result[w] # NoResult}
           tally == TallyOf(id, W, read, task_definition)
<1>4. tick' = [tick EXCEPT ![t].pc = "archiving", ![t].tally = tally]
  BY <1>3 DEF aggregateResults, Readings, Reading, Sequential
<1>5. /\ tick'[t].pc = "archiving" /\ tick'[t].id = id
      /\ tick'[t].workers = W /\ tick'[t].tally = tally
  BY <1>2, <1>4 DEF Shapes, Function, IdleTick
<1>6. DOMAIN tally.votes = read /\ \A w \in read : tally.votes[w] = result[w]
  BY DEF TallyOf
<1>7. {[worker_id |-> w, result_hash |-> tally.votes[w]] : w \in DOMAIN tally.votes} = Answers(W)
  BY <1>6 DEF Answers
<1>8. CountedRight(t)'
  <2> HIDE DEF tally, W, id
  <2>1. proposals' = proposals
    BY <1>1 DEF contractVars
  <2> QED BY <1>3, <1>5, <1>7, <2>1 DEF CountedRight, Content
<1>9. Asked(t)' /\ Stands(t)'
  BY <1>1, <1>3, <1>5 DEF Asked, Stands, Past, boardVars
<1> QED BY <1>8, <1>9 DEF TickInv

\* The recording: what was submitted is what the chain has.
LEMMA RecordsAnswers ==
  ASSUME Sequential, TypeInv, RecorderInv, SequentialInv, NEW t \in Tick, RecordSubmissions(t)
  PROVE  SequentialInv'
<1> DEFINE id == tick[t].id
<1>0. /\ Shapes /\ ContractTyped /\ TickTyped(t) /\ NothingRecorded /\ BusyIsShown
      /\ Asked(t) /\ Stands(t)
  BY TypeParts DEF RecorderInv, TicksTyped, SequentialInv, TickInv
<1>1. /\ tick[t].pc = "recording" /\ id \in ProposalId
      /\ UNCHANGED <<workerVars, boardVars>>
      /\ \/ UNCHANGED contractVars /\ End(t)
         \/ /\ Contract!record_worker_submissions(Coordinator, id, tick[t].submissions)
            /\ End(t) \/ Goto(t, "aggregating")
  BY DEF RecordSubmissions, Answered, At, RecorderInv, TicksOnStarted
<1>2. BusyIsShown'
  BY <1>0, <1>1, BusyKept DEF workerVars
<1>3. CASE UNCHANGED contractVars /\ End(t)
  BY <1>0, <1>2, <1>3, ContractKeptRecord, EndForgets, EarlyTick, OneTick DEF contractVars
<1>4. CASE /\ Contract!record_worker_submissions(Coordinator, id, tick[t].submissions)
           /\ End(t) \/ Goto(t, "aggregating")
  <2>1. /\ Contract!InState(id, "Created") /\ Contract!Exists(id)
        /\ proposals' = [proposals EXCEPT
             ![id].worker_submissions = Contract!Recorded(id, tick[t].submissions),
             ![id].state = "WorkersCompleted"]
    BY <1>4 DEF Contract!record_worker_submissions, Contract!RecordAccepted, Contract!InState
  <2>2. Contract!Recorded(id, tick[t].submissions) = tick[t].submissions
    <3>1. proposals[id].worker_submissions = << >>
      BY <1>0, <1>1, <2>1 DEF NothingRecorded
    <3> QED BY <1>0, <3>1, ConcatEmptySeq DEF Contract!Recorded, TickTyped
  <2>3. proposals[id] \in Contract!Proposal
    BY <1>0, <1>1, <2>1, ProposalTyped
  <2>4. /\ proposals'[id].worker_submissions = tick[t].submissions
        /\ proposals'[id].config_hash = proposals[id].config_hash
        /\ proposals'[id].state = "WorkersCompleted"
        /\ \A i \in ProposalId : i # id => proposals'[i] = proposals[i]
    BY <1>0, <1>1, <2>1, <2>2, <2>3, ContractTypes DEF Contract!Proposal
  <2>5. NothingRecorded'
    BY <1>0, <2>4 DEF NothingRecorded, Contract!InState, Contract!Exists
  <2>6. CASE End(t)
    BY <1>0, <1>2, <2>5, <2>6, EndForgets, EarlyTick, OneTick
  <2>7. CASE Goto(t, "aggregating")
    <3>1. /\ tick'[t].pc = "aggregating" /\ tick'[t].id = id
          /\ tick'[t].workers = tick[t].workers
      BY <1>0, <2>7, GotoKeeps
    <3>2. Asked(t)'
      BY <1>0, <1>1, <2>4, <3>1 DEF Asked, Past, workerVars, boardVars
    <3>3. Stands(t)'
      <4>1. Content(tick[t].submissions) = Answers(tick[t].workers)
        BY <1>0, <1>1 DEF Stands
      <4>2. \A w \in tick[t].workers : Silent(w)'
        BY <1>0, <1>1 DEF Stands, Silent, workerVars
      <4>3. Answers(tick[t].workers)' = Answers(tick'[t].workers)
        BY <1>1, <3>1 DEF Answers, workerVars
      <4>4. Content(proposals'[id].worker_submissions) = Answers(tick[t].workers)
        BY <2>4, <4>1
      <4> QED BY <1>1, <3>1, <4>2, <4>4 DEF Stands, Answers, Content, workerVars
    <3>4. CountedRight(t)'
      BY <3>1 DEF CountedRight, Counted, Past
    <3> QED BY <1>2, <2>5, <3>2, <3>3, <3>4, OneTick DEF TickInv
  <2> QED BY <1>4, <2>6, <2>7
<1> QED BY <1>1, <1>3, <1>4

\* The steps of the tick that leave the contract alone.
LEMMA QuietSequential ==
  ASSUME Sequential, TypeInv, RecorderInv, SequentialInv, NEW t \in Tick, QuietAdvance(t)
  PROVE  SequentialInv'
<1>0. /\ Shapes /\ WorkersTyped /\ TickTyped(t) /\ NothingRecorded /\ BusyIsShown /\ TickInv(t)
  BY TypeParts DEF RecorderInv, TicksTyped, SequentialInv
<1>1. CASE getActiveWorkers(t)
  <2>1. PICK W : tick' = [tick EXCEPT ![t].pc = "publishing", ![t].workers = W, ![t].todo = W]
    BY <1>1 DEF getActiveWorkers
  <2>2. tick'[t].pc = "publishing"
    BY <1>0, <2>1 DEF Shapes, IdleTick
  <2>3. UNCHANGED <<proposals, status, slot>>
    BY <1>1 DEF getActiveWorkers, contractVars, workerVars
  <2> QED BY <1>0, <2>2, <2>3, EarlyTick, OneTick, ContractKeptRecord, BusyKept
<1>2. CASE PublishTask(t)
  <2>1. /\ task_definition' = proposals[tick[t].id].config_hash
        /\ Goto(t, "resetting")
        /\ UNCHANGED <<proposals, status, slot>>
    BY <1>2 DEF PublishTask, contractVars, Agent!Stored, Sequential
  <2>2. tick'[t].pc = "resetting" /\ tick'[t].id = tick[t].id
    BY <1>0, <2>1, GotoKeeps
  <2>3. TickInv(t)'
    BY <2>1, <2>2 DEF TickInv, Asked, Stands, CountedRight, Counted, Past
  <2> QED BY <1>0, <2>1, <2>3, OneTick, ContractKeptRecord, BusyKept
<1>3. ASSUME NEW w \in Worker, ResetStatus(t, w)
      PROVE  SequentialInv'
  <2>1. /\ tick[t].pc = "resetting"
        /\ tick' = [tick EXCEPT ![t].todo = @ \ {w}]
        /\ Agent!WriteStatus(w, "pending")
        /\ UNCHANGED <<proposals, task_definition, slot>>
    BY <1>3 DEF ResetStatus, At, contractVars
  <2>2. tick'[t].pc = "resetting" /\ tick'[t].id = tick[t].id
    BY <1>0, <2>1 DEF Shapes, Function, IdleTick
  <2>3. TickInv(t)'
    BY <1>0, <2>1, <2>2 DEF TickInv, Asked, Stands, CountedRight, Counted, Past
  <2>4. \A x \in Worker : status'[x] = status[x] \/ status'[x] = "pending"
    BY <1>0, <2>1, StatusTyped DEF Status
  <2>5. BusyIsShown'
    BY <1>0, <2>1, <2>4 DEF BusyIsShown
  <2> QED BY <1>0, <2>1, <2>3, <2>5, OneTick, ContractKeptRecord
<1>4. CASE TakeSnapshot(t)
  <2>1. /\ tick[t].pc = "resetting"
        /\ UNCHANGED <<proposals, task_definition, status, slot>>
        /\ \/ End(t)
           \/ /\ tick[t].workers # {}
              /\ snapshot' = [snapshot EXCEPT ![tick[t].id] = tick[t].workers]
              /\ Goto(t, "waiting")
    BY <1>4 DEF TakeSnapshot, At, contractVars, workerVars, Agent!Stored, Sequential
  <2>2. CASE End(t)
    BY <1>0, <2>1, <2>2, EndForgets, EarlyTick, OneTick, ContractKeptRecord, BusyKept
  <2>3. CASE /\ tick[t].workers # {}
             /\ snapshot' = [snapshot EXCEPT ![tick[t].id] = tick[t].workers]
             /\ Goto(t, "waiting")
    <3>1. /\ tick'[t].pc = "waiting" /\ tick'[t].id = tick[t].id
          /\ tick'[t].workers = tick[t].workers
      BY <1>0, <2>3, GotoKeeps
    <3>2. snapshot'[tick[t].id] = tick[t].workers
      <4>1. tick[t].id \in ProposalId
        BY <2>1 DEF RecorderInv, TicksOnStarted
      <4> QED BY <2>3, <4>1 DEF TypeInv, BoardTyped
    <3>3. TickInv(t)'
      BY <1>0, <2>1, <2>3, <3>1, <3>2 DEF TickInv, Asked, Stands, CountedRight, Counted, Past
    <3> QED BY <1>0, <2>1, <3>3, OneTick, ContractKeptRecord, BusyKept
  <2> QED BY <2>1, <2>2, <2>3
<1>5. CASE AllDone(t)
  <2>1. /\ tick[t].pc = "waiting"
        /\ \A w \in tick[t].workers : status[w] \in {"completed", "failed"}
        /\ Goto(t, "reading")
        /\ UNCHANGED <<contractVars, workerVars, boardVars>>
    BY <1>5 DEF AllDone, At
  <2>2. tick'[t].pc = "reading" /\ tick'[t].id = tick[t].id /\ tick'[t].workers = tick[t].workers
    BY <1>0, <2>1, GotoKeeps
  <2>3. \A w \in tick[t].workers : Silent(w)'
    BY <1>0, <2>1 DEF BusyIsShown, Silent, TickTyped, workerVars
  <2>4. TickInv(t)'
    BY <1>0, <2>1, <2>2, <2>3
       DEF TickInv, Asked, Stands, CountedRight, Counted, Past, contractVars, workerVars, boardVars
  <2> QED BY <1>0, <2>1, <2>4, OneTick, ContractKeptRecord, BusyKept DEF contractVars, workerVars
<1>6. CASE WaitTimeout(t)
  <2>1. End(t) /\ UNCHANGED <<proposals, status, slot>>
    BY <1>6 DEF WaitTimeout, contractVars, workerVars
  <2> QED BY <1>0, <2>1, EndForgets, EarlyTick, OneTick, ContractKeptRecord, BusyKept
<1>7. CASE readResultsWithRetry(t)
  <2>1. /\ tick[t].pc = "reading"
        /\ UNCHANGED <<contractVars, workerVars, boardVars>>
    BY <1>7 DEF readResultsWithRetry, At
  <2>2. PICK read \in Readings(tick[t].workers) :
          tick' = [tick EXCEPT ![t].pc = "recording", ![t].submissions = SubmissionsOf(read)]
    BY <1>7 DEF readResultsWithRetry
  <2>3. /\ tick'[t].pc = "recording" /\ tick'[t].id = tick[t].id
        /\ tick'[t].workers = tick[t].workers /\ tick'[t].submissions = SubmissionsOf(read)
    BY <1>0, <2>2 DEF Shapes, Function, IdleTick
  <2>4. Content(SubmissionsOf(read)) = Answers(tick[t].workers)
    <3>1. tick[t].workers \in SUBSET Worker /\ Agent!TypeOK
      BY <1>0 DEF TickTyped, WorkersTyped
    <3>2. read = {w \in tick[t].workers : result[w] # NoResult}
      BY <3>1, ReadHaveResults DEF Sequential
    <3>3. Content(SubmissionsOf(read))
            = {[worker_id |-> w, result_hash |-> result[w]] : w \in read}
      BY <3>1, SubmissionsListed DEF Content
    <3> QED BY <3>2, <3>3 DEF Answers
  <2>5. Answers(tick[t].workers)' = Answers(tick'[t].workers)
    BY <2>1 DEF Answers, workerVars
  <2>6. Stands(t)'
    <3>1. \A w \in tick[t].workers : Silent(w)'
      BY <1>0, <2>1 DEF TickInv, Stands, Silent, workerVars
    <3> QED BY <2>1, <2>3, <2>4, <3>1 DEF Stands, Answers, Content, workerVars
  <2>7. Asked(t)' /\ CountedRight(t)'
    BY <1>0, <2>1, <2>3
       DEF TickInv, Asked, CountedRight, Counted, Past, contractVars, workerVars, boardVars
  <2> QED BY <1>0, <2>1, <2>6, <2>7, OneTick, ContractKeptRecord, BusyKept
          DEF TickInv, contractVars, workerVars
<1>8. CASE aggregateResults(t)
  <2>1. UNCHANGED <<proposals, status, slot>>
    BY <1>8 DEF aggregateResults, contractVars, workerVars
  <2> QED BY <1>0, <1>8, <2>1, CountsRight, OneTick, ContractKeptRecord, BusyKept
<1>9. CASE archiveProposal(t) \/ ReadIndex(t) \/ WriteIndex(t)
  <2>1. /\ Counted(t)
        /\ UNCHANGED <<contractVars, workerVars, snapshot>>
    BY <1>9 DEF archiveProposal, ReadIndex, WriteIndex, At, Counted, Past, boardVars
  <2>2. /\ tick'[t].pc \in {"indexing", "listing", "resuming"} /\ tick'[t].id = tick[t].id
        /\ tick'[t].workers = tick[t].workers /\ tick'[t].tally = tick[t].tally
    <3>1. CASE archiveProposal(t) \/ WriteIndex(t)
      BY <1>0, <3>1, GotoKeeps DEF archiveProposal, WriteIndex
    <3>2. CASE ReadIndex(t)
      <4>1. PICK x : tick' = [tick EXCEPT ![t].pc = "listing", ![t].listed = x]
        BY <3>2 DEF ReadIndex
      <4> QED BY <1>0, <4>1 DEF Shapes, Function, IdleTick
    <3> QED BY <1>9, <3>1, <3>2
  <2>3. CountedRight(t)'
    BY <1>0, <2>1, <2>2 DEF TickInv, CountedRight, Counted, contractVars
  <2>4. Asked(t)' /\ Stands(t)'
    BY <1>0, <2>1, <2>2 DEF TickInv, Asked, Stands, Counted, Past
  <2> QED BY <1>0, <2>1, <2>3, <2>4, OneTick, ContractKeptRecord, BusyKept
          DEF TickInv, contractVars, workerVars
<1> QED BY <1>1, <1>2, <1>3, <1>4, <1>5, <1>6, <1>7, <1>8, <1>9 DEF QuietAdvance

\* Every step keeps the answers the tick collects, if ticks do not overlap.
LEMMA NextSequential ==
  ASSUME Sequential
  PROVE  SequentialInv /\ TypeInv /\ RecorderInv /\ [Next]_vars => SequentialInv'
<1> SUFFICES ASSUME SequentialInv, TypeInv, RecorderInv, [Next]_vars
             PROVE  SequentialInv'
  OBVIOUS
<1>0. Shapes /\ NothingRecorded /\ BusyIsShown
  BY DEF RecorderInv, SequentialInv
<1>1. CASE Runtime \/ \E c \in Config, n \in ExpectedCounts : Request(c, n)
  BY <1>1, OutsideSequential
<1>2. ASSUME NEW w \in Worker, WorkerStep(w)
      PROVE  SequentialInv'
  BY <1>2, WorkerStepSequential
<1>3. ASSUME NEW t \in Tick, checkAndCoordinate(t)
      PROVE  SequentialInv'
  <2>1. PICK id : tick' = [tick EXCEPT ![t].pc = "discovering", ![t].id = id]
    BY <1>3 DEF checkAndCoordinate
  <2>2. tick'[t].pc = "discovering"
    BY <1>0, <2>1 DEF Shapes, IdleTick
  <2>3. UNCHANGED <<proposals, status, slot>>
    BY <1>3 DEF checkAndCoordinate, contractVars, workerVars
  <2> QED BY <1>0, <2>2, <2>3, EarlyTick, OneTick, ContractKeptRecord, BusyKept
<1>4. ASSUME NEW t \in Tick, QuietAdvance(t)
      PROVE  SequentialInv'
  BY <1>4, QuietSequential
<1>5. ASSUME NEW t \in Tick, RecordSubmissions(t)
      PROVE  SequentialInv'
  BY <1>5, RecordsAnswers
<1>6. ASSUME NEW t \in Tick, resumeContractWithTally(t)
      PROVE  SequentialInv'
  <2>1. End(t) /\ UNCHANGED <<proposals, status, slot>>
    BY <1>6 DEF resumeContractWithTally, Answered, Contract!coordinator_resume, contractVars,
                workerVars
  <2> QED BY <1>0, <2>1, EndForgets, EarlyTick, OneTick, ContractKeptRecord, BusyKept
<1>7. CASE Crash
  <2>1. /\ \A t \in Tick : tick'[t].pc = "idle"
        /\ UNCHANGED <<proposals, status, slot>>
    BY <1>7 DEF Crash, IdleTick, contractVars, workerVars
  <2>2. \A t \in Tick : TickInv(t)'
    BY <2>1, EarlyTick
  <2> QED BY <1>0, <2>1, <2>2, ContractKeptRecord, BusyKept DEF SequentialInv
<1>8. CASE UNCHANGED vars
  <2>1. /\ proposals' = proposals /\ status' = status /\ slot' = slot
        /\ result' = result /\ snapshot' = snapshot /\ tick' = tick
    BY <1>8 DEF vars, contractVars, workerVars, boardVars
  <2>2. NothingRecorded' /\ BusyIsShown'
    BY <1>0, <2>1, ContractKeptRecord, BusyKept
  <2>3. ASSUME NEW t \in Tick
        PROVE  TickInv(t)'
    <3>1. TickInv(t)
      BY DEF SequentialInv
    <3>2. Asked(t)' /\ CountedRight(t)'
      BY <2>1, <3>1 DEF TickInv, Asked, CountedRight, Counted, Content
    <3>3. Stands(t)'
      BY <2>1, <3>1 DEF TickInv, Stands, Silent, Answers, Content
    <3> QED BY <3>2, <3>3 DEF TickInv
  <2> QED BY <2>2, <2>3 DEF SequentialInv
<1> QED BY <1>1, <1>2, <1>3, <1>4, <1>5, <1>6, <1>7, <1>8 DEF Next, Advance, QuietAdvance

\* At first there is nothing to collect.
LEMMA InitSequential == Init => SequentialInv
<1> SUFFICES ASSUME Init
             PROVE  SequentialInv
  OBVIOUS
<1>1. \A t \in Tick : tick[t].pc = "idle"
  BY DEF Init, IdleTick
<1>2. \A t \in Tick : TickInv(t)
  BY <1>1 DEF TickInv, Asked, Stands, CountedRight, Counted, Past
<1>3. NothingRecorded
  BY DEF Init, NothingRecorded, Contract!InState, Contract!Exists
<1>4. BusyIsShown
  BY DEF Init, Agent!Init, Agent!Idle, BusyIsShown
<1> QED BY <1>2, <1>3, <1>4 DEF SequentialInv

-----------------------------------------------------------------------------
(* The history entries *)

\* A tally that counts the votes it lists, for the proposal.
Counts(tally, id) == tally.proposalId = id /\ Abstract!AddsUp(tally)

\* An entry exists only once the submissions are recorded ...
EntriesFollow ==
  \A id \in ProposalId : archive[id] # NoTally =>
    Contract!Exists(id) /\ ~Contract!InState(id, "Created")

\* ... not before the tick past the recording writes it ...
Before == {"aggregating", "archiving"}
NotYetArchived == \A t \in Tick : tick[t].pc \in Before => archive[tick[t].id] = NoTally

\* ... and what that tick has counted adds up.
TalliesCount == \A t \in Tick : Counted(t) => Counts(tick[t].tally, tick[t].id)

\* The inductive invariant of the entries.
EntryInv == EntriesFollow /\ NotYetArchived /\ TalliesCount

\* The abstract specification counts as the round does.
LEMMA SameCount == \A S : Abstract!Cardinality(S) = Cardinality(S)
BY DEF Abstract!Cardinality, Cardinality

\* The tally over the workers read adds up, whoever they are.
LEMMA TallyCounts ==
  ASSUME Agent!TypeOK, NEW id \in ProposalId, NEW W \in SUBSET Worker,
         NEW read \in Readings(W), NEW config
  PROVE  Counts(TallyOf(id, W, read, config), id)
<1> DEFINE tally == TallyOf(id, W, read, config)
<1>1. tally \in Tally
  BY TallyTyped
<1>2. /\ tally.proposalId = id
      /\ tally.votes = [w \in read |-> result[w]]
      /\ tally.approved = Cardinality({w \in read : result[w].vote = "Approved"})
      /\ tally.rejected = Cardinality(read) - tally.approved
      /\ tally.workerCount = Cardinality(read)
  BY DEF TallyOf
<1>3. DOMAIN tally.votes = read /\ \A w \in read : tally.votes[w] = result[w]
  BY <1>2
<1>4. {w \in DOMAIN tally.votes : tally.votes[w].vote = "Approved"}
        = {w \in read : result[w].vote = "Approved"}
  BY <1>3
<1>5. tally.approved \in Nat /\ tally.workerCount \in Nat
  BY <1>1 DEF Tally
<1> HIDE DEF tally
<1>6. tally.approved + tally.rejected = tally.workerCount
  BY <1>2, <1>5
<1> QED BY <1>2, <1>3, <1>4, <1>6, SameCount DEF Counts, Abstract!AddsUp, tally

\* No tick was past the recording that was not before, and none counted.
NoneCounts ==
  \A u \in Tick :
    /\ tick'[u].pc \in Before => tick[u].pc \in Before /\ tick'[u].id = tick[u].id
    /\ Counted(u)' => /\ Counted(u) /\ tick'[u].id = tick[u].id
                      /\ tick'[u].tally = tick[u].tally

\* No entry, and no proposal that has one goes back.
LEMMA EntryStands ==
  ASSUME EntryInv, UNCHANGED archive, NoneCounts,
         \A id \in ProposalId : Contract!Exists(id) /\ ~Contract!InState(id, "Created") =>
           (Contract!Exists(id) /\ ~Contract!InState(id, "Created"))'
  PROVE  EntryInv'
<1>1. EntriesFollow'
  BY DEF EntryInv, EntriesFollow
<1>2. NotYetArchived'
  BY DEF EntryInv, NotYetArchived, NoneCounts
<1>3. TalliesCount'
  <2> SUFFICES ASSUME NEW u \in Tick, Counted(u)'
               PROVE  Counts(tick'[u].tally, tick'[u].id)
    BY DEF TalliesCount, Counts, Abstract!AddsUp
  <2>1. /\ Counted(u) /\ tick'[u].id = tick[u].id
        /\ tick'[u].tally = tick[u].tally
    BY DEF NoneCounts
  <2> QED BY <2>1 DEF EntryInv, TalliesCount
<1> QED BY <1>1, <1>2, <1>3 DEF EntryInv

\* Moves before the recording, and after the archiving.
LEMMA NoCountByGoto ==
  ASSUME Shapes, NEW t \in Tick, NEW pc, Goto(t, pc), pc \notin Before,
         pc \in Past => tick[t].pc \in Past \ {"aggregating"}
  PROVE  NoneCounts
BY DEF Shapes, Function, IdleTick, Goto, NoneCounts, Counted, Before, Past

\* Ticks that end.
LEMMA NoCountByEnd ==
  ASSUME Shapes, NEW t \in Tick, End(t)
  PROVE  NoneCounts
BY DEF Shapes, Function, IdleTick, End, NoneCounts, Counted, Before, Past

\* The steps of a tick that leave contract and archive alone and do not count.
LEMMA QuietCounts ==
  ASSUME Shapes, NEW t \in Tick, QuietAdvance(t), ~archiveProposal(t), ~aggregateResults(t)
  PROVE  NoneCounts
<1>1. CASE getActiveWorkers(t)
  <2>1. PICK W : tick' = [tick EXCEPT ![t].pc = "publishing", ![t].workers = W, ![t].todo = W]
    BY <1>1, Zenon DEF getActiveWorkers
  <2>2. Moves(t, "publishing")
    BY <2>1 DEF Shapes, Function, IdleTick, Moves
  <2> QED BY <2>2 DEF Moves, NoneCounts, Counted, Before, Past
<1>2. CASE PublishTask(t)
  BY <1>2, NoCountByGoto DEF PublishTask, Before, Past
<1>3. ASSUME NEW w \in Worker, ResetStatus(t, w)
      PROVE  NoneCounts
  <2>1. tick' = [tick EXCEPT ![t].todo = @ \ {w}]
    BY <1>3 DEF ResetStatus
  <2> QED BY <2>1 DEF Shapes, Function, IdleTick, NoneCounts, Counted
<1>4. CASE TakeSnapshot(t)
  BY <1>4, NoCountByGoto, NoCountByEnd DEF TakeSnapshot, Before, Past
<1>5. CASE AllDone(t)
  BY <1>5, NoCountByGoto DEF AllDone, Before, Past
<1>6. CASE WaitTimeout(t)
  BY <1>6, NoCountByEnd DEF WaitTimeout
<1>7. CASE readResultsWithRetry(t)
  <2>1. PICK x : tick' = [tick EXCEPT ![t].pc = "recording", ![t].submissions = x]
    BY <1>7 DEF readResultsWithRetry
  <2> QED BY <2>1 DEF Shapes, Function, IdleTick, NoneCounts, Counted, Before, Past
<1>8. CASE ReadIndex(t)
  <2>1. /\ tick[t].pc = "indexing"
        /\ \E x : tick' = [tick EXCEPT ![t].pc = "listing", ![t].listed = x]
    BY <1>8 DEF ReadIndex, At
  <2> QED BY <2>1 DEF Shapes, Function, IdleTick, NoneCounts, Counted, Before, Past
<1>9. CASE WriteIndex(t)
  BY <1>9, NoCountByGoto DEF WriteIndex, At, Before, Past
<1> QED BY <1>1, <1>2, <1>3, <1>4, <1>5, <1>6, <1>7, <1>8, <1>9 DEF QuietAdvance

-----------------------------------------------------------------------------
(* What a step may do to a proposal on chain *)

SameBallots(id) == proposals'[id].worker_submissions = proposals[id].worker_submissions

Opens(id) ==
  /\ ~Contract!Exists(id) /\ Contract!InState(id, "Created")'
  /\ id = current_proposal_id + 1
  /\ proposals'[id].worker_submissions = << >>

Commits(id) == Contract!InState(id, "Created") /\ Contract!InState(id, "WorkersCompleted")'

Decides(id) ==
  /\ Contract!InState(id, "WorkersCompleted") /\ Contract!InState(id, "Finalized")'
  /\ SameBallots(id)
  /\ \E r \in resumes :
       r.id = id /\ r.value # NoAnswer /\ proposals'[id].finalized_result = r.value

Expires(id) ==
  /\ Contract!InState(id, "Created") \/ Contract!InState(id, "WorkersCompleted")
  /\ Contract!InState(id, "TimedOut")'
  /\ SameBallots(id)

Moved(id) ==
  \/ proposals'[id] = proposals[id]
  \/ Opens(id) \/ Commits(id) \/ Decides(id) \/ Expires(id)

\* A proposal that changes and is there afterwards has its new state.
LEMMA NewState ==
  ASSUME NEW id, NEW s, proposals'[id] # NoProposal, proposals'[id].state = s
  PROVE  Contract!InState(id, s)'
BY DEF Contract!InState, Contract!Exists

\* Nobody clears a proposal during a round.
LEMMA StaysThere ==
  ASSUME ProposalsShaped, Started', UNCHANGED current_proposal_id,
         NEW id \in ProposalId, Contract!Exists(id)
  PROVE  Contract!Exists(id)'
BY DEF ProposalsShaped, Started, Contract!Exists

\* A new proposal opens the next id.
LEMMA RequestMoves ==
  ASSUME TypeInv, TypeInv', Chain!ContractInv, NEW c \in Config, NEW n \in ExpectedCounts,
         Request(c, n), NEW id \in ProposalId
  PROVE  Moved(id)
<1>1. PICK new \in ProposalId :
        /\ new = current_proposal_id + 1
        /\ current_proposal_id' = new
        /\ proposals' = [proposals EXCEPT ![new] =
             [state |-> "Created", config_hash |-> c, expected_worker_count |-> n,
              worker_submissions |-> << >>, finalized_result |-> NoAnswer]]
  BY DEF Request, Contract!start_coordination, Contract!ProposalId, ProposalId
<1>2. /\ DOMAIN proposals = ProposalId
      /\ current_proposal_id \in Nat
  BY TypeParts, ContractTypes
<1>3. CASE id # new
  BY <1>1, <1>3 DEF Moved
<1>4. CASE id = new
  <2>1. proposals[id] = NoProposal
    <3>1. new \in Chain!ProposalId /\ new > current_proposal_id
      BY <1>1, <1>2 DEF Chain!ProposalId, ProposalId
    <3> QED BY <1>4, <3>1 DEF Chain!ContractInv
  <2>2. proposals'[id].state = "Created" /\ proposals'[id].worker_submissions = << >>
    BY <1>1, <1>2, <1>4
  <2>3. proposals'[id] # NoProposal
    BY <1>1, <1>4 DEF TypeInv, Started, Contract!Exists, ProposalId
  <2> QED BY <1>1, <1>4, <2>1, <2>2, <2>3, NewState DEF Moved, Opens, Contract!Exists
<1> QED BY <1>3, <1>4

\* The recording commits.
LEMMA RecordMoves ==
  ASSUME ContractTyped, Started', ProposalsShaped, NEW q \in ProposalId, NEW subs,
         Contract!record_worker_submissions(Coordinator, q, subs), NEW id \in ProposalId
  PROVE  Moved(id)
<1>1. /\ proposals' = [proposals EXCEPT ![q].worker_submissions = Contract!Recorded(q, subs),
                                        ![q].state = "WorkersCompleted"]
      /\ UNCHANGED current_proposal_id
      /\ Contract!InState(q, "Created")
  BY DEF Contract!record_worker_submissions, Contract!RecordAccepted
<1>2. proposals[q] \in Contract!Proposal
  BY <1>1, ProposalTyped DEF Contract!InState
<1>3. DOMAIN proposals = ProposalId
  BY ContractTypes
<1>4. CASE id # q
  BY <1>1, <1>3, <1>4 DEF Moved
<1>5. CASE id = q
  <2>1. proposals'[id].state = "WorkersCompleted"
    BY <1>1, <1>2, <1>3, <1>5 DEF Contract!Proposal
  <2>2. proposals'[id] # NoProposal
    BY <1>1, <1>5, StaysThere DEF Contract!InState, Contract!Exists
  <2> QED BY <1>1, <1>5, <2>1, <2>2, NewState DEF Moved, Commits
<1> QED BY <1>4, <1>5

\* The callback decides or expires; the result it brings was on its way.
LEMMA DeliverMoves ==
  ASSUME TypeInv, Started', ProposalsShaped, Chain!ContractInv, NEW r \in resumes,
         Chain!DeliverResume(r), NEW id \in ProposalId
  PROVE  Moved(id)
<1>1. /\ r.id \in ProposalId
      /\ \A q \in ProposalId \ {r.id} : proposals'[q] = proposals[q]
      /\ ~Contract!Exists(r.id) => proposals' = proposals
      /\ Contract!Exists(r.id) =>
           /\ r.value = NoAnswer =>
                proposals'[r.id] = [proposals[r.id] EXCEPT !.state = "TimedOut"]
           /\ r.value # NoAnswer =>
                proposals'[r.id] = [proposals[r.id] EXCEPT !.state = "Finalized",
                                                           !.finalized_result = r.value]
  <2>1. /\ r.id \in Chain!ProposalId
        /\ \A q \in Chain!ProposalId \ {r.id} : proposals'[q] = proposals[q]
        /\ ~Chain!Exists(r.id) => proposals' = proposals
        /\ Chain!Exists(r.id) =>
             /\ r.value = NoAnswer =>
                  proposals'[r.id] = [proposals[r.id] EXCEPT !.state = "TimedOut"]
             /\ r.value # NoAnswer =>
                  proposals'[r.id] = [proposals[r.id] EXCEPT !.state = "Finalized",
                                                             !.finalized_result = r.value]
    BY PartsAssumptions, Chain!DeliverEffect, Zenon
  <2> QED BY <2>1 DEF Chain!ProposalId, ProposalId, Chain!Exists, Contract!Exists
<1>2. UNCHANGED current_proposal_id
  BY DEF Chain!DeliverResume
<1>3. CASE id # r.id \/ ~Contract!Exists(id)
  BY <1>1, <1>3 DEF Moved
<1>4. CASE id = r.id /\ Contract!Exists(id)
  <2>1. proposals[id] \in Contract!Proposal
    BY <1>4, TypeParts, ProposalTyped
  <2>2. proposals'[id] # NoProposal
    BY <1>2, <1>4, StaysThere DEF Contract!Exists
  <2>3. Chain!Unsettled(id) /\ (r.value # NoAnswer => Contract!InState(id, "WorkersCompleted"))
    <3>1. yields[id] = "pending"
      BY <1>4 DEF Chain!DeliverResume
    <3> QED BY <1>4, <3>1 DEF Chain!ContractInv, Chain!RecordAgreesWithPromise,
               Chain!ResultsFollowSubmissions, Chain!ProposalId, ProposalId, Chain!Exists,
               Chain!InState, Contract!Exists, Contract!InState
  <2>4. CASE r.value = NoAnswer
    <3>1. proposals'[id] = [proposals[id] EXCEPT !.state = "TimedOut"]
      BY <1>1, <1>4, <2>4
    <3>2. proposals'[id].state = "TimedOut" /\ SameBallots(id)
      BY <2>1, <3>1 DEF Contract!Proposal, SameBallots
    <3>3. Contract!InState(id, "TimedOut")'
      BY <2>2, <3>2, NewState
    <3> QED BY <2>3, <3>2, <3>3 DEF Moved, Expires, Chain!Unsettled, Chain!InState,
               Chain!Exists, Contract!InState, Contract!Exists
  <2>5. CASE r.value # NoAnswer
    <3>1. proposals'[id] = [proposals[id] EXCEPT !.state = "Finalized",
                                                 !.finalized_result = r.value]
      BY <1>1, <1>4, <2>5
    <3>2. /\ proposals'[id].state = "Finalized" /\ SameBallots(id)
          /\ proposals'[id].finalized_result = r.value
      BY <2>1, <3>1 DEF Contract!Proposal, SameBallots
    <3>3. Contract!InState(id, "Finalized")'
      BY <2>2, <3>2, NewState
    <3> QED BY <1>4, <2>3, <2>5, <3>2, <3>3 DEF Moved, Decides
  <2> QED BY <2>4, <2>5
<1> QED BY <1>3, <1>4

\* Every step of the round does one of these to each proposal.
LEMMA NextMoves ==
  ASSUME TypeInv, TypeInv', RecorderInv, Chain!ContractInv, [Next]_vars,
         NEW id \in ProposalId
  PROVE  Moved(id)
<1>0. ContractTyped /\ Started' /\ ProposalsShaped
  BY TypeParts DEF TypeInv, RecorderInv
<1>1. CASE UNCHANGED proposals
  BY <1>1 DEF Moved
<1>2. ASSUME NEW c \in Config, NEW n \in ExpectedCounts, Request(c, n)
      PROVE  Moved(id)
  BY <1>2, RequestMoves
<1>3. CASE Runtime
  <2>1. Contract!Runtime
    BY <1>3 DEF Runtime
  <2>2. \/ UNCHANGED proposals
        \/ \E r \in resumes : Contract!DeliverResume(r)
    BY <2>1, Zenon DEF Contract!Runtime, Contract!YieldTimeout
  <2>3. ASSUME NEW r \in resumes, Contract!DeliverResume(r)
        PROVE  Chain!DeliverResume(r)
    BY <2>3, Zenon DEF Contract!DeliverResume, Contract!return_coordination_result,
       Contract!Exists, Contract!adminVars, Chain!DeliverResume,
       Chain!return_coordination_result, Chain!Exists, Chain!adminVars
  <2> QED BY <1>0, <1>1, <2>2, <2>3, DeliverMoves
<1>4. ASSUME NEW t \in Tick, RecordSubmissions(t)
      PROVE  Moved(id)
  <2>1. \/ UNCHANGED contractVars
        \/ Contract!record_worker_submissions(Coordinator, tick[t].id, tick[t].submissions)
    BY <1>4 DEF RecordSubmissions, Answered
  <2>2. tick[t].id \in ProposalId
    BY <1>4 DEF RecordSubmissions, At, RecorderInv, TicksOnStarted
  <2> QED BY <1>0, <1>1, <2>1, <2>2, RecordMoves DEF contractVars
<1>5. ASSUME NEW t \in Tick, resumeContractWithTally(t)
      PROVE  UNCHANGED proposals
  BY <1>5 DEF resumeContractWithTally, Answered, Contract!coordinator_resume, contractVars
<1>6. ASSUME NEW t \in Tick, QuietAdvance(t) \/ checkAndCoordinate(t)
      PROVE  UNCHANGED contractVars
  BY <1>6, Zenon DEF QuietAdvance, checkAndCoordinate, getActiveWorkers, PublishTask, ResetStatus,
     TakeSnapshot, AllDone, WaitTimeout, readResultsWithRetry, aggregateResults,
     archiveProposal, ReadIndex, WriteIndex
<1>7. (\E w \in Worker : WorkerStep(w)) \/ Crash \/ UNCHANGED vars => UNCHANGED contractVars
  BY DEF WorkerStep, Crash, vars
<1> QED BY <1>1, <1>2, <1>3, <1>4, <1>5, <1>6, <1>7
        DEF Next, Advance, QuietAdvance, contractVars

-----------------------------------------------------------------------------
(* Every entry adds up *)

\* A proposal past Created does not go back, and stays.
LEMMA NeverBack ==
  ASSUME NEW id \in ProposalId, Moved(id), Contract!Exists(id), ~Contract!InState(id, "Created")
  PROVE  (Contract!Exists(id) /\ ~Contract!InState(id, "Created"))'
BY DEF Moved, Opens, Commits, Decides, Expires, Contract!InState, Contract!Exists

\* The recording moves a tick on only if the proposal was still Created, so that it
\* has no entry yet.
LEMMA RecordingCounts ==
  ASSUME EntryInv, RecorderInv, NEW t \in Tick, RecordSubmissions(t),
         \A id \in ProposalId : Moved(id)
  PROVE  EntryInv'
<1>0. /\ Shapes /\ tick[t].pc = "recording" /\ tick[t].id \in ProposalId
      /\ UNCHANGED archive
  BY DEF RecordSubmissions, At, RecorderInv, TicksOnStarted, boardVars
<1>1. \/ End(t)
      \/ Goto(t, "aggregating") /\ Contract!InState(tick[t].id, "Created")
  BY DEF RecordSubmissions, Answered, Contract!RecordAccepted
<1>2. CASE End(t)
  BY <1>0, <1>2, NoCountByEnd, NeverBack, EntryStands
<1>3. CASE Goto(t, "aggregating") /\ Contract!InState(tick[t].id, "Created")
  <2>1. /\ tick'[t].pc = "aggregating" /\ tick'[t].id = tick[t].id
        /\ \A u \in Tick : u # t => tick'[u] = tick[u]
    BY <1>0, <1>3, GotoMoves DEF Moves
  <2>2. EntriesFollow'
    BY <1>0, NeverBack DEF EntryInv, EntriesFollow
  <2>3. NotYetArchived'
    <3>1. archive[tick[t].id] = NoTally
      BY <1>0, <1>3 DEF EntryInv, EntriesFollow
    <3> QED BY <1>0, <2>1, <3>1 DEF EntryInv, NotYetArchived
  <2>4. TalliesCount'
    <3> SUFFICES ASSUME NEW u \in Tick, Counted(u)'
                 PROVE  Counts(tick'[u].tally, tick'[u].id)
      BY DEF TalliesCount, Counts, Abstract!AddsUp
    <3>1. Counted(u) /\ tick'[u] = tick[u]
      BY <2>1 DEF Counted
    <3> QED BY <3>1 DEF EntryInv, TalliesCount
  <2> QED BY <2>2, <2>3, <2>4 DEF EntryInv
<1> QED BY <1>1, <1>2, <1>3

\* What a tick counts adds up.
LEMMA CountingCounts ==
  ASSUME EntryInv, TypeInv, RecorderInv, NEW t \in Tick, aggregateResults(t)
  PROVE  EntryInv'
<1>0. /\ Shapes /\ tick[t].pc = "aggregating" /\ tick[t].id \in ProposalId
      /\ Agent!TypeOK /\ snapshot \in [ProposalId -> SUBSET Worker]
      /\ UNCHANGED <<archive, proposals>>
  BY DEF aggregateResults, At, RecorderInv, TicksOnStarted, TypeInv, BoardTyped, boardVars,
         contractVars
<1>1. PICK stored \in Reading(snapshot[tick[t].id], {}),
           config \in Reading(task_definition, NoConfig) :
        \E W \in (IF stored = {} THEN ActiveSets ELSE {stored}) :
          \E read \in Readings(W) :
            tick' = [tick EXCEPT ![t].pc = "archiving",
                                 ![t].tally = TallyOf(tick[t].id, W, read, config)]
  BY DEF aggregateResults
<1>2. PICK W \in (IF stored = {} THEN ActiveSets ELSE {stored}) :
        \E read \in Readings(W) :
          tick' = [tick EXCEPT ![t].pc = "archiving",
                               ![t].tally = TallyOf(tick[t].id, W, read, config)]
  BY <1>1
<1>3. PICK read \in Readings(W) :
        tick' = [tick EXCEPT ![t].pc = "archiving",
                             ![t].tally = TallyOf(tick[t].id, W, read, config)]
  BY <1>2
<1>4. W \in SUBSET Worker
  <2>1. stored \in SUBSET Worker
    BY <1>0 DEF Reading
  <2> QED BY <2>1, RoundAssumption DEF RoundAssumption
<1>5. Counts(TallyOf(tick[t].id, W, read, config), tick[t].id)
  BY <1>0, <1>4, TallyCounts
<1>6. /\ tick'[t].pc = "archiving" /\ tick'[t].id = tick[t].id
      /\ tick'[t].tally = TallyOf(tick[t].id, W, read, config)
      /\ \A u \in Tick : u # t => tick'[u] = tick[u]
  BY <1>0, <1>3 DEF Shapes, Function, IdleTick
<1>7. EntriesFollow'
  BY <1>0 DEF EntryInv, EntriesFollow, Contract!Exists, Contract!InState
<1>8. NotYetArchived'
  BY <1>0, <1>6 DEF EntryInv, NotYetArchived, Before
<1>9. TalliesCount'
  <2> SUFFICES ASSUME NEW u \in Tick, Counted(u)'
               PROVE  Counts(tick'[u].tally, tick'[u].id)
    BY DEF TalliesCount, Counts, Abstract!AddsUp
  <2>1. CASE u = t
    BY <1>5, <1>6, <2>1
  <2>2. CASE u # t
    <3>1. Counted(u) /\ tick'[u] = tick[u]
      BY <1>6, <2>2 DEF Counted
    <3> QED BY <3>1 DEF EntryInv, TalliesCount
  <2> QED BY <2>1, <2>2
<1> QED BY <1>7, <1>8, <1>9 DEF EntryInv

\* The tick that archives is alone past the recording, and the proposal is past
\* Created.
LEMMA ArchivingCounts ==
  ASSUME ~EnsueMayFail, EntryInv, TypeInv, RecorderInv, NEW t \in Tick, archiveProposal(t)
  PROVE  EntryInv'
<1> DEFINE id == tick[t].id
<1>1. /\ tick[t].pc = "archiving"
      /\ archive' = [archive EXCEPT ![id] = tick[t].tally]
      /\ Goto(t, "indexing")
      /\ UNCHANGED proposals
  BY DEF archiveProposal, At, Agent!Stored, contractVars
<1>2. /\ id \in ProposalId /\ id <= current_proposal_id
      /\ NoResultYet(id)
  BY <1>1 DEF RecorderInv, Unanswered, TicksOnStarted, Past
<1>3. /\ tick'[t].pc = "indexing" /\ tick'[t].id = id /\ tick'[t].tally = tick[t].tally
      /\ \A u \in Tick : u # t => tick'[u] = tick[u]
  BY <1>1 DEF RecorderInv, Shapes, Function, IdleTick, Goto
<1>4. \A other \in ProposalId : other # id => archive'[other] = archive[other]
  BY <1>1, <1>2 DEF TypeInv, BoardTyped
<1>5. Contract!Exists(id) /\ ~Contract!InState(id, "Created")
  BY <1>2 DEF NoResultYet, TypeInv, Started
<1>6. EntriesFollow'
  <2> SUFFICES ASSUME NEW i \in ProposalId, archive'[i] # NoTally
               PROVE  Contract!Exists(i) /\ ~Contract!InState(i, "Created")
    BY <1>1 DEF EntriesFollow, Contract!Exists, Contract!InState
  <2> QED BY <1>4, <1>5 DEF EntryInv, EntriesFollow
<1>7. NotYetArchived'
  <2> SUFFICES ASSUME NEW u \in Tick, tick'[u].pc \in Before
               PROVE  archive'[tick'[u].id] = NoTally
    BY DEF NotYetArchived
  <2>1. u # t
    BY <1>3 DEF Before
  <2>2. tick'[u] = tick[u] /\ tick[u].id # id /\ tick[u].id \in ProposalId
    BY <1>1, <1>3, <2>1 DEF RecorderInv, Alone, TicksOnStarted, Past, Before
  <2> QED BY <1>4, <2>2 DEF EntryInv, NotYetArchived
<1>8. TalliesCount'
  <2> SUFFICES ASSUME NEW u \in Tick, Counted(u)'
               PROVE  Counts(tick'[u].tally, tick'[u].id)
    BY DEF TalliesCount, Counts, Abstract!AddsUp
  <2>1. Counted(u) /\ tick'[u].id = tick[u].id /\ tick'[u].tally = tick[u].tally
    BY <1>1, <1>3 DEF Counted, Past
  <2> QED BY <2>1 DEF EntryInv, TalliesCount
<1> QED BY <1>6, <1>7, <1>8 DEF EntryInv

\* Every step keeps the entries what they are, as long as the memory answers.
LEMMA NextEntry ==
  ASSUME ~EnsueMayFail
  PROVE  EntryInv /\ TypeInv /\ TypeInv' /\ RecorderInv /\ Chain!ContractInv /\ [Next]_vars
           => EntryInv'
<1> SUFFICES ASSUME EntryInv, TypeInv, TypeInv', RecorderInv, Chain!ContractInv, [Next]_vars
             PROVE  EntryInv'
  OBVIOUS
<1>0. Shapes /\ \A id \in ProposalId : Moved(id)
  BY NextMoves DEF RecorderInv
<1>a. ASSUME UNCHANGED archive, NoneCounts
      PROVE  EntryInv'
  BY <1>0, <1>a, NeverBack, EntryStands
<1>b. UNCHANGED tick => NoneCounts
  BY DEF NoneCounts, Counted
<1>1. CASE UNCHANGED <<archive, tick>>
  BY <1>1, <1>a, <1>b
<1>2. ASSUME NEW t \in Tick, checkAndCoordinate(t)
      PROVE  EntryInv'
  <2>1. PICK id : tick' = [tick EXCEPT ![t].pc = "discovering", ![t].id = id]
    BY <1>2 DEF checkAndCoordinate
  <2>2. NoneCounts
    BY <1>0, <2>1 DEF Shapes, Function, IdleTick, NoneCounts, Counted, Before, Past
  <2> QED BY <1>2, <1>a, <2>2 DEF checkAndCoordinate, boardVars
<1>3. ASSUME NEW t \in Tick, QuietAdvance(t)
      PROVE  EntryInv'
  <2>1. CASE archiveProposal(t)
    BY <2>1, ArchivingCounts
  <2>2. CASE aggregateResults(t)
    BY <2>2, CountingCounts
  <2>3. CASE ~archiveProposal(t) /\ ~aggregateResults(t)
    BY <1>0, <1>3, <1>a, <2>3, QuietCounts, QuietArchives
  <2> QED BY <2>1, <2>2, <2>3
<1>4. ASSUME NEW t \in Tick, RecordSubmissions(t)
      PROVE  EntryInv'
  BY <1>0, <1>4, RecordingCounts
<1>5. ASSUME NEW t \in Tick, resumeContractWithTally(t)
      PROVE  EntryInv'
  <2>1. End(t) /\ UNCHANGED archive
    BY <1>5 DEF resumeContractWithTally, Answered, boardVars
  <2> QED BY <1>0, <1>a, <2>1, NoCountByEnd
<1>6. CASE Crash
  <2>1. UNCHANGED archive /\ \A u \in Tick : tick'[u].pc = "idle"
    BY <1>6 DEF Crash, IdleTick, boardVars
  <2>2. NoneCounts
    BY <2>1 DEF NoneCounts, Counted, Before, Past
  <2> QED BY <1>a, <2>1, <2>2
<1>7. ASSUME \/ UNCHANGED vars
             \/ \E c \in Config, n \in ExpectedCounts : Request(c, n)
             \/ Runtime
             \/ \E w \in Worker : WorkerStep(w)
      PROVE  UNCHANGED <<archive, tick>>
  BY <1>7 DEF vars, Request, Runtime, WorkerStep, boardVars
<1> QED BY <1>1, <1>2, <1>3, <1>4, <1>5, <1>6, <1>7 DEF Next, Advance, QuietAdvance

\* At first there is no entry, and no tick.
LEMMA InitEntry == Init => EntryInv
BY DEF Init, IdleTick, EntryInv, EntriesFollow, NotYetArchived, Before, TalliesCount, Counted,
       Past

-----------------------------------------------------------------------------
(* The round implements Deliberation *)

\* What is seen of one proposal: nothing new, ...
LEMMA SeenStay ==
  ASSUME NEW id \in ProposalId, proposals'[id] = proposals[id], archive'[id] = archive[id]
  PROVE  Abstract!Step(id)
BY DEF Abstract!Step, Abstract!Stay, PhaseOf, BallotsOf, DecisionOf, Contract!InState,
       Contract!Exists

\* ... a request, ...
LEMMA SeenOpen ==
  ASSUME NEW id \in ProposalId, archive'[id] = archive[id], Opens(id),
         \A earlier \in ProposalId : earlier < id => Contract!Exists(earlier)
  PROVE  Abstract!Step(id)
<1>1. Abstract!Open(id)
  BY DEF Abstract!Open, Opens, PhaseOf, BallotsOf, DecisionOf, Contract!InState,
         Contract!Exists
<1> QED BY <1>1 DEF Abstract!Step

\* ... the submissions recorded, ...
LEMMA SeenCommit ==
  ASSUME NEW id \in ProposalId, archive'[id] = archive[id], Commits(id),
         ContractTyped', Contract!NullifierOnce'
  PROVE  Abstract!Step(id)
<1>1. Contract!Exists(id)' /\ proposals'[id].state = "WorkersCompleted"
  BY DEF Commits, Contract!InState
<1>2. proposals'[id] \in Contract!Proposal
  BY <1>1 DEF ContractTyped, Contract!TypeOK, Contract!ProposalId, ProposalId, Contract!Exists
<1>3. proposals'[id].worker_submissions \in Seq(Abstract!Ballot)
  BY <1>2 DEF Contract!Proposal, Abstract!Ballot
<1>4. Abstract!OneEach(proposals'[id].worker_submissions)
  BY <1>1 DEF Contract!NullifierOnce, Contract!ProposalId, ProposalId, Contract!Exists,
     Abstract!OneEach
<1>5. Abstract!Commit(id)
  <2> HIDE DEF Abstract!Ballot, Abstract!OneEach
  <2>1. /\ [i \in ProposalId |-> BallotsOf(i)]'[id] = proposals'[id].worker_submissions
        /\ [i \in ProposalId |-> BallotsOf(i)]'[id] \in Seq(Abstract!Ballot)
        /\ Abstract!OneEach([i \in ProposalId |-> BallotsOf(i)]'[id])
    BY <1>1, <1>3, <1>4 DEF BallotsOf, Contract!Exists, Abstract!OneEach
  <2>2. /\ [i \in ProposalId |-> PhaseOf(i)][id] = "open"
        /\ [i \in ProposalId |-> PhaseOf(i)]'[id] = "committed"
        /\ [i \in ProposalId |-> DecisionOf(i)]'[id] = [i \in ProposalId |-> DecisionOf(i)][id]
    BY <1>1 DEF Commits, PhaseOf, DecisionOf, Contract!InState, Contract!Exists
  <2> QED BY <2>1, <2>2 DEF Abstract!Commit
<1> QED BY <1>5 DEF Abstract!Step

\* ... a result, ...
LEMMA SeenDecide ==
  ASSUME NEW id \in ProposalId, archive'[id] = archive[id], Decides(id), SentIsArchived
  PROVE  Abstract!Step(id)
<1>1. archive[id] # NoTally /\ proposals'[id].finalized_result = Abstract!Shown(archive[id])
  BY DEF Decides, SentIsArchived, OnChainOf, Abstract!Shown
<1>2. Abstract!Decide(id)
  <2>1. [i \in ProposalId |-> DecisionOf(i)]'[id] = Abstract!Shown(archive[id])
    BY <1>1 DEF Decides, DecisionOf, Contract!InState, Contract!Exists
  <2>2. /\ [i \in ProposalId |-> PhaseOf(i)][id] = "committed"
        /\ [i \in ProposalId |-> PhaseOf(i)]'[id] = "decided"
        /\ [i \in ProposalId |-> BallotsOf(i)]'[id] = [i \in ProposalId |-> BallotsOf(i)][id]
    BY DEF Decides, SameBallots, PhaseOf, BallotsOf, Contract!InState, Contract!Exists
  <2> QED BY <1>1, <2>1, <2>2 DEF Abstract!Decide
<1> QED BY <1>2 DEF Abstract!Step

\* ... the request given up.
LEMMA SeenExpire ==
  ASSUME NEW id \in ProposalId, archive'[id] = archive[id], Expires(id)
  PROVE  Abstract!Step(id)
<1>1. Abstract!Expire(id)
  BY DEF Abstract!Expire, Expires, SameBallots, PhaseOf, BallotsOf, DecisionOf,
         Contract!InState, Contract!Exists
<1> QED BY <1>1 DEF Abstract!Step

\* The entry written: the submissions are recorded, no result is there, and nothing
\* else of the proposal changes.
LEMMA SeenArchive ==
  ASSUME ~EnsueMayFail, TypeInv, RecorderInv, EntryInv, Sequential => SequentialInv,
         NEW t \in Tick, archiveProposal(t), NEW id, id = tick[t].id
  PROVE  Abstract!Step(id)
<1>1. /\ tick[t].pc = "archiving"
      /\ archive' = [archive EXCEPT ![id] = tick[t].tally]
      /\ UNCHANGED proposals
  BY DEF archiveProposal, At, Agent!Stored, contractVars
<1>2. /\ id \in ProposalId /\ id <= current_proposal_id
      /\ NoResultYet(id)
  BY <1>1 DEF RecorderInv, Unanswered, TicksOnStarted, Past
<1>3. Counted(t) /\ tick[t].tally \in Abstract!Entry
  <2>1. Counted(t)
    BY <1>1 DEF Counted, Past
  <2>2. tick[t].tally \in Tally
    BY <2>1 DEF TypeInv, TickTyped
  <2> QED BY <2>1, <2>2 DEF Tally, Abstract!Entry, Vote
<1>4. archive[id] = NoTally /\ archive'[id] = tick[t].tally
  BY <1>1, <1>2 DEF EntryInv, NotYetArchived, Before, TypeInv, BoardTyped
<1>5. Contract!Exists(id) /\ proposals[id].state \in {"WorkersCompleted", "TimedOut"}
  <2>1. Contract!Exists(id)
    BY <1>2 DEF TypeInv, Started
  <2>2. proposals[id] \in Contract!Proposal
    BY <1>2, <2>1, TypeParts, ProposalTyped
  <2>3. proposals[id].state # "Created" /\ proposals[id].state # "Finalized"
    BY <1>2, <2>1 DEF NoResultYet, Contract!InState
  <2> QED BY <2>1, <2>2, <2>3 DEF Contract!Proposal
<1>6. tick[t].tally.proposalId = id /\ Abstract!AddsUp(tick[t].tally)
  BY <1>3 DEF EntryInv, TalliesCount, Counts
<1>7. Sequential => Abstract!Votes(tick[t].tally)
                      = {proposals[id].worker_submissions[i] :
                           i \in DOMAIN proposals[id].worker_submissions}
  BY <1>3 DEF SequentialInv, TickInv, CountedRight, Content, Abstract!Votes
<1>8. /\ [i \in ProposalId |-> PhaseOf(i)][id] \in {"committed", "expired"}
      /\ [i \in ProposalId |-> PhaseOf(i)]'[id] = [i \in ProposalId |-> PhaseOf(i)][id]
      /\ [i \in ProposalId |-> BallotsOf(i)][id] = proposals[id].worker_submissions
      /\ [i \in ProposalId |-> BallotsOf(i)]'[id] = [i \in ProposalId |-> BallotsOf(i)][id]
      /\ [i \in ProposalId |-> DecisionOf(i)]'[id] = [i \in ProposalId |-> DecisionOf(i)][id]
  BY <1>1, <1>2, <1>5 DEF PhaseOf, BallotsOf, DecisionOf, Contract!InState, Contract!Exists
<1>9. Abstract!Archive(id)
  <2>1. archive'[id] \in Abstract!Entry /\ archive'[id].proposalId = id
    BY <1>3, <1>4, <1>6
  <2>2. Abstract!AddsUp(archive'[id])
    BY <1>4, <1>6 DEF Abstract!AddsUp
  <2>3. Sequential => Abstract!Votes(archive'[id])
                        = {[i \in ProposalId |-> BallotsOf(i)][id][j] :
                             j \in DOMAIN [i \in ProposalId |-> BallotsOf(i)][id]}
    <3>1. PICK entry : entry = tick[t].tally /\ entry = archive'[id]
      BY <1>4
    <3>2. PICK list : /\ list = proposals[id].worker_submissions
                      /\ list = [i \in ProposalId |-> BallotsOf(i)][id]
      BY <1>8
    <3>3. Sequential => Abstract!Votes(entry) = {list[j] : j \in DOMAIN list}
      BY <1>7, <3>1, <3>2 DEF Abstract!Votes
    <3> QED BY <3>1, <3>2, <3>3 DEF Abstract!Votes
  <2>4. UNCHANGED <<[i \in ProposalId |-> PhaseOf(i)][id], [i \in ProposalId |-> BallotsOf(i)][id],
                    [i \in ProposalId |-> DecisionOf(i)][id]>>
    BY <1>8
  <2> QED BY <1>4, <1>8, <2>1, <2>2, <2>3, <2>4, Zenon DEF Abstract!Archive
<1> QED BY <1>9 DEF Abstract!Step

\* Only the archiving touches an entry.
LEMMA OthersKeepEntries ==
  ASSUME RecorderInv, [Next]_vars
  PROVE  \/ UNCHANGED archive
         \/ \E t \in Tick : archiveProposal(t)
<1>1. ASSUME NEW t \in Tick, QuietAdvance(t)
      PROVE  UNCHANGED archive \/ archiveProposal(t)
  BY <1>1, QuietArchives DEF RecorderInv
<1>2. ASSUME NEW t \in Tick,
             checkAndCoordinate(t) \/ RecordSubmissions(t) \/ resumeContractWithTally(t)
      PROVE  UNCHANGED archive
  BY <1>2 DEF checkAndCoordinate, RecordSubmissions, resumeContractWithTally, boardVars
<1>3. ASSUME \/ UNCHANGED vars
             \/ \E c \in Config, n \in ExpectedCounts : Request(c, n)
             \/ Runtime
             \/ \E w \in Worker : WorkerStep(w)
             \/ Crash
      PROVE  UNCHANGED archive
  BY <1>3 DEF vars, Request, Runtime, WorkerStep, Crash, boardVars
<1> QED BY <1>1, <1>2, <1>3 DEF Next, Advance, QuietAdvance

\* Whatever the round does is, for each proposal, a step of Deliberation.
LEMMA NextDeliberates ==
  ASSUME ~EnsueMayFail
  PROVE  TypeInv /\ TypeInv' /\ RecorderInv /\ Chain!ContractInv /\ Contract!NullifierOnce'
           /\ ArchiveInv /\ EntryInv /\ (Sequential => SequentialInv) /\ [Next]_vars
         => [Abstract!Next]_(Abstract!vars)
<1> SUFFICES ASSUME TypeInv, TypeInv', RecorderInv,
                    Chain!ContractInv, Contract!NullifierOnce',
                    ArchiveInv, EntryInv,
                    Sequential => SequentialInv,
                    [Next]_vars,
                    NEW id \in ProposalId
             PROVE  Abstract!Step(id)
  BY DEF Abstract!Next
<1>1. Moved(id)
  BY NextMoves
<1>2. CASE archive'[id] = archive[id]
  <2>1. ContractTyped'
    BY DEF TypeInv, ContractTyped
  <2>2. ASSUME Opens(id)
        PROVE  \A earlier \in ProposalId : earlier < id => Contract!Exists(earlier)
    BY <2>2 DEF Opens, TypeInv, Started, RecorderInv, ProposalsShaped, ProposalId
  <2> QED BY <1>1, <1>2, <2>1, <2>2, SeenStay, SeenOpen, SeenCommit, SeenDecide, SeenExpire
          DEF Moved, ArchiveInv
<1>3. CASE archive'[id] # archive[id]
  <2>1. PICK t \in Tick : archiveProposal(t)
    BY <1>3, OthersKeepEntries
  <2>2. id = tick[t].id
    <3>1. PICK stored : archive' = [archive EXCEPT ![tick[t].id] = stored]
      BY <2>1 DEF archiveProposal
    <3> QED BY <1>3, <3>1 DEF TypeInv, BoardTyped
  <2> QED BY <2>1, <2>2, SeenArchive
<1> QED BY <1>2, <1>3

\* At first nothing is asked, nothing committed and nothing written.
LEMMA InitDeliberates == Init => Abstract!Init
BY DEF Init, Abstract!Init, PhaseOf, BallotsOf, DecisionOf, Contract!InState, Contract!Exists

-----------------------------------------------------------------------------
(* The theorems *)

\* Whatever overlaps, is lost or is restarted, contract, workers, ticks and keys
\* keep their types: a tick past the counting has a tally fit for the chain, and
\* so has every archive.
THEOREM TypeCorrect == Spec => []TypeOK
<1>1. RecorderInv /\ RecorderInv' /\ TypeInv /\ [Next]_vars => TypeInv'
  BY NextTyped
<1> QED BY <1>1, InitTyped, RecorderInvariant, TypeOKFollows, PTL DEF Spec

\* Whatever overlaps or is restarted: as long as the memory answers, the history
\* of a finalized proposal is written before the result is on chain, and nobody
\* writes over it, so that the dashboard shows what the chain says.
THEOREM RoundCorrect ==
  ASSUME ~EnsueMayFail
  PROVE  Spec => []RoundInv
<1>1. RecorderInv /\ TypeInv /\ [Next]_vars => TypeInv'
  BY NextTyped
<1>2. ArchiveInv /\ TypeInv /\ RecorderInv /\ [Next]_vars => ArchiveInv'
  BY NextArchive
<1>3. ArchiveInv /\ TypeInv /\ RecorderInv /\ Chain!ContractInv /\ Voters!WorkerInv
        => RoundInv
  BY TypeOKFollows, ChainPromises, VotersPromise DEF RoundInv, PartsKeepTheirWord, ArchiveInv
<1> QED BY <1>1, <1>2, <1>3, InitTyped, InitArchive, RecorderInvariant, ChainInvariant,
           VotersInvariant, PTL DEF Spec

\* Even if the memory loses reads and writes, every behaviour of a round is, seen from
\* the workers, one in which a coordinator publishes and assigns as it likes: what is
\* proved of the workers alone holds in the round.
THEOREM WorkersCompose == Spec => Voters!Spec
<1>1. RecorderInv /\ TypeInv /\ [Next]_vars => TypeInv'
  BY NextTyped
<1> QED BY <1>1, InitTyped, InitIsWork, NextIsWork, RecorderInvariant, PTL
        DEF Spec, Voters!Spec

\* Seen from the contract, every step of a round is a call it allows; so, whatever
\* overlaps, crashes or is lost, no worker is on chain twice for a proposal, record
\* and promise agree and no result overtakes the submissions.
THEOREM ContractComposes ==
  Spec => /\ [][Chain!Next]_(Chain!vars)
          /\ []Contract!NullifierOnce
          /\ []Contract!RecordAgreesWithPromise
          /\ []Contract!ResultsFollowSubmissions
<1>1. RecorderInv /\ TypeInv /\ [Next]_vars => TypeInv'
  BY NextTyped
<1> QED BY <1>1, InitTyped, NextIsCall, RecorderInvariant, ChainInvariant, ChainPromises, PTL
        DEF Spec

\* In a round, too, a proposal moves Created, WorkersCompleted, Finalized and no other
\* way to Finalized, and a settled one changes no more.
THEOREM RoundLifecycle == Spec => Contract!LifecycleOrder
<1>1. RecorderInv /\ TypeInv /\ [Next]_vars => TypeInv'
  BY NextTyped
<1>2. Chain!ContractInv /\ Chain!ContractInv' /\ TypeInv /\ RecorderInv /\ [Next]_vars
        => [\A id \in Contract!ProposalId : Contract!LifecycleStep(id)]_(Contract!vars)
  BY NextIsCall, ChainSteps
<1> QED BY <1>1, <1>2, InitTyped, RecorderInvariant, ChainInvariant, PTL
        DEF Spec, Contract!LifecycleOrder

\* To whoever asks for a deliberation the whole system is Settlement: however many
\* ticks, workers and crashes are behind it, a request is answered once, and its public
\* record closes with that answer in the same step.
THEOREM RoundSettles == Spec => Contract!SettlementSafety
<1>1. RecorderInv /\ TypeInv /\ [Next]_vars => TypeInv'
  BY NextTyped
<1>2. Chain!ContractInv /\ Chain!ContractInv' /\ TypeInv /\ RecorderInv /\ [Next]_vars
        => [Contract!Abstract!Next]_(Contract!Abstract!vars)
  BY NextIsCall, ChainSteps
<1> QED BY <1>1, <1>2, InitTyped, InitShowsNothing, RecorderInvariant, ChainInvariant, PTL
        DEF Spec, Contract!SettlementSafety, Contract!Abstract!Spec

\* What the tick relies on holds in every state, if ticks do not overlap.
LEMMA SequentialInvariant ==
  ASSUME Sequential
  PROVE  Spec => []SequentialInv
<1>1. RecorderInv /\ TypeInv /\ [Next]_vars => TypeInv'
  BY NextTyped
<1>2. SequentialInv /\ TypeInv /\ RecorderInv /\ [Next]_vars => SequentialInv'
  BY NextSequential
<1> QED BY <1>1, <1>2, InitTyped, InitSequential, RecorderInvariant, PTL DEF Spec

\* Whoever looks at the chain and at the history of proposals sees a Deliberation,
\* whatever overlaps, crashes or is lost on the way to the contract: ballots are
\* committed once and stay, one for each voter; an entry is written once, after the
\* ballots and before the decision, and adds up; the decision is what the entry shows.
\* If ticks do not overlap the votes in the entry are the ballots committed.
THEOREM RoundImplements ==
  ASSUME ~EnsueMayFail
  PROVE  Spec => RoundDeliberates
<1>1. RecorderInv /\ TypeInv /\ [Next]_vars => TypeInv'
  BY NextTyped
<1>2. ArchiveInv /\ TypeInv /\ RecorderInv /\ [Next]_vars => ArchiveInv'
  BY NextArchive
<1>3. EntryInv /\ TypeInv /\ TypeInv' /\ RecorderInv /\ Chain!ContractInv /\ [Next]_vars
        => EntryInv'
  BY NextEntry
<1>4. TypeInv /\ TypeInv' /\ RecorderInv /\ Chain!ContractInv /\ Contract!NullifierOnce'
        /\ ArchiveInv /\ EntryInv /\ (Sequential => SequentialInv) /\ [Next]_vars
      => [Abstract!Next]_(Abstract!vars)
  BY NextDeliberates
<1>5. Chain!ContractInv => Contract!NullifierOnce
  BY ChainPromises
<1>6. Init => TypeInv /\ ArchiveInv /\ EntryInv /\ Abstract!Init
  BY InitTyped, InitArchive, InitEntry, InitDeliberates
<1>7. CASE Sequential
  <2>1. Spec => []SequentialInv
    BY <1>7, SequentialInvariant
  <2> QED BY <1>1, <1>2, <1>3, <1>4, <1>5, <1>6, <1>7, <2>1, RecorderInvariant, ChainInvariant, PTL
          DEF Spec, RoundDeliberates, Abstract!Spec
<1>8. CASE ~Sequential
  BY <1>1, <1>2, <1>3, <1>4, <1>5, <1>6, <1>8, RecorderInvariant, ChainInvariant, PTL
     DEF Spec, RoundDeliberates, Abstract!Spec
<1> QED BY <1>7, <1>8
=============================================================================
