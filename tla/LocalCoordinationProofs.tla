----------------------- MODULE LocalCoordinationProofs -----------------------
(***************************************************************************)
(* Theorems about LocalCoordination, for any number of runs, workers,      *)
(* proposals, crashes and failures, with runs beside each other as they    *)
(* come.  Every variable has its type and what a buyer is told stands; a   *)
(* run nobody disturbs takes its own proposal; and what a run sells that   *)
(* shares its proposal with nobody is what the chain says.                 *)
(*                                                                         *)
(* The inductive invariants, each on the ground of those before it:        *)
(* SaleInv (the verdict store), TypeInv, OwnInv (an undisturbed run is     *)
(* alone, and what it has detected is its own), TakenInv (takers has who   *)
(* took what), SettledInv (results on their way and on chain were sent by  *)
(* takers not reported as failed and, with one taker, are those archived). *)
(***************************************************************************)
EXTENDS LocalCoordination, FiniteSetTheorems, SequenceTheorems, TLAPS

-----------------------------------------------------------------------------
(* The invariants *)

\* A record or function, known by its domain.
Function(f) == f = [x \in DOMAIN f |-> f[x]]

\* As much of the types as the arguments need.
Shapes ==
  /\ Function(run) /\ DOMAIN run = Run
  /\ \A r \in Run : Function(run[r]) /\ DOMAIN run[r] = DOMAIN IdleRun
  /\ Function(verdict) /\ DOMAIN verdict = Run
  /\ Function(buyer) /\ DOMAIN buyer = Run
  /\ Function(startTx) /\ DOMAIN startTx = Run
  /\ Function(startedBy) /\ DOMAIN startedBy = ProposalId

\* The verdicts a buyer can be told.
Terminal == {"completed", "failed"}

\* The verdict of one request: there is none before its run begins, a buyer holds
\* its connection only to a pending one, and one is given when the run returns.
SaleOf(r) ==
  /\ verdict[r].status \in {"none", "pending"} \cup Terminal
  /\ run[r].pc = "idle" => verdict[r] = NoVerdict /\ buyer[r] = "none"
  /\ buyer[r] = "waiting" => verdict[r].status = "pending"
  /\ verdict[r].status \in Terminal => run[r].pc = "returned"
  /\ buyer[r] \in Terminal => verdict[r].status \in {buyer[r], "none"}

\* The inductive invariant of the verdict store, of any number of requests.
SaleInv == Shapes /\ \A r \in Run : SaleOf(r)

\* When the last id has grown for a run that looks for its proposal, it grew once
\* and by the run's own call.
DetectsItsOwn(r) ==
  run[r].pc = "detecting" =>
    /\ run[r].before \in Nat
    /\ \/ current_proposal_id = run[r].before
       \/ /\ current_proposal_id = run[r].before + 1
          /\ current_proposal_id \in ProposalId
          /\ startedBy[current_proposal_id] = {r}
          /\ startTx[r] = 0

\* The proposal a run has taken for its own is the one its call created.
HasItsOwn(r) ==
  run[r].id # 0 =>
    /\ run[r].id \in ProposalId /\ run[r].id <= current_proposal_id
    /\ startedBy[run[r].id] = {r}

\* The inductive invariant of OwnProposal: a run that is not disturbed is the only
\* active one.
OwnInv ==
  /\ Shapes
  /\ current_proposal_id \in Nat
  /\ \A r \in Run : r \notin disturbed =>
       /\ DetectsItsOwn(r) /\ HasItsOwn(r)
       /\ Active(r) => \A q \in Run : Active(q) => q = r

\* Whatever a run has taken, takers knows.
HasTaken(r) ==
  run[r].id # 0 =>
    /\ run[r].id \in ProposalId /\ run[r].id <= current_proposal_id
    /\ r \in takers[run[r].id]

\* The inductive invariant of takers, on the ground of TypeInv.
TakenInv == Shapes /\ \A r \in Run : HasTaken(r)

-----------------------------------------------------------------------------
(* The kinds of steps a run takes *)

\* A step of one run leaves the others where they are.
OthersStay(r) == Shapes' /\ \A q \in Run : q # r => run'[q] = run[q]

\* It goes on, and neither the sale nor the start call knows.
Quiet(r) ==
  /\ OthersStay(r) /\ ~Over(r)
  /\ run'[r].pc \notin {"idle", "returned", "detecting"}
  /\ run'[r].id = run[r].id
  /\ UNCHANGED <<current_proposal_id, startVars, saleVars, takers, disturbed>>

\* It sends its start call.
Sends(r) ==
  /\ OthersStay(r) /\ ~Over(r)
  /\ run'[r].pc = "detecting" /\ run'[r].id = run[r].id
  /\ run'[r].before \in View(current_proposal_id, 0)
  /\ \A q \in Run : q # r => startTx'[q] = startTx[q]
  /\ disturbed' = disturbed \cup {q \in {r} : run'[r].before # current_proposal_id}
  /\ UNCHANGED <<current_proposal_id, startedBy, saleVars, takers>>

\* It takes an id for its own.
Detects(r) ==
  /\ OthersStay(r) /\ run[r].pc = "detecting"
  /\ run'[r].pc = "snapshot"
  /\ run'[r].id \in View(current_proposal_id, 0) /\ run'[r].id > run[r].before
  /\ takers' = [takers EXCEPT ![run'[r].id] = @ \cup {r}]
  /\ UNCHANGED <<current_proposal_id, startVars, saleVars, disturbed>>

\* It returns, and its record gets the outcome.
Returns(r) ==
  /\ OthersStay(r) /\ ~Over(r)
  /\ run'[r].pc = "returned" /\ run'[r].id = 0
  /\ \E tally : runDeliberation(r, tally)
  /\ UNCHANGED <<current_proposal_id, startVars, takers, disturbed>>

\* Goto moves one run and leaves the others alone.
LEMMA GotoMoves ==
  ASSUME Shapes, NEW r \in Run, NEW pc, Goto(r, pc),
         UNCHANGED <<startVars, saleVars>>
  PROVE  /\ OthersStay(r)
         /\ run'[r].pc = pc /\ run'[r].id = run[r].id
  BY DEF Shapes, Function, IdleRun, Goto, OthersStay, startVars, saleVars

\* Return ends one run and leaves the others alone.
LEMMA ReturnReturns ==
  ASSUME Shapes, NEW r \in Run, NEW tally, Return(r, tally), ~Over(r),
         UNCHANGED <<current_proposal_id, startVars, takers, disturbed>>
  PROVE  Returns(r)
<1>1. /\ run' = [run EXCEPT ![r] = End(r, "returned")]
      /\ runDeliberation(r, tally)
  BY DEF Return
<1>2. Function(run') /\ DOMAIN run' = Run /\ \A q \in Run : q # r => run'[q] = run[q]
  BY <1>1 DEF Shapes, Function
<1>3. run'[r] = End(r, "returned")
  BY <1>1 DEF Shapes
<1>4. /\ Function(End(r, "returned")) /\ DOMAIN End(r, "returned") = DOMAIN IdleRun
      /\ End(r, "returned").pc = "returned" /\ End(r, "returned").id = 0
  BY DEF End, IdleRun, Function
<1>5. /\ Function(verdict') /\ DOMAIN verdict' = Run
      /\ Function(buyer') /\ DOMAIN buyer' = Run
  BY <1>1 DEF Shapes, Function, runDeliberation, saleVars
<1>6. Shapes'
  BY <1>2, <1>3, <1>4, <1>5 DEF Shapes, Function, startVars
<1> QED
  BY <1>1, <1>2, <1>3, <1>4, <1>6 DEF Returns, OthersStay

-----------------------------------------------------------------------------
(* Every step of a run is of one of these kinds *)

\* The answer of the discovery ends the run or is taken.
LEMMA getActiveWorkersKind ==
  ASSUME Shapes, NEW r \in Run, getActiveWorkers(r)
  PROVE  Quiet(r) \/ Returns(r)
<1> USE DEF At, Over
<1>1. PICK W \in Found :
        IF Cardinality(W) < MinWorkers THEN Return(r, NoTally)
        ELSE /\ run' = [run EXCEPT ![r].pc = "publishing", ![r].workers = W, ![r].todo = W]
             /\ UNCHANGED saleVars
  BY DEF getActiveWorkers
<1>2. UNCHANGED <<current_proposal_id, startVars, takers, disturbed>>
  BY DEF getActiveWorkers, contractVars
<1>3. CASE Cardinality(W) < MinWorkers
  BY <1>1, <1>2, <1>3, ReturnReturns DEF getActiveWorkers
<1>4. CASE ~(Cardinality(W) < MinWorkers)
  <2>1. /\ run' = [run EXCEPT ![r].pc = "publishing", ![r].workers = W, ![r].todo = W]
        /\ UNCHANGED saleVars
    BY <1>1, <1>4
  <2>2. UNCHANGED <<current_proposal_id, startVars, saleVars, takers, disturbed>> /\ ~Over(r)
    BY <1>2, <2>1 DEF getActiveWorkers, contractVars
  <2>3. Shapes'
    BY <2>1, <2>2 DEF Shapes, Function, IdleRun, saleVars, startVars
  <2>4. /\ run'[r].pc = "publishing" /\ run'[r].id = run[r].id
        /\ \A q \in Run : q # r => run'[q] = run[q]
    BY <2>1 DEF Shapes, Function, IdleRun
  <2> QED
    BY <1>2, <2>1, <2>2, <2>3, <2>4 DEF getActiveWorkers, OthersStay, Quiet
<1> QED
  BY <1>3, <1>4

\* The steps that move the run with Goto and touch neither contract nor sale.
LEMMA GotoKind ==
  ASSUME Shapes, NEW r \in Run, NEW pc,
         pc \notin {"idle", "returned", "detecting"}, ~Over(r), Goto(r, pc),
         UNCHANGED <<current_proposal_id, startVars, saleVars, takers, disturbed>>
  PROVE  Quiet(r)
BY GotoMoves DEF Quiet

\* Publishing to the workers and dispatching to them concerns nobody else.
LEMMA triggerWorkersKind ==
  ASSUME Shapes, NEW r \in Run, NEW w \in Worker,
         ResetStatus(r, w) \/ Dispatch(r, w) \/ MarkUnreachable(r, w)
  PROVE  Quiet(r)
<1> USE DEF At, Over, boardVars
<1>2. CASE ResetStatus(r, w)
  <2>1. PICK pc, todo : /\ run' = [run EXCEPT ![r].pc = pc, ![r].todo = todo]
                        /\ pc \in {"dispatching", run[r].pc}
    BY <1>2 DEF ResetStatus
  <2>2. UNCHANGED <<current_proposal_id, startVars, saleVars, takers, disturbed>> /\ ~Over(r)
    BY <1>2 DEF ResetStatus, contractVars
  <2>3. Shapes'
    BY <2>1, <2>2 DEF Shapes, Function, IdleRun, saleVars, startVars
  <2>4. /\ run'[r].pc = pc /\ run'[r].id = run[r].id
        /\ \A q \in Run : q # r => run'[q] = run[q]
    BY <2>1 DEF Shapes, Function, IdleRun
  <2> QED
    BY <1>2, <2>1, <2>2, <2>3, <2>4 DEF ResetStatus, OthersStay, Quiet
<1>3. CASE Dispatch(r, w)
  <2>1. PICK todo, dropped : run' = [run EXCEPT ![r].todo = todo, ![r].dropped = dropped]
    <3>1. CASE run' = [run EXCEPT ![r].todo = @ \ {w}]
      <4>1. run' = [run EXCEPT ![r].todo = run[r].todo \ {w}, ![r].dropped = run[r].dropped]
        BY <3>1 DEF Shapes, Function, IdleRun
      <4> QED
        BY <4>1
    <3>2. CASE run' = [run EXCEPT ![r].todo = @ \ {w}, ![r].dropped = @ \cup {w}]
      BY <3>2
    <3> QED
      BY <1>3, <3>1, <3>2 DEF Dispatch
  <2>2. UNCHANGED <<current_proposal_id, startVars, saleVars, takers, disturbed>> /\ ~Over(r)
    BY <1>3 DEF Dispatch, contractVars
  <2>3. Shapes'
    BY <2>1, <2>2 DEF Shapes, Function, IdleRun, saleVars, startVars
  <2>4. /\ run'[r].pc = run[r].pc /\ run'[r].id = run[r].id
        /\ \A q \in Run : q # r => run'[q] = run[q]
    BY <2>1 DEF Shapes, Function, IdleRun
  <2> QED
    BY <1>3, <2>1, <2>2, <2>3, <2>4 DEF Dispatch, OthersStay, Quiet
<1>4. CASE MarkUnreachable(r, w)
  BY <1>4 DEF MarkUnreachable, contractVars, Shapes, Function, IdleRun, OthersStay, Quiet,
     startVars, saleVars
<1> QED
  BY <1>2, <1>3, <1>4

\* The start call is sent, or the run ends for want of workers.
LEMMA localStartCoordinationKind ==
  ASSUME Shapes, NEW r \in Run, localStartCoordination(r)
  PROVE  Sends(r) \/ Returns(r)
<1> USE DEF At, Over
<1>1. CASE Cardinality(run[r].workers) < MinWorkers
  BY <1>1, ReturnReturns DEF localStartCoordination, contractVars, startVars
<1>2. CASE ~(Cardinality(run[r].workers) < MinWorkers)
  <2>1. PICK seen \in View(current_proposal_id, 0) :
          /\ run' = [run EXCEPT ![r].pc = "detecting", ![r].before = seen]
          /\ disturbed' = disturbed \cup {q \in {r} : seen # current_proposal_id}
    BY <1>2 DEF localStartCoordination
  <2>2. /\ startTx' = [startTx EXCEPT ![r] = Cardinality(run[r].workers)]
        /\ UNCHANGED <<current_proposal_id, startedBy, saleVars, takers>>
    BY <1>2 DEF localStartCoordination, contractVars
  <2>3. Shapes'
    BY <2>1, <2>2 DEF Shapes, Function, IdleRun, saleVars
  <2>4. /\ run'[r].pc = "detecting" /\ run'[r].before = seen /\ run'[r].id = run[r].id
        /\ \A q \in Run : q # r => run'[q] = run[q]
    BY <2>1 DEF Shapes, Function, IdleRun
  <2>5. ~Over(r) /\ \A q \in Run : q # r => startTx'[q] = startTx[q]
    BY <2>2 DEF localStartCoordination, Shapes
  <2> QED
    BY <2>1, <2>2, <2>3, <2>4, <2>5 DEF OthersStay, Sends
<1> QED
  BY <1>1, <1>2

\* The wait for the last id to grow.
LEMMA detectionKind ==
  ASSUME Shapes, NEW r \in Run, DetectProposal(r) \/ DetectTimeout(r) \/ TakeSnapshot(r)
  PROVE  Quiet(r) \/ Detects(r)
<1> USE DEF At, Over
<1>1. CASE DetectProposal(r)
  <2>1. PICK seen \in View(current_proposal_id, 0) :
          /\ seen > run[r].before
          /\ run' = [run EXCEPT ![r].pc = "snapshot", ![r].id = seen]
          /\ takers' = [takers EXCEPT ![seen] = @ \cup {r}]
    BY <1>1 DEF DetectProposal, Take
  <2>2. UNCHANGED <<current_proposal_id, startVars, saleVars, disturbed>>
    BY <1>1 DEF DetectProposal, contractVars
  <2>3. Shapes'
    BY <2>1, <2>2 DEF Shapes, Function, IdleRun, saleVars, startVars
  <2>4. /\ run'[r].pc = "snapshot" /\ run'[r].id = seen
        /\ \A q \in Run : q # r => run'[q] = run[q]
    BY <2>1 DEF Shapes, Function, IdleRun
  <2> QED
    BY <1>1, <2>1, <2>2, <2>3, <2>4 DEF DetectProposal, OthersStay, Detects
<1>2. CASE DetectTimeout(r)
  BY <1>2, GotoKind DEF DetectTimeout, contractVars
<1>3. CASE TakeSnapshot(r)
  BY <1>3, GotoKind DEF TakeSnapshot, contractVars
<1> QED
  BY <1>1, <1>2, <1>3

\* The wait for the workers and the counting.
LEMMA resultsKind ==
  ASSUME Shapes, NEW r \in Run,
         AllDone(r) \/ WaitTimeout(r) \/ ReadResults(r) \/ aggregateResults(r)
  PROVE  Quiet(r) \/ Returns(r)
<1> USE DEF At, Over
<1>1. CASE AllDone(r)
  BY <1>1, GotoKind DEF AllDone, contractVars
<1>2. CASE WaitTimeout(r)
  BY <1>2, ReturnReturns DEF WaitTimeout, contractVars
<1>3. CASE ReadResults(r)
  <2>1. PICK subs : run' = [run EXCEPT ![r].pc = "recording", ![r].submissions = subs]
    BY <1>3 DEF ReadResults
  <2>2. UNCHANGED <<current_proposal_id, startVars, saleVars, takers, disturbed>> /\ ~Over(r)
    BY <1>3 DEF ReadResults, contractVars
  <2>3. Shapes'
    BY <2>1, <2>2 DEF Shapes, Function, IdleRun, saleVars, startVars
  <2>4. /\ run'[r].pc = "recording" /\ run'[r].id = run[r].id
        /\ \A q \in Run : q # r => run'[q] = run[q]
    BY <2>1 DEF Shapes, Function, IdleRun
  <2> QED
    BY <1>3, <2>1, <2>2, <2>3, <2>4 DEF ReadResults, OthersStay, Quiet
<1>4. CASE aggregateResults(r)
  <2>1. PICK tally : run' = [run EXCEPT ![r].pc = "archiving", ![r].tally = tally]
    BY <1>4 DEF aggregateResults
  <2>2. UNCHANGED <<current_proposal_id, startVars, saleVars, takers, disturbed>> /\ ~Over(r)
    BY <1>4 DEF aggregateResults, contractVars
  <2>3. Shapes'
    BY <2>1, <2>2 DEF Shapes, Function, IdleRun, saleVars, startVars
  <2>4. /\ run'[r].pc = "archiving" /\ run'[r].id = run[r].id
        /\ \A q \in Run : q # r => run'[q] = run[q]
    BY <2>1 DEF Shapes, Function, IdleRun
  <2> QED
    BY <1>4, <2>1, <2>2, <2>3, <2>4 DEF aggregateResults, OthersStay, Quiet
<1> QED
  BY <1>1, <1>2, <1>3, <1>4

\* The signed calls leave the number of proposals alone.
LEMMA callsKind ==
  ASSUME Shapes, NEW r \in Run, localRecordWorkerSubmissions(r) \/ localCoordinatorResume(r)
  PROVE  Quiet(r)
<1> USE DEF At, Over
<1>1. CASE localRecordWorkerSubmissions(r)
  <2>1. UNCHANGED current_proposal_id
    BY <1>1 DEF localRecordWorkerSubmissions, Call, contractVars,
       Round!Contract!record_worker_submissions
  <2> QED
    BY <1>1, <2>1, GotoKind DEF localRecordWorkerSubmissions
<1>2. CASE localCoordinatorResume(r)
  <2>1. UNCHANGED current_proposal_id
    BY <1>2 DEF localCoordinatorResume, Call, contractVars, Round!Contract!coordinator_resume
  <2> QED
    BY <1>2, <2>1, GotoKind DEF localCoordinatorResume
<1> QED
  BY <1>1, <1>2

\* The archiving and the end.
LEMMA endKind ==
  ASSUME Shapes, NEW r \in Run, archiveProposal(r) \/ Complete(r)
  PROVE  Quiet(r) \/ Returns(r)
<1> USE DEF At, Over
<1>1. CASE Complete(r)
  BY <1>1, ReturnReturns DEF Complete, contractVars
<1>2. CASE archiveProposal(r) /\ run[r].id = 0
  BY <1>2, ReturnReturns DEF archiveProposal, contractVars
<1>3. CASE archiveProposal(r) /\ run[r].id # 0
  BY <1>3, GotoKind DEF archiveProposal, contractVars
<1> QED
  BY <1>1, <1>2, <1>3

\* Every step of a run is of one of the kinds.
LEMMA AdvanceKinds ==
  ASSUME Shapes, NEW r \in Run, Advance(r)
  PROVE  Quiet(r) \/ Sends(r) \/ Detects(r) \/ Returns(r)
<1>1. CASE getActiveWorkers(r)
  BY <1>1, getActiveWorkersKind
<1>2. CASE PublishTask(r)
  BY <1>2, GotoKind DEF PublishTask, contractVars, At, Over
<1>3. ASSUME NEW w \in Worker, ResetStatus(r, w) \/ Dispatch(r, w) \/ MarkUnreachable(r, w)
      PROVE  Quiet(r)
  BY <1>3, triggerWorkersKind
<1>4. CASE localStartCoordination(r)
  BY <1>4, localStartCoordinationKind
<1>5. CASE DetectProposal(r) \/ DetectTimeout(r) \/ TakeSnapshot(r)
  BY <1>5, detectionKind
<1>6. CASE AllDone(r) \/ WaitTimeout(r) \/ ReadResults(r) \/ aggregateResults(r)
  BY <1>6, resultsKind
<1>7. CASE localRecordWorkerSubmissions(r) \/ localCoordinatorResume(r)
  BY <1>7, callsKind
<1>8. CASE archiveProposal(r) \/ Complete(r)
  BY <1>8, endKind
<1> QED
  BY <1>1, <1>2, <1>3, <1>4, <1>5, <1>6, <1>7, <1>8 DEF Advance

-----------------------------------------------------------------------------
(* What a buyer is told *)

\* At first every variable has its shape.
LEMMA InitShapes == Init => Shapes
<1> SUFFICES ASSUME Init PROVE Shapes
  OBVIOUS
<1>1. Function(IdleRun)
  BY DEF IdleRun, Function
<1> QED
  BY <1>1 DEF Init, Shapes, Function

\* At first nobody has bought anything.
LEMMA SaleInit == Init => SaleInv
<1> SUFFICES ASSUME Init PROVE SaleInv
  OBVIOUS
<1>1. ASSUME NEW r \in Run PROVE SaleOf(r)
  <2>1. verdict[r] = NoVerdict /\ buyer[r] = "none"
    BY DEF Init
  <2>2. NoVerdict.status = "none"
    BY DEF NoVerdict
  <2> QED
    BY <2>1, <2>2 DEF SaleOf, Terminal
<1> QED
  BY <1>1, InitShapes DEF SaleInv

\* A step of one run that leaves its sale alone, and does not take it back to the
\* beginning.
LEMMA SaleQuiet ==
  ASSUME SaleInv, NEW r \in Run, OthersStay(r), run[r].pc # "returned",
         run'[r].pc # "idle", UNCHANGED saleVars
  PROVE  SaleInv'
<1>1. verdict[r].status \notin Terminal
  BY DEF SaleInv, SaleOf
<1> QED
  BY <1>1 DEF SaleInv, SaleOf, OthersStay, saleVars

\* A run that returns gives its record the outcome, and its buyer if it still waits.
LEMMA SaleReturns ==
  ASSUME SaleInv, NEW r \in Run, Returns(r)
  PROVE  SaleInv'
<1>1. OthersStay(r) /\ ~Over(r) /\ run'[r].pc = "returned"
  BY DEF Returns
<1>2. verdict[r].status \notin Terminal
  BY <1>1 DEF SaleInv, SaleOf, Over
<1>3. PICK tally : runDeliberation(r, tally)
  BY DEF Returns
<1>4. \A q \in Run : q # r => verdict'[q] = verdict[q] /\ buyer'[q] = buyer[q]
  BY <1>3 DEF SaleInv, Shapes, runDeliberation, saleVars
<1>5. \A q \in Run : q # r => SaleOf(q)'
  BY <1>1, <1>4 DEF SaleInv, SaleOf, OthersStay
<1>6. SaleOf(r)'
  <2>1. CASE r \in Paid
    <3> DEFINE outcome == Outcome(r, tally)
    <3>1. outcome.status \in Terminal
      BY DEF Outcome, Terminal
    <3> HIDE DEF outcome
    <3>2. /\ verdict'[r] = IF verdict[r].status = "none" THEN verdict[r] ELSE outcome
          /\ buyer'[r] = IF buyer[r] = "waiting" THEN verdict'[r].status ELSE buyer[r]
      BY <1>3, <2>1 DEF runDeliberation, SaleInv, Shapes, updateRecord, outcome
    <3>3. SaleOf(r)
      BY DEF SaleInv
    <3>4. CASE verdict[r].status = "none"
      BY <1>1, <1>2, <3>2, <3>3, <3>4 DEF SaleOf, Terminal
    <3>5. CASE verdict[r].status # "none"
      BY <1>1, <1>2, <3>1, <3>2, <3>3, <3>5 DEF SaleOf, Terminal
    <3> QED
      BY <3>4, <3>5
  <2>2. CASE r \notin Paid
    BY <1>1, <1>2, <1>3, <2>2 DEF SaleInv, SaleOf, runDeliberation, saleVars
  <2> QED
    BY <2>1, <2>2
<1> QED
  BY <1>1, <1>5, <1>6 DEF SaleInv, OthersStay

\* A request creates its record, pending, and its buyer waits.
LEMMA SaleBegin ==
  ASSUME SaleInv, NEW r \in Run, Begin(r)
  PROVE  SaleInv'
<1>1. PICK c \in Config :
        run' = [run EXCEPT ![r].pc = "discovering", ![r].config = c]
  BY DEF Begin
<1>2. SaleOf(r) /\ verdict[r] = NoVerdict /\ buyer[r] = "none"
  BY DEF SaleInv, SaleOf, Begin, At
<1>3. CASE r \notin Paid
  <2>1. UNCHANGED <<saleVars, startVars>> /\ run[r].pc = "idle"
    BY <1>3 DEF Begin, At
  <2>2. Shapes' /\ run'[r].pc = "discovering"
    BY <1>1, <2>1 DEF SaleInv, Shapes, Function, IdleRun, saleVars, startVars
  <2>3. \A q \in Run : q # r => run'[q] = run[q]
    BY <1>1 DEF SaleInv, Shapes
  <2>4. OthersStay(r)
    BY <2>2, <2>3 DEF OthersStay
  <2> QED
    BY <2>1, <2>2, <2>4, SaleQuiet
<1>4. CASE r \in Paid
  <2>1. /\ verdict' = [verdict EXCEPT ![r].status = "pending"]
        /\ buyer' = [buyer EXCEPT ![r] = "waiting"]
        /\ UNCHANGED startVars
    BY <1>4 DEF Begin
  <2>2. Shapes' /\ run'[r].pc = "discovering"
    BY <1>1, <2>1 DEF SaleInv, Shapes, Function, IdleRun, startVars
  <2>3. \A q \in Run : q # r =>
          run'[q] = run[q] /\ verdict'[q] = verdict[q] /\ buyer'[q] = buyer[q]
    BY <1>1, <2>1 DEF SaleInv, Shapes
  <2>4. verdict'[r].status = "pending" /\ buyer'[r] = "waiting"
    BY <1>2, <2>1 DEF SaleInv, Shapes, NoVerdict
  <2>5. \A q \in Run : q # r => SaleOf(q)'
    BY <2>3 DEF SaleInv, SaleOf
  <2>6. SaleOf(r)'
    BY <2>2, <2>4 DEF SaleOf, Terminal
  <2> QED
    BY <2>2, <2>5, <2>6 DEF SaleInv
<1> QED
  BY <1>3, <1>4

\* The buyer stops waiting, is told what is on record, or gives up.
LEMMA SaleBuyer ==
  ASSUME SaleInv, NEW r \in Run, AwaitExpires(r) \/ PollVerdict(r) \/ GiveUp(r)
  PROVE  SaleInv'
<1>1. PICK told : buyer' = [buyer EXCEPT ![r] = told] /\ told # "waiting" /\ told # "none"
                  /\ (told \in Terminal => verdict[r].status = told)
  <2>1. CASE AwaitExpires(r)
    <3>1. buyer' = [buyer EXCEPT ![r] = "polling"]
      BY <2>1 DEF AwaitExpires
    <3>2. "polling" # "waiting" /\ "polling" # "none" /\ "polling" \notin Terminal
      BY DEF Terminal
    <3> QED
      BY <3>1, <3>2
  <2>2. CASE GiveUp(r)
    BY <2>2 DEF GiveUp, Terminal
  <2>3. CASE PollVerdict(r) /\ verdict[r].status = "none"
    <3>1. buyer' = [buyer EXCEPT ![r] = "lost"]
      BY <2>3 DEF PollVerdict
    <3>2. "lost" # "waiting" /\ "lost" # "none" /\ "lost" \notin Terminal
      BY DEF Terminal
    <3> QED
      BY <3>1, <3>2
  <2>4. CASE PollVerdict(r) /\ verdict[r].status # "none"
    <3>1. verdict[r].status \in Terminal
      BY <2>4 DEF PollVerdict, SaleInv, SaleOf
    <3> QED
      BY <2>4, <3>1 DEF PollVerdict, Terminal
  <2> QED
    BY <2>1, <2>2, <2>3, <2>4
<1>2. UNCHANGED <<run, verdict, startVars>> /\ buyer[r] # "none"
  BY DEF AwaitExpires, PollVerdict, GiveUp
<1>3. Shapes' /\ buyer'[r] = told /\ \A q \in Run : q # r => buyer'[q] = buyer[q]
  BY <1>1, <1>2 DEF SaleInv, Shapes, Function, startVars
<1>4. \A q \in Run : SaleOf(q)'
  BY <1>1, <1>2, <1>3 DEF SaleInv, SaleOf
<1> QED
  BY <1>3, <1>4 DEF SaleInv

\* A restart loses the records and hangs up on the buyers that wait.
LEMMA SaleCrash ==
  ASSUME SaleInv, Crash
  PROVE  SaleInv'
<1>1. /\ run' = [r \in Run |-> IF Over(r) THEN run[r] ELSE End(r, "lost")]
      /\ verdict' = [r \in Run |-> NoVerdict]
      /\ buyer' = [r \in Run |-> IF buyer[r] = "waiting" THEN "lost" ELSE buyer[r]]
      /\ UNCHANGED startVars
  BY DEF Crash
<1>2. \A r \in Run : /\ Function(End(r, "lost")) /\ DOMAIN End(r, "lost") = DOMAIN IdleRun
                     /\ End(r, "lost").pc = "lost"
  BY DEF End, IdleRun, Function
<1>3. Shapes'
  BY <1>1, <1>2 DEF SaleInv, Shapes, Function, startVars
<1>4. ASSUME NEW r \in Run PROVE SaleOf(r)'
  BY <1>1, <1>2 DEF SaleInv, SaleOf, NoVerdict, Terminal
<1> QED
  BY <1>3, <1>4 DEF SaleInv

\* Every step keeps the verdict store in order.
LEMMA SaleNext == SaleInv /\ [Next]_vars => SaleInv'
<1> SUFFICES ASSUME SaleInv, [Next]_vars PROVE SaleInv'
  OBVIOUS
<1>1. ASSUME NEW r \in Run, Begin(r) PROVE SaleInv'
  BY <1>1, SaleBegin
<1>2. ASSUME NEW r \in Run, Advance(r) PROVE SaleInv'
  <2>1. Quiet(r) \/ Sends(r) \/ Detects(r) \/ Returns(r)
    BY <1>2, AdvanceKinds DEF SaleInv
  <2>2. CASE Returns(r)
    BY <2>2, SaleReturns
  <2>3. CASE Quiet(r) \/ Sends(r) \/ Detects(r)
    <3>1. /\ OthersStay(r) /\ UNCHANGED saleVars
          /\ run[r].pc # "returned" /\ run'[r].pc # "idle"
      BY <2>3 DEF Quiet, Sends, Detects, Over
    <3> QED
      BY <3>1, SaleQuiet
  <2> QED
    BY <2>1, <2>2, <2>3
<1>3. ASSUME NEW r \in Run, StartLands(r) \/ StartLost(r) PROVE SaleInv'
  <2>1. UNCHANGED <<run, saleVars>>
    BY <1>3 DEF StartLands, StartLost
  <2>2. Function(startTx') /\ DOMAIN startTx' = Run
    BY <1>3 DEF StartLands, StartLost, SaleInv, Shapes, Function
  <2>3. Function(startedBy') /\ DOMAIN startedBy' = ProposalId
    BY <1>3 DEF StartLands, StartLost, SaleInv, Shapes, Function
  <2> QED
    BY <2>1, <2>2, <2>3 DEF SaleInv, Shapes, Function, SaleOf, saleVars
<1>4. ASSUME NEW r \in Run, AwaitExpires(r) \/ PollVerdict(r) \/ GiveUp(r) PROVE SaleInv'
  BY <1>4, SaleBuyer
<1>5. CASE Crash
  BY <1>5, SaleCrash
<1>6. CASE Runtime \/ \E w \in Worker : WorkerStep(w)
  <2>1. UNCHANGED <<run, startVars, saleVars>>
    BY <1>6 DEF Runtime, WorkerStep
  <2> QED
    BY <2>1 DEF SaleInv, Shapes, Function, SaleOf, saleVars, startVars
<1>7. CASE UNCHANGED vars
  <2>1. UNCHANGED <<run, startVars, saleVars>>
    BY <1>7 DEF vars
  <2> QED
    BY <2>1 DEF SaleInv, Shapes, Function, SaleOf, saleVars, startVars
<1> QED
  BY <1>1, <1>2, <1>3, <1>4, <1>5, <1>6, <1>7 DEF Next

\* So it is in order in every state.
LEMMA SaleAlways == Spec => []SaleInv
BY SaleInit, SaleNext, PTL DEF Spec

\* A verdict is never replaced by another: only the run that returns gives one,
\* and it returns once.
LEMMA VerdictKept ==
  ASSUME SaleInv, Next, NEW r \in Run, verdict[r].status \in Terminal
  PROVE  verdict'[r] \in {verdict[r], NoVerdict}
<1>1. run[r].pc = "returned"
  BY DEF SaleInv, SaleOf
<1>2. ASSUME NEW q \in Run, Begin(q) PROVE verdict'[r] = verdict[r]
  <2>1. q # r
    BY <1>1, <1>2 DEF Begin, At
  <2> QED
    BY <1>2, <2>1 DEF Begin, SaleInv, Shapes, saleVars
<1>3. ASSUME NEW q \in Run, Advance(q) PROVE verdict'[r] = verdict[r]
  <2>1. Quiet(q) \/ Sends(q) \/ Detects(q) \/ Returns(q)
    BY <1>3, AdvanceKinds DEF SaleInv
  <2>2. CASE Returns(q)
    <3>1. q # r
      BY <1>1, <2>2 DEF Returns, Over
    <3>2. PICK tally : runDeliberation(q, tally)
      BY <2>2 DEF Returns
    <3> QED
      BY <3>1, <3>2 DEF runDeliberation, SaleInv, Shapes, saleVars
  <2> QED
    BY <2>1, <2>2 DEF Quiet, Sends, Detects, saleVars
<1>4. ASSUME NEW q \in Run,
             \/ StartLands(q) \/ StartLost(q)
             \/ AwaitExpires(q) \/ PollVerdict(q) \/ GiveUp(q)
      PROVE  verdict'[r] = verdict[r]
  BY <1>4 DEF StartLands, StartLost, AwaitExpires, PollVerdict, GiveUp, saleVars
<1>5. CASE Crash
  BY <1>5 DEF Crash
<1>6. CASE Runtime \/ \E w \in Worker : WorkerStep(w)
  BY <1>6 DEF Runtime, WorkerStep, saleVars
<1> QED
  BY <1>2, <1>3, <1>4, <1>5, <1>6 DEF Next

\* Whatever the timers, the buyer, failures and crashes do, a verdict once given
\* is only ever lost, never replaced by another.
THEOREM VerdictAlwaysStands == Spec => VerdictStands
<1> DEFINE Keeps == \A r \in Run : verdict[r].status \in {"completed", "failed"}
                      => verdict'[r] \in {verdict[r], NoVerdict}
<1>1. SaleInv /\ [Next]_vars => [Keeps]_vars
  BY VerdictKept DEF Terminal
<1> QED
  BY <1>1, SaleAlways, PTL DEF Spec, VerdictStands

\* A buyer that was told an outcome would be told the same again, or that the
\* record is gone.
THEOREM ToldIsAlwaysRecorded == Spec => []ToldIsRecorded
<1>1. SaleInv => ToldIsRecorded
  BY DEF SaleInv, SaleOf, ToldIsRecorded, Terminal
<1> QED
  BY <1>1, SaleAlways, PTL

-----------------------------------------------------------------------------
(* Runs that nobody disturbs find their own proposals *)

\* At first no run has taken a proposal.
LEMMA OwnInit == Init => OwnInv
BY InitShapes DEF Init, OwnInv, Active, Over, IdleRun, DetectsItsOwn, HasItsOwn

\* Whoever is active beside an active run is disturbed.
LEMMA Alone ==
  ASSUME OwnInv, NEW r \in Run, Active(r)
  PROVE  \A q \in Run : (q # r /\ q \notin disturbed) => ~Active(q) /\ run[q].pc # "detecting"
BY DEF OwnInv, Active, Over

\* A run that goes on takes no proposal but its own.
LEMMA OwnAdvance ==
  ASSUME OwnInv, NEW r \in Run, Advance(r)
  PROVE  OwnInv'
<1>1. Quiet(r) \/ Sends(r) \/ Detects(r) \/ Returns(r)
  BY AdvanceKinds DEF OwnInv
<1>2. /\ Shapes' /\ ~Over(r) /\ Active(r) /\ disturbed \subseteq disturbed'
      /\ \A q \in Run : q # r => run'[q] = run[q] /\ startTx'[q] = startTx[q]
      /\ UNCHANGED <<current_proposal_id, startedBy>>
  BY <1>1 DEF Quiet, Sends, Detects, Returns, OthersStay, Over, Active, startVars
<1>3. ASSUME NEW q \in Run, q # r, q \notin disturbed'
      PROVE  DetectsItsOwn(q)' /\ HasItsOwn(q)' /\ ~Active(q)'
  <2>1. ~Active(q) /\ DetectsItsOwn(q) /\ HasItsOwn(q)
    BY <1>2, <1>3, Alone DEF OwnInv
  <2> QED BY <1>2, <1>3, <2>1 DEF Active, Over, DetectsItsOwn, HasItsOwn
<1>4. ASSUME r \notin disturbed'
      PROVE  DetectsItsOwn(r)' /\ HasItsOwn(r)' /\ \A q \in Run : Active(q)' => q = r
  <2>1. /\ DetectsItsOwn(r) /\ HasItsOwn(r) /\ current_proposal_id \in Nat
        /\ \A q \in Run : Active(q) => q = r
    BY <1>2, <1>4 DEF OwnInv
  <2>2. \A q \in Run : Active(q)' => q = r
    BY <1>2, <2>1 DEF Active, Over
  <2>3. CASE Quiet(r)
    BY <1>2, <2>1, <2>2, <2>3 DEF Quiet, DetectsItsOwn, HasItsOwn
  <2>4. CASE Returns(r)
    BY <1>2, <2>1, <2>2, <2>4 DEF Returns, DetectsItsOwn, HasItsOwn
  <2>5. CASE Sends(r)
    <3>1. run'[r].before = current_proposal_id
      BY <1>4, <2>5 DEF Sends
    <3> QED BY <1>2, <2>1, <2>2, <2>5, <3>1 DEF Sends, DetectsItsOwn, HasItsOwn
  <2>6. CASE Detects(r)
    <3>1. run'[r].id = current_proposal_id /\ current_proposal_id > run[r].before
      BY <2>1, <2>6 DEF Detects, DetectsItsOwn, View
    <3>2. current_proposal_id \in ProposalId /\ startedBy[current_proposal_id] = {r}
      BY <2>1, <2>6, <3>1 DEF Detects, DetectsItsOwn
    <3> QED BY <1>2, <2>1, <2>2, <2>6, <3>1, <3>2 DEF Detects, DetectsItsOwn, HasItsOwn
  <2> QED BY <1>1, <2>3, <2>4, <2>5, <2>6
<1>5. current_proposal_id' \in Nat
  BY <1>2 DEF OwnInv
<1> QED
  BY <1>2, <1>3, <1>4, <1>5 DEF OwnInv

\* A run that begins disturbs, and is disturbed by, those that are active.
LEMMA OwnBegin ==
  ASSUME OwnInv, NEW r \in Run, Begin(r)
  PROVE  OwnInv'
<1> DEFINE others == {q \in Run : Active(q)}
<1>1. PICK c \in Config :
        run' = [run EXCEPT ![r].pc = "discovering", ![r].config = c]
  BY DEF Begin
<1>2. /\ disturbed' = disturbed \cup others \cup (IF others = {} THEN {} ELSE {r})
      /\ UNCHANGED <<current_proposal_id, startVars>>
  BY DEF Begin, contractVars
<1>3. /\ Function(verdict') /\ DOMAIN verdict' = Run
      /\ Function(buyer') /\ DOMAIN buyer' = Run
  BY DEF Begin, OwnInv, Shapes, Function, saleVars
<1>4. Shapes'
  BY <1>1, <1>2, <1>3 DEF OwnInv, Shapes, Function, IdleRun, startVars
<1>5. /\ run'[r].pc = "discovering" /\ run'[r].id = run[r].id
      /\ \A q \in Run : q # r => run'[q] = run[q]
  BY <1>1 DEF OwnInv, Shapes, Function, IdleRun
<1>6. ASSUME NEW q \in Run, q \notin disturbed', q # r
      PROVE  DetectsItsOwn(q)' /\ HasItsOwn(q)' /\ ~Active(q)'
  <2>1. ~Active(q) /\ DetectsItsOwn(q) /\ HasItsOwn(q)
    BY <1>2, <1>6 DEF OwnInv
  <2> QED BY <1>2, <1>5, <1>6, <2>1 DEF Active, Over, DetectsItsOwn, HasItsOwn, startVars
<1>7. ASSUME r \notin disturbed'
      PROVE  DetectsItsOwn(r)' /\ HasItsOwn(r)' /\ \A q \in Run : Active(q)' => q = r
  <2>1. HasItsOwn(r) /\ \A q \in Run : ~Active(q)
    BY <1>2, <1>7 DEF OwnInv
  <2> QED BY <1>2, <1>5, <2>1 DEF Active, Over, DetectsItsOwn, HasItsOwn, startVars
<1>8. current_proposal_id' \in Nat
  BY <1>2 DEF OwnInv
<1> QED
  BY <1>4, <1>6, <1>7, <1>8 DEF OwnInv

\* The id grows by the call of a run that is active for it.
LEMMA OwnStartLands ==
  ASSUME OwnInv, NEW r \in Run, StartLands(r)
  PROVE  OwnInv'
<1> DEFINE new == current_proposal_id + 1
<1>1. /\ startTx[r] # 0
      /\ current_proposal_id' = new /\ new \in ProposalId
      /\ startTx' = [startTx EXCEPT ![r] = 0]
      /\ startedBy' = [startedBy EXCEPT ![new] = {r}]
      /\ UNCHANGED <<run, saleVars, disturbed>>
  BY DEF StartLands, Round!Contract!start_coordination, Round!Contract!ProposalId, ProposalId
<1>2. Shapes'
  BY <1>1 DEF OwnInv, Shapes, Function, saleVars
<1>3. Active(r) /\ current_proposal_id \in Nat /\ new \in Nat
  BY <1>1 DEF Active, OwnInv
<1>4. startTx'[r] = 0 /\ startedBy'[new] = {r} /\ \A q \in Run : q # r => startTx'[q] = startTx[q]
  BY <1>1 DEF OwnInv, Shapes
<1>5. ASSUME NEW q \in Run, HasItsOwn(q)
      PROVE  HasItsOwn(q)'
  <2>1. CASE run[q].id = 0
    BY <1>1, <2>1 DEF HasItsOwn
  <2>2. CASE run[q].id # 0
    <3>1. /\ run[q].id \in ProposalId /\ run[q].id <= current_proposal_id
          /\ startedBy[run[q].id] = {q}
      BY <1>5, <2>2 DEF HasItsOwn
    <3>2. run[q].id # new /\ run[q].id \in Nat
      BY <1>3, <3>1 DEF ProposalId
    <3>3. startedBy'[run[q].id] = {q}
      BY <1>1, <3>1, <3>2 DEF OwnInv, Shapes
    <3> QED
      BY <1>1, <1>3, <3>1, <3>2, <3>3 DEF HasItsOwn
  <2> QED
    BY <2>1, <2>2
<1>6. ASSUME NEW q \in Run, q # r, q \notin disturbed
      PROVE  ~Active(q)' /\ DetectsItsOwn(q)' /\ HasItsOwn(q)'
  <2>1. ~Active(q) /\ run[q].pc # "detecting" /\ HasItsOwn(q)
    BY <1>3, <1>6, Alone DEF OwnInv
  <2> QED BY <1>1, <1>4, <1>5, <1>6, <2>1 DEF Active, Over, DetectsItsOwn
<1>7. ASSUME r \notin disturbed
      PROVE  DetectsItsOwn(r)' /\ HasItsOwn(r)' /\ \A q \in Run : Active(q)' => q = r
  <2>1. DetectsItsOwn(r) /\ HasItsOwn(r) /\ \A q \in Run : Active(q) => q = r
    BY <1>3, <1>7 DEF OwnInv
  <2>2. DetectsItsOwn(r)'
    BY <1>1, <1>3, <1>4, <2>1 DEF DetectsItsOwn
  <2>3. \A q \in Run : Active(q)' => q = r
    BY <1>1, <1>4, <2>1 DEF Active, Over
  <2> QED BY <1>5, <2>1, <2>2, <2>3
<1> QED
  BY <1>1, <1>2, <1>3, <1>6, <1>7 DEF OwnInv

\* A call that never lands leaves the id alone.
LEMMA OwnStartLost ==
  ASSUME OwnInv, NEW r \in Run, StartLost(r)
  PROVE  OwnInv'
<1>1. /\ startTx[r] # 0 /\ startTx' = [startTx EXCEPT ![r] = 0]
      /\ UNCHANGED <<run, saleVars, startedBy, current_proposal_id, disturbed>>
  BY DEF StartLost, contractVars
<1>2. Shapes'
  BY <1>1 DEF OwnInv, Shapes, Function, saleVars
<1>3. startTx'[r] = 0 /\ \A q \in Run : q # r => startTx'[q] = startTx[q]
  BY <1>1 DEF OwnInv, Shapes
<1>4. \A q \in Run : Active(q)' => Active(q)
  BY <1>1, <1>3 DEF Active, Over
<1>5. \A q \in Run : q \notin disturbed => DetectsItsOwn(q)' /\ HasItsOwn(q)'
  BY <1>1, <1>3 DEF OwnInv, DetectsItsOwn, HasItsOwn
<1> QED
  BY <1>1, <1>2, <1>4, <1>5 DEF OwnInv

\* A restart leaves no run active but by the call it sent.
LEMMA OwnCrash ==
  ASSUME OwnInv, Crash
  PROVE  OwnInv'
<1>1. /\ run' = [r \in Run |-> IF Over(r) THEN run[r] ELSE End(r, "lost")]
      /\ verdict' = [r \in Run |-> NoVerdict]
      /\ buyer' = [r \in Run |-> IF buyer[r] = "waiting" THEN "lost" ELSE buyer[r]]
      /\ UNCHANGED <<startVars, current_proposal_id, disturbed>>
  BY DEF Crash, contractVars
<1>2. \A r \in Run : /\ Function(End(r, "lost")) /\ DOMAIN End(r, "lost") = DOMAIN IdleRun
                     /\ End(r, "lost").pc = "lost" /\ End(r, "lost").id = 0
  BY DEF End, IdleRun, Function
<1>3. Shapes'
  BY <1>1, <1>2 DEF OwnInv, Shapes, Function, startVars
<1>4. \A r \in Run : Over(r)' /\ (run'[r].id = 0 \/ run'[r] = run[r])
  BY <1>1, <1>2 DEF Over
<1>5. \A r \in Run : Active(r)' => Active(r)
  BY <1>1, <1>4 DEF Active, startVars
<1>6. \A r \in Run : r \notin disturbed => DetectsItsOwn(r)' /\ HasItsOwn(r)'
  BY <1>1, <1>4 DEF OwnInv, DetectsItsOwn, HasItsOwn, Over, startVars
<1> QED
  BY <1>1, <1>3, <1>5, <1>6 DEF OwnInv

\* The steps that touch neither runs nor start calls nor the number of proposals.
LEMMA OwnStays ==
  ASSUME OwnInv, UNCHANGED <<run, startVars, current_proposal_id, disturbed>>,
         Function(verdict'), DOMAIN verdict' = Run, Function(buyer'), DOMAIN buyer' = Run
  PROVE  OwnInv'
BY DEF OwnInv, Shapes, Function, startVars, Active, Over, DetectsItsOwn, HasItsOwn

\* Every step keeps proposals with the runs that started them.
LEMMA OwnNext ==
  ASSUME OwnInv, [Next]_vars
  PROVE  OwnInv'
<1>1. ASSUME NEW r \in Run, Begin(r) PROVE OwnInv'
  BY <1>1, OwnBegin
<1>2. ASSUME NEW r \in Run, Advance(r) PROVE OwnInv'
  BY <1>2, OwnAdvance
<1>3. ASSUME NEW r \in Run, StartLands(r) PROVE OwnInv'
  BY <1>3, OwnStartLands
<1>4. ASSUME NEW r \in Run, StartLost(r) PROVE OwnInv'
  BY <1>4, OwnStartLost
<1>5. ASSUME NEW r \in Run, AwaitExpires(r) \/ PollVerdict(r) \/ GiveUp(r) PROVE OwnInv'
  <2>1. UNCHANGED <<run, verdict, startVars, current_proposal_id, disturbed>>
    BY <1>5 DEF AwaitExpires, PollVerdict, GiveUp, contractVars
  <2>2. PICK told : buyer' = [buyer EXCEPT ![r] = told]
    BY <1>5 DEF AwaitExpires, PollVerdict, GiveUp
  <2>3. Function(verdict') /\ DOMAIN verdict' = Run /\ Function(buyer') /\ DOMAIN buyer' = Run
    BY <2>1, <2>2 DEF OwnInv, Shapes, Function
  <2> QED
    BY <2>1, <2>3, OwnStays
<1>6. CASE Crash
  BY <1>6, OwnCrash
<1>7. CASE Runtime \/ (\E w \in Worker : WorkerStep(w)) \/ UNCHANGED vars
  <2>1. UNCHANGED <<run, startVars, saleVars, current_proposal_id, disturbed>>
    BY <1>7 DEF Runtime, WorkerStep, vars, contractVars, Round!Contract!Runtime,
       Round!Contract!YieldTimeout, Round!Contract!DeliverResume
  <2>2. Function(verdict') /\ DOMAIN verdict' = Run /\ Function(buyer') /\ DOMAIN buyer' = Run
    BY <2>1 DEF OwnInv, Shapes, Function, saleVars
  <2> QED
    BY <2>1, <2>2, OwnStays
<1> QED
  BY <1>1, <1>2, <1>3, <1>4, <1>5, <1>6, <1>7 DEF Next

\* What every run that is not disturbed relies on.
LEMMA OwnAlways == Spec => []OwnInv
<1>1. OwnInv /\ [Next]_vars => OwnInv'
  BY OwnNext
<1> QED
  BY <1>1, OwnInit, PTL DEF Spec

\* A run never mistakes a proposal, although it only sees that the last id has grown,
\* unless another run was beside it or its look-up of the last id failed: with any
\* number of runs, restarts and lost calls, and start calls that land long after.
THEOREM OwnProposalAlways == Spec => []OwnProposal
<1>1. OwnInv => OwnProposal
  BY DEF OwnInv, HasItsOwn, OwnProposal
<1> QED
  BY <1>1, OwnAlways, PTL

-----------------------------------------------------------------------------
(* Types: the parts *)

\* What a worker submits.
Submission == [worker_id : Worker, result_hash : Round!Agent!ResultValue]

\* What nobody administers during a run.
adminVars == <<owner, approved_codehashes, coordinator_by_account_id,
               registered_workers, manifesto>>

\* Every id given out has its proposal: nobody clears one during a run.
Started == \A id \in ProposalId : id <= current_proposal_id => Round!Contract!Exists(id)

\* An execution has the task it votes on.
HandlersHaveTask ==
  \A w \in Worker, s \in Slot : Round!Agent!Executing(w, s) => slot[w][s].config \in Config

-----------------------------------------------------------------------------
(* What the helpers return *)

\* The listing of a finite set names every member, and nothing else.
LEMMA Listed ==
  ASSUME NEW S, IsFiniteSet(S)
  PROVE  /\ Cardinality(S) \in Nat
         /\ SetToSeq(S) \in [1 .. Cardinality(S) -> S]
         /\ \A x \in S : \E i \in 1 .. Cardinality(S) : SetToSeq(S)[i] = x
<1> DEFINE n == Cardinality(S)
           good(f) == f \in [1 .. n -> S] /\ IsInjective(f)
<1>1. n \in Nat /\ \E f : good(f)
  <2>1. n \in Nat /\ Bijection(1 .. n, S) # {}
    BY FS_CardinalityType DEF ExistsBijection
  <2> QED BY <2>1 DEF Bijection, Injection
<1>2. SetToSeq(S) \in [1 .. n -> S] /\ IsInjective(SetToSeq(S))
  BY <1>1 DEF SetToSeq
<1>3. IsFiniteSet(1 .. n) /\ Cardinality(1 .. n) = n
  BY <1>1, FS_Interval
<1>4. SetToSeq(S) \in Injection(1 .. n, S)
  BY <1>2 DEF Injection
<1>5. SetToSeq(S) \in Surjection(1 .. n, S)
  BY <1>3, <1>4, FS_Injection
<1> QED BY <1>1, <1>2, <1>5 DEF Surjection

\* The round counts and lists as this module does.
LEMMA SameCount == \A S : Round!Cardinality(S) = Cardinality(S)
BY DEF Round!Cardinality, Cardinality

\* The instance lists a set as this module does.
LEMMA SameListing == \A S : Round!SetToSeq(S) = SetToSeq(S)
BY SameCount DEF Round!SetToSeq, SetToSeq, Round!IsInjective, IsInjective

\* Workers read have a result.
LEMMA ReadHaveResults ==
  ASSUME NEW W \in SUBSET Worker, NEW read \in Round!Readings(W)
  PROVE  /\ read \in SUBSET W
         /\ \A w \in read : result[w] # NoResult
         /\ read = {w \in W : result[w] # NoResult}
BY DEF Round!Readings, Round!Reading

\* What is read of them is a result.
LEMMA ReadTyped ==
  ASSUME Round!Agent!TypeOK, NEW W \in SUBSET Worker, NEW read \in Round!Readings(W)
  PROVE  \A w \in read : result[w] \in Round!Agent!ResultValue
<1>1. \A w \in read : w \in Worker /\ result[w] # NoResult
  BY ReadHaveResults
<1>2. result \in [Worker -> Round!Agent!ResultValue \cup {NoResult}]
  BY DEF Round!Agent!TypeOK
<1> QED BY <1>1, <1>2

\* The submissions are those of the workers read.
LEMMA SubmissionsListed ==
  ASSUME Round!Agent!TypeOK, NEW W \in SUBSET Worker, NEW read \in Round!Readings(W)
  PROVE  /\ Round!SubmissionsOf(read) \in Seq(Submission)
         /\ LET subs == Round!SubmissionsOf(read) IN
              {subs[i] : i \in DOMAIN subs}
                = {[worker_id |-> w, result_hash |-> result[w]] : w \in read}
<1> DEFINE n == Cardinality(read)
           order == SetToSeq(read)
<1>1. IsFiniteSet(read) /\ read \in SUBSET Worker
  BY ReadHaveResults, LocalAssumption, FS_Subset DEF LocalAssumption
<1>2. /\ n \in Nat
      /\ order \in [1 .. n -> read]
      /\ \A x \in read : \E i \in 1 .. n : order[i] = x
  BY <1>1, Listed
<1>3. Round!SubmissionsOf(read)
        = [i \in 1 .. n |-> [worker_id |-> order[i], result_hash |-> result[order[i]]]]
  BY <1>2, SameListing DEF Round!SubmissionsOf
<1>4. \A w \in read : w \in Worker /\ result[w] \in Round!Agent!ResultValue
  BY <1>1, ReadTyped
<1> HIDE DEF n, order
<1>5. Round!SubmissionsOf(read) \in [1 .. n -> Submission]
  BY <1>2, <1>3, <1>4 DEF Submission
<1>6. Round!SubmissionsOf(read) \in Seq(Submission)
  BY <1>2, <1>5
<1>7. ASSUME NEW w \in read
      PROVE  \E i \in 1 .. n : Round!SubmissionsOf(read)[i] = [worker_id |-> w, result_hash |-> result[w]]
  BY <1>2, <1>3
<1>8. ASSUME NEW i \in 1 .. n
      PROVE  \E w \in read : Round!SubmissionsOf(read)[i] = [worker_id |-> w, result_hash |-> result[w]]
  BY <1>2, <1>3
<1>9. DOMAIN Round!SubmissionsOf(read) = 1 .. n
  BY <1>3
<1> QED BY <1>6, <1>7, <1>8, <1>9

\* A tally is one, whoever was asked and whatever was read.
LEMMA TallyTyped ==
  ASSUME Round!Agent!TypeOK, NEW id \in ProposalId, NEW W \in SUBSET Worker,
         NEW read \in Round!Readings(W), NEW config
  PROVE  Round!TallyOf(id, W, read, config) \in Round!Tally
<1> DEFINE yes == {w \in read : result[w].vote = "Approved"}
<1>1. IsFiniteSet(read) /\ read \in SUBSET Worker
  BY ReadHaveResults, LocalAssumption, FS_Subset DEF LocalAssumption
<1>2. /\ Cardinality(read) \in Nat /\ Cardinality(yes) \in Nat
      /\ Cardinality(yes) <= Cardinality(read)
  <2>1. yes \in SUBSET read
    OBVIOUS
  <2> HIDE DEF yes
  <2>2. IsFiniteSet(yes) /\ Cardinality(yes) <= Cardinality(read)
    BY <1>1, <2>1, FS_Subset
  <2> QED BY <1>1, <2>2, FS_CardinalityType
<1>3. Cardinality(read) - Cardinality(yes) \in Nat
  BY <1>2
<1>4. [w \in read |-> result[w]] \in UNION {[V -> Round!Agent!ResultValue] : V \in SUBSET Worker}
  <2>1. \A w \in read : result[w] \in Round!Agent!ResultValue
    BY ReadTyped
  <2>2. [w \in read |-> result[w]] \in [read -> Round!Agent!ResultValue]
    BY <2>1
  <2> QED BY <1>1, <2>2
<1> QED BY <1>2, <1>3, <1>4, SameCount
        DEF Round!TallyOf, Round!Tally, Round!Vote, Round!ProposalId, ProposalId

\* What is shown of a tally is fit for the chain.
LEMMA ShownTyped ==
  ASSUME NEW tally \in Round!Tally
  PROVE  Round!OnChainOf(tally) \in Round!OnChain /\ Round!OnChainOf(tally) # NoAnswer /\ tally # NoTally
BY LocalAssumption DEF LocalAssumption, Round!Tally, Round!OnChain, Round!OnChainOf

-----------------------------------------------------------------------------
(* The contract keeps its types *)

\* Every id given out has its proposal: nobody clears one during a round.
ContractTyped == Round!Contract!TypeOK /\ Started

\* The part of the contract the calls of a round touch.
LEMMA ContractTypes ==
  ContractTyped <=>
    /\ owner \in {Coordinator}
    /\ approved_codehashes \in SUBSET {Code}
    /\ coordinator_by_account_id \in [{Coordinator} -> {Code} \cup {NoCode}]
    /\ registered_workers \in [Worker -> Round!Contract!RegisteredWorker \cup {NoWorker}]
    /\ manifesto \in BOOLEAN
    /\ current_proposal_id \in 0 .. MaxProposals
    /\ proposals \in [ProposalId -> Round!Contract!Proposal \cup {NoProposal}]
    /\ yields \in [ProposalId -> {"none", "pending", "answered", "failed"}]
    /\ resumes \in SUBSET Round!Contract!Resume
    /\ Started
BY DEF ContractTyped, Round!Contract!TypeOK, Round!Contract!ProposalId, ProposalId

\* The same for the next state.
LEMMA ContractTypesNext ==
  ASSUME ContractTyped, UNCHANGED adminVars,
         current_proposal_id' \in 0 .. MaxProposals,
         proposals' \in [ProposalId -> Round!Contract!Proposal \cup {NoProposal}],
         yields' \in [ProposalId -> {"none", "pending", "answered", "failed"}],
         resumes' \in SUBSET Round!Contract!Resume,
         Started'
  PROVE  ContractTyped'
BY DEF ContractTyped, Round!Contract!TypeOK, Round!Contract!ProposalId, ProposalId, adminVars

\* A stored proposal has its type: Exists tells it from NoProposal.
LEMMA ProposalTyped ==
  ASSUME ContractTyped, NEW id \in ProposalId, Round!Contract!Exists(id)
  PROVE  proposals[id] \in Round!Contract!Proposal
BY ContractTypes DEF Round!Contract!Exists

\* Nothing happened to the contract.
LEMMA ContractStands ==
  ASSUME ContractTyped, UNCHANGED contractVars
  PROVE  ContractTyped'
BY DEF ContractTyped, Round!Contract!TypeOK, Started, Round!Contract!Exists, contractVars, adminVars

\* start_coordination stores a proposal under the next id, if there is one.
LEMMA StartTyped ==
  ASSUME ContractTyped, NEW c \in Config, NEW n \in 0 .. Round!Contract!U8 - 1,
         Round!Contract!start_coordination(c, n)
  PROVE  ContractTyped'
<1> DEFINE id == current_proposal_id + 1
           new == [state |-> "Created", config_hash |-> c, expected_worker_count |-> n,
                   worker_submissions |-> << >>, finalized_result |-> NoAnswer]
<1>1. /\ id \in ProposalId
      /\ current_proposal_id' = id
      /\ proposals' = [proposals EXCEPT ![id] = new]
      /\ yields' = [yields EXCEPT ![id] = "pending"]
      /\ UNCHANGED adminVars /\ UNCHANGED resumes
  BY DEF Round!Contract!start_coordination, Round!Contract!ProposalId, ProposalId, Round!Contract!adminVars,
         adminVars
<1>3. new \in Round!Contract!Proposal
  BY DEF Round!Contract!Proposal
<1>4. new # NoProposal
  BY <1>3, LocalAssumption DEF LocalAssumption
<1> HIDE DEF new
<1>5. proposals' \in [ProposalId -> Round!Contract!Proposal \cup {NoProposal}]
  BY <1>1, <1>3, ContractTypes
<1>6. yields' \in [ProposalId -> {"none", "pending", "answered", "failed"}]
  BY <1>1, ContractTypes
<1>7. current_proposal_id' \in 0 .. MaxProposals
  BY <1>1 DEF ProposalId
<1>8. Started'
  <2> SUFFICES ASSUME NEW q \in ProposalId, q <= id
               PROVE  proposals'[q] # NoProposal
    BY <1>1 DEF Started, Round!Contract!Exists
  <2>1. CASE q = id
    BY <1>1, <1>4, <2>1, ContractTypes
  <2>2. CASE q # id
    <3>1. q <= current_proposal_id
      BY <2>2, ContractTypes DEF ProposalId
    <3> QED BY <1>1, <2>2, <3>1, ContractTypes DEF Started, Round!Contract!Exists
  <2> QED BY <2>1, <2>2
<1> QED BY <1>1, <1>5, <1>6, <1>7, <1>8, ContractTypes, ContractTypesNext

\* A step that replaces one stored proposal by another leaves every id its own.
LEMMA ProposalReplaced ==
  ASSUME ContractTyped, NEW id \in ProposalId, Round!Contract!Exists(id),
         NEW p \in Round!Contract!Proposal,
         proposals' = [proposals EXCEPT ![id] = p],
         UNCHANGED <<adminVars, current_proposal_id>>,
         yields' \in [ProposalId -> {"none", "pending", "answered", "failed"}],
         resumes' \in SUBSET Round!Contract!Resume
  PROVE  ContractTyped'
<1>1. p # NoProposal
  BY LocalAssumption DEF LocalAssumption
<1>2. proposals' \in [ProposalId -> Round!Contract!Proposal \cup {NoProposal}]
  BY ContractTypes
<1>3. Started'
  BY <1>1, ContractTypes DEF Started, Round!Contract!Exists
<1> QED BY <1>2, <1>3, ContractTypes, ContractTypesNext

\* Submissions are added to those of a proposal, which moves on.
LEMMA RecordTyped ==
  ASSUME ContractTyped, NEW id \in ProposalId, NEW subs \in Seq(Submission),
         Round!Contract!record_worker_submissions(Coordinator, id, subs)
  PROVE  ContractTyped'
<1> DEFINE p == [proposals[id] EXCEPT !.worker_submissions = Round!Contract!Recorded(id, subs),
                                      !.state = "WorkersCompleted"]
<1>1. Round!Contract!Exists(id) /\ UNCHANGED <<adminVars, current_proposal_id, yields, resumes>>
  BY DEF Round!Contract!record_worker_submissions, Round!Contract!RecordAccepted, Round!Contract!InState,
         Round!Contract!adminVars, adminVars
<1>2. proposals[id] \in Round!Contract!Proposal
  BY <1>1, ProposalTyped
<1>3. Round!Contract!Recorded(id, subs) \in Seq(Submission)
  <2>1. proposals[id].worker_submissions \in Seq(Submission)
    BY <1>2 DEF Round!Contract!Proposal, Submission
  <2> QED BY <2>1, ConcatProperties DEF Round!Contract!Recorded
<1>4. p \in Round!Contract!Proposal
  BY <1>2, <1>3 DEF Round!Contract!Proposal, Submission
<1>5. proposals' = [proposals EXCEPT ![id] = p]
  <2>1. proposals' = [proposals EXCEPT ![id].worker_submissions = Round!Contract!Recorded(id, subs),
                                       ![id].state = "WorkersCompleted"]
    BY DEF Round!Contract!record_worker_submissions
  <2> QED BY <1>2, <2>1, ContractTypes DEF Round!Contract!Proposal
<1> HIDE DEF p
<1> QED BY <1>1, <1>4, <1>5, ProposalReplaced, ContractTypes

\* A result is sent on its way.
LEMMA ResumeTyped ==
  ASSUME ContractTyped, NEW id \in ProposalId, NEW value \in Round!OnChain, NEW config,
         Round!Contract!coordinator_resume(Coordinator, id, value, config)
  PROVE  ContractTyped'
<1>1. /\ UNCHANGED <<adminVars, current_proposal_id, proposals, yields>>
      /\ resumes' \subseteq resumes \cup {[id |-> id, value |-> value]}
  BY DEF Round!Contract!coordinator_resume, Round!Contract!PromiseYieldResume, Round!Contract!adminVars, adminVars
<1>2. [id |-> id, value |-> value] \in Round!Contract!Resume
  BY DEF Round!Contract!Resume, Round!Contract!ProposalId, ProposalId
<1>3. Started'
  BY <1>1 DEF ContractTyped, Started, Round!Contract!Exists
<1> QED BY <1>1, <1>2, <1>3, ContractTypes, ContractTypesNext

\* The network times out, or runs the callback.
LEMMA RuntimeTyped ==
  ASSUME ContractTyped, Round!Contract!Runtime
  PROVE  ContractTyped'
<1>1. ASSUME NEW id \in ProposalId, Round!Contract!YieldTimeout(id)
      PROVE  ContractTyped'
  <2>1. /\ resumes' = resumes \cup {[id |-> id, value |-> NoAnswer]}
        /\ UNCHANGED <<adminVars, current_proposal_id, proposals, yields>>
    BY <1>1 DEF Round!Contract!YieldTimeout, Round!Contract!adminVars, adminVars
  <2>2. [id |-> id, value |-> NoAnswer] \in Round!Contract!Resume
    BY DEF Round!Contract!Resume, Round!Contract!ProposalId, ProposalId
  <2>3. Started'
    BY <2>1 DEF ContractTyped, Started, Round!Contract!Exists
  <2> QED BY <2>1, <2>2, <2>3, ContractTypes, ContractTypesNext
<1>2. ASSUME NEW r \in resumes, Round!Contract!DeliverResume(r)
      PROVE  ContractTyped'
  <2> DEFINE id == r.id
  <2>1. /\ id \in ProposalId
        /\ r.value \in Round!OnChain \cup {NoAnswer}
    BY ContractTypes DEF Round!Contract!Resume, Round!Contract!ProposalId, ProposalId
  <2>2. /\ yields' = [yields EXCEPT ![id] = IF r.value = NoAnswer THEN "failed" ELSE "answered"]
        /\ resumes' = {q \in resumes : q.id # id}
        /\ Round!Contract!return_coordination_result(id, r)
        /\ UNCHANGED <<adminVars, current_proposal_id>>
    BY <1>2 DEF Round!Contract!DeliverResume, Round!Contract!adminVars, adminVars
  <2> HIDE DEF id
  <2>3. /\ yields' \in [ProposalId -> {"none", "pending", "answered", "failed"}]
        /\ resumes' \in SUBSET Round!Contract!Resume
    BY <2>1, <2>2, ContractTypes
  <2>4. CASE ~Round!Contract!Exists(id)
    <3>1. UNCHANGED proposals
      BY <2>2, <2>4 DEF Round!Contract!return_coordination_result
    <3>2. Started'
      BY <2>2, <3>1 DEF ContractTyped, Started, Round!Contract!Exists
    <3> QED BY <2>2, <2>3, <3>1, <3>2, ContractTypes, ContractTypesNext
  <2>5. CASE Round!Contract!Exists(id) /\ r.value = NoAnswer
    <3> DEFINE p == [proposals[id] EXCEPT !.state = "TimedOut"]
    <3>1. proposals[id] \in Round!Contract!Proposal
      BY <2>1, <2>5, ProposalTyped
    <3>2. p \in Round!Contract!Proposal
      BY <3>1 DEF Round!Contract!Proposal
    <3>3. proposals' = [proposals EXCEPT ![id] = p]
      <4>1. proposals' = [proposals EXCEPT ![id].state = "TimedOut"]
        BY <2>2, <2>5 DEF Round!Contract!return_coordination_result
      <4> QED BY <4>1, ContractTypes
    <3> HIDE DEF p
    <3> QED BY <2>1, <2>2, <2>3, <2>5, <3>2, <3>3, ProposalReplaced
  <2>6. CASE Round!Contract!Exists(id) /\ r.value # NoAnswer
    <3> DEFINE p == [proposals[id] EXCEPT !.state = "Finalized", !.finalized_result = r.value]
    <3>1. proposals[id] \in Round!Contract!Proposal
      BY <2>1, <2>6, ProposalTyped
    <3>2. p \in Round!Contract!Proposal
      BY <2>1, <3>1 DEF Round!Contract!Proposal
    <3>3. proposals' = [proposals EXCEPT ![id] = p]
      <4>1. proposals' = [proposals EXCEPT ![id].state = "Finalized",
                                           ![id].finalized_result = r.value]
        BY <2>2, <2>6 DEF Round!Contract!return_coordination_result
      <4> QED BY <3>1, <4>1, ContractTypes DEF Round!Contract!Proposal
    <3> HIDE DEF p
    <3> QED BY <2>1, <2>2, <2>3, <2>6, <3>2, <3>3, ProposalReplaced
  <2> QED BY <2>4, <2>5, <2>6
<1> QED BY <1>1, <1>2 DEF Round!Contract!Runtime, Round!Contract!ProposalId, ProposalId

-----------------------------------------------------------------------------
(* The workers keep their types *)

\* What the status key of a worker may say.
Status == {"idle", "pending", "processing", "completed", "failed"}

\* A handler of a worker, with the task it read.
Handler ==
  [pc : {"idle", "looking", "pending seen", "starting", "working", "voted"},
   config : Config \cup {NoConfig}, via : {"timer", "route"}]

\* The types of the workers; a handler at work has the task it votes on.
WorkersTyped == Round!Agent!TypeOK /\ HandlersHaveTask

\* The types of the workers, one variable at a time.
LEMMA WorkerTypes ==
  WorkersTyped <=>
    /\ task_definition \in Config \cup {NoConfig}
    /\ status \in [Worker -> Status]
    /\ result \in [Worker -> Round!Agent!ResultValue \cup {NoResult}]
    /\ slot \in [Worker -> [Slot -> Handler]]
    /\ isExecuting \in [Worker -> BOOLEAN]
    /\ restarts \in 0 .. MaxRestarts
    /\ HandlersHaveTask
BY DEF WorkersTyped, Round!Agent!TypeOK, Status, Handler

\* The same for the next state.
LEMMA WorkerTypesNext ==
  ASSUME task_definition' \in Config \cup {NoConfig},
         status' \in [Worker -> Status],
         result' \in [Worker -> Round!Agent!ResultValue \cup {NoResult}],
         slot' \in [Worker -> [Slot -> Handler]],
         isExecuting' \in [Worker -> BOOLEAN],
         restarts' \in 0 .. MaxRestarts,
         HandlersHaveTask'
  PROVE  WorkersTyped'
BY DEF WorkersTyped, Round!Agent!TypeOK, Status, Handler

\* Nothing happened to the workers.
LEMMA WorkersStand ==
  ASSUME WorkersTyped, UNCHANGED workerVars
  PROVE  WorkersTyped'
BY DEF WorkersTyped, Round!Agent!TypeOK, HandlersHaveTask, Round!Agent!Executing, workerVars

\* A status written, or lost.
LEMMA StatusTyped ==
  ASSUME WorkersTyped, NEW w \in Worker, NEW s \in Status, Round!Agent!WriteStatus(w, s)
  PROVE  /\ status' \in [Worker -> Status]
         /\ \A x \in Worker : status'[x] = status[x] \/ (x = w /\ status'[x] = s)
<1>1. PICK stored \in {status[w], s} : status' = [status EXCEPT ![w] = stored]
  BY DEF Round!Agent!WriteStatus, Round!Agent!Stored
<1> QED BY <1>1, WorkerTypes

\* The coordinator writes the task definition, or the status of a worker.
LEMMA AssignedTyped ==
  ASSUME WorkersTyped, UNCHANGED <<result, slot, isExecuting, restarts>>,
         \/ task_definition' \in Config \cup {NoConfig} /\ UNCHANGED status
         \/ UNCHANGED task_definition
            /\ \E w \in Worker, s \in Status : Round!Agent!WriteStatus(w, s)
  PROVE  WorkersTyped'
<1>1. HandlersHaveTask'
  BY DEF WorkersTyped, HandlersHaveTask, Round!Agent!Executing
<1>2. status' \in [Worker -> Status]
  BY StatusTyped, WorkerTypes
<1> QED BY <1>1, <1>2, WorkerTypes, WorkerTypesNext

\* One handler is replaced by another that has its task.
LEMMA HandlerTyped ==
  ASSUME WorkersTyped, NEW w \in Worker, NEW s \in Slot, NEW h \in Handler,
         slot' = [slot EXCEPT ![w][s] = h],
         h.pc \in {"starting", "working", "voted"} => h.config \in Config
  PROVE  /\ slot' \in [Worker -> [Slot -> Handler]]
         /\ slot'[w][s] = h
         /\ \A x \in Worker, r \in Slot : slot'[x][r] = slot[x][r] \/ (x = w /\ r = s)
         /\ HandlersHaveTask'
<1>1. /\ slot' \in [Worker -> [Slot -> Handler]]
      /\ slot'[w][s] = h
      /\ \A x \in Worker, r \in Slot : slot'[x][r] = slot[x][r] \/ (x = w /\ r = s)
  BY WorkerTypes
<1>2. HandlersHaveTask'
  <2> SUFFICES ASSUME NEW x \in Worker, NEW r \in Slot,
                      slot'[x][r].pc \in {"starting", "working", "voted"}
               PROVE  slot'[x][r].config \in Config
    BY DEF HandlersHaveTask, Round!Agent!Executing
  <2>1. CASE slot'[x][r] = slot[x][r]
    BY <2>1 DEF WorkersTyped, HandlersHaveTask, Round!Agent!Executing
  <2>2. CASE x = w /\ r = s
    BY <1>1, <2>2
  <2> QED BY <1>1, <2>1, <2>2
<1> QED BY <1>1, <1>2

\* A worker starts with idle handlers.
LEMMA IdleTyped == Round!Agent!Idle \in Handler /\ Round!Agent!Idle.pc = "idle"
BY DEF Round!Agent!Idle, Handler

\* A handler moves on with the task it has.
LEMMA MovedTyped ==
  ASSUME WorkersTyped, NEW w \in Worker, NEW s \in Slot,
         NEW pc \in {"idle", "looking", "pending seen", "working", "voted"},
         pc \in {"working", "voted"} => Round!Agent!Executing(w, s),
         Round!Agent!Goto(w, s, pc)
  PROVE  /\ slot' \in [Worker -> [Slot -> Handler]]
         /\ slot'[w][s].pc = pc
         /\ \A x \in Worker, r \in Slot : slot'[x][r] = slot[x][r] \/ (x = w /\ r = s)
         /\ HandlersHaveTask'
<1> DEFINE h == [slot[w][s] EXCEPT !.pc = pc]
<1>1. slot[w][s] \in Handler
  BY WorkerTypes
<1>2. h \in Handler /\ h.pc = pc /\ h.config = slot[w][s].config
  BY <1>1 DEF Handler
<1>3. h.pc \in {"starting", "working", "voted"} => h.config \in Config
  BY <1>2 DEF WorkersTyped, HandlersHaveTask
<1>4. slot' = [slot EXCEPT ![w][s] = h]
  BY WorkerTypes DEF Round!Agent!Goto
<1> HIDE DEF h
<1> QED BY <1>2, <1>3, <1>4, HandlerTyped

\* An execution that ends leaves an idle handler and touches no other.
LEMMA FinishedTyped ==
  ASSUME WorkersTyped, NEW w \in Worker, NEW s \in Slot, Round!Agent!Finish(w, s)
  PROVE  /\ slot' \in [Worker -> [Slot -> Handler]]
         /\ slot'[w][s] = Round!Agent!Idle
         /\ \A x \in Worker, r \in Slot : slot'[x][r] = slot[x][r] \/ (x = w /\ r = s)
         /\ HandlersHaveTask'
         /\ isExecuting' \in [Worker -> BOOLEAN]
<1>1. slot' = [slot EXCEPT ![w][s] = Round!Agent!Idle]
  BY DEF Round!Agent!Finish
<1>2. isExecuting' \in [Worker -> BOOLEAN]
  BY WorkerTypes DEF Round!Agent!Finish
<1> QED BY <1>1, <1>2, IdleTyped, HandlerTyped

\* Every step of a worker, initializeWorker included, keeps the types.
LEMMA WorkerStepTyped ==
  ASSUME WorkersTyped, NEW w \in Worker, Round!Agent!WorkerStep(w)
  PROVE  WorkersTyped'
<1>1. ASSUME NEW s \in Slot, Round!Agent!PollStatus(w, s)
      PROVE  WorkersTyped'
  <2>1. Round!Agent!Goto(w, s, "pending seen")
        /\ UNCHANGED <<task_definition, status, result, isExecuting, restarts>>
    BY <1>1 DEF Round!Agent!PollStatus
  <2> QED BY <2>1, MovedTyped, WorkerTypes, WorkerTypesNext
<1>2. ASSUME NEW s \in Slot, Round!Agent!ReadTask(w, s), task_definition = NoConfig
      PROVE  WorkersTyped'
  <2>1. slot' = [slot EXCEPT ![w][s] = Round!Agent!Idle]
        /\ UNCHANGED <<task_definition, status, result, isExecuting, restarts>>
    BY <1>2 DEF Round!Agent!ReadTask
  <2> QED BY <2>1, IdleTyped, HandlerTyped, WorkerTypes, WorkerTypesNext
<1>3. ASSUME NEW s \in Slot, Round!Agent!ReadTask(w, s), task_definition # NoConfig
      PROVE  WorkersTyped'
  <2> DEFINE h == [slot[w][s] EXCEPT !.pc = "starting", !.config = task_definition]
  <2>1. /\ slot \in [Worker -> [Slot -> Handler]] /\ slot[w][s] \in Handler
        /\ task_definition \in Config
    BY <1>3, WorkerTypes
  <2>2. h \in Handler /\ h.config \in Config
    BY <2>1 DEF Handler
  <2>3. /\ slot' = [slot EXCEPT ![w][s].pc = "starting", ![w][s].config = task_definition]
        /\ isExecuting' = [isExecuting EXCEPT ![w] = TRUE]
        /\ UNCHANGED <<task_definition, status, result, restarts>>
    BY <1>3 DEF Round!Agent!ReadTask
  <2>4. slot' = [slot EXCEPT ![w][s] = h]
    BY <2>1, <2>3 DEF Handler
  <2> HIDE DEF h
  <2>5. isExecuting' \in [Worker -> BOOLEAN]
    BY <2>3, WorkerTypes
  <2>6. slot' \in [Worker -> [Slot -> Handler]] /\ HandlersHaveTask'
    BY <2>2, <2>4, HandlerTyped
  <2> QED BY <2>3, <2>5, <2>6, WorkerTypes, WorkerTypesNext
<1>4. ASSUME NEW s \in Slot, Round!Agent!StartProcessing(w, s)
      PROVE  WorkersTyped'
  <2>1. /\ Round!Agent!Goto(w, s, "working") /\ Round!Agent!Executing(w, s)
        /\ Round!Agent!WriteStatus(w, "processing")
        /\ UNCHANGED <<task_definition, result, isExecuting, restarts>>
    BY <1>4 DEF Round!Agent!StartProcessing, Round!Agent!Executing
  <2>2. status' \in [Worker -> Status]
    BY <2>1, StatusTyped DEF Status
  <2> QED BY <2>1, <2>2, MovedTyped, WorkerTypes, WorkerTypesNext
<1>5. ASSUME NEW s \in Slot, NEW v \in Round!Vote, Round!Agent!WriteVote(w, s, v)
      PROVE  WorkersTyped'
  <2> DEFINE r == [config |-> slot[w][s].config, vote |-> v]
  <2>1. /\ Round!Agent!Goto(w, s, "voted") /\ Round!Agent!Executing(w, s)
        /\ Round!Agent!WriteResult(w, r)
        /\ UNCHANGED <<task_definition, status, isExecuting, restarts>>
    BY <1>5 DEF Round!Agent!WriteVote, Round!Agent!Executing
  <2>2. r \in Round!Agent!ResultValue
    BY <2>1 DEF WorkersTyped, HandlersHaveTask, Round!Agent!ResultValue
  <2> HIDE DEF r
  <2>3. PICK stored \in {result[w], r} : result' = [result EXCEPT ![w] = stored]
    BY <2>1 DEF Round!Agent!WriteResult, Round!Agent!Stored
  <2>4. result' \in [Worker -> Round!Agent!ResultValue \cup {NoResult}]
    BY <2>2, <2>3, WorkerTypes
  <2> QED BY <2>1, <2>4, MovedTyped, WorkerTypes, WorkerTypesNext
<1>6. ASSUME NEW s \in Slot, Round!Agent!Complete(w, s) \/ Round!Agent!Fail(w, s)
      PROVE  WorkersTyped'
  <2>1. PICK outcome \in Status : Round!Agent!WriteStatus(w, outcome)
    BY <1>6 DEF Round!Agent!Complete, Round!Agent!Fail, Status
  <2>2. Round!Agent!Finish(w, s) /\ UNCHANGED <<task_definition, result, restarts>>
    BY <1>6 DEF Round!Agent!Complete, Round!Agent!Fail
  <2>3. status' \in [Worker -> Status]
    BY <2>1, StatusTyped
  <2> QED BY <2>2, <2>3, FinishedTyped, WorkerTypes, WorkerTypesNext
<1>7. CASE Round!Agent!initializeWorker(w)
  <2>1. /\ slot' = [slot EXCEPT ![w] = [s \in Slot |-> Round!Agent!Idle]]
        /\ isExecuting' = [isExecuting EXCEPT ![w] = FALSE]
        /\ Round!Agent!WriteStatus(w, "idle")
        /\ restarts < MaxRestarts /\ restarts' = restarts + 1
        /\ UNCHANGED <<task_definition, result>>
    BY <1>7 DEF Round!Agent!initializeWorker
  <2>2. slot' \in [Worker -> [Slot -> Handler]] /\ isExecuting' \in [Worker -> BOOLEAN]
    BY <2>1, IdleTyped, WorkerTypes
  <2>3. HandlersHaveTask'
    <3> SUFFICES ASSUME NEW x \in Worker, NEW s \in Slot,
                        slot'[x][s].pc \in {"starting", "working", "voted"}
                 PROVE  slot'[x][s].config \in Config
      BY DEF HandlersHaveTask, Round!Agent!Executing
    <3>1. slot'[x][s] = slot[x][s]
      BY <2>1, IdleTyped, WorkerTypes
    <3> QED BY <3>1 DEF WorkersTyped, HandlersHaveTask, Round!Agent!Executing
  <2>4. status' \in [Worker -> Status]
    BY <2>1, StatusTyped DEF Status
  <2>5. restarts' \in 0 .. MaxRestarts
    BY <2>1, WorkerTypes, LocalAssumption DEF LocalAssumption
  <2> QED BY <2>1, <2>2, <2>3, <2>4, <2>5, WorkerTypes, WorkerTypesNext
<1>8. ASSUME NEW s \in Slot, Round!Agent!LookAtFlag(w, s)
      PROVE  WorkersTyped'
  <2>1. Round!Agent!Goto(w, s, "looking")
        /\ UNCHANGED <<task_definition, status, result, isExecuting, restarts>>
    BY <1>8 DEF Round!Agent!LookAtFlag
  <2> QED BY <2>1, MovedTyped, WorkerTypes, WorkerTypesNext
<1>9. ASSUME NEW s \in Slot, Round!Agent!ReadStatus(w, s)
      PROVE  WorkersTyped'
  <2>1. PICK pc \in {"idle", "pending seen"} :
          Round!Agent!Goto(w, s, pc)
            /\ UNCHANGED <<task_definition, status, result, isExecuting, restarts>>
    BY <1>9, Zenon DEF Round!Agent!ReadStatus
  <2> QED BY <2>1, MovedTyped, WorkerTypes, WorkerTypesNext
<1> QED BY <1>1, <1>2, <1>3, <1>4, <1>5, <1>6, <1>7, <1>8, <1>9
        DEF Round!Agent!WorkerStep, Round!Agent!Proceed, Round!Vote

-----------------------------------------------------------------------------
(* Runs keep their types *)

\* A task sent to the route of a worker, whatever the worker is doing.
LEMMA ExecuteTyped ==
  ASSUME WorkersTyped, NEW w \in Worker, NEW s \in Slot, NEW c \in Config,
         Round!Agent!execute(w, s, c)
  PROVE  WorkersTyped'
<1> DEFINE h == [pc |-> "starting", config |-> c, via |-> "route"]
<1>1. h \in Handler /\ h.config \in Config
  BY DEF Handler
<1>2. /\ slot' = [slot EXCEPT ![w][s] = h]
      /\ UNCHANGED <<task_definition, status, result, isExecuting, restarts>>
  BY DEF Round!Agent!execute
<1> HIDE DEF h
<1>3. slot' \in [Worker -> [Slot -> Handler]] /\ HandlersHaveTask'
  BY <1>1, <1>2, HandlerTyped
<1> QED BY <1>2, <1>3, WorkerTypes, WorkerTypesNext

\* A vote stored for a polling worker is a vote on the task there is.
LEMMA PollVoteTyped ==
  ASSUME WorkersTyped, NEW w \in Worker, PollVote(w)
  PROVE  WorkersTyped'
<1>1. PICK v \in Round!Vote :
        Round!Agent!WriteResult(w, [config |-> task_definition, vote |-> v])
  BY DEF PollVote
<1> DEFINE r == [config |-> task_definition, vote |-> v]
<1>2. r \in Round!Agent!ResultValue
  BY WorkerTypes DEF PollVote, Round!Agent!ResultValue
<1>3. Round!Agent!WriteResult(w, r)
        /\ UNCHANGED <<task_definition, status, slot, isExecuting, restarts>>
  BY <1>1 DEF PollVote
<1> HIDE DEF r
<1>4. PICK stored \in {result[w], r} : result' = [result EXCEPT ![w] = stored]
  BY <1>3 DEF Round!Agent!WriteResult, Round!Agent!Stored
<1>5. result' \in [Worker -> Round!Agent!ResultValue \cup {NoResult}]
  BY <1>2, <1>4, WorkerTypes
<1>6. HandlersHaveTask'
  BY <1>3 DEF WorkersTyped, HandlersHaveTask, Round!Agent!Executing
<1> QED BY <1>3, <1>5, <1>6, WorkerTypes, WorkerTypesNext

\* Where a run has its tally.
Counted == {"archiving", "resuming", "resumed"}

\* The local variables of a run, and its start call.
RunTyped(r) ==
  /\ run[r].pc \in RunPC
  /\ run[r].pc # "idle" => run[r].config \in Config
  /\ run[r].workers \in SUBSET Worker
  /\ run[r].todo \in SUBSET Worker
  /\ run[r].dropped \in SUBSET Worker
  /\ run[r].before \in 0 .. MaxProposals
  /\ run[r].id \in 0 .. MaxProposals
  /\ run[r].submissions \in Seq(Submission)
  /\ run[r].pc \in {"snapshot", "reading", "recording", "resuming", "resumed"} => run[r].id # 0
  /\ run[r].pc \in Counted =>
       /\ run[r].tally.proposalId = run[r].id
       /\ run[r].id # 0 => run[r].tally \in Round!Tally
  /\ startTx[r] \in 0 .. Cardinality(Worker)
  /\ startTx[r] # 0 => run[r].pc # "idle"

\* The local variables of all runs.
RunsTyped == \A r \in Run : RunTyped(r)

\* The keys of the memory the coordinator writes.
BoardTyped ==
  /\ snapshot \in [ProposalId -> SUBSET Worker]
  /\ archive \in [ProposalId -> Round!Tally \cup {NoTally}]

\* What a step of one run has to show for the types of all.
LEMMA OneRunTyped ==
  ASSUME RunsTyped, NEW r \in Run,
         \A q \in Run : q # r => run'[q] = run[q] /\ startTx'[q] = startTx[q],
         RunTyped(r)'
  PROVE  RunsTyped'
<1> SUFFICES ASSUME NEW q \in Run
             PROVE  RunTyped(q)'
  BY DEF RunsTyped
<1>1. CASE q # r
  BY <1>1 DEF RunsTyped, RunTyped
<1> QED BY <1>1

\* A run that only moves, with its tally if it has one.
LEMMA GotoRun ==
  ASSUME RunsTyped, Shapes, NEW r \in Run, NEW pc \in RunPC \ {"idle"}, Goto(r, pc),
         run[r].pc # "idle", UNCHANGED startTx,
         pc \in {"snapshot", "reading", "recording", "resuming", "resumed"} => run[r].id # 0,
         pc \in Counted => run[r].pc \in Counted
  PROVE  RunsTyped'
<1>1. /\ run'[r].pc = pc /\ run'[r].config = run[r].config
      /\ run'[r].workers = run[r].workers /\ run'[r].todo = run[r].todo
      /\ run'[r].dropped = run[r].dropped /\ run'[r].before = run[r].before
      /\ run'[r].id = run[r].id /\ run'[r].submissions = run[r].submissions
      /\ run'[r].tally = run[r].tally
      /\ \A q \in Run : q # r => run'[q] = run[q]
  BY DEF Goto, Shapes, Function, IdleRun
<1>2. RunTyped(r)'
  BY <1>1 DEF RunsTyped, RunTyped
<1> QED BY <1>1, <1>2, OneRunTyped

\* A run that ends, whatever it had found out.
LEMMA EndRun ==
  ASSUME RunsTyped, NEW r \in Run, NEW how \in {"returned", "lost"},
         run'[r] = End(r, how), run[r].pc # "idle", UNCHANGED startTx
  PROVE  RunTyped(r)'
<1>1. /\ run'[r].pc = how /\ run'[r].config = run[r].config
      /\ run'[r].workers = {} /\ run'[r].todo = {} /\ run'[r].dropped = {}
      /\ run'[r].before = 0 /\ run'[r].id = 0 /\ run'[r].submissions = << >>
  BY DEF End, IdleRun
<1>2. how \in RunPC \ {"idle", "snapshot", "reading", "recording", "resuming", "resumed"}
      /\ how \notin Counted
  BY DEF RunPC, Counted
<1>3. 0 \in 0 .. MaxProposals
  BY LocalAssumption DEF LocalAssumption
<1>4. run'[r].submissions \in Seq(Submission)
  BY <1>1
<1> QED BY <1>1, <1>2, <1>3, <1>4 DEF RunsTyped, RunTyped

\* A run that returns forgets its local variables.
LEMMA ReturnRun ==
  ASSUME RunsTyped, Shapes, NEW r \in Run, NEW tally, Return(r, tally),
         run[r].pc # "idle", UNCHANGED startTx
  PROVE  RunsTyped'
<1>1. run'[r] = End(r, "returned") /\ \A q \in Run : q # r => run'[q] = run[q]
  BY DEF Return, Shapes
<1> QED BY <1>1, EndRun, OneRunTyped

\* The steps of a run before it has a proposal.
LEMMA DispatchTyped ==
  ASSUME RunsTyped, Shapes, WorkersTyped, NEW r \in Run,
         \/ getActiveWorkers(r) \/ PublishTask(r)
         \/ \E w \in Worker : ResetStatus(r, w) \/ Dispatch(r, w) \/ MarkUnreachable(r, w)
  PROVE  RunsTyped' /\ WorkersTyped'
<1>0. RunTyped(r)
  BY DEF RunsTyped
<1>1. CASE getActiveWorkers(r)
  <2>1. /\ run[r].pc = "discovering" /\ UNCHANGED startTx /\ UNCHANGED workerVars
    BY <1>1 DEF getActiveWorkers, At, startVars
  <2>2. PICK W \in Found :
          IF Cardinality(W) < MinWorkers THEN Return(r, NoTally)
          ELSE run' = [run EXCEPT ![r].pc = "publishing", ![r].workers = W, ![r].todo = W]
    BY <1>1 DEF getActiveWorkers
  <2>3. CASE Return(r, NoTally)
    BY <2>1, <2>3, ReturnRun, WorkersStand
  <2>4. CASE run' = [run EXCEPT ![r].pc = "publishing", ![r].workers = W, ![r].todo = W]
    <3>1. W \in SUBSET Worker
      BY LocalAssumption DEF LocalAssumption
    <3>2. /\ run'[r].pc = "publishing" /\ run'[r].config = run[r].config
          /\ run'[r].workers = W /\ run'[r].todo = W
          /\ run'[r].dropped = run[r].dropped /\ run'[r].before = run[r].before
          /\ run'[r].id = run[r].id /\ run'[r].submissions = run[r].submissions
          /\ \A q \in Run : q # r => run'[q] = run[q]
      BY <2>4 DEF Shapes, Function, IdleRun
    <3>3. RunTyped(r)'
      BY <1>0, <2>1, <3>1, <3>2 DEF RunTyped, RunPC, Counted
    <3> QED BY <2>1, <3>2, <3>3, OneRunTyped, WorkersStand
  <2> QED BY <2>2, <2>3, <2>4
<1>2. CASE PublishTask(r)
  <2>1. /\ run[r].pc = "publishing" /\ Goto(r, "resetting") /\ UNCHANGED startTx
        /\ task_definition' = run[r].config
        /\ UNCHANGED <<status, result, slot, isExecuting, restarts>>
    BY <1>2 DEF PublishTask, At, startVars
  <2>2. task_definition' \in Config
    BY <1>0, <2>1 DEF RunTyped
  <2>3. "resetting" \in RunPC \ {"idle"} /\ "resetting" \notin Counted
    BY DEF RunPC, Counted
  <2>4. RunsTyped'
    BY <2>1, <2>3, GotoRun
  <2> QED BY <2>1, <2>2, <2>4, AssignedTyped
<1>3. ASSUME NEW w \in Worker, ResetStatus(r, w)
      PROVE  RunsTyped' /\ WorkersTyped'
  <2>1. /\ run[r].pc = "resetting" /\ UNCHANGED startTx
        /\ Round!Agent!WriteStatus(w, "pending")
        /\ UNCHANGED <<task_definition, result, slot, isExecuting, restarts>>
    BY <1>3 DEF ResetStatus, At, startVars
  <2>2. PICK pc \in {"dispatching", "resetting"}, todo \in SUBSET Worker :
          run' = [run EXCEPT ![r].pc = pc, ![r].todo = todo]
    <3> DEFINE left == run[r].todo \ {w}
    <3>1. left \in SUBSET Worker /\ run[r].workers \ Keyless \in SUBSET Worker
      BY <1>0 DEF RunTyped
    <3>2. run' = [run EXCEPT ![r].pc = IF left = {} THEN "dispatching" ELSE @,
                        ![r].todo = IF left = {} THEN run[r].workers \ Keyless ELSE left]
      BY <1>3 DEF ResetStatus
    <3> HIDE DEF left
    <3>3. CASE left = {}
      BY <3>1, <3>2, <3>3
    <3>4. CASE left # {}
      <4>1. run' = [run EXCEPT ![r].pc = "resetting", ![r].todo = left]
        BY <2>1, <3>2, <3>4
      <4> QED BY <3>1, <4>1
    <3> QED BY <3>3, <3>4
  <2>3. /\ run'[r].pc = pc /\ run'[r].config = run[r].config
        /\ run'[r].workers = run[r].workers /\ run'[r].todo = todo
        /\ run'[r].dropped = run[r].dropped /\ run'[r].before = run[r].before
        /\ run'[r].id = run[r].id /\ run'[r].submissions = run[r].submissions
        /\ \A q \in Run : q # r => run'[q] = run[q]
    BY <2>2 DEF Shapes, Function, IdleRun
  <2>4. RunTyped(r)'
    BY <1>0, <2>1, <2>2, <2>3 DEF RunTyped, RunPC, Counted
  <2>5. "pending" \in Status
    BY DEF Status
  <2> QED BY <2>1, <2>3, <2>4, <2>5, OneRunTyped, AssignedTyped
<1>4. ASSUME NEW w \in Worker, Dispatch(r, w)
      PROVE  RunsTyped' /\ WorkersTyped'
  <2>1. run[r].pc = "dispatching" /\ UNCHANGED startTx
    BY <1>4 DEF Dispatch, At, startVars
  <2>2. PICK todo \in SUBSET Worker, dropped \in SUBSET Worker :
          run' = [run EXCEPT ![r].todo = todo, ![r].dropped = dropped]
    <3>1. CASE run' = [run EXCEPT ![r].todo = @ \ {w}]
      <4>1. run' = [run EXCEPT ![r].todo = run[r].todo \ {w}, ![r].dropped = run[r].dropped]
        BY <3>1 DEF Shapes, Function, IdleRun
      <4> QED BY <1>0, <4>1 DEF RunTyped
    <3>2. CASE run' = [run EXCEPT ![r].todo = @ \ {w}, ![r].dropped = @ \cup {w}]
      <4>1. run[r].todo \ {w} \in SUBSET Worker /\ run[r].dropped \cup {w} \in SUBSET Worker
        BY <1>0 DEF RunTyped
      <4> QED BY <3>2, <4>1
    <3> QED BY <1>4, <3>1, <3>2 DEF Dispatch
  <2>3. /\ run'[r].pc = run[r].pc /\ run'[r].config = run[r].config
        /\ run'[r].workers = run[r].workers /\ run'[r].todo = todo
        /\ run'[r].dropped = dropped /\ run'[r].before = run[r].before
        /\ run'[r].id = run[r].id /\ run'[r].submissions = run[r].submissions
        /\ \A q \in Run : q # r => run'[q] = run[q]
    BY <2>2 DEF Shapes, Function, IdleRun
  <2>4. RunTyped(r)'
    BY <1>0, <2>1, <2>2, <2>3 DEF RunTyped, RunPC, Counted
  <2>5. WorkersTyped'
    <3>1. \/ \E s \in Slot : Round!Agent!execute(w, s, run[r].config)
          \/ UNCHANGED workerVars
      BY <1>4 DEF Dispatch
    <3>2. run[r].config \in Config
      BY <1>0, <2>1 DEF RunTyped
    <3> QED BY <3>1, <3>2, ExecuteTyped, WorkersStand
  <2> QED BY <2>1, <2>3, <2>4, <2>5, OneRunTyped
<1>5. ASSUME NEW w \in Worker, MarkUnreachable(r, w)
      PROVE  RunsTyped' /\ WorkersTyped'
  <2>1. /\ run[r].pc = "dispatching" /\ UNCHANGED startTx
        /\ Round!Agent!WriteStatus(w, "idle")
        /\ UNCHANGED <<task_definition, result, slot, isExecuting, restarts>>
        /\ run' = [run EXCEPT ![r].dropped = @ \ {w}, ![r].workers = @ \ {w}]
    BY <1>5 DEF MarkUnreachable, At, startVars
  <2>2. /\ run'[r].pc = run[r].pc /\ run'[r].config = run[r].config
        /\ run'[r].workers = run[r].workers \ {w} /\ run'[r].todo = run[r].todo
        /\ run'[r].dropped = run[r].dropped \ {w} /\ run'[r].before = run[r].before
        /\ run'[r].id = run[r].id /\ run'[r].submissions = run[r].submissions
        /\ \A q \in Run : q # r => run'[q] = run[q]
    BY <2>1 DEF Shapes, Function, IdleRun
  <2>3. RunTyped(r)'
    BY <1>0, <2>1, <2>2 DEF RunTyped, RunPC, Counted
  <2>4. "idle" \in Status
    BY DEF Status
  <2> QED BY <2>1, <2>2, <2>3, <2>4, OneRunTyped, AssignedTyped
<1> QED BY <1>1, <1>2, <1>3, <1>4, <1>5

-----------------------------------------------------------------------------
(* Types: the chain, the results and the end *)

\* The start call asks for the workers dispatched to; the id detected is one.
LEMMA DetectTyped ==
  ASSUME RunsTyped, Shapes, ContractTyped, BoardTyped, NEW r \in Run,
         \/ localStartCoordination(r) \/ DetectProposal(r) \/ DetectTimeout(r)
         \/ TakeSnapshot(r)
  PROVE  RunsTyped' /\ BoardTyped'
<1>0. RunTyped(r) /\ current_proposal_id \in 0 .. MaxProposals
  BY ContractTypes DEF RunsTyped
<1>1. CASE localStartCoordination(r)
  <2>1. run[r].pc = "dispatching" /\ UNCHANGED boardVars
    BY <1>1 DEF localStartCoordination, At
  <2>2. CASE Return(r, NoTally) /\ UNCHANGED startTx
    BY <2>1, <2>2, ReturnRun DEF boardVars, BoardTyped
  <2>3. CASE /\ \E seen \in View(current_proposal_id, 0) :
                  run' = [run EXCEPT ![r].pc = "detecting", ![r].before = seen]
             /\ startTx' = [startTx EXCEPT ![r] = Cardinality(run[r].workers)]
    <3>1. PICK seen \in View(current_proposal_id, 0) :
            run' = [run EXCEPT ![r].pc = "detecting", ![r].before = seen]
      BY <2>3
    <3>a. seen \in 0 .. MaxProposals
      <4>1. MaxProposals \in Nat
        BY LocalAssumption DEF LocalAssumption
      <4> QED BY <1>0, <4>1 DEF View
    <3>2. Cardinality(run[r].workers) \in 0 .. Cardinality(Worker)
      <4>1. run[r].workers \in SUBSET Worker /\ IsFiniteSet(Worker)
        BY <1>0, LocalAssumption DEF RunTyped, LocalAssumption
      <4>2. /\ IsFiniteSet(run[r].workers)
            /\ Cardinality(run[r].workers) <= Cardinality(Worker)
        BY <4>1, FS_Subset
      <4> QED BY <4>1, <4>2, FS_CardinalityType
    <3>3. /\ startTx'[r] = Cardinality(run[r].workers)
          /\ \A q \in Run : q # r => startTx'[q] = startTx[q]
      BY <2>3 DEF Shapes
    <3>4. /\ run'[r].pc = "detecting" /\ run'[r].config = run[r].config
          /\ run'[r].workers = run[r].workers /\ run'[r].todo = run[r].todo
          /\ run'[r].dropped = run[r].dropped /\ run'[r].before = seen
          /\ run'[r].id = run[r].id /\ run'[r].submissions = run[r].submissions
          /\ \A q \in Run : q # r => run'[q] = run[q]
      BY <3>1 DEF Shapes, Function, IdleRun
    <3>5. RunTyped(r)'
      BY <1>0, <2>1, <3>a, <3>2, <3>3, <3>4 DEF RunTyped, RunPC, Counted
    <3> QED BY <2>1, <3>3, <3>4, <3>5, OneRunTyped DEF boardVars, BoardTyped
  <2> QED BY <1>1, <2>2, <2>3 DEF localStartCoordination
<1>2. CASE DetectProposal(r)
  <2>1. run[r].pc = "detecting" /\ UNCHANGED <<boardVars, startTx>>
    BY <1>2 DEF DetectProposal, At, startVars
  <2>2. PICK seen \in View(current_proposal_id, 0) :
          /\ seen > run[r].before
          /\ run' = [run EXCEPT ![r].pc = "snapshot", ![r].id = seen]
    BY <1>2 DEF DetectProposal, Take
  <2>3. seen \in 0 .. MaxProposals /\ seen # 0
    BY <1>0, <2>2, LocalAssumption DEF View, RunTyped, LocalAssumption
  <2>4. /\ run'[r].pc = "snapshot" /\ run'[r].config = run[r].config
        /\ run'[r].workers = run[r].workers /\ run'[r].todo = run[r].todo
        /\ run'[r].dropped = run[r].dropped /\ run'[r].before = run[r].before
        /\ run'[r].id = seen /\ run'[r].submissions = run[r].submissions
        /\ \A q \in Run : q # r => run'[q] = run[q]
    BY <2>2 DEF Shapes, Function, IdleRun
  <2>5. RunTyped(r)'
    BY <1>0, <2>1, <2>3, <2>4 DEF RunTyped, RunPC, Counted
  <2> QED BY <2>1, <2>4, <2>5, OneRunTyped DEF boardVars, BoardTyped
<1>3. CASE DetectTimeout(r)
  <2>1. /\ run[r].pc = "detecting" /\ Goto(r, "waiting") /\ UNCHANGED <<boardVars, startTx>>
        /\ "waiting" \in RunPC \ {"idle"} /\ "waiting" \notin Counted
    BY <1>3 DEF DetectTimeout, At, startVars, RunPC, Counted
  <2> QED BY <2>1, GotoRun DEF boardVars, BoardTyped
<1>4. CASE TakeSnapshot(r)
  <2>1. /\ run[r].pc = "snapshot" /\ Goto(r, "waiting") /\ UNCHANGED <<archive, startTx>>
        /\ snapshot' = [snapshot EXCEPT ![run[r].id] = run[r].workers]
        /\ "waiting" \in RunPC \ {"idle"} /\ "waiting" \notin Counted
    BY <1>4 DEF TakeSnapshot, At, startVars, RunPC, Counted
  <2>2. snapshot' \in [ProposalId -> SUBSET Worker]
    BY <1>0, <2>1 DEF RunTyped, BoardTyped
  <2> QED BY <2>1, <2>2, GotoRun DEF BoardTyped
<1> QED BY <1>1, <1>2, <1>3, <1>4

\* The wait, the reading and the counting.
LEMMA ResultsTyped ==
  ASSUME RunsTyped, Shapes, WorkersTyped, BoardTyped, NEW r \in Run,
         AllDone(r) \/ WaitTimeout(r) \/ ReadResults(r) \/ aggregateResults(r)
  PROVE  RunsTyped' /\ BoardTyped'
<1>0. /\ RunTyped(r) /\ Round!Agent!TypeOK
      /\ UNCHANGED <<boardVars, startTx>>
  BY DEF RunsTyped, WorkersTyped, AllDone, WaitTimeout, ReadResults, aggregateResults, startVars
<1>1. BoardTyped'
  BY <1>0 DEF boardVars, BoardTyped
<1>2. CASE AllDone(r)
  <2>1. /\ run[r].pc = "waiting"
        /\ Goto(r, IF run[r].id = 0 THEN "aggregating" ELSE "reading")
        /\ {"aggregating", "reading"} \subseteq RunPC \ {"idle"}
        /\ "aggregating" \notin Counted /\ "reading" \notin Counted
    BY <1>2 DEF AllDone, At, RunPC, Counted
  <2>2. CASE run[r].id = 0
    BY <1>0, <1>1, <2>1, <2>2, GotoRun
  <2>3. CASE run[r].id # 0
    BY <1>0, <1>1, <2>1, <2>3, GotoRun
  <2> QED BY <2>2, <2>3
<1>3. CASE WaitTimeout(r)
  BY <1>0, <1>1, <1>3, ReturnRun DEF WaitTimeout, At
<1>4. CASE ReadResults(r)
  <2>1. PICK read \in Round!Readings(run[r].workers) :
          run' = [run EXCEPT ![r].pc = "recording", ![r].submissions = Round!SubmissionsOf(read)]
    BY <1>4 DEF ReadResults
  <2>2. run[r].pc = "reading" /\ run[r].workers \in SUBSET Worker
    BY <1>0, <1>4 DEF ReadResults, At, RunTyped
  <2>3. Round!SubmissionsOf(read) \in Seq(Submission)
    BY <1>0, <2>2, SubmissionsListed
  <2>4. /\ run'[r].pc = "recording" /\ run'[r].config = run[r].config
        /\ run'[r].workers = run[r].workers /\ run'[r].todo = run[r].todo
        /\ run'[r].dropped = run[r].dropped /\ run'[r].before = run[r].before
        /\ run'[r].id = run[r].id /\ run'[r].submissions = Round!SubmissionsOf(read)
        /\ \A q \in Run : q # r => run'[q] = run[q]
    BY <2>1 DEF Shapes, Function, IdleRun
  <2>5. RunTyped(r)'
    BY <1>0, <2>2, <2>3, <2>4 DEF RunTyped, RunPC, Counted
  <2> QED BY <1>0, <1>1, <2>4, <2>5, OneRunTyped
<1>5. CASE aggregateResults(r)
  <2> DEFINE id == run[r].id
             stored == IF id = 0 THEN {} ELSE snapshot[id]
             Asked == IF stored = {} THEN Found ELSE {stored}
  <2>1. PICK W \in Asked : \E read \in Round!Readings(W) :
          run' = [run EXCEPT ![r].pc = "archiving",
                             ![r].tally = Round!TallyOf(id, W, read, task_definition)]
    BY <1>5 DEF aggregateResults
  <2>2. PICK read \in Round!Readings(W) :
          run' = [run EXCEPT ![r].pc = "archiving",
                             ![r].tally = Round!TallyOf(id, W, read, task_definition)]
    BY <2>1
  <2>3. run[r].pc = "aggregating" /\ id \in 0 .. MaxProposals
    BY <1>0, <1>5 DEF aggregateResults, At, RunTyped
  <2>4. W \in SUBSET Worker
    BY <2>3, LocalAssumption DEF LocalAssumption, BoardTyped, ProposalId
  <2> DEFINE tally == Round!TallyOf(id, W, read, task_definition)
  <2>5. tally.proposalId = id
    BY DEF Round!TallyOf
  <2>6. id # 0 => tally \in Round!Tally
    BY <1>0, <2>3, <2>4, TallyTyped DEF ProposalId
  <2>7. run' = [run EXCEPT ![r].pc = "archiving", ![r].tally = tally]
    BY <2>2
  <2> HIDE DEF tally
  <2>8. /\ run'[r].pc = "archiving" /\ run'[r].config = run[r].config
        /\ run'[r].workers = run[r].workers /\ run'[r].todo = run[r].todo
        /\ run'[r].dropped = run[r].dropped /\ run'[r].before = run[r].before
        /\ run'[r].id = run[r].id /\ run'[r].submissions = run[r].submissions
        /\ run'[r].tally = tally
        /\ \A q \in Run : q # r => run'[q] = run[q]
    BY <2>7 DEF Shapes, Function, IdleRun
  <2>9. RunTyped(r)'
    BY <1>0, <2>3, <2>5, <2>6, <2>8 DEF RunTyped, RunPC, Counted
  <2> QED BY <1>0, <1>1, <2>8, <2>9, OneRunTyped
<1> QED BY <1>2, <1>3, <1>4, <1>5

\* The calls on the contract, the archiving and the return.
LEMMA SettleTyped ==
  ASSUME RunsTyped, Shapes, ContractTyped, BoardTyped, NEW r \in Run,
         \/ localRecordWorkerSubmissions(r) \/ archiveProposal(r)
         \/ localCoordinatorResume(r) \/ Complete(r)
  PROVE  RunsTyped' /\ ContractTyped' /\ BoardTyped'
<1>0. RunTyped(r)
  BY DEF RunsTyped
<1>1. CASE localRecordWorkerSubmissions(r)
  <2>1. /\ run[r].pc = "recording" /\ Goto(r, "aggregating") /\ UNCHANGED <<boardVars, startTx>>
        /\ "aggregating" \in RunPC \ {"idle"} /\ "aggregating" \notin Counted
    BY <1>1 DEF localRecordWorkerSubmissions, At, startVars, RunPC, Counted
  <2>2. run[r].id \in ProposalId /\ run[r].submissions \in Seq(Submission)
    BY <1>0, <2>1 DEF RunTyped, ProposalId
  <2>3. ContractTyped'
    <3>1. \/ Round!Contract!record_worker_submissions(Coordinator, run[r].id, run[r].submissions)
          \/ UNCHANGED contractVars
      BY <1>1 DEF localRecordWorkerSubmissions, Call
    <3> QED BY <2>2, <3>1, RecordTyped, ContractStands
  <2> QED BY <2>1, <2>3, GotoRun DEF boardVars, BoardTyped
<1>2. CASE archiveProposal(r) /\ run[r].id = 0
  <2>1. /\ run[r].pc = "archiving" /\ Return(r, run[r].tally) /\ UNCHANGED <<boardVars, startTx>>
        /\ UNCHANGED contractVars
    BY <1>2 DEF archiveProposal, At, startVars, boardVars
  <2> QED BY <2>1, ReturnRun, ContractStands DEF boardVars, BoardTyped
<1>3. CASE archiveProposal(r) /\ run[r].id # 0
  <2>1. /\ run[r].pc = "archiving" /\ Goto(r, "resuming") /\ UNCHANGED <<snapshot, startTx>>
        /\ archive' = [archive EXCEPT ![run[r].id] = run[r].tally]
        /\ UNCHANGED contractVars
        /\ "resuming" \in RunPC \ {"idle"} /\ "archiving" \in Counted
    BY <1>3 DEF archiveProposal, At, startVars, RunPC, Counted
  <2>2. run[r].tally \in Round!Tally
    BY <1>0, <1>3, <2>1 DEF RunTyped
  <2>3. archive' \in [ProposalId -> Round!Tally \cup {NoTally}]
    BY <2>1, <2>2 DEF BoardTyped
  <2> QED BY <1>3, <2>1, <2>3, GotoRun, ContractStands DEF BoardTyped
<1>4. CASE localCoordinatorResume(r)
  <2>1. /\ run[r].pc = "resuming" /\ Goto(r, "resumed") /\ UNCHANGED <<boardVars, startTx>>
        /\ "resumed" \in RunPC \ {"idle"} /\ "resuming" \in Counted
    BY <1>4 DEF localCoordinatorResume, At, startVars, RunPC, Counted
  <2>2. run[r].id \in ProposalId /\ run[r].id # 0 /\ run[r].tally \in Round!Tally
    BY <1>0, <2>1 DEF RunTyped, ProposalId, Counted
  <2>3. ContractTyped'
    <3>1. \/ Round!Contract!coordinator_resume(Coordinator, run[r].id,
               Round!OnChainOf(run[r].tally), run[r].config)
          \/ UNCHANGED contractVars
      BY <1>4 DEF localCoordinatorResume, Call
    <3>2. Round!OnChainOf(run[r].tally) \in Round!OnChain
      BY <2>2, ShownTyped
    <3> QED BY <2>2, <3>1, <3>2, ResumeTyped, ContractStands
  <2> QED BY <2>1, <2>2, <2>3, GotoRun DEF boardVars, BoardTyped
<1>5. CASE Complete(r)
  <2>1. /\ run[r].pc = "resumed" /\ Return(r, run[r].tally) /\ UNCHANGED <<boardVars, startTx>>
        /\ UNCHANGED contractVars
    BY <1>5 DEF Complete, At, startVars
  <2> QED BY <2>1, ReturnRun, ContractStands DEF boardVars, BoardTyped
<1> QED BY <1>1, <1>2, <1>3, <1>4, <1>5

\* Every step of a run.
LEMMA AdvanceTyped ==
  ASSUME RunsTyped, Shapes, ContractTyped, WorkersTyped, BoardTyped, NEW r \in Run, Advance(r)
  PROVE  RunsTyped' /\ ContractTyped' /\ WorkersTyped' /\ BoardTyped'
<1>1. CASE \/ getActiveWorkers(r) \/ PublishTask(r)
           \/ \E w \in Worker : ResetStatus(r, w) \/ Dispatch(r, w) \/ MarkUnreachable(r, w)
  <2>1. UNCHANGED <<contractVars, boardVars>>
    BY <1>1 DEF getActiveWorkers, PublishTask, ResetStatus, Dispatch, MarkUnreachable
  <2> QED BY <1>1, <2>1, DispatchTyped, ContractStands DEF boardVars, BoardTyped
<1>2. CASE \/ localStartCoordination(r) \/ DetectProposal(r) \/ DetectTimeout(r)
           \/ TakeSnapshot(r)
  <2>1. UNCHANGED <<contractVars, workerVars>>
    BY <1>2 DEF localStartCoordination, DetectProposal, DetectTimeout, TakeSnapshot
  <2> QED BY <1>2, <2>1, DetectTyped, ContractStands, WorkersStand
<1>3. CASE AllDone(r) \/ WaitTimeout(r) \/ ReadResults(r) \/ aggregateResults(r)
  <2>1. UNCHANGED <<contractVars, workerVars>>
    BY <1>3 DEF AllDone, WaitTimeout, ReadResults, aggregateResults
  <2> QED BY <1>3, <2>1, ResultsTyped, ContractStands, WorkersStand
<1>4. CASE \/ localRecordWorkerSubmissions(r) \/ archiveProposal(r)
           \/ localCoordinatorResume(r) \/ Complete(r)
  <2>1. UNCHANGED workerVars
    BY <1>4 DEF localRecordWorkerSubmissions, archiveProposal, localCoordinatorResume, Complete
  <2> QED BY <1>4, <2>1, SettleTyped, WorkersStand
<1> QED BY <1>1, <1>2, <1>3, <1>4 DEF Advance

-----------------------------------------------------------------------------
(* Types: every step *)

\* What a buyer can have been told.
Told == {"none", "waiting", "polling", "completed", "failed", "lost", "gave up"}

\* What only ghosts, bounds and buyers need.
MarginsTyped ==
  /\ startedBy \in [ProposalId -> SUBSET Run]
  /\ takers \in [ProposalId -> SUBSET Run]
  /\ disturbed \in SUBSET Run
  /\ crashes \in 0 .. MaxCrashes
  /\ \A r \in Run : buyer[r] \in Told

\* The inductive invariant of TypeOK, on the ground of SaleInv.
TypeInv == ContractTyped /\ WorkersTyped /\ BoardTyped /\ RunsTyped /\ MarginsTyped

\* Neither run nor start call changed.
LEMMA RunsStand ==
  ASSUME RunsTyped, UNCHANGED <<run, startTx>>
  PROVE  RunsTyped'
BY DEF RunsTyped, RunTyped

\* A run that returns answers its buyer from the record.
LEMMA SaleTyped ==
  ASSUME SaleInv, MarginsTyped, NEW r \in Run, NEW tally, runDeliberation(r, tally),
         UNCHANGED <<startedBy, takers, disturbed, crashes>>
  PROVE  MarginsTyped'
<1>1. CASE r \in Paid
  <2>1. /\ verdict' = [verdict EXCEPT ![r] = updateRecord(@, Outcome(r, tally))]
        /\ buyer' = [buyer EXCEPT ![r] = IF @ = "waiting" THEN verdict'[r].status ELSE @]
    BY <1>1 DEF runDeliberation
  <2>2. verdict'[r].status \in {"none", "completed", "failed"}
    <3>1. verdict'[r] = updateRecord(verdict[r], Outcome(r, tally))
      BY <2>1 DEF SaleInv, Shapes
    <3>2. Outcome(r, tally).status \in {"completed", "failed"}
      BY DEF Outcome
    <3> QED BY <3>1, <3>2 DEF updateRecord
  <2>3. \A q \in Run : buyer'[q] \in Told
    <3>1. \A q \in Run : buyer'[q] = IF q = r
                                     THEN IF buyer[r] = "waiting" THEN verdict'[r].status
                                          ELSE buyer[r]
                                     ELSE buyer[q]
      BY <2>1 DEF SaleInv, Shapes
    <3> QED BY <2>2, <3>1 DEF MarginsTyped, Told
  <2> QED BY <2>3 DEF MarginsTyped
<1>2. CASE r \notin Paid
  BY <1>2 DEF runDeliberation, saleVars, MarginsTyped
<1> QED BY <1>1, <1>2

\* Nothing else changes when a run goes on.
LEMMA AdvanceMargins ==
  ASSUME SaleInv, MarginsTyped, NEW r \in Run, Advance(r)
  PROVE  MarginsTyped'
<1>1. UNCHANGED crashes
  BY DEF Advance, getActiveWorkers, PublishTask, ResetStatus, Dispatch, MarkUnreachable,
     localStartCoordination, DetectProposal, DetectTimeout, TakeSnapshot, AllDone, WaitTimeout,
     ReadResults, localRecordWorkerSubmissions, aggregateResults, archiveProposal,
     localCoordinatorResume, Complete
<1>2. Quiet(r) \/ Sends(r) \/ Detects(r) \/ Returns(r)
  BY AdvanceKinds DEF SaleInv
<1>3. CASE Quiet(r)
  BY <1>1, <1>3 DEF Quiet, startVars, saleVars, MarginsTyped
<1>4. CASE Sends(r)
  BY <1>1, <1>4 DEF Sends, saleVars, MarginsTyped
<1>5. CASE Detects(r)
  BY <1>1, <1>5 DEF Detects, startVars, saleVars, MarginsTyped
<1>6. CASE Returns(r)
  BY <1>1, <1>6, SaleTyped DEF Returns, startVars
<1> QED BY <1>2, <1>3, <1>4, <1>5, <1>6

\* The call that lands stores a proposal of the run that sent it.
LEMMA LandsTyped ==
  ASSUME SaleInv, TypeInv, NEW r \in Run, StartLands(r)
  PROVE  TypeInv'
<1> DEFINE new == current_proposal_id + 1
<1>1. /\ RunTyped(r) /\ Shapes /\ current_proposal_id \in 0 .. MaxProposals
  BY ContractTypes DEF TypeInv, RunsTyped, SaleInv
<1>2. /\ startTx[r] # 0
      /\ Round!Contract!start_coordination(run[r].config, startTx[r])
      /\ startTx' = [startTx EXCEPT ![r] = 0]
      /\ startedBy' = [startedBy EXCEPT ![new] = {r}]
      /\ UNCHANGED <<workerVars, boardVars, saleVars, run, takers, disturbed, crashes>>
  BY DEF StartLands
<1>3. ContractTyped'
  <2>1. run[r].config \in Config
    BY <1>1, <1>2 DEF RunTyped
  <2>2. startTx[r] \in 0 .. Round!Contract!U8 - 1
    <3>1. /\ Cardinality(Worker) < Round!Contract!U8 /\ Round!Contract!U8 \in Nat
          /\ Cardinality(Worker) \in Nat
      BY LocalAssumption, FS_CardinalityType DEF LocalAssumption, Round!Contract!U8
    <3> QED BY <1>1, <3>1 DEF RunTyped
  <2> QED BY <1>2, <2>1, <2>2, StartTyped DEF TypeInv
<1>4. RunsTyped'
  <2>1. 0 \in 0 .. Cardinality(Worker)
    BY LocalAssumption, FS_CardinalityType DEF LocalAssumption
  <2>2. startTx'[r] = 0 /\ \A q \in Run : q # r => startTx'[q] = startTx[q]
    BY <1>1, <1>2 DEF Shapes
  <2>3. RunTyped(r)'
    BY <1>1, <1>2, <2>1, <2>2 DEF RunTyped
  <2> QED BY <1>2, <2>2, <2>3, OneRunTyped DEF TypeInv
<1>5. startedBy' \in [ProposalId -> SUBSET Run]
  BY <1>2 DEF TypeInv, MarginsTyped
<1>6. WorkersTyped' /\ BoardTyped'
  BY <1>2, WorkersStand DEF TypeInv, BoardTyped, boardVars
<1> QED BY <1>2, <1>3, <1>4, <1>5, <1>6 DEF TypeInv, MarginsTyped, saleVars

\* A call that never lands.
LEMMA LostTyped ==
  ASSUME SaleInv, TypeInv, NEW r \in Run, StartLost(r)
  PROVE  TypeInv'
<1>1. /\ startTx' = [startTx EXCEPT ![r] = 0]
      /\ UNCHANGED <<contractVars, workerVars, boardVars, saleVars, run, takers, disturbed, crashes, startedBy>>
  BY DEF StartLost
<1>2. 0 \in 0 .. Cardinality(Worker)
  BY LocalAssumption, FS_CardinalityType DEF LocalAssumption
<1>3. startTx'[r] = 0 /\ \A q \in Run : q # r => startTx'[q] = startTx[q]
  BY <1>1 DEF SaleInv, Shapes
<1>4. RunTyped(r)'
  BY <1>1, <1>2, <1>3 DEF TypeInv, RunsTyped, RunTyped
<1>5. RunsTyped'
  BY <1>1, <1>3, <1>4, OneRunTyped DEF TypeInv
<1> QED BY <1>1, <1>5, ContractStands, WorkersStand
        DEF TypeInv, BoardTyped, boardVars, MarginsTyped, saleVars

\* A run takes a task up and its buyer waits.
LEMMA BeginTyped ==
  ASSUME SaleInv, TypeInv, NEW r \in Run, Begin(r)
  PROVE  TypeInv'
<1>1. /\ UNCHANGED <<contractVars, workerVars, boardVars, startVars, takers, crashes>>
      /\ run[r].pc = "idle" /\ disturbed' \subseteq disturbed \cup Run
  BY DEF Begin, At
<1>2. PICK c \in Config : run' = [run EXCEPT ![r].pc = "discovering", ![r].config = c]
  BY DEF Begin
<1>3. /\ run'[r].pc = "discovering" /\ run'[r].config = c
      /\ run'[r].workers = run[r].workers /\ run'[r].todo = run[r].todo
      /\ run'[r].dropped = run[r].dropped /\ run'[r].before = run[r].before
      /\ run'[r].id = run[r].id /\ run'[r].submissions = run[r].submissions
      /\ \A q \in Run : q # r => run'[q] = run[q]
  BY <1>2 DEF SaleInv, Shapes, Function, IdleRun
<1>4. RunTyped(r)'
  BY <1>1, <1>3 DEF TypeInv, RunsTyped, RunTyped, RunPC, Counted, startVars
<1>5. RunsTyped'
  BY <1>1, <1>3, <1>4, OneRunTyped DEF TypeInv, startVars
<1>6. \A q \in Run : buyer'[q] \in Told
  <2>1. buyer' = buyer \/ buyer' = [buyer EXCEPT ![r] = "waiting"]
    BY DEF Begin, saleVars
  <2> QED BY <2>1 DEF TypeInv, MarginsTyped, Told, SaleInv, Shapes
<1> QED BY <1>1, <1>5, <1>6, ContractStands, WorkersStand
        DEF TypeInv, BoardTyped, boardVars, MarginsTyped, startVars

\* The buyer gets or gives up an answer.
LEMMA BuyerTyped ==
  ASSUME SaleInv, TypeInv, NEW r \in Run, AwaitExpires(r) \/ PollVerdict(r) \/ GiveUp(r)
  PROVE  TypeInv'
<1>1. UNCHANGED <<contractVars, workerVars, boardVars, startVars, run, takers, disturbed, crashes>>
  BY DEF AwaitExpires, PollVerdict, GiveUp
<1>2. PICK told \in Told : buyer' = [buyer EXCEPT ![r] = told]
  <2>1. CASE AwaitExpires(r)
    BY <2>1 DEF AwaitExpires, Told
  <2>2. CASE PollVerdict(r)
    <3>1. verdict[r].status \in {"none", "pending", "completed", "failed"}
      BY DEF SaleInv, SaleOf, Terminal
    <3> QED BY <2>2, <3>1 DEF PollVerdict, Told
  <2>3. CASE GiveUp(r)
    BY <2>3 DEF GiveUp, Told
  <2> QED BY <2>1, <2>2, <2>3
<1>3. \A q \in Run : buyer'[q] \in Told
  BY <1>2 DEF TypeInv, MarginsTyped, SaleInv, Shapes
<1> QED BY <1>1, <1>3, ContractStands, WorkersStand, RunsStand
        DEF TypeInv, BoardTyped, boardVars, MarginsTyped, startVars

\* A restart forgets runs, verdicts and connections.
LEMMA CrashTyped ==
  ASSUME SaleInv, TypeInv, Crash
  PROVE  TypeInv'
<1>1. /\ crashes < MaxCrashes /\ crashes' = crashes + 1
      /\ run' = [r \in Run |-> IF Over(r) THEN run[r] ELSE End(r, "lost")]
      /\ buyer' = [r \in Run |-> IF buyer[r] = "waiting" THEN "lost" ELSE buyer[r]]
      /\ UNCHANGED <<contractVars, workerVars, boardVars, startVars, takers, disturbed>>
  BY DEF Crash
<1>2. crashes' \in 0 .. MaxCrashes
  BY <1>1, LocalAssumption DEF TypeInv, MarginsTyped, LocalAssumption
<1>3. ASSUME NEW r \in Run
      PROVE  RunTyped(r)'
  <2>1. CASE Over(r)
    BY <1>1, <2>1 DEF TypeInv, RunsTyped, RunTyped, startVars
  <2>2. CASE ~Over(r)
    <3>1. run'[r] = End(r, "lost") /\ run[r].pc # "idle"
      BY <1>1, <2>2 DEF Over
    <3> QED BY <1>1, <3>1, EndRun DEF TypeInv, startVars
  <2> QED BY <2>1, <2>2
<1>4. \A r \in Run : buyer'[r] \in Told
  BY <1>1 DEF TypeInv, MarginsTyped, Told
<1> QED BY <1>1, <1>2, <1>3, <1>4, ContractStands, WorkersStand
        DEF TypeInv, RunsTyped, BoardTyped, boardVars, MarginsTyped, startVars

\* Every step of coordinator, workers, buyers and network keeps the types.
LEMMA TypeNext == SaleInv /\ TypeInv /\ [Next]_vars => TypeInv'
<1> SUFFICES ASSUME SaleInv, TypeInv, [Next]_vars
             PROVE  TypeInv'
  OBVIOUS
<1>0. Shapes /\ ContractTyped /\ WorkersTyped /\ BoardTyped /\ RunsTyped /\ MarginsTyped
  BY DEF SaleInv, TypeInv
<1>1. ASSUME NEW r \in Run, Begin(r)
      PROVE  TypeInv'
  BY <1>1, BeginTyped
<1>2. ASSUME NEW r \in Run, Advance(r)
      PROVE  TypeInv'
  <2>1. RunsTyped' /\ ContractTyped' /\ WorkersTyped' /\ BoardTyped'
    BY <1>0, <1>2, AdvanceTyped
  <2>2. MarginsTyped'
    BY <1>0, <1>2, AdvanceMargins
  <2> QED BY <2>1, <2>2 DEF TypeInv
<1>3. ASSUME NEW r \in Run, StartLands(r) \/ StartLost(r)
      PROVE  TypeInv'
  BY <1>3, LandsTyped, LostTyped
<1>4. ASSUME NEW r \in Run, AwaitExpires(r) \/ PollVerdict(r) \/ GiveUp(r)
      PROVE  TypeInv'
  BY <1>4, BuyerTyped
<1>5. CASE Crash
  BY <1>5, CrashTyped
<1>6. ASSUME NEW w \in Worker, WorkerStep(w)
      PROVE  TypeInv'
  <2>1. WorkersTyped'
    BY <1>0, <1>6, WorkerStepTyped, PollVoteTyped DEF WorkerStep
  <2>2. UNCHANGED <<contractVars, boardVars, startVars, saleVars, run, takers, disturbed, crashes>>
    BY <1>6 DEF WorkerStep
  <2> QED BY <1>0, <2>1, <2>2, ContractStands, RunsStand
          DEF TypeInv, BoardTyped, boardVars, MarginsTyped, startVars, saleVars
<1>7. CASE Runtime
  <2>1. ContractTyped'
    BY <1>0, <1>7, RuntimeTyped DEF Runtime
  <2>2. UNCHANGED <<workerVars, boardVars, startVars, saleVars, run, takers, disturbed, crashes>>
    BY <1>7 DEF Runtime
  <2> QED BY <1>0, <2>1, <2>2, WorkersStand, RunsStand
          DEF TypeInv, BoardTyped, boardVars, MarginsTyped, startVars, saleVars
<1>8. CASE UNCHANGED vars
  BY <1>0, <1>8, ContractStands, WorkersStand, RunsStand
     DEF vars, TypeInv, BoardTyped, boardVars, MarginsTyped, startVars, saleVars
<1> QED BY <1>1, <1>2, <1>3, <1>4, <1>5, <1>6, <1>7, <1>8 DEF Next

\* At first every variable has its type.
LEMMA TypeInit == Init => TypeInv
<1> SUFFICES ASSUME Init
             PROVE  TypeInv
  OBVIOUS
<1>1. /\ MaxProposals \in Nat /\ MaxCrashes \in Nat /\ MaxRestarts \in Nat
      /\ 0 \in 0 .. Cardinality(Worker)
  BY LocalAssumption, FS_CardinalityType DEF LocalAssumption
<1>2. ContractTyped
  <2>1. Started
    BY DEF Init, Started, ProposalId
  <2> QED BY <1>1, <2>1, ContractTypes DEF Init
<1>3. WorkersTyped
  <2>1. HandlersHaveTask
    BY DEF Init, Round!Agent!Init, HandlersHaveTask, Round!Agent!Executing, Round!Agent!Idle
  <2> QED BY <1>1, <2>1, WorkerTypes, IdleTyped DEF Init, Round!Agent!Init, Status
<1>4. BoardTyped
  BY DEF Init, BoardTyped
<1>5. RunsTyped
  <2> SUFFICES ASSUME NEW r \in Run
               PROVE  RunTyped(r)
    BY DEF RunsTyped
  <2>1. run[r] = IdleRun /\ startTx[r] = 0
    BY DEF Init
  <2>2. << >> \in Seq(Submission)
    OBVIOUS
  <2> QED BY <1>1, <2>1, <2>2 DEF IdleRun, RunTyped, RunPC, Counted
<1>6. MarginsTyped
  BY <1>1 DEF Init, MarginsTyped, Told
<1> QED BY <1>2, <1>3, <1>4, <1>5, <1>6 DEF TypeInv

\* The types are those of TypeOK.
LEMMA TypeFollows == SaleInv /\ TypeInv => TypeOK
<1> SUFFICES ASSUME SaleInv, TypeInv
             PROVE  TypeOK
  OBVIOUS
<1>1. Round!Contract!TypeOK /\ Round!Agent!TypeOK
  BY DEF TypeInv, ContractTyped, WorkersTyped
<1>2. ASSUME NEW r \in Run
      PROVE  /\ run[r].pc \in RunPC
             /\ run[r].workers \cup run[r].todo \cup run[r].dropped \subseteq Worker
             /\ run[r].before \in 0 .. MaxProposals /\ run[r].id \in 0 .. MaxProposals
             /\ run[r].pc \in {"snapshot", "reading", "recording", "resuming"} => run[r].id # 0
             /\ verdict[r].status \in {"none", "pending", "completed", "failed"}
             /\ buyer[r] \in {"none", "waiting", "polling", "completed", "failed", "lost", "gave up"}
             /\ startTx[r] \in 0 .. Cardinality(Worker)
  BY DEF SaleInv, SaleOf, Terminal, TypeInv, RunsTyped, RunTyped, MarginsTyped, Told
<1> QED BY <1>1, <1>2 DEF TypeOK, TypeInv, BoardTyped, MarginsTyped

-----------------------------------------------------------------------------
(* Who took what *)

\* At first nobody has taken anything.
LEMMA TakenInit == Init => TakenInv
BY InitShapes DEF Init, TakenInv, HasTaken, IdleRun

\* A run that goes on is a taker of what it detects.
LEMMA TakenAdvance ==
  ASSUME TypeInv, TypeInv', TakenInv, NEW r \in Run, Advance(r)
  PROVE  TakenInv'
<1>1. Quiet(r) \/ Sends(r) \/ Detects(r) \/ Returns(r)
  BY AdvanceKinds DEF TakenInv
<1>2. /\ Shapes' /\ UNCHANGED current_proposal_id
      /\ \A q \in Run : q # r => run'[q] = run[q]
  BY <1>1 DEF Quiet, Sends, Detects, Returns, OthersStay
<1>3. CASE Quiet(r) \/ Sends(r) \/ Returns(r)
  <2>1. UNCHANGED takers /\ run'[r].id \in {0, run[r].id}
    BY <1>3 DEF Quiet, Sends, Returns
  <2> QED BY <1>2, <2>1 DEF TakenInv, HasTaken
<1>4. CASE Detects(r)
  <2> DEFINE id == run'[r].id
  <2>1. /\ id \in View(current_proposal_id, 0) /\ id > run[r].before
        /\ takers' = [takers EXCEPT ![id] = @ \cup {r}]
    BY <1>4 DEF Detects
  <2>2. /\ run[r].before \in Nat /\ current_proposal_id \in Nat /\ MaxProposals \in Nat
        /\ id \in 0 .. MaxProposals
    BY LocalAssumption, ContractTypes DEF LocalAssumption, TypeInv, RunsTyped, RunTyped
  <2>3. id = current_proposal_id /\ id \in ProposalId
    BY <2>1, <2>2 DEF View, ProposalId
  <2>4. r \in takers'[id] /\ \A i \in ProposalId : takers[i] \subseteq takers'[i]
    BY <2>1, <2>3 DEF TypeInv, MarginsTyped
  <2>5. id <= current_proposal_id
    BY <2>2, <2>3
  <2> QED BY <1>2, <2>3, <2>4, <2>5 DEF TakenInv, HasTaken
<1> QED BY <1>1, <1>3, <1>4

\* A new proposal is nobody's.
LEMMA TakenLands ==
  ASSUME SaleInv', TypeInv, TakenInv, NEW r \in Run, StartLands(r)
  PROVE  TakenInv'
<1>1. UNCHANGED <<run, takers>> /\ current_proposal_id' = current_proposal_id + 1
  BY DEF StartLands, Round!Contract!start_coordination
<1>2. current_proposal_id \in Nat /\ \A i \in ProposalId : i \in Nat
  BY ContractTypes DEF TypeInv, ProposalId
<1>3. \A i \in ProposalId : i <= current_proposal_id => i <= current_proposal_id'
  BY <1>1, <1>2
<1> QED BY <1>1, <1>3 DEF SaleInv, TakenInv, HasTaken

\* Every step leaves the takers of a proposal with those that hold it.
LEMMA TakenNext ==
  ASSUME SaleInv, TypeInv, TypeInv', TakenInv, [Next]_vars
  PROVE  TakenInv'
<1>0. SaleInv'
  BY SaleNext
<1>1. ASSUME NEW r \in Run, Begin(r)
      PROVE  TakenInv'
  <2>1. UNCHANGED <<takers, current_proposal_id>>
    BY <1>1 DEF Begin, contractVars
  <2>2. \A q \in Run : run'[q].id = run[q].id
    BY <1>1 DEF Begin, TakenInv, Shapes, Function, IdleRun
  <2> QED BY <1>0, <2>1, <2>2 DEF SaleInv, TakenInv, HasTaken
<1>2. ASSUME NEW r \in Run, Advance(r)
      PROVE  TakenInv'
  BY <1>2, TakenAdvance
<1>3. ASSUME NEW r \in Run, StartLands(r)
      PROVE  TakenInv'
  BY <1>0, <1>3, TakenLands
<1>4. ASSUME UNCHANGED <<run, takers, current_proposal_id>>
      PROVE  TakenInv'
  BY <1>0, <1>4 DEF SaleInv, TakenInv, HasTaken
<1>5. ASSUME NEW r \in Run,
             StartLost(r) \/ AwaitExpires(r) \/ PollVerdict(r) \/ GiveUp(r)
      PROVE  TakenInv'
  BY <1>4, <1>5 DEF StartLost, AwaitExpires, PollVerdict, GiveUp, contractVars
<1>6. CASE (\E w \in Worker : WorkerStep(w)) \/ UNCHANGED vars
  BY <1>4, <1>6 DEF WorkerStep, vars, contractVars
<1>7. CASE Runtime
  BY <1>4, <1>7 DEF Runtime, Round!Contract!Runtime, Round!Contract!YieldTimeout,
     Round!Contract!DeliverResume
<1>8. CASE Crash
  <2>1. /\ run' = [r \in Run |-> IF Over(r) THEN run[r] ELSE End(r, "lost")]
        /\ UNCHANGED <<takers, current_proposal_id>>
    BY <1>8 DEF Crash, contractVars
  <2>2. \A r \in Run : run'[r].id \in {0, run[r].id}
    BY <2>1 DEF End, IdleRun
  <2> QED BY <1>0, <2>1, <2>2 DEF SaleInv, TakenInv, HasTaken
<1> QED BY <1>1, <1>2, <1>3, <1>5, <1>6, <1>7, <1>8 DEF Next

-----------------------------------------------------------------------------
(* What is sold is what the chain decides *)

\* A result of the proposal is on its way or on chain.
HasResult(id) ==
  \/ Round!Contract!InState(id, "Finalized")
  \/ \E x \in resumes : x.id = id /\ x.value # NoAnswer

\* One run has taken the proposal for its own, and no other.
TakenOnce(id) == \E r \in Run : takers[id] = {r}

\* A proposal has a result only when a run that took it has sent one, and that run
\* is not reported as failed.
ResultsOfSenders ==
  \A id \in ProposalId : HasResult(id) =>
    /\ id <= current_proposal_id
    /\ \E r \in Run : /\ r \in takers[id]
                      /\ run[r].pc \in {"resumed", "returned", "lost"}
                      /\ verdict[r].status # "failed"

\* A result on its way, or on chain, is the one archived, if one run took the proposal.
SentIsArchived ==
  \A x \in resumes : (x.value # NoAnswer /\ TakenOnce(x.id)) =>
    x.value = Round!OnChainOf(archive[x.id])

\* What the chain has decided is what the archive says, likewise.
FinalIsArchived ==
  \A id \in ProposalId : (Round!Contract!InState(id, "Finalized") /\ TakenOnce(id)) =>
    proposals[id].finalized_result = Round!OnChainOf(archive[id])

\* A run past the archiving has archived its tally, unless another overwrote it.
SenderHasArchived ==
  \A r \in Run : (run[r].pc \in {"resuming", "resumed"} /\ takers[run[r].id] = {r}) =>
    archive[run[r].id] = run[r].tally

\* A verdict that names a proposal is of a run that took it, and archived by it.
SoldOf(r) ==
  LET id == verdict[r].nearProposalId IN
  id # 0 => /\ id \in ProposalId /\ id <= current_proposal_id
            /\ r \in takers[id] /\ run[r].pc = "returned"
            /\ takers[id] = {r} => archive[id] = verdict[r].tally

\* What was sold to any buyer is archived.
SoldIsArchived == \A r \in Run : SoldOf(r)

\* The inductive invariant of VerdictAgreesWithChain and FailedStaysUndecided.
SettledInv ==
  /\ ResultsOfSenders /\ SentIsArchived /\ FinalIsArchived
  /\ SenderHasArchived /\ SoldIsArchived

\* The chain has no result it did not have.
NoNewResult ==
  /\ \A id \in ProposalId : Round!Contract!InState(id, "Finalized")' =>
       /\ Round!Contract!InState(id, "Finalized")
       /\ proposals'[id].finalized_result = proposals[id].finalized_result
  /\ \A x \in resumes' : x.value # NoAnswer => x \in resumes
  /\ UNCHANGED current_proposal_id

\* Nothing happened to the chain.
LEMMA ChainStands ==
  ASSUME UNCHANGED <<current_proposal_id, proposals, resumes>>
  PROVE  NoNewResult
BY DEF NoNewResult, Round!Contract!InState, Round!Contract!Exists

\* Whoever had a result had it before.
LEMMA OldResults ==
  ASSUME NoNewResult, NEW id \in ProposalId, HasResult(id)'
  PROVE  HasResult(id)
BY DEF NoNewResult, HasResult

\* Steps of others.
LEMMA SettledStands ==
  ASSUME SettledInv, NoNewResult, UNCHANGED <<run, verdict, archive, takers>>
  PROVE  SettledInv'
<1>1. ResultsOfSenders'
  BY OldResults DEF SettledInv, ResultsOfSenders, NoNewResult
<1>2. SentIsArchived' /\ FinalIsArchived'
  BY DEF SettledInv, SentIsArchived, FinalIsArchived, NoNewResult, TakenOnce
<1>3. SenderHasArchived' /\ SoldIsArchived'
  BY DEF SettledInv, SenderHasArchived, SoldIsArchived, SoldOf, NoNewResult
<1> QED BY <1>1, <1>2, <1>3 DEF SettledInv

\* A run goes on, but not to the archiving or past it.
LEMMA SettledMoves ==
  ASSUME SettledInv, NoNewResult, NEW r \in Run,
         run[r].pc \notin {"resumed", "returned", "lost"},
         run'[r].pc \notin {"resuming", "resumed"},
         \A q \in Run : q # r => run'[q] = run[q],
         UNCHANGED <<verdict, archive, takers>>
  PROVE  SettledInv'
<1>1. ResultsOfSenders'
  <2> SUFFICES ASSUME NEW id \in ProposalId, HasResult(id)'
               PROVE  /\ id <= current_proposal_id'
                      /\ \E q \in Run : /\ q \in takers'[id]
                                        /\ run'[q].pc \in {"resumed", "returned", "lost"}
                                        /\ verdict'[q].status # "failed"
    BY DEF ResultsOfSenders
  <2>1. HasResult(id)
    BY OldResults
  <2>2. id <= current_proposal_id'
    BY <2>1 DEF SettledInv, ResultsOfSenders, NoNewResult
  <2>3. PICK q \in Run : /\ q \in takers[id]
                         /\ run[q].pc \in {"resumed", "returned", "lost"}
                         /\ verdict[q].status # "failed"
    BY <2>1 DEF SettledInv, ResultsOfSenders
  <2>4. q # r
    BY <2>3
  <2> QED BY <2>2, <2>3, <2>4
<1>2. SentIsArchived' /\ FinalIsArchived'
  BY DEF SettledInv, SentIsArchived, FinalIsArchived, NoNewResult, TakenOnce
<1>3. SenderHasArchived'
  BY DEF SettledInv, SenderHasArchived
<1>4. SoldIsArchived'
  <2> SUFFICES ASSUME NEW q \in Run
               PROVE  SoldOf(q)'
    BY DEF SoldIsArchived
  <2>1. SoldOf(q)
    BY DEF SettledInv, SoldIsArchived
  <2>2. CASE q = r
    BY <2>1, <2>2 DEF SoldOf
  <2>3. CASE q # r
    BY <2>1, <2>3 DEF SoldOf, NoNewResult
  <2> QED BY <2>2, <2>3
<1> QED BY <1>1, <1>2, <1>3, <1>4 DEF SettledInv

\* The record of a run that returns, if it has one.
LEMMA RecordGets ==
  ASSUME Shapes, NEW r \in Run, NEW tally, Return(r, tally)
  PROVE  /\ run'[r].pc = "returned"
         /\ \A q \in Run : q # r => run'[q] = run[q] /\ verdict'[q] = verdict[q]
         /\ verdict'[r] \in {verdict[r], Outcome(r, tally)}
<1>1. /\ run' = [run EXCEPT ![r] = End(r, "returned")]
      /\ runDeliberation(r, tally)
  BY DEF Return
<1>2. run'[r].pc = "returned" /\ \A q \in Run : q # r => run'[q] = run[q]
  <2>1. run'[r] = End(r, "returned") /\ \A q \in Run : q # r => run'[q] = run[q]
    BY <1>1 DEF Shapes
  <2> QED BY <2>1 DEF End, IdleRun
<1>3. CASE r \in Paid
  BY <1>1, <1>2, <1>3 DEF runDeliberation, updateRecord, Shapes
<1>4. CASE r \notin Paid
  BY <1>1, <1>2, <1>4 DEF runDeliberation, saleVars
<1> QED BY <1>3, <1>4

\* A run returns: without a proposal, or with the tally it has sent.
LEMMA SettledReturns ==
  ASSUME TakenInv, SaleInv, SettledInv, NEW r \in Run, NEW tally, Return(r, tally), ~Over(r),
         UNCHANGED <<archive, takers, current_proposal_id, proposals, resumes>>,
         \/ run[r].pc # "resumed" /\ (tally = NoTally \/ tally.proposalId = 0)
         \/ /\ run[r].pc = "resumed" /\ tally = run[r].tally /\ tally # NoTally
            /\ tally.proposalId = run[r].id
  PROVE  SettledInv'
<1>1. /\ run'[r].pc = "returned"
      /\ \A q \in Run : q # r => run'[q] = run[q] /\ verdict'[q] = verdict[q]
      /\ verdict'[r] \in {verdict[r], Outcome(r, tally)}
  BY RecordGets DEF SaleInv
<1>2. verdict[r].status # "failed" /\ verdict[r].nearProposalId = 0
  BY DEF SaleInv, SaleOf, Terminal, Over, SettledInv, SoldIsArchived, SoldOf
<1>3. NoNewResult
  BY ChainStands
<1>4. ResultsOfSenders'
  <2> SUFFICES ASSUME NEW id \in ProposalId, HasResult(id)'
               PROVE  /\ id <= current_proposal_id'
                      /\ \E q \in Run : /\ q \in takers'[id]
                                        /\ run'[q].pc \in {"resumed", "returned", "lost"}
                                        /\ verdict'[q].status # "failed"
    BY DEF ResultsOfSenders
  <2>1. HasResult(id)
    BY <1>3, OldResults
  <2>2. id <= current_proposal_id'
    BY <2>1 DEF SettledInv, ResultsOfSenders
  <2>3. PICK q \in Run : /\ q \in takers[id]
                         /\ run[q].pc \in {"resumed", "returned", "lost"}
                         /\ verdict[q].status # "failed"
    BY <2>1 DEF SettledInv, ResultsOfSenders
  <2>4. CASE q # r
    BY <1>1, <2>2, <2>3, <2>4
  <2>5. CASE q = r
    <3>1. run[r].pc = "resumed"
      BY <2>3, <2>5 DEF Over
    <3>2. verdict'[r].status # "failed"
      BY <1>1, <1>2, <3>1 DEF Outcome
    <3> QED BY <1>1, <2>2, <2>3, <2>5, <3>2
  <2> QED BY <2>4, <2>5
<1>5. SentIsArchived' /\ FinalIsArchived'
  BY <1>3 DEF SettledInv, SentIsArchived, FinalIsArchived, NoNewResult, TakenOnce
<1>6. SenderHasArchived'
  BY <1>1 DEF SettledInv, SenderHasArchived
<1>7. SoldIsArchived'
  <2> SUFFICES ASSUME NEW q \in Run
               PROVE  SoldOf(q)'
    BY DEF SoldIsArchived
  <2>1. SoldOf(q)
    BY DEF SettledInv, SoldIsArchived
  <2>2. CASE q # r
    BY <1>1, <2>1, <2>2 DEF SoldOf
  <2>3. CASE q = r /\ verdict'[r].nearProposalId = 0
    BY <2>3 DEF SoldOf
  <2>4. CASE q = r /\ verdict'[r].nearProposalId # 0
    <3>1. verdict'[r] = Outcome(r, tally)
      BY <1>1, <1>2, <2>4
    <3>2. /\ tally # NoTally /\ verdict'[r].tally = tally
          /\ verdict'[r].nearProposalId = tally.proposalId /\ tally.proposalId # 0
      BY <2>4, <3>1 DEF Outcome
    <3>3. run[r].pc = "resumed" /\ tally = run[r].tally /\ tally.proposalId = run[r].id
      BY <3>2
    <3>4. takers[run[r].id] = {r} => archive[run[r].id] = tally
      BY <3>3 DEF SettledInv, SenderHasArchived
    <3>5. /\ run[r].id \in ProposalId /\ run[r].id <= current_proposal_id
          /\ r \in takers[run[r].id]
      BY <3>2, <3>3 DEF TakenInv, HasTaken
    <3> QED BY <1>1, <2>4, <3>2, <3>3, <3>4, <3>5 DEF SoldOf
  <2> QED BY <2>2, <2>3, <2>4
<1> QED BY <1>4, <1>5, <1>6, <1>7 DEF SettledInv

\* A run archives: if it alone took the proposal, nobody has sent or sold a result.
LEMMA SettledArchives ==
  ASSUME TakenInv, TypeInv, SettledInv, NEW r \in Run, archiveProposal(r), run[r].id # 0
  PROVE  SettledInv'
<1> DEFINE id == run[r].id
<1>1. /\ run[r].pc = "archiving" /\ Goto(r, "resuming")
      /\ archive' = [archive EXCEPT ![id] = run[r].tally]
      /\ UNCHANGED <<verdict, startedBy, takers, current_proposal_id, proposals, resumes>>
  BY DEF archiveProposal, At, contractVars, startVars, saleVars
<1>2. /\ run'[r].pc = "resuming" /\ run'[r].id = id /\ run'[r].tally = run[r].tally
      /\ \A q \in Run : q # r => run'[q] = run[q]
  BY <1>1 DEF Goto, TakenInv, Shapes, Function, IdleRun
<1>3. id \in ProposalId /\ r \in takers[id]
  BY DEF TakenInv, HasTaken
<1>4. TakenOnce(id) => ~HasResult(id)
  BY <1>1, <1>3 DEF SettledInv, ResultsOfSenders, TakenOnce
<1>5. archive'[id] = run[r].tally /\ \A i \in ProposalId : i # id => archive'[i] = archive[i]
  BY <1>1, <1>3 DEF TypeInv, BoardTyped
<1>6. NoNewResult
  BY <1>1, ChainStands
<1> HIDE DEF id
<1>7. ResultsOfSenders'
  <2> SUFFICES ASSUME NEW i \in ProposalId, HasResult(i)'
               PROVE  /\ i <= current_proposal_id'
                      /\ \E q \in Run : /\ q \in takers'[i]
                                        /\ run'[q].pc \in {"resumed", "returned", "lost"}
                                        /\ verdict'[q].status # "failed"
    BY DEF ResultsOfSenders
  <2>1. HasResult(i)
    BY <1>6, OldResults
  <2>2. PICK q \in Run : /\ q \in takers[i]
                         /\ run[q].pc \in {"resumed", "returned", "lost"}
                         /\ verdict[q].status # "failed"
    BY <2>1 DEF SettledInv, ResultsOfSenders
  <2>3. i <= current_proposal_id
    BY <2>1 DEF SettledInv, ResultsOfSenders
  <2>4. q # r
    BY <1>1, <2>2
  <2> QED BY <1>1, <1>2, <2>2, <2>3, <2>4
<1>8. SentIsArchived'
  <2> SUFFICES ASSUME NEW x \in resumes, x.value # NoAnswer, TakenOnce(x.id)
               PROVE  x.value = Round!OnChainOf(archive'[x.id])
    BY <1>1 DEF SentIsArchived, TakenOnce
  <2>1. x.id \in ProposalId
    BY ContractTypes DEF TypeInv, Round!Contract!Resume, Round!Contract!ProposalId, ProposalId
  <2>2. x.id # id
    BY <1>4 DEF HasResult
  <2> QED BY <1>5, <2>1, <2>2 DEF SettledInv, SentIsArchived
<1>9. FinalIsArchived'
  <2> SUFFICES ASSUME NEW i \in ProposalId, Round!Contract!InState(i, "Finalized")',
                      TakenOnce(i)
               PROVE  proposals'[i].finalized_result = Round!OnChainOf(archive'[i])
    BY <1>1 DEF FinalIsArchived, TakenOnce
  <2>1. Round!Contract!InState(i, "Finalized")
        /\ proposals'[i].finalized_result = proposals[i].finalized_result
    BY <1>6 DEF NoNewResult
  <2>2. i # id
    BY <1>4, <2>1 DEF HasResult
  <2> QED BY <1>5, <2>1, <2>2 DEF SettledInv, FinalIsArchived
<1>10. SenderHasArchived'
  <2> SUFFICES ASSUME NEW q \in Run, run'[q].pc \in {"resuming", "resumed"},
                      takers[run'[q].id] = {q}
               PROVE  archive'[run'[q].id] = run'[q].tally
    BY <1>1 DEF SenderHasArchived
  <2>1. CASE q = r
    BY <1>2, <1>5, <2>1
  <2>2. CASE q # r
    <3>1. run'[q] = run[q] /\ archive[run[q].id] = run[q].tally
      BY <1>2, <2>2 DEF SettledInv, SenderHasArchived
    <3>2. run[q].id # 0
      BY <3>1 DEF TypeInv, RunsTyped, RunTyped
    <3>3. run[q].id \in ProposalId
      BY <3>2 DEF TakenInv, HasTaken
    <3>4. run[q].id # id
      BY <1>3, <2>2, <3>1
    <3> QED BY <1>5, <3>1, <3>3, <3>4
  <2> QED BY <2>1, <2>2
<1>11. SoldIsArchived'
  <2> SUFFICES ASSUME NEW q \in Run
               PROVE  SoldOf(q)'
    BY DEF SoldIsArchived
  <2>1. SoldOf(q)
    BY DEF SettledInv, SoldIsArchived
  <2>2. CASE q = r
    BY <1>1, <2>1, <2>2 DEF SoldOf
  <2>3. CASE q # r
    BY <1>1, <1>2, <1>3, <1>5, <2>1, <2>3 DEF SoldOf
  <2> QED BY <2>2, <2>3
<1> QED BY <1>7, <1>8, <1>9, <1>10, <1>11 DEF SettledInv

\* A run sends its result: what it has archived.
LEMMA SettledSends ==
  ASSUME TakenInv, SaleInv, TypeInv, SettledInv, NEW r \in Run, localCoordinatorResume(r)
  PROVE  SettledInv'
<1> DEFINE id == run[r].id
           value == Round!OnChainOf(run[r].tally)
<1>1. /\ run[r].pc = "resuming" /\ Goto(r, "resumed")
      /\ UNCHANGED <<verdict, archive, takers, current_proposal_id, proposals>>
      /\ resumes' \subseteq resumes \cup {[id |-> id, value |-> value]}
  BY DEF localCoordinatorResume, At, Call, contractVars, boardVars, startVars, saleVars,
     Round!Contract!coordinator_resume, Round!Contract!PromiseYieldResume
<1>2. /\ run'[r].pc = "resumed" /\ run'[r].id = id /\ run'[r].tally = run[r].tally
      /\ \A q \in Run : q # r => run'[q] = run[q]
  BY <1>1 DEF Goto, TakenInv, Shapes, Function, IdleRun
<1>3. /\ id \in ProposalId /\ id <= current_proposal_id /\ r \in takers[id]
      /\ takers[id] = {r} => archive[id] = run[r].tally
  <2>1. id # 0
    BY <1>1 DEF TypeInv, RunsTyped, RunTyped
  <2> QED BY <1>1, <2>1 DEF TakenInv, HasTaken, SettledInv, SenderHasArchived
<1>4. verdict[r].status # "failed"
  BY <1>1 DEF SaleInv, SaleOf, Terminal
<1> HIDE DEF id, value
<1>5. ASSUME NEW x \in resumes'
      PROVE  x \in resumes \/ (x.id = id /\ x.value = value)
  BY <1>1
<1>6. ResultsOfSenders'
  <2> SUFFICES ASSUME NEW i \in ProposalId, HasResult(i)'
               PROVE  /\ i <= current_proposal_id'
                      /\ \E q \in Run : /\ q \in takers'[i]
                                        /\ run'[q].pc \in {"resumed", "returned", "lost"}
                                        /\ verdict'[q].status # "failed"
    BY DEF ResultsOfSenders
  <2>1. CASE i = id
    BY <1>1, <1>2, <1>3, <1>4, <2>1
  <2>2. CASE i # id
    <3>1. HasResult(i)
      BY <1>1, <1>5, <2>2 DEF HasResult, Round!Contract!InState, Round!Contract!Exists
    <3>2. PICK q \in Run : /\ q \in takers[i]
                           /\ run[q].pc \in {"resumed", "returned", "lost"}
                           /\ verdict[q].status # "failed"
      BY <3>1 DEF SettledInv, ResultsOfSenders
    <3>3. i <= current_proposal_id
      BY <3>1 DEF SettledInv, ResultsOfSenders
    <3>4. q # r
      BY <1>1, <3>2
    <3> QED BY <1>1, <1>2, <3>2, <3>3, <3>4
  <2> QED BY <2>1, <2>2
<1>7. SentIsArchived'
  <2> SUFFICES ASSUME NEW x \in resumes', x.value # NoAnswer, TakenOnce(x.id)
               PROVE  x.value = Round!OnChainOf(archive[x.id])
    BY <1>1 DEF SentIsArchived, TakenOnce
  <2>1. CASE x \in resumes
    BY <2>1 DEF SettledInv, SentIsArchived
  <2>2. CASE x.id = id /\ x.value = value
    BY <1>3, <2>2 DEF value, TakenOnce
  <2> QED BY <1>5, <2>1, <2>2
<1>8. FinalIsArchived'
  BY <1>1 DEF SettledInv, FinalIsArchived, TakenOnce, Round!Contract!InState,
     Round!Contract!Exists
<1>9. SenderHasArchived'
  BY <1>1, <1>2, <1>3 DEF SettledInv, SenderHasArchived
<1>10. SoldIsArchived'
  <2> SUFFICES ASSUME NEW q \in Run
               PROVE  SoldOf(q)'
    BY DEF SoldIsArchived
  <2>1. SoldOf(q)
    BY DEF SettledInv, SoldIsArchived
  <2>2. CASE q = r
    BY <1>1, <2>1, <2>2 DEF SoldOf
  <2>3. CASE q # r
    BY <1>1, <1>2, <2>1, <2>3 DEF SoldOf
  <2> QED BY <2>2, <2>3
<1> QED BY <1>6, <1>7, <1>8, <1>9, <1>10 DEF SettledInv

-----------------------------------------------------------------------------
(* What is sold is what the chain decides: every step *)

\* A request begins: its run has neither proposal nor result.
LEMMA SettledBegins ==
  ASSUME SaleInv, SettledInv, NEW r \in Run, Begin(r)
  PROVE  SettledInv'
<1>1. /\ run[r].pc = "idle" /\ verdict[r] = NoVerdict
      /\ UNCHANGED <<archive, takers, current_proposal_id, proposals, resumes>>
  BY DEF Begin, At, SaleInv, SaleOf, contractVars, boardVars, startVars
<1>2. /\ run'[r].pc = "discovering"
      /\ \A q \in Run : q # r => run'[q] = run[q] /\ verdict'[q] = verdict[q]
  BY DEF Begin, SaleInv, Shapes, Function, IdleRun, saleVars
<1>3. verdict'[r].nearProposalId = 0
  BY <1>1 DEF Begin, SaleInv, Shapes, saleVars, NoVerdict
<1>4. NoNewResult
  BY <1>1, ChainStands
<1>5. ResultsOfSenders'
  <2> SUFFICES ASSUME NEW id \in ProposalId, HasResult(id)'
               PROVE  /\ id <= current_proposal_id'
                      /\ \E q \in Run : /\ q \in takers'[id]
                                        /\ run'[q].pc \in {"resumed", "returned", "lost"}
                                        /\ verdict'[q].status # "failed"
    BY DEF ResultsOfSenders
  <2>1. HasResult(id)
    BY <1>4, OldResults
  <2>2. id <= current_proposal_id'
    BY <1>1, <2>1 DEF SettledInv, ResultsOfSenders
  <2>3. PICK q \in Run : /\ q \in takers[id]
                         /\ run[q].pc \in {"resumed", "returned", "lost"}
                         /\ verdict[q].status # "failed"
    BY <2>1 DEF SettledInv, ResultsOfSenders
  <2>4. q # r
    BY <1>1, <2>3
  <2> QED BY <1>1, <1>2, <2>2, <2>3, <2>4
<1>6. SentIsArchived' /\ FinalIsArchived'
  BY <1>1, <1>4 DEF SettledInv, SentIsArchived, FinalIsArchived, NoNewResult, TakenOnce
<1>7. SenderHasArchived'
  BY <1>1, <1>2 DEF SettledInv, SenderHasArchived
<1>8. SoldIsArchived'
  BY <1>1, <1>2, <1>3 DEF SettledInv, SoldIsArchived, SoldOf
<1> QED BY <1>5, <1>6, <1>7, <1>8 DEF SettledInv

\* A new proposal has no result, and nobody has sold it.
LEMMA SettledStarts ==
  ASSUME TakenInv, TypeInv, SettledInv, NEW r \in Run, StartLands(r)
  PROVE  SettledInv'
<1> DEFINE new == current_proposal_id + 1
           p == [state |-> "Created", config_hash |-> run[r].config,
                 expected_worker_count |-> startTx[r],
                 worker_submissions |-> << >>, finalized_result |-> NoAnswer]
<1>1. /\ new \in ProposalId /\ current_proposal_id' = new
      /\ proposals' = [proposals EXCEPT ![new] = p]
      /\ UNCHANGED <<run, verdict, archive, resumes, takers>>
  BY DEF StartLands, Round!Contract!start_coordination, Round!Contract!ProposalId, ProposalId,
     boardVars, saleVars
<1>2. /\ current_proposal_id \in Nat /\ \A i \in ProposalId : i \in Nat
      /\ ProposalId = DOMAIN proposals
  BY ContractTypes DEF TypeInv, MarginsTyped, ProposalId
<1>3. p.state = "Created" /\ proposals'[new] = p
  BY <1>1, <1>2
<1> HIDE DEF p
<1>4. /\ new > current_proposal_id
      /\ \A i \in ProposalId : i <= current_proposal_id => i <= new /\ i # new
  BY <1>2
<1> HIDE DEF new
<1>5. \A i \in ProposalId : i # new => proposals'[i] = proposals[i]
  BY <1>1, <1>2
<1>6. ASSUME NEW i \in ProposalId, Round!Contract!InState(i, "Finalized")'
      PROVE  /\ Round!Contract!InState(i, "Finalized")
             /\ proposals'[i] = proposals[i]
  <2>1. i # new
    BY <1>3, <1>6 DEF Round!Contract!InState
  <2> QED BY <1>5, <1>6, <2>1 DEF Round!Contract!InState, Round!Contract!Exists
<1>7. ResultsOfSenders'
  <2> SUFFICES ASSUME NEW i \in ProposalId, HasResult(i)'
               PROVE  /\ i <= current_proposal_id'
                      /\ \E q \in Run : /\ q \in takers'[i]
                                        /\ run'[q].pc \in {"resumed", "returned", "lost"}
                                        /\ verdict'[q].status # "failed"
    BY DEF ResultsOfSenders
  <2>1. HasResult(i)
    BY <1>1, <1>6 DEF HasResult
  <2>2. i <= current_proposal_id
    BY <2>1 DEF SettledInv, ResultsOfSenders
  <2>3. PICK q \in Run : /\ q \in takers[i]
                         /\ run[q].pc \in {"resumed", "returned", "lost"}
                         /\ verdict[q].status # "failed"
    BY <2>1 DEF SettledInv, ResultsOfSenders
  <2> QED BY <1>1, <1>4, <1>5, <2>2, <2>3
<1>8. SentIsArchived' /\ FinalIsArchived'
  BY <1>1, <1>6 DEF SettledInv, SentIsArchived, FinalIsArchived, TakenOnce
<1>9. SenderHasArchived'
  BY <1>1 DEF SettledInv, SenderHasArchived
<1>10. SoldIsArchived'
  <2> SUFFICES ASSUME NEW q \in Run
               PROVE  SoldOf(q)'
    BY DEF SoldIsArchived
  <2>1. SoldOf(q)
    BY DEF SettledInv, SoldIsArchived
  <2> QED BY <1>1, <1>4, <1>5, <2>1 DEF SoldOf
<1> QED BY <1>7, <1>8, <1>9, <1>10 DEF SettledInv

\* Recorded submissions are no result.
LEMMA RecordsNoResult ==
  ASSUME TypeInv, NEW id \in ProposalId, NEW subs,
         Round!Contract!record_worker_submissions(Coordinator, id, subs)
  PROVE  NoNewResult
<1>1. /\ proposals' = [proposals EXCEPT
           ![id].worker_submissions = Round!Contract!Recorded(id, subs),
           ![id].state = "WorkersCompleted"]
      /\ UNCHANGED <<resumes, current_proposal_id>>
      /\ Round!Contract!Exists(id)
  BY DEF Round!Contract!record_worker_submissions, Round!Contract!RecordAccepted,
     Round!Contract!InState
<1>2. proposals[id] \in Round!Contract!Proposal /\ ProposalId = DOMAIN proposals
  BY <1>1, ProposalTyped, ContractTypes DEF TypeInv
<1>3. proposals'[id].state = "WorkersCompleted"
  BY <1>1, <1>2 DEF Round!Contract!Proposal
<1>4. \A i \in ProposalId : i # id => proposals'[i] = proposals[i]
  BY <1>1, <1>2
<1>5. ASSUME NEW i \in ProposalId, Round!Contract!InState(i, "Finalized")'
      PROVE  /\ Round!Contract!InState(i, "Finalized")
             /\ proposals'[i].finalized_result = proposals[i].finalized_result
  <2>1. i # id
    BY <1>3, <1>5 DEF Round!Contract!InState
  <2> QED BY <1>4, <1>5, <2>1 DEF Round!Contract!InState, Round!Contract!Exists
<1> QED BY <1>1, <1>5 DEF NoNewResult

\* What a callback delivers is on chain then: it was on its way before, and archived.
LEMMA SettledDelivers ==
  ASSUME TypeInv, SettledInv, NEW x \in resumes, Round!Contract!DeliverResume(x),
         UNCHANGED <<run, verdict, archive, takers>>
  PROVE  SettledInv'
<1>1. PICK id \in ProposalId : id = x.id
  BY ContractTypes DEF TypeInv, Round!Contract!Resume, Round!Contract!ProposalId, ProposalId
<1>2. /\ resumes' \subseteq resumes /\ UNCHANGED current_proposal_id
      /\ Round!Contract!return_coordination_result(id, x)
  BY <1>1 DEF Round!Contract!DeliverResume
<1>3. DOMAIN proposals = ProposalId
  BY ContractTypes DEF TypeInv
<1>4. \A i \in ProposalId : i # id => proposals'[i] = proposals[i]
  BY <1>2, <1>3 DEF Round!Contract!return_coordination_result
<1>5. CASE x.value # NoAnswer /\ Round!Contract!Exists(id)
  <2>1. /\ proposals[id] \in Round!Contract!Proposal
        /\ proposals' = [proposals EXCEPT ![id].state = "Finalized",
                                          ![id].finalized_result = x.value]
    BY <1>2, <1>5, ProposalTyped DEF TypeInv, Round!Contract!return_coordination_result
  <2>2. proposals'[id].finalized_result = x.value
    BY <1>3, <2>1 DEF Round!Contract!Proposal
  <2>3. HasResult(id) /\ (TakenOnce(id) => x.value = Round!OnChainOf(archive[id]))
    BY <1>1, <1>5 DEF HasResult, SettledInv, SentIsArchived
  <2>4. ASSUME NEW i \in ProposalId, HasResult(i)'
        PROVE  HasResult(i)
    <3>1. CASE i = id
      BY <2>3, <3>1
    <3>2. CASE i # id
      BY <1>2, <1>4, <2>4, <3>2 DEF HasResult, Round!Contract!InState, Round!Contract!Exists
    <3> QED BY <3>1, <3>2
  <2>5. ResultsOfSenders'
    BY <1>2, <2>4 DEF SettledInv, ResultsOfSenders
  <2>6. SentIsArchived'
    BY <1>2 DEF SettledInv, SentIsArchived, TakenOnce
  <2>7. FinalIsArchived'
    <3> SUFFICES ASSUME NEW i \in ProposalId, Round!Contract!InState(i, "Finalized")',
                        TakenOnce(i)
                 PROVE  proposals'[i].finalized_result = Round!OnChainOf(archive[i])
      BY DEF FinalIsArchived, TakenOnce
    <3>1. CASE i = id
      BY <2>2, <2>3, <3>1
    <3>2. CASE i # id
      BY <1>4, <3>2 DEF SettledInv, FinalIsArchived, Round!Contract!InState,
         Round!Contract!Exists
    <3> QED BY <3>1, <3>2
  <2>8. SenderHasArchived' /\ SoldIsArchived'
    BY <1>2 DEF SettledInv, SenderHasArchived, SoldIsArchived, SoldOf
  <2> QED BY <2>5, <2>6, <2>7, <2>8 DEF SettledInv
<1>6. CASE x.value = NoAnswer \/ ~Round!Contract!Exists(id)
  <2>1. \/ UNCHANGED proposals
        \/ /\ proposals' = [proposals EXCEPT ![id].state = "TimedOut"]
           /\ Round!Contract!Exists(id)
    BY <1>2, <1>6 DEF Round!Contract!return_coordination_result
  <2>2. Round!Contract!InState(id, "Finalized")' => proposals' = proposals
    <3>1. CASE /\ proposals' = [proposals EXCEPT ![id].state = "TimedOut"]
               /\ Round!Contract!Exists(id)
      <4>1. proposals[id] \in Round!Contract!Proposal
        BY <3>1, ProposalTyped DEF TypeInv
      <4>2. proposals'[id].state = "TimedOut"
        BY <1>3, <3>1, <4>1 DEF Round!Contract!Proposal
      <4> QED BY <4>2 DEF Round!Contract!InState
    <3> QED BY <2>1, <3>1
  <2>3. ASSUME NEW i \in ProposalId, Round!Contract!InState(i, "Finalized")'
        PROVE  /\ Round!Contract!InState(i, "Finalized")
               /\ proposals'[i].finalized_result = proposals[i].finalized_result
    BY <1>4, <2>2, <2>3 DEF Round!Contract!InState, Round!Contract!Exists
  <2>4. NoNewResult
    BY <1>2, <2>3 DEF NoNewResult
  <2> QED BY <2>4, SettledStands
<1> QED BY <1>5, <1>6

\* The network times out, or runs the callback.
LEMMA SettledRuntime ==
  ASSUME TypeInv, SettledInv, Runtime
  PROVE  SettledInv'
<1>1. UNCHANGED <<run, verdict, archive, takers>>
  BY DEF Runtime, boardVars, startVars, saleVars
<1>2. ASSUME NEW id \in ProposalId, Round!Contract!YieldTimeout(id)
      PROVE  SettledInv'
  <2>1. /\ resumes' = resumes \cup {[id |-> id, value |-> NoAnswer]}
        /\ UNCHANGED <<proposals, current_proposal_id>>
    BY <1>2 DEF Round!Contract!YieldTimeout
  <2>2. NoNewResult
    BY <2>1 DEF NoNewResult, Round!Contract!InState, Round!Contract!Exists
  <2> QED BY <1>1, <2>2, SettledStands
<1>3. ASSUME NEW x \in resumes, Round!Contract!DeliverResume(x)
      PROVE  SettledInv'
  BY <1>1, <1>3, SettledDelivers
<1> QED BY <1>2, <1>3 DEF Runtime, Round!Contract!Runtime, Round!Contract!ProposalId, ProposalId

\* A restart forgets the verdicts; what was sent was sent.
LEMMA SettledCrash ==
  ASSUME SettledInv, Crash
  PROVE  SettledInv'
<1>1. /\ run' = [r \in Run |-> IF Over(r) THEN run[r] ELSE End(r, "lost")]
      /\ verdict' = [r \in Run |-> NoVerdict]
      /\ UNCHANGED <<archive, takers, current_proposal_id, proposals, resumes>>
  BY DEF Crash, contractVars, boardVars, startVars
<1>2. \A r \in Run : End(r, "lost").pc = "lost"
  BY DEF End, IdleRun
<1>3. NoVerdict.status = "none" /\ NoVerdict.nearProposalId = 0
  BY DEF NoVerdict
<1>4. NoNewResult
  BY <1>1, ChainStands
<1>5. ResultsOfSenders'
  <2> SUFFICES ASSUME NEW id \in ProposalId, HasResult(id)'
               PROVE  /\ id <= current_proposal_id'
                      /\ \E q \in Run : /\ q \in takers'[id]
                                        /\ run'[q].pc \in {"resumed", "returned", "lost"}
                                        /\ verdict'[q].status # "failed"
    BY DEF ResultsOfSenders
  <2>1. HasResult(id)
    BY <1>4, OldResults
  <2>2. id <= current_proposal_id'
    BY <1>1, <2>1 DEF SettledInv, ResultsOfSenders
  <2>3. PICK q \in Run : /\ q \in takers[id]
                         /\ run[q].pc \in {"resumed", "returned", "lost"}
    BY <2>1 DEF SettledInv, ResultsOfSenders
  <2>4. run'[q].pc \in {"resumed", "returned", "lost"}
    BY <1>1, <1>2, <2>3
  <2> QED BY <1>1, <1>3, <2>2, <2>3, <2>4
<1>6. SentIsArchived' /\ FinalIsArchived'
  BY <1>1, <1>4 DEF SettledInv, SentIsArchived, FinalIsArchived, NoNewResult, TakenOnce
<1>7. SenderHasArchived'
  <2>1. \A r \in Run : run'[r].pc \in {"resuming", "resumed"} => FALSE
    BY <1>1, <1>2 DEF Over
  <2> QED BY <2>1 DEF SenderHasArchived
<1>8. SoldIsArchived'
  BY <1>1, <1>3 DEF SoldIsArchived, SoldOf
<1> QED BY <1>5, <1>6, <1>7, <1>8 DEF SettledInv

\* A run takes a proposal: if no other has, nothing has been sent or sold of it.
LEMMA SettledDetects ==
  ASSUME TakenInv, TypeInv, SettledInv, NEW r \in Run, DetectProposal(r)
  PROVE  SettledInv'
<1>1. PICK id \in View(current_proposal_id, 0) : id > run[r].before /\ Take(r, id)
  BY DEF DetectProposal
<1>2. /\ run[r].pc = "detecting"
      /\ UNCHANGED <<verdict, archive, current_proposal_id, proposals, resumes>>
  BY DEF DetectProposal, At, contractVars, boardVars, saleVars
<1>3. run'[r].pc = "snapshot" /\ \A q \in Run : q # r => run'[q] = run[q]
  BY <1>1 DEF Take, TakenInv, Shapes, Function, IdleRun
<1>4. \A i \in ProposalId : /\ takers[i] \subseteq takers'[i]
                            /\ takers'[i] = takers[i] \/ (i = id /\ takers'[i] = takers[i] \cup {r})
  BY <1>1 DEF Take, TypeInv, MarginsTyped
<1>5. \A i \in ProposalId : HasResult(i)' => HasResult(i)
  BY <1>2, ChainStands, OldResults
<1>6. ASSUME NEW i \in ProposalId, TakenOnce(i)', HasResult(i)
      PROVE  TakenOnce(i)
  <2>1. PICK q \in Run : q \in takers[i] /\ run[q].pc \in {"resumed", "returned", "lost"}
    BY <1>6 DEF SettledInv, ResultsOfSenders
  <2>2. q # r
    BY <1>2, <2>1
  <2> QED BY <1>4, <1>6, <2>1, <2>2 DEF TakenOnce
<1>7. ResultsOfSenders'
  BY <1>2, <1>3, <1>4, <1>5 DEF SettledInv, ResultsOfSenders
<1>8. SentIsArchived'
  <2> SUFFICES ASSUME NEW x \in resumes, x.value # NoAnswer, TakenOnce(x.id)'
               PROVE  x.value = Round!OnChainOf(archive[x.id])
    BY <1>2 DEF SentIsArchived, TakenOnce
  <2>1. x.id \in ProposalId
    BY ContractTypes DEF TypeInv, Round!Contract!Resume, Round!Contract!ProposalId, ProposalId
  <2> QED BY <1>6, <2>1 DEF HasResult, SettledInv, SentIsArchived
<1>9. FinalIsArchived'
  <2> SUFFICES ASSUME NEW i \in ProposalId, Round!Contract!InState(i, "Finalized")',
                      TakenOnce(i)'
               PROVE  proposals[i].finalized_result = Round!OnChainOf(archive[i])
    BY <1>2 DEF FinalIsArchived
  <2>1. Round!Contract!InState(i, "Finalized")
    BY <1>2 DEF Round!Contract!InState, Round!Contract!Exists
  <2> QED BY <1>6, <2>1 DEF HasResult, SettledInv, FinalIsArchived
<1>10. SenderHasArchived'
  <2> SUFFICES ASSUME NEW q \in Run, run'[q].pc \in {"resuming", "resumed"},
                      takers'[run'[q].id] = {q}
               PROVE  archive[run'[q].id] = run'[q].tally
    BY <1>2 DEF SenderHasArchived
  <2>1. q # r /\ run'[q] = run[q]
    BY <1>3
  <2>2. run[q].id \in ProposalId /\ q \in takers[run[q].id]
    BY <2>1 DEF TypeInv, RunsTyped, RunTyped, TakenInv, HasTaken
  <2>3. takers[run[q].id] = {q}
    BY <1>4, <2>1, <2>2
  <2> QED BY <2>1, <2>3 DEF SettledInv, SenderHasArchived
<1>11. SoldIsArchived'
  <2> SUFFICES ASSUME NEW q \in Run, verdict[q].nearProposalId # 0
               PROVE  SoldOf(q)'
    BY <1>2 DEF SoldIsArchived, SoldOf
  <2>1. SoldOf(q) /\ run[q].pc = "returned"
    BY DEF SettledInv, SoldIsArchived, SoldOf
  <2>2. q # r /\ run'[q] = run[q]
    BY <1>2, <1>3, <2>1
  <2> QED BY <1>2, <1>4, <2>1, <2>2 DEF SoldOf
<1> QED BY <1>7, <1>8, <1>9, <1>10, <1>11 DEF SettledInv

\* The steps of a run that neither return, nor archive, nor send a result.
LEMMA SettledGoesOn ==
  ASSUME TakenInv, TypeInv, SettledInv, NEW r \in Run,
         \/ PublishTask(r)
         \/ \E w \in Worker : ResetStatus(r, w) \/ Dispatch(r, w) \/ MarkUnreachable(r, w)
         \/ DetectTimeout(r) \/ TakeSnapshot(r)
         \/ AllDone(r) \/ ReadResults(r)
         \/ localRecordWorkerSubmissions(r) \/ aggregateResults(r)
  PROVE  SettledInv'
<1>1. UNCHANGED <<verdict, archive, takers>>
  BY DEF PublishTask, ResetStatus, Dispatch, MarkUnreachable, DetectTimeout,
     TakeSnapshot, AllDone, ReadResults, localRecordWorkerSubmissions, aggregateResults,
     boardVars, startVars, saleVars
<1>2. run[r].pc \notin {"resumed", "returned", "lost"}
  BY DEF PublishTask, ResetStatus, Dispatch, MarkUnreachable, DetectTimeout,
     TakeSnapshot, AllDone, ReadResults, localRecordWorkerSubmissions, aggregateResults, At
<1>3. NoNewResult
  <2>1. CASE localRecordWorkerSubmissions(r)
    <3>1. run[r].id \in ProposalId
      <4>1. run[r].id # 0
        BY <2>1 DEF localRecordWorkerSubmissions, At, TypeInv, RunsTyped, RunTyped
      <4> QED BY <4>1 DEF TakenInv, HasTaken
    <3>2. \/ Round!Contract!record_worker_submissions(Coordinator, run[r].id, run[r].submissions)
          \/ UNCHANGED contractVars
      BY <2>1 DEF localRecordWorkerSubmissions, Call
    <3> QED BY <3>1, <3>2, RecordsNoResult, ChainStands DEF contractVars
  <2>2. CASE UNCHANGED contractVars
    BY <2>2, ChainStands DEF contractVars
  <2> QED BY <2>1, <2>2 DEF PublishTask, ResetStatus, Dispatch, MarkUnreachable,
          DetectTimeout, TakeSnapshot, AllDone, ReadResults, aggregateResults
<1>4. \A q \in Run : q # r => run'[q] = run[q]
  <2>1. Advance(r) /\ Shapes
    BY DEF Advance, TakenInv
  <2>2. OthersStay(r)
    BY <2>1, AdvanceKinds DEF Quiet, Sends, Detects, Returns
  <2> QED BY <2>2 DEF OthersStay
<1>5. run'[r].pc \notin {"resuming", "resumed"}
  <2>0. r \in DOMAIN run /\ "pc" \in DOMAIN run[r] /\ Function(run) /\ Function(run[r])
    BY DEF TakenInv, Shapes, IdleRun
  <2>1. CASE PublishTask(r)
    BY <2>0, <2>1 DEF PublishTask, Goto
  <2>2. ASSUME NEW w \in Worker, ResetStatus(r, w)
        PROVE  run'[r].pc \notin {"resuming", "resumed"}
    <3>1. PICK pc, todo : /\ run' = [run EXCEPT ![r].pc = pc, ![r].todo = todo]
                          /\ pc \in {"dispatching", run[r].pc}
      BY <2>2 DEF ResetStatus
    <3>2. run[r].pc = "resetting"
      BY <2>2 DEF ResetStatus, At
    <3> QED BY <2>0, <3>1, <3>2
  <2>3. ASSUME NEW w \in Worker, Dispatch(r, w)
        PROVE  run'[r].pc \notin {"resuming", "resumed"}
    <3>1. \/ run' = [run EXCEPT ![r].todo = @ \ {w}]
          \/ run' = [run EXCEPT ![r].todo = @ \ {w}, ![r].dropped = @ \cup {w}]
      BY <2>3 DEF Dispatch
    <3>2. run[r].pc = "dispatching"
      BY <2>3 DEF Dispatch, At
    <3> QED BY <2>0, <3>1, <3>2
  <2>4. ASSUME NEW w \in Worker, MarkUnreachable(r, w)
        PROVE  run'[r].pc \notin {"resuming", "resumed"}
    <3>1. /\ run' = [run EXCEPT ![r].dropped = @ \ {w}, ![r].workers = @ \ {w}]
          /\ run[r].pc = "dispatching"
      BY <2>4 DEF MarkUnreachable, At
    <3> QED BY <2>0, <3>1
  <2>6. CASE DetectTimeout(r) \/ TakeSnapshot(r) \/ AllDone(r) \/ localRecordWorkerSubmissions(r)
    BY <2>0, <2>6 DEF DetectTimeout, TakeSnapshot, AllDone, localRecordWorkerSubmissions, Goto
  <2>7. CASE ReadResults(r)
    <3>1. PICK subs : run' = [run EXCEPT ![r].pc = "recording", ![r].submissions = subs]
      BY <2>7 DEF ReadResults
    <3> QED BY <2>0, <3>1
  <2>8. CASE aggregateResults(r)
    <3>1. PICK tally : run' = [run EXCEPT ![r].pc = "archiving", ![r].tally = tally]
      BY <2>8 DEF aggregateResults
    <3> QED BY <2>0, <3>1
  <2> QED BY <2>1, <2>2, <2>3, <2>4, <2>6, <2>7, <2>8
<1> QED BY <1>1, <1>2, <1>3, <1>4, <1>5, SettledMoves

\* The steps that may take it to its end.
LEMMA SettledEnds ==
  ASSUME TakenInv, SaleInv, TypeInv, SettledInv, NEW r \in Run,
         \/ getActiveWorkers(r) \/ localStartCoordination(r) \/ WaitTimeout(r)
         \/ archiveProposal(r) /\ run[r].id = 0
         \/ Complete(r)
  PROVE  SettledInv'
<1>1. UNCHANGED <<archive, takers, current_proposal_id, proposals, resumes>>
  BY DEF getActiveWorkers, localStartCoordination, WaitTimeout, archiveProposal, Complete,
     contractVars, boardVars, startVars
<1>2. RunTyped(r) /\ Shapes
  BY DEF TypeInv, RunsTyped, SaleInv
<1>3. CASE Return(r, NoTally) /\ (getActiveWorkers(r) \/ localStartCoordination(r) \/ WaitTimeout(r))
  <2>1. run[r].pc \in {"discovering", "dispatching", "waiting"}
    BY <1>3 DEF getActiveWorkers, localStartCoordination, WaitTimeout, At
  <2> QED BY <1>1, <1>3, <2>1, SettledReturns DEF Over
<1>4. CASE archiveProposal(r) /\ run[r].id = 0
  <2>1. run[r].pc = "archiving" /\ Return(r, run[r].tally)
    BY <1>4 DEF archiveProposal, At
  <2>2. run[r].tally.proposalId = 0
    BY <1>2, <1>4, <2>1 DEF RunTyped, Counted
  <2> QED BY <1>1, <2>1, <2>2, SettledReturns DEF Over
<1>5. CASE Complete(r)
  <2>1. run[r].pc = "resumed" /\ Return(r, run[r].tally)
    BY <1>5 DEF Complete, At
  <2>2. /\ run[r].tally.proposalId = run[r].id
        /\ run[r].tally \in Round!Tally
    BY <1>2, <2>1 DEF RunTyped, Counted
  <2>3. run[r].tally # NoTally
    BY <2>2, ShownTyped
  <2> QED BY <1>1, <2>1, <2>2, <2>3, SettledReturns DEF Over
<1>6. ASSUME NEW W, run' = [run EXCEPT ![r].pc = "publishing", ![r].workers = W, ![r].todo = W],
             getActiveWorkers(r), UNCHANGED verdict
      PROVE  SettledInv'
  <2>1. run[r].pc = "discovering"
    BY <1>6 DEF getActiveWorkers, At
  <2>2. run'[r].pc = "publishing" /\ \A q \in Run : q # r => run'[q] = run[q]
    BY <1>2, <1>6 DEF Shapes, Function, IdleRun
  <2> QED BY <1>1, <1>6, <2>1, <2>2, ChainStands, SettledMoves
<1>7. ASSUME NEW seen, run' = [run EXCEPT ![r].pc = "detecting", ![r].before = seen],
             localStartCoordination(r), UNCHANGED verdict
      PROVE  SettledInv'
  <2>1. run[r].pc = "dispatching"
    BY <1>7 DEF localStartCoordination, At
  <2>2. run'[r].pc = "detecting" /\ \A q \in Run : q # r => run'[q] = run[q]
    BY <1>2, <1>7 DEF Shapes, Function, IdleRun
  <2> QED BY <1>1, <1>7, <2>1, <2>2, ChainStands, SettledMoves
<1>8. CASE getActiveWorkers(r)
  <2>1. PICK W \in Found :
          \/ Return(r, NoTally)
          \/ /\ run' = [run EXCEPT ![r].pc = "publishing", ![r].workers = W, ![r].todo = W]
             /\ UNCHANGED saleVars
    BY <1>8 DEF getActiveWorkers
  <2> QED BY <1>3, <1>6, <1>8, <2>1 DEF saleVars
<1>9. CASE localStartCoordination(r)
  <2>1. \/ Return(r, NoTally)
        \/ /\ \E seen \in View(current_proposal_id, 0) :
                run' = [run EXCEPT ![r].pc = "detecting", ![r].before = seen]
           /\ UNCHANGED saleVars
    BY <1>9 DEF localStartCoordination
  <2> QED BY <1>3, <1>7, <1>9, <2>1 DEF saleVars
<1>10. CASE WaitTimeout(r)
  BY <1>3, <1>10 DEF WaitTimeout
<1> QED BY <1>4, <1>5, <1>8, <1>9, <1>10

\* Every step keeps what is sold together with what the chain decides.
LEMMA SettledNext ==
  ASSUME TakenInv, SaleInv, TypeInv, SettledInv, [Next]_vars
  PROVE  SettledInv'
<1>1. ASSUME NEW r \in Run, Begin(r)
      PROVE  SettledInv'
  BY <1>1, SettledBegins
<1>2. ASSUME NEW r \in Run, Advance(r)
      PROVE  SettledInv'
  <2>1. CASE \/ PublishTask(r)
             \/ \E w \in Worker : ResetStatus(r, w) \/ Dispatch(r, w) \/ MarkUnreachable(r, w)
             \/ DetectTimeout(r) \/ TakeSnapshot(r)
             \/ AllDone(r) \/ ReadResults(r)
             \/ localRecordWorkerSubmissions(r) \/ aggregateResults(r)
    BY <2>1, SettledGoesOn
  <2>2. CASE archiveProposal(r) /\ run[r].id # 0
    BY <2>2, SettledArchives
  <2>3. CASE localCoordinatorResume(r)
    BY <2>3, SettledSends
  <2>4. CASE \/ getActiveWorkers(r) \/ localStartCoordination(r) \/ WaitTimeout(r)
             \/ archiveProposal(r) /\ run[r].id = 0
             \/ Complete(r)
    BY <2>4, SettledEnds
  <2>5. CASE DetectProposal(r)
    BY <2>5, SettledDetects
  <2> QED BY <1>2, <2>1, <2>2, <2>3, <2>4, <2>5 DEF Advance
<1>3. ASSUME NEW r \in Run, StartLands(r)
      PROVE  SettledInv'
  BY <1>3, SettledStarts
<1>4. ASSUME NEW r \in Run,
             StartLost(r) \/ AwaitExpires(r) \/ PollVerdict(r) \/ GiveUp(r)
      PROVE  SettledInv'
  <2>1. UNCHANGED <<run, verdict, archive, takers, current_proposal_id, proposals, resumes>>
    BY <1>4 DEF StartLost, AwaitExpires, PollVerdict, GiveUp, contractVars, boardVars, startVars,
       saleVars
  <2> QED BY <2>1, ChainStands, SettledStands
<1>5. CASE (\E w \in Worker : WorkerStep(w)) \/ UNCHANGED vars
  <2>1. UNCHANGED <<run, verdict, archive, takers, current_proposal_id, proposals, resumes>>
    BY <1>5 DEF WorkerStep, vars, contractVars, boardVars, startVars, saleVars
  <2> QED BY <2>1, ChainStands, SettledStands
<1>6. CASE Runtime
  BY <1>6, SettledRuntime
<1>7. CASE Crash
  BY <1>7, SettledCrash
<1> QED BY <1>1, <1>2, <1>3, <1>4, <1>5, <1>6, <1>7 DEF Next

\* At first there is neither result nor verdict.
LEMMA SettledInit == Init => SettledInv
BY DEF Init, IdleRun, NoVerdict, SettledInv, ResultsOfSenders, TakenOnce, HasResult, SentIsArchived,
   FinalIsArchived, SenderHasArchived, SoldIsArchived, SoldOf, Round!Contract!InState,
   Round!Contract!Exists

\* What the invariants say of buyers and chain.
LEMMA SettledFollows ==
  ASSUME OwnInv, SaleInv, TypeInv, SettledInv, Round!PartsKeepTheirWord
  PROVE  LocalInv
<1>1. TypeOK
  BY TypeFollows
<1>2. OwnProposal
  BY DEF OwnInv, HasItsOwn, OwnProposal
<1>3. VerdictAgreesWithChain
  BY DEF SettledInv, SoldIsArchived, SoldOf, FinalIsArchived, TakenOnce, VerdictAgreesWithChain
<1>4. FailedStaysUndecided
  BY DEF HasResult, SettledInv, ResultsOfSenders, FailedStaysUndecided
<1>5. ToldIsRecorded
  BY DEF SaleInv, SaleOf, ToldIsRecorded, Terminal
<1> QED BY <1>1, <1>2, <1>3, <1>4, <1>5 DEF LocalInv

-----------------------------------------------------------------------------
(* The parts inside the whole *)

\* The contract as a component of its own, with what is proved of it: there a
\* coordinator may send any list of submissions and ask for any number of workers.
Chain == INSTANCE CoordinatorContractProofs WITH
  Account <- {Coordinator}, Codehash <- {Code}, WorkerId <- Worker,
  Result <- Round!OnChain, Batches <- Seq(Submission),
  ExpectedCounts <- 0 .. Cardinality(Worker), NoResult <- NoAnswer

\* The workers as a component of their own, which lose no writes.
Voters == INSTANCE WorkerAgentProofs WITH Vote <- Round!Vote, EnsueMayFail <- FALSE

\* The constants of the runs are fit for both.
LEMMA PartsAssumptions == Chain!ContractAssumption /\ Voters!WorkerAssumption
<1>1. 0 .. Cardinality(Worker) \subseteq 0 .. Chain!U8 - 1
  <2>1. Cardinality(Worker) \in Nat /\ Cardinality(Worker) < Round!Contract!U8
    BY LocalAssumption, FS_CardinalityType DEF LocalAssumption
  <2> QED BY <2>1 DEF Round!Contract!U8, Chain!U8
<1>2. \A b \in Seq(Submission) : b \in Seq(Submission)
  OBVIOUS
<1> QED BY <1>1, <1>2, LocalAssumption
        DEF LocalAssumption, Chain!ContractAssumption, Voters!WorkerAssumption,
            Round!Contract!Proposal, Chain!Proposal, Round!Contract!RegisteredWorker,
            Chain!RegisteredWorker, Round!Agent!ResultValue, Voters!ResultValue,
            Round!Contract!U8, Chain!U8, Submission

\* A start call that lands is a request for as many workers as were dispatched.
LEMMA LandsIsCall ==
  ASSUME TypeInv, NEW r \in Run, StartLands(r)
  PROVE  Chain!Next
<1> DEFINE c == run[r].config
           n == startTx[r]
<1>1. c \in Config /\ n \in 0 .. Cardinality(Worker)
  BY DEF TypeInv, RunsTyped, RunTyped, StartLands
<1>2. Round!Contract!start_coordination(c, n)
  BY DEF StartLands
<1> HIDE DEF c, n
<1>3. Chain!start_coordination(c, n)
  BY <1>2 DEF Round!Contract!start_coordination, Round!Contract!ProposalId,
     Round!Contract!adminVars, Chain!start_coordination, Chain!ProposalId, Chain!adminVars
<1> QED BY <1>1, <1>3 DEF Chain!Next

\* A recording taken by the contract is one of its calls.
LEMMA RecordIsCall ==
  ASSUME NEW id \in ProposalId, NEW subs \in Seq(Submission),
         Round!Contract!record_worker_submissions(Coordinator, id, subs)
  PROVE  Chain!Next
<1>1. Chain!record_worker_submissions(Coordinator, id, subs)
  BY Zenon DEF Round!Contract!record_worker_submissions, Round!Contract!RecordAccepted,
     Round!Contract!require_approved_codehash, Round!Contract!InState, Round!Contract!Exists,
     Round!Contract!Recorded, Round!Contract!AlreadySubmitted, Round!Contract!adminVars,
     Round!Contract!U8,
     Chain!record_worker_submissions, Chain!RecordAccepted, Chain!require_approved_codehash,
     Chain!InState, Chain!Exists, Chain!Recorded, Chain!AlreadySubmitted, Chain!adminVars,
     Chain!U8
<1>2. Chain!Coordination(Coordinator, id)
  BY <1>1 DEF Chain!Coordination
<1> QED BY <1>2 DEF Chain!Next, Chain!ProposalId, ProposalId

\* So is a resume.
LEMMA ResumeIsCall ==
  ASSUME NEW id \in ProposalId, NEW v \in Round!OnChain, NEW c \in Config,
         Round!Contract!coordinator_resume(Coordinator, id, v, c)
  PROVE  Chain!Next
<1>1. Chain!coordinator_resume(Coordinator, id, v, c)
  BY DEF Round!Contract!coordinator_resume, Round!Contract!ResumeAccepted,
     Round!Contract!require_approved_codehash, Round!Contract!InState, Round!Contract!Exists,
     Round!Contract!PromiseYieldResume, Round!Contract!adminVars,
     Chain!coordinator_resume, Chain!ResumeAccepted, Chain!require_approved_codehash,
     Chain!InState, Chain!Exists, Chain!PromiseYieldResume, Chain!adminVars
<1>2. Chain!Coordination(Coordinator, id)
  BY <1>1 DEF Chain!Coordination
<1> QED BY <1>2 DEF Chain!Next, Chain!ProposalId, ProposalId

\* A run that goes on calls the contract, or leaves it alone.
LEMMA AdvanceIsCall ==
  ASSUME TypeInv, NEW r \in Run, Advance(r)
  PROVE  Chain!Next \/ UNCHANGED contractVars
<1>1. RunTyped(r)
  BY DEF TypeInv, RunsTyped
<1>2. CASE localRecordWorkerSubmissions(r)
  <2>1. run[r].id \in ProposalId /\ run[r].submissions \in Seq(Submission)
    BY <1>1, <1>2 DEF localRecordWorkerSubmissions, At, RunTyped, ProposalId
  <2>2. \/ Round!Contract!record_worker_submissions(Coordinator, run[r].id, run[r].submissions)
        \/ UNCHANGED contractVars
    BY <1>2 DEF localRecordWorkerSubmissions, Call
  <2> QED BY <2>1, <2>2, RecordIsCall
<1>3. CASE localCoordinatorResume(r)
  <2>1. run[r].id \in ProposalId /\ run[r].config \in Config /\ run[r].tally \in Round!Tally
    BY <1>1, <1>3 DEF localCoordinatorResume, At, RunTyped, Counted, ProposalId
  <2>2. Round!OnChainOf(run[r].tally) \in Round!OnChain
    BY <2>1, ShownTyped
  <2>3. \/ Round!Contract!coordinator_resume(Coordinator, run[r].id,
             Round!OnChainOf(run[r].tally), run[r].config)
        \/ UNCHANGED contractVars
    BY <1>3 DEF localCoordinatorResume, Call
  <2> QED BY <2>1, <2>2, <2>3, ResumeIsCall
<1> QED BY <1>2, <1>3, Zenon
        DEF Advance, getActiveWorkers, PublishTask, ResetStatus, Dispatch, MarkUnreachable,
            localStartCoordination, DetectProposal, DetectTimeout, TakeSnapshot, AllDone,
            WaitTimeout, ReadResults, aggregateResults, archiveProposal, Complete

\* Whatever the runs do, one after another or all together, is, seen from the
\* contract, a call that it allows, a step of the network, or nothing.
LEMMA NextIsCall == TypeInv /\ [Next]_vars => [Chain!Next]_(Chain!vars)
<1> SUFFICES ASSUME TypeInv, [Next]_vars
             PROVE  [Chain!Next]_(Chain!vars)
  OBVIOUS
<1>1. CASE UNCHANGED contractVars
  BY <1>1 DEF contractVars, Chain!vars
<1>2. ASSUME NEW r \in Run, Advance(r) \/ StartLands(r)
      PROVE  Chain!Next \/ UNCHANGED contractVars
  BY <1>2, AdvanceIsCall, LandsIsCall
<1>3. CASE Runtime
  <2>1. Round!Contract!Runtime
    BY <1>3 DEF Runtime
  <2>2. Chain!Runtime
    BY <2>1, Zenon DEF Round!Contract!Runtime, Round!Contract!YieldTimeout,
       Round!Contract!DeliverResume, Round!Contract!return_coordination_result,
       Round!Contract!Exists, Round!Contract!adminVars, Round!Contract!ProposalId,
       Chain!Runtime, Chain!YieldTimeout, Chain!DeliverResume,
       Chain!return_coordination_result, Chain!Exists, Chain!adminVars, Chain!ProposalId
  <2> QED BY <2>2 DEF Chain!Next
<1>4. ASSUME NEW r \in Run,
             Begin(r) \/ StartLost(r) \/ AwaitExpires(r) \/ PollVerdict(r) \/ GiveUp(r)
      PROVE  UNCHANGED contractVars
  BY <1>4, Zenon DEF Begin, StartLost, AwaitExpires, PollVerdict, GiveUp
<1>5. (\E w \in Worker : WorkerStep(w)) \/ Crash \/ UNCHANGED vars => UNCHANGED contractVars
  BY Zenon DEF WorkerStep, Crash, vars
<1> QED BY <1>1, <1>2, <1>3, <1>4, <1>5, Zenon DEF Next

\* The contract the owner has set up, before the first run.
LEMMA InitChain == Init => Chain!ContractInv
<1> SUFFICES ASSUME Init
             PROVE  Chain!ContractInv
  OBVIOUS
<1>1. Chain!TypeOK
  <2>1. Round!Contract!TypeOK
    BY TypeInit DEF TypeInv, ContractTyped
  <2> QED BY <2>1
          DEF Round!Contract!TypeOK, Round!Contract!RegisteredWorker,
              Round!Contract!ProposalId, Round!Contract!Proposal, Round!Contract!U8,
              Round!Contract!Resume, Chain!TypeOK, Chain!RegisteredWorker,
              Chain!ProposalId, Chain!Proposal, Chain!U8, Chain!Resume, Submission
<1>2. /\ current_proposal_id = 0 /\ resumes = {}
      /\ \A id \in ProposalId : proposals[id] = NoProposal /\ yields[id] = "none" /\ id > 0
  BY DEF Init, ProposalId
<1> QED BY <1>1, <1>2 DEF Chain!ContractInv, Chain!NullifierOnce,
           Chain!RecordAgreesWithPromise, Chain!ResultsFollowSubmissions, Chain!Exists,
           Chain!ProposalId, ProposalId

\* The contract's inductive invariant holds with the runs ...
LEMMA ChainInvariant == Spec => []Chain!ContractInv
<1>1. SaleInv /\ TypeInv /\ [Next]_vars => TypeInv'
  BY TypeNext
<1>2. Chain!ContractInv /\ TypeInv /\ [Next]_vars => Chain!ContractInv'
  <2>1. Chain!ContractInv /\ [Chain!Next]_(Chain!vars) => Chain!ContractInv'
    BY PartsAssumptions, Chain!NextInv
  <2> QED BY <2>1, NextIsCall
<1> QED BY <1>1, <1>2, SaleAlways, TypeInit, InitChain, PTL DEF Spec

\* ... and with it what the contract promises of its own state ...
LEMMA ChainPromises ==
  Chain!ContractInv => /\ Round!Contract!NullifierOnce
                       /\ Round!Contract!RecordAgreesWithPromise
                       /\ Round!Contract!ResultsFollowSubmissions
BY DEF Chain!ContractInv, Chain!NullifierOnce, Chain!RecordAgreesWithPromise,
   Chain!ResultsFollowSubmissions, Chain!ProposalId, Chain!Unsettled, Chain!InState,
   Chain!Exists, Chain!U8, Round!Contract!NullifierOnce,
   Round!Contract!RecordAgreesWithPromise, Round!Contract!ResultsFollowSubmissions,
   Round!Contract!ProposalId, Round!Contract!Unsettled, Round!Contract!InState,
   Round!Contract!Exists, Round!Contract!U8

\* ... and of its steps.
LEMMA ChainSteps ==
  ASSUME Chain!ContractInv, Chain!ContractInv', [Chain!Next]_(Chain!vars)
  PROVE  /\ \A id \in Round!Contract!ProposalId : Round!Contract!LifecycleStep(id)
         /\ [Round!Contract!Abstract!Next]_(Round!Contract!Abstract!vars)
<1>1. \A id \in Chain!ProposalId : Chain!LifecycleStep(id)
  BY PartsAssumptions, Chain!NextLifecycle
<1>2. [Chain!Abstract!Next]_(Chain!Abstract!vars)
  BY PartsAssumptions, Chain!NextSettles
<1>3. \A id \in Round!Contract!ProposalId : Round!Contract!LifecycleStep(id)
  BY <1>1 DEF Chain!ProposalId, Chain!LifecycleStep, Chain!Exists,
     Round!Contract!ProposalId, Round!Contract!LifecycleStep, Round!Contract!Exists
<1>4. [Round!Contract!Abstract!Next]_(Round!Contract!Abstract!vars)
  BY <1>2, Zenon DEF Chain!Abstract!Next, Chain!Abstract!vars, Chain!Abstract!Ask,
     Chain!Abstract!Succeed, Chain!Abstract!Fail, Chain!Abstract!Withdraw,
     Chain!Abstract!Close, Chain!ShownAs, Chain!ShownAnswer, Chain!Exists, Chain!InState,
     Chain!Unsettled, Chain!ProposalId,
     Round!Contract!Abstract!Next, Round!Contract!Abstract!vars,
     Round!Contract!Abstract!Ask, Round!Contract!Abstract!Succeed,
     Round!Contract!Abstract!Fail, Round!Contract!Abstract!Withdraw,
     Round!Contract!Abstract!Close, Round!Contract!ShownAs, Round!Contract!ShownAnswer,
     Round!Contract!Exists, Round!Contract!InState, Round!Contract!Unsettled,
     Round!Contract!ProposalId
<1> QED BY <1>3, <1>4

\* Before the first run the contract shows nothing, set up or not.
LEMMA InitShowsNothing == Init => Round!Contract!Abstract!Init
BY DEF Init, Round!Contract!Abstract!Init, Round!Contract!ShownAs,
   Round!Contract!ShownAnswer, Round!Contract!Exists, Round!Contract!ProposalId, ProposalId

-----------------------------------------------------------------------------
(* The workers inside the whole *)

\* A worker's step is a worker's step, in company or not.
LEMMA VoterStep == ASSUME NEW w \in Worker, Round!Agent!WorkerStep(w) PROVE Voters!WorkerStep(w)
BY Zenon DEF Round!Agent!WorkerStep, Round!Agent!PollStatus, Round!Agent!LookAtFlag, Round!Agent!ReadStatus,
   Round!Agent!Proceed,
   Round!Agent!ReadTask, Round!Agent!StartProcessing, Round!Agent!WriteVote,
   Round!Agent!Complete, Round!Agent!Fail, Round!Agent!Finish, Round!Agent!initializeWorker,
   Round!Agent!Goto, Round!Agent!WriteStatus, Round!Agent!WriteResult, Round!Agent!Stored,
   Round!Agent!Idle, Voters!WorkerStep, Voters!PollStatus, Voters!LookAtFlag,
   Voters!ReadStatus, Voters!Proceed, Voters!ReadTask,
   Voters!StartProcessing, Voters!WriteVote, Voters!Complete, Voters!Fail, Voters!Finish,
   Voters!initializeWorker, Voters!Goto, Voters!WriteStatus, Voters!WriteResult,
   Voters!Stored, Voters!Idle

\* A task sent to the route of a worker is one it may get from anybody.
LEMMA VoterRoute ==
  ASSUME NEW w \in Worker, NEW s \in Slot, NEW c \in Config, Round!Agent!execute(w, s, c)
  PROVE  Voters!Next
<1>1. Voters!execute(w, s, c)
  BY DEF Round!Agent!execute, Round!Agent!Idle, Voters!execute, Voters!Idle
<1> QED BY <1>1 DEF Voters!Next

\* A worker that could not be reached is set idle, whatever it is doing ...
SetIdle(w) ==
  /\ status' = [status EXCEPT ![w] = "idle"]
  /\ UNCHANGED <<task_definition, result, slot, isExecuting, restarts>>

\* ... and a vote is stored for a worker that only polls.
SetResult(w) ==
  /\ \E value \in Voters!ResultValue : result' = [result EXCEPT ![w] = value]
  /\ UNCHANGED <<task_definition, status, slot, isExecuting, restarts>>

\* The workers do not expect either of a coordinator, and take no harm from it.
LEMMA VotersUnharmed ==
  ASSUME Voters!WorkerInv, NEW w \in Worker, SetIdle(w) \/ SetResult(w)
  PROVE  Voters!WorkerInv'
<1>1. Voters!TypeOK /\ NoResult \notin Voters!ResultValue
  BY PartsAssumptions DEF Voters!WorkerInv, Voters!WorkerAssumption
<1>2. UNCHANGED <<task_definition, slot, isExecuting, restarts>>
  BY DEF SetIdle, SetResult
<1>3. /\ status' \in [Worker -> Voters!Status]
      /\ result' \in [Worker -> Voters!ResultValue \cup {NoResult}]
      /\ \A x \in Worker : status'[x] = "completed" => status[x] = "completed"
      /\ \A x \in Worker : result[x] # NoResult => result'[x] # NoResult
  <2>1. /\ status \in [Worker -> Voters!Status]
        /\ result \in [Worker -> Voters!ResultValue \cup {NoResult}]
        /\ "idle" \in Voters!Status
    BY <1>1, Zenon DEF Voters!TypeOK, Voters!Status
  <2>2. CASE SetIdle(w)
    BY <2>1, <2>2 DEF SetIdle
  <2>3. CASE SetResult(w)
    <3>1. PICK value \in Voters!ResultValue : result' = [result EXCEPT ![w] = value]
      BY <2>3 DEF SetResult
    <3> QED BY <1>1, <2>1, <2>3, <3>1 DEF SetResult
  <2> QED BY <2>2, <2>3
<1>4. Voters!TypeOK'
  BY <1>1, <1>2, <1>3, Zenon DEF Voters!TypeOK, Voters!Status
<1>5. \A x \in Worker, s \in Slot : Voters!HandlerInv(x, s)'
  BY <1>2, Zenon DEF Voters!WorkerInv, Voters!HandlerInv, Voters!Executing
<1>6. Voters!FlagHasExecution'
  BY <1>2 DEF Voters!WorkerInv, Voters!FlagHasExecution, Voters!Executing
<1>7. Voters!VotedInv'
  BY <1>2, <1>3 DEF Voters!WorkerInv, Voters!VotedInv, Voters!ResultBeforeCompleted
<1> QED BY <1>4, <1>5, <1>6, <1>7 DEF Voters!WorkerInv

\* Seen from the workers, a run publishes, assigns, sends to the route, sets idle or
\* does nothing.
LEMMA AdvanceIsWork ==
  ASSUME TypeInv, NEW r \in Run, Advance(r)
  PROVE  [Voters!Next]_(Voters!vars) \/ \E w \in Worker : SetIdle(w)
<1>1. CASE PublishTask(r)
  <2>1. run[r].config \in Config
    BY <1>1 DEF PublishTask, At, TypeInv, RunsTyped, RunTyped
  <2>2. Voters!Publish(run[r].config)
    BY <1>1 DEF PublishTask, Voters!Publish
  <2> QED BY <2>1, <2>2 DEF Voters!Next
<1>2. ASSUME NEW w \in Worker, ResetStatus(r, w)
      PROVE  Voters!Next
  <2>1. Voters!Assign(w)
    BY <1>2 DEF ResetStatus, Round!Agent!WriteStatus, Round!Agent!Stored, Voters!Assign
  <2> QED BY <2>1 DEF Voters!Next
<1>3. ASSUME NEW w \in Worker, Dispatch(r, w)
      PROVE  Voters!Next \/ UNCHANGED workerVars
  <2>1. run[r].config \in Config
    BY <1>3 DEF Dispatch, At, TypeInv, RunsTyped, RunTyped
  <2>2. (\E s \in Slot : Round!Agent!execute(w, s, run[r].config)) \/ UNCHANGED workerVars
    BY <1>3, Zenon DEF Dispatch
  <2> QED BY <2>1, <2>2, VoterRoute
<1>4. ASSUME NEW w \in Worker, MarkUnreachable(r, w)
      PROVE  SetIdle(w)
  BY <1>4 DEF MarkUnreachable, Round!Agent!WriteStatus, Round!Agent!Stored, SetIdle
<1>5. UNCHANGED workerVars => UNCHANGED Voters!vars
  BY DEF workerVars, Voters!vars
<1>6. \/ UNCHANGED workerVars
      \/ PublishTask(r)
      \/ \E w \in Worker : ResetStatus(r, w) \/ Dispatch(r, w) \/ MarkUnreachable(r, w)
  BY Zenon
     DEF Advance, getActiveWorkers, localStartCoordination, DetectProposal, DetectTimeout,
         TakeSnapshot, AllDone, WaitTimeout, ReadResults, localRecordWorkerSubmissions,
         aggregateResults, archiveProposal, localCoordinatorResume, Complete
<1> QED BY <1>1, <1>2, <1>3, <1>4, <1>5, <1>6

\* A vote stored for a worker is a vote on the task there is.
LEMMA PollVoteSets ==
  ASSUME TypeInv, NEW w \in Worker, PollVote(w)
  PROVE  SetResult(w)
<1>1. PICK v \in Round!Vote :
        Round!Agent!WriteResult(w, [config |-> task_definition, vote |-> v])
  BY DEF PollVote
<1>2. [config |-> task_definition, vote |-> v] \in Voters!ResultValue
  BY WorkerTypes DEF TypeInv, PollVote, Voters!ResultValue
<1>3. result' = [result EXCEPT ![w] = [config |-> task_definition, vote |-> v]]
  BY <1>1 DEF Round!Agent!WriteResult, Round!Agent!Stored
<1> QED BY <1>2, <1>3 DEF PollVote, SetResult

\* Whatever is done to the workers, they keep their invariant.
LEMMA NextUnharmed == Voters!WorkerInv /\ TypeInv /\ [Next]_vars => Voters!WorkerInv'
<1> SUFFICES ASSUME Voters!WorkerInv, TypeInv, [Next]_vars
             PROVE  Voters!WorkerInv'
  OBVIOUS
<1>1. [Voters!Next]_(Voters!vars) => Voters!WorkerInv'
  BY PartsAssumptions, Voters!NextInv
<1>2. CASE UNCHANGED workerVars
  BY <1>1, <1>2 DEF workerVars, Voters!vars
<1>3. ASSUME NEW r \in Run, Advance(r)
      PROVE  Voters!WorkerInv'
  BY <1>1, <1>3, AdvanceIsWork, VotersUnharmed
<1>4. ASSUME NEW w \in Worker, WorkerStep(w)
      PROVE  Voters!WorkerInv'
  <2>1. CASE Round!Agent!WorkerStep(w)
    <3>1. Voters!Next
      BY <2>1, VoterStep DEF Voters!Next
    <3> QED BY <1>1, <3>1
  <2>2. CASE PollVote(w)
    BY <2>2, PollVoteSets, VotersUnharmed
  <2> QED BY <1>4, <2>1, <2>2 DEF WorkerStep
<1>5. ASSUME NEW r \in Run,
             \/ Begin(r) \/ StartLands(r) \/ StartLost(r)
             \/ AwaitExpires(r) \/ PollVerdict(r) \/ GiveUp(r)
      PROVE  UNCHANGED workerVars
  BY <1>5, Zenon DEF Begin, StartLands, StartLost, AwaitExpires, PollVerdict, GiveUp
<1>6. Runtime \/ Crash \/ UNCHANGED vars => UNCHANGED workerVars
  BY Zenon DEF Runtime, Crash, vars
<1> QED BY <1>2, <1>3, <1>4, <1>5, <1>6, Zenon DEF Next

\* The workers' inductive invariant holds with the runs.
LEMMA VotersInvariant == Spec => []Voters!WorkerInv
<1>1. SaleInv /\ TypeInv /\ [Next]_vars => TypeInv'
  BY TypeNext
<1>2. Init => Voters!WorkerInv
  <2>1. Init => Voters!Init
    BY DEF Init, Round!Agent!Init, Round!Agent!Idle, Voters!Init, Voters!Idle
  <2> QED BY <2>1, PartsAssumptions, Voters!InitInv
<1> QED BY <1>1, <1>2, NextUnharmed, SaleAlways, TypeInit, PTL DEF Spec

\* It says what the workers promise.
LEMMA VotersPromise ==
  Voters!WorkerInv => Round!Agent!FlagHasExecution /\ Round!Agent!ResultBeforeCompleted
BY DEF Voters!WorkerInv, Voters!VotedInv, Voters!FlagHasExecution, Voters!Executing,
   Voters!ResultBeforeCompleted, Round!Agent!FlagHasExecution, Round!Agent!Executing,
   Round!Agent!ResultBeforeCompleted

-----------------------------------------------------------------------------
(* The theorems *)

\* Whatever overlaps, fails or restarts, every variable keeps its type.
THEOREM LocalTypes == Spec => []TypeOK
<1>1. SaleInv /\ TypeInv /\ [Next]_vars => TypeInv'
  BY TypeNext
<1>2. SaleInv /\ TypeInv => TypeOK
  BY TypeFollows
<1> QED BY <1>1, <1>2, SaleAlways, TypeInit, PTL DEF Spec

\* What every run relies on holds in every state, whatever runs beside it.
LEMMA LocalInvariant == Spec => [](OwnInv /\ SaleInv /\ TypeInv /\ TakenInv /\ SettledInv)
<1>1. SaleInv /\ TypeInv /\ [Next]_vars => TypeInv'
  BY TypeNext
<1>2. SaleInv /\ TypeInv /\ TypeInv' /\ TakenInv /\ [Next]_vars => TakenInv'
  BY TakenNext
<1>3. TakenInv /\ SaleInv /\ TypeInv /\ SettledInv /\ [Next]_vars => SettledInv'
  BY SettledNext
<1> QED BY <1>1, <1>2, <1>3, SaleAlways, OwnAlways, TypeInit, TakenInit, SettledInit, PTL DEF Spec

\* Runs that overlap as they like, restart, and lose calls and views drive the contract
\* by calls it allows, and contract and workers keep their word with them: a worker
\* is on chain once, record and promise agree, no result overtakes the submissions, no
\* flag silences a worker, and who reads "completed" finds a result.
THEOREM LocalComposes ==
  Spec => [][Chain!Next]_(Chain!vars) /\ []Round!PartsKeepTheirWord
<1>1. SaleInv /\ TypeInv /\ [Next]_vars => TypeInv'
  BY TypeNext
<1>2. Chain!ContractInv /\ Voters!WorkerInv => Round!PartsKeepTheirWord
  BY ChainPromises, VotersPromise DEF Round!PartsKeepTheirWord
<1> QED BY <1>1, <1>2, NextIsCall, SaleAlways, TypeInit, ChainInvariant, VotersInvariant, PTL
        DEF Spec

\* To whoever asked for the coordination the runs are Settlement, and its proposal
\* goes through its life in order, even if another run takes it for its own.
THEOREM LocalSettles == Spec => Round!Contract!LifecycleOrder /\ Round!Contract!SettlementSafety
<1>1. SaleInv /\ TypeInv /\ [Next]_vars => TypeInv'
  BY TypeNext
<1>2. Chain!ContractInv /\ Chain!ContractInv' /\ TypeInv /\ [Next]_vars
        => /\ [\A id \in Round!Contract!ProposalId :
                 Round!Contract!LifecycleStep(id)]_(Round!Contract!vars)
           /\ [Round!Contract!Abstract!Next]_(Round!Contract!Abstract!vars)
  BY NextIsCall, ChainSteps
<1> QED BY <1>1, <1>2, SaleAlways, TypeInit, InitShowsNothing, ChainInvariant, PTL
        DEF Spec, Round!Contract!LifecycleOrder, Round!Contract!SettlementSafety,
            Round!Contract!Abstract!Spec

\* Runs keep all that LocalInv says, however many are beside each other, whatever fails
\* or restarts: undisturbed ones find their own proposals, what a buyer is told is on
\* record, a verdict of a proposal nobody else took is what the chain says, and what
\* the chain decides somebody who took it was not told to have failed.
THEOREM LocalCorrect == Spec => []LocalInv
<1>1. OwnInv /\ SaleInv /\ TypeInv /\ SettledInv /\ Round!PartsKeepTheirWord => LocalInv
  BY SettledFollows
<1> QED BY <1>1, LocalInvariant, LocalComposes, PTL

\* A verdict sold is the result the contract was given, and the archive has it, unless
\* two runs took one proposal for their own.
THEOREM VerdictCorrect == Spec => []VerdictAgreesWithChain
<1>1. LocalInv => VerdictAgreesWithChain
  BY DEF LocalInv
<1> QED BY <1>1, LocalCorrect, PTL

\* Of the runs that took a proposal decided on chain, one is not reported as failed,
\* with any overlap, time-out and restart.
THEOREM FailedCorrect == Spec => []FailedStaysUndecided
<1>1. LocalInv => FailedStaysUndecided
  BY DEF LocalInv
<1> QED BY <1>1, LocalCorrect, PTL
=============================================================================
