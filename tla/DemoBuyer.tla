------------------------------ MODULE DemoBuyer ------------------------------
(***************************************************************************)
(* The demo that buys a deliberation for its visitor: the page             *)
(* (x402-demo/page.tsx), which shows a stream of phases, and the route     *)
(* behind it (api/x402-demo/route.ts), which limits the rate, pays the     *)
(* coordinator and sends the phases.                                       *)
(*                                                                         *)
(* A page that cancels aborts its request; the route may notice late.  An  *)
(* aborted promise is rejected before the next event of the browser, so    *)
(* that reset and the end of the run it aborts are one step.  Abstracted:  *)
(* hours and days are numbers of ticks; a list of times is the set of the  *)
(* runs that were counted then; heartbeats repeat the phase before them;   *)
(* events carry their phase only.  Left out: a restart of the route, whose *)
(* lists are those of one process.                                         *)
(***************************************************************************)
EXTENDS Naturals, Sequences, FiniteSets, SequencesExt

CONSTANTS
  Visitor,
  Limit,             \* of RATE_LIMIT_PER_IP_PER_HOUR and RATE_LIMIT_TOTAL_PER_DAY, any of these
  HourTicks, DayTicks,
  MaxRuns, MaxTicks  \* bounds: runs begun, time that passes

ASSUME DemoAssumption ==
  /\ Limit \subseteq Nat /\ DayTicks \in Nat /\ HourTicks \in 0 .. DayTicks
  /\ MaxRuns \in Nat /\ MaxTicks \in Nat

VARIABLES
  perHour, perDay,
  sameIp,            \* whether the visitors have one address
  clock,
  page,              \* of each visitor: the phase shown, and the run reset would abort
  runs,              \* runs of the pages and of the route, in the order they began
  ipHits, allHits,
  alone, runsLeft, ticksLeft   \* whether runs wait for each other; what may still come

setup == <<perHour, perDay, sameIp>>
demoBounds == <<alone, runsLeft, ticksLeft>>
demoVars == <<setup, clock, page, runs, ipHits, allHits, demoBounds>>

RunId == 1 .. MaxRuns
NoRun == 0
NoTime == 0

\* Phases in the order of the stepper; a run ends in one of the last two.
Rank ==
  [discovering |-> 1, discovered |-> 2, paying |-> 3, deliberating |-> 4, verdict |-> 5, failed |-> 5]
Ended == {"verdict", "failed"}
Phase == DOMAIN Rank \cup {"idle"}

\* A run: where its page is with it, and its route; what was sent and is not read;
\* whether the page is gone and the route knows, the coordinator is paid and gave a
\* verdict; when it was counted.
NewRun(v) ==
  [of |-> v, reader |-> "fetching", pc |-> "requested", stream |-> << >>, gone |-> FALSE,
   aborted |-> "no", paid |-> FALSE, verdict |-> FALSE, hit |-> NoTime]

ip(v) == IF sameIp THEN CHOOSE w \in Visitor : TRUE ELSE v

DemoInit ==
  /\ perHour \in Limit /\ perDay \in Limit /\ sameIp \in BOOLEAN
  /\ clock = DayTicks + 1
  /\ page = [v \in Visitor |-> [phase |-> "idle", abortRef |-> NoRun]]
  /\ runs = << >>
  /\ ipHits = [i \in Visitor |-> {}]
  /\ allHits = {}
  /\ alone \in BOOLEAN /\ runsLeft \in 0 .. MaxRuns /\ ticksLeft \in 0 .. MaxTicks

Started == DOMAIN runs
Shows(v, phase, ref) == page' = [page EXCEPT ![v] = [phase |-> phase, abortRef |-> ref]]
Closes(r) == [runs[r] EXCEPT !.reader = "none", !.gone = TRUE, !.stream = << >>]

\* What is sent to a page that is gone is lost.
Sends(run, events, pc) ==
  [run EXCEPT !.stream = IF run.gone THEN @ ELSE @ \o events, !.pc = pc]
hits == <<ipHits, allHits>>
Over(r) == runs[r].reader = "none" /\ runs[r].pc \in {"refused", "over"}

-----------------------------------------------------------------------------
(* The page *)

runDemo(v) ==
  /\ page[v].phase = "idle"
  /\ runsLeft > 0 /\ runsLeft' = runsLeft - 1
  /\ alone => \A r \in Started : Over(r)
  /\ runs' = Append(runs, NewRun(v))
  /\ Shows(v, "discovering", Len(runs'))
  /\ UNCHANGED <<setup, clock, hits, alone, ticksLeft>>

\* Mutant: the page is cleared, its request goes on.
resetPage_NoAbort(v) ==
  /\ page[v].phase # "idle"
  /\ Shows(v, "idle", NoRun)
  /\ UNCHANGED <<setup, clock, runs, hits, demoBounds>>

\* Cancel, or run another: a request that is not answered yet fails in the page.
resetPage(v) ==
  LET r == page[v].abortRef
      live == r # NoRun /\ runs[r].reader # "none"
  IN
  /\ page[v].phase # "idle"
  /\ Shows(v, IF live /\ runs[r].reader = "fetching" THEN "failed" ELSE "idle", NoRun)
  /\ runs' = IF live THEN [runs EXCEPT ![r] = Closes(r)] ELSE runs
  /\ UNCHANGED <<setup, clock, hits, demoBounds>>

\* The stream begins, or an error is shown.
Responded(r) ==
  /\ runs[r].reader = "fetching" /\ runs[r].pc # "requested"
  /\ IF runs[r].pc = "refused"
     THEN /\ runs' = [runs EXCEPT ![r].reader = "none"]
          /\ Shows(runs[r].of, "failed", page[runs[r].of].abortRef)
     ELSE /\ runs' = [runs EXCEPT ![r].reader = "reading"]
          /\ UNCHANGED page
  /\ UNCHANGED <<setup, clock, hits, demoBounds>>

ReadEvent(r) ==
  /\ runs[r].reader = "reading" /\ runs[r].stream # << >>
  /\ runs' = [runs EXCEPT ![r].stream = Tail(@)]
  /\ Shows(runs[r].of, Head(runs[r].stream), page[runs[r].of].abortRef)
  /\ UNCHANGED <<setup, clock, hits, demoBounds>>

StreamDone(r) ==
  /\ runs[r].reader = "reading" /\ runs[r].stream = << >> /\ runs[r].pc = "over"
  /\ runs' = [runs EXCEPT ![r].reader = "none"]
  /\ Shows(runs[r].of, page[runs[r].of].phase, NoRun)
  /\ UNCHANGED <<setup, clock, hits, demoBounds>>

\* No connection, or one that breaks while the stream is read.
ConnectionLost(r) ==
  /\ runs[r].reader # "none"
  /\ runs' = [runs EXCEPT ![r] = Closes(r)]
  /\ Shows(runs[r].of, "failed",
           IF runs[r].reader = "reading" THEN NoRun ELSE page[runs[r].of].abortRef)
  /\ UNCHANGED <<setup, clock, hits, demoBounds>>

-----------------------------------------------------------------------------
(* The route *)

FreshIp == [i \in Visitor |-> {s \in ipHits[i] : runs[s].hit > clock - HourTicks}]
FreshAll == {s \in allHits : runs[s].hit >= clock - DayTicks}

\* A malformed request is refused before it is counted; one that is counted begins.
checkRateLimit(r) ==
  LET i == ip(runs[r].of)
      ok == Cardinality(FreshIp[i]) < perHour /\ Cardinality(FreshAll) < perDay
  IN
  /\ runs[r].pc = "requested"
  /\ \/ /\ ok
        /\ ipHits' = [FreshIp EXCEPT ![i] = @ \cup {r}]
        /\ allHits' = FreshAll \cup {r}
        /\ runs' = [runs EXCEPT ![r] = [Sends(@, <<"discovering">>, "info") EXCEPT !.hit = clock]]
     \/ /\ ~ok
        /\ ipHits' = FreshIp /\ allHits' = FreshAll
        /\ runs' = [runs EXCEPT ![r].pc = "refused"]
     \/ /\ runs' = [runs EXCEPT ![r].pc = "refused"]
        /\ UNCHANGED hits
  /\ UNCHANGED <<setup, clock, page, demoBounds>>

\* The coordinator told what it sells, or did not.  A signal that was aborted in the
\* meantime makes the payment fail at once.
Discovered(r) ==
  /\ runs[r].pc = "info"
  /\ \/ runs' = [runs EXCEPT ![r] = Sends(@, <<"failed">>, "over")]
     \/ /\ runs[r].aborted = "no"
        /\ runs' = [runs EXCEPT ![r] = Sends(@, <<"discovered", "paying">>, "paying")]
     \/ /\ runs[r].aborted # "no"
        /\ runs' = [runs EXCEPT ![r] = Sends(@, <<"discovered", "paying", "failed">>, "over")]
  /\ UNCHANGED <<setup, clock, page, hits, demoBounds>>

\* After three seconds the workers are taken to be deliberating, paid or not.
phaseShift(r) ==
  /\ runs[r].pc = "paying"
  /\ runs' = [runs EXCEPT ![r] = Sends(@, <<"deliberating">>, "deliberating")]
  /\ UNCHANGED <<setup, clock, page, hits, demoBounds>>

Fetching(r) == runs[r].pc \in {"paying", "deliberating"}

\* The coordinator asked for its price; the request is sent again, paid.
fetchWithPay(r) ==
  /\ Fetching(r) /\ ~runs[r].paid
  /\ runs' = [runs EXCEPT ![r].paid = TRUE]
  /\ UNCHANGED <<setup, clock, page, hits, demoBounds>>

\* A verdict; or a failure, an answer without a verdict, an error.  The timers end.
Answered(r) ==
  /\ Fetching(r)
  /\ \/ /\ runs[r].paid
        /\ runs' = [runs EXCEPT ![r] = [Sends(@, <<"verdict">>, "over") EXCEPT !.verdict = TRUE]]
     \/ runs' = [runs EXCEPT ![r] = Sends(@, <<"failed">>, "over")]
  /\ UNCHANGED <<setup, clock, page, hits, demoBounds>>

\* The route notices that nobody listens.
Abort(r) ==
  /\ runs[r].gone /\ runs[r].aborted = "no" /\ (runs[r].pc = "info" \/ Fetching(r))
  /\ runs' = [runs EXCEPT ![r].aborted = IF runs[r].paid THEN "late" ELSE "early",
                          ![r].pc = IF Fetching(r) THEN "over" ELSE @]
  /\ UNCHANGED <<setup, clock, page, hits, demoBounds>>

\* Time passes; only the limits look at it.
Tock ==
  /\ alone => \A r \in Started : Over(r)
  /\ ticksLeft > 0 /\ ticksLeft' = ticksLeft - 1
  /\ clock' = clock + 1
  /\ UNCHANGED <<setup, page, runs, hits, alone, runsLeft>>

-----------------------------------------------------------------------------

DemoNext ==
  \/ \E v \in Visitor : runDemo(v) \/ resetPage(v)
  \/ \E r \in Started :
       \/ Responded(r) \/ ReadEvent(r) \/ StreamDone(r) \/ ConnectionLost(r)
       \/ checkRateLimit(r) \/ Discovered(r) \/ phaseShift(r) \/ fetchWithPay(r)
       \/ Answered(r) \/ Abort(r)
  \/ Tock

DemoSpec == DemoInit /\ [][DemoNext]_demoVars

-----------------------------------------------------------------------------
(* Correctness *)

DemoTypeOK ==
  /\ sameIp \in BOOLEAN /\ clock \in Nat
  /\ page \in [Visitor -> [phase : Phase, abortRef : RunId \cup {NoRun}]]
  /\ Len(runs) + runsLeft <= MaxRuns /\ ticksLeft \in 0 .. MaxTicks
  /\ \A r \in Started : runs[r].of \in Visitor /\ ToSet(runs[r].stream) \subseteq Phase
  /\ ipHits \in [Visitor -> SUBSET RunId] /\ allHits \subseteq RunId

\* A page reads one stream at most, that of its last run, and none while it offers
\* to begin another: no phase of an earlier run is shown.
OneReader ==
  \A r \in Started : runs[r].reader # "none" =>
    /\ page[runs[r].of].phase # "idle"
    /\ \A s \in Started : runs[s].of = runs[r].of => s <= r

\* A page that says it is under way has a stream that will tell the end.
RunningIsRead ==
  \A v \in Visitor : page[v].phase \notin Ended \cup {"idle"} =>
    \E r \in Started : runs[r].of = v /\ runs[r].reader # "none"

\* A stream goes forward from what the page shows, whatever the timers, and its end
\* is sent by the time it is closed.
StreamInOrder ==
  \A r \in Started : runs[r].reader = "reading" =>
    LET ahead == <<page[runs[r].of].phase>> \o runs[r].stream
    IN /\ \A j, k \in DOMAIN ahead : j < k => Rank[ahead[j]] <= Rank[ahead[k]]
       /\ runs[r].pc = "over" <=> Last(ahead) \in Ended

\* A verdict that is shown was paid for by the run the visitor began last.
VerdictIsBought ==
  \A v \in Visitor : page[v].phase = "verdict" =>
    \E r \in Started : /\ runs[r].of = v /\ runs[r].paid /\ runs[r].verdict
                       /\ \A s \in Started : runs[s].of = v => s <= r

\* Nothing is paid for a visitor who was known to have left before.
NotPaidForTheGone == \A r \in Started : runs[r].aborted = "early" => ~runs[r].paid

\* However requests fall, no hour sees more runs of one address than its limit, and
\* no day more runs than its own.
LimitsHold ==
  \A t \in DayTicks + 1 .. clock :
    /\ \A i \in Visitor :
         Cardinality({r \in Started : /\ ip(runs[r].of) = i
                                      /\ runs[r].hit \in t - HourTicks + 1 .. t}) <= perHour
    /\ Cardinality({r \in Started : runs[r].hit \in t - DayTicks .. t}) <= perDay

DemoInv ==
  /\ DemoTypeOK /\ OneReader /\ RunningIsRead /\ StreamInOrder /\ VerdictIsBought
  /\ NotPaidForTheGone /\ LimitsHold
=============================================================================
