---------------------------- MODULE StatusBoard ----------------------------
(***************************************************************************)
(* What a page of the frontend shows of an agent: usePolling asks for it   *)
(* when the page opens and at every interval, whether or not earlier       *)
(* requests have been answered, and shows what was answered last, or that  *)
(* the agent is offline.                                                   *)
(*                                                                         *)
(* The agent may be changed while requests are under way.  On the          *)
(* coordinator's page the URL is a variable of the module, which requests  *)
(* read and polling does not follow; in the view of a worker the fetcher   *)
(* is made anew, which restarts polling, but drops no answer: mountedRef   *)
(* is true again when it arrives.                                          *)
(*                                                                         *)
(* Time is the age of things.  Abstracted: what is shown is whose state it *)
(* is, and how long ago it was asked for.                                  *)
(***************************************************************************)
EXTENDS Naturals

CONSTANTS
  Agent, Nothing,
  Interval,        \* intervalMs
  Timeout,         \* of safeFetch
  Slots,           \* bound: requests under way
  MaxClicks        \* bound: agents selected, refreshes asked for, pages left

ASSUME BoardAssumption ==
  /\ Nothing \notin Agent
  /\ Interval \in Nat \ {0} /\ Timeout \in Nat /\ MaxClicks \in Nat /\ Slots \in Nat

VARIABLES
  follows,    \* whether the fetcher depends on the agent
  selected, selectedFor,   \* the agent, and ghost: for how long
  open,       \* whether the page is
  timer,      \* since the interval last fired
  asked,      \* the requests under way
  shown,      \* data: of whom, and how long ago it was asked for
  error,
  clicksLeft

boardVars == <<follows, selected, selectedFor, open, timer, asked, shown, error, clicksLeft>>

Slot == 1 .. Slots

\* Older than what can be shown: a request is answered in its time, and one follows
\* that is asked within the interval, and answered in its time.
Outdated == 2 * Timeout + Interval + 1
Later(age) == IF age < Outdated THEN age + 1 ELSE age

NotAsked == [of |-> Nothing, age |-> 0]
NobodyShown == [of |-> Nothing, age |-> Outdated]
Free(q) == {i \in Slot : q[i] = NotAsked}

\* A refresh is one more request, of the agent that is selected.
Refreshed(a) ==
  /\ Free(asked) # {}
  /\ LET i == CHOOSE i \in Free(asked) : \A j \in Free(asked) : i <= j
     IN asked' = [asked EXCEPT ![i] = [of |-> a, age |-> 0]]

Click == clicksLeft > 0 /\ clicksLeft' = clicksLeft - 1

BoardInit ==
  /\ follows \in BOOLEAN
  /\ selected \in Agent /\ selectedFor = 0
  /\ open = FALSE
  /\ timer = 0
  /\ asked = [i \in Slot |-> NotAsked]
  /\ shown = NobodyShown /\ error = FALSE
  /\ clicksLeft = MaxClicks

-----------------------------------------------------------------------------

OpenPage ==
  /\ ~open /\ open' = TRUE
  /\ Refreshed(selected) /\ timer' = 0
  /\ UNCHANGED <<follows, selected, selectedFor, shown, error, clicksLeft>>

\* Nothing that is answered later is taken, and the page starts anew if it is opened.
LeavePage ==
  /\ open /\ open' = FALSE
  /\ Click
  /\ asked' = [i \in Slot |-> NotAsked]
  /\ shown' = NobodyShown /\ error' = FALSE /\ timer' = 0
  /\ UNCHANGED <<follows, selected, selectedFor>>

IntervalFires ==
  /\ open /\ timer = Interval /\ timer' = 0
  /\ Refreshed(selected)
  /\ UNCHANGED <<follows, selected, selectedFor, open, shown, error, clicksLeft>>

refresh ==
  /\ open /\ Click
  /\ Refreshed(selected)
  /\ UNCHANGED <<follows, selected, selectedFor, open, timer, shown, error>>

\* What is shown stays until something else is answered.
selectCoordinator(a) ==
  /\ open /\ ~follows /\ a # selected
  /\ Click
  /\ selected' = a /\ selectedFor' = 0
  /\ UNCHANGED <<follows, open, timer, asked, shown, error>>

selectWorker(a) ==
  /\ open /\ follows /\ a # selected
  /\ Click
  /\ selected' = a /\ selectedFor' = 0
  /\ Refreshed(a) /\ timer' = 0
  /\ UNCHANGED <<follows, open, shown, error>>

-----------------------------------------------------------------------------

\* Answers arrive in any order, and the last to arrive is shown.
Fetched(i) ==
  /\ open /\ asked[i] # NotAsked
  /\ shown' = asked[i] /\ error' = FALSE
  /\ asked' = [asked EXCEPT ![i] = NotAsked]
  /\ UNCHANGED <<follows, selected, selectedFor, open, timer, clicksLeft>>

FetchFailed(i) ==
  /\ open /\ asked[i] # NotAsked
  /\ error' = TRUE
  /\ asked' = [asked EXCEPT ![i] = NotAsked]
  /\ UNCHANGED <<follows, selected, selectedFor, open, timer, shown, clicksLeft>>

Wait ==
  /\ open /\ timer < Interval /\ timer' = timer + 1
  /\ \A i \in Slot : asked[i] # NotAsked => asked[i].age < Timeout
  /\ asked' = [i \in Slot |-> IF asked[i] = NotAsked THEN NotAsked
                              ELSE [asked[i] EXCEPT !.age = @ + 1]]
  /\ shown' = [shown EXCEPT !.age = Later(@)]
  /\ selectedFor' = Later(selectedFor)
  /\ UNCHANGED <<follows, selected, open, error, clicksLeft>>

BoardNext ==
  \/ OpenPage \/ LeavePage \/ IntervalFires \/ refresh \/ Wait
  \/ \E a \in Agent : selectCoordinator(a) \/ selectWorker(a)
  \/ \E i \in Slot : Fetched(i) \/ FetchFailed(i)

BoardSpec == BoardInit /\ [][BoardNext]_boardVars

-----------------------------------------------------------------------------
(* Correctness *)

BoardTypeOK ==
  /\ selected \in Agent /\ selectedFor \in 0 .. Outdated
  /\ timer \in 0 .. Interval
  /\ asked \in [Slot -> [of : Agent \cup {Nothing}, age : 0 .. Timeout]]
  /\ shown \in [of : Agent \cup {Nothing}, age : 0 .. Outdated]
  /\ {follows, open, error} \subseteq BOOLEAN

\* A page that does not say offline shows what was true not long ago - however late,
\* and in whatever order, its requests are answered or fail - and, when an agent has
\* been selected for that long, shows that agent and not the one before it.
ShownIsRecent ==
  (shown.of # Nothing /\ ~error) =>
    /\ shown.age < Outdated
    /\ selectedFor = Outdated => shown.of = selected

BoardInv == BoardTypeOK /\ ShownIsRecent
=============================================================================
