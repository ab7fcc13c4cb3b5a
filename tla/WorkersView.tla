----------------------------- MODULE WorkersView -----------------------------
(***************************************************************************)
(* The workers a coordinator shows (GET /api/coordinate/workers): those    *)
(* the registry lists, but for those that did not answer a probe.  What a  *)
(* probe told is kept for some minutes, by DID (validationCache); a worker *)
(* that is registered through the coordinator is forgotten there.          *)
(*                                                                         *)
(* Time is the age of things, cut off where the code and the properties    *)
(* do not look any further.  Abstracted: an endpoint is who answers at it. *)
(* Left out: a registry that cannot be read or lists nobody, for which the *)
(* answer comes from the environment; statuses and names, which are looked *)
(* up for those shown; DELETE, which changes another contract; a restart,  *)
(* which forgets all verdicts.                                             *)
(***************************************************************************)
EXTENDS Naturals

CONSTANTS
  Did, Endpoint,
  PollingOnly,     \* endpoints that are no URL: there is nothing to probe
  NoEndpoint,      \* of a worker that is not listed
  Nobody,          \* answers nowhere, or with an error
  Unnamed,         \* answers without saying its DID
  ValidationTTL,   \* VALIDATION_TTL_MS
  ProbeTime, ListTime,   \* what a probe and a view call on the registry take at most
  View, Registration,    \* requests under way
  MaxShifts              \* bound: changes of the registry and of the endpoints

ASSUME ViewsAssumption ==
  /\ PollingOnly \subseteq Endpoint /\ NoEndpoint \notin Endpoint
  /\ {Nobody, Unnamed} \cap Did = {}
  /\ ValidationTTL \in Nat \ {0} /\ ProbeTime \in Nat /\ ListTime \in Nat
  /\ MaxShifts \in Nat

VARIABLES
  listed,           \* the registry: where each active worker is
  answers,          \* who answers at each endpoint
  validationCache,  \* the last verdict on each worker, if any, and its age
  view,             \* requests for the workers
  registration,     \* requests to register one
  steady,           \* ghost: how long nothing has changed about each worker
  fresh,            \* ghost: registered here, not changed since, and no view was under way
  shiftsLeft

viewsVars == <<listed, answers, validationCache, view, registration, steady, fresh, shiftsLeft>>

\* A verdict that is too old is none.
NoVerdict == [valid |-> FALSE, age |-> ValidationTTL]

\* Nothing of an earlier time is left in a view begun after so long.
SettleTime == ListTime + ProbeTime + ValidationTTL

Probe == {"none", "asked", "up", "down"}
NoView ==
  [pc |-> "idle", age |-> 0, workers |-> [w \in Did |-> NoEndpoint],
   probe |-> [w \in Did |-> "none"], shown |-> {}, sure |-> {}]
NoRegistration == [pc |-> "idle", did |-> Nobody, endpoint |-> NoEndpoint]

ViewsInit ==
  /\ listed \in [Did -> Endpoint \cup {NoEndpoint}]
  /\ answers = [e \in Endpoint |-> Nobody]
  /\ validationCache = [w \in Did |-> NoVerdict]
  /\ view = [v \in View |-> NoView]
  /\ registration = [r \in Registration |-> NoRegistration]
  /\ steady = [w \in Did |-> 0]
  /\ fresh = {}
  /\ shiftsLeft = MaxShifts

AtView(v, pc) == view[v].pc = pc
ViewBecomes(v, c) == view' = [view EXCEPT ![v] = c]

\* validateWorker: any answer will do that does not name another worker.
Answers(w, e) == e \in PollingOnly \/ answers[e] \in {w, Unnamed}
Alive(w) == listed[w] # NoEndpoint /\ Answers(w, listed[w])

-----------------------------------------------------------------------------
(* A request for the workers *)

\* The registry answers, and the answer is on its way.
listActiveWorkers(v) ==
  /\ AtView(v, "idle") \/ AtView(v, "done")
  /\ ViewBecomes(v, [NoView EXCEPT !.pc = "listing", !.workers = listed,
                       !.sure = {w \in Did : steady[w] >= SettleTime \/ w \in fresh}])
  /\ UNCHANGED <<listed, answers, validationCache, registration, steady, fresh, shiftsLeft>>

\* The view goes on with its probes, or is complete.
Probing(c) ==
  IF \E w \in Did : c.probe[w] # "none" THEN [c EXCEPT !.pc = "probing"]
  ELSE [NoView EXCEPT !.pc = "done", !.shown = c.shown, !.sure = c.sure]

\* Workers with a recent verdict are shown or not; the others are probed, but those
\* that only poll, which pass at once.
filterValidatedWorkers(v) ==
  LET c == view[v]
      Recent(w) == validationCache[w].age < ValidationTTL
      known == {w \in Did : c.workers[w] # NoEndpoint /\ Recent(w)}
      asked == {w \in Did : c.workers[w] # NoEndpoint /\ ~Recent(w)}
      pollers == {w \in asked : c.workers[w] \in PollingOnly}
  IN
  /\ AtView(v, "listing")
  /\ ViewBecomes(v, Probing([c EXCEPT !.age = 0,
       !.shown = {w \in known : validationCache[w].valid} \cup pollers,
       !.probe = [w \in Did |-> IF w \in asked \ pollers THEN "asked" ELSE "none"]]))
  /\ validationCache' = [w \in Did |-> IF w \in pollers THEN [valid |-> TRUE, age |-> 0]
                                       ELSE validationCache[w]]
  /\ UNCHANGED <<listed, answers, registration, steady, fresh, shiftsLeft>>

\* The endpoint that was listed answers, or its time is up.
validateWorker(v, w) ==
  /\ AtView(v, "probing") /\ view[v].probe[w] = "asked"
  /\ \E told \in {"up", "down"} :
       /\ told = "up" <=> Answers(w, view[v].workers[w])
       /\ ViewBecomes(v, [view[v] EXCEPT !.probe[w] = told])
  /\ UNCHANGED <<listed, answers, validationCache, registration, steady, fresh, shiftsLeft>>

\* The answer arrives, and is kept; the last one completes the view.
Validated(v, w) ==
  LET c == view[v]
      valid == c.probe[w] = "up"
      left == [c EXCEPT !.probe[w] = "none", !.shown = IF valid THEN @ \cup {w} ELSE @]
  IN
  /\ AtView(v, "probing") /\ c.probe[w] \in {"up", "down"}
  /\ validationCache' = [validationCache EXCEPT ![w] = [valid |-> valid, age |-> 0]]
  /\ ViewBecomes(v, Probing(left))
  /\ UNCHANGED <<listed, answers, registration, steady, fresh, shiftsLeft>>

-----------------------------------------------------------------------------
(* Registration, here or elsewhere *)

\* Nothing that was so before holds for the workers any more.
Shift(ws) ==
  /\ shiftsLeft > 0 /\ shiftsLeft' = shiftsLeft - 1
  /\ steady' = [w \in Did |-> IF w \in ws THEN 0 ELSE steady[w]]
  /\ view' = [v \in View |-> [view[v] EXCEPT !.sure = @ \ ws]]

\* The endpoint is asked for the DID of the worker there, which need not be the one
\* the request names.
ProbeToRegister(r, e) ==
  /\ registration[r].pc = "idle"
  /\ e \notin PollingOnly /\ answers[e] \in Did
  /\ registration' = [registration EXCEPT ![r] = [pc |-> "calling", did |-> answers[e],
                                                  endpoint |-> e]]
  /\ UNCHANGED <<listed, answers, validationCache, view, steady, fresh, shiftsLeft>>

localRegisterWorkerInRegistry(r) ==
  LET w == registration[r].did IN
  /\ registration[r].pc = "calling"
  /\ Shift({w})
  /\ listed' = [listed EXCEPT ![w] = registration[r].endpoint]
  /\ fresh' = fresh \ {w}
  /\ registration' = [registration EXCEPT ![r].pc = "answered"]
  /\ UNCHANGED <<answers, validationCache>>

RegistrationRefused(r) ==
  /\ registration[r].pc = "calling"
  /\ registration' = [registration EXCEPT ![r] = NoRegistration]
  /\ UNCHANGED <<listed, answers, validationCache, view, steady, fresh, shiftsLeft>>

NoViewUnderWay == \A v \in View : AtView(v, "idle") \/ AtView(v, "done")

\* Mutant: what was known of the worker stays.
Registered_Cached(r) ==
  LET w == registration[r].did IN
  /\ registration[r].pc = "answered"
  /\ fresh' = IF NoViewUnderWay /\ Alive(w) THEN fresh \cup {w} ELSE fresh
  /\ registration' = [registration EXCEPT ![r] = NoRegistration]
  /\ UNCHANGED <<listed, answers, validationCache, view, steady, shiftsLeft>>

Registered(r) ==
  LET w == registration[r].did IN
  /\ registration[r].pc = "answered"
  /\ validationCache' = [validationCache EXCEPT ![w] = NoVerdict]
  /\ fresh' = IF NoViewUnderWay /\ Alive(w) THEN fresh \cup {w} ELSE fresh
  /\ registration' = [registration EXCEPT ![r] = NoRegistration]
  /\ UNCHANGED <<listed, answers, view, steady, shiftsLeft>>

\* Others register the worker, move it or deactivate it.
Relisted(w, e) ==
  /\ listed[w] # e
  /\ Shift({w})
  /\ listed' = [listed EXCEPT ![w] = e]
  /\ fresh' = fresh \ {w}
  /\ UNCHANGED <<answers, validationCache, registration>>

\* A worker starts, stops, or another takes its place.
Rehosted(e, who) ==
  LET touched == {w \in Did : listed[w] = e} IN
  /\ e \notin PollingOnly /\ answers[e] # who
  /\ Shift(touched)
  /\ answers' = [answers EXCEPT ![e] = who]
  /\ fresh' = fresh \ touched
  /\ UNCHANGED <<listed, validationCache, registration>>

Elapse ==
  /\ \A v \in View : /\ AtView(v, "listing") => view[v].age < ListTime
                     /\ AtView(v, "probing") => view[v].age < ProbeTime
  /\ validationCache' = [w \in Did |-> IF validationCache[w].age + 1 < ValidationTTL
                                       THEN [validationCache[w] EXCEPT !.age = @ + 1]
                                       ELSE NoVerdict]
  /\ view' = [v \in View |-> IF AtView(v, "listing") \/ AtView(v, "probing")
                             THEN [view[v] EXCEPT !.age = @ + 1] ELSE view[v]]
  /\ steady' = [w \in Did |-> IF steady[w] < SettleTime THEN steady[w] + 1 ELSE SettleTime]
  /\ UNCHANGED <<listed, answers, registration, fresh, shiftsLeft>>

-----------------------------------------------------------------------------

ViewsNext ==
  \/ \E v \in View :
       \/ listActiveWorkers(v) \/ filterValidatedWorkers(v)
       \/ \E w \in Did : validateWorker(v, w) \/ Validated(v, w)
  \/ \E r \in Registration :
       \/ \E e \in Endpoint : ProbeToRegister(r, e)
       \/ localRegisterWorkerInRegistry(r) \/ RegistrationRefused(r) \/ Registered(r)
  \/ \E w \in Did, e \in Endpoint \cup {NoEndpoint} : Relisted(w, e)
  \/ \E e \in Endpoint, who \in Did \cup {Nobody, Unnamed} : Rehosted(e, who)
  \/ Elapse

ViewsSpec == ViewsInit /\ [][ViewsNext]_viewsVars

-----------------------------------------------------------------------------
(* Correctness *)

ViewsTypeOK ==
  /\ listed \in [Did -> Endpoint \cup {NoEndpoint}]
  /\ answers \in [Endpoint -> Did \cup {Nobody, Unnamed}]
  /\ validationCache \in [Did -> [valid : BOOLEAN, age : 0 .. ValidationTTL]]
  /\ \A v \in View : /\ view[v].pc \in {"idle", "listing", "probing", "done"}
                     /\ view[v].probe \in [Did -> Probe] /\ view[v].shown \subseteq Did

\* A worker about which nothing has changed for long enough is shown if it answers,
\* and is not if it does not - whatever views overlap, and however late the registry
\* and the endpoints answered an earlier one.  One that was registered through the
\* coordinator, with no view under way, is shown at once.
TruthIsShown ==
  \A v \in View : AtView(v, "done") => \A w \in view[v].sure : w \in view[v].shown <=> Alive(w)

ViewsInv == ViewsTypeOK /\ TruthIsShown
=============================================================================
