-------------------------- MODULE WorkerAgentProofs --------------------------
(* Theorems of WorkerAgent, for all workers, handlers, tasks and restarts. *)
EXTENDS WorkerAgent, TLAPS

Status == {"idle", "pending", "processing", "completed", "failed"}

Stage == {"idle", "looking", "pending seen", "starting", "working", "voted"}

Handler ==
  [pc : Stage,
   config : Config \cup {NoConfig}, via : {"timer", "route"}]

\* Only handlers of the timer look at the status, and an execution has its task.
HandlerInv(w, s) ==
  /\ slot[w][s].pc \in {"looking", "pending seen"} => slot[w][s].via = "timer"
  /\ Executing(w, s) => slot[w][s].config \in Config

\* If no write is lost, an execution that voted has left a result.
VotedInv ==
  EnsueMayFail \/
    /\ \A w \in Worker, s \in Slot : slot[w][s].pc = "voted" => result[w] # NoResult
    /\ ResultBeforeCompleted

\* The inductive invariant.
WorkerInv ==
  /\ TypeOK
  /\ \A w \in Worker, s \in Slot : HandlerInv(w, s)
  /\ FlagHasExecution
  /\ VotedInv

-----------------------------------------------------------------------------
(* What the writes and the moves of a handler do *)

\* A handler that does nothing has the type of a handler.
LEMMA IdleHandler ==
  Idle \in Handler /\ Idle.pc = "idle" /\ Idle.via = "timer"
  BY DEF Idle, Handler, Stage

\* The outcome of a status write, lost or not.
LEMMA StatusWritten ==
  ASSUME NEW w \in Worker, NEW v \in Status, status \in [Worker -> Status],
         WriteStatus(w, v)
  PROVE  /\ status' \in [Worker -> Status]
         /\ \A x \in Worker : status'[x] = status[x] \/ (x = w /\ status'[x] = v)
<1>1. PICK stored \in Stored(status[w], v) : status' = [status EXCEPT ![w] = stored]
  BY DEF WriteStatus
<1>2. stored \in {status[w], v}
  BY <1>1 DEF Stored
<1> QED BY <1>1, <1>2

\* The outcome of a result write: a result once stored is never unset.
LEMMA ResultWritten ==
  ASSUME NEW w \in Worker, NEW r \in ResultValue,
         result \in [Worker -> ResultValue \cup {NoResult}], WriteResult(w, r)
  PROVE  /\ result' \in [Worker -> ResultValue \cup {NoResult}]
         /\ \A x \in Worker : result'[x] = result[x] \/ (x = w /\ result'[x] = r)
         /\ ~EnsueMayFail => result'[w] = r
<1>1. PICK stored \in Stored(result[w], r) : result' = [result EXCEPT ![w] = stored]
  BY DEF WriteResult
<1>2. stored \in {result[w], r} /\ (~EnsueMayFail => stored = r)
  BY <1>1 DEF Stored
<1> QED BY <1>1, <1>2

\* Replacing one handler leaves the other handlers of all workers alone.
LEMMA HandlerReplaced ==
  ASSUME NEW w \in Worker, NEW s \in Slot, NEW h \in Handler,
         slot \in [Worker -> [Slot -> Handler]],
         slot' = [slot EXCEPT ![w][s] = h]
  PROVE  /\ slot' \in [Worker -> [Slot -> Handler]]
         /\ slot'[w][s] = h
         /\ \A x \in Worker, t \in Slot :
              slot'[x][t] = slot[x][t] \/ (x = w /\ t = s)
  OBVIOUS

\* A handler that moves on keeps its task and its caller.
LEMMA HandlerMoved ==
  ASSUME NEW w \in Worker, NEW s \in Slot, slot \in [Worker -> [Slot -> Handler]],
         NEW pc \in Stage,
         Goto(w, s, pc)
  PROVE  /\ slot' \in [Worker -> [Slot -> Handler]]
         /\ slot'[w][s] = [slot[w][s] EXCEPT !.pc = pc]
         /\ \A x \in Worker, t \in Slot :
              slot'[x][t] = slot[x][t] \/ (x = w /\ t = s)
<1> DEFINE h == [slot[w][s] EXCEPT !.pc = pc]
<1>1. slot[w][s] \in Handler
  OBVIOUS
<1>2. h \in Handler
  BY <1>1 DEF Handler
<1>3. slot' = [slot EXCEPT ![w][s] = h]
  BY <1>1 DEF Goto, Handler
<1> HIDE DEF h
<1>4. /\ slot' \in [Worker -> [Slot -> Handler]]
      /\ slot'[w][s] = h
      /\ \A x \in Worker, t \in Slot :
           slot'[x][t] = slot[x][t] \/ (x = w /\ t = s)
  BY <1>2, <1>3, HandlerReplaced
<1> QED BY <1>4 DEF h

\* The end of an execution.
LEMMA HandlerFinished ==
  ASSUME NEW w \in Worker, NEW s \in Slot, slot \in [Worker -> [Slot -> Handler]],
         isExecuting \in [Worker -> BOOLEAN], FlagHasExecution, Finish(w, s)
  PROVE  /\ slot' \in [Worker -> [Slot -> Handler]]
         /\ slot'[w][s] = Idle
         /\ \A x \in Worker, t \in Slot :
              slot'[x][t] = slot[x][t] \/ (x = w /\ t = s)
         /\ isExecuting' \in [Worker -> BOOLEAN]
         /\ FlagHasExecution'
<1>1. /\ slot' \in [Worker -> [Slot -> Handler]]
      /\ slot'[w][s] = Idle
      /\ \A x \in Worker, t \in Slot :
           slot'[x][t] = slot[x][t] \/ (x = w /\ t = s)
  BY IdleHandler, HandlerReplaced DEF Finish
<1>2. CASE slot[w][s].via = "timer"
  <2>1. isExecuting' = [isExecuting EXCEPT ![w] = FALSE]
    BY <1>2 DEF Finish
  <2>2. ASSUME NEW x \in Worker, isExecuting'[x]
        PROVE  \E t \in Slot : Executing(x, t)' /\ slot'[x][t].via = "timer"
    <3>1. x # w /\ isExecuting[x]
      BY <2>1, <2>2
    <3>2. PICK t \in Slot : Executing(x, t) /\ slot[x][t].via = "timer"
      BY <3>1 DEF FlagHasExecution
    <3>3. slot'[x][t] = slot[x][t]
      BY <1>1, <3>1
    <3> QED BY <3>2, <3>3 DEF Executing
  <2>3. isExecuting' \in [Worker -> BOOLEAN]
    BY <2>1
  <2> QED BY <1>1, <2>2, <2>3 DEF FlagHasExecution
<1>3. CASE slot[w][s].via # "timer"
  <2>1. isExecuting' = isExecuting
    BY <1>3 DEF Finish
  <2>2. ASSUME NEW x \in Worker, isExecuting'[x]
        PROVE  \E t \in Slot : Executing(x, t)' /\ slot'[x][t].via = "timer"
    <3>1. PICK t \in Slot : Executing(x, t) /\ slot[x][t].via = "timer"
      BY <2>1, <2>2 DEF FlagHasExecution
    <3>2. slot'[x][t] = slot[x][t]
      BY <1>1, <1>3, <3>1
    <3> QED BY <3>1, <3>2 DEF Executing
  <2> QED BY <1>1, <2>1, <2>2 DEF FlagHasExecution
<1> QED BY <1>2, <1>3

-----------------------------------------------------------------------------
(* What a step that changes one handler has to show for each part *)

OthersKept(w, s) ==
  \A x \in Worker, t \in Slot : slot'[x][t] = slot[x][t] \/ (x = w /\ t = s)

\* HandlerInv needs to be checked for the one handler that changed.
LEMMA HandlersKept ==
  ASSUME NEW w \in Worker, NEW s \in Slot, OthersKept(w, s), HandlerInv(w, s)',
         \A x \in Worker, t \in Slot : HandlerInv(x, t)
  PROVE  \A x \in Worker, t \in Slot : HandlerInv(x, t)'
<1> SUFFICES ASSUME NEW x \in Worker, NEW t \in Slot
             PROVE  HandlerInv(x, t)'
  OBVIOUS
<1>1. CASE slot'[x][t] = slot[x][t]
  BY <1>1 DEF HandlerInv, Executing
<1>2. CASE x = w /\ t = s
  BY <1>2
<1> QED BY <1>1, <1>2 DEF OthersKept

\* A flag that did not change still has its execution if none of the timer ended.
LEMMA FlagKept ==
  ASSUME NEW w \in Worker, NEW s \in Slot, OthersKept(w, s), FlagHasExecution,
         isExecuting' = isExecuting,
         (Executing(w, s) /\ slot[w][s].via = "timer")
           => (Executing(w, s)' /\ slot'[w][s].via = "timer")
  PROVE  FlagHasExecution'
<1> SUFFICES ASSUME NEW x \in Worker, isExecuting[x]
             PROVE  \E t \in Slot : Executing(x, t)' /\ slot'[x][t].via = "timer"
  BY DEF FlagHasExecution
<1>1. PICK t \in Slot : Executing(x, t) /\ slot[x][t].via = "timer"
  BY DEF FlagHasExecution
<1>2. CASE slot'[x][t] = slot[x][t]
  BY <1>1, <1>2 DEF Executing
<1>3. CASE x = w /\ t = s
  BY <1>1, <1>3
<1> QED BY <1>2, <1>3 DEF OthersKept

\* Results stay, so only the keys written and the handler moved matter.
LEMMA VotedKept ==
  ASSUME NEW w \in Worker, NEW s \in Slot, OthersKept(w, s), VotedInv,
         ~EnsueMayFail =>
           /\ \A x \in Worker : result'[x] = result[x] \/ result'[x] # NoResult
           /\ \A x \in Worker : status'[x] = status[x]
                                  \/ (status'[x] = "completed" => result'[x] # NoResult)
           /\ slot'[w][s].pc = "voted" => result'[w] # NoResult
  PROVE  VotedInv'
<1> SUFFICES ASSUME ~EnsueMayFail
             PROVE  /\ \A x \in Worker, t \in Slot :
                         slot'[x][t].pc = "voted" => result'[x] # NoResult
                    /\ ResultBeforeCompleted'
  BY DEF VotedInv
<1>1. ASSUME NEW x \in Worker, NEW t \in Slot, slot'[x][t].pc = "voted"
      PROVE  result'[x] # NoResult
  BY <1>1 DEF OthersKept, VotedInv
<1>2. ASSUME NEW x \in Worker, status'[x] = "completed"
      PROVE  result'[x] # NoResult
  BY <1>2 DEF VotedInv, ResultBeforeCompleted
<1> QED BY <1>1, <1>2 DEF ResultBeforeCompleted

-----------------------------------------------------------------------------
(* The invariant *)

\* Type correctness in the terms of the lemmas above.
LEMMA Types ==
  TypeOK <=> /\ task_definition \in Config \cup {NoConfig}
             /\ status \in [Worker -> Status]
             /\ result \in [Worker -> ResultValue \cup {NoResult}]
             /\ slot \in [Worker -> [Slot -> Handler]]
             /\ isExecuting \in [Worker -> BOOLEAN]
             /\ restarts \in 0 .. MaxRestarts
  BY DEF TypeOK, Status, Handler, Stage

\* The same for the next state.
LEMMA TypesNext ==
  (/\ task_definition' \in Config \cup {NoConfig}
   /\ status' \in [Worker -> Status]
   /\ result' \in [Worker -> ResultValue \cup {NoResult}]
   /\ slot' \in [Worker -> [Slot -> Handler]]
   /\ isExecuting' \in [Worker -> BOOLEAN]
   /\ restarts' \in 0 .. MaxRestarts) => TypeOK'
  BY DEF TypeOK, Status, Handler, Stage

\* At first every handler is idle and every flag down.
LEMMA InitInv == Init => WorkerInv
<1> SUFFICES ASSUME Init
             PROVE  WorkerInv
  OBVIOUS
<1>1. TypeOK
  <2>1. slot \in [Worker -> [Slot -> Handler]]
    BY IdleHandler DEF Init
  <2>2. restarts \in 0 .. MaxRestarts
    BY WorkerAssumption DEF Init, WorkerAssumption
  <2> QED BY <2>1, <2>2, Types DEF Init, Status
<1>2. \A w \in Worker, s \in Slot : HandlerInv(w, s)
  BY DEF Init, Idle, HandlerInv, Executing
<1>3. FlagHasExecution
  BY DEF Init, FlagHasExecution
<1>4. VotedInv
  BY DEF Init, Idle, VotedInv, ResultBeforeCompleted
<1> QED BY <1>1, <1>2, <1>3, <1>4 DEF WorkerInv

\* A step of a handler from looking at the flag to its end, or a new one of the
\* route.
LEMMA HandlerStep ==
  ASSUME WorkerInv, NEW w \in Worker, NEW s \in Slot,
         \/ PollStatus(w, s) \/ LookAtFlag(w, s) \/ Proceed(w, s)
         \/ \E c \in Config : execute(w, s, c)
  PROVE  WorkerInv'
<1>1. slot \in [Worker -> [Slot -> Handler]] /\ slot[w][s] \in Handler
  BY Types DEF WorkerInv
<1>2. CASE PollStatus(w, s)
  <2>0. slot[w][s] = Idle /\ Goto(w, s, "pending seen")
    BY <1>2, Zenon DEF PollStatus
  <2>1. /\ slot' \in [Worker -> [Slot -> Handler]]
        /\ slot'[w][s] = [slot[w][s] EXCEPT !.pc = "pending seen"]
        /\ OthersKept(w, s)
    <3>1. "pending seen" \in Stage
      BY DEF Stage
    <3> QED BY <1>1, <2>0, <3>1, HandlerMoved DEF OthersKept
  <2>2. slot'[w][s].pc = "pending seen" /\ slot'[w][s].via = "timer"
    BY <1>1, <2>0, <2>1, IdleHandler DEF Handler
  <2>3. ~Executing(w, s)
    BY <2>0, IdleHandler DEF Executing
  <2>4. TypeOK'
    BY <1>2, <2>1, Types, TypesNext DEF PollStatus, WorkerInv
  <2>5. HandlerInv(w, s)'
    BY <2>2 DEF HandlerInv, Executing
  <2>6. UNCHANGED <<status, result, isExecuting>>
    BY <1>2 DEF PollStatus
  <2> QED BY <2>1, <2>2, <2>3, <2>4, <2>5, <2>6, HandlersKept, FlagKept, VotedKept
          DEF WorkerInv
<1>3. CASE ReadTask(w, s) /\ task_definition = NoConfig
  <2>1. slot' = [slot EXCEPT ![w][s] = Idle] /\ UNCHANGED <<status, result, isExecuting>>
    BY <1>3 DEF ReadTask
  <2>2. slot' \in [Worker -> [Slot -> Handler]] /\ slot'[w][s] = Idle /\ OthersKept(w, s)
    BY <1>1, <2>1, IdleHandler, HandlerReplaced DEF OthersKept
  <2>3. ~Executing(w, s)
    BY <1>3 DEF ReadTask, Executing
  <2>4. TypeOK'
    BY <1>3, <2>1, <2>2, Types, TypesNext DEF ReadTask, WorkerInv
  <2>5. HandlerInv(w, s)' /\ slot'[w][s].pc # "voted"
    BY <2>2 DEF HandlerInv, Executing, Idle
  <2> QED BY <2>1, <2>2, <2>3, <2>4, <2>5, HandlersKept, FlagKept, VotedKept DEF WorkerInv
<1>4. CASE ReadTask(w, s) /\ task_definition # NoConfig
  <2> DEFINE h == [slot[w][s] EXCEPT !.pc = "starting", !.config = task_definition]
  <2>1. task_definition \in Config
    BY <1>4, Types DEF WorkerInv
  <2>2. slot[w][s].via = "timer"
    BY <1>4 DEF ReadTask, WorkerInv, HandlerInv
  <2>3. h \in Handler /\ h.pc = "starting" /\ h.via = "timer" /\ h.config \in Config
    BY <1>1, <2>1, <2>2 DEF Handler, Stage
  <2>4. slot' = [slot EXCEPT ![w][s] = h]
    BY <1>1, <1>4 DEF ReadTask, Handler
  <2>5. /\ isExecuting' = [isExecuting EXCEPT ![w] = TRUE]
        /\ UNCHANGED <<task_definition, status, result, restarts>>
    BY <1>4 DEF ReadTask
  <2> HIDE DEF h
  <2>6. slot' \in [Worker -> [Slot -> Handler]] /\ slot'[w][s] = h /\ OthersKept(w, s)
    BY <1>1, <2>3, <2>4, HandlerReplaced DEF OthersKept
  <2>7. TypeOK'
    BY <2>5, <2>6, Types, TypesNext DEF WorkerInv
  <2>8. HandlerInv(w, s)' /\ slot'[w][s].pc # "voted"
    BY <2>3, <2>6 DEF HandlerInv, Executing
  <2>9. FlagHasExecution'
    <3> SUFFICES ASSUME NEW x \in Worker, isExecuting'[x]
                 PROVE  \E t \in Slot : Executing(x, t)' /\ slot'[x][t].via = "timer"
      BY DEF FlagHasExecution
    <3>1. CASE x = w
      BY <2>3, <2>6, <3>1 DEF Executing
    <3>2. CASE x # w
      <4>1. isExecuting[x]
        BY <2>5, <3>2, Types DEF WorkerInv
      <4>2. PICK t \in Slot : Executing(x, t) /\ slot[x][t].via = "timer"
        BY <4>1 DEF WorkerInv, FlagHasExecution
      <4>3. slot'[x][t] = slot[x][t]
        BY <2>6, <3>2 DEF OthersKept
      <4> QED BY <4>2, <4>3 DEF Executing
    <3> QED BY <3>1, <3>2
  <2> QED BY <2>5, <2>6, <2>7, <2>8, <2>9, HandlersKept, VotedKept DEF WorkerInv
<1>5. ASSUME NEW c \in Config, execute(w, s, c)
      PROVE  WorkerInv'
  <2> DEFINE h == [pc |-> "starting", config |-> c, via |-> "route"]
  <2>1. h \in Handler /\ h.pc = "starting" /\ h.config \in Config
    BY DEF Handler, Stage
  <2>2. slot' = [slot EXCEPT ![w][s] = h] /\ ~Executing(w, s)
    BY <1>5 DEF execute, Idle, Executing
  <2> HIDE DEF h
  <2>3. slot' \in [Worker -> [Slot -> Handler]] /\ slot'[w][s] = h /\ OthersKept(w, s)
    BY <1>1, <2>1, <2>2, HandlerReplaced DEF OthersKept
  <2>4. UNCHANGED <<task_definition, status, result, isExecuting, restarts>>
    BY <1>5 DEF execute
  <2>5. TypeOK'
    BY <2>3, <2>4, Types, TypesNext DEF WorkerInv
  <2>6. HandlerInv(w, s)' /\ slot'[w][s].pc # "voted"
    BY <2>1, <2>3 DEF HandlerInv, Executing
  <2> QED BY <2>2, <2>3, <2>4, <2>5, <2>6, HandlersKept, FlagKept, VotedKept DEF WorkerInv
<1>6. CASE StartProcessing(w, s)
  <2>1. /\ slot' \in [Worker -> [Slot -> Handler]]
        /\ slot'[w][s] = [slot[w][s] EXCEPT !.pc = "working"]
        /\ OthersKept(w, s)
    <3>1. Goto(w, s, "working") /\ "working" \in Stage
      BY <1>6 DEF StartProcessing, Stage
    <3> QED BY <1>1, <3>1, HandlerMoved DEF OthersKept
  <2>2. /\ status' \in [Worker -> Status]
        /\ \A x \in Worker : status'[x] = status[x] \/ status'[x] = "processing"
    BY <1>6, StatusWritten, Types DEF StartProcessing, WorkerInv, Status
  <2>3. slot'[w][s].pc = "working" /\ slot'[w][s].via = slot[w][s].via
          /\ slot'[w][s].config = slot[w][s].config
    BY <1>1, <2>1 DEF Handler
  <2>4. UNCHANGED <<task_definition, result, isExecuting, restarts>> /\ Executing(w, s)
    BY <1>6 DEF StartProcessing, Executing
  <2>5. TypeOK'
    BY <2>1, <2>2, <2>4, Types, TypesNext DEF WorkerInv
  <2>6. HandlerInv(w, s)' /\ Executing(w, s)'
    BY <2>3, <2>4 DEF HandlerInv, Executing, WorkerInv
  <2> QED BY <2>1, <2>2, <2>3, <2>4, <2>5, <2>6, HandlersKept, FlagKept, VotedKept
          DEF WorkerInv
<1>7. ASSUME NEW v \in Vote, WriteVote(w, s, v)
      PROVE  WorkerInv'
  <2> DEFINE r == [config |-> slot[w][s].config, vote |-> v]
  <2>1. Executing(w, s) /\ slot[w][s].config \in Config
    BY <1>7 DEF WriteVote, Executing, HandlerInv, WorkerInv
  <2>2. r \in ResultValue /\ r # NoResult
    BY <2>1, WorkerAssumption DEF ResultValue, WorkerAssumption
  <2>3. /\ slot' \in [Worker -> [Slot -> Handler]]
        /\ slot'[w][s] = [slot[w][s] EXCEPT !.pc = "voted"]
        /\ OthersKept(w, s)
    <3>1. Goto(w, s, "voted") /\ "voted" \in Stage
      BY <1>7 DEF WriteVote, Stage
    <3> QED BY <1>1, <3>1, HandlerMoved DEF OthersKept
  <2>4. slot'[w][s].pc = "voted" /\ slot'[w][s].via = slot[w][s].via
          /\ slot'[w][s].config = slot[w][s].config
    BY <1>1, <2>3 DEF Handler
  <2>5. WriteResult(w, r) /\ UNCHANGED <<task_definition, status, isExecuting, restarts>>
    BY <1>7 DEF WriteVote
  <2> HIDE DEF r
  <2>6. /\ result' \in [Worker -> ResultValue \cup {NoResult}]
        /\ \A x \in Worker : result'[x] = result[x] \/ result'[x] # NoResult
        /\ ~EnsueMayFail => result'[w] # NoResult
    BY <2>2, <2>5, ResultWritten, Types DEF WorkerInv
  <2>7. TypeOK'
    BY <2>3, <2>5, <2>6, Types, TypesNext DEF WorkerInv
  <2>8. HandlerInv(w, s)' /\ Executing(w, s)'
    BY <2>1, <2>4 DEF HandlerInv, Executing
  <2> QED BY <2>3, <2>4, <2>5, <2>6, <2>7, <2>8, HandlersKept, FlagKept, VotedKept
          DEF WorkerInv
<1>8. CASE Complete(w, s) \/ Fail(w, s)
  <2>1. Finish(w, s) /\ UNCHANGED <<task_definition, result, restarts>>
    BY <1>8 DEF Complete, Fail
  <2>2. /\ slot' \in [Worker -> [Slot -> Handler]]
        /\ slot'[w][s] = Idle
        /\ OthersKept(w, s)
        /\ isExecuting' \in [Worker -> BOOLEAN]
        /\ FlagHasExecution'
    BY <1>1, <2>1, HandlerFinished, Types DEF WorkerInv, OthersKept
  <2>3. /\ status' \in [Worker -> Status]
        /\ ~EnsueMayFail => \A x \in Worker :
             status'[x] = status[x] \/ (status'[x] = "completed" => result'[x] # NoResult)
    <3>1. CASE Complete(w, s)
      <4>1. ~EnsueMayFail => result[w] # NoResult
        BY <3>1 DEF Complete, WorkerInv, VotedInv
      <4>2. WriteStatus(w, "completed") /\ "completed" \in Status
        BY <3>1 DEF Complete, Status
      <4> QED BY <2>1, <4>1, <4>2, StatusWritten, Types DEF WorkerInv
    <3>2. CASE Fail(w, s)
      <4>1. WriteStatus(w, "failed") /\ "failed" \in Status
        BY <3>2 DEF Fail, Status
      <4> QED BY <4>1, StatusWritten, Types DEF WorkerInv
    <3> QED BY <1>8, <3>1, <3>2
  <2>4. TypeOK'
    BY <2>1, <2>2, <2>3, Types, TypesNext DEF WorkerInv
  <2>5. HandlerInv(w, s)' /\ slot'[w][s].pc # "voted"
    BY <2>2 DEF HandlerInv, Executing, Idle
  <2> QED BY <2>1, <2>2, <2>3, <2>4, <2>5, HandlersKept, VotedKept DEF WorkerInv
<1>9. ASSUME NEW pc \in {"idle", "looking", "pending seen"}, Goto(w, s, pc),
             slot[w][s].via = "timer", ~Executing(w, s),
             UNCHANGED <<task_definition, status, result, isExecuting, restarts>>
      PROVE  WorkerInv'
  <2>1. /\ slot' \in [Worker -> [Slot -> Handler]]
        /\ slot'[w][s] = [slot[w][s] EXCEPT !.pc = pc]
        /\ OthersKept(w, s)
    <3>1. pc \in Stage
      BY DEF Stage
    <3> QED BY <1>1, <1>9, <3>1, HandlerMoved DEF OthersKept
  <2>2. slot'[w][s].pc = pc /\ slot'[w][s].via = "timer"
    BY <1>1, <1>9, <2>1 DEF Handler
  <2>3. TypeOK'
    BY <1>9, <2>1, Types, TypesNext DEF WorkerInv
  <2>4. HandlerInv(w, s)' /\ slot'[w][s].pc # "voted"
    BY <2>2 DEF HandlerInv, Executing
  <2> QED BY <1>9, <2>1, <2>2, <2>3, <2>4, HandlersKept, FlagKept, VotedKept
          DEF WorkerInv
<1>10. CASE LookAtFlag(w, s)
  <2>1. /\ slot[w][s] = Idle /\ Goto(w, s, "looking")
        /\ UNCHANGED <<task_definition, status, result, isExecuting, restarts>>
    BY <1>10, Zenon DEF LookAtFlag
  <2>2. slot[w][s].via = "timer" /\ ~Executing(w, s)
    BY <2>1, IdleHandler DEF Executing
  <2> QED BY <1>9, <2>1, <2>2
<1>11. CASE ReadStatus(w, s)
  <2>1. PICK pc \in {"idle", "pending seen"} :
          /\ slot[w][s].pc = "looking" /\ Goto(w, s, pc)
          /\ UNCHANGED <<task_definition, status, result, isExecuting, restarts>>
    BY <1>11, Zenon DEF ReadStatus
  <2>2. slot[w][s].via = "timer" /\ ~Executing(w, s)
    BY <2>1 DEF WorkerInv, HandlerInv, Executing
  <2> QED BY <1>9, <2>1, <2>2
<1> QED BY <1>2, <1>3, <1>4, <1>5, <1>6, <1>7, <1>8, <1>10, <1>11 DEF Proceed

\* A restart of a worker forgets its handlers and clears its flag.
LEMMA Restart ==
  ASSUME WorkerInv, NEW w \in Worker, initializeWorker(w)
  PROVE  WorkerInv'
<1>1. /\ slot' = [slot EXCEPT ![w] = [s \in Slot |-> Idle]]
      /\ isExecuting' = [isExecuting EXCEPT ![w] = FALSE]
      /\ WriteStatus(w, "idle")
      /\ restarts < MaxRestarts /\ restarts' = restarts + 1
      /\ UNCHANGED <<task_definition, result>>
  BY DEF initializeWorker
<1>2. /\ slot \in [Worker -> [Slot -> Handler]]
      /\ isExecuting \in [Worker -> BOOLEAN]
      /\ restarts \in 0 .. MaxRestarts
  BY Types DEF WorkerInv
<1>3. /\ slot' \in [Worker -> [Slot -> Handler]]
      /\ \A t \in Slot : slot'[w][t] = Idle
      /\ \A x \in Worker : x # w => slot'[x] = slot[x]
  BY <1>1, <1>2, IdleHandler
<1>4. /\ status' \in [Worker -> Status]
      /\ \A x \in Worker : status'[x] = status[x] \/ status'[x] = "idle"
  BY <1>1, StatusWritten, Types DEF WorkerInv, Status
<1>5. TypeOK'
  <2>1. restarts' \in 0 .. MaxRestarts
    BY <1>1, <1>2, WorkerAssumption DEF WorkerAssumption
  <2>2. isExecuting' \in [Worker -> BOOLEAN]
    BY <1>1, <1>2
  <2> QED BY <1>1, <1>3, <1>4, <2>1, <2>2, Types, TypesNext DEF WorkerInv
<1>6. ASSUME NEW x \in Worker, NEW t \in Slot
      PROVE  HandlerInv(x, t)'
  <2>1. CASE x = w
    <3>1. slot'[x][t].pc = "idle"
      BY <1>3, <2>1, IdleHandler
    <3> QED BY <3>1 DEF HandlerInv, Executing
  <2>2. CASE x # w
    BY <1>3, <2>2 DEF HandlerInv, Executing, WorkerInv
  <2> QED BY <2>1, <2>2
<1>7. FlagHasExecution'
  <2> SUFFICES ASSUME NEW x \in Worker, isExecuting'[x]
               PROVE  \E t \in Slot : Executing(x, t)' /\ slot'[x][t].via = "timer"
    BY DEF FlagHasExecution
  <2>1. x # w /\ isExecuting[x]
    BY <1>1, <1>2
  <2>2. PICK t \in Slot : Executing(x, t) /\ slot[x][t].via = "timer"
    BY <2>1 DEF WorkerInv, FlagHasExecution
  <2> QED BY <1>3, <2>1, <2>2 DEF Executing
<1>8. VotedInv'
  <2> SUFFICES ASSUME ~EnsueMayFail
               PROVE  /\ \A x \in Worker, t \in Slot :
                           slot'[x][t].pc = "voted" => result'[x] # NoResult
                      /\ ResultBeforeCompleted'
    BY DEF VotedInv
  <2>1. ASSUME NEW x \in Worker, NEW t \in Slot, slot'[x][t].pc = "voted"
        PROVE  result'[x] # NoResult
    <3>1. x # w
      BY <1>3, <2>1 DEF Idle
    <3> QED BY <1>1, <1>3, <2>1, <3>1 DEF WorkerInv, VotedInv
  <2>2. ASSUME NEW x \in Worker, status'[x] = "completed"
        PROVE  result'[x] # NoResult
    BY <1>1, <1>4, <2>2 DEF WorkerInv, VotedInv, ResultBeforeCompleted
  <2> QED BY <2>1, <2>2 DEF ResultBeforeCompleted
<1> QED BY <1>5, <1>6, <1>7, <1>8 DEF WorkerInv

\* The steps of a coordinator leave the handlers and their results alone.
LEMMA CoordinatorStep ==
  ASSUME WorkerInv, (\E c \in Config : Publish(c)) \/ (\E w \in Worker : Assign(w))
  PROVE  WorkerInv'
<1>1. UNCHANGED <<result, slot, isExecuting, restarts>>
  BY DEF Publish, Assign
<1>2. /\ task_definition' \in Config \cup {NoConfig}
      /\ status' \in [Worker -> Status]
      /\ \A x \in Worker : status'[x] = status[x] \/ status'[x] = "pending"
  BY Types DEF Publish, Assign, WorkerInv, Status
<1>3. TypeOK'
  BY <1>1, <1>2, Types, TypesNext DEF WorkerInv
<1>4. \A w \in Worker, s \in Slot : HandlerInv(w, s)'
  BY <1>1 DEF WorkerInv, HandlerInv, Executing
<1>5. FlagHasExecution'
  BY <1>1 DEF WorkerInv, FlagHasExecution, Executing
<1>6. VotedInv'
  BY <1>1, <1>2 DEF WorkerInv, VotedInv, ResultBeforeCompleted
<1> QED BY <1>3, <1>4, <1>5, <1>6 DEF WorkerInv

\* Every step of workers, routes and coordinators keeps it.
LEMMA NextInv == WorkerInv /\ [Next]_vars => WorkerInv'
<1> SUFFICES ASSUME WorkerInv, [Next]_vars
             PROVE  WorkerInv'
  OBVIOUS
<1>1. CASE Next
  BY <1>1, HandlerStep, Restart, CoordinatorStep DEF Next, WorkerStep
<1>2. CASE UNCHANGED vars
  BY <1>2 DEF vars, WorkerInv, TypeOK, HandlerInv, Executing, FlagHasExecution, VotedInv,
              ResultBeforeCompleted
<1> QED BY <1>1, <1>2

-----------------------------------------------------------------------------
(* The theorems *)

\* The inductive invariant of the handlers, the keys and the flag.
THEOREM InvariantHolds == Spec => []WorkerInv
BY InitInv, NextInv, PTL DEF Spec

\* However many handlers of however many workers overlap, fail or are killed, all
\* keeps its type, and a raised flag has an execution of the timer that will clear it.
THEOREM FlagCorrect == Spec => []FlagInv
<1>1. WorkerInv => FlagInv
  BY DEF WorkerInv, FlagInv
<1> QED BY <1>1, InvariantHolds, PTL

\* If the shared memory loses no write, whoever reads "completed" finds a result.
THEOREM ResultCorrect ==
  ASSUME ~EnsueMayFail
  PROVE  Spec => []ResultBeforeCompleted
<1>1. WorkerInv => ResultBeforeCompleted
  BY DEF WorkerInv, VotedInv
<1> QED BY <1>1, InvariantHolds, PTL
=============================================================================
