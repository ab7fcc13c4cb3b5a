----------------------------- MODULE WorkerAgent -----------------------------
(***************************************************************************)
(* The voting workers, worker-agent/src/workers/task-handler.ts, and the   *)
(* keys of the shared memory (Ensue) through which a coordinator drives    *)
(* them.  A worker polls its STATUS key; when it reads "pending" it reads  *)
(* the one task definition all workers share, votes, writes RESULT and     *)
(* then STATUS.  A route of its server starts the same execution at once.  *)
(*                                                                         *)
(* Every await is a point where others run, so a handler is cut there: one *)
(* action per stretch between two awaits.  A slot is one such handler in   *)
(* flight; the timer starts a new one while an older one still waits.      *)
(*                                                                         *)
(* Abstracted: the vote itself, which an AI model decides; ERROR,          *)
(* TIMESTAMP, proof and decision history, which no step here reads;        *)
(* registration in the registry; a failed read, which ends the poll.       *)
(***************************************************************************)
EXTENDS Naturals

CONSTANTS
  Worker,        \* the DIDs of the workers
  Slot,          \* bound: handlers of one worker in flight together
  Config,        \* task definitions
  Vote,          \* outcomes of a vote
  NoConfig,      \* no task definition stored
  NoResult,      \* no RESULT stored
  EnsueMayFail,  \* whether a write may be lost: the client swallows errors
  MaxRestarts    \* bound: restarts of workers in a behaviour

ResultValue == [config : Config, vote : Vote]

Idle == [pc |-> "idle", config |-> NoConfig, via |-> "timer"]

ASSUME WorkerAssumption ==
  /\ EnsueMayFail \in BOOLEAN
  /\ MaxRestarts \in Nat
  /\ NoConfig \notin Config
  /\ NoResult \notin ResultValue

VARIABLES
  task_definition,  \* coordination/config/task_definition
  status,           \* coordination/tasks/{worker}/status
  result,           \* coordination/tasks/{worker}/result
  slot,             \* the handlers of each worker
  isExecuting,      \* the flag each worker's timer looks at first
  restarts          \* ghost: restarts so far

vars == <<task_definition, status, result, slot, isExecuting, restarts>>

Init ==
  /\ task_definition = NoConfig
  /\ status = [w \in Worker |-> "idle"]
  /\ result = [w \in Worker |-> NoResult]
  /\ slot = [w \in Worker |-> [s \in Slot |-> Idle]]
  /\ isExecuting = [w \in Worker |-> FALSE]
  /\ restarts = 0

-----------------------------------------------------------------------------
(* Shared memory *)

\* updateMemory logs a failed write and returns as if it had succeeded.
Stored(old, new) == IF EnsueMayFail THEN {old, new} ELSE {new}

WriteStatus(w, s) ==
  \E stored \in Stored(status[w], s) : status' = [status EXCEPT ![w] = stored]

WriteResult(w, r) ==
  \E stored \in Stored(result[w], r) : result' = [result EXCEPT ![w] = stored]

-----------------------------------------------------------------------------
(* Handlers *)

Goto(w, s, pc) == slot' = [slot EXCEPT ![w][s].pc = pc]

\* Mutant: an execution that fails does not clear the flag.
Finish_Failing(w, s) ==
  /\ slot' = [slot EXCEPT ![w][s] = Idle]
  /\ UNCHANGED isExecuting

\* The end of an execution: the timer's handler clears the flag on every path,
\* the route's never touches it.
Finish(w, s) ==
  /\ slot' = [slot EXCEPT ![w][s] = Idle]
  /\ isExecuting' = IF slot[w][s].via = "timer"
                    THEN [isExecuting EXCEPT ![w] = FALSE] ELSE isExecuting

\* The timer fires, finds no execution under way and reads "pending".
PollStatus(w, s) ==
  /\ slot[w][s] = Idle
  /\ ~isExecuting[w]
  /\ status[w] = "pending"
  /\ Goto(w, s, "pending seen")
  /\ UNCHANGED <<task_definition, status, result, isExecuting, restarts>>

\* The flag is looked at before the read of the status is awaited.  What may come
\* between is that another handler raises it, so the look is a step of its own as
\* long as one is about to ...
LookAtFlag(w, s) ==
  /\ slot[w][s] = Idle
  /\ ~isExecuting[w]
  /\ \E other \in Slot : slot[w][other].pc = "pending seen"
  /\ Goto(w, s, "looking")
  /\ UNCHANGED <<task_definition, status, result, isExecuting, restarts>>

\* ... and the status is that of a later moment, whatever the flag says by then.
ReadStatus(w, s) ==
  /\ slot[w][s].pc = "looking"
  /\ Goto(w, s, IF status[w] = "pending" THEN "pending seen" ELSE "idle")
  /\ UNCHANGED <<task_definition, status, result, isExecuting, restarts>>

\* It reads the task definition of that moment and only now raises the flag.
ReadTask(w, s) ==
  /\ slot[w][s].pc = "pending seen"
  /\ IF task_definition = NoConfig
     THEN /\ slot' = [slot EXCEPT ![w][s] = Idle]
          /\ UNCHANGED isExecuting
     ELSE /\ slot' = [slot EXCEPT ![w][s].pc = "starting",
                                  ![w][s].config = task_definition]
          /\ isExecuting' = [isExecuting EXCEPT ![w] = TRUE]
  /\ UNCHANGED <<task_definition, status, result, restarts>>

\* POST /api/task/execute: no look at the flag, nor at the other handlers.
execute(w, s, config) ==
  /\ slot[w][s] = Idle
  /\ slot' = [slot EXCEPT ![w][s] = [pc |-> "starting", config |-> config, via |-> "route"]]
  /\ UNCHANGED <<task_definition, status, result, isExecuting, restarts>>

StartProcessing(w, s) ==
  /\ slot[w][s].pc = "starting"
  /\ WriteStatus(w, "processing")
  /\ Goto(w, s, "working")
  /\ UNCHANGED <<task_definition, result, isExecuting, restarts>>

\* Mutant: the status is written first, the result after it.
WriteVote_StatusFirst(w, s, v) ==
  /\ slot[w][s].pc = "working"
  /\ WriteStatus(w, "completed")
  /\ Goto(w, s, "voted")
  /\ UNCHANGED <<task_definition, result, isExecuting, restarts>>

\* performWork came back with a vote.
WriteVote(w, s, v) ==
  /\ slot[w][s].pc = "working"
  /\ WriteResult(w, [config |-> slot[w][s].config, vote |-> v])
  /\ Goto(w, s, "voted")
  /\ UNCHANGED <<task_definition, status, isExecuting, restarts>>

Complete(w, s) ==
  /\ slot[w][s].pc = "voted"
  /\ WriteStatus(w, "completed")
  /\ Finish(w, s)
  /\ UNCHANGED <<task_definition, result, restarts>>

\* performWork threw: no manifesto, no answer of the AI.  RESULT is left alone.
Fail(w, s) ==
  /\ slot[w][s].pc = "working"
  /\ WriteStatus(w, "failed")
  /\ Finish(w, s)
  /\ UNCHANGED <<task_definition, result, restarts>>

\* The process is restarted: initializeWorker writes "idle" over the status,
\* and what the handlers had read or computed is gone.
initializeWorker(w) ==
  /\ restarts < MaxRestarts
  /\ restarts' = restarts + 1
  /\ slot' = [slot EXCEPT ![w] = [s \in Slot |-> Idle]]
  /\ isExecuting' = [isExecuting EXCEPT ![w] = FALSE]
  /\ WriteStatus(w, "idle")
  /\ UNCHANGED <<task_definition, result>>

\* A step that carries an execution on.
Proceed(w, s) ==
  \/ ReadStatus(w, s)
  \/ ReadTask(w, s)
  \/ StartProcessing(w, s)
  \/ \E v \in Vote : WriteVote(w, s, v)
  \/ Complete(w, s)
  \/ Fail(w, s)

WorkerStep(w) ==
  \/ \E s \in Slot : PollStatus(w, s) \/ LookAtFlag(w, s) \/ Proceed(w, s)
  \/ initializeWorker(w)

-----------------------------------------------------------------------------
(* A worker on its own, with a coordinator that assigns it tasks *)

\* The two writes of triggerWorkers; the first may be lost.
Publish(c) ==
  /\ task_definition' = c
  /\ UNCHANGED <<status, result, slot, isExecuting, restarts>>

Assign(w) ==
  /\ status' = [status EXCEPT ![w] = "pending"]
  /\ UNCHANGED <<task_definition, result, slot, isExecuting, restarts>>

Next ==
  \/ \E c \in Config : Publish(c)
  \/ \E w \in Worker : Assign(w) \/ WorkerStep(w)
  \/ \E w \in Worker, s \in Slot, c \in Config : execute(w, s, c)

Spec == Init /\ [][Next]_vars

\* The timer keeps firing and every await returns: the clients of the memory
\* and of the AI model have time-outs.  Nothing obliges a coordinator.
Fairness ==
  \A w \in Worker :
    /\ WF_vars(\E s \in Slot : PollStatus(w, s))
    /\ \A s \in Slot : WF_vars(Proceed(w, s))

FairSpec == Spec /\ Fairness

-----------------------------------------------------------------------------
(* Correctness *)

TypeOK ==
  /\ task_definition \in Config \cup {NoConfig}
  /\ status \in [Worker -> {"idle", "pending", "processing", "completed", "failed"}]
  /\ result \in [Worker -> ResultValue \cup {NoResult}]
  /\ slot \in [Worker -> [Slot ->
       [pc : {"idle", "looking", "pending seen", "starting", "working", "voted"},
        config : Config \cup {NoConfig}, via : {"timer", "route"}]]]
  /\ isExecuting \in [Worker -> BOOLEAN]
  /\ restarts \in 0 .. MaxRestarts

Executing(w, s) == slot[w][s].pc \in {"starting", "working", "voted"}

\* Whoever reads "completed" finds a result, whatever handlers of the worker
\* overlap, fail or are killed.
ResultBeforeCompleted ==
  \A w \in Worker : status[w] = "completed" => result[w] # NoResult

\* The flag is never left up with nothing under way, which would silence the
\* timer for good, although overlapping handlers raise and clear it.
FlagHasExecution ==
  \A w \in Worker : isExecuting[w] =>
    \E s \in Slot : Executing(w, s) /\ slot[w][s].via = "timer"

\* Keys, handlers and flag have their types, and the flag an execution.
FlagInv == TypeOK /\ FlagHasExecution

\* A worker set pending does not stay so while there is a task: it starts,
\* fails, or is restarted.
PendingIsPickedUp ==
  \A w \in Worker :
    (status[w] = "pending" /\ task_definition # NoConfig) ~> status[w] # "pending"
=============================================================================
