------------------------------ MODULE Settlement ------------------------------
(***************************************************************************)
(* What the coordinator contract promises to whoever starts a              *)
(* coordination: every request is answered exactly once, with a result or  *)
(* with a failure; the public record of the request, for as long as the    *)
(* owner keeps it, opens with the request and closes with that answer, in  *)
(* the same step, and never shows another.                                 *)
(***************************************************************************)
EXTENDS Naturals

CONSTANTS
  Request,   \* ids in the order they are given out, 1 .. n
  Answer,    \* the results a request can be answered with
  NoAnswer   \* no result (yet)

VARIABLES
  reply,     \* what the caller's promise has come to
  record,    \* what the public record shows
  answer     \* the result the record shows

vars == <<reply, record, answer>>

Init ==
  /\ reply = [q \in Request |-> "none"]
  /\ record = [q \in Request |-> "absent"]
  /\ answer = [q \in Request |-> NoAnswer]

\* Requests take their ids in order.
Ask(q) ==
  /\ reply[q] = "none"
  /\ \A p \in Request : p < q => reply[p] # "none"
  /\ reply' = [reply EXCEPT ![q] = "pending"]
  /\ record' = [record EXCEPT ![q] = "open"]
  /\ UNCHANGED answer

\* The record closes with the answer, unless it was withdrawn.
Close(q, how, a) ==
  IF record[q] = "absent"
    THEN UNCHANGED <<record, answer>>
    ELSE /\ record' = [record EXCEPT ![q] = how]
         /\ answer' = [answer EXCEPT ![q] = a]

Succeed(q, a) ==
  /\ reply[q] = "pending"
  /\ reply' = [reply EXCEPT ![q] = "answered"]
  /\ Close(q, "finalized", a)

Fail(q) ==
  /\ reply[q] = "pending"
  /\ reply' = [reply EXCEPT ![q] = "failed"]
  /\ Close(q, "timed out", NoAnswer)

\* The owner takes the record down; the promise to the caller stands.
Withdraw(q) ==
  /\ record' = [record EXCEPT ![q] = "absent"]
  /\ answer' = [answer EXCEPT ![q] = NoAnswer]
  /\ UNCHANGED reply

Next == \E q \in Request :
  \/ Ask(q)
  \/ \E a \in Answer : Succeed(q, a)
  \/ Fail(q)
  \/ Withdraw(q)

Spec == Init /\ [][Next]_vars

Settle(q) == Fail(q) \/ \E a \in Answer : Succeed(q, a)

FairSpec == Spec /\ \A q \in Request : WF_vars(Settle(q))
=============================================================================
