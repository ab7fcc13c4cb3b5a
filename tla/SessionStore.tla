---------------------------- MODULE SessionStore ----------------------------
(***************************************************************************)
(* The sessions of the Ensue MCP server: the bounded store of              *)
(* session-store.ts, with the request handler and the sweeping timer of    *)
(* index.ts that use it.                                                   *)
(*                                                                         *)
(* A handler that makes a session looks at the capacity, awaits the        *)
(* connection of a new server, and registers the session when the client   *)
(* is initialized; in between others do the same.  A session is named by   *)
(* the connection that makes it.  Left out: the tools and their answers,   *)
(* requests to other addresses, and what the library does with an answer.  *)
(***************************************************************************)
EXTENDS Naturals, FiniteSets

CONSTANTS
  Connection,
  maxSessions, idleTtlMs,
  sweepIntervalMs,
  MaxTime          \* bound

ASSUME SessionAssumption ==
  /\ IsFiniteSet(Connection)
  /\ maxSessions \in Nat /\ idleTtlMs \in Nat /\ MaxTime \in Nat
  /\ sweepIntervalMs \in Nat \ {0}

VARIABLES
  time,          \* Date.now()
  nextSweep,     \* when the timer fires
  sessions,      \* ids in the store
  lastActivity,  \* of each id in the store
  transport,     \* "none", "connecting", "open", "closing" or "closed"
  lastRequest    \* ghost: when each session last got a request

sessionVars == <<time, nextSweep, sessions, lastActivity, transport, lastRequest>>

SessionInit ==
  /\ time = 0
  /\ nextSweep = sweepIntervalMs
  /\ sessions = {}
  /\ lastActivity = [c \in Connection |-> 0]
  /\ transport = [c \in Connection |-> "none"]
  /\ lastRequest = [c \in Connection |-> 0]

isAtCapacity == Cardinality(sessions) >= maxSessions

\* An initialize request without a session.
Initialize(c) ==
  /\ transport[c] = "none"
  /\ ~isAtCapacity
  /\ transport' = [transport EXCEPT ![c] = "connecting"]
  /\ UNCHANGED <<time, nextSweep, sessions, lastActivity, lastRequest>>

\* Mutant: the capacity was looked at before.
register_Unchecked(c) ==
  /\ transport[c] = "connecting"
  /\ sessions' = sessions \cup {c}
  /\ lastActivity' = [lastActivity EXCEPT ![c] = time]
  /\ lastRequest' = [lastRequest EXCEPT ![c] = time]
  /\ transport' = [transport EXCEPT ![c] = "open"]
  /\ UNCHANGED <<time, nextSweep>>

\* onsessioninitialized: the store looks again, and refuses a session that lost
\* the race; its transport is closed.
register(c) ==
  /\ transport[c] = "connecting"
  /\ IF isAtCapacity
     THEN /\ transport' = [transport EXCEPT ![c] = "closed"]
          /\ UNCHANGED <<sessions, lastActivity, lastRequest>>
     ELSE /\ sessions' = sessions \cup {c}
          /\ lastActivity' = [lastActivity EXCEPT ![c] = time]
          /\ lastRequest' = [lastRequest EXCEPT ![c] = time]
          /\ transport' = [transport EXCEPT ![c] = "open"]
  /\ UNCHANGED <<time, nextSweep>>

\* The connection of the new server fails: 500, and nothing was registered.
ConnectFails(c) ==
  /\ transport[c] = "connecting"
  /\ transport' = [transport EXCEPT ![c] = "closed"]
  /\ UNCHANGED <<time, nextSweep, sessions, lastActivity, lastRequest>>

\* Mutant: a request does not count as activity.
touch_Not(c) ==
  /\ c \in sessions
  /\ lastRequest' = [lastRequest EXCEPT ![c] = time]
  /\ UNCHANGED <<time, nextSweep, sessions, lastActivity, transport>>

\* A request of a session in the store; any other is answered 400.
touch(c) ==
  /\ c \in sessions
  /\ lastActivity' = [lastActivity EXCEPT ![c] = time]
  /\ lastRequest' = [lastRequest EXCEPT ![c] = time]
  /\ UNCHANGED <<time, nextSweep, sessions, transport>>

\* The client ends its session: the transport's onclose takes it out.
remove(c) ==
  /\ transport[c] = "open"
  /\ transport' = [transport EXCEPT ![c] = "closed"]
  /\ sessions' = sessions \ {c}
  /\ UNCHANGED <<time, nextSweep, lastActivity, lastRequest>>

\* cutoff = now - idleTtlMs; strictly older sessions are idle.
Idle == {c \in sessions : lastActivity[c] + idleTtlMs < time}

\* Deletes them; their transports are closed right after, without waiting.
sweep ==
  /\ time = nextSweep
  /\ nextSweep' = nextSweep + sweepIntervalMs
  /\ sessions' = sessions \ Idle
  /\ transport' = [c \in Connection |-> IF c \in Idle THEN "closing" ELSE transport[c]]
  /\ UNCHANGED <<time, lastActivity, lastRequest>>

\* The close runs, and its onclose finds nothing left to take out.
CloseSwept(c) ==
  /\ transport[c] = "closing"
  /\ transport' = [transport EXCEPT ![c] = "closed"]
  /\ sessions' = sessions \ {c}
  /\ UNCHANGED <<time, nextSweep, lastActivity, lastRequest>>

\* Time does not pass the moment the timer fires.
Tick ==
  /\ time < MaxTime /\ time < nextSweep
  /\ time' = time + 1
  /\ UNCHANGED <<nextSweep, sessions, lastActivity, transport, lastRequest>>

SessionNext ==
  \/ \E c \in Connection :
       \/ Initialize(c) \/ register(c) \/ ConnectFails(c)
       \/ touch(c) \/ remove(c) \/ CloseSwept(c)
  \/ sweep
  \/ Tick

SessionSpec == SessionInit /\ [][SessionNext]_sessionVars

-----------------------------------------------------------------------------
(* Correctness *)

SessionTypeOK ==
  /\ time \in Nat /\ nextSweep \in Nat
  /\ sessions \subseteq Connection
  /\ lastActivity \in [Connection -> Nat]
  /\ transport \in [Connection -> {"none", "connecting", "open", "closing", "closed"}]
  /\ lastRequest \in [Connection -> Nat]

\* "Hard ceiling": the store never holds more than maxSessions, however many
\* handlers saw room for one and awaited their connections together.
HardCeiling == Cardinality(sessions) <= maxSessions

\* Every open transport is in the store, where its client's end or the sweep
\* finds it, and nothing else is: refused, failed and swept ones do not leak.
NoLeak == sessions = {c \in Connection : transport[c] = "open"}

\* No session stays idle for longer than the time to live and one period of the
\* timer, so that memory does not grow with clients that vanished.
IdleIsBounded ==
  \A c \in sessions : time - lastActivity[c] <= idleTtlMs + sweepIntervalMs

SessionInv == SessionTypeOK /\ HardCeiling /\ NoLeak /\ IdleIsBounded

\* "So the session won't be swept while in use": the sweep takes no session that
\* got a request within the time to live.
ActiveIsKept ==
  [][\A c \in Connection :
       (transport[c] = "open" /\ transport'[c] = "closing")
         => lastRequest[c] + idleTtlMs < time]_sessionVars
=============================================================================
