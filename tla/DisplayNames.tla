---------------------------- MODULE DisplayNames ----------------------------
(***************************************************************************)
(* The names a coordinator shows for workers (shared, name-resolver.ts):   *)
(* kept in Ensue, written there by the workers themselves, by provisioning *)
(* and through the coordinator (PATCH /api/coordinate/workers/:did/name),  *)
(* and remembered by the coordinator for the life of its process - also    *)
(* that there is no name, which is a truncated DID.                        *)
(*                                                                         *)
(* Workers share nothing, so there is one.  Abstracted: the client of      *)
(* Ensue hides failures, so that a failed read is one that found nothing   *)
(* and a failed write one that changed nothing.                            *)
(***************************************************************************)
EXTENDS Naturals, FiniteSets

CONSTANTS
  Name, NoName, TruncatedDid,
  LookUp, Renaming,   \* requests under way
  MaxNames            \* bound: names written, reads and writes that fail, restarts

ASSUME NamesAssumption ==
  /\ {NoName, TruncatedDid} \cap Name = {} /\ NoName # TruncatedDid
  /\ MaxNames \in Nat

VARIABLES
  displayName,   \* in Ensue
  cachedName,    \* of the process; NoName if there is none
  lookUp,        \* what each look-up under way has read, if it has
  renaming,      \* the name each request to rename is to write, and whether it has
  named,         \* ghost: the name given last, unless somebody gave one behind it
  disturbed,     \* ghost: a look-up or another renaming overlapped the last one
  namesLeft

namesVars == <<displayName, cachedName, lookUp, renaming, named, disturbed, namesLeft>>

NoLookUp == [pc |-> "idle", read |-> NoName]
NoRenaming == [pc |-> "idle", name |-> NoName]

NamesInit ==
  /\ displayName \in Name \cup {NoName}
  /\ cachedName = NoName
  /\ lookUp = [l \in LookUp |-> NoLookUp]
  /\ renaming = [r \in Renaming |-> NoRenaming]
  /\ named = NoName
  /\ disturbed = FALSE
  /\ namesLeft = MaxNames

NameChange == namesLeft > 0 /\ namesLeft' = namesLeft - 1
LookUpBecomes(l, c) == lookUp' = [lookUp EXCEPT ![l] = c]
RenamingBecomes(r, c) == renaming' = [renaming EXCEPT ![r] = c]
RenamingUnderWay == {r \in Renaming : renaming[r].pc # "idle"}

-----------------------------------------------------------------------------

\* A name that is known is not looked up.
resolveName(l) ==
  /\ lookUp[l].pc = "idle" /\ cachedName = NoName
  /\ LookUpBecomes(l, [NoLookUp EXCEPT !.pc = "reading"])
  /\ disturbed' = (disturbed \/ RenamingUnderWay # {})
  /\ UNCHANGED <<displayName, cachedName, renaming, named, namesLeft>>

NameRead(l) ==
  /\ lookUp[l].pc = "reading"
  /\ LookUpBecomes(l, [pc |-> "read", read |-> displayName])
  /\ UNCHANGED <<displayName, cachedName, renaming, named, disturbed, namesLeft>>

\* The fallback is kept like a name.
NameReadFails(l) ==
  /\ lookUp[l].pc = "reading"
  /\ NameChange
  /\ LookUpBecomes(l, [pc |-> "read", read |-> NoName])
  /\ named' = NoName
  /\ UNCHANGED <<displayName, cachedName, renaming, disturbed>>

Resolved(l) ==
  /\ lookUp[l].pc = "read"
  /\ cachedName' = IF lookUp[l].read = NoName THEN TruncatedDid ELSE lookUp[l].read
  /\ LookUpBecomes(l, NoLookUp)
  /\ UNCHANGED <<displayName, renaming, named, disturbed, namesLeft>>

-----------------------------------------------------------------------------

\* A request to rename begins: whoever is at it now may undo what it does.
setName(r, n) ==
  /\ renaming[r].pc = "idle"
  /\ NameChange
  /\ RenamingBecomes(r, [pc |-> "writing", name |-> n])
  /\ named' = n
  /\ disturbed' = (RenamingUnderWay # {} \/ \E l \in LookUp : lookUp[l].pc # "idle")
  /\ UNCHANGED <<displayName, cachedName, lookUp>>

NameStored(r) ==
  /\ renaming[r].pc = "writing"
  /\ displayName' = renaming[r].name
  /\ RenamingBecomes(r, [renaming[r] EXCEPT !.pc = "written"])
  /\ UNCHANGED <<cachedName, lookUp, named, disturbed, namesLeft>>

NameLost(r) ==
  /\ renaming[r].pc = "writing"
  /\ NameChange
  /\ RenamingBecomes(r, [renaming[r] EXCEPT !.pc = "written"])
  /\ named' = NoName
  /\ UNCHANGED <<displayName, cachedName, lookUp, disturbed>>

NameSet(r) ==
  /\ renaming[r].pc = "written"
  /\ cachedName' = renaming[r].name
  /\ RenamingBecomes(r, NoRenaming)
  /\ UNCHANGED <<displayName, lookUp, named, disturbed, namesLeft>>

-----------------------------------------------------------------------------

\* A worker that starts, or one that is provisioned, writes its name itself.
NameWritten(n) ==
  /\ NameChange
  /\ displayName' = n
  /\ named' = NoName
  /\ UNCHANGED <<cachedName, lookUp, renaming, disturbed>>

RestartCoordinator ==
  /\ NameChange
  /\ cachedName' = NoName
  /\ lookUp' = [l \in LookUp |-> NoLookUp]
  /\ renaming' = [r \in Renaming |-> NoRenaming]
  /\ named' = IF RenamingUnderWay = {} THEN named ELSE NoName
  /\ UNCHANGED <<displayName, disturbed>>

NamesNext ==
  \/ \E l \in LookUp : resolveName(l) \/ NameRead(l) \/ NameReadFails(l) \/ Resolved(l)
  \/ \E r \in Renaming :
       \/ \E n \in Name : setName(r, n)
       \/ NameStored(r) \/ NameLost(r) \/ NameSet(r)
  \/ \E n \in Name : NameWritten(n)
  \/ RestartCoordinator

NamesSpec == NamesInit /\ [][NamesNext]_namesVars

-----------------------------------------------------------------------------
(* Correctness *)

NamesTypeOK ==
  /\ displayName \in Name \cup {NoName}
  /\ cachedName \in Name \cup {NoName, TruncatedDid}
  /\ lookUp \in [LookUp -> [pc : {"idle", "reading", "read"}, read : Name \cup {NoName}]]
  /\ renaming \in [Renaming -> [pc : {"idle", "writing", "written"}, name : Name \cup {NoName}]]
  /\ named \in Name \cup {NoName} /\ disturbed \in BOOLEAN

\* A name given through the coordinator is the one it shows from then on, over
\* restarts and whatever was remembered before, unless a look-up or another
\* renaming was under way with it.
GivenNameIsShown ==
  (named # NoName /\ ~disturbed /\ RenamingUnderWay = {}) =>
    cachedName \in {NoName, named} /\ displayName = named

NamesInv == NamesTypeOK /\ GivenNameIsShown
=============================================================================
