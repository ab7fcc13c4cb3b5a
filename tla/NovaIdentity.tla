---------------------------- MODULE NovaIdentity ----------------------------
(***************************************************************************)
(* What the older workers (worker-agent-1, -2, -3) remember of themselves: *)
(* nova/agent-identity.ts over nova/nova-client.ts.  A worker uploads      *)
(* documents to a group at Nova, which lists uploads by position and not   *)
(* by name.  So the worker keeps a registry from file names to positions   *)
(* (cidRegistry), uploads it after each document, and at the next start    *)
(* takes the last upload of the group for it.                              *)
(*                                                                         *)
(* A document is the set of edits in it: an edit of the manifesto or of    *)
(* the preferences, or a decision, which has a file of its own.  A call is *)
(* cut at its awaits.  Abstracted: encryption; the preparation of an       *)
(* upload; what edits say, each of fields of its own.  Left out: reading   *)
(* for a vote, which changes nothing; an upload that lands after the       *)
(* process that sent it is gone.                                           *)
(***************************************************************************)
EXTENDS Naturals, Sequences, FiniteSets, SequencesExt

CONSTANTS
  WorkerId,    \* agents that may share a group
  MaxCalls,    \* bound: calls of one agent under way together, with its start
  Manifesto, Preferences,
  MaxWrites, MaxStarts, MaxMishaps   \* bounds: edits, starts again, requests that go wrong

ASSUME NovaAssumption ==
  /\ {Manifesto, Preferences} \cap (1 .. MaxWrites) = {}
  /\ MaxCalls \in Nat /\ MaxWrites \in Nat /\ MaxStarts \in Nat /\ MaxMishaps \in Nat

VARIABLES
  members,        \* the agents of the group
  inTurn,         \* whether the calls of an agent wait for each other
  novaAvailable, cidRegistry,   \* of each process
  uploads,        \* transactions of the group; a document's CID is its place there
  nova,           \* calls: where each is, and its local variables
  written,        \* edits begun, or not to come: the next is one more
  kept,           \* ghost: files and edits of the calls that ended well, by agent
  smooth,         \* ghost: no call of the group threw, none was cut by a restart
  anew,           \* ghost: agents that were started again
  startsLeft, mishapsLeft

ofProcess == <<novaAvailable, cidRegistry, nova>>
novaBounds == <<startsLeft, mishapsLeft>>
novaVars == <<members, inTurn, ofProcess, uploads, written, kept, smooth, anew, novaBounds>>

\* An edit is its number; a decision has the file of its own number.
Edit == 1 .. MaxWrites
NoEdit == 0
File == {Manifesto, Preferences} \cup Edit
Empty == [f \in File |-> 0]
NoWork == [pc |-> "idle", file |-> Manifesto, edit |-> NoEdit, edits |-> {}, cid |-> 0, cids |-> Empty]
Starting == [NoWork EXCEPT !.pc = "ensureGroup"]

\* A call takes the first free slot; the first of all is for initializeIdentity.
Start == 0
NovaCall == 1 .. MaxCalls
NovaSlot == NovaCall \cup {Start}

\* A registry is a document without edits, and the only one with CIDs.
Upload == [by : WorkerId, registry : BOOLEAN, file : File, edits : SUBSET Edit, cids : [File -> Nat]]

NovaInit ==
  /\ members \in (SUBSET WorkerId) \ {{}}
  /\ inTurn \in BOOLEAN
  /\ novaAvailable = [a \in WorkerId |-> TRUE]
  /\ cidRegistry = [a \in WorkerId |-> Empty]
  /\ uploads = << >>
  /\ nova = [a \in WorkerId |-> [s \in NovaSlot |-> IF s = Start THEN Starting ELSE NoWork]]
  /\ written \in 0 .. MaxWrites
  /\ kept = [a \in WorkerId |-> {}]
  /\ smooth = TRUE
  /\ anew = {}
  /\ startsLeft \in 0 .. MaxStarts /\ mishapsLeft \in 0 .. MaxMishaps

In(a, s, pc) == nova[a][s].pc = pc
Becomes(a, s, c) == nova' = [nova EXCEPT ![a][s] = c]
Mishap == mishapsLeft > 0 /\ mishapsLeft' = mishapsLeft - 1

\* A call ends with an error.
Throws(a, s) == Becomes(a, s, NoWork) /\ smooth' = FALSE

\* uploadJson begins; it needs the group.
uploadJson(a, s, c) ==
  IF novaAvailable[a] THEN Becomes(a, s, c) /\ UNCHANGED smooth ELSE Throws(a, s)

\* What the worker itself brings along: of what a registry does not have, the first.
Missing(cids) == {f \in {Manifesto, Preferences} : cids[f] = 0}
Seeding(cids) == [NoWork EXCEPT !.pc = "uploading",
                                !.file = IF cids[Manifesto] = 0 THEN Manifesto ELSE Preferences]

\* The start goes on, with the registry it has: what is not there is seeded.
Seed(a, cids) ==
  IF Missing(cids) = {}
  THEN Becomes(a, Start, NoWork) /\ UNCHANGED smooth
  ELSE uploadJson(a, Start, Seeding(cids))

-----------------------------------------------------------------------------
(* The start of an agent *)

\* The group is there and the account a member of it, or Nova is not used.
ensureGroup(a) ==
  /\ In(a, Start, "ensureGroup")
  /\ \/ /\ Becomes(a, Start, [NoWork EXCEPT !.pc = "listing"])
        /\ UNCHANGED <<novaAvailable, smooth, mishapsLeft>>
     \/ /\ Mishap
        /\ novaAvailable' = [novaAvailable EXCEPT ![a] = FALSE]
        /\ Throws(a, Start)
  /\ UNCHANGED <<members, inTurn, cidRegistry, uploads, written, kept, anew, startsLeft>>

\* Mutant: the list is read from its wrong end.
listGroupTransactions_First(a) ==
  /\ In(a, Start, "listing")
  /\ IF uploads = << >>
     THEN Seed(a, cidRegistry[a])
     ELSE Becomes(a, Start, [NoWork EXCEPT !.pc = "loading", !.cid = 1]) /\ UNCHANGED smooth
  /\ UNCHANGED <<members, inTurn, novaAvailable, cidRegistry, uploads, written, kept, anew, novaBounds>>

listGroupTransactions(a) ==
  /\ In(a, Start, "listing")
  /\ IF uploads = << >>
     THEN Seed(a, cidRegistry[a])
     ELSE Becomes(a, Start, [NoWork EXCEPT !.pc = "loading", !.cid = Len(uploads)]) /\ UNCHANGED smooth
  /\ UNCHANGED <<members, inTurn, novaAvailable, cidRegistry, uploads, written, kept, anew, novaBounds>>

\* Object.assign: entries that are not in the loaded registry stay.
Loaded(a, cids) == [f \in File |-> IF cids[f] # 0 THEN cids[f] ELSE cidRegistry[a][f]]

\* The last upload of the group, whosever it is, if it is a registry.
loadRegistry(a) ==
  /\ In(a, Start, "loading")
  /\ LET last == uploads[nova[a][Start].cid]
         cids == IF last.registry THEN Loaded(a, last.cids) ELSE cidRegistry[a]
     IN /\ cidRegistry' = [cidRegistry EXCEPT ![a] = cids]
        /\ Seed(a, cids)
  /\ UNCHANGED <<members, inTurn, novaAvailable, uploads, written, kept, anew, novaBounds>>

\* A registry that cannot be read is none.
LoadFails(a) ==
  /\ In(a, Start, "listing") \/ In(a, Start, "loading")
  /\ Mishap
  /\ Becomes(a, Start, IF Missing(cidRegistry[a]) = {} THEN NoWork ELSE Seeding(cidRegistry[a]))
  /\ smooth' = FALSE
  /\ UNCHANGED <<members, inTurn, novaAvailable, cidRegistry, uploads, written, kept, anew, startsLeft>>

-----------------------------------------------------------------------------
(* Calls: executions record decisions, routes edit the other documents *)

MayCall(a, s) ==
  /\ In(a, s, "idle") /\ \A t \in 1 .. s - 1 : ~In(a, t, "idle")
  /\ novaAvailable[a]
  /\ written < MaxWrites
  /\ Cardinality({t \in NovaSlot : ~In(a, t, "idle")}) < MaxCalls
  /\ inTurn => \A t \in NovaSlot : In(a, t, "idle")

recordDecision(a, s, e) ==
  /\ MayCall(a, s)
  /\ Becomes(a, s, [NoWork EXCEPT !.pc = "uploading", !.file = e, !.edit = e, !.edits = {e}])
  /\ written' = e
  /\ UNCHANGED <<members, inTurn, novaAvailable, cidRegistry, uploads, kept, smooth, anew, novaBounds>>

\* updateManifesto and updatePreferences: the document is read unless there is none.
update(a, s, f, e) ==
  /\ MayCall(a, s)
  /\ LET cid == cidRegistry[a][f] IN
     Becomes(a, s, [NoWork EXCEPT !.pc = IF cid = 0 THEN "uploading" ELSE "retrieving",
                                !.file = f, !.edit = e, !.edits = {e}, !.cid = cid])
  /\ written' = e
  /\ UNCHANGED <<members, inTurn, novaAvailable, cidRegistry, uploads, kept, smooth, anew, novaBounds>>

retrieveJson(a, s) ==
  /\ In(a, s, "retrieving")
  /\ uploadJson(a, s, [nova[a][s] EXCEPT !.pc = "uploading",
                                         !.edits = @ \cup uploads[nova[a][s].cid].edits])
  /\ UNCHANGED <<members, inTurn, novaAvailable, cidRegistry, uploads, written, kept, anew, novaBounds>>

\* The upload is recorded, of a document or of a registry.
robustUpload(a, s) ==
  LET c == nova[a][s] IN
  /\ c.pc \in {"uploading", "saving"}
  /\ uploads' = Append(uploads, [by |-> a, registry |-> c.pc = "saving", file |-> c.file,
                                 edits |-> c.edits, cids |-> c.cids])
  /\ Becomes(a, s, [c EXCEPT !.pc = IF c.pc = "saving" THEN "saved" ELSE "uploaded",
                             !.cid = Len(uploads')])
  /\ UNCHANGED <<members, inTurn, novaAvailable, cidRegistry, written, kept, smooth, anew, novaBounds>>

\* No answer comes; the upload is sent, and recorded, once more.
withRetry(a, s) ==
  /\ In(a, s, "uploaded") \/ In(a, s, "saved")
  /\ Mishap
  /\ uploads' = Append(uploads, uploads[nova[a][s].cid])
  /\ Becomes(a, s, [nova[a][s] EXCEPT !.cid = Len(uploads')])
  /\ UNCHANGED <<members, inTurn, novaAvailable, cidRegistry, written, kept, smooth, anew, startsLeft>>

\* All attempts have failed.
UploadFails(a, s) ==
  /\ nova[a][s].pc \in {"retrieving", "uploading", "uploaded", "saving", "saved"}
  /\ Mishap
  /\ Throws(a, s)
  /\ UNCHANGED <<members, inTurn, novaAvailable, cidRegistry, uploads, written, kept, anew, startsLeft>>

\* The registry as it is now begins to be uploaded.
Saving(c, cids) == [NoWork EXCEPT !.pc = "saving", !.file = c.file, !.edit = c.edit, !.cids = cids]

\* The document has its place; a start saves it at once, a call after a pause.
Uploaded(a, s) ==
  LET c == nova[a][s]
      cids == [cidRegistry[a] EXCEPT ![c.file] = c.cid]
  IN
  /\ In(a, s, "uploaded")
  /\ cidRegistry' = [cidRegistry EXCEPT ![a] = cids]
  /\ IF s = Start
     THEN uploadJson(a, s, Saving(c, cids))
     ELSE Becomes(a, s, [c EXCEPT !.pc = "pausing"]) /\ UNCHANGED smooth
  /\ UNCHANGED <<members, inTurn, novaAvailable, uploads, written, kept, anew, novaBounds>>

saveRegistry(a, s) ==
  /\ In(a, s, "pausing")
  /\ uploadJson(a, s, Saving(nova[a][s], cidRegistry[a]))
  /\ UNCHANGED <<members, inTurn, novaAvailable, cidRegistry, uploads, written, kept, anew, novaBounds>>

Saved(a, s) ==
  /\ In(a, s, "saved")
  /\ IF s = Start
     THEN Seed(a, cidRegistry[a]) /\ UNCHANGED kept
     ELSE /\ Becomes(a, s, NoWork)
          /\ kept' = [kept EXCEPT ![a] = @ \cup {<<nova[a][s].file, nova[a][s].edit>>}]
          /\ UNCHANGED smooth
  /\ UNCHANGED <<members, inTurn, novaAvailable, cidRegistry, uploads, written, anew, novaBounds>>

\* The process starts anew, and knows nothing.
RestartAgent(a) ==
  /\ startsLeft > 0
  /\ startsLeft' = startsLeft - 1
  /\ anew' = anew \cup {a}
  /\ smooth' = (smooth /\ \A s \in NovaSlot : In(a, s, "idle"))
  /\ novaAvailable' = [novaAvailable EXCEPT ![a] = TRUE]
  /\ cidRegistry' = [cidRegistry EXCEPT ![a] = Empty]
  /\ nova' = [nova EXCEPT ![a] = [s \in NovaSlot |-> IF s = Start THEN Starting ELSE NoWork]]
  /\ UNCHANGED <<members, inTurn, uploads, written, kept, mishapsLeft>>

-----------------------------------------------------------------------------

NovaNext ==
  \E a \in members :
    \/ ensureGroup(a) \/ listGroupTransactions(a) \/ loadRegistry(a) \/ LoadFails(a)
    \/ RestartAgent(a)
    \/ \E s \in NovaCall :
         \/ recordDecision(a, s, written + 1)
         \/ \E f \in {Manifesto, Preferences} : update(a, s, f, written + 1)
    \/ \E s \in NovaSlot :
         \/ retrieveJson(a, s) \/ robustUpload(a, s) \/ withRetry(a, s) \/ UploadFails(a, s)
         \/ Uploaded(a, s) \/ saveRegistry(a, s) \/ Saved(a, s)

NovaSpec == NovaInit /\ [][NovaNext]_novaVars

-----------------------------------------------------------------------------
(* Correctness *)

NovaTypeOK ==
  /\ members \subseteq WorkerId /\ inTurn \in BOOLEAN /\ smooth \in BOOLEAN
  /\ novaAvailable \in [WorkerId -> BOOLEAN]
  /\ cidRegistry \in [WorkerId -> [File -> 0 .. Len(uploads)]]
  /\ uploads \in Seq(Upload)
  /\ kept \in [WorkerId -> SUBSET (File \X Edit)]
  /\ written \in 0 .. MaxWrites /\ anew \subseteq WorkerId

AtRest(a) == \A s \in NovaSlot : In(a, s, "idle")

\* What an agent reads under a name was uploaded under it, and by itself if the
\* group is its own.
FilesAreNamed ==
  \A a \in members, f \in File :
    LET cid == cidRegistry[a][f] IN
    cid # 0 => /\ ~uploads[cid].registry /\ uploads[cid].file = f
               /\ members = {a} => uploads[cid].by = a

\* "The registry itself is always the last upload": it is when nothing is under
\* way, if the group has one agent, whose calls wait for each other and none was
\* cut short - over retries of uploads, which are recorded twice.
RegistryIsLast ==
  \A a \in WorkerId :
    (members = {a} /\ inTurn /\ smooth /\ AtRest(a)) =>
      uploads # << >> /\ Last(uploads).registry /\ Last(uploads).cids = cidRegistry[a]

\* Under the same conditions no edit is lost, over restarts.
EditsAreKept ==
  \A a \in WorkerId :
    (members = {a} /\ inTurn /\ smooth /\ AtRest(a)) =>
      \A k \in kept[a] : LET cid == cidRegistry[a][k[1]] IN cid # 0 /\ k[2] \in uploads[cid].edits

\* A decision is known until the process ends, whatever calls overlap, fail or
\* share the group.
DecisionsAreKnown ==
  \A a \in members \ anew : \A k \in kept[a] : cidRegistry[a][k[1]] # 0

NovaInv ==
  NovaTypeOK /\ FilesAreNamed /\ RegistryIsLast /\ EditsAreKept /\ DecisionsAreKnown
=============================================================================
