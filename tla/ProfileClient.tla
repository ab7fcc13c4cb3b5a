---------------------------- MODULE ProfileClient ----------------------------
(***************************************************************************)
(* What a worker remembers of itself, worker-agent/src/storacha/           *)
(* profile-client.ts: manifesto, preferences, decisions and knowledge.     *)
(* Each is one document, kept in a cache of the process, in the shared     *)
(* memory (Ensue) and in a vault on Storacha; the first that has it is     *)
(* believed.  Executions load all four and append a decision; the routes   *)
(* of knowledge.ts edit the others.  All four are written alike: loaded,   *)
(* extended by an edit, and stored in cache, vault and memory, in turn.    *)
(*                                                                         *)
(* A document is the sequence of the edits in it, empty if it is blank or  *)
(* the identity file shipped with the worker.  Abstracted: encryption,     *)
(* what the edits say, and the cut of the decisions to the last 20.  A     *)
(* call is cut at its awaits; reading a vaulted document by its CID is one *)
(* step, and so is storing one and its CID.                                *)
(***************************************************************************)
EXTENDS Naturals, Sequences, FiniteSets, SequencesExt

CONSTANTS
  Call,        \* bound: calls of the client under way together
  NoDocument,
  MaxEdits, MaxRestarts, MaxFaults, MaxRekeys   \* bounds

ASSUME ProfileAssumption ==
  /\ NoDocument \notin Seq(1 .. MaxEdits)
  /\ MaxEdits \in Nat /\ MaxRestarts \in Nat /\ MaxFaults \in Nat /\ MaxRekeys \in Nat

VARIABLES
  blankCached,  \* whether a blank document is cached: a manifesto or preferences
  useStoracha,
  sequential,   \* whether callers wait for each other, and writes arrive in order
  cache,
  ensue,        \* what the worker can read there
  vault,        \* and what by the CIDs that it finds there
  call,
  repopulating, \* writes to Ensue after a cold start, not waited for
  edits,        \* edits so far: an edit is its number
  acked,        \* ghost: edits whose call has returned, under the present key
  restarts, rekeys,
  faults        \* failures so far, but for reads of Ensue that the vault makes good

settings == <<blankCached, useStoracha, sequential>>
counters == <<restarts, faults, rekeys>>
profileVars == <<settings, cache, ensue, vault, call, repopulating, edits, acked, counters>>

NoCall == [pc |-> "idle", edit |-> 0, value |-> NoDocument, cold |-> FALSE]

ProfileInit ==
  /\ blankCached \in BOOLEAN /\ useStoracha \in BOOLEAN /\ sequential \in BOOLEAN
  /\ cache = NoDocument /\ ensue = NoDocument /\ vault = NoDocument
  /\ call = [c \in Call |-> NoCall]
  /\ repopulating = {}
  /\ edits = 0 /\ acked = {}
  /\ restarts = 0 /\ faults = 0 /\ rekeys = 0

At(c, pc) == call[c].pc = pc
Fault == faults < MaxFaults /\ faults' = faults + 1
MayBegin(c) ==
  At(c, "idle") /\ (sequential => repopulating = {} /\ \A d \in Call : At(d, "idle"))

\* The document is there: a load is over, a save has extended it and goes on to
\* the vault.  All this is one stretch, the cache included.
Found(c, document, edit) ==
  IF edit = 0
  THEN /\ cache' = document
       /\ call' = [call EXCEPT ![c] = NoCall]
  ELSE /\ cache' = Append(document, edit)
       /\ call' = [call EXCEPT ![c] = [NoCall EXCEPT !.pc = "vaulting", !.edit = edit,
                                                   !.value = Append(document, edit)]]

\* getManifesto and its three siblings, of a document that is not cached.
Load(c) ==
  /\ MayBegin(c)
  /\ cache = NoDocument
  /\ call' = [call EXCEPT ![c] = [NoCall EXCEPT !.pc = "reading", !.cold = TRUE]]
  /\ UNCHANGED <<settings, cache, ensue, vault, repopulating, edits, acked, counters>>

\* Mutant: a cached document is extended only after another await.
Save_Awaits(c) ==
  /\ MayBegin(c)
  /\ edits < MaxEdits
  /\ edits' = edits + 1
  /\ call' = [call EXCEPT ![c] = [NoCall EXCEPT
       !.pc = IF cache = NoDocument THEN "reading" ELSE "read", !.edit = edits + 1,
       !.value = cache, !.cold = cache = NoDocument]]
  /\ UNCHANGED <<settings, cache, ensue, vault, repopulating, acked, counters>>

\* saveDecision, appendKnowledgeNote, and the routes that save a manifesto or
\* preferences: they load the document first.
Save(c) ==
  /\ MayBegin(c)
  /\ edits < MaxEdits
  /\ edits' = edits + 1
  /\ IF cache # NoDocument THEN Found(c, cache, edits + 1)
     ELSE /\ call' = [call EXCEPT ![c] = [NoCall EXCEPT !.pc = "reading", !.edit = edits + 1,
                                                      !.cold = TRUE]]
          /\ UNCHANGED cache
  /\ UNCHANGED <<settings, ensue, vault, repopulating, acked, counters>>

\* A read that fails reads as nothing; the vault, if there is one, is read then.
readJsonFromEnsue(c) ==
  /\ At(c, "reading")
  /\ \/ call' = [call EXCEPT ![c].pc = "read", ![c].value = ensue] /\ UNCHANGED faults
     \/ /\ call' = [call EXCEPT ![c].pc = "read", ![c].value = NoDocument]
        /\ IF useStoracha THEN UNCHANGED faults ELSE Fault
  /\ UNCHANGED <<settings, cache, ensue, vault, repopulating, edits, acked, restarts, rekeys>>

\* Nothing anywhere: a blank document, which only some remember.
Blank(c) ==
  IF call[c].edit = 0 /\ ~blankCached
  THEN call' = [call EXCEPT ![c] = NoCall] /\ UNCHANGED cache
  ELSE Found(c, << >>, call[c].edit)

\* Mutant: what Ensue does not give is taken for a blank document at once.
Read_NoVault(c) ==
  /\ At(c, "read")
  /\ IF call[c].value # NoDocument THEN Found(c, call[c].value, call[c].edit) ELSE Blank(c)
  /\ UNCHANGED <<settings, ensue, vault, repopulating, edits, acked, counters>>

Read(c) ==
  /\ At(c, "read")
  /\ \/ call[c].value # NoDocument /\ Found(c, call[c].value, call[c].edit)
     \/ call[c].value = NoDocument /\ ~useStoracha /\ Blank(c)
     \/ /\ call[c].value = NoDocument /\ useStoracha
        /\ call' = [call EXCEPT ![c].pc = "reading vault"]
        /\ UNCHANGED cache
  /\ UNCHANGED <<settings, ensue, vault, repopulating, edits, acked, counters>>

readFromStoracha(c) ==
  /\ At(c, "reading vault")
  /\ \/ call' = [call EXCEPT ![c].pc = "vault read", ![c].value = vault] /\ UNCHANGED faults
     \/ Fault /\ call' = [call EXCEPT ![c].pc = "vault read"]
  /\ UNCHANGED <<settings, cache, ensue, vault, repopulating, edits, acked, restarts, rekeys>>

\* Found in the vault, the document is sent to Ensue as well, and not waited for.
ColdRead(c) ==
  /\ At(c, "vault read")
  /\ IF call[c].value = NoDocument
     THEN Blank(c) /\ UNCHANGED repopulating
     ELSE /\ Found(c, call[c].value, call[c].edit)
          /\ repopulating' = repopulating \cup {call[c].value}
  /\ UNCHANGED <<settings, ensue, vault, edits, acked, counters>>

Repopulate(document) ==
  /\ document \in repopulating
  /\ repopulating' = repopulating \ {document}
  /\ ensue' = document
  /\ UNCHANGED <<settings, cache, vault, call, edits, acked, counters>>

encryptAndVault(c) ==
  /\ At(c, "vaulting")
  /\ call' = [call EXCEPT ![c].pc = "writing"]
  /\ \/ vault' = (IF useStoracha THEN call[c].value ELSE vault) /\ UNCHANGED faults
     \/ useStoracha /\ Fault /\ UNCHANGED vault
  /\ UNCHANGED <<settings, cache, ensue, repopulating, edits, acked, restarts, rekeys>>

\* Failed or not, the call returns as if it had stored the document.
writeJsonToEnsue(c) ==
  /\ At(c, "writing") /\ (sequential => repopulating = {})
  /\ call' = [call EXCEPT ![c] = NoCall]
  /\ \/ ensue' = call[c].value /\ UNCHANGED faults
     \/ Fault /\ UNCHANGED ensue
  /\ acked' = acked \cup {call[c].edit}
  /\ UNCHANGED <<settings, cache, vault, repopulating, edits, restarts, rekeys>>

\* The worker's process is restarted: what it had not sent is lost.
Restart ==
  /\ restarts < MaxRestarts
  /\ restarts' = restarts + 1
  /\ cache' = NoDocument
  /\ call' = [c \in Call |-> NoCall]
  /\ repopulating' = {}
  /\ UNCHANGED <<settings, ensue, vault, edits, acked, faults, rekeys>>

\* It is started again with another agent key.  The worker's DID, which begins the
\* name of everything it keeps in Ensue, the CIDs of its vault among it, and the key
\* of what it writes there are both derived from that one: it finds nothing.
Rekey ==
  /\ rekeys < MaxRekeys
  /\ rekeys' = rekeys + 1
  /\ ensue' = NoDocument /\ vault' = NoDocument /\ cache' = NoDocument
  /\ acked' = {}
  /\ call' = [c \in Call |-> NoCall]
  /\ repopulating' = {}
  /\ UNCHANGED <<settings, edits, restarts, faults>>

ProfileNext ==
  \/ \E c \in Call :
       \/ Load(c) \/ Save(c)
       \/ readJsonFromEnsue(c) \/ Read(c) \/ readFromStoracha(c) \/ ColdRead(c)
       \/ encryptAndVault(c) \/ writeJsonToEnsue(c)
  \/ \E document \in repopulating : Repopulate(document)
  \/ Restart \/ Rekey

ProfileSpec == ProfileInit /\ [][ProfileNext]_profileVars

-----------------------------------------------------------------------------
(* Correctness *)

ProfileTypeOK ==
  LET Document == Seq(1 .. MaxEdits) \cup {NoDocument} IN
  /\ cache \in Document /\ ensue \in Document /\ vault \in Document
  /\ repopulating \subseteq Document \ {NoDocument}
  /\ call \in [Call -> [ pc : {"idle", "reading", "read", "reading vault", "vault read",
                              "vaulting", "writing"},
                        edit : 0 .. MaxEdits, value : Document, cold : BOOLEAN ]]
  /\ edits \in 0 .. MaxEdits /\ acked \subseteq 1 .. edits

EditsOf(document) == IF document = NoDocument THEN {} ELSE ToSet(document)

\* An edit whose call has returned is there until the worker gets another key, over
\* restarts: where the next load looks first it is found, and in the vault, if there
\* is one, for a load that cannot read Ensue.  As long as callers wait for each other,
\* writes arrive in order and no other call fails.
SavedSurvives ==
  (sequential /\ faults = 0) =>
    /\ acked \subseteq EditsOf(IF cache # NoDocument THEN cache
                               ELSE IF ensue # NoDocument THEN ensue ELSE vault)
    /\ useStoracha => acked \subseteq EditsOf(vault)

ProfileInv == ProfileTypeOK /\ SavedSurvives

\* While the process runs, calls that overlap and fail as they may never take an
\* edit out of the cache, unless one of them began before there was a cache.
CacheGrows ==
  [][(cache # NoDocument /\ \A c \in Call : ~call[c].cold) =>
       cache' = NoDocument \/ EditsOf(cache) \subseteq EditsOf(cache')]_profileVars
=============================================================================
