-------------------------------- MODULE Vault --------------------------------
(***************************************************************************)
(* The vault of an agent on Storacha: storacha/vault.ts over               *)
(* storacha/identity.ts, the same code in worker and coordinator, and what *)
(* the coordinator keeps there after a deliberation (memory-monitor.ts,    *)
(* ensue-backup.ts, filecoin/archiver.ts).  Calls overlap.  The clients    *)
(* they need are made once and shared as promises; one that is rejected    *)
(* stays so until the process ends.  The modules of identity.ts are loaded *)
(* by whoever finds the first of them missing.                             *)
(*                                                                         *)
(* A task is a call, or the making of the shared client.  It is cut at its *)
(* awaits.  Abstracted: encryption, what is kept, providers and deals.     *)
(***************************************************************************)
EXTENDS Naturals, Sequences

CONSTANTS
  VaultCall,   \* bound: calls under way together
  Proposal, EnsueTree,   \* what the coordinator keeps
  Gateways,    \* how many there are; the first is the primary
  RetriesPerGateway,
  MaxTasks, MaxFailures, MaxReboots   \* bounds: calls, things that fail, restarts

ASSUME VaultAssumption ==
  /\ Gateways \in Nat \ {0} /\ RetriesPerGateway \in Nat \ {0}
  /\ EnsueTree \notin Proposal /\ "the shared client" \notin VaultCall
  /\ MaxTasks \in Nat /\ MaxFailures \in Nat /\ MaxReboots \in Nat

VARIABLES
  ofWorker,          \* whether the agent is a worker
  identityModules,   \* of identity.ts: none, some or all of its four are loaded
  storachaClient,    \* whether there is one
  known,             \* whether the agent has derived its DID
  loadPromise, litClientPromise, encryptedClientPromise,
  task,
  stored,            \* the coordinator's uploads; a CID is a place among them
  archival,          \* coordination/archival/<proposal> in Ensue
  vaultBounds        \* calls, failures and restarts left

promises == <<loadPromise, litClientPromise, encryptedClientPromise>>
identity == <<identityModules, storachaClient, known>>
backups == <<stored, archival>>
vaultVars == <<ofWorker, identity, promises, task, backups, vaultBounds>>

Shared == "the shared client"
Task == VaultCall \cup {Shared}
NoCid == 0
NoTask == [pc |-> "idle", op |-> "getAgentDid", half |-> FALSE, gateway |-> 0, attempt |-> 0,
           failures |-> 0, subject |-> EnsueTree, cid |-> NoCid]

VaultInit ==
  /\ ofWorker \in BOOLEAN
  /\ identityModules = "none" /\ storachaClient = FALSE /\ known = FALSE
  /\ loadPromise = "none" /\ litClientPromise = "none" /\ encryptedClientPromise = "none"
  /\ task = [t \in Task |-> NoTask]
  /\ stored = << >>
  /\ archival = [p \in Proposal |-> NoCid]
  /\ vaultBounds = [calls |-> MaxTasks, failures |-> MaxFailures, reboots |-> MaxReboots]

IsAt(t, pc) == task[t].pc = pc
GoesTo(t, pc) == task' = [task EXCEPT ![t].pc = pc]
Ends(t) == task' = [task EXCEPT ![t] = NoTask]
Spend(field) == vaultBounds[field] > 0 /\ vaultBounds' = [vaultBounds EXCEPT ![field] = @ - 1]

\* A retrieval goes on to its next attempt, if there is one; other calls throw.
Failed(r) ==
  IF r.gateway = 0 \/ (r.gateway = Gateways /\ r.attempt = RetriesPerGateway)
  THEN [r EXCEPT !.pc = "threw"]
  ELSE IF r.attempt < RetriesPerGateway
  THEN [r EXCEPT !.pc = "trying", !.attempt = @ + 1]
  ELSE [r EXCEPT !.pc = "trying", !.gateway = @ + 1, !.attempt = 1]

\* What a task waits for fails: through "own" failures of its own, or none.
Fails(t, own) ==
  IF t = Shared
  THEN Ends(t) /\ encryptedClientPromise' = "rejected"
  ELSE /\ task' = [task EXCEPT ![t] = Failed([task[t] EXCEPT !.failures = @ + own])]
       /\ UNCHANGED encryptedClientPromise

Goes(t, pc) == GoesTo(t, pc) /\ UNCHANGED encryptedClientPromise

-----------------------------------------------------------------------------
(* identity.ts *)

\* createStorachaClient is through: the shared client and a fallback go on to Lit, a
\* retrieval to its first gateway.
HasStoracha(t) ==
  IF task[t].op = "retrieve" /\ task[t].gateway = 0
  THEN task' = [task EXCEPT ![t].pc = "trying", ![t].gateway = 1, ![t].attempt = 1]
  ELSE GoesTo(t, "lit")

\* All modules are there, as far as this task knows.
HasIdentityModules(t) ==
  IF task[t].op = "getAgentDid" THEN Ends(t) /\ known' = TRUE
  ELSE GoesTo(t, "creating") /\ UNCHANGED known

\* getSigner or createStorachaClient.  Between the first import and the last, the
\* modules pass for loaded, but what is not there cannot be called; a DID needs the
\* second only.
BeginIdentity(t) ==
  /\ IsAt(t, "identity")
  /\ \/ /\ storachaClient /\ task[t].op # "getAgentDid"
        /\ HasStoracha(t)
        /\ UNCHANGED <<encryptedClientPromise, known>>
     \/ /\ ~storachaClient \/ task[t].op = "getAgentDid"
        /\ \/ /\ identityModules = "none"
              /\ Goes(t, "importing") /\ UNCHANGED known
           \/ /\ identityModules = "some"
              /\ IF t = Shared THEN Fails(t, 0)
                 ELSE /\ task' = [task EXCEPT ![t] = Failed([task[t] EXCEPT !.half = TRUE])]
                      /\ UNCHANGED encryptedClientPromise
              /\ UNCHANGED known
           \/ /\ identityModules = "all" \/ (identityModules = "some" /\ task[t].op = "getAgentDid")
              /\ HasIdentityModules(t)
              /\ UNCHANGED encryptedClientPromise
  /\ UNCHANGED <<ofWorker, identityModules, storachaClient, loadPromise, litClientPromise,
                 backups, vaultBounds>>

loadModules(t) ==
  /\ \/ /\ IsAt(t, "importing")
        /\ identityModules' = IF identityModules = "none" THEN "some" ELSE identityModules
        /\ GoesTo(t, "importing the rest") /\ UNCHANGED known
     \/ /\ IsAt(t, "importing the rest")
        /\ identityModules' = "all"
        /\ HasIdentityModules(t)
  /\ UNCHANGED <<ofWorker, storachaClient, promises, backups, vaultBounds>>

createStorachaClient(t) ==
  /\ IsAt(t, "creating")
  /\ storachaClient' = TRUE
  /\ HasStoracha(t)
  /\ UNCHANGED <<ofWorker, identityModules, known, promises, backups, vaultBounds>>

IdentityFails(t) ==
  /\ task[t].pc \in {"importing", "importing the rest", "creating"}
  /\ Spend("failures")
  /\ Fails(t, 1)
  /\ UNCHANGED <<ofWorker, identity, loadPromise, litClientPromise, backups>>

-----------------------------------------------------------------------------
(* vault.ts: the promises *)

loadVaultModules ==
  /\ loadPromise = "pending"
  /\ \/ loadPromise' = "ready" /\ UNCHANGED vaultBounds
     \/ loadPromise' = "rejected" /\ Spend("failures")
  /\ UNCHANGED <<ofWorker, identity, litClientPromise, encryptedClientPromise, task, backups>>

createLitClient ==
  /\ litClientPromise = "pending"
  /\ \/ litClientPromise' = "ready" /\ UNCHANGED vaultBounds
     \/ litClientPromise' = "rejected" /\ Spend("failures")
  /\ UNCHANGED <<ofWorker, identity, loadPromise, encryptedClientPromise, task, backups>>

\* createEncryptedClientForGateway begins with the modules and goes on to identity.ts,
getModules(t) ==
  /\ IsAt(t, "modules")
  /\ \/ loadPromise = "none" /\ loadPromise' = "pending" /\ UNCHANGED <<task, encryptedClientPromise>>
     \/ loadPromise = "ready" /\ Goes(t, "identity") /\ UNCHANGED loadPromise
     \/ loadPromise = "rejected" /\ Fails(t, 0) /\ UNCHANGED loadPromise
  /\ UNCHANGED <<ofWorker, identity, litClientPromise, backups, vaultBounds>>

\* The client for a gateway is there.
Built(t) ==
  IF t = Shared THEN Ends(t) /\ encryptedClientPromise' = "ready" ELSE Goes(t, "sending")

\* and to Lit.
getLitClient(t) ==
  /\ IsAt(t, "lit")
  /\ \/ /\ litClientPromise = "none" /\ litClientPromise' = "pending"
        /\ UNCHANGED <<task, encryptedClientPromise>>
     \/ litClientPromise = "ready" /\ Built(t) /\ UNCHANGED <<litClientPromise>>
     \/ litClientPromise = "rejected" /\ Fails(t, 0) /\ UNCHANGED <<litClientPromise>>
  /\ UNCHANGED <<ofWorker, identity, loadPromise, backups, vaultBounds>>

getEncryptedClient(t) ==
  /\ IsAt(t, "client")
  /\ \/ /\ encryptedClientPromise = "none"
        /\ encryptedClientPromise' = "pending"
        /\ task' = [task EXCEPT ![Shared] = [NoTask EXCEPT !.pc = "modules", !.op = "build"]]
     \/ encryptedClientPromise = "ready" /\ Goes(t, "sending")
     \/ encryptedClientPromise = "rejected" /\ Fails(t, 0)
  /\ UNCHANGED <<ofWorker, identity, loadPromise, litClientPromise, backups, vaultBounds>>

-----------------------------------------------------------------------------
(* The calls *)

\* A worker stores its documents and reads them back once it knows its DID; a
\* coordinator keeps transcripts and Ensue's tree, and nothing waits for that.
BeginTask(t, op, subject) ==
  /\ task[t].pc \in {"idle", "threw"}
  /\ Spend("calls")
  /\ \/ op = "getAgentDid" /\ subject = EnsueTree
     \/ op \in {"vault", "retrieve"} /\ ofWorker /\ known /\ subject = EnsueTree
     \/ op = "backup" /\ ~ofWorker
  /\ task' = [task EXCEPT ![t] = [NoTask EXCEPT !.op = op, !.subject = subject,
       !.pc = IF op \in {"getAgentDid", "retrieve"} THEN "identity"
              ELSE IF op = "backup" /\ subject = EnsueTree THEN "listing" ELSE "client"]]
  /\ UNCHANGED <<ofWorker, identity, promises, backups>>

\* An empty tree is not kept.
serializeEnsueTree(t) ==
  /\ IsAt(t, "listing")
  /\ Goes(t, "client") \/ (Ends(t) /\ UNCHANGED encryptedClientPromise)
  /\ UNCHANGED <<ofWorker, identity, loadPromise, litClientPromise, backups, vaultBounds>>

retrieveAndDecrypt(t) ==
  /\ IsAt(t, "trying")
  /\ GoesTo(t, IF task[t].gateway = 1 THEN "client" ELSE "modules")
  /\ UNCHANGED <<ofWorker, identity, promises, backups, vaultBounds>>

\* The upload, or the retrieval, is done.
Sent(t) ==
  /\ IsAt(t, "sending")
  /\ IF task[t].op = "backup"
     THEN /\ stored' = Append(stored, task[t].subject)
          /\ task' = [task EXCEPT ![t].pc = "archiving", ![t].cid = Len(stored')]
     ELSE Ends(t) /\ UNCHANGED stored
  /\ UNCHANGED <<ofWorker, identity, promises, archival, vaultBounds>>

\* A listing, upload or retrieval fails, or takes too long.
SendFails(t) ==
  /\ IsAt(t, "listing") \/ IsAt(t, "sending")
  /\ Spend("failures")
  /\ Fails(t, 1)
  /\ UNCHANGED <<ofWorker, identity, loadPromise, litClientPromise, backups>>

\* Archived if an index lists it and a gateway has it; only that is logged, and only
\* of a deliberation.
archiveCID(t) ==
  /\ IsAt(t, "archiving")
  /\ \E indexed, reachable \in BOOLEAN :
       IF indexed /\ reachable /\ task[t].subject # EnsueTree THEN GoesTo(t, "logging") ELSE Ends(t)
  /\ UNCHANGED <<ofWorker, identity, promises, backups, vaultBounds>>

logArchivalToNear(t) ==
  /\ IsAt(t, "logging")
  /\ \/ archival' = [archival EXCEPT ![task[t].subject] = task[t].cid] /\ UNCHANGED vaultBounds
     \/ Spend("failures") /\ UNCHANGED archival
  /\ Ends(t)
  /\ UNCHANGED <<ofWorker, identity, promises, stored>>

\* The process starts again.
Reboot ==
  /\ Spend("reboots")
  /\ identityModules' = "none" /\ storachaClient' = FALSE /\ known' = FALSE
  /\ loadPromise' = "none" /\ litClientPromise' = "none" /\ encryptedClientPromise' = "none"
  /\ task' = [t \in Task |-> NoTask]
  /\ UNCHANGED <<ofWorker, backups>>

VaultNext ==
  \/ \E t \in VaultCall :
       \/ \E op \in {"getAgentDid", "vault", "retrieve", "backup"}, s \in Proposal \cup {EnsueTree} :
            BeginTask(t, op, s)
       \/ serializeEnsueTree(t) \/ retrieveAndDecrypt(t) \/ getEncryptedClient(t)
       \/ Sent(t) \/ SendFails(t) \/ archiveCID(t) \/ logArchivalToNear(t)
  \/ \E t \in Task :
       \/ BeginIdentity(t) \/ loadModules(t) \/ createStorachaClient(t) \/ IdentityFails(t)
       \/ getModules(t) \/ getLitClient(t)
  \/ loadVaultModules \/ createLitClient \/ Reboot

VaultSpec == VaultInit /\ [][VaultNext]_vaultVars

-----------------------------------------------------------------------------
(* Correctness *)

VaultTypeOK ==
  /\ ofWorker \in BOOLEAN /\ storachaClient \in BOOLEAN /\ known \in BOOLEAN
  /\ identityModules \in {"none", "some", "all"}
  /\ \A p \in {loadPromise, litClientPromise, encryptedClientPromise} :
       p \in {"none", "pending", "ready", "rejected"}
  /\ stored \in Seq(Proposal \cup {EnsueTree})
  /\ archival \in [Proposal -> 0 .. Len(stored)]

\* A call throws through a failure of its own, or because what all share was rejected
\* in this process; never because another call failed in its own upload or retrieval,
\* nor because another has only begun to make the clients - unless it found the modules
\* of identity.ts half loaded.
ThrowsForCause ==
  \A t \in VaultCall : LET r == task[t] IN
    (r.pc = "threw" /\ ~r.half /\ r.failures = 0) =>
      "rejected" \in {loadPromise, litClientPromise, encryptedClientPromise}

\* A retrieval that throws has failed at every fallback gateway as often as it may,
\* and at the primary too unless the shared client was rejected: a failure of the
\* primary gateway's client does not cost the others.
GatewaysAreTried ==
  \A t \in VaultCall : LET r == task[t] IN
    (r.pc = "threw" /\ r.gateway > 0 /\ "rejected" \notin {loadPromise, litClientPromise}) =>
      r.failures >= RetriesPerGateway *
        (IF encryptedClientPromise = "rejected" THEN Gateways - 1 ELSE Gateways)

\* What Ensue says of a proposal's archival is a backup of that proposal, over
\* restarts and backups of several proposals at once.
ArchivalNamesBackup ==
  \A p \in Proposal : archival[p] # NoCid => stored[archival[p]] = p

VaultInv ==
  VaultTypeOK /\ ThrowsForCause /\ GatewaysAreTried /\ ArchivalNamesBackup
=============================================================================
