----------------------------- MODULE MCServices -----------------------------
(* Eleven parts that share no state with the others nor with each other, each  *)
(* checked by itself: one of them works, and the others stand still.        *)
EXTENDS DeliberaVoting, SessionStore, ProfileClient, Jury, Onboarding,
        NovaIdentity, DemoBuyer, WorkersView, DisplayNames, StatusBoard, Vault

CONSTANTS Ada, Bob, Cyd, Ann, Ben, e1, e2, poller

VARIABLE service

Candidates == <<"a", "b", "c", "d", "e">>

\* What one agent of the older workers may do in a behaviour, or two that share a
\* group: everything at once is too much.
SmallEnough ==
  \/ members = {Ann} /\ inTurn
  \/ members = {Ann} /\ written = 1 /\ startsLeft + mishapsLeft = 1
  \/ members = {Ann} /\ novaBounds = <<0, 0>>
  \/ members = WorkerId /\ inTurn /\ mishapsLeft = 0
       /\ \/ startsLeft = 1 /\ written = 2
          \/ startsLeft = 0 /\ written = 1

\* Two runs of the demo at once without a limit in reach, or one after the other.
FewRuns ==
  /\ runsLeft = 2
  /\ \/ ~alone /\ ticksLeft = 0 /\ perHour = 2 /\ perDay = 2
     \/ alone /\ ticksLeft = 3 /\ perHour + perDay = 3

Init ==
  /\ service \in {"voting", "sessions", "profile", "jury", "onboarding", "nova", "demo",
                  "workers", "names", "board", "vault"}
  /\ VotingInit /\ (service # "voting" => teeAddress = Owner)
  /\ SessionInit
  /\ ProfileInit /\ (service # "profile" => ~blankCached /\ ~useStoracha /\ ~sequential)
  /\ JuryInit /\ (service # "jury" => seed = 0 /\ size = 0)
  /\ OnboardingInit /\ (service # "onboarding" => patient)
  /\ NovaInit
  /\ IF service = "nova" THEN SmallEnough
     ELSE members = WorkerId /\ inTurn /\ written = 0 /\ novaBounds = <<0, 0>>
  /\ DemoInit
  /\ IF service = "demo" THEN FewRuns
     ELSE sameIp /\ demoBounds = <<TRUE, 0, 0>> /\ perHour = 1 /\ perDay = 1
  /\ ViewsInit /\ listed[Ann] # e2
  /\ service # "workers" => listed[Ann] = e1
  /\ NamesInit /\ (service # "names" => displayName = NoName)
  /\ BoardInit /\ (service # "board" => follows /\ selected = Ann)
  /\ VaultInit /\ (service # "vault" => ofWorker)

Next ==
  /\ UNCHANGED service
  /\ \/ service = "voting" /\ VotingNext
          /\ UNCHANGED <<sessionVars, profileVars, juryVars, onboardingVars, novaVars,
                         demoVars, viewsVars, namesVars, boardVars, vaultVars>>
     \/ service = "sessions" /\ SessionNext
          /\ UNCHANGED <<votingVars, profileVars, juryVars, onboardingVars, novaVars,
                         demoVars, viewsVars, namesVars, boardVars, vaultVars>>
     \/ service = "profile" /\ ProfileNext
          /\ UNCHANGED <<votingVars, sessionVars, juryVars, onboardingVars, novaVars,
                         demoVars, viewsVars, namesVars, boardVars, vaultVars>>
     \/ service = "jury" /\ JuryNext
          /\ UNCHANGED <<votingVars, sessionVars, profileVars, onboardingVars, novaVars,
                         demoVars, viewsVars, namesVars, boardVars, vaultVars>>
     \/ service = "onboarding" /\ OnboardingNext
          /\ UNCHANGED <<votingVars, sessionVars, profileVars, juryVars, novaVars,
                         demoVars, viewsVars, namesVars, boardVars, vaultVars>>
     \/ service = "nova" /\ NovaNext
          /\ UNCHANGED <<votingVars, sessionVars, profileVars, juryVars, onboardingVars,
                         demoVars, viewsVars, namesVars, boardVars, vaultVars>>
     \/ service = "demo" /\ DemoNext
          /\ UNCHANGED <<votingVars, sessionVars, profileVars, juryVars, onboardingVars,
                         novaVars, viewsVars, namesVars, boardVars, vaultVars>>
     \/ service = "workers" /\ ViewsNext
          /\ UNCHANGED <<votingVars, sessionVars, profileVars, juryVars, onboardingVars,
                         novaVars, demoVars, namesVars, boardVars, vaultVars>>
     \/ service = "names" /\ NamesNext
          /\ UNCHANGED <<votingVars, sessionVars, profileVars, juryVars, onboardingVars,
                         novaVars, demoVars, viewsVars, boardVars, vaultVars>>
     \/ service = "board" /\ BoardNext
          /\ UNCHANGED <<votingVars, sessionVars, profileVars, juryVars, onboardingVars,
                         novaVars, demoVars, viewsVars, namesVars, vaultVars>>
     \/ service = "vault" /\ VaultNext
          /\ UNCHANGED <<votingVars, sessionVars, profileVars, juryVars, onboardingVars,
                         novaVars, demoVars, viewsVars, namesVars, boardVars>>

AllVars == <<service, votingVars, sessionVars, profileVars, juryVars, onboardingVars,
             novaVars, demoVars, viewsVars, namesVars, boardVars, vaultVars>>

Spec == Init /\ [][Next]_AllVars

\* What an agent remembers of itself with the older client, and the vault under the
\* present one.
IdentityInv == NovaInv /\ VaultInv

\* What a coordinator says of its workers: which of them answer, and their names.
WorkersShown == ViewsInv /\ NamesInv

\* What the pages show: the demo, and the state of agents.
PagesInv == DemoInv /\ BoardInv
=============================================================================
