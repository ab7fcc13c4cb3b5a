----------------------------- MODULE Onboarding -----------------------------
(***************************************************************************)
(* The wizard that brings an IronClaw agent to the protocol (frontend,     *)
(* /onboard/ironclaw): a wallet made by Outlayer, funded by the user, bound*)
(* by a policy the user signs, and registered by Outlayer's enclave.       *)
(*                                                                         *)
(* Each step has a screen, whose requests may outlive it: the screen is    *)
(* unmounted when the step changes, when the user's NEAR wallet is         *)
(* disconnected, and when the page is loaded again.  What the wizard knows *)
(* is kept in sessionStorage.  Requests pass through the proxies of        *)
(* /api/onboard, which keep nothing.                                       *)
(*                                                                         *)
(* Abstracted: the contents of policy and DID, the seed and the endpoint;  *)
(* a wallet is named with its key and its account; its funds are whether   *)
(* they pay a registration.  A balance that cannot be read is one too low. *)
(* Left out: closing the tab, which gives the wallet's key away.           *)
(***************************************************************************)
EXTENDS Naturals, FiniteSets

CONSTANTS
  Wallet,        \* wallets Outlayer can make
  NoWallet,
  BalanceCheck,  \* balance requests one screen may have under way
  MaxTroubles    \* bound: disconnections, reloads and requests that fail, together

ASSUME OnboardingAssumption ==
  /\ NoWallet \notin Wallet
  /\ MaxTroubles \in Nat

VARIABLES
  patient,     \* whether the user disconnects only when nothing is under way
  accountId,   \* whether the user's NEAR wallet is connected
  step, path, wallet,   \* the wizard's state
  mount,       \* the screen's number: one that no request under way is from
  effectRun,   \* whether its effect has run
  advanced,    \* advancedRef: the screens with requests under way that have advanced
  requests,    \* under way, from the screens to Outlayer and back
  funded, policy, registered, \* wallets that can pay, are bound, are registered
  noPolicyCached,             \* wallets Outlayer takes to have no policy
  signatures,  \* ghost: policies the user has signed for each wallet
  answered,    \* ghost: wallets whose registration Outlayer has answered, whatever it said
  finished,    \* ghost: wallets whose key was shown to the end
  reconnects, reopens, lost

wizard == <<step, path, wallet>>
screen == <<mount, effectRun, advanced>>
outlayer == <<funded, policy, registered, noPolicyCached, signatures, answered>>
limits == <<reconnects, reopens, lost>>
onboardingVars ==
  <<patient, accountId, wizard, screen, requests, outlayer, finished, limits>>

Step == <<"connect", "config", "register", "fund", "policy", "autonomous", "install", "success">>
Path == {"A_anonymous", "B_bound"}
Place(s) == CHOOSE k \in 1 .. 8 : Step[k] = s

\* Those that change something, whether or not anybody hears of it, come last.
Lasting == {"signAndSendTransaction", "invalidateCache", "registerWorker"}
Operation == {"registerAnonymous", "checkBalance", "encryptAndSignPolicy"} \cup Lasting

\* heard is whether the page that asked is still there; done, whether Outlayer is.
Request == [op : Operation, from : Nat, slot : BalanceCheck \cup {0},
            wallet : Wallet \cup {NoWallet}, heard : BOOLEAN, done : BOOLEAN]

OnboardingInit ==
  /\ patient \in BOOLEAN
  /\ accountId = FALSE
  /\ step = "connect" /\ path = "A_anonymous" /\ wallet = NoWallet
  /\ mount = 0 /\ effectRun = FALSE /\ advanced = {}
  /\ requests = {}
  /\ funded = {} /\ policy = {} /\ registered = {}
  /\ noPolicyCached = Wallet
  /\ signatures = [w \in Wallet |-> 0] /\ answered = {}
  /\ finished = {}
  /\ reconnects = 0 /\ reopens = 0 /\ lost = 0

Ask(op, slot, w) ==
  [op |-> op, from |-> mount, slot |-> slot, wallet |-> w,
   heard |-> TRUE, done |-> FALSE]

Screens(underWay) == {r.from : r \in {q \in underWay : q.heard}}

\* Another screen, or none, takes the place of the one shown, and has not advanced.
Remount(underWay, spent) ==
  /\ mount' = CHOOSE n \in 0 .. Cardinality(Screens(underWay)) :
                n \notin Screens(underWay) /\ \A m \in 0 .. n - 1 : m \in Screens(underWay)
  /\ effectRun' = FALSE
  /\ advanced' = spent \cap Screens(underWay)

\* The wizard goes to a step; a screen that is shown already stays.
Advance(s, underWay, spent) ==
  /\ step' = s
  /\ IF s = step THEN UNCHANGED <<mount, effectRun>> /\ advanced' = spent
     ELSE Remount(underWay, spent)

Trouble == reconnects + reopens + lost < MaxTroubles

-----------------------------------------------------------------------------
(* The user *)

Quiet == \A r \in requests : ~r.heard

\* The page opens without an account, and every screen but the first needs one.
connect ==
  /\ ~accountId
  /\ accountId' = TRUE
  /\ Remount(requests, advanced)
  /\ UNCHANGED <<patient, wizard, requests, outlayer, finished, limits>>

disconnect ==
  /\ accountId
  /\ Trouble
  /\ patient => Quiet
  /\ accountId' = FALSE
  /\ reconnects' = reconnects + 1
  /\ Remount(requests, advanced)
  /\ UNCHANGED <<patient, wizard, requests, outlayer, finished, reopens, lost>>

\* Nobody hears of the request any more, but it may still be done.
Unheard(r) ==
  IF ~r.done /\ r.op \in Lasting THEN {[r EXCEPT !.heard = FALSE, !.from = 0]} ELSE {}

\* The page is loaded again and takes its state from sessionStorage; nobody hears
\* the answers, but what was asked may still be done.
Reopen ==
  /\ Trouble
  /\ reopens' = reopens + 1
  /\ accountId' = FALSE
  /\ requests' = UNION {Unheard(r) : r \in requests}
  /\ Remount({}, {})
  /\ UNCHANGED <<patient, wizard, outlayer, finished, reconnects, lost>>

\* With an account the first step is left by an effect of the page.
LeaveConnect ==
  /\ accountId /\ step = "connect"
  /\ Advance("config", requests, advanced)
  /\ UNCHANGED <<patient, accountId, path, wallet, requests, outlayer, finished, limits>>

handleContinue(p) ==
  /\ accountId /\ step = "config"
  /\ path' = p
  /\ Advance("register", requests, advanced)
  /\ UNCHANGED <<patient, accountId, wallet, requests, outlayer, finished, limits>>

\* The path with a bound wallet leads back to the other.
ClaimScreen ==
  /\ accountId /\ step = "register" /\ path = "B_bound"
  /\ path' = "A_anonymous"
  /\ Remount(requests, advanced)
  /\ UNCHANGED <<patient, accountId, step, wallet, requests, outlayer, finished, limits>>

\* The user pays to the account shown.
Fund ==
  /\ accountId /\ step = "fund" /\ wallet # NoWallet
  /\ wallet \notin funded
  /\ funded' = funded \cup {wallet}
  /\ UNCHANGED <<patient, accountId, wizard, screen, requests, policy, registered, noPolicyCached>>
  /\ UNCHANGED <<signatures, answered, finished, limits>>

Busy == \E r \in requests : r.from = mount /\ r.heard

\* "Sign + commit": encrypt and sign at Outlayer, have the user sign, drop the cache.
handleCommit ==
  /\ accountId /\ step = "policy" /\ wallet # NoWallet
  /\ ~Busy
  /\ requests' = requests \cup {Ask("encryptAndSignPolicy", 0, wallet)}
  /\ UNCHANGED <<patient, accountId, wizard, screen, outlayer, finished, limits>>

SkillInstalled ==
  /\ accountId /\ step = "install"
  /\ Advance("success", requests, advanced)
  /\ UNCHANGED <<patient, accountId, path, wallet, requests, outlayer, finished, limits>>

\* "Register another": the key of the wallet was shown, and is forgotten.
reset ==
  /\ accountId /\ step = "success"
  /\ path' = "A_anonymous" /\ wallet' = NoWallet
  /\ Advance("connect", requests, advanced)
  /\ finished' = finished \cup {wallet}
  /\ UNCHANGED <<patient, accountId, requests, outlayer, limits>>

-----------------------------------------------------------------------------
(* The screens *)

\* The effect of RegisterScreen, once for each time it is mounted.
RegisterEffect ==
  /\ accountId /\ ~effectRun
  /\ effectRun' = TRUE
  /\ \/ /\ step = "register" /\ path = "A_anonymous"
        /\ requests' = requests \cup {Ask("registerAnonymous", 0, NoWallet)}
     \/ /\ step = "autonomous"
        /\ requests' = IF wallet = NoWallet THEN requests
                       ELSE requests \cup {Ask("registerWorker", 0, wallet)}
  /\ UNCHANGED <<patient, accountId, wizard, mount, advanced, outlayer, finished, limits>>

\* checkBalance, by the timer or by the button.
AskBalance(n) ==
  /\ accountId /\ step = "fund" /\ wallet # NoWallet
  /\ \A r \in requests : ~(r.from = mount /\ r.slot = n)
  /\ requests' = requests \cup {Ask("checkBalance", n, wallet)}
  /\ UNCHANGED <<patient, accountId, wizard, screen, outlayer, finished, limits>>

\* Mutant: an answer is taken although the screen is gone.
Cancelled_Never(r) == FALSE

\* RegisterScreen marks its run as cancelled when it is unmounted; the other
\* screens do not.
Cancelled(r) == r.from # mount

WalletAnswered(r) ==
  /\ r.op = "registerAnonymous"
  /\ IF Cancelled(r)
     THEN UNCHANGED <<wallet, step, screen>>
     ELSE wallet' = r.wallet /\ Advance("fund", requests', advanced)
  /\ UNCHANGED path

\* Mutant: every check that finds the funds advances.
BalanceAnswered_Always(r) ==
  /\ r.op = "checkBalance"
  /\ Advance("policy", requests', advanced)
  /\ UNCHANGED <<path, wallet>>

\* A funding screen advances once, even if it is gone.
BalanceAnswered(r) ==
  /\ r.op = "checkBalance"
  /\ IF r.from \notin advanced
     THEN Advance("policy", requests', advanced \cup {r.from})
     ELSE UNCHANGED <<step, screen>>
  /\ UNCHANGED <<path, wallet>>

CacheDropped(r) ==
  /\ r.op = "invalidateCache"
  /\ Advance("autonomous", requests', advanced)
  /\ UNCHANGED <<path, wallet>>

\* The screen does not look at the status: it shows any answer as a registration.
WorkerAnswered(r) ==
  /\ r.op = "registerWorker"
  /\ IF Cancelled(r)
     THEN UNCHANGED <<step, screen>>
     ELSE Advance("install", requests', advanced)
  /\ UNCHANGED <<path, wallet>>

\* An answer comes to the page.
Answer(r) ==
  /\ r.heard /\ r.done
  /\ requests' = requests \ {r}
  /\ WalletAnswered(r) \/ BalanceAnswered(r) \/ CacheDropped(r) \/ WorkerAnswered(r)
  /\ UNCHANGED <<patient, accountId, outlayer, finished, limits>>

\* Once the user's signature is on chain, the cache is to be dropped.
Committed(r) ==
  /\ r.heard /\ r.done
  /\ r.op = "signAndSendTransaction"
  /\ requests' = (requests \ {r}) \cup {[r EXCEPT !.op = "invalidateCache", !.done = FALSE]}
  /\ UNCHANGED <<patient, accountId, wizard, screen, outlayer, finished, limits>>

\* A request fails, its answer is lost, or the proxy gives it up after 15 seconds
\* while Outlayer goes on: an error is shown.
Fail(r) ==
  /\ Trouble /\ r.heard
  /\ lost' = lost + 1
  /\ \E left \in {{}, Unheard(r)} : requests' = (requests \ {r}) \cup left
  /\ UNCHANGED <<patient, accountId, wizard, screen, outlayer, finished, reconnects, reopens>>

-----------------------------------------------------------------------------
(* Outlayer, and the chain *)

Done(r, w) == (requests \ {r}) \cup
  (IF r.heard THEN {[r EXCEPT !.done = TRUE, !.wallet = w]} ELSE {})

\* Wallets that were made, for all that anybody knows.
Known == funded \cup policy \cup registered \cup finished \cup {wallet}
           \cup {r.wallet : r \in requests}

outlayerRegister(r) ==
  /\ r.op = "registerAnonymous"
  /\ \E w \in Wallet \ Known : requests' = Done(r, w)
  /\ UNCHANGED outlayer

viewAccount(r) ==
  /\ r.op = "checkBalance"
  /\ requests' = IF r.wallet \in funded THEN Done(r, r.wallet) ELSE requests \ {r}
  /\ UNCHANGED outlayer

\* The policy comes back signed by the enclave, for the user to sign.
policyEncryptSign(r) ==
  /\ r.op = "encryptAndSignPolicy"
  /\ requests' = (requests \ {r}) \cup {[r EXCEPT !.op = "signAndSendTransaction"]}
  /\ UNCHANGED outlayer

storeWalletPolicy(r) ==
  /\ r.op = "signAndSendTransaction"
  /\ requests' = Done(r, r.wallet)
  /\ policy' = policy \cup {r.wallet}
  /\ signatures' = [signatures EXCEPT ![r.wallet] = @ + 1]
  /\ UNCHANGED <<funded, registered, noPolicyCached, answered>>

invalidateCache(r) ==
  /\ r.op = "invalidateCache"
  /\ requests' = Done(r, r.wallet)
  /\ noPolicyCached' = noPolicyCached \ {r.wallet}
  /\ UNCHANGED <<funded, policy, registered, signatures, answered>>

\* The deposit is paid from the wallet's funds.
registerWorker(r) ==
  /\ r.op = "registerWorker"
  /\ IF r.wallet \in (funded \cap policy) \ noPolicyCached
     THEN /\ requests' = Done(r, r.wallet) /\ answered' = answered \cup {r.wallet}
          /\ funded' = funded \ {r.wallet}
          /\ registered' = registered \cup {r.wallet}
     ELSE requests' = requests \ {r} /\ UNCHANGED <<funded, registered, answered>>
  /\ UNCHANGED <<policy, noPolicyCached, signatures>>

Serve(r) ==
  /\ ~r.done
  /\ \/ outlayerRegister(r) \/ viewAccount(r) \/ policyEncryptSign(r)
     \/ storeWalletPolicy(r) \/ invalidateCache(r) \/ registerWorker(r)
  /\ UNCHANGED <<patient, accountId, wizard, screen, finished, limits>>

\* The registration fails, and Outlayer's answer says so by its status.
NotRegistered(r) ==
  /\ Trouble /\ ~r.done
  /\ r.op = "registerWorker"
  /\ lost' = lost + 1
  /\ requests' = Done(r, r.wallet) /\ answered' = answered \cup {r.wallet}
  /\ UNCHANGED <<patient, accountId, wizard, screen, funded, policy, registered>>
  /\ UNCHANGED <<noPolicyCached, signatures, finished, reconnects, reopens>>

-----------------------------------------------------------------------------

OnboardingNext ==
  \/ connect \/ disconnect \/ Reopen \/ LeaveConnect
  \/ \E p \in Path : handleContinue(p)
  \/ ClaimScreen \/ Fund \/ handleCommit \/ SkillInstalled \/ reset
  \/ RegisterEffect
  \/ \E n \in BalanceCheck : AskBalance(n)
  \/ \E r \in requests : Serve(r) \/ NotRegistered(r) \/ Answer(r) \/ Committed(r) \/ Fail(r)

OnboardingSpec == OnboardingInit /\ [][OnboardingNext]_onboardingVars

-----------------------------------------------------------------------------
(* Correctness *)

OnboardingTypeOK ==
  /\ patient \in BOOLEAN /\ accountId \in BOOLEAN
  /\ step \in {Step[k] : k \in 1 .. 8} /\ path \in Path
  /\ wallet \in Wallet \cup {NoWallet}
  /\ mount \in Nat /\ effectRun \in BOOLEAN /\ advanced \subseteq Nat
  /\ requests \subseteq Request
  /\ funded \subseteq Wallet /\ policy \subseteq Wallet /\ registered \subseteq Wallet
  /\ noPolicyCached \subseteq Wallet
  /\ signatures \in [Wallet -> Nat] /\ answered \subseteq Wallet
  /\ finished \subseteq Wallet

\* The user's money is never on a wallet whose key the wizard has dropped: what was
\* funded or registered is the wallet in hand, until its key was shown at the end -
\* over reloads, reconnections and answers that come late.
MoneyIsInHand == (funded \cup registered) \ {wallet} \subseteq finished

\* "Your worker is registered on-chain": the last two screens are shown for a wallet
\* whose registration Outlayer has answered, over reloads, reconnections and answers
\* that come late.  That it answered with success nobody looks at.
ShownWasAnswered == step \in {"install", "success"} => wallet \in answered

\* The enclave is asked to register once the policy stands and Outlayer will look at
\* it - unless the user comes back to a screen whose last commit is still under way.
PolicyComesFirst ==
  patient => \A r \in requests :
    r.op = "registerWorker" => r.wallet \in policy \ noPolicyCached

\* "We use your wallet for ONE on-chain signature", as long as no request fails
\* and the page is not loaded again.
OneSignature ==
  (patient /\ lost = 0 /\ reopens = 0) => \A w \in Wallet : signatures[w] <= 1

OnboardingInv ==
  /\ OnboardingTypeOK /\ MoneyIsInHand /\ ShownWasAnswered
  /\ PolicyComesFirst /\ OneSignature

\* The wizard goes forward, or starts again, although balance requests overlap and
\* answers come after their screen is gone.
GoesForward ==
  [][patient => step' = "connect" \/ Place(step') >= Place(step)]_onboardingVars
=============================================================================
