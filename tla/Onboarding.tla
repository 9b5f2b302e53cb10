----------------------------- MODULE Onboarding -----------------------------
(***************************************************************************)
(* A shop installs the app, removes it and installs it again.  Three       *)
(* processes act on its Merchant row and its token: the web bootstrap      *)
(* (/auth), the drainer's handler of merchant.installed, which enriches    *)
(* the merchant and then runs the customer backfill (module Backfill, one  *)
(* runner per event), and the scheduler's enrichment sweep.  Each calls    *)
(* the Admin API with a token it read before, so an answer may be about a  *)
(* token that is no longer the shop's.                                     *)
(*                                                                         *)
(* A token is the number of the installation it was issued for, 0 is none. *)
(* Retries inside one Admin call are part of the call: it answers, is      *)
(* refused with 401, or fails.  X_Y is X with the mistake Y.               *)
(***************************************************************************)
EXTENDS Backfill

CONSTANTS
  Web, Sweep,                \* the callers that are not runners
  MaxInstalls, MaxMishaps    \* bounds: installations; failures and crashes

ASSUME OnboardingAssumption ==
  /\ Web \notin Runners /\ Sweep \notin Runners /\ Web # Sweep
  /\ MaxInstalls \in Nat /\ MaxMishaps \in Nat

Callers == Runners \cup {Web, Sweep}

VARIABLES
  valid, issued,               \* Shopify: the token it accepts, the last it issued
  subscribed, hooks,           \* and its webhooks: subscribed, app/uninstalled on its way
  row, enriched,               \* Merchant: exists, shopDetailsFetchedAt is set
  revoked, uninstalled,        \*   tokenRevokedAt and uninstalledAt are set
  session,                     \* the token in the shop's offline session
  wpc, wtoken, wnew,           \* the bootstrap: place, token, isNewInstall
  hpc,                         \* merchant.installed events and their handlers
  sweeping,                    \* the sweep holds the merchant as a candidate
  call,                        \* the token of a caller's call in flight
  mishaps,
  misled                       \* history: marked revoked or uninstalled while installed

shopify == <<valid, issued, subscribed, hooks>>
merchant == <<row, enriched, revoked, uninstalled>>
web == <<wpc, wtoken, wnew>>
onboardingVars == <<shopify, merchant, session, web, hpc, sweeping, call, mishaps, misled>>
vars == <<backfillVars, onboardingVars>>

----------------------------------------------------------------------------
(* Shopify *)

\* Removing the app ends its token and its subscriptions, the last of which
\* tells the app.
Uninstall ==
  /\ valid # 0
  /\ valid' = 0
  /\ subscribed' = FALSE
  /\ hooks' = IF subscribed THEN hooks + 1 ELSE hooks
  /\ UNCHANGED <<issued, merchant, session, web, hpc, sweeping, call, mishaps, misled, backfillVars>>

CustomerCreated ==
  /\ ItemCreated
  /\ UNCHANGED onboardingVars

----------------------------------------------------------------------------
(* The Admin API *)

\* PrismaShopifyTokenResolver.getOfflineToken: null unless there is a session
\* and no revocation.
Usable == row /\ ~revoked /\ session # 0

Mishap == mishaps < MaxMishaps /\ mishaps' = mishaps + 1

SendCall(x) ==
  /\ call[x] = 0 /\ Usable
  /\ call' = [call EXCEPT ![x] = session]
Answered(x) ==
  /\ call[x] # 0 /\ call[x] = valid
  /\ call' = [call EXCEPT ![x] = 0]
EndCall(x) == call' = [call EXCEPT ![x] = 0]

\* 401: markTokenRevoked writes the merchant's row, whichever token it was.
Refused(x) ==
  /\ call[x] # 0 /\ call[x] # valid
  /\ EndCall(x)
  /\ revoked' = TRUE
  /\ misled' = (misled \/ valid # 0)

----------------------------------------------------------------------------
(* The web bootstrap *)

\* tokenExchangeForShop: a shop that had removed the app has installed it again.
TokenNow == IF valid = 0 THEN issued + 1 ELSE valid
Exchange ==
  /\ wpc = "idle"
  /\ \E e \in Runners : hpc[e] = "none"
  /\ valid # 0 \/ issued < MaxInstalls
  /\ issued' = IF valid = 0 THEN issued + 1 ELSE issued
  /\ valid' = TokenNow /\ wtoken' = TokenNow
  /\ wpc' = "exchanged"
  /\ UNCHANGED <<subscribed, hooks, merchant, session, wnew, hpc, sweeping, call, mishaps, misled,
                 backfillVars>>

\* upsertInstall: a new or a known merchant, with neither mark.
UpsertInstall_KeepsMarks == row' = TRUE /\ UNCHANGED <<revoked, uninstalled>>
UpsertInstall == row' = TRUE /\ revoked' = FALSE /\ uninstalled' = FALSE

\* completeInstall: one transaction, with the event.
CompleteInstall(e) ==
  /\ wpc = "exchanged" /\ hpc[e] = "none"
  /\ UpsertInstall
  /\ hpc' = [hpc EXCEPT ![e] = "pending"]
  /\ wnew' = ~row
  /\ wpc' = "installed"
  /\ misled' = FALSE
  /\ UNCHANGED <<shopify, enriched, session, wtoken, sweeping, call, mishaps, backfillVars>>

\* storeSession, outside that transaction.
StoreSession ==
  /\ wpc = "installed"
  /\ session' = wtoken
  /\ wpc' = IF wnew THEN "stored" ELSE "idle"
  /\ UNCHANGED <<shopify, merchant, wtoken, wnew, hpc, sweeping, call, mishaps, misled, backfillVars>>

\* subscribeAllWebhooks, after a first install only; of its topics only
\* app/uninstalled matters here.  Whatever comes of it the bootstrap ends.
SubscribeCall ==
  /\ wpc = "stored"
  /\ SendCall(Web)
  /\ UNCHANGED <<shopify, merchant, session, web, hpc, sweeping, mishaps, misled, backfillVars>>
Subscribed ==
  /\ Answered(Web)
  /\ subscribed' = TRUE
  /\ wpc' = "idle"
  /\ UNCHANGED <<valid, issued, hooks, merchant, session, wtoken, wnew, hpc, sweeping, mishaps,
                 misled, backfillVars>>
SubscribeRefused ==
  /\ Refused(Web)
  /\ wpc' = "idle"
  /\ UNCHANGED <<shopify, row, enriched, uninstalled, session, wtoken, wnew, hpc, sweeping, mishaps,
                 backfillVars>>
SubscribeTokenless ==
  /\ wpc = "stored" /\ call[Web] = 0 /\ ~Usable
  /\ wpc' = "idle"
  /\ UNCHANGED <<shopify, merchant, session, wtoken, wnew, hpc, sweeping, call, mishaps, misled,
                 backfillVars>>

\* A 500, a failed call or a crash at any point; opening the app starts over.
AbandonBootstrap ==
  /\ wpc # "idle" /\ Mishap
  /\ wpc' = "idle"
  /\ EndCall(Web)
  /\ UNCHANGED <<shopify, merchant, session, wtoken, wnew, hpc, sweeping, misled, backfillVars>>

----------------------------------------------------------------------------
(* The drainer's handlers *)

\* The event is marked processed before its handler runs, so it runs once.
Claim(e) ==
  /\ hpc[e] = "pending"
  /\ hpc' = [hpc EXCEPT ![e] = "enrich"]
  /\ UNCHANGED <<shopify, merchant, session, web, sweeping, call, mishaps, misled, backfillVars>>

\* enrichInstall; whatever comes of it the backfill follows.
EnrichCall(e) ==
  /\ hpc[e] = "enrich"
  /\ SendCall(e)
  /\ UNCHANGED <<shopify, merchant, session, web, hpc, sweeping, mishaps, misled, backfillVars>>
ToBackfill(e) == hpc[e] = "enrich" /\ hpc' = [hpc EXCEPT ![e] = "backfill"]
UpdateEnrichment == enriched' = TRUE
Enriched(e) ==
  /\ ToBackfill(e) /\ Answered(e)
  /\ UpdateEnrichment
  /\ UNCHANGED <<shopify, row, revoked, uninstalled, session, web, sweeping, mishaps, misled,
                 backfillVars>>
EnrichRefused(e) ==
  /\ ToBackfill(e) /\ Refused(e)
  /\ UNCHANGED <<shopify, row, enriched, uninstalled, session, web, sweeping, mishaps, backfillVars>>
EnrichTokenless(e) ==
  /\ ToBackfill(e) /\ call[e] = 0 /\ ~Usable
  /\ UNCHANGED <<shopify, merchant, session, web, sweeping, call, mishaps, misled, backfillVars>>
EnrichFailed(e) ==
  /\ ToBackfill(e) /\ Mishap /\ EndCall(e)
  /\ UNCHANGED <<shopify, merchant, session, web, sweeping, misled, backfillVars>>

\* BackfillRunner.run
BackfillDb(e) ==
  /\ hpc[e] = "backfill"
  /\ Open(e) \/ MarkStarted(e) \/ CommitPage(e) \/ CompleteRun(e)
  /\ UNCHANGED onboardingVars
PageCall(e) ==
  /\ hpc[e] = "backfill" /\ pc[e] = "ready"
  /\ SendCall(e)
  /\ UNCHANGED <<shopify, merchant, session, web, hpc, sweeping, mishaps, misled, backfillVars>>
PageAnswered(e) ==
  /\ hpc[e] = "backfill"
  /\ Answered(e) /\ FetchPage(e)
  /\ UNCHANGED <<shopify, merchant, session, web, hpc, sweeping, mishaps, misled>>
PageRefused(e) ==
  /\ hpc[e] = "backfill"
  /\ Refused(e) /\ PauseRun(e)
  /\ UNCHANGED <<shopify, row, enriched, uninstalled, session, web, hpc, sweeping, mishaps>>
PageTokenless(e) ==
  /\ hpc[e] = "backfill" /\ call[e] = 0 /\ ~Usable
  /\ PauseRun(e)
  /\ UNCHANGED onboardingVars
BackfillFailed(e) ==
  /\ hpc[e] = "backfill"
  /\ \/ pc[e] = "over" /\ UNCHANGED mishaps
     \/ pc[e] # "over" /\ Mishap
  /\ FailRun(e) /\ EndCall(e)
  /\ UNCHANGED <<shopify, merchant, session, web, hpc, sweeping, misled>>
HandlerCrash(e) ==
  /\ hpc[e] = "backfill" /\ Mishap
  /\ CrashRun(e) /\ EndCall(e)
  /\ UNCHANGED <<shopify, merchant, session, web, hpc, sweeping, misled>>

\* app/uninstalled, as late as it likes.
MarkUninstalled == uninstalled' = TRUE
HandleUninstalled ==
  /\ hooks > 0
  /\ hooks' = hooks - 1
  /\ MarkUninstalled
  /\ misled' = (misled \/ valid # 0)
  /\ UNCHANGED <<valid, issued, subscribed, row, enriched, revoked, session, web, hpc, sweeping, call,
                 mishaps, backfillVars>>

----------------------------------------------------------------------------
(* The enrichment sweep *)

Candidate == row /\ ~enriched /\ ~revoked /\ ~uninstalled

SweepSelect ==
  /\ ~sweeping /\ Candidate
  /\ sweeping' = TRUE
  /\ UNCHANGED <<shopify, merchant, session, web, hpc, call, mishaps, misled, backfillVars>>
SweepCall ==
  /\ sweeping
  /\ SendCall(Sweep)
  /\ UNCHANGED <<shopify, merchant, session, web, hpc, sweeping, mishaps, misled, backfillVars>>
SweepEnriched ==
  /\ Answered(Sweep)
  /\ UpdateEnrichment /\ sweeping' = FALSE
  /\ UNCHANGED <<shopify, row, revoked, uninstalled, session, web, hpc, mishaps, misled, backfillVars>>
SweepRefused ==
  /\ Refused(Sweep)
  /\ sweeping' = FALSE
  /\ UNCHANGED <<shopify, row, enriched, uninstalled, session, web, hpc, mishaps, backfillVars>>
SweepTokenless ==
  /\ sweeping /\ call[Sweep] = 0 /\ ~Usable
  /\ sweeping' = FALSE
  /\ UNCHANGED <<shopify, merchant, session, web, hpc, call, mishaps, misled, backfillVars>>
SweepFailed ==
  /\ sweeping /\ Mishap
  /\ sweeping' = FALSE /\ EndCall(Sweep)
  /\ UNCHANGED <<shopify, merchant, session, web, hpc, misled, backfillVars>>

----------------------------------------------------------------------------
Init ==
  /\ valid = 0 /\ issued = 0 /\ subscribed = FALSE /\ hooks = 0
  /\ row = FALSE /\ enriched = FALSE /\ revoked = FALSE /\ uninstalled = FALSE
  /\ session = 0
  /\ wpc = "idle" /\ wtoken = 0 /\ wnew = FALSE
  /\ hpc = [e \in Runners |-> "none"]
  /\ sweeping = FALSE
  /\ call = [x \in Callers |-> 0]
  /\ mishaps = 0 /\ misled = FALSE
  /\ BackfillInit

Bootstrap ==
  \/ Exchange
  \/ \E e \in Runners : CompleteInstall(e)
  \/ StoreSession
  \/ SubscribeCall \/ Subscribed \/ SubscribeRefused \/ SubscribeTokenless
Handle(e) ==
  \/ Claim(e)
  \/ EnrichCall(e) \/ Enriched(e) \/ EnrichRefused(e) \/ EnrichTokenless(e)
  \/ BackfillDb(e)
  \/ PageCall(e) \/ PageAnswered(e) \/ PageRefused(e) \/ PageTokenless(e)
SweepStep == SweepSelect \/ SweepCall \/ SweepEnriched \/ SweepRefused \/ SweepTokenless

Next ==
  \/ Uninstall \/ CustomerCreated
  \/ Bootstrap \/ AbandonBootstrap
  \/ \E e \in Runners : Handle(e) \/ EnrichFailed(e) \/ BackfillFailed(e) \/ HandlerCrash(e)
  \/ HandleUninstalled
  \/ SweepStep \/ SweepFailed

Spec == Init /\ [][Next]_vars

\* The sweep runs every fifteen minutes.
FairSpec == Spec /\ WF_vars(SweepStep)

----------------------------------------------------------------------------
(* Properties *)

MerchantTypeOK ==
  /\ valid \in 0..MaxInstalls /\ issued \in 0..MaxInstalls
  /\ subscribed \in BOOLEAN /\ hooks \in Nat
  /\ row \in BOOLEAN /\ enriched \in BOOLEAN
  /\ revoked \in BOOLEAN /\ uninstalled \in BOOLEAN
CallersTypeOK ==
  /\ session \in 0..MaxInstalls
  /\ wpc \in {"idle", "exchanged", "installed", "stored"}
  /\ wtoken \in 0..MaxInstalls /\ wnew \in BOOLEAN
  /\ hpc \in [Runners -> {"none", "pending", "enrich", "backfill"}]
  /\ sweeping \in BOOLEAN
  /\ call \in [Callers -> 0..MaxInstalls]
  /\ mishaps \in Nat /\ misled \in BOOLEAN
TypeOK == BackfillTypeOK /\ MerchantTypeOK /\ CallersTypeOK

\* A shop whose installation stands and whose session holds its token gets its
\* details in the end, though its handler ran before the session was there, was
\* refused, failed or died: the sweep retries (enrichment-sweep.ts:20-31).  Not
\* so a shop that was marked revoked or uninstalled while it was installed.
EnrichedInTheEnd ==
  <>[](row /\ valid # 0 /\ session = valid /\ ~misled => enriched)
=============================================================================
