------------------------------- MODULE Scoring -------------------------------
(***************************************************************************)
(* Orders and customers of one merchant as webhooks and backfills write    *)
(* them, and the three writers of Customer.state: recompute inside a       *)
(* webhook handler's transaction, the operator's bulkRescore, and the      *)
(* daily decayRescore.  Transactions run READ COMMITTED, so a transaction  *)
(* may act on a state, and a sweep on a cohort, that others have changed   *)
(* since.  A handler may run any number of times on any body the shop ever *)
(* sent, in any order: the outbox redelivers and retries.                  *)
(*                                                                         *)
(* Bands and quintiles are ScoringMath's; what a score row stores is the   *)
(* days and whether it carries quintiles.  Days are counted from a date    *)
(* Shopify sends: an order dated after the server's clock has negative     *)
(* days, which are stored, but which an event does not accept.             *)
(* X_Y is X with the mistake Y.                                            *)
(***************************************************************************)
EXTENDS ScoringMath

CONSTANTS
  Customers,   \* Customer.id, in the order of the pages: natural numbers
  Orders,      \* Shopify order ids
  Buyer,       \* [Orders -> Customers]
  Born,        \* [Customers -> Int]: the day the account was created
  Dates,       \* the dates an order may have, from the day it arrives
  Ahead,       \* how many days at most an order is processed after that day
  Handlers,    \* drainer handlers that run at the same time
  Forced,      \* whether the operator passes --force
  PageSize,    \* BULK_RESCORE_BATCH_SIZE, DECAY_RESCORE_BATCH_SIZE
  MaxDay, MaxRuns, MaxMishaps   \* bounds of the instance

Passes == {"bulk", "decay"}
Versions == 0..2     \* of an order: none, paid, refunded
NoOrder == "none"
Nobody == 0          \* before the first page

ASSUME ScoringAssumption ==
  /\ Customers \subseteq Nat \ {Nobody} /\ IsFiniteSet(Customers)
  /\ NoOrder \notin Orders
  /\ Buyer \in [Orders -> Customers]
  /\ Born \in [Customers -> Int]
  /\ Ahead \in Nat
  /\ Dates \subseteq [placed : Int, processed : Int]
  /\ \A d \in Dates : d.processed <= Ahead
  /\ Handlers \cap Passes = {}
  /\ Forced \in BOOLEAN
  /\ PageSize \in Nat \ {0}
  /\ MaxDay \in Nat /\ MaxRuns \in Nat /\ MaxMishaps \in Nat

VARIABLES
  day,
  placed, processed,  \* Shopify: created_at and processed_at of an order
  latest,           \* its newest version
  stored, linked,   \* Order rows: version, and whether customerId is set
  row,              \* Customer rows: none, live, or soft-deleted
  state,            \* Customer.state
  score,            \* CustomerScore rows: days and whether ranked
  initialized,      \* Merchant.scoringInitializedAt is set
  hpc, hcustomer, horder, hversion,  \* a handler's transaction and its body
  hold, hemit, hres,                 \* the state and flag it read, its resolution
  ppc, cursor, page, pres,           \* a pass: place, last id, states read, resolutions
  runs, mishaps,
  \* History, read by no action:
  lastNew,      \* the last event's newState, none after a silent change
  overlapped,   \* customers written under another transaction that had read them
  echoed,       \* customers told again what they were told, without an overlap
  base,         \* live customers when the running bulk pass began
  disturbed     \* a customer was deleted during it

shop == <<day, placed, processed, latest>>
orderRows == <<stored, linked>>
customerRows == <<row, state, score>>
hvars == <<hpc, hcustomer, horder, hversion, hold, hemit, hres>>
pvars == <<ppc, cursor, page, pres>>
bounds == <<runs, mishaps>>
told == <<lastNew, overlapped, echoed>>
pass1 == <<base, disturbed>>
vars == <<shop, orderRows, customerRows, initialized, hvars, pvars, bounds, told, pass1>>

\* Only an order can be ahead of the clock; the age of an account is clamped.
Days == {r \in Int : r >= -Ahead}
Resolutions == [r : Days, ranked : BOOLEAN, state : States]
Scores == [r : Days, ranked : BOOLEAN]
NoScore == [missing |-> TRUE]
Unread == [c \in {} |-> "active"]
Unresolved == [r |-> 0, ranked |-> FALSE, state |-> "active"]

----------------------------------------------------------------------------
(* Reading *)

\* readCohort: paid orders of the trailing window that have a customerId; the
\* row of a customer, deleted or not, is not looked at.  The window goes by the
\* date an order was placed, the days by the date it was processed.
Counts(o, ver, link, now) == ver[o] = 1 /\ link[o] /\ placed[o] + DormantMax >= now
Cohort(ver, link, now) ==
  LET counted == {o \in Orders : Counts(o, ver, link, now)}
  IN  [c \in {Buyer[o] : o \in counted} |->
         LET days == {now - processed[o] : o \in {p \in counted : Buyer[p] = c}}
         IN  CHOOSE d \in days : \A e \in days : d <= e]

\* recompute and both passes pick the same branch.
Resolve(c, cohort, now) ==
  IF c \in DOMAIN cohort
  THEN ResolveScorable(cohort[c], IsInsufficient(cohort))
  ELSE ResolveLurker(Born[c], now, IsInsufficient(cohort))

\* Rows an open transaction has written stay locked until it ends.
OrderFree(o) == \A h \in Handlers : hpc[h] = "idle" \/ horder[h] # o
CustomerFree(c) == \A h \in Handlers : hpc[h] = "idle" \/ horder[h] # NoOrder \/ hcustomer[h] # c

\* Those who have read c's state and will act on it.
Readers(c) ==
  {h \in Handlers : hpc[h] # "idle" /\ hcustomer[h] = c}
    \cup {p \in Passes : ppc[p] = "loaded" /\ c \in DOMAIN page[p]}

----------------------------------------------------------------------------
(* Writing: upsertScore, Customer.state, and the event *)

ScoreOf(res) == [r |-> res.r, ranked |-> res.ranked]

\* emit: whether scoringInitializedAt was set when the writer read it.
Emits_Always == TRUE
Emits == initialized

\* The customers of news get a resolution; those whose state differs from the
\* one their writer had read get the state written, and tell it if emit.
Changed_Always(news, read) == DOMAIN news
Changed_Ranked(news, read) == {c \in DOMAIN news : news[c].ranked /\ news[c].state # read[c]}
Changed(news, read) == {c \in DOMAIN news : news[c].state # read[c]}

\* buildCustomerStateChangedPayload takes no negative days: the transaction that
\* would tell such a change throws, and nothing of it remains.
Refused(news, read, emit) == emit /\ \E c \in Changed(news, read) : news[c].r < 0

Told(c, res, emit) == emit /\ lastNew[c] = res.state

Apply(news, read, emit, writer) ==
  /\ ~Refused(news, read, emit)
  /\ LET changed == Changed(news, read)
         shared == {c \in DOMAIN news : Readers(c) \ {writer} # {}}
     IN  /\ score' = [c \in Customers |-> IF c \in DOMAIN news THEN ScoreOf(news[c]) ELSE score[c]]
         /\ state' = [c \in Customers |-> IF c \in changed THEN news[c].state ELSE state[c]]
         /\ lastNew' = [c \in Customers |->
                          IF c \notin changed THEN lastNew[c]
                          ELSE IF emit THEN news[c].state ELSE "none"]
         /\ overlapped' = overlapped \cup shared
         /\ echoed' = echoed \cup ({c \in changed : Told(c, news[c], emit)} \ overlapped')

Only(c, x) == [d \in {c} |-> x]

----------------------------------------------------------------------------
(* Shopify and time *)

Place(o) ==
  /\ latest[o] = 0
  /\ latest' = [latest EXCEPT ![o] = 1]
  /\ \E d \in Dates :
       /\ day + d.processed <= MaxDay
       /\ placed' = [placed EXCEPT ![o] = day + d.placed]
       /\ processed' = [processed EXCEPT ![o] = day + d.processed]
  /\ UNCHANGED <<day, orderRows, customerRows, initialized, hvars, pvars, bounds, told, pass1>>

Refund(o) ==
  /\ latest[o] = 1
  /\ latest' = [latest EXCEPT ![o] = 2]
  /\ UNCHANGED <<day, placed, processed, orderRows, customerRows, initialized, hvars, pvars,
                 bounds, told, pass1>>

NextDay ==
  /\ day < MaxDay
  /\ day' = day + 1
  /\ UNCHANGED <<placed, processed, latest, orderRows, customerRows, initialized, hvars, pvars,
                 bounds, told, pass1>>

----------------------------------------------------------------------------
(* Webhook handlers *)

\* handleOrderEvent on version v, up to recompute's reads of the customer and
\* the merchant.  No look at which version the row holds.
OrderHandled(h, o, v) ==
  /\ hpc[h] = "idle" /\ runs < MaxRuns
  /\ v \in 1..latest[o] /\ OrderFree(o)
  /\ row[Buyer[o]] = "live"
  /\ runs' = runs + 1
  /\ hpc' = [hpc EXCEPT ![h] = "loaded"]
  /\ hcustomer' = [hcustomer EXCEPT ![h] = Buyer[o]]
  /\ horder' = [horder EXCEPT ![h] = o]
  /\ hversion' = [hversion EXCEPT ![h] = v]
  /\ hold' = [hold EXCEPT ![h] = state[Buyer[o]]]
  /\ hemit' = [hemit EXCEPT ![h] = Emits]
  /\ UNCHANGED <<shop, orderRows, customerRows, initialized, hres, pvars, mishaps, told,
                 pass1>>

\* A buyer who is unknown or deleted: customerId is null, nothing is scored.
OrphanHandled(o, v) ==
  /\ runs < MaxRuns
  /\ v \in 1..latest[o] /\ OrderFree(o)
  /\ row[Buyer[o]] # "live"
  /\ runs' = runs + 1
  /\ stored' = [stored EXCEPT ![o] = v]
  /\ linked' = [linked EXCEPT ![o] = FALSE]
  /\ UNCHANGED <<shop, customerRows, initialized, hvars, pvars, mishaps, told, pass1>>

\* runUpsert of handlers/customer.ts.  The row of a new customer has the
\* default state; the upsert of a deleted one leaves it deleted, and recompute
\* then skips, which changes nothing here.
CustomerHandled(h, c) ==
  /\ hpc[h] = "idle" /\ runs < MaxRuns
  /\ row[c] # "deleted" /\ CustomerFree(c)
  /\ runs' = runs + 1
  /\ hpc' = [hpc EXCEPT ![h] = "loaded"]
  /\ hcustomer' = [hcustomer EXCEPT ![h] = c]
  /\ horder' = [horder EXCEPT ![h] = NoOrder]
  /\ hold' = [hold EXCEPT ![h] = state[c]]
  /\ hemit' = [hemit EXCEPT ![h] = Emits]
  /\ UNCHANGED <<shop, orderRows, customerRows, initialized, hversion, hres, pvars, mishaps,
                 told, pass1>>

\* The cohort recompute reads holds the transaction's own order.
OwnStored(h) == IF horder[h] = NoOrder THEN stored
                ELSE [stored EXCEPT ![horder[h]] = hversion[h]]
OwnLinked(h) == IF horder[h] = NoOrder THEN linked
                ELSE [linked EXCEPT ![horder[h]] = TRUE]

ResolveHandled_BeforeUpsert(h) ==
  /\ hpc[h] = "loaded"
  /\ hres' = [hres EXCEPT ![h] = Resolve(hcustomer[h], Cohort(stored, linked, day), day)]
  /\ hpc' = [hpc EXCEPT ![h] = "resolved"]
  /\ UNCHANGED <<shop, orderRows, customerRows, initialized, hcustomer, horder, hversion, hold,
                 hemit, pvars, bounds, told, pass1>>
ResolveHandled(h) ==
  /\ hpc[h] = "loaded"
  /\ hres' = [hres EXCEPT ![h] =
                Resolve(hcustomer[h], Cohort(OwnStored(h), OwnLinked(h), day), day)]
  /\ hpc' = [hpc EXCEPT ![h] = "resolved"]
  /\ UNCHANGED <<shop, orderRows, customerRows, initialized, hcustomer, horder, hversion, hold,
                 hemit, pvars, bounds, told, pass1>>

\* The write of a customer waits for another transaction that has written it.
MayWrite(h) ==
  \A g \in Handlers \ {h} :
    hpc[g] = "idle" \/ horder[g] # NoOrder \/ hcustomer[g] # hcustomer[h]

\* Commit and rollback alike: what the transaction carried is gone.
EndHandler(h) ==
  /\ hpc' = [hpc EXCEPT ![h] = "idle"]
  /\ hcustomer' = [hcustomer EXCEPT ![h] = Nobody]
  /\ horder' = [horder EXCEPT ![h] = NoOrder]
  /\ hversion' = [hversion EXCEPT ![h] = 0]
  /\ hold' = [hold EXCEPT ![h] = "active"]
  /\ hemit' = [hemit EXCEPT ![h] = FALSE]
  /\ hres' = [hres EXCEPT ![h] = Unresolved]

CommitHandled(h) ==
  /\ hpc[h] = "resolved" /\ MayWrite(h)
  /\ EndHandler(h)
  /\ stored' = OwnStored(h)
  /\ linked' = OwnLinked(h)
  /\ row' = [row EXCEPT ![hcustomer[h]] = IF @ = "none" THEN "live" ELSE @]
  /\ Apply(Only(hcustomer[h], hres[h]), Only(hcustomer[h], hold[h]), hemit[h], h)
  /\ UNCHANGED <<shop, initialized, pvars, bounds, pass1>>

\* Rollback: the outbox row fails and is handled again.
RefuseHandled(h) ==
  /\ hpc[h] = "resolved" /\ MayWrite(h)
  /\ Refused(Only(hcustomer[h], hres[h]), Only(hcustomer[h], hold[h]), hemit[h])
  /\ EndHandler(h)
  /\ UNCHANGED <<shop, orderRows, customerRows, initialized, pvars, bounds, told, pass1>>

AbortHandled(h) ==
  /\ hpc[h] # "idle" /\ mishaps < MaxMishaps
  /\ mishaps' = mishaps + 1
  /\ EndHandler(h)
  /\ UNCHANGED <<shop, orderRows, customerRows, initialized, pvars, runs, told, pass1>>

\* handleCustomerDeleted: soft, without scoring.
DeletedHandled(c) ==
  /\ row[c] = "live" /\ CustomerFree(c)
  /\ row' = [row EXCEPT ![c] = "deleted"]
  /\ disturbed' = (disturbed \/ ppc["bulk"] # "idle")
  /\ UNCHANGED <<shop, orderRows, state, score, initialized, hvars, pvars, bounds, told, base>>

\* The backfill processors call the repositories and score nothing.
ImportOrder(o, v) ==
  /\ runs < MaxRuns
  /\ v \in 1..latest[o] /\ OrderFree(o)
  /\ runs' = runs + 1
  /\ stored' = [stored EXCEPT ![o] = v]
  /\ linked' = [linked EXCEPT ![o] = row[Buyer[o]] = "live"]
  /\ UNCHANGED <<shop, customerRows, initialized, hvars, pvars, mishaps, told, pass1>>

ImportCustomer(c) ==
  /\ row[c] = "none" /\ CustomerFree(c)
  /\ row' = [row EXCEPT ![c] = "live"]
  /\ UNCHANGED <<shop, orderRows, state, score, initialized, hvars, pvars, bounds, told, pass1>>

----------------------------------------------------------------------------
(* bulkRescore and decayRescore *)

DecayWorkingSet == {"active", "warm", "at_risk", "dormant"}
Selected(p, c) == row[c] = "live" /\ (p = "decay" => state[c] \in DecayWorkingSet)

\* findMany with a cursor: rows from the cursor's id on that match, less the
\* first of them, which is the cursor's row unless that no longer matches.
FirstOf(S, n) == {c \in S : Cardinality({d \in S : d < c}) < n}
PageOf_AtCursor(p) == FirstOf({c \in Customers : Selected(p, c) /\ c >= cursor[p]}, PageSize)
PageOf(p) ==
  LET from == {c \in Customers : Selected(p, c) /\ c >= cursor[p]}
  IN  IF cursor[p] = Nobody THEN FirstOf(from, PageSize)
                            ELSE FirstOf(from \ FirstOf(from, 1), PageSize)

\* The cohort is read once, at the start, and the resolutions follow from it.
StartPass(p) ==
  /\ ppc[p] = "idle"
  /\ ppc' = [ppc EXCEPT ![p] = "paging"]
  /\ cursor' = [cursor EXCEPT ![p] = Nobody]
  /\ pres' = [pres EXCEPT ![p] =
                [c \in Customers |-> Resolve(c, Cohort(stored, linked, day), day)]]
  /\ UNCHANGED <<shop, orderRows, customerRows, initialized, hvars, page, bounds, told>>

\* bulk-rescore refuses an initialized merchant unless forced.
StartBulk ==
  /\ ~initialized \/ Forced
  /\ StartPass("bulk")
  /\ base' = {c \in Customers : row[c] = "live"}
  /\ UNCHANGED disturbed

\* runDecaySweep selects initialized merchants.
StartDecay ==
  /\ initialized
  /\ StartPass("decay")
  /\ UNCHANGED pass1

LoadPage(p) ==
  /\ ppc[p] = "paging"
  /\ ppc' = [ppc EXCEPT ![p] = "loaded"]
  /\ page' = [page EXCEPT ![p] = [c \in PageOf(p) |-> state[c]]]
  /\ UNCHANGED <<shop, orderRows, customerRows, initialized, hvars, cursor, pres, bounds, told,
                 pass1>>

LastOf(S) == CHOOSE c \in S : \A d \in S : d <= c

EndPass(p) ==
  /\ ppc' = [ppc EXCEPT ![p] = "idle"]
  /\ cursor' = [cursor EXCEPT ![p] = Nobody]
  /\ page' = [page EXCEPT ![p] = Unread]
  /\ pres' = [pres EXCEPT ![p] = [c \in Customers |-> Unresolved]]
  /\ IF p = "bulk" THEN base' = {} /\ disturbed' = FALSE ELSE UNCHANGED pass1

PageNews(p) == [c \in DOMAIN page[p] |-> pres[p][c]]

WritePage(p) ==
  /\ ppc[p] = "loaded"
  /\ \A c \in DOMAIN page[p] : CustomerFree(c)
  /\ Apply(PageNews(p), page[p], p = "decay", p)
  /\ UNCHANGED <<shop, orderRows, row, initialized, hvars, bounds>>

\* A full page is followed by another; after the last, decay is done and bulk
\* goes on to its final transaction.
IsFull_Never(S) == FALSE
IsFull(S) == Cardinality(S) = PageSize

CommitPage(p) ==
  /\ WritePage(p)
  /\ \/ /\ IsFull(DOMAIN page[p])
        /\ ppc' = [ppc EXCEPT ![p] = "paging"]
        /\ cursor' = [cursor EXCEPT ![p] = LastOf(DOMAIN page[p])]
        /\ page' = [page EXCEPT ![p] = Unread]
        /\ UNCHANGED <<pres, pass1>>
     \/ /\ ~IsFull(DOMAIN page[p]) /\ p = "decay"
        /\ EndPass(p)
     \/ /\ ~IsFull(DOMAIN page[p]) /\ p = "bulk"
        /\ ppc' = [ppc EXCEPT ![p] = "final"]
        /\ page' = [page EXCEPT ![p] = Unread]
        /\ UNCHANGED <<cursor, pres, pass1>>

\* One change that cannot be told loses the whole page, and ends the pass: the
\* pages after it are not visited.
RefusePage(p) ==
  /\ ppc[p] = "loaded"
  /\ \A c \in DOMAIN page[p] : CustomerFree(c)
  /\ Refused(PageNews(p), page[p], p = "decay")
  /\ EndPass(p)
  /\ UNCHANGED <<shop, orderRows, customerRows, initialized, hvars, bounds, told>>

\* The last transaction of bulkRescore: the flag and its audit row.
FinishBulk ==
  /\ ppc["bulk"] = "final"
  /\ initialized' = TRUE
  /\ EndPass("bulk")
  /\ UNCHANGED <<shop, orderRows, customerRows, hvars, bounds, told>>

\* A crash, a deadlock with a handler or a timeout ends the pass.
AbortPass(p) ==
  /\ ppc[p] # "idle" /\ mishaps < MaxMishaps
  /\ mishaps' = mishaps + 1
  /\ EndPass(p)
  /\ UNCHANGED <<shop, orderRows, customerRows, initialized, hvars, runs, told>>

----------------------------------------------------------------------------
Init ==
  /\ day = 0
  /\ placed = [o \in Orders |-> 0]
  /\ processed = [o \in Orders |-> 0]
  /\ latest = [o \in Orders |-> 0]
  /\ stored = [o \in Orders |-> 0]
  /\ linked = [o \in Orders |-> FALSE]
  /\ row = [c \in Customers |-> "none"]
  /\ state = [c \in Customers |-> "active"]
  /\ score = [c \in Customers |-> NoScore]
  /\ initialized = FALSE
  /\ hpc = [h \in Handlers |-> "idle"]
  /\ hcustomer = [h \in Handlers |-> Nobody]
  /\ horder = [h \in Handlers |-> NoOrder]
  /\ hversion = [h \in Handlers |-> 0]
  /\ hold = [h \in Handlers |-> "active"]
  /\ hemit = [h \in Handlers |-> FALSE]
  /\ hres = [h \in Handlers |-> Unresolved]
  /\ ppc = [p \in Passes |-> "idle"]
  /\ cursor = [p \in Passes |-> Nobody]
  /\ page = [p \in Passes |-> Unread]
  /\ pres = [p \in Passes |-> [c \in Customers |-> Unresolved]]
  /\ runs = 0 /\ mishaps = 0
  /\ echoed = {} /\ overlapped = {}
  /\ lastNew = [c \in Customers |-> "none"]
  /\ base = {} /\ disturbed = FALSE

Webhooks ==
  \/ \E h \in Handlers, o \in Orders, v \in Versions : OrderHandled(h, o, v)
  \/ \E o \in Orders, v \in Versions : OrphanHandled(o, v)
  \/ \E h \in Handlers, c \in Customers : CustomerHandled(h, c)
  \/ \E c \in Customers : DeletedHandled(c)

HandlerStep(h) == ResolveHandled(h) \/ CommitHandled(h) \/ RefuseHandled(h)
PassStep(p) == LoadPage(p) \/ CommitPage(p) \/ RefusePage(p)

Next ==
  \/ \E o \in Orders : Place(o) \/ Refund(o)
  \/ NextDay
  \/ Webhooks
  \/ \E h \in Handlers : HandlerStep(h) \/ AbortHandled(h)
  \/ \E o \in Orders, v \in Versions : ImportOrder(o, v)
  \/ \E c \in Customers : ImportCustomer(c)
  \/ StartBulk \/ StartDecay \/ FinishBulk
  \/ \E p \in Passes : PassStep(p) \/ AbortPass(p)

Spec == Init /\ [][Next]_vars

\* Handlers return, the daily sweep comes and goes through its pages, days pass.
Fairness ==
  /\ \A h \in Handlers : WF_vars(HandlerStep(h))
  /\ WF_vars(StartDecay) /\ WF_vars(PassStep("decay"))
  /\ WF_vars(NextDay)
FairSpec == Spec /\ Fairness

----------------------------------------------------------------------------
(* Properties *)

TypeOK ==
  /\ day \in 0..MaxDay
  /\ placed \in [Orders -> Int] /\ processed \in [Orders -> Int]
  /\ latest \in [Orders -> Versions] /\ stored \in [Orders -> Versions]
  /\ linked \in [Orders -> BOOLEAN]
  /\ row \in [Customers -> {"none", "live", "deleted"}]
  /\ state \in [Customers -> States]
  /\ score \in [Customers -> {NoScore} \cup Scores]
  /\ initialized \in BOOLEAN
  /\ hpc \in [Handlers -> {"idle", "loaded", "resolved"}]
  /\ hcustomer \in [Handlers -> {Nobody} \cup Customers]
  /\ horder \in [Handlers -> {NoOrder} \cup Orders]
  /\ hversion \in [Handlers -> Versions]
  /\ hold \in [Handlers -> States] /\ hemit \in [Handlers -> BOOLEAN]
  /\ hres \in [Handlers -> Resolutions]
  /\ ppc \in [Passes -> {"idle", "paging", "loaded", "final"}]
  /\ cursor \in [Passes -> {Nobody} \cup Customers]
  /\ page \in [Passes -> UNION {[S -> States] : S \in SUBSET Customers}]
  /\ pres \in [Passes -> [Customers -> Resolutions]]
  /\ runs \in Nat /\ mishaps \in Nat
  /\ echoed \subseteq Customers /\ overlapped \subseteq Customers /\ base \subseteq Customers
  /\ lastNew \in [Customers -> {"none"} \cup States]
  /\ disturbed \in BOOLEAN

\* The score row and Customer.state come from one resolution, whoever wrote
\* them: an updated score with the state left behind would show the merchant one
\* band and send the campaign of another.  Only a transaction that acted on a
\* state changed under it may part them (customer-score.service.ts:294-303).
ScoreAndStateAgree ==
  \A c \in Customers \ overlapped :
    score[c] # NoScore =>
      \/ state[c] = StateFromRecency(score[c].r)
      \/ ~score[c].ranked /\ state[c] = "insufficient_data"

\* A customer is told the state it was last told, which costs a second
\* generation and a second email, only where two transactions overlapped:
\* redelivered and retried events, repeated sweeps and baselines never do that
\* (customer-score.service.ts:113-116, "Idempotent under replay").
EchoOnlyFromOverlap == echoed = {}

\* The first pass: no event before the flag, and the flag only when everyone who
\* was live at the start of the pass that sets it has a score, through crashes
\* and reruns (customer-score.service.ts:420-425).  A customer deleted while it
\* pages may take the next one with it (PageOf).
SilentUntilBaselined == ~initialized => \A c \in Customers : lastNew[c] = "none"
BaselineComplete ==
  [][initialized' # initialized /\ ~disturbed => \A c \in base : score[c] # NoScore]_vars

\* A purchase counts at once: when its handler commits, the customer's band is
\* no older than the order, since recompute sees the order of its own
\* transaction (handlers/order.ts:60-75); again unless another overlapped it.
\* Too small a cohort still hides it, but the buyer is one of the cohort.  What
\* the event refuses is not committed, and has to wait for its date.
Age(o) == IF processed[o] <= day THEN day - processed[o] ELSE 0
PurchaseCommits(h) ==
  /\ hpc[h] = "resolved" /\ hpc'[h] = "idle" /\ mishaps' = mishaps
  /\ ~Refused(Only(hcustomer[h], hres[h]), Only(hcustomer[h], hold[h]), hemit[h])
  /\ horder[h] # NoOrder /\ hversion[h] = 1
  /\ placed[horder[h]] + DormantMax >= day
Purchased(h) ==
  \/ hcustomer[h] \in overlapped'
  \/ Threshold > 1 /\ state'[hcustomer[h]] = "insufficient_data"
  \/ \E r \in 0..Age(horder[h]) : state'[hcustomer[h]] = StateFromRecency(r)
PurchaseCounts == [][\A h \in Handlers : PurchaseCommits(h) => Purchased(h)]_vars

\* Quiet customers decay: whatever stale pages and overlapping handlers left, and
\* though one order dated ahead of the clock stops every pass at its page until
\* its date, in the end every customer in the sweep's working set has the band
\* its orders give today (customer-score.service.ts:594-600).
CurrentState(c) == Resolve(c, Cohort(stored, linked, day), day).state
BandsSettle ==
  <>[](\A c \in Customers :
         initialized /\ row[c] = "live" /\ state[c] \in DecayWorkingSet
           => state[c] = CurrentState(c))
=============================================================================
