---------------------------- MODULE AiGeneration ----------------------------
(***************************************************************************)
(* Win-back drafts of one merchant.  A drainer process handles             *)
(* customer.state_changed events (gates, hourly cap, spend ceiling,        *)
(* customer, pending generation with its draft, ai.generate job) and, in   *)
(* its second worker, generates: pickup, provider call, discount mint,     *)
(* completion transaction.  Events are delivered at least once (Outbox     *)
(* says how); BullMQ retries failed jobs and recovers stalled ones;        *)
(* customers are deleted and erased, hours pass, processes die meanwhile.  *)
(*                                                                         *)
(* An operator named X_Y is X with the mistake Y: no other definition uses *)
(* it, and README.md says which property notices the mistake.              *)
(***************************************************************************)
EXTENDS AiProviders, FiniteSets, FiniteSetsExt

CONSTANTS
  Events, Customers,
  Customer,      \* [Events -> Customers]: whose state changed
  Processes,     \* drainer processes, each with one handler and one AI worker
  MaxDeliveries, \* MAX_OUTBOX_ATTEMPTS
  MaxTries,      \* attempts of an ai.generate job
  HourlyCap,     \* MerchantSettings.hourlyGenerationCap
  SpendCap,      \* MerchantSettings.monthlyAiSpendCapCents
  Provider, Model, MaxTokens,   \* AI_PROVIDER, AI_MODEL and AI_MAX_TOKENS
  Errors, Answers,   \* what the provider's SDK may throw and return
  StaleAfter,    \* GENERATION_STALENESS_MS, in hours
  MonthLength,   \* hours in a calendar month
  MaxGens, MaxHour, MaxMishaps, MaxFlips   \* bounds of the instance

ASSUME AiGenerationAssumption ==
  /\ Customer \in [Events -> Customers]
  /\ Events # {} /\ IsFiniteSet(Events) /\ IsFiniteSet(Customers)
  /\ Processes # {} /\ IsFiniteSet(Processes)
  /\ MaxDeliveries \in Nat \ {0} /\ MaxTries \in Nat \ {0}
  /\ HourlyCap \in Nat /\ SpendCap \in Nat
  /\ Provider \in Providers /\ Model \in Models(Provider) /\ MaxTokens \in TokenLimits
  /\ Errors \subseteq SdkErrors /\ Answers \subseteq SdkAnswers
  /\ StaleAfter \in Nat /\ MonthLength \in Nat \ {0}
  /\ MaxGens \in Nat /\ MaxHour \in Nat /\ MaxMishaps \in Nat /\ MaxFlips \in Nat

Gens == 1..MaxGens
Hours == 0..MaxHour
MonthOf(h) == h \div MonthLength
AnyEvent == CHOOSE e \in Events : TRUE
Months == {MonthOf(h) : h \in Hours}

VARIABLES
  hour,
  offering,     \* MerchantSettings.winbackDiscountEnabled
  customer,     \* "live", "deleted" (soft) or "redacted"
  delivery,     \* an event's outbox row: "waiting", "held", "settled" or "dead"
  attempts,     \* OutboxEvent.attempts
  redelivered,  \* how often the event went back after a delivery
  calls,        \* the Redis counter of the hour
  made,         \* number of generations created; their ids are 1..made
  status,       \* AiGeneration.status; "none" or "erased" without a row
  source,       \* the event a generation was created for
  createdOn,    \* AiGeneration.createdAt, in hours
  ratedOn,      \* the hour its handler was counted in
  intent,       \* discountValuePercent # null
  text,         \* the draft Message has its text
  minted,       \* the generation's discount code exists in Shopify
  spent,        \* AiSpendBucket, summed per month
  paid,         \* per generation, what the completion added to the bucket
  paidIn,       \* and to which month's
  underway,     \* handlers past loading the customer when it was redacted
  job,          \* "none", "waiting", "active", "done" or "failed" in ai.generate
  try, stalls,  \* of the job
  handler,      \* per process, what it does for an event, or NoHandler
  worker,       \* per process, what it does for a job, or NoWorker
  mishaps,      \* steps that failed, ticks that expired, crashes, lost locks
  flips         \* changes of the setting, deletions of customers

settingVars == <<hour, offering, customer, underway>>
eventVars == <<delivery, attempts, redelivered>>
genVars == <<made, status, source, createdOn, ratedOn, intent, text>>
moneyVars == <<minted, spent, paid, paidIn>>
jobVars == <<job, try, stalls>>
boundVars == <<mishaps, flips>>
vars == <<settingVars, eventVars, calls, genVars, moneyVars, jobVars, handler, worker,
          boundVars>>

\* A handler: its step, its event, whether its row lock lives, and what it read
\* or made (hour of its count, discount setting, generation).
NoHandler == [pc |-> "idle", event |-> AnyEvent, holds |-> FALSE, rated |-> 0,
              wants |-> FALSE, created |-> 0]

\* An AI worker: its step, its generation, whether it has the job's lock, and
\* whether it saw a deleted customer at pickup.
NoWorker == [pc |-> "idle", gen |-> 0, owns |-> FALSE, gone |-> FALSE]

----------------------------------------------------------------------------
(* The handler of customer.state_changed *)

HAt(p, step) == handler[p].pc = step
HGoto(p, step) == handler' = [handler EXCEPT ![p].pc = step]
HEnd(p) == handler' = [handler EXCEPT ![p] = NoHandler]
EventOf(p) == handler[p].event

\* The drainer claims the event's row and calls the handler.
Deliver(p, e) ==
  /\ HAt(p, "idle") /\ delivery[e] = "waiting"
  /\ delivery' = [delivery EXCEPT ![e] = "held"]
  /\ handler' = [handler EXCEPT ![p] =
       [NoHandler EXCEPT !.pc = "gates", !.event = e, !.holds = TRUE]]
  /\ UNCHANGED <<settingVars, attempts, redelivered, calls, genVars, moneyVars, jobVars,
                 worker, boundVars>>

\* No win-back state, no active billing, no merchant or settings: return.
\* Otherwise the settings are read here.
Gates(p) ==
  /\ HAt(p, "gates")
  /\ \/ HGoto(p, "done")
     \/ handler' = [handler EXCEPT ![p] = [@ EXCEPT !.pc = "rate", !.wants = offering]]
  /\ UNCHANGED <<settingVars, eventVars, calls, genVars, moneyVars, jobVars, worker, boundVars>>

\* incrementAndCheck: count every call, then compare.
Allowed_OffByOne(count) == count <= HourlyCap + 1
Allowed(count) == count <= HourlyCap

RateLimit(p) ==
  /\ HAt(p, "rate")
  /\ calls' = [calls EXCEPT ![hour] = @ + 1]
  /\ handler' = [handler EXCEPT ![p] = [@ EXCEPT
       !.pc = IF Allowed(calls[hour] + 1) THEN "spend" ELSE "done", !.rated = hour]]
  /\ UNCHANGED <<settingVars, eventVars, genVars, moneyVars, jobVars, worker, boundVars>>

\* The ceiling: what the month has cost, with one worst-case call on top, in
\* microcents; the code takes 100000 of them for a cent.
OverSpend == spent[MonthOf(hour)] + WorstCase(Model, MaxTokens) > SpendCap * 100000

SpendCheck(p) ==
  /\ HAt(p, "spend")
  /\ HGoto(p, IF OverSpend THEN "done" ELSE "customer")
  /\ UNCHANGED <<settingVars, eventVars, calls, genVars, moneyVars, jobVars, worker, boundVars>>

\* The soft-delete filter hides a deleted or redacted customer.
Visible_Unfiltered(c) == TRUE
Visible(c) == customer[c] = "live"

LoadCustomer(p) ==
  /\ HAt(p, "customer")
  /\ HGoto(p, IF Visible(Customer[EventOf(p)]) THEN "create" ELSE "done")
  /\ UNCHANGED <<settingVars, eventVars, calls, genVars, moneyVars, jobVars, worker, boundVars>>

\* The discount the prompt asks for: the setting as step 3 read it.  The prompt
\* itself (products, tone, currency) is a matter of wording.
Offered(p) == handler[p].wants

\* createPending with createDraft, in one transaction.
CreatePending(p) ==
  LET g == made + 1 IN
  /\ HAt(p, "create") /\ made < MaxGens
  /\ made' = g
  /\ status' = [status EXCEPT ![g] = "pending"]
  /\ source' = [source EXCEPT ![g] = EventOf(p)]
  /\ createdOn' = [createdOn EXCEPT ![g] = hour]
  /\ ratedOn' = [ratedOn EXCEPT ![g] = handler[p].rated]
  /\ intent' = [intent EXCEPT ![g] = Offered(p)]
  /\ handler' = [handler EXCEPT ![p] = [@ EXCEPT !.pc = "enqueue", !.created = g]]
  /\ UNCHANGED <<settingVars, eventVars, calls, text, moneyVars, jobVars, worker, boundVars>>

\* The job's id is the generation's, so it is added once.
EnqueueJob(p) ==
  /\ HAt(p, "enqueue")
  /\ job' = [job EXCEPT ![handler[p].created] = "waiting"]
  /\ HGoto(p, "done")
  /\ UNCHANGED <<settingVars, eventVars, calls, genVars, moneyVars, try, stalls, worker, boundVars>>

----------------------------------------------------------------------------
(* How a delivery ends *)

\* The handler returned: its row is marked processed, if the tick's transaction
\* is still there.
Returned_Unmarked(e) == [delivery EXCEPT ![e] = "waiting"]
Returned(e) == [delivery EXCEPT ![e] = "settled"]

Settle(p) ==
  /\ HAt(p, "done")
  /\ delivery' = IF handler[p].holds THEN Returned(EventOf(p)) ELSE delivery
  /\ HEnd(p)
  /\ UNCHANGED <<settingVars, attempts, redelivered, calls, genVars, moneyVars, jobVars,
                 worker, boundVars>>

\* The event waits for another delivery.
Redeliver(e) ==
  /\ delivery' = [delivery EXCEPT ![e] = "waiting"]
  /\ redelivered' = [redelivered EXCEPT ![e] = @ + 1]

\* A step of the handler throws, with nothing of it written: markFailed, or
\* markDeadLettered at the last attempt and for an error that is not retryable.
HandlerThrows(p) ==
  LET e == EventOf(p) IN
  /\ handler[p].pc \notin {"idle", "done"} /\ mishaps < MaxMishaps
  /\ mishaps' = mishaps + 1
  /\ HEnd(p)
  /\ \/ handler[p].holds /\ attempts' = [attempts EXCEPT ![e] = @ + 1]
        /\ \/ attempts[e] + 1 < MaxDeliveries /\ Redeliver(e)
           \/ delivery' = [delivery EXCEPT ![e] = "dead"] /\ UNCHANGED redelivered
     \/ ~handler[p].holds /\ UNCHANGED eventVars
  /\ UNCHANGED <<settingVars, calls, genVars, moneyVars, jobVars, worker,
                 flips>>

\* The tick's transaction expires.  The row is unlocked; the handler, whose
\* writes are its own, goes on.
TickExpires(p) ==
  /\ handler[p].holds /\ mishaps < MaxMishaps
  /\ mishaps' = mishaps + 1
  /\ handler' = [handler EXCEPT ![p].holds = FALSE]
  /\ Redeliver(EventOf(p))
  /\ UNCHANGED <<settingVars, attempts, calls, genVars, moneyVars, jobVars, worker,
                 flips>>

----------------------------------------------------------------------------
(* The AI worker *)

\* How a call can fail, and what an answer that is taken costs.
Accepted(a) == MapAnswer(Provider, a) = "ok"
Failures ==
  {MapError(Provider, e) : e \in Errors}
    \cup {MapAnswer(Provider, a) : a \in {b \in Answers : ~Accepted(b)}}
Costs == {CostMicrocents(Model, a.input, a.output) : a \in {b \in Answers : Accepted(b)}}

WAt(p, step) == worker[p].pc = step
WGoto(p, step) == worker' = [worker EXCEPT ![p].pc = step]
WEnd(p) == worker' = [worker EXCEPT ![p] = NoWorker]
GenOf(p) == worker[p].gen

\* The processor returns, or throws: BullMQ completes, retries or fails the
\* job, if this worker still has its lock.
JobReturns(p) ==
  /\ WEnd(p)
  /\ job' = IF worker[p].owns THEN [job EXCEPT ![GenOf(p)] = "done"] ELSE job
  /\ UNCHANGED <<try, stalls>>

JobThrows(p) ==
  LET g == GenOf(p)  last == try[g] >= MaxTries IN
  /\ WEnd(p)
  /\ \/ /\ worker[p].owns
        /\ job' = [job EXCEPT ![g] = IF last THEN "failed" ELSE "waiting"]
        /\ try' = [try EXCEPT ![g] = IF last THEN @ ELSE @ + 1]
     \/ ~worker[p].owns /\ UNCHANGED <<job, try>>
  /\ UNCHANGED stalls

TakeJob(p, g) ==
  /\ WAt(p, "idle") /\ job[g] = "waiting"
  /\ job' = [job EXCEPT ![g] = "active"]
  /\ worker' = [worker EXCEPT ![p] =
       [NoWorker EXCEPT !.pc = "pickup", !.gen = g, !.owns = TRUE]]
  /\ UNCHANGED <<settingVars, eventVars, calls, genVars, moneyVars, try, stalls,
                 handler, boundVars>>

\* A generation without a row, or decided: the job is a replay.
PickupReplay(p) ==
  /\ WAt(p, "pickup") /\ status[GenOf(p)] # "pending"
  /\ JobReturns(p)
  /\ UNCHANGED <<settingVars, eventVars, calls, genVars, moneyVars, handler, boundVars>>

\* A pending one is too old, or goes to the provider.
Pickup(p) ==
  LET g == GenOf(p) IN
  /\ WAt(p, "pickup") /\ status[g] = "pending"
  /\ worker' = [worker EXCEPT ![p] = [@ EXCEPT
       !.pc = IF hour - createdOn[g] > StaleAfter THEN "giveup" ELSE "call",
       !.gone = ~Visible(Customer[source[g]])]]
  /\ UNCHANGED <<settingVars, eventVars, calls, genVars, moneyVars, jobVars, handler, boundVars>>

\* markFailed, from pending only.
MarkFailed_Deletes(g) == status' = [status EXCEPT ![g] = IF @ = "pending" THEN "none" ELSE @]
MarkFailed_Skipped(g) == UNCHANGED status
MarkFailed(g) == status' = [status EXCEPT ![g] = IF @ = "pending" THEN "failed" ELSE @]

\* Stale, or a discount for a deleted customer: failed, without an audit row.
\* An error that is final: failed, with one.
GiveUp(p) ==
  /\ WAt(p, "giveup") \/ WAt(p, "refused")
  /\ MarkFailed(GenOf(p))
  /\ JobReturns(p)
  /\ UNCHANGED <<settingVars, eventVars, calls, made, source, createdOn, ratedOn, intent,
                 text, moneyVars, handler, boundVars>>

\* The prompt asked for a code: the intent of the row, not the setting of now.
Minting_Setting(g) == offering
Minting(g) == intent[g]

CallOk(p) ==
  /\ WAt(p, "call") /\ \E a \in Answers : Accepted(a)
  /\ WGoto(p, IF ~Minting(GenOf(p)) THEN "complete"
              ELSE IF worker[p].gone THEN "giveup" ELSE "mint")
  /\ UNCHANGED <<settingVars, eventVars, calls, genVars, moneyVars, jobVars, handler, boundVars>>

\* A blocked prompt, a rejected key or an invalid request.
CallRefused(p) ==
  /\ WAt(p, "call") /\ \E code \in Failures : ~Rethrown(code)
  /\ WGoto(p, "refused")
  /\ UNCHANGED <<settingVars, eventVars, calls, genVars, moneyVars, jobVars, handler, boundVars>>

\* createWinbackDiscountCode: a code that is TAKEN is this generation's own.
MintCode(g) == minted' = [minted EXCEPT ![g] = TRUE]

\* The code takes the place of its token in the text, where the text has it.
Mint(p) ==
  /\ WAt(p, "mint")
  /\ MintCode(GenOf(p))
  /\ WGoto(p, "complete")
  /\ UNCHANGED <<settingVars, eventVars, calls, genVars, spent, paid, paidIn, jobVars,
                 handler, boundVars>>

\* The completion transaction: status, text and spend, or nothing when the
\* generation is not pending any more.
WriteCompletion(g, cost) ==
  /\ status' = [status EXCEPT ![g] = "completed"]
  /\ text' = [text EXCEPT ![g] = TRUE]
  /\ spent' = [spent EXCEPT ![MonthOf(hour)] = @ + cost]
  /\ paid' = [paid EXCEPT ![g] = cost]
  /\ paidIn' = [paidIn EXCEPT ![g] = MonthOf(hour)]
MarkCompleted_Twice(g, cost) ==
  \/ status[g] \in {"pending", "completed"} /\ WriteCompletion(g, cost)
  \/ status[g] \in {"failed", "erased"} /\ UNCHANGED <<status, text, spent, paid, paidIn>>
MarkCompleted(g, cost) ==
  \/ status[g] = "pending" /\ WriteCompletion(g, cost)
  \/ status[g] # "pending" /\ UNCHANGED <<status, text, spent, paid, paidIn>>

Complete(p, cost) ==
  /\ WAt(p, "complete")
  /\ MarkCompleted(GenOf(p), cost)
  /\ JobReturns(p)
  /\ UNCHANGED <<settingVars, eventVars, calls, made, source, createdOn, ratedOn, intent,
                 minted, handler, boundVars>>

\* A retryable or unknown provider error, a failed mint or a database error:
\* nothing of the step is written and the job throws.
WorkerThrows(p) ==
  /\ ~WAt(p, "idle") /\ mishaps < MaxMishaps
  /\ WAt(p, "call") => \E code \in Failures : Rethrown(code)
  /\ mishaps' = mishaps + 1
  /\ JobThrows(p)
  /\ UNCHANGED <<settingVars, eventVars, calls, genVars, moneyVars, handler,
                 flips>>

\* The same, but Shopify or Postgres had done its part before the error.
ThrowsTooLate(p, cost) ==
  /\ mishaps < MaxMishaps
  /\ mishaps' = mishaps + 1
  /\ \/ /\ WAt(p, "mint")
        /\ MintCode(GenOf(p))
        /\ UNCHANGED <<status, text, spent, paid, paidIn>>
     \/ WAt(p, "complete") /\ MarkCompleted(GenOf(p), cost) /\ UNCHANGED minted
  /\ JobThrows(p)
  /\ UNCHANGED <<settingVars, eventVars, calls, made, source, createdOn, ratedOn, intent,
                 handler, flips>>

----------------------------------------------------------------------------
(* Crashes and stalls *)

\* Another worker finds the job stalled: it waits again, once.
Recovered(p) ==
  LET g == GenOf(p) IN
  \/ /\ worker[p].owns
     /\ job' = [job EXCEPT ![g] = IF stalls[g] = 0 THEN "waiting" ELSE "failed"]
     /\ stalls' = [stalls EXCEPT ![g] = 1]
  \/ ~worker[p].owns /\ UNCHANGED <<job, stalls>>

\* The process dies, its handler and its AI worker with it.
Crash(p) ==
  /\ ~(HAt(p, "idle") /\ WAt(p, "idle")) /\ mishaps < MaxMishaps
  /\ mishaps' = mishaps + 1
  /\ HEnd(p) /\ WEnd(p)
  /\ \/ handler[p].holds /\ Redeliver(EventOf(p))
     \/ ~handler[p].holds /\ UNCHANGED <<delivery, redelivered>>
  /\ Recovered(p)
  /\ UNCHANGED <<settingVars, attempts, calls, genVars, moneyVars, try, flips>>

\* The worker loses the lock of its job and goes on.
LockLost(p) ==
  /\ worker[p].owns /\ mishaps < MaxMishaps
  /\ mishaps' = mishaps + 1
  /\ Recovered(p)
  /\ worker' = [worker EXCEPT ![p].owns = FALSE]
  /\ UNCHANGED <<settingVars, eventVars, calls, genVars, moneyVars, try, handler,
                 flips>>

----------------------------------------------------------------------------
(* The merchant, its customers and the clock *)

NextHour ==
  /\ hour < MaxHour
  /\ hour' = hour + 1
  /\ UNCHANGED <<offering, customer, underway, eventVars, calls, genVars, moneyVars, jobVars,
                 handler, worker, boundVars>>

SettingFlip ==
  /\ flips < MaxFlips
  /\ flips' = flips + 1
  /\ offering' = ~offering
  /\ UNCHANGED <<hour, customer, underway, eventVars, calls, genVars, moneyVars, jobVars,
                 handler, worker, mishaps>>

\* A customers/delete webhook: deletedAt is set, nothing else.
CustomerDeleted(c) ==
  /\ customer[c] = "live" /\ flips < MaxFlips
  /\ flips' = flips + 1
  /\ customer' = [customer EXCEPT ![c] = "deleted"]
  /\ UNCHANGED <<hour, offering, underway, eventVars, calls, genVars, moneyVars, jobVars,
                 handler, worker, mishaps>>

\* processCustomerRedact deletes the customer's messages and generations with
\* it.  Its own lookup does not see a deleted customer.
GensOf(c) == {g \in Gens : status[g] \notin {"none", "erased"} /\ Customer[source[g]] = c}

CustomerRedact(c) ==
  /\ Visible(c)
  /\ customer' = [customer EXCEPT ![c] = "redacted"]
  /\ status' = [g \in Gens |-> IF g \in GensOf(c) THEN "erased" ELSE status[g]]
  /\ text' = [g \in Gens |-> text[g] /\ g \notin GensOf(c)]
  /\ underway' = [underway EXCEPT ![c] =
       Cardinality({p \in Processes : HAt(p, "create") /\ Customer[EventOf(p)] = c})]
  /\ UNCHANGED <<hour, offering, eventVars, calls, made, source, createdOn, ratedOn, intent,
                 moneyVars, jobVars, handler, worker, boundVars>>

----------------------------------------------------------------------------

Init ==
  /\ hour = 0 /\ offering \in BOOLEAN
  /\ customer = [c \in Customers |-> "live"] /\ underway = [c \in Customers |-> 0]
  /\ delivery = [e \in Events |-> "waiting"]
  /\ attempts = [e \in Events |-> 0] /\ redelivered = [e \in Events |-> 0]
  /\ calls = [h \in Hours |-> 0]
  /\ made = 0
  /\ status = [g \in Gens |-> "none"]
  /\ source = [g \in Gens |-> AnyEvent]
  /\ createdOn = [g \in Gens |-> 0] /\ ratedOn = [g \in Gens |-> 0]
  /\ intent = [g \in Gens |-> FALSE] /\ text = [g \in Gens |-> FALSE]
  /\ minted = [g \in Gens |-> FALSE]
  /\ spent = [m \in Months |-> 0]
  /\ paid = [g \in Gens |-> 0] /\ paidIn = [g \in Gens |-> 0]
  /\ job = [g \in Gens |-> "none"]
  /\ try = [g \in Gens |-> 1] /\ stalls = [g \in Gens |-> 0]
  /\ handler = [p \in Processes |-> NoHandler]
  /\ worker = [p \in Processes |-> NoWorker]
  /\ mishaps = 0 /\ flips = 0

Handle(p) ==
  \/ \E e \in Events : Deliver(p, e)
  \/ Gates(p) \/ RateLimit(p) \/ SpendCheck(p) \/ LoadCustomer(p)
  \/ CreatePending(p) \/ EnqueueJob(p) \/ Settle(p)

Generate(p) ==
  \/ \E g \in Gens : TakeJob(p, g)
  \/ PickupReplay(p) \/ Pickup(p) \/ GiveUp(p)
  \/ CallOk(p) \/ CallRefused(p) \/ Mint(p)
  \/ \E cost \in Costs : Complete(p, cost)

Fault(p) ==
  \/ HandlerThrows(p) \/ TickExpires(p) \/ WorkerThrows(p)
  \/ \E cost \in Costs : ThrowsTooLate(p, cost)
  \/ Crash(p) \/ LockLost(p)

World ==
  \/ NextHour \/ SettingFlip
  \/ \E c \in Customers : CustomerDeleted(c) \/ CustomerRedact(c)

Next == World \/ \E p \in Processes : Handle(p) \/ Generate(p) \/ Fault(p)

Spec == Init /\ [][Next]_vars

\* Processes are restarted and work off their queues; nothing else is fair.
FairSpec == Spec /\ \A p \in Processes : WF_vars(Handle(p)) /\ WF_vars(Generate(p))

----------------------------------------------------------------------------
(* Properties *)

SettingTypeOK ==
  /\ hour \in Hours /\ offering \in BOOLEAN
  /\ customer \in [Customers -> {"live", "deleted", "redacted"}]
  /\ underway \in [Customers -> Nat]

EventTypeOK ==
  /\ delivery \in [Events -> {"waiting", "held", "settled", "dead"}]
  /\ attempts \in [Events -> Nat] /\ redelivered \in [Events -> Nat]
  /\ calls \in [Hours -> Nat]

GenTypeOK ==
  /\ made \in 0..MaxGens
  /\ status \in [Gens -> {"none", "pending", "completed", "failed", "erased"}]
  /\ \A g \in Gens : status[g] = "none" <=> g > made
  /\ source \in [Gens -> Events]
  /\ createdOn \in [Gens -> Hours] /\ ratedOn \in [Gens -> Hours]
  /\ intent \in [Gens -> BOOLEAN] /\ text \in [Gens -> BOOLEAN]

MoneyTypeOK ==
  /\ minted \in [Gens -> BOOLEAN]
  /\ spent \in [Months -> Nat] /\ paid \in [Gens -> Nat] /\ paidIn \in [Gens -> Months]

JobTypeOK ==
  /\ job \in [Gens -> {"none", "waiting", "active", "done", "failed"}]
  /\ try \in [Gens -> 1..MaxTries] /\ stalls \in [Gens -> 0..1]

HandlerPass ==
  [pc : {"idle", "gates", "rate", "spend", "customer", "create", "enqueue", "done"},
   event : Events, holds : BOOLEAN, rated : Hours, wants : BOOLEAN, created : 0..MaxGens]

WorkerPass ==
  [pc : {"idle", "pickup", "giveup", "call", "refused", "mint", "complete"},
   gen : 0..MaxGens, owns : BOOLEAN, gone : BOOLEAN]

HandlerTypeOK == handler \in [Processes -> HandlerPass]
WorkerTypeOK == worker \in [Processes -> WorkerPass]

\* Every variable keeps its type; a generation has a row or had one exactly
\* when its id was given out.
TypeOK ==
  /\ SettingTypeOK /\ EventTypeOK /\ GenTypeOK /\ MoneyTypeOK /\ JobTypeOK
  /\ HandlerTypeOK /\ WorkerTypeOK
  /\ mishaps \in 0..MaxMishaps /\ flips \in 0..MaxFlips

\* The month's spend is the cost of its completed generations, each counted
\* once, whether workers raced, retried or the customer was erased since.
SpendCountedOnce ==
  \A m \in Months :
    spent[m] = MapThenSumSet(LAMBDA g : paid[g], {g \in Gens : paidIn[g] = m})

\* The completion is whole: the draft has its text exactly when its generation
\* is completed, and then there is a discount code exactly when the prompt
\* promised one.
CompletedIsWhole ==
  \A g \in Gens :
    /\ text[g] <=> status[g] = "completed"
    /\ status[g] = "completed" => (minted[g] <=> intent[g])

\* No table ties a generation to its event.  An event gets a second one only
\* when it was delivered again.
DuplicatesOnlyFromRedelivery ==
  \A e \in Events :
    Cardinality({g \in Gens : status[g] # "none" /\ source[g] = e}) <= 1 + redelivered[e]

\* However many handlers count at once, no more generations come from an hour's
\* counter than the cap allows.
HourlyCapHolds ==
  \A h \in Hours :
    Cardinality({g \in Gens : status[g] # "none" /\ ratedOn[g] = h}) <= HourlyCap

\* Only handlers that had loaded the customer before it was redacted can still
\* create a generation, with the name in its prompt; one each.
LateGenerationsBounded ==
  \A c \in Customers : customer[c] = "redacted" => Cardinality(GensOf(c)) <= underway[c]

\* A queued generation is decided or erased, as long as fewer steps fail than a
\* job has attempts and its job is found stalled no more than once.
QueuedIsDecided ==
  \A g \in Gens : (status[g] = "pending" /\ job[g] = "waiting") ~> status[g] # "pending"
=============================================================================
