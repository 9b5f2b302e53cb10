# Verification of WinBack AI

TLA+ modules that model the parts of WinBack AI where concurrency, failure and
ordering decide whether it is correct, TLC configurations that check them on
small instances, and TLAPS proofs of their main safety properties for every
instance. WinBack is a Shopify application: a shop installs it and its past
orders are imported, webhooks and scheduled scoring produce events in a
transactional outbox, a drainer turns them into scores, AI written drafts and
campaign sends, and Amazon SES delivers the emails.

## Inventory

State lives in Postgres (rows, transactions, row locks), in Redis (BullMQ
queues, one rate-limit counter) and in the memory of three kinds of processes.

| Component | State | Operations | What must hold | Model |
|---|---|---|---|---|
| Outbox and drainer (`apps/drainer/src/drainer.ts`, `worker.ts`, `packages/db` outbox repository) | `OutboxEvent` rows, tick jobs, a claimed batch and deferred rows per process | claim, mark processed / failed / dead-lettered, deferred handlers, re-enqueue of the tick | one drainer per row, no event lost, at most `MAX_OUTBOX_ATTEMPTS` attempts, deferred events at most once, the polling goes on | `Outbox`, promise `EventDelivery` |
| Webhook ingest (`apps/web`) | `IdempotencyKey`, outbox rows | ingest, duplicate, unknown shop | each delivery becomes one event | `Outbox` |
| Shop redaction (`packages/db/src/compliance`) | all tables of a tenant | chunked deletion, merchant delete | an erased tenant leaves nothing | `Outbox` (outbox rows, keys, merchant) |
| Operator CLI (`apps/cli`) | outbox rows, scores, backfill jobs | replay, force-dead-letter, bulk-rescore, backfill | a replay requeues, nothing is taken from a drainer, one baseline | `Outbox`, `Scoring`, `Backfill` |
| Dispatch worker and gate chain (`apps/drainer/src/workers/dispatch.worker.ts`, `dispatch/`) | `CampaignTarget`, `Message`, `MessageQuotaBucket`, job attempts | claim, gates, defer, resolve, start sending, send, complete, revert | no customer is emailed twice, target and message agree, quotas and frequency hold, claimed targets get decided | `Dispatch`, promise `Mailing` |
| Dispatch sweep (`apps/scheduler`) | (reads the same rows) | enqueue drafts, re-enqueue / expire deferred targets | nothing dispatchable is left behind | `Dispatch` |
| Customer redaction | targets, messages, generations (and scores, orders, ...) | one transaction | a send or a generation in progress survives it | `Dispatch`, `AiGeneration` (these tables) |
| AI generation (`customer-state-changed.ts`, `ai-generate.worker.ts`) | `AiGeneration`, `Message`, `AiSpendBucket`, hourly counter | gates, create and enqueue, generate, mint a discount, complete, fail | a second generation only after a redelivery, spend counted once, text and code belong together, no queued draft stuck | `AiGeneration` |
| Rate limiter (`packages/queue`) | counter per tenant and hour | increment and check | at most the cap per hour | `AiGeneration` |
| Scoring (`customer-score.service.ts`, `scoring-math.ts`, decay sweep) | `CustomerScore`, `Customer.state`, `scoringInitializedAt` | recompute, bulk and decay rescore | state, score and event agree under concurrent scorers; the baseline is silent and complete; bands settle | `Scoring`, `ScoringMath` |
| Order and customer handlers (`handlers/order.ts`, `handlers/customer.ts`, repositories) | `Order`, `Customer` rows | upsert, refund, orphan order, soft delete | a purchase counts when it commits | `Scoring` |
| Backfill (`packages/shopify/src/backfill`) | `BackfillJob` status and cursor, imported rows | open, fetch page, commit page, pause, fail, complete | resumes where it stopped, no page lost | `Backfill` |
| Install, enrichment (`auth.tsx`, `install.service.ts`, `handlers/merchant.ts`, enrichment sweep, token resolver) | merchant marks, session, token, webhook subscription | exchange, complete install, store session, subscribe, enrich, revoke, uninstall | an installed shop is enriched in the end | `Onboarding` (over `Backfill`) |
| Admin client (`packages/shopify`) | none of its own | call with a token: answered, refused, failed | | `Onboarding`, `AiGeneration` |
| Cost tracker | bucket per client object | wait, reserve, observe | | not modelled |
| AI providers (`packages/ai`) | none of their own | classify an SDK's errors and answers, price a call | retried is what a retry can help, an accepted answer has text and usage, the estimate covers the cost | `AiProviders` |
| Tenant scope, query extension (`packages/db`) | async-local scope | enter, nest, refuse or rewrite a query | no query crosses tenants | `TenantScope` |
| Crypto, config, logger, UI | none | pure functions, pages | | not modelled |

How they interact: web, scheduler and CLI write outbox rows or queue jobs; the
drainer process runs three workers (outbox drain, AI generation, dispatch); all
of them share the database, and BullMQ hands a job of a dead or slow worker to
another one. A webhook becomes an event (`Outbox`); an order event becomes a
score and perhaps a `customer.state_changed` event (`Scoring`), that event a
draft (`AiGeneration`), the draft an email (`Dispatch`); `merchant.installed`
becomes the import of the shop's history (`Onboarding`, `Backfill`). The modules
meet at these events: what `Outbox` guarantees of a delivery (one more run for
each lost transaction or crash, in no particular order, the last of them perhaps
after the event is settled) is what the handlers of `Scoring` and `AiGeneration`
are exposed to. What is hard is listed line by line
under `hazards` in `PROJECT.json`: steps of two workers between two reads of one
row, crashes between a commit and an external call, retries of what was already
done, checks that are stale when used, and chains of jobs that end.

## Modules

### Outbox

State: the tables (`table`, `processed`, `deadLettered`, `deferredFailed`,
`attempts`, `keys`, `merchant`), the tick jobs, and per drainer its transaction
(`todo`, and the uncommitted marks `okRows`, `failedRows`, `deadRows`), the
rows it deferred, the progress of an erasure, and the row whose handler outlives
the transaction (`late`).

A row id is its rank in `createdAt`. One action per step of `runDrainTick`:
`StartTick` claims (`ClaimBatch` is the `SELECT ... LIMIT n FOR UPDATE SKIP
LOCKED`), `DispatchOk`, `DispatchFail` and `DeferRow` work through the batch in
order, `Commit` makes the marks visible and either ends the tick or enters phase
2, `InstalledOk`, `DeferredFail` and the `Redact*` actions are phase 2. A handler
commits on its own connection, so `handled` grows inside the transaction and
`Abort` and `Crash` keep it. `$transaction` at `drainer.ts:114` sets no timeout,
so Prisma's default of 5 s ends it, possibly while a handler is awaited:
`Expire` releases the batch's locks and leaves that handler running, and
`LateOk` or `LateFail` is its end, whatever another replica has made of the row
by then; the mark after it meets a closed transaction, and the tick fails as
after an `Abort`. `Ingest`, `Install`, `Publish` are the producers;
`Replay` and `ForceDeadLetter` the operator's commands, which wait for row locks.

A GDPR webhook never parses in its handler (see the findings), so a
`gdpr.shop_redacted` event that does is one published in the shape
`payload-schemas.ts` documents; the erasure runs use such events, to check the
erasure itself. `CustomerRedact` in `Dispatch` and `AiGeneration` is the same: the
effect of a redaction that parses.

`DeliversEvents` says that `Outbox` implements `EventDelivery`: the abstract event
`i` is the row with that id; it is `kept` while it is in the table, `done` when
processed, `parked` when dead-lettered, `runs` is the history `handled`, and
`slow` is `late`: a run that was begun while its event was open and may complete
at any later time, after the event is done, parked or erased. The mapping hides drainers, batches, uncommitted marks, attempts, ticks and the two
phases: a handler in its transaction is a `Run`, one that outlives it a `BeginSlow`
and an `EndSlow`, a commit is one `Settle` of a whole batch, a deferred handler is
a `RunOnce`, and each chunk of an erasure an `Erase`.

### Dispatch

State: `message`, `target`, `claimedOn`, `sentOn`, `bucket` are the columns the
code reads; `jobs` the waiting jobs, with attempt and stall count; `pc`, `msg`,
`job`, `now` a worker's place in `processCampaignDispatchJob`; `accepted` and
`lost` record what SES did, which no code reads.

One action per database or SES call: `Take`, `Claim` (claim, load, replay
guard), `RunGates`, `Resolve`, `Defer`, `StartSending`, the outcomes of the send
(`SendOk`, `SendLost`, `SendRetryable`, `SendRefused`), `Complete` and its two
failures, `Revert`. `DbFails` is a database error at any of them, `Crash` the
death of the process (SES may have taken the email), `LockLost` the loss of the
60 s lock by a worker that goes on. `SweepDraft`, `SweepResolve` and
`SweepDeferred` are the sweep, one item per step: the code's batches are some of
those interleavings.

Abstractions: time is in UTC days, all in one month, so cooldown and expiry are
in days and the monthly bucket is the sum of the daily ones. The gates that
stop for good and read no send (suppression, consent, recent purchase) are one
set `ineligible` that customers enter. `RunGates` evaluates the chain in one
step, although the code loads consent a moment earlier. A customer without an
address is deferred, as the code does. Not modelled: audit rows, the SNS handler
the code announces but does not have, an operator's SQL (OPERATIONS.md section
5), and SES's own retries, whose effect `SendLost` covers.

`MailsAsPromised` says that `Dispatch` implements `Mailing`: `Stage` reads the
stage of a message off its target (no target, pending and deferred are
`waiting`, sending is `taken`), `Sends` are the messages of workers at the send
itself, `copies` and `unheard` are `accepted` and `lost`. Jobs, gates, the sweep,
quotas and clocks are stutters there. Of the promise, that a message is
taken or released only while every copy of it is an unacknowledged one is
the part `ResentOnlyAfterLostAck` rests on.

### AiGeneration

The generations of one merchant, from the event to the finished draft. A process
is a drainer: one handler of `customer.state_changed` and one AI worker, which
die together. State: the event's row as far as delivery goes (`delivery`,
`attempts`), the settings and customers the handler reads, the hour's counter
(`calls`), the rows (`status`, `source`, `createdOn`, `intent`, `text`), the
money (`minted`, `spent`, `paid`, `paidIn`), the `ai.generate` jobs with attempt
and stall count, and per process what handler and worker carry between two
awaits. `source` stands for the generation's customer; that it names the event,
and `ratedOn`, `paid`, `paidIn`, `redelivered` and `underway`, are history no code
reads.

One action per await: `Deliver`, `Gates`, `RateLimit`, `SpendCheck`,
`LoadCustomer`, `CreatePending`, `EnqueueJob`, `Settle` are
`handleCustomerStateChanged` inside a drain tick; `TakeJob`, `PickupReplay`,
`Pickup`, `CallOk` or `CallRefused`, `Mint`, `Complete`, `GiveUp` are
`processAiGenerateJob`. `HandlerThrows` and `WorkerThrows` are an error at any of
them, `ThrowsTooLate` one that comes after Shopify or Postgres did the work,
`TickExpires` the end of the tick's transaction under a handler that goes on,
`Crash` and `LockLost` what they say. `CustomerDeleted` and `CustomerRedact` may
come between any two steps.

Abstractions: time is in hours; a calendar month and the staleness limit are
numbers of hours. The spend buckets of a month are their sum. Gates that end the
handler without a write (state, billing, merchant) are one choice. Which prompt
is built does not matter, only that it holds the name read in `LoadCustomer`.
What the provider does to a call is taken from `AiProviders`: `Errors` and
`Answers` are what its SDK may throw and return in the instance, `Failures` the
codes they are mapped to, which decide between `CallRefused` and `WorkerThrows`,
and `Costs` what the accepted answers cost. Worker and row hold no cost before
`Complete`, so it is chosen there. The cap is compared in the code's unit, a
hundred thousandth of a cent (Observations). Not modelled: audit rows, prompt
inputs other than the customer.

### AiProviders

`openai.ts`, `anthropic.ts`, `deepseek.ts`, the routing by `AI_PROVIDER` and the
price table, as operators: `MapError` is an SDK error's code, `MapAnswer` that of
an answer ("ok" when it is accepted), `Rethrown` what the worker leaves to
BullMQ. An SDK error is its class, its status and whether its text matches the
mapper's pattern for content policies; an answer is its first choice, whether a
filter marked it, its text as far as the checks tell texts apart, and its usage.
The prompts and what the SDKs do inside a call, their own retries included, are
left out: what comes out of a call is what its last attempt gave.

### TenantScope

The async-local scope of `tenant-scope.ts` and the Prisma extension of
`hooks.ts`: which scope a wrapper runs its function in, which arguments of a
query are refused, and what the others become (`ReadArgs`, `WriteArgs`). A table
is a set of rows with an id, an owner and a deletion mark; `Selected` and
`Applied` are what Postgres makes of the arguments. The extension keeps no state
between two queries, so there is no state machine and no run: the module
consists of operators and the two theorems about them. Left out are relations
that a query loads or writes through a row, which the extension does not see, the
validation of `aiTone`, and the error classes.

### Scoring and ScoringMath

`ScoringMath` is `scoring-math.ts`: quintile boundaries and ranks, the five
bands by days since the last order, and the two resolutions (a customer with
counted orders, and one without, who gets the age of the account). A cohort is a
function from customers to a value, so "sort and take the i-th" is `Smallest`.
`RankIsShareBelow` compares ranks with their meaning, the share of the cohort
below a value, on every cohort of up to six members, and `RankIsFifthsBelow`
proves it for every cohort. The code computes the cuts in floating point
(`N * 0.2`); the index is the exact one for every cohort up to 200 000.

`Scoring` has the shop's orders (`placed`, `processed`, `latest`), the `Order` and `Customer`
rows, the score row, and the three writers of `Customer.state`. A webhook
handler is a transaction of two steps: `OrderHandled` or `CustomerHandled`
(upsert and the reads of `recompute`), `ResolveHandled` (the cohort, with the
transaction's own order) and `CommitHandled` (score, state, event). The
passes `bulk` and `decay` resolve everyone from one cohort read at `StartPass`
and go through pages: `LoadPage`, `CommitPage`, and `FinishBulk` sets the flag.
`AbortHandled` and `AbortPass` are the rollback, deadlock, time-out or crash of
either. A handler takes any version of an order that ever existed: redelivery
and reordering need no queue of their own. Rows an open transaction has written
stay locked (`OrderFree`, `CustomerFree`, `MayWrite`); everything else is READ
COMMITTED, so writers do act on states that have changed. `lastNew`, `overlapped`,
`echoed`, `base` and `disturbed` are history.

`PageOf` is Prisma's `cursor` with `skip: 1`: rows from the cursor's id on that
match the filter, less the first. Where the cursor's row has left the filter in
between, the first is another customer, who is skipped. That reading of Prisma
is the one assumption about an external library these results depend on.

The server's clock is `day`. The dates of an order are Shopify's: `created_at`
(`placed`) decides whether the order is in the window, `processed_at`
(`processed`) how many days it is old, and `Place` takes them from `Dates`, as
distances from the day the order arrives: both on that day, both a day ahead of
the server, or processed before it was placed, as imported orders are. `readCohort`
does not clamp, so days may be as low as `-Ahead`, and are stored so. The payload
of `customer.state_changed` accepts no negative days (`Refused`): a transaction
that would tell a change with them throws. For a handler that is `RefuseHandled`,
a rollback that the outbox retries; for the decay sweep `RefusePage`, which ends
the pass. Where the band stays the same, or before the baseline, no event is
built and the days are stored.

Abstractions: dates are whole days; amounts, currencies, line items and consent
decide no band and are left out, so a score row is its days and whether it
carries quintiles. An order without `processed_at` is one with both dates equal,
which is what `COALESCE` makes of it. A customer handler that only updates consent or a name is
`CustomerHandled` too.

### Backfill and Onboarding

`Backfill` is `BackfillRunner.run` for one resource: the job row (`status`,
`cursor`), and per runner its place, the cursor it started from and the page it
holds. `Open`, `MarkStarted`, `FetchPage`, `CommitPage`, `CompleteRun`, `PauseRun`,
`FailRun` and `CrashRun` are its steps; runners overlap, since nothing locks the
job. The order and the customer backfill share the runner; the items here are
one resource's.

`Onboarding` extends it with a shop that installs, removes and reinstalls the
app. Shopify is the token it accepts (`valid`), the subscription and the
app/uninstalled webhooks on their way (`hooks`). The bootstrap is `Exchange`,
`CompleteInstall`, `StoreSession`, then the subscription of a first install;
`Claim`, `EnrichCall` and its outcomes and the `Backfill` steps are the handler of
`merchant.installed`, which the drainer marks before it invokes; `SweepSelect` to
`SweepFailed` the enrichment sweep. A call carries the token it was sent with
(`call`), so a 401 may be about a token that is no longer the shop's. Every
fetch of the runner is gated by such a call (`PageAnswered`), and every step of
the backfill in `Onboarding` is one of `Backfill`'s: that is the refinement
`OnboardingRefinesBackfill`, which carries the properties of the runner over.

Abstractions: of the webhook topics only app/uninstalled matters to the
merchant's row. The sweep's condition that the install is ten minutes old
is a delay, and a step may always be late.

### EventDelivery and Mailing

The two abstract specifications, each without a process in it: what a producer
of an event, and what a customer with a mailbox, may rely on.

### MC modules, proof modules

`MCOutbox`, `MCDispatch`, `MCDispatchQuota`, `MCAiGeneration`, `MCScoring` and `MCOnboarding` define
the instances and the statements that documentation or comments make and the
code does not keep. `OutboxProofs`, `DeliveryProofs`, `DispatchProofs`,
`LimitProofs`, `AiGenerationProofs`, `ScoringProofs` and `BackfillProofs` hold
theorems and proofs; `TenantScope` holds its own.

## Runs

Passing runs, with the reason their bounds suffice:

| Run | Instance | Shows |
|---|---|---|
| `outbox_mixed` | 2 drainers, 3 rows, batches of 2, 2 attempts, a crash, an aborted or expired transaction, 2 operator commands | claims, marks, attempts, exactly-once ingestion, surviving ticks, and the refinement of `EventDelivery`. One expired transaction is enough for its handler to complete at every point of the other replica's tick on the same row. Two drainers and a batch smaller than the table give every overlap of two claims; two operator commands include a park followed by a replay |
| `outbox_erase` | 2 drainers, 3 rows of one tenant, two requests to erase it, a crash, an operator command, no aborted tick | nothing survives an erasure while another drainer works and deliveries arrive; every claimable row settles. Three rows are one more than a batch, so the erasure can meet a row outside its own claim |
| `dispatch_race` | 1 draft, 2 workers, 2 jobs in the queue, 2 days, 2 failures, a crash, a lost lock, a pause or window flip | every property about one message, and the refinement of `Mailing`: two jobs and two workers already meet at every pair of steps |
| `dispatch_solo` | 2 drafts of one customer, 1 worker, 3 days, cooldown 2, expiry 1, a failure, a flip | the exact cooldown of a lone worker, across midnight, and that a claimed target gets decided |
| `dispatch_quota` | 5 drafts, 3 of one customer and 2 of another, 2 workers, daily cap 2, 1 email a day and customer, no cooldown | overshoot of the quota and of the frequency floor by at most workers - 1, each reached by two passes that read before either is recorded: the third draft of the first customer breaks the floor, and four sends break the quota |
| `ai_generate` | 1 event, 2 processes, an event delivered again after the one failure, 2 generations, 2 hours and months, a setting change or deletion, and one failure, expired tick, crash or lost lock, fairness | all safety properties of a generation, and that a queued one is decided. Two generations need the second hour, since the hour's cap and the month's ceiling are one each, so every boundary is met; the provider is throttled, blocks an answer, or accepts one, under a cap that one full call of `gpt-4.1` just fits; a lost lock or an expired tick alone already puts two workers on one generation and two handlers on one event |
| `scoring_race` | 1 customer with 1 order (of today, ahead of the clock, or processed a day before), 2 handlers at a time of 3 in all, both passes, 3 days, a rollback or crash, no forced baseline | agreement of score and band, echoes, the silent baseline, purchases. The properties relate the rows of one customer, and an overlap has two writers; the handlers are those of a paid and a refunded body and of the customer, in any order |
| `scoring_pages` | 2 customers, pages of one, 1 order of the second (of today or a day ahead), 1 handler in all, imports, deletes, a crash, fairness, a cohort that others keep large enough (`Threshold` 0) | days are negative by a day at most, the baseline is complete and bands settle, though a refused order ends passes until its date. Two pages are what a crash, a deletion and a late write can fall between; the first customer's account is younger than its first webhook by the shop's clock |
| `onboarding` | 2 installations, 2 events and runners, 3 customers on pages of one of which one is malformed, page limit 3, 1 failure or crash, fairness of the sweep | cursor and completed backfills claim nothing they lack; an installed shop is enriched. Two installations are what puts two runners on one job and an old token beside a new one |

Drainer, worker and handler symmetry is used in safety runs only, and in `dispatch_quota`
that of a customer's drafts, except for the draft an idle worker is written down with. `CHECK_DEADLOCK FALSE`:
a run's days, failures, rows and installations end, and the real system rests
when there is nothing to do.

Violation runs each check one statement of the repository against the model;
`PROJECT.json` quotes it under `findings`:

| Run | The statement that fails | In short |
|---|---|---|
| `outbox_gdpr` | GDPR bodies reach their handler verbatim | ingest wraps them, the handler's schema rejects them |
| `dispatch_suppressed` | a lost completion is the other path's doing | a duplicate job's gate resolves a target that is being sent |
| `ai_erased` | an erasure removes the name from AI texts | a handler that had read the name creates the generation after it |

### Observations

More places where code and comments part were met while modelling. Each is
visible in a module; none has a run of its own.

- `outbox.repository.ts:214` says the drainer claims a replayed row again.
  `requeueDeadLettered` clears `deadLetteredAt` and `attempts` only, and
  `markDeadLettered` accepts a processed row: such a row is never claimed again
  (`Replay` after `ForceDeadLetter` of a processed row).
- `dispatch.worker.ts:458` says an exhausted job is picked up by the next sweep.
  Its target is `pending`: the first arm of the sweep wants no target, the second
  a deferred one.
- `dispatch-sweep.ts:15-17` says a deferred target whose campaign is not active
  is resolved. The sweep visits merchants with an active email campaign, so when
  the paused one was the only one nothing is resolved or expired.
- `dispatch.worker.ts:26` says never to resend automatically. A timeout after SES
  took the email is mapped to a retryable error, the worker reverts the target
  and the retried job sends again (`SendLost`, `Revert`): what
  `ResentOnlyAfterLostAck` bounds.
- `drainer.ts:54-59` says a failed deferred handler leaves a marker on its row.
  The erasure of a shop deletes its own outbox row early, so a failure after
  that leaves a half-erased tenant and no marker (`DeferredFail`).
- `ai-generate.worker.ts:348` says minting leaves "No orphans". A code survives
  when the attempts run out after the mint, when a retry finds the generation
  stale, or when the customer is erased in between: `CompletedIsWhole` speaks of
  completed generations only.
- `customer-state-changed.ts` calls the ceiling a check of calls that could
  exceed the cap. It counts what completed, so everything queued before the
  first completion passes; the overshoot is limited by `HourlyCapHolds` alone.
- `worker.ts:78` says BullMQ retries a failed tick per its default policy.
  `outbox.drain` sets no attempts, and the next tick is enqueued at the end of
  a successful one only (`worker.ts:55`): the chain of that replica ends
  (`Abort`, the one thing `OnlyFailedTicksSilence` excepts). Each boot adds
  a tick beside those already queued (`index.ts:105`), so restarts multiply chains.
- `dispatch-sweep.ts:17` says a re-enqueued deferred target has its gates
  evaluated again. They are, but `startSending` wants a pending target and
  `deferTarget` left it deferred: it ends as `noop_not_pending`, which
  `dispatch.worker.ts:213-216` puts down to another worker, until it expires.
- A worker that lost its 60 s lock and then meets a retryable error reverts the
  target to pending, but the job it throws from is no longer its own: as after
  an exhausted job, no arm of the sweep finds the target.
- `gdpr-processor.ts:304` looks the customer up through the soft-delete filter,
  so the redaction of a customer that was deleted before finds nobody and its
  data stay.
- `POINTS-TO-CONSIDER.md:294` asks every handler to be ready for deliveries out of
  order. The upserts (`order.repository.ts:176`) take whatever body comes: a late
  paid body after a refund brings the order back until the next one
  (`OrderHandled` with any `v`).
- `order.ts:62-64` leaves an order without a customer to the next
  `customer.updated`. That webhook links no orders, so such an order stays
  outside the cohort (`OrphanHandled`).
- `handlers/customer.ts:28-30` says a soft delete takes a customer out of cohort
  reads. `readCohort` reads orders only, so a deleted buyer still counts (`Cohort`).
- `customer-score.service.ts:613-618` justifies leaving `lost` and
  `insufficient_data` out of the decay sweep by the order that moves them. Other
  customers than the buyer keep `insufficient_data` when the cohort grows past
  the threshold, and a stale page may write `lost` over a newer band, which then
  no sweep visits. `BandsSettle` speaks of the working set for that reason.
- `customer-score.repository.ts:94` does not clamp days since an order, as
  `lurkerRDays` does those of an account: one dated after the server's clock
  gives a negative number. It is stored (the score's column takes it) unless the
  customer's band changes on an initialized merchant: the event's schema
  (`events/customer-state-changed.ts:69`) rejects it, so the handler rolls back
  and is retried (`RefuseHandled`), and one such customer ends every decay pass
  at its page: the customers after it are not visited until the date has come
  (`RefusePage`).
- `worker.ts:12-39` reasons about a tick's job lock of 30 minutes. Phase 1 ends long
  before that, with the 5 s of its transaction: a batch of slow handlers loses
  all its marks and its tick, and every handler of it runs again (`Expire`).
- `handlers/customer.ts:70` locks the customer before the score, order handlers and
  sweeps the other way round; Postgres ends one of the two (`AbortHandled`,
  `AbortPass`).
- `auth.tsx:41-45` and `:218` leave failed webhook subscriptions to a reconciling
  job that does not exist, and only a first install subscribes: a shop that
  removed the app and came back is not subscribed again.
- `schema.prisma:239` says a revoked token pauses the merchant until it
  authorises again. `completeInstall` clears the mark, but `markTokenRevoked`
  (`token-resolver.ts:76`) does not ask which token was refused: a late 401 on the
  old one marks the shop again, and a late app/uninstalled does the same to
  `uninstalledAt`. `misled` is that history, and `EnrichedInTheEnd` excepts it.
- `handlers/merchant.ts:104` says the backfill resumes on re-authorisation. The
  event is marked before its handler runs and a job paused for want of a
  session is resumed by nothing but another install or an operator. An
  overlapping runner may move a completed job's status back, an empty page
  resets the cursor to null, and the page limit trips on a last page too.
- `CostTracker` (`cost-tracker.ts:58`) does not look again after it has waited, and
  each call builds a client, hence a tracker, of its own (`buildAdminClient`).
- `customer-state-changed.ts:289` turns the cap from cents into microcents by
  100 000. `cost-rates.ts:4` has 1 USD = 100 000 000 microcents, 1 000 000 to the
  cent, and `schema.prisma:310` a default cap of 50000, $500 a month: the
  cap acts at a tenth of what it says (`OverSpend`).
- `interface.ts:139-142` and `openai.ts:120` call network errors transient. In both
  SDKs the classes of a failed connection extend `APIError`, which the mappers
  test first; without a status it is an invalid request there, which is
  final (`RetriedErrors`).
- `cost-rates.ts:93-94` says an under-stated cost never trips the cap too late; it
  is an over-stated one that never does. With today's rates, whole numbers per
  token, nothing is truncated. The 500 input tokens of the estimate are an
  assumption about the prompts, which `EstimateBoundsCost` has as a hypothesis.
- A generation is called with its own `modelId`, but priced with the
  `AI_PROVIDER` and `AI_MODEL` of the moment it completes; the model has one of
  each for the whole run.
- `hooks.ts:133-134` leaves a `findUnique` as it is, since its tuple already includes
  the tenant. A lookup by `id` alone has none, and an `updateMany` or `deleteMany`
  without a `where` gets none: the callers choose the tuple and the filter. None
  of them leaves the `where` out, apart from test utilities.
- The index on pending generations is for a stale-pending scan
  (`schema.prisma:1157`) that does not exist: a generation whose job was never
  enqueued, or used its attempts, stays pending.

### Fairness

`Outbox!Fairness` is weak fairness of each drainer's own steps (`Drain`):
processes are restarted, a worker with a tick takes it, handlers return or
throw, those that outlive their transaction too. Ticks with an empty claim
(`IdleTick`), aborts, expired transactions, crashes, stalls and operators are not
fair. `Dispatch!FairSpec` has weak fairness of each worker's
own steps, of the sweep (a repeatable job) per message, of the passing days, and
strong fairness of taking some job of a message: queues are first in first out,
so a message's job is not passed over for ever. `AiGeneration!FairSpec` has weak
fairness of each process's handler and worker. `Scoring!FairSpec`: a handler's
transaction ends, the decay sweep starts every day and goes through its pages
(`decay-sweep.ts` is a repeatable job), days pass. `Onboarding!FairSpec`: the
enrichment sweep, which runs every 15 minutes, takes its steps; no webhook,
handler or runner is fair. Failures are never fair.

`QueuedIsDecided` holds with fewer mishaps than a job has attempts, since an
exhausted or twice stalled job leaves its generation pending (Observations).
`ClaimedIsDecided` holds only where the claim is early enough to expire before
the modelled days end, another campaign of the merchant is active, fewer
attempts fail than a job has (Observations), and no lock is lost: a lost lock
followed by a retryable error leaves a pending target and no job, like an
exhausted one. `BandsSettle` is about what holds from some time on, so it needs
that orders and webhooks end, as they do in an instance, and that the days reach
the last order's date: `Place` dates none after `MaxDay`.

### Mutants

An operator named `X_Y` is `X` with the mistake `Y`. No definition uses it;
`PROJECT.json` says which property notices when it replaces `X`: for instance
`CanStart_AnyStatus` (the compare-and-set forgets to ask for pending) breaks
`OneSender`, and `Emits_Always` (the baseline tells its states) breaks
`SilentUntilBaselined`.

## Proofs

Every theorem assumes the named assumptions of its modules and nothing else
(`OutboxAssumption`, `DispatchAssumption`, `AiGenerationAssumption`,
`ScoringAssumption`, `ScoringMathAssumption`, `BackfillAssumption`,
`OnboardingAssumption`): finite sets, naturals, and the orders between a few
numbers. They hold for any number of tenants, rows, drainers, messages, workers,
jobs, customers, orders, runners and pages, and for any bounds.

| Theorem | States | Argument |
|---|---|---|
| `OutboxProofs!TypeCorrect` | `TypeOK` | inductive as it stands |
| `OutboxProofs!ClaimsExclusive` | `ClaimsAreExclusive` | inductive with `TypeOK`: a claim takes unlocked claimable rows, everybody else asks `Unlocked` |
| `OutboxProofs!CeilingHolds` | `AttemptsCeiling` | `CeilingInv` adds the uncommitted marks of every drainer |
| `OutboxProofs!HandledAsPromised`, `ProcessedMeansHandled`, `DeferredHandledOnce` | `RedeliveryOnlyAfterRollback`, `ProcessedWasHandled`, `DeferredAtMostOnce` | `HistoryInv`: fresh rows have no runs (`FreshInv`), nor has an unmarked row that is marked before its handler is invoked (`UnrunInv`), marks follow runs (`MarkedInv`), a handler outlives its transaction for one ordinary row at a time (`LateInv`), a deferred row is in one memory and processed (`DeferredInv`). `PaidInv` counts for the first: a row's runs, with the late handlers that may still complete for it, are at most one more than the lost transactions and crashes, and no more than those while the row may still be dispatched and marked |
| `OutboxProofs!ErasureComplete` | `ErasedLeavesNothing` | `ErasedInv`: the merchant's delete cascades over what arrived between the chunks, and producers ask for a live tenant |
| `DeliveryProofs!DeliveriesIngestedOnce` | `IngestedExactlyOnce` | `IngestInv` counts the rows of a delivery; `AuditInv` says an erasure under way was audited first, so a row that is gone has its excuse |
| `DeliveryProofs!LiveDrainersServed` | `OnlyFailedTicksSilence` | `IdleServed` weakens the equation to "idle drainers are at most ticks and aborts", which is inductive by cardinalities |
| `DeliveryProofs!OutboxDelivers` | `DeliversEvents`: `Spec => Delivery!Spec` | each step maps to one abstract step, with `HistoryInv` and `ClaimsAreExclusive` for the rows a commit settles; the erasure maps chunk by chunk |
| `DispatchProofs!DispatchTypes` | `TypeOK` | inductive as it stands |
| `DispatchProofs!RowsAgree` | `TargetMessageAgree` | `AgreeInv` adds `BegunInv`: jobs and workers only have messages whose draft exists, so a claim never meets an absent one |
| `DispatchProofs!SendersAlone` | `OneSender` | `SenderInv`: the message of a sender is `Taken` (its target is sending, resolved under the send, or erased) and no two senders share one. Only a pending target starts, and only its sender frees a taken one |
| `DispatchProofs!NoResend` | `ResentOnlyAfterLostAck` | `ResendInv`: a target that waits, and a pass that is about to send or to give up, owes no acknowledgement; with `SenderInv` only the sender changes that |
| `DispatchProofs!ResolvedForGood` | `ResolvedStaysResolved` | every row write against a resolved target |
| `DispatchProofs!DispatchMails` | `MailsAsPromised`: `Spec => Mail!Spec` | each step maps to one abstract step or a stutter under `MailInv`: the invariants above, and `AckInv` (SES knows of every email, a completing worker has heard of its own) |
| `DispatchProofs!SendsAreCounted` | `SentIsCountedOnce` | a completion adds one message to a day and one to its bucket, and nothing else writes either (`OnlyCompletionCounts`) |
| `LimitProofs!QuotaKept`, `FrequencyKept` | `QuotaOvershootBounded`, `FrequencyOvershootBounded` | one lemma for both, `LimitStep`: the recorded sends of a day plus the passes that a gate has let through and that may still be recorded on it are at most the cap plus all workers but one. A gate that lets a pass through saw fewer records than the cap; a completion turns a pass into a record. `ClockInv` (nothing is recorded on a day to come) and `ErasedTogether` (the gate's count loses an erased customer's sends only with all of its messages) make what the gate reads the same as what is recorded |
| `LimitProofs!CooldownExact` | `CooldownKept` | `CooldownInv`: the pass of a lone worker stays clear of every recorded send to its customer, on the day it will be recorded |
| `AiGenerationProofs!GenerationTypes` | `TypeOK` | inductive as it stands |
| `AiGenerationProofs!GenerationsWhole` | `CompletedIsWhole` | `WholeInv`: a code is minted only where the row promises one (`MintedPromised`), a worker about to complete a promised generation has minted its code (`CompletersMinted`), and jobs, handlers and workers only hold generations that exist, so that a created row never changes the promise under them (`CreatedStays`) |
| `AiGenerationProofs!HourlyCapKept` | `HourlyCapHolds` | `HourInv`: the generations rated in an hour and the handlers past its counter are together at most its calls, and at most the cap |
| `AiGenerationProofs!DuplicatesArePaidFor` | `DuplicatesOnlyFromRedelivery` | `DeliveryInv`: generations of an event, handlers on their way to one, and the event itself where it is up for delivery are at most one more than its redeliveries |
| `AiGenerationProofs!LateGenerationsCounted` | `LateGenerationsBounded` | `LateInv`: rows and handlers about to create one are at most the handlers that had loaded the customer |
| `AiGenerationProofs!SpendCounted` | `SpendCountedOnce` | `SpendInv`: a month's spend is the sum over the generations paid in it (`SpentIsTotal`), a generation that is not completed has cost nothing (`NothingPaidYet`), and a completion finds it pending. The sum itself is the community modules' fold over a set: its recursive function is unfolded, and that the sum does not depend on the order is shown for a smallest set that would be a counterexample (`MinimalSubset`), so no induction theorem with an operator parameter is needed |
| `AiGenerationProofs!EstimateBoundsCost` | the ceiling's estimate covers the cost | for every provider, model and limit, a call of at most 500 input tokens that keeps to `AI_MAX_TOKENS`; both are hypotheses (Observations) |
| `AiGenerationProofs!RetriedErrors`, `AcceptedAnswers` | what is retried, and what is accepted | by cases over the providers: retried are responses of status 429 and 5xx and nothing else; an accepted answer has text and usage and no filter's mark |
| `TenantScope!ReadsStayInTenant`, `WritesStayInTenant` | no query in a tenant's scope returns, inserts, changes or deletes another tenant's row | the arguments that are not refused have the tenant's id in every row and in the filter. A lookup by `findUnique` is excluded from the first, a write that selects rows with no `where` from the second (Observations) |
| `ScoringProofs!ScoringTypes`, `WritersInvariant`, `ScoreStateTogether`, `NoEchoWithoutOverlap` | `TypeOK`, `WritersInv`, `ScoreAndStateAgree`, `EchoOnlyFromOverlap` | `WritersInv`: a reader whose customer was never written under another's read still holds its state (`ReadersSee`), every resolution that waits to be written is one a row could hold, and the last event told is the state (`LastTold`) |
| `ScoringProofs!SilentBaseline` | `SilentUntilBaselined` | `SilentInv`: before the flag no sweep runs and no handler has seen it |
| `ScoringProofs!CompleteBaseline` | `BaselineComplete` | `BaselineInv`: while nobody is deleted, everybody up to the cursor is scored, and whoever is beyond it and on no loaded page comes after a full page |
| `ScoringProofs!PurchasesCount` | `PurchaseCounts` | `PurchaseInv`: a handler's order belongs to its customer, and the resolution it waits to write is recent |
| `ScoringProofs!RankIsFifthsBelow` | what a quintile means, of which `RankIsShareBelow` has the small cohorts | the i-th smallest value exists (`OrderStatistic`: the least value with at least i members up to it), and a value is above it exactly if i members are below (`AboveTheCut`); the four cuts are then four multiples of a fifth |
| `BackfillProofs!BackfillInvariant`, `CursorIsSafe`, `CompletedIsComplete` | `BackfillInv`, `CursorCovers`, `CompletedCovers` | `BackfillInv` is about what each runner holds: it starts from a covered cursor, its page leaves no gap, the last page reaches what the store listed, and once committed leaves nothing out. A runner that lags behind may move the cursor back, but never onto a gap |
| `BackfillProofs!OnboardingRefinesBackfill`, `OnboardingTypes` | `Spec => BackfillSpec`, `TypeOK` | every step of `Onboarding` is a step of `Backfill` or leaves its variables alone, so the two theorems above hold of an onboarding shop |

Only model-checked:

- What must happen in the end: `EveryRowSettles`, `ClaimedIsDecided`,
  `QueuedIsDecided`, `BandsSettle`, `EnrichedInTheEnd`. The prover has no rule for
  fairness.

## Not modelled

- Of the tenant scope, the async-local storage itself, raw SQL, nested relations
  and the validation of settings. The other modules have the tenant of a row where
  the code relies on the scope; `TenantScope` is why they may.
- The cost tracker of the admin client: it delays the calls of one client, and a
  call may always be late. Its one promise, staying within Shopify's bucket, is
  about a bucket that is Shopify's and shared by clients that do not know of each
  other (Observations).
- Quiet hours: the conversion of a time of day in the customer's zone. `Dispatch`
  has its outcome, a window that opens and closes.
- The rollup tick: a stub (`rollup-tick.ts:2`) that selects merchants and writes
  nothing yet.
- Line items, amounts, currencies, consent and names in the upserts of orders and
  customers: no band depends on them. Orders keep their customer, their date and
  whether they count.
- Of a customer's redaction, the tables besides targets, messages and generations;
  of a shop's, those besides outbox rows, keys and the merchant. Each is one
  more delete of the same kind, in the same transaction or in chunks.
- Audit rows, apart from the one an erasure writes first: they are written and
  never read.
- HMAC, encryption, configuration, logging, HTTP routes, pages and probes: no
  protocol state. An ingest is what happens after the signature was accepted.
- Postgres, Redis, BullMQ, SES, Shopify and the AI providers, except for what
  the code is exposed to from them: locks, READ COMMITTED, stalls, retries,
  lost answers, refused tokens.

## What remains

- Segments, settings and the creation of campaigns in the web application,
  which write the rows `Dispatch` takes as given (window, active campaign).
- The composition in one state space of the event chain from a webhook to an
  email. Today the modules meet at the event: `Scoring` and
  `AiGeneration` take any delivery `EventDelivery` allows.
- A proof of the liveness properties, when the prover supports fairness.
