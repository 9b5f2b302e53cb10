------------------------------- MODULE Outbox -------------------------------
(***************************************************************************)
(* The transactional outbox: producers insert rows (webhook ingestion,     *)
(* install, business transactions), drainer replicas claim them with FOR   *)
(* UPDATE SKIP LOCKED and run their handlers, operators park and requeue   *)
(* them, and the shop/redact handler erases a tenant together with its     *)
(* rows.  A row id is its createdAt rank.  Handlers commit on their own    *)
(* connection, outside the drainer's transaction, and may outlive it.      *)
(*                                                                         *)
(* An operator named X_Y is X with the mistake Y: no other definition uses *)
(* it, and README.md says which property notices the mistake.              *)
(***************************************************************************)
EXTENDS Integers, FiniteSets

CONSTANTS
  Merchants,    \* tenants: a reinstall after erasure is another tenant
  Sources,      \* what a row can stem from: a webhook delivery or a publish
  Webhooks,     \* the sources that are Shopify deliveries (one webhook id each)
  Kind,         \* [Sources -> Kinds]: how dispatchEvent routes the event
  Tenant,       \* [Sources -> Merchants]
  Drainers,     \* apps/drainer processes
  Failures,     \* error classes a handler may raise in this instance
  BatchSize,    \* claimBatch LIMIT
  MaxAttempts,  \* MAX_OUTBOX_ATTEMPTS
  MaxRows, MaxCrashes, MaxAborts, MaxOps   \* bounds of the instance

Kinds == {"normal", "gdpr", "installed", "shop_redacted", "unmapped"}
Classes == {"retryable", "permanent"}
RowIds == 1..MaxRows

ASSUME OutboxAssumption ==
  /\ Sources # {}
  /\ Webhooks \subseteq Sources
  /\ Kind \in [Sources -> Kinds]
  /\ Tenant \in [Sources -> Merchants]
  /\ Failures \subseteq Classes
  /\ BatchSize \in Nat \ {0}
  /\ MaxAttempts \in Nat \ {0}
  /\ MaxRows \in Nat /\ MaxCrashes \in Nat /\ MaxAborts \in Nat /\ MaxOps \in Nat
  /\ IsFiniteSet(Drainers)

VARIABLES
  merchant,        \* tenant row: absent, live, or erased
  redactAudit,     \* tenants with a gdpr.shop_redact AuditLog row
  keys,            \* IdempotencyKey rows, one per accepted delivery
  nextRow, source, \* insertion rank and origin of the rows
  table,           \* OutboxEvent rows that exist
  processed,       \* rows with processedAt set
  deadLettered,    \* rows with deadLetteredAt set
  deferredFailed,  \* rows with deferredFailedAt set
  attempts,        \* OutboxEvent.attempts
  ticks,           \* tick jobs waiting or delayed in outbox.drain
  pc,              \* what a drainer process is doing
  todo,            \* claimed rows a Phase 1 transaction has yet to dispatch
  okRows,          \* rows it has marked processed, uncommitted
  failedRows,      \* rows it has marked failed, uncommitted
  deadRows,        \* rows it has dead-lettered, uncommitted
  deferred,        \* rows a drainer holds in memory for Phase 2
  redact,          \* progress of processShopRedact inside Phase 2
  late,            \* the row whose handler goes on after its transaction expired
  handled,         \* completed handler runs of a row
  crashes, aborts, ops

tenantVars == <<merchant, redactAudit, keys>>
rowVars == <<nextRow, source, table, processed, deadLettered, deferredFailed, attempts>>
tx == <<todo, okRows, failedRows, deadRows>>
drainVars == <<ticks, pc, tx, deferred, redact, late>>
boundVars == <<crashes, aborts, ops>>
vars == <<tenantVars, rowVars, drainVars, handled, boundVars>>

----------------------------------------------------------------------------
(* Rows *)

\* Batches and deferred rows are worked through in createdAt order.
IsFirst(i, S) == i \in S /\ \A j \in S : i <= j

KindOf(i) == Kind[source[i]]
TenantOf(i) == Tenant[source[i]]
RowsOf(m) == {i \in table : TenantOf(i) = m}

Claimable_Processed == table \ deadLettered
Claimable == table \ (processed \cup deadLettered)

\* Row locks of a Phase 1 transaction are held until it commits or rolls back.
LockedBy(d) == todo[d] \cup okRows[d] \cup failedRows[d] \cup deadRows[d]
Locked == UNION {LockedBy(d) : d \in Drainers}

\* An UPDATE or DELETE of a row waits for its lock.
Unlocked(S) == S \cap Locked = {}

\* ORDER BY "createdAt" LIMIT n FOR UPDATE SKIP LOCKED.
ClaimBatch_NoSkipLocked ==
  {i \in Claimable : Cardinality({j \in Claimable : j < i}) < BatchSize}
ClaimBatch ==
  LET free == Claimable \ Locked
  IN  {i \in free : Cardinality({j \in free : j < i}) < BatchSize}

MarkBeforeInvoke(i) == KindOf(i) \in {"installed", "shop_redacted"}

\* A webhook row carries {topic, webhookId, body}; only the order and customer
\* schemas unwrap it, the GDPR schemas read the body's fields at top level.
Parses(i) == source[i] \in Webhooks => KindOf(i) = "normal"

InsertRow_SameRank(s) ==
  /\ nextRow <= MaxRows
  /\ source' = [source EXCEPT ![nextRow] = s]
  /\ table' = table \cup {nextRow}
  /\ UNCHANGED <<nextRow, processed, deadLettered, deferredFailed, attempts>>
InsertRow(s) ==
  /\ nextRow <= MaxRows
  /\ source' = [source EXCEPT ![nextRow] = s]
  /\ table' = table \cup {nextRow}
  /\ nextRow' = nextRow + 1
  /\ UNCHANGED <<processed, deadLettered, deferredFailed, attempts>>

DeleteRows_Settled(S) ==
  /\ table' = table \ (S \cap (processed \cup deadLettered))
  /\ processed' = processed \ S
  /\ deadLettered' = deadLettered \ S
  /\ deferredFailed' = deferredFailed \ S
  /\ UNCHANGED <<nextRow, source, attempts>>
DeleteRows(S) ==
  /\ table' = table \ S
  /\ processed' = processed \ S
  /\ deadLettered' = deadLettered \ S
  /\ deferredFailed' = deferredFailed \ S
  /\ UNCHANGED <<nextRow, source, attempts>>

----------------------------------------------------------------------------
(* Producers *)

Unpublished(s) == \A i \in 1..(nextRow - 1) : source[i] # s

\* completeInstall: the tenant's rows and its merchant.installed event commit together.
Install(s) ==
  /\ s \notin Webhooks /\ Kind[s] = "installed" /\ Unpublished(s)
  /\ merchant[Tenant[s]] # "erased"
  /\ merchant' = [merchant EXCEPT ![Tenant[s]] = "live"]
  /\ InsertRow(s)
  /\ UNCHANGED <<redactAudit, keys, drainVars, handled, boundVars>>

\* UnitOfWorkContext.publish / publishStandalone: an event written by the
\* program itself, in the shape its handler documents.
Publish(s) ==
  /\ s \notin Webhooks /\ Kind[s] \notin {"installed", "unmapped"} /\ Unpublished(s)
  /\ merchant[Tenant[s]] = "live"
  /\ InsertRow(s)
  /\ UNCHANGED <<tenantVars, drainVars, handled, boundVars>>

\* The unique key on (merchantId, source, externalKey).
FirstDelivery_Unchecked(w) == TRUE
FirstDelivery(w) == w \notin keys

\* ingestWebhook: idempotency key, log and outbox row in one transaction.  A
\* duplicate (P2002) and a delivery for an unknown shop are acknowledged
\* without writing either, so a redelivery is a step that changes nothing.
Ingest(w) ==
  /\ merchant[Tenant[w]] = "live"
  /\ FirstDelivery(w)
  /\ keys' = keys \cup {w}
  /\ \/ /\ Kind[w] # "unmapped"
        /\ InsertRow(w)
     \/ /\ Kind[w] = "unmapped"
        /\ UNCHANGED rowVars
  /\ UNCHANGED <<merchant, redactAudit, drainVars, handled, boundVars>>

----------------------------------------------------------------------------
(* Drainer, Phase 1: one transaction over the claimed batch *)

StartTick(d) ==
  /\ pc[d] = "idle" /\ ticks > 0
  /\ ClaimBatch # {}
  /\ ticks' = ticks - 1
  /\ pc' = [pc EXCEPT ![d] = "phase1"]
  /\ todo' = [todo EXCEPT ![d] = ClaimBatch]
  /\ UNCHANGED <<tenantVars, rowVars, okRows, failedRows, deadRows, deferred, redact, late, handled,
                 boundVars>>

\* The marks of a transaction, visible to others at its commit.
MarkProcessed_Lost(d, i) == UNCHANGED <<okRows, failedRows, deadRows>>
MarkProcessed(d, i) ==
  /\ okRows' = [okRows EXCEPT ![d] = @ \cup {i}]
  /\ UNCHANGED <<failedRows, deadRows>>

MarkFailed_AsProcessed(d, i) == MarkProcessed(d, i)
MarkFailed(d, i) ==
  /\ failedRows' = [failedRows EXCEPT ![d] = @ \cup {i}]
  /\ UNCHANGED <<okRows, deadRows>>

MarkDeadLettered(d, i) ==
  /\ deadRows' = [deadRows EXCEPT ![d] = @ \cup {i}]
  /\ UNCHANGED <<okRows, failedRows>>

\* An empty claim commits at once and re-enqueues the tick with the idle delay.
IdleTick(d) ==
  /\ pc[d] = "idle" /\ ticks > 0
  /\ ClaimBatch = {}
  /\ UNCHANGED vars

\* MARK_BEFORE_INVOKE_EVENTS: mark now, run the handler after the commit.
DeferRow(d, i) ==
  /\ IsFirst(i, todo[d])
  /\ MarkBeforeInvoke(i)
  /\ todo' = [todo EXCEPT ![d] = @ \ {i}]
  /\ MarkProcessed(d, i)
  /\ deferred' = [deferred EXCEPT ![d] = @ \cup {i}]
  /\ UNCHANGED <<tenantVars, rowVars, ticks, pc, redact, late, handled, boundVars>>

DispatchOk(d, i) ==
  /\ IsFirst(i, todo[d])
  /\ ~MarkBeforeInvoke(i)
  /\ Parses(i)
  /\ handled' = [handled EXCEPT ![i] = @ + 1]
  /\ todo' = [todo EXCEPT ![d] = @ \ {i}]
  /\ MarkProcessed(d, i)
  /\ UNCHANGED <<tenantVars, rowVars, ticks, pc, deferred, redact, late, boundVars>>

\* isRetryable: an AppError says so itself, anything else (a ZodError too) is retryable.
MayRaise(i, class) == IF Parses(i) THEN class \in Failures ELSE class = "retryable"

GivesUp_OffByOne(i, class) == class = "permanent" \/ attempts[i] >= MaxAttempts
GivesUp(i, class) == class = "permanent" \/ attempts[i] + 1 >= MaxAttempts

DispatchFail(d, i, class) ==
  /\ IsFirst(i, todo[d])
  /\ ~MarkBeforeInvoke(i)
  /\ MayRaise(i, class)
  /\ todo' = [todo EXCEPT ![d] = @ \ {i}]
  /\ \/ GivesUp(i, class) /\ MarkDeadLettered(d, i)
     \/ ~GivesUp(i, class) /\ MarkFailed(d, i)
  /\ UNCHANGED <<tenantVars, rowVars, ticks, pc, deferred, redact, late, handled, boundVars>>

\* Commit and rollback alike release the locks.
CloseTx(d) ==
  /\ todo' = [todo EXCEPT ![d] = {}]
  /\ okRows' = [okRows EXCEPT ![d] = {}]
  /\ failedRows' = [failedRows EXCEPT ![d] = {}]
  /\ deadRows' = [deadRows EXCEPT ![d] = {}]

\* The job ends and enqueueNextTick adds its successor.
EndTick_NoSuccessor(d) == pc' = [pc EXCEPT ![d] = "idle"] /\ UNCHANGED ticks
EndTick(d) ==
  /\ pc' = [pc EXCEPT ![d] = "idle"]
  /\ ticks' = ticks + 1

Commit(d) ==
  /\ pc[d] = "phase1" /\ todo[d] = {}
  /\ processed' = processed \cup okRows[d]
  /\ deadLettered' = deadLettered \cup deadRows[d]
  /\ attempts' = [i \in RowIds |->
                    IF i \in failedRows[d] \cup deadRows[d] THEN attempts[i] + 1 ELSE attempts[i]]
  /\ CloseTx(d)
  /\ \/ deferred[d] = {} /\ EndTick(d)
     \/ deferred[d] # {} /\ pc' = [pc EXCEPT ![d] = "phase2"] /\ UNCHANGED ticks
  /\ UNCHANGED <<tenantVars, nextRow, source, table, deferredFailed, deferred, redact,
                 late, handled, boundVars>>

Abort_RunsDeferred(d) ==
  /\ pc[d] = "phase1" /\ aborts < MaxAborts
  /\ aborts' = aborts + 1
  /\ CloseTx(d)
  /\ pc' = [pc EXCEPT ![d] = IF deferred[d] = {} THEN "idle" ELSE "phase2"]
  /\ UNCHANGED <<tenantVars, rowVars, ticks, deferred, redact, late, handled, crashes, ops>>

\* The tick's transaction ends without its marks, and the tick job will fail:
\* it has no successor, and the rows it deferred are dropped.
LoseTx(d, then) ==
  /\ pc[d] = "phase1" /\ aborts < MaxAborts
  /\ aborts' = aborts + 1
  /\ CloseTx(d)
  /\ deferred' = [deferred EXCEPT ![d] = {}]
  /\ pc' = [pc EXCEPT ![d] = then]
  /\ UNCHANGED <<tenantVars, rowVars, ticks, redact, handled, crashes, ops>>

\* A mark or the commit fails, between two handlers.
Abort(d) == LoseTx(d, "idle") /\ UNCHANGED late

\* The transaction has no timeout of its own and ends after Prisma's 5 s: the
\* locks are gone, and the awaited handler goes on.
Expire(d, i) ==
  /\ IsFirst(i, todo[d]) /\ ~MarkBeforeInvoke(i)
  /\ LoseTx(d, "late")
  /\ late' = [late EXCEPT ![d] = {i}]

\* It completes, whatever has become of its row since, or throws; either way the
\* next mark meets the closed transaction and the tick rejects.
EndLate(d) ==
  /\ pc' = [pc EXCEPT ![d] = "idle"]
  /\ late' = [late EXCEPT ![d] = {}]
  /\ UNCHANGED <<tenantVars, rowVars, ticks, tx, deferred, redact, boundVars>>
LateOk(d, i) ==
  /\ Parses(i)
  /\ handled' = [handled EXCEPT ![i] = @ + 1]
  /\ EndLate(d)
LateFail(d, i) ==
  /\ ~Parses(i) \/ Failures # {} \/ i \notin table
  /\ EndLate(d)
  /\ UNCHANGED handled

----------------------------------------------------------------------------
(* Drainer, Phase 2: deferred handlers, outside any drainer transaction *)

InPhase2(d, i, kind, step) ==
  /\ pc[d] = "phase2" /\ IsFirst(i, deferred[d])
  /\ KindOf(i) = kind
  /\ redact[d] = step

FinishDeferred(d, i) ==
  /\ deferred' = [deferred EXCEPT ![d] = @ \ {i}]
  /\ redact' = [redact EXCEPT ![d] = "none"]
  /\ IF deferred[d] = {i} THEN EndTick(d) ELSE UNCHANGED <<pc, ticks>>

\* merchant.installed: enrichment and customer backfill for an existing tenant.
InstalledOk(d, i) ==
  /\ InPhase2(d, i, "installed", "none")
  /\ merchant[TenantOf(i)] = "live"
  /\ handled' = [handled EXCEPT ![i] = @ + 1]
  /\ FinishDeferred(d, i)
  /\ UNCHANGED <<tenantVars, rowVars, tx, late, boundVars>>

\* A deferred handler throws; the marker is a separate transaction whose own
\* failure (the row may be gone) is swallowed.
DeferredFail(d, i) ==
  /\ pc[d] = "phase2" /\ IsFirst(i, deferred[d])
  /\ \/ ~Parses(i)
     \/ Failures # {}
     \/ KindOf(i) = "installed" /\ merchant[TenantOf(i)] # "live"
     \/ redact[d] = "merchant" /\ merchant[TenantOf(i)] # "live"
  /\ deferredFailed' = deferredFailed \cup ({i} \cap table)
  /\ FinishDeferred(d, i)
  /\ UNCHANGED <<tenantVars, nextRow, source, table, processed, deadLettered, attempts,
                 tx, late, handled, boundVars>>

\* processShopRedact for a shop with no merchant row: tombstone audit only.
RedactIdempotent(d, i) ==
  /\ InPhase2(d, i, "shop_redacted", "none") /\ Parses(i)
  /\ merchant[TenantOf(i)] # "live"
  /\ handled' = [handled EXCEPT ![i] = @ + 1]
  /\ FinishDeferred(d, i)
  /\ UNCHANGED <<tenantVars, rowVars, tx, late, boundVars>>

RedactStart(d, i) ==
  /\ InPhase2(d, i, "shop_redacted", "none") /\ Parses(i)
  /\ merchant[TenantOf(i)] = "live"
  /\ redactAudit' = redactAudit \cup {TenantOf(i)}
  /\ redact' = [redact EXCEPT ![d] = "rows"]
  /\ UNCHANGED <<merchant, keys, rowVars, ticks, pc, tx, deferred, late, handled, boundVars>>

RedactRows(d, i) ==
  LET m == TenantOf(i) IN
  /\ InPhase2(d, i, "shop_redacted", "rows")
  /\ Unlocked(RowsOf(m))
  /\ DeleteRows(RowsOf(m))
  /\ redact' = [redact EXCEPT ![d] = "keys"]
  /\ UNCHANGED <<tenantVars, ticks, pc, tx, deferred, late, handled, boundVars>>

KeysOf(m) == {w \in keys : Tenant[w] = m}

RedactKeys(d, i) ==
  /\ InPhase2(d, i, "shop_redacted", "keys")
  /\ keys' = keys \ KeysOf(TenantOf(i))
  /\ redact' = [redact EXCEPT ![d] = "merchant"]
  /\ UNCHANGED <<merchant, redactAudit, rowVars, ticks, pc, tx, deferred, late, handled, boundVars>>

\* Merchant delete: the foreign keys cascade over what the chunks missed.
RedactMerchant(d, i) ==
  LET m == TenantOf(i) IN
  /\ InPhase2(d, i, "shop_redacted", "merchant")
  /\ merchant[m] = "live"
  /\ Unlocked(RowsOf(m))
  /\ merchant' = [merchant EXCEPT ![m] = "erased"]
  /\ keys' = keys \ KeysOf(m)
  /\ DeleteRows(RowsOf(m))
  /\ handled' = [handled EXCEPT ![i] = @ + 1]
  /\ FinishDeferred(d, i)
  /\ UNCHANGED <<redactAudit, tx, late, boundVars>>

----------------------------------------------------------------------------
(* Processes and operators *)

\* main(): every boot adds an initial tick, whatever the queue already holds.
Boot(d) ==
  /\ pc[d] = "down"
  /\ pc' = [pc EXCEPT ![d] = "idle"]
  /\ ticks' = ticks + 1
  /\ UNCHANGED <<tenantVars, rowVars, tx, deferred, redact, late, handled, boundVars>>

\* An active job of a dead process is recovered as stalled, or failed for good.
Crash(d) ==
  /\ pc[d] # "down" /\ crashes < MaxCrashes
  /\ crashes' = crashes + 1
  /\ CloseTx(d)
  /\ deferred' = [deferred EXCEPT ![d] = {}]
  /\ redact' = [redact EXCEPT ![d] = "none"]
  /\ late' = [late EXCEPT ![d] = {}]
  /\ pc' = [pc EXCEPT ![d] = "down"]
  /\ \/ UNCHANGED ticks
     \/ pc[d] # "idle" /\ ticks' = ticks + 1
  /\ UNCHANGED <<tenantVars, rowVars, handled, aborts, ops>>

\* A Phase 2 that outlives the 30 minute lock: the job is re-queued while the
\* first run goes on.
StalledTick(d) ==
  /\ pc[d] = "phase2" /\ crashes < MaxCrashes
  /\ crashes' = crashes + 1
  /\ ticks' = ticks + 1
  /\ UNCHANGED <<tenantVars, rowVars, pc, tx, deferred, redact, late, handled, aborts, ops>>

\* cli:outbox:replay.
Replay(i) ==
  /\ ops < MaxOps
  /\ i \in table /\ Unlocked({i})
  /\ i \in deadLettered
  /\ deadLettered' = deadLettered \ {i}
  /\ attempts' = [attempts EXCEPT ![i] = 0]
  /\ ops' = ops + 1
  /\ UNCHANGED <<tenantVars, nextRow, source, table, processed, deferredFailed, drainVars,
                 handled, crashes, aborts>>

\* cli:outbox:dead-letter; the guard is deadLetteredAt IS NULL, nothing else.
ForceDeadLetter(i) ==
  /\ ops < MaxOps
  /\ i \in table /\ Unlocked({i})
  /\ i \notin deadLettered
  /\ deadLettered' = deadLettered \cup {i}
  /\ attempts' = [attempts EXCEPT ![i] = @ + 1]
  /\ ops' = ops + 1
  /\ UNCHANGED <<tenantVars, nextRow, source, table, processed, deferredFailed, drainVars,
                 handled, crashes, aborts>>

----------------------------------------------------------------------------

Init ==
  /\ merchant = [m \in Merchants |-> "absent"]
  /\ redactAudit = {}
  /\ keys = {}
  /\ nextRow = 1
  /\ source = [i \in RowIds |-> CHOOSE s \in Sources : TRUE]
  /\ table = {} /\ processed = {} /\ deadLettered = {} /\ deferredFailed = {}
  /\ attempts = [i \in RowIds |-> 0]
  /\ ticks = 0
  /\ pc = [d \in Drainers |-> "down"]
  /\ todo = [d \in Drainers |-> {}]
  /\ okRows = [d \in Drainers |-> {}]
  /\ failedRows = [d \in Drainers |-> {}]
  /\ deadRows = [d \in Drainers |-> {}]
  /\ deferred = [d \in Drainers |-> {}]
  /\ redact = [d \in Drainers |-> "none"]
  /\ late = [d \in Drainers |-> {}]
  /\ handled = [i \in RowIds |-> 0]
  /\ crashes = 0 /\ aborts = 0 /\ ops = 0

\* What a live process does by itself; failures and operators are not in it.
Drain(d) ==
  \/ Boot(d) \/ StartTick(d)
  \/ \E i \in todo[d] :
       DeferRow(d, i) \/ DispatchOk(d, i) \/ \E class \in Classes : DispatchFail(d, i, class)
  \/ Commit(d)
  \/ \E i \in late[d] : LateOk(d, i) \/ LateFail(d, i)
  \/ \E i \in deferred[d] :
       \/ InstalledOk(d, i) \/ DeferredFail(d, i) \/ RedactIdempotent(d, i)
       \/ RedactStart(d, i) \/ RedactRows(d, i) \/ RedactKeys(d, i) \/ RedactMerchant(d, i)

Next ==
  \/ \E s \in Sources : Install(s) \/ Publish(s)
  \/ \E w \in Webhooks : Ingest(w)
  \/ \E d \in Drainers : 
       \/ Drain(d) \/ IdleTick(d) \/ Abort(d) \/ Crash(d) \/ StalledTick(d)
       \/ \E i \in todo[d] : Expire(d, i)
  \/ \E i \in RowIds : Replay(i) \/ ForceDeadLetter(i)

Spec == Init /\ [][Next]_vars

\* A process restarts and keeps taking steps; handlers return or throw.
Fairness == \A d \in Drainers : WF_vars(Drain(d))
FairSpec == Spec /\ Fairness

----------------------------------------------------------------------------
(* Properties *)

TenantTypeOK ==
  /\ merchant \in [Merchants -> {"absent", "live", "erased"}]
  /\ redactAudit \subseteq Merchants
  /\ keys \subseteq Webhooks

RowTypeOK ==
  /\ nextRow \in 1..(MaxRows + 1)
  /\ source \in [RowIds -> Sources]
  /\ table \subseteq 1..(nextRow - 1)
  /\ processed \subseteq RowIds /\ deadLettered \subseteq RowIds /\ deferredFailed \subseteq RowIds
  /\ attempts \in [RowIds -> Nat]
  /\ handled \in [RowIds -> Nat]

DrainTypeOK ==
  /\ ticks \in Nat
  /\ pc \in [Drainers -> {"down", "idle", "phase1", "late", "phase2"}]
  /\ todo \in [Drainers -> SUBSET RowIds] /\ okRows \in [Drainers -> SUBSET RowIds]
  /\ failedRows \in [Drainers -> SUBSET RowIds] /\ deadRows \in [Drainers -> SUBSET RowIds]
  /\ deferred \in [Drainers -> SUBSET RowIds]
  /\ redact \in [Drainers -> {"none", "rows", "keys", "merchant"}]
  /\ late \in [Drainers -> SUBSET RowIds]

BoundTypeOK == crashes \in 0..MaxCrashes /\ aborts \in 0..MaxAborts /\ ops \in 0..MaxOps

\* Type invariant of the outbox tables and of the drainer processes.
TypeOK == TenantTypeOK /\ RowTypeOK /\ DrainTypeOK /\ BoundTypeOK

\* No row is in the batch of two drainers, and nobody (another drainer, the
\* CLI, a tenant erasure) settles or removes a row while a batch holds it.  This
\* speaks of row locks: a handler may still run on a row it no longer holds.
ClaimsAreExclusive ==
  /\ \A d, e \in Drainers : d # e => LockedBy(d) \cap LockedBy(e) = {}
  /\ Locked \subseteq Claimable

\* An event is only marked processed once its handler has completed, except
\* those deliberately marked before their handler is invoked.
ProcessedWasHandled ==
  \A i \in processed : ~MarkBeforeInvoke(i) => handled[i] >= 1

\* Every completed run of a handler beyond the first is paid for by a tick
\* transaction that was lost (failed, expired or crashed), also where the run
\* outlives its transaction and completes after another replica has settled the
\* row: replicas and operators alone never cause one.
RedeliveryOnlyAfterRollback ==
  \A i \in RowIds : handled[i] <= 1 + crashes + aborts

\* merchant.installed and gdpr.shop_redacted are at most once, whatever
\* crashes, stalls and operator replays happen.
DeferredAtMostOnce ==
  \A i \in 1..(nextRow - 1) : MarkBeforeInvoke(i) => handled[i] <= 1

\* The attempts ceiling: a row that may be claimed has an attempt left, and a
\* parked row has used at least one and at most all of them.
AttemptsCeiling ==
  \A i \in table :
    IF i \in deadLettered THEN attempts[i] \in 1..MaxAttempts ELSE attempts[i] < MaxAttempts

\* For a tenant that is not being erased, an accepted delivery has exactly one
\* row for its event and an unaccepted one has none.
IngestedExactlyOnce ==
  \A w \in Webhooks :
    Tenant[w] \notin redactAudit =>
      Cardinality({i \in table : source[i] = w}) =
        (IF w \in keys /\ Kind[w] # "unmapped" THEN 1 ELSE 0)

\* Once a tenant is erased nothing of it is left: no row, no idempotency key,
\* and no drainer transaction working on its events (a late handler may).
ErasedLeavesNothing ==
  \A m \in Merchants : merchant[m] = "erased" =>
    /\ RowsOf(m) = {} /\ KeysOf(m) = {}
    /\ \A i \in Locked : TenantOf(i) # m

Active(d) == pc[d] \in {"phase1", "phase2"}

\* A live drainer polls: only a tick job that failed takes a tick chain away.
OnlyFailedTicksSilence ==
  Cardinality({d \in Drainers : pc[d] # "down"})
    <= ticks + Cardinality({d \in Drainers : Active(d)}) + aborts

\* Every claimable row is eventually processed, parked or erased, whatever
\* crashes, provided no tick job fails (see OnlyFailedTicksSilence).
EveryRowSettles ==
  \A i \in RowIds : i \in Claimable ~> i \notin Claimable

\* Rows, marks and handler runs as the events a producer thinks of.
Delivery == INSTANCE EventDelivery WITH
  Ids <- RowIds,
  published <- 1..(nextRow - 1),
  once <- {i \in 1..(nextRow - 1) : MarkBeforeInvoke(i)},
  kept <- table,
  done <- processed,
  parked <- deadLettered,
  runs <- handled,
  Runners <- Drainers,
  slow <- late

\* The outbox delivers: with any replicas, crashes, rollbacks, stalls, erasures
\* and operator commands between them, every step is one EventDelivery allows.
DeliversEvents == Delivery!Spec
=============================================================================
