------------------------------ MODULE Dispatch ------------------------------
(***************************************************************************)
(* Campaign dispatch of one merchant: the scheduler's sweep enqueues a job *)
(* per dispatchable draft and per deferred target, drainer replicas claim  *)
(* the target, run the gate chain, and send through SES between a          *)
(* pending -> sending write and the completion transaction.  BullMQ        *)
(* retries a failed job and recovers a stalled one; customers opt out and  *)
(* are erased, campaigns pause and days pass meanwhile.                    *)
(*                                                                         *)
(* An operator named X_Y is X with the mistake Y: no other definition uses *)
(* it, and README.md says which property notices the mistake.              *)
(***************************************************************************)
EXTENDS Integers, FiniteSets, Functions

CONSTANTS
  Messages, Customers,
  Customer,      \* [Messages -> Customers]: whom a draft addresses
  NoAddress,     \* customers without an email address
  Workers,       \* dispatch workers, one per drainer process (concurrency 1)
  MaxTries,      \* DISPATCH_JOB_ATTEMPTS
  DailyCap, MonthlyCap,   \* MerchantSettings.dailySendCap, monthlySendsCap
  Cooldown,      \* defaultCooldownHours, in days
  MaxDaily,      \* maxDailySendsPerCustomer
  StaleDays,     \* MAX_DISPATCH_AGE_MS, in days
  OtherCampaign, \* the merchant has another active email campaign
  MaxDay, MaxJobs, MaxFaults, MaxCrashes, MaxLocks, MaxFlips   \* bounds of the instance

Days == 0..MaxDay

\* A BullMQ job: the attempt it is at and how often it was found stalled.
Job == [try : 1..MaxTries, stalls : 0..1]
NoJob == [try |-> 0, stalls |-> 0]

ASSUME DispatchAssumption ==
  /\ Customer \in [Messages -> Customers]
  /\ NoAddress \subseteq Customers
  /\ Messages # {} /\ IsFiniteSet(Messages)
  /\ Workers # {} /\ IsFiniteSet(Workers)
  /\ MaxTries \in Nat \ {0}
  /\ DailyCap \in Nat /\ MonthlyCap \in Nat /\ Cooldown \in Nat /\ MaxDaily \in Nat
  /\ StaleDays \in Nat /\ OtherCampaign \in BOOLEAN
  /\ MaxDay \in Nat /\ MaxJobs \in Nat /\ MaxFaults \in Nat /\ MaxCrashes \in Nat
  /\ MaxLocks \in Nat /\ MaxFlips \in Nat

VARIABLES
  active,      \* Campaign.status = 'active'
  open,        \* the merchant-local send window is open
  ineligible,  \* customers gates 1 to 3 stop: suppressed, unconsented, or bought since
  day,         \* the UTC day
  message,     \* Message.status; "absent" before its generation completed
  target,      \* CampaignTarget.status; "none" without a row
  claimedOn,   \* CampaignTarget.createdAt
  sentOn,      \* Message.sentAt, kept after the row is erased; -1 if never set
  bucket,      \* MessageQuotaBucket.sentCount per day
  jobs,        \* waiting jobs of a message in campaign.dispatch
  pc,          \* what a worker does next
  msg, job,    \* the message it works on and the job it holds
  now,         \* the day it read its clock on, before startSending
  accepted,    \* how often SES took an email for the message
  lost,        \* how often SES took it and the worker saw an error
  faults, crashes, locks, flips

settingVars == <<active, open, ineligible, day>>
rowVars == <<message, target, claimedOn, sentOn, bucket>>
workerVars == <<pc, msg, job, now>>
sesVars == <<accepted, lost>>
boundVars == <<faults, crashes, locks, flips>>
vars == <<settingVars, rowVars, jobs, workerVars, sesVars, boundVars>>

Claimed == {"pending", "deferred", "sending"}
Terminal == {"sent", "suppressed", "failed"}

----------------------------------------------------------------------------
(* The queue: campaign.dispatch *)

HeldJobs(m) == {w \in Workers : msg[w] = m /\ job[w] # NoJob}
InQueue(m) == SumFunction(jobs[m]) + Cardinality(HeldJobs(m))

Add(m, j) == [jobs EXCEPT ![m][j] = @ + 1]

\* addBulk without a jobId: nothing keeps a second job for the same message away.
Enqueue(m) ==
  /\ InQueue(m) < MaxJobs
  /\ jobs' = Add(m, [try |-> 1, stalls |-> 0])

\* The end of a pass: its locals are gone.
AnyMessage == CHOOSE m \in Messages : TRUE
FinishJob(w) ==
  /\ pc' = [pc EXCEPT ![w] = "idle"]
  /\ job' = [job EXCEPT ![w] = NoJob]
  /\ msg' = [msg EXCEPT ![w] = AnyMessage]
  /\ now' = [now EXCEPT ![w] = 0]
JobDone(w) == FinishJob(w) /\ UNCHANGED jobs

\* A job that throws is retried while it has attempts left; one whose lock the
\* worker lost is the queue's again.
JobThrows(w) ==
  /\ FinishJob(w)
  /\ jobs' = IF job[w] # NoJob /\ job[w].try < MaxTries
             THEN Add(msg[w], [job[w] EXCEPT !.try = @ + 1])
             ELSE jobs

\* A stalled job is moved back to waiting once; the second time it fails.
Recovered(w) ==
  IF job[w] # NoJob /\ job[w].stalls = 0
  THEN Add(msg[w], [job[w] EXCEPT !.stalls = 1])
  ELSE jobs

----------------------------------------------------------------------------
(* Drafts and the settings around them *)

\* The AI worker completes the generation: the draft has a body.
DraftReady(m) ==
  /\ message[m] = "absent"
  /\ message' = [message EXCEPT ![m] = "draft"]
  /\ UNCHANGED <<settingVars, target, claimedOn, sentOn, bucket, jobs, workerVars, sesVars,
                 boundVars>>

\* A suppression, a withdrawn consent or a new order.
OptOut(c) ==
  /\ c \notin ineligible
  /\ ineligible' = ineligible \cup {c}
  /\ UNCHANGED <<active, open, day, rowVars, jobs, workerVars, sesVars, boundVars>>

WindowFlip ==
  /\ flips < MaxFlips
  /\ flips' = flips + 1
  /\ open' = ~open
  /\ UNCHANGED <<active, ineligible, day, rowVars, jobs, workerVars, sesVars, faults, crashes, locks>>

CampaignFlip ==
  /\ flips < MaxFlips
  /\ flips' = flips + 1
  /\ active' = ~active
  /\ UNCHANGED <<open, ineligible, day, rowVars, jobs, workerVars, sesVars, faults, crashes, locks>>

NextDay ==
  /\ day < MaxDay
  /\ day' = day + 1
  /\ UNCHANGED <<active, open, ineligible, rowVars, jobs, workerVars, sesVars, boundVars>>

\* processCustomerRedact: the customer's targets and messages go in one transaction.
CustomerRedact(c) ==
  /\ \E m \in Messages : Customer[m] = c /\ message[m] # "erased"
  /\ message' = [m \in Messages |-> IF Customer[m] = c THEN "erased" ELSE message[m]]
  /\ target' = [m \in Messages |-> IF Customer[m] = c THEN "none" ELSE target[m]]
  /\ UNCHANGED <<settingVars, claimedOn, sentOn, bucket, jobs, workerVars, sesVars, boundVars>>

----------------------------------------------------------------------------
(* Row writes shared by the sweep and the workers *)

\* resolveTerminal: the target if it is unresolved, and then its draft.
ResolveTerminal_KeepDraft(m, status) ==
  /\ target[m] \in Claimed
  /\ target' = [target EXCEPT ![m] = status]
  /\ UNCHANGED <<message, claimedOn, sentOn, bucket>>
ResolveTerminal(m, status) ==
  /\ target[m] \in Claimed
  /\ target' = [target EXCEPT ![m] = status]
  /\ message' = [message EXCEPT ![m] = IF @ = "draft" THEN status ELSE @]
  /\ UNCHANGED <<claimedOn, sentOn, bucket>>

\* claimTarget: the unique messageId makes a second claim a no-op.
ClaimTarget_Upsert(m) ==
  /\ target' = [target EXCEPT ![m] = "pending"]
  /\ claimedOn' = [claimedOn EXCEPT ![m] = day]
ClaimTarget(m) ==
  IF target[m] = "none"
  THEN /\ target' = [target EXCEPT ![m] = "pending"]
       /\ claimedOn' = [claimedOn EXCEPT ![m] = day]
  ELSE UNCHANGED <<target, claimedOn>>

----------------------------------------------------------------------------
(* The sweep: runDispatchSweep, one item at a time *)

\* Only merchants with an active email campaign are swept.
Swept == active \/ OtherCampaign

\* Arm 1, findDispatchableDrafts.
SweepDraft(m) ==
  /\ active /\ message[m] = "draft" /\ target[m] = "none"
  /\ Enqueue(m)
  /\ UNCHANGED <<settingVars, rowVars, workerVars, sesVars, boundVars>>

Stale(m) == day - claimedOn[m] > StaleDays

\* Arm 2: a deferred target that is stale or whose campaign stopped is resolved.
SweepResolve_KeepStale(m) ==
  /\ Swept /\ target[m] = "deferred"
  /\ ~active
  /\ ResolveTerminal(m, "suppressed")
  /\ UNCHANGED <<settingVars, jobs, workerVars, sesVars, boundVars>>
SweepResolve(m) ==
  /\ Swept /\ target[m] = "deferred"
  /\ Stale(m) \/ ~active
  /\ ResolveTerminal(m, "suppressed")
  /\ UNCHANGED <<settingVars, jobs, workerVars, sesVars, boundVars>>

\* Arm 2: the other deferred targets get a job again.
SweepDeferred(m) ==
  /\ Swept /\ target[m] = "deferred"
  /\ ~Stale(m) /\ active
  /\ Enqueue(m)
  /\ UNCHANGED <<settingVars, rowVars, workerVars, sesVars, boundVars>>

----------------------------------------------------------------------------
(* The worker: processCampaignDispatchJob *)

At(w, step) == pc[w] = step
Goto(w, step) == pc' = [pc EXCEPT ![w] = step] /\ UNCHANGED <<msg, job, now>>

Take(w, m, j) ==
  /\ At(w, "idle") /\ jobs[m][j] > 0
  /\ jobs' = [jobs EXCEPT ![m][j] = @ - 1]
  /\ msg' = [msg EXCEPT ![w] = m]
  /\ job' = [job EXCEPT ![w] = j]
  /\ pc' = [pc EXCEPT ![w] = "claim"]
  /\ UNCHANGED <<settingVars, rowVars, now, sesVars, boundVars>>

\* Claim, then load the target and apply the replay guard: only an unresolved
\* target that nobody is sending goes on to the gates.
Replayed(status) == status \notin {"pending", "deferred"}

Claim(w) ==
  LET m == msg[w] IN
  /\ At(w, "claim") /\ message[m] # "erased"
  /\ ClaimTarget(m)
  /\ IF Replayed(target'[m]) THEN JobDone(w) ELSE Goto(w, "gates") /\ UNCHANGED jobs
  /\ UNCHANGED <<settingVars, message, sentOn, bucket, sesVars, boundVars>>

\* The row a claim refers to is gone: the foreign key fails and the job throws.
ClaimErased(w) ==
  /\ At(w, "claim") /\ message[msg[w]] = "erased"
  /\ JobThrows(w)
  /\ UNCHANGED <<settingVars, rowVars, sesVars, boundVars>>

\* Gate 4, countSentSince: sent within the cooldown, or the daily floor reached.
SentOn(c, d) == {m \in Messages : Customer[m] = c /\ message[m] = "sent" /\ sentOn[m] = d}
TooOften_EarlierDays(c) == \E d \in Days : d < day /\ day - d < Cooldown /\ SentOn(c, d) # {}
TooOften_DailyOnly(c) == Cardinality(SentOn(c, day)) >= MaxDaily
TooOften(c) ==
  \/ \E d \in Days : day - d < Cooldown /\ SentOn(c, d) # {}
  \/ Cardinality(SentOn(c, day)) >= MaxDaily

\* Gate 6, the pre-flight read of the quota buckets.
OverQuota_OffByOne == bucket[day] > DailyCap
OverQuota == bucket[day] >= DailyCap \/ SumFunction(bucket) >= MonthlyCap

\* runGateChain: terminal gates before transient ones.
Gated(c) == c \in ineligible \/ TooOften(c)
Deferrable(c) == ~open \/ OverQuota \/ c \in NoAddress

RunGates(w) ==
  LET c == Customer[msg[w]] IN
  /\ At(w, "gates")
  /\ \/ Gated(c) /\ Goto(w, "gated")
     \/ ~Gated(c) /\ Deferrable(c) /\ Goto(w, "defer")
     \/ ~Gated(c) /\ ~Deferrable(c) /\ Goto(w, "start")
  /\ UNCHANGED <<settingVars, rowVars, jobs, sesVars, boundVars>>

\* resolveTerminal at the end of a pass: a gate said no, or SES did.
Verdict_Swapped(step) == step
Verdict(step) ==
  CASE step \in {"gated", "bounced"} -> "suppressed"
    [] step = "rejected" -> "failed"

Resolve(w) ==
  /\ pc[w] \in {"gated", "bounced", "rejected"}
  /\ \/ ResolveTerminal(msg[w], Verdict(pc[w]))
     \/ target[msg[w]] \notin Claimed /\ UNCHANGED rowVars
  /\ JobDone(w)
  /\ UNCHANGED <<settingVars, sesVars, boundVars>>

\* deferTarget, from pending or deferred only.
DeferTarget(m) ==
  target' = [target EXCEPT ![m] = IF @ \in {"pending", "deferred"} THEN "deferred" ELSE @]

Defer(w) ==
  /\ At(w, "defer")
  /\ DeferTarget(msg[w])
  /\ JobDone(w)
  /\ UNCHANGED <<settingVars, message, claimedOn, sentOn, bucket, sesVars, boundVars>>

\* startSending: compare-and-set from pending, committed before the send.
CanStart_AnyStatus(m) == target[m] \in Claimed
CanStart(m) == target[m] = "pending"

StartSending(w) ==
  LET m == msg[w] IN
  /\ At(w, "start") /\ CanStart(m)
  /\ target' = [target EXCEPT ![m] = "sending"]
  /\ pc' = [pc EXCEPT ![w] = "send"]
  /\ now' = [now EXCEPT ![w] = day]
  /\ UNCHANGED <<settingVars, message, claimedOn, sentOn, bucket, jobs, msg, job, sesVars,
                 boundVars>>

StartMissed(w) ==
  /\ At(w, "start") /\ ~CanStart(msg[w])
  /\ JobDone(w)
  /\ UNCHANGED <<settingVars, rowVars, sesVars, boundVars>>

\* SES takes the email and its acknowledgement arrives.
SendOk(w) ==
  /\ At(w, "send")
  /\ accepted' = [accepted EXCEPT ![msg[w]] = @ + 1]
  /\ Goto(w, "complete")
  /\ UNCHANGED <<settingVars, rowVars, jobs, lost, boundVars>>

\* SES takes the email, but a timeout, a dropped connection or a 5xx maps to
\* the retryable email_transient.
SendLost(w) ==
  /\ At(w, "send") /\ faults < MaxFaults
  /\ faults' = faults + 1
  /\ accepted' = [accepted EXCEPT ![msg[w]] = @ + 1]
  /\ lost' = [lost EXCEPT ![msg[w]] = @ + 1]
  /\ Goto(w, "revert")
  /\ UNCHANGED <<settingVars, rowVars, jobs, crashes, locks, flips>>

\* A rate limit or another retryable error before SES took anything.
SendRetryable(w) ==
  /\ At(w, "send") /\ faults < MaxFaults
  /\ faults' = faults + 1
  /\ Goto(w, "revert")
  /\ UNCHANGED <<settingVars, rowVars, jobs, sesVars, crashes, locks, flips>>

\* A recipient on SES's suppression list, or another non-retryable error.
SendRefused(w) ==
  /\ At(w, "send")
  /\ Goto(w, "bounced") \/ Goto(w, "rejected")
  /\ UNCHANGED <<settingVars, rowVars, jobs, sesVars, boundVars>>

\* revertToPending, from sending only; then the error is thrown.
RevertToPending_AnyStatus(m) ==
  target' = [target EXCEPT ![m] = IF @ = "none" THEN @ ELSE "pending"]
RevertToPending(m) ==
  target' = [target EXCEPT ![m] = IF @ = "sending" THEN "pending" ELSE @]

Revert(w) ==
  /\ At(w, "revert")
  /\ RevertToPending(msg[w])
  /\ JobThrows(w)
  /\ UNCHANGED <<settingVars, message, claimedOn, sentOn, bucket, sesVars, boundVars>>

\* markSentWithQuota: target, message and bucket of the day the send began.
MarkSent_Uncounted(m, d) ==
  /\ target[m] = "sending" /\ message[m] = "draft"
  /\ target' = [target EXCEPT ![m] = "sent"]
  /\ message' = [message EXCEPT ![m] = "sent"]
  /\ sentOn' = [sentOn EXCEPT ![m] = d]
  /\ UNCHANGED bucket
MarkSent(m, d) ==
  /\ target[m] = "sending" /\ message[m] = "draft"
  /\ target' = [target EXCEPT ![m] = "sent"]
  /\ message' = [message EXCEPT ![m] = "sent"]
  /\ sentOn' = [sentOn EXCEPT ![m] = d]
  /\ bucket' = [bucket EXCEPT ![d] = @ + 1]

Complete(w) ==
  /\ At(w, "complete")
  /\ MarkSent(msg[w], now[w])
  /\ JobDone(w)
  /\ UNCHANGED <<settingVars, claimedOn, sesVars, boundVars>>

\* CAS_MISS: the transaction aborts, the job ends.
CompleteMissed(w) ==
  LET m == msg[w] IN
  /\ At(w, "complete")
  /\ ~(target[m] = "sending" /\ message[m] = "draft")
  /\ JobDone(w)
  /\ UNCHANGED <<settingVars, rowVars, sesVars, boundVars>>

CompleteExhausted_Reverts(w) ==
  /\ At(w, "complete") /\ faults < MaxFaults
  /\ faults' = faults + 1
  /\ RevertToPending(msg[w])
  /\ JobThrows(w)
  /\ UNCHANGED <<settingVars, message, claimedOn, sentOn, bucket, sesVars, crashes, locks, flips>>

\* COMPLETION_TX_RETRIES attempts failed: the job ends, the target stays sending.
CompleteExhausted(w) ==
  /\ At(w, "complete") /\ faults < MaxFaults
  /\ faults' = faults + 1
  /\ JobDone(w)
  /\ UNCHANGED <<settingVars, rowVars, sesVars, crashes, locks, flips>>

\* A database error anywhere else: nothing of the step is written, the job throws.
DbFails(w) ==
  /\ pc[w] \notin {"idle", "send", "complete"} /\ faults < MaxFaults
  /\ faults' = faults + 1
  /\ JobThrows(w)
  /\ UNCHANGED <<settingVars, rowVars, sesVars, crashes, locks, flips>>

\* The process dies.  SES may have taken the email of a send under way.
Crash(w) ==
  /\ pc[w] # "idle" /\ crashes < MaxCrashes
  /\ crashes' = crashes + 1
  /\ jobs' = Recovered(w)
  /\ FinishJob(w)
  /\ \/ UNCHANGED accepted
     \/ At(w, "send") /\ accepted' = [accepted EXCEPT ![msg[w]] = @ + 1]
  /\ UNCHANGED <<settingVars, rowVars, lost, faults, locks, flips>>

\* The worker loses its 60 s lock and goes on; another one may take the job.
LockLost(w) ==
  /\ pc[w] # "idle" /\ job[w] # NoJob /\ locks < MaxLocks
  /\ locks' = locks + 1
  /\ jobs' = Recovered(w)
  /\ job' = [job EXCEPT ![w] = NoJob]
  /\ UNCHANGED <<settingVars, rowVars, pc, msg, now, sesVars, faults, crashes, flips>>

----------------------------------------------------------------------------

Init ==
  /\ active = TRUE /\ open \in BOOLEAN /\ ineligible = {} /\ day = 0
  /\ message = [m \in Messages |-> "absent"]
  /\ target = [m \in Messages |-> "none"]
  /\ claimedOn = [m \in Messages |-> 0]
  /\ sentOn = [m \in Messages |-> -1]
  /\ bucket = [d \in Days |-> 0]
  /\ jobs = [m \in Messages |-> [j \in Job |-> 0]]
  /\ pc = [w \in Workers |-> "idle"]
  /\ msg = [w \in Workers |-> AnyMessage]
  /\ job = [w \in Workers |-> NoJob]
  /\ now = [w \in Workers |-> 0]
  /\ accepted = [m \in Messages |-> 0]
  /\ lost = [m \in Messages |-> 0]
  /\ faults = 0 /\ crashes = 0 /\ locks = 0 /\ flips = 0

\* What a worker does by itself.
Work(w) ==
  \/ \E m \in Messages, j \in Job : Take(w, m, j)
  \/ Claim(w) \/ ClaimErased(w) \/ RunGates(w)
  \/ Resolve(w) \/ Defer(w)
  \/ StartSending(w) \/ StartMissed(w)
  \/ SendOk(w) \/ SendRefused(w)
  \/ Revert(w) \/ Complete(w) \/ CompleteMissed(w)

Fails(w) ==
  SendLost(w) \/ SendRetryable(w) \/ CompleteExhausted(w) \/ DbFails(w) \/ Crash(w) \/ LockLost(w)

Sweep(m) == SweepDraft(m) \/ SweepResolve(m) \/ SweepDeferred(m)

Outside ==
  \/ \E m \in Messages : DraftReady(m)
  \/ \E c \in Customers : OptOut(c) \/ CustomerRedact(c)
  \/ WindowFlip \/ CampaignFlip \/ NextDay

Next ==
  \/ \E w \in Workers : Work(w) \/ Fails(w)
  \/ \E m \in Messages : Sweep(m)
  \/ Outside

Spec == Init /\ [][Next]_vars

\* Workers serve the queue and finish their jobs, the repeatable sweep runs,
\* and time passes; which waiting job a worker takes is up to the queue, which
\* is first in first out and so reaches every message.
FairSpec ==
  /\ Spec
  /\ \A w \in Workers : WF_vars(Work(w))
  /\ \A m \in Messages :
       /\ SF_vars(\E w \in Workers, j \in Job : Take(w, m, j))
       /\ WF_vars(Sweep(m))
  /\ WF_vars(NextDay)

----------------------------------------------------------------------------
(* Properties *)

\* A pass that may have reached SES, and has not written what came of it.
Sending == {"send", "complete", "revert", "bounced", "rejected"}
SendersOf(m) == {w \in Workers : pc[w] \in Sending /\ msg[w] = m}

SettingTypeOK ==
  active \in BOOLEAN /\ open \in BOOLEAN /\ ineligible \subseteq Customers /\ day \in Days
RowTypeOK ==
  /\ message \in [Messages -> {"absent", "draft", "erased"} \cup Terminal]
  /\ target \in [Messages -> {"none"} \cup Claimed \cup Terminal]
  /\ claimedOn \in [Messages -> Days]
  /\ sentOn \in [Messages -> Days \cup {-1}]
  /\ bucket \in [Days -> Nat]
WorkerTypeOK ==
  /\ pc \in [Workers -> {"idle", "claim", "gates", "gated", "defer", "start"} \cup Sending]
  /\ msg \in [Workers -> Messages]
  /\ job \in [Workers -> Job \cup {NoJob}]
  /\ now \in [Workers -> Days]
QueueTypeOK == jobs \in [Messages -> [Job -> Nat]]
CountTypeOK ==
  /\ accepted \in [Messages -> Nat] /\ lost \in [Messages -> Nat]
  /\ faults \in 0..MaxFaults /\ crashes \in 0..MaxCrashes
  /\ locks \in 0..MaxLocks /\ flips \in 0..MaxFlips

\* Type invariant of the settings, the rows, the queue and the workers.
TypeOK == SettingTypeOK /\ RowTypeOK /\ WorkerTypeOK /\ QueueTypeOK /\ CountTypeOK

\* campaign.repository.ts: "the two writes can never diverge".  A resolved
\* target carries the status of its message, an unresolved one has a draft,
\* whatever order replicas, sweep and erasure interleave in.
TargetMessageAgree ==
  \A m \in Messages :
    /\ target[m] \in Terminal => message[m] = target[m]
    /\ target[m] \in Claimed => message[m] = "draft"
    /\ message[m] \in Terminal => target[m] = message[m]

\* However many jobs, replicas and lost locks a message has, one pass at a time
\* is between startSending and the end of its send, and none once the target
\* went back to pending or was recorded sent.
OneSender ==
  \A m \in Messages :
    /\ Cardinality(SendersOf(m)) <= 1
    /\ target[m] \in {"pending", "deferred", "sent"} => SendersOf(m) = {}

\* A customer receives an email again only after SES took it and the worker
\* was told otherwise: not from duplicate jobs, stalled jobs, crashes, failed
\* completions or a deferral.
ResentOnlyAfterLostAck == \A m \in Messages : accepted[m] <= 1 + lost[m]

\* Each recorded send is counted once, on the day it began, and was a real one.
SentIsCountedOnce ==
  /\ \A d \in Days : bucket[d] = Cardinality({m \in Messages : sentOn[m] = d})
  /\ \A m \in Messages : sentOn[m] # -1 => accepted[m] > 0 /\ message[m] \in {"sent", "erased"}

\* The quota gate is a pre-flight read, and the day's count overshoots the cap
\* by less than the number of workers.
QuotaOvershootBounded == \A d \in Days : bucket[d] <= DailyCap + Cardinality(Workers) - 1

\* The frequency gate reads before the send is recorded, too: a customer's
\* recorded sends of a day exceed the floor by less than the number of workers.
FrequencyOvershootBounded ==
  \A c \in Customers, d \in Days :
    Cardinality({m \in Messages : Customer[m] = c /\ sentOn[m] = d})
      <= MaxDaily + Cardinality(Workers) - 1

\* With a single worker the frequency gate is exact: a customer's recorded
\* sends are at least the cooldown apart.
CooldownKept ==
  Cardinality(Workers) = 1 =>
    \A a, b \in Messages :
      a # b /\ Customer[a] = Customer[b] /\ sentOn[a] # -1 /\ sentOn[b] # -1
        => sentOn[a] - sentOn[b] >= Cooldown \/ sentOn[b] - sentOn[a] >= Cooldown

\* A target that stopped (resolved or erased) never becomes sendable again.
ResolvedStaysResolved ==
  [][\A m \in Messages :
       target[m] \in Terminal => target'[m] = target[m] \/ message'[m] = "erased"]_vars

\* A claimed target is decided: it does not wait for ever between the sweep
\* and the workers, as long as fewer attempts fail than a job has and no
\* worker loses the lock of a job it goes on with.  (Days end with the instance:
\* the claim is early enough to grow stale.)
ClaimedIsDecided ==
  \A m \in Messages :
    (target[m] \in {"pending", "deferred"} /\ claimedOn[m] + StaleDays < MaxDay)
      ~> target[m] \notin {"pending", "deferred"}

\* A message as the customer and the mail service see it.
Stage(row, claim) ==
  IF row = "erased" THEN "erased"
  ELSE CASE claim \in {"none", "pending", "deferred"} -> "waiting"
         [] claim = "sending" -> "taken"
         [] claim = "sent" -> "sent"
         [] claim \in {"suppressed", "failed"} -> "refused"
Sends == {m \in Messages : \E w \in Workers : At(w, "send") /\ msg[w] = m}

Mail == INSTANCE Mailing WITH
  stage <- [m \in Messages |-> Stage(message[m], target[m])],
  underway <- Sends,
  copies <- accepted,
  unheard <- lost

\* Dispatch mails: duplicate and stalled jobs, crashes, lost locks, retries, the
\* sweep and erasures only take the steps Mailing allows a message.
MailsAsPromised == Mail!Spec
=============================================================================
