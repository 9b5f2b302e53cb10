--------------------------- MODULE DeliveryProofs ---------------------------
(***************************************************************************)
(* The outbox implements EventDelivery, for every value of its constants.  *)
(* Each step is mapped with what OutboxProofs shows of the state before    *)
(* it: types, exclusive claims, and the history of marks and runs.         *)
(***************************************************************************)
EXTENDS OutboxProofs

\* What the abstract state is a function of.
Mapped == <<nextRow, source, table, processed, deadLettered, handled, late>>

LEMMA MappedStutter ==
  ASSUME UNCHANGED Mapped
  PROVE  UNCHANGED Delivery!vars
BY DEF Mapped, Delivery!vars, Delivery!events, MarkBeforeInvoke, KindOf

\* An insertion publishes the next id.
LEMMA InsertPublishes ==
  ASSUME TypeOK, NEW s \in Sources, InsertRow(s), UNCHANGED <<handled, late>>
  PROVE  Delivery!Next
<1>1. /\ nextRow \in RowIds /\ nextRow' = nextRow + 1
      /\ table' = table \cup {nextRow} /\ UNCHANGED <<processed, deadLettered>>
      /\ nextRow \notin 1..(nextRow - 1)
      /\ 1..(nextRow' - 1) = 1..(nextRow - 1) \cup {nextRow}
  BY OutboxAssumption DEF TypeOK, RowTypeOK, RowIds, InsertRow
<1> DEFINE Deferring(i, from) == Kind[from[i]] \in {"installed", "shop_redacted"}
           Ids(top, from) == {i \in 1..top : Deferring(i, from)}
<1>2. \A i \in 1..(nextRow - 1) : Deferring(i, source') <=> Deferring(i, source)
  BY OutboxAssumption DEF TypeOK, RowTypeOK, RowIds, InsertRow
<1>3. /\ Deferring(nextRow, source') =>
           Ids(nextRow' - 1, source') = Ids(nextRow - 1, source) \cup {nextRow}
      /\ ~Deferring(nextRow, source') => Ids(nextRow' - 1, source') = Ids(nextRow - 1, source)
  <2> HIDE DEF Deferring
  <2> QED
    BY <1>1, <1>2
<1> HIDE DEF Deferring
<1>4. \E single \in BOOLEAN : Delivery!Publish(nextRow, single)
  <2>1. CASE Deferring(nextRow, source')
    BY <1>1, <1>3, <2>1 DEF Delivery!Publish, MarkBeforeInvoke, KindOf, Deferring
  <2>2. CASE ~Deferring(nextRow, source')
    BY <1>1, <1>3, <2>2 DEF Delivery!Publish, MarkBeforeInvoke, KindOf, Deferring
  <2> QED
    BY <2>1, <2>2
<1> QED
  BY <1>1, <1>4 DEF Delivery!Next

\* A handler of a claimed row: the row is claimable, and its kind is ordinary.
LEMMA DispatchRuns ==
  ASSUME TypeOK, ClaimsAreExclusive, NEW d \in Drainers, NEW i \in todo[d], DispatchOk(d, i)
  PROVE  Delivery!Next
<1>1. i \in Claimable /\ i \in RowIds /\ ~MarkBeforeInvoke(i)
  BY DrainerRows DEF ClaimsAreExclusive, Locked, LockedBy, DispatchOk
<1>2. handled' = [handled EXCEPT ![i] = @ + 1] /\ UNCHANGED <<rowVars, late>>
  BY DEF DispatchOk
<1>3. Delivery!Run(i)
  BY <1>1, <1>2 DEF Delivery!Run, Delivery!events, Delivery!Ran, Delivery!Open, Claimable, rowVars,
     MarkBeforeInvoke, KindOf
<1> QED
  BY <1>1, <1>3 DEF Delivery!Next

\* The commit settles the batch: rows marked processed have run, or will run
\* once it has committed.
LEMMA CommitSettles ==
  ASSUME TypeOK, ClaimsAreExclusive, HistoryInv, NEW d \in Drainers, Commit(d)
  PROVE  Delivery!Next
<1>1. okRows[d] \subseteq Claimable /\ deadRows[d] \subseteq Claimable /\ Claimable \subseteq RowIds
  BY DrainerRows DEF ClaimsAreExclusive, Locked, LockedBy
<1>2. /\ processed' = processed \cup okRows[d] /\ deadLettered' = deadLettered \cup deadRows[d]
      /\ UNCHANGED <<nextRow, source, table, handled, late>>
  BY DEF Commit
<1>3. \A i \in okRows[d] : ~MarkBeforeInvoke(i) => handled[i] >= 1
  BY DEF HistoryInv, MarkedInv
<1>4. \A i \in okRows[d] : i \in 1..(nextRow - 1) /\ handled[i] \in Nat
  BY <1>1 DEF Claimable, TypeOK, RowTypeOK
<1>5. Delivery!Settle(okRows[d], deadRows[d])
  BY <1>1, <1>2, <1>3, <1>4
  DEF Delivery!Settle, Delivery!Open, Claimable, MarkBeforeInvoke, KindOf
<1> QED
  BY <1>1, <1>5 DEF Delivery!Next

\* A deferred row runs for the first time, and its mark has committed or its
\* row is gone.
LEMMA DeferredIsRunnable ==
  ASSUME TypeOK, HistoryInv, NEW d \in Drainers, NEW i \in deferred[d], pc[d] = "phase2"
  PROVE  Delivery!RunnableOnce(i) /\ i \in RowIds
BY DrainerRows DEF HistoryInv, DeferredInv, Delivery!RunnableOnce

LEMMA DeferredRuns ==
  ASSUME TypeOK, HistoryInv, NEW d \in Drainers, NEW i \in deferred[d],
         InstalledOk(d, i) \/ RedactIdempotent(d, i)
  PROVE  Delivery!Next
<1>1. Delivery!RunnableOnce(i) /\ i \in RowIds
  BY DeferredIsRunnable DEF InstalledOk, RedactIdempotent, InPhase2
<1>2. handled' = [handled EXCEPT ![i] = @ + 1] /\ UNCHANGED <<rowVars, late>>
  BY DEF InstalledOk, RedactIdempotent
<1>3. Delivery!RunOnce(i)
  BY <1>1, <1>2 DEF Delivery!RunOnce, Delivery!events, Delivery!Ran, rowVars, MarkBeforeInvoke, KindOf
<1> QED
  BY <1>1, <1>3 DEF Delivery!Next

\* The two steps of an erasure that delete rows.
LEMMA RedactErases ==
  ASSUME TypeOK, HistoryInv, NEW d \in Drainers, NEW i \in deferred[d],
         RedactRows(d, i) \/ RedactMerchant(d, i)
  PROVE  Delivery!Next
<1> DEFINE S == RowsOf(TenantOf(i))
<1>1. S \subseteq RowIds
  <2>1. table \subseteq RowIds
    BY OutboxAssumption DEF TypeOK, RowTypeOK, RowIds
  <2> QED
    BY <2>1 DEF RowsOf
<1>2. DeleteRows(S) /\ UNCHANGED late
  BY DEF RedactRows, RedactMerchant
<1> HIDE DEF S
<1>3. Delivery!Remove(S)
  BY <1>2 DEF DeleteRows, Delivery!Remove, MarkBeforeInvoke, KindOf
<1>4. CASE RedactRows(d, i)
  <2>1. Delivery!Erase(S)
    BY <1>3, <1>4 DEF RedactRows, Delivery!Erase
  <2> QED
    BY <1>1, <2>1 DEF Delivery!Next
<1>5. CASE RedactMerchant(d, i)
  <2>1. Delivery!RunnableOnce(i) /\ i \in RowIds
    BY <1>5, DeferredIsRunnable DEF RedactMerchant, InPhase2
  <2>2. Delivery!EraseBy(S, i)
    BY <1>3, <1>5, <2>1 DEF RedactMerchant, Delivery!EraseBy, Delivery!Ran
  <2> QED
    BY <1>1, <2>1, <2>2 DEF Delivery!Next
<1> QED
  BY <1>4, <1>5

\* The operators' commands.
LEMMA OperatorSteps ==
  ASSUME NEW i \in RowIds, Replay(i) \/ ForceDeadLetter(i)
  PROVE  Delivery!Next
<1>1. UNCHANGED <<nextRow, source, table, processed, handled, late>>
  BY DEF Replay, ForceDeadLetter, drainVars
<1>2. Replay(i) => Delivery!Requeue(i)
  BY <1>1 DEF Replay, Delivery!Requeue, MarkBeforeInvoke, KindOf
<1>3. ForceDeadLetter(i) => Delivery!Park(i)
  BY <1>1 DEF ForceDeadLetter, Delivery!Park, MarkBeforeInvoke, KindOf
<1> QED
  BY <1>2, <1>3 DEF Delivery!Next

\* Every other step is invisible to a producer.
LEMMA OtherStepsAreInvisible ==
  ASSUME NEW d \in Drainers,
         \/ Boot(d) \/ StartTick(d) \/ IdleTick(d) \/ Abort(d) \/ StalledTick(d)
         \/ \E i \in todo[d] : DeferRow(d, i) \/ \E class \in Classes : DispatchFail(d, i, class)
         \/ \E i \in deferred[d] : DeferredFail(d, i) \/ RedactStart(d, i) \/ RedactKeys(d, i)
  PROVE  UNCHANGED Mapped
BY DEF Boot, StartTick, IdleTick, Abort, LoseTx, StalledTick, DeferRow, DispatchFail, DeferredFail,
       RedactStart, RedactKeys, Mapped, rowVars, drainVars, vars

\* A transaction that expires leaves a run behind that may end at any time.
LEMMA ExpiryBeginsSlow ==
  ASSUME TypeOK, ClaimsAreExclusive, HistoryInv, LateInv,
         NEW d \in Drainers, NEW i \in todo[d], Expire(d, i)
  PROVE  Delivery!Next
<1>1. i \in Claimable /\ i \in RowIds /\ ~MarkBeforeInvoke(i)
  BY DrainerRows DEF ClaimsAreExclusive, Locked, LockedBy, Expire
<1>2. late[d] = {}
  BY DEF Expire, LoseTx, LateInv
<1>3. late' = [late EXCEPT ![d] = {i}] /\ UNCHANGED <<rowVars, handled>>
  BY DEF Expire, LoseTx
<1>4. Delivery!BeginSlow(d, i)
  BY <1>1, <1>2, <1>3 DEF Delivery!BeginSlow, Delivery!Open, Delivery!events, Claimable, rowVars,
     MarkBeforeInvoke, KindOf
<1> QED
  BY <1>1, <1>4 DEF Delivery!Next

\* It ends with the handler, or with the process.
LEMMA LateEndsSlow ==
  ASSUME TypeOK, NEW d \in Drainers, NEW i \in late[d], LateOk(d, i) \/ LateFail(d, i) \/ Crash(d)
  PROVE  Delivery!Next
<1>1. i \in RowIds
  BY DEF TypeOK, DrainTypeOK
<1>2. /\ late' = [late EXCEPT ![d] = {}] /\ UNCHANGED rowVars
      /\ UNCHANGED handled \/ handled' = [handled EXCEPT ![i] = @ + 1]
  BY DEF LateOk, LateFail, EndLate, Crash
<1>3. Delivery!EndSlow(d, i)
  BY <1>2 DEF Delivery!EndSlow, Delivery!Ran, Delivery!events, rowVars, MarkBeforeInvoke, KindOf
<1> QED
  BY <1>1, <1>3 DEF Delivery!Next

LEMMA CrashIsInvisible ==
  ASSUME TypeOK, NEW d \in Drainers, Crash(d), late[d] = {}
  PROVE  UNCHANGED Mapped
<1>1. late' = late
  BY DEF Crash, TypeOK, DrainTypeOK
<1> QED
  BY <1>1 DEF Crash, Mapped, rowVars

LEMMA DeliveryStep ==
  ASSUME TypeOK, ClaimsAreExclusive, HistoryInv, LateInv, [Next]_vars
  PROVE  Delivery!Next \/ UNCHANGED Delivery!vars
<1>1. ASSUME NEW s \in Sources, Install(s) \/ Publish(s) \/ Ingest(s)
      PROVE  Delivery!Next \/ UNCHANGED Delivery!vars
  <2>1. UNCHANGED <<handled, late>> /\ (InsertRow(s) \/ UNCHANGED rowVars)
    BY <1>1 DEF Install, Publish, Ingest, drainVars
  <2> QED
    BY <2>1, InsertPublishes, MappedStutter DEF Mapped, rowVars
<1>2. ASSUME NEW d \in Drainers, Drain(d) \/ IdleTick(d) \/ Abort(d) \/ StalledTick(d)
      PROVE  Delivery!Next \/ UNCHANGED Delivery!vars
  BY <1>2, DispatchRuns, CommitSettles, DeferredRuns, RedactErases, LateEndsSlow,
     OtherStepsAreInvisible, MappedStutter DEF Drain
<1>3. ASSUME NEW d \in Drainers, NEW i \in todo[d], Expire(d, i) PROVE Delivery!Next
  BY <1>3, ExpiryBeginsSlow
<1>4. ASSUME NEW d \in Drainers, Crash(d) PROVE Delivery!Next \/ UNCHANGED Delivery!vars
  <2>1. CASE late[d] = {}
    BY <1>4, <2>1, CrashIsInvisible, MappedStutter
  <2>2. CASE late[d] # {}
    <3>1. PICK i \in late[d] : TRUE
      BY <2>2
    <3> QED
      BY <1>4, <3>1, LateEndsSlow
  <2> QED
    BY <2>1, <2>2
<1>5. CASE UNCHANGED vars
  BY <1>5, MappedStutter DEF vars, rowVars, drainVars, Mapped
<1> QED
  BY <1>1, <1>2, <1>3, <1>4, <1>5, OperatorSteps, OutboxAssumption DEF Next

\* The outbox implements the delivery of events a producer relies on: any
\* number of replicas, batches, crashes, rollbacks, expired transactions with
\* their handlers still running, stalled ticks, erasures and operator commands
\* amount to publishing, running, settling, parking, requeueing and erasing
\* single events.
THEOREM OutboxDelivers == Spec => DeliversEvents
<1>1. Init => Delivery!Init
  BY DEF Init, Delivery!Init
<1>2. TypeOK /\ ClaimsAreExclusive /\ HistoryInv /\ LateInv /\ [Next]_vars => [Delivery!Next]_(Delivery!vars)
  BY DeliveryStep
<1> QED
  BY <1>1, <1>2, TypeCorrect, ClaimsExclusive, HistoryInvariant, PTL
  DEF Spec, DeliversEvents, Delivery!Spec

----------------------------------------------------------------------------
(* Deliveries *)

RowsFrom(w) == {i \in table : source[i] = w}
HasRow(w) == w \in keys /\ Kind[w] # "unmapped"

\* An erasure under way has been audited first.
AuditInv ==
  \A d \in Drainers : redact[d] # "none" =>
    /\ pc[d] = "phase2"
    /\ \A i \in deferred[d] : IsFirst(i, deferred[d]) => TenantOf(i) \in redactAudit

IngestInv ==
  \A w \in Webhooks : Tenant[w] \notin redactAudit =>
    IF HasRow(w) THEN \E i \in RowIds : RowsFrom(w) = {i} ELSE RowsFrom(w) = {}

\* What the steps that move an erasure along, or the queue of deferred rows, do.
LEMMA AuditStep ==
  ASSUME TypeOK, HistoryInv, LateInv, AuditInv, [Next]_vars
  PROVE  AuditInv'
<1> USE DEF AuditInv
<1>t. /\ redact \in [Drainers -> {"none", "rows", "keys", "merchant"}]
      /\ pc \in [Drainers -> {"down", "idle", "phase1", "late", "phase2"}]
      /\ deferred \in [Drainers -> SUBSET RowIds]
  BY DEF TypeOK, DrainTypeOK
<1>k. \A d \in Drainers : \A i \in deferred[d] : TenantOf(i)' = TenantOf(i)
  BY SourceIsStable DEF HistoryInv, DeferredInv, TenantOf
<1>0. ASSUME UNCHANGED <<redact, pc, deferred>>, redactAudit \subseteq redactAudit'
      PROVE  AuditInv'
  BY <1>0, <1>k
<1>1. ASSUME NEW d \in Drainers, redact'[d] = "none", redactAudit' = redactAudit,
             \A e \in Drainers : e # d => redact'[e] = redact[e] /\ pc'[e] = pc[e] /\ deferred'[e] = deferred[e]
      PROVE  AuditInv'
  BY <1>1, <1>k
<1>2. ASSUME NEW s \in Sources, Install(s) \/ Publish(s) \/ Ingest(s) PROVE AuditInv'
  BY <1>2, <1>0 DEF Install, Publish, Ingest, drainVars, tenantVars
<1>3. ASSUME NEW d \in Drainers,
             \/ Boot(d) \/ StartTick(d) \/ Abort(d)
             \/ \E i \in todo[d] : \/ DeferRow(d, i) \/ DispatchOk(d, i) \/ Expire(d, i)
                                   \/ \E class \in Classes : DispatchFail(d, i, class)
             \/ Commit(d) \/ \E i \in late[d] : LateOk(d, i) \/ LateFail(d, i)
      PROVE  AuditInv'
  <2>1. redact[d] = "none"
    <3>1. pc[d] # "phase2"
      BY <1>3 DEF Boot, StartTick, Abort, LoseTx, Commit, HistoryInv, MarkedInv, LateInv
    <3> QED
      BY <3>1
  <2>2. /\ redact' = redact /\ redactAudit' = redactAudit
        /\ \A e \in Drainers : e # d => pc'[e] = pc[e] /\ deferred'[e] = deferred[e]
    BY <1>3, <1>t DEF Boot, StartTick, Abort, Expire, LoseTx, Commit, EndTick, DeferRow, DispatchOk,
       DispatchFail, LateOk, LateFail, EndLate, tenantVars
  <2> QED
    BY <1>1, <2>1, <2>2
<1>4. ASSUME NEW d \in Drainers, NEW i \in deferred[d],
             InstalledOk(d, i) \/ DeferredFail(d, i) \/ RedactIdempotent(d, i) \/ RedactMerchant(d, i)
      PROVE  AuditInv'
  <2>1. FinishDeferred(d, i) /\ redactAudit' = redactAudit
    BY <1>4 DEF InstalledOk, DeferredFail, RedactIdempotent, RedactMerchant, tenantVars
  <2>2. /\ redact'[d] = "none"
        /\ \A e \in Drainers : e # d => redact'[e] = redact[e] /\ pc'[e] = pc[e] /\ deferred'[e] = deferred[e]
    BY <1>t, <2>1 DEF FinishDeferred, EndTick
  <2> QED
    BY <1>1, <2>1, <2>2
<1>5. ASSUME NEW d \in Drainers, NEW i \in deferred[d], RedactStart(d, i) PROVE AuditInv'
  <2>1. /\ pc[d] = "phase2" /\ IsFirst(i, deferred[d])
        /\ redactAudit' = redactAudit \cup {TenantOf(i)}
        /\ redact' = [redact EXCEPT ![d] = "rows"] /\ UNCHANGED <<pc, deferred>>
    BY <1>5 DEF RedactStart, InPhase2
  <2>2. \A j \in deferred[d] : IsFirst(j, deferred[d]) => j = i
    BY <1>t, <2>1 DEF IsFirst, RowIds
  <2> QED
    BY <1>t, <1>k, <2>1, <2>2
<1>6. ASSUME NEW d \in Drainers, NEW i \in deferred[d], RedactRows(d, i) \/ RedactKeys(d, i) PROVE AuditInv'
  <2>1. /\ redact[d] # "none" /\ \E step \in {"keys", "merchant"} : redact' = [redact EXCEPT ![d] = step]
        /\ UNCHANGED <<pc, deferred, redactAudit>>
    BY <1>6 DEF RedactRows, RedactKeys, InPhase2, tenantVars
  <2> QED
    BY <1>t, <1>k, <2>1
<1>7. ASSUME NEW d \in Drainers, Crash(d) PROVE AuditInv'
  <2>1. /\ redact' = [redact EXCEPT ![d] = "none"] /\ redactAudit' = redactAudit
        /\ pc' = [pc EXCEPT ![d] = "down"] /\ deferred' = [deferred EXCEPT ![d] = {}]
    BY <1>7 DEF Crash, tenantVars
  <2> QED
    BY <1>t, <1>1, <2>1
<1>8. ASSUME NEW d \in Drainers, IdleTick(d) \/ StalledTick(d) \/ UNCHANGED vars PROVE AuditInv'
  BY <1>8, <1>0 DEF IdleTick, StalledTick, vars, drainVars, tenantVars
<1>9. ASSUME NEW i \in RowIds, Replay(i) \/ ForceDeadLetter(i) PROVE AuditInv'
  BY <1>9, <1>0 DEF Replay, ForceDeadLetter, drainVars, tenantVars
<1>10. CASE UNCHANGED vars
  BY <1>10, <1>0 DEF vars, drainVars, tenantVars
<1> QED
  BY <1>2, <1>3, <1>4, <1>5, <1>6, <1>7, <1>8, <1>9, <1>10, OutboxAssumption DEF Next, Drain

LEMMA AuditInvariant == Spec => []AuditInv
<1>1. Init => AuditInv
  BY DEF Init, AuditInv
<1> QED
  BY <1>1, AuditStep, TypeCorrect, HistoryInvariant, PTL DEF Spec

\* An erasure only takes rows and keys of a tenant that has been audited.
LEMMA ErasureIsAudited ==
  ASSUME TypeOK, AuditInv, NEW d \in Drainers, NEW i \in deferred[d],
         RedactRows(d, i) \/ RedactKeys(d, i) \/ RedactMerchant(d, i)
  PROVE  /\ TenantOf(i) \in redactAudit /\ redactAudit' = redactAudit /\ source' = source
         /\ table' = table \/ table' = table \ RowsOf(TenantOf(i))
         /\ keys' = keys \/ keys' = keys \ KeysOf(TenantOf(i))
BY DEF AuditInv, RedactRows, RedactKeys, RedactMerchant, InPhase2, DeleteRows, tenantVars, rowVars

\* An insertion adds one row to its source and none to any other.
LEMMA InsertAddsOne ==
  ASSUME TypeOK, NEW s, InsertRow(s), NEW w
  PROVE  RowsFrom(w)' = IF w = s THEN RowsFrom(w) \cup {nextRow} ELSE RowsFrom(w)
<1>1. /\ table' = table \cup {nextRow} /\ nextRow \notin table /\ nextRow \in RowIds
      /\ source' = [source EXCEPT ![nextRow] = s]
      /\ source \in [RowIds -> Sources] /\ table \subseteq RowIds
  BY OutboxAssumption DEF InsertRow, TypeOK, RowTypeOK, RowIds
<1>2. source'[nextRow] = s /\ \A i \in table : source'[i] = source[i]
  BY <1>1
<1>3. {i \in table' : source'[i] = w} = IF w = s THEN RowsFrom(w) \cup {nextRow} ELSE RowsFrom(w)
  <2>1. CASE w = s
    BY <1>1, <1>2, <2>1 DEF RowsFrom
  <2>2. CASE w # s
    BY <1>1, <1>2, <2>2 DEF RowsFrom
  <2> QED
    BY <2>1, <2>2
<1> QED
  BY <1>3 DEF RowsFrom

LEMMA IngestStep ==
  ASSUME TypeOK, AuditInv, IngestInv, [Next]_vars
  PROVE  IngestInv'
<1>0. ASSUME UNCHANGED <<source, table, keys>>, redactAudit \subseteq redactAudit' PROVE IngestInv'
  BY <1>0 DEF IngestInv, RowsFrom, HasRow
<1>1. ASSUME NEW s \in Sources, Install(s) \/ Publish(s) PROVE IngestInv'
  <2>1. InsertRow(s) /\ s \notin Webhooks /\ UNCHANGED <<keys, redactAudit>>
    BY <1>1 DEF Install, Publish, tenantVars
  <2>2. \A w \in Webhooks : RowsFrom(w)' = RowsFrom(w)
    BY <2>1, InsertAddsOne
  <2>3. ASSUME NEW w \in Webhooks, Tenant[w] \notin redactAudit'
        PROVE  IF HasRow(w)' THEN \E i \in RowIds : RowsFrom(w)' = {i} ELSE RowsFrom(w)' = {}
    <3>1. HasRow(w)' <=> HasRow(w)
      BY <2>1 DEF HasRow
    <3>2. RowsFrom(w)' = RowsFrom(w)
      BY <2>2
    <3> QED
      BY <2>1, <2>3, <3>1, <3>2 DEF IngestInv
  <2> QED
    BY <2>3 DEF IngestInv
<1>2. ASSUME NEW s \in Webhooks, Ingest(s) PROVE IngestInv'
  <2>1. /\ s \notin keys /\ keys' = keys \cup {s} /\ redactAudit' = redactAudit
        /\ IF Kind[s] # "unmapped" THEN InsertRow(s) ELSE UNCHANGED rowVars
    BY <1>2 DEF Ingest, FirstDelivery
  <2>2. nextRow \in RowIds \/ Kind[s] = "unmapped"
    BY <2>1, OutboxAssumption DEF InsertRow, TypeOK, RowTypeOK, RowIds
  <2>3. ASSUME NEW w \in Webhooks, Tenant[w] \notin redactAudit'
        PROVE  IF HasRow(w)' THEN \E i \in RowIds : RowsFrom(w)' = {i} ELSE RowsFrom(w)' = {}
    <3>1. IF HasRow(w) THEN \E i \in RowIds : RowsFrom(w) = {i} ELSE RowsFrom(w) = {}
      BY <2>1, <2>3 DEF IngestInv
    <3>2. CASE Kind[s] = "unmapped"
      <4>1. (HasRow(w)' <=> HasRow(w)) /\ RowsFrom(w)' = RowsFrom(w)
        BY <2>1, <3>2 DEF HasRow, RowsFrom, rowVars
      <4> QED
        BY <3>1, <4>1
    <3>3. CASE Kind[s] # "unmapped" /\ w = s
      <4>1. HasRow(w)' /\ ~HasRow(w)
        BY <2>1, <3>3 DEF HasRow
      <4>2. RowsFrom(w)' = RowsFrom(w) \cup {nextRow}
        BY <2>1, <3>3, InsertAddsOne
      <4> QED
        BY <2>2, <3>1, <3>3, <4>1, <4>2
    <3>4. CASE Kind[s] # "unmapped" /\ w # s
      <4>1. HasRow(w)' <=> HasRow(w)
        BY <2>1, <3>4 DEF HasRow
      <4>2. RowsFrom(w)' = RowsFrom(w)
        BY <2>1, <3>4, InsertAddsOne
      <4> QED
        BY <3>1, <4>1, <4>2
    <3> QED
      BY <3>2, <3>3, <3>4
  <2> QED
    BY <2>3 DEF IngestInv
<1>3. ASSUME NEW d \in Drainers, NEW i \in deferred[d],
             RedactRows(d, i) \/ RedactKeys(d, i) \/ RedactMerchant(d, i)
      PROVE  IngestInv'
  <2> DEFINE m == TenantOf(i)
  <2>1. /\ m \in redactAudit /\ redactAudit' = redactAudit /\ source' = source
        /\ table' = table \/ table' = table \ RowsOf(m)
        /\ keys' = keys \/ keys' = keys \ KeysOf(m)
    BY <1>3, ErasureIsAudited
  <2> HIDE DEF m
  <2>2. ASSUME NEW w \in Webhooks, Tenant[w] # m
        PROVE  (HasRow(w)' <=> HasRow(w)) /\ RowsFrom(w)' = RowsFrom(w)
    <3>1. RowsFrom(w) \cap RowsOf(m) = {} /\ w \notin KeysOf(m)
      BY <2>2 DEF RowsFrom, RowsOf, TenantOf, KeysOf
    <3>2. {j \in table' : source'[j] = w} = {j \in table : source[j] = w}
      BY <2>1, <3>1 DEF RowsFrom
    <3>3. w \in keys' <=> w \in keys
      BY <2>1, <3>1
    <3> QED
      BY <3>2, <3>3 DEF HasRow, RowsFrom
  <2>3. ASSUME NEW w \in Webhooks, Tenant[w] \notin redactAudit'
        PROVE  IF HasRow(w)' THEN \E j \in RowIds : RowsFrom(w)' = {j} ELSE RowsFrom(w)' = {}
    BY <2>1, <2>2, <2>3 DEF IngestInv
  <2> QED
    BY <2>3 DEF IngestInv
<1>4. ASSUME NEW d \in Drainers,
             \/ Boot(d) \/ StartTick(d) \/ Commit(d) \/ IdleTick(d) \/ Abort(d) \/ Crash(d) \/ StalledTick(d)
             \/ \E i \in todo[d] : \/ DeferRow(d, i) \/ DispatchOk(d, i) \/ Expire(d, i)
                                   \/ \E class \in Classes : DispatchFail(d, i, class)
             \/ \E i \in late[d] : LateOk(d, i) \/ LateFail(d, i)
             \/ \E i \in deferred[d] : \/ InstalledOk(d, i) \/ DeferredFail(d, i)
                                       \/ RedactIdempotent(d, i) \/ RedactStart(d, i)
      PROVE  IngestInv'
  <2>1. UNCHANGED <<source, table, keys>> /\ redactAudit \subseteq redactAudit'
    BY <1>4 DEF Boot, StartTick, Commit, IdleTick, Abort, Expire, LoseTx, LateOk, LateFail, EndLate,
                Crash, StalledTick, DeferRow, DispatchOk, DispatchFail, InstalledOk, DeferredFail, RedactIdempotent, RedactStart, vars,
                tenantVars, rowVars
  <2> QED
    BY <1>0, <2>1
<1>5. ASSUME NEW i \in RowIds, Replay(i) \/ ForceDeadLetter(i) PROVE IngestInv'
  BY <1>5, <1>0 DEF Replay, ForceDeadLetter, tenantVars
<1>6. CASE UNCHANGED vars
  BY <1>6, <1>0 DEF vars, tenantVars, rowVars
<1> QED
  BY <1>1, <1>2, <1>3, <1>4, <1>5, <1>6 DEF Next, Drain

\* An accepted delivery has exactly one row for its event, and an unaccepted one
\* none, until the tenant's erasure begins: whatever is redelivered, rolled
\* back, requeued or crashes.
THEOREM DeliveriesIngestedOnce == Spec => []IngestedExactlyOnce
<1>1. Init => IngestInv
  BY DEF Init, IngestInv, RowsFrom, HasRow
<1>2. IngestInv => IngestedExactlyOnce
  <2> SUFFICES ASSUME IngestInv, NEW w \in Webhooks, Tenant[w] \notin redactAudit
               PROVE  Cardinality(RowsFrom(w)) = IF HasRow(w) THEN 1 ELSE 0
    BY DEF IngestedExactlyOnce, RowsFrom, HasRow
  <2> QED
    BY FS_EmptySet, FS_Singleton DEF IngestInv
<1> QED
  BY <1>1, <1>2, IngestStep, AuditInvariant, TypeCorrect, PTL DEF Spec

----------------------------------------------------------------------------
(* Ticks *)

\* Every idle drainer has a tick waiting for it, but for those that a failed
\* tick job took away (or is about to, once its late handler returns).
IdleDrainers == {d \in Drainers : pc[d] \in {"idle", "late"}}
IdleServed == Cardinality(IdleDrainers) <= ticks + aborts

LEMMA IdleIsFinite == IsFiniteSet(IdleDrainers) /\ Cardinality(IdleDrainers) \in Nat
BY OutboxAssumption, FS_Subset, FS_CardinalityType DEF IdleDrainers

\* One drainer changes what it does.
LEMMA OneMoves ==
  ASSUME TypeOK, NEW d \in Drainers, NEW step, pc' = [pc EXCEPT ![d] = step]
  PROVE  IdleDrainers' = IF step \in {"idle", "late"} THEN IdleDrainers \cup {d} ELSE IdleDrainers \ {d}
BY DEF IdleDrainers, TypeOK, DrainTypeOK

LEMMA IdleStep ==
  ASSUME TypeOK, LateInv, IdleServed, [Next]_vars
  PROVE  IdleServed'
<1>t. ticks \in Nat /\ aborts \in Nat
  BY OutboxAssumption DEF TypeOK, DrainTypeOK, BoundTypeOK
<1>0. ASSUME pc' = pc, ticks' \in Nat, ticks' >= ticks, aborts' = aborts PROVE IdleServed'
  BY <1>0, <1>t, IdleIsFinite DEF IdleServed, IdleDrainers
\* Becoming idle, with a tick added or a tick job failed.
<1>1. ASSUME NEW d \in Drainers, NEW step \in {"idle", "late"}, pc' = [pc EXCEPT ![d] = step],
             \/ ticks' = ticks + 1 /\ aborts' = aborts
             \/ ticks' = ticks /\ aborts' = aborts + 1
      PROVE  IdleServed'
  <2>1. IdleDrainers' = IdleDrainers \cup {d}
    BY <1>1, OneMoves
  <2>2. Cardinality(IdleDrainers \cup {d}) <= Cardinality(IdleDrainers) + 1
    BY IdleIsFinite, FS_AddElement
  <2>3. Cardinality(IdleDrainers \cup {d}) \in Nat
    BY IdleIsFinite, FS_AddElement, FS_CardinalityType
  <2> QED
    BY <1>1, <1>t, <2>1, <2>2, <2>3, IdleIsFinite DEF IdleServed
\* Leaving the idle ones, or not having been one.
<1>2. ASSUME NEW d \in Drainers, NEW step, step \notin {"idle", "late"}, pc' = [pc EXCEPT ![d] = step],
             aborts' = aborts, ticks' \in Nat,
             ticks' >= ticks \/ (pc[d] = "idle" /\ ticks' = ticks - 1)
      PROVE  IdleServed'
  <2>1. IdleDrainers' = IdleDrainers \ {d}
    BY <1>2, OneMoves
  <2>2. Cardinality(IdleDrainers \ {d}) = IF d \in IdleDrainers THEN Cardinality(IdleDrainers) - 1
                                         ELSE Cardinality(IdleDrainers)
    BY IdleIsFinite, FS_RemoveElement
  <2>3. pc[d] = "idle" => d \in IdleDrainers
    BY DEF IdleDrainers
  <2> QED
    BY <1>2, <1>t, <2>1, <2>2, <2>3, IdleIsFinite DEF IdleServed
<1>3. ASSUME NEW d \in Drainers, Boot(d) PROVE IdleServed'
  BY <1>3, <1>1 DEF Boot, boundVars
<1>4. ASSUME NEW d \in Drainers, StartTick(d) PROVE IdleServed'
  <2>1. ticks - 1 \in Nat
    BY <1>4, <1>t DEF StartTick
  <2> QED
    BY <1>4, <1>2, <2>1 DEF StartTick, boundVars
<1>5. ASSUME NEW d \in Drainers, Commit(d) PROVE IdleServed'
  <2>1. aborts' = aborts
    BY <1>5 DEF Commit, boundVars
  <2>2. CASE EndTick(d)
    BY <1>1, <2>1, <2>2 DEF EndTick
  <2>3. CASE pc' = [pc EXCEPT ![d] = "phase2"] /\ UNCHANGED ticks
    <3>1. "phase2" \notin {"idle", "late"} /\ ticks' \in Nat /\ ticks' >= ticks
      BY <1>t, <2>3
    <3> QED
      BY <1>2, <2>1, <2>3, <3>1
  <2> QED
    BY <1>5, <2>2, <2>3 DEF Commit
<1>6. ASSUME NEW d \in Drainers, NEW i \in deferred[d], FinishDeferred(d, i), aborts' = aborts
      PROVE  IdleServed'
  BY <1>6, <1>0, <1>1, <1>t DEF FinishDeferred, EndTick
<1>7. ASSUME NEW d \in Drainers, Abort(d) \/ \E i \in todo[d] : Expire(d, i) PROVE IdleServed'
  BY <1>7, <1>1 DEF Abort, Expire, LoseTx
<1>16. ASSUME NEW d \in Drainers, NEW i \in late[d], LateOk(d, i) \/ LateFail(d, i) PROVE IdleServed'
  <2>1. pc' = [pc EXCEPT ![d] = "idle"] /\ UNCHANGED <<ticks, aborts>> /\ pc[d] = "late"
    BY <1>16 DEF LateOk, LateFail, EndLate, boundVars, LateInv
  <2>2. IdleDrainers' = IdleDrainers
    BY <2>1, OneMoves DEF IdleDrainers
  <2> QED
    BY <2>1, <2>2 DEF IdleServed
<1>8. ASSUME NEW d \in Drainers, Crash(d) PROVE IdleServed'
  <2>1. /\ pc' = [pc EXCEPT ![d] = "down"] /\ aborts' = aborts
        /\ ticks' \in Nat /\ ticks' >= ticks
    BY <1>8, <1>t DEF Crash
  <2> QED
    BY <1>2, <2>1
<1>9. ASSUME NEW d \in Drainers, StalledTick(d) PROVE IdleServed'
  BY <1>9, <1>0, <1>t DEF StalledTick
<1>10. ASSUME NEW d \in Drainers, NEW i \in deferred[d],
              \/ InstalledOk(d, i) \/ DeferredFail(d, i) \/ RedactIdempotent(d, i) \/ RedactMerchant(d, i)
       PROVE  IdleServed'
  BY <1>10, <1>6 DEF InstalledOk, DeferredFail, RedactIdempotent, RedactMerchant, boundVars
<1>11. CASE UNCHANGED <<pc, ticks, aborts>>
  BY <1>11, <1>0, <1>t
<1>12. ASSUME NEW d \in Drainers,
              \/ IdleTick(d)
              \/ \E i \in todo[d] : \/ DeferRow(d, i) \/ DispatchOk(d, i)
                                    \/ \E class \in Classes : DispatchFail(d, i, class)
              \/ \E i \in deferred[d] : RedactStart(d, i) \/ RedactRows(d, i) \/ RedactKeys(d, i)
       PROVE  UNCHANGED <<pc, ticks, aborts>>
  BY <1>12 DEF IdleTick, DeferRow, DispatchOk, DispatchFail, RedactStart, RedactRows, RedactKeys,
               vars, drainVars, boundVars
<1>13. ASSUME NEW s \in Sources, Install(s) \/ Publish(s) \/ Ingest(s)
       PROVE  UNCHANGED <<pc, ticks, aborts>>
  BY <1>13 DEF Install, Publish, Ingest, drainVars, boundVars
<1>14. ASSUME NEW i \in RowIds, Replay(i) \/ ForceDeadLetter(i) PROVE UNCHANGED <<pc, ticks, aborts>>
  BY <1>14 DEF Replay, ForceDeadLetter, drainVars
<1>15. CASE UNCHANGED vars
  BY <1>15, <1>11 DEF vars, drainVars, boundVars
<1> QED
  BY <1>3, <1>4, <1>5, <1>7, <1>8, <1>9, <1>10, <1>11, <1>12, <1>13, <1>14, <1>15, <1>16, OutboxAssumption
  DEF Next, Drain

\* A live drainer polls: for any number of replicas, only a tick job that failed
\* leaves one without a tick to take or to finish.
THEOREM LiveDrainersServed == Spec => []OnlyFailedTicksSilence
<1>1. Init => IdleServed
  <2> SUFFICES ASSUME Init PROVE IdleServed
    OBVIOUS
  <2>1. IdleDrainers = {}
    BY DEF Init, IdleDrainers
  <2> QED
    BY <2>1, FS_EmptySet DEF Init, IdleServed
<1>2. IdleServed /\ TypeOK => OnlyFailedTicksSilence
  <2> SUFFICES ASSUME IdleServed, TypeOK PROVE OnlyFailedTicksSilence
    OBVIOUS
  <2> DEFINE busy == {d \in Drainers : Active(d)}
             up == {d \in Drainers : pc[d] # "down"}
  <2>1. up = IdleDrainers \cup busy
    BY DEF IdleDrainers, Active, TypeOK, DrainTypeOK
  <2>2. IsFiniteSet(busy) /\ Cardinality(busy) \in Nat
    BY OutboxAssumption, FS_Subset, FS_CardinalityType
  <2>3. IdleDrainers \cap busy = {}
    BY DEF IdleDrainers, Active
  <2> HIDE DEF busy, up
  <2>4. Cardinality(up) = Cardinality(IdleDrainers) + Cardinality(busy) - Cardinality(IdleDrainers \cap busy)
    BY <2>1, <2>2, IdleIsFinite, FS_Union
  <2>5. Cardinality(up) = Cardinality(IdleDrainers) + Cardinality(busy)
    <3>1. Cardinality(IdleDrainers \cap busy) = 0
      BY <2>3, FS_EmptySet
    <3> QED
      BY <2>2, <2>4, <3>1, IdleIsFinite
  <2>6. ticks \in Nat /\ aborts \in Nat
    BY OutboxAssumption DEF TypeOK, DrainTypeOK, BoundTypeOK
  <2>7. Cardinality(up) <= ticks + Cardinality(busy) + aborts
    BY <2>2, <2>5, <2>6, IdleIsFinite DEF IdleServed
  <2> QED
    BY <2>7 DEF OnlyFailedTicksSilence, up, busy
<1> QED
  BY <1>1, <1>2, IdleStep, TypeCorrect, HistoryInvariant, PTL DEF Spec
=============================================================================
