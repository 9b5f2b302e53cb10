---------------------------- MODULE OutboxProofs ----------------------------
(* Theorems about Outbox for every value of its constants. *)
EXTENDS Outbox, FiniteSetTheorems, TLAPS

\* A claimed batch only holds rows that are claimable and that nobody locks.
LEMMA BatchIsFree ==
  ClaimBatch \subseteq Claimable /\ ClaimBatch \cap Locked = {}
BY DEF ClaimBatch

\* What a drainer holds are rows, and a row belongs to a tenant.
LEMMA DrainerRows ==
  ASSUME TypeOK
  PROVE  /\ Claimable \subseteq RowIds
         /\ \A d \in Drainers : todo[d] \subseteq RowIds /\ deferred[d] \subseteq RowIds
         /\ \A i \in RowIds : source[i] \in Sources /\ TenantOf(i) \in Merchants
BY OutboxAssumption DEF TypeOK, RowTypeOK, DrainTypeOK, RowIds, Claimable, TenantOf

\* Type correctness: the first fact every other proof leans on.
THEOREM TypeCorrect == Spec => []TypeOK
<1> USE OutboxAssumption DEF RowIds
<1>1. Init => TypeOK
  <2> SUFFICES ASSUME Init PROVE TypeOK
    OBVIOUS
  <2>1. (CHOOSE s \in Sources : TRUE) \in Sources
    OBVIOUS
  <2> QED
    BY <2>1 DEF Init, TypeOK, TenantTypeOK, RowTypeOK, DrainTypeOK, BoundTypeOK
<1>2. TypeOK /\ [Next]_vars => TypeOK'
  <2> SUFFICES ASSUME TypeOK, [Next]_vars PROVE TypeOK'
    OBVIOUS
  <2>1. ASSUME NEW s \in Sources, Install(s) PROVE TypeOK'
    <3>1. TenantTypeOK'
      BY <2>1 DEF TypeOK, TenantTypeOK, Install
    <3>2. RowTypeOK'
      BY <2>1 DEF TypeOK, RowTypeOK, Install, InsertRow
    <3>3. DrainTypeOK'
      BY <2>1 DEF TypeOK, DrainTypeOK, Install, tx, drainVars
    <3>4. BoundTypeOK'
      BY <2>1 DEF TypeOK, BoundTypeOK, Install, boundVars
    <3> QED
      BY <3>1, <3>2, <3>3, <3>4 DEF TypeOK
  <2>2. ASSUME NEW s \in Sources, Publish(s) PROVE TypeOK'
    <3>1. TenantTypeOK'
      BY <2>2 DEF TypeOK, TenantTypeOK, Publish, tenantVars
    <3>2. RowTypeOK'
      BY <2>2 DEF TypeOK, RowTypeOK, Publish, InsertRow
    <3>3. DrainTypeOK'
      BY <2>2 DEF TypeOK, DrainTypeOK, Publish, tx, drainVars
    <3>4. BoundTypeOK'
      BY <2>2 DEF TypeOK, BoundTypeOK, Publish, boundVars
    <3> QED
      BY <3>1, <3>2, <3>3, <3>4 DEF TypeOK
  <2>3. ASSUME NEW w \in Webhooks, Ingest(w) PROVE TypeOK'
    <3>1. TenantTypeOK'
      BY <2>3 DEF TypeOK, TenantTypeOK, Ingest
    <3>2. RowTypeOK'
      <4>1. CASE InsertRow(w)
        BY <2>3, <4>1 DEF TypeOK, RowTypeOK, InsertRow, Ingest
      <4>2. CASE UNCHANGED rowVars
        BY <2>3, <4>2 DEF TypeOK, RowTypeOK, rowVars, Ingest
      <4> QED
        BY <2>3, <4>1, <4>2 DEF Ingest
    <3>3. DrainTypeOK'
      BY <2>3 DEF TypeOK, DrainTypeOK, Ingest, tx, drainVars
    <3>4. BoundTypeOK'
      BY <2>3 DEF TypeOK, BoundTypeOK, Ingest, boundVars
    <3> QED
      BY <3>1, <3>2, <3>3, <3>4 DEF TypeOK
  <2>4. ASSUME NEW d \in Drainers, Boot(d) PROVE TypeOK'
    <3>1. TenantTypeOK'
      BY <2>4 DEF TypeOK, TenantTypeOK, Boot, tenantVars
    <3>2. RowTypeOK'
      BY <2>4 DEF TypeOK, RowTypeOK, Boot, rowVars
    <3>3. DrainTypeOK'
      BY <2>4 DEF TypeOK, DrainTypeOK, Boot, tx
    <3>4. BoundTypeOK'
      BY <2>4 DEF TypeOK, BoundTypeOK, Boot, boundVars
    <3> QED
      BY <3>1, <3>2, <3>3, <3>4 DEF TypeOK
  <2>5. ASSUME NEW d \in Drainers, StartTick(d) PROVE TypeOK'
    <3>1. TenantTypeOK'
      BY <2>5 DEF TypeOK, TenantTypeOK, StartTick, tenantVars
    <3>2. RowTypeOK'
      BY <2>5 DEF TypeOK, RowTypeOK, StartTick, rowVars
    <3>3. DrainTypeOK'
      BY <2>5, BatchIsFree, DrainerRows DEF TypeOK, DrainTypeOK, StartTick, tx, Claimable
    <3>4. BoundTypeOK'
      BY <2>5 DEF TypeOK, BoundTypeOK, StartTick, boundVars
    <3> QED
      BY <3>1, <3>2, <3>3, <3>4 DEF TypeOK
  <2>6. ASSUME NEW d \in Drainers, NEW i \in todo[d], DeferRow(d, i) PROVE TypeOK'
    <3>0. i \in RowIds
      BY <2>6, DrainerRows
    <3>1. TenantTypeOK'
      BY <2>6 DEF TypeOK, TenantTypeOK, DeferRow, tenantVars
    <3>2. RowTypeOK'
      BY <2>6, <3>0 DEF TypeOK, RowTypeOK, DeferRow, rowVars
    <3>3. DrainTypeOK'
      BY <2>6, <3>0 DEF TypeOK, DrainTypeOK, DeferRow, tx, MarkProcessed
    <3>4. BoundTypeOK'
      BY <2>6 DEF TypeOK, BoundTypeOK, DeferRow, boundVars
    <3> QED
      BY <3>1, <3>2, <3>3, <3>4 DEF TypeOK
  <2>7. ASSUME NEW d \in Drainers, NEW i \in todo[d], DispatchOk(d, i) PROVE TypeOK'
    <3>0. i \in RowIds
      BY <2>7, DrainerRows
    <3>1. TenantTypeOK'
      BY <2>7 DEF TypeOK, TenantTypeOK, DispatchOk, tenantVars
    <3>2. RowTypeOK'
      <4>1. handled' = [handled EXCEPT ![i] = @ + 1] /\ UNCHANGED rowVars
        BY <2>7 DEF DispatchOk
      <4>2. RowTypeOK
        BY DEF TypeOK
      <4>3. handled' \in [RowIds -> Nat]
        BY <3>0, <4>1, <4>2 DEF RowTypeOK
      <4> QED
        BY <4>1, <4>2, <4>3 DEF RowTypeOK, rowVars
    <3>3. DrainTypeOK'
      <4>1. /\ todo' = [todo EXCEPT ![d] = @ \ {i}] /\ okRows' = [okRows EXCEPT ![d] = @ \cup {i}]
            /\ UNCHANGED <<ticks, pc, failedRows, deadRows, deferred, redact, late>>
        BY <2>7 DEF DispatchOk, MarkProcessed
      <4>2. DrainTypeOK
        BY DEF TypeOK
      <4>3. todo' \in [Drainers -> SUBSET RowIds] /\ okRows' \in [Drainers -> SUBSET RowIds]
        BY <3>0, <4>1, <4>2 DEF DrainTypeOK
      <4> QED
        BY <4>1, <4>2, <4>3 DEF DrainTypeOK
    <3>4. BoundTypeOK'
      BY <2>7 DEF TypeOK, BoundTypeOK, DispatchOk, boundVars
    <3> QED
      BY <3>1, <3>2, <3>3, <3>4 DEF TypeOK
  <2>8. ASSUME NEW d \in Drainers, NEW i \in todo[d], NEW class \in Classes, DispatchFail(d, i, class) PROVE TypeOK'
    <3>0. i \in RowIds
      BY <2>8, DrainerRows
    <3>1. TenantTypeOK'
      BY <2>8 DEF TypeOK, TenantTypeOK, DispatchFail, tenantVars
    <3>2. RowTypeOK'
      BY <2>8, <3>0 DEF TypeOK, RowTypeOK, DispatchFail, rowVars
    <3>3. DrainTypeOK'
      BY <2>8, <3>0 DEF TypeOK, DrainTypeOK, DispatchFail, tx, MarkFailed, MarkDeadLettered
    <3>4. BoundTypeOK'
      BY <2>8 DEF TypeOK, BoundTypeOK, DispatchFail, boundVars
    <3> QED
      BY <3>1, <3>2, <3>3, <3>4 DEF TypeOK
  <2>9. ASSUME NEW d \in Drainers, Commit(d) PROVE TypeOK'
    <3>1. TenantTypeOK'
      BY <2>9 DEF TypeOK, TenantTypeOK, Commit, tenantVars
    <3>2. RowTypeOK'
      <4>1. attempts' \in [RowIds -> Nat]
        BY <2>9 DEF TypeOK, RowTypeOK, Commit
      <4>2. okRows[d] \subseteq RowIds /\ deadRows[d] \subseteq RowIds
        BY DEF TypeOK, DrainTypeOK
      <4> QED
        BY <2>9, <4>1, <4>2 DEF TypeOK, RowTypeOK, Commit
    <3>3. DrainTypeOK'
      <4>1. ticks' \in Nat /\ pc' \in [Drainers -> {"down", "idle", "phase1", "late", "phase2"}]
        BY <2>9 DEF TypeOK, DrainTypeOK, Commit, EndTick
      <4>2. UNCHANGED <<deferred, redact, late>> /\ CloseTx(d)
        BY <2>9 DEF Commit
      <4> QED
        BY <4>1, <4>2 DEF TypeOK, DrainTypeOK, CloseTx
    <3>4. BoundTypeOK'
      BY <2>9 DEF TypeOK, BoundTypeOK, Commit, boundVars
    <3> QED
      BY <3>1, <3>2, <3>3, <3>4 DEF TypeOK
  <2>10. ASSUME NEW d \in Drainers, NEW i \in deferred[d], InstalledOk(d, i) PROVE TypeOK'
    <3>0. i \in RowIds
      BY <2>10, DrainerRows
    <3>1. TenantTypeOK'
      BY <2>10 DEF TypeOK, TenantTypeOK, InstalledOk, tenantVars
    <3>2. RowTypeOK'
      <4>1. handled' \in [RowIds -> Nat]
        BY <2>10, <3>0 DEF TypeOK, RowTypeOK, InstalledOk
      <4> QED
        BY <2>10, <4>1 DEF TypeOK, RowTypeOK, InstalledOk, rowVars
    <3>3. DrainTypeOK'
      BY <2>10, <3>0 DEF TypeOK, DrainTypeOK, InstalledOk, tx, FinishDeferred, EndTick
    <3>4. BoundTypeOK'
      BY <2>10 DEF TypeOK, BoundTypeOK, InstalledOk, boundVars
    <3> QED
      BY <3>1, <3>2, <3>3, <3>4 DEF TypeOK
  <2>11. ASSUME NEW d \in Drainers, NEW i \in deferred[d], DeferredFail(d, i) PROVE TypeOK'
    <3>1. TenantTypeOK'
      BY <2>11 DEF TypeOK, TenantTypeOK, DeferredFail, tenantVars
    <3>2. RowTypeOK'
      <4>1. deferredFailed' \subseteq RowIds
        BY <2>11, DrainerRows DEF TypeOK, RowTypeOK, DeferredFail
      <4> QED
        BY <2>11, <4>1 DEF TypeOK, RowTypeOK, DeferredFail
    <3>3. DrainTypeOK'
      BY <2>11 DEF TypeOK, DrainTypeOK, DeferredFail, tx, FinishDeferred, EndTick
    <3>4. BoundTypeOK'
      BY <2>11 DEF TypeOK, BoundTypeOK, DeferredFail, boundVars
    <3> QED
      BY <3>1, <3>2, <3>3, <3>4 DEF TypeOK
  <2>12. ASSUME NEW d \in Drainers, NEW i \in deferred[d], RedactIdempotent(d, i) PROVE TypeOK'
    <3>0. i \in RowIds
      BY <2>12, DrainerRows
    <3>1. TenantTypeOK'
      BY <2>12 DEF TypeOK, TenantTypeOK, RedactIdempotent, tenantVars
    <3>2. RowTypeOK'
      <4>1. handled' \in [RowIds -> Nat]
        BY <2>12, <3>0 DEF TypeOK, RowTypeOK, RedactIdempotent
      <4> QED
        BY <2>12, <4>1 DEF TypeOK, RowTypeOK, RedactIdempotent, rowVars
    <3>3. DrainTypeOK'
      BY <2>12, <3>0 DEF TypeOK, DrainTypeOK, RedactIdempotent, tx, FinishDeferred, EndTick
    <3>4. BoundTypeOK'
      BY <2>12 DEF TypeOK, BoundTypeOK, RedactIdempotent, boundVars
    <3> QED
      BY <3>1, <3>2, <3>3, <3>4 DEF TypeOK
  <2>13. ASSUME NEW d \in Drainers, NEW i \in deferred[d], RedactStart(d, i) PROVE TypeOK'
    <3>0. i \in RowIds
      BY <2>13, DrainerRows
    <3>1. TenantTypeOK'
      BY <2>13, <3>0, DrainerRows DEF TypeOK, TenantTypeOK, RedactStart, TenantOf
    <3>2. RowTypeOK'
      BY <2>13, <3>0 DEF TypeOK, RowTypeOK, RedactStart, rowVars
    <3>3. DrainTypeOK'
      BY <2>13, <3>0 DEF TypeOK, DrainTypeOK, RedactStart, tx
    <3>4. BoundTypeOK'
      BY <2>13, <3>0 DEF TypeOK, BoundTypeOK, RedactStart, boundVars
    <3> QED
      BY <3>1, <3>2, <3>3, <3>4 DEF TypeOK
  <2>14. ASSUME NEW d \in Drainers, NEW i \in deferred[d], RedactRows(d, i) PROVE TypeOK'
    <3>1. TenantTypeOK'
      BY <2>14 DEF TypeOK, TenantTypeOK, RedactRows, tenantVars
    <3>2. RowTypeOK'
      BY <2>14 DEF TypeOK, RowTypeOK, RedactRows, DeleteRows
    <3>3. DrainTypeOK'
      BY <2>14 DEF TypeOK, DrainTypeOK, RedactRows, tx
    <3>4. BoundTypeOK'
      BY <2>14 DEF TypeOK, BoundTypeOK, RedactRows, boundVars
    <3> QED
      BY <3>1, <3>2, <3>3, <3>4 DEF TypeOK
  <2>15. ASSUME NEW d \in Drainers, NEW i \in deferred[d], RedactKeys(d, i) PROVE TypeOK'
    <3>1. TenantTypeOK'
      BY <2>15 DEF TypeOK, TenantTypeOK, RedactKeys
    <3>2. RowTypeOK'
      BY <2>15 DEF TypeOK, RowTypeOK, RedactKeys, rowVars
    <3>3. DrainTypeOK'
      BY <2>15 DEF TypeOK, DrainTypeOK, RedactKeys, tx
    <3>4. BoundTypeOK'
      BY <2>15 DEF TypeOK, BoundTypeOK, RedactKeys, boundVars
    <3> QED
      BY <3>1, <3>2, <3>3, <3>4 DEF TypeOK
  <2>16. ASSUME NEW d \in Drainers, NEW i \in deferred[d], RedactMerchant(d, i) PROVE TypeOK'
    <3>0. i \in RowIds
      BY <2>16, DrainerRows
    <3>1. TenantTypeOK'
      BY <2>16 DEF TypeOK, TenantTypeOK, RedactMerchant
    <3>2. RowTypeOK'
      <4>1. handled' \in [RowIds -> Nat]
        BY <2>16, <3>0 DEF TypeOK, RowTypeOK, RedactMerchant
      <4> QED
        BY <2>16, <4>1 DEF TypeOK, RowTypeOK, RedactMerchant, DeleteRows
    <3>3. DrainTypeOK'
      BY <2>16, <3>0 DEF TypeOK, DrainTypeOK, RedactMerchant, tx, FinishDeferred, EndTick
    <3>4. BoundTypeOK'
      BY <2>16 DEF TypeOK, BoundTypeOK, RedactMerchant, boundVars
    <3> QED
      BY <3>1, <3>2, <3>3, <3>4 DEF TypeOK
  <2>17. ASSUME NEW d \in Drainers, IdleTick(d) PROVE TypeOK'
    <3>1. TenantTypeOK'
      BY <2>17 DEF TypeOK, TenantTypeOK, IdleTick, vars, tenantVars
    <3>2. RowTypeOK'
      BY <2>17 DEF TypeOK, RowTypeOK, IdleTick, vars, rowVars
    <3>3. DrainTypeOK'
      BY <2>17 DEF TypeOK, DrainTypeOK, IdleTick, tx, vars, drainVars
    <3>4. BoundTypeOK'
      BY <2>17 DEF TypeOK, BoundTypeOK, IdleTick, vars, boundVars
    <3> QED
      BY <3>1, <3>2, <3>3, <3>4 DEF TypeOK
  <2>18. ASSUME NEW d \in Drainers, Abort(d) \/ \E i \in todo[d] : Expire(d, i) PROVE TypeOK'
    <3>0. PICK step \in {"idle", "late"}, S \in SUBSET RowIds :
            LoseTx(d, step) /\ (late' = late \/ late' = [late EXCEPT ![d] = S])
      BY <2>18, DrainerRows DEF Abort, Expire
    <3>1. TenantTypeOK'
      BY <3>0 DEF TypeOK, TenantTypeOK, LoseTx, tenantVars
    <3>2. RowTypeOK'
      BY <3>0 DEF TypeOK, RowTypeOK, LoseTx, rowVars
    <3>3. DrainTypeOK'
      BY <3>0 DEF TypeOK, DrainTypeOK, LoseTx, CloseTx
    <3>4. BoundTypeOK'
      BY <3>0 DEF TypeOK, BoundTypeOK, LoseTx
    <3> QED
      BY <3>1, <3>2, <3>3, <3>4 DEF TypeOK
  <2>19. ASSUME NEW d \in Drainers, Crash(d) PROVE TypeOK'
    <3>1. TenantTypeOK'
      BY <2>19 DEF TypeOK, TenantTypeOK, Crash, tenantVars
    <3>2. RowTypeOK'
      BY <2>19 DEF TypeOK, RowTypeOK, Crash, rowVars
    <3>3. DrainTypeOK'
      BY <2>19 DEF TypeOK, DrainTypeOK, Crash, tx, CloseTx
    <3>4. BoundTypeOK'
      BY <2>19 DEF TypeOK, BoundTypeOK, Crash
    <3> QED
      BY <3>1, <3>2, <3>3, <3>4 DEF TypeOK
  <2>20. ASSUME NEW d \in Drainers, StalledTick(d) PROVE TypeOK'
    <3>1. TenantTypeOK'
      BY <2>20 DEF TypeOK, TenantTypeOK, StalledTick, tenantVars
    <3>2. RowTypeOK'
      BY <2>20 DEF TypeOK, RowTypeOK, StalledTick, rowVars
    <3>3. DrainTypeOK'
      BY <2>20 DEF TypeOK, DrainTypeOK, StalledTick, tx
    <3>4. BoundTypeOK'
      BY <2>20 DEF TypeOK, BoundTypeOK, StalledTick
    <3> QED
      BY <3>1, <3>2, <3>3, <3>4 DEF TypeOK
  <2>21. ASSUME NEW i \in RowIds, Replay(i) PROVE TypeOK'
    <3>1. TenantTypeOK'
      BY <2>21 DEF TypeOK, TenantTypeOK, Replay, tenantVars
    <3>2. RowTypeOK'
      <4>1. attempts' \in [RowIds -> Nat]
        BY <2>21 DEF TypeOK, RowTypeOK, Replay
      <4>2. deadLettered' \subseteq RowIds
        BY <2>21 DEF TypeOK, RowTypeOK, Replay
      <4> QED
        BY <2>21, <4>1, <4>2 DEF TypeOK, RowTypeOK, Replay
    <3>3. DrainTypeOK'
      BY <2>21 DEF TypeOK, DrainTypeOK, Replay, tx, drainVars
    <3>4. BoundTypeOK'
      BY <2>21 DEF TypeOK, BoundTypeOK, Replay
    <3> QED
      BY <3>1, <3>2, <3>3, <3>4 DEF TypeOK
  <2>22. ASSUME NEW i \in RowIds, ForceDeadLetter(i) PROVE TypeOK'
    <3>1. TenantTypeOK'
      BY <2>22 DEF TypeOK, TenantTypeOK, ForceDeadLetter, tenantVars
    <3>2. RowTypeOK'
      <4>1. attempts' \in [RowIds -> Nat]
        BY <2>22 DEF TypeOK, RowTypeOK, ForceDeadLetter
      <4>2. deadLettered' \subseteq RowIds
        BY <2>22 DEF TypeOK, RowTypeOK, ForceDeadLetter
      <4> QED
        BY <2>22, <4>1, <4>2 DEF TypeOK, RowTypeOK, ForceDeadLetter
    <3>3. DrainTypeOK'
      BY <2>22 DEF TypeOK, DrainTypeOK, ForceDeadLetter, tx, drainVars
    <3>4. BoundTypeOK'
      BY <2>22 DEF TypeOK, BoundTypeOK, ForceDeadLetter
    <3> QED
      BY <3>1, <3>2, <3>3, <3>4 DEF TypeOK
  <2>23. ASSUME NEW d \in Drainers, NEW i \in late[d], LateOk(d, i) \/ LateFail(d, i) PROVE TypeOK'
    <3>0. i \in RowIds
      BY DEF TypeOK, DrainTypeOK
    <3>1. EndLate(d) /\ (UNCHANGED handled \/ handled' = [handled EXCEPT ![i] = @ + 1])
      BY <2>23 DEF LateOk, LateFail
    <3>2. TenantTypeOK'
      BY <3>1 DEF TypeOK, TenantTypeOK, EndLate, tenantVars
    <3>3. RowTypeOK'
      <4>1. handled' \in [RowIds -> Nat]
        BY <3>0, <3>1 DEF TypeOK, RowTypeOK
      <4> QED
        BY <3>1, <4>1 DEF TypeOK, RowTypeOK, EndLate, rowVars
    <3>4. DrainTypeOK'
      BY <3>1 DEF TypeOK, DrainTypeOK, EndLate, tx
    <3>5. BoundTypeOK'
      BY <3>1 DEF TypeOK, BoundTypeOK, EndLate, boundVars
    <3> QED
      BY <3>2, <3>3, <3>4, <3>5 DEF TypeOK
  <2>24. CASE UNCHANGED vars
    BY <2>24 DEF vars, tenantVars, rowVars, drainVars, tx, boundVars, TypeOK, TenantTypeOK, RowTypeOK,
                 DrainTypeOK, BoundTypeOK
  <2> QED
    BY <2>1, <2>2, <2>3, <2>4, <2>5, <2>6, <2>7, <2>8, <2>9, <2>10, <2>11, <2>12,
       <2>13, <2>14, <2>15, <2>16, <2>17, <2>18, <2>19, <2>20, <2>21, <2>22, <2>23, <2>24
    DEF Next, Drain
<1> QED
  BY <1>1, <1>2, PTL DEF Spec

----------------------------------------------------------------------------
(* Mutual exclusion of claims *)

\* A row keeps the event it was inserted with.
LEMMA SourceIsStable ==
  ASSUME TypeOK, [Next]_vars
  PROVE  /\ nextRow <= nextRow'
         /\ \A i \in 1..(nextRow - 1) : source'[i] = source[i]
<1> USE DEF TypeOK, RowTypeOK, RowIds
<1>1. ASSUME NEW s, InsertRow(s)
      PROVE  nextRow <= nextRow' /\ \A i \in 1..(nextRow - 1) : source'[i] = source[i]
  BY <1>1 DEF InsertRow
<1>2. CASE UNCHANGED <<nextRow, source>>
  BY <1>2
<1>3. (\E s : InsertRow(s)) \/ UNCHANGED <<nextRow, source>>
  BY DEF Next, vars, Install, Publish, Ingest, Drain, IdleTick, Abort, Crash, StalledTick, Replay,
         ForceDeadLetter, Boot, StartTick, DeferRow, DispatchOk, DispatchFail, Commit, InstalledOk,
         DeferredFail, RedactIdempotent, RedactStart, RedactRows, RedactKeys, RedactMerchant,
         DeleteRows, rowVars, MarkProcessed, MarkFailed, MarkDeadLettered, Unlocked,
         LoseTx, Expire, EndLate, LateOk, LateFail
<1> QED
  BY <1>1, <1>2, <1>3

\* The claims stay exclusive: SKIP LOCKED keeps drainers apart, and whoever
\* else writes a row waits for its lock.
LEMMA ExclusiveStep ==
  ASSUME TypeOK, ClaimsAreExclusive, [Next]_vars
  PROVE  ClaimsAreExclusive'
<1> USE DEF ClaimsAreExclusive, LockedBy, Locked, Claimable
<1> DEFINE frame == <<processed, deadLettered, tx>>
<1>1. ASSUME NEW s \in Sources, Install(s) \/ Publish(s) \/ Ingest(s) PROVE ClaimsAreExclusive'
  <2>1. table \subseteq table' /\ UNCHANGED frame
    BY <1>1 DEF Install, Publish, Ingest, InsertRow, rowVars, drainVars, tx
  <2> QED
    BY <2>1 DEF tx
<1>2. ASSUME NEW d \in Drainers, StartTick(d) PROVE ClaimsAreExclusive'
  <2>1. /\ ClaimBatch \subseteq Claimable /\ ClaimBatch \cap Locked = {}
        /\ todo' = [todo EXCEPT ![d] = ClaimBatch]
        /\ UNCHANGED <<table, processed, deadLettered, okRows, failedRows, deadRows>>
    BY <1>2, BatchIsFree DEF StartTick, rowVars
  <2>2. \A e \in Drainers : e # d => LockedBy(e)' = LockedBy(e)
    BY <2>1 DEF TypeOK, DrainTypeOK
  <2>3. LockedBy(d)' \subseteq LockedBy(d) \cup ClaimBatch
    BY <2>1 DEF TypeOK, DrainTypeOK
  <2> QED
    BY <2>1, <2>2, <2>3
<1>3. ASSUME NEW d \in Drainers, NEW i \in todo[d],
             DeferRow(d, i) \/ DispatchOk(d, i) \/ \E class \in Classes : DispatchFail(d, i, class)
      PROVE  ClaimsAreExclusive'
  <2>1. UNCHANGED <<table, processed, deadLettered>>
    BY <1>3 DEF DeferRow, DispatchOk, DispatchFail, rowVars, MarkProcessed, MarkFailed, MarkDeadLettered
  <2>2. \A e \in Drainers : LockedBy(e)' \subseteq LockedBy(e)
    BY <1>3 DEF DeferRow, DispatchOk, DispatchFail, TypeOK, DrainTypeOK, MarkProcessed, MarkFailed, MarkDeadLettered
  <2> QED
    BY <2>1, <2>2
<1>4. ASSUME NEW d \in Drainers, Commit(d) PROVE ClaimsAreExclusive'
  <2>1. LockedBy(d)' = {} /\ \A e \in Drainers : e # d => LockedBy(e)' = LockedBy(e)
    BY <1>4 DEF Commit, CloseTx, TypeOK, DrainTypeOK
  <2>2. /\ table' = table
        /\ processed' = processed \cup okRows[d] /\ deadLettered' = deadLettered \cup deadRows[d]
    BY <1>4 DEF Commit
  <2> QED
    BY <2>1, <2>2
<1>5. ASSUME NEW d \in Drainers, Abort(d) \/ Crash(d) \/ \E i \in todo[d] : Expire(d, i)
      PROVE  ClaimsAreExclusive'
  <2>1. \A e \in Drainers : LockedBy(e)' \subseteq LockedBy(e)
    BY <1>5 DEF Abort, Expire, LoseTx, Crash, CloseTx, TypeOK, DrainTypeOK
  <2>2. UNCHANGED <<table, processed, deadLettered>>
    BY <1>5 DEF Abort, Expire, LoseTx, Crash, rowVars
  <2> QED
    BY <2>1, <2>2
<1>6. ASSUME NEW d \in Drainers, NEW i \in deferred[d], RedactRows(d, i) \/ RedactMerchant(d, i)
      PROVE  ClaimsAreExclusive'
  <2>1. UNCHANGED tx
    BY <1>6 DEF RedactRows, RedactMerchant, Unlocked
  <2>2. PICK S : DeleteRows(S) /\ S \cap Locked = {}
    BY <1>6 DEF RedactRows, RedactMerchant, Unlocked
  <2> QED
    BY <2>1, <2>2 DEF DeleteRows, tx
<1>7. ASSUME NEW i \in RowIds, Replay(i) \/ ForceDeadLetter(i) PROVE ClaimsAreExclusive'
  <2>1. /\ i \notin Locked /\ UNCHANGED <<table, processed, tx>>
        /\ deadLettered' \subseteq deadLettered \cup {i}
    BY <1>7 DEF Replay, ForceDeadLetter, drainVars, Unlocked
  <2> QED
    BY <2>1 DEF tx
<1>8. CASE UNCHANGED <<table, processed, deadLettered, tx>>
  BY <1>8 DEF tx
<1>9. ASSUME NEW d \in Drainers,
             \/ Boot(d) \/ IdleTick(d) \/ StalledTick(d)
             \/ \E i \in late[d] : LateOk(d, i) \/ LateFail(d, i)
             \/ \E i \in deferred[d] : \/ InstalledOk(d, i) \/ DeferredFail(d, i) \/ RedactIdempotent(d, i)
                                       \/ RedactStart(d, i) \/ RedactKeys(d, i)
      PROVE  UNCHANGED <<table, processed, deadLettered, tx>>
  BY <1>9 DEF Boot, IdleTick, StalledTick, InstalledOk, DeferredFail, RedactIdempotent, RedactStart,
              RedactKeys, EndLate, LateOk, LateFail, vars, rowVars, drainVars, tx
<1>10. CASE UNCHANGED vars
  BY <1>8, <1>10 DEF vars, rowVars, drainVars
<1> HIDE DEF ClaimsAreExclusive, LockedBy, Locked, Claimable
<1> QED
  BY <1>1, <1>2, <1>3, <1>4, <1>5, <1>6, <1>7, <1>8, <1>9, <1>10, OutboxAssumption DEF Next, Drain

\* Two drainers never hold the same row, and a row a drainer holds is neither
\* settled nor removed under it.
THEOREM ClaimsExclusive == Spec => []ClaimsAreExclusive
<1>1. Init => ClaimsAreExclusive
  BY DEF Init, ClaimsAreExclusive, LockedBy, Locked
<1> QED
  BY <1>1, TypeCorrect, ExclusiveStep, PTL DEF Spec

----------------------------------------------------------------------------
(* The attempts ceiling *)

\* The inductive invariant: the ceiling, the allowance of rows a transaction is
\* about to fail, and the untouched ids that a later insertion will use.
CeilingInv ==
  /\ AttemptsCeiling
  /\ \A d \in Drainers : \A i \in failedRows[d] : attempts[i] + 1 < MaxAttempts
  /\ deadLettered \subseteq table
  /\ \A i \in RowIds : i >= nextRow => attempts[i] = 0

\* An attempt is only ever charged to a locked row by the transaction that
\* failed it, or to an unlocked row by the operator who parks it.
LEMMA CeilingStep ==
  ASSUME TypeOK, ClaimsAreExclusive, CeilingInv, [Next]_vars
  PROVE  CeilingInv'
<1> USE OutboxAssumption DEF CeilingInv, AttemptsCeiling, RowIds
<1> DEFINE frame == <<nextRow, table, deadLettered, attempts, failedRows>>
<1>1. ASSUME NEW s \in Sources, Install(s) \/ Publish(s) \/ Ingest(s) PROVE CeilingInv'
  <2>1. InsertRow(s) \/ UNCHANGED rowVars
    BY <1>1 DEF Install, Publish, Ingest
  <2>2. UNCHANGED failedRows
    BY <1>1 DEF Install, Publish, Ingest, drainVars, tx
  <2>3. CASE InsertRow(s)
    BY <2>2, <2>3 DEF InsertRow, TypeOK, RowTypeOK
  <2>4. CASE UNCHANGED rowVars
    BY <2>2, <2>4 DEF rowVars
  <2> QED
    BY <2>1, <2>3, <2>4
<1>2. ASSUME NEW d \in Drainers, NEW i \in todo[d], NEW class \in Classes, DispatchFail(d, i, class)
      PROVE  CeilingInv'
  <2>1. UNCHANGED <<nextRow, table, deadLettered, attempts>>
    BY <1>2 DEF DispatchFail, rowVars, MarkFailed, MarkDeadLettered
  <2>2. \/ UNCHANGED failedRows
        \/ failedRows' = [failedRows EXCEPT ![d] = @ \cup {i}] /\ ~GivesUp(i, class)
    BY <1>2 DEF DispatchFail, MarkFailed, MarkDeadLettered
  <2>3. i \in RowIds /\ attempts[i] \in Nat
    BY DrainerRows DEF TypeOK, RowTypeOK
  <2>4. ASSUME NEW e \in Drainers, NEW j \in failedRows'[e] PROVE attempts[j] + 1 < MaxAttempts
    BY <2>2, <2>3 DEF GivesUp, TypeOK, DrainTypeOK
  <2> QED
    BY <2>1, <2>4
<1>3. ASSUME NEW d \in Drainers, Commit(d) PROVE CeilingInv'
  <2> USE DEF Commit, CloseTx, TypeOK, RowTypeOK, DrainTypeOK
  <2>1. failedRows[d] \subseteq Claimable /\ deadRows[d] \subseteq Claimable
    BY DEF ClaimsAreExclusive, LockedBy, Locked
  <2>2. ASSUME NEW i \in table
        PROVE  IF i \in deadLettered' THEN attempts'[i] \in 1..MaxAttempts ELSE attempts'[i] < MaxAttempts
    <3>1. i \in RowIds
      OBVIOUS
    <3>2. CASE i \in failedRows[d] \cup deadRows[d]
      BY <1>3, <2>1, <3>1, <3>2 DEF Claimable
    <3>3. CASE i \notin failedRows[d] \cup deadRows[d]
      BY <1>3, <3>1, <3>3
    <3> QED
      BY <3>2, <3>3
  <2>3. ASSUME NEW e \in Drainers, NEW i \in failedRows'[e] PROVE attempts'[i] + 1 < MaxAttempts
    <3>1. e # d /\ i \in failedRows[e] /\ i \in RowIds
      BY <1>3, <2>3
    <3>2. i \notin failedRows[d] \cup deadRows[d]
      BY <3>1 DEF ClaimsAreExclusive, LockedBy
    <3> QED
      BY <1>3, <3>1, <3>2
  <2>4. \A i \in RowIds : i >= nextRow => attempts'[i] = 0
    BY <1>3, <2>1 DEF Claimable
  <2>5. table' = table /\ nextRow' = nextRow /\ deadLettered' \subseteq table
    BY <1>3, <2>1 DEF Claimable
  <2> QED
    BY <2>2, <2>3, <2>4, <2>5
<1>4. ASSUME NEW d \in Drainers, Abort(d) \/ Crash(d) \/ \E i \in todo[d] : Expire(d, i)
      PROVE  CeilingInv'
  <2>1. CloseTx(d) /\ UNCHANGED rowVars
    BY <1>4 DEF Abort, Expire, LoseTx, Crash
  <2> QED
    BY <2>1 DEF CloseTx, rowVars, TypeOK, DrainTypeOK
<1>5. ASSUME NEW d \in Drainers, NEW i \in deferred[d], RedactRows(d, i) \/ RedactMerchant(d, i)
      PROVE  CeilingInv'
  <2>1. PICK S : DeleteRows(S)
    BY <1>5 DEF RedactRows, RedactMerchant, Unlocked
  <2>2. UNCHANGED failedRows
    BY <1>5 DEF RedactRows, RedactMerchant, tx, Unlocked
  <2> QED
    BY <2>1, <2>2 DEF DeleteRows
<1>6. ASSUME NEW i \in RowIds, Replay(i) \/ ForceDeadLetter(i) PROVE CeilingInv'
  <2>1. /\ i \in table /\ i \notin Locked
        /\ UNCHANGED <<nextRow, table, failedRows>>
    BY <1>6 DEF Replay, ForceDeadLetter, drainVars, tx, Unlocked
  <2>2. \/ deadLettered' = deadLettered \ {i} /\ attempts' = [attempts EXCEPT ![i] = 0]
        \/ /\ i \notin deadLettered
           /\ deadLettered' = deadLettered \cup {i} /\ attempts' = [attempts EXCEPT ![i] = @ + 1]
    BY <1>6 DEF Replay, ForceDeadLetter, Unlocked
  <2>3. \A d \in Drainers : i \notin failedRows[d]
    BY <2>1 DEF Locked, LockedBy
  <2>4. i < nextRow /\ attempts[i] \in Nat /\ table \subseteq RowIds
    BY <2>1 DEF TypeOK, RowTypeOK
  <2>5. \A j \in RowIds : j # i => attempts'[j] = attempts[j] /\ (j \in deadLettered' <=> j \in deadLettered)
    BY <2>2 DEF TypeOK, RowTypeOK
  <2>6. IF i \in deadLettered' THEN attempts'[i] \in 1..MaxAttempts ELSE attempts'[i] < MaxAttempts
    BY <2>1, <2>2, <2>4 DEF TypeOK, RowTypeOK
  <2>7. \A d \in Drainers : failedRows[d] \subseteq RowIds
    BY DEF TypeOK, DrainTypeOK
  <2>8. deadLettered' \subseteq table
    BY <2>1, <2>2
  <2>9. AttemptsCeiling'
    BY <2>1, <2>4, <2>5, <2>6
  <2>10. \A d \in Drainers : \A j \in failedRows'[d] : attempts'[j] + 1 < MaxAttempts
    BY <2>1, <2>3, <2>5, <2>7
  <2>11. \A j \in RowIds : j >= nextRow' => attempts'[j] = 0
    BY <2>1, <2>4, <2>5 DEF TypeOK, RowTypeOK
  <2> QED
    BY <2>1, <2>8, <2>9, <2>10, <2>11
<1>7. CASE UNCHANGED frame
  BY <1>7
<1>8. ASSUME NEW d \in Drainers,
             \/ StartTick(d) \/ Boot(d) \/ IdleTick(d) \/ StalledTick(d)
             \/ \E i \in todo[d] : DeferRow(d, i) \/ DispatchOk(d, i)
             \/ \E i \in late[d] : LateOk(d, i) \/ LateFail(d, i)
             \/ \E i \in deferred[d] : \/ InstalledOk(d, i) \/ DeferredFail(d, i) \/ RedactIdempotent(d, i)
                                       \/ RedactStart(d, i) \/ RedactKeys(d, i)
      PROVE  UNCHANGED frame
  BY <1>8 DEF StartTick, Boot, IdleTick, StalledTick, DeferRow, DispatchOk, InstalledOk, DeferredFail,
              RedactIdempotent, RedactStart, RedactKeys, EndLate, LateOk, LateFail, vars, rowVars,
              drainVars, tx, MarkProcessed
<1>9. CASE UNCHANGED vars
  BY <1>7, <1>9 DEF vars, rowVars, drainVars, tx
<1> HIDE DEF CeilingInv, frame
<1> QED
  BY <1>1, <1>2, <1>3, <1>4, <1>5, <1>6, <1>7, <1>8, <1>9 DEF Next, Drain

\* No row is dispatched beyond MAX_OUTBOX_ATTEMPTS, whatever drainers fail and
\* operators park and requeue, and a parked row has used an attempt.
THEOREM CeilingHolds == Spec => []AttemptsCeiling
<1>1. Init => CeilingInv
  BY DEF Init, CeilingInv, AttemptsCeiling, RowIds
<1>2. CeilingInv => AttemptsCeiling
  BY DEF CeilingInv
<1> QED
  BY <1>1, <1>2, TypeCorrect, ClaimsExclusive, CeilingStep, PTL DEF Spec

----------------------------------------------------------------------------
(* How often a handler completes *)

\* Ids not inserted yet carry no history, and marks are on rows.
FreshInv ==
  /\ processed \subseteq table
  /\ \A i \in RowIds : i >= nextRow => handled[i] = 0

\* Only a transaction has rows to dispatch; a row it marks processed is done
\* with, and was handled unless it is to be invoked after the commit.
MarkedInv ==
  \A d \in Drainers :
    /\ pc[d] # "phase1" => todo[d] = {}
    /\ todo[d] \cap okRows[d] = {}
    /\ \A i \in okRows[d] : ~MarkBeforeInvoke(i) => handled[i] >= 1

\* A row to be invoked after its mark commits has not run while unmarked.
UnrunInv == \A i \in table \ processed : MarkBeforeInvoke(i) => handled[i] = 0

\* A process whose transaction expired waits for one handler, of a row that is
\* not invoked after its mark.
LateInv ==
  \A d \in Drainers :
    /\ pc[d] # "late" => late[d] = {}
    /\ \A i \in late[d] : i \in 1..(nextRow - 1) /\ ~MarkBeforeInvoke(i) /\ late[d] = {i}

\* A deferred row belongs to one drainer, has not run, and cannot be claimed
\* again: its mark is about to commit, or has committed.
DeferredInv ==
  \A d \in Drainers :
    /\ \A e \in Drainers : d # e => deferred[d] \cap deferred[e] = {}
    /\ \A i \in deferred[d] :
         /\ i \in 1..(nextRow - 1) /\ MarkBeforeInvoke(i) /\ handled[i] = 0
         /\ \/ pc[d] = "phase1" /\ i \in okRows[d]
            \/ pc[d] = "phase2" /\ i \notin table \ processed

HistoryInv ==
  /\ ProcessedWasHandled /\ DeferredAtMostOnce
  /\ FreshInv /\ MarkedInv /\ UnrunInv /\ DeferredInv

\* The steps that neither run a handler nor move a mark.
LEMMA HistoryFrame ==
  ASSUME TypeOK, HistoryInv,
         UNCHANGED <<nextRow, source, table, processed, pc, todo, okRows, deferred, handled>>
  PROVE  HistoryInv'
<1> USE DEF HistoryInv, MarkBeforeInvoke, KindOf
<1>1. ProcessedWasHandled' /\ DeferredAtMostOnce' /\ FreshInv' /\ MarkedInv'
  BY DEF ProcessedWasHandled, DeferredAtMostOnce, FreshInv, MarkedInv
<1>2. UnrunInv' /\ DeferredInv'
  BY DEF UnrunInv, DeferredInv
<1> QED
  BY <1>1, <1>2

\* Insertions: the new id has no history.
LEMMA HistoryInsert ==
  ASSUME TypeOK, ClaimsAreExclusive, HistoryInv, NEW s, InsertRow(s),
         UNCHANGED <<pc, todo, okRows, deferred, handled>>
  PROVE  HistoryInv'
<1> USE OutboxAssumption DEF RowIds, HistoryInv, MarkBeforeInvoke, KindOf, TypeOK, RowTypeOK, InsertRow
<1>1. \A d \in Drainers : okRows[d] \subseteq 1..(nextRow - 1)
  <2>1. \A d \in Drainers : okRows[d] \subseteq table
    BY DEF ClaimsAreExclusive, Locked, LockedBy, Claimable
  <2>2. table \subseteq 1..(nextRow - 1)
    OBVIOUS
  <2> QED
    BY <2>1, <2>2
<1>2. \A i \in 1..(nextRow - 1) : source'[i] = source[i]
  OBVIOUS
<1>3. ProcessedWasHandled'
  BY <1>2 DEF ProcessedWasHandled, FreshInv
<1>5. DeferredAtMostOnce'
  BY <1>2 DEF DeferredAtMostOnce, FreshInv
<1>6. FreshInv'
  BY DEF FreshInv
<1>7. MarkedInv'
  BY <1>1, <1>2 DEF MarkedInv
<1>8. UnrunInv'
  BY <1>2 DEF UnrunInv, FreshInv
<1>9. DeferredInv'
  BY <1>2 DEF DeferredInv
<1> QED
  BY <1>3, <1>5, <1>6, <1>7, <1>8, <1>9

\* Phase 1: claims, dispatches and the commit of their marks.
LEMMA HistoryPhase1 ==
  ASSUME TypeOK, ClaimsAreExclusive, HistoryInv, NEW d \in Drainers,
         \/ StartTick(d) \/ Commit(d) \/ Abort(d) \/ Crash(d)
         \/ \E i \in todo[d] : \/ DeferRow(d, i) \/ DispatchOk(d, i) \/ Expire(d, i)
                               \/ \E class \in Classes : DispatchFail(d, i, class)
  PROVE  HistoryInv'
<1> USE OutboxAssumption DEF RowIds, HistoryInv, MarkBeforeInvoke, KindOf, TypeOK, RowTypeOK, DrainTypeOK
<1>1. /\ \A e \in Drainers : todo[e] \subseteq Claimable /\ okRows[e] \subseteq Claimable
      /\ \A e \in Drainers : e # d => todo[d] \cap okRows[e] = {} /\ okRows[d] \cap okRows[e] = {}
  BY DEF ClaimsAreExclusive, Locked, LockedBy
<1>2. CASE StartTick(d)
  <2>1. /\ todo' = [todo EXCEPT ![d] = ClaimBatch] /\ pc' = [pc EXCEPT ![d] = "phase1"] /\ pc[d] = "idle"
        /\ UNCHANGED <<nextRow, source, table, processed, okRows, deferred, handled>>
    BY <1>2 DEF StartTick, rowVars, boundVars
  <2>2. ClaimBatch \cap okRows[d] = {}
    BY BatchIsFree DEF Locked, LockedBy
  <2>3. deferred[d] = {}
    BY <2>1 DEF DeferredInv
  <2>4. MarkedInv'
    BY <2>1, <2>2 DEF MarkedInv
  <2>5. DeferredInv'
    BY <2>1, <2>3 DEF DeferredInv
  <2> QED
    BY <2>1, <2>4, <2>5 DEF ProcessedWasHandled, DeferredAtMostOnce,
                            FreshInv, UnrunInv
<1>3. CASE Commit(d)
  <2>1. /\ processed' = processed \cup okRows[d]
        /\ okRows' = [okRows EXCEPT ![d] = {}] /\ todo' = [todo EXCEPT ![d] = {}]
        /\ \/ deferred[d] = {} /\ pc' = [pc EXCEPT ![d] = "idle"]
           \/ pc' = [pc EXCEPT ![d] = "phase2"]
        /\ UNCHANGED <<nextRow, source, table, deferred, handled>>
    BY <1>3 DEF Commit, CloseTx, EndTick, boundVars
  <2>2. ProcessedWasHandled'
    BY <2>1 DEF ProcessedWasHandled, MarkedInv
  <2>3. FreshInv'
    BY <1>1, <2>1 DEF FreshInv, Claimable
  <2>4. MarkedInv'
    BY <2>1 DEF MarkedInv
  <2>5. UnrunInv'
    BY <2>1 DEF UnrunInv
  <2>6. DeferredInv'
    BY <1>3, <2>1 DEF DeferredInv, Commit
  <2> QED
    BY <2>1, <2>2, <2>3, <2>4, <2>5, <2>6 DEF DeferredAtMostOnce
<1>4. CASE Abort(d) \/ Crash(d) \/ \E i \in todo[d] : Expire(d, i)
  <2>1. /\ okRows' = [okRows EXCEPT ![d] = {}] /\ todo' = [todo EXCEPT ![d] = {}]
        /\ deferred' = [deferred EXCEPT ![d] = {}]
        /\ \A e \in Drainers : e # d => pc'[e] = pc[e]
        /\ UNCHANGED <<nextRow, source, table, processed, handled>>
    <3>1. CASE Abort(d) \/ \E i \in todo[d] : Expire(d, i)
      <4>1. LoseTx(d, "idle") \/ LoseTx(d, "late")
        BY <3>1 DEF Abort, Expire
      <4> QED
        BY <4>1 DEF LoseTx, CloseTx, rowVars
    <3>2. CASE Crash(d)
      BY <3>2 DEF Crash, CloseTx, rowVars
    <3> QED
      BY <1>4, <3>1, <3>2
  <2>2. MarkedInv'
    BY <2>1 DEF MarkedInv
  <2>3. UnrunInv'
    BY <2>1 DEF UnrunInv
  <2>4. DeferredInv'
    BY <2>1 DEF DeferredInv
  <2> QED
    BY <2>1, <2>2, <2>3, <2>4 DEF ProcessedWasHandled, DeferredAtMostOnce, FreshInv
<1>5. ASSUME NEW i \in todo[d], DeferRow(d, i) PROVE HistoryInv'
  <2>1. /\ todo' = [todo EXCEPT ![d] = @ \ {i}] /\ okRows' = [okRows EXCEPT ![d] = @ \cup {i}]
        /\ deferred' = [deferred EXCEPT ![d] = @ \cup {i}] /\ MarkBeforeInvoke(i)
        /\ UNCHANGED <<nextRow, source, table, processed, pc, handled>>
    BY <1>5 DEF DeferRow, rowVars, boundVars, MarkProcessed
  <2>2. i \in table \ processed /\ i \in 1..(nextRow - 1) /\ handled[i] = 0
    BY <1>1, <2>1 DEF Claimable, UnrunInv
  <2>3. MarkedInv'
    BY <2>1 DEF MarkedInv
  <2>4. UnrunInv'
    BY <2>1 DEF UnrunInv
  <2>5. pc[d] = "phase1"
    BY DEF MarkedInv
  <2>6. DeferredInv'
    BY <1>1, <2>1, <2>2, <2>5 DEF DeferredInv
  <2> QED
    BY <2>1, <2>3, <2>4, <2>6 DEF ProcessedWasHandled, DeferredAtMostOnce,
                                  FreshInv
<1>6. ASSUME NEW i \in todo[d], DispatchOk(d, i) PROVE HistoryInv'
  <2>1. /\ todo' = [todo EXCEPT ![d] = @ \ {i}] /\ okRows' = [okRows EXCEPT ![d] = @ \cup {i}]
        /\ handled' = [handled EXCEPT ![i] = @ + 1] /\ ~MarkBeforeInvoke(i)
        /\ UNCHANGED <<nextRow, source, table, processed, pc, deferred>>
    BY <1>6 DEF DispatchOk, rowVars, boundVars, MarkProcessed
  <2>2. i \in table \ processed /\ i \in 1..(nextRow - 1) /\ i \in RowIds
    BY <1>1 DEF Claimable
  <2>3. \A e \in Drainers : i \notin okRows[e]
    BY <1>1 DEF MarkedInv
  <2>5. /\ handled'[i] = handled[i] + 1 /\ handled[i] \in Nat
        /\ \A j \in RowIds : j # i => handled'[j] = handled[j]
    BY <2>1, <2>2
  <2>6. ProcessedWasHandled'
    BY <2>1, <2>5 DEF ProcessedWasHandled
  <2>8. DeferredAtMostOnce'
    BY <2>1, <2>5 DEF DeferredAtMostOnce
  <2>9. FreshInv'
    BY <2>1, <2>2, <2>5 DEF FreshInv
  <2>10. MarkedInv'
    <3>1. ASSUME NEW e \in Drainers, NEW j \in okRows'[e], ~MarkBeforeInvoke(j)
          PROVE  handled'[j] >= 1
      BY <2>1, <2>5, <3>1 DEF MarkedInv
    <3>2. \A e \in Drainers : todo'[e] \cap okRows'[e] = {} /\ (pc'[e] # "phase1" => todo'[e] = {})
      BY <2>1, <2>3 DEF MarkedInv
    <3> QED
      BY <2>1, <3>1, <3>2 DEF MarkedInv
  <2>11. UnrunInv'
    BY <2>1, <2>5 DEF UnrunInv
  <2>12. DeferredInv'
    BY <2>1, <2>5 DEF DeferredInv
  <2> QED
    BY <2>6, <2>8, <2>9, <2>10, <2>11, <2>12
<1>7. ASSUME NEW i \in todo[d], NEW class \in Classes, DispatchFail(d, i, class) PROVE HistoryInv'
  <2>1. /\ todo' = [todo EXCEPT ![d] = @ \ {i}]
        /\ UNCHANGED <<nextRow, source, table, processed, pc, okRows, deferred, handled>>
    BY <1>7 DEF DispatchFail, rowVars, boundVars, MarkFailed, MarkDeadLettered
  <2>2. MarkedInv'
    BY <2>1 DEF MarkedInv
  <2>3. ProcessedWasHandled' /\ DeferredAtMostOnce'
    BY <2>1 DEF ProcessedWasHandled, DeferredAtMostOnce
  <2>4. FreshInv' /\ UnrunInv' /\ DeferredInv'
    BY <2>1 DEF FreshInv, UnrunInv, DeferredInv
  <2> QED
    BY <2>2, <2>3, <2>4
<1> QED
  BY <1>2, <1>3, <1>4, <1>5, <1>6, <1>7

\* Phase 2: a deferred handler runs, fails, or erases its tenant.
LEMMA HistoryPhase2 ==
  ASSUME TypeOK, HistoryInv, NEW d \in Drainers, NEW i \in deferred[d],
         \/ InstalledOk(d, i) \/ DeferredFail(d, i) \/ RedactIdempotent(d, i)
         \/ RedactRows(d, i) \/ RedactMerchant(d, i)
  PROVE  HistoryInv'
<1> USE OutboxAssumption DEF RowIds, HistoryInv, MarkBeforeInvoke, KindOf, TypeOK, RowTypeOK, DrainTypeOK
<1>1. /\ pc[d] = "phase2" /\ i \in 1..(nextRow - 1) /\ i \in RowIds
      /\ MarkBeforeInvoke(i) /\ handled[i] = 0 /\ i \notin table \ processed
  <2>1. pc[d] = "phase2"
    BY DEF InstalledOk, DeferredFail, RedactIdempotent, RedactRows, RedactMerchant, InPhase2, Unlocked
  <2> QED
    BY <2>1 DEF DeferredInv
<1>2. UNCHANGED <<nextRow, source, todo, okRows>>
  BY DEF InstalledOk, DeferredFail, RedactIdempotent, RedactRows, RedactMerchant, DeleteRows, rowVars, tx
<1>3. \/ UNCHANGED <<table, processed>>
      \/ \E S : table' = table \ S /\ processed' = processed \ S
  BY DEF InstalledOk, DeferredFail, RedactIdempotent, RedactRows, RedactMerchant, DeleteRows, rowVars, Unlocked
<1>4. \/ UNCHANGED handled
      \/ handled' = [handled EXCEPT ![i] = @ + 1] /\ FinishDeferred(d, i)
  BY DEF InstalledOk, DeferredFail, RedactIdempotent, RedactRows, RedactMerchant, Unlocked
<1>5. \/ UNCHANGED <<pc, deferred>>
      \/ FinishDeferred(d, i)
  BY DEF InstalledOk, DeferredFail, RedactIdempotent, RedactRows, RedactMerchant, Unlocked
<1>6. \A j \in RowIds : j # i => handled'[j] = handled[j]
  BY <1>1, <1>4
<1>7. handled'[i] \in {0, 1}
  BY <1>1, <1>4
<1>8. /\ table' \subseteq table /\ processed' \subseteq processed
      /\ table' \ processed' \subseteq table \ processed
      /\ processed' \subseteq table'
  BY <1>3 DEF FreshInv
<1>9. ProcessedWasHandled'
  BY <1>1, <1>2, <1>6, <1>8 DEF ProcessedWasHandled
<1>h. /\ nextRow' = nextRow /\ source' = source
      /\ nextRow \in Nat /\ handled'[i] \in {0, 1}
      /\ \A j \in 1..(nextRow - 1) : j \in RowIds
      /\ DeferredAtMostOnce
  BY <1>2, <1>7
<1>11. DeferredAtMostOnce'
  <2> HIDE DEF TypeOK, HistoryInv, RowTypeOK, DrainTypeOK, BoundTypeOK
  <2> SUFFICES ASSUME NEW j \in 1..(nextRow - 1), MarkBeforeInvoke(j) PROVE handled'[j] <= 1
    BY <1>h DEF DeferredAtMostOnce, MarkBeforeInvoke, KindOf
  <2>1. CASE j = i
    BY <1>h, <2>1
  <2>2. CASE j # i
    BY <1>h, <1>6, <2>2 DEF DeferredAtMostOnce
  <2> QED
    BY <2>1, <2>2
<1>12. FreshInv'
  BY <1>1, <1>2, <1>6, <1>8 DEF FreshInv
<1>13. MarkedInv'
  <2>1. \A e \in Drainers : pc'[e] # "phase1" => pc[e] # "phase1"
    BY <1>1, <1>5 DEF FinishDeferred, EndTick
  <2>2. \A e \in Drainers : \A j \in okRows[e] : ~MarkBeforeInvoke(j) => handled'[j] >= 1
    BY <1>1, <1>6 DEF MarkedInv
  <2> QED
    BY <1>2, <2>1, <2>2 DEF MarkedInv
<1>14. UnrunInv'
  <2>1. \A j \in table' \ processed' : handled'[j] = handled[j]
    BY <1>1, <1>6, <1>8
  <2> QED
    <3> SUFFICES ASSUME NEW j \in table' \ processed', MarkBeforeInvoke(j)' PROVE handled'[j] = 0
      BY DEF UnrunInv
    <3>1. j \in table \ processed /\ MarkBeforeInvoke(j) /\ handled'[j] = handled[j]
      BY <1>2, <1>8, <2>1
    <3> HIDE DEF TypeOK, HistoryInv, RowTypeOK, DrainTypeOK, MarkBeforeInvoke
    <3>2. UnrunInv
      BY DEF HistoryInv
    <3> QED
      BY <3>1, <3>2 DEF UnrunInv
<1>15. DeferredInv'
  <2>1. \A e \in Drainers : deferred'[e] \subseteq deferred[e]
    <3>1. deferred \in [Drainers -> SUBSET RowIds]
      OBVIOUS
    <3>2. deferred' = deferred \/ deferred' = [deferred EXCEPT ![d] = @ \ {i}]
      BY <1>5 DEF FinishDeferred
    <3> HIDE DEF TypeOK, HistoryInv, RowTypeOK, DrainTypeOK, MarkBeforeInvoke
    <3> QED
      BY <3>1, <3>2
  <2>2. ASSUME NEW e \in Drainers, NEW j \in deferred'[e]
        PROVE  handled'[j] = 0 /\ pc'[e] = pc[e]
    <3>1. CASE UNCHANGED <<pc, deferred>> /\ UNCHANGED handled
      BY <2>1, <2>2, <3>1 DEF DeferredInv
    <3>2. CASE FinishDeferred(d, i)
      <4>1. j # i
        BY <2>1, <2>2, <3>2 DEF FinishDeferred, DeferredInv
      <4>2. handled'[j] = 0
        BY <1>6, <2>1, <4>1 DEF DeferredInv
      <4>3. pc'[e] = pc[e]
        BY <2>2, <3>2 DEF FinishDeferred, EndTick
      <4> QED
        BY <4>2, <4>3
    <3> QED
      BY <1>4, <1>5, <3>1, <3>2
  <2>3. \A e, f \in Drainers : e # f => deferred'[e] \cap deferred'[f] = {}
    BY <2>1 DEF DeferredInv
  <2>4. ASSUME NEW e \in Drainers, NEW j \in deferred'[e]
        PROVE  /\ j \in 1..(nextRow - 1) /\ MarkBeforeInvoke(j)
               /\ \/ pc'[e] = "phase1" /\ j \in okRows[e]
                  \/ pc'[e] = "phase2" /\ j \notin table' \ processed'
    BY <1>8, <2>1, <2>2 DEF DeferredInv
  <2> QED
    BY <1>2, <2>2, <2>3, <2>4 DEF DeferredInv
<1> QED
  BY <1>9, <1>11, <1>12, <1>13, <1>14, <1>15

\* A handler that outlived its transaction returns.
LEMMA HistoryLate ==
  ASSUME TypeOK, LateInv, HistoryInv, NEW d \in Drainers, NEW i \in late[d],
         LateOk(d, i) \/ LateFail(d, i)
  PROVE  HistoryInv'
<1> USE OutboxAssumption DEF RowIds, HistoryInv, MarkBeforeInvoke, KindOf, TypeOK, RowTypeOK, DrainTypeOK
<1>1. /\ pc[d] = "late" /\ i \in 1..(nextRow - 1) /\ i \in RowIds /\ ~MarkBeforeInvoke(i)
      /\ deferred[d] = {} /\ todo[d] = {}
  BY DEF LateInv, DeferredInv, MarkedInv
<1>2. /\ pc' = [pc EXCEPT ![d] = "idle"]
      /\ UNCHANGED <<nextRow, source, table, processed, todo, okRows, deferred>>
      /\ UNCHANGED handled \/ handled' = [handled EXCEPT ![i] = @ + 1]
  BY DEF LateOk, LateFail, EndLate, rowVars, tx
<1>3. /\ \A j \in RowIds : j # i => handled'[j] = handled[j]
      /\ handled[i] \in Nat /\ handled'[i] \in Nat /\ handled'[i] >= handled[i]
  BY <1>1, <1>2
<1>4. ProcessedWasHandled'
  BY <1>2, <1>3 DEF ProcessedWasHandled
<1>5. DeferredAtMostOnce'
  BY <1>1, <1>2, <1>3 DEF DeferredAtMostOnce
<1>6. FreshInv'
  BY <1>1, <1>2, <1>3 DEF FreshInv
<1>7. MarkedInv'
  <2>1. ASSUME NEW e \in Drainers, NEW j \in okRows[e], ~MarkBeforeInvoke(j) PROVE handled'[j] >= 1
    <3>1. j \in RowIds
      OBVIOUS
    <3>2. handled[j] >= 1
      BY <2>1 DEF MarkedInv
    <3> HIDE DEF TypeOK, HistoryInv, RowTypeOK, DrainTypeOK, MarkBeforeInvoke
    <3> QED
      BY <1>3, <3>1, <3>2
  <2> QED
    BY <1>1, <1>2, <2>1 DEF MarkedInv
<1>8. UnrunInv'
  BY <1>1, <1>2, <1>3 DEF UnrunInv
<1>9. DeferredInv'
  <2>1. \A e \in Drainers : \A j \in deferred[e] : e # d /\ handled'[j] = handled[j]
    BY <1>1, <1>3 DEF DeferredInv
  <2> QED
    BY <1>2, <2>1 DEF DeferredInv
<1> QED
  BY <1>4, <1>5, <1>6, <1>7, <1>8, <1>9

LEMMA HistoryStep ==
  ASSUME TypeOK, ClaimsAreExclusive, LateInv, HistoryInv, [Next]_vars
  PROVE  HistoryInv'
<1> DEFINE frame == <<nextRow, source, table, processed, pc, todo, okRows, deferred, handled>>
<1>2. CASE UNCHANGED frame
  BY <1>2, HistoryFrame
<1>3. ASSUME NEW s \in Sources, Install(s) \/ Publish(s) \/ Ingest(s) PROVE HistoryInv'
  <2>1. InsertRow(s) \/ UNCHANGED rowVars
    BY <1>3 DEF Install, Publish, Ingest
  <2>2. UNCHANGED <<pc, todo, okRows, deferred, handled>>
    BY <1>3 DEF Install, Publish, Ingest, drainVars, tx
  <2> QED
    BY <1>2, <2>1, <2>2, HistoryInsert DEF rowVars
<1>4. ASSUME NEW d \in Drainers, Boot(d) PROVE HistoryInv'
  <2>1. /\ pc[d] = "down" /\ pc' = [pc EXCEPT ![d] = "idle"]
        /\ UNCHANGED <<nextRow, source, table, processed, todo, okRows, deferred, handled>>
    BY <1>4 DEF Boot, rowVars, tx
  <2> USE DEF HistoryInv, MarkBeforeInvoke, KindOf, TypeOK, DrainTypeOK
  <2>2. deferred[d] = {} /\ todo[d] = {}
    BY <2>1 DEF DeferredInv, MarkedInv
  <2>3. DeferredInv'
    BY <2>1, <2>2 DEF DeferredInv
  <2>4. MarkedInv'
    BY <2>1, <2>2 DEF MarkedInv
  <2> QED
    BY <2>1, <2>3, <2>4 DEF ProcessedWasHandled, DeferredAtMostOnce, FreshInv, UnrunInv
<1>5. ASSUME NEW d \in Drainers, StalledTick(d) PROVE UNCHANGED frame
  BY <1>5 DEF StalledTick, rowVars, tx
<1>6. ASSUME NEW d \in Drainers, NEW i \in deferred[d], RedactStart(d, i) \/ RedactKeys(d, i)
      PROVE  UNCHANGED frame
  BY <1>6 DEF RedactStart, RedactKeys, rowVars, tx
<1>7. ASSUME NEW i \in RowIds, Replay(i) \/ ForceDeadLetter(i) PROVE UNCHANGED frame
  BY <1>7 DEF Replay, ForceDeadLetter, drainVars, tx, Unlocked
<1>8. ASSUME NEW d \in Drainers, IdleTick(d) PROVE UNCHANGED frame
  BY <1>8 DEF IdleTick, vars, rowVars, drainVars, tx
<1>9. CASE UNCHANGED vars
  BY <1>2, <1>9 DEF vars, rowVars, drainVars, tx
<1> HIDE DEF frame
<1> QED
  BY <1>2, <1>3, <1>4, <1>5, <1>6, <1>7, <1>8, <1>9, HistoryPhase1, HistoryPhase2, HistoryLate,
     OutboxAssumption
  DEF Next, Drain

LEMMA LateStep ==
  ASSUME TypeOK, ClaimsAreExclusive, LateInv, [Next]_vars
  PROVE  LateInv'
<1> USE OutboxAssumption DEF LateInv, MarkBeforeInvoke, KindOf, RowIds
<1> DEFINE frame == <<nextRow, source, late>>
<1>1. ASSUME UNCHANGED frame, NEW d \in Drainers, UNCHANGED pc \/ \E v : pc' = [pc EXCEPT ![d] = v],
             pc[d] # "late"
      PROVE  LateInv'
  BY <1>1 DEF TypeOK, DrainTypeOK
<1>2. CASE UNCHANGED <<frame, pc>>
  BY <1>2
<1>3. ASSUME NEW s \in Sources, Install(s) \/ Publish(s) \/ Ingest(s) PROVE LateInv'
  <2>1. InsertRow(s) \/ UNCHANGED rowVars
    BY <1>3 DEF Install, Publish, Ingest
  <2>2. UNCHANGED <<late, pc>>
    BY <1>3 DEF Install, Publish, Ingest, drainVars
  <2>3. /\ nextRow' \in {nextRow, nextRow + 1} /\ nextRow \in Nat
        /\ \A j \in 1..(nextRow - 1) : source'[j] = source[j]
    <3>1. nextRow' \in {nextRow, nextRow + 1} /\ nextRow \in Nat
      BY <2>1 DEF rowVars, InsertRow, TypeOK, RowTypeOK
    <3>2. \A j \in 1..(nextRow - 1) : source'[j] = source[j]
      BY SourceIsStable
    <3> QED
      BY <3>1, <3>2
  <2> QED
    BY <2>2, <2>3
<1>4. ASSUME NEW d \in Drainers, NEW i \in todo[d], Expire(d, i) PROVE LateInv'
  <2>1. /\ pc[d] = "phase1" /\ pc' = [pc EXCEPT ![d] = "late"] /\ late' = [late EXCEPT ![d] = {i}]
        /\ ~MarkBeforeInvoke(i) /\ UNCHANGED <<nextRow, source>>
    BY <1>4 DEF Expire, LoseTx, rowVars
  <2>2. i \in 1..(nextRow - 1)
    <3>1. i \in Locked
      BY <1>4 DEF Locked, LockedBy
    <3>2. i \in table
      BY <3>1 DEF ClaimsAreExclusive, Claimable
    <3> QED
      BY <3>2 DEF TypeOK, RowTypeOK
  <2> QED
    BY <2>1, <2>2 DEF TypeOK, DrainTypeOK
<1>5. ASSUME NEW d \in Drainers, Crash(d) \/ \E i \in late[d] : LateOk(d, i) \/ LateFail(d, i) PROVE LateInv'
  <2>1. /\ late' = [late EXCEPT ![d] = {}] /\ UNCHANGED <<nextRow, source>>
        /\ \A e \in Drainers : e # d => pc'[e] = pc[e]
    BY <1>5 DEF Crash, LateOk, LateFail, EndLate, rowVars, TypeOK, DrainTypeOK
  <2> QED
    BY <2>1 DEF TypeOK, DrainTypeOK
<1>6. ASSUME NEW d \in Drainers, Boot(d) \/ StartTick(d) \/ Commit(d) \/ Abort(d) PROVE LateInv'
  <2>1. /\ UNCHANGED <<nextRow, source, late>> /\ pc[d] # "late"
        /\ \E v : pc' = [pc EXCEPT ![d] = v]
    <3>1. CASE Boot(d) \/ StartTick(d)
      BY <3>1 DEF Boot, StartTick, rowVars
    <3>2. CASE Commit(d)
      BY <3>2 DEF Commit, EndTick
    <3>3. CASE Abort(d)
      BY <3>3 DEF Abort, LoseTx, rowVars
    <3> QED
      BY <1>6, <3>1, <3>2, <3>3
  <2> QED
    BY <1>1, <2>1
<1>7. ASSUME NEW d \in Drainers, NEW i \in deferred[d],
             \/ InstalledOk(d, i) \/ DeferredFail(d, i) \/ RedactIdempotent(d, i) \/ RedactMerchant(d, i)
      PROVE  LateInv'
  <2>1. UNCHANGED <<nextRow, source, late>> /\ pc[d] = "phase2" /\ FinishDeferred(d, i)
    BY <1>7 DEF InstalledOk, DeferredFail, RedactIdempotent, RedactMerchant, InPhase2, DeleteRows, rowVars, Unlocked
  <2>2. UNCHANGED pc \/ pc' = [pc EXCEPT ![d] = "idle"]
    BY <2>1 DEF FinishDeferred, EndTick
  <2> QED
    BY <1>1, <2>1, <2>2
<1>8. ASSUME NEW d \in Drainers,
             \/ IdleTick(d) \/ StalledTick(d)
             \/ \E i \in todo[d] : \/ DeferRow(d, i) \/ DispatchOk(d, i)
                                   \/ \E class \in Classes : DispatchFail(d, i, class)
             \/ \E i \in deferred[d] : RedactStart(d, i) \/ RedactRows(d, i) \/ RedactKeys(d, i)
      PROVE  UNCHANGED <<frame, pc>>
  BY <1>8 DEF IdleTick, StalledTick, DeferRow, DispatchOk, DispatchFail, RedactStart, RedactRows, RedactKeys,
              DeleteRows, vars, rowVars, drainVars, Unlocked
<1>9. ASSUME NEW i \in RowIds, Replay(i) \/ ForceDeadLetter(i) PROVE UNCHANGED <<frame, pc>>
  BY <1>9 DEF Replay, ForceDeadLetter, drainVars, Unlocked
<1>10. CASE UNCHANGED vars
  BY <1>2, <1>10 DEF vars, rowVars, drainVars
<1> HIDE DEF LateInv, frame
<1> QED
  BY <1>2, <1>3, <1>4, <1>5, <1>6, <1>7, <1>8, <1>9, <1>10 DEF Next, Drain

LEMMA HistoryInvariant == Spec => [](HistoryInv /\ LateInv)
<1>1. Init => HistoryInv /\ LateInv
  BY OutboxAssumption DEF Init, HistoryInv, ProcessedWasHandled, DeferredAtMostOnce, FreshInv, MarkedInv,
     UnrunInv, DeferredInv, LateInv, RowIds
<1> QED
  BY <1>1, TypeCorrect, ClaimsExclusive, HistoryStep, LateStep, PTL DEF Spec

\* At least once: an ordinary event marked processed was handled, whatever
\* transactions were rolled back and whatever operators requeued.
THEOREM ProcessedMeansHandled == Spec => []ProcessedWasHandled
<1>1. HistoryInv => ProcessedWasHandled
  BY DEF HistoryInv
<1> QED
  BY <1>1, HistoryInvariant, PTL

\* At most once: an event deferred past the commit is not handled again after a
\* crash, a stalled tick or an operator's replay.
THEOREM DeferredHandledOnce == Spec => []DeferredAtMostOnce
<1>1. HistoryInv => DeferredAtMostOnce
  BY DEF HistoryInv
<1> QED
  BY <1>1, HistoryInvariant, PTL

----------------------------------------------------------------------------
(* What a second run of a handler costs *)

\* The processes whose handler of row i outlives its transaction.
LateOn(i) == {d \in Drainers : i \in late[d]}

\* The completed runs of a row, and the late ones that may still complete.
Owed(i) == handled[i] + Cardinality(LateOn(i))

Lost == crashes + aborts

\* A row a drainer may still dispatch and mark.
Unmarked(i) == i \in table \ processed /\ \A d \in Drainers : i \notin okRows[d]

\* The strengthening of RedeliveryOnlyAfterRollback: a run is paid for when its
\* transaction is lost, before a late handler returns, so a row that can be
\* dispatched again owes nothing beyond the transactions lost so far.
Paid(i) == Owed(i) <= Lost + (IF Unmarked(i) THEN 0 ELSE 1)
PaidInv == \A i \in RowIds : Paid(i)

\* The counts are natural numbers: there are finitely many processes.
LEMMA OwedIsNat ==
  ASSUME TypeOK, NEW i \in RowIds
  PROVE  /\ IsFiniteSet(LateOn(i)) /\ Cardinality(LateOn(i)) \in Nat
         /\ handled[i] \in Nat /\ Owed(i) \in Nat /\ Lost \in Nat
<1>1. IsFiniteSet(LateOn(i))
  <2>1. LateOn(i) \subseteq Drainers /\ IsFiniteSet(Drainers)
    BY OutboxAssumption DEF LateOn
  <2> QED
    BY <2>1, FS_Subset
<1>2. Cardinality(LateOn(i)) \in Nat
  BY <1>1, FS_CardinalityType
<1>3. handled[i] \in Nat
  BY DEF TypeOK, RowTypeOK
<1>4. Lost \in Nat
  BY OutboxAssumption DEF TypeOK, BoundTypeOK, Lost
<1> QED
  BY <1>1, <1>2, <1>3, <1>4 DEF Owed

\* One process changes the row it is late with.
LEMMA LateOnMoves ==
  ASSUME TypeOK, NEW i \in RowIds, NEW d \in Drainers, NEW S, late' = [late EXCEPT ![d] = S]
  PROVE  /\ i \in S /\ i \notin late[d] => Cardinality(LateOn(i)') = Cardinality(LateOn(i)) + 1
         /\ i \notin S /\ i \in late[d] => Cardinality(LateOn(i)') = Cardinality(LateOn(i)) - 1
         /\ (i \in S <=> i \in late[d]) => LateOn(i)' = LateOn(i)
<1>1. late'[d] = S /\ \A e \in Drainers : e # d => late'[e] = late[e]
  BY DEF TypeOK, DrainTypeOK
<1>2. CASE i \in S /\ i \notin late[d]
  <2>1. LateOn(i)' = LateOn(i) \cup {d} /\ d \notin LateOn(i)
    BY <1>1, <1>2 DEF LateOn
  <2> QED
    BY <1>2, <2>1, OwedIsNat, FS_AddElement
<1>3. CASE i \notin S /\ i \in late[d]
  <2>1. LateOn(i)' = LateOn(i) \ {d} /\ d \in LateOn(i)
    BY <1>1, <1>3 DEF LateOn
  <2> QED
    BY <1>3, <2>1, OwedIsNat, FS_RemoveElement
<1>4. CASE i \in S <=> i \in late[d]
  BY <1>1, <1>4 DEF LateOn
<1> QED
  BY <1>2, <1>3, <1>4

\* A step that adds no run keeps a row paid for, unless it forgets a mark; a
\* lost transaction may forget one.
LEMMA PaidQuietly ==
  ASSUME TypeOK, NEW i \in RowIds, Paid(i), Owed(i)' \in Int, Owed(i)' <= Owed(i),
         \/ Lost' \in {Lost, Lost + 1} /\ (Unmarked(i)' => Unmarked(i))
         \/ Lost' = Lost + 1
  PROVE  Paid(i)'
<1>1. Owed(i) \in Nat /\ Lost \in Nat
  BY OwedIsNat
<1> QED
  BY <1>1 DEF Paid

\* Steps without a run: claims, marks, commits, erasures, operators, restarts.
LEMMA PaidFrame ==
  ASSUME TypeOK, PaidInv, UNCHANGED <<handled, late>>, Lost' \in {Lost, Lost + 1},
         NEW S, \A i \in RowIds \ S : Unmarked(i)' => Unmarked(i)
  PROVE  \A i \in RowIds \ S : Paid(i)'
<1> SUFFICES ASSUME NEW i \in RowIds \ S PROVE Paid(i)'
  OBVIOUS
<1>1. Owed(i)' = Owed(i) /\ Owed(i) \in Nat
  BY OwedIsNat DEF Owed, LateOn
<1>2. Paid(i)
  BY DEF PaidInv
<1> QED
  BY <1>1, <1>2, PaidQuietly

LEMMA PaidStep ==
  ASSUME TypeOK, ClaimsAreExclusive, HistoryInv, LateInv, PaidInv, [Next]_vars
  PROVE  PaidInv'
<1> DEFINE frame == <<table, processed, okRows, handled, late, crashes, aborts>>
<1>0. RowIds' = RowIds /\ \A i \in RowIds : Owed(i) \in Nat /\ Lost \in Nat /\ handled[i] \in Nat
  BY OwedIsNat DEF RowIds
<1>f. ASSUME UNCHANGED <<handled, late>>, Lost' \in {Lost, Lost + 1}, \A i \in RowIds : Unmarked(i)' => Unmarked(i)
      PROVE  PaidInv'
  BY <1>f, <1>0, PaidFrame DEF PaidInv
<1>1. CASE UNCHANGED frame
  <2>1. Lost' = Lost /\ \A i \in RowIds : Unmarked(i)' => Unmarked(i)
    BY <1>1 DEF Lost, Unmarked
  <2> QED
    BY <1>1, <1>f, <2>1
<1>2. ASSUME NEW s \in Sources, Install(s) \/ Publish(s) \/ Ingest(s) PROVE PaidInv'
  <2>1. UNCHANGED <<processed, okRows, handled, late, crashes, aborts>>
    BY <1>2 DEF Install, Publish, Ingest, InsertRow, rowVars, drainVars, tx, boundVars
  <2>2. CASE UNCHANGED rowVars
    BY <1>1, <2>1, <2>2 DEF rowVars
  <2>3. CASE InsertRow(s)
    <3>1. Lost' = Lost /\ nextRow \in RowIds /\ table' = table \cup {nextRow}
      BY <2>1, <2>3 DEF Lost, InsertRow, TypeOK, RowTypeOK, RowIds
    <3>2. \A i \in RowIds \ {nextRow} : Unmarked(i)' => Unmarked(i)
      BY <2>1, <3>1 DEF Unmarked
    <3>3. \A i \in RowIds \ {nextRow} : Paid(i)'
      BY <2>1, <3>1, <3>2, PaidFrame
    <3>4. ASSUME NEW i \in RowIds, i = nextRow PROVE Paid(i)'
      <4>1. handled[i] = 0
        BY <3>1, <3>4 DEF HistoryInv, FreshInv, RowIds, TypeOK, RowTypeOK
      <4>2. LateOn(i) = {}
        BY <3>4 DEF LateOn, LateInv, TypeOK, RowTypeOK
      <4>3. Owed(i)' = 0
        BY <2>1, <4>1, <4>2, FS_EmptySet DEF Owed, LateOn
      <4> QED
        BY <1>0, <3>1, <4>3 DEF Paid
    <3> QED
      BY <3>3, <3>4, <1>0 DEF PaidInv
  <2> QED
    BY <1>2, <2>2, <2>3 DEF Install, Publish, Ingest
<1>3. ASSUME NEW d \in Drainers, Commit(d) PROVE PaidInv'
  <2>1. /\ processed' = processed \cup okRows[d] /\ okRows' = [okRows EXCEPT ![d] = {}]
        /\ UNCHANGED <<table, handled, late, crashes, aborts>>
    BY <1>3 DEF Commit, CloseTx, boundVars
  <2>2. \A i \in RowIds : Unmarked(i)' => Unmarked(i)
    BY <2>1 DEF Unmarked, TypeOK, DrainTypeOK
  <2>3. Lost' = Lost
    BY <2>1 DEF Lost
  <2> QED
    BY <1>f, <2>1, <2>2, <2>3
<1>4. ASSUME NEW d \in Drainers, NEW i \in todo[d],
             DeferRow(d, i) \/ \E class \in Classes : DispatchFail(d, i, class)
      PROVE  PaidInv'
  <2>1. /\ okRows' = okRows \/ okRows' = [okRows EXCEPT ![d] = @ \cup {i}]
        /\ UNCHANGED <<table, processed, handled, late, crashes, aborts>>
    BY <1>4 DEF DeferRow, DispatchFail, MarkProcessed, MarkFailed, MarkDeadLettered, rowVars, boundVars
  <2>2. \A j \in RowIds : Unmarked(j)' => Unmarked(j)
    BY <2>1 DEF Unmarked, TypeOK, DrainTypeOK
  <2>3. Lost' = Lost
    BY <2>1 DEF Lost
  <2> QED
    BY <1>f, <2>1, <2>2, <2>3
<1>5. ASSUME NEW d \in Drainers, NEW i \in todo[d], DispatchOk(d, i) PROVE PaidInv'
  <2>1. /\ okRows' = [okRows EXCEPT ![d] = @ \cup {i}] /\ handled' = [handled EXCEPT ![i] = @ + 1]
        /\ UNCHANGED <<table, processed, late, crashes, aborts>>
    BY <1>5 DEF DispatchOk, MarkProcessed, rowVars, boundVars
  <2>2. i \in RowIds /\ Unmarked(i)
    <3>1. i \in LockedBy(d) /\ i \in Locked
      BY DEF Locked, LockedBy
    <3>2. i \in table \ processed
      BY <3>1 DEF ClaimsAreExclusive, Claimable
    <3>3. i \notin okRows[d]
      BY DEF HistoryInv, MarkedInv
    <3>4. \A e \in Drainers : e # d => i \notin okRows[e]
      BY <3>1 DEF ClaimsAreExclusive, LockedBy
    <3>5. i \in RowIds
      BY DrainerRows
    <3> QED
      BY <3>2, <3>3, <3>4, <3>5 DEF Unmarked
  <2>3. Lost' = Lost /\ Lost \in Nat
    BY <2>1, <2>2, <1>0 DEF Lost
  <2>4. ~Unmarked(i)'
    BY <2>1 DEF Unmarked, TypeOK, DrainTypeOK
  <2>5. Owed(i)' = Owed(i) + 1
    <3>1. handled'[i] = handled[i] + 1
      BY <2>1, <2>2 DEF TypeOK, RowTypeOK
    <3>2. LateOn(i)' = LateOn(i)
      BY <2>1 DEF LateOn
    <3> QED
      BY <2>2, <3>1, <3>2, OwedIsNat DEF Owed
  <2>6. Paid(i)'
    <3>1. Owed(i) <= Lost /\ Owed(i) \in Nat
      BY <2>2, <1>0 DEF PaidInv, Paid
    <3> QED
      BY <2>3, <2>4, <2>5, <3>1 DEF Paid
  <2>7. ASSUME NEW j \in RowIds, j # i PROVE Paid(j)'
    <3>1. Owed(j)' = Owed(j) /\ Owed(j) \in Nat
      BY <2>1, <2>7, OwedIsNat DEF Owed, LateOn, TypeOK, RowTypeOK
    <3>2. Unmarked(j)' => Unmarked(j)
      BY <2>1, <2>7 DEF Unmarked, TypeOK, DrainTypeOK
    <3>3. Paid(j)
      BY DEF PaidInv
    <3> QED
      BY <2>3, <3>1, <3>2, <3>3, PaidQuietly
  <2> QED
    BY <1>0, <2>6, <2>7 DEF PaidInv
<1>6. ASSUME NEW d \in Drainers, NEW i \in todo[d], Expire(d, i) PROVE PaidInv'
  <2>1. /\ pc[d] = "phase1" /\ late' = [late EXCEPT ![d] = {i}] /\ aborts' = aborts + 1
        /\ okRows' = [okRows EXCEPT ![d] = {}]
        /\ UNCHANGED <<table, processed, handled, crashes>>
    BY <1>6 DEF Expire, LoseTx, CloseTx, rowVars
  <2>2. i \in RowIds /\ Unmarked(i)
    <3>1. i \in LockedBy(d) /\ i \in Locked
      BY DEF Locked, LockedBy
    <3>2. i \in table \ processed
      BY <3>1 DEF ClaimsAreExclusive, Claimable
    <3>3. i \notin okRows[d]
      BY DEF HistoryInv, MarkedInv
    <3>4. \A e \in Drainers : e # d => i \notin okRows[e]
      BY <3>1 DEF ClaimsAreExclusive, LockedBy
    <3>5. i \in RowIds
      BY DrainerRows
    <3> QED
      BY <3>2, <3>3, <3>4, <3>5 DEF Unmarked
  <2>3. Lost' = Lost + 1 /\ Lost \in Nat
    <3>1. crashes \in Nat /\ aborts \in Nat
      BY OutboxAssumption DEF TypeOK, BoundTypeOK
    <3> QED
      BY <2>1, <3>1 DEF Lost
  <2>4. late[d] = {}
    BY <2>1 DEF LateInv
  <2>5. Paid(i)'
    <3>1. Owed(i)' = Owed(i) + 1
      <4>1. Cardinality(LateOn(i)') = Cardinality(LateOn(i)) + 1
        BY <2>1, <2>2, <2>4, LateOnMoves
      <4>2. handled'[i] = handled[i] /\ handled[i] \in Nat /\ Cardinality(LateOn(i)) \in Nat
        BY <2>1, <2>2, OwedIsNat
      <4> QED
        BY <4>1, <4>2 DEF Owed
    <3>2. Owed(i) <= Lost /\ Owed(i) \in Nat
      BY <2>2, <1>0 DEF PaidInv, Paid
    <3> QED
      BY <2>3, <3>1, <3>2 DEF Paid
  <2>6. ASSUME NEW j \in RowIds, j # i PROVE Paid(j)'
    <3>0. (j \in {i} <=> j \in late[d]) /\ late' = [late EXCEPT ![d] = {i}]
      BY <2>1, <2>4, <2>6
    <3>1. LateOn(j)' = LateOn(j)
      BY <3>0, LateOnMoves
    <3>2. Owed(j)' = Owed(j) /\ Owed(j) \in Nat
      BY <2>1, <3>1, OwedIsNat DEF Owed
    <3>3. Paid(j)
      BY DEF PaidInv
    <3> QED
      BY <2>3, <3>2, <3>3, PaidQuietly
  <2> QED
    BY <1>0, <2>5, <2>6 DEF PaidInv
<1>7. ASSUME NEW d \in Drainers, Abort(d) \/ Crash(d) PROVE PaidInv'
  <2>1. /\ UNCHANGED <<table, processed, handled>>
        /\ late' = late \/ late' = [late EXCEPT ![d] = {}]
        /\ \/ crashes' = crashes + 1 /\ aborts' = aborts
           \/ crashes' = crashes /\ aborts' = aborts + 1
    BY <1>7 DEF Abort, Crash, LoseTx, rowVars
  <2>2. Lost' = Lost + 1
    <3>1. crashes \in Nat /\ aborts \in Nat
      BY OutboxAssumption DEF TypeOK, BoundTypeOK
    <3> QED
      BY <2>1, <3>1 DEF Lost
  <2>3. ASSUME NEW i \in RowIds PROVE Owed(i)' \in Int /\ Owed(i)' <= Owed(i)
    <3>1. \/ LateOn(i)' = LateOn(i)
          \/ Cardinality(LateOn(i)') = Cardinality(LateOn(i)) - 1
      BY <2>1, LateOnMoves DEF LateOn
    <3> QED
      BY <2>1, <3>1, OwedIsNat DEF Owed
  <2> QED
    BY <1>0, <2>2, <2>3, PaidQuietly DEF PaidInv
<1>8. ASSUME NEW d \in Drainers, NEW i \in late[d], LateOk(d, i) \/ LateFail(d, i) PROVE PaidInv'
  <2>1. /\ late' = [late EXCEPT ![d] = {}]
        /\ handled' = handled \/ handled' = [handled EXCEPT ![i] = @ + 1]
        /\ UNCHANGED <<table, processed, okRows, crashes, aborts>>
    BY <1>8 DEF LateOk, LateFail, EndLate, rowVars, tx, boundVars
  <2>2. i \in RowIds /\ late[d] = {i}
    BY DEF LateInv, TypeOK, DrainTypeOK
  <2>3. ASSUME NEW j \in RowIds PROVE Owed(j)' \in Int /\ Owed(j)' <= Owed(j)
    <3>1. CASE j = i
      <4>0. j \notin {} /\ j \in late[d] /\ late' = [late EXCEPT ![d] = {}]
        BY <2>1, <2>2, <3>1
      <4>1. Cardinality(LateOn(j)') = Cardinality(LateOn(j)) - 1
        <5>1. late \in [Drainers -> SUBSET RowIds]
          BY DEF TypeOK, DrainTypeOK
        <5>2. LateOn(j)' = LateOn(j) \ {d} /\ d \in LateOn(j)
          BY <4>0, <5>1 DEF LateOn
        <5> QED
          BY <5>2, OwedIsNat, FS_RemoveElement
      <4>2. handled'[j] \in {handled[j], handled[j] + 1}
        BY <2>1, <2>2, <3>1 DEF TypeOK, RowTypeOK
      <4> QED
        BY <4>1, <4>2, OwedIsNat DEF Owed
    <3>2. CASE j # i
      <4>0. (j \in {} <=> j \in late[d]) /\ late' = [late EXCEPT ![d] = {}]
        BY <2>1, <2>2, <3>2
      <4>1. LateOn(j)' = LateOn(j)
        BY <4>0, LateOnMoves DEF LateOn
      <4>2. handled'[j] = handled[j]
        BY <2>1, <3>2 DEF TypeOK, RowTypeOK
      <4> QED
        BY <4>1, <4>2, OwedIsNat DEF Owed
    <3> QED
      BY <3>1, <3>2
  <2>4. Lost' = Lost /\ \A j \in RowIds : Unmarked(j)' => Unmarked(j)
    BY <2>1 DEF Lost, Unmarked
  <2> QED
    BY <1>0, <2>3, <2>4, PaidQuietly DEF PaidInv
<1>9. ASSUME NEW d \in Drainers, NEW i \in deferred[d],
             InstalledOk(d, i) \/ RedactIdempotent(d, i) \/ RedactMerchant(d, i)
      PROVE  PaidInv'
  <2>1. /\ pc[d] = "phase2" /\ handled' = [handled EXCEPT ![i] = @ + 1]
        /\ UNCHANGED <<okRows, late, crashes, aborts>>
        /\ \/ UNCHANGED <<table, processed>>
           \/ \E S : table' = table \ S /\ processed' = processed \ S
    BY <1>9 DEF InstalledOk, RedactIdempotent, RedactMerchant, InPhase2, DeleteRows, rowVars, tx,
                boundVars, Unlocked
  <2>2. i \in RowIds /\ MarkBeforeInvoke(i) /\ handled[i] = 0 /\ ~Unmarked(i)
    BY <2>1, DrainerRows DEF HistoryInv, DeferredInv, Unmarked
  <2>3. Lost' = Lost /\ \A j \in RowIds : Unmarked(j)' => Unmarked(j)
    BY <2>1 DEF Lost, Unmarked
  <2>4. Paid(i)'
    <3>1. LateOn(i)' = {}
      BY <2>1, <2>2 DEF LateOn, LateInv
    <3>2. handled'[i] = 1
      BY <2>1, <2>2 DEF TypeOK, RowTypeOK
    <3>3. Owed(i)' = 1
      BY <3>1, <3>2, FS_EmptySet DEF Owed
    <3>4. Lost' \in Nat /\ ~Unmarked(i)'
      BY <1>0, <2>2, <2>3
    <3> QED
      BY <3>3, <3>4 DEF Paid
  <2>5. ASSUME NEW j \in RowIds, j # i PROVE Paid(j)'
    <3>1. Owed(j)' = Owed(j) /\ Owed(j) \in Nat
      BY <2>1, <2>5, OwedIsNat DEF Owed, LateOn, TypeOK, RowTypeOK
    <3>2. Paid(j)
      BY DEF PaidInv
    <3> QED
      BY <1>0, <2>3, <3>1, <3>2, PaidQuietly
  <2> QED
    BY <1>0, <2>4, <2>5 DEF PaidInv
<1>10. ASSUME NEW d \in Drainers, NEW i \in deferred[d], DeferredFail(d, i) \/ RedactRows(d, i)
       PROVE  PaidInv'
  <2>1. /\ UNCHANGED <<okRows, handled, late, crashes, aborts>>
        /\ \/ UNCHANGED <<table, processed>>
           \/ \E S : table' = table \ S /\ processed' = processed \ S
    BY <1>10 DEF DeferredFail, RedactRows, DeleteRows, rowVars, tx, boundVars, Unlocked
  <2>2. Lost' = Lost /\ \A j \in RowIds : Unmarked(j)' => Unmarked(j)
    BY <2>1 DEF Lost, Unmarked
  <2> QED
    BY <1>f, <2>1, <2>2
<1>11. ASSUME NEW d \in Drainers, StalledTick(d) PROVE PaidInv'
  <2>1. /\ UNCHANGED <<table, processed, okRows, handled, late, aborts>> /\ crashes' = crashes + 1
    BY <1>11 DEF StalledTick, rowVars, tx
  <2>2. Lost' = Lost + 1 /\ \A j \in RowIds : Unmarked(j)' => Unmarked(j)
    <3>1. crashes \in Nat /\ aborts \in Nat
      BY OutboxAssumption DEF TypeOK, BoundTypeOK
    <3> QED
      BY <2>1, <3>1 DEF Lost, Unmarked
  <2> QED
    BY <1>f, <2>1, <2>2
<1>12. ASSUME NEW d \in Drainers,
              \/ Boot(d) \/ StartTick(d) \/ IdleTick(d)
              \/ \E i \in deferred[d] : RedactStart(d, i) \/ RedactKeys(d, i)
       PROVE  UNCHANGED frame
  BY <1>12 DEF Boot, StartTick, IdleTick, RedactStart, RedactKeys, vars, rowVars, drainVars, tx, boundVars
<1>13. ASSUME NEW i \in RowIds, Replay(i) \/ ForceDeadLetter(i) PROVE UNCHANGED frame
  BY <1>13 DEF Replay, ForceDeadLetter, drainVars, tx, Unlocked
<1>14. CASE UNCHANGED vars
  BY <1>1, <1>14 DEF vars, rowVars, drainVars, tx, boundVars
<1> HIDE DEF frame
<1> QED
  BY <1>1, <1>2, <1>3, <1>4, <1>5, <1>6, <1>7, <1>8, <1>9, <1>10, <1>11, <1>12, <1>13, <1>14,
     OutboxAssumption
  DEF Next, Drain

\* Every completed run of a handler beyond the first is paid for by a lost tick
\* transaction, also when the handler outlives the transaction that claimed its
\* row and completes after another replica has settled it.
THEOREM HandledAsPromised == Spec => []RedeliveryOnlyAfterRollback
<1>1. Init => PaidInv
  <2> SUFFICES ASSUME Init, NEW i \in RowIds PROVE Paid(i)
    BY DEF PaidInv
  <2>1. LateOn(i) = {} /\ handled[i] = 0 /\ Lost = 0 /\ Unmarked(i) = FALSE
    BY DEF Init, LateOn, Lost, Unmarked
  <2> QED
    BY <2>1, FS_EmptySet DEF Paid, Owed
<1>2. TypeOK /\ PaidInv => RedeliveryOnlyAfterRollback
  <2> SUFFICES ASSUME TypeOK, PaidInv, NEW i \in RowIds PROVE handled[i] <= 1 + crashes + aborts
    BY DEF RedeliveryOnlyAfterRollback
  <2>1. Owed(i) <= Lost + 1
    BY OwedIsNat DEF PaidInv, Paid
  <2>2. handled[i] <= Lost + 1
    BY <2>1, OwedIsNat DEF Owed
  <2> QED
    BY <2>2, OutboxAssumption DEF Lost, TypeOK, BoundTypeOK
<1>3. TypeOK /\ ClaimsAreExclusive /\ HistoryInv /\ LateInv /\ PaidInv /\ [Next]_vars => PaidInv'
  BY PaidStep
<1> QED
  BY <1>1, <1>2, <1>3, TypeCorrect, ClaimsExclusive, HistoryInvariant, PTL DEF Spec

----------------------------------------------------------------------------
(* Erasure *)

\* The inductive core of ErasedLeavesNothing: that no drainer works on an erased
\* tenant follows from the exclusivity of claims.
ErasedInv ==
  \A m \in Merchants : merchant[m] = "erased" => RowsOf(m) = {} /\ KeysOf(m) = {}

LEMMA ErasedStep ==
  ASSUME TypeOK, ErasedInv, [Next]_vars
  PROVE  ErasedInv'
<1> USE OutboxAssumption DEF ErasedInv, RowsOf, KeysOf, TenantOf
<1> DEFINE frame == <<merchant, keys, source, table>>
<1>1. ASSUME NEW s \in Sources, NEW m \in Merchants, m = Tenant[s], merchant'[m] = "live",
             \A n \in Merchants : merchant'[n] = "erased" => merchant[n] = "erased",
             keys' \subseteq keys \cup {s}, InsertRow(s) \/ UNCHANGED rowVars
      PROVE  ErasedInv'
  <2>1. ASSUME NEW n \in Merchants, merchant'[n] = "erased"
        PROVE  RowsOf(n)' = {} /\ KeysOf(n)' = {}
    <3>1. n # m /\ merchant[n] = "erased"
      BY <1>1, <2>1
    <3>2. KeysOf(n)' = {}
      BY <1>1, <3>1
    <3>3. \A i \in table' : Tenant[source'[i]] # n
      <4>1. \A i \in table : Tenant[source[i]] # n
        BY <3>1
      <4>2. CASE UNCHANGED rowVars
        BY <4>1, <4>2 DEF rowVars
      <4>3. CASE InsertRow(s)
        <5>1. table' = table \cup {nextRow} /\ source'[nextRow] = s
          BY <4>3 DEF InsertRow, TypeOK, RowTypeOK, RowIds
        <5>2. \A i \in table : source'[i] = source[i]
          BY <4>3 DEF InsertRow, TypeOK, RowTypeOK
        <5> QED
          BY <1>1, <3>1, <4>1, <5>1, <5>2
      <4> QED
        BY <1>1, <4>2, <4>3
    <3> QED
      BY <3>2, <3>3
  <2> QED
    BY <2>1
<1>2. ASSUME NEW s \in Sources, Install(s) \/ Publish(s) \/ Ingest(s) PROVE ErasedInv'
  <2>1. Tenant[s] \in Merchants /\ (InsertRow(s) \/ UNCHANGED rowVars) /\ keys' \subseteq keys \cup {s}
    BY <1>2 DEF Install, Publish, Ingest, tenantVars
  <2>2. /\ merchant'[Tenant[s]] = "live"
        /\ \A n \in Merchants : merchant'[n] = "erased" => merchant[n] = "erased"
    BY <1>2, <2>1 DEF Install, Publish, Ingest, tenantVars, TypeOK, TenantTypeOK
  <2> QED
    BY <1>1, <2>1, <2>2
<1>3. ASSUME NEW d \in Drainers, NEW i \in deferred[d], RedactRows(d, i) \/ RedactKeys(d, i)
      PROVE  ErasedInv'
  BY <1>3 DEF RedactRows, RedactKeys, DeleteRows, tenantVars, rowVars, Unlocked
<1>4. ASSUME NEW d \in Drainers, NEW i \in deferred[d], RedactMerchant(d, i) PROVE ErasedInv'
  BY <1>4 DEF RedactMerchant, DeleteRows, TypeOK, TenantTypeOK, Unlocked
<1>5. CASE UNCHANGED frame
  BY <1>5
<1>6. ASSUME NEW d \in Drainers,
             \/ Boot(d) \/ StartTick(d) \/ Commit(d) \/ IdleTick(d) \/ Abort(d) \/ Crash(d) \/ StalledTick(d)
             \/ \E i \in todo[d] : \/ DeferRow(d, i) \/ DispatchOk(d, i) \/ Expire(d, i)
                                   \/ \E class \in Classes : DispatchFail(d, i, class)
             \/ \E i \in late[d] : LateOk(d, i) \/ LateFail(d, i)
             \/ \E i \in deferred[d] : \/ InstalledOk(d, i) \/ DeferredFail(d, i)
                                       \/ RedactIdempotent(d, i) \/ RedactStart(d, i)
      PROVE  UNCHANGED frame
  BY <1>6 DEF Boot, StartTick, Commit, IdleTick, Abort, Expire, LoseTx, EndLate, LateOk, LateFail,
              Crash, StalledTick, DeferRow, DispatchOk, DispatchFail, InstalledOk, DeferredFail, RedactIdempotent, RedactStart, vars, tenantVars, rowVars
<1>7. ASSUME NEW i \in RowIds, Replay(i) \/ ForceDeadLetter(i) PROVE UNCHANGED frame
  BY <1>7 DEF Replay, ForceDeadLetter, tenantVars, Unlocked
<1>8. CASE UNCHANGED vars
  BY <1>5, <1>8 DEF vars, tenantVars, rowVars
<1> HIDE DEF ErasedInv, frame
<1> QED
  BY <1>2, <1>3, <1>4, <1>5, <1>6, <1>7, <1>8 DEF Next, Drain

\* After a completed erasure nothing of the tenant is left or comes back: no
\* row, no idempotency key, no drainer transaction working on its events.
THEOREM ErasureComplete == Spec => []ErasedLeavesNothing
<1>1. Init => ErasedInv
  BY DEF Init, ErasedInv
<1>2. ErasedInv /\ ClaimsAreExclusive => ErasedLeavesNothing
  BY DEF ErasedInv, ErasedLeavesNothing, ClaimsAreExclusive, Claimable, RowsOf
<1> QED
  BY <1>1, <1>2, TypeCorrect, ClaimsExclusive, ErasedStep, PTL DEF Spec
=============================================================================
