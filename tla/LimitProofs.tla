----------------------------- MODULE LimitProofs -----------------------------
(***************************************************************************)
(* The limits of dispatch for every value of its constants: the daily      *)
(* quota, a customer's daily floor and the cooldown.  A gate reads what    *)
(* has been recorded, so the argument counts, beside the recorded sends of *)
(* a day, the passes that a gate has let through and that may still be     *)
(* recorded on it: one worker each.                                        *)
(***************************************************************************)
EXTENDS DispatchProofs

----------------------------------------------------------------------------
(* Passes after the gates *)

\* The other workers are where they were.
Elsewhere(w) == \A v \in Workers : v # w => pc'[v] = pc[v] /\ msg'[v] = msg[v] /\ now'[v] = now[v]

Past == {"start", "send", "complete"}

\* How one worker moves.
Stands(q) == pc'[q] = pc[q] /\ msg'[q] = msg[q] /\ now'[q] = now[q]
LetThrough(q) == RunGates(q) /\ pc'[q] = "start" /\ msg'[q] = msg[q]
Begins(q) == pc[q] = "start" /\ pc'[q] = "send" /\ msg'[q] = msg[q] /\ now'[q] = day
Heard(q) == pc[q] = "send" /\ pc'[q] = "complete" /\ msg'[q] = msg[q] /\ now'[q] = now[q]

LEMMA FinishMoves ==
  ASSUME TypeOK, NEW w \in Workers, FinishJob(w)
  PROVE  Elsewhere(w) /\ pc'[w] = "idle"
BY DEF FinishJob, TypeOK, WorkerTypeOK, Elsewhere

LEMMA GotoMoves ==
  ASSUME TypeOK, NEW w \in Workers, NEW step, Goto(w, step)
  PROVE  Elsewhere(w) /\ pc'[w] = step /\ msg'[w] = msg[w] /\ now'[w] = now[w]
BY DEF Goto, TypeOK, WorkerTypeOK, Elsewhere

LEMMA WorkerMoves ==
  ASSUME TypeOK, [Next]_vars, NEW q \in Workers
  PROVE  Stands(q) \/ pc'[q] \notin Past \/ LetThrough(q) \/ Begins(q) \/ Heard(q)
<1> DEFINE Moves == Stands(q) \/ pc'[q] \notin Past \/ LetThrough(q) \/ Begins(q) \/ Heard(q)
<1>e. ASSUME NEW w \in Workers, Elsewhere(w), pc'[w] \notin Past PROVE Moves
  BY <1>e DEF Elsewhere, Stands
<1>f. ASSUME NEW w \in Workers, FinishJob(w) PROVE Moves
  BY <1>e, <1>f, FinishMoves DEF Past
<1>g. ASSUME NEW w \in Workers, NEW step, Goto(w, step), step \notin Past PROVE Moves
  BY <1>e, <1>g, GotoMoves
<1>u. ASSUME UNCHANGED workerVars PROVE Moves
  BY <1>u DEF workerVars, Stands
<1>1. ASSUME NEW w \in Workers, Work(w) PROVE Moves
  <2>1. CASE \E m \in Messages, j \in Job : Take(w, m, j)
    BY <2>1, <1>e DEF Take, TypeOK, WorkerTypeOK, Elsewhere, Past
  <2>2. CASE Claim(w) \/ ClaimErased(w) \/ Resolve(w) \/ StartMissed(w)
    BY <2>2, <1>f, <1>g DEF Claim, ClaimErased, Resolve, StartMissed, JobDone, JobThrows, Past
  <2>3. CASE Defer(w) \/ Revert(w) \/ Complete(w) \/ CompleteMissed(w)
    BY <2>3, <1>f DEF Defer, Revert, Complete, CompleteMissed, JobDone, JobThrows
  <2>4. CASE RunGates(w)
    <3>1. CASE Goto(w, "gated") \/ Goto(w, "defer")
      BY <3>1, <1>g DEF Past
    <3>2. CASE Goto(w, "start")
      BY <2>4, <3>2, GotoMoves DEF Elsewhere, Stands, LetThrough
    <3> QED
      BY <2>4, <3>1, <3>2 DEF RunGates
  <2>5. CASE StartSending(w)
    BY <2>5 DEF StartSending, At, TypeOK, WorkerTypeOK, Stands, Begins
  <2>6. CASE SendOk(w)
    BY <2>6, GotoMoves DEF SendOk, At, Elsewhere, Stands, Heard
  <2>7. CASE SendRefused(w)
    BY <2>7, <1>g DEF SendRefused, Past
  <2> QED
    BY <1>1, <2>1, <2>2, <2>3, <2>4, <2>5, <2>6, <2>7 DEF Work
<1>2. ASSUME NEW w \in Workers, Fails(w) PROVE Moves
  <2>1. CASE SendLost(w) \/ SendRetryable(w)
    BY <2>1, <1>g DEF SendLost, SendRetryable, Past
  <2>2. CASE CompleteExhausted(w) \/ DbFails(w) \/ Crash(w)
    BY <2>2, <1>f DEF CompleteExhausted, DbFails, Crash, JobDone, JobThrows
  <2>3. CASE LockLost(w)
    BY <2>3 DEF LockLost, Stands
  <2> QED
    BY <1>2, <2>1, <2>2, <2>3 DEF Fails
<1>3. ASSUME NEW m \in Messages, Sweep(m) PROVE Moves
  BY <1>3, <1>u DEF Sweep, SweepDraft, SweepResolve, SweepDeferred
<1>4. CASE Outside
  BY <1>4, <1>u DEF Outside, DraftReady, OptOut, CustomerRedact, WindowFlip, CampaignFlip, NextDay
<1>5. CASE UNCHANGED vars
  BY <1>5, <1>u DEF vars
<1> QED
  BY <1>1, <1>2, <1>3, <1>4, <1>5 DEF Next

\* A step that records a send or lets a pass through concerns one worker.
LEMMA OneWorkerMoves ==
  ASSUME TypeOK, NEW w \in Workers, Complete(w) \/ RunGates(w)
  PROVE  Elsewhere(w) /\ (Complete(w) => pc'[w] = "idle")
BY FinishMoves, GotoMoves DEF Complete, JobDone, RunGates

\* Days pass, and only so.
LEMMA DaysPass == TypeOK /\ [Next]_vars => day' \in Days /\ day' >= day
<1> SUFFICES ASSUME TypeOK, [Next]_vars PROVE day' \in Days /\ day' >= day
  OBVIOUS
<1>t. day \in Days /\ MaxDay \in Nat
  BY DispatchAssumption DEF TypeOK, SettingTypeOK
<1>u. day' = day => day' \in Days /\ day' >= day
  BY <1>t DEF Days
<1>1. ASSUME NEW w \in Workers, Work(w) \/ Fails(w) PROVE day' = day
  BY <1>1 DEF settingVars, Work, Fails, Take, Claim, ClaimErased, RunGates, Resolve, Defer,
     StartSending, StartMissed, SendOk, SendRefused, Revert, Complete, CompleteMissed, SendLost,
     SendRetryable, CompleteExhausted, DbFails, Crash, LockLost
<1>2. ASSUME NEW m \in Messages, Sweep(m) PROVE day' = day
  BY <1>2 DEF settingVars, Sweep, SweepDraft, SweepResolve, SweepDeferred
<1>3. CASE NextDay
  BY <1>t, <1>3 DEF NextDay, Days
<1>4. CASE Outside /\ ~NextDay
  BY <1>u, <1>4 DEF settingVars, Outside, DraftReady, OptOut, CustomerRedact, WindowFlip, CampaignFlip
<1>5. CASE UNCHANGED vars
  BY <1>u, <1>5 DEF vars, settingVars
<1> QED
  BY <1>u, <1>1, <1>2, <1>3, <1>4, <1>5 DEF Next

\* Messages are erased by a redaction only, and for good.
LEMMA OnlyRedactionErases ==
  ASSUME AgreeInv, [Next]_vars
  PROVE  \/ \A m \in Messages : message'[m] = "erased" <=> message[m] = "erased"
         \/ \E c \in Customers : CustomerRedact(c)
<1> USE DEF AgreeInv, TypeOK, RowTypeOK
<1> DEFINE Same == \A m \in Messages : message'[m] = "erased" <=> message[m] = "erased"
<1>w. \A w \in Workers : msg[w] \in Messages
  BY DEF WorkerTypeOK
<1>1. ASSUME NEW w \in Workers, Claim(w) \/ Defer(w) \/ StartSending(w) \/ Revert(w) PROVE Same
  BY <1>1 DEF Claim, Defer, StartSending, Revert
<1>r. ASSUME NEW m \in Messages, NEW status \in {"suppressed", "failed"}, ResolveTerminal(m, status)
      PROVE  Same
  BY <1>r DEF ResolveTerminal
<1>2. ASSUME NEW w \in Workers, Resolve(w) PROVE Same
  <2>1. Verdict(pc[w]) \in {"suppressed", "failed"}
    BY <1>2 DEF Resolve, Verdict
  <2> QED
    BY <1>2, <1>r, <1>w, <2>1 DEF Resolve, rowVars
<1>3. ASSUME NEW w \in Workers, Complete(w) PROVE Same
  BY <1>3, <1>w DEF Complete, MarkSent
<1>4. ASSUME NEW m \in Messages, SweepResolve(m) PROVE Same
  BY <1>4, <1>r DEF SweepResolve
<1>5. ASSUME NEW m \in Messages, DraftReady(m) PROVE Same
  BY <1>5 DEF DraftReady
<1>6. CASE UNCHANGED rowVars
  BY <1>6 DEF rowVars
<1> QED
  BY <1>1, <1>2, <1>3, <1>4, <1>5, <1>6, OtherStepsKeepRows DEF RowStep

----------------------------------------------------------------------------
(* Clocks and erasures *)

\* Nothing is recorded on a day to come, and a customer's messages are erased
\* together.
ClockInv ==
  /\ \A w \in Workers : pc[w] \in {"send", "complete"} => now[w] <= day
  /\ \A m \in Messages : sentOn[m] <= day
ErasedTogether ==
  \A m, n \in Messages :
    Customer[m] = Customer[n] /\ message[m] = "erased" => message[n] = "erased"

LEMMA ClockStep ==
  ASSUME TypeOK, ClockInv, [Next]_vars
  PROVE  ClockInv'
<1>t. /\ day \in Int /\ day' \in Int /\ day' >= day
      /\ \A w \in Workers : now[w] \in Int /\ msg[w] \in Messages
      /\ \A m \in Messages : sentOn[m] \in Int
  BY DaysPass DEF Days, TypeOK, SettingTypeOK, WorkerTypeOK, RowTypeOK
<1>1. ASSUME NEW w \in Workers, pc'[w] \in {"send", "complete"} PROVE now'[w] <= day'
  <2>1. now'[w] = day \/ (now'[w] = now[w] /\ pc[w] \in {"send", "complete"})
    BY <1>1, WorkerMoves DEF Stands, LetThrough, Begins, Heard, Past
  <2> QED
    BY <1>t, <2>1 DEF ClockInv
<1>2. ASSUME NEW m \in Messages PROVE sentOn'[m] <= day'
  <2>1. sentOn'[m] = sentOn[m] \/ \E w \in Workers : pc[w] = "complete" /\ sentOn'[m] = now[w]
    BY <1>t, OnlyCompletionCounts DEF Complete, MarkSent, At, TypeOK, RowTypeOK
  <2> QED
    BY <1>t, <2>1 DEF ClockInv
<1> QED
  BY <1>1, <1>2 DEF ClockInv

LEMMA ErasedStep ==
  ASSUME AgreeInv, ErasedTogether, [Next]_vars
  PROVE  ErasedTogether'
<1>1. ASSUME NEW c \in Customers, CustomerRedact(c) PROVE ErasedTogether'
  BY <1>1 DEF CustomerRedact, ErasedTogether
<1> QED
  BY <1>1, OnlyRedactionErases DEF ErasedTogether

LEMMA ClockInvariant == Spec => [](ClockInv /\ ErasedTogether)
<1>1. Init => ClockInv /\ ErasedTogether
  BY DEF Init, ClockInv, ErasedTogether
<1> QED
  BY <1>1, ClockStep, ErasedStep, DispatchTypes, AgreeInvariant, PTL DEF Spec

----------------------------------------------------------------------------
(* A limit on the sends of a day *)

\* The recorded sends of a day to some customers, and the passes to them that a
\* gate has let through and that may still be recorded on it.
Recorded(on, who, d) == {m \in Messages : Customer[m] \in who /\ on[m] = d}
LetPast(place, holds, began, rows, today, who, d) ==
  {w \in Workers :
     /\ Customer[holds[w]] \in who /\ rows[holds[w]] # "erased"
     /\ \/ place[w] = "start" /\ today <= d
        \/ place[w] \in {"send", "complete"} /\ began[w] = d}

Limited(who, cap) ==
  \A d \in Days :
    Cardinality(Recorded(sentOn, who, d)) + Cardinality(LetPast(pc, msg, now, message, day, who, d))
      <= cap + Cardinality(Workers) - 1

\* What a gate must have seen to let a pass through.
GateKeeps(who, cap) ==
  \A w \in Workers :
    LetThrough(w) /\ Customer[msg[w]] \in who /\ message[msg[w]] # "erased"
      => Cardinality(Recorded(sentOn, who, day)) < cap

LEMMA Numbers ==
  /\ \A S \in SUBSET Messages : IsFiniteSet(S) /\ Cardinality(S) \in Nat
  /\ \A W \in SUBSET Workers : /\ IsFiniteSet(W) /\ Cardinality(W) \in Nat
                               /\ Cardinality(W) <= Cardinality(Workers)
  /\ Cardinality(Workers) \in Nat /\ Cardinality(Workers) >= 1
<1>1. IsFiniteSet(Workers) /\ IsFiniteSet(Messages) /\ Workers # {}
  BY DispatchAssumption
<1>2. Cardinality(Workers) \in Nat /\ Cardinality(Workers) # 0
  BY <1>1, FS_CardinalityType, FS_EmptySet
<1>3. Cardinality(Workers) >= 1
  BY <1>2
<1> QED
  BY <1>1, <1>2, <1>3, FS_Subset, FS_CardinalityType

\* A part counts no more than the whole, and one member less one less.
LEMMA Smaller ==
  ASSUME NEW S, IsFiniteSet(S), NEW T \in SUBSET S
  PROVE  Cardinality(S) \in Nat /\ Cardinality(T) \in Nat /\ Cardinality(T) <= Cardinality(S)
BY FS_Subset, FS_CardinalityType

LEMMA OneRecorded ==
  ASSUME NEW S, IsFiniteSet(S), NEW x, NEW T \in SUBSET (S \cup {x}),
         NEW W, IsFiniteSet(W), NEW w \in W, NEW V \in SUBSET (W \ {w})
  PROVE  Cardinality(T) + Cardinality(V) <= Cardinality(S) + Cardinality(W)
<1>1. /\ IsFiniteSet(S \cup {x})
      /\ Cardinality(S \cup {x}) = IF x \in S THEN Cardinality(S) ELSE Cardinality(S) + 1
  BY FS_AddElement
<1>2. IsFiniteSet(W \ {w}) /\ Cardinality(W \ {w}) = Cardinality(W) - 1
  BY FS_RemoveElement
<1>3. Cardinality(S) \in Nat /\ Cardinality(W) \in Nat
  BY FS_CardinalityType
<1>4. Cardinality(T) \in Nat /\ Cardinality(T) <= Cardinality(S) + 1
  BY <1>1, <1>3, Smaller
<1>5. Cardinality(V) \in Nat /\ Cardinality(V) <= Cardinality(W) - 1
  BY <1>2, Smaller
<1> QED
  BY <1>3, <1>4, <1>5

LEMMA LimitStep ==
  ASSUME AgreeInv, ClockInv, NEW who, NEW cap \in Nat,
         Limited(who, cap), GateKeeps(who, cap), [Next]_vars
  PROVE  Limited(who, cap)'
<1> SUFFICES ASSUME NEW d \in Days
             PROVE  Cardinality(Recorded(sentOn', who, d))
                      + Cardinality(LetPast(pc', msg', now', message', day', who, d))
                    <= cap + Cardinality(Workers) - 1
  BY DEF Limited
<1> DEFINE S == Recorded(sentOn, who, d)   T == Recorded(sentOn', who, d)
           W == LetPast(pc, msg, now, message, day, who, d)
           V == LetPast(pc', msg', now', message', day', who, d)
           Bound == cap + Cardinality(Workers) - 1
<1>0. /\ S \in SUBSET Messages /\ T \in SUBSET Messages
      /\ W \in SUBSET Workers /\ V \in SUBSET Workers
  BY DEF Recorded, LetPast
<1>n. /\ IsFiniteSet(S) /\ IsFiniteSet(W) /\ Bound \in Nat
      /\ Cardinality(S) \in Nat /\ Cardinality(T) \in Nat
      /\ Cardinality(W) \in Nat /\ Cardinality(V) \in Nat
      /\ Cardinality(S) + Cardinality(W) <= Bound
  BY <1>0, Numbers DEF Limited
<1>t. /\ TypeOK /\ day \in Int /\ day' \in Int /\ day' >= day /\ d \in Int
      /\ \A w \in Workers : msg[w] \in Messages /\ now[w] \in Int
      /\ \A m \in Messages : sentOn[m] \in Int
  BY DaysPass DEF AgreeInv, Days, TypeOK, SettingTypeOK, WorkerTypeOK, RowTypeOK
<1>s. SUFFICES Cardinality(T) + Cardinality(V) <= Bound
  OBVIOUS
<1> HIDE DEF S, T, W, V, Bound
<1>1. CASE T \in SUBSET S /\ V \in SUBSET W
  BY <1>1, <1>n, Smaller
<1>2. ASSUME NEW w \in Workers, Complete(w) PROVE Cardinality(T) + Cardinality(V) <= Bound
  <2>1. /\ Elsewhere(w) /\ pc'[w] = "idle" /\ pc[w] = "complete" /\ day' = day
        /\ message[msg[w]] = "draft" /\ message' = [message EXCEPT ![msg[w]] = "sent"]
        /\ sentOn' = [sentOn EXCEPT ![msg[w]] = now[w]]
    BY <1>2, <1>t, OneWorkerMoves DEF Complete, MarkSent, At, settingVars
  <2>2. \A m \in Messages : message'[m] # "erased" => message[m] # "erased"
    BY <1>t, <2>1 DEF TypeOK, RowTypeOK
  <2>3. V \in SUBSET (W \ {w})
    BY <1>t, <2>1, <2>2 DEF V, W, LetPast, Elsewhere
  <2>4. CASE Customer[msg[w]] \in who /\ now[w] = d
    <3>1. w \in W
      BY <2>1, <2>4 DEF W, LetPast
    <3>2. T \in SUBSET (S \cup {msg[w]})
      BY <1>t, <2>1 DEF S, T, Recorded, TypeOK, RowTypeOK
    <3>3. Cardinality(T) + Cardinality(V) <= Cardinality(S) + Cardinality(W)
      BY <1>n, <2>3, <3>1, <3>2, OneRecorded
    <3> QED
      BY <1>n, <3>3
  <2>5. CASE ~(Customer[msg[w]] \in who /\ now[w] = d)
    <3>1. T \in SUBSET S
      BY <1>t, <2>1, <2>5 DEF S, T, Recorded, TypeOK, RowTypeOK
    <3> QED
      BY <1>1, <2>3, <3>1
  <2> QED
    BY <2>4, <2>5
<1>3. ASSUME NEW w \in Workers, LetThrough(w) PROVE Cardinality(T) + Cardinality(V) <= Bound
  <2>1. /\ Elsewhere(w) /\ msg'[w] = msg[w] /\ pc'[w] = "start"
        /\ UNCHANGED <<message, sentOn, day>>
    BY <1>3, <1>t, OneWorkerMoves DEF LetThrough, RunGates, rowVars, settingVars
  <2>2. T = S
    BY <2>1 DEF S, T
  <2>3. V \in SUBSET (W \cup {w})
    BY <2>1 DEF V, W, LetPast, Elsewhere
  <2>4. CASE Customer[msg[w]] \in who /\ message[msg[w]] # "erased" /\ day <= d
    <3>1. Cardinality(Recorded(sentOn, who, day)) < cap
      BY <1>3, <2>4 DEF GateKeeps
    <3>2. Cardinality(S) < cap
      <4>1. CASE d = day
        BY <3>1, <4>1 DEF S
      <4>2. CASE d # day
        <5>1. S = {}
          BY <1>t, <2>4, <4>2 DEF S, Recorded, ClockInv
        <5>2. Cardinality(Recorded(sentOn, who, day)) \in Nat
          BY Numbers DEF Recorded
        <5> QED
          BY <3>1, <5>1, <5>2, FS_EmptySet
      <4> QED
        BY <4>1, <4>2
    <3>3. Cardinality(V) <= Cardinality(Workers) /\ Cardinality(Workers) \in Nat
      BY <1>0, Numbers
    <3> QED
      BY <1>n, <2>2, <3>2, <3>3 DEF Bound
  <2>5. CASE ~(Customer[msg[w]] \in who /\ message[msg[w]] # "erased" /\ day <= d)
    <3>1. V \in SUBSET W
      BY <2>1, <2>5 DEF V, W, LetPast, Elsewhere
    <3> QED
      BY <1>1, <2>2, <3>1
  <2> QED
    BY <2>4, <2>5
<1>4. CASE ~\E w \in Workers : Complete(w) \/ LetThrough(w)
  <2>1. T \in SUBSET S
    BY <1>4, <1>t, OnlyCompletionCounts DEF S, T
  <2>2. \A m \in Messages : message'[m] # "erased" => message[m] # "erased"
    BY OnlyRedactionErases DEF CustomerRedact
  <2>3. ASSUME NEW q \in V PROVE q \in W
    <3>1. /\ q \in Workers /\ Customer[msg'[q]] \in who /\ message'[msg'[q]] # "erased"
          /\ \/ pc'[q] = "start" /\ day' <= d
             \/ pc'[q] \in {"send", "complete"} /\ now'[q] = d
      BY DEF V, LetPast
    <3>2. Stands(q) \/ Begins(q) \/ Heard(q)
      BY <1>4, <1>t, <3>1, WorkerMoves DEF Past
    <3>3. msg'[q] = msg[q] /\ message[msg[q]] # "erased"
      BY <1>t, <2>2, <3>1, <3>2 DEF Stands, Begins, Heard
    <3>4. \/ pc[q] = "start" /\ day <= d
          \/ pc[q] \in {"send", "complete"} /\ now[q] = d
      BY <1>t, <3>1, <3>2 DEF Stands, Begins, Heard
    <3> QED
      BY <3>1, <3>3, <3>4 DEF W, LetPast
  <2> QED
    BY <1>1, <2>1, <2>3
<1> QED
  BY <1>2, <1>3, <1>4

LEMMA LimitInit ==
  ASSUME Init, NEW who, NEW cap \in Nat
  PROVE  Limited(who, cap)
<1> SUFFICES ASSUME NEW d \in Days
             PROVE  Cardinality(Recorded(sentOn, who, d))
                      + Cardinality(LetPast(pc, msg, now, message, day, who, d))
                    <= cap + Cardinality(Workers) - 1
  BY DEF Limited
<1>1. -1 # d
  BY DispatchAssumption DEF Days
<1>2. Recorded(sentOn, who, d) = {} /\ LetPast(pc, msg, now, message, day, who, d) = {}
  BY <1>1 DEF Init, Recorded, LetPast
<1> QED
  BY <1>2, FS_EmptySet, Numbers

\* A limit that holds of records and passes together holds of the records.
LEMMA LimitHolds ==
  ASSUME NEW who, NEW cap \in Nat, Limited(who, cap), NEW d \in Days
  PROVE  Cardinality(Recorded(sentOn, who, d)) <= cap + Cardinality(Workers) - 1
<1>1. /\ Cardinality(Recorded(sentOn, who, d)) \in Nat
      /\ Cardinality(LetPast(pc, msg, now, message, day, who, d)) \in Nat
  BY Numbers DEF Recorded, LetPast
<1> QED
  BY <1>1, Numbers DEF Limited

----------------------------------------------------------------------------
(* The daily quota *)

LEMMA QuotaGate ==
  ASSUME TypeOK, SentIsCountedOnce
  PROVE  GateKeeps(Customers, DailyCap)
<1> SUFFICES ASSUME NEW w \in Workers, LetThrough(w)
             PROVE  Cardinality(Recorded(sentOn, Customers, day)) < DailyCap
  BY DEF GateKeeps
<1>1. ~(bucket[day] >= DailyCap)
  BY GotoMoves DEF LetThrough, RunGates, Deferrable, OverQuota
<1>2. day \in Days /\ bucket[day] \in Nat /\ DailyCap \in Nat
  BY DispatchAssumption DEF TypeOK, SettingTypeOK, RowTypeOK
<1>3. Recorded(sentOn, Customers, day) = {m \in Messages : sentOn[m] = day}
  BY DispatchAssumption DEF Recorded
<1> QED
  BY <1>1, <1>2, <1>3 DEF SentIsCountedOnce

\* The quota gate is a pre-flight read, and the day's count overshoots the cap
\* by less than the number of workers (dispatch.worker.ts:166).
THEOREM QuotaKept == Spec => []QuotaOvershootBounded
<1>1. Init => Limited(Customers, DailyCap)
  BY LimitInit, DispatchAssumption
<1>2. AgreeInv /\ ClockInv /\ SentIsCountedOnce /\ Limited(Customers, DailyCap) /\ [Next]_vars
        => Limited(Customers, DailyCap)'
  BY LimitStep, QuotaGate, DispatchAssumption DEF AgreeInv
<1>3. SentIsCountedOnce /\ Limited(Customers, DailyCap) => QuotaOvershootBounded
  <2> SUFFICES ASSUME SentIsCountedOnce, Limited(Customers, DailyCap), NEW d \in Days
               PROVE  bucket[d] <= DailyCap + Cardinality(Workers) - 1
    BY DEF QuotaOvershootBounded
  <2>1. Recorded(sentOn, Customers, d) = {m \in Messages : sentOn[m] = d}
    BY DispatchAssumption DEF Recorded
  <2> QED
    BY <2>1, LimitHolds, DispatchAssumption DEF SentIsCountedOnce
<1> QED
  BY <1>1, <1>2, <1>3, AgreeInvariant, ClockInvariant, SendsAreCounted, PTL DEF Spec

----------------------------------------------------------------------------
(* The daily floor of a customer *)

FloorInv == \A c \in Customers : Limited({c}, MaxDaily)

\* What the frequency gate counts are the recorded sends of a customer who is
\* not erased.
LEMMA SentIsRecorded ==
  ASSUME SentIsCountedOnce, ErasedTogether, NEW n \in Messages, message[n] # "erased",
         NEW d \in Days
  PROVE  SentOn(Customer[n], d) = {m \in Messages : Customer[m] = Customer[n] /\ sentOn[m] = d}
<1>1. -1 # d
  BY DispatchAssumption DEF Days
<1> QED
  BY <1>1 DEF SentOn, SentIsCountedOnce, ErasedTogether

LEMMA FloorGate ==
  ASSUME TypeOK, SentIsCountedOnce, ErasedTogether, NEW c \in Customers
  PROVE  GateKeeps({c}, MaxDaily)
<1> SUFFICES ASSUME NEW w \in Workers, LetThrough(w), Customer[msg[w]] = c,
                    message[msg[w]] # "erased"
             PROVE  Cardinality(Recorded(sentOn, {c}, day)) < MaxDaily
  BY DEF GateKeeps
<1>1. ~(Cardinality(SentOn(c, day)) >= MaxDaily)
  BY GotoMoves DEF LetThrough, RunGates, Gated, TooOften
<1>2. day \in Days /\ msg[w] \in Messages /\ MaxDaily \in Nat
  BY DispatchAssumption DEF TypeOK, SettingTypeOK, WorkerTypeOK
<1>3. SentOn(c, day) = Recorded(sentOn, {c}, day)
  BY <1>2, SentIsRecorded DEF Recorded
<1>4. Cardinality(Recorded(sentOn, {c}, day)) \in Nat
  BY Numbers DEF Recorded
<1> QED
  BY <1>1, <1>2, <1>3, <1>4

\* A customer's recorded sends of a day exceed the floor by less than the number
\* of workers (frequency gate, dispatch.worker.ts:166).
THEOREM FrequencyKept == Spec => []FrequencyOvershootBounded
<1>1. Init => FloorInv
  BY LimitInit, DispatchAssumption DEF FloorInv
<1>2. AgreeInv /\ ClockInv /\ ErasedTogether /\ SentIsCountedOnce /\ FloorInv /\ [Next]_vars
        => FloorInv'
  <2> SUFFICES ASSUME AgreeInv, ClockInv, ErasedTogether, SentIsCountedOnce, FloorInv, [Next]_vars,
                      NEW c \in Customers
               PROVE  Limited({c}, MaxDaily)'
    BY DEF FloorInv
  <2>1. Limited({c}, MaxDaily) /\ GateKeeps({c}, MaxDaily)
    BY FloorGate DEF FloorInv, AgreeInv
  <2> QED
    BY <2>1, LimitStep, DispatchAssumption
<1>3. FloorInv => FrequencyOvershootBounded
  <2> SUFFICES ASSUME FloorInv, NEW c \in Customers, NEW d \in Days
               PROVE  Cardinality({m \in Messages : Customer[m] = c /\ sentOn[m] = d})
                        <= MaxDaily + Cardinality(Workers) - 1
    BY DEF FrequencyOvershootBounded
  <2>1. Recorded(sentOn, {c}, d) = {m \in Messages : Customer[m] = c /\ sentOn[m] = d}
    BY DEF Recorded
  <2> QED
    BY <2>1, LimitHolds, DispatchAssumption DEF FloorInv
<1> QED
  BY <1>1, <1>2, <1>3, AgreeInvariant, ClockInvariant, SendsAreCounted, PTL DEF Spec

----------------------------------------------------------------------------
(* The cooldown *)

\* A pass that a gate has let through is the cooldown away from every recorded
\* send to its customer.
ClearOf(on, m, since) ==
  \A b \in Messages : Customer[b] = Customer[m] /\ on[b] # -1 => since - on[b] >= Cooldown
PassesClear(place, holds, began, rows, on, today) ==
  \A w \in Workers :
    rows[holds[w]] # "erased" =>
      /\ place[w] = "start" => ClearOf(on, holds[w], today)
      /\ place[w] \in {"send", "complete"} => ClearOf(on, holds[w], began[w])
CooldownInv ==
  Cardinality(Workers) = 1 => PassesClear(pc, msg, now, message, sentOn, day)

LEMMA CooldownGate ==
  ASSUME TypeOK, SentIsCountedOnce, ErasedTogether, ClockInv,
         NEW w \in Workers, LetThrough(w), message[msg[w]] # "erased"
  PROVE  ClearOf(sentOn, msg[w], day)
<1> DEFINE c == Customer[msg[w]]
<1> SUFFICES ASSUME NEW b \in Messages, Customer[b] = c, sentOn[b] # -1
             PROVE  day - sentOn[b] >= Cooldown
  BY DEF ClearOf
<1>1. ~\E d \in Days : day - d < Cooldown /\ SentOn(c, d) # {}
  BY GotoMoves DEF LetThrough, RunGates, Gated, TooOften
<1>2. sentOn[b] \in Days /\ day \in Days /\ msg[w] \in Messages /\ Cooldown \in Nat
  BY DispatchAssumption DEF TypeOK, RowTypeOK, SettingTypeOK, WorkerTypeOK
<1>3. b \in SentOn(c, sentOn[b])
  BY <1>2, SentIsRecorded
<1> QED
  BY <1>1, <1>2, <1>3 DEF Days

LEMMA CooldownStep ==
  ASSUME AgreeInv, ClockInv, ErasedTogether, SentIsCountedOnce, CooldownKept, CooldownInv,
         [Next]_vars
  PROVE  CooldownKept' /\ CooldownInv'
<1> SUFFICES ASSUME Cardinality(Workers) = 1
             PROVE  CooldownKept' /\ PassesClear(pc', msg', now', message', sentOn', day')
  BY DEF CooldownKept, CooldownInv
<1>t. /\ TypeOK /\ day \in Int /\ day' \in Int /\ day' >= day /\ Cooldown \in Nat
      /\ \A v \in Workers : msg[v] \in Messages /\ now[v] \in Int
      /\ \A m \in Messages : sentOn[m] \in Int
  <2>1. TypeOK
    BY DEF AgreeInv
  <2>2. day' \in Days /\ day' >= day
    BY <2>1, DaysPass
  <2>3. day \in Int /\ Cooldown \in Nat /\ (\A d \in Days : d \in Int)
    BY <2>1, DispatchAssumption DEF Days, TypeOK, SettingTypeOK
  <2>4. \A v \in Workers : msg[v] \in Messages /\ now[v] \in Int
    BY <2>1, <2>3 DEF TypeOK, WorkerTypeOK
  <2>5. \A m \in Messages : sentOn[m] \in Int
    BY <2>1, <2>3 DEF TypeOK, RowTypeOK
  <2> QED
    BY <2>1, <2>2, <2>3, <2>4, <2>5
<1>w. PICK w \in Workers : Workers = {w}
  BY FS_Singleton, DispatchAssumption
<1>c. PassesClear(pc, msg, now, message, sentOn, day)
  BY DEF CooldownInv
<1>1. CASE Complete(w)
  <2>1. /\ pc[w] = "complete" /\ pc'[w] = "idle" /\ message[msg[w]] = "draft"
        /\ sentOn' = [sentOn EXCEPT ![msg[w]] = now[w]]
    BY <1>1, <1>t, OneWorkerMoves DEF Complete, MarkSent, At
  <2>2. PassesClear(pc', msg', now', message', sentOn', day')
    BY <1>w, <2>1 DEF PassesClear
  <2>3. sentOn[msg[w]] = -1 /\ ClearOf(sentOn, msg[w], now[w])
    BY <1>c, <1>t, <2>1 DEF SentIsCountedOnce, PassesClear
  <2>4. /\ sentOn'[msg[w]] = now[w]
        /\ \A m \in Messages \ {msg[w]} : sentOn'[m] = sentOn[m]
    BY <1>t, <2>1 DEF TypeOK, RowTypeOK
  <2>5. CooldownKept'
    <3> SUFFICES ASSUME NEW a \in Messages, NEW b \in Messages, a # b, Customer[a] = Customer[b],
                        sentOn'[a] # -1, sentOn'[b] # -1
                 PROVE  sentOn'[a] - sentOn'[b] >= Cooldown \/ sentOn'[b] - sentOn'[a] >= Cooldown
      BY DEF CooldownKept
    <3> QED
      BY <1>t, <2>3, <2>4 DEF CooldownKept, ClearOf
  <2> QED
    BY <2>2, <2>5
<1>2. CASE ~Complete(w)
  <2>1. UNCHANGED sentOn
    BY <1>2, <1>t, <1>w, OnlyCompletionCounts
  <2>2. CooldownKept'
    BY <2>1 DEF CooldownKept
  <2>3. \A m \in Messages : message'[m] # "erased" => message[m] # "erased"
    BY OnlyRedactionErases DEF CustomerRedact
  <2>4. ASSUME message'[msg'[w]] # "erased", pc'[w] \in Past
        PROVE  /\ pc'[w] = "start" => ClearOf(sentOn, msg'[w], day')
               /\ pc'[w] \in {"send", "complete"} => ClearOf(sentOn, msg'[w], now'[w])
    <3>1. CASE LetThrough(w)
      <4>1. msg'[w] = msg[w] /\ pc'[w] = "start" /\ day' = day
        BY <3>1 DEF LetThrough, RunGates, settingVars
      <4>2. message[msg[w]] # "erased"
        BY <1>t, <2>3, <2>4, <4>1
      <4> QED
        BY <1>t, <3>1, <4>1, <4>2, CooldownGate
    <3>2. CASE Stands(w) \/ Begins(w) \/ Heard(w)
      <4>1. msg'[w] = msg[w] /\ message[msg[w]] # "erased"
        BY <1>t, <2>3, <2>4, <3>2 DEF Stands, Begins, Heard
      <4>2. /\ pc'[w] = "start" => pc[w] = "start"
            /\ pc'[w] \in {"send", "complete"} =>
                 \/ pc[w] = "start" /\ now'[w] = day
                 \/ pc[w] \in {"send", "complete"} /\ now'[w] = now[w]
        BY <3>2 DEF Stands, Begins, Heard
      <4> QED
        BY <1>c, <1>t, <4>1, <4>2 DEF PassesClear, ClearOf
    <3> QED
      BY <1>t, <2>4, <3>1, <3>2, WorkerMoves
  <2>5. PassesClear(pc', msg', now', message', sentOn', day')
    BY <1>w, <2>1, <2>4 DEF PassesClear, Past
  <2> QED
    BY <2>2, <2>5
<1> QED
  BY <1>1, <1>2

\* With one worker the cooldown is exact: two recorded sends to a customer are
\* the cooldown apart (frequency gate, dispatch.worker.ts:166).
THEOREM CooldownExact == Spec => []CooldownKept
<1>1. Init => CooldownKept /\ CooldownInv
  BY DEF Init, CooldownKept, CooldownInv, PassesClear
<1> QED
  BY <1>1, CooldownStep, AgreeInvariant, ClockInvariant, SendsAreCounted, PTL DEF Spec
=============================================================================
