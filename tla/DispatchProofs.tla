--------------------------- MODULE DispatchProofs ---------------------------
(* Theorems about Dispatch for every value of its constants. *)
EXTENDS Dispatch, FiniteSetTheorems, TLAPS

----------------------------------------------------------------------------
(* What the queue and worker helpers do *)

\* The end of a pass concerns the worker alone and leaves it idle.
LEMMA FinishEffect ==
  ASSUME TypeOK, NEW w \in Workers, FinishJob(w)
  PROVE  /\ WorkerTypeOK'
         /\ pc'[w] = "idle"
         /\ \A v \in Workers : v # w => pc'[v] = pc[v] /\ msg'[v] = msg[v]
<1>1. AnyMessage \in Messages
  BY DispatchAssumption DEF AnyMessage
<1>2. 0 \in Days
  BY DispatchAssumption DEF Days
<1> QED
  BY <1>1, <1>2 DEF FinishJob, TypeOK, WorkerTypeOK

\* A step inside a pass moves one worker.
LEMMA GotoEffect ==
  ASSUME TypeOK, NEW w \in Workers,
         NEW step \in {"gates", "gated", "defer", "start"} \cup Sending, Goto(w, step)
  PROVE  /\ WorkerTypeOK'
         /\ pc'[w] = step /\ msg' = msg
         /\ \A v \in Workers : v # w => pc'[v] = pc[v]
BY DEF Goto, TypeOK, WorkerTypeOK

\* Adding a job keeps the type of the queue and concerns one message.
LEMMA AddEffect ==
  ASSUME QueueTypeOK, NEW m \in Messages, NEW j \in Job
  PROVE  /\ Add(m, j) \in [Messages -> [Job -> Nat]]
         /\ \A n \in Messages, k \in Job : Add(m, j)[n][k] > 0 => jobs[n][k] > 0 \/ n = m
BY DEF Add, QueueTypeOK

\* However a pass gives its job back, only its own message can gain one.
LEMMA ReturnEffect ==
  ASSUME TypeOK, NEW w \in Workers, jobs' = jobs \/ jobs' = Recovered(w) \/ JobThrows(w)
  PROVE  /\ QueueTypeOK'
         /\ \A n \in Messages, k \in Job : jobs'[n][k] > 0 => jobs[n][k] > 0 \/ n = msg[w]
<1>1. msg[w] \in Messages /\ job[w] \in Job \cup {NoJob} /\ QueueTypeOK
  BY DEF TypeOK, WorkerTypeOK
<1>2. CASE jobs' = jobs
  BY <1>1, <1>2 DEF QueueTypeOK
<1>3. CASE jobs' = Add(msg[w], [job[w] EXCEPT !.stalls = 1]) /\ job[w] # NoJob
  <2>1. [job[w] EXCEPT !.stalls = 1] \in Job
    BY <1>1, <1>3 DEF Job
  <2> QED
    BY <1>1, <1>3, <2>1, AddEffect DEF QueueTypeOK
<1>4. CASE jobs' = Add(msg[w], [job[w] EXCEPT !.try = @ + 1]) /\ job[w] # NoJob
           /\ job[w].try < MaxTries
  <2>1. [job[w] EXCEPT !.try = @ + 1] \in Job
    BY <1>1, <1>4, DispatchAssumption DEF Job
  <2> QED
    BY <1>1, <1>4, <2>1, AddEffect DEF QueueTypeOK
<1> QED
  BY <1>2, <1>3, <1>4 DEF Recovered, JobThrows

----------------------------------------------------------------------------
(* Types *)

LEMMA NewJob == [try |-> 1, stalls |-> 0] \in Job
BY DispatchAssumption DEF Job

\* Type correctness of dispatch: the first fact the other proofs lean on.
THEOREM DispatchTypes == Spec => []TypeOK
<1> USE DispatchAssumption
<1>1. Init => TypeOK
  <2> SUFFICES ASSUME Init PROVE TypeOK
    OBVIOUS
  <2>1. AnyMessage \in Messages /\ 0 \in Days
    BY DEF AnyMessage, Days
  <2>2. SettingTypeOK /\ RowTypeOK /\ CountTypeOK
    BY <2>1 DEF Init, SettingTypeOK, RowTypeOK, CountTypeOK
  <2>3. WorkerTypeOK /\ QueueTypeOK
    BY <2>1 DEF Init, WorkerTypeOK, QueueTypeOK
  <2> QED
    BY <2>2, <2>3 DEF TypeOK
<1>2. TypeOK /\ [Next]_vars => TypeOK'
  <2> SUFFICES ASSUME TypeOK, [Next]_vars PROVE TypeOK'
    OBVIOUS
  <2> USE DEF TypeOK
  <2>1. ASSUME NEW w \in Workers, NEW m \in Messages, NEW j \in Job, Take(w, m, j) PROVE TypeOK'
    <3>1. SettingTypeOK'
      BY <2>1 DEF SettingTypeOK, Take, settingVars
    <3>2. RowTypeOK'
      BY <2>1 DEF RowTypeOK, Take, rowVars
    <3>3. WorkerTypeOK'
      BY <2>1 DEF WorkerTypeOK, SettingTypeOK, Sending, Take
    <3>4. QueueTypeOK'
      BY <2>1 DEF QueueTypeOK, Take
    <3>5. CountTypeOK'
      BY <2>1 DEF CountTypeOK, Take, sesVars, boundVars
    <3> QED
      BY <3>1, <3>2, <3>3, <3>4, <3>5
  <2>2. ASSUME NEW w \in Workers, Claim(w) PROVE TypeOK'
    <3>0. msg[w] \in Messages /\ pc[w] \in {"idle", "claim", "gates", "gated", "defer", "start"} \cup Sending
          /\ now[w] \in Days
      BY DEF WorkerTypeOK
    <3>1. SettingTypeOK'
      BY <2>2 DEF SettingTypeOK, Claim, settingVars
    <3>2. RowTypeOK'
      BY <2>2, <3>0 DEF RowTypeOK, SettingTypeOK, Claimed, Terminal, rowVars, Claim, ClaimTarget
    <3>3. WorkerTypeOK'
      BY <2>2, FinishEffect, GotoEffect DEF Claim, JobDone
    <3>4. QueueTypeOK'
      BY <2>2 DEF QueueTypeOK, Claim, JobDone
    <3>5. CountTypeOK'
      BY <2>2 DEF CountTypeOK, Claim, sesVars, boundVars
    <3> QED
      BY <3>1, <3>2, <3>3, <3>4, <3>5
  <2>3. ASSUME NEW w \in Workers, ClaimErased(w) PROVE TypeOK'
    <3>1. SettingTypeOK'
      BY <2>3 DEF SettingTypeOK, ClaimErased, settingVars
    <3>2. RowTypeOK'
      BY <2>3 DEF RowTypeOK, ClaimErased, rowVars
    <3>3. WorkerTypeOK'
      BY <2>3, FinishEffect DEF ClaimErased, JobThrows
    <3>4. QueueTypeOK'
      BY <2>3, ReturnEffect DEF ClaimErased
    <3>5. CountTypeOK'
      BY <2>3 DEF CountTypeOK, ClaimErased, sesVars, boundVars
    <3> QED
      BY <3>1, <3>2, <3>3, <3>4, <3>5
  <2>4. ASSUME NEW w \in Workers, RunGates(w) PROVE TypeOK'
    <3>1. SettingTypeOK'
      BY <2>4 DEF SettingTypeOK, RunGates, settingVars
    <3>2. RowTypeOK'
      BY <2>4 DEF RowTypeOK, RunGates, rowVars
    <3>3. WorkerTypeOK'
      BY <2>4, GotoEffect DEF RunGates, Sending
    <3>4. QueueTypeOK'
      BY <2>4 DEF QueueTypeOK, RunGates
    <3>5. CountTypeOK'
      BY <2>4 DEF CountTypeOK, RunGates, sesVars, boundVars
    <3> QED
      BY <3>1, <3>2, <3>3, <3>4, <3>5
  <2>5. ASSUME NEW w \in Workers, Resolve(w) PROVE TypeOK'
    <3>0. msg[w] \in Messages /\ pc[w] \in {"idle", "claim", "gates", "gated", "defer", "start"} \cup Sending
          /\ now[w] \in Days
      BY DEF WorkerTypeOK
    <3>1. SettingTypeOK'
      BY <2>5 DEF SettingTypeOK, Resolve, settingVars
    <3>2. RowTypeOK'
      BY <2>5, <3>0 DEF RowTypeOK, SettingTypeOK, Claimed, Terminal, rowVars, Resolve, ResolveTerminal, Verdict
    <3>3. WorkerTypeOK'
      BY <2>5, FinishEffect DEF Resolve, JobDone
    <3>4. QueueTypeOK'
      BY <2>5 DEF QueueTypeOK, Resolve, JobDone
    <3>5. CountTypeOK'
      BY <2>5 DEF CountTypeOK, Resolve, sesVars, boundVars
    <3> QED
      BY <3>1, <3>2, <3>3, <3>4, <3>5
  <2>6. ASSUME NEW w \in Workers, Defer(w) PROVE TypeOK'
    <3>0. msg[w] \in Messages /\ pc[w] \in {"idle", "claim", "gates", "gated", "defer", "start"} \cup Sending
          /\ now[w] \in Days
      BY DEF WorkerTypeOK
    <3>1. SettingTypeOK'
      BY <2>6 DEF SettingTypeOK, Defer, settingVars
    <3>2. RowTypeOK'
      BY <2>6, <3>0 DEF RowTypeOK, SettingTypeOK, Claimed, Terminal, rowVars, Defer, DeferTarget
    <3>3. WorkerTypeOK'
      BY <2>6, FinishEffect DEF Defer, JobDone
    <3>4. QueueTypeOK'
      BY <2>6 DEF QueueTypeOK, Defer, JobDone
    <3>5. CountTypeOK'
      BY <2>6 DEF CountTypeOK, Defer, sesVars, boundVars
    <3> QED
      BY <3>1, <3>2, <3>3, <3>4, <3>5
  <2>7. ASSUME NEW w \in Workers, StartSending(w) PROVE TypeOK'
    <3>0. msg[w] \in Messages /\ pc[w] \in {"idle", "claim", "gates", "gated", "defer", "start"} \cup Sending
          /\ now[w] \in Days
      BY DEF WorkerTypeOK
    <3>1. SettingTypeOK'
      BY <2>7 DEF SettingTypeOK, StartSending, settingVars
    <3>2. RowTypeOK'
      BY <2>7, <3>0 DEF RowTypeOK, SettingTypeOK, Claimed, Terminal, rowVars, StartSending
    <3>3. WorkerTypeOK'
      BY <2>7 DEF WorkerTypeOK, SettingTypeOK, Sending, StartSending
    <3>4. QueueTypeOK'
      BY <2>7 DEF QueueTypeOK, StartSending
    <3>5. CountTypeOK'
      BY <2>7 DEF CountTypeOK, StartSending, sesVars, boundVars
    <3> QED
      BY <3>1, <3>2, <3>3, <3>4, <3>5
  <2>8. ASSUME NEW w \in Workers, StartMissed(w) PROVE TypeOK'
    <3>1. SettingTypeOK'
      BY <2>8 DEF SettingTypeOK, StartMissed, settingVars
    <3>2. RowTypeOK'
      BY <2>8 DEF RowTypeOK, StartMissed, rowVars
    <3>3. WorkerTypeOK'
      BY <2>8, FinishEffect DEF StartMissed, JobDone
    <3>4. QueueTypeOK'
      BY <2>8 DEF QueueTypeOK, StartMissed, JobDone
    <3>5. CountTypeOK'
      BY <2>8 DEF CountTypeOK, StartMissed, sesVars, boundVars
    <3> QED
      BY <3>1, <3>2, <3>3, <3>4, <3>5
  <2>9. ASSUME NEW w \in Workers, SendOk(w) PROVE TypeOK'
    <3>0. msg[w] \in Messages /\ pc[w] \in {"idle", "claim", "gates", "gated", "defer", "start"} \cup Sending
          /\ now[w] \in Days
      BY DEF WorkerTypeOK
    <3>1. SettingTypeOK'
      BY <2>9 DEF SettingTypeOK, SendOk, settingVars
    <3>2. RowTypeOK'
      BY <2>9 DEF RowTypeOK, SendOk, rowVars
    <3>3. WorkerTypeOK'
      BY <2>9, GotoEffect DEF SendOk, Sending
    <3>4. QueueTypeOK'
      BY <2>9 DEF QueueTypeOK, SendOk
    <3>5. CountTypeOK'
      BY <2>9, <3>0 DEF CountTypeOK, SendOk, sesVars, boundVars
    <3> QED
      BY <3>1, <3>2, <3>3, <3>4, <3>5
  <2>10. ASSUME NEW w \in Workers, SendRefused(w) PROVE TypeOK'
    <3>1. SettingTypeOK'
      BY <2>10 DEF SettingTypeOK, SendRefused, settingVars
    <3>2. RowTypeOK'
      BY <2>10 DEF RowTypeOK, SendRefused, rowVars
    <3>3. WorkerTypeOK'
      BY <2>10, GotoEffect DEF SendRefused, Sending
    <3>4. QueueTypeOK'
      BY <2>10 DEF QueueTypeOK, SendRefused
    <3>5. CountTypeOK'
      BY <2>10 DEF CountTypeOK, SendRefused, sesVars, boundVars
    <3> QED
      BY <3>1, <3>2, <3>3, <3>4, <3>5
  <2>11. ASSUME NEW w \in Workers, Revert(w) PROVE TypeOK'
    <3>0. msg[w] \in Messages /\ pc[w] \in {"idle", "claim", "gates", "gated", "defer", "start"} \cup Sending
          /\ now[w] \in Days
      BY DEF WorkerTypeOK
    <3>1. SettingTypeOK'
      BY <2>11 DEF SettingTypeOK, Revert, settingVars
    <3>2. RowTypeOK'
      BY <2>11, <3>0 DEF RowTypeOK, SettingTypeOK, Claimed, Terminal, rowVars, Revert, RevertToPending
    <3>3. WorkerTypeOK'
      BY <2>11, FinishEffect DEF Revert, JobThrows
    <3>4. QueueTypeOK'
      BY <2>11, ReturnEffect DEF Revert
    <3>5. CountTypeOK'
      BY <2>11 DEF CountTypeOK, Revert, sesVars, boundVars
    <3> QED
      BY <3>1, <3>2, <3>3, <3>4, <3>5
  <2>12. ASSUME NEW w \in Workers, Complete(w) PROVE TypeOK'
    <3>0. msg[w] \in Messages /\ pc[w] \in {"idle", "claim", "gates", "gated", "defer", "start"} \cup Sending
          /\ now[w] \in Days
      BY DEF WorkerTypeOK
    <3>1. SettingTypeOK'
      BY <2>12 DEF SettingTypeOK, Complete, settingVars
    <3>2. RowTypeOK'
      BY <2>12, <3>0 DEF RowTypeOK, SettingTypeOK, Claimed, Terminal, rowVars, Complete, MarkSent
    <3>3. WorkerTypeOK'
      BY <2>12, FinishEffect DEF Complete, JobDone
    <3>4. QueueTypeOK'
      BY <2>12 DEF QueueTypeOK, Complete, JobDone
    <3>5. CountTypeOK'
      BY <2>12 DEF CountTypeOK, Complete, sesVars, boundVars
    <3> QED
      BY <3>1, <3>2, <3>3, <3>4, <3>5
  <2>13. ASSUME NEW w \in Workers, CompleteMissed(w) PROVE TypeOK'
    <3>1. SettingTypeOK'
      BY <2>13 DEF SettingTypeOK, CompleteMissed, settingVars
    <3>2. RowTypeOK'
      BY <2>13 DEF RowTypeOK, CompleteMissed, rowVars
    <3>3. WorkerTypeOK'
      BY <2>13, FinishEffect DEF CompleteMissed, JobDone
    <3>4. QueueTypeOK'
      BY <2>13 DEF QueueTypeOK, CompleteMissed, JobDone
    <3>5. CountTypeOK'
      BY <2>13 DEF CountTypeOK, CompleteMissed, sesVars, boundVars
    <3> QED
      BY <3>1, <3>2, <3>3, <3>4, <3>5
  <2>14. ASSUME NEW w \in Workers, SendLost(w) PROVE TypeOK'
    <3>0. msg[w] \in Messages /\ pc[w] \in {"idle", "claim", "gates", "gated", "defer", "start"} \cup Sending
          /\ now[w] \in Days
      BY DEF WorkerTypeOK
    <3>1. SettingTypeOK'
      BY <2>14 DEF SettingTypeOK, SendLost, settingVars
    <3>2. RowTypeOK'
      BY <2>14 DEF RowTypeOK, SendLost, rowVars
    <3>3. WorkerTypeOK'
      BY <2>14, GotoEffect DEF SendLost, Sending
    <3>4. QueueTypeOK'
      BY <2>14 DEF QueueTypeOK, SendLost
    <3>5. CountTypeOK'
      BY <2>14, <3>0 DEF CountTypeOK, SendLost, sesVars, boundVars
    <3> QED
      BY <3>1, <3>2, <3>3, <3>4, <3>5
  <2>15. ASSUME NEW w \in Workers, SendRetryable(w) PROVE TypeOK'
    <3>1. SettingTypeOK'
      BY <2>15 DEF SettingTypeOK, SendRetryable, settingVars
    <3>2. RowTypeOK'
      BY <2>15 DEF RowTypeOK, SendRetryable, rowVars
    <3>3. WorkerTypeOK'
      BY <2>15, GotoEffect DEF SendRetryable, Sending
    <3>4. QueueTypeOK'
      BY <2>15 DEF QueueTypeOK, SendRetryable
    <3>5. CountTypeOK'
      BY <2>15 DEF CountTypeOK, SendRetryable, sesVars, boundVars
    <3> QED
      BY <3>1, <3>2, <3>3, <3>4, <3>5
  <2>16. ASSUME NEW w \in Workers, CompleteExhausted(w) PROVE TypeOK'
    <3>1. SettingTypeOK'
      BY <2>16 DEF SettingTypeOK, CompleteExhausted, settingVars
    <3>2. RowTypeOK'
      BY <2>16 DEF RowTypeOK, CompleteExhausted, rowVars
    <3>3. WorkerTypeOK'
      BY <2>16, FinishEffect DEF CompleteExhausted, JobDone
    <3>4. QueueTypeOK'
      BY <2>16 DEF QueueTypeOK, CompleteExhausted, JobDone
    <3>5. CountTypeOK'
      BY <2>16 DEF CountTypeOK, CompleteExhausted, sesVars, boundVars
    <3> QED
      BY <3>1, <3>2, <3>3, <3>4, <3>5
  <2>17. ASSUME NEW w \in Workers, DbFails(w) PROVE TypeOK'
    <3>1. SettingTypeOK'
      BY <2>17 DEF SettingTypeOK, DbFails, settingVars
    <3>2. RowTypeOK'
      BY <2>17 DEF RowTypeOK, DbFails, rowVars
    <3>3. WorkerTypeOK'
      BY <2>17, FinishEffect DEF DbFails, JobThrows
    <3>4. QueueTypeOK'
      BY <2>17, ReturnEffect DEF DbFails
    <3>5. CountTypeOK'
      BY <2>17 DEF CountTypeOK, DbFails, sesVars, boundVars
    <3> QED
      BY <3>1, <3>2, <3>3, <3>4, <3>5
  <2>18. ASSUME NEW w \in Workers, Crash(w) PROVE TypeOK'
    <3>0. msg[w] \in Messages /\ pc[w] \in {"idle", "claim", "gates", "gated", "defer", "start"} \cup Sending
          /\ now[w] \in Days
      BY DEF WorkerTypeOK
    <3>1. SettingTypeOK'
      BY <2>18 DEF SettingTypeOK, Crash, settingVars
    <3>2. RowTypeOK'
      BY <2>18 DEF RowTypeOK, Crash, rowVars
    <3>3. WorkerTypeOK'
      BY <2>18, FinishEffect DEF Crash
    <3>4. QueueTypeOK'
      BY <2>18, ReturnEffect DEF Crash
    <3>5. CountTypeOK'
      BY <2>18, <3>0 DEF CountTypeOK, Crash, sesVars, boundVars
    <3> QED
      BY <3>1, <3>2, <3>3, <3>4, <3>5
  <2>19. ASSUME NEW w \in Workers, LockLost(w) PROVE TypeOK'
    <3>1. SettingTypeOK'
      BY <2>19 DEF SettingTypeOK, LockLost, settingVars
    <3>2. RowTypeOK'
      BY <2>19 DEF RowTypeOK, LockLost, rowVars
    <3>3. WorkerTypeOK'
      BY <2>19 DEF WorkerTypeOK, SettingTypeOK, Sending, LockLost
    <3>4. QueueTypeOK'
      BY <2>19, ReturnEffect DEF LockLost
    <3>5. CountTypeOK'
      BY <2>19 DEF CountTypeOK, LockLost, sesVars, boundVars
    <3> QED
      BY <3>1, <3>2, <3>3, <3>4, <3>5
  <2>20. ASSUME NEW m \in Messages, SweepDraft(m) PROVE TypeOK'
    <3>1. SettingTypeOK'
      BY <2>20 DEF SettingTypeOK, SweepDraft, settingVars
    <3>2. RowTypeOK'
      BY <2>20 DEF RowTypeOK, SweepDraft, rowVars
    <3>3. WorkerTypeOK'
      BY <2>20 DEF WorkerTypeOK, SweepDraft, workerVars
    <3>4. QueueTypeOK'
      BY <2>20, NewJob, AddEffect DEF SweepDraft, Enqueue, QueueTypeOK
    <3>5. CountTypeOK'
      BY <2>20 DEF CountTypeOK, SweepDraft, sesVars, boundVars
    <3> QED
      BY <3>1, <3>2, <3>3, <3>4, <3>5
  <2>21. ASSUME NEW m \in Messages, SweepResolve(m) PROVE TypeOK'
    <3>1. SettingTypeOK'
      BY <2>21 DEF SettingTypeOK, SweepResolve, settingVars
    <3>2. RowTypeOK'
      BY <2>21 DEF RowTypeOK, SettingTypeOK, Claimed, Terminal, rowVars, SweepResolve, ResolveTerminal
    <3>3. WorkerTypeOK'
      BY <2>21 DEF WorkerTypeOK, SweepResolve, workerVars
    <3>4. QueueTypeOK'
      BY <2>21 DEF QueueTypeOK, SweepResolve
    <3>5. CountTypeOK'
      BY <2>21 DEF CountTypeOK, SweepResolve, sesVars, boundVars
    <3> QED
      BY <3>1, <3>2, <3>3, <3>4, <3>5
  <2>22. ASSUME NEW m \in Messages, SweepDeferred(m) PROVE TypeOK'
    <3>1. SettingTypeOK'
      BY <2>22 DEF SettingTypeOK, SweepDeferred, settingVars
    <3>2. RowTypeOK'
      BY <2>22 DEF RowTypeOK, SweepDeferred, rowVars
    <3>3. WorkerTypeOK'
      BY <2>22 DEF WorkerTypeOK, SweepDeferred, workerVars
    <3>4. QueueTypeOK'
      BY <2>22, NewJob, AddEffect DEF SweepDeferred, Enqueue, QueueTypeOK
    <3>5. CountTypeOK'
      BY <2>22 DEF CountTypeOK, SweepDeferred, sesVars, boundVars
    <3> QED
      BY <3>1, <3>2, <3>3, <3>4, <3>5
  <2>23. ASSUME NEW m \in Messages, DraftReady(m) PROVE TypeOK'
    <3>1. SettingTypeOK'
      BY <2>23 DEF SettingTypeOK, DraftReady, settingVars
    <3>2. RowTypeOK'
      BY <2>23 DEF RowTypeOK, SettingTypeOK, Claimed, Terminal, rowVars, DraftReady
    <3>3. WorkerTypeOK'
      BY <2>23 DEF WorkerTypeOK, DraftReady, workerVars
    <3>4. QueueTypeOK'
      BY <2>23 DEF QueueTypeOK, DraftReady
    <3>5. CountTypeOK'
      BY <2>23 DEF CountTypeOK, DraftReady, sesVars, boundVars
    <3> QED
      BY <3>1, <3>2, <3>3, <3>4, <3>5
  <2>24. ASSUME NEW c \in Customers, OptOut(c) PROVE TypeOK'
    <3>1. SettingTypeOK'
      BY <2>24 DEF SettingTypeOK, OptOut
    <3>2. RowTypeOK'
      BY <2>24 DEF RowTypeOK, OptOut, rowVars
    <3>3. WorkerTypeOK'
      BY <2>24 DEF WorkerTypeOK, OptOut, workerVars
    <3>4. QueueTypeOK'
      BY <2>24 DEF QueueTypeOK, OptOut
    <3>5. CountTypeOK'
      BY <2>24 DEF CountTypeOK, OptOut, sesVars, boundVars
    <3> QED
      BY <3>1, <3>2, <3>3, <3>4, <3>5
  <2>25. ASSUME NEW c \in Customers, CustomerRedact(c) PROVE TypeOK'
    <3>1. SettingTypeOK'
      BY <2>25 DEF SettingTypeOK, CustomerRedact, settingVars
    <3>2. RowTypeOK'
      BY <2>25 DEF RowTypeOK, SettingTypeOK, Claimed, Terminal, rowVars, CustomerRedact
    <3>3. WorkerTypeOK'
      BY <2>25 DEF WorkerTypeOK, CustomerRedact, workerVars
    <3>4. QueueTypeOK'
      BY <2>25 DEF QueueTypeOK, CustomerRedact
    <3>5. CountTypeOK'
      BY <2>25 DEF CountTypeOK, CustomerRedact, sesVars, boundVars
    <3> QED
      BY <3>1, <3>2, <3>3, <3>4, <3>5
  <2>26. ASSUME WindowFlip PROVE TypeOK'
    <3>1. SettingTypeOK'
      BY <2>26 DEF SettingTypeOK, WindowFlip
    <3>2. RowTypeOK'
      BY <2>26 DEF RowTypeOK, WindowFlip, rowVars
    <3>3. WorkerTypeOK'
      BY <2>26 DEF WorkerTypeOK, WindowFlip, workerVars
    <3>4. QueueTypeOK'
      BY <2>26 DEF QueueTypeOK, WindowFlip
    <3>5. CountTypeOK'
      BY <2>26 DEF CountTypeOK, WindowFlip, sesVars, boundVars
    <3> QED
      BY <3>1, <3>2, <3>3, <3>4, <3>5
  <2>27. ASSUME CampaignFlip PROVE TypeOK'
    <3>1. SettingTypeOK'
      BY <2>27 DEF SettingTypeOK, CampaignFlip
    <3>2. RowTypeOK'
      BY <2>27 DEF RowTypeOK, CampaignFlip, rowVars
    <3>3. WorkerTypeOK'
      BY <2>27 DEF WorkerTypeOK, CampaignFlip, workerVars
    <3>4. QueueTypeOK'
      BY <2>27 DEF QueueTypeOK, CampaignFlip
    <3>5. CountTypeOK'
      BY <2>27 DEF CountTypeOK, CampaignFlip, sesVars, boundVars
    <3> QED
      BY <3>1, <3>2, <3>3, <3>4, <3>5
  <2>28. ASSUME NextDay PROVE TypeOK'
    <3>1. SettingTypeOK'
      BY <2>28 DEF SettingTypeOK, NextDay, Days
    <3>2. RowTypeOK'
      BY <2>28 DEF RowTypeOK, NextDay, rowVars
    <3>3. WorkerTypeOK'
      BY <2>28 DEF WorkerTypeOK, NextDay, workerVars
    <3>4. QueueTypeOK'
      BY <2>28 DEF QueueTypeOK, NextDay
    <3>5. CountTypeOK'
      BY <2>28 DEF CountTypeOK, NextDay, sesVars, boundVars
    <3> QED
      BY <3>1, <3>2, <3>3, <3>4, <3>5
  <2>29. CASE UNCHANGED vars
    BY <2>29 DEF vars, settingVars, rowVars, workerVars, sesVars, boundVars, SettingTypeOK,
       RowTypeOK, WorkerTypeOK, QueueTypeOK, CountTypeOK
  <2> QED
    BY <2>1, <2>2, <2>3, <2>4, <2>5, <2>6, <2>7, <2>8, <2>9, <2>10, <2>11, <2>12, <2>13, <2>14, <2>15, <2>16, <2>17, <2>18, <2>19, <2>20, <2>21, <2>22, <2>23, <2>24, <2>25, <2>26, <2>27, <2>28, <2>29 DEF Next, Work, Fails, Sweep, Outside
<1> QED
  BY <1>1, <1>2, PTL DEF Spec

----------------------------------------------------------------------------
(* Agreement of target and message *)

\* A job, waiting or held, is about a message whose draft was completed.
BegunInv ==
  /\ \A m \in Messages, j \in Job : jobs[m][j] > 0 => message[m] # "absent"
  /\ \A w \in Workers : pc[w] # "idle" => message[msg[w]] # "absent"

AgreeInv == TypeOK /\ BegunInv /\ TargetMessageAgree

\* The row writes of dispatch, one disjunct each.
RowStep ==
  \/ \E w \in Workers : Claim(w) \/ Resolve(w) \/ Defer(w) \/ StartSending(w) \/ Revert(w)
                        \/ Complete(w)
  \/ \E m \in Messages : SweepResolve(m) \/ DraftReady(m)
  \/ \E c \in Customers : CustomerRedact(c)

LEMMA OtherStepsKeepRows == [Next]_vars => RowStep \/ UNCHANGED rowVars
<1> SUFFICES ASSUME [Next]_vars, ~RowStep PROVE UNCHANGED rowVars
  OBVIOUS
<1>1. ASSUME NEW w \in Workers, Work(w) PROVE UNCHANGED rowVars
  BY <1>1 DEF Work, RowStep, Take, ClaimErased, RunGates, StartMissed, SendOk, SendRefused,
     CompleteMissed
<1>2. ASSUME NEW w \in Workers, Fails(w) PROVE UNCHANGED rowVars
  BY <1>2 DEF Fails, SendLost, SendRetryable, CompleteExhausted, DbFails, Crash, LockLost
<1>3. ASSUME NEW m \in Messages, Sweep(m) PROVE UNCHANGED rowVars
  BY <1>3 DEF Sweep, RowStep, SweepDraft, SweepDeferred
<1>4. CASE Outside
  BY <1>4 DEF Outside, RowStep, OptOut, WindowFlip, CampaignFlip, NextDay
<1>5. CASE UNCHANGED vars
  BY <1>5 DEF vars
<1> QED
  BY <1>1, <1>2, <1>3, <1>4, <1>5 DEF Next

\* One write moves a target together with its message, or neither.
LEMMA AgreeStep == AgreeInv /\ [Next]_vars => TargetMessageAgree'
<1> SUFFICES ASSUME AgreeInv, [Next]_vars PROVE TargetMessageAgree'
  OBVIOUS
<1> USE DEF AgreeInv, TypeOK, RowTypeOK, Claimed, Terminal
<1>w. \A w \in Workers : msg[w] \in Messages
  BY DEF WorkerTypeOK
<1>1. ASSUME NEW w \in Workers, Claim(w) PROVE TargetMessageAgree'
  <2>1. message[msg[w]] # "absent"
    BY <1>1, <1>w DEF Claim, At, BegunInv
  <2> QED
    BY <1>1, <1>w, <2>1 DEF Claim, ClaimTarget, TargetMessageAgree
<1>2. ASSUME NEW w \in Workers, Resolve(w) PROVE TargetMessageAgree'
  <2>1. Verdict(pc[w]) \in {"suppressed", "failed"}
    BY <1>2 DEF Resolve, Verdict
  <2> QED
    BY <1>2, <1>w, <2>1 DEF Resolve, ResolveTerminal, TargetMessageAgree, rowVars
<1>3. ASSUME NEW w \in Workers, Defer(w) PROVE TargetMessageAgree'
  BY <1>3, <1>w DEF Defer, DeferTarget, TargetMessageAgree
<1>4. ASSUME NEW w \in Workers, StartSending(w) PROVE TargetMessageAgree'
  BY <1>4, <1>w DEF StartSending, CanStart, TargetMessageAgree
<1>5. ASSUME NEW w \in Workers, Revert(w) PROVE TargetMessageAgree'
  BY <1>5, <1>w DEF Revert, RevertToPending, TargetMessageAgree
<1>6. ASSUME NEW w \in Workers, Complete(w) PROVE TargetMessageAgree'
  BY <1>6, <1>w DEF Complete, MarkSent, TargetMessageAgree
<1>7. ASSUME NEW m \in Messages, SweepResolve(m) PROVE TargetMessageAgree'
  BY <1>7 DEF SweepResolve, ResolveTerminal, TargetMessageAgree
<1>8. ASSUME NEW m \in Messages, DraftReady(m) PROVE TargetMessageAgree'
  BY <1>8 DEF DraftReady, TargetMessageAgree
<1>9. ASSUME NEW c \in Customers, CustomerRedact(c) PROVE TargetMessageAgree'
  BY <1>9 DEF CustomerRedact, TargetMessageAgree
<1>10. CASE UNCHANGED rowVars
  BY <1>10 DEF rowVars, TargetMessageAgree
<1> QED
  BY <1>1, <1>2, <1>3, <1>4, <1>5, <1>6, <1>7, <1>8, <1>9, <1>10, OtherStepsKeepRows DEF RowStep

\* A completed draft stays one: no row write makes a message absent again.
LEMMA NeverAbsentAgain ==
  ASSUME TypeOK, [Next]_vars
  PROVE  \A m \in Messages : message[m] # "absent" => message'[m] # "absent"
<1> USE DEF TypeOK, RowTypeOK
<1>1. ASSUME NEW w \in Workers, Resolve(w)
      PROVE  \A m \in Messages : message[m] # "absent" => message'[m] # "absent"
  <2>1. Verdict(pc[w]) \in {"suppressed", "failed"} /\ msg[w] \in Messages
    BY <1>1 DEF Resolve, Verdict, WorkerTypeOK
  <2> QED
    BY <1>1, <2>1 DEF Resolve, ResolveTerminal, rowVars
<1> QED
  BY <1>1, OtherStepsKeepRows DEF RowStep, rowVars, Claim, Defer, StartSending, Revert, Complete,
     MarkSent, SweepResolve, ResolveTerminal, DraftReady, CustomerRedact

\* Jobs are only made for messages the sweep or a worker already has.
LEMMA BegunStep == AgreeInv /\ [Next]_vars => BegunInv'
<1> SUFFICES ASSUME AgreeInv, [Next]_vars PROVE BegunInv'
  OBVIOUS
<1> USE NeverAbsentAgain DEF AgreeInv
<1>w. \A w \in Workers : msg[w] \in Messages
  BY DEF TypeOK, WorkerTypeOK
<1>1. ASSUME NEW w \in Workers, NEW m \in Messages, NEW j \in Job, Take(w, m, j) PROVE BegunInv'
  BY <1>1, <1>w DEF Take, BegunInv, TypeOK, QueueTypeOK, WorkerTypeOK
<1>2. ASSUME NEW w \in Workers, FinishJob(w),
             jobs' = jobs \/ jobs' = Recovered(w) \/ JobThrows(w), pc[w] # "idle"
      PROVE  BegunInv'
  BY <1>2, <1>w, FinishEffect, ReturnEffect DEF BegunInv
<1>3. ASSUME NEW w \in Workers,
             NEW step \in {"gates", "gated", "defer", "start"} \cup Sending, Goto(w, step),
             UNCHANGED jobs, pc[w] # "idle"
      PROVE  BegunInv'
  BY <1>3, <1>w, GotoEffect DEF BegunInv
<1>4. ASSUME NEW w \in Workers, StartSending(w) PROVE BegunInv'
  BY <1>4, <1>w DEF StartSending, BegunInv, TypeOK, WorkerTypeOK, At
<1>5. ASSUME NEW w \in Workers, LockLost(w) PROVE BegunInv'
  BY <1>5, <1>w, ReturnEffect DEF LockLost, BegunInv
<1>6. ASSUME NEW m \in Messages, message[m] # "absent", Enqueue(m), UNCHANGED workerVars
      PROVE  BegunInv'
  <2>1. \A n \in Messages, k \in Job : jobs'[n][k] > 0 => jobs[n][k] > 0 \/ n = m
    BY <1>6, NewJob, AddEffect DEF Enqueue, TypeOK
  <2> QED
    BY <1>6, <2>1, <1>w DEF BegunInv, workerVars
<1>7. CASE UNCHANGED <<jobs, workerVars>>
  BY <1>7, <1>w DEF BegunInv, workerVars
<1>8. ASSUME NEW w \in Workers, Work(w) PROVE BegunInv'
  <2>1. CASE \E m \in Messages, j \in Job : Take(w, m, j)
    BY <2>1, <1>1
  <2>2. CASE Claim(w)
    <3>1. pc[w] # "idle"
      BY <2>2 DEF Claim, At
    <3>2. \/ JobDone(w)
          \/ Goto(w, "gates") /\ UNCHANGED jobs
      BY <2>2 DEF Claim
    <3> QED
      BY <3>1, <3>2, <1>2, <1>3 DEF JobDone
  <2>3. CASE ClaimErased(w) \/ Revert(w)
    BY <2>3, <1>2 DEF ClaimErased, Revert, JobThrows, At
  <2>4. CASE RunGates(w) \/ SendOk(w) \/ SendRefused(w)
    BY <2>4, <1>3 DEF RunGates, SendOk, SendRefused, At, Sending
  <2>5. CASE Resolve(w) \/ Defer(w) \/ StartMissed(w) \/ Complete(w) \/ CompleteMissed(w)
    BY <2>5, <1>2 DEF Resolve, Defer, StartMissed, Complete, CompleteMissed, JobDone, At
  <2> QED
    BY <1>8, <2>1, <2>2, <2>3, <2>4, <2>5, <1>4 DEF Work
<1>9. ASSUME NEW w \in Workers, Fails(w) PROVE BegunInv'
  <2>1. CASE SendLost(w) \/ SendRetryable(w)
    BY <2>1, <1>3 DEF SendLost, SendRetryable, At, Sending
  <2>2. CASE CompleteExhausted(w)
    BY <2>2, <1>2 DEF CompleteExhausted, JobDone, At
  <2>3. CASE DbFails(w) \/ Crash(w)
    BY <2>3, <1>2 DEF DbFails, Crash, JobThrows
  <2> QED
    BY <1>9, <2>1, <2>2, <2>3, <1>5 DEF Fails
<1>10. ASSUME NEW m \in Messages, Sweep(m) PROVE BegunInv'
  <2>1. CASE SweepDraft(m)
    BY <2>1, <1>6 DEF SweepDraft
  <2>2. CASE SweepDeferred(m)
    BY <2>2, <1>6 DEF SweepDeferred, TargetMessageAgree, Claimed
  <2>3. CASE SweepResolve(m)
    BY <2>3, <1>7 DEF SweepResolve
  <2> QED
    BY <1>10, <2>1, <2>2, <2>3 DEF Sweep
<1>11. CASE Outside
  BY <1>11, <1>7 DEF Outside, DraftReady, OptOut, CustomerRedact, WindowFlip, CampaignFlip, NextDay
<1>12. CASE UNCHANGED vars
  BY <1>12, <1>7 DEF vars
<1> QED
  BY <1>8, <1>9, <1>10, <1>11, <1>12 DEF Next

LEMMA AgreeInvariant == Spec => []AgreeInv
<1>1. Init => BegunInv /\ TargetMessageAgree
  BY DEF Init, BegunInv, TargetMessageAgree, Claimed, Terminal
<1>2. (BegunInv /\ TargetMessageAgree) /\ TypeOK /\ TypeOK' /\ [Next]_vars
        => (BegunInv /\ TargetMessageAgree)'
  BY AgreeStep, BegunStep DEF AgreeInv
<1> QED
  BY <1>1, <1>2, DispatchTypes, PTL DEF Spec, AgreeInv

\* The two writes never diverge: a resolved target carries its message's
\* status, an unresolved one has a draft.
THEOREM RowsAgree == Spec => []TargetMessageAgree
<1>1. AgreeInv => TargetMessageAgree
  BY DEF AgreeInv
<1> QED
  BY <1>1, AgreeInvariant, PTL

----------------------------------------------------------------------------
(* One sender *)

\* A target somebody is sending: it stays out of reach of a second pass until
\* that send is over, resolved or erased under it or not.
Taken(m) ==
  \/ target[m] \in {"sending", "suppressed", "failed"}
  \/ target[m] = "none" /\ message[m] = "erased"

SenderInv ==
  /\ \A w \in Workers : pc[w] \in Sending => Taken(msg[w])
  /\ \A v, w \in Workers : v # w /\ pc[v] \in Sending /\ pc[w] \in Sending => msg[v] # msg[w]

\* What a write does to a target in somebody's hands.
LEMMA TakenStays ==
  ASSUME TypeOK, [Next]_vars, NEW m \in Messages, Taken(m),
         ~ \E w \in Workers : msg[w] = m /\ (Revert(w) \/ Complete(w))
  PROVE  Taken(m)'
<1> USE DEF TypeOK, RowTypeOK, Taken, Claimed
<1>w. \A w \in Workers : msg[w] \in Messages
  BY DEF WorkerTypeOK
<1>1. ASSUME NEW w \in Workers, Claim(w) PROVE Taken(m)'
  BY <1>1, <1>w DEF Claim, ClaimTarget
<1>2. ASSUME NEW w \in Workers, Resolve(w) PROVE Taken(m)'
  <2>1. Verdict(pc[w]) \in {"suppressed", "failed"}
    BY <1>2 DEF Resolve, Verdict
  <2> QED
    BY <1>2, <1>w, <2>1 DEF Resolve, ResolveTerminal, rowVars
<1>3. ASSUME NEW w \in Workers, Defer(w) PROVE Taken(m)'
  BY <1>3, <1>w DEF Defer, DeferTarget
<1>4. ASSUME NEW w \in Workers, StartSending(w) PROVE Taken(m)'
  BY <1>4, <1>w DEF StartSending, CanStart
<1>5. ASSUME NEW w \in Workers, Revert(w) \/ Complete(w) PROVE Taken(m)'
  BY <1>5, <1>w DEF Revert, RevertToPending, Complete, MarkSent
<1>6. ASSUME NEW n \in Messages, SweepResolve(n) \/ DraftReady(n) PROVE Taken(m)'
  BY <1>6 DEF SweepResolve, ResolveTerminal, DraftReady
<1>7. ASSUME NEW c \in Customers, CustomerRedact(c) PROVE Taken(m)'
  BY <1>7 DEF CustomerRedact
<1>8. CASE UNCHANGED rowVars
  BY <1>8 DEF rowVars
<1> QED
  BY <1>1, <1>2, <1>3, <1>4, <1>5, <1>6, <1>7, <1>8, OtherStepsKeepRows DEF RowStep

\* A sender that was one before the step, and that completes or gave up only
\* if it did before.
SendsOn(w) ==
  /\ pc[w] \in Sending /\ msg'[w] = msg[w]
  /\ pc'[w] \in {"send", "revert"} => pc[w] \in {"send", "revert"}

\* Only startSending makes a sender; every other step moves along or ends.
LEMMA SendersOnlyStart ==
  ASSUME TypeOK, [Next]_vars, NEW w \in Workers, pc'[w] \in Sending
  PROVE  SendsOn(w) \/ StartSending(w)
<1> USE DEF SendsOn
<1>1. ASSUME NEW v \in Workers, FinishJob(v) PROVE SendsOn(w)
  BY <1>1, FinishEffect DEF Sending
<1>2. ASSUME NEW v \in Workers, NEW step \in {"gates", "gated", "defer", "start"} \cup Sending,
             Goto(v, step), step \in Sending => pc[v] \in Sending,
             step \in {"send", "revert"} => pc[v] \in {"send", "revert"}
      PROVE  SendsOn(w)
  BY <1>2, GotoEffect
<1>3. ASSUME UNCHANGED workerVars PROVE SendsOn(w)
  BY <1>3 DEF workerVars
<1>4. ASSUME NEW v \in Workers, Work(v)
      PROVE  SendsOn(w) \/ StartSending(w)
  <2>1. CASE \E m \in Messages, j \in Job : Take(v, m, j)
    BY <2>1 DEF Take, TypeOK, WorkerTypeOK, Sending
  <2>2. CASE Claim(v) \/ ClaimErased(v) \/ Resolve(v) \/ Defer(v) \/ StartMissed(v)
    BY <2>2, <1>1, <1>2 DEF Claim, ClaimErased, Resolve, Defer, StartMissed, JobDone, JobThrows, Sending
  <2>3. CASE Revert(v) \/ Complete(v) \/ CompleteMissed(v)
    BY <2>3, <1>1 DEF Revert, Complete, CompleteMissed, JobDone, JobThrows
  <2>4. CASE RunGates(v) \/ SendOk(v) \/ SendRefused(v)
    BY <2>4, <1>2 DEF RunGates, SendOk, SendRefused, At, Sending
  <2>5. CASE StartSending(v)
    BY <2>5 DEF StartSending, TypeOK, WorkerTypeOK
  <2> QED
    BY <1>4, <2>1, <2>2, <2>3, <2>4, <2>5 DEF Work
<1>5. ASSUME NEW v \in Workers, Fails(v) PROVE SendsOn(w)
  <2>1. CASE SendLost(v) \/ SendRetryable(v)
    BY <2>1, <1>2 DEF SendLost, SendRetryable, At, Sending
  <2>2. CASE CompleteExhausted(v) \/ DbFails(v) \/ Crash(v)
    BY <2>2, <1>1 DEF CompleteExhausted, DbFails, Crash, JobDone, JobThrows
  <2>3. CASE LockLost(v)
    BY <2>3 DEF LockLost
  <2> QED
    BY <1>5, <2>1, <2>2, <2>3 DEF Fails
<1>6. ASSUME NEW m \in Messages, Sweep(m) PROVE SendsOn(w)
  <2>1. CASE SweepDraft(m)
    BY <2>1, <1>3 DEF SweepDraft
  <2>2. CASE SweepResolve(m)
    BY <2>2, <1>3 DEF SweepResolve
  <2>3. CASE SweepDeferred(m)
    BY <2>3, <1>3 DEF SweepDeferred
  <2> QED
    BY <1>6, <2>1, <2>2, <2>3 DEF Sweep
<1>7. CASE Outside
  BY <1>7, <1>3 DEF Outside, DraftReady, OptOut, CustomerRedact, WindowFlip, CampaignFlip, NextDay
<1>8. CASE UNCHANGED vars
  BY <1>8, <1>3 DEF vars
<1> QED
  BY <1>4, <1>5, <1>6, <1>7, <1>8 DEF Next

\* The senders stay apart: only a pending target starts, and nobody holds that.
LEMMA SenderStep == SenderInv /\ TypeOK /\ [Next]_vars => SenderInv'
<1> SUFFICES ASSUME SenderInv, TypeOK, [Next]_vars PROVE SenderInv'
  OBVIOUS
<1>w. \A w \in Workers : msg[w] \in Messages
  BY DEF TypeOK, WorkerTypeOK
<1>1. ASSUME NEW w \in Workers, StartSending(w) PROVE SenderInv'
  <2>1. ~Taken(msg[w]) /\ Taken(msg[w])'
    BY <1>1, <1>w DEF StartSending, CanStart, Taken, TypeOK, RowTypeOK
  <2>2. \A v \in Workers : v # w /\ pc'[v] \in Sending => pc[v] \in Sending /\ msg[v] # msg[w]
    BY <1>1, <2>1 DEF StartSending, SenderInv, TypeOK, WorkerTypeOK
  <2>3. \A v \in Workers : v # w /\ pc'[v] \in Sending => Taken(msg[v])'
    BY <1>1, <2>2, <1>w DEF StartSending, SenderInv, Taken, TypeOK, RowTypeOK
  <2>4. msg' = msg
    BY <1>1 DEF StartSending
  <2> QED
    BY <2>1, <2>2, <2>3, <2>4 DEF SenderInv
<1>2. ASSUME NEW w \in Workers, Revert(w) \/ Complete(w) PROVE SenderInv'
  <2>1. FinishJob(w) /\ pc[w] \in Sending
    BY <1>2 DEF Revert, Complete, JobThrows, JobDone, At, Sending
  <2>2. \A v \in Workers : pc'[v] \in Sending => v # w /\ pc[v] \in Sending /\ msg'[v] = msg[v]
    BY <2>1, FinishEffect DEF Sending
  <2>3. \A v \in Workers : pc'[v] \in Sending => msg[v] # msg[w] /\ Taken(msg[v])
    BY <2>1, <2>2 DEF SenderInv
  <2>4. \A m \in Messages : m # msg[w] => target'[m] = target[m] /\ message'[m] = message[m]
    BY <1>2, <1>w DEF Revert, RevertToPending, Complete, MarkSent, TypeOK, RowTypeOK
  <2> QED
    BY <2>2, <2>3, <2>4, <1>w DEF SenderInv, Taken
<1>3. CASE ~ \E w \in Workers : StartSending(w) \/ Revert(w) \/ Complete(w)
  <2>1. \A w \in Workers : pc'[w] \in Sending => pc[w] \in Sending /\ msg'[w] = msg[w]
    BY <1>3, SendersOnlyStart DEF SendsOn
  <2>2. \A m \in Messages : Taken(m) => Taken(m)'
    BY <1>3, TakenStays
  <2> QED
    BY <2>1, <2>2, <1>w DEF SenderInv
<1> QED
  BY <1>1, <1>2, <1>3

LEMMA SenderInvariant == Spec => []SenderInv
<1>1. Init => SenderInv
  BY DEF Init, SenderInv, Sending
<1> QED
  BY <1>1, SenderStep, DispatchTypes, PTL DEF Spec

\* One pass at a time sends a message, and none once its target is waiting
\* again or recorded sent, for any number of workers and jobs.
THEOREM SendersAlone == Spec => []OneSender
<1>1. SenderInv => OneSender
  <2> SUFFICES ASSUME SenderInv, NEW m \in Messages
               PROVE  /\ Cardinality(SendersOf(m)) <= 1
                      /\ target[m] \in {"pending", "deferred", "sent"} => SendersOf(m) = {}
    BY DEF OneSender
  <2>1. CASE SendersOf(m) = {}
    <3>1. Cardinality(SendersOf(m)) = 0
      BY <2>1, FS_EmptySet
    <3> QED
      BY <2>1, <3>1
  <2>2. CASE SendersOf(m) # {}
    <3>1. PICK w \in SendersOf(m) : TRUE
      BY <2>2
    <3>2. SendersOf(m) = {w}
      BY <3>1 DEF SendersOf, SenderInv
    <3>3. Taken(m)
      BY <3>1 DEF SendersOf, SenderInv
    <3>4. Cardinality(SendersOf(m)) = 1
      BY <3>2, FS_Singleton
    <3>5. target[m] \notin {"pending", "deferred", "sent"}
      BY <3>3 DEF Taken
    <3> QED
      BY <2>2, <3>4, <3>5
  <2> QED
    BY <2>1, <2>2
<1> QED
  BY <1>1, SenderInvariant, PTL

----------------------------------------------------------------------------
(* Resending *)

\* A message whose target waits, or that is about to go back to waiting, has
\* been taken by SES only when the worker was told otherwise.
Owed(m) == accepted[m] <= lost[m]

ResendInv ==
  /\ \A m \in Messages : accepted[m] <= 1 + lost[m]
  /\ \A m \in Messages :
       target[m] \in {"none", "pending", "deferred"} /\ message[m] # "erased" => Owed(m)
  /\ \A w \in Workers : pc[w] \in {"send", "revert"} => Owed(msg[w])

\* SES takes an email only of a send under way.
LEMMA AcceptedWhileSending ==
  ASSUME [Next]_vars
  PROVE  \/ UNCHANGED sesVars
         \/ \E w \in Workers :
              /\ At(w, "send") /\ (SendOk(w) \/ Crash(w))
              /\ accepted' = [accepted EXCEPT ![msg[w]] = @ + 1] /\ lost' = lost
         \/ \E w \in Workers : SendLost(w)
<1>1. ASSUME NEW w \in Workers, Work(w) PROVE UNCHANGED sesVars \/ SendOk(w)
  BY <1>1 DEF Work, sesVars, Take, Claim, ClaimErased, RunGates, Resolve, Defer, StartSending,
     StartMissed, SendRefused, Revert, Complete, CompleteMissed
<1>2. ASSUME NEW w \in Workers, Fails(w) PROVE UNCHANGED sesVars \/ SendLost(w) \/ Crash(w)
  BY <1>2 DEF Fails, sesVars, SendRetryable, CompleteExhausted, DbFails, LockLost
<1>3. ASSUME NEW w \in Workers, SendOk(w)
      PROVE  At(w, "send") /\ accepted' = [accepted EXCEPT ![msg[w]] = @ + 1] /\ lost' = lost
  BY <1>3 DEF SendOk
<1>4. ASSUME NEW w \in Workers, Crash(w)
      PROVE  \/ UNCHANGED sesVars
             \/ At(w, "send") /\ accepted' = [accepted EXCEPT ![msg[w]] = @ + 1] /\ lost' = lost
  BY <1>4 DEF Crash, sesVars
<1>5. ASSUME NEW m \in Messages, Sweep(m) PROVE UNCHANGED sesVars
  BY <1>5 DEF Sweep, SweepDraft, SweepResolve, SweepDeferred
<1>6. CASE Outside
  BY <1>6 DEF Outside, DraftReady, OptOut, CustomerRedact, WindowFlip, CampaignFlip, NextDay
<1>7. CASE UNCHANGED vars
  BY <1>7 DEF vars
<1> QED
  BY <1>1, <1>2, <1>3, <1>4, <1>5, <1>6, <1>7 DEF Next

\* A target waits only if it did, or because its sender gave up.
Waits(m) == target[m] \in {"none", "pending", "deferred"} /\ message[m] # "erased"

LEMMA WaitsAfterRevert ==
  ASSUME TypeOK, [Next]_vars, NEW m \in Messages, Waits(m)'
  PROVE  Waits(m) \/ \E w \in Workers : Revert(w) /\ msg[w] = m
<1> USE DEF TypeOK, RowTypeOK, Waits, Claimed
<1>w. \A w \in Workers : msg[w] \in Messages
  BY DEF WorkerTypeOK
<1>1. ASSUME NEW w \in Workers, Claim(w) PROVE Waits(m)
  BY <1>1, <1>w DEF Claim, ClaimTarget
<1>2. ASSUME NEW w \in Workers, Resolve(w) PROVE Waits(m)
  <2>1. Verdict(pc[w]) \in {"suppressed", "failed"}
    BY <1>2 DEF Resolve, Verdict
  <2> QED
    BY <1>2, <1>w, <2>1 DEF Resolve, ResolveTerminal, rowVars
<1>3. ASSUME NEW w \in Workers, Defer(w) PROVE Waits(m)
  BY <1>3, <1>w DEF Defer, DeferTarget
<1>4. ASSUME NEW w \in Workers, StartSending(w) \/ Complete(w) PROVE Waits(m)
  BY <1>4, <1>w DEF StartSending, Complete, MarkSent
<1>5. ASSUME NEW w \in Workers, Revert(w) PROVE Waits(m) \/ msg[w] = m
  BY <1>5, <1>w DEF Revert, RevertToPending
<1>6. ASSUME NEW n \in Messages, SweepResolve(n) \/ DraftReady(n) PROVE Waits(m)
  BY <1>6 DEF SweepResolve, ResolveTerminal, DraftReady
<1>7. ASSUME NEW c \in Customers, CustomerRedact(c) PROVE Waits(m)
  BY <1>7 DEF CustomerRedact
<1>8. CASE UNCHANGED rowVars
  BY <1>8 DEF rowVars
<1> QED
  BY <1>1, <1>2, <1>3, <1>4, <1>5, <1>6, <1>7, <1>8, OtherStepsKeepRows DEF RowStep

LEMMA ResendStep ==
  ResendInv /\ SenderInv /\ AgreeInv /\ [Next]_vars => ResendInv'
<1> SUFFICES ASSUME ResendInv, SenderInv, AgreeInv, [Next]_vars PROVE ResendInv'
  OBVIOUS
<1>t. TypeOK /\ accepted \in [Messages -> Nat] /\ lost \in [Messages -> Nat]
      /\ \A w \in Workers : msg[w] \in Messages
  BY DEF AgreeInv, TypeOK, CountTypeOK, WorkerTypeOK
\* Whose debt matters after the step: it was owed before, whoever asks.
<1>1. \A m \in Messages : Waits(m)' => Owed(m)
  BY WaitsAfterRevert, <1>t DEF ResendInv, Waits, Revert, At
<1>2. \A w \in Workers : pc'[w] \in {"send", "revert"} => Owed(msg'[w]) /\ msg'[w] = msg[w]
  <2> SUFFICES ASSUME NEW w \in Workers, pc'[w] \in {"send", "revert"}
               PROVE  Owed(msg[w]) /\ msg'[w] = msg[w]
    OBVIOUS
  <2>1. CASE SendsOn(w)
    BY <2>1 DEF SendsOn, ResendInv
  <2>2. CASE StartSending(w)
    <3>1. msg'[w] = msg[w] /\ target[msg[w]] = "pending"
      BY <2>2 DEF StartSending, CanStart
    <3>2. message[msg[w]] = "draft"
      BY <3>1, <1>t DEF AgreeInv, TargetMessageAgree, Claimed
    <3> QED
      BY <3>1, <3>2, <1>t DEF ResendInv
  <2> QED
    BY <2>1, <2>2, <1>t, SendersOnlyStart DEF Sending
<1>3. CASE UNCHANGED sesVars
  BY <1>1, <1>2, <1>3 DEF ResendInv, Waits, Owed, sesVars
<1>4. ASSUME NEW w \in Workers, SendLost(w) PROVE ResendInv'
  <2>1. /\ accepted' = [accepted EXCEPT ![msg[w]] = @ + 1]
        /\ lost' = [lost EXCEPT ![msg[w]] = @ + 1]
    BY <1>4 DEF SendLost
  <2>2. \A m \in Messages : accepted[m] <= lost[m] => accepted'[m] <= lost'[m]
    BY <2>1, <1>t
  <2>3. \A m \in Messages : accepted'[m] <= 1 + lost'[m]
    BY <2>1, <1>t DEF ResendInv
  <2>4. \A v \in Workers : msg'[v] = msg[v]
    BY <1>4 DEF SendLost, Goto
  <2> QED
    BY <1>1, <1>2, <1>t, <2>2, <2>3, <2>4 DEF ResendInv, Waits, Owed
<1>5. ASSUME NEW w \in Workers, At(w, "send"), SendOk(w) \/ Crash(w),
             accepted' = [accepted EXCEPT ![msg[w]] = @ + 1], lost' = lost
      PROVE  ResendInv'
  <2>1. \A m \in Messages : accepted'[m] <= 1 + lost'[m]
    BY <1>5, <1>t DEF ResendInv, At, Owed
  <2>2. \A m \in Messages : m # msg[w] => accepted'[m] = accepted[m]
    BY <1>5, <1>t
  <2>3. \A m \in Messages : Waits(m)' => m # msg[w]
    <3>1. Taken(msg[w]) /\ UNCHANGED <<target, message>>
      BY <1>5 DEF SenderInv, Sending, At, SendOk, Crash, rowVars
    <3> QED
      BY <3>1 DEF Taken, Waits
  <2>4. \A v \in Workers : pc'[v] \in {"send", "revert"} => msg[v] # msg[w]
    <3>1. ~(pc'[w] \in {"send", "revert"})
      BY <1>5, <1>t, FinishEffect, GotoEffect DEF SendOk, Crash, Sending
    <3>2. \A v \in Workers : v # w /\ pc'[v] \in {"send", "revert"} => pc[v] \in Sending
      BY <1>5, <1>t, FinishEffect, GotoEffect DEF SendOk, Crash, Sending
    <3> QED
      BY <1>5, <3>1, <3>2 DEF SenderInv, Sending, At
  <2> QED
    BY <1>1, <1>2, <1>5, <1>t, <2>1, <2>2, <2>3, <2>4 DEF ResendInv, Waits, Owed
<1> QED
  BY <1>3, <1>4, <1>5, AcceptedWhileSending

LEMMA ResendInvariant == Spec => []ResendInv
<1>1. Init => ResendInv
  BY DEF Init, ResendInv, Owed
<1> QED
  BY <1>1, ResendStep, SenderInvariant, AgreeInvariant, PTL DEF Spec

\* A customer is sent an email again only after SES took it and the worker was
\* told otherwise, however jobs, crashes, lost locks and erasures interleave.
THEOREM NoResend == Spec => []ResentOnlyAfterLostAck
<1>1. ResendInv => ResentOnlyAfterLostAck
  BY DEF ResendInv, ResentOnlyAfterLostAck
<1> QED
  BY <1>1, ResendInvariant, PTL

----------------------------------------------------------------------------
(* Resolved targets *)

LEMMA ResolvedStep ==
  ASSUME TypeOK, [Next]_vars, NEW m \in Messages, target[m] \in Terminal
  PROVE  target'[m] = target[m] \/ message'[m] = "erased"
<1> USE DEF TypeOK, RowTypeOK, Claimed, Terminal
<1>w. \A w \in Workers : msg[w] \in Messages
  BY DEF WorkerTypeOK
<1>1. ASSUME NEW w \in Workers, Claim(w) PROVE target'[m] = target[m]
  BY <1>1, <1>w DEF Claim, ClaimTarget
<1>2. ASSUME NEW w \in Workers, Resolve(w) PROVE target'[m] = target[m]
  BY <1>2, <1>w DEF Resolve, ResolveTerminal, rowVars
<1>3. ASSUME NEW w \in Workers, Defer(w) PROVE target'[m] = target[m]
  BY <1>3, <1>w DEF Defer, DeferTarget
<1>4. ASSUME NEW w \in Workers, StartSending(w) \/ Complete(w) PROVE target'[m] = target[m]
  BY <1>4, <1>w DEF StartSending, CanStart, Complete, MarkSent
<1>5. ASSUME NEW w \in Workers, Revert(w) PROVE target'[m] = target[m]
  BY <1>5, <1>w DEF Revert, RevertToPending
<1>6. ASSUME NEW n \in Messages, SweepResolve(n) \/ DraftReady(n) PROVE target'[m] = target[m]
  BY <1>6 DEF SweepResolve, ResolveTerminal, DraftReady
<1>7. ASSUME NEW c \in Customers, CustomerRedact(c)
      PROVE  target'[m] = target[m] \/ message'[m] = "erased"
  BY <1>7 DEF CustomerRedact
<1>8. CASE UNCHANGED rowVars
  BY <1>8 DEF rowVars
<1> QED
  BY <1>1, <1>2, <1>3, <1>4, <1>5, <1>6, <1>7, <1>8, OtherStepsKeepRows DEF RowStep

\* No late job, sweep, retry or lost lock makes a resolved target sendable
\* again: only the erasure of its customer removes it.
THEOREM ResolvedForGood == Spec => ResolvedStaysResolved
<1>1. TypeOK /\ [Next]_vars
        => [\A m \in Messages :
              target[m] \in Terminal => target'[m] = target[m] \/ message'[m] = "erased"]_vars
  BY ResolvedStep
<1> QED
  BY <1>1, DispatchTypes, PTL DEF Spec, ResolvedStaysResolved

----------------------------------------------------------------------------
(***************************************************************************)
(* Dispatch implements Mailing.  Each step is mapped with what has been    *)
(* shown of the state before it: types, rows that agree, one sender, and   *)
(* what is owed to a message.                                              *)
(***************************************************************************)
(* Acknowledged sends *)

\* SES knows of every email the workers do, and a worker that completes has
\* heard of the one it completes.
AckInv ==
  /\ \A m \in Messages : lost[m] <= accepted[m]
  /\ \A w \in Workers : pc[w] = "complete" => accepted[msg[w]] > lost[msg[w]]

\* Only an acknowledgement makes a worker complete.
LEMMA CompletersHeard ==
  ASSUME TypeOK, [Next]_vars, NEW w \in Workers, pc'[w] = "complete"
  PROVE  msg'[w] = msg[w] /\ (pc[w] = "complete" \/ SendOk(w))
<1>1. pc[w] \in Sending /\ msg'[w] = msg[w]
  BY SendersOnlyStart DEF Sending, SendsOn, StartSending, TypeOK, WorkerTypeOK
<1>2. ASSUME NEW v \in Workers, FinishJob(v) PROVE pc[w] = "complete"
  BY <1>2, FinishEffect
<1>3. ASSUME NEW v \in Workers, NEW step \in {"gates", "gated", "defer", "start"} \cup Sending,
             Goto(v, step), step # "complete"
      PROVE  pc[w] = "complete"
  BY <1>3, GotoEffect
<1>4. ASSUME UNCHANGED pc PROVE pc[w] = "complete"
  BY <1>4
<1>5. ASSUME NEW v \in Workers, Work(v) PROVE pc[w] = "complete" \/ SendOk(w)
  <2>1. CASE \E m \in Messages, j \in Job : Take(v, m, j)
    BY <2>1 DEF Take, TypeOK, WorkerTypeOK
  <2>2. CASE Claim(v) \/ ClaimErased(v) \/ Resolve(v) \/ Defer(v) \/ StartMissed(v)
    BY <2>2, <1>2, <1>3 DEF Claim, ClaimErased, Resolve, Defer, StartMissed, JobDone, JobThrows
  <2>3. CASE Revert(v) \/ Complete(v) \/ CompleteMissed(v)
    BY <2>3, <1>2 DEF Revert, Complete, CompleteMissed, JobDone, JobThrows
  <2>4. CASE RunGates(v) \/ SendRefused(v)
    BY <2>4, <1>3 DEF RunGates, SendRefused, Sending
  <2>5. CASE StartSending(v)
    BY <2>5 DEF StartSending, TypeOK, WorkerTypeOK
  <2>6. CASE SendOk(v)
    BY <2>6, GotoEffect DEF SendOk, Sending
  <2> QED
    BY <1>5, <2>1, <2>2, <2>3, <2>4, <2>5, <2>6 DEF Work
<1>6. ASSUME NEW v \in Workers, Fails(v) PROVE pc[w] = "complete"
  <2>1. CASE SendLost(v) \/ SendRetryable(v)
    BY <2>1, <1>3 DEF SendLost, SendRetryable, Sending
  <2>2. CASE CompleteExhausted(v) \/ DbFails(v) \/ Crash(v)
    BY <2>2, <1>2 DEF CompleteExhausted, DbFails, Crash, JobDone, JobThrows
  <2>3. CASE LockLost(v)
    BY <2>3, <1>4 DEF LockLost
  <2> QED
    BY <1>6, <2>1, <2>2, <2>3 DEF Fails
<1>7. ASSUME NEW m \in Messages, Sweep(m) PROVE pc[w] = "complete"
  BY <1>7, <1>4 DEF Sweep, SweepDraft, SweepResolve, SweepDeferred, workerVars
<1>8. CASE Outside
  BY <1>8, <1>4 DEF Outside, DraftReady, OptOut, CustomerRedact, WindowFlip, CampaignFlip, NextDay, workerVars
<1>9. CASE UNCHANGED vars
  BY <1>9, <1>4 DEF vars, workerVars
<1> QED
  BY <1>1, <1>5, <1>6, <1>7, <1>8, <1>9 DEF Next

LEMMA AckStep ==
  ASSUME AckInv, ResendInv, SenderInv, TypeOK, [Next]_vars
  PROVE  AckInv'
<1>t. /\ accepted \in [Messages -> Nat] /\ lost \in [Messages -> Nat]
      /\ \A w \in Workers : msg[w] \in Messages
  BY DEF TypeOK, CountTypeOK, WorkerTypeOK
<1>1. CASE UNCHANGED sesVars
  <2>1. \A w \in Workers : ~SendOk(w)
    BY <1>1, <1>t DEF SendOk, sesVars
  <2> QED
    BY <1>1, <2>1, CompletersHeard DEF AckInv, sesVars
<1>2. ASSUME NEW w \in Workers, At(w, "send"), SendOk(w) \/ Crash(w),
             accepted' = [accepted EXCEPT ![msg[w]] = @ + 1], lost' = lost
      PROVE  AckInv'
  <2>1. \A m \in Messages : accepted'[m] >= accepted[m]
    BY <1>2, <1>t
  <2>2. \A v \in Workers : SendOk(v) => msg[v] = msg[w]
    <3>1. ASSUME NEW v \in Workers, SendOk(v), msg[v] # msg[w] PROVE FALSE
      BY <1>2, <1>t, <3>1 DEF SendOk
    <3> QED
      BY <3>1
  <2>3. accepted'[msg[w]] > lost'[msg[w]]
    BY <1>2, <1>t DEF AckInv
  <2> QED
    BY <1>2, <1>t, <2>1, <2>2, <2>3, CompletersHeard DEF AckInv
<1>3. ASSUME NEW w \in Workers, SendLost(w) PROVE AckInv'
  <2>1. /\ accepted' = [accepted EXCEPT ![msg[w]] = @ + 1]
        /\ lost' = [lost EXCEPT ![msg[w]] = @ + 1]
    BY <1>3 DEF SendLost
  <2>2. \A v \in Workers : ~SendOk(v)
    BY <2>1, <1>t DEF SendOk
  <2>3. \A m \in Messages : lost[m] < accepted[m] => lost'[m] < accepted'[m]
    BY <2>1, <1>t
  <2>4. \A m \in Messages : lost'[m] <= accepted'[m]
    BY <2>1, <1>t DEF AckInv
  <2> QED
    BY <1>t, <2>2, <2>3, <2>4, CompletersHeard DEF AckInv
<1> QED
  BY <1>1, <1>2, <1>3, AcceptedWhileSending

LEMMA AckInvariant == Spec => []AckInv
<1>1. Init => AckInv
  BY DEF Init, AckInv
<1> QED
  BY <1>1, AckStep, ResendInvariant, SenderInvariant, DispatchTypes, PTL DEF Spec

----------------------------------------------------------------------------
(* The mapping of a step *)

Stages == [m \in Messages |-> Stage(message[m], target[m])]

\* A write to one message's rows moves that message.
LEMMA StageMoves ==
  ASSUME NEW n \in Messages, NEW stage,
         \A m \in Messages : m # n => message'[m] = message[m] /\ target'[m] = target[m],
         Stage(message'[n], target'[n]) = stage
  PROVE  Stages' = [Stages EXCEPT ![n] = stage]
BY DEF Stages

LEMMA StageStays ==
  ASSUME \A m \in Messages : Stage(message'[m], target'[m]) = Stage(message[m], target[m])
  PROVE  Stages' = Stages
BY DEF Stages

LEMMA RowsKeepStages == UNCHANGED rowVars => Stages' = Stages
BY DEF Stages, rowVars

\* Every worker but w is where it was.
Others(w) == \A v \in Workers : v # w => pc'[v] = pc[v] /\ msg'[v] = msg[v]

LEMMA SendsStay ==
  ASSUME NEW w \in Workers, Others(w), pc[w] # "send", pc'[w] # "send"
  PROVE  Sends' = Sends
BY DEF Sends, At, Others

LEMMA SendEnds ==
  ASSUME SenderInv, NEW w \in Workers, Others(w), msg[w] \in Messages, pc[w] = "send", pc'[w] # "send"
  PROVE  msg[w] \in Sends /\ Sends' = Sends \ {msg[w]}
<1>1. msg[w] \in Sends
  BY DEF Sends, At
<1>2. \A v \in Workers : v # w /\ pc[v] = "send" => msg[v] # msg[w]
  BY DEF SenderInv, Sending
<1>3. ASSUME NEW m \in Messages PROVE m \in Sends' <=> m \in Sends /\ m # msg[w]
  BY <1>2 DEF Sends, At, Others
<1>4. Sends \subseteq Messages /\ Sends' \subseteq Messages
  BY DEF Sends
<1> QED
  BY <1>1, <1>3, <1>4

\* What SES has of a message that is not with it belongs to no pass under way.
LEMMA NotUnderWay ==
  ASSUME SenderInv, NEW w \in Workers, pc[w] \in Sending, pc[w] # "send"
  PROVE  msg[w] \notin Sends
BY DEF SenderInv, Sends, At, Sending

LEMMA WaitingNotUnderWay ==
  ASSUME SenderInv, NEW m \in Messages, target[m] = "pending"
  PROVE  m \notin Sends
BY DEF SenderInv, Taken, Sends, At, Sending

\* What the mapping makes of a step that concerns neither rows, sends nor SES.
LEMMA Invisible ==
  ASSUME Stages' = Stages, Sends' = Sends, UNCHANGED sesVars
  PROVE  UNCHANGED Mail!vars
BY DEF Stages, Mail!vars, sesVars

LEMMA WorkersIdle == UNCHANGED workerVars => Sends' = Sends
BY DEF workerVars, Sends, At

----------------------------------------------------------------------------
(* The steps *)

MailInv == AgreeInv /\ SenderInv /\ ResendInv /\ AckInv

LEMMA Workplace ==
  ASSUME TypeOK, NEW w \in Workers
  PROVE  msg[w] \in Messages /\ Customer[msg[w]] \in Customers
BY DispatchAssumption DEF TypeOK, WorkerTypeOK

\* A pass that ends, or moves on, without sending.
LEMMA PassEnds ==
  ASSUME TypeOK, NEW w \in Workers, FinishJob(w)
  PROVE  Others(w) /\ pc'[w] = "idle"
BY FinishEffect DEF Others

LEMMA PassGoesOn ==
  ASSUME TypeOK, NEW w \in Workers,
         NEW step \in {"gates", "gated", "defer", "start"} \cup Sending, Goto(w, step)
  PROVE  Others(w) /\ pc'[w] = step
BY GotoEffect DEF Others

\* Steps a customer and the mail service do not see.
LEMMA QuietWork ==
  ASSUME TypeOK, NEW w \in Workers,
         \/ \E m \in Messages, j \in Job : Take(w, m, j)
         \/ ClaimErased(w) \/ RunGates(w) \/ StartMissed(w) \/ CompleteMissed(w)
         \/ CompleteExhausted(w) \/ DbFails(w) \/ LockLost(w)
  PROVE  UNCHANGED Mail!vars
<1>1. UNCHANGED <<rowVars, sesVars>>
  BY DEF Take, ClaimErased, RunGates, StartMissed, CompleteMissed, CompleteExhausted, DbFails, LockLost
<1>2. Sends' = Sends
  <2>1. CASE \E m \in Messages, j \in Job : Take(w, m, j)
    BY <2>1, SendsStay DEF Take, Others, At, TypeOK, WorkerTypeOK
  <2>2. CASE ClaimErased(w) \/ StartMissed(w) \/ CompleteMissed(w) \/ CompleteExhausted(w) \/ DbFails(w)
    BY <2>2, SendsStay, PassEnds
    DEF ClaimErased, StartMissed, CompleteMissed, CompleteExhausted, DbFails, JobThrows, JobDone, At
  <2>3. CASE RunGates(w)
    BY <2>3, SendsStay, PassGoesOn DEF RunGates, At
  <2>4. CASE LockLost(w)
    BY <2>4 DEF LockLost, Sends, At
  <2> QED
    BY <2>1, <2>2, <2>3, <2>4
<1> QED
  BY <1>1, <1>2, RowsKeepStages, Invisible

\* A claim and a deferral leave a message waiting.
LEMMA WaitingStays ==
  ASSUME TypeOK, NEW w \in Workers, Claim(w) \/ Defer(w)
  PROVE  UNCHANGED Mail!vars
<1>w. msg[w] \in Messages
  BY Workplace
<1>1. UNCHANGED sesVars /\ message' = message
  BY DEF Claim, Defer
<1>2. Stages' = Stages
  <2> DEFINE waiting == {"none", "pending", "deferred"}
  <2>1. \A m \in Messages : target'[m] # target[m] => target[m] \in waiting /\ target'[m] \in waiting
    <3>1. CASE Claim(w)
      <4>1. ClaimTarget(msg[w])
        BY <3>1 DEF Claim
      <4>2. \/ target' = target
            \/ target[msg[w]] = "none" /\ target' = [target EXCEPT ![msg[w]] = "pending"]
        BY <4>1 DEF ClaimTarget
      <4> QED
        BY <1>w, <4>2 DEF TypeOK, RowTypeOK
    <3>2. CASE Defer(w)
      <4>1. DeferTarget(msg[w])
        BY <3>2 DEF Defer
      <4> QED
        BY <1>w, <4>1 DEF DeferTarget, TypeOK, RowTypeOK
    <3> QED
      BY <3>1, <3>2
  <2>2. ASSUME NEW m \in Messages
        PROVE  Stage(message'[m], target'[m]) = Stage(message[m], target[m])
    <3>1. CASE target'[m] = target[m]
      BY <1>1, <3>1
    <3>2. CASE target[m] \in waiting /\ target'[m] \in waiting
      BY <1>1, <3>2 DEF Stage
    <3> QED
      BY <2>1, <3>1, <3>2
  <2> QED
    BY <2>2, StageStays
<1>3. Sends' = Sends
  <2>1. CASE FinishJob(w)
    BY <2>1, PassEnds, SendsStay DEF Claim, Defer, At
  <2>2. CASE Goto(w, "gates")
    BY <2>2, PassGoesOn, SendsStay DEF Claim, Defer, At
  <2> QED
    BY <2>1, <2>2 DEF Claim, Defer, JobDone
<1> QED
  BY <1>1, <1>2, <1>3, Invisible

\* The target a verdict resolves was waiting or taken, and its message a draft.
LEMMA ResolveRefuses ==
  ASSUME AgreeInv, NEW m \in Messages, NEW status \in {"suppressed", "failed"},
         ResolveTerminal(m, status), Sends' = Sends, UNCHANGED sesVars
  PROVE  Mail!Refuse(m)
<1>1. target[m] \in Claimed /\ message[m] = "draft"
  BY DEF AgreeInv, TargetMessageAgree, ResolveTerminal
<1>2. Stage(message'[m], target'[m]) = "refused"
  BY <1>1 DEF AgreeInv, TypeOK, RowTypeOK, ResolveTerminal, Stage
<1>3. Stages' = [Stages EXCEPT ![m] = "refused"]
  BY <1>2, StageMoves DEF AgreeInv, TypeOK, RowTypeOK, ResolveTerminal
<1>4. Stages[m] \in {"waiting", "taken"}
  BY <1>1 DEF Stages, Stage, Claimed
<1> QED
  BY <1>3, <1>4 DEF Mail!Refuse, Stages, sesVars

LEMMA VerdictStep ==
  ASSUME AgreeInv, NEW w \in Workers, Resolve(w)
  PROVE  Mail!Next \/ UNCHANGED Mail!vars
<1>1. msg[w] \in Messages /\ UNCHANGED sesVars /\ TypeOK
  BY Workplace DEF Resolve, AgreeInv
<1>2. Sends' = Sends
  BY <1>1, PassEnds, SendsStay DEF Resolve, JobDone
<1>3. Verdict(pc[w]) \in {"suppressed", "failed"}
  BY DEF Resolve, Verdict
<1> QED
  BY <1>1, <1>2, <1>3, ResolveRefuses, RowsKeepStages, Invisible DEF Resolve, Mail!Next

LEMMA SweepSteps ==
  ASSUME AgreeInv, NEW m \in Messages, Sweep(m)
  PROVE  Mail!Next \/ UNCHANGED Mail!vars
<1>1. UNCHANGED <<workerVars, sesVars>>
  BY DEF Sweep, SweepDraft, SweepResolve, SweepDeferred
<1>2. Sends' = Sends
  BY <1>1, WorkersIdle
<1>3. CASE SweepResolve(m)
  BY <1>1, <1>2, <1>3, ResolveRefuses DEF SweepResolve, Mail!Next
<1>4. CASE UNCHANGED rowVars
  BY <1>1, <1>2, <1>4, RowsKeepStages, Invisible
<1> QED
  BY <1>3, <1>4 DEF Sweep, SweepDraft, SweepDeferred

\* A target that starts was waiting, and so owes its customer nothing.
LEMMA StartBegins ==
  ASSUME MailInv, NEW w \in Workers, StartSending(w)
  PROVE  Mail!Next
<1> USE DEF MailInv
<1>1. msg[w] \in Messages /\ TypeOK
  BY Workplace DEF AgreeInv
<1>2. target[msg[w]] = "pending" /\ message[msg[w]] = "draft"
  BY <1>1 DEF StartSending, CanStart, AgreeInv, TargetMessageAgree, Claimed
<1>3. Stages[msg[w]] = "waiting"
  BY <1>1, <1>2 DEF Stages, Stage
<1>4. Stages' = [Stages EXCEPT ![msg[w]] = "taken"]
  BY <1>1, <1>2, StageMoves DEF StartSending, Stage, TypeOK, RowTypeOK
<1>5. msg[w] \notin Sends
  BY <1>1, <1>2, WaitingNotUnderWay
<1>6. Sends' = Sends \cup {msg[w]}
  <2>1. pc'[w] = "send" /\ msg' = msg /\ \A v \in Workers : v # w => pc'[v] = pc[v]
    BY <1>1 DEF StartSending, TypeOK, WorkerTypeOK
  <2>2. pc[w] # "send"
    BY DEF StartSending, At
  <2> QED
    BY <1>1, <2>1, <2>2 DEF Sends, At
<1>7. accepted[msg[w]] <= lost[msg[w]]
  BY <1>1, <1>2 DEF ResendInv, Owed
<1>8. Mail!Begin(msg[w])
  BY <1>1, <1>3, <1>4, <1>5, <1>6, <1>7
  DEF Mail!Begin, Mail!Settled, Stages, StartSending, sesVars
<1> QED
  BY <1>1, <1>8 DEF Mail!Next

\* The end of a send: SES took the email, unheard or not, or it took nothing.
LEMMA SendStep ==
  ASSUME MailInv, NEW w \in Workers, At(w, "send"),
         SendOk(w) \/ SendLost(w) \/ SendRetryable(w) \/ SendRefused(w) \/ Crash(w)
  PROVE  Mail!Next
<1> DEFINE m == msg[w]
<1>1. m \in Messages /\ TypeOK /\ SenderInv
  BY Workplace DEF MailInv, AgreeInv
<1>2. Stages' = Stages
  BY RowsKeepStages DEF SendOk, SendLost, SendRetryable, SendRefused, Crash
<1>3. m \in Sends /\ Sends' = Sends \ {m}
  <2>1. Others(w) /\ pc'[w] # "send"
    BY <1>1, PassEnds, PassGoesOn
    DEF SendOk, SendLost, SendRetryable, SendRefused, Crash, Sending
  <2> QED
    BY <1>1, <2>1, SendEnds DEF At
<1>4. \/ UNCHANGED sesVars
      \/ /\ accepted' = [accepted EXCEPT ![m] = @ + 1]
         /\ lost' = lost \/ lost' = [lost EXCEPT ![m] = @ + 1]
  BY DEF SendOk, SendLost, SendRetryable, SendRefused, Crash, sesVars
<1> HIDE DEF m
<1>5. Mail!Fail(m) \/ Mail!Deliver(m)
  BY <1>2, <1>3, <1>4 DEF Mail!Fail, Mail!Deliver, sesVars, Stages
<1> QED
  BY <1>1, <1>5 DEF Mail!Next

\* Any other crash is a pass that ends.
LEMMA CrashStep ==
  ASSUME MailInv, NEW w \in Workers, Crash(w)
  PROVE  Mail!Next \/ UNCHANGED Mail!vars
<1>1. CASE At(w, "send")
  BY <1>1, SendStep
<1>2. CASE ~At(w, "send")
  <2>1. UNCHANGED <<rowVars, sesVars>>
    BY <1>2 DEF Crash, sesVars
  <2>2. Sends' = Sends
    BY <1>2, PassEnds, SendsStay DEF Crash, MailInv, AgreeInv, At
  <2> QED
    BY <2>1, <2>2, RowsKeepStages, Invisible
<1> QED
  BY <1>1, <1>2

\* A target that goes back to pending was sending, and SES is owed nothing.
LEMMA RevertReleases ==
  ASSUME MailInv, NEW w \in Workers, Revert(w)
  PROVE  Mail!Next \/ UNCHANGED Mail!vars
<1> DEFINE m == msg[w]
<1>1. m \in Messages /\ TypeOK /\ UNCHANGED sesVars /\ message' = message
  BY Workplace DEF MailInv, AgreeInv, Revert
<1>2. Sends' = Sends
  BY <1>1, PassEnds, SendsStay DEF Revert, JobThrows, At
<1>3. m \notin Sends /\ accepted[m] <= lost[m]
  BY NotUnderWay DEF MailInv, ResendInv, Owed, Revert, At, Sending
<1>4. target' = [target EXCEPT ![m] = IF @ = "sending" THEN "pending" ELSE @]
  BY DEF Revert, RevertToPending
<1> HIDE DEF m
<1>5. CASE target[m] = "sending"
  <2>1. message[m] = "draft"
    BY <1>1, <1>5 DEF MailInv, AgreeInv, TargetMessageAgree, Claimed
  <2>2. target'[m] = "pending" /\ \A n \in Messages : n # m => target'[n] = target[n]
    BY <1>1, <1>4, <1>5 DEF TypeOK, RowTypeOK
  <2>3. Stages' = [Stages EXCEPT ![m] = "waiting"]
    BY <1>1, <2>1, <2>2, StageMoves DEF Stage
  <2>4. Stages[m] = "taken"
    BY <1>1, <1>5, <2>1 DEF Stages, Stage
  <2>5. Mail!Release(m)
    BY <1>1, <1>2, <1>3, <2>3, <2>4 DEF Mail!Release, Mail!Settled, Stages, sesVars
  <2> QED
    BY <1>1, <2>5 DEF Mail!Next
<1>6. CASE target[m] # "sending"
  <2>1. \A n \in Messages : target'[n] = target[n]
    BY <1>1, <1>4, <1>6 DEF TypeOK, RowTypeOK
  <2> QED
    BY <1>1, <1>2, <2>1, StageStays, Invisible
<1> QED
  BY <1>5, <1>6

\* A target recorded sent was sending, and its worker heard of the email.
LEMMA CompleteRecords ==
  ASSUME MailInv, NEW w \in Workers, Complete(w)
  PROVE  Mail!Next
<1> DEFINE m == msg[w]
<1>1. m \in Messages /\ TypeOK /\ UNCHANGED sesVars
  BY Workplace DEF MailInv, AgreeInv, Complete
<1>2. Sends' = Sends
  BY <1>1, PassEnds, SendsStay DEF Complete, JobDone, At
<1>3. m \notin Sends /\ ~(accepted[m] <= lost[m])
  <2>1. accepted[m] \in Nat /\ lost[m] \in Nat
    BY <1>1 DEF TypeOK, CountTypeOK
  <2> QED
    BY <2>1, NotUnderWay DEF MailInv, AckInv, Complete, At, Sending
<1>4. /\ target[m] = "sending" /\ message[m] = "draft"
      /\ target' = [target EXCEPT ![m] = "sent"] /\ message' = [message EXCEPT ![m] = "sent"]
  BY DEF Complete, MarkSent
<1> HIDE DEF m
<1>5. /\ target'[m] = "sent" /\ message'[m] = "sent"
      /\ \A n \in Messages : n # m => target'[n] = target[n] /\ message'[n] = message[n]
  BY <1>1, <1>4 DEF TypeOK, RowTypeOK
<1>6. Stages' = [Stages EXCEPT ![m] = "sent"]
  BY <1>1, <1>5, StageMoves DEF Stage
<1>7. Stages[m] = "taken"
  BY <1>1, <1>4 DEF Stages, Stage
<1>8. Mail!Record(m)
  BY <1>1, <1>2, <1>3, <1>6, <1>7 DEF Mail!Record, Mail!Settled, Stages, sesVars
<1> QED
  BY <1>1, <1>8 DEF Mail!Next

\* What happens outside the workers and the sweep.
LEMMA OutsideSteps ==
  ASSUME AgreeInv, Outside
  PROVE  Mail!Next \/ UNCHANGED Mail!vars
<1>1. UNCHANGED <<workerVars, sesVars>>
  BY DEF Outside, DraftReady, OptOut, CustomerRedact, WindowFlip, CampaignFlip, NextDay
<1>2. Sends' = Sends
  BY <1>1, WorkersIdle
<1>3. ASSUME NEW n \in Messages, DraftReady(n) PROVE UNCHANGED Mail!vars
  <2>1. message[n] = "absent" /\ target[n] = "none"
    BY <1>3 DEF DraftReady, AgreeInv, TargetMessageAgree, TypeOK, RowTypeOK, Claimed, Terminal
  <2>2. /\ target' = target /\ message'[n] = "draft"
        /\ \A m \in Messages : m # n => message'[m] = message[m]
    BY <1>3 DEF DraftReady, AgreeInv, TypeOK, RowTypeOK
  <2>3. ASSUME NEW m \in Messages
        PROVE  Stage(message'[m], target'[m]) = Stage(message[m], target[m])
    <3>1. CASE m = n
      BY <2>1, <2>2, <3>1 DEF Stage
    <3>2. CASE m # n
      BY <2>2, <3>2
    <3> QED
      BY <3>1, <3>2
  <2> QED
    BY <1>1, <1>2, <2>3, StageStays, Invisible
<1>4. ASSUME NEW c \in Customers, CustomerRedact(c) PROVE Mail!Next
  <2> DEFINE S == {m \in Messages : Customer[m] = c}
  <2>1. \A m \in Messages : m \in S => message'[m] = "erased"
    BY <1>4 DEF CustomerRedact
  <2>2. \A m \in Messages : m \notin S => message'[m] = message[m] /\ target'[m] = target[m]
    BY <1>4 DEF CustomerRedact
  <2> HIDE DEF S
  <2>3. Stages' = [m \in Messages |-> IF m \in S THEN "erased" ELSE Stages[m]]
    <3>1. ASSUME NEW m \in Messages
          PROVE  Stage(message'[m], target'[m]) = IF m \in S THEN "erased" ELSE Stages[m]
      <4>1. CASE m \in S
        BY <2>1, <4>1 DEF Stage
      <4>2. CASE m \notin S
        BY <2>2, <4>2 DEF Stages
      <4> QED
        BY <4>1, <4>2
    <3> QED
      BY <3>1 DEF Stages
  <2>4. Mail!Erase(S)
    BY <1>1, <1>2, <2>3 DEF Mail!Erase, Stages, sesVars
  <2>5. S \in SUBSET Messages
    BY DEF S
  <2> QED
    BY <2>4, <2>5 DEF Mail!Next
<1>5. CASE UNCHANGED rowVars
  BY <1>1, <1>2, <1>5, RowsKeepStages, Invisible
<1> QED
  BY <1>3, <1>4, <1>5 DEF Outside, OptOut, WindowFlip, CampaignFlip, NextDay

LEMMA MailStep ==
  ASSUME MailInv, [Next]_vars
  PROVE  Mail!Next \/ UNCHANGED Mail!vars
<1>1. ASSUME NEW w \in Workers, Work(w) PROVE Mail!Next \/ UNCHANGED Mail!vars
  BY <1>1, QuietWork, WaitingStays, VerdictStep, StartBegins, SendStep, RevertReleases, CompleteRecords
  DEF Work, MailInv, AgreeInv, SendOk, SendRefused
<1>2. ASSUME NEW w \in Workers, Fails(w) PROVE Mail!Next \/ UNCHANGED Mail!vars
  BY <1>2, QuietWork, SendStep, CrashStep DEF Fails, MailInv, AgreeInv, SendLost, SendRetryable
<1>3. CASE UNCHANGED vars
  BY <1>3, RowsKeepStages, WorkersIdle, Invisible DEF vars
<1> QED
  BY <1>1, <1>2, <1>3, SweepSteps, OutsideSteps DEF Next, MailInv

\* Dispatch implements what a customer and the mail service may see of it: a
\* message is taken, released to be taken again and recorded only as its
\* acknowledged copies allow, for any number of messages, workers and jobs and
\* any crashes, lost locks, failures, sweeps and erasures.
THEOREM DispatchMails == Spec => MailsAsPromised
<1>1. Init => Mail!Init
  BY DEF Init, Mail!Init, Stage, Sends, At
<1>2. AgreeInv /\ SenderInv /\ ResendInv /\ AckInv /\ [Next]_vars => [Mail!Next]_(Mail!vars)
  BY MailStep DEF MailInv
<1> QED
  BY <1>1, <1>2, AgreeInvariant, SenderInvariant, ResendInvariant, AckInvariant, PTL
  DEF Spec, MailsAsPromised, Mail!Spec

----------------------------------------------------------------------------
(* Counted sends *)

\* Only a completion writes when a message was sent, and what a day has sent.
LEMMA OnlyCompletionCounts ==
  ASSUME TypeOK, [Next]_vars
  PROVE  UNCHANGED <<sentOn, bucket>> \/ \E w \in Workers : Complete(w)
<1>1. CASE UNCHANGED rowVars
  BY <1>1 DEF rowVars
<1>2. CASE RowStep
  BY <1>2 DEF RowStep, Claim, Resolve, ResolveTerminal, rowVars, Defer, StartSending, Revert,
              SweepResolve, DraftReady, CustomerRedact
<1> QED
  BY <1>1, <1>2, OtherStepsKeepRows

\* A message recorded as sent, or erased, is never again anything else.
LEMMA SentStays ==
  ASSUME AgreeInv, [Next]_vars, NEW m \in Messages, message[m] \in {"sent", "erased"}
  PROVE  message'[m] \in {"sent", "erased"}
<1> USE DEF AgreeInv, TypeOK, RowTypeOK
<1>w. \A w \in Workers : msg[w] \in Messages
  BY DEF WorkerTypeOK
<1>1. ASSUME NEW w \in Workers, Claim(w) \/ Defer(w) \/ StartSending(w) \/ Revert(w)
      PROVE  message'[m] = message[m]
  BY <1>1 DEF Claim, Defer, StartSending, Revert
<1>2. ASSUME NEW w \in Workers, Resolve(w) PROVE message'[m] = message[m]
  BY <1>2, <1>w DEF Resolve, ResolveTerminal, rowVars
<1>3. ASSUME NEW w \in Workers, Complete(w) PROVE message'[m] \in {"sent", "erased"}
  BY <1>3, <1>w DEF Complete, MarkSent
<1>4. ASSUME NEW n \in Messages, SweepResolve(n) \/ DraftReady(n) PROVE message'[m] = message[m]
  BY <1>4 DEF SweepResolve, ResolveTerminal, DraftReady
<1>5. ASSUME NEW c \in Customers, CustomerRedact(c) PROVE message'[m] \in {"sent", "erased"}
  BY <1>5 DEF CustomerRedact
<1>6. CASE UNCHANGED rowVars
  BY <1>6 DEF rowVars
<1> QED
  BY <1>1, <1>2, <1>3, <1>4, <1>5, <1>6, OtherStepsKeepRows DEF RowStep

LEMMA AcceptedGrows ==
  ASSUME TypeOK, [Next]_vars, NEW m \in Messages
  PROVE  accepted[m] <= accepted'[m]
<1>1. accepted \in [Messages -> Nat]
  BY DEF TypeOK, CountTypeOK
<1> QED
  BY <1>1, AcceptedWhileSending DEF sesVars, SendLost

LEMMA CountedStep ==
  ASSUME SentIsCountedOnce, AgreeInv, AckInv, [Next]_vars
  PROVE  SentIsCountedOnce'
<1> DEFINE On(d) == {m \in Messages : sentOn[m] = d}
<1>t. TypeOK /\ accepted \in [Messages -> Nat] /\ lost \in [Messages -> Nat]
  BY DEF AgreeInv, TypeOK, CountTypeOK
<1>1. CASE UNCHANGED <<sentOn, bucket>>
  <2>1. \A m \in Messages : accepted[m] > 0 => accepted'[m] > 0
    <3>1. \A m \in Messages : accepted'[m] \in Nat
      BY <1>t, AcceptedWhileSending DEF sesVars, SendLost
    <3> QED
      BY <1>t, <3>1, AcceptedGrows
  <2> QED
    BY <1>1, <2>1, SentStays DEF SentIsCountedOnce
<1>2. ASSUME NEW w \in Workers, Complete(w) PROVE SentIsCountedOnce'
  <2> DEFINE m == msg[w]
             on == now[w]
  <2>1. m \in Messages /\ on \in Days
    BY <1>t DEF TypeOK, WorkerTypeOK
  <2>2. /\ message[m] = "draft" /\ message' = [message EXCEPT ![m] = "sent"]
        /\ sentOn' = [sentOn EXCEPT ![m] = on] /\ bucket' = [bucket EXCEPT ![on] = @ + 1]
        /\ UNCHANGED <<accepted, lost>>
    BY <1>2 DEF Complete, MarkSent, sesVars
  <2>3. accepted[m] > 0
    BY <1>2, <1>t, <2>1 DEF AckInv, Complete, At
  <2> HIDE DEF m, on
  <2>4. sentOn[m] = -1
    BY <2>1, <2>2 DEF SentIsCountedOnce
  <2>5. \A d \in Days : IsFiniteSet(On(d))
    BY DispatchAssumption, FS_Subset
  <2>6. ASSUME NEW d \in Days
        PROVE  bucket'[d] = Cardinality({n \in Messages : sentOn'[n] = d})
    <3>1. bucket[d] = Cardinality(On(d)) /\ bucket \in [Days -> Nat] /\ sentOn \in [Messages -> Days \cup {-1}]
      BY <1>t DEF SentIsCountedOnce, TypeOK, RowTypeOK
    <3>2. CASE d = on
      <4>1. {n \in Messages : sentOn'[n] = d} = On(d) \cup {m} /\ m \notin On(d)
        <5>1. -1 # d
          BY DispatchAssumption DEF Days
        <5> QED
          BY <2>1, <2>2, <2>4, <3>1, <3>2, <5>1
      <4>2. Cardinality(On(d) \cup {m}) = Cardinality(On(d)) + 1
        BY <2>5, <4>1, FS_AddElement
      <4> QED
        BY <2>1, <2>2, <3>1, <3>2, <4>1, <4>2
    <3>3. CASE d # on
      <4>1. {n \in Messages : sentOn'[n] = d} = On(d)
        <5>1. -1 # d
          BY DispatchAssumption DEF Days
        <5> QED
          BY <2>1, <2>2, <2>4, <3>1, <3>3, <5>1
      <4> QED
        BY <2>1, <2>2, <3>1, <3>3, <4>1
    <3> QED
      BY <3>2, <3>3
  <2>7. ASSUME NEW n \in Messages, sentOn'[n] # -1
        PROVE  accepted'[n] > 0 /\ message'[n] \in {"sent", "erased"}
    <3>1. sentOn \in [Messages -> Days \cup {-1}] /\ DOMAIN message = Messages
      BY <1>t DEF TypeOK, RowTypeOK
    <3> QED
      BY <2>1, <2>2, <2>3, <2>7, <3>1 DEF SentIsCountedOnce
  <2> QED
    BY <2>6, <2>7 DEF SentIsCountedOnce
<1> QED
  BY <1>1, <1>2, <1>t, OnlyCompletionCounts

\* Every count of a quota bucket is a recorded send of that day, and every
\* recorded send is counted once and was taken by SES.
THEOREM SendsAreCounted == Spec => []SentIsCountedOnce
<1>1. Init => SentIsCountedOnce
  <2> SUFFICES ASSUME Init, NEW d \in Days
               PROVE  bucket[d] = Cardinality({m \in Messages : sentOn[m] = d})
    BY DEF Init, SentIsCountedOnce
  <2>1. -1 # d
    BY DispatchAssumption DEF Days
  <2>2. {m \in Messages : sentOn[m] = d} = {}
    BY <2>1 DEF Init
  <2> QED
    BY <2>2, FS_EmptySet DEF Init
<1> QED
  BY <1>1, CountedStep, AgreeInvariant, AckInvariant, PTL DEF Spec

=============================================================================
