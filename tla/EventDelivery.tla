---------------------------- MODULE EventDelivery ----------------------------
(***************************************************************************)
(* What the outbox promises its producers, without drainers, batches,      *)
(* locks, retries or crashes: an event that was published stays until it   *)
(* is settled or its tenant erased.  An ordinary event is run any number   *)
(* of times, and at least once before it is done; only a run that was      *)
(* begun while the event was open may complete after that (a slow one, of  *)
(* which a runner has one at a time).  An event of the other kind is run   *)
(* at most once, and never while it could still be claimed.                *)
(***************************************************************************)
EXTENDS Integers

CONSTANTS
  Ids,
  Runners     \* who runs handlers

VARIABLES
  published,  \* events ever accepted
  once,       \* those of them to be run at most once
  kept,       \* events that exist: published and not erased
  done,       \* events settled as processed
  parked,     \* events taken out of delivery
  runs,       \* completed runs of an event's handler
  slow        \* runs begun on an open event that may complete at any later time

events == <<published, once, kept, done, parked>>
vars == <<events, runs, slow>>

Open == kept \ (done \cup parked)

Publish(i, single) ==
  /\ i \notin published
  /\ published' = published \cup {i}
  /\ kept' = kept \cup {i}
  /\ once' = IF single THEN once \cup {i} ELSE once
  /\ UNCHANGED <<done, parked, runs, slow>>

Ran(i) == runs' = [runs EXCEPT ![i] = @ + 1]

Run(i) ==
  /\ i \in Open \ once
  /\ Ran(i)
  /\ UNCHANGED <<events, slow>>

\* The event may be done, parked or erased when a slow run ends.
BeginSlow(r, i) ==
  /\ i \in Open \ once /\ slow[r] = {}
  /\ slow' = [slow EXCEPT ![r] = {i}]
  /\ UNCHANGED <<events, runs>>
EndSlow(r, i) ==
  /\ i \in slow[r]
  /\ slow' = [slow EXCEPT ![r] = {}]
  /\ Ran(i) \/ UNCHANGED runs
  /\ UNCHANGED events

\* Only when no replica could claim the event any more.
RunnableOnce(i) == i \in once /\ runs[i] = 0 /\ i \notin kept \ done

RunOnce(i) ==
  /\ RunnableOnce(i)
  /\ Ran(i)
  /\ UNCHANGED <<events, slow>>

\* A batch is settled as one: some of its events done, some given up.
Settle(D, P) ==
  /\ D \subseteq Open /\ P \subseteq Open
  /\ \A i \in D \ once : runs[i] > 0
  /\ done' = done \cup D
  /\ parked' = parked \cup P
  /\ UNCHANGED <<published, once, kept, runs, slow>>

\* An operator takes an event out of delivery, settled or not, and puts it back.
Park(i) ==
  /\ i \in kept \ parked
  /\ parked' = parked \cup {i}
  /\ UNCHANGED <<published, once, kept, done, runs, slow>>
Requeue(i) ==
  /\ i \in parked
  /\ parked' = parked \ {i}
  /\ UNCHANGED <<published, once, kept, done, runs, slow>>

\* An erasure takes events away; with its last step the event that asked for it
\* has run.
Remove(S) ==
  /\ kept' = kept \ S
  /\ done' = done \ S
  /\ parked' = parked \ S
  /\ UNCHANGED <<published, once, slow>>
Erase(S) == Remove(S) /\ UNCHANGED runs
EraseBy(S, i) == Remove(S) /\ RunnableOnce(i) /\ Ran(i)

Init ==
  /\ published = {} /\ once = {} /\ kept = {} /\ done = {} /\ parked = {}
  /\ runs = [i \in Ids |-> 0] /\ slow = [r \in Runners |-> {}]

Next ==
  \/ \E i \in Ids :
       \/ \E single \in BOOLEAN : Publish(i, single)
       \/ Run(i) \/ RunOnce(i) \/ Park(i) \/ Requeue(i)
       \/ \E r \in Runners : BeginSlow(r, i) \/ EndSlow(r, i)
  \/ \E D, P \in SUBSET Ids : Settle(D, P)
  \/ \E S \in SUBSET Ids : Erase(S) \/ \E i \in Ids : EraseBy(S, i)

Spec == Init /\ [][Next]_vars
=============================================================================
