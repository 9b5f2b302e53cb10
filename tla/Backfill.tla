------------------------------ MODULE Backfill ------------------------------
(***************************************************************************)
(* packages/shopify/src/backfill: the resumable import of one resource of  *)
(* one merchant.  A runner reads the job, then fetches a page outside any  *)
(* transaction and commits its items with the job's new cursor inside one. *)
(* Runners of the same job may overlap, die between any two steps, and be  *)
(* started again; each starts at most once here.                           *)
(*                                                                         *)
(* The store's items are 1, 2, ... in the order of its pages; new ones     *)
(* come last.  Cursor 0 is null.  X_Y is X with the mistake Y.             *)
(***************************************************************************)
EXTENDS Integers, FiniteSets

CONSTANTS
  Runners,
  MaxItems,    \* bound: items the store ever has
  Malformed,   \* items whose id is no GID, which the processors skip
  PageSize,
  PageLimit    \* MAX_PAGES_HARD_LIMIT

ASSUME BackfillAssumption ==
  /\ MaxItems \in Nat
  /\ Malformed \subseteq 1..MaxItems
  /\ PageSize \in Nat \ {0} /\ PageLimit \in Nat \ {0}

VARIABLES
  listed,             \* the store has items 1..listed
  imported,           \* items that have been upserted
  status, cursor,     \* the BackfillJob row
  pc, from, fetched,  \* a runner: its place, its cursor, pages it committed
  page, end, more,    \* the page it holds
  seen,               \* history: listed when it fetched that page
  owed                \* history: listed when the last page of a completed run was fetched

jobVars == <<status, cursor>>
pageVars == <<page, end, more, seen>>
runnerVars == <<pc, from, fetched, pageVars>>
backfillVars == <<listed, imported, jobVars, runnerVars, owed>>

Items == 1..MaxItems
Upserted(S) == S \ Malformed

----------------------------------------------------------------------------
Shown(n, after) == {i \in 1..n : i > after}
FirstItems(S) == {i \in S : Cardinality({j \in S : j < i}) < PageSize}
Last(S) == IF S = {} THEN 0 ELSE CHOOSE i \in S : \A j \in S : j <= i

ItemCreated ==
  /\ listed < MaxItems
  /\ listed' = listed + 1
  /\ UNCHANGED <<imported, jobVars, runnerVars, owed>>

\* getOrCreate; a completed job is left alone.
Open(r) ==
  /\ pc[r] = "idle"
  /\ status' = IF status = "none" THEN "pending" ELSE status
  /\ pc' = [pc EXCEPT ![r] = IF status = "completed" THEN "done" ELSE "opened"]
  /\ from' = [from EXCEPT ![r] = cursor]
  /\ UNCHANGED <<listed, imported, cursor, fetched, pageVars, owed>>

MarkStarted(r) ==
  /\ pc[r] = "opened"
  /\ status' = "running"
  /\ pc' = [pc EXCEPT ![r] = "ready"]
  /\ UNCHANGED <<listed, imported, cursor, from, fetched, pageVars, owed>>

\* The store's answer: the next items, the id of the last of them (null for an
\* empty page), and whether others follow.
TakePage(r, items, last, others) ==
  /\ pc[r] = "ready"
  /\ page' = [page EXCEPT ![r] = items]
  /\ end' = [end EXCEPT ![r] = last]
  /\ more' = [more EXCEPT ![r] = others]
  /\ seen' = [seen EXCEPT ![r] = listed]
  /\ pc' = [pc EXCEPT ![r] = "fetched"]
  /\ UNCHANGED <<listed, imported, jobVars, from, fetched, owed>>
FetchPage_NoNext(r) ==
  LET S == FirstItems(Shown(listed, from[r])) IN TakePage(r, S, Last(S), FALSE)
FetchPage_ByOffset(r) ==
  LET S == FirstItems(Shown(listed, from[r]))
  IN  TakePage(r, S, from[r] + PageSize, S # Shown(listed, from[r]))
FetchPage(r) ==
  LET S == FirstItems(Shown(listed, from[r]))
  IN  TakePage(r, S, Last(S), S # Shown(listed, from[r]))

\* One transaction: the items, then commitPage.  The page limit trips on the
\* count alone, on the last page as on any other.
CommitPage_CursorOnly(r) ==
  /\ pc[r] = "fetched"
  /\ cursor' = end[r]
  /\ from' = [from EXCEPT ![r] = end[r]]
  /\ fetched' = [fetched EXCEPT ![r] = @ + 1]
  /\ pc' = [pc EXCEPT ![r] = "ready"]
  /\ UNCHANGED <<listed, imported, status, pageVars, owed>>
CommitPage(r) ==
  /\ pc[r] = "fetched"
  /\ imported' = imported \cup Upserted(page[r])
  /\ cursor' = end[r]
  /\ from' = [from EXCEPT ![r] = end[r]]
  /\ fetched' = [fetched EXCEPT ![r] = @ + 1]
  /\ pc' = [pc EXCEPT ![r] = IF fetched[r] + 1 = PageLimit THEN "over"
                             ELSE IF more[r] THEN "ready" ELSE "final"]
  /\ UNCHANGED <<listed, status, pageVars, owed>>

\* One transaction: the status and merchant.backfill_completed.
CompleteRun(r) ==
  /\ pc[r] = "final"
  /\ status' = "completed"
  /\ pc' = [pc EXCEPT ![r] = "done"]
  /\ owed' = IF seen[r] > owed THEN seen[r] ELSE owed
  /\ UNCHANGED <<listed, imported, cursor, from, fetched, pageVars>>

\* The catch block: a revoked token pauses the job, any other error fails it.
InTry == {"ready", "fetched", "over", "final"}
StopRun(r, becomes) ==
  /\ pc[r] \in InTry
  /\ status' = becomes
  /\ pc' = [pc EXCEPT ![r] = "done"]
  /\ UNCHANGED <<listed, imported, cursor, from, fetched, pageVars, owed>>
PauseRun(r) == pc[r] = "ready" /\ StopRun(r, "paused")
FailRun(r) == StopRun(r, "failed")

\* The process dies: the job keeps whatever it says.
CrashRun(r) ==
  /\ pc[r] \in InTry \cup {"opened"}
  /\ pc' = [pc EXCEPT ![r] = "done"]
  /\ UNCHANGED <<listed, imported, jobVars, from, fetched, pageVars, owed>>

BackfillInit ==
  /\ listed = 0 /\ imported = {}
  /\ status = "none" /\ cursor = 0
  /\ pc = [r \in Runners |-> "idle"]
  /\ from = [r \in Runners |-> 0]
  /\ fetched = [r \in Runners |-> 0]
  /\ page = [r \in Runners |-> {}]
  /\ end = [r \in Runners |-> 0]
  /\ more = [r \in Runners |-> FALSE]
  /\ seen = [r \in Runners |-> 0]
  /\ owed = 0

RunnerStep(r) ==
  \/ Open(r) \/ MarkStarted(r) \/ FetchPage(r) \/ CommitPage(r) \/ CompleteRun(r)
  \/ PauseRun(r) \/ FailRun(r) \/ CrashRun(r)
BackfillNext == ItemCreated \/ \E r \in Runners : RunnerStep(r)

\* The backfill whatever its surroundings do: any fetch may fail, any runner
\* may start or die at any time.
BackfillSpec == BackfillInit /\ [][BackfillNext]_backfillVars

----------------------------------------------------------------------------
(* Properties *)

Statuses == {"none", "pending", "running", "paused", "failed", "completed"}
Places == {"idle", "opened", "ready", "fetched", "over", "final", "done"}
BackfillTypeOK ==
  /\ listed \in 0..MaxItems /\ imported \subseteq Items
  /\ status \in Statuses /\ cursor \in 0..MaxItems
  /\ pc \in [Runners -> Places]
  /\ from \in [Runners -> 0..MaxItems]
  /\ fetched \in [Runners -> Nat]
  /\ page \in [Runners -> SUBSET Items]
  /\ end \in [Runners -> 0..MaxItems]
  /\ more \in [Runners -> BOOLEAN]
  /\ seen \in [Runners -> 0..MaxItems]
  /\ owed \in 0..MaxItems

\* The cursor never runs ahead of the rows: whatever a rerun skips has been
\* imported, also when two runners move it against each other and when one dies
\* between its fetch and its commit (runner.ts:53-56, "cursor advances in the
\* SAME tx").
CursorCovers == Upserted(1..cursor) \subseteq imported

\* A completed backfill has every item the store listed when its last page was
\* fetched, in however many runs, whatever the job's row says afterwards: an
\* overlapping runner may move it back to running, paused or failed
\* (runner.ts:147-156).
CompletedCovers == Upserted(1..owed) \subseteq imported
=============================================================================
