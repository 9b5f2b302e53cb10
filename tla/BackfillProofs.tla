--------------------------- MODULE BackfillProofs ---------------------------
(***************************************************************************)
(* What the backfill promises, for any number of runners, items and page   *)
(* sizes, and whatever the callers of its runners do.                      *)
(*                                                                         *)
(* The cursor and the end of a completed run are bounds, and a runner that *)
(* lags behind another may move the cursor back; so the invariant is about *)
(* what each runner holds: it starts from a covered cursor (FromCovers),   *)
(* its page leaves no gap up to the page's end (PageCovers), the last page *)
(* reaches what the store listed (LastPageCovers), and once committed the  *)
(* last page leaves nothing out (FinalCovers).                             *)
(***************************************************************************)
EXTENDS Onboarding, FiniteSetTheorems, WellFoundedInduction, TLAPS

FromCovers == \A r \in Runners : Upserted(1..from[r]) \subseteq imported
PageCovers ==
  \A r \in Runners :
    pc[r] = "fetched" => 1..end[r] \subseteq (1..from[r]) \cup page[r]
LastPageCovers ==
  \A r \in Runners :
    pc[r] = "fetched" /\ ~more[r] => 1..seen[r] \subseteq (1..from[r]) \cup page[r]
FinalCovers ==
  \A r \in Runners : pc[r] = "final" => Upserted(1..seen[r]) \subseteq imported

BackfillInv ==
  /\ BackfillTypeOK
  /\ CursorCovers /\ CompletedCovers
  /\ FromCovers /\ PageCovers /\ LastPageCovers /\ FinalCovers

-----------------------------------------------------------------------------
(* Pages *)

\* A set of naturals below a bound that is not empty has a greatest member.
LEMMA GreatestExists ==
  ASSUME NEW n \in Nat, NEW S \in SUBSET (1..n), S # {}
  PROVE  \E i \in S : \A j \in S : j <= i
<1> DEFINE T == {k \in Nat : \E i \in S : k = n - i}
<1>1. T # {} /\ T \subseteq Nat
  <2>1. PICK i \in S : TRUE
    OBVIOUS
  <2>2. n - i \in Nat
    OBVIOUS
  <2> QED
    BY <2>1, <2>2
<1>2. PICK k \in T : \A y \in T : ~(<<y, k>> \in OpToRel(<, Nat))
  <2> HIDE DEF T
  <2> QED
    BY ONLY <1>1, NatLessThanWellFounded, WFMin
<1>3. PICK i \in S : k = n - i
  BY <1>2
<1>4. ASSUME NEW j \in S
      PROVE  j <= i
  <2>1. n - j \in T
    OBVIOUS
  <2>2. ~(n - j < n - i)
    BY <1>2, <1>3, <2>1 DEF OpToRel
  <2> QED
    BY <2>2
<1> QED
  BY <1>4

\* Last is the greatest item of a page, and 0 of an empty one.
LEMMA LastIsGreatest ==
  ASSUME NEW n \in Nat, NEW S \in SUBSET (1..n)
  PROVE  /\ Last(S) \in 0..n
         /\ S # {} => Last(S) \in S
         /\ \A i \in S : i <= Last(S)
<1>1. CASE S = {}
  BY <1>1 DEF Last
<1>2. CASE S # {}
  <2>1. \E i \in S : \A j \in S : j <= i
    BY <1>2, GreatestExists
  <2>2. Last(S) \in S /\ \A j \in S : j <= Last(S)
    BY <1>2, <2>1 DEF Last
  <2>3. Last(S) \in 1..n
    BY <2>2
  <2> QED
    BY <2>2, <2>3
<1> QED
  BY <1>1, <1>2

\* A page has no gaps: with an item it has every shown item before it.
LEMMA PageHasNoGaps ==
  ASSUME NEW n \in Nat, NEW a \in Nat,
         NEW i \in FirstItems(Shown(n, a)), NEW k \in Shown(n, a), k <= i
  PROVE  k \in FirstItems(Shown(n, a))
<1> DEFINE S == Shown(n, a)
           Below(x) == {j \in S : j < x}
<1>1. S \subseteq 1..n
  BY DEF Shown
<1>2. IsFiniteSet(1..n)
  BY FS_Interval
<1>3. IsFiniteSet(Below(i)) /\ Below(i) \in SUBSET (1..n)
  BY <1>1, <1>2, FS_Subset
<1>4. Below(k) \in SUBSET Below(i)
  BY <1>1 DEF FirstItems
<1>5. Cardinality(Below(k)) <= Cardinality(Below(i)) /\ IsFiniteSet(Below(k))
  BY <1>3, <1>4, FS_Subset
<1>6. Cardinality(Below(k)) \in Nat /\ Cardinality(Below(i)) \in Nat
  BY <1>3, <1>5, FS_CardinalityType
<1>7. Cardinality(Below(i)) < PageSize
  BY DEF FirstItems
<1>8. Cardinality(Below(k)) < PageSize
  BY <1>5, <1>6, <1>7, BackfillAssumption
<1> QED
  BY <1>8 DEF FirstItems

\* What a page fetched after a covers of the items 1..n.
LEMMA PageReaches ==
  ASSUME NEW n \in Nat, NEW a \in Nat
  PROVE  LET S == FirstItems(Shown(n, a))
         IN  /\ S \subseteq 1..n
             /\ Last(S) \in 0..n
             /\ 1..Last(S) \subseteq (1..a) \cup S
             /\ S = Shown(n, a) => 1..n \subseteq (1..a) \cup S
<1> DEFINE S == FirstItems(Shown(n, a))
<1>1. S \in SUBSET (1..n)
  BY DEF FirstItems, Shown
<1>2. Last(S) \in 0..n /\ (S # {} => Last(S) \in S)
  BY <1>1, LastIsGreatest
<1>3. ASSUME NEW k \in 1..Last(S), k \notin 1..a
      PROVE  k \in S
  <2>1. S # {}
    <3>1. S = {} => 1..Last(S) = {}
      BY DEF Last
    <3> QED
      BY <1>3, <3>1
  <2>2. Last(S) \in S /\ k \in Shown(n, a)
    BY <1>2, <1>3, <2>1 DEF Shown
  <2> QED
    BY <2>2, PageHasNoGaps
<1>4. S = Shown(n, a) => 1..n \subseteq (1..a) \cup S
  BY DEF Shown
<1> QED
  BY <1>1, <1>2, <1>3, <1>4

-----------------------------------------------------------------------------
LEMMA BackfillInitInv == BackfillInit => BackfillInv
BY BackfillAssumption DEF BackfillInit, BackfillInv, BackfillTypeOK, CursorCovers,
   CompletedCovers, FromCovers, PageCovers, LastPageCovers, FinalCovers, Statuses, Places,
   Upserted
-----------------------------------------------------------------------------
(* Steps *)

\* Rows are never lost, and the store only grows.
LEMMA ImportsAccumulate ==
  ASSUME BackfillInv, [BackfillNext]_backfillVars
  PROVE  imported \subseteq imported'
BY DEF BackfillNext, RunnerStep, ItemCreated, Open, MarkStarted, FetchPage, TakePage, CommitPage,
   CompleteRun, PauseRun, FailRun, StopRun, CrashRun, backfillVars

\* A step that commits or takes no page and completes no run leaves what the
\* invariant speaks of as it is, but for runners that leave their places.
Still ==
  /\ imported' = imported /\ cursor' = cursor /\ owed' = owed
  /\ UNCHANGED <<fetched, pageVars>>

LEMMA StillKeeps ==
  ASSUME BackfillInv, Still,
         listed' \in 0..MaxItems, status' \in Statuses, pc' \in [Runners -> Places],
         \A r \in Runners : from'[r] \in {from[r], cursor},
         from' \in [Runners -> 0..MaxItems],
         \A r \in Runners : pc'[r] \in {"fetched", "final"} => pc'[r] = pc[r] /\ from'[r] = from[r]
  PROVE  BackfillInv'
<1> USE DEF BackfillInv, Still, pageVars
<1>1. BackfillTypeOK'
  BY DEF BackfillTypeOK
<1>2. CursorCovers' /\ CompletedCovers'
  BY DEF CursorCovers, CompletedCovers, Upserted
<1>3. FromCovers'
  BY DEF FromCovers, CursorCovers, Upserted
<1>4. PageCovers' /\ LastPageCovers'
  BY DEF PageCovers, LastPageCovers
<1>5. FinalCovers'
  BY DEF FinalCovers, Upserted
<1> QED
  BY <1>1, <1>2, <1>3, <1>4, <1>5

LEMMA QuietSteps ==
  ASSUME BackfillInv, NEW r \in Runners,
         Open(r) \/ MarkStarted(r) \/ PauseRun(r) \/ FailRun(r) \/ CrashRun(r)
  PROVE  BackfillInv'
<1> USE DEF BackfillInv, BackfillTypeOK, Statuses, Places
<1>1. Still
  BY DEF Still, Open, MarkStarted, PauseRun, FailRun, StopRun, CrashRun, jobVars, pageVars
<1>2. listed' \in 0..MaxItems /\ status' \in Statuses
  BY DEF Open, MarkStarted, PauseRun, FailRun, StopRun, CrashRun, jobVars
<1>3. pc' \in [Runners -> Places]
  BY DEF Open, MarkStarted, PauseRun, FailRun, StopRun, CrashRun
<1>4. /\ \A q \in Runners : from'[q] \in {from[q], cursor}
      /\ from' \in [Runners -> 0..MaxItems]
  BY DEF Open, MarkStarted, PauseRun, FailRun, StopRun, CrashRun
<1>5. \A q \in Runners :
        pc'[q] \in {"fetched", "final"} => pc'[q] = pc[q] /\ from'[q] = from[q]
  BY DEF Open, MarkStarted, PauseRun, FailRun, StopRun, CrashRun
<1> HIDE DEF BackfillInv, BackfillTypeOK, Statuses, Places
<1> QED
  BY <1>1, <1>2, <1>3, <1>4, <1>5, StillKeeps

LEMMA ItemCreatedStep ==
  ASSUME BackfillInv, ItemCreated
  PROVE  BackfillInv'
<1> USE DEF BackfillInv, ItemCreated, jobVars, runnerVars
<1>1. Still
  BY DEF Still
<1>2. listed' \in 0..MaxItems
  BY BackfillAssumption DEF BackfillTypeOK
<1>3. /\ status' \in Statuses /\ pc' \in [Runners -> Places]
      /\ from' \in [Runners -> 0..MaxItems]
      /\ \A q \in Runners : pc'[q] = pc[q] /\ from'[q] = from[q]
  BY DEF BackfillTypeOK
<1> HIDE DEF BackfillInv, ItemCreated, jobVars, runnerVars
<1> QED
  BY <1>1, <1>2, <1>3, StillKeeps

LEMMA FetchPageStep ==
  ASSUME BackfillInv, NEW r \in Runners, FetchPage(r)
  PROVE  BackfillInv'
<1> DEFINE S == FirstItems(Shown(listed, from[r]))
<1>1. listed \in Nat /\ from[r] \in Nat /\ listed <= MaxItems
  BY BackfillAssumption DEF BackfillInv, BackfillTypeOK
<1>2. /\ S \subseteq 1..listed
      /\ Last(S) \in 0..listed
      /\ 1..Last(S) \subseteq (1..from[r]) \cup S
      /\ S = Shown(listed, from[r]) => 1..listed \subseteq (1..from[r]) \cup S
  BY <1>1, PageReaches
<1>3. TakePage(r, S, Last(S), S # Shown(listed, from[r]))
  BY DEF FetchPage
<1> HIDE DEF S
<1> USE DEF BackfillInv
<1>4. /\ page' = [page EXCEPT ![r] = S] /\ end' = [end EXCEPT ![r] = Last(S)]
      /\ more' = [more EXCEPT ![r] = S # Shown(listed, from[r])]
      /\ seen' = [seen EXCEPT ![r] = listed]
      /\ pc' = [pc EXCEPT ![r] = "fetched"]
      /\ UNCHANGED <<listed, imported, status, cursor, from, fetched, owed>>
  BY <1>3 DEF TakePage, jobVars
<1>5. S \in SUBSET Items /\ Last(S) \in 0..MaxItems /\ listed \in 0..MaxItems
  BY <1>1, <1>2, BackfillAssumption DEF Items
<1>6. (S # Shown(listed, from[r])) \in BOOLEAN
  OBVIOUS
<1>7. BackfillTypeOK'
  BY <1>4, <1>5, <1>6 DEF BackfillTypeOK, Places
<1>8. CursorCovers' /\ CompletedCovers' /\ FromCovers'
  BY <1>4 DEF CursorCovers, CompletedCovers, FromCovers, Upserted
<1>9. FinalCovers'
  BY <1>4 DEF FinalCovers, Upserted, BackfillTypeOK
<1>10. ASSUME NEW q \in Runners, pc'[q] = "fetched"
       PROVE  /\ 1..end'[q] \subseteq (1..from'[q]) \cup page'[q]
              /\ ~more'[q] => 1..seen'[q] \subseteq (1..from'[q]) \cup page'[q]
  <2>1. CASE q = r
    BY <1>2, <1>4, <2>1 DEF BackfillTypeOK
  <2>2. CASE q # r
    <3>1. /\ pc'[q] = pc[q] /\ end'[q] = end[q] /\ page'[q] = page[q] /\ more'[q] = more[q]
          /\ seen'[q] = seen[q] /\ from'[q] = from[q]
      BY <1>4, <2>2 DEF BackfillTypeOK
    <3> QED
      BY <1>10, <3>1 DEF PageCovers, LastPageCovers
  <2> QED
    BY <2>1, <2>2
<1> QED
  BY <1>7, <1>8, <1>9, <1>10 DEF PageCovers, LastPageCovers

LEMMA CommitPageStep ==
  ASSUME BackfillInv, NEW r \in Runners, CommitPage(r)
  PROVE  BackfillInv'
<1> USE DEF BackfillInv
<1>1. /\ pc[r] = "fetched"
      /\ imported' = imported \cup Upserted(page[r])
      /\ cursor' = end[r] /\ from' = [from EXCEPT ![r] = end[r]]
      /\ fetched' = [fetched EXCEPT ![r] = @ + 1]
      /\ pc' = [pc EXCEPT ![r] = IF fetched[r] + 1 = PageLimit THEN "over"
                                 ELSE IF more[r] THEN "ready" ELSE "final"]
      /\ UNCHANGED <<listed, status, page, end, more, seen, owed>>
  BY DEF CommitPage, pageVars
<1>2. Upserted(1..end[r]) \subseteq imported'
  BY <1>1 DEF PageCovers, FromCovers, Upserted
<1>3. ~more[r] => Upserted(1..seen[r]) \subseteq imported'
  BY <1>1 DEF LastPageCovers, FromCovers, Upserted
<1>4. BackfillTypeOK'
  <2>1. page[r] \in SUBSET Items /\ end[r] \in 0..MaxItems /\ fetched[r] + 1 \in Nat
    BY DEF BackfillTypeOK
  <2>2. imported' \subseteq Items
    BY <1>1, <2>1 DEF BackfillTypeOK, Upserted
  <2>3. pc' \in [Runners -> Places]
    BY <1>1 DEF BackfillTypeOK, Places
  <2>4. from' \in [Runners -> 0..MaxItems] /\ fetched' \in [Runners -> Nat]
    BY <1>1, <2>1 DEF BackfillTypeOK
  <2> QED
    BY <1>1, <2>1, <2>2, <2>3, <2>4 DEF BackfillTypeOK
<1>5. CursorCovers' /\ CompletedCovers'
  BY <1>1, <1>2 DEF CursorCovers, CompletedCovers, Upserted
<1>6. FromCovers'
  <2>1. ASSUME NEW q \in Runners
        PROVE  Upserted(1..from'[q]) \subseteq imported'
    <3>1. CASE q = r
      BY <1>1, <1>2, <3>1 DEF BackfillTypeOK, Upserted
    <3>2. CASE q # r
      BY <1>1, <3>2 DEF BackfillTypeOK, FromCovers, Upserted
    <3> QED
      BY <3>1, <3>2
  <2> QED
    BY <2>1 DEF FromCovers, Upserted
<1>7. PageCovers' /\ LastPageCovers'
  <2>1. \A q \in Runners : pc'[q] = "fetched" => q # r /\ pc[q] = "fetched" /\ from'[q] = from[q]
    BY <1>1 DEF BackfillTypeOK
  <2> QED
    BY <1>1, <2>1 DEF PageCovers, LastPageCovers
<1>8. FinalCovers'
  <2>1. ASSUME NEW q \in Runners, pc'[q] = "final"
        PROVE  Upserted(1..seen[q]) \subseteq imported'
    <3>1. CASE q = r
      <4>1. ~more[r]
        BY <1>1, <2>1, <3>1 DEF BackfillTypeOK
      <4> QED
        BY <1>3, <3>1, <4>1
    <3>2. CASE q # r
      <4>1. pc[q] = "final"
        BY <1>1, <2>1, <3>2 DEF BackfillTypeOK
      <4> QED
        BY <1>1, <4>1 DEF FinalCovers
    <3> QED
      BY <3>1, <3>2
  <2> QED
    BY <1>1, <2>1 DEF FinalCovers, Upserted
<1> QED
  BY <1>4, <1>5, <1>6, <1>7, <1>8

LEMMA CompleteRunStep ==
  ASSUME BackfillInv, NEW r \in Runners, CompleteRun(r)
  PROVE  BackfillInv'
<1> USE DEF BackfillInv
<1>1. /\ pc[r] = "final" /\ status' = "completed"
      /\ pc' = [pc EXCEPT ![r] = "done"]
      /\ owed' \in {seen[r], owed}
      /\ UNCHANGED <<listed, imported, cursor, from, fetched, page, end, more, seen>>
  BY DEF CompleteRun, pageVars
<1>2. BackfillTypeOK'
  BY <1>1 DEF BackfillTypeOK, Statuses, Places
<1>3. CursorCovers' /\ CompletedCovers'
  BY <1>1 DEF CursorCovers, CompletedCovers, FinalCovers, Upserted
<1>4. FromCovers'
  BY <1>1 DEF FromCovers, Upserted
<1>5. \A q \in Runners : pc'[q] \in {"fetched", "final"} => pc'[q] = pc[q]
  BY <1>1 DEF BackfillTypeOK
<1>6. PageCovers' /\ LastPageCovers'
  BY <1>1, <1>5 DEF PageCovers, LastPageCovers
<1>7. FinalCovers'
  BY <1>1, <1>5 DEF FinalCovers, Upserted
<1> QED
  BY <1>2, <1>3, <1>4, <1>6, <1>7

LEMMA BackfillStep ==
  ASSUME BackfillInv, [BackfillNext]_backfillVars
  PROVE  BackfillInv'
<1>1. CASE ItemCreated
  BY <1>1, ItemCreatedStep
<1>2. ASSUME NEW r \in Runners, RunnerStep(r)
      PROVE  BackfillInv'
  BY <1>2, QuietSteps, FetchPageStep, CommitPageStep, CompleteRunStep DEF RunnerStep
<1>3. CASE UNCHANGED backfillVars
  BY <1>3 DEF BackfillInv, BackfillTypeOK, CursorCovers, CompletedCovers, FromCovers, PageCovers,
     LastPageCovers, FinalCovers, Upserted, backfillVars, jobVars, runnerVars, pageVars
<1> QED
  BY <1>1, <1>2, <1>3 DEF BackfillNext

-----------------------------------------------------------------------------
(* The types of the onboarding *)

LEMMA BootstrapTypes ==
  ASSUME MerchantTypeOK, CallersTypeOK,
         Uninstall \/ CustomerCreated \/ Bootstrap \/ AbandonBootstrap \/ HandleUninstalled
  PROVE  MerchantTypeOK' /\ CallersTypeOK'
<1>0. 0 \in 0..MaxInstalls /\ hooks + 1 \in Nat /\ mishaps + 1 \in Nat
  BY OnboardingAssumption DEF MerchantTypeOK, CallersTypeOK
<1> USE <1>0, OnboardingAssumption DEF MerchantTypeOK, CallersTypeOK, shopify, merchant, web
<1>1. CASE Uninstall
  BY <1>1 DEF Uninstall
<1>2. CASE CustomerCreated
  BY <1>2 DEF CustomerCreated, onboardingVars
<1>3. CASE Exchange
  BY <1>3 DEF Exchange, TokenNow
<1>4. CASE \E e \in Runners : CompleteInstall(e)
  BY <1>4 DEF CompleteInstall, UpsertInstall
<1>5. CASE StoreSession
  BY <1>5 DEF StoreSession
<1>6. CASE SubscribeCall
  BY <1>6 DEF SubscribeCall, SendCall
<1>7. CASE Subscribed \/ SubscribeRefused \/ SubscribeTokenless
  BY <1>7 DEF Subscribed, SubscribeRefused, SubscribeTokenless, Answered, Refused, EndCall
<1>8. CASE AbandonBootstrap
  BY <1>8 DEF AbandonBootstrap, EndCall, Mishap
<1>9. CASE HandleUninstalled
  BY <1>9 DEF HandleUninstalled, MarkUninstalled
<1> QED
  BY <1>1, <1>2, <1>3, <1>4, <1>5, <1>6, <1>7, <1>8, <1>9 DEF Bootstrap

LEMMA HandlerTypes ==
  ASSUME MerchantTypeOK, CallersTypeOK, NEW e \in Runners,
         Handle(e) \/ EnrichFailed(e) \/ BackfillFailed(e) \/ HandlerCrash(e)
  PROVE  MerchantTypeOK' /\ CallersTypeOK'
<1>0. 0 \in 0..MaxInstalls /\ hooks + 1 \in Nat /\ mishaps + 1 \in Nat
  BY OnboardingAssumption DEF MerchantTypeOK, CallersTypeOK
<1> USE <1>0, OnboardingAssumption DEF MerchantTypeOK, CallersTypeOK, shopify, merchant, web
<1>1. CASE Claim(e) \/ EnrichCall(e) \/ PageCall(e)
  BY <1>1 DEF Claim, EnrichCall, PageCall, SendCall
<1>2. CASE Enriched(e)
  BY <1>2 DEF Enriched, ToBackfill, Answered, EndCall, UpdateEnrichment
<1>2a. CASE EnrichTokenless(e) \/ EnrichFailed(e)
  BY <1>2a DEF EnrichTokenless, EnrichFailed, ToBackfill, EndCall, Mishap
<1>3. CASE EnrichRefused(e) \/ PageRefused(e)
  BY <1>3 DEF EnrichRefused, PageRefused, ToBackfill, Refused, EndCall
<1>4. CASE BackfillDb(e) \/ PageTokenless(e)
  BY <1>4 DEF BackfillDb, PageTokenless, onboardingVars
<1>5. CASE PageAnswered(e)
  BY <1>5 DEF PageAnswered, Answered
<1>6. CASE BackfillFailed(e)
  BY <1>6 DEF BackfillFailed, EndCall, Mishap
<1>7. CASE HandlerCrash(e)
  BY <1>7 DEF HandlerCrash, EndCall, Mishap
<1> QED
  BY <1>1, <1>2, <1>2a, <1>3, <1>4, <1>5, <1>6, <1>7 DEF Handle

LEMMA SweepTypes ==
  ASSUME MerchantTypeOK, CallersTypeOK, SweepStep \/ SweepFailed
  PROVE  MerchantTypeOK' /\ CallersTypeOK'
<1>0. 0 \in 0..MaxInstalls /\ hooks + 1 \in Nat /\ mishaps + 1 \in Nat
  BY OnboardingAssumption DEF MerchantTypeOK, CallersTypeOK
<1> USE <1>0, OnboardingAssumption DEF MerchantTypeOK, CallersTypeOK, shopify, merchant, web
<1>0a. CASE SweepSelect
  BY <1>0a DEF SweepSelect
<1>0b. CASE SweepTokenless
  BY <1>0b DEF SweepTokenless
<1>1. CASE SweepCall
  BY <1>1 DEF SweepCall, SendCall
<1>2. CASE SweepEnriched
  BY <1>2 DEF SweepEnriched, Answered, EndCall, UpdateEnrichment
<1>3. CASE SweepRefused
  BY <1>3 DEF SweepRefused, Refused, EndCall
<1>4. CASE SweepFailed
  BY <1>4 DEF SweepFailed, EndCall, Mishap
<1> QED
  BY <1>0a, <1>0b, <1>1, <1>2, <1>3, <1>4 DEF SweepStep

-----------------------------------------------------------------------------
(* Theorems *)

\* The invariant of the job machine (BackfillRunner.run with any callers).
THEOREM BackfillInvariant == BackfillSpec => []BackfillInv
<1>1. BackfillInv /\ [BackfillNext]_backfillVars => BackfillInv'
  BY BackfillStep
<1> QED
  BY BackfillInitInv, <1>1, PTL DEF BackfillSpec

\* The onboarding of a shop drives the runners only as the job machine
\* allows: whatever the bootstrap, the token, the sweep and the crashes do,
\* every step is a step of the backfill or leaves it alone.
THEOREM OnboardingRefinesBackfill == Spec => BackfillSpec
<1>1. Init => BackfillInit
  BY DEF Init
<1>2. [Next]_vars => [BackfillNext]_backfillVars
  <2> SUFFICES ASSUME [Next]_vars
               PROVE  [BackfillNext]_backfillVars
    OBVIOUS
  <2>1. CASE CustomerCreated
    BY <2>1 DEF CustomerCreated, BackfillNext
  <2>2. CASE Uninstall \/ Bootstrap \/ AbandonBootstrap \/ HandleUninstalled
    BY <2>2 DEF Uninstall, Bootstrap, AbandonBootstrap, HandleUninstalled, Exchange,
       CompleteInstall, StoreSession, SubscribeCall, Subscribed, SubscribeRefused,
       SubscribeTokenless
  <2>3. CASE SweepStep \/ SweepFailed
    BY <2>3 DEF SweepStep, SweepFailed, SweepSelect, SweepCall, SweepEnriched, SweepRefused,
       SweepTokenless
  <2>4. ASSUME NEW e \in Runners, Handle(e) \/ EnrichFailed(e) \/ BackfillFailed(e) \/ HandlerCrash(e)
        PROVE  RunnerStep(e) \/ UNCHANGED backfillVars
    BY <2>4 DEF Handle, EnrichFailed, BackfillFailed, HandlerCrash, Claim, EnrichCall, Enriched,
       EnrichRefused, EnrichTokenless, BackfillDb, PageCall, PageAnswered, PageRefused,
       PageTokenless, RunnerStep
  <2>5. CASE UNCHANGED vars
    BY <2>5 DEF vars
  <2> QED
    BY <2>1, <2>2, <2>3, <2>4, <2>5 DEF Next, BackfillNext
<1> QED
  BY <1>1, <1>2, PTL DEF Spec, BackfillSpec

\* The cursor never runs ahead of the rows: whatever a rerun skips has been
\* imported (runner.ts:117-135).
THEOREM CursorIsSafe == Spec => []CursorCovers
BY BackfillInvariant, OnboardingRefinesBackfill, PTL DEF BackfillInv

\* A backfill that completed has every well formed item its store listed when
\* the last page was fetched (runner.ts:156-167).
THEOREM CompletedIsComplete == Spec => []CompletedCovers
BY BackfillInvariant, OnboardingRefinesBackfill, PTL DEF BackfillInv

\* Every variable of the onboarding keeps its type.
THEOREM OnboardingTypes == Spec => []TypeOK
<1>0. 0 \in 0..MaxInstalls
  BY OnboardingAssumption
<1>1. Init => MerchantTypeOK /\ CallersTypeOK
  <2> SUFFICES ASSUME Init
               PROVE  MerchantTypeOK /\ CallersTypeOK
    OBVIOUS
  <2>1. MerchantTypeOK
    BY <1>0 DEF Init, MerchantTypeOK
  <2>2. CallersTypeOK
    BY <1>0 DEF Init, CallersTypeOK
  <2> QED
    BY <2>1, <2>2
<1>2. MerchantTypeOK /\ CallersTypeOK /\ [Next]_vars => MerchantTypeOK' /\ CallersTypeOK'
  <2> SUFFICES ASSUME MerchantTypeOK, CallersTypeOK, [Next]_vars
               PROVE  MerchantTypeOK' /\ CallersTypeOK'
    OBVIOUS
  <2>1. CASE UNCHANGED vars
    BY <2>1 DEF vars, onboardingVars, shopify, merchant, web, MerchantTypeOK, CallersTypeOK
  <2> QED
    BY <2>1, BootstrapTypes, HandlerTypes, SweepTypes DEF Next
<1>3. BackfillInv => BackfillTypeOK
  BY DEF BackfillInv
<1>4. BackfillTypeOK /\ MerchantTypeOK /\ CallersTypeOK => TypeOK
  BY DEF TypeOK
<1> QED
  BY <1>1, <1>2, <1>3, <1>4, BackfillInvariant, OnboardingRefinesBackfill, PTL DEF Spec
=============================================================================
