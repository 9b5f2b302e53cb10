----------------------------- MODULE ScoringMath -----------------------------
(***************************************************************************)
(* packages/db/src/services/scoring-math.ts: the pure part of scoring.  A  *)
(* cohort is a function from the customers with a counted order to the     *)
(* value of one dimension (days since the last order, number of orders or  *)
(* cents), so sorting it is choosing its i-th smallest value.              *)
(***************************************************************************)
EXTENDS Integers, FiniteSets

CONSTANTS
  ActiveMax, WarmMax, AtRiskMax, DormantMax,  \* STATE_BOUNDARIES_DAYS
  Threshold                                   \* INSUFFICIENT_COHORT_THRESHOLD

ASSUME ScoringMathAssumption ==
  /\ ActiveMax \in Nat /\ WarmMax \in Nat /\ AtRiskMax \in Nat /\ DormantMax \in Nat
  /\ ActiveMax <= WarmMax /\ WarmMax <= AtRiskMax /\ AtRiskMax <= DormantMax
  /\ Threshold \in Nat

----------------------------------------------------------------------------
(* Quintiles *)

\* The i-th smallest of the cohort's values, i from 1.
Smallest(value, i) ==
  CHOOSE v \in {value[c] : c \in DOMAIN value} :
    /\ Cardinality({c \in DOMAIN value : value[c] < v}) < i
    /\ i <= Cardinality({c \in DOMAIN value : value[c] <= v})

\* Math.ceil(N * k / 5) - 1 as an index from 0, so Math.ceil(N * k / 5) from 1.
Cut(value, k) == Smallest(value, (Cardinality(DOMAIN value) * k + 4) \div 5)
Boundaries(value) == [k \in 1..4 |-> Cut(value, k)]

\* Ties at a boundary fall into the lower quintile.
Rank(v, cuts) ==
  IF v > cuts[4] THEN 5
  ELSE IF v > cuts[3] THEN 4
  ELSE IF v > cuts[2] THEN 3
  ELSE IF v > cuts[1] THEN 2
  ELSE 1

AssignRQuintile(r, cuts) == 6 - Rank(r, cuts)   \* fewer days are better
AssignFQuintile(f, cuts) == Rank(f, cuts)
AssignMQuintile(m, cuts) == Rank(m, cuts)

\* The churn risk score, in fifteenths.
ChurnRisk(rQuintile, fQuintile, mQuintile) == 15 - (rQuintile + fQuintile + mQuintile)

----------------------------------------------------------------------------
(* Bands *)

Bands == {"active", "warm", "at_risk", "dormant", "lost"}
States == Bands \cup {"insufficient_data"}

StateFromRecency(r) ==
  IF r <= ActiveMax THEN "active"
  ELSE IF r <= WarmMax THEN "warm"
  ELSE IF r <= AtRiskMax THEN "at_risk"
  ELSE IF r <= DormantMax THEN "dormant"
  ELSE "lost"

\* Account age; an account created after now has age 0.
LurkerRDays_Raw(born, now) == now - born
LurkerRDays(born, now) == IF now <= born THEN 0 ELSE now - born

IsInsufficient(cohort) == Cardinality(DOMAIN cohort) < Threshold

\* A resolution holds the days, whether quintiles are assigned, and the state.
ResolveScorable(r, insufficient) ==
  [r |-> r, ranked |-> ~insufficient,
   state |-> IF insufficient THEN "insufficient_data" ELSE StateFromRecency(r)]
ResolveLurker(born, now, insufficient) ==
  LET r == LurkerRDays(born, now)
  IN  [r |-> r, ranked |-> FALSE,
       state |-> IF insufficient THEN "insufficient_data" ELSE StateFromRecency(r)]
=============================================================================
