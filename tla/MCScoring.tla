----------------------------- MODULE MCScoring -----------------------------
(* Instances of Scoring for TLC. *)
EXTENDS Scoring, TLC

HandlerSymmetry == Permutations(Handlers)

\* One customer who buys once.
Ann == {1}
OneOrder == {"o1"}
AnnBuys == [o \in OneOrder |-> 1]
BornFirst == [c \in Ann |-> 0]

\* Two customers, of whom the second buys once; by the shop's clock the first
\* account is two days younger than its first webhook.  Threshold 0 stands for
\* other customers whose orders make the cohort large enough.
Couple == 1..2
SecondBuys == [o \in OneOrder |-> 2]
BornApart == [c \in Couple |-> IF c = 1 THEN 2 ELSE 0]

\* Orders of today, orders the shop's clock has a day ahead, and orders that were
\* imported into the shop long after they were paid.
On(p, q) == [placed |-> p, processed |-> q]
OnTime == On(0, 0)
Early == On(1, 1)
Imported == On(0, -1)
TodayOrAhead == {OnTime, Early}
AnyDate == {OnTime, Early, Imported}

\* scoring-math.ts:19-24, on every cohort of up to six: the rank of a value is
\* one plus the fifths of the cohort that are below it.
SmallCohorts == UNION {[1..n -> 0..3] : n \in 1..6}
Below(value, c) == Cardinality({d \in DOMAIN value : value[d] < value[c]})
ASSUME RankIsShareBelow ==
  \A value \in SmallCohorts : \A c \in DOMAIN value :
    Rank(value[c], Boundaries(value)) = 1 + (5 * Below(value, c)) \div Cardinality(DOMAIN value)
=============================================================================
