--------------------------- MODULE ScoringProofs ---------------------------
(***************************************************************************)
(* What scoring promises, for any number of customers, orders and          *)
(* concurrent handlers, and any bands.                                     *)
(*                                                                         *)
(* Everything that can go wrong lies between a transaction's read of a     *)
(* state and its write of another.  So the invariant follows the readers:  *)
(* one whose customer was never written under another's read still holds   *)
(* the customer's state (ReadersSee), and every resolution that waits to   *)
(* be written is one a single row could hold (AllConsistent).              *)
(***************************************************************************)
EXTENDS Scoring, FiniteSetTheorems, WellFoundedInduction, TLAPS

(* Sets of naturals *)

\* A set of naturals that is not empty has a least member.
LEMMA LeastExists ==
  ASSUME NEW S \in SUBSET Nat, S # {}
  PROVE  \E i \in S : \A j \in S : i <= j
<1>1. PICK i \in S : \A j \in S : ~(<<j, i>> \in OpToRel(<, Nat))
  BY ONLY NatLessThanWellFounded, WFMin, S \in SUBSET Nat, S # {}
<1>2. ASSUME NEW j \in S
      PROVE  i <= j
  <2>1. ~(j < i)
    BY <1>1 DEF OpToRel
  <2> QED
    BY <2>1
<1> QED
  BY <1>2

\* So has a set of days: they are bounded from below.
LEMMA LeastDays ==
  ASSUME NEW S \in SUBSET Days, S # {}
  PROVE  \E i \in S : \A j \in S : i <= j
<1> DEFINE T == {d + Ahead : d \in S}
<1>1. Ahead \in Nat /\ \A d \in S : d \in Int /\ d + Ahead \in Nat
  BY ScoringAssumption DEF Days
<1>2. T \in SUBSET Nat /\ T # {}
  BY <1>1
<1>3. PICK k \in T : \A j \in T : k <= j
  <2> HIDE DEF T
  <2> QED
    BY <1>2, LeastExists
<1>4. PICK i \in S : k = i + Ahead
  BY <1>3
<1>5. \A j \in S : i + Ahead <= j + Ahead
  BY <1>3, <1>4
<1> QED
  BY <1>1, <1>4, <1>5

\* A finite one has a greatest member: the one with the fewest above it.
LEMMA GreatestExists ==
  ASSUME NEW S \in SUBSET Nat, IsFiniteSet(S), S # {}
  PROVE  \E i \in S : \A j \in S : j <= i
<1> DEFINE Above(i) == {j \in S : j > i}
           T == {k \in Nat : \E i \in S : k = Cardinality(Above(i))}
<1>1. \A i : IsFiniteSet(Above(i)) /\ Cardinality(Above(i)) \in Nat
  BY FS_Subset, FS_CardinalityType
<1>2. T # {} /\ T \subseteq Nat
  BY <1>1
<1>3. PICK k \in T : \A y \in T : k <= y
  <2> HIDE DEF T
  <2> QED
    BY <1>2, LeastExists
<1>4. PICK i \in S : k = Cardinality(Above(i))
  BY <1>3
<1>5. ASSUME NEW j \in S, ~(j <= i)
      PROVE  FALSE
  <2>1. j > i
    BY <1>5
  <2>2. Above(j) \subseteq Above(i) /\ j \in Above(i) /\ j \notin Above(j)
    <3>1. \A x \in S : x \in Int
      OBVIOUS
    <3>2. ASSUME NEW x \in Above(j)
          PROVE  x \in Above(i)
      <4>1. x \in S /\ x > j
        OBVIOUS
      <4>2. x > i
        BY <2>1, <3>1, <4>1
      <4> QED
        BY <4>1, <4>2
    <3>3. ~(j > j)
      BY <3>1
    <3> QED
      BY <2>1, <3>2, <3>3
  <2>3. Cardinality(Above(j)) <= Cardinality(Above(i))
        /\ Cardinality(Above(j)) # Cardinality(Above(i))
    <3> HIDE DEF Above
    <3> QED
      BY <1>1, <2>2, FS_Subset
  <2>4. k <= Cardinality(Above(j))
    BY <1>1, <1>3
  <2> HIDE DEF Above
  <2> QED
    BY <1>1, <1>4, <2>3, <2>4
<1> QED
  BY <1>5

Before(S, c) == {d \in S : d < c}

LEMMA FirstOfIs ==
  ASSUME NEW S, NEW n
  PROVE  FirstOf(S, n) = {c \in S : Cardinality(Before(S, c)) < n}
BY DEF FirstOf, Before

LEMMA BeforeFinite ==
  ASSUME NEW S, IsFiniteSet(S)
  PROVE  \A c : IsFiniteSet(Before(S, c)) /\ Cardinality(Before(S, c)) \in Nat
BY FS_Subset, FS_CardinalityType DEF Before

\* The first n of a set: whatever is no later than one of them is one of them.
LEMMA FirstOfDownward ==
  ASSUME NEW S \in SUBSET Nat, IsFiniteSet(S), NEW n \in Nat,
         NEW c \in FirstOf(S, n), NEW d \in S, d <= c
  PROVE  d \in FirstOf(S, n)
<1>1. Before(S, d) \subseteq Before(S, c) /\ c \in S
  <2>1. c \in S /\ \A x \in S : x \in Int
    BY DEF FirstOf
  <2>2. \A x \in S : x < d => x < c
    BY <2>1
  <2> QED
    BY <2>1, <2>2 DEF Before
<1>2. Cardinality(Before(S, d)) <= Cardinality(Before(S, c))
  BY <1>1, BeforeFinite, FS_Subset
<1>3. Cardinality(Before(S, c)) < n
  BY FirstOfIs
<1> QED
  BY <1>2, <1>3, BeforeFinite, FirstOfIs

\* Where something is left out they are n, and come before it.
LEMMA FirstOfFull ==
  ASSUME NEW S \in SUBSET Nat, IsFiniteSet(S), NEW n \in Nat \ {0},
         NEW c \in S, c \notin FirstOf(S, n)
  PROVE  Cardinality(FirstOf(S, n)) = n /\ \A d \in FirstOf(S, n) : d < c
<1> DEFINE F == FirstOf(S, n)
           Rest == S \ F
<1>1. F \subseteq S /\ F \subseteq Nat /\ IsFiniteSet(F) /\ Cardinality(F) \in Nat
  BY FS_Subset, FS_CardinalityType DEF FirstOf
<1>2. Rest # {} /\ Rest \subseteq Nat
  OBVIOUS
<1>3. PICK b \in Rest : \A j \in Rest : b <= j
  <2> HIDE DEF Rest
  <2> QED
    BY <1>2, LeastExists
<1>4. \A e \in Rest : \A d \in F : d < e
  BY <1>1, FirstOfDownward
<1>5. F = Before(S, b)
  <2>1. ASSUME NEW d \in F
        PROVE  d \in Before(S, b)
    BY <1>1, <1>4 DEF Before
  <2>2. ASSUME NEW d \in Before(S, b), d \notin F
        PROVE  FALSE
    BY <1>1, <1>3, <2>2 DEF Before
  <2> QED
    BY <2>1, <2>2
<1>6. n <= Cardinality(F)
  BY <1>1, <1>3, <1>5, BeforeFinite, FirstOfIs
<1>7. Cardinality(F) <= n
  <2>1. F # {}
    BY <1>6, FS_EmptySet
  <2>2. PICK m \in F : \A j \in F : j <= m
    <3> HIDE DEF F
    <3> QED
      BY <1>1, <2>1, GreatestExists
  <2>3. F = Before(S, m) \cup {m}
    <3>1. ASSUME NEW d \in F
          PROVE  d \in Before(S, m) \cup {m}
      BY <1>1, <2>2 DEF Before
    <3>2. ASSUME NEW d \in Before(S, m)
          PROVE  d \in F
      BY <1>1, <2>2, FirstOfDownward DEF Before
    <3> QED
      BY <2>2, <3>1, <3>2
  <2>4. m \notin Before(S, m)
    BY <1>1 DEF Before
  <2>5. Cardinality(Before(S, m) \cup {m}) = Cardinality(Before(S, m)) + 1
    BY <2>4, BeforeFinite, FS_AddElement
  <2>6. Cardinality(Before(S, m)) < n
    BY FirstOfIs
  <2> QED
    BY <2>3, <2>5, <2>6, BeforeFinite
<1> QED
  BY <1>1, <1>4, <1>6, <1>7

\* findMany's skip: the first one is the least.
LEMMA FirstIsLeast ==
  ASSUME NEW S \in SUBSET Nat, IsFiniteSet(S), NEW a \in S, \A d \in S : a <= d
  PROVE  FirstOf(S, 1) = {a}
<1>1. Before(S, a) = {}
  <2>1. \A x \in S : x \in Int
    OBVIOUS
  <2>2. \A x \in S : ~(x < a)
    BY <2>1
  <2> QED
    BY <2>2 DEF Before
<1>2. a \in FirstOf(S, 1)
  BY <1>1, FS_EmptySet, FirstOfIs
<1>3. ASSUME NEW d \in FirstOf(S, 1)
      PROVE  d = a
  <2>1. d \in S /\ Cardinality(Before(S, d)) < 1
    BY FirstOfIs
  <2>2. Before(S, d) = {}
    BY <2>1, BeforeFinite, FS_EmptySet
  <2>3. a \notin Before(S, d)
    BY <2>2
  <2> QED
    BY <2>1, <2>3 DEF Before
<1> QED
  BY <1>2, <1>3

-----------------------------------------------------------------------------
(* Resolutions *)

\* No order is dated further ahead than orders are, and a handler at work has a
\* customer.
PlacedBy == \A o \in Orders : processed[o] <= day + Ahead
HandlersHold == \A h \in Handlers : hpc[h] # "idle" => hcustomer[h] \in Customers
TypeInv == TypeOK /\ PlacedBy /\ HandlersHold

\* What one row can hold: days and state of one resolution.
Consistent(res) ==
  res.state = StateFromRecency(res.r) \/ (~res.ranked /\ res.state = "insufficient_data")

LEMMA BandIsState == \A r : StateFromRecency(r) \in Bands
BY DEF StateFromRecency, Bands

\* A member of the cohort has its days since its newest counted order.
LEMMA CohortTyped ==
  ASSUME TypeOK, PlacedBy, NEW ver, NEW link
  PROVE  /\ DOMAIN Cohort(ver, link, day) \subseteq Customers
         /\ IsFiniteSet(DOMAIN Cohort(ver, link, day))
         /\ \A c \in DOMAIN Cohort(ver, link, day) : Cohort(ver, link, day)[c] \in Days
         /\ \A o \in Orders :
              Counts(o, ver, link, day) =>
                /\ Buyer[o] \in DOMAIN Cohort(ver, link, day)
                /\ Cohort(ver, link, day)[Buyer[o]] <= day - processed[o]
<1> DEFINE counted == {o \in Orders : Counts(o, ver, link, day)}
           Ages(c) == {day - processed[o] : o \in {p \in counted : Buyer[p] = c}}
           Least(c) == CHOOSE d \in Ages(c) : \A e \in Ages(c) : d <= e
           D == {Buyer[o] : o \in counted}
<1>1. Cohort(ver, link, day) = [c \in D |-> Least(c)]
  BY DEF Cohort
<1>2. \A o \in Orders : day - processed[o] \in Days
  <2>1. day \in Int /\ Ahead \in Int
    BY ScoringAssumption DEF TypeOK
  <2>2. \A o \in Orders : processed[o] \in Int /\ processed[o] <= day + Ahead
    BY DEF TypeOK, PlacedBy
  <2> QED
    BY <2>1, <2>2 DEF Days
<1>3. D \subseteq Customers /\ IsFiniteSet(D)
  BY ScoringAssumption, FS_Subset
<1>4. ASSUME NEW c \in D
      PROVE  Least(c) \in Ages(c) /\ (\A e \in Ages(c) : Least(c) <= e) /\ Ages(c) \subseteq Days
  <2>1. Ages(c) \in SUBSET Days /\ Ages(c) # {}
    BY <1>2, <1>4
  <2>2. \E d \in Ages(c) : \A e \in Ages(c) : d <= e
    <3> HIDE DEF Ages
    <3> QED
      BY <2>1, LeastDays
  <2> HIDE DEF Ages
  <2> QED
    BY <2>1, <2>2
<1>5. ASSUME NEW o \in Orders, Counts(o, ver, link, day)
      PROVE  Buyer[o] \in D /\ day - processed[o] \in Ages(Buyer[o])
  BY <1>5
<1>6. \A c \in D : Least(c) \in Days
  <2> HIDE DEF Ages, D, Least
  <2> QED
    BY <1>4
<1>7. \A o \in Orders :
        Counts(o, ver, link, day) => Buyer[o] \in D /\ Least(Buyer[o]) <= day - processed[o]
  <2> HIDE DEF Ages, D, Least
  <2> QED
    BY <1>4, <1>5
<1> HIDE DEF D, Least, counted
<1> QED
  BY <1>1, <1>3, <1>6, <1>7

\* Every resolution is one a row can hold.
LEMMA ResolveTyped ==
  ASSUME TypeOK, PlacedBy, NEW ver, NEW link, NEW c \in Customers
  PROVE  /\ Resolve(c, Cohort(ver, link, day), day) \in Resolutions
         /\ Consistent(Resolve(c, Cohort(ver, link, day), day))
<1> DEFINE cohort == Cohort(ver, link, day)
           few == IsInsufficient(cohort)
<1>1. few \in BOOLEAN
  BY DEF IsInsufficient
<1>2. day \in Nat /\ Born[c] \in Int
  BY ScoringAssumption DEF TypeOK
<1>3. LurkerRDays(Born[c], day) \in Days
  <2>1. LurkerRDays(Born[c], day) \in Nat
    BY <1>2 DEF LurkerRDays
  <2> QED
    BY <2>1, ScoringAssumption DEF Days
<1>4. ASSUME NEW r \in Days, NEW b \in BOOLEAN
      PROVE  /\ ResolveScorable(r, b) \in Resolutions /\ Consistent(ResolveScorable(r, b))
  BY BandIsState DEF ResolveScorable, Resolutions, Consistent, States, Bands
<1>5. CASE c \in DOMAIN cohort
  <2>1. cohort[c] \in Days
    BY <1>5, CohortTyped
  <2>2. Resolve(c, cohort, day) = ResolveScorable(cohort[c], few)
    BY <1>5 DEF Resolve
  <2> HIDE DEF cohort, few
  <2> QED
    BY <1>1, <1>4, <2>1, <2>2 DEF cohort
<1>6. CASE c \notin DOMAIN cohort
  <2>1. Resolve(c, cohort, day) = ResolveLurker(Born[c], day, few)
    BY <1>6 DEF Resolve
  <2>2. /\ ResolveLurker(Born[c], day, few) \in Resolutions
        /\ Consistent(ResolveLurker(Born[c], day, few))
    <3> HIDE DEF few
    <3> QED
      BY <1>1, <1>3, BandIsState DEF ResolveLurker, Resolutions, Consistent, States, Bands
  <2> HIDE DEF cohort, few
  <2> QED
    BY <2>1, <2>2 DEF cohort
<1> QED
  BY <1>5, <1>6

LEMMA UnresolvedTyped == Unresolved \in Resolutions /\ Consistent(Unresolved)
BY ScoringMathAssumption, ScoringAssumption
   DEF Unresolved, Resolutions, Days, Consistent, StateFromRecency, States, Bands

LEMMA UnreadTyped ==
  /\ Unread \in UNION {[S -> States] : S \in SUBSET Customers}
  /\ DOMAIN Unread = {}
<1>1. Unread \in [{} -> States]
  BY DEF Unread
<1> QED
  BY <1>1 DEF Unread

\* The next cursor of a full page.
LEMMA LastOfPage ==
  ASSUME NEW S \in SUBSET Customers, IsFull(S)
  PROVE  LastOf(S) \in S /\ \A d \in S : d <= LastOf(S)
<1>1. IsFiniteSet(S) /\ S \in SUBSET Nat
  BY ScoringAssumption, FS_Subset
<1>2. S # {}
  BY ScoringAssumption, FS_EmptySet DEF IsFull
<1>3. \E c \in S : \A d \in S : d <= c
  BY <1>1, <1>2, GreatestExists
<1> QED
  BY <1>3 DEF LastOf

-----------------------------------------------------------------------------
(* Readers and writers *)

AllConsistent ==
  /\ \A h \in Handlers : Consistent(hres[h])
  /\ \A p \in Passes : \A c \in Customers : Consistent(pres[p][c])

\* Who read a state that nobody overlapped still holds the customer's state.
ReadersSee ==
  /\ \A h \in Handlers :
       hpc[h] # "idle" /\ hcustomer[h] \notin overlapped => hold[h] = state[hcustomer[h]]
  /\ \A p \in Passes :
       ppc[p] = "loaded" => \A c \in (DOMAIN page[p]) \ overlapped : page[p][c] = state[c]

\* The last event, where one has been told since the last silent change, is
\* about the state the customer has.
LastTold == \A c \in Customers \ overlapped : lastNew[c] \in {"none", state[c]}

WritersInv ==
  TypeInv /\ AllConsistent /\ ReadersSee /\ LastTold /\ ScoreAndStateAgree /\ EchoOnlyFromOverlap

LEMMA ApplyTyped ==
  ASSUME TypeOK, NEW news, NEW read, NEW emit, NEW writer,
         DOMAIN news \subseteq Customers, \A c \in DOMAIN news : news[c] \in Resolutions,
         Apply(news, read, emit, writer)
  PROVE  /\ score' \in [Customers -> {NoScore} \cup Scores]
         /\ state' \in [Customers -> States]
         /\ lastNew' \in [Customers -> {"none"} \cup States]
         /\ overlapped' \subseteq Customers /\ echoed' \subseteq Customers
<1>1. \A c \in DOMAIN news : ScoreOf(news[c]) \in Scores /\ news[c].state \in States
  BY DEF ScoreOf, Scores, Resolutions
<1>2. Changed(news, read) \subseteq DOMAIN news
  BY DEF Changed
<1>3. score' \in [Customers -> {NoScore} \cup Scores]
  BY <1>1 DEF Apply, TypeOK
<1>4. state' \in [Customers -> States] /\ lastNew' \in [Customers -> {"none"} \cup States]
  BY <1>1, <1>2 DEF Apply, TypeOK
<1>5. overlapped' \subseteq Customers /\ echoed' \subseteq Customers
  BY <1>2 DEF Apply, TypeOK
<1> QED
  BY <1>3, <1>4, <1>5

\* A writer whose customers nobody else had read leaves them consistent, and
\* the ones it leaves inconsistent are marked.
LEMMA ApplyKeeps ==
  ASSUME WritersInv, NEW news, NEW read, NEW emit, NEW writer,
         DOMAIN news \subseteq Customers, \A c \in DOMAIN news : news[c] \in Resolutions,
         \A c \in DOMAIN news : Consistent(news[c]),
         \A c \in (DOMAIN news) \ overlapped : read[c] = state[c],
         Apply(news, read, emit, writer)
  PROVE  /\ ScoreAndStateAgree' /\ LastTold' /\ EchoOnlyFromOverlap'
         /\ overlapped \subseteq overlapped'
         /\ \A c \in Customers \ DOMAIN news : state'[c] = state[c]
         /\ \A c \in (DOMAIN news) \ overlapped' : Readers(c) \ {writer} = {}
<1>1. /\ overlapped \subseteq overlapped'
      /\ \A c \in (DOMAIN news) \ overlapped' : Readers(c) \ {writer} = {}
  BY DEF Apply
<1>2. \A c \in Customers \ DOMAIN news :
        state'[c] = state[c] /\ score'[c] = score[c] /\ lastNew'[c] = lastNew[c]
  BY DEF Apply, Changed
<1>3. ASSUME NEW c \in (DOMAIN news) \ overlapped'
      PROVE  /\ state'[c] = news[c].state
             /\ score'[c] = ScoreOf(news[c])
             /\ lastNew'[c] \in {"none", news[c].state}
             /\ c \notin echoed'
  <2>1. c \in Customers /\ c \notin overlapped /\ read[c] = state[c]
    BY <1>1
  <2>2. lastNew[c] \in {"none", state[c]} /\ news[c].state \in States
    BY <2>1 DEF WritersInv, LastTold, Resolutions
  <2>3. score'[c] = ScoreOf(news[c])
    BY <2>1 DEF Apply
  <2>4. c \notin echoed
    BY DEF WritersInv, EchoOnlyFromOverlap
  <2>5. CASE news[c].state = state[c]
    <3>1. c \notin Changed(news, read)
      BY <2>1, <2>5 DEF Changed
    <3> QED
      BY <2>1, <2>2, <2>3, <2>4, <2>5, <3>1 DEF Apply
  <2>6. CASE news[c].state # state[c]
    <3>1. c \in Changed(news, read)
      BY <2>1, <2>6 DEF Changed
    <3>2. ~Told(c, news[c], emit)
      BY <2>2, <2>6 DEF Told, States, Bands
    <3>3. state'[c] = news[c].state /\ lastNew'[c] \in {"none", news[c].state}
      BY <2>1, <3>1 DEF Apply
    <3> QED
      BY <2>3, <2>4, <3>2, <3>3 DEF Apply
  <2> QED
    BY <2>5, <2>6
<1>4. ScoreAndStateAgree'
  <2>1. ASSUME NEW c \in Customers \ overlapped', c \in DOMAIN news
        PROVE  \/ state'[c] = StateFromRecency(score'[c].r)
               \/ ~score'[c].ranked /\ state'[c] = "insufficient_data"
    <3>1. Consistent(news[c]) /\ ScoreOf(news[c]).r = news[c].r
          /\ ScoreOf(news[c]).ranked = news[c].ranked
      BY <2>1 DEF ScoreOf
    <3> QED
      BY <1>3, <2>1, <3>1 DEF Consistent
  <2>2. ASSUME NEW c \in Customers \ overlapped', c \notin DOMAIN news, score'[c] # NoScore
        PROVE  \/ state'[c] = StateFromRecency(score'[c].r)
               \/ ~score'[c].ranked /\ state'[c] = "insufficient_data"
    BY <1>1, <1>2, <2>2 DEF WritersInv, ScoreAndStateAgree
  <2> QED
    BY <2>1, <2>2 DEF ScoreAndStateAgree
<1>5. LastTold'
  BY <1>1, <1>2, <1>3 DEF WritersInv, LastTold
<1>6. EchoOnlyFromOverlap'
  <2>1. \A c \in echoed' : c \in DOMAIN news /\ c \notin overlapped'
    BY DEF Apply, WritersInv, EchoOnlyFromOverlap, Changed
  <2> QED
    BY <1>3, <2>1 DEF EchoOnlyFromOverlap
<1> QED
  BY <1>1, <1>2, <1>4, <1>5, <1>6

-----------------------------------------------------------------------------
(* Types *)

LEMMA InitInv == Init => WritersInv
<1> SUFFICES ASSUME Init PROVE WritersInv
  OBVIOUS
<1>1. TypeOK
  <2>1. /\ page \in [Passes -> UNION {[S -> States] : S \in SUBSET Customers}]
        /\ pres \in [Passes -> [Customers -> Resolutions]]
        /\ hres \in [Handlers -> Resolutions]
    BY UnresolvedTyped, UnreadTyped DEF Init
  <2>2. day \in 0..MaxDay /\ 0 \in Versions /\ "active" \in States
    BY ScoringAssumption DEF Init, Versions, States, Bands
  <2>3. /\ placed \in [Orders -> Int] /\ processed \in [Orders -> Int]
        /\ score \in [Customers -> {NoScore} \cup Scores]
    BY DEF Init
  <2>4. runs \in Nat /\ mishaps \in Nat
    BY DEF Init
  <2>5. /\ latest \in [Orders -> Versions] /\ stored \in [Orders -> Versions]
        /\ linked \in [Orders -> BOOLEAN]
        /\ row \in [Customers -> {"none", "live", "deleted"}]
        /\ state \in [Customers -> States]
        /\ lastNew \in [Customers -> {"none"} \cup States]
    BY <2>2 DEF Init
  <2> QED
    BY <2>1, <2>2, <2>3, <2>4, <2>5 DEF Init, TypeOK
<1>2. PlacedBy /\ HandlersHold
  BY ScoringAssumption DEF Init, PlacedBy, HandlersHold
<1>3. AllConsistent
  BY UnresolvedTyped DEF Init, AllConsistent
<1>4. ReadersSee /\ LastTold /\ ScoreAndStateAgree /\ EchoOnlyFromOverlap
  BY DEF Init, ReadersSee, LastTold, ScoreAndStateAgree, EchoOnlyFromOverlap
<1> QED
  BY <1>1, <1>2, <1>3, <1>4 DEF WritersInv, TypeInv

\* The shop, the rows of orders and customers, and the clock.
LEMMA OutsideTypes ==
  ASSUME WritersInv,
         \/ \E o \in Orders : Place(o) \/ Refund(o)
         \/ NextDay
         \/ \E o \in Orders, v \in Versions : OrphanHandled(o, v) \/ ImportOrder(o, v)
         \/ \E c \in Customers : DeletedHandled(c) \/ ImportCustomer(c)
  PROVE  TypeInv' /\ AllConsistent'
<1> USE DEF WritersInv, TypeInv, TypeOK, PlacedBy, HandlersHold, AllConsistent,
            hvars, pvars, bounds, told, pass1, customerRows, orderRows, shop
<1>1. ASSUME NEW o \in Orders, Place(o)
      PROVE  TypeInv' /\ AllConsistent'
  <2>1. PICK d \in Dates :
          /\ placed' = [placed EXCEPT ![o] = day + d.placed]
          /\ processed' = [processed EXCEPT ![o] = day + d.processed]
    BY <1>1 DEF Place
  <2>2. /\ d.placed \in Int /\ d.processed \in Int /\ d.processed <= Ahead
        /\ Ahead \in Int /\ day \in Int
    BY ScoringAssumption
  <2>3. placed' \in [Orders -> Int] /\ processed' \in [Orders -> Int]
    BY <2>1, <2>2
  <2>4. latest' \in [Orders -> Versions] /\ day' = day
    BY <1>1 DEF Place, Versions
  <2>5. TypeOK'
    BY <1>1, <2>3, <2>4 DEF Place
  <2>6. PlacedBy'
    BY <2>1, <2>2, <2>4
  <2> QED
    BY <1>1, <2>5, <2>6 DEF Place
<1>2. ASSUME NEW o \in Orders, Refund(o)
      PROVE  TypeInv' /\ AllConsistent'
  BY <1>2 DEF Refund, Versions
<1>3. ASSUME NextDay
      PROVE  TypeInv' /\ AllConsistent'
  <2>1. day' \in 0..MaxDay /\ day' = day + 1 /\ day \in Int
    BY <1>3, ScoringAssumption DEF NextDay
  <2>2. TypeOK'
    BY <1>3, <2>1 DEF NextDay
  <2>3. PlacedBy'
    <3>1. /\ processed' = processed /\ Ahead \in Int
          /\ \A o \in Orders : processed[o] \in Int /\ processed[o] <= day + Ahead
      BY <1>3, ScoringAssumption DEF NextDay
    <3> QED
      BY <2>1, <3>1
  <2>4. HandlersHold' /\ AllConsistent'
    BY <1>3 DEF NextDay
  <2> QED
    BY <2>2, <2>3, <2>4
<1>4. ASSUME NEW o \in Orders, NEW v \in Versions, OrphanHandled(o, v)
      PROVE  TypeInv' /\ AllConsistent'
  BY <1>4 DEF OrphanHandled
<1>5. ASSUME NEW o \in Orders, NEW v \in Versions, ImportOrder(o, v)
      PROVE  TypeInv' /\ AllConsistent'
  BY <1>5 DEF ImportOrder
<1>6. ASSUME NEW c \in Customers, DeletedHandled(c)
      PROVE  TypeInv' /\ AllConsistent'
  BY <1>6 DEF DeletedHandled
<1>7. ASSUME NEW c \in Customers, ImportCustomer(c)
      PROVE  TypeInv' /\ AllConsistent'
  BY <1>7 DEF ImportCustomer
<1> QED
  BY <1>1, <1>2, <1>3, <1>4, <1>5, <1>6, <1>7

LEMMA OwnTyped ==
  ASSUME TypeOK, NEW h \in Handlers
  PROVE  OwnStored(h) \in [Orders -> Versions] /\ OwnLinked(h) \in [Orders -> BOOLEAN]
BY DEF TypeOK, OwnStored, OwnLinked

LEMMA HandlerTypes ==
  ASSUME WritersInv, NEW h \in Handlers,
         \/ \E o \in Orders, v \in Versions : OrderHandled(h, o, v)
         \/ \E c \in Customers : CustomerHandled(h, c)
         \/ ResolveHandled(h) \/ AbortHandled(h) \/ RefuseHandled(h)
  PROVE  TypeInv' /\ AllConsistent'
<1> USE DEF WritersInv, TypeInv, HandlersHold, AllConsistent,
            pvars, bounds, told, pass1, customerRows, orderRows, shop
<1>1. ASSUME NEW o \in Orders, NEW v \in Versions, OrderHandled(h, o, v)
      PROVE  TypeInv' /\ AllConsistent'
  <2>1. Buyer[o] \in Customers
    BY ScoringAssumption
  <2>2. /\ hcustomer' \in [Handlers -> {Nobody} \cup Customers]
        /\ horder' \in [Handlers -> {NoOrder} \cup Orders]
        /\ hversion' \in [Handlers -> Versions]
        /\ hold' \in [Handlers -> States] /\ hemit' \in [Handlers -> BOOLEAN]
        /\ hpc' \in [Handlers -> {"idle", "loaded", "resolved"}]
        /\ runs' \in Nat
    BY <1>1, <2>1 DEF OrderHandled, TypeOK, Emits
  <2>3. HandlersHold'
    BY <1>1, <2>1 DEF OrderHandled, TypeOK
  <2> QED
    BY <1>1, <2>2, <2>3 DEF OrderHandled, TypeOK, PlacedBy
<1>2. ASSUME NEW c \in Customers, CustomerHandled(h, c)
      PROVE  TypeInv' /\ AllConsistent'
  BY <1>2 DEF CustomerHandled, TypeOK, PlacedBy, Emits
<1>3. ASSUME ResolveHandled(h)
      PROVE  TypeInv' /\ AllConsistent'
  <2> DEFINE res == Resolve(hcustomer[h], Cohort(OwnStored(h), OwnLinked(h), day), day)
  <2>1. res \in Resolutions /\ Consistent(res)
    BY <1>3, ResolveTyped DEF ResolveHandled
  <2>2. hres' = [hres EXCEPT ![h] = res] /\ hpc' = [hpc EXCEPT ![h] = "resolved"]
        /\ hpc[h] # "idle"
        /\ UNCHANGED <<shop, orderRows, customerRows, initialized, hcustomer, horder, hversion,
                       hold, hemit, pvars, bounds, told, pass1>>
    BY <1>3 DEF ResolveHandled
  <2> HIDE DEF res
  <2> QED
    BY <2>1, <2>2 DEF TypeOK, PlacedBy
<1>4. ASSUME AbortHandled(h)
      PROVE  TypeInv' /\ AllConsistent'
  BY <1>4, UnresolvedTyped DEF AbortHandled, EndHandler, TypeOK, PlacedBy, States, Bands, Versions
<1>5. ASSUME RefuseHandled(h)
      PROVE  TypeInv' /\ AllConsistent'
  BY <1>5, UnresolvedTyped DEF RefuseHandled, EndHandler, TypeOK, PlacedBy, States, Bands, Versions
<1> QED
  BY <1>1, <1>2, <1>3, <1>4, <1>5

LEMMA PageOfTyped == \A p \in Passes : PageOf(p) \subseteq Customers
BY DEF PageOf, FirstOf

LEMMA PassTypes ==
  ASSUME WritersInv,
         \/ StartBulk \/ StartDecay \/ FinishBulk
         \/ \E p \in Passes : LoadPage(p) \/ AbortPass(p) \/ RefusePage(p)
  PROVE  TypeInv' /\ AllConsistent'
<1> USE DEF WritersInv, TypeInv, HandlersHold, AllConsistent,
            hvars, bounds, told, pass1, customerRows, orderRows, shop
<1>1. ASSUME NEW p \in Passes, StartPass(p),
             base' \subseteq Customers, UNCHANGED disturbed
      PROVE  TypeInv' /\ AllConsistent'
  <2> DEFINE res == [c \in Customers |-> Resolve(c, Cohort(stored, linked, day), day)]
  <2>1. res \in [Customers -> Resolutions] /\ \A c \in Customers : Consistent(res[c])
    BY ResolveTyped
  <2>2. pres' = [pres EXCEPT ![p] = res] /\ ppc' = [ppc EXCEPT ![p] = "paging"]
        /\ cursor' = [cursor EXCEPT ![p] = Nobody]
        /\ UNCHANGED <<shop, orderRows, customerRows, initialized, hvars, page, bounds, told>>
    BY <1>1 DEF StartPass
  <2> HIDE DEF res
  <2> QED
    BY <1>1, <2>1, <2>2 DEF TypeOK, PlacedBy
<1>2. ASSUME StartBulk \/ StartDecay
      PROVE  TypeInv' /\ AllConsistent'
  <2>1. base' \subseteq Customers /\ UNCHANGED disturbed
    BY <1>2 DEF StartBulk, StartDecay, TypeOK
  <2> QED
    BY <1>1, <1>2, <2>1 DEF StartBulk, StartDecay, Passes
<1>3. ASSUME NEW p \in Passes, LoadPage(p)
      PROVE  TypeInv' /\ AllConsistent'
  <2>1. [c \in PageOf(p) |-> state[c]] \in [PageOf(p) -> States]
    BY PageOfTyped DEF TypeOK
  <2>2. [c \in PageOf(p) |-> state[c]] \in UNION {[S -> States] : S \in SUBSET Customers}
    BY <2>1, PageOfTyped
  <2>3. page' \in [Passes -> UNION {[S -> States] : S \in SUBSET Customers}]
    BY <1>3, <2>2 DEF LoadPage, TypeOK
  <2> QED
    BY <1>3, <2>3 DEF LoadPage, TypeOK, PlacedBy
<1>4. ASSUME NEW p \in Passes, EndPass(p), mishaps' \in Nat, initialized' \in BOOLEAN,
             UNCHANGED <<shop, orderRows, customerRows, hvars, runs, told>>
      PROVE  TypeInv' /\ AllConsistent'
  <2>1. base' \subseteq Customers /\ disturbed' \in BOOLEAN
    BY <1>4 DEF EndPass, TypeOK
  <2>2. page' \in [Passes -> UNION {[S -> States] : S \in SUBSET Customers}]
    BY <1>4, UnreadTyped DEF EndPass, TypeOK
  <2> QED
    BY <1>4, <2>1, <2>2, UnresolvedTyped DEF EndPass, TypeOK, PlacedBy
<1>5. ASSUME FinishBulk \/ \E p \in Passes : AbortPass(p) \/ RefusePage(p)
      PROVE  TypeInv' /\ AllConsistent'
  <2>1. CASE FinishBulk
    BY <1>4, <2>1 DEF FinishBulk, TypeOK, Passes
  <2>2. CASE \E p \in Passes : AbortPass(p) \/ RefusePage(p)
    <3>1. PICK p \in Passes : AbortPass(p) \/ RefusePage(p)
      BY <2>2
    <3>2. mishaps' \in Nat /\ initialized' \in BOOLEAN
      BY <3>1 DEF AbortPass, RefusePage, TypeOK
    <3>3. EndPass(p) /\ UNCHANGED <<shop, orderRows, customerRows, hvars, runs, told>>
      BY <3>1 DEF AbortPass, RefusePage
    <3> QED
      BY ONLY <1>4, <3>2, <3>3
  <2> QED
    BY <1>5, <2>1, <2>2
<1> QED
  BY <1>2, <1>3, <1>5

-----------------------------------------------------------------------------
(* Steps *)

\* After a write: whoever still reads is not the writer, and had read either
\* another customer or one that the write marks.
LEMMA ReadersKept ==
  ASSUME WritersInv, NEW D, NEW writer,
         overlapped \subseteq overlapped',
         \A c \in Customers \ D : state'[c] = state[c],
         \A c \in D \ overlapped' : Readers(c) \ {writer} = {},
         \A h \in Handlers :
           hpc'[h] # "idle" =>
             /\ h # writer /\ hpc[h] # "idle"
             /\ hcustomer'[h] = hcustomer[h] /\ hold'[h] = hold[h],
         \A p \in Passes :
           ppc'[p] = "loaded" => p # writer /\ ppc[p] = "loaded" /\ page'[p] = page[p]
  PROVE  ReadersSee'
<1>1. ASSUME NEW h \in Handlers, hpc'[h] # "idle", hcustomer'[h] \notin overlapped'
      PROVE  hold'[h] = state'[hcustomer'[h]]
  <2>1. /\ h # writer /\ hpc[h] # "idle"
        /\ hcustomer'[h] = hcustomer[h] /\ hold'[h] = hold[h]
    BY <1>1
  <2>2. hcustomer[h] \in Customers /\ hcustomer[h] \notin overlapped'
    BY <1>1, <2>1 DEF WritersInv, TypeInv, HandlersHold
  <2>3. h \in Readers(hcustomer[h])
    BY <2>1 DEF Readers
  <2>4. hcustomer[h] \notin D
    BY <2>1, <2>2, <2>3
  <2>5. hold[h] = state[hcustomer[h]]
    BY <2>1, <2>2 DEF WritersInv, ReadersSee
  <2> QED
    BY <2>1, <2>2, <2>4, <2>5
<1>2. ASSUME NEW p \in Passes, ppc'[p] = "loaded", NEW c \in (DOMAIN page'[p]) \ overlapped'
      PROVE  page'[p][c] = state'[c]
  <2>1. p # writer /\ ppc[p] = "loaded" /\ page'[p] = page[p]
    BY <1>2
  <2>2. c \in Customers /\ c \in DOMAIN page[p] /\ c \notin overlapped
    BY <1>2, <2>1 DEF WritersInv, TypeInv, TypeOK
  <2>3. p \in Readers(c)
    BY <2>1, <2>2 DEF Readers
  <2>4. c \notin D
    BY <1>2, <2>1, <2>3
  <2>5. page[p][c] = state[c]
    BY <2>1, <2>2 DEF WritersInv, ReadersSee
  <2> QED
    BY <2>1, <2>2, <2>4, <2>5
<1> QED
  BY <1>1, <1>2 DEF ReadersSee

LEMMA CommitHandledStep ==
  ASSUME WritersInv, NEW h \in Handlers, CommitHandled(h)
  PROVE  WritersInv'
<1> DEFINE news == Only(hcustomer[h], hres[h])
           read == Only(hcustomer[h], hold[h])
<1>1. hpc[h] = "resolved" /\ EndHandler(h) /\ Apply(news, read, hemit[h], h)
  BY DEF CommitHandled
<1>2. hcustomer[h] \in Customers
  BY <1>1 DEF WritersInv, TypeInv, HandlersHold
<1>3. DOMAIN news = {hcustomer[h]} /\ news[hcustomer[h]] = hres[h]
      /\ DOMAIN news \subseteq Customers /\ read[hcustomer[h]] = hold[h]
  BY <1>2 DEF Only
<1>4. /\ \A c \in DOMAIN news : news[c] \in Resolutions
      /\ \A c \in DOMAIN news : Consistent(news[c])
  BY <1>3 DEF WritersInv, TypeInv, TypeOK, AllConsistent
<1>5. \A c \in (DOMAIN news) \ overlapped : read[c] = state[c]
  BY <1>1, <1>3 DEF WritersInv, ReadersSee
<1> HIDE DEF news, read
<1>6. /\ ScoreAndStateAgree' /\ LastTold' /\ EchoOnlyFromOverlap'
      /\ overlapped \subseteq overlapped'
      /\ \A c \in Customers \ DOMAIN news : state'[c] = state[c]
      /\ \A c \in (DOMAIN news) \ overlapped' : Readers(c) \ {h} = {}
  BY <1>1, <1>3, <1>4, <1>5, ApplyKeeps
<1>7. /\ \A g \in Handlers :
           hpc'[g] # "idle" =>
             /\ g # h /\ hpc[g] # "idle"
             /\ hcustomer'[g] = hcustomer[g] /\ hold'[g] = hold[g]
      /\ \A p \in Passes :
           ppc'[p] = "loaded" => p # h /\ ppc[p] = "loaded" /\ page'[p] = page[p]
  BY <1>1, ScoringAssumption DEF CommitHandled, EndHandler, pvars, WritersInv, TypeInv, TypeOK
<1>8. ReadersSee'
  BY <1>6, <1>7, ReadersKept
<1>9. TypeInv' /\ AllConsistent'
  <2>1. /\ score' \in [Customers -> {NoScore} \cup Scores]
        /\ state' \in [Customers -> States]
        /\ lastNew' \in [Customers -> {"none"} \cup States]
        /\ overlapped' \subseteq Customers /\ echoed' \subseteq Customers
    BY <1>1, <1>3, <1>4, ApplyTyped DEF WritersInv, TypeInv
  <2>2. /\ stored' \in [Orders -> Versions] /\ linked' \in [Orders -> BOOLEAN]
        /\ row' \in [Customers -> {"none", "live", "deleted"}]
    BY OwnTyped DEF CommitHandled, WritersInv, TypeInv, TypeOK
  <2> USE DEF WritersInv, TypeInv
  <2>3. /\ hpc' \in [Handlers -> {"idle", "loaded", "resolved"}]
        /\ hcustomer' \in [Handlers -> {Nobody} \cup Customers]
        /\ horder' \in [Handlers -> {NoOrder} \cup Orders]
        /\ hversion' \in [Handlers -> Versions]
        /\ hold' \in [Handlers -> States] /\ hemit' \in [Handlers -> BOOLEAN]
        /\ hres' \in [Handlers -> Resolutions]
    BY <1>1, UnresolvedTyped DEF EndHandler, TypeOK, States, Bands, Versions
  <2>4. TypeOK'
    BY <2>1, <2>2, <2>3 DEF CommitHandled, TypeOK, shop, pvars, bounds, pass1
  <2>5. HandlersHold' /\ PlacedBy'
    BY <1>1 DEF CommitHandled, EndHandler, HandlersHold, PlacedBy, shop, TypeOK
  <2>6. AllConsistent'
    BY <1>1, UnresolvedTyped DEF CommitHandled, EndHandler, AllConsistent, pvars, TypeOK
  <2> QED
    BY <2>4, <2>5, <2>6
<1> QED
  BY <1>6, <1>8, <1>9 DEF WritersInv

LEMMA CommitPageStep ==
  ASSUME WritersInv, NEW p \in Passes, CommitPage(p)
  PROVE  WritersInv'
<1> DEFINE D == DOMAIN page[p]
           news == [c \in D |-> pres[p][c]]
<1>1. ppc[p] = "loaded" /\ Apply(news, page[p], p = "decay", p)
  BY DEF CommitPage, WritePage, PageNews
<1>2. D \subseteq Customers /\ DOMAIN news = D
  BY DEF WritersInv, TypeInv, TypeOK
<1>3. /\ \A c \in D : news[c] \in Resolutions
      /\ \A c \in D : Consistent(news[c])
      /\ \A c \in D \ overlapped : page[p][c] = state[c]
  BY <1>1, <1>2 DEF WritersInv, TypeInv, TypeOK, AllConsistent, ReadersSee
<1>4. UNCHANGED <<shop, orderRows, row, initialized, hvars, bounds>>
  BY DEF CommitPage, WritePage
<1>5. /\ ppc' \in [Passes -> {"idle", "paging", "loaded", "final"}]
      /\ cursor' \in [Passes -> {Nobody} \cup Customers]
      /\ page' \in [Passes -> UNION {[S -> States] : S \in SUBSET Customers}]
      /\ pres' \in [Passes -> [Customers -> Resolutions]]
      /\ base' \subseteq Customers /\ disturbed' \in BOOLEAN
      /\ \A q \in Passes : \A c \in Customers : Consistent(pres'[q][c])
      /\ ppc'[p] # "loaded"
      /\ \A q \in Passes \ {p} : ppc'[q] = ppc[q] /\ page'[q] = page[q]
  <2> USE DEF WritersInv, TypeInv, TypeOK, AllConsistent
  <2>1. CASE /\ IsFull(DOMAIN page[p])
             /\ ppc' = [ppc EXCEPT ![p] = "paging"]
             /\ cursor' = [cursor EXCEPT ![p] = LastOf(DOMAIN page[p])]
             /\ page' = [page EXCEPT ![p] = Unread]
             /\ UNCHANGED <<pres, pass1>>
    <3>1. LastOf(D) \in Customers
      BY <1>2, <2>1, LastOfPage
    <3> QED
      BY <2>1, <3>1, UnreadTyped DEF pass1
  <2>2. CASE EndPass(p)
    BY <2>2, UnreadTyped, UnresolvedTyped DEF EndPass, pass1
  <2>3. CASE /\ ppc' = [ppc EXCEPT ![p] = "final"]
             /\ page' = [page EXCEPT ![p] = Unread]
             /\ UNCHANGED <<cursor, pres, pass1>>
    BY <2>3, UnreadTyped DEF pass1
  <2> QED
    BY <2>1, <2>2, <2>3 DEF CommitPage
<1> HIDE DEF news, D
<1>6. /\ ScoreAndStateAgree' /\ LastTold' /\ EchoOnlyFromOverlap'
      /\ overlapped \subseteq overlapped'
      /\ \A c \in Customers \ D : state'[c] = state[c]
      /\ \A c \in D \ overlapped' : Readers(c) \ {p} = {}
  BY <1>1, <1>2, <1>3, ApplyKeeps
<1>7. ReadersSee'
  <2>1. \A h \in Handlers :
          hpc'[h] # "idle" =>
            /\ h # p /\ hpc[h] # "idle"
            /\ hcustomer'[h] = hcustomer[h] /\ hold'[h] = hold[h]
    BY <1>4, ScoringAssumption DEF hvars
  <2>2. \A q \in Passes :
          ppc'[q] = "loaded" => q # p /\ ppc[q] = "loaded" /\ page'[q] = page[q]
    BY <1>5
  <2> QED
    BY <1>6, <2>1, <2>2, ReadersKept
<1>8. TypeInv' /\ AllConsistent'
  <2>1. /\ score' \in [Customers -> {NoScore} \cup Scores]
        /\ state' \in [Customers -> States]
        /\ lastNew' \in [Customers -> {"none"} \cup States]
        /\ overlapped' \subseteq Customers /\ echoed' \subseteq Customers
    BY <1>1, <1>2, <1>3, ApplyTyped DEF WritersInv, TypeInv
  <2> QED
    BY <1>4, <1>5, <2>1 DEF WritersInv, TypeInv, TypeOK, PlacedBy, HandlersHold, AllConsistent,
       shop, orderRows, hvars, bounds
<1> QED
  BY <1>6, <1>7, <1>8 DEF WritersInv

\* What a step that writes no customer has to keep.
LEMMA SilentStep ==
  ASSUME WritersInv, TypeInv', AllConsistent', ReadersSee',
         UNCHANGED <<state, score, told>>
  PROVE  WritersInv'
BY DEF WritersInv, told, LastTold, ScoreAndStateAgree, EchoOnlyFromOverlap

\* A reader that begins has what it read.
LEMMA ReadersBegin ==
  ASSUME WritersInv, UNCHANGED <<state, told>>,
         \A h \in Handlers :
           hpc'[h] # "idle" =>
             \/ hpc[h] # "idle" /\ hcustomer'[h] = hcustomer[h] /\ hold'[h] = hold[h]
             \/ hold'[h] = state[hcustomer'[h]],
         \A p \in Passes :
           ppc'[p] = "loaded" =>
             \/ ppc[p] = "loaded" /\ page'[p] = page[p]
             \/ \A c \in DOMAIN page'[p] : page'[p][c] = state[c]
  PROVE  ReadersSee'
BY DEF WritersInv, ReadersSee, told

LEMMA OutsideStep ==
  ASSUME WritersInv,
         \/ \E o \in Orders : Place(o) \/ Refund(o)
         \/ NextDay
         \/ \E o \in Orders, v \in Versions : OrphanHandled(o, v) \/ ImportOrder(o, v)
         \/ \E c \in Customers : DeletedHandled(c) \/ ImportCustomer(c)
  PROVE  WritersInv'
<1>1. UNCHANGED <<state, score, told, hvars, pvars>>
  BY DEF Place, Refund, NextDay, OrphanHandled, ImportOrder, DeletedHandled, ImportCustomer,
     customerRows
<1>2. ReadersSee'
  BY <1>1, ReadersBegin DEF hvars, pvars
<1>3. TypeInv' /\ AllConsistent'
  BY OutsideTypes
<1> QED
  BY <1>1, <1>2, <1>3, SilentStep

LEMMA HandlerStepKeeps ==
  ASSUME WritersInv, NEW h \in Handlers,
         \/ \E o \in Orders, v \in Versions : OrderHandled(h, o, v)
         \/ \E c \in Customers : CustomerHandled(h, c)
         \/ ResolveHandled(h) \/ AbortHandled(h) \/ RefuseHandled(h)
  PROVE  WritersInv'
<1>1. UNCHANGED <<state, score, told, pvars>>
  BY DEF OrderHandled, CustomerHandled, ResolveHandled, AbortHandled, RefuseHandled, customerRows
<1>2. \A g \in Handlers :
        hpc'[g] # "idle" =>
          \/ hpc[g] # "idle" /\ hcustomer'[g] = hcustomer[g] /\ hold'[g] = hold[g]
          \/ hold'[g] = state[hcustomer'[g]]
  BY DEF OrderHandled, CustomerHandled, ResolveHandled, AbortHandled, RefuseHandled, EndHandler,
     WritersInv, TypeInv, TypeOK
<1>3. ReadersSee'
  BY <1>1, <1>2, ReadersBegin DEF pvars
<1>4. TypeInv' /\ AllConsistent'
  BY HandlerTypes
<1> QED
  BY <1>1, <1>3, <1>4, SilentStep

LEMMA PassStepKeeps ==
  ASSUME WritersInv,
         \/ StartBulk \/ StartDecay \/ FinishBulk
         \/ \E p \in Passes : LoadPage(p) \/ AbortPass(p) \/ RefusePage(p)
  PROVE  WritersInv'
<1>1. UNCHANGED <<state, score, told, hvars>>
  BY DEF StartBulk, StartDecay, StartPass, FinishBulk, LoadPage, AbortPass, RefusePage,
     customerRows
<1>2. ASSUME NEW p \in Passes, ppc'[p] = "loaded"
      PROVE  \/ ppc[p] = "loaded" /\ page'[p] = page[p]
             \/ \A c \in DOMAIN page'[p] : page'[p][c] = state[c]
  <2> USE DEF WritersInv, TypeInv, TypeOK
  <2>1. CASE StartBulk \/ StartDecay
    BY <1>2, <2>1 DEF StartBulk, StartDecay, StartPass
  <2>2. CASE FinishBulk \/ \E q \in Passes : AbortPass(q) \/ RefusePage(q)
    BY <1>2, <2>2 DEF FinishBulk, AbortPass, RefusePage, EndPass
  <2>3. CASE \E q \in Passes : LoadPage(q)
    BY <1>2, <2>3 DEF LoadPage
  <2> QED
    BY <2>1, <2>2, <2>3
<1>3. ReadersSee'
  BY <1>1, <1>2, ReadersBegin DEF hvars
<1>4. TypeInv' /\ AllConsistent'
  BY PassTypes
<1> QED
  BY <1>1, <1>3, <1>4, SilentStep

LEMMA WritersStep ==
  ASSUME WritersInv, [Next]_vars
  PROVE  WritersInv'
<1>1. ASSUME Webhooks
      PROVE  WritersInv'
  BY <1>1, OutsideStep, HandlerStepKeeps DEF Webhooks
<1>2. ASSUME NEW h \in Handlers, HandlerStep(h) \/ AbortHandled(h)
      PROVE  WritersInv'
  BY <1>2, HandlerStepKeeps, CommitHandledStep DEF HandlerStep
<1>3. ASSUME NEW p \in Passes, PassStep(p) \/ AbortPass(p)
      PROVE  WritersInv'
  BY <1>3, PassStepKeeps, CommitPageStep DEF PassStep
<1>4. ASSUME UNCHANGED vars
      PROVE  WritersInv'
  BY <1>4 DEF vars, shop, orderRows, customerRows, hvars, pvars, bounds, told, pass1,
     WritersInv, TypeInv, TypeOK, PlacedBy, HandlersHold, AllConsistent, ReadersSee, LastTold,
     ScoreAndStateAgree, EchoOnlyFromOverlap
<1>5. ASSUME \/ \E o \in Orders : Place(o) \/ Refund(o)
             \/ NextDay
             \/ \E o \in Orders, v \in Versions : ImportOrder(o, v)
             \/ \E c \in Customers : ImportCustomer(c)
      PROVE  WritersInv'
  BY <1>5, OutsideStep
<1>6. ASSUME StartBulk \/ StartDecay \/ FinishBulk
      PROVE  WritersInv'
  BY <1>6, PassStepKeeps
<1> QED
  BY <1>1, <1>2, <1>3, <1>4, <1>5, <1>6 DEF Next

\* The invariant of the writers, in every reachable state.
THEOREM WritersInvariant == Spec => []WritersInv
<1>1. Init => WritersInv
  BY InitInv
<1>2. WritersInv /\ [Next]_vars => WritersInv'
  BY WritersStep
<1> QED
  BY <1>1, <1>2, PTL DEF Spec

\* Type correctness.  The days of a score are negative only by as much as orders
\* are dated ahead of the server's clock: the age of an account is clamped.
THEOREM ScoringTypes == Spec => []TypeOK
<1>1. WritersInv => TypeOK
  BY DEF WritersInv, TypeInv
<1> QED
  BY <1>1, WritersInvariant, PTL

\* A score row and Customer.state come from one resolution wherever no two
\* transactions overlapped on the customer.
THEOREM ScoreStateTogether == Spec => []ScoreAndStateAgree
<1>1. WritersInv => ScoreAndStateAgree
  BY DEF WritersInv
<1> QED
  BY <1>1, WritersInvariant, PTL

\* Nobody is told a state again without an overlap, however often events are
\* redelivered and sweeps repeated.
THEOREM NoEchoWithoutOverlap == Spec => []EchoOnlyFromOverlap
<1>1. WritersInv => EchoOnlyFromOverlap
  BY DEF WritersInv
<1> QED
  BY <1>1, WritersInvariant, PTL

-----------------------------------------------------------------------------
(* Silence before the baseline *)

\* Before the flag no daily sweep runs, and no handler has seen the flag.
SilentInv ==
  ~initialized =>
    /\ \A c \in Customers : lastNew[c] = "none"
    /\ \A h \in Handlers : ~hemit[h]
    /\ ppc["decay"] = "idle"

\* A write that tells nobody.
LEMMA ApplySilently ==
  ASSUME TypeOK, NEW news, NEW read, NEW writer, NEW emit, ~emit, Apply(news, read, emit, writer),
         \A c \in Customers : lastNew[c] = "none"
  PROVE  \A c \in Customers : lastNew'[c] = "none"
BY DEF Apply

LEMMA SilentKept ==
  ASSUME WritersInv, SilentInv, [Next]_vars
  PROVE  SilentInv'
<1> SUFFICES ASSUME ~initialized'
             PROVE  /\ \A c \in Customers : lastNew'[c] = "none"
                    /\ \A h \in Handlers : ~hemit'[h]
                    /\ ppc'["decay"] = "idle"
  BY DEF SilentInv
<1> USE DEF WritersInv, TypeInv, hvars, pvars, bounds, told, pass1, customerRows, orderRows, shop
<1>1. ~initialized
  BY DEF Next, vars, Place, Refund, NextDay, Webhooks, OrderHandled, OrphanHandled, CustomerHandled,
     DeletedHandled, HandlerStep, ResolveHandled, CommitHandled, AbortHandled, RefuseHandled,
     ImportOrder,
     ImportCustomer, StartBulk, StartDecay, StartPass, FinishBulk, PassStep, LoadPage, CommitPage,
     WritePage, AbortPass, RefusePage
<1>2. /\ \A c \in Customers : lastNew[c] = "none"
      /\ \A h \in Handlers : ~hemit[h]
      /\ ppc["decay"] = "idle" /\ ppc \in [Passes -> {"idle", "paging", "loaded", "final"}]
      /\ hemit \in [Handlers -> BOOLEAN] /\ TypeOK
  BY <1>1 DEF SilentInv, TypeOK
<1> HIDE DEF WritersInv, TypeInv
<1>3. ASSUME NEW h \in Handlers, CommitHandled(h)
      PROVE  /\ \A c \in Customers : lastNew'[c] = "none"
             /\ \A g \in Handlers : ~hemit'[g]
             /\ ppc'["decay"] = "idle"
  <2>1. ~hemit[h] /\ Apply(Only(hcustomer[h], hres[h]), Only(hcustomer[h], hold[h]), hemit[h], h)
    BY <1>2, <1>3 DEF CommitHandled
  <2>2. \A c \in Customers : lastNew'[c] = "none"
    BY <1>2, <2>1, ApplySilently
  <2> QED
    BY <1>2, <1>3, <2>2 DEF CommitHandled, EndHandler
<1>4. ASSUME NEW p \in Passes, CommitPage(p)
      PROVE  /\ \A c \in Customers : lastNew'[c] = "none"
             /\ \A g \in Handlers : ~hemit'[g]
             /\ ppc'["decay"] = "idle"
  <2>1. ppc[p] = "loaded" /\ UNCHANGED hvars
        /\ Apply(PageNews(p), page[p], p = "decay", p)
    BY <1>4 DEF CommitPage, WritePage
  <2>2. p = "bulk"
    BY <1>2, <2>1 DEF Passes
  <2>3. \A c \in Customers : lastNew'[c] = "none"
    BY <1>2, <2>1, <2>2, ApplySilently
  <2>4. ppc'["decay"] = "idle"
    BY <1>2, <1>4, <2>2 DEF CommitPage, EndPass, Passes
  <2> QED
    BY <1>2, <2>1, <2>3, <2>4
<1>5. ASSUME \/ \E o \in Orders : Place(o) \/ Refund(o)
             \/ NextDay \/ Webhooks
             \/ \E h \in Handlers : ResolveHandled(h) \/ AbortHandled(h) \/ RefuseHandled(h)
             \/ \E o \in Orders, v \in Versions : ImportOrder(o, v)
             \/ \E c \in Customers : ImportCustomer(c)
             \/ StartBulk \/ StartDecay \/ FinishBulk
             \/ \E p \in Passes : LoadPage(p) \/ AbortPass(p) \/ RefusePage(p)
             \/ UNCHANGED vars
      PROVE  /\ lastNew' = lastNew
             /\ \A g \in Handlers : ~hemit'[g]
             /\ ppc'["decay"] = "idle"
  <2>1. lastNew' = lastNew
    BY <1>5 DEF vars, Place, Refund, NextDay, Webhooks, OrderHandled, OrphanHandled,
       CustomerHandled, DeletedHandled, ResolveHandled, AbortHandled, RefuseHandled, ImportOrder,
       ImportCustomer, StartBulk, StartDecay, StartPass, FinishBulk, LoadPage, AbortPass, RefusePage
  <2>2. \A g \in Handlers : ~hemit'[g]
    BY <1>1, <1>2, <1>5 DEF vars, Place, Refund, NextDay, Webhooks, OrderHandled, OrphanHandled,
       CustomerHandled, DeletedHandled, ResolveHandled, AbortHandled, RefuseHandled, EndHandler,
       ImportOrder,
       ImportCustomer, StartBulk, StartDecay, StartPass, FinishBulk, LoadPage, AbortPass,
       RefusePage, Emits
  <2>3. ppc'["decay"] = "idle"
    <3>1. "decay" \in Passes /\ ppc["decay"] = "idle"
      BY <1>2 DEF Passes
    <3>2. CASE \E p \in Passes : LoadPage(p) \/ AbortPass(p) \/ RefusePage(p)
      BY <1>2, <3>1, <3>2 DEF LoadPage, AbortPass, RefusePage, EndPass
    <3>3. CASE StartBulk \/ StartDecay \/ FinishBulk
      BY <1>1, <1>2, <3>1, <3>3 DEF StartBulk, StartDecay, StartPass, FinishBulk, EndPass
    <3>4. CASE /\ ~(\E p \in Passes : LoadPage(p) \/ AbortPass(p) \/ RefusePage(p))
               /\ ~(StartBulk \/ StartDecay \/ FinishBulk)
      <4>1. UNCHANGED ppc
        BY <1>5, <3>4 DEF vars, Place, Refund, NextDay, Webhooks, OrderHandled, OrphanHandled,
           CustomerHandled, DeletedHandled, ResolveHandled, AbortHandled, RefuseHandled,
           ImportOrder,
           ImportCustomer
      <4> QED
        BY <3>1, <4>1
    <3> QED
      BY <3>2, <3>3, <3>4
  <2> QED
    BY <2>1, <2>2, <2>3
<1> QED
  BY <1>2, <1>3, <1>4, <1>5 DEF Next, HandlerStep, PassStep

\* No event leaves before the flag, through crashes and reruns of the baseline
\* beside handlers.
THEOREM SilentBaseline == Spec => []SilentUntilBaselined
<1>1. Init => SilentInv
  BY DEF Init, SilentInv, Passes
<1>2. WritersInv /\ SilentInv /\ [Next]_vars => SilentInv'
  BY SilentKept
<1>3. SilentInv => SilentUntilBaselined
  BY DEF SilentInv, SilentUntilBaselined
<1> QED
  BY <1>1, <1>2, <1>3, WritersInvariant, PTL DEF Spec

-----------------------------------------------------------------------------
(* The baseline is complete *)

\* While nobody was deleted, who was live at the start still is, as is the row
\* of the cursor; up to the cursor everyone is scored, and beyond it whoever is
\* not on a loaded page comes after a full one.
BaselineInv ==
  ppc["bulk"] # "idle" /\ ~disturbed =>
    /\ \A c \in base : row[c] = "live"
    /\ cursor["bulk"] # Nobody => row[cursor["bulk"]] = "live"
    /\ ppc["bulk"] \in {"paging", "loaded"} =>
         \A c \in base : c <= cursor["bulk"] => score[c] # NoScore
    /\ ppc["bulk"] = "loaded" =>
         /\ \A c \in DOMAIN page["bulk"] : row[c] = "live"
         /\ \A c \in base :
              c <= cursor["bulk"] \/ c \in DOMAIN page["bulk"]
                \/ (IsFull(DOMAIN page["bulk"]) /\ \A d \in DOMAIN page["bulk"] : d < c)
    /\ ppc["bulk"] = "final" => \A c \in base : score[c] # NoScore

LEMMA ScoreOfIsScore == \A res \in Resolutions : ScoreOf(res) # NoScore
BY DEF ScoreOf, NoScore

\* A score row is never taken away.
LEMMA ScoredStay ==
  ASSUME WritersInv, [Next]_vars
  PROVE  \A c \in Customers : score[c] # NoScore => score'[c] # NoScore
<1>1. \A res \in Resolutions : ScoreOf(res) # NoScore
  BY ScoreOfIsScore
<1>2. ASSUME NEW h \in Handlers, CommitHandled(h)
      PROVE  \A c \in Customers : score[c] # NoScore => score'[c] # NoScore
  <2>1. hres[h] \in Resolutions
    BY DEF WritersInv, TypeInv, TypeOK
  <2> QED
    BY <1>1, <1>2, <2>1 DEF CommitHandled, Apply, Only
<1>3. ASSUME NEW p \in Passes, CommitPage(p)
      PROVE  \A c \in Customers : score[c] # NoScore => score'[c] # NoScore
  <2>1. \A c \in DOMAIN page[p] : pres[p][c] \in Resolutions
    BY DEF WritersInv, TypeInv, TypeOK
  <2> QED
    BY <1>1, <1>3, <2>1 DEF CommitPage, WritePage, PageNews, Apply
<1>4. CASE UNCHANGED score
  BY <1>4
<1> QED
  BY <1>2, <1>3, <1>4 DEF Next, vars, Place, Refund, NextDay, Webhooks, OrderHandled,
     OrphanHandled, CustomerHandled, DeletedHandled, HandlerStep, ResolveHandled, AbortHandled,
     RefuseHandled,
     ImportOrder, ImportCustomer, StartBulk, StartDecay, StartPass, FinishBulk, PassStep,
     LoadPage, AbortPass, RefusePage, customerRows

\* A live customer stays live, unless a deletion marks the pass.
LEMMA LiveStay ==
  ASSUME WritersInv, [Next]_vars, ppc["bulk"] # "idle"
  PROVE  disturbed' \/ ppc'["bulk"] = "idle"
           \/ \A c \in Customers : row[c] = "live" => row'[c] = "live"
<1>1. CASE \E c \in Customers : DeletedHandled(c)
  BY <1>1 DEF DeletedHandled
<1>2. CASE \E c \in Customers : ImportCustomer(c)
  BY <1>2 DEF ImportCustomer, WritersInv, TypeInv, TypeOK
<1>3. CASE \E h \in Handlers : CommitHandled(h)
  BY <1>3 DEF CommitHandled, WritersInv, TypeInv, TypeOK
<1>4. CASE UNCHANGED row
  BY <1>4
<1> QED
  BY <1>1, <1>2, <1>3, <1>4 DEF Next, vars, Place, Refund, NextDay, Webhooks, OrderHandled,
     OrphanHandled, CustomerHandled, HandlerStep, ResolveHandled, AbortHandled, RefuseHandled,
     ImportOrder,
     StartBulk, StartDecay, StartPass, FinishBulk, PassStep, LoadPage, CommitPage, WritePage,
     AbortPass, RefusePage, customerRows

\* Steps of others than the pass leave its place and its page alone.
BulkStep ==
  StartBulk \/ LoadPage("bulk") \/ CommitPage("bulk") \/ FinishBulk \/ AbortPass("bulk")
    \/ RefusePage("bulk")

LEMMA OthersStandBack ==
  ASSUME WritersInv, [Next]_vars, ~BulkStep
  PROVE  /\ ppc'["bulk"] = ppc["bulk"] /\ cursor'["bulk"] = cursor["bulk"]
         /\ page'["bulk"] = page["bulk"] /\ base' = base
         /\ disturbed => disturbed'
<1>1. ASSUME NEW p \in Passes, p # "bulk",
             LoadPage(p) \/ CommitPage(p) \/ AbortPass(p) \/ RefusePage(p)
      PROVE  /\ ppc'["bulk"] = ppc["bulk"] /\ cursor'["bulk"] = cursor["bulk"]
             /\ page'["bulk"] = page["bulk"] /\ UNCHANGED pass1
  BY <1>1 DEF LoadPage, CommitPage, AbortPass, RefusePage, EndPass, WritersInv, TypeInv, TypeOK,
     Passes
<1>2. ASSUME StartDecay
      PROVE  /\ ppc'["bulk"] = ppc["bulk"] /\ cursor'["bulk"] = cursor["bulk"]
             /\ page'["bulk"] = page["bulk"] /\ UNCHANGED pass1
  BY <1>2 DEF StartDecay, StartPass, WritersInv, TypeInv, TypeOK, Passes
<1>3. ASSUME NEW c \in Customers, DeletedHandled(c)
      PROVE  UNCHANGED <<pvars, base>> /\ (disturbed => disturbed')
  BY <1>3 DEF DeletedHandled
<1>4. CASE UNCHANGED <<pvars, pass1>>
  BY <1>4 DEF pvars, pass1
<1> QED
  BY <1>1, <1>2, <1>3, <1>4 DEF Next, vars, Place, Refund, NextDay, Webhooks, OrderHandled,
     OrphanHandled, CustomerHandled, HandlerStep, ResolveHandled, CommitHandled, AbortHandled,
     RefuseHandled,
     ImportOrder, ImportCustomer, PassStep, BulkStep, pvars, pass1, Passes

LEMMA OthersKeepBaseline ==
  ASSUME WritersInv, BaselineInv, [Next]_vars, ~BulkStep
  PROVE  BaselineInv'
<1> SUFFICES ASSUME ppc'["bulk"] # "idle", ~disturbed'
             PROVE  BaselineInv'
  BY DEF BaselineInv
<1>1. /\ ppc'["bulk"] = ppc["bulk"] /\ cursor'["bulk"] = cursor["bulk"]
      /\ page'["bulk"] = page["bulk"] /\ base' = base /\ ~disturbed
  BY OthersStandBack
<1>2. /\ \A c \in Customers : row[c] = "live" => row'[c] = "live"
      /\ \A c \in Customers : score[c] # NoScore => score'[c] # NoScore
  BY <1>1, LiveStay, ScoredStay
<1>3. /\ base \subseteq Customers /\ DOMAIN page["bulk"] \subseteq Customers
      /\ cursor["bulk"] \in {Nobody} \cup Customers
  BY DEF WritersInv, TypeInv, TypeOK, Passes
<1> QED
  BY <1>1, <1>2, <1>3 DEF BaselineInv

\* A page holds everyone beyond the cursor, or it is full and they come later.
LEMMA PageReaches ==
  ASSUME WritersInv, BaselineInv, ppc["bulk"] = "paging", ~disturbed,
         NEW c \in base, c > cursor["bulk"]
  PROVE  \/ c \in PageOf("bulk")
         \/ IsFull(PageOf("bulk")) /\ \A d \in PageOf("bulk") : d < c
<1> DEFINE a == cursor["bulk"]
           from == {d \in Customers : Selected("bulk", d) /\ d >= a}
           rest == from \ FirstOf(from, 1)
<1>1. a \in {Nobody} \cup Customers /\ base \subseteq Customers /\ Customers \subseteq Nat
      /\ PageSize \in Nat \ {0} /\ Nobody = 0
  BY ScoringAssumption DEF WritersInv, TypeInv, TypeOK, Passes, Nobody
<1>2. from \in SUBSET Nat /\ IsFiniteSet(from)
  BY <1>1, ScoringAssumption, FS_Subset
<1>3. row[c] = "live" /\ (a # Nobody => row[a] = "live")
  BY DEF BaselineInv
<1>4. \A d \in Customers : Selected("bulk", d) <=> row[d] = "live"
  BY DEF Selected
<1>5. a \in Nat /\ c \in Nat /\ c \in Customers /\ c >= a
  <2>1. a \in Nat /\ c \in Nat /\ c \in Customers
    <3>1. c \in Customers
      BY <1>1
    <3>2. \A d \in Customers : d \in Nat
      BY <1>1
    <3>3. a = 0 \/ a \in Customers
      BY <1>1
    <3> HIDE DEF a
    <3> QED
      BY ONLY <3>1, <3>2, <3>3
  <2>2. c > a
    OBVIOUS
  <2> HIDE DEF a
  <2> QED
    BY ONLY <2>1, <2>2
<1>6. c \in from
  BY <1>3, <1>4, <1>5
<1>7. CASE a = Nobody
  <2>1. PageOf("bulk") = FirstOf(from, PageSize)
    BY <1>7 DEF PageOf
  <2> HIDE DEF from
  <2> QED
    BY <1>1, <1>2, <1>6, <2>1, FirstOfFull DEF IsFull
<1>8. CASE a # Nobody
  <2>1. a \in from /\ \A d \in from : a <= d
    <3>1. a \in Customers /\ a >= a
      BY <1>1, <1>8, <1>5
    <3>2. \A d \in Customers : d >= a => a <= d
      BY <1>1, <1>5
    <3> QED
      BY <1>3, <1>8, <1>4, <3>1, <3>2
  <2>2. PageOf("bulk") = FirstOf(rest, PageSize)
    BY <1>8 DEF PageOf
  <2> HIDE DEF from
  <2>3. rest = from \ {a}
    BY <1>2, <2>1, FirstIsLeast
  <2>4. c \in rest /\ rest \in SUBSET Nat /\ IsFiniteSet(rest)
    <3>1. c # a
      BY <1>5
    <3> QED
      BY <1>2, <1>6, <2>3, <3>1, FS_Subset
  <2> HIDE DEF rest
  <2> QED
    BY <1>1, <2>2, <2>4, FirstOfFull DEF IsFull
<1> QED
  BY <1>7, <1>8

LEMMA BulkKeepsBaseline ==
  ASSUME WritersInv, BaselineInv, [Next]_vars, BulkStep
  PROVE  BaselineInv'
<1> SUFFICES ASSUME ppc'["bulk"] # "idle", ~disturbed'
             PROVE  BaselineInv'
  BY DEF BaselineInv
<1>1. "bulk" \in Passes /\ "bulk" # "decay"
  BY DEF Passes
<1>2. /\ base \subseteq Customers /\ DOMAIN page["bulk"] \subseteq Customers
      /\ cursor["bulk"] \in {Nobody} \cup Customers
      /\ ppc \in [Passes -> {"idle", "paging", "loaded", "final"}]
      /\ cursor \in [Passes -> {Nobody} \cup Customers]
      /\ page \in [Passes -> UNION {[S -> States] : S \in SUBSET Customers}]
  BY <1>1 DEF WritersInv, TypeInv, TypeOK
<1>3. CASE StartBulk
  <2>1. /\ cursor'["bulk"] = Nobody /\ ppc'["bulk"] = "paging" /\ row' = row
        /\ base' = {c \in Customers : row[c] = "live"}
    BY <1>1, <1>2, <1>3 DEF StartBulk, StartPass, customerRows
  <2>2. \A c \in Customers : ~(c <= Nobody)
    BY ScoringAssumption DEF Nobody
  <2> QED
    BY <2>1, <2>2 DEF BaselineInv
<1>4. CASE LoadPage("bulk")
  <2>1. /\ ppc["bulk"] = "paging" /\ ppc'["bulk"] = "loaded"
        /\ cursor' = cursor /\ base' = base /\ disturbed' = disturbed
        /\ row' = row /\ score' = score
        /\ page'["bulk"] = [c \in PageOf("bulk") |-> state[c]]
    BY <1>1, <1>2, <1>4 DEF LoadPage, customerRows, pass1
  <2>2. DOMAIN page'["bulk"] = PageOf("bulk")
    BY <2>1
  <2>3. \A c \in PageOf("bulk") : row[c] = "live"
    BY DEF PageOf, FirstOf, Selected
  <2>4. \A c \in base : c <= cursor["bulk"] \/ c > cursor["bulk"]
    <3>1. Customers \subseteq Nat /\ Nobody \in Nat
      BY ScoringAssumption DEF Nobody
    <3>2. cursor["bulk"] \in Nat /\ \A c \in base : c \in Nat
      BY <1>2, <3>1
    <3> QED
      BY <3>2
  <2>5. \A c \in base :
          c <= cursor["bulk"] \/ c \in PageOf("bulk")
            \/ (IsFull(PageOf("bulk")) /\ \A d \in PageOf("bulk") : d < c)
    <3>1. ~disturbed
      BY <2>1
    <3>2. ASSUME NEW c \in base, c > cursor["bulk"]
          PROVE  \/ c \in PageOf("bulk")
                 \/ IsFull(PageOf("bulk")) /\ \A d \in PageOf("bulk") : d < c
      BY <2>1, <3>1, <3>2, PageReaches
    <3> QED
      BY <2>4, <3>2
  <2> QED
    BY <2>1, <2>2, <2>3, <2>5 DEF BaselineInv
<1>5. CASE CommitPage("bulk")
  <2> DEFINE D == DOMAIN page["bulk"]
  <2>1. ppc["bulk"] = "loaded" /\ row' = row
    BY <1>5 DEF CommitPage, WritePage
  <2>2. \A c \in D : score'[c] # NoScore
    <3>1. \A c \in D : pres["bulk"][c] \in Resolutions
      BY <1>1, <1>2 DEF WritersInv, TypeInv, TypeOK
    <3>2. \A c \in D : score'[c] = ScoreOf(pres["bulk"][c])
      <4> DEFINE news == [c \in D |-> pres["bulk"][c]]
      <4>1. Apply(news, page["bulk"], "bulk" = "decay", "bulk")
        BY <1>5 DEF CommitPage, WritePage, PageNews
      <4>2. DOMAIN news = D /\ \A c \in D : news[c] = pres["bulk"][c]
        OBVIOUS
      <4> HIDE DEF news, D
      <4> QED
        BY <1>2, <4>1, <4>2 DEF Apply, D
    <3> HIDE DEF D
    <3> QED
      BY <3>1, <3>2, ScoreOfIsScore
  <2>3. \A c \in Customers : score[c] # NoScore => score'[c] # NoScore
    BY ScoredStay
  <2>4. \/ /\ IsFull(D) /\ ppc'["bulk"] = "paging" /\ cursor'["bulk"] = LastOf(D)
           /\ base' = base /\ disturbed' = disturbed
        \/ /\ ~IsFull(D) /\ ppc'["bulk"] = "final" /\ cursor'["bulk"] = cursor["bulk"]
           /\ base' = base /\ disturbed' = disturbed
    BY <1>1, <1>2, <1>5 DEF CommitPage, pass1
  <2>5. /\ \A c \in base : row[c] = "live"
        /\ cursor["bulk"] # Nobody => row[cursor["bulk"]] = "live"
        /\ \A c \in base : c <= cursor["bulk"] => score[c] # NoScore
        /\ \A c \in D : row[c] = "live"
        /\ \A c \in base :
             c <= cursor["bulk"] \/ c \in D \/ (IsFull(D) /\ \A d \in D : d < c)
    BY <2>1, <2>4 DEF BaselineInv
  <2>6. CASE ~IsFull(D)
    <3>1. \A c \in base : score'[c] # NoScore
      BY <1>2, <2>2, <2>3, <2>5, <2>6
    <3> HIDE DEF D
    <3> QED
      BY <2>1, <2>4, <2>5, <2>6, <3>1 DEF BaselineInv
  <2>7. CASE IsFull(D)
    <3> HIDE DEF D
    <3>1. LastOf(D) \in D /\ LastOf(D) \in Customers
      BY <1>2, <2>7, LastOfPage DEF D
    <3>2. ASSUME NEW c \in base, c <= LastOf(D)
          PROVE  score'[c] # NoScore
      <4>1. ~(LastOf(D) < c)
        <5>1. \A d \in Customers : d \in Nat
          BY ScoringAssumption
        <5>2. c \in Nat /\ LastOf(D) \in Nat
          BY <1>2, <3>1, <5>1
        <5> QED
          BY <3>2, <5>2
      <4> QED
        BY <1>2, <2>2, <2>3, <2>5, <3>1, <4>1
    <3> QED
      BY <2>1, <2>4, <2>5, <2>7, <3>1, <3>2 DEF BaselineInv
  <2> QED
    BY <2>6, <2>7
<1>6. CASE FinishBulk \/ AbortPass("bulk") \/ RefusePage("bulk")
  BY <1>1, <1>2, <1>6 DEF FinishBulk, AbortPass, RefusePage, EndPass
<1> QED
  BY <1>3, <1>4, <1>5, <1>6 DEF BulkStep

\* The flag comes only over a complete baseline: everyone who was live when the
\* pass that sets it began has a score, unless a deletion fell into the pass.
THEOREM CompleteBaseline == Spec => BaselineComplete
<1>1. Init => BaselineInv
  BY DEF Init, BaselineInv, Passes
<1>2. WritersInv /\ BaselineInv /\ [Next]_vars => BaselineInv'
  BY BulkKeepsBaseline, OthersKeepBaseline
<1>3. WritersInv /\ BaselineInv /\ [Next]_vars =>
        [initialized' # initialized /\ ~disturbed => \A c \in base : score[c] # NoScore]_vars
  <2>1. ASSUME WritersInv, BaselineInv, Next, initialized' # initialized, ~disturbed
        PROVE  \A c \in base : score[c] # NoScore
    <3>1. FinishBulk
      BY <2>1 DEF Next, Place, Refund, NextDay, Webhooks, OrderHandled, OrphanHandled,
         CustomerHandled, DeletedHandled, HandlerStep, ResolveHandled, CommitHandled,
         AbortHandled, RefuseHandled,
         ImportOrder, ImportCustomer, StartBulk, StartDecay, StartPass, PassStep, LoadPage,
         CommitPage, WritePage, AbortPass, RefusePage
    <3> QED
      BY <2>1, <3>1 DEF FinishBulk, BaselineInv
  <2> QED
    BY <2>1
<1> QED
  BY <1>1, <1>2, <1>3, WritersInvariant, PTL DEF Spec, BaselineComplete

-----------------------------------------------------------------------------
(* A purchase counts *)

AgeOn(o, now) == IF processed[o] <= now THEN now - processed[o] ELSE 0

\* A band no older than the order, or none for want of a cohort.
Recent(o, now, res) ==
  \/ Threshold > 1 /\ res.state = "insufficient_data"
  \/ \E r \in 0..AgeOn(o, now) : res.state = StateFromRecency(r)

\* A handler's order was placed by its customer; the resolution of a handler
\* with a purchase is recent.
PurchaseInv ==
  \A h \in Handlers :
    hpc[h] # "idle" /\ horder[h] # NoOrder =>
      /\ hcustomer[h] = Buyer[horder[h]] /\ latest[horder[h]] # 0
      /\ hpc[h] = "resolved" /\ hversion[h] = 1 /\ placed[horder[h]] + DormantMax >= day
           => Recent(horder[h], day, hres[h])

\* recompute sees the order of its own transaction.
LEMMA OwnOrderCounts ==
  ASSUME WritersInv, PurchaseInv, NEW h \in Handlers, ResolveHandled(h),
         horder[h] # NoOrder, hversion[h] = 1, placed[horder[h]] + DormantMax >= day
  PROVE  Recent(horder[h], day, hres'[h])
<1> DEFINE o == horder[h]
           c == hcustomer[h]
           cohort == Cohort(OwnStored(h), OwnLinked(h), day)
           few == IsInsufficient(cohort)
<1>1. o \in Orders /\ c = Buyer[o] /\ TypeOK /\ PlacedBy
  BY DEF WritersInv, TypeInv, TypeOK, PurchaseInv, ResolveHandled
<1>2. Counts(o, OwnStored(h), OwnLinked(h), day)
  BY <1>1 DEF Counts, OwnStored, OwnLinked, TypeOK
<1>3. /\ c \in DOMAIN cohort /\ cohort[c] \in Int /\ cohort[c] <= day - processed[o]
      /\ IsFiniteSet(DOMAIN cohort)
  BY <1>1, <1>2, CohortTyped DEF Days
<1>4. hres'[h] = Resolve(c, cohort, day)
  BY <1>1 DEF ResolveHandled, TypeOK
<1> HIDE DEF cohort
<1>5. hres'[h] = ResolveScorable(cohort[c], few)
  BY <1>3, <1>4 DEF Resolve
<1>6. CASE few
  <2>1. Cardinality(DOMAIN cohort) \in Nat /\ Cardinality(DOMAIN cohort) # 0
    BY <1>3, FS_CardinalityType, FS_EmptySet
  <2>2. Threshold > 1
    BY <1>6, <2>1, ScoringMathAssumption DEF IsInsufficient
  <2> QED
    BY <1>5, <1>6, <2>2 DEF Recent, ResolveScorable
<1>7. CASE ~few
  <2>1. hres'[h].state = StateFromRecency(cohort[c])
    BY <1>5, <1>7 DEF ResolveScorable
  <2>2. day \in Int /\ processed[o] \in Int
    BY <1>1 DEF TypeOK
  <2>3. CASE cohort[c] >= 0
    <3>1. cohort[c] \in 0..AgeOn(o, day)
      BY <1>3, <2>2, <2>3 DEF AgeOn
    <3> QED
      BY <2>1, <3>1 DEF Recent
  <2>4. CASE cohort[c] < 0
    <3>1. StateFromRecency(cohort[c]) = StateFromRecency(0)
      BY <1>3, <2>4, ScoringMathAssumption DEF StateFromRecency
    <3>2. 0 \in 0..AgeOn(o, day)
      BY <2>2 DEF AgeOn
    <3> QED
      BY <2>1, <3>1, <3>2 DEF Recent
  <2> QED
    BY <1>3, <2>3, <2>4
<1> QED
  BY <1>6, <1>7

\* The clock and the shop: a placed order keeps its day, and a later day only
\* widens what is recent.
LEMMA ShopKeepsPurchases ==
  ASSUME WritersInv, PurchaseInv, UNCHANGED hvars,
         NextDay \/ (\E o \in Orders : Place(o) \/ Refund(o)) \/ UNCHANGED shop
  PROVE  PurchaseInv'
<1> SUFFICES ASSUME NEW h \in Handlers, hpc[h] # "idle", horder[h] # NoOrder
             PROVE  /\ hcustomer[h] = Buyer[horder[h]] /\ latest'[horder[h]] # 0
                    /\ hpc[h] = "resolved" /\ hversion[h] = 1
                         /\ placed'[horder[h]] + DormantMax >= day'
                         => Recent(horder[h], day, hres[h])'
  BY DEF PurchaseInv, hvars
<1> DEFINE o == horder[h]
<1>1. /\ o \in Orders /\ hcustomer[h] = Buyer[o] /\ latest[o] # 0
      /\ day \in Nat /\ placed[o] \in Int /\ processed[o] \in Int /\ DormantMax \in Nat
  BY ScoringAssumption, ScoringMathAssumption
     DEF PurchaseInv, WritersInv, TypeInv, TypeOK
<1>2. latest'[o] # 0 /\ placed'[o] = placed[o] /\ processed'[o] = processed[o]
  BY <1>1 DEF Place, Refund, NextDay, shop, WritersInv, TypeInv, TypeOK
<1>3. day' \in Nat /\ day <= day' /\ hres' = hres /\ horder' = horder
  BY <1>1 DEF Place, Refund, NextDay, shop, hvars
<1>4. ASSUME hpc[h] = "resolved", hversion[h] = 1, placed[o] + DormantMax >= day'
      PROVE  Recent(o, day, hres[h])'
  <2>1. placed[o] + DormantMax >= day
    BY <1>1, <1>3, <1>4
  <2>2. Recent(o, day, hres[h])
    BY <1>4, <2>1 DEF PurchaseInv
  <2>3. 0..AgeOn(o, day) \subseteq 0..AgeOn(o, day')
    BY <1>1, <1>3 DEF AgeOn
  <2>4. \/ Threshold > 1 /\ hres[h].state = "insufficient_data"
        \/ \E r \in 0..AgeOn(o, day') : hres[h].state = StateFromRecency(r)
    <3> HIDE DEF o
    <3> QED
      BY <2>2, <2>3 DEF Recent
  <2>5. AgeOn(o, day)' = AgeOn(o, day')
    BY <1>2, <1>3 DEF AgeOn
  <2> QED
    BY <1>2, <1>3, <2>4, <2>5 DEF Recent
<1> QED
  BY <1>1, <1>2, <1>4

\* A handler that begins takes its order's customer; one that ends takes nothing.
LEMMA HandlersKeepPurchases ==
  ASSUME WritersInv, PurchaseInv, NEW h \in Handlers,
         \/ \E o \in Orders, v \in Versions : OrderHandled(h, o, v)
         \/ \E c \in Customers : CustomerHandled(h, c)
         \/ ResolveHandled(h) \/ CommitHandled(h) \/ AbortHandled(h) \/ RefuseHandled(h)
  PROVE  PurchaseInv'
<1>1. UNCHANGED shop
  BY DEF OrderHandled, CustomerHandled, ResolveHandled, CommitHandled, AbortHandled, RefuseHandled
<1>2. ASSUME NEW g \in Handlers \ {h}
      PROVE  /\ hpc'[g] = hpc[g] /\ horder'[g] = horder[g] /\ hcustomer'[g] = hcustomer[g]
             /\ hversion'[g] = hversion[g] /\ hres'[g] = hres[g]
  BY DEF OrderHandled, CustomerHandled, ResolveHandled, CommitHandled, AbortHandled,
     RefuseHandled, EndHandler,
     WritersInv, TypeInv, TypeOK
<1>3. ASSUME hpc'[h] # "idle", horder'[h] # NoOrder
      PROVE  /\ hcustomer'[h] = Buyer[horder'[h]] /\ latest[horder'[h]] # 0
             /\ hpc'[h] = "resolved" /\ hversion'[h] = 1 /\ placed[horder'[h]] + DormantMax >= day
                  => Recent(horder'[h], day, hres'[h])
  <2> USE DEF WritersInv, TypeInv, TypeOK
  <2>1. CASE \E o \in Orders, v \in Versions : OrderHandled(h, o, v)
    BY <2>1 DEF OrderHandled
  <2>2. CASE \E c \in Customers : CustomerHandled(h, c)
    BY <1>3, <2>2 DEF CustomerHandled
  <2>3. CASE CommitHandled(h) \/ AbortHandled(h) \/ RefuseHandled(h)
    BY <1>3, <2>3 DEF CommitHandled, AbortHandled, RefuseHandled, EndHandler
  <2>4. CASE ResolveHandled(h)
    <3>1. /\ hcustomer' = hcustomer /\ horder' = horder /\ hversion' = hversion
          /\ hpc[h] # "idle"
      BY <2>4 DEF ResolveHandled
    <3>2. hcustomer[h] = Buyer[horder[h]] /\ latest[horder[h]] # 0
      BY <1>3, <3>1 DEF PurchaseInv
    <3> HIDE DEF WritersInv, TypeInv, TypeOK
    <3>3. hversion[h] = 1 /\ placed[horder[h]] + DormantMax >= day
            => Recent(horder[h], day, hres'[h])
      BY <1>3, <2>4, <3>1, OwnOrderCounts
    <3> QED
      BY <3>1, <3>2, <3>3
  <2> QED
    BY <2>1, <2>2, <2>3, <2>4
<1>4. ASSUME NEW g \in Handlers, hpc'[g] # "idle", horder'[g] # NoOrder
      PROVE  /\ hcustomer'[g] = Buyer[horder'[g]] /\ latest'[horder'[g]] # 0
             /\ hpc'[g] = "resolved" /\ hversion'[g] = 1 /\ placed'[horder'[g]] + DormantMax >= day'
                  => Recent(horder[g], day, hres[g])'
  <2>1. latest' = latest /\ placed' = placed /\ processed' = processed /\ day' = day
    BY <1>1 DEF shop
  <2>2. CASE g = h
    BY <1>3, <1>4, <2>1, <2>2 DEF Recent, AgeOn
  <2>3. CASE g # h
    BY <1>2, <1>4, <2>1, <2>3 DEF PurchaseInv, Recent, AgeOn
  <2> QED
    BY <2>2, <2>3
<1> QED
  BY <1>4 DEF PurchaseInv

LEMMA PurchasesKept ==
  ASSUME WritersInv, PurchaseInv, [Next]_vars
  PROVE  PurchaseInv'
<1>1. CASE \E h \in Handlers :
             \/ \E o \in Orders, v \in Versions : OrderHandled(h, o, v)
             \/ \E c \in Customers : CustomerHandled(h, c)
             \/ ResolveHandled(h) \/ CommitHandled(h) \/ AbortHandled(h) \/ RefuseHandled(h)
  BY <1>1, HandlersKeepPurchases
<1>2. CASE NextDay \/ \E o \in Orders : Place(o) \/ Refund(o)
  <2>1. UNCHANGED hvars
    BY <1>2 DEF NextDay, Place, Refund
  <2> QED
    BY <1>2, <2>1, ShopKeepsPurchases
<1>3. CASE UNCHANGED <<hvars, shop>>
  BY <1>3, ShopKeepsPurchases
<1> QED
  BY <1>1, <1>2, <1>3 DEF Next, vars, Webhooks, OrphanHandled, DeletedHandled, HandlerStep,
     ImportOrder, ImportCustomer, StartBulk, StartDecay, StartPass, FinishBulk, PassStep,
     LoadPage, CommitPage, WritePage, AbortPass, RefusePage

\* The commit of a purchase that nobody overlapped leaves its resolution's band.
LEMMA CommitWritesBand ==
  ASSUME WritersInv, NEW h \in Handlers, CommitHandled(h), hcustomer[h] \notin overlapped'
  PROVE  state'[hcustomer[h]] = hres[h].state
<1> DEFINE c == hcustomer[h]
           news == Only(c, hres[h])
           read == Only(c, hold[h])
<1>1. Apply(news, read, hemit[h], h) /\ hpc[h] = "resolved"
  BY DEF CommitHandled
<1>2. DOMAIN news = {c} /\ news[c] = hres[h] /\ read[c] = hold[h]
  BY DEF Only
<1>3. c \in Customers
  BY <1>1 DEF WritersInv, TypeInv, HandlersHold
<1> HIDE DEF news, read
<1>4. c \notin overlapped
  BY <1>1 DEF Apply
<1>5. hold[h] = state[c]
  BY <1>1, <1>4 DEF WritersInv, ReadersSee
<1>6. CASE hres[h].state = hold[h]
  <2>1. c \notin Changed(news, read)
    BY <1>2, <1>6 DEF Changed
  <2> QED
    BY <1>1, <1>3, <1>5, <1>6, <2>1 DEF Apply
<1>7. CASE hres[h].state # hold[h]
  <2>1. c \in Changed(news, read)
    BY <1>2, <1>7 DEF Changed
  <2> QED
    BY <1>1, <1>2, <1>3, <2>1 DEF Apply
<1> QED
  BY <1>6, <1>7

\* A purchase counts when its handler commits, unless another transaction
\* overlapped it on the customer.
THEOREM PurchasesCount == Spec => PurchaseCounts
<1>1. Init => PurchaseInv
  BY DEF Init, PurchaseInv
<1>2. WritersInv /\ PurchaseInv /\ [Next]_vars => PurchaseInv'
  BY PurchasesKept
<1>3. WritersInv /\ PurchaseInv /\ [Next]_vars =>
        [\A h \in Handlers : PurchaseCommits(h) => Purchased(h)]_vars
  <2>1. ASSUME WritersInv, PurchaseInv, Next, NEW h \in Handlers, PurchaseCommits(h)
        PROVE  Purchased(h)
    <3>1. CommitHandled(h)
      <4>1. hpc[h] = "resolved" /\ hpc'[h] = "idle" /\ mishaps' = mishaps
            /\ hpc \in [Handlers -> {"idle", "loaded", "resolved"}] /\ mishaps \in Nat
        BY <2>1 DEF PurchaseCommits, WritersInv, TypeInv, TypeOK
      <4>2. hpc' # hpc
        BY <4>1
      <4>3. PICK g \in Handlers :
              \/ \E o \in Orders, v \in Versions : OrderHandled(g, o, v)
              \/ \E c \in Customers : CustomerHandled(g, c)
              \/ ResolveHandled(g) \/ CommitHandled(g) \/ AbortHandled(g) \/ RefuseHandled(g)
        BY <2>1, <4>2 DEF Next, Place, Refund, NextDay, Webhooks, OrphanHandled, DeletedHandled,
           HandlerStep, ImportOrder, ImportCustomer, StartBulk, StartDecay, StartPass, FinishBulk,
           PassStep, LoadPage, CommitPage, WritePage, AbortPass, RefusePage, hvars
      <4>4. ~AbortHandled(g)
        BY <4>1 DEF AbortHandled
      <4>5. CommitHandled(g) \/ RefuseHandled(g)
        BY <4>1, <4>3, <4>4 DEF OrderHandled, CustomerHandled, ResolveHandled
      <4>6. g = h
        BY <4>1, <4>5 DEF CommitHandled, RefuseHandled, EndHandler
      <4>7. ~RefuseHandled(h)
        BY <2>1 DEF PurchaseCommits, RefuseHandled
      <4> QED
        BY <4>5, <4>6, <4>7
    <3>2. Recent(horder[h], day, hres[h])
      BY <2>1 DEF PurchaseCommits, PurchaseInv
    <3>3. CASE hcustomer[h] \notin overlapped'
      <4>1. state'[hcustomer[h]] = hres[h].state
        BY <2>1, <3>1, <3>3, CommitWritesBand
      <4> QED
        BY <3>2, <4>1 DEF Recent, AgeOn, Age, Purchased
    <3> QED
      BY <3>3 DEF Purchased
  <2> QED
    BY <2>1
<1> QED
  BY <1>1, <1>2, <1>3, WritersInvariant, PTL DEF Spec, PurchaseCounts

----------------------------------------------------------------------------
(* What a quintile means *)

\* Of finitely many members one has the greatest value: the one with the fewest
\* above it.
LEMMA GreatestValue ==
  ASSUME NEW S, IsFiniteSet(S), S # {}, NEW value, \A c \in S : value[c] \in Int
  PROVE  \E b \in S : \A c \in S : value[c] <= value[b]
<1> DEFINE Above(b) == {c \in S : value[c] > value[b]}
           T == {Cardinality(Above(b)) : b \in S}
<1>1. \A b : Above(b) \in SUBSET S /\ IsFiniteSet(Above(b)) /\ Cardinality(Above(b)) \in Nat
  BY FS_Subset, FS_CardinalityType
<1>2. PICK k \in T : \A y \in T : k <= y
  <2>1. T # {} /\ T \in SUBSET Nat
    BY <1>1
  <2> HIDE DEF T
  <2> QED
    BY <2>1, LeastExists
<1>3. PICK b \in S : k = Cardinality(Above(b))
  BY <1>2
<1>4. ASSUME NEW c \in S, value[c] > value[b]
      PROVE  FALSE
  <2>1. c \in Above(b) /\ c \notin Above(c)
    BY <1>4
  <2>2. \A d \in Above(c) : d \in Above(b)
    BY <1>4
  <2>3. Above(c) \in SUBSET Above(b) /\ Above(c) # Above(b)
    BY <2>1, <2>2
  <2>4. Cardinality(Above(c)) < Cardinality(Above(b))
    BY <1>1, <2>3, FS_Subset
  <2>5. Cardinality(Above(c)) \in T
    OBVIOUS
  <2>6. k <= Cardinality(Above(c))
    BY <1>2, <2>5
  <2> HIDE DEF Above
  <2> QED
    BY <1>1, <1>3, <2>4, <2>6
<1>5. \A c \in S : ~(value[c] > value[b])
  BY <1>4
<1>6. \A x, y \in Int : ~(x > y) => x <= y
  OBVIOUS
<1> QED
  BY <1>5, <1>6

Lower(value, v) == {c \in DOMAIN value : value[c] < v}
UpTo(value, v) == {c \in DOMAIN value : value[c] <= v}

\* The i-th smallest value of a cohort exists: fewer than i values are below it,
\* and at least i are not above it.
LEMMA OrderStatistic ==
  ASSUME NEW S, IsFiniteSet(S), NEW value \in [S -> Int], NEW i \in 1..Cardinality(S)
  PROVE  /\ Smallest(value, i) \in Int
         /\ Cardinality(Lower(value, Smallest(value, i))) < i
         /\ i <= Cardinality(UpTo(value, Smallest(value, i)))
<1> DEFINE D == {b \in S : i <= Cardinality(UpTo(value, value[b]))}
<1>1. DOMAIN value = S /\ \A c \in S : value[c] \in Int
  OBVIOUS
<1>2. \A v : /\ Lower(value, v) \in SUBSET S /\ UpTo(value, v) \in SUBSET S
             /\ Cardinality(Lower(value, v)) \in Nat /\ Cardinality(UpTo(value, v)) \in Nat
  BY <1>1, FS_Subset, FS_CardinalityType DEF Lower, UpTo
<1>3. S # {} /\ Cardinality(S) \in Nat /\ i \in Nat /\ 1 <= i /\ i <= Cardinality(S)
  BY FS_EmptySet, FS_CardinalityType
<1>4. D # {}
  <2>1. PICK b \in S : \A c \in S : value[c] <= value[b]
    BY <1>1, <1>3, GreatestValue
  <2>2. UpTo(value, value[b]) = S
    BY <1>1, <2>1 DEF UpTo
  <2> QED
    BY <1>3, <2>2
<1>5. PICK b \in D : \A c \in D : value[b] <= value[c]
  <2> DEFINE negated == [c \in D |-> -value[c]]
  <2>1. IsFiniteSet(D)
    BY FS_Subset
  <2>2. \A c \in D : negated[c] \in Int /\ negated[c] = -value[c]
    BY <1>1
  <2> HIDE DEF negated
  <2>3. PICK b \in D : \A c \in D : negated[c] <= negated[b]
    <3> HIDE DEF D
    <3> QED
      BY <1>4, <2>1, <2>2, GreatestValue
  <2> QED
    BY <1>1, <2>2, <2>3
<1>6. b \in S /\ value[b] \in Int /\ i <= Cardinality(UpTo(value, value[b]))
  BY <1>1, <1>5
<1>7. Cardinality(Lower(value, value[b])) < i
  <2> DEFINE B == Lower(value, value[b])
  <2> SUFFICES ASSUME i <= Cardinality(B) PROVE FALSE
    BY <1>2, <1>3
  <2>1. IsFiniteSet(B) /\ B # {} /\ B \in SUBSET S
    BY <1>2, <1>3, FS_Subset, FS_EmptySet
  <2>2. \A c \in S : c \in B <=> value[c] < value[b]
    BY <1>1 DEF Lower
  <2>3. PICK w \in B : \A c \in B : value[c] <= value[w]
    <3> HIDE DEF B
    <3> QED
      BY <1>1, <2>1, GreatestValue
  <2>4. \A c \in S : value[c] <= value[w] <=> c \in B
    BY <1>1, <1>6, <2>1, <2>2, <2>3
  <2>5. UpTo(value, value[w]) = B
    BY <1>1, <2>1, <2>4 DEF UpTo
  <2>6. w \in D /\ value[w] < value[b]
    BY <2>1, <2>2, <2>3, <2>5
  <2> QED
    BY <1>1, <1>5, <1>6, <2>1, <2>3, <2>6
<1>8. \E v \in {value[c] : c \in DOMAIN value} :
        /\ Cardinality({c \in DOMAIN value : value[c] < v}) < i
        /\ i <= Cardinality({c \in DOMAIN value : value[c] <= v})
  BY <1>1, <1>6, <1>7 DEF Lower, UpTo
<1>9. /\ Smallest(value, i) \in {value[c] : c \in DOMAIN value}
      /\ Cardinality({c \in DOMAIN value : value[c] < Smallest(value, i)}) < i
      /\ i <= Cardinality({c \in DOMAIN value : value[c] <= Smallest(value, i)})
  BY <1>8 DEF Smallest
<1> QED
  BY <1>1, <1>9 DEF Lower, UpTo

\* A value is above the i-th smallest exactly if i members are below it.
LEMMA AboveTheCut ==
  ASSUME NEW S, IsFiniteSet(S), NEW value \in [S -> Int], NEW i \in 1..Cardinality(S),
         NEW c \in S
  PROVE  value[c] > Smallest(value, i) <=> i <= Cardinality(Lower(value, value[c]))
<1> DEFINE v == Smallest(value, i)
<1>1. v \in Int /\ Cardinality(Lower(value, v)) < i /\ i <= Cardinality(UpTo(value, v))
  BY OrderStatistic
<1> HIDE DEF v
<1>2. DOMAIN value = S /\ \A d \in S : value[d] \in Int
  OBVIOUS
<1>3. \A x : /\ Lower(value, x) \in SUBSET S /\ IsFiniteSet(Lower(value, x))
             /\ UpTo(value, x) \in SUBSET S
             /\ Cardinality(Lower(value, x)) \in Nat /\ Cardinality(UpTo(value, x)) \in Nat
  BY <1>2, FS_Subset, FS_CardinalityType DEF Lower, UpTo
<1>4. i \in Nat /\ Cardinality(S) \in Nat
  BY FS_CardinalityType
<1>5. CASE value[c] > v
  <2>1. UpTo(value, v) \in SUBSET Lower(value, value[c])
    BY <1>1, <1>2, <1>5 DEF UpTo, Lower
  <2>2. Cardinality(UpTo(value, v)) <= Cardinality(Lower(value, value[c]))
    BY <1>3, <2>1, FS_Subset
  <2> QED
    BY <1>1, <1>3, <1>4, <1>5, <2>2 DEF v
<1>6. CASE ~(value[c] > v)
  <2>1. Lower(value, value[c]) \in SUBSET Lower(value, v)
    BY <1>1, <1>2, <1>6 DEF Lower
  <2>2. Cardinality(Lower(value, value[c])) <= Cardinality(Lower(value, v))
    BY <1>3, <2>1, FS_Subset
  <2> QED
    BY <1>1, <1>3, <1>4, <1>6, <2>2 DEF v
<1> QED
  BY <1>5, <1>6

\* What a division is known by.
LEMMA QuotientIs ==
  ASSUME NEW a \in Nat, NEW n \in Nat \ {0}, NEW q \in 0..4, n * q <= a, a < n * q + n
  PROVE  a \div n = q
<1> DEFINE d == a \div n
           r == a % n
<1>1. d \in Int /\ r \in 0..(n - 1) /\ a = n * d + r
  OBVIOUS
<1> HIDE DEF d, r
<1>2. CASE d < q
  <2>1. n * d + n <= n * q
    BY <1>1, <1>2
  <2> QED
    BY <1>1, <2>1
<1>3. CASE d > q
  <2>1. n * q + n <= n * d
    BY <1>1, <1>3
  <2> QED
    BY <1>1, <2>1
<1> QED
  BY <1>1, <1>2, <1>3 DEF d

\* The rank of a member of a cohort (scoring-math.ts:19-24) is one plus the
\* whole fifths of the cohort whose value is below its own, whatever the size
\* of the cohort and however many values are equal.
THEOREM RankIsFifthsBelow ==
  ASSUME NEW S, IsFiniteSet(S), NEW value \in [S -> Int], NEW c \in S
  PROVE  Rank(value[c], Boundaries(value))
           = 1 + (5 * Cardinality({d \in S : value[d] < value[c]})) \div Cardinality(S)
<1> DEFINE n == Cardinality(S)
           b == Cardinality({d \in S : value[d] < value[c]})
           at(k) == (n * k + 4) \div 5
<1>1. DOMAIN value = S /\ {d \in S : value[d] < value[c]} = Lower(value, value[c])
  BY DEF Lower
<1>2. n \in Nat \ {0} /\ b \in Nat /\ b < n
  <2>1. {d \in S : value[d] < value[c]} \in SUBSET S
    OBVIOUS
  <2>2. c \notin {d \in S : value[d] < value[c]}
    OBVIOUS
  <2> QED
    BY <2>1, <2>2, FS_Subset, FS_CardinalityType, FS_EmptySet
<1>3. \A k \in 1..4 : Boundaries(value)[k] = Smallest(value, at(k))
  BY <1>1 DEF Boundaries, Cut
<1>4. \A k \in 1..4 : value[c] > Boundaries(value)[k] <=> at(k) <= b
  <2> TAKE k \in 1..4
  <2> HIDE DEF n
  <2>1. at(k) \in 1..n
    <3>1. n * k >= 1 /\ n * k <= 4 * n /\ n * k \in Nat
      BY <1>2
    <3> QED
      BY <1>2, <3>1
  <2> HIDE DEF at
  <2> QED
    BY <1>1, <1>3, <2>1, AboveTheCut DEF n
<1> HIDE DEF n, b
<1>5. /\ at(1) <= b <=> n <= 5 * b
      /\ at(2) <= b <=> 2 * n <= 5 * b
      /\ at(3) <= b <=> 3 * n <= 5 * b
      /\ at(4) <= b <=> 4 * n <= 5 * b
  BY <1>2
<1> HIDE DEF at
<1> DEFINE cuts == Boundaries(value)
<1>6. /\ value[c] > cuts[1] <=> n <= 5 * b
      /\ value[c] > cuts[2] <=> 2 * n <= 5 * b
      /\ value[c] > cuts[3] <=> 3 * n <= 5 * b
      /\ value[c] > cuts[4] <=> 4 * n <= 5 * b
  BY <1>4, <1>5
<1> HIDE DEF cuts
<1>7. \E q \in 0..4 : Rank(value[c], cuts) = 1 + q /\ n * q <= 5 * b /\ 5 * b < n * q + n
  <2>1. CASE 4 * n <= 5 * b
    BY <1>2, <1>6, <2>1 DEF Rank
  <2>2. CASE 3 * n <= 5 * b /\ 5 * b < 4 * n
    BY <1>2, <1>6, <2>2 DEF Rank
  <2>3. CASE 2 * n <= 5 * b /\ 5 * b < 3 * n
    BY <1>2, <1>6, <2>3 DEF Rank
  <2>4. CASE n <= 5 * b /\ 5 * b < 2 * n
    BY <1>2, <1>6, <2>4 DEF Rank
  <2>5. CASE 5 * b < n
    BY <1>2, <1>6, <2>5 DEF Rank
  <2> QED
    BY <1>2, <2>1, <2>2, <2>3, <2>4, <2>5
<1>8. PICK q \in 0..4 : Rank(value[c], cuts) = 1 + q /\ n * q <= 5 * b /\ 5 * b < n * q + n
  BY <1>7
<1>9. (5 * b) \div n = q
  BY <1>2, <1>8, QuotientIs
<1> QED
  BY <1>8, <1>9 DEF cuts, n, b
=============================================================================
