--------------------------- MODULE DraftScheduler ---------------------------
(***************************************************************************)
(* AdaptiveDraftScheduler of runtime/src/aurora_scheduler.cpp as operators  *)
(* on its state: how many tokens to draft next, and what a verified block   *)
(* teaches.  A rung is a 1-based index of the ladder.  Thresholds are       *)
(* rationals; selection counters, and counters at 2^64, are left out.       *)
(***************************************************************************)
EXTENDS Integers, FiniteSetsExt, WellFoundedInduction, TLAPS

CONSTANTS
  MaximumLength,      \* maximum_length of AuroraSchedulerConfig
  SurvivalNum, SurvivalDen,   \* minimum_prefix_survival
  CostNum, CostDen            \* maximum_unique_load_ratio

Rungs == 1..3
ladder == [rung \in Rungs |-> <<1, 2, 4>>[rung]]
Lengths == {ladder[rung] : rung \in Rungs}
Positions == 1..4

\* AdaptiveDraftScheduler::create rejects anything else.
ASSUME SchedulerAssumption ==
  /\ MaximumLength \in Lengths
  /\ SurvivalNum \in Nat /\ SurvivalDen \in Nat \ {0} /\ SurvivalNum <= SurvivalDen
  /\ CostNum \in Nat /\ CostDen \in Nat \ {0} /\ CostNum <= CostDen

Scheduler == [
  adaptive : BOOLEAN,              \* config_.policy
  trials : [Positions -> Nat],     \* prefix_trials_
  successes : [Positions -> Nat],  \* prefix_successes_
  loads : [Rungs -> Nat],          \* cost_loads_
  assignments : [Rungs -> Nat],    \* cost_assignments_
  observed : SUBSET Rungs,         \* observed_lengths_
  qualified : {0} \cup Rungs,      \* largest_qualified_rung_; 0: none
  cap : SUBSET {length \in {0} \cup Lengths : length < MaximumLength},
                                   \* rejection_cap_, a set of at most one
  retry : BOOLEAN ]                \* retry_smallest_rung_

NewScheduler(adaptive) == [
  adaptive |-> adaptive,
  trials |-> [p \in Positions |-> 0], successes |-> [p \in Positions |-> 0],
  loads |-> [r \in Rungs |-> 0], assignments |-> [r \in Rungs |-> 0],
  observed |-> {}, qualified |-> 0, cap |-> {}, retry |-> FALSE ]

RungOf(length) == CHOOSE rung \in Rungs : ladder[rung] = length

-----------------------------------------------------------------------------
(* The two gates of a length that has been observed.                       *)

Survives(s, rung) ==
  LET last == ladder[rung] IN
  (s.successes[last] + 1) * SurvivalDen >= SurvivalNum * (s.trials[last] + 2)

CostQualifies(s, rung) ==
  \/ s.assignments[rung] = 0
  \/ s.loads[rung] * CostDen <= CostNum * s.assignments[rung]

Eligible(s, rung) ==
  rung \in s.observed => Survives(s, rung) /\ CostQualifies(s, rung)

-----------------------------------------------------------------------------
(* select                                                                  *)

\* Mutant: a rejection does not cap the next choice.
UncappedMaximum(s, request) == Min({request, MaximumLength})
EffectiveMaximum(s, request) == Min({request, MaximumLength} \cup s.cap)

\* Mutant: every rung may be explored.
FrontierUnbounded(s) == RungOf(MaximumLength)
Frontier(s) ==
  IF s.qualified = 0 THEN 1 ELSE Min({s.qualified + 1, RungOf(MaximumLength)})

Selectable(s, request) ==
  LET effective == EffectiveMaximum(s, request) IN
  IF ~s.adaptive THEN {length \in Lengths : length <= effective}
  ELSE {ladder[rung] : rung \in {r \in 1..Frontier(s) :
          ladder[r] <= effective /\ Eligible(s, r)}}

SelectedLength(s, request) ==
  IF s.adaptive /\ s.retry /\ EffectiveMaximum(s, request) >= 1 THEN 1
  ELSE Max({0} \cup Selectable(s, request))

\* A cap of zero is used up by one positive request and grants one retry of
\* the smallest rung, whatever its survival.
AfterSelect(s, request) ==
  IF request = 0 THEN s
  ELSE IF EffectiveMaximum(s, request) = 0
       THEN [s EXCEPT !.cap = {}, !.retry = TRUE]
  ELSE IF s.adaptive THEN [s EXCEPT !.retry = FALSE]
  ELSE s

-----------------------------------------------------------------------------
(* observe.  v is a DraftVerification.                                     *)

Observable(v) ==
  IF v.proposed = 0
  THEN /\ v.accepted = 0 /\ v.loads = 0 /\ v.assignments = 0
       /\ v.discarded <= v.evaluated
  ELSE /\ v.proposed \in Lengths /\ v.proposed <= MaximumLength
       /\ v.accepted <= v.proposed
       /\ v.discarded <= v.evaluated
       /\ v.loads <= v.assignments

Recorded(s, v) ==
  LET rung == RungOf(v.proposed) IN
  [s EXCEPT
     !.trials = [p \in Positions |-> IF p <= v.proposed THEN @[p] + 1 ELSE @[p]],
     !.successes = [p \in Positions |-> IF p <= v.accepted THEN @[p] + 1 ELSE @[p]],
     !.loads[rung] = @ + v.loads,
     !.assignments[rung] = @ + v.assignments,
     !.observed = @ \cup {rung}]

Rejected(s, v) ==
  LET rung == RungOf(v.proposed) IN
  [s EXCEPT !.cap = {IF rung = 1 THEN 0 ELSE ladder[rung - 1]}]

Accepted(s, v) ==
  LET rung == RungOf(v.proposed) IN
  [s EXCEPT
     !.cap = {},
     !.qualified = IF Survives(s, rung) /\ CostQualifies(s, rung) /\ rung > @
                   THEN rung ELSE @]

AfterObserve(s, v) ==
  IF v.proposed = 0 THEN s
  ELSE LET recorded == Recorded(s, v) IN
       IF ~s.adaptive THEN recorded
       ELSE IF v.accepted < v.proposed THEN Rejected(recorded, v)
       ELSE Accepted(recorded, v)

-----------------------------------------------------------------------------
(* Facts about these operators, for every state of the scheduler, every    *)
(* request and every verified block.                                       *)
(* Extreme elements.                                                       *)

LEMMA LeastElement ==
  ASSUME NEW S \in SUBSET Nat, S # {}
  PROVE  \E least \in S : \A n \in S : least <= n
<1> DEFINE R == OpToRel(<, Nat)
<1>1. IsWellFoundedOn(R, Nat)
  BY NatLessThanWellFounded
<1>2. \A m \in Nat, n \in Nat : m < n => <<m, n>> \in R
  BY Zenon DEF OpToRel
<1> HIDE DEF R
<1>3. PICK least \in S : \A n \in S : ~(<<n, least>> \in R)
  BY <1>1, WFMin
<1>4. \A n \in S : ~(n < least)
  BY <1>2, <1>3, Zenon
<1> QED
  BY <1>4

LEMMA MinProperties ==
  ASSUME NEW S \in SUBSET Nat, S # {}
  PROVE  Min(S) \in S /\ \A n \in S : Min(S) <= n
  BY LeastElement DEF Min

-----------------------------------------------------------------------------
(* The ladder.                                                             *)

LEMMA LadderProperties ==
  /\ ladder[1] = 1 /\ ladder[2] = 2 /\ ladder[3] = 4
  /\ Lengths = {1, 2, 4}
  /\ \A rung \in Rungs : ladder[rung] \in Lengths
  /\ \A length \in Lengths :
       RungOf(length) \in Rungs /\ ladder[RungOf(length)] = length
<1>1. ladder[1] = 1 /\ ladder[2] = 2 /\ ladder[3] = 4
  BY DEF ladder, Rungs
<1>2. \A rung \in Rungs : rung = 1 \/ rung = 2 \/ rung = 3
  BY DEF Rungs
<1>3. 1 \in Rungs /\ 2 \in Rungs /\ 3 \in Rungs
  BY DEF Rungs
<1>4. Lengths = {1, 2, 4}
  BY <1>1, <1>2, <1>3 DEF Lengths
<1>5. \A length \in Lengths : \E rung \in Rungs : ladder[rung] = length
  BY DEF Lengths
<1> QED
  BY <1>1, <1>4, <1>5 DEF RungOf, Lengths

LEMMA MaxOfLengths ==
  ASSUME NEW S \in SUBSET Lengths
  PROVE  /\ Max({0} \cup S) \in {0} \cup S
         /\ \A n \in {0} \cup S : Max({0} \cup S) >= n
<1> DEFINE T == {0} \cup S
<1>1. \E most \in T : \A n \in T : most >= n
  <2>1. \A n \in T : n = 0 \/ n = 1 \/ n = 2 \/ n = 4
    BY LadderProperties
  <2>2. CASE 4 \in T
    BY <2>1, <2>2
  <2>3. CASE 4 \notin T /\ 2 \in T
    BY <2>1, <2>3
  <2>4. CASE 4 \notin T /\ 2 \notin T /\ 1 \in T
    BY <2>1, <2>4
  <2>5. CASE 4 \notin T /\ 2 \notin T /\ 1 \notin T
    BY <2>1, <2>5
  <2> QED
    BY <2>2, <2>3, <2>4, <2>5
<1> QED
  BY <1>1 DEF Max

-----------------------------------------------------------------------------
(* select.                                                                 *)

LEMMA EffectiveMaximumProperties ==
  ASSUME NEW s \in Scheduler, NEW request \in Nat
  PROVE  /\ EffectiveMaximum(s, request) \in Nat
         /\ EffectiveMaximum(s, request) <= request
         /\ EffectiveMaximum(s, request) <= MaximumLength
         /\ \A length \in s.cap : EffectiveMaximum(s, request) <= length
<1> DEFINE S == {request, MaximumLength} \cup s.cap
<1>1. S \in SUBSET Nat /\ S # {}
  BY LadderProperties, SchedulerAssumption DEF Scheduler
<1> HIDE DEF S
<1>2. Min(S) \in S /\ \A n \in S : Min(S) <= n
  BY <1>1, MinProperties
<1> QED
  BY <1>1, <1>2 DEF S, EffectiveMaximum

LEMMA FrontierProperties ==
  ASSUME NEW s \in Scheduler
  PROVE  1..Frontier(s) \subseteq Rungs
<1>1. s.qualified \in 0..3 /\ RungOf(MaximumLength) \in 1..3
  BY LadderProperties, SchedulerAssumption DEF Scheduler, Rungs
<1>2. ASSUME s.qualified # 0
      PROVE  Frontier(s) <= 3 /\ Frontier(s) \in Nat
  <2>1. Min({s.qualified + 1, RungOf(MaximumLength)})
          \in {s.qualified + 1, RungOf(MaximumLength)}
    BY <1>1, MinProperties
  <2>2. Min({s.qualified + 1, RungOf(MaximumLength)}) <= RungOf(MaximumLength)
    BY <1>1, MinProperties
  <2> QED
    BY <1>1, <1>2, <2>1, <2>2 DEF Frontier
<1> QED
  BY <1>2 DEF Frontier, Rungs

\* select answers a request with a length of the ladder or with zero, never
\* with more than was asked for.
LEMMA SelectedLengthProperties ==
  ASSUME NEW s \in Scheduler, NEW request \in Nat
  PROVE  /\ SelectedLength(s, request) \in {0} \cup Lengths
         /\ SelectedLength(s, request) <= EffectiveMaximum(s, request)
<1> DEFINE S == Selectable(s, request)
<1>1. S \in SUBSET Lengths /\ \A n \in S : n <= EffectiveMaximum(s, request)
  BY FrontierProperties, LadderProperties DEF Selectable
<1>2. EffectiveMaximum(s, request) \in Nat
  BY EffectiveMaximumProperties
<1> HIDE DEF S
<1>3. Max({0} \cup S) \in {0} \cup S
  BY <1>1, MaxOfLengths
<1> QED
  BY <1>1, <1>2, <1>3, LadderProperties DEF S, SelectedLength

LEMMA AfterSelectType ==
  ASSUME NEW s \in Scheduler, NEW request \in Nat
  PROVE  AfterSelect(s, request) \in Scheduler
  BY DEF AfterSelect, Scheduler

-----------------------------------------------------------------------------
(* observe.                                                                *)

LEMMA NewSchedulerType ==
  ASSUME NEW adaptive \in BOOLEAN
  PROVE  NewScheduler(adaptive) \in Scheduler
  BY DEF NewScheduler, Scheduler

LEMMA RecordedType ==
  ASSUME NEW s \in Scheduler, NEW v,
         v.proposed \in Lengths, v.loads \in Nat, v.assignments \in Nat
  PROVE  Recorded(s, v) \in Scheduler
<1> DEFINE rung == RungOf(v.proposed)
           trials == [p \in Positions |-> IF p <= v.proposed THEN s.trials[p] + 1
                                          ELSE s.trials[p]]
           successes == [p \in Positions |->
                           IF p <= v.accepted THEN s.successes[p] + 1
                           ELSE s.successes[p]]
           loads == [s.loads EXCEPT ![rung] = @ + v.loads]
           assignments == [s.assignments EXCEPT ![rung] = @ + v.assignments]
           observed == s.observed \cup {rung}
<1>1. rung \in Rungs
  BY LadderProperties
<1>2. trials \in [Positions -> Nat] /\ successes \in [Positions -> Nat]
  BY DEF Scheduler
<1>3. loads \in [Rungs -> Nat] /\ assignments \in [Rungs -> Nat]
  BY <1>1 DEF Scheduler
<1>4. observed \in SUBSET Rungs
  BY <1>1 DEF Scheduler
<1>5. Recorded(s, v) =
        [s EXCEPT !.trials = trials, !.successes = successes, !.loads = loads,
                  !.assignments = assignments, !.observed = observed]
  BY DEF Recorded, Scheduler
<1> HIDE DEF trials, successes, loads, assignments, observed
<1> QED
  BY <1>2, <1>3, <1>4, <1>5 DEF Scheduler

LEMMA RejectedType ==
  ASSUME NEW s \in Scheduler, NEW v,
         v.proposed \in Lengths, v.proposed <= MaximumLength
  PROVE  /\ Rejected(s, v) \in Scheduler
         /\ \A length \in Rejected(s, v).cap : length < v.proposed
<1> DEFINE rung == RungOf(v.proposed)
           lower == IF rung = 1 THEN 0 ELSE ladder[rung - 1]
<1>1. rung \in 1..3 /\ ladder[rung] = v.proposed
  BY LadderProperties DEF Rungs
<1>2. lower \in {0} \cup Lengths /\ lower < v.proposed
  BY <1>1, LadderProperties
<1>3. MaximumLength \in Nat /\ v.proposed \in Nat
  BY LadderProperties, SchedulerAssumption
<1>4. lower < MaximumLength
  BY <1>2, <1>3, LadderProperties
<1>5. Rejected(s, v) = [s EXCEPT !.cap = {lower}]
  BY DEF Rejected
<1> HIDE DEF lower
<1> QED
  BY <1>2, <1>4, <1>5 DEF Scheduler

LEMMA AcceptedType ==
  ASSUME NEW s \in Scheduler, NEW v, v.proposed \in Lengths
  PROVE  Accepted(s, v) \in Scheduler
<1> DEFINE rung == RungOf(v.proposed)
           qualified == IF /\ Survives(s, rung) /\ CostQualifies(s, rung)
                           /\ rung > s.qualified
                        THEN rung ELSE s.qualified
<1>1. qualified \in {0} \cup Rungs
  BY LadderProperties DEF Scheduler
<1>2. Accepted(s, v) = [s EXCEPT !.cap = {}, !.qualified = qualified]
  BY DEF Accepted, Scheduler
<1> HIDE DEF qualified
<1> QED
  BY <1>1, <1>2 DEF Scheduler

LEMMA AfterObserveType ==
  ASSUME NEW s \in Scheduler, NEW v, v.proposed \in Nat,
         v.loads \in Nat, v.assignments \in Nat, Observable(v)
  PROVE  AfterObserve(s, v) \in Scheduler
<1>1. CASE v.proposed = 0
  BY <1>1 DEF AfterObserve
<1>2. CASE v.proposed # 0
  <2>1. v.proposed \in Lengths /\ v.proposed <= MaximumLength
    BY <1>2 DEF Observable
  <2>2. Recorded(s, v) \in Scheduler
    BY <2>1, RecordedType
  <2>3. /\ Rejected(Recorded(s, v), v) \in Scheduler
        /\ Accepted(Recorded(s, v), v) \in Scheduler
    BY <2>1, <2>2, RejectedType, AcceptedType
  <2> QED
    BY <1>2, <2>2, <2>3 DEF AfterObserve
<1> QED
  BY <1>1, <1>2
=============================================================================
