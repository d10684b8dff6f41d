-------------------------- MODULE AdaptationProofs --------------------------
(***************************************************************************)
(* Theorems about what the runtime takes from its own past.                *)
(*                                                                         *)
(* The draft scheduler, under every sequence of requests and verified       *)
(* blocks: how it climbs the ladder, and how it heeds rejections.  The      *)
(* profile of experts, for every finite set of them, all bounds, every     *)
(* sequence of selections and every file an earlier session saved: that it *)
(* counts what was observed, and that the file is what was counted.  The    *)
(* host store, which admits and evicts by such counts, for every set of    *)
(* experts, every size of payload, every capacity and all admission modes: *)
(* that it stays within its capacity and why it evicts.                     *)
(***************************************************************************)
EXTENDS DraftScheduling, RuntimeProfile, HostExpertStore, FiniteSetTheorems, SequenceTheorems

-----------------------------------------------------------------------------
(* The inductive invariant.                                                *)

\* Every qualified rung has been drafted and accepted in full at least once,
\* and what is drafted is at most one rung above them.
Growth ==
  scheduler.adaptive =>
    /\ \A rung \in 1..scheduler.qualified :
         rung \in scheduler.observed /\ scheduler.successes[ladder[rung]] > 0
    /\ \A length \in drafted \ {0} : RungOf(length) <= scheduler.qualified + 1

\* Until a positive request is answered with zero, a rejection leaves a cap
\* below the rejected length.
CapIsBelow ==
  scheduler.adaptive /\ rejected > 0 /\ ordinary = 0 =>
    \E length \in scheduler.cap : length < rejected

\* The stages of a retry: the cap of zero, the retry it grants, and the draft.
CapOfZero == ordinary = 0 /\ scheduler.cap = {0}
RetryIsGranted == ordinary = 1 /\ scheduler.cap = {} /\ scheduler.retry
RetryIsDrafted == ordinary <= 1 /\ drafted # {} /\ 0 \notin drafted
RetryIsUnderway ==
  scheduler.adaptive /\ rejected = 1 => CapOfZero \/ RetryIsGranted \/ RetryIsDrafted

Inv == DraftTypeOK /\ PrefixCountsAreOrdered /\ Growth /\ CapIsBelow /\ RetryIsUnderway

-----------------------------------------------------------------------------
(* Steps of the scheduler.                                                 *)

LEMMA PositionsOfTheLadder ==
  /\ Positions = 1..4
  /\ \A length \in Lengths : length \in Positions
  BY LadderProperties DEF Positions

LEMMA LeastOfTwo ==
  ASSUME NEW m \in Nat, NEW n \in Nat
  PROVE  Min({m, n}) \in Nat /\ Min({m, n}) <= m /\ Min({m, n}) <= n
         /\ (Min({m, n}) = m \/ Min({m, n}) = n)
  BY MinProperties

\* What is selected is at most one rung above the qualified ones.
LEMMA SelectedRung ==
  ASSUME NEW s \in Scheduler, NEW request \in Nat, s.adaptive,
         SelectedLength(s, request) # 0
  PROVE  RungOf(SelectedLength(s, request)) <= s.qualified + 1
<1>1. s.qualified \in Nat /\ RungOf(MaximumLength) \in Nat
  BY LadderProperties, SchedulerAssumption DEF Scheduler, Rungs
<1>2. Frontier(s) \in Nat /\ Frontier(s) <= s.qualified + 1
  BY <1>1, LeastOfTwo DEF Frontier
<1>3. CASE SelectedLength(s, request) = 1
  <2>1. RungOf(1) = 1
    BY LadderProperties DEF Rungs
  <2> QED
    BY <1>1, <1>3, <2>1
<1>4. CASE SelectedLength(s, request) # 1
  <2>1. Selectable(s, request) \in SUBSET Lengths
    BY FrontierProperties, LadderProperties DEF Selectable
  <2>2. SelectedLength(s, request) \in Selectable(s, request)
    BY <1>4, <2>1, MaxOfLengths DEF SelectedLength
  <2>3. PICK rung \in 1..Frontier(s) : ladder[rung] = SelectedLength(s, request)
    BY <2>2 DEF Selectable
  <2>4. rung \in Rungs
    BY <2>3, FrontierProperties
  <2>5. RungOf(ladder[rung]) = rung
    BY <2>4, LadderProperties DEF Rungs
  <2> QED
    BY <1>1, <1>2, <2>3, <2>5
<1> QED
  BY <1>3, <1>4

\* select changes neither policy, counts nor qualification.
LEMMA AfterSelectKeeps ==
  ASSUME NEW s \in Scheduler, NEW request \in Nat
  PROVE  LET t == AfterSelect(s, request) IN
         /\ t.adaptive = s.adaptive /\ t.trials = s.trials /\ t.successes = s.successes
         /\ t.observed = s.observed /\ t.qualified = s.qualified
  BY DEF AfterSelect, Scheduler

\* What observe records of a block.
LEMMA RecordedFields ==
  ASSUME NEW s \in Scheduler, NEW v
  PROVE  LET t == Recorded(s, v) IN
         /\ t.trials = [p \in Positions |-> IF p <= v.proposed THEN s.trials[p] + 1
                                            ELSE s.trials[p]]
         /\ t.successes = [p \in Positions |-> IF p <= v.accepted THEN s.successes[p] + 1
                                               ELSE s.successes[p]]
         /\ t.observed = s.observed \cup {RungOf(v.proposed)}
         /\ t.adaptive = s.adaptive /\ t.qualified = s.qualified
         /\ t.cap = s.cap /\ t.retry = s.retry
  BY DEF Recorded, Scheduler

\* What observe makes of them.
LEMMA AfterObserveFields ==
  ASSUME NEW s \in Scheduler, NEW v, v.proposed \in Lengths,
         v.accepted \in Nat, v.loads \in Nat, v.assignments \in Nat
  PROVE  LET t == AfterObserve(s, v)
             r == Recorded(s, v)
         IN
         /\ t.trials = r.trials /\ t.successes = r.successes
         /\ t.observed = r.observed /\ t.adaptive = s.adaptive
         /\ \/ t.qualified = s.qualified
            \/ v.accepted >= v.proposed /\ t.qualified = RungOf(v.proposed)
         /\ s.adaptive /\ v.accepted < v.proposed =>
              t.cap = {IF RungOf(v.proposed) = 1 THEN 0 ELSE ladder[RungOf(v.proposed) - 1]}
<1> DEFINE r == Recorded(s, v)
<1>1. v.proposed # 0
  BY LadderProperties
<1>2. r \in Scheduler
  BY RecordedType
<1>3. r.adaptive = s.adaptive /\ r.qualified = s.qualified
  BY RecordedFields
<1> HIDE DEF r
<1>4. CASE ~s.adaptive
  BY <1>1, <1>3, <1>4 DEF AfterObserve, r
<1>5. CASE s.adaptive /\ v.accepted < v.proposed
  <2>1. AfterObserve(s, v) = Rejected(r, v)
    BY <1>1, <1>3, <1>5 DEF AfterObserve, r
  <2> QED
    BY <1>2, <1>3, <1>5, <2>1 DEF Rejected, Scheduler, r
<1>6. CASE s.adaptive /\ ~(v.accepted < v.proposed)
  <2>1. AfterObserve(s, v) = Accepted(r, v)
    BY <1>1, <1>3, <1>6 DEF AfterObserve, r
  <2> DEFINE t == Accepted(r, v)
  <2>2. /\ t.trials = r.trials /\ t.successes = r.successes /\ t.observed = r.observed
        /\ t.adaptive = r.adaptive
    BY <1>2 DEF Accepted, Scheduler
  <2>3. t.qualified = r.qualified \/ t.qualified = RungOf(v.proposed)
    BY <1>2 DEF Accepted, Scheduler
  <2>4. v.accepted >= v.proposed
    BY <1>6, LadderProperties
  <2> HIDE DEF t
  <2> QED
    BY <1>3, <1>6, <2>1, <2>2, <2>3, <2>4 DEF r, t
<1> QED
  BY <1>4, <1>5, <1>6

\* A granted retry drafts one token for any positive request.
LEMMA RetryDraftsOne ==
  ASSUME NEW s \in Scheduler, NEW request \in Nat,
         request > 0, s.adaptive, s.retry, s.cap = {}
  PROVE  SelectedLength(s, request) = 1
<1>1. MaximumLength \in Nat /\ MaximumLength >= 1
  BY LadderProperties, SchedulerAssumption
<1>2. EffectiveMaximum(s, request) = Min({request, MaximumLength})
  BY DEF EffectiveMaximum
<1>3. EffectiveMaximum(s, request) >= 1
  BY <1>1, <1>2, LeastOfTwo
<1> QED
  BY <1>3 DEF SelectedLength

-----------------------------------------------------------------------------
(* The invariant.                                                          *)

LEMMA InitInv ==
  ASSUME SchedulingAssumption, DraftInit
  PROVE  Inv
<1>1. PICK adaptive \in BOOLEAN : scheduler = NewScheduler(adaptive)
  BY DEF DraftInit, SchedulingAssumption
<1>2. DraftTypeOK
  BY <1>1, NewSchedulerType DEF DraftInit, DraftTypeOK
<1>3. PrefixCountsAreOrdered
  BY <1>1 DEF PrefixCountsAreOrdered, NewScheduler, Positions
<1>4. Growth
  BY <1>1 DEF DraftInit, Growth, NewScheduler
<1> QED
  BY <1>2, <1>3, <1>4 DEF DraftInit, Inv, CapIsBelow, RetryIsUnderway

\* A selection keeps the invariant.
LEMMA SelectInv ==
  ASSUME SchedulingAssumption, Inv, NEW request \in Requests, Select(request)
  PROVE  Inv'
<1> DEFINE chosen == SelectedLength(scheduler, request)
<1>1. scheduler \in Scheduler /\ request \in Nat
  BY DEF Inv, DraftTypeOK, SchedulingAssumption
<1>2. chosen \in {0} \cup Lengths
  BY <1>1, SelectedLengthProperties
<1>3. drafted' = {chosen} /\ drafted = {} /\ rejected' = rejected
  BY DEF Select
<1>4. scheduler' = AfterSelect(scheduler, request)
  BY DEF Select
<1>5. /\ scheduler'.adaptive = scheduler.adaptive /\ scheduler'.trials = scheduler.trials
      /\ scheduler'.successes = scheduler.successes
      /\ scheduler'.observed = scheduler.observed
      /\ scheduler'.qualified = scheduler.qualified
  BY <1>1, <1>4, AfterSelectKeeps
<1>6. ordinary' = IF request > 0 /\ chosen = 0 THEN Min({ordinary + 1, 2}) ELSE ordinary
  BY <1>3 DEF Select
<1>7. /\ ordinary \in Nat /\ rejected \in Nat
      /\ Min({ordinary + 1, 2}) \in Nat /\ Min({ordinary + 1, 2}) > 0
      /\ ordinary = 0 => Min({ordinary + 1, 2}) = 1
  <2>1. ordinary \in Nat /\ rejected \in Nat
    BY LadderProperties DEF Inv, DraftTypeOK
  <2> QED
    BY <2>1, LeastOfTwo
<1>8. EffectiveMaximum(scheduler, request) \in Nat /\ chosen <= EffectiveMaximum(scheduler, request)
  BY <1>1, EffectiveMaximumProperties, SelectedLengthProperties
<1> HIDE DEF chosen
<1>9. DraftTypeOK'
  <2>1. scheduler' \in Scheduler
    BY <1>1, <1>4, AfterSelectType
  <2> QED
    BY <1>2, <1>3, <1>6, <1>7, <2>1 DEF Inv, DraftTypeOK
<1>10. PrefixCountsAreOrdered'
  BY <1>5 DEF Inv, PrefixCountsAreOrdered
<1>11. Growth'
  <2>1. scheduler.adaptive /\ chosen # 0 => RungOf(chosen) <= scheduler.qualified + 1
    BY <1>1, SelectedRung DEF chosen
  <2> QED
    BY <1>3, <1>5, <2>1 DEF Inv, Growth
<1>12. request = 0 => scheduler' = scheduler /\ ordinary' = ordinary
  BY <1>4, <1>6 DEF AfterSelect
<1>13. request > 0 /\ chosen # 0 => scheduler'.cap = scheduler.cap /\ ordinary' = ordinary
  <2>1. ASSUME request > 0, chosen # 0 PROVE EffectiveMaximum(scheduler, request) # 0
    BY <1>2, <1>8, <2>1, LadderProperties
  <2> QED
    BY <1>1, <1>4, <1>6, <2>1 DEF AfterSelect, Scheduler
<1>14. CapIsBelow'
  <2> SUFFICES ASSUME scheduler.adaptive, rejected > 0, ordinary' = 0
               PROVE  \E length \in scheduler'.cap : length < rejected
    BY <1>3, <1>5 DEF CapIsBelow
  <2>1. ordinary = 0 /\ (request = 0 \/ chosen # 0)
    BY <1>1, <1>6, <1>7
  <2> QED
    BY <1>1, <1>12, <1>13, <2>1 DEF Inv, CapIsBelow
<1>15. RetryIsUnderway'
  <2> SUFFICES ASSUME scheduler.adaptive, rejected = 1
               PROVE  CapOfZero' \/ RetryIsGranted' \/ RetryIsDrafted'
    BY <1>3, <1>5 DEF RetryIsUnderway
  <2>1. CapOfZero \/ RetryIsGranted
    BY <1>3 DEF Inv, RetryIsUnderway, RetryIsDrafted
  <2>2. CASE request = 0
    BY <1>12, <2>1, <2>2 DEF CapOfZero, RetryIsGranted
  <2>3. CASE request > 0 /\ CapOfZero
    <3>1. EffectiveMaximum(scheduler, request) = 0
      <4>1. PICK most : most = EffectiveMaximum(scheduler, request)
        OBVIOUS
      <4>2. scheduler \in Scheduler /\ request \in Nat /\ 0 \in scheduler.cap
        BY <1>1, <2>3 DEF CapOfZero
      <4>3. most \in Nat /\ \A length \in scheduler.cap : most <= length
        BY <4>1, <4>2, EffectiveMaximumProperties
      <4>4. most <= 0
        BY <4>2, <4>3
      <4> QED BY <4>1, <4>3, <4>4
    <3>2. chosen = 0
      BY <1>2, <1>8, <3>1, LadderProperties
    <3>3. scheduler'.cap = {} /\ scheduler'.retry
      BY <1>1, <1>4, <2>3, <3>1 DEF AfterSelect, Scheduler
    <3> QED
      BY <1>6, <1>7, <2>3, <3>2, <3>3 DEF CapOfZero, RetryIsGranted
  <2>4. CASE request > 0 /\ RetryIsGranted
    <3>1. chosen = 1
      BY <1>1, <2>4, RetryDraftsOne DEF RetryIsGranted, chosen
    <3> QED
      BY <1>3, <1>13, <2>4, <3>1 DEF RetryIsGranted, RetryIsDrafted
  <2> QED
    BY <1>1, <2>1, <2>2, <2>3, <2>4
<1> QED
  BY <1>9, <1>10, <1>11, <1>14, <1>15 DEF Inv

\* What is observed: a block of a length of the ladder, or none.
LEMMA ObservedBlock ==
  ASSUME SchedulingAssumption, NEW length \in {0} \cup Lengths,
         NEW accepted \in 0..MaximumLength, NEW cost \in Costs
  PROVE  LET v == Verification(length, accepted, cost) IN
         /\ v.proposed = length /\ v.accepted = accepted /\ accepted \in Nat
         /\ v.proposed \in Nat /\ v.loads \in Nat /\ v.assignments \in Nat
         /\ length # 0 /\ Observable(v) => accepted <= length
<1>1. length \in Nat /\ accepted \in Nat
  BY LadderProperties, SchedulerAssumption
<1>2. cost[1] \in Nat /\ cost[2] \in Nat
  BY DEF SchedulingAssumption
<1>3. \A m, n \in Nat : m * n \in Nat
  OBVIOUS
<1> QED
  BY <1>1, <1>2, <1>3 DEF Verification, Observable

\* A verified block keeps the invariant.
LEMMA ObserveInv ==
  ASSUME SchedulingAssumption, Inv,
         NEW accepted \in 0..MaximumLength, NEW cost \in Costs, Observe(accepted, cost)
  PROVE  Inv'
<1>1. PICK length \in drafted :
        LET v == Verification(length, accepted, cost) IN
        /\ Observable(v) /\ drafted' = {} /\ scheduler' = AfterObserve(scheduler, v)
        /\ IF length = 0 THEN UNCHANGED <<rejected, ordinary>>
           ELSE /\ rejected' = IF accepted < length THEN length ELSE 0
                /\ ordinary' = 0
  BY DEF Observe
<1> DEFINE v == Verification(length, accepted, cost)
           r == Recorded(scheduler, v)
<1>2. scheduler \in Scheduler /\ length \in {0} \cup Lengths /\ ordinary \in Nat
  BY DEF Inv, DraftTypeOK
<1>3. /\ v.proposed = length /\ v.accepted = accepted /\ accepted \in Nat
      /\ v.proposed \in Nat /\ v.loads \in Nat /\ v.assignments \in Nat
      /\ length # 0 => accepted <= length
  BY <1>1, <1>2, ObservedBlock
<1>4. Observable(v) /\ drafted' = {} /\ scheduler' = AfterObserve(scheduler, v)
  BY <1>1
<1> HIDE DEF v
<1>5. CASE length = 0
  <2>1. scheduler' = scheduler /\ rejected' = rejected /\ ordinary' = ordinary
    BY <1>1, <1>3, <1>4, <1>5 DEF AfterObserve
  <2>2. scheduler.adaptive /\ rejected = 1 => ~RetryIsDrafted
    BY <1>5 DEF RetryIsDrafted
  <2> QED
    BY <1>4, <2>1, <2>2
    DEF Inv, DraftTypeOK, PrefixCountsAreOrdered, Growth, CapIsBelow, RetryIsUnderway,
        CapOfZero, RetryIsGranted
<1>6. CASE length # 0
  <2>1. /\ length \in Lengths /\ length \in Positions /\ length \in Nat /\ length > 0
        /\ accepted <= length /\ ordinary' = 0
        /\ rejected' = IF accepted < length THEN length ELSE 0
    BY <1>1, <1>2, <1>3, <1>6, PositionsOfTheLadder
  <2>2. /\ scheduler'.trials = r.trials /\ scheduler'.successes = r.successes
        /\ scheduler'.observed = r.observed /\ scheduler'.adaptive = scheduler.adaptive
        /\ \/ scheduler'.qualified = scheduler.qualified
           \/ accepted >= length /\ scheduler'.qualified = RungOf(length)
        /\ scheduler.adaptive /\ accepted < length =>
             scheduler'.cap = {IF RungOf(length) = 1 THEN 0 ELSE ladder[RungOf(length) - 1]}
    BY <1>2, <1>3, <1>4, <2>1, AfterObserveFields
  <2>3. /\ r.trials = [p \in Positions |-> IF p <= length THEN scheduler.trials[p] + 1
                                           ELSE scheduler.trials[p]]
        /\ r.successes = [p \in Positions |-> IF p <= accepted THEN scheduler.successes[p] + 1
                                              ELSE scheduler.successes[p]]
        /\ r.observed = scheduler.observed \cup {RungOf(length)}
    BY <1>2, <1>3, RecordedFields
  <2> HIDE DEF r
  <2>4. scheduler.trials \in [Positions -> Nat] /\ scheduler.successes \in [Positions -> Nat]
        /\ scheduler.qualified \in 0..3
    BY <1>2 DEF Scheduler, Rungs
  <2>5. DraftTypeOK'
    <3>1. scheduler' \in Scheduler
      BY <1>2, <1>3, <1>4, AfterObserveType
    <3> QED
      BY <1>4, <2>1, <3>1 DEF DraftTypeOK
  <2>6. PrefixCountsAreOrdered'
    <3> SUFFICES ASSUME NEW p \in Positions
                 PROVE  /\ r.successes[p] <= r.trials[p]
                        /\ p > 1 => /\ r.trials[p] <= r.trials[p - 1]
                                    /\ r.successes[p] <= r.successes[p - 1]
      BY <2>2 DEF PrefixCountsAreOrdered
    <3>1. p \in 1..4 /\ (p > 1 => p - 1 \in Positions)
      BY PositionsOfTheLadder
    <3>2. /\ scheduler.successes[p] <= scheduler.trials[p]
          /\ p > 1 => /\ scheduler.trials[p] <= scheduler.trials[p - 1]
                      /\ scheduler.successes[p] <= scheduler.successes[p - 1]
      BY DEF Inv, PrefixCountsAreOrdered
    <3>3. r.successes[p] <= r.trials[p]
      BY <1>3, <2>1, <2>3, <2>4, <3>1, <3>2
    <3>4. ASSUME p > 1
          PROVE  r.trials[p] <= r.trials[p - 1] /\ r.successes[p] <= r.successes[p - 1]
      BY <1>3, <2>1, <2>3, <2>4, <3>1, <3>2, <3>4
    <3> QED
      BY <3>3, <3>4
  <2>7. Growth'
    <3> SUFFICES ASSUME scheduler.adaptive, NEW rung \in 1..scheduler'.qualified
                 PROVE  rung \in r.observed /\ r.successes[ladder[rung]] > 0
      BY <1>4, <2>2 DEF Growth
    <3>1. /\ RungOf(length) <= scheduler.qualified + 1
          /\ \A q \in 1..scheduler.qualified :
               q \in scheduler.observed /\ scheduler.successes[ladder[q]] > 0
      BY <1>1, <1>6 DEF Inv, Growth
    <3>2. RungOf(length) \in 1..3 /\ ladder[RungOf(length)] = length
      BY <2>1, LadderProperties DEF Rungs
    <3>3. rung \in 1..scheduler.qualified \/ (accepted >= length /\ rung = RungOf(length))
      BY <2>2, <2>4, <3>1, <3>2
    <3>4. CASE rung \in 1..scheduler.qualified
      <4>1. rung \in Rungs /\ ladder[rung] \in Positions
        BY <2>4, <3>4, LadderProperties, PositionsOfTheLadder DEF Rungs
      <4> QED
        BY <1>3, <2>3, <2>4, <3>1, <3>4, <4>1
    <3>5. CASE accepted >= length /\ rung = RungOf(length)
      BY <1>3, <2>1, <2>3, <2>4, <3>2, <3>5
    <3> QED
      BY <3>3, <3>4, <3>5
  <2>8. ASSUME scheduler.adaptive, accepted < length
        PROVE  \E lower \in {0} \cup Lengths :
                 scheduler'.cap = {lower} /\ lower < length /\ (length = 1 => lower = 0)
    <3>1. RungOf(length) \in 1..3 /\ ladder[RungOf(length)] = length
      BY <2>1, LadderProperties DEF Rungs
    <3> QED
      BY <2>2, <2>8, <3>1, LadderProperties
  <2>9. CapIsBelow'
    BY <2>1, <2>2, <2>8 DEF CapIsBelow
  <2>10. RetryIsUnderway'
    BY <2>1, <2>2, <2>8 DEF RetryIsUnderway, CapOfZero
  <2> QED
    BY <2>5, <2>6, <2>7, <2>9, <2>10 DEF Inv
<1> QED
  BY <1>5, <1>6

LEMMA Invariance ==
  ASSUME SchedulingAssumption
  PROVE  DraftSpec => []Inv
<1>1. DraftInit => Inv
  BY InitInv
<1>2. Inv /\ [DraftNext]_draftVars => Inv'
  <2> SUFFICES ASSUME Inv, [DraftNext]_draftVars PROVE Inv'
    OBVIOUS
  <2>1. CASE DraftNext
    BY <2>1, SelectInv, ObserveInv DEF DraftNext
  <2>2. CASE UNCHANGED draftVars
    BY <2>2 DEF draftVars, Inv, DraftTypeOK, PrefixCountsAreOrdered, Growth, CapIsBelow,
                RetryIsUnderway, CapOfZero, RetryIsGranted, RetryIsDrafted
  <2> QED
    BY <2>1, <2>2
<1> QED
  BY <1>1, <1>2, PTL DEF DraftSpec

-----------------------------------------------------------------------------
(* Theorems.                                                               *)

\* Whatever is asked for and whatever is verified, adaptive growth climbs the
\* ladder rung by rung (select of aurora_scheduler.cpp and its frontier), on
\* estimates that are estimates of prefixes.
THEOREM ClimbsTheLadder ==
  ASSUME SchedulingAssumption
  PROVE  DraftSpec => []LadderIsClimbed
<1>1. Inv => LadderIsClimbed
  <2> SUFFICES ASSUME Inv, scheduler.adaptive, NEW length \in drafted \ {0, 1}
               PROVE  LET before == RungOf(length) - 1 IN
                      before \in scheduler.observed /\ scheduler.successes[ladder[before]] > 0
    BY DEF LadderIsClimbed, GrowsRungByRung, Inv
  <2>1. length \in Lengths /\ length # 1
    BY DEF Inv, DraftTypeOK
  <2>2. RungOf(length) \in 2..3
    BY <2>1, LadderProperties DEF Rungs
  <2>3. RungOf(length) - 1 \in 1..scheduler.qualified
    <3>1. scheduler.qualified \in 0..3
      BY DEF Inv, DraftTypeOK, Scheduler, Rungs
    <3> QED
      BY <2>2, <3>1 DEF Inv, Growth
  <2> QED
    BY <2>3 DEF Inv, Growth
<1> QED
  BY <1>1, Invariance, PTL

\* A rejected block makes the next draft shorter, and a rejection of a single
\* token costs one ordinary step and no more (the cap and the retry of select
\* and observe in aurora_scheduler.cpp).
THEOREM HeedsRejection ==
  ASSUME SchedulingAssumption
  PROVE  DraftSpec => RejectionIsHeeded
<1>1. Inv /\ [DraftNext]_draftVars => [RejectionBacksOff /\ RejectionIsRetried]_draftVars
  <2> SUFFICES ASSUME Inv, DraftNext PROVE RejectionBacksOff /\ RejectionIsRetried
    OBVIOUS
  <2>1. CASE drafted # {}
    BY <2>1 DEF RejectionBacksOff, RejectionIsRetried
  <2>2. CASE drafted = {}
    <3>1. PICK request \in Requests : Select(request)
      BY <2>2 DEF DraftNext, Observe
    <3> DEFINE chosen == SelectedLength(scheduler, request)
    <3>2. scheduler \in Scheduler /\ request \in Nat /\ rejected \in Nat
      BY LadderProperties DEF Inv, DraftTypeOK, SchedulingAssumption
    <3>3. drafted' = {chosen}
      BY <3>1 DEF Select
    <3>4. chosen \in Nat
      BY <3>2, SelectedLengthProperties, LadderProperties
    <3>5. RejectionBacksOff
      <4> SUFFICES ASSUME scheduler.adaptive, rejected > 0, ordinary = 0
                   PROVE  chosen < rejected
        BY <3>3 DEF RejectionBacksOff
      <4>1. PICK cap \in scheduler.cap : cap < rejected
        BY DEF Inv, CapIsBelow
      <4>2. cap \in Nat
        BY <3>2, LadderProperties DEF Scheduler
      <4>3. /\ EffectiveMaximum(scheduler, request) \in Nat
            /\ EffectiveMaximum(scheduler, request) <= cap
            /\ chosen <= EffectiveMaximum(scheduler, request)
        BY <3>2, EffectiveMaximumProperties, SelectedLengthProperties
      <4> HIDE DEF chosen
      <4> QED
        BY <3>2, <3>4, <4>1, <4>2, <4>3
    <3>6. RejectionIsRetried
      <4>1. Inv'
        BY <3>1, SelectInv
      <4>2. rejected' = rejected /\ scheduler'.adaptive = scheduler.adaptive
        BY <3>1, <3>2, AfterSelectKeeps DEF Select
      <4> QED
        BY <4>1, <4>2
        DEF Inv, RetryIsUnderway, CapOfZero, RetryIsGranted, RetryIsDrafted, RejectionIsRetried
    <3> QED
      BY <3>5, <3>6
  <2> QED
    BY <2>1, <2>2
<1> QED
  BY <1>1, Invariance, PTL DEF DraftSpec, RejectionIsHeeded

-----------------------------------------------------------------------------
(* The profile: its inductive invariant.                                    *)

PairKeys == ProfileExperts \X ProfileExperts
Observations == [cycle : Nat, layer : Nat, selected : Selections]
Stages ==
  {"start", "run", "pairs", "keys", "refused", "failed", "write", "rename", "saved", "end"}
Sessions ==
  [pc : Stages, number : Nat, observed : Nat, current : Observations \cup {NotObserving},
   from : Nat, to : Nat]

ProfileTypeOK ==
  /\ AreCounts(prior) /\ AreCounts(live)
  /\ previous \in SUBSET Observations /\ history \in Seq(Observations)
  /\ session \in Sessions
  /\ disk = [file |-> disk.file, temporary |-> disk.temporary]

\* A file is one that was saved, and from the decision to save to the rename the
\* counts are those that were found fit to be.
FilesAreSound ==
  /\ \A file \in disk.file : WasSaved(file)
  /\ session.pc \in {"write", "rename"} => ~SaveRefuses
  /\ session.pc = "rename" => disk.temporary = {FileOf(Merged)}
  /\ session.pc = "saved" => disk = [file |-> {FileOf(Merged)}, temporary |-> {}]
  /\ session.pc = "end" =>
       \E file \in disk.file : \/ Cardinality(DOMAIN file.counts.frequency) > MaximumFrequency
                               \/ Cardinality(DOMAIN file.counts.transitions) > MaximumTransition
                               \/ Sum(file.counts.frequency) > MaximumCount

SumsAreSound ==
  /\ Positive(prior) /\ Positive(live)
  /\ Sum(prior.frequency) = prior.observations
  /\ live.observations = Capped(Sum(live.frequency))

\* Where an observation is: the loops are in the last selection of the history and
\* in the one before, which is the layer before.
Looping == {"pairs", "keys"}
Observing == session.pc \in Looping
LatestBefore(n) == IF n = 0 THEN {} ELSE {history[n]}
PositionIsSound ==
  /\ session.pc = "run" => previous = LatestBefore(Len(history))
  /\ ~Observing => session.from = 1 /\ session.to = 1
  /\ Observing =>
       /\ Len(history) > 0 /\ session.current = history[Len(history)]
       /\ session.to \in DOMAIN session.current.selected
       /\ previous = LatestBefore(Len(history) - 1)
  /\ session.pc = "keys" => session.from = 1
  /\ session.pc = "pairs" =>
       Follows(history, Len(history)) /\ session.from \in DOMAIN history[Len(history) - 1].selected

\* The uses that the loops have come by, and what a table of them tallies.
SeenUses(past, at, key) ==
  {place \in Uses(past, key) :
     \/ place[1] < Len(past) \/ at.pc \notin Looping
     \/ (at.pc = "keys" /\ place[2] < at.to)}
SeenPairs(past, at, pair) ==
  {place \in UsesAdjacent(past, pair[1], pair[2]) :
     \/ place[1] < Len(past) \/ at.pc # "pairs"
     \/ place[2] < at.from \/ (place[2] = at.from /\ place[3] < at.to)}
Tallies(counts, times, limit) ==
  /\ Cardinality(DOMAIN counts) <= limit
  /\ \A key \in DOMAIN counts : counts[key] = Capped(times[key])
  /\ \A key \in DOMAIN times \ DOMAIN counts :
       times[key] > 0 => Cardinality(DOMAIN counts) = limit
SeenTimes(past, at) == [key \in ProfileExperts |-> Cardinality(SeenUses(past, at, key))]
SeenTimesAdjacent(past, at) == [pair \in PairKeys |-> Cardinality(SeenPairs(past, at, pair))]
SeenIsFinite(past, at) ==
  /\ \A key \in ProfileExperts : IsFiniteSet(SeenUses(past, at, key))
  /\ \A pair \in PairKeys : IsFiniteSet(SeenPairs(past, at, pair))
HistoryIsCounted ==
  session.pc # "start" =>
    /\ SeenIsFinite(history, session)
    /\ Tallies(live.frequency, SeenTimes(history, session), MaximumFrequency)
    /\ Tallies(live.transitions, SeenTimesAdjacent(history, session), MaximumTransition)

ProfileInv ==
  ProfileTypeOK /\ FilesAreSound /\ SumsAreSound /\ PositionIsSound /\ HistoryIsCounted

-----------------------------------------------------------------------------
(* Tables of counts.                                                       *)

LEMMA TableIsFinite ==
  ASSUME NEW keys, IsFiniteSet(keys), NEW counts, IsTable(counts, keys)
  PROVE  /\ IsFiniteSet(DOMAIN counts) /\ Cardinality(DOMAIN counts) \in Nat
         /\ IsFiniteSet(Units(counts)) /\ Sum(counts) \in Nat
<1>1. IsFiniteSet(DOMAIN counts) /\ Cardinality(DOMAIN counts) \in Nat
  BY FS_Subset, FS_CardinalityType DEF IsTable
<1>2. PICK parts : parts = {{k} \X (1..counts[k]) : k \in DOMAIN counts}
  OBVIOUS
<1>3. IsFiniteSet(parts)
  <2>1. PICK f : f = [k \in DOMAIN counts |-> {k} \X (1..counts[k])]
    OBVIOUS
  <2>2. f \in Surjection(DOMAIN counts, parts)
    <3>1. \A k \in DOMAIN counts : f[k] = {k} \X (1..counts[k])
      BY <2>1
    <3>2. f \in [DOMAIN counts -> parts]
      BY <2>1, <1>2
    <3>3. \A part \in parts : \E k \in DOMAIN counts : f[k] = part
      BY <3>1, <1>2
    <3> QED BY <3>2, <3>3 DEF Surjection
  <2> QED BY <2>2, <1>1, FS_Surjection
<1>4. ASSUME NEW part \in parts PROVE IsFiniteSet(part)
  <2>1. PICK k \in DOMAIN counts : part = {k} \X (1..counts[k])
    BY <1>2
  <2>2. 1 \in Int /\ counts[k] \in Int
    BY DEF IsTable
  <2>3. IsFiniteSet(1..counts[k]) /\ IsFiniteSet({k})
    BY <2>2, FS_Interval, FS_Singleton
  <2> QED BY <2>1, <2>3, FS_Product
<1>5. IsFiniteSet(Units(counts))
  <2>1. IsFiniteSet(UNION parts)
    BY <1>3, <1>4, FS_UNION
  <2> QED BY <2>1, <1>2 DEF Units
<1> QED BY <1>1, <1>5, FS_CardinalityType DEF Sum

LEMMA UnitsOf ==
  ASSUME NEW keys, NEW counts, IsTable(counts, keys), NEW unit
  PROVE  unit \in Units(counts) <=>
           \E k \in DOMAIN counts : \E n \in 1..counts[k] : unit = <<k, n>>
BY DEF Units

\* A table after it counts a key.
Counted(after, counts, key, limit) ==
  /\ Counts(counts, key, limit) =>
       /\ DOMAIN after = DOMAIN counts \cup {key}
       /\ after[key] = CountOf(counts, key) + 1
       /\ \A k \in DOMAIN counts : k # key => after[k] = counts[k]
  /\ ~Counts(counts, key, limit) => after = counts

LEMMA IncrementIsTable ==
  ASSUME NEW keys, IsFiniteSet(keys), NEW counts, IsTable(counts, keys), NEW key \in keys,
         NEW limit \in Nat,
         NEW after, after = Increment(counts, key, limit)
  PROVE  /\ IsTable(after, keys)
         /\ Counted(after, counts, key, limit)
         /\ (\A k \in DOMAIN counts : counts[k] > 0) => \A k \in DOMAIN after : after[k] > 0
<1>1. CASE ~Counts(counts, key, limit)
  BY <1>1 DEF Increment, Counted
<1>2. CASE Counts(counts, key, limit)
  <2>1. after = [k \in DOMAIN counts \cup {key} |-> CountOf(counts, k) + IF k = key THEN 1 ELSE 0]
    BY <1>2 DEF Increment
  <2>2. /\ DOMAIN after = DOMAIN counts \cup {key}
        /\ \A k \in DOMAIN after : after[k] = CountOf(counts, k) + IF k = key THEN 1 ELSE 0
    BY <2>1
  <2>3. \A k : CountOf(counts, k) \in Nat
    BY DEF CountOf, IsTable
  <2>4. \A k \in DOMAIN counts : counts[k] \in Nat /\ CountOf(counts, k) = counts[k]
    BY DEF CountOf, IsTable
  <2>5. after[key] = CountOf(counts, key) + 1 /\ after[key] \in Nat /\ after[key] > 0
    <3>1. after[key] = CountOf(counts, key) + 1
      BY <2>2
    <3> QED BY <3>1, <2>3
  <2>6. \A k \in DOMAIN counts : k # key => after[k] = counts[k]
    <3> TAKE k \in DOMAIN counts
    <3> HAVE k # key
    <3>1. after[k] = CountOf(counts, k) + 0
      BY <2>2
    <3> QED BY <3>1, <2>4
  <2>7. after = [k \in DOMAIN after |-> after[k]]
    BY <2>1, <2>2
  <2>8. \A k \in DOMAIN after : after[k] \in Nat
    BY <2>2, <2>4, <2>5, <2>6
  <2>9. DOMAIN after \subseteq keys
    BY <2>2 DEF IsTable
  <2> QED BY <1>2, <2>2, <2>5, <2>6, <2>7, <2>8, <2>9 DEF IsTable, Counted
<1> QED BY <1>1, <1>2

LEMMA IncrementAdds ==
  ASSUME NEW keys, IsFiniteSet(keys), NEW counts, IsTable(counts, keys), NEW key \in keys,
         NEW limit \in Nat
  PROVE  Sum(Increment(counts, key, limit)) =
           Sum(counts) + IF Counts(counts, key, limit) THEN 1 ELSE 0
<1>1. PICK after : after = Increment(counts, key, limit)
  OBVIOUS
<1>a. IsTable(after, keys) /\ Counted(after, counts, key, limit)
  BY <1>1, IncrementIsTable
<1>2. /\ IsTable(after, keys)
      /\ Counts(counts, key, limit) =>
           /\ DOMAIN after = DOMAIN counts \cup {key}
           /\ after[key] = CountOf(counts, key) + 1
           /\ \A k \in DOMAIN counts : k # key => after[k] = counts[k]
      /\ ~Counts(counts, key, limit) => after = counts
  BY <1>a DEF Counted
<1>3. IsFiniteSet(Units(counts)) /\ Sum(counts) \in Nat
  BY TableIsFinite
<1>4. CASE ~Counts(counts, key, limit)
  <2>1. Sum(after) = Sum(counts) + 0
    BY <1>2, <1>3, <1>4
  <2> QED BY <2>1, <1>1, <1>4
<1>5. CASE Counts(counts, key, limit)
  <2>1. PICK n : n = CountOf(counts, key)
    OBVIOUS
  <2>2. /\ n \in Nat /\ (key \in DOMAIN counts => n = counts[key])
        /\ (key \notin DOMAIN counts => n = 0)
    BY <2>1 DEF CountOf, IsTable
  <2>3. /\ DOMAIN after = DOMAIN counts \cup {key} /\ after[key] = n + 1
        /\ \A k \in DOMAIN counts : k # key => after[k] = counts[k]
    BY <1>2, <1>5, <2>1
  <2>4. 1..(n + 1) = (1..n) \cup {n + 1} /\ n + 1 \notin 1..n
    BY <2>2
  <2>5. <<key, n + 1>> \notin Units(counts)
    <3> SUFFICES ASSUME <<key, n + 1>> \in Units(counts) PROVE FALSE
      OBVIOUS
    <3>1. key \in DOMAIN counts /\ n + 1 \in 1..counts[key]
      BY UnitsOf
    <3> QED BY <3>1, <2>2, <2>4
  <2>6. Units(after) = Units(counts) \cup {<<key, n + 1>>}
    <3>1. ASSUME NEW unit \in Units(after) PROVE unit \in Units(counts) \cup {<<key, n + 1>>}
      <4>a. PICK k \in DOMAIN after : \E m \in 1..after[k] : unit = <<k, m>>
        BY <1>2, UnitsOf
      <4>1. PICK m \in 1..after[k] : unit = <<k, m>>
        BY <4>a
      <4>2. CASE k # key
        <5>1. k \in DOMAIN counts /\ m \in 1..counts[k]
          BY <4>2, <2>3
        <5> QED BY <5>1, <4>1, UnitsOf
      <4>3. CASE k = key /\ m # n + 1
        <5>1. m \in 1..n
          BY <4>3, <2>3, <2>4
        <5>2. key \in DOMAIN counts /\ m \in 1..counts[key]
          BY <5>1, <2>2
        <5> QED BY <5>2, <4>1, <4>3, UnitsOf
      <4> QED BY <4>1, <4>2, <4>3
    <3>2. ASSUME NEW unit \in Units(counts) PROVE unit \in Units(after)
      <4>a. PICK k \in DOMAIN counts : \E m \in 1..counts[k] : unit = <<k, m>>
        BY UnitsOf
      <4>1. PICK m \in 1..counts[k] : unit = <<k, m>>
        BY <4>a
      <4>2. k \in DOMAIN after
        BY <2>3
      <4>3. m \in 1..after[k]
        <5>1. CASE k # key
          BY <5>1, <2>3
        <5>2. CASE k = key
          <6>1. m \in 1..n
            BY <5>2, <2>2
          <6> QED BY <5>2, <6>1, <2>3, <2>4
        <5> QED BY <5>1, <5>2
      <4> QED BY <4>1, <4>2, <4>3, <1>2, UnitsOf
    <3>3. <<key, n + 1>> \in Units(after)
      <4>1. key \in DOMAIN after /\ n + 1 \in 1..after[key]
        BY <2>2, <2>3
      <4> QED BY <4>1, <1>2, UnitsOf
    <3> QED BY <3>1, <3>2, <3>3
  <2>7. Cardinality(Units(after)) = Cardinality(Units(counts)) + 1
    <3>1. PICK unit : unit = <<key, n + 1>>
      OBVIOUS
    <3>2. Cardinality(Units(counts) \cup {unit}) = Cardinality(Units(counts)) + 1
      BY <3>1, <2>5, <1>3, FS_AddElement
    <3> QED BY <3>1, <3>2, <2>6
  <2> QED BY <2>7, <1>1, <1>5 DEF Sum
<1> QED BY <1>4, <1>5

\* A key has one more use, and no other has.
OneMore(keys, times, later, key) ==
  /\ times \in [keys -> Nat] /\ later \in [keys -> Nat] /\ later[key] = times[key] + 1
  /\ \A k \in keys : k # key => later[k] = times[k]

\* What is in the table is tallied, up to the largest count, also after a key
\* that is counted or that comes when the table is full.
LEMMA IncrementTallies ==
  ASSUME NEW keys, IsFiniteSet(keys), NEW counts, IsTable(counts, keys), NEW key \in keys,
         NEW limit \in Nat,
         NEW times, Tallies(counts, times, limit), NEW later, OneMore(keys, times, later, key)
  PROVE  Tallies(Increment(counts, key, limit), later, limit)
<1>1. PICK after : after = Increment(counts, key, limit)
  OBVIOUS
<1>a. IsTable(after, keys) /\ Counted(after, counts, key, limit)
  BY <1>1, IncrementIsTable
<1>2. /\ IsTable(after, keys)
      /\ Counts(counts, key, limit) =>
           /\ DOMAIN after = DOMAIN counts \cup {key}
           /\ after[key] = CountOf(counts, key) + 1
           /\ \A k \in DOMAIN counts : k # key => after[k] = counts[k]
      /\ ~Counts(counts, key, limit) => after = counts
  BY <1>a DEF Counted
<1>b. /\ times \in [keys -> Nat] /\ later \in [keys -> Nat] /\ later[key] = times[key] + 1
      /\ \A k \in keys : k # key => later[k] = times[k]
  BY DEF OneMore
<1>3. IsFiniteSet(DOMAIN counts) /\ Cardinality(DOMAIN counts) \in Nat
  BY TableIsFinite
<1>4. /\ Cardinality(DOMAIN counts) <= limit
      /\ \A k \in DOMAIN counts : counts[k] = Capped(times[k])
      /\ \A k \in keys \ DOMAIN counts : times[k] > 0 => Cardinality(DOMAIN counts) = limit
  BY <1>b DEF Tallies
<1>5. MaximumCount \in Nat /\ MaximumCount # 0
  BY ProfileConstants DEF ProfileAssumption
<1>6. /\ DOMAIN counts \subseteq keys /\ times[key] \in Nat
      /\ \A k \in keys : times[k] \in Nat
  BY <1>b DEF IsTable
<1>7. CASE key \in DOMAIN counts /\ counts[key] # MaximumCount
  <2>1. /\ DOMAIN after = DOMAIN counts /\ after[key] = counts[key] + 1
        /\ \A k \in DOMAIN counts : k # key => after[k] = counts[k]
    BY <1>b, <1>2, <1>7 DEF Counts, CountOf
  <2>2. after[key] = Capped(later[key])
    <3>1. counts[key] = Capped(times[key])
      BY <1>b, <1>4, <1>7
    <3>2. counts[key] = times[key] /\ times[key] < MaximumCount
      BY <1>b, <3>1, <1>5, <1>6, <1>7 DEF Capped
    <3>3. Capped(times[key] + 1) = times[key] + 1
      BY <1>b, <3>2, <1>5, <1>6 DEF Capped
    <3> QED BY <1>b, <2>1, <3>2, <3>3
  <2>3. \A k \in DOMAIN after : after[k] = Capped(later[k])
    BY <1>b, <2>1, <2>2, <1>4, <1>6
  <2>4. \A k \in keys \ DOMAIN after : later[k] > 0 => Cardinality(DOMAIN after) = limit
    BY <1>b, <2>1, <1>4, <1>7
  <2> QED BY <1>b, <2>1, <2>3, <2>4, <1>1, <1>4 DEF Tallies
<1>8. CASE key \in DOMAIN counts /\ counts[key] = MaximumCount
  <2>1. after = counts
    BY <1>b, <1>2, <1>8 DEF Counts
  <2>2. counts[key] = Capped(later[key])
    <3>1. Capped(times[key]) = MaximumCount
      BY <1>b, <1>4, <1>8
    <3>2. Capped(times[key] + 1) = MaximumCount
      BY <1>b, <3>1, <1>5, <1>6 DEF Capped
    <3> QED BY <1>b, <3>2, <1>8
  <2>3. \A k \in DOMAIN after : after[k] = Capped(later[k])
    BY <1>b, <2>1, <2>2, <1>4, <1>6
  <2>4. \A k \in keys \ DOMAIN after : later[k] > 0 => Cardinality(DOMAIN after) = limit
    BY <1>b, <2>1, <1>4, <1>8
  <2> QED BY <1>b, <2>1, <2>3, <2>4, <1>1, <1>4 DEF Tallies
<1>9. CASE key \notin DOMAIN counts /\ Cardinality(DOMAIN counts) < limit
  <2>1. /\ DOMAIN after = DOMAIN counts \cup {key} /\ after[key] = 0 + 1
        /\ \A k \in DOMAIN counts : k # key => after[k] = counts[k]
    BY <1>b, <1>2, <1>9 DEF Counts, CountOf
  <2>2. \A k \in keys \ DOMAIN counts : times[k] = 0
    BY <1>b, <1>3, <1>4, <1>6, <1>9
  <2>3. after[key] = Capped(later[key])
    <3>1. times[key] = 0 /\ Capped(1) = 1
      BY <1>b, <2>2, <1>5, <1>9 DEF Capped
    <3> QED BY <1>b, <3>1, <2>1
  <2>4. \A k \in DOMAIN after : after[k] = Capped(later[k])
    BY <1>b, <2>1, <2>3, <1>4, <1>6, <1>9
  <2>5. \A k \in keys \ DOMAIN after : ~(later[k] > 0)
    BY <1>b, <2>1, <2>2
  <2>6. Cardinality(DOMAIN after) <= limit
    <3>1. Cardinality(DOMAIN after) = Cardinality(DOMAIN counts) + 1
      BY <1>b, <2>1, <1>3, <1>9, FS_AddElement
    <3> QED BY <1>b, <3>1, <1>3, <1>9
  <2> QED BY <1>b, <2>4, <2>5, <2>6, <1>1, <1>2 DEF Tallies, IsTable
<1>10. CASE key \notin DOMAIN counts /\ ~(Cardinality(DOMAIN counts) < limit)
  <2>1. after = counts
    BY <1>b, <1>2, <1>10 DEF Counts
  <2>2. Cardinality(DOMAIN counts) = limit
    BY <1>b, <1>3, <1>4, <1>10
  <2>3. \A k \in DOMAIN after : after[k] = Capped(later[k])
    BY <1>b, <2>1, <1>4, <1>6, <1>10
  <2> QED BY <1>b, <2>1, <2>2, <2>3, <1>1, <1>4 DEF Tallies
<1> QED BY <1>b, <1>7, <1>8, <1>9, <1>10

LEMMA MergeIsTable ==
  ASSUME NEW keys, NEW a, NEW b, IsTable(a, keys), IsTable(b, keys)
  PROVE  IsTable(Merge(a, b), keys)
<1> DEFINE both == Merge(a, b)
<1>1. \A k : CountOf(a, k) \in Nat /\ CountOf(b, k) \in Nat
  BY DEF CountOf, IsTable
<1>2. /\ DOMAIN both = DOMAIN a \cup DOMAIN b
      /\ \A k \in DOMAIN both : both[k] = CountOf(a, k) + CountOf(b, k)
  BY DEF Merge
<1>3. both = [k \in DOMAIN both |-> both[k]]
  BY DEF Merge
<1>4. \A k \in DOMAIN both : both[k] \in Nat
  BY <1>1, <1>2
<1>5. DOMAIN both \subseteq keys
  BY <1>2 DEF IsTable
<1>6. IsTable(both, keys)
  BY <1>3, <1>4, <1>5 DEF IsTable
<1> QED BY <1>1, <1>2, <1>6

\* What one table counts more than another comes after it, key by key.
LEMMA MergeAdds ==
  ASSUME NEW keys, IsFiniteSet(keys), NEW a, NEW b, IsTable(a, keys), IsTable(b, keys)
  PROVE  Sum(Merge(a, b)) = Sum(a) + Sum(b)
<1>1. PICK both : both = Merge(a, b)
  OBVIOUS
<1>2. /\ IsTable(both, keys) /\ DOMAIN both = DOMAIN a \cup DOMAIN b
      /\ \A k : CountOf(a, k) \in Nat /\ CountOf(b, k) \in Nat
      /\ \A k \in DOMAIN both : both[k] = CountOf(a, k) + CountOf(b, k)
  <2>1. IsTable(both, keys) /\ DOMAIN both = DOMAIN a \cup DOMAIN b
    BY <1>1, MergeIsTable DEF Merge
  <2>2. \A k : CountOf(a, k) \in Nat /\ CountOf(b, k) \in Nat
    BY DEF CountOf, IsTable
  <2>3. \A k \in DOMAIN both : both[k] = CountOf(a, k) + CountOf(b, k)
    BY <1>1 DEF Merge
  <2> QED BY <2>1, <2>2, <2>3
<1>3. /\ IsFiniteSet(Units(a)) /\ Sum(a) \in Nat
      /\ IsFiniteSet(Units(b)) /\ Sum(b) \in Nat
  BY TableIsFinite
<1>4. \A k \in DOMAIN a : k \in DOMAIN both /\ CountOf(a, k) = a[k]
  BY <1>2 DEF CountOf
<1>5. \A k \in DOMAIN b : k \in DOMAIN both /\ CountOf(b, k) = b[k]
  BY <1>2 DEF CountOf
<1>6. PICK above : above = Units(both) \ Units(a)
  OBVIOUS
<1>7. PICK f : f = [unit \in Units(b) |-> <<unit[1], CountOf(a, unit[1]) + unit[2]>>]
  OBVIOUS
<1>8. ASSUME NEW k \in DOMAIN b, NEW n \in 1..b[k]
      PROVE  /\ <<k, n>> \in Units(b) /\ f[<<k, n>>] = <<k, CountOf(a, k) + n>>
             /\ f[<<k, n>>] \in above
  <2>1. <<k, n>> \in Units(b)
    BY UnitsOf
  <2>2. f[<<k, n>>] = <<k, CountOf(a, k) + n>>
    BY <2>1, <1>7
  <2>3. PICK p : p = CountOf(a, k)
    OBVIOUS
  <2>4. p \in Nat /\ n \in Nat /\ n >= 1 /\ b[k] \in Nat /\ n <= b[k]
    BY <2>3, <1>2 DEF IsTable
  <2>5. k \in DOMAIN both /\ both[k] = p + b[k]
    BY <1>2, <1>5, <2>3
  <2>6. p + n \in 1..both[k]
    BY <2>4, <2>5
  <2>7. <<k, p + n>> \in Units(both)
    BY <2>5, <2>6, <1>2, UnitsOf
  <2>8. <<k, p + n>> \notin Units(a)
    <3> SUFFICES ASSUME <<k, p + n>> \in Units(a) PROVE FALSE
      OBVIOUS
    <3>1. k \in DOMAIN a /\ p + n \in 1..a[k]
      BY UnitsOf
    <3>2. a[k] = p
      BY <3>1, <1>4, <2>3
    <3> QED BY <3>1, <3>2, <2>4
  <2> QED BY <2>1, <2>2, <2>3, <2>7, <2>8, <1>6
<1>9. f \in Bijection(Units(b), above)
  <2>1. \A unit \in Units(b) : \E k \in DOMAIN b : \E n \in 1..b[k] : unit = <<k, n>>
    BY UnitsOf
  <2>2. \A unit \in Units(b) : f[unit] \in above
    BY <2>1, <1>8
  <2>3. f \in [Units(b) -> above]
    BY <2>2, <1>7
  <2>4. ASSUME NEW s \in Units(b), NEW t \in Units(b), f[s] = f[t] PROVE s = t
    <3>1. PICK k \in DOMAIN b : \E n \in 1..b[k] : s = <<k, n>>
      BY <2>1
    <3>2. PICK n \in 1..b[k] : s = <<k, n>>
      BY <3>1
    <3>3. PICK j \in DOMAIN b : \E m \in 1..b[j] : t = <<j, m>>
      BY <2>1
    <3>4. PICK m \in 1..b[j] : t = <<j, m>>
      BY <3>3
    <3>5. f[s] = <<k, CountOf(a, k) + n>> /\ f[t] = <<j, CountOf(a, j) + m>>
      BY <3>2, <3>4, <1>8
    <3>6. k = j /\ CountOf(a, k) + n = CountOf(a, k) + m
      BY <3>5, <2>4
    <3>7. PICK p \in Nat : p = CountOf(a, k)
      BY <1>2
    <3>8. n \in Int /\ m \in Int
      OBVIOUS
    <3>9. n = m
      BY <3>6, <3>7, <3>8
    <3> QED BY <3>2, <3>4, <3>6, <3>9
  <2>5. ASSUME NEW unit \in above PROVE \E s \in Units(b) : f[s] = unit
    <3>1. PICK k \in DOMAIN both : \E m \in 1..both[k] : unit = <<k, m>>
      BY <1>2, <1>6, UnitsOf
    <3>2. PICK m \in 1..both[k] : unit = <<k, m>>
      BY <3>1
    <3>3. PICK p \in Nat : p = CountOf(a, k)
      BY <1>2
    <3>4. PICK q \in Nat : q = CountOf(b, k)
      BY <1>2
    <3>5. m \in Int /\ m >= 1 /\ m <= p + q
      BY <3>3, <3>4, <1>2
    <3>6. ~(m <= p)
      <4> SUFFICES ASSUME m <= p PROVE FALSE
        OBVIOUS
      <4>1. p # 0
        BY <3>3, <3>5
      <4>2. k \in DOMAIN a /\ a[k] = p
        BY <4>1, <3>3 DEF CountOf
      <4>3. m \in 1..a[k]
        BY <4>2, <3>5
      <4> QED BY <4>2, <4>3, <3>2, <1>6, UnitsOf
    <3>7. PICK n \in 1..q : m = p + n
      <4>1. m - p \in 1..q /\ m = p + (m - p)
        BY <3>3, <3>4, <3>5, <3>6
      <4> QED BY <4>1
    <3>8. k \in DOMAIN b /\ b[k] = q
      <4>1. q # 0
        BY <3>4, <3>7
      <4> QED BY <4>1, <3>4 DEF CountOf
    <3>9. <<k, n>> \in Units(b) /\ f[<<k, n>>] = <<k, p + n>>
      BY <3>3, <3>7, <3>8, <1>8
    <3> QED BY <3>2, <3>7, <3>9
  <2>6. f \in Injection(Units(b), above)
    BY <2>3, <2>4 DEF Injection, IsInjective
  <2>7. f \in Surjection(Units(b), above)
    BY <2>3, <2>5 DEF Surjection
  <2> QED BY <2>6, <2>7 DEF Bijection
<1>10. IsFiniteSet(above) /\ Cardinality(above) = Sum(b)
  <2>1. ExistsBijection(Units(b), above)
    BY <1>9 DEF ExistsBijection
  <2> QED BY <2>1, <1>3, FS_Bijection DEF Sum
<1>11. Units(both) = Units(a) \cup above /\ Units(a) \cap above = {}
  <2>1. ASSUME NEW unit \in Units(a) PROVE unit \in Units(both)
    <3>1. PICK k \in DOMAIN a : \E n \in 1..a[k] : unit = <<k, n>>
      BY UnitsOf
    <3>2. PICK n \in 1..a[k] : unit = <<k, n>>
      BY <3>1
    <3>3. PICK p \in Nat : p = CountOf(a, k)
      BY <1>2
    <3>4. PICK q \in Nat : q = CountOf(b, k)
      BY <1>2
    <3>5. k \in DOMAIN both /\ both[k] = p + q /\ a[k] = p
      BY <3>3, <3>4, <1>2, <1>4
    <3>6. n \in 1..both[k]
      BY <3>3, <3>4, <3>5
    <3> QED BY <3>2, <3>5, <3>6, <1>2, UnitsOf
  <2> QED BY <2>1, <1>6
<1>12. Sum(both) = Cardinality(Units(a)) + Cardinality(above) - Cardinality(Units(a) \cap above)
  BY <1>3, <1>10, <1>11, FS_Union DEF Sum
<1>13. Sum(both) = Sum(a) + Sum(b) - 0
  BY <1>10, <1>11, <1>12, FS_EmptySet DEF Sum
<1> QED BY <1>1, <1>3, <1>13

LEMMA KeysAreFinite == IsFiniteSet(ProfileExperts) /\ IsFiniteSet(PairKeys)
BY ProfileConstants, FS_Product DEF ProfileAssumption, PairKeys

\* What is saved is again a profile: the sum of its frequencies is its number of
\* observations, unless a count cannot hold it.
LEMMA MergedIsSound ==
  ASSUME AreCounts(prior), AreCounts(live), SumsAreSound, ~SaveRefuses
  PROVE  WasSaved(FileOf(Merged))
<1>1. PICK counts : counts = Merged
  OBVIOUS
<1>2. /\ counts.frequency = Merge(prior.frequency, live.frequency)
      /\ counts.transitions = Merge(prior.transitions, live.transitions)
      /\ counts.observations = prior.observations + live.observations
      /\ counts = [frequency |-> counts.frequency, transitions |-> counts.transitions,
                   observations |-> counts.observations]
  BY <1>1 DEF Merged
<1>3. /\ IsTable(prior.frequency, ProfileExperts) /\ IsTable(live.frequency, ProfileExperts)
      /\ IsTable(prior.transitions, PairKeys) /\ IsTable(live.transitions, PairKeys)
      /\ prior.observations \in Nat /\ live.observations \in Nat
  BY DEF AreCounts, PairKeys
<1>4. /\ IsTable(counts.frequency, ProfileExperts)
      /\ DOMAIN counts.frequency = DOMAIN prior.frequency \cup DOMAIN live.frequency
  <2>1. PICK a : a = prior.frequency
    OBVIOUS
  <2>2. PICK b : b = live.frequency
    OBVIOUS
  <2>3. IsTable(a, ProfileExperts) /\ IsTable(b, ProfileExperts)
    BY <2>1, <2>2, <1>3
  <2>4. IsTable(Merge(a, b), ProfileExperts)
    BY <2>3, MergeIsTable
  <2>5. DOMAIN Merge(a, b) = DOMAIN a \cup DOMAIN b
    BY DEF Merge
  <2> QED BY <2>1, <2>2, <2>4, <2>5, <1>2
<1>5. /\ IsTable(counts.transitions, PairKeys)
      /\ DOMAIN counts.transitions = DOMAIN prior.transitions \cup DOMAIN live.transitions
  <2>1. PICK a : a = prior.transitions
    OBVIOUS
  <2>2. PICK b : b = live.transitions
    OBVIOUS
  <2>3. IsTable(a, PairKeys) /\ IsTable(b, PairKeys)
    BY <2>1, <2>2, <1>3
  <2>4. IsTable(Merge(a, b), PairKeys)
    BY <2>3, MergeIsTable
  <2>5. DOMAIN Merge(a, b) = DOMAIN a \cup DOMAIN b
    BY DEF Merge
  <2> QED BY <2>1, <2>2, <2>4, <2>5, <1>2
<1>6. AreCounts(counts)
  <2>1. counts.observations \in Nat
    BY <1>2, <1>3
  <2> QED BY <2>1, <1>2, <1>4, <1>5 DEF AreCounts, PairKeys
<1>7. Positive(counts)
  <2>1. ASSUME NEW k \in DOMAIN counts.frequency PROVE counts.frequency[k] > 0
    <3>1. PICK p : p = CountOf(prior.frequency, k)
      OBVIOUS
    <3>2. PICK q : q = CountOf(live.frequency, k)
      OBVIOUS
    <3>3. p \in Nat /\ q \in Nat
      BY <3>1, <3>2, <1>3 DEF CountOf, IsTable
    <3>4. counts.frequency[k] = p + q
      BY <3>1, <3>2, <1>2 DEF Merge
    <3>5. p > 0 \/ q > 0
      BY <3>1, <3>2, <1>4 DEF CountOf, SumsAreSound, Positive
    <3> QED BY <3>3, <3>4, <3>5
  <2>2. ASSUME NEW k \in DOMAIN counts.transitions PROVE counts.transitions[k] > 0
    <3>1. PICK p : p = CountOf(prior.transitions, k)
      OBVIOUS
    <3>2. PICK q : q = CountOf(live.transitions, k)
      OBVIOUS
    <3>3. p \in Nat /\ q \in Nat
      BY <3>1, <3>2, <1>3 DEF CountOf, IsTable
    <3>4. counts.transitions[k] = p + q
      BY <3>1, <3>2, <1>2 DEF Merge
    <3>5. p > 0 \/ q > 0
      BY <3>1, <3>2, <1>5 DEF CountOf, SumsAreSound, Positive
    <3> QED BY <3>3, <3>4, <3>5
  <2> QED BY <2>1, <2>2 DEF Positive
<1>8. ~Overflows(counts.frequency)
  BY <1>1 DEF SaveRefuses
<1>9. \/ Sum(counts.frequency) = counts.observations
      \/ Sum(counts.frequency) > MaximumCount
  <2>1. Sum(counts.frequency) = Sum(prior.frequency) + Sum(live.frequency)
    BY <1>2, <1>3, MergeAdds, KeysAreFinite
  <2>2. PICK a \in Nat : a = Sum(prior.frequency)
    BY <1>3, TableIsFinite, KeysAreFinite
  <2>3. PICK b \in Nat : b = Sum(live.frequency)
    BY <1>3, TableIsFinite, KeysAreFinite
  <2>4. prior.observations = a /\ live.observations = Capped(b)
    BY <2>2, <2>3 DEF SumsAreSound
  <2>5. MaximumCount \in Nat
    BY ProfileConstants DEF ProfileAssumption
  <2>6. CASE b > MaximumCount
    <3>1. a + b > MaximumCount
      BY <2>5, <2>6
    <3> QED BY <3>1, <2>1, <2>2, <2>3
  <2>7. CASE ~(b > MaximumCount)
    <3>1. live.observations = b
      BY <2>4, <2>7 DEF Capped
    <3> QED BY <3>1, <2>1, <2>2, <2>3, <2>4, <1>2
  <2> QED BY <2>6, <2>7
<1>10. PICK file : file = FileOf(counts)
  OBVIOUS
<1>11. file.counts = counts
  BY <1>10 DEF FileOf
<1>12. WasSaved(file)
  BY <1>6, <1>7, <1>8, <1>9, <1>10, <1>11 DEF WasSaved
<1> QED BY <1>1, <1>10, <1>12

-----------------------------------------------------------------------------
(* What the loops of an observation have seen.                             *)

LEMMA UsesOf ==
  ASSUME NEW past, NEW key, NEW place
  PROVE  place \in Uses(past, key) <=>
           \E i \in DOMAIN past : \E j \in DOMAIN past[i].selected :
             past[i].selected[j] = key /\ place = <<i, j>>
BY DEF Uses

IsPairAt(past, from, to, place) ==
  \E i \in DOMAIN past : \E j \in DOMAIN past[i - 1].selected : \E k \in DOMAIN past[i].selected :
    /\ Follows(past, i) /\ past[i - 1].selected[j] = from /\ past[i].selected[k] = to
    /\ place = <<i, j, k>>
LEMMA PairsOf ==
  ASSUME NEW past, NEW from, NEW to, NEW place
  PROVE  place \in UsesAdjacent(past, from, to) <=> IsPairAt(past, from, to, place)
BY DEF UsesAdjacent, IsPairAt

LEMMA NothingIsSeen ==
  ASSUME NEW at
  PROVE  /\ \A key \in ProfileExperts : SeenUses(<<>>, at, key) = {}
         /\ \A pair \in PairKeys : SeenPairs(<<>>, at, pair) = {}
<1>1. \A key, place : place \notin Uses(<<>>, key)
  BY UsesOf
<1>2. \A from, to, place : place \notin UsesAdjacent(<<>>, from, to)
  BY PairsOf DEF IsPairAt
<1> QED BY <1>1, <1>2 DEF SeenUses, SeenPairs

\* Outside an observation all is seen.
LEMMA SeenIsKept ==
  ASSUME NEW past, NEW at, NEW later, at.pc \notin Looping, later.pc \notin Looping
  PROVE  /\ SeenTimes(past, later) = SeenTimes(past, at)
         /\ SeenTimesAdjacent(past, later) = SeenTimesAdjacent(past, at)
         /\ SeenIsFinite(past, later) <=> SeenIsFinite(past, at)
<1>1. \A key \in ProfileExperts : SeenUses(past, later, key) = SeenUses(past, at, key)
  BY DEF SeenUses
<1>2. \A pair \in PairKeys : SeenPairs(past, later, pair) = SeenPairs(past, at, pair)
  BY DEF SeenPairs, Looping
<1> QED BY <1>1, <1>2 DEF SeenTimes, SeenTimesAdjacent, SeenIsFinite

LEMMA SelectionsAreLists ==
  ASSUME NEW one \in Observations
  PROVE  /\ one.selected \in Seq(ProfileExperts) /\ Len(one.selected) \in Nat
         /\ Len(one.selected) > 0 /\ DOMAIN one.selected = 1..Len(one.selected)
         /\ \A j \in DOMAIN one.selected :
                one.selected[j] \in ProfileExperts /\ j \in Nat /\ j >= 1
         /\ one.cycle \in Nat /\ one.layer \in Nat
<1>1. one.selected \in Seq(ProfileExperts) /\ one.selected # <<>>
  BY ProfileConstants DEF ProfileAssumption, Observations
<1>2. one.cycle \in Nat /\ one.layer \in Nat
  BY DEF Observations
<1>3. Len(one.selected) > 0
  BY <1>1, EmptySeq
<1> QED BY <1>1, <1>2, <1>3

\* A new observation is not seen when it begins.
LEMMA ObserveSees ==
  ASSUME NEW past \in Seq(Observations), NEW current \in Observations,
         NEW after, after = Append(past, current),
         NEW at, at.pc \notin Looping,
         NEW later, later.pc \in Looping, later.from = 1, later.to = 1,
         later.pc = "keys" => ~Follows(after, Len(after))
  PROVE  /\ SeenTimes(after, later) = SeenTimes(past, at)
         /\ SeenTimesAdjacent(after, later) = SeenTimesAdjacent(past, at)
         /\ SeenIsFinite(after, later) <=> SeenIsFinite(past, at)
<1>1. PICK n \in Nat : n = Len(past)
  OBVIOUS
<1>2. /\ after \in Seq(Observations) /\ Len(after) = n + 1 /\ DOMAIN after = 1..(n + 1)
      /\ DOMAIN past = 1..n
  BY <1>1
<1>3. \A i \in 1..n : after[i] = past[i] /\ i \in DOMAIN past /\ i \in DOMAIN after
  BY <1>1
<1>4. \A i \in DOMAIN after : i \in Nat /\ i <= n + 1 /\ (i < n + 1 => i \in 1..n)
  BY <1>1, <1>2
<1>5. ASSUME NEW key \in ProfileExperts
      PROVE SeenUses(after, later, key) = SeenUses(past, at, key)
  <2>1. ASSUME NEW place \in SeenUses(after, later, key) PROVE place \in SeenUses(past, at, key)
    <3>1. place \in Uses(after, key)
      BY DEF SeenUses
    <3>2. PICK i \in DOMAIN after : \E j \in DOMAIN after[i].selected :
            after[i].selected[j] = key /\ place = <<i, j>>
      BY <3>1 DEF Uses
    <3>3. PICK j \in DOMAIN after[i].selected : after[i].selected[j] = key /\ place = <<i, j>>
      BY <3>2
    <3>4. after[i] \in Observations
      BY <1>2
    <3>5. ~(j < 1)
      BY <3>4, SelectionsAreLists
    <3>6. i < n + 1
      BY <3>3, <3>5, <1>2 DEF SeenUses, Looping
    <3>7. i \in DOMAIN past /\ after[i] = past[i]
      BY <3>6, <1>3, <1>4
    <3>8. place \in Uses(past, key)
      BY <3>3, <3>7 DEF Uses
    <3> QED BY <3>8 DEF SeenUses
  <2>2. ASSUME NEW place \in SeenUses(past, at, key) PROVE place \in SeenUses(after, later, key)
    <3>1. place \in Uses(past, key)
      BY DEF SeenUses
    <3>2. PICK i \in DOMAIN past : \E j \in DOMAIN past[i].selected :
            past[i].selected[j] = key /\ place = <<i, j>>
      BY <3>1 DEF Uses
    <3>3. i \in 1..n /\ i < n + 1
      BY <1>1, <1>2
    <3>4. i \in DOMAIN after /\ after[i] = past[i]
      BY <3>3, <1>3
    <3>5. place \in Uses(after, key)
      BY <3>2, <3>4 DEF Uses
    <3> QED BY <3>2, <3>3, <3>5, <1>2 DEF SeenUses
  <2> QED BY <2>1, <2>2
<1>6. ASSUME NEW pair \in PairKeys PROVE SeenPairs(after, later, pair) = SeenPairs(past, at, pair)
  <2>a. PICK from : from = pair[1]
    OBVIOUS
  <2>b. PICK to : to = pair[2]
    OBVIOUS
  <2>1. ASSUME NEW place \in SeenPairs(after, later, pair)
        PROVE place \in SeenPairs(past, at, pair)
    <3>1. place \in UsesAdjacent(after, from, to)
      BY <2>a, <2>b DEF SeenPairs
    <3>c. IsPairAt(after, from, to, place)
      BY <3>1, PairsOf
    <3>2. PICK i \in DOMAIN after : \E j \in DOMAIN after[i - 1].selected :
                   \E k \in DOMAIN after[i].selected :
            /\ Follows(after, i) /\ after[i - 1].selected[j] = from /\ after[i].selected[k] = to
            /\ place = <<i, j, k>>
      BY <3>c DEF IsPairAt
    <3>3. PICK j \in DOMAIN after[i - 1].selected, k \in DOMAIN after[i].selected :
            /\ Follows(after, i) /\ after[i - 1].selected[j] = from /\ after[i].selected[k] = to
            /\ place = <<i, j, k>>
      BY <3>2
    <3>4. i \in Nat /\ i > 1 /\ i <= n + 1 /\ i - 1 \in 1..n
      BY <3>3, <1>1, <1>4 DEF Follows
    <3>5. after[i] \in Observations /\ after[i - 1] \in Observations
      BY <3>4, <1>2, <1>3
    <3>a. j \in Nat /\ j >= 1
      BY <3>5, SelectionsAreLists
    <3>b. k \in Nat /\ k >= 1
      BY <3>5, SelectionsAreLists
    <3>6. ~(j < 1) /\ ~(k < 1)
      BY <3>a, <3>b
    <3>7. i < n + 1
      <4> SUFFICES ASSUME ~(i < n + 1) PROVE FALSE
        OBVIOUS
      <4>1. i = n + 1
        BY <3>4, <1>1
      <4>2. later.pc = "pairs"
        BY <4>1, <3>3, <1>2 DEF Looping
      <4> QED BY <4>1, <4>2, <3>3, <3>6, <1>2 DEF SeenPairs
    <3>8. /\ i \in DOMAIN past /\ after[i] = past[i] /\ after[i - 1] = past[i - 1]
          /\ Follows(past, i)
      <4>1. i \in DOMAIN past /\ after[i] = past[i] /\ after[i - 1] = past[i - 1]
        BY <3>4, <3>7, <1>3, <1>4
      <4> QED BY <4>1, <3>3 DEF Follows
    <3>9. place \in UsesAdjacent(past, from, to)
      BY <3>3, <3>8, PairsOf DEF IsPairAt
    <3> QED BY <3>9, <2>a, <2>b DEF SeenPairs, Looping
  <2>2. ASSUME NEW place \in SeenPairs(past, at, pair)
        PROVE place \in SeenPairs(after, later, pair)
    <3>1. place \in UsesAdjacent(past, from, to)
      BY <2>a, <2>b DEF SeenPairs
    <3>c. IsPairAt(past, from, to, place)
      BY <3>1, PairsOf
    <3>2. PICK i \in DOMAIN past : \E j \in DOMAIN past[i - 1].selected :
                   \E k \in DOMAIN past[i].selected :
            /\ Follows(past, i) /\ past[i - 1].selected[j] = from /\ past[i].selected[k] = to
            /\ place = <<i, j, k>>
      BY <3>c DEF IsPairAt
    <3>3. PICK j \in DOMAIN past[i - 1].selected, k \in DOMAIN past[i].selected :
            /\ Follows(past, i) /\ past[i - 1].selected[j] = from /\ past[i].selected[k] = to
            /\ place = <<i, j, k>>
      BY <3>2
    <3>4. i \in 1..n /\ i - 1 \in 1..n /\ i < n + 1
      BY <3>3, <1>1, <1>2 DEF Follows
    <3>5. i \in DOMAIN after /\ after[i] = past[i] /\ after[i - 1] = past[i - 1]
      BY <3>4, <1>3
    <3>6. Follows(after, i)
      BY <3>3, <3>5 DEF Follows
    <3>d. IsPairAt(after, from, to, place)
      BY <3>3, <3>5, <3>6 DEF IsPairAt
    <3>7. place \in UsesAdjacent(after, from, to)
      BY <3>d, PairsOf
    <3> QED BY <3>3, <3>4, <3>7, <1>2, <2>a, <2>b DEF SeenPairs
  <2> QED BY <2>1, <2>2
<1> QED BY <1>5, <1>6 DEF SeenTimes, SeenTimesAdjacent, SeenIsFinite

\* Where the loops over the pairs go next.
PairAfter(past, n, at, later) ==
  \/ /\ at.to < Len(past[n].selected)
     /\ later.pc = "pairs" /\ later.from = at.from /\ later.to = at.to + 1
  \/ /\ ~(at.to < Len(past[n].selected)) /\ at.from < Len(past[n - 1].selected)
     /\ later.pc = "pairs" /\ later.from = at.from + 1 /\ later.to = 1
  \/ /\ ~(at.to < Len(past[n].selected)) /\ ~(at.from < Len(past[n - 1].selected))
     /\ later.pc = "keys" /\ later.from = 1 /\ later.to = 1

\* One use of a pair is seen, and nothing else.
PairIsSeen(past, at, later, counted, place) ==
  /\ \A key \in ProfileExperts : SeenUses(past, later, key) = SeenUses(past, at, key)
  /\ \A pair \in PairKeys : pair # counted =>
         SeenPairs(past, later, pair) = SeenPairs(past, at, pair)
  /\ SeenPairs(past, later, counted) = SeenPairs(past, at, counted) \cup {place}
  /\ place \notin SeenPairs(past, at, counted)

\* A step of those loops sees one use of one pair.
LEMMA PairSees ==
  ASSUME NEW past \in Seq(Observations), NEW n, n = Len(past), Follows(past, n),
         NEW at, at.pc = "pairs",
         NEW from \in DOMAIN past[n - 1].selected, at.from = from,
         NEW to \in DOMAIN past[n].selected, at.to = to,
         NEW later, PairAfter(past, n, at, later),
         NEW counted, counted = <<past[n - 1].selected[from], past[n].selected[to]>>
  PROVE  counted \in PairKeys /\ PairIsSeen(past, at, later, counted, <<n, from, to>>)
<1>1. n \in Nat /\ n > 1 /\ DOMAIN past = 1..n /\ n \in DOMAIN past /\ n - 1 \in DOMAIN past
  BY DEF Follows
<1>2. past[n] \in Observations /\ past[n - 1] \in Observations
  BY <1>1
<1>3. PICK froms \in Nat :
               froms = Len(past[n - 1].selected) /\ DOMAIN past[n - 1].selected = 1..froms
  BY <1>2, SelectionsAreLists
<1>4. PICK tos \in Nat : tos = Len(past[n].selected) /\ DOMAIN past[n].selected = 1..tos
  BY <1>2, SelectionsAreLists
<1>5. from \in 1..froms /\ to \in 1..tos
  BY <1>3, <1>4
<1>6. counted \in PairKeys /\ counted[1] = past[n - 1].selected[from] /\ counted[2] = past[n].selected[to]
  <2>1. past[n - 1].selected[from] \in ProfileExperts
    BY <1>2, SelectionsAreLists
  <2>2. past[n].selected[to] \in ProfileExperts
    BY <1>2, SelectionsAreLists
  <2> QED BY <2>1, <2>2 DEF PairKeys
<1>7. \/ /\ to < tos /\ later.pc = "pairs" /\ later.from = from /\ later.to = to + 1
      \/ /\ ~(to < tos) /\ from < froms
         /\ later.pc = "pairs" /\ later.from = from + 1 /\ later.to = 1
      \/ /\ ~(to < tos) /\ ~(from < froms) /\ later.pc = "keys" /\ later.to = 1
  BY <1>3, <1>4 DEF PairAfter
<1>8. ASSUME NEW key \in ProfileExperts PROVE SeenUses(past, later, key) = SeenUses(past, at, key)
  <2>1. ASSUME NEW place \in Uses(past, key) PROVE ~(place[2] < 1)
    <3>1. PICK i \in DOMAIN past : \E j \in DOMAIN past[i].selected :
            past[i].selected[j] = key /\ place = <<i, j>>
      BY UsesOf
    <3>2. PICK j \in DOMAIN past[i].selected : past[i].selected[j] = key /\ place = <<i, j>>
      BY <3>1
    <3>3. past[i] \in Observations
      BY <1>1
    <3>4. j \in Nat /\ j >= 1
      BY <3>3, SelectionsAreLists
    <3> QED BY <3>2, <3>4
  <2>2. later.pc \in Looping /\ (later.pc = "keys" => later.to = 1)
    BY <1>7 DEF Looping
  <2> QED BY <2>1, <2>2 DEF SeenUses, Looping
<1>9. ASSUME NEW pair \in PairKeys, NEW place \in UsesAdjacent(past, pair[1], pair[2])
      PROVE  /\ place \in SeenPairs(past, later, pair) <=>
                  (place \in SeenPairs(past, at, pair) \/ place = <<n, from, to>>)
             /\ place = <<n, from, to>> => pair = counted
             /\ place = <<n, from, to>> => place \notin SeenPairs(past, at, pair)
  <2>1. IsPairAt(past, pair[1], pair[2], place)
    BY PairsOf
  <2>2. PICK i \in DOMAIN past : \E j \in DOMAIN past[i - 1].selected :
                 \E k \in DOMAIN past[i].selected :
          /\ Follows(past, i) /\ past[i - 1].selected[j] = pair[1] /\ past[i].selected[k] = pair[2]
          /\ place = <<i, j, k>>
    BY <2>1 DEF IsPairAt
  <2>3. PICK j \in DOMAIN past[i - 1].selected, k \in DOMAIN past[i].selected :
          /\ Follows(past, i) /\ past[i - 1].selected[j] = pair[1] /\ past[i].selected[k] = pair[2]
          /\ place = <<i, j, k>>
    BY <2>2
  <2>4. i \in Nat /\ i <= n /\ place[1] = i /\ place[2] = j /\ place[3] = k
    BY <2>3, <1>1
  <2>5. i - 1 \in DOMAIN past
    BY <2>3, <2>4, <1>1 DEF Follows
  <2>6. past[i] \in Observations /\ past[i - 1] \in Observations
    BY <2>5, <1>1
  <2>7. j \in Nat /\ j >= 1
    BY <2>6, SelectionsAreLists
  <2>8. k \in Nat /\ k >= 1
    BY <2>6, SelectionsAreLists
  <2>9. place \in SeenPairs(past, at, pair) <=> (i < n \/ j < from \/ (j = from /\ k < to))
    BY <2>4 DEF SeenPairs
  <2>10. place = <<n, from, to>> <=> (i = n /\ j = from /\ k = to)
    BY <2>3
  <2>11. place \in SeenPairs(past, later, pair) <=>
           (i < n \/ later.pc # "pairs" \/ j < later.from \/ (j = later.from /\ k < later.to))
    BY <2>4 DEF SeenPairs
  <2>12. i = n => j \in 1..froms /\ k \in 1..tos
    BY <1>3, <1>4
  <2>13. from \in Nat /\ to \in Nat /\ n \in Nat
    BY <1>1, <1>5
  <2>14. (i < n \/ later.pc # "pairs" \/ j < later.from \/ (j = later.from /\ k < later.to)) <=>
           ((i < n \/ j < from \/ (j = from /\ k < to)) \/ (i = n /\ j = from /\ k = to))
    <3>1. CASE to < tos /\ later.pc = "pairs" /\ later.from = from /\ later.to = to + 1
      BY <3>1, <2>4, <2>7, <2>8, <2>12, <2>13
    <3>2. CASE ~(to < tos) /\ from < froms /\ later.pc = "pairs" /\ later.from = from + 1 /\ later.to = 1
      <4>1. (j < from + 1 \/ (j = from + 1 /\ k < 1)) <=> (j < from \/ j = from)
        BY <2>7, <2>8, <2>13
      <4>2. i = n => (k < to \/ k = to)
        BY <3>2, <2>8, <2>12, <2>13, <1>4, <1>5
      <4> QED BY <3>2, <4>1, <4>2, <2>4, <2>13
    <3>3. CASE ~(to < tos) /\ ~(from < froms) /\ later.pc = "keys" /\ later.to = 1
      <4>1. i = n => (j < from \/ j = from) /\ (k < to \/ k = to)
        BY <3>3, <2>7, <2>8, <2>12, <2>13, <1>3, <1>4, <1>5
      <4>2. i < n \/ i = n
        BY <2>4, <2>13
      <4> QED BY <3>3, <4>1, <4>2
    <3> QED BY <3>1, <3>2, <3>3, <1>7
  <2>15. place = <<n, from, to>> => pair = counted
    <3>1. pair = <<pair[1], pair[2]>>
      BY DEF PairKeys
    <3>2. place = <<n, from, to>> => pair[1] = counted[1] /\ pair[2] = counted[2]
      BY <2>3, <2>10, <1>6
    <3> QED BY <3>1, <3>2, <1>6
  <2>16. place = <<n, from, to>> => place \notin SeenPairs(past, at, pair)
    BY <2>9, <2>10, <2>13
  <2> QED BY <2>9, <2>10, <2>11, <2>14, <2>15, <2>16
<1>10. <<n, from, to>> \in UsesAdjacent(past, counted[1], counted[2])
  <2>1. IsPairAt(past, counted[1], counted[2], <<n, from, to>>)
    BY <1>1, <1>6 DEF IsPairAt
  <2> QED BY <2>1, PairsOf
<1>11. \A pair \in PairKeys :
           /\ SeenPairs(past, at, pair) \subseteq UsesAdjacent(past, pair[1], pair[2])
                              /\ SeenPairs(past, later, pair) \subseteq UsesAdjacent(past, pair[1], pair[2])
  BY DEF SeenPairs
<1>12. \A pair \in PairKeys : pair # counted =>
           SeenPairs(past, later, pair) = SeenPairs(past, at, pair)
  BY <1>9, <1>11
<1>13. SeenPairs(past, later, counted) = SeenPairs(past, at, counted) \cup {<<n, from, to>>}
  BY <1>6, <1>9, <1>10, <1>11
<1>14. <<n, from, to>> \notin SeenPairs(past, at, counted)
  BY <1>6, <1>9, <1>10
<1> QED BY <1>6, <1>8, <1>12, <1>13, <1>14 DEF PairIsSeen

\* One use of an expert is seen, and nothing else.
KeyIsSeen(past, at, later, counted, place) ==
  /\ \A pair \in PairKeys : SeenPairs(past, later, pair) = SeenPairs(past, at, pair)
  /\ \A key \in ProfileExperts : key # counted =>
         SeenUses(past, later, key) = SeenUses(past, at, key)
  /\ SeenUses(past, later, counted) = SeenUses(past, at, counted) \cup {place}
  /\ place \notin SeenUses(past, at, counted)

\* A step of the loop over the experts sees one use of one expert.
LEMMA KeySees ==
  ASSUME NEW past \in Seq(Observations), NEW n, n = Len(past), n > 0,
         NEW at, at.pc = "keys", NEW to \in DOMAIN past[n].selected, at.to = to,
         NEW later,
         \/ to < Len(past[n].selected) /\ later.pc = "keys" /\ later.to = to + 1
         \/ ~(to < Len(past[n].selected)) /\ later.pc \notin Looping,
         NEW counted, counted = past[n].selected[to]
  PROVE  counted \in ProfileExperts /\ KeyIsSeen(past, at, later, counted, <<n, to>>)
<1>1. n \in Nat /\ DOMAIN past = 1..n /\ n \in DOMAIN past
  OBVIOUS
<1>2. past[n] \in Observations
  BY <1>1
<1>3. PICK tos \in Nat : tos = Len(past[n].selected) /\ DOMAIN past[n].selected = 1..tos
  BY <1>2, SelectionsAreLists
<1>4. to \in 1..tos /\ to \in Nat
  BY <1>3
<1>5. counted \in ProfileExperts
  BY <1>2, SelectionsAreLists
<1>6. \A pair \in PairKeys : SeenPairs(past, later, pair) = SeenPairs(past, at, pair)
  BY DEF SeenPairs, Looping
<1>7. ASSUME NEW key \in ProfileExperts, NEW place \in Uses(past, key)
      PROVE  /\ place \in SeenUses(past, later, key) <=>
                  (place \in SeenUses(past, at, key) \/ place = <<n, to>>)
             /\ place = <<n, to>> => key = counted
             /\ place = <<n, to>> => place \notin SeenUses(past, at, key)
  <2>1. PICK i \in DOMAIN past : \E j \in DOMAIN past[i].selected :
          past[i].selected[j] = key /\ place = <<i, j>>
    BY UsesOf
  <2>2. PICK j \in DOMAIN past[i].selected : past[i].selected[j] = key /\ place = <<i, j>>
    BY <2>1
  <2>3. i \in Nat /\ i <= n /\ place[1] = i /\ place[2] = j
    BY <2>2, <1>1
  <2>4. past[i] \in Observations
    BY <1>1
  <2>5. j \in Nat /\ j >= 1
    BY <2>4, SelectionsAreLists
  <2>6. place \in SeenUses(past, at, key) <=> (i < n \/ j < to)
    BY <2>3 DEF SeenUses, Looping
  <2>7. place = <<n, to>> <=> (i = n /\ j = to)
    BY <2>2
  <2>8. i = n => j \in 1..tos
    BY <1>3
  <2>9. CASE to < tos /\ later.pc = "keys" /\ later.to = to + 1
    <3>1. place \in SeenUses(past, later, key) <=> (i < n \/ j < to + 1)
      BY <2>3, <2>9 DEF SeenUses, Looping
    <3>2. (i < n \/ j < to + 1) <=> ((i < n \/ j < to) \/ (i = n /\ j = to))
      BY <2>3, <2>5, <1>1, <1>4
    <3>3. place = <<n, to>> => ~(i < n \/ j < to)
      BY <2>7, <1>1, <1>4
    <3> QED BY <3>1, <3>2, <3>3, <2>2, <2>6, <2>7
  <2>10. CASE ~(to < tos) /\ later.pc \notin Looping
    <3>1. place \in SeenUses(past, later, key)
      BY <2>10 DEF SeenUses
    <3>2. (i < n \/ j < to) \/ (i = n /\ j = to)
      BY <2>3, <2>5, <2>8, <2>10, <1>1, <1>3, <1>4
    <3>3. place = <<n, to>> => ~(i < n \/ j < to)
      BY <2>7, <1>1, <1>4
    <3> QED BY <3>1, <3>2, <3>3, <2>2, <2>6, <2>7
  <2> QED BY <2>9, <2>10, <1>3
<1>8. <<n, to>> \in Uses(past, counted)
  BY <1>1, UsesOf
<1>9. \A key \in ProfileExperts : /\ SeenUses(past, at, key) \subseteq Uses(past, key)
                                  /\ SeenUses(past, later, key) \subseteq Uses(past, key)
  BY DEF SeenUses
<1>10. \A key \in ProfileExperts : key # counted =>
           SeenUses(past, later, key) = SeenUses(past, at, key)
  BY <1>7, <1>9
<1>11. SeenUses(past, later, counted) = SeenUses(past, at, counted) \cup {<<n, to>>}
  BY <1>5, <1>7, <1>8, <1>9
<1>12. <<n, to>> \notin SeenUses(past, at, counted)
  BY <1>5, <1>7, <1>8
<1> QED BY <1>5, <1>6, <1>10, <1>11, <1>12 DEF KeyIsSeen

\* The times that a table of finitely many places sees, after one more is seen.
LEMMA PairTimes ==
  ASSUME NEW past, NEW at, NEW later, SeenIsFinite(past, at),
         NEW counted \in PairKeys, NEW place, PairIsSeen(past, at, later, counted, place)
  PROVE  /\ SeenIsFinite(past, later) /\ SeenTimes(past, later) = SeenTimes(past, at)
         /\ OneMore(PairKeys, SeenTimesAdjacent(past, at), SeenTimesAdjacent(past, later), counted)
<1>a. /\ \A key \in ProfileExperts : SeenUses(past, later, key) = SeenUses(past, at, key)
      /\ \A pair \in PairKeys : pair # counted =>
             SeenPairs(past, later, pair) = SeenPairs(past, at, pair)
      /\ SeenPairs(past, later, counted) = SeenPairs(past, at, counted) \cup {place}
      /\ place \notin SeenPairs(past, at, counted)
  BY DEF PairIsSeen
<1>1. \A pair \in PairKeys : IsFiniteSet(SeenPairs(past, at, pair))
  BY DEF SeenIsFinite
<1>2. /\ IsFiniteSet(SeenPairs(past, later, counted))
      /\ Cardinality(SeenPairs(past, later, counted)) = Cardinality(SeenPairs(past, at, counted)) + 1
  BY <1>1, <1>a, FS_AddElement
<1>3. \A pair \in PairKeys : IsFiniteSet(SeenPairs(past, later, pair))
  BY <1>1, <1>2, <1>a
<1>4. SeenIsFinite(past, later)
  BY <1>1, <1>3, <1>a DEF SeenIsFinite
<1>5. SeenTimes(past, later) = SeenTimes(past, at)
  BY <1>a DEF SeenTimes
<1>6. \A pair \in PairKeys : /\ Cardinality(SeenPairs(past, at, pair)) \in Nat
                             /\ Cardinality(SeenPairs(past, later, pair)) \in Nat
  BY <1>1, <1>3, FS_CardinalityType
<1> QED BY <1>2, <1>4, <1>5, <1>6, <1>a DEF SeenTimesAdjacent, OneMore

LEMMA KeyTimes ==
  ASSUME NEW past, NEW at, NEW later, SeenIsFinite(past, at),
         NEW counted \in ProfileExperts, NEW place, KeyIsSeen(past, at, later, counted, place)
  PROVE  /\ SeenIsFinite(past, later) /\ SeenTimesAdjacent(past, later) = SeenTimesAdjacent(past, at)
         /\ OneMore(ProfileExperts, SeenTimes(past, at), SeenTimes(past, later), counted)
<1>a. /\ \A pair \in PairKeys : SeenPairs(past, later, pair) = SeenPairs(past, at, pair)
      /\ \A key \in ProfileExperts : key # counted =>
             SeenUses(past, later, key) = SeenUses(past, at, key)
      /\ SeenUses(past, later, counted) = SeenUses(past, at, counted) \cup {place}
      /\ place \notin SeenUses(past, at, counted)
  BY DEF KeyIsSeen
<1>1. \A key \in ProfileExperts : IsFiniteSet(SeenUses(past, at, key))
  BY DEF SeenIsFinite
<1>2. /\ IsFiniteSet(SeenUses(past, later, counted))
      /\ Cardinality(SeenUses(past, later, counted)) = Cardinality(SeenUses(past, at, counted)) + 1
  BY <1>1, <1>a, FS_AddElement
<1>3. \A key \in ProfileExperts : IsFiniteSet(SeenUses(past, later, key))
  BY <1>1, <1>2, <1>a
<1>4. SeenIsFinite(past, later)
  BY <1>1, <1>3, <1>a DEF SeenIsFinite
<1>5. SeenTimesAdjacent(past, later) = SeenTimesAdjacent(past, at)
  BY <1>a DEF SeenTimesAdjacent
<1>6. \A key \in ProfileExperts : /\ Cardinality(SeenUses(past, at, key)) \in Nat
                                  /\ Cardinality(SeenUses(past, later, key)) \in Nat
  BY <1>1, <1>3, FS_CardinalityType
<1> QED BY <1>2, <1>4, <1>5, <1>6, <1>a DEF SeenTimes, OneMore

LEMMA BoundsAreNaturals ==
  MaximumFrequency \in Nat /\ MaximumTransition \in Nat /\ MaximumCount \in Nat \ {0}
BY ProfileConstants DEF ProfileAssumption

-----------------------------------------------------------------------------
(* The loops of an observation keep the invariant.                         *)

LEMMA CountPairKeeps ==
  ASSUME ProfileInv, CountPair
  PROVE  ProfileInv'
<1>1. ProfileTypeOK /\ FilesAreSound /\ SumsAreSound /\ PositionIsSound /\ HistoryIsCounted
  BY DEF ProfileInv
<1>2. /\ session.pc = "pairs" /\ prior' = prior /\ previous' = previous /\ disk' = disk
      /\ history' = history
  BY DEF CountPair
<1>3. /\ session \in Sessions /\ history \in Seq(Observations)
      /\ AreCounts(prior) /\ AreCounts(live)
  BY <1>1 DEF ProfileTypeOK
<1>4. PICK n : n = Len(history)
  OBVIOUS
<1>5. /\ session.current = history[n] /\ previous = LatestBefore(n - 1)
      /\ session.to \in DOMAIN history[n].selected
      /\ Follows(history, n) /\ session.from \in DOMAIN history[n - 1].selected
  BY <1>1, <1>2, <1>4 DEF PositionIsSound, Observing, Looping
<1>6. /\ n \in Nat /\ n > 1 /\ history[n] \in Observations /\ history[n - 1] \in Observations
      /\ previous = {history[n - 1]}
  BY <1>3, <1>4, <1>5 DEF Follows, LatestBefore
<1>7. PICK from : from = session.from
  OBVIOUS
<1>8. PICK to : to = session.to
  OBVIOUS
<1>9. PICK pair : pair = <<history[n - 1].selected[from], history[n].selected[to]>>
  OBVIOUS
<1>10. /\ live' = [live EXCEPT !.transitions = Increment(@, pair, MaximumTransition)]
       /\ session' = IF session.to < Len(history[n].selected)
                     THEN [session EXCEPT !.to = @ + 1]
                     ELSE IF session.from < Len(history[n - 1].selected)
                     THEN [session EXCEPT !.from = @ + 1, !.to = 1]
                     ELSE [session EXCEPT !.pc = "keys", !.from = 1, !.to = 1]
  BY <1>5, <1>6, <1>7, <1>8, <1>9 DEF CountPair
<1>11. from \in Nat /\ to \in Nat
  BY <1>3, <1>7, <1>8 DEF Sessions
<1>12. session' \in Sessions /\ session'.current = session.current
       /\ PairAfter(history, n, session, session')
  <2>1. /\ session = [pc |-> session.pc, number |-> session.number, observed |-> session.observed,
                      current |-> session.current, from |-> from, to |-> to]
        /\ session.number \in Nat /\ session.observed \in Nat
        /\ session.current \in Observations \cup {NotObserving}
    BY <1>3, <1>7, <1>8 DEF Sessions
  <2>2. PICK next : next = to + 1
    OBVIOUS
  <2>3. PICK further : further = from + 1
    OBVIOUS
  <2>4. next \in Nat /\ further \in Nat /\ 1 \in Nat
    BY <1>11, <2>2, <2>3
  <2>5. CASE to < Len(history[n].selected)
    <3>1. session' = [pc |-> session.pc, number |-> session.number, observed |-> session.observed,
                      current |-> session.current, from |-> from, to |-> next]
      BY <2>1, <2>2, <2>5, <1>8, <1>10
    <3>2. session' \in Sessions
      BY <3>1, <2>1, <2>4, <1>2, <1>11 DEF Sessions, Stages
    <3> QED BY <3>1, <3>2, <2>2, <2>5, <1>2, <1>7, <1>8 DEF PairAfter
  <2>6. CASE ~(to < Len(history[n].selected)) /\ from < Len(history[n - 1].selected)
    <3>1. session' = [pc |-> session.pc, number |-> session.number, observed |-> session.observed,
                      current |-> session.current, from |-> further, to |-> 1]
      BY <2>1, <2>3, <2>6, <1>7, <1>8, <1>10
    <3>2. session' \in Sessions
      BY <3>1, <2>1, <2>4, <1>2, <1>11 DEF Sessions, Stages
    <3> QED BY <3>1, <3>2, <2>3, <2>6, <1>2, <1>7, <1>8 DEF PairAfter
  <2>7. CASE ~(to < Len(history[n].selected)) /\ ~(from < Len(history[n - 1].selected))
    <3>1. session' = [pc |-> "keys", number |-> session.number, observed |-> session.observed,
                      current |-> session.current, from |-> 1, to |-> 1]
      BY <2>1, <2>7, <1>7, <1>8, <1>10
    <3>2. session' \in Sessions
      BY <3>1, <2>1, <2>4, <1>2, <1>11 DEF Sessions, Stages
    <3> QED BY <3>1, <3>2, <2>7, <1>2, <1>7, <1>8 DEF PairAfter
  <2> QED BY <2>5, <2>6, <2>7
<1>13. PICK later : later = session'
  OBVIOUS
<1>14. from \in DOMAIN history[n - 1].selected /\ to \in DOMAIN history[n].selected
       /\ PairAfter(history, n, session, later)
  BY <1>5, <1>7, <1>8, <1>12, <1>13
<1>15. pair \in PairKeys /\ PairIsSeen(history, session, later, pair, <<n, from, to>>)
  BY <1>2, <1>3, <1>4, <1>5, <1>7, <1>8, <1>9, <1>14, PairSees
<1>16. /\ SeenIsFinite(history, session)
       /\ Tallies(live.frequency, SeenTimes(history, session), MaximumFrequency)
       /\ Tallies(live.transitions, SeenTimesAdjacent(history, session), MaximumTransition)
  BY <1>1, <1>2 DEF HistoryIsCounted
<1>17. PICK times : times = SeenTimesAdjacent(history, session)
  OBVIOUS
<1>18. PICK then : then = SeenTimesAdjacent(history, later)
  OBVIOUS
<1>19. /\ SeenIsFinite(history, later) /\ SeenTimes(history, later) = SeenTimes(history, session)
       /\ OneMore(PairKeys, times, then, pair)
  BY <1>15, <1>16, <1>17, <1>18, PairTimes
<1>20. PICK counts : counts = live.transitions
  OBVIOUS
<1>21. PICK after : after = Increment(counts, pair, MaximumTransition)
  OBVIOUS
<1>22. /\ IsTable(counts, PairKeys) /\ IsFiniteSet(PairKeys) /\ MaximumTransition \in Nat
       /\ \A k \in DOMAIN counts : counts[k] > 0
  BY <1>1, <1>3, <1>20, KeysAreFinite, BoundsAreNaturals DEF AreCounts, PairKeys, SumsAreSound, Positive
<1>23. IsTable(after, PairKeys) /\ \A k \in DOMAIN after : after[k] > 0
  BY <1>15, <1>21, <1>22, IncrementIsTable
<1>24. Tallies(after, then, MaximumTransition)
  BY <1>15, <1>16, <1>17, <1>19, <1>20, <1>21, <1>22, IncrementTallies
<1>25. /\ live' = [frequency |-> live.frequency, transitions |-> after,
                   observations |-> live.observations]
       /\ live'.frequency = live.frequency /\ live'.transitions = after
       /\ live'.observations = live.observations
  <2>1. live = [frequency |-> live.frequency, transitions |-> counts,
                observations |-> live.observations]
    BY <1>3, <1>20 DEF AreCounts
  <2> QED BY <2>1, <1>10, <1>20, <1>21
<1>26. AreCounts(live)'
  <2>1. /\ IsTable(live.frequency, ProfileExperts) /\ live.observations \in Nat
        /\ IsTable(after, ProfileExperts \X ProfileExperts)
    BY <1>3, <1>23 DEF AreCounts, PairKeys
  <2> QED BY <2>1, <1>25 DEF AreCounts
<1>27. ProfileTypeOK'
  <2>1. AreCounts(prior)'
    BY <1>2, <1>3
  <2> QED BY <2>1, <1>1, <1>2, <1>12, <1>26 DEF ProfileTypeOK
<1>28. session'.pc \in Looping
  BY <1>12, <1>2 DEF PairAfter, Looping
<1>29. FilesAreSound'
  BY <1>1, <1>2, <1>28 DEF FilesAreSound, Looping
<1>30. SumsAreSound'
  <2>1. Positive(prior)' /\ (Sum(prior.frequency) = prior.observations)'
    BY <1>1, <1>2 DEF SumsAreSound
  <2>2. Positive(live)'
    BY <1>1, <1>23, <1>25 DEF SumsAreSound, Positive
  <2>3. (live.observations = Capped(Sum(live.frequency)))'
    BY <1>1, <1>25 DEF SumsAreSound
  <2> QED BY <2>1, <2>2, <2>3 DEF SumsAreSound
<1>31. PositionIsSound'
  <2>1. session'.pc # "run" /\ Observing'
    BY <1>28 DEF Looping, Observing
  <2>2. Len(history') > 0 /\ session'.current = history'[Len(history')]
    BY <1>2, <1>4, <1>5, <1>6, <1>12
  <2>3. previous' = (LatestBefore(Len(history) - 1))'
    BY <1>2, <1>4, <1>5 DEF LatestBefore
  <2>4. session'.to \in DOMAIN session'.current.selected
    <3>1. PICK tos \in Nat : tos = Len(history[n].selected) /\ DOMAIN history[n].selected = 1..tos /\ tos > 0
      BY <1>6, SelectionsAreLists
    <3>2. (session'.to = to + 1 /\ to < tos) \/ session'.to = 1
      BY <3>1, <1>8, <1>12 DEF PairAfter
    <3>3. session'.to \in 1..tos
      BY <3>1, <3>2, <1>11
    <3> QED BY <3>1, <3>3, <1>5, <1>12
  <2>5. session'.pc = "keys" => session'.from = 1
    BY <1>2, <1>12 DEF PairAfter
  <2>6. ASSUME session'.pc = "pairs"
        PROVE  (Follows(history, Len(history)) /\ session.from \in DOMAIN history[Len(history) - 1].selected)'
    <3>1. PICK froms \in Nat : froms = Len(history[n - 1].selected) /\ DOMAIN history[n - 1].selected = 1..froms
      BY <1>6, SelectionsAreLists
    <3>2. session'.from = from \/ (session'.from = from + 1 /\ from < froms)
      BY <2>6, <3>1, <1>7, <1>12 DEF PairAfter
    <3>3. session'.from \in 1..froms
      BY <3>1, <3>2, <1>5, <1>7, <1>11
    <3> QED BY <3>1, <3>3, <1>2, <1>4, <1>5
  <2> QED BY <2>1, <2>2, <2>3, <2>4, <2>5, <2>6 DEF PositionIsSound
<1>32. HistoryIsCounted'
  <2>1. /\ SeenIsFinite(history', session')
        /\ Tallies(live'.frequency, SeenTimes(history', session'), MaximumFrequency)
        /\ Tallies(live'.transitions, SeenTimesAdjacent(history', session'), MaximumTransition)
    BY <1>2, <1>13, <1>16, <1>18, <1>19, <1>24, <1>25
  <2> QED BY <2>1 DEF HistoryIsCounted
<1> QED BY <1>27, <1>29, <1>30, <1>31, <1>32 DEF ProfileInv

LEMMA CountKeyKeeps ==
  ASSUME ProfileInv, CountKey
  PROVE  ProfileInv'
<1>1. ProfileTypeOK /\ FilesAreSound /\ SumsAreSound /\ PositionIsSound /\ HistoryIsCounted
  BY DEF ProfileInv
<1>2. session.pc = "keys" /\ prior' = prior /\ disk' = disk /\ history' = history
  BY DEF CountKey
<1>3. /\ session \in Sessions /\ history \in Seq(Observations) /\ previous \in SUBSET Observations
      /\ AreCounts(prior) /\ AreCounts(live)
  BY <1>1 DEF ProfileTypeOK
<1>4. PICK n : n = Len(history)
  OBVIOUS
<1>5. /\ session.current = history[n] /\ previous = LatestBefore(n - 1) /\ n > 0
      /\ session.to \in DOMAIN history[n].selected /\ session.from = 1
  BY <1>1, <1>2, <1>4 DEF PositionIsSound, Observing, Looping
<1>6. n \in Nat /\ history[n] \in Observations
  BY <1>3, <1>4, <1>5
<1>7. PICK to : to = session.to
  OBVIOUS
<1>8. PICK key : key = history[n].selected[to]
  OBVIOUS
<1>9. PICK counted \in BOOLEAN : counted <=> Counts(live.frequency, key, MaximumFrequency)
  OBVIOUS
<1>10. /\ live' = [live EXCEPT !.frequency = Increment(@, key, MaximumFrequency),
                     !.observations = @ + IF counted /\ @ # MaximumCount THEN 1 ELSE 0]
       /\ IF session.to < Len(history[n].selected)
          THEN session' = [session EXCEPT !.to = @ + 1] /\ UNCHANGED previous
          ELSE /\ session' = [session EXCEPT !.pc = "run", !.current = NotObserving, !.to = 1]
               /\ previous' = {history[n]}
  BY <1>5, <1>7, <1>8, <1>9 DEF CountKey
<1>11. to \in Nat
  BY <1>3, <1>7 DEF Sessions
<1>12. PICK tos \in Nat : /\ tos = Len(history[n].selected) /\ DOMAIN history[n].selected = 1..tos
                          /\ to \in 1..tos
  BY <1>5, <1>6, <1>7, SelectionsAreLists
<1>13. /\ session' \in Sessions /\ session'.from = 1
       /\ \/ /\ to < tos /\ session'.pc = "keys" /\ session'.to = to + 1
             /\ session'.current = session.current /\ previous' = previous
          \/ /\ ~(to < tos) /\ session'.pc = "run" /\ session'.to = 1 /\ previous' = {history[n]}
  <2>1. /\ session = [pc |-> session.pc, number |-> session.number, observed |-> session.observed,
                      current |-> session.current, from |-> 1, to |-> to]
        /\ session.number \in Nat /\ session.observed \in Nat
        /\ session.current \in Observations \cup {NotObserving}
    BY <1>3, <1>5, <1>7 DEF Sessions
  <2>2. PICK next : next = to + 1
    OBVIOUS
  <2>3. next \in Nat /\ 1 \in Nat
    BY <1>11, <2>2
  <2>4. CASE to < tos
    <3>1. session' = [pc |-> session.pc, number |-> session.number, observed |-> session.observed,
                      current |-> session.current, from |-> 1, to |-> next]
      BY <2>1, <2>2, <2>4, <1>7, <1>10, <1>12
    <3>2. session' \in Sessions
      BY <3>1, <2>1, <2>3, <1>2 DEF Sessions, Stages
    <3>3. previous' = previous
      BY <2>4, <1>7, <1>10, <1>12
    <3> QED BY <3>1, <3>2, <3>3, <2>2, <2>4, <1>2
  <2>5. CASE ~(to < tos)
    <3>1. session' = [pc |-> "run", number |-> session.number, observed |-> session.observed,
                      current |-> NotObserving, from |-> 1, to |-> 1]
      <4>1. session' = [session EXCEPT !.pc = "run", !.current = NotObserving, !.to = 1]
        BY <2>5, <1>7, <1>10, <1>12
      <4>2. PICK number, observed, current, pc, none :
              /\ number = session.number /\ observed = session.observed /\ pc = session.pc
              /\ current = session.current /\ none = NotObserving
        OBVIOUS
      <4>3. session = [pc |-> pc, number |-> number, observed |-> observed, current |-> current,
                       from |-> 1, to |-> to]
        BY <4>2, <2>1
      <4>4. session' = [session EXCEPT !.pc = "run", !.current = none, !.to = 1]
        BY <4>1, <4>2
      <4>5. session' = [pc |-> "run", number |-> number, observed |-> observed, current |-> none,
                        from |-> 1, to |-> 1]
        BY <4>3, <4>4
      <4> QED BY <4>2, <4>5
    <3>2. session' \in Sessions
      BY <3>1, <2>1, <2>3 DEF Sessions, Stages
    <3>3. previous' = {history[n]}
      BY <2>5, <1>7, <1>10, <1>12
    <3> QED BY <3>1, <3>2, <3>3, <2>5
  <2> QED BY <2>4, <2>5
<1>14. PICK later : later = session'
  OBVIOUS
<1>15. \/ to < Len(history[n].selected) /\ later.pc = "keys" /\ later.to = to + 1
       \/ ~(to < Len(history[n].selected)) /\ later.pc \notin Looping
  BY <1>12, <1>13, <1>14 DEF Looping
<1>16. key \in ProfileExperts /\ KeyIsSeen(history, session, later, key, <<n, to>>)
  BY <1>2, <1>3, <1>4, <1>5, <1>7, <1>8, <1>15, KeySees
<1>17. /\ SeenIsFinite(history, session)
       /\ Tallies(live.frequency, SeenTimes(history, session), MaximumFrequency)
       /\ Tallies(live.transitions, SeenTimesAdjacent(history, session), MaximumTransition)
  BY <1>1, <1>2 DEF HistoryIsCounted
<1>18. PICK times : times = SeenTimes(history, session)
  OBVIOUS
<1>19. PICK then : then = SeenTimes(history, later)
  OBVIOUS
<1>20. /\ SeenIsFinite(history, later)
       /\ SeenTimesAdjacent(history, later) = SeenTimesAdjacent(history, session)
       /\ OneMore(ProfileExperts, times, then, key)
  BY <1>16, <1>17, <1>18, <1>19, KeyTimes
<1>21. PICK counts : counts = live.frequency
  OBVIOUS
<1>22. PICK after : after = Increment(counts, key, MaximumFrequency)
  OBVIOUS
<1>23. /\ IsTable(counts, ProfileExperts) /\ IsFiniteSet(ProfileExperts) /\ MaximumFrequency \in Nat
       /\ \A k \in DOMAIN counts : counts[k] > 0
  BY <1>1, <1>3, <1>21, KeysAreFinite, BoundsAreNaturals DEF AreCounts, SumsAreSound, Positive
<1>24. IsTable(after, ProfileExperts) /\ \A k \in DOMAIN after : after[k] > 0
  BY <1>16, <1>22, <1>23, IncrementIsTable
<1>25. Tallies(after, then, MaximumFrequency)
  BY <1>16, <1>17, <1>18, <1>20, <1>21, <1>22, <1>23, IncrementTallies
<1>26. PICK sum \in Nat : sum = Sum(counts)
  BY <1>23, TableIsFinite
<1>27. Sum(after) = sum + IF counted THEN 1 ELSE 0
  BY <1>9, <1>16, <1>21, <1>22, <1>23, <1>26, IncrementAdds
<1>28. PICK bound : bound = MaximumCount
  OBVIOUS
<1>29. PICK seen : seen = live.observations
  OBVIOUS
<1>30. seen \in Nat /\ seen = Capped(sum) /\ bound \in Nat
  BY <1>1, <1>3, <1>21, <1>26, <1>28, <1>29, BoundsAreNaturals DEF SumsAreSound, AreCounts
<1>31. PICK observations : observations = seen + IF counted /\ seen # bound THEN 1 ELSE 0
  OBVIOUS
<1>32. observations \in Nat /\ observations = Capped(Sum(after))
  <2>1. seen = IF sum > bound THEN bound ELSE sum
    BY <1>28, <1>30 DEF Capped
  <2>2. CASE counted /\ seen # bound
    <3>1. observations = seen + 1 /\ seen = sum /\ ~(sum + 1 > bound)
      BY <2>1, <2>2, <1>26, <1>30, <1>31
    <3>2. Sum(after) = sum + 1
      BY <2>2, <1>27
    <3> QED BY <3>1, <3>2, <1>28, <1>30 DEF Capped
  <2>3. CASE counted /\ seen = bound
    <3>a. observations = seen + 0
      BY <2>3, <1>31
    <3>b. observations = bound
      BY <3>a, <2>3, <1>30
    <3>c. sum > bound \/ sum = bound
      BY <2>1, <2>3
    <3>d. sum + 1 > bound
      BY <3>c, <1>26, <1>30
    <3>1. observations = bound /\ (sum + 1 > bound)
      BY <3>b, <3>d
    <3>2. Sum(after) = sum + 1
      BY <2>3, <1>27
    <3> QED BY <3>1, <3>2, <1>28, <1>30 DEF Capped
  <2>4. CASE ~counted
    <3>1. observations = seen + 0
      BY <2>4, <1>31
    <3>2. Sum(after) = sum
      BY <2>4, <1>26, <1>27
    <3> QED BY <3>1, <3>2, <1>30
  <2> QED BY <2>2, <2>3, <2>4
<1>33. /\ live' = [frequency |-> after, transitions |-> live.transitions,
                   observations |-> observations]
       /\ live'.frequency = after /\ live'.transitions = live.transitions
       /\ live'.observations = observations
  <2>1. live = [frequency |-> counts, transitions |-> live.transitions, observations |-> seen]
    BY <1>3, <1>21, <1>29 DEF AreCounts
  <2>2. live' = [live EXCEPT !.frequency = after, !.observations = observations]
    BY <1>10, <1>21, <1>22, <1>28, <1>29, <1>31
  <2> QED BY <2>1, <2>2
<1>34. AreCounts(live)'
  <2>1. /\ IsTable(live.transitions, ProfileExperts \X ProfileExperts)
        /\ IsTable(after, ProfileExperts) /\ observations \in Nat
    BY <1>3, <1>24, <1>32 DEF AreCounts
  <2> QED BY <2>1, <1>33 DEF AreCounts
<1>35. ProfileTypeOK'
  <2>1. AreCounts(prior)'
    BY <1>2, <1>3
  <2>2. previous' \in SUBSET Observations
    BY <1>3, <1>6, <1>13
  <2> QED BY <2>1, <2>2, <1>1, <1>2, <1>13, <1>34 DEF ProfileTypeOK
<1>36. FilesAreSound'
  BY <1>1, <1>2, <1>13 DEF FilesAreSound
<1>37. SumsAreSound'
  <2>1. Positive(prior)' /\ (Sum(prior.frequency) = prior.observations)'
    BY <1>1, <1>2 DEF SumsAreSound
  <2>2. Positive(live)'
    BY <1>1, <1>24, <1>33 DEF SumsAreSound, Positive
  <2>3. (live.observations = Capped(Sum(live.frequency)))'
    BY <1>32, <1>33
  <2> QED BY <2>1, <2>2, <2>3 DEF SumsAreSound
<1>38. PositionIsSound'
  <2>1. CASE to < tos /\ session'.pc = "keys" /\ session'.to = to + 1
             /\ session'.current = session.current /\ previous' = previous
    <3>1. session'.to \in DOMAIN session'.current.selected
      BY <2>1, <1>5, <1>11, <1>12
    <3>2. previous' = (LatestBefore(Len(history) - 1))'
      BY <2>1, <1>2, <1>4, <1>5 DEF LatestBefore
    <3>3. Len(history') > 0 /\ session'.current = history'[Len(history')]
      BY <2>1, <1>2, <1>4, <1>5
    <3> QED BY <2>1, <3>1, <3>2, <3>3, <1>13 DEF PositionIsSound, Observing, Looping
  <2>2. CASE session'.pc = "run" /\ session'.to = 1 /\ previous' = {history[n]}
    <3>1. previous' = (LatestBefore(Len(history)))'
      BY <2>2, <1>2, <1>4, <1>5, <1>6 DEF LatestBefore
    <3> QED BY <2>2, <3>1, <1>13 DEF PositionIsSound, Observing, Looping
  <2> QED BY <2>1, <2>2, <1>13
<1>39. HistoryIsCounted'
  <2>1. /\ SeenIsFinite(history', session')
        /\ Tallies(live'.frequency, SeenTimes(history', session'), MaximumFrequency)
        /\ Tallies(live'.transitions, SeenTimesAdjacent(history', session'), MaximumTransition)
    BY <1>2, <1>14, <1>17, <1>19, <1>20, <1>25, <1>33
  <2> QED BY <2>1 DEF HistoryIsCounted
<1> QED BY <1>35, <1>36, <1>37, <1>38, <1>39 DEF ProfileInv

-----------------------------------------------------------------------------
(* The other steps keep the invariant.                                     *)

LEMMA ObservationKeeps ==
  ASSUME ProfileInv, NEW cycle \in Nat, NEW layer \in Nat, NEW selected \in Selections,
         ObserveSelection(cycle, layer, selected)
  PROVE  ProfileInv'
<1>1. ProfileTypeOK /\ FilesAreSound /\ SumsAreSound /\ PositionIsSound /\ HistoryIsCounted
  BY DEF ProfileInv
<1>2. PICK current : current = [cycle |-> cycle, layer |-> layer, selected |-> selected]
  OBVIOUS
<1>3. PICK follows \in BOOLEAN : follows = Adjacent(current)
  BY DEF Adjacent
<1>4. /\ session.pc = "run" /\ prior' = prior /\ live' = live /\ previous' = previous /\ disk' = disk
      /\ history' = Append(history, current)
      /\ session' = [session EXCEPT !.pc = IF follows THEN "pairs" ELSE "keys",
                       !.observed = @ + 1, !.current = current]
  BY <1>2, <1>3 DEF ObserveSelection
<1>5. /\ session \in Sessions /\ history \in Seq(Observations) /\ previous \in SUBSET Observations
      /\ AreCounts(prior) /\ AreCounts(live)
  BY <1>1 DEF ProfileTypeOK
<1>6. current \in Observations
  BY <1>2 DEF Observations
<1>7. /\ session.from = 1 /\ session.to = 1 /\ session.pc \notin Looping
      /\ previous = LatestBefore(Len(history))
  BY <1>1, <1>4 DEF PositionIsSound, Observing, Looping
<1>8. PICK n \in Nat : n = Len(history)
  BY <1>5
<1>9. PICK after : after = history'
  OBVIOUS
<1>10. /\ after \in Seq(Observations) /\ Len(after) = n + 1 /\ after[n + 1] = current
       /\ (n > 0 => after[n] = history[n])
       /\ after = Append(history, current)
  BY <1>4, <1>5, <1>6, <1>8, <1>9
<1>11. follows = Follows(after, n + 1)
  <2>1. n = 0 => previous = {}
    BY <1>7, <1>8 DEF LatestBefore
  <2>2. n > 0 => previous = {history[n]}
    BY <1>7, <1>8 DEF LatestBefore
  <2>3. n + 1 > 1 <=> n > 0
    BY <1>8
  <2>4. n + 1 - 1 = n
    BY <1>8
  <2>5. Follows(after, n + 1) <=>
          n > 0 /\ after[n].cycle = current.cycle /\ after[n].layer + 1 = current.layer
    BY <2>3, <2>4, <1>10 DEF Follows
  <2>6. Adjacent(current) <=>
          n > 0 /\ history[n].cycle = current.cycle /\ history[n].layer + 1 = current.layer
    BY <2>1, <2>2, <1>8 DEF Adjacent
  <2>7. Follows(after, n + 1) <=> Adjacent(current)
    BY <2>5, <2>6, <1>10
  <2>8. Follows(after, n + 1) \in BOOLEAN
    BY DEF Follows
  <2> QED BY <2>7, <2>8, <1>3
<1>12. PICK later : later = session'
  OBVIOUS
<1>13. /\ later \in Sessions /\ later.pc = (IF follows THEN "pairs" ELSE "keys")
       /\ later.current = current /\ later.from = 1 /\ later.to = 1
  <2>1. PICK number : number = session.number
    OBVIOUS
  <2>2. PICK observed : observed = session.observed
    OBVIOUS
  <2>3. /\ session = [pc |-> session.pc, number |-> number, observed |-> observed,
                      current |-> session.current, from |-> 1, to |-> 1]
        /\ number \in Nat /\ observed \in Nat
    BY <1>5, <1>7, <2>1, <2>2 DEF Sessions
  <2>4. PICK more : more = observed + 1
    OBVIOUS
  <2>5. more \in Nat /\ 1 \in Nat
    BY <2>3, <2>4
  <2>6. PICK pc : pc = IF follows THEN "pairs" ELSE "keys"
    OBVIOUS
  <2>7. pc \in Stages
    BY <2>6 DEF Stages
  <2>8. later = [pc |-> pc, number |-> number, observed |-> more, current |-> current,
                 from |-> 1, to |-> 1]
    <3>1. later = [session EXCEPT !.pc = pc, !.observed = @ + 1, !.current = current]
      BY <2>6, <1>4, <1>12
    <3>2. later = [session EXCEPT !.pc = pc, !.observed = more, !.current = current]
      BY <3>1, <2>2, <2>3, <2>4
    <3>3. PICK before, place : before = session.current /\ place = session.pc
      OBVIOUS
    <3>4. session = [pc |-> place, number |-> number, observed |-> observed, current |-> before,
                     from |-> 1, to |-> 1]
      BY <3>3, <2>3
    <3> QED BY <3>2, <3>4
  <2>9. later \in Sessions
    BY <2>3, <2>5, <2>7, <2>8, <1>6 DEF Sessions
  <2> QED BY <2>6, <2>8, <2>9
<1>14. later.pc \in Looping /\ (later.pc = "keys" => ~Follows(after, Len(after)))
  BY <1>10, <1>11, <1>13 DEF Looping
<1>15. /\ SeenTimes(after, later) = SeenTimes(history, session)
       /\ SeenTimesAdjacent(after, later) = SeenTimesAdjacent(history, session)
       /\ SeenIsFinite(after, later) <=> SeenIsFinite(history, session)
  BY <1>5, <1>6, <1>7, <1>10, <1>13, <1>14, ObserveSees
<1>16. ProfileTypeOK'
  <2>1. AreCounts(prior)' /\ AreCounts(live)'
    BY <1>4, <1>5
  <2> QED BY <2>1, <1>1, <1>4, <1>5, <1>9, <1>10, <1>12, <1>13 DEF ProfileTypeOK
<1>17. FilesAreSound'
  BY <1>1, <1>4, <1>12, <1>14 DEF FilesAreSound, Looping
<1>18. SumsAreSound'
  BY <1>1, <1>4 DEF SumsAreSound
<1>19. PositionIsSound'
  <2>1. session'.pc # "run" /\ Observing' /\ session'.from = 1
    BY <1>12, <1>13, <1>14 DEF Looping, Observing
  <2>2. Len(history') > 0 /\ session'.current = history'[Len(history')]
    BY <1>8, <1>9, <1>10, <1>12, <1>13
  <2>3. session'.to \in DOMAIN session'.current.selected
    BY <1>6, <1>12, <1>13, SelectionsAreLists
  <2>4. previous' = (LatestBefore(Len(history) - 1))'
    <3>1. Len(history') - 1 = n
      BY <1>8, <1>9, <1>10
    <3>2. previous' = IF n = 0 THEN {} ELSE {history[n]}
      BY <1>4, <1>7, <1>8 DEF LatestBefore
    <3>3. previous' = IF n = 0 THEN {} ELSE {history'[n]}
      <4>1. n = 0 \/ history[n] = history'[n]
        BY <1>8, <1>9, <1>10
      <4> QED BY <3>2, <4>1
    <3> QED BY <3>1, <3>3 DEF LatestBefore
  <2>5. ASSUME session'.pc = "pairs"
        PROVE  (Follows(history, Len(history)) /\ session.from \in DOMAIN history[Len(history) - 1].selected)'
    <3>a. follows
      BY <2>5, <1>12, <1>13
    <3>b. Follows(after, n + 1)
      BY <3>a, <1>11
    <3>c. n + 1 - 1 = n /\ (n + 1 > 1 => n > 0)
      BY <1>8
    <3>d. n > 0
      BY <3>b, <3>c DEF Follows
    <3>e. n \in DOMAIN after
      BY <3>d, <1>8, <1>10
    <3>f. after[n] \in Observations
      BY <3>e, <1>10
    <3>1. Follows(after, n + 1) /\ n > 0 /\ after[n] \in Observations /\ n + 1 - 1 = n
      BY <3>b, <3>c, <3>d, <3>f
    <3>2. 1 \in DOMAIN after[n].selected
      BY <3>1, SelectionsAreLists
    <3> QED BY <3>1, <3>2, <2>1, <1>9, <1>10
  <2> QED BY <2>1, <2>2, <2>3, <2>4, <2>5 DEF PositionIsSound
<1>20. HistoryIsCounted'
  <2>1. /\ SeenIsFinite(history, session)
        /\ Tallies(live.frequency, SeenTimes(history, session), MaximumFrequency)
        /\ Tallies(live.transitions, SeenTimesAdjacent(history, session), MaximumTransition)
    BY <1>1, <1>4 DEF HistoryIsCounted
  <2>2. /\ SeenIsFinite(history', session')
        /\ Tallies(live'.frequency, SeenTimes(history', session'), MaximumFrequency)
        /\ Tallies(live'.transitions, SeenTimesAdjacent(history', session'), MaximumTransition)
    BY <2>1, <1>4, <1>9, <1>12, <1>15
  <2> QED BY <2>2 DEF HistoryIsCounted
<1> QED BY <1>16, <1>17, <1>18, <1>19, <1>20 DEF ProfileInv

LEMMA ObserveNextKeeps ==
  ASSUME ProfileInv, ObserveNext
  PROVE  ProfileInv'
<1>1. previous \in SUBSET Observations
  BY DEF ProfileInv, ProfileTypeOK
<1>2. \A p \in previous : p.cycle \in Nat
  BY <1>1 DEF Observations
<1>3. PICK selected \in Selections :
        \/ ObserveSelection(1, selected[1][1], selected)
        \/ \E p \in previous : \E cycle \in {p.cycle, p.cycle + 1} :
             ObserveSelection(cycle, selected[1][1], selected)
  BY DEF ObserveNext
<1>4. PICK layer : layer = selected[1][1]
  OBVIOUS
<1>5. layer \in Nat
  <2>1. selected \in Seq(ProfileExperts) /\ selected # <<>> /\ ProfileExperts \subseteq Nat \X Nat
    BY ProfileConstants DEF ProfileAssumption
  <2>2. selected[1] \in ProfileExperts
    BY <2>1, EmptySeq
  <2> QED BY <2>1, <2>2, <1>4
<1>6. \E cycle \in Nat : ObserveSelection(cycle, layer, selected)
  <2>1. CASE ObserveSelection(1, selected[1][1], selected)
    BY <2>1, <1>4
  <2>2. CASE \E p \in previous : \E cycle \in {p.cycle, p.cycle + 1} :
                ObserveSelection(cycle, selected[1][1], selected)
    <3>1. PICK p \in previous : \E cycle \in {p.cycle, p.cycle + 1} :
                                  ObserveSelection(cycle, layer, selected)
      BY <2>2, <1>4
    <3>2. PICK cycle \in {p.cycle, p.cycle + 1} : ObserveSelection(cycle, layer, selected)
      BY <3>1
    <3>3. cycle \in Nat
      BY <1>2
    <3> QED BY <3>2, <3>3
  <2> QED BY <2>1, <2>2, <1>3
<1>7. PICK cycle \in Nat : ObserveSelection(cycle, layer, selected)
  BY <1>6
<1> QED BY <1>5, <1>7, ObservationKeeps

LEMMA NothingIsCounted ==
  /\ AreCounts(NoCounts) /\ Positive(NoCounts) /\ NoCounts.observations = 0
  /\ NoCounts.frequency = <<>> /\ NoCounts.transitions = <<>>
  /\ Sum(<<>>) = 0 /\ Capped(0) = 0 /\ Cardinality(DOMAIN <<>>) = 0
<1>1. DOMAIN <<>> = {} /\ \A keys : IsTable(<<>>, keys)
  BY DEF IsTable
<1>2. Units(<<>>) = {}
  BY <1>1 DEF Units
<1>3. Sum(<<>>) = 0 /\ Cardinality(DOMAIN <<>>) = 0
  BY <1>1, <1>2, FS_EmptySet DEF Sum
<1>4. Capped(0) = 0
  BY BoundsAreNaturals DEF Capped
<1>5. AreCounts(NoCounts)
  BY <1>1 DEF AreCounts, NoCounts
<1>6. Positive(NoCounts)
  BY <1>1 DEF Positive, NoCounts
<1>7. /\ NoCounts.observations = 0 /\ NoCounts.frequency = <<>> /\ NoCounts.transitions = <<>>
  BY DEF NoCounts
<1> QED BY <1>3, <1>4, <1>5, <1>6, <1>7

\* A session that has observed nothing has counted all of it.
LEMMA NothingIsTallied ==
  ASSUME NEW at
  PROVE  /\ SeenIsFinite(<<>>, at)
         /\ Tallies(<<>>, SeenTimes(<<>>, at), MaximumFrequency)
         /\ Tallies(<<>>, SeenTimesAdjacent(<<>>, at), MaximumTransition)
<1>1. SeenIsFinite(<<>>, at)
  BY NothingIsSeen, FS_EmptySet DEF SeenIsFinite
<1>2. /\ DOMAIN SeenTimes(<<>>, at) = ProfileExperts
      /\ \A key \in ProfileExperts : SeenTimes(<<>>, at)[key] = 0
  BY NothingIsSeen, FS_EmptySet DEF SeenTimes
<1>3. /\ DOMAIN SeenTimesAdjacent(<<>>, at) = PairKeys
      /\ \A pair \in PairKeys : SeenTimesAdjacent(<<>>, at)[pair] = 0
  BY NothingIsSeen, FS_EmptySet DEF SeenTimesAdjacent
<1>4. DOMAIN <<>> = {} /\ Cardinality(DOMAIN <<>>) = 0
  BY NothingIsCounted
<1>5. 0 <= MaximumFrequency /\ 0 <= MaximumTransition /\ ~(0 > 0)
  BY BoundsAreNaturals
<1>6. Tallies(<<>>, SeenTimes(<<>>, at), MaximumFrequency)
  BY <1>2, <1>4, <1>5 DEF Tallies
<1>7. Tallies(<<>>, SeenTimesAdjacent(<<>>, at), MaximumTransition)
  BY <1>3, <1>4, <1>5 DEF Tallies
<1> QED BY <1>1, <1>6, <1>7

\* A file that was saved is refused only for what it has more of than it may.
LEMMA WhyNotLoaded ==
  ASSUME NEW file, WasSaved(file), ~Loads(file)
  PROVE  \/ Cardinality(DOMAIN file.counts.frequency) > MaximumFrequency
         \/ Cardinality(DOMAIN file.counts.transitions) > MaximumTransition
         \/ Sum(file.counts.frequency) > MaximumCount
<1>1. PICK counts : counts = file.counts
  OBVIOUS
<1>2. /\ file = FileOf(counts) /\ AreCounts(counts) /\ Positive(counts) /\ ~Overflows(counts.frequency)
      /\ Sum(counts.frequency) = counts.observations \/ Sum(counts.frequency) > MaximumCount
  BY <1>1 DEF WasSaved
<1>3. PICK frequency : frequency = counts.frequency
  OBVIOUS
<1>4. /\ IsTable(frequency, ProfileExperts) /\ IsTable(counts.transitions, PairKeys)
      /\ ~Overflows(frequency)
  BY <1>2, <1>3 DEF AreCounts, PairKeys
<1>5. Saturated(frequency) = frequency
  <2>1. \A k \in DOMAIN frequency : Capped(frequency[k]) = frequency[k]
    BY <1>4 DEF Overflows, Capped
  <2>2. frequency = [k \in DOMAIN frequency |-> frequency[k]]
    BY <1>4 DEF IsTable
  <2> QED BY <2>1, <2>2 DEF Saturated
<1>6. file.whole /\ file.hot = HotBank(frequency)
  BY <1>2, <1>3, <1>5 DEF FileOf
<1>7. PICK a \in Nat : a = Cardinality(DOMAIN frequency)
  BY <1>4, TableIsFinite, KeysAreFinite
<1>8. PICK b \in Nat : b = Cardinality(DOMAIN counts.transitions)
  <2>1. PICK transitions : transitions = counts.transitions
    OBVIOUS
  <2>2. IsTable(transitions, PairKeys)
    BY <2>1, <1>4
  <2>3. Cardinality(DOMAIN transitions) \in Nat
    BY <2>2, TableIsFinite, KeysAreFinite
  <2> QED BY <2>1, <2>3
<1>9. PICK c \in Nat : c = Sum(frequency)
  BY <1>4, TableIsFinite, KeysAreFinite
<1>10. ~(a <= MaximumFrequency) \/ ~(b <= MaximumTransition) \/ ~(c <= MaximumCount)
  <2> SUFFICES ASSUME a <= MaximumFrequency, b <= MaximumTransition, c <= MaximumCount
               PROVE  Loads(file)
    OBVIOUS
  <2>1. ~(c > MaximumCount)
    BY <1>9, BoundsAreNaturals
  <2>2. Sum(frequency) = counts.observations
    BY <2>1, <1>2, <1>3, <1>9
  <2>3. counts.frequency = frequency /\ Positive(counts)
    BY <1>2, <1>3
  <2> QED BY <2>2, <2>3, <1>1, <1>6, <1>7, <1>8, <1>9 DEF Loads
<1>11. a > MaximumFrequency \/ b > MaximumTransition \/ c > MaximumCount
  BY <1>7, <1>8, <1>9, <1>10, BoundsAreNaturals
<1> QED BY <1>1, <1>3, <1>7, <1>8, <1>9, <1>11

LEMMA LoadKeeps ==
  ASSUME ProfileInv, Load
  PROVE  ProfileInv'
<1>1. ProfileTypeOK /\ FilesAreSound /\ SumsAreSound /\ PositionIsSound /\ HistoryIsCounted
  BY DEF ProfileInv
<1>2. PICK loaded \in BOOLEAN : loaded <=> \A file \in disk.file : Loads(file)
  OBVIOUS
<1>3. PICK pc : pc = IF loaded THEN "run" ELSE "end"
  OBVIOUS
<1>4. /\ session.pc = "start" /\ live' = NoCounts /\ previous' = {} /\ history' = <<>> /\ disk' = disk
      /\ session' = [session EXCEPT !.pc = pc]
  BY <1>2, <1>3 DEF Load
<1>5. prior' = IF loaded /\ disk.file # {} THEN (CHOOSE file \in disk.file :
          TRUE).counts ELSE NoCounts
  BY <1>2 DEF Load
<1>6. AreCounts(prior') /\ Positive(prior') /\ Sum(prior'.frequency) = prior'.observations
  <2>1. CASE loaded /\ disk.file # {}
    <3>1. PICK file : file = CHOOSE x \in disk.file : TRUE
      OBVIOUS
    <3>2. file \in disk.file
      BY <2>1, <3>1
    <3>3. WasSaved(file) /\ Loads(file)
      BY <2>1, <3>2, <1>1, <1>2 DEF FilesAreSound
    <3>4. prior' = file.counts
      BY <2>1, <3>1, <1>5
    <3>5. AreCounts(file.counts) /\ Positive(file.counts)
      BY <3>3 DEF WasSaved
    <3>6. Sum(file.counts.frequency) = file.counts.observations
      BY <3>3 DEF Loads
    <3> QED BY <3>4, <3>5, <3>6
  <2>2. CASE ~(loaded /\ disk.file # {})
    <3>1. prior' = NoCounts
      BY <2>2, <1>5
    <3> QED BY <3>1, NothingIsCounted
  <2> QED BY <2>1, <2>2
<1>7. /\ session' \in Sessions /\ session'.pc = pc /\ pc \in {"run", "end"}
      /\ session'.from = 1 /\ session'.to = 1
  <2>1. session \in Sessions /\ session.from = 1 /\ session.to = 1
    BY <1>1, <1>4 DEF ProfileTypeOK, PositionIsSound, Observing, Looping
  <2>2. pc \in Stages /\ pc \in {"run", "end"}
    BY <1>3 DEF Stages
  <2> QED BY <2>1, <2>2, <1>4 DEF Sessions
<1>8. ProfileTypeOK'
  BY <1>1, <1>4, <1>6, <1>7, NothingIsCounted DEF ProfileTypeOK
<1>9. FilesAreSound'
  <2>1. ASSUME pc = "end"
        PROVE  \E file \in disk.file :
                   \/ Cardinality(DOMAIN file.counts.frequency) > MaximumFrequency
                                       \/ Cardinality(DOMAIN file.counts.transitions) > MaximumTransition
                                       \/ Sum(file.counts.frequency) > MaximumCount
    <3>1. PICK file \in disk.file : ~Loads(file)
      BY <2>1, <1>2, <1>3
    <3>2. WasSaved(file)
      BY <1>1 DEF FilesAreSound
    <3> QED BY <3>1, <3>2, WhyNotLoaded
  <2> QED BY <2>1, <1>1, <1>4, <1>7 DEF FilesAreSound
<1>10. SumsAreSound'
  BY <1>4, <1>6, NothingIsCounted DEF SumsAreSound
<1>11. PositionIsSound'
  BY <1>4, <1>7 DEF PositionIsSound, Observing, Looping, LatestBefore
<1>12. HistoryIsCounted'
  BY <1>4, NothingIsCounted, NothingIsTallied DEF HistoryIsCounted
<1> QED BY <1>8, <1>9, <1>10, <1>11, <1>12 DEF ProfileInv

\* A step that only saves, or fails to, keeps what was counted.
LEMMA SavingKeeps ==
  ASSUME ProfileInv, session.pc \in {"run", "write", "rename"},
         NEW pc \in {"refused", "failed", "write", "rename", "saved"}, Saves(pc),
         disk' = [file |-> disk'.file, temporary |-> disk'.temporary]
  PROVE  /\ ProfileTypeOK' /\ SumsAreSound' /\ PositionIsSound' /\ HistoryIsCounted'
         /\ session'.pc = pc /\ Merged' = Merged /\ (SaveRefuses' <=> SaveRefuses)
<1>1. ProfileTypeOK /\ FilesAreSound /\ SumsAreSound /\ PositionIsSound /\ HistoryIsCounted
  BY DEF ProfileInv
<1>2. /\ session' = [session EXCEPT !.pc = pc] /\ prior' = prior /\ live' = live
      /\ previous' = previous /\ history' = history
  BY DEF Saves
<1>3. /\ session \in Sessions /\ session.from = 1 /\ session.to = 1 /\ session.pc \notin Looping
      /\ session.pc # "start"
  BY <1>1 DEF ProfileTypeOK, PositionIsSound, Observing, Looping
<1>4. PICK later : later = session'
  OBVIOUS
<1>5. /\ later \in Sessions /\ later.pc = pc /\ later.from = 1 /\ later.to = 1
      /\ later.pc \notin Looping /\ later.pc # "run"
  <2>1. pc \in Stages /\ pc \notin Looping /\ pc # "run"
    BY DEF Stages, Looping
  <2> QED BY <2>1, <1>2, <1>3, <1>4 DEF Sessions
<1>6. ProfileTypeOK'
  BY <1>1, <1>2, <1>4, <1>5 DEF ProfileTypeOK
<1>7. SumsAreSound'
  BY <1>1, <1>2 DEF SumsAreSound
<1>8. PositionIsSound'
  BY <1>4, <1>5 DEF PositionIsSound, Observing, Looping
<1>9. HistoryIsCounted'
  <2>1. /\ SeenTimes(history, later) = SeenTimes(history, session)
        /\ SeenTimesAdjacent(history, later) = SeenTimesAdjacent(history, session)
        /\ SeenIsFinite(history, later) <=> SeenIsFinite(history, session)
    BY <1>3, <1>5, SeenIsKept
  <2> QED BY <2>1, <1>1, <1>2, <1>3, <1>4 DEF HistoryIsCounted
<1>10. Merged' = Merged
  BY <1>2 DEF Merged
<1>11. SaveRefuses' <=> SaveRefuses
  BY <1>10 DEF SaveRefuses
<1> QED BY <1>4, <1>5, <1>6, <1>7, <1>8, <1>9, <1>10, <1>11

LEMMA SaveKeeps ==
  ASSUME ProfileInv, Save \/ Write \/ Rename \/ SaveFails
  PROVE  ProfileInv'
<1>1. ProfileTypeOK /\ FilesAreSound /\ SumsAreSound /\ AreCounts(prior) /\ AreCounts(live)
  BY DEF ProfileInv, ProfileTypeOK
<1>2. disk = [file |-> disk.file, temporary |-> disk.temporary]
  BY <1>1 DEF ProfileTypeOK
<1>3. CASE session.pc = "run" /\ SaveRefuses /\ Saves("refused") /\ disk' = disk
  <2>1. disk' = [file |-> disk'.file, temporary |-> disk'.temporary]
    BY <1>2, <1>3
  <2>2. /\ ProfileTypeOK' /\ SumsAreSound' /\ PositionIsSound' /\ HistoryIsCounted'
        /\ session'.pc = "refused"
    BY <1>3, <2>1, SavingKeeps
  <2>3. FilesAreSound'
    BY <1>1, <1>3, <2>2 DEF FilesAreSound
  <2> QED BY <2>2, <2>3 DEF ProfileInv
<1>4. CASE session.pc = "run" /\ ~SaveRefuses /\ Saves("failed") /\ disk' = disk
  <2>1. disk' = [file |-> disk'.file, temporary |-> disk'.temporary]
    BY <1>2, <1>4
  <2>2. /\ ProfileTypeOK' /\ SumsAreSound' /\ PositionIsSound' /\ HistoryIsCounted'
        /\ session'.pc = "failed"
    BY <1>4, <2>1, SavingKeeps
  <2>3. FilesAreSound'
    BY <1>1, <1>4, <2>2 DEF FilesAreSound
  <2> QED BY <2>2, <2>3 DEF ProfileInv
<1>5. CASE /\ session.pc = "run" /\ ~SaveRefuses /\ Saves("write")
           /\ disk' = [disk EXCEPT !.temporary = {Part}]
  <2>1. disk' = [file |-> disk'.file, temporary |-> disk'.temporary] /\ disk'.file = disk.file
    BY <1>2, <1>5
  <2>2. /\ ProfileTypeOK' /\ SumsAreSound' /\ PositionIsSound' /\ HistoryIsCounted'
        /\ session'.pc = "write" /\ (SaveRefuses' <=> SaveRefuses)
    BY <1>5, <2>1, SavingKeeps
  <2>3. FilesAreSound'
    BY <1>1, <1>5, <2>1, <2>2 DEF FilesAreSound
  <2> QED BY <2>2, <2>3 DEF ProfileInv
<1>6. CASE Write
  <2>1. /\ session.pc = "write" /\ Saves("rename")
        /\ disk' = [disk EXCEPT !.temporary = {FileOf(Merged)}]
    BY <1>6 DEF Write
  <2>2. /\ disk' = [file |-> disk'.file, temporary |-> disk'.temporary] /\ disk'.file = disk.file
        /\ disk'.temporary = {FileOf(Merged)}
    BY <1>2, <2>1
  <2>3. /\ ProfileTypeOK' /\ SumsAreSound' /\ PositionIsSound' /\ HistoryIsCounted'
        /\ session'.pc = "rename" /\ Merged' = Merged /\ (SaveRefuses' <=> SaveRefuses)
    BY <2>1, <2>2, SavingKeeps
  <2>4. FileOf(Merged') = FileOf(Merged)
    BY <2>3
  <2>5. FilesAreSound'
    BY <1>1, <2>1, <2>2, <2>3, <2>4 DEF FilesAreSound
  <2> QED BY <2>3, <2>5 DEF ProfileInv
<1>7. CASE Rename
  <2>1. /\ session.pc = "rename" /\ Saves("saved")
        /\ disk' = [file |-> disk.temporary, temporary |-> {}]
    BY <1>7 DEF Rename
  <2>2. disk.temporary = {FileOf(Merged)} /\ ~SaveRefuses
    BY <1>1, <2>1 DEF FilesAreSound
  <2>3. WasSaved(FileOf(Merged))
    BY <1>1, <2>2, MergedIsSound
  <2>4. disk' = [file |-> {FileOf(Merged)}, temporary |-> {}] /\ disk'.file = {FileOf(Merged)}
        /\ disk' = [file |-> disk'.file, temporary |-> disk'.temporary]
    BY <2>1, <2>2
  <2>5. /\ ProfileTypeOK' /\ SumsAreSound' /\ PositionIsSound' /\ HistoryIsCounted'
        /\ session'.pc = "saved" /\ Merged' = Merged
    BY <2>1, <2>4, SavingKeeps
  <2>6. FileOf(Merged') = FileOf(Merged)
    BY <2>5
  <2>7. FilesAreSound'
    BY <2>3, <2>4, <2>5, <2>6 DEF FilesAreSound
  <2> QED BY <2>5, <2>7 DEF ProfileInv
<1>8. CASE SaveFails
  <2>1. /\ session.pc \in {"write", "rename"} /\ Saves("failed")
        /\ disk' = [disk EXCEPT !.temporary = {}]
    BY <1>8 DEF SaveFails
  <2>2. disk' = [file |-> disk'.file, temporary |-> disk'.temporary] /\ disk'.file = disk.file
    BY <1>2, <2>1
  <2>3. /\ ProfileTypeOK' /\ SumsAreSound' /\ PositionIsSound' /\ HistoryIsCounted'
        /\ session'.pc = "failed"
    BY <2>1, <2>2, SavingKeeps
  <2>4. FilesAreSound'
    BY <1>1, <2>2, <2>3 DEF FilesAreSound
  <2> QED BY <2>3, <2>4 DEF ProfileInv
<1> QED BY <1>3, <1>4, <1>5, <1>6, <1>7, <1>8 DEF Save

LEMMA AgainKeeps ==
  ASSUME ProfileInv, Again
  PROVE  ProfileInv'
<1>1. ProfileTypeOK /\ FilesAreSound /\ SumsAreSound
  BY DEF ProfileInv
<1>2. /\ prior' = prior /\ live' = live /\ previous' = previous /\ disk' = disk /\ history' = history
      /\ session' = [NewSession EXCEPT !.number = session.number + 1, !.observed = session.observed]
  BY DEF Again
<1>3. session' \in Sessions /\ session'.pc = "start" /\ session'.from = 1 /\ session'.to = 1
  <2>1. PICK number \in Nat : number = session.number
    BY <1>1 DEF ProfileTypeOK, Sessions
  <2>2. PICK observed \in Nat : observed = session.observed
    BY <1>1 DEF ProfileTypeOK, Sessions
  <2>3. PICK more \in Nat : more = number + 1
    BY <2>1
  <2>4. session' = [pc |-> "start", number |-> more, observed |-> observed, current |-> NotObserving,
                    from |-> 1, to |-> 1]
    BY <1>2, <2>1, <2>2, <2>3 DEF NewSession
  <2> QED BY <2>4 DEF Sessions, Stages
<1>4. ProfileTypeOK'
  BY <1>1, <1>2, <1>3 DEF ProfileTypeOK
<1>5. FilesAreSound'
  BY <1>1, <1>2, <1>3 DEF FilesAreSound
<1>6. SumsAreSound'
  BY <1>1, <1>2 DEF SumsAreSound
<1>7. PositionIsSound' /\ HistoryIsCounted'
  BY <1>3 DEF PositionIsSound, HistoryIsCounted, Observing, Looping
<1> QED BY <1>4, <1>5, <1>6, <1>7 DEF ProfileInv

LEMMA ProfileStutters ==
  ASSUME ProfileInv, UNCHANGED profileVars
  PROVE  ProfileInv'
<1>1. /\ prior' = prior /\ live' = live /\ previous' = previous /\ disk' = disk
      /\ session' = session /\ history' = history
  BY DEF profileVars
<1>2. ProfileTypeOK'
  BY <1>1 DEF ProfileInv, ProfileTypeOK
<1>3. Merged' = Merged /\ (SaveRefuses' <=> SaveRefuses)
  BY <1>1 DEF Merged, SaveRefuses
<1>4. FilesAreSound'
  BY <1>1, <1>3 DEF ProfileInv, FilesAreSound
<1>5. SumsAreSound'
  BY <1>1 DEF ProfileInv, SumsAreSound
<1>6. PositionIsSound'
  BY <1>1 DEF ProfileInv, PositionIsSound, Observing, LatestBefore
<1>7. HistoryIsCounted'
  BY <1>1 DEF ProfileInv, HistoryIsCounted
<1> QED BY <1>2, <1>4, <1>5, <1>6, <1>7 DEF ProfileInv

LEMMA ProfileBegins ==
  ASSUME ProfileInit
  PROVE  ProfileInv
<1>1. /\ prior = NoCounts /\ live = NoCounts /\ previous = {} /\ session = NewSession
      /\ history = <<>>
  BY DEF ProfileInit
<1>2. PICK old \in OldProfiles \cup {{}} : disk = [file |-> old, temporary |-> {}]
  BY DEF ProfileInit
<1>3. session \in Sessions /\ session.pc = "start" /\ session.from = 1 /\ session.to = 1
  BY <1>1 DEF NewSession, Sessions, Stages
<1>4. ProfileTypeOK
  BY <1>1, <1>2, <1>3, NothingIsCounted DEF ProfileTypeOK
<1>5. FilesAreSound
  BY <1>2, <1>3, ProfileConstants DEF FilesAreSound, ProfileAssumption
<1>6. SumsAreSound
  BY <1>1, NothingIsCounted DEF SumsAreSound
<1>7. PositionIsSound /\ HistoryIsCounted
  BY <1>3 DEF PositionIsSound, HistoryIsCounted, Observing, Looping
<1> QED BY <1>4, <1>5, <1>6, <1>7 DEF ProfileInv

LEMMA ProfileIsSound == ProfileSpec => []ProfileInv
<1>1. ProfileInit => ProfileInv
  BY ProfileBegins
<1>2. ProfileInv /\ [ProfileNext]_profileVars => ProfileInv'
  <2> SUFFICES ASSUME ProfileInv, [ProfileNext]_profileVars PROVE ProfileInv'
    OBVIOUS
  <2>1. CASE Load
    BY <2>1, LoadKeeps
  <2>2. CASE ObserveNext
    BY <2>2, ObserveNextKeeps
  <2>3. CASE CountPair
    BY <2>3, CountPairKeeps
  <2>4. CASE CountKey
    BY <2>4, CountKeyKeeps
  <2>5. CASE Save \/ Write \/ Rename \/ SaveFails
    BY <2>5, SaveKeeps
  <2>6. CASE Again
    BY <2>6, AgainKeeps
  <2>7. CASE UNCHANGED profileVars
    BY <2>7, ProfileStutters
  <2> QED BY <2>1, <2>2, <2>3, <2>4, <2>5, <2>6, <2>7 DEF ProfileNext
<1> QED BY <1>1, <1>2, PTL DEF ProfileSpec

LEMMA HistoryIsCountedOut ==
  ASSUME ProfileInv
  PROVE  ProfileIsHistory
<1>1. ProfileTypeOK /\ FilesAreSound /\ SumsAreSound /\ HistoryIsCounted
  BY DEF ProfileInv
<1>2. FileIsMerged
  BY <1>1 DEF FilesAreSound, FileIsMerged, WasSaved
<1>3. ASSUME session.pc \notin {"start", "pairs", "keys"}
      PROVE  /\ \A key \in DOMAIN live.frequency : live.frequency[key] = Capped(Times(key))
             /\ \A key \in ProfileExperts \ DOMAIN live.frequency :
                  Times(key) > 0 => Cardinality(DOMAIN live.frequency) = MaximumFrequency
             /\ \A pair \in DOMAIN live.transitions :
                  live.transitions[pair] = Capped(TimesAdjacent(pair[1], pair[2]))
             /\ \A from, to \in ProfileExperts :
                  <<from, to>> \notin DOMAIN live.transitions /\ TimesAdjacent(from, to) > 0 =>
                    Cardinality(DOMAIN live.transitions) = MaximumTransition
  <2>1. \A key : SeenUses(history, session, key) = Uses(history, key)
    BY <1>3 DEF SeenUses, Looping
  <2>2. \A pair : SeenPairs(history, session, pair) = UsesAdjacent(history, pair[1], pair[2])
    BY <1>3 DEF SeenPairs
  <2>3. PICK times : times = SeenTimes(history, session)
    OBVIOUS
  <2>4. PICK timesAdjacent : timesAdjacent = SeenTimesAdjacent(history, session)
    OBVIOUS
  <2>5. DOMAIN times = ProfileExperts /\ \A key \in ProfileExperts : times[key] = Times(key)
    BY <2>1, <2>3 DEF SeenTimes, Times
  <2>6. /\ DOMAIN timesAdjacent = PairKeys
        /\ \A pair \in PairKeys : timesAdjacent[pair] = TimesAdjacent(pair[1], pair[2])
    BY <2>2, <2>4 DEF SeenTimesAdjacent, TimesAdjacent
  <2>7. /\ Tallies(live.frequency, times, MaximumFrequency)
        /\ Tallies(live.transitions, timesAdjacent, MaximumTransition)
    BY <1>1, <1>3, <2>3, <2>4 DEF HistoryIsCounted
  <2>8. DOMAIN live.frequency \subseteq ProfileExperts /\ DOMAIN live.transitions \subseteq PairKeys
    BY <1>1 DEF ProfileTypeOK, AreCounts, IsTable, PairKeys
  <2>9. /\ \A key \in DOMAIN live.frequency : live.frequency[key] = Capped(Times(key))
        /\ \A key \in ProfileExperts \ DOMAIN live.frequency :
             Times(key) > 0 => Cardinality(DOMAIN live.frequency) = MaximumFrequency
    BY <2>5, <2>7, <2>8 DEF Tallies
  <2>10. \A pair \in DOMAIN live.transitions :
           live.transitions[pair] = Capped(TimesAdjacent(pair[1], pair[2]))
    BY <2>6, <2>7, <2>8 DEF Tallies
  <2>11. ASSUME NEW from \in ProfileExperts, NEW to \in ProfileExperts,
                <<from, to>> \notin DOMAIN live.transitions, TimesAdjacent(from, to) > 0
         PROVE  Cardinality(DOMAIN live.transitions) = MaximumTransition
    <3>1. PICK pair : pair = <<from, to>>
      OBVIOUS
    <3>2. pair \in PairKeys /\ pair[1] = from /\ pair[2] = to
      BY <3>1 DEF PairKeys
    <3>3. timesAdjacent[pair] > 0 /\ pair \in DOMAIN timesAdjacent \ DOMAIN live.transitions
      BY <2>6, <2>11, <3>1, <3>2
    <3> QED BY <2>7, <3>3 DEF Tallies
  <2> QED BY <2>9, <2>10, <2>11
<1>4. /\ live.observations = Capped(Sum(live.frequency))
      /\ Sum(prior.frequency) = prior.observations
  BY <1>1 DEF SumsAreSound
<1> QED BY <1>2, <1>3, <1>4 DEF ProfileIsHistory, CountsAreHistory

\* A profile counts every expert a session selected, and every pair selected in
\* adjacent layers of one forward, as often as its history has them, up to the
\* largest count and the records it may have; and the file is at every moment a
\* whole profile, after a save the prior with all of the session, and refused by
\* the next session only when a bound is passed.
THEOREM ProfilesAreHistory == ProfileSpec => []ProfileIsHistory
<1>1. ProfileInv => ProfileIsHistory
  BY HistoryIsCountedOut
<1> QED BY <1>1, ProfileIsSound, PTL

-----------------------------------------------------------------------------
(* The host store (HostExpertStore).                                       *)

(* Charged bytes of sets of keys.                                          *)

LEMMA TotalType == ASSUME NEW S \in SUBSET Keys PROVE Total[S] \in Nat
  BY TotalAssumption

LEMMA TotalSplit ==
  ASSUME NEW S \in SUBSET Keys, NEW T \in SUBSET S
  PROVE  Total[S \ T] = Total[S] - Total[T]
<1>1. (S \ T) \cap T = {} /\ (S \ T) \cup T = S
  OBVIOUS
<1>2. T \in SUBSET Keys /\ S \ T \in SUBSET Keys
  OBVIOUS
<1>3. Total[(S \ T) \cup T] = Total[S \ T] + Total[T]
  BY <1>1, <1>2, TotalAssumption
<1>4. Total[S] \in Nat /\ Total[T] \in Nat /\ Total[S \ T] \in Nat
  BY <1>2, TotalType
<1>5. Total[S] = Total[S \ T] + Total[T]
  BY <1>1, <1>3, Zenon
<1> QED
  BY <1>4, <1>5

LEMMA TotalMonotone ==
  ASSUME NEW S \in SUBSET Keys, NEW T \in SUBSET S
  PROVE  Total[T] <= Total[S]
<1>1. Total[S] \in Nat /\ Total[T] \in Nat /\ Total[S \ T] \in Nat
  <2>1. T \in SUBSET Keys /\ S \ T \in SUBSET Keys
    OBVIOUS
  <2> QED
    BY <2>1, TotalType
<1> QED
  BY <1>1, TotalSplit

LEMMA TotalAdd ==
  ASSUME NEW S \in SUBSET Keys, NEW k \in Keys, k \notin S
  PROVE  Total[S \cup {k}] = Total[S] + Size[k]
<1>1. S \cap {k} = {} /\ {k} \in SUBSET Keys
  OBVIOUS
<1>2. Total[S \cup {k}] = Total[S] + Total[{k}]
  BY <1>1, TotalAssumption
<1> QED
  BY <1>2, TotalAssumption

-----------------------------------------------------------------------------
(* The shape of a step: what each operation does to the resident keys.     *)

LEMMA SubsetsOfKeysAreFinite ==
  ASSUME NEW S \in SUBSET Keys
  PROVE  IsFiniteSet(S) /\ Cardinality(S) \in Nat
  BY StoreAssumption, FS_Subset, FS_CardinalityType

LEMMA RememberEvictedType ==
  ASSUME TypeOK, NEW gone \in SUBSET Keys, RememberEvicted(gone)
  PROVE  /\ evictedCycle' \in [DOMAIN evictedCycle' -> Nat]
         /\ DOMAIN evictedCycle' \subseteq Keys
  BY DEF TypeOK, RememberEvicted

LEMMA MissedType ==
  ASSUME TypeOK, NEW k
  PROVE  /\ Missed(k) \in Stats
         /\ Missed(k).residentBytes = stats.residentBytes
         /\ Missed(k).peakBytes = stats.peakBytes
         /\ Missed(k).misses = stats.misses + 1
         /\ Missed(k).bypasses = stats.bypasses
         /\ Missed(k).evictions = stats.evictions
<1> DEFINE collided == IF Collides(k) THEN stats.collisions + 1
                       ELSE stats.collisions
<1>1. stats \in Stats
  BY DEF TypeOK
<1>2. collided \in Nat
  BY <1>1 DEF Stats
<1>3. Missed(k) = [stats EXCEPT !.misses = stats.misses + 1,
                               !.collisions = collided]
  BY <1>1 DEF Missed, Stats
<1> HIDE DEF collided
<1>4. stats.misses + 1 \in Nat
  BY <1>1 DEF Stats
<1>5. Missed(k) \in Stats
  BY <1>1, <1>2, <1>3, <1>4 DEF Stats
<1>6. Missed(k).misses = stats.misses + 1
  BY <1>1, <1>3 DEF Stats
<1>7. /\ Missed(k).residentBytes = stats.residentBytes
      /\ Missed(k).peakBytes = stats.peakBytes
  BY <1>1, <1>3 DEF Stats
<1>8. /\ Missed(k).bypasses = stats.bypasses
      /\ Missed(k).evictions = stats.evictions
  BY <1>1, <1>3 DEF Stats
<1> QED
  BY <1>5, <1>6, <1>7, <1>8

LEMMA EvictType ==
  ASSUME TypeOK, NEW k, NEW gone \in SUBSET Keys
  PROVE  LET counted == Evict(gone, Missed(k)) IN
         /\ counted \in Stats
         /\ counted.residentBytes = stats.residentBytes - Total[gone]
         /\ counted.peakBytes = stats.peakBytes
         /\ counted.misses = stats.misses + 1
         /\ counted.bypasses = stats.bypasses
         /\ counted.evictions = stats.evictions + Cardinality(gone)
<1> DEFINE missed == Missed(k)
           released == Total[gone]
           number == Cardinality(gone)
<1>1. /\ missed \in Stats
      /\ missed.residentBytes = stats.residentBytes
      /\ missed.peakBytes = stats.peakBytes
      /\ missed.misses = stats.misses + 1
      /\ missed.bypasses = stats.bypasses
      /\ missed.evictions = stats.evictions
  BY MissedType
<1>2. released \in Nat /\ number \in Nat
  BY TotalType, SubsetsOfKeysAreFinite
<1>3. Evict(gone, missed) = [missed EXCEPT
                               !.residentBytes = missed.residentBytes - released,
                               !.evictions = missed.evictions + number]
  BY DEF Evict
<1> HIDE DEF missed, released, number
<1>4. /\ missed.residentBytes - released \in Int
      /\ missed.evictions + number \in Nat
  BY <1>1, <1>2 DEF Stats
<1>5. Evict(gone, missed) \in Stats
  BY <1>1, <1>3, <1>4 DEF Stats
<1>6. /\ Evict(gone, missed).residentBytes = missed.residentBytes - released
      /\ Evict(gone, missed).evictions = missed.evictions + number
  BY <1>1, <1>3 DEF Stats
<1>7. /\ Evict(gone, missed).peakBytes = missed.peakBytes
      /\ Evict(gone, missed).misses = missed.misses
      /\ Evict(gone, missed).bypasses = missed.bypasses
  BY <1>1, <1>3 DEF Stats
<1> QED
  BY <1>1, <1>5, <1>6, <1>7 DEF missed, released, number

-----------------------------------------------------------------------------
(* The inductive invariant of the byte account.                            *)

Accounts == TypeOK /\ WithinCapacity

LEMMA InitAccounts == Init => Accounts
  BY StoreAssumption, TotalAssumption
  DEF Init, Accounts, TypeOK, WithinCapacity, resident, Entry, Stats

LEMMA HitAccounts ==
  ASSUME Accounts, NEW k, Hit(k)
  PROVE  Accounts'
<1>1. TypeOK'
  BY DEF Accounts, TypeOK, Hit, resident, Entry
<1>2. resident' = resident /\ stats' = stats
  BY DEF Accounts, TypeOK, Hit, resident
<1> QED
  BY <1>1, <1>2 DEF Accounts, WithinCapacity

LEMMA BypassAtOnceAccounts ==
  ASSUME Accounts, NEW k, BypassAtOnce(k)
  PROVE  Accounts'
<1>1. TypeOK
  BY DEF Accounts
<1>2. /\ stats' \in Stats
      /\ stats'.residentBytes = stats.residentBytes
      /\ stats'.peakBytes = stats.peakBytes
  BY <1>1, MissedType DEF BypassAtOnce, Stats
<1> QED
  BY <1>2 DEF BypassAtOnce, Accounts, TypeOK, WithinCapacity, resident

LEMMA EvictAndBypassAccounts ==
  ASSUME Accounts, NEW k, NEW gone \in SUBSET Candidates, EvictAndBypass(k, gone)
  PROVE  Accounts'
<1>1. TypeOK /\ gone \subseteq resident /\ resident \subseteq Keys
  BY DEF Accounts, TypeOK, Candidates
<1>2. resident' = resident \ gone
  BY DEF EvictAndBypass, resident
<1>3. /\ stats' \in Stats
      /\ stats'.residentBytes = stats.residentBytes - Total[gone]
      /\ stats'.peakBytes = stats.peakBytes
  BY <1>1, EvictType DEF EvictAndBypass, Stats
<1>4. entries' \in [resident' -> Entry]
  BY <1>1, <1>2 DEF EvictAndBypass, TypeOK, resident
<1>5. TypeOK'
  BY <1>1, <1>2, <1>3, <1>4, RememberEvictedType DEF EvictAndBypass, TypeOK
<1>6. Total[resident'] = stats'.residentBytes
  BY <1>1, <1>2, <1>3, TotalSplit DEF Accounts, WithinCapacity
<1>7. stats'.residentBytes <= stats.residentBytes
  BY <1>1, <1>3, TotalType DEF TypeOK, Stats
<1> QED
  BY <1>1, <1>3, <1>5, <1>6, <1>7, StoreAssumption
  DEF Accounts, WithinCapacity, TypeOK, Stats

LEMMA EvictAndAdmitAccounts ==
  ASSUME Accounts, NEW k \in Keys, NEW gone \in SUBSET Candidates,
         EvictAndAdmit(k, gone)
  PROVE  Accounts'
<1>1. TypeOK /\ gone \subseteq resident /\ resident \subseteq Keys
  BY DEF Accounts, TypeOK, Candidates
<1>2. /\ resident' = (resident \ gone) \cup {k}
      /\ k \notin resident
  BY DEF EvictAndAdmit, LoopRuns, Misses, resident
<1>3. Size[k] \in Nat /\ Capacity \in Nat /\ Total[gone] \in Nat
  BY <1>1, StoreAssumption, TotalType
<1> DEFINE counted == Evict(gone, Missed(k))
<1>4. /\ counted \in Stats
      /\ counted.residentBytes = stats.residentBytes - Total[gone]
      /\ counted.peakBytes = stats.peakBytes
  BY <1>1, EvictType
<1>5. stats' = [counted EXCEPT
                  !.residentBytes = counted.residentBytes + Size[k],
                  !.peakBytes = Higher(counted.peakBytes,
                                       counted.residentBytes + Size[k])]
  BY DEF EvictAndAdmit
<1> HIDE DEF counted
<1>6. /\ stats' \in Stats
      /\ stats'.residentBytes = stats.residentBytes - Total[gone] + Size[k]
      /\ stats'.peakBytes = Higher(stats.peakBytes, stats'.residentBytes)
  <2> DEFINE bytes == counted.residentBytes + Size[k]
             peak == Higher(counted.peakBytes, bytes)
  <2>1. bytes \in Int /\ peak \in Int
    BY <1>3, <1>4 DEF Stats, Higher
  <2>2. stats' = [counted EXCEPT !.residentBytes = bytes, !.peakBytes = peak]
    BY <1>5
  <2> HIDE DEF bytes, peak
  <2>3. stats' \in Stats
    BY <1>4, <2>1, <2>2 DEF Stats
  <2>4. stats'.residentBytes = bytes /\ stats'.peakBytes = peak
    BY <1>4, <2>2 DEF Stats
  <2> QED
    BY <1>4, <2>3, <2>4 DEF bytes, peak
<1>7. entries' \in [resident' -> Entry]
  BY <1>1, <1>2 DEF EvictAndAdmit, TypeOK, resident, Entry
<1>8. TypeOK'
  BY <1>1, <1>2, <1>6, <1>7, RememberEvictedType DEF EvictAndAdmit, TypeOK
<1>9. Total[resident'] = stats'.residentBytes
  <2>1. Total[resident \ gone] = stats.residentBytes - Total[gone]
    BY <1>1, TotalSplit DEF Accounts, WithinCapacity
  <2>2. Total[(resident \ gone) \cup {k}] = Total[resident \ gone] + Size[k]
    BY <1>1, <1>2, TotalAdd
  <2> QED
    BY <1>2, <1>6, <2>1, <2>2
<1>10. stats'.residentBytes <= Capacity
  <2>1. Size[k] <= Capacity - (stats.residentBytes - Total[gone])
    BY DEF EvictAndAdmit, Fits
  <2> QED
    BY <1>1, <1>3, <1>6, <2>1 DEF TypeOK, Stats
<1> QED
  BY <1>1, <1>3, <1>6, <1>8, <1>9, <1>10
  DEF Accounts, WithinCapacity, Higher, TypeOK, Stats

LEMMA BeginAccessSetAccounts ==
  ASSUME Accounts, NEW cycle \in Nat, NEW layer \in Nat,
         NEW selected \in SUBSET Keys, BeginAccessSet(cycle, layer, selected)
  PROVE  Accounts'
<1>1. TypeOK
  BY DEF Accounts
<1>2. resident' = resident /\ stats' = stats /\ resident \subseteq Keys
  BY <1>1 DEF BeginAccessSet, TypeOK, resident
<1>3. entries' \in [resident' -> Entry]
  BY <1>1, <1>2 DEF BeginAccessSet, TypeOK, resident, Entry
<1>4. liveFrequency' \in [Keys -> Nat] /\ liveTotal' \in Nat
  BY <1>1, SubsetsOfKeysAreFinite DEF BeginAccessSet, TypeOK
<1>5. TypeOK'
  BY <1>1, <1>2, <1>3, <1>4 DEF BeginAccessSet, TypeOK
<1> QED
  BY <1>2, <1>5 DEF Accounts, WithinCapacity

LEMMA NextAccounts == Accounts /\ [Next]_vars => Accounts'
<1> SUFFICES ASSUME Accounts, [Next]_vars
             PROVE  Accounts'
  OBVIOUS
<1>1. ASSUME UNCHANGED vars
      PROVE  Accounts'
  BY <1>1 DEF vars, Accounts, TypeOK, WithinCapacity, resident
<1>2. ASSUME NEW k \in protected, GetOrLoad(k)
      PROVE  Accounts'
  <2>1. k \in Keys
    BY DEF Accounts, TypeOK
  <2>2. CASE Hit(k)
    BY <2>2, HitAccounts
  <2>3. CASE Transient(k)
    BY <2>3, <1>1 DEF Transient
  <2>4. CASE BypassAtOnce(k)
    BY <2>4, BypassAtOnceAccounts
  <2>5. ASSUME NEW gone \in SUBSET Candidates, EvictAndBypass(k, gone)
        PROVE  Accounts'
    BY <2>5, EvictAndBypassAccounts
  <2>6. ASSUME NEW gone \in SUBSET Candidates, EvictAndAdmit(k, gone)
        PROVE  Accounts'
    BY <2>1, <2>6, EvictAndAdmitAccounts
  <2> QED
    BY <1>2, <2>2, <2>3, <2>4, <2>5, <2>6 DEF GetOrLoad
<1>3. ASSUME NEW cycle \in 0..MaxCycle, NEW layer \in Layers,
             NEW selected \in SUBSET OfLayer(layer) \ {{}},
             BeginAccessSet(cycle, layer, selected)
      PROVE  Accounts'
  <2>1. cycle \in Nat /\ layer \in Nat /\ selected \in SUBSET Keys
    BY StoreAssumption DEF Layers, OfLayer
  <2> QED
    BY <1>3, <2>1, BeginAccessSetAccounts
<1> QED
  BY <1>1, <1>2, <1>3 DEF Next

LEMMA AlwaysAccounts == Spec => []Accounts
  BY InitAccounts, NextAccounts, PTL DEF Spec

\* The state of the store stays well typed: resident, protected and once
\* evicted keys are experts of the model, and no counter goes negative.
THEOREM TypeCorrect == Spec => []TypeOK
<1>1. Accounts => TypeOK
  BY DEF Accounts
<1> QED
  BY <1>1, AlwaysAccounts, PTL

\* After any sequence of selections, loads, evictions and admissions the byte
\* account is the sum of the resident payloads, and neither it nor its peak
\* exceeds the capacity: the unsigned capacity_bytes_ - resident_bytes of
\* get_or_load never wraps around, whatever the sizes of the experts.
THEOREM StaysWithinCapacity == Spec => []WithinCapacity
<1>1. Accounts => WithinCapacity
  BY DEF Accounts
<1> QED
  BY <1>1, AlwaysAccounts, PTL

-----------------------------------------------------------------------------
(* Protection of the selected experts.                                     *)

LEMMA StepKeepsSelected ==
  ASSUME Accounts, Next
  PROVE  resident \cap protected \subseteq resident'
<1>1. ASSUME NEW k, Hit(k)
      PROVE  resident' = resident
  BY <1>1 DEF Hit, resident, Accounts, TypeOK
<1>2. ASSUME NEW k, NEW gone \in SUBSET Candidates,
             EvictAndBypass(k, gone) \/ EvictAndAdmit(k, gone)
      PROVE  resident \ Candidates \subseteq resident'
  BY <1>2 DEF EvictAndBypass, EvictAndAdmit, resident
<1>3. ASSUME NEW cycle, NEW layer, NEW selected,
             BeginAccessSet(cycle, layer, selected)
      PROVE  resident' = resident
  BY <1>3 DEF BeginAccessSet, resident
<1>4. resident \cap protected = resident \ Candidates
  BY DEF Candidates
<1> QED
  BY <1>1, <1>2, <1>3, <1>4
  DEF Next, GetOrLoad, Transient, BypassAtOnce, vars, resident

\* No load ever evicts an expert the layer under way has selected, whatever
\* the admission mode: the resident flags Engine::moe reads before the loads
\* stay true until the next selection.
THEOREM SelectedNeverEvicted == Spec => SelectedStayResident
<1>1. Accounts /\ [Next]_vars => [resident \cap protected \subseteq resident']_vars
  BY StepKeepsSelected
<1> QED
  BY <1>1, AlwaysAccounts, PTL DEF Spec, SelectedStayResident

\* Whenever the selected set fits in the store as a whole, the eviction loop
\* for any missing member of it ends with room enough, under every policy,
\* every mixture of sizes and after every history.
THEOREM AffordableSelections == Spec => []AffordableSelectionFits
<1>1. Accounts => AffordableSelectionFits
  <2> SUFFICES ASSUME Accounts, Total[protected] <= Capacity,
                      NEW k \in protected \ resident,
                      NEW gone \in SUBSET Candidates, gone = Candidates
               PROVE  Fits(k, gone)
    BY DEF AffordableSelectionFits, Victims
  <2> DEFINE kept == resident \cap protected
  <2>1. /\ resident \in SUBSET Keys /\ protected \in SUBSET Keys
        /\ kept \in SUBSET Keys /\ k \in Keys /\ k \notin kept
        /\ gone \in SUBSET resident /\ kept = resident \ gone
        /\ kept \cup {k} \in SUBSET protected
    BY DEF Accounts, TypeOK, Candidates
  <2>2. stats.residentBytes - Total[gone] = Total[kept]
    BY <2>1, TotalSplit DEF Accounts, WithinCapacity
  <2>3. Total[kept] + Size[k] <= Total[protected]
    <3> HIDE DEF kept
    <3>1. Total[kept \cup {k}] = Total[kept] + Size[k]
      BY <2>1, TotalAdd
    <3>2. Total[kept \cup {k}] <= Total[protected]
      BY <2>1, TotalMonotone
    <3> QED
      BY <3>1, <3>2
  <2>4. /\ Total[kept] \in Nat /\ Total[protected] \in Nat
        /\ Size[k] \in Nat /\ Capacity \in Nat
    BY <2>1, TotalType, StoreAssumption
  <2> QED
    BY <2>2, <2>3, <2>4 DEF Fits
<1> QED
  BY <1>1, AlwaysAccounts, PTL

-----------------------------------------------------------------------------
(* Every miss is accounted for.                                            *)

Reckoned == Accounts /\ MissesAccountedFor

LEMMA WithoutSubset ==
  ASSUME NEW S \in SUBSET Keys, NEW T \in SUBSET S
  PROVE  Cardinality(S \ T) = Cardinality(S) - Cardinality(T)
<1>1. IsFiniteSet(S) /\ S \cap T = T
  BY SubsetsOfKeysAreFinite
<1> QED
  BY <1>1, FS_Difference, SubsetsOfKeysAreFinite, ZenonT(40)

LEMMA NextReckoned == Reckoned /\ [Next]_vars => Reckoned'
<1> SUFFICES ASSUME Reckoned, [Next]_vars
             PROVE  MissesAccountedFor'
  BY NextAccounts DEF Reckoned
<1> USE DEF Reckoned, Accounts
<1>1. resident \subseteq Keys /\ TypeOK /\ stats \in Stats
  BY DEF TypeOK
<1>2. Cardinality(resident) \in Nat
  BY <1>1, SubsetsOfKeysAreFinite
<1>3. ASSUME resident' = resident, stats' = stats
      PROVE  MissesAccountedFor'
  BY <1>3 DEF MissesAccountedFor
<1>4. ASSUME UNCHANGED vars
      PROVE  MissesAccountedFor'
  BY <1>3, <1>4 DEF vars, resident
<1>5. ASSUME NEW k \in protected, GetOrLoad(k)
      PROVE  MissesAccountedFor'
  <2>1. CASE Hit(k)
    BY <1>3, <2>1 DEF Hit, TypeOK, resident
  <2>2. CASE Transient(k)
    BY <1>4, <2>2 DEF Transient
  <2>3. CASE BypassAtOnce(k)
    <3>1. resident' = resident
      BY <2>3 DEF BypassAtOnce, resident
    <3>2. /\ stats'.misses = stats.misses + 1
          /\ stats'.bypasses = stats.bypasses + 1
          /\ stats'.evictions = stats.evictions
      BY <1>1, <2>3, MissedType DEF BypassAtOnce, Stats
    <3> QED
      BY <1>1, <1>2, <3>1, <3>2 DEF MissesAccountedFor, Stats
  <2>4. ASSUME NEW gone \in SUBSET Candidates, EvictAndBypass(k, gone)
        PROVE  MissesAccountedFor'
    <3>1. gone \in SUBSET resident
      BY DEF Candidates
    <3>2. resident' = resident \ gone
      BY <2>4 DEF EvictAndBypass, resident
    <3>3. /\ stats'.misses = stats.misses + 1
          /\ stats'.bypasses = stats.bypasses + 1
          /\ stats'.evictions = stats.evictions + Cardinality(gone)
      BY <1>1, <2>4, <3>1, EvictType DEF EvictAndBypass, Stats
    <3>4. /\ Cardinality(resident') = Cardinality(resident) - Cardinality(gone)
          /\ Cardinality(gone) \in Nat
      BY <1>1, <3>1, <3>2, WithoutSubset, SubsetsOfKeysAreFinite
    <3> QED
      BY <1>1, <1>2, <3>3, <3>4 DEF MissesAccountedFor, Stats
  <2>5. ASSUME NEW gone \in SUBSET Candidates, EvictAndAdmit(k, gone)
        PROVE  MissesAccountedFor'
    <3>1. gone \in SUBSET resident /\ k \in Keys
      BY DEF Candidates, TypeOK
    <3>2. resident' = (resident \ gone) \cup {k} /\ k \notin resident
      BY <2>5 DEF EvictAndAdmit, LoopRuns, Misses, resident
    <3> DEFINE counted == Evict(gone, Missed(k))
    <3>3. /\ counted \in Stats
          /\ counted.misses = stats.misses + 1
          /\ counted.bypasses = stats.bypasses
          /\ counted.evictions = stats.evictions + Cardinality(gone)
      BY <1>1, <3>1, EvictType
    <3>4. stats' = [counted EXCEPT
                      !.residentBytes = counted.residentBytes + Size[k],
                      !.peakBytes = Higher(counted.peakBytes,
                                           counted.residentBytes + Size[k])]
      BY <2>5 DEF EvictAndAdmit
    <3> HIDE DEF counted
    <3>5. /\ stats'.misses = counted.misses
          /\ stats'.bypasses = counted.bypasses
          /\ stats'.evictions = counted.evictions
      BY <3>3, <3>4 DEF Stats
    <3>6. Cardinality(resident \ gone) = Cardinality(resident) - Cardinality(gone)
      BY <1>1, <3>1, WithoutSubset
    <3>7. Cardinality(resident') = Cardinality(resident \ gone) + 1
      BY <1>1, <3>1, <3>2, FS_AddElement, SubsetsOfKeysAreFinite
    <3>8. Cardinality(gone) \in Nat
      BY <1>1, <3>1, SubsetsOfKeysAreFinite
    <3> QED
      BY <1>1, <1>2, <3>3, <3>5, <3>6, <3>7, <3>8 DEF MissesAccountedFor, Stats
  <2> QED
    BY <1>5, <2>1, <2>2, <2>3, <2>4, <2>5 DEF GetOrLoad
<1>6. ASSUME NEW cycle, NEW layer, NEW selected,
             BeginAccessSet(cycle, layer, selected)
      PROVE  MissesAccountedFor'
  BY <1>3, <1>6 DEF BeginAccessSet, resident
<1> QED
  BY <1>4, <1>5, <1>6 DEF Next

LEMMA AlwaysReckoned == Spec => []Reckoned
<1>1. Init => Reckoned
  BY InitAccounts, FS_EmptySet DEF Init, Reckoned, MissesAccountedFor, resident
<1> QED
  BY <1>1, NextReckoned, PTL DEF Spec

-----------------------------------------------------------------------------
(* The order and the purpose of evictions.                                  *)

LEMMA ConcatKeepsFirst ==
  ASSUME NEW s \in Seq(Int), NEW t \in Seq(Int), Len(s) > 0
  PROVE  /\ s \o t \in Seq(Int) /\ Len(s \o t) = Len(s) + Len(t)
         /\ (s \o t)[1] = s[1]
<1>1. Len(s) \in Nat /\ Len(t) \in Nat
  BY LenProperties
<1>2. /\ s \o t \in Seq(Int) /\ Len(s \o t) = Len(s) + Len(t)
      /\ \A i \in 1..(Len(s) + Len(t)) :
           (s \o t)[i] = IF i <= Len(s) THEN s[i] ELSE t[i - Len(s)]
  BY ConcatProperties
<1>3. 1 \in 1..(Len(s) + Len(t)) /\ 1 <= Len(s)
  BY <1>1
<1>4. (s \o t)[1] = IF 1 <= Len(s) THEN s[1] ELSE t[1 - Len(s)]
  BY <1>2, <1>3, Zenon
<1> QED
  BY <1>2, <1>3, <1>4

\* Under least_stale the first number of an entry's rank is its staleness.
LEMMA StalenessLeads ==
  ASSUME TypeOK, mode = "least_stale", NEW k \in resident
  PROVE  /\ Rank(k)[1] = (IF Current(k) THEN 1 ELSE 0)
         /\ DOMAIN Rank(k) = 1..4
<1> DEFINE stale == IF Current(k) THEN 1 ELSE 0
           spatial == SpatialRank(k)
           access == <<entries[k].lastAccess>>
<1>1. k.layer \in Nat /\ entries[k].lastAccess \in Nat
  BY StoreAssumption DEF TypeOK, Entry
<1>2. stale \in Int /\ access \in Seq(Int) /\ Len(access) = 1
  BY <1>1
<1>3. spatial \in Seq(Int) /\ Len(spatial) = 2
  BY <1>1 DEF SpatialRank
<1>4. Rank(k) = <<stale>> \o spatial \o access
  BY DEF Rank
<1> HIDE DEF stale, spatial, access
<1> DEFINE first == <<stale>>
           front == first \o spatial
<1>5. first \in Seq(Int) /\ Len(first) = 1 /\ first[1] = stale
  BY <1>2
<1> HIDE DEF first
<1>6. /\ front \in Seq(Int) /\ Len(front) = Len(first) + Len(spatial)
      /\ front[1] = first[1]
  BY <1>3, <1>5, ConcatKeepsFirst, Len(first) > 0, Zenon
<1> HIDE DEF front
<1>7. /\ front \o access \in Seq(Int)
      /\ Len(front \o access) = 4 /\ (front \o access)[1] = stale
  <2>1. Len(front) = 3 /\ Len(front) > 0
    BY <1>3, <1>5, <1>6
  <2>2. /\ front \o access \in Seq(Int)
        /\ Len(front \o access) = Len(front) + Len(access)
        /\ (front \o access)[1] = front[1]
    BY <1>2, <1>6, <2>1, ConcatKeepsFirst, Zenon
  <2> QED
    BY <1>2, <1>5, <1>6, <2>1, <2>2
<1>8. Rank(k) = front \o access
  BY <1>4 DEF front, first
<1>9. DOMAIN Rank(k) = 1..4 /\ Rank(k)[1] = stale
  BY <1>7, <1>8, LenProperties
<1> QED
  BY <1>9 DEF stale

\* The entries that leave are those the eviction loop chose.
LEMMA OnlyVictimsLeave ==
  ASSUME NEW k \in protected, GetOrLoad(k), TypeOK, resident \ resident' # {}
  PROVE  \E gone \in SUBSET Candidates :
           Victims(k, gone) /\ resident \ resident' \subseteq gone
                           /\ gone \cap resident' = {}
<1>1. ~Hit(k) /\ ~Transient(k) /\ ~BypassAtOnce(k)
  BY DEF Hit, Transient, BypassAtOnce, TypeOK, resident, vars
<1>2. PICK gone \in SUBSET Candidates :
             EvictAndBypass(k, gone) \/ EvictAndAdmit(k, gone)
  BY <1>1 DEF GetOrLoad
<1>3. Victims(k, gone) /\ k \notin resident /\ gone \subseteq resident
  BY <1>2 DEF EvictAndBypass, EvictAndAdmit, LoopRuns, Misses, Candidates
<1>4. resident' = resident \ gone \/ resident' = (resident \ gone) \cup {k}
  BY <1>2 DEF EvictAndBypass, EvictAndAdmit, resident
<1> QED
  BY <1>3, <1>4

LEMMA StepLetsStaleGoFirst ==
  ASSUME TypeOK, Next, mode = "least_stale",
         NEW v \in resident \ resident', Current(v),
         NEW w \in (resident \cap resident') \ protected
  PROVE  Current(w)
<1>1. ASSUME NEW cycle, NEW layer, NEW selected,
             BeginAccessSet(cycle, layer, selected)
      PROVE  FALSE
  BY <1>1 DEF BeginAccessSet, resident
<1>2. PICK k \in protected : GetOrLoad(k)
  BY <1>1 DEF Next
<1>3. PICK gone \in SUBSET Candidates :
             Victims(k, gone) /\ resident \ resident' \subseteq gone
                             /\ gone \cap resident' = {}
  BY <1>2, OnlyVictimsLeave
<1>4. v \in gone /\ w \in Candidates \ gone
  BY <1>3 DEF Candidates
<1>5. Before(v, w)
  BY <1>3, <1>4 DEF Victims
<1>6. PICK i \in 1..4 : /\ Rank(v)[i] < Rank(w)[i]
                        /\ \A j \in 1..(i - 1) : Rank(v)[j] = Rank(w)[j]
  BY <1>5, StalenessLeads DEF Before
<1>7. Rank(v)[1] = 1 /\ Rank(w)[1] = (IF Current(w) THEN 1 ELSE 0)
  BY StalenessLeads
<1>8. CASE i = 1
  BY <1>6, <1>7, <1>8
<1>9. CASE i # 1
  <2>1. 1 \in 1..(i - 1)
    BY <1>9
  <2> QED
    BY <1>6, <1>7, <2>1
<1> QED
  BY <1>8, <1>9

\* Among payloads of one size, one eviction is room enough.
LEMMA OneEvictionMakesRoom ==
  ASSUME Accounts, NEW k \in protected, NEW gone \in SUBSET Candidates,
         gone # {}, \A j \in resident : Size[j] = Size[k]
  PROVE  Fits(k, gone)
<1>1. PICK v : v \in gone
  OBVIOUS
<1>2. /\ resident \in SUBSET Keys /\ gone \in SUBSET resident /\ {v} \in SUBSET gone
      /\ v \in Keys /\ k \in Keys /\ Size[v] = Size[k]
  BY <1>1 DEF Accounts, TypeOK, Candidates
<1>3. Total[{v}] = Size[k] /\ Total[{v}] <= Total[gone]
  BY <1>2, TotalAssumption, TotalMonotone
<1>4. Total[gone] \in Nat /\ Size[k] \in Nat /\ Capacity \in Nat
  BY <1>2, TotalType, StoreAssumption
<1>5. stats.residentBytes <= Capacity /\ stats.residentBytes \in Int
  BY StoreAssumption DEF Accounts, WithinCapacity, TypeOK, Stats
<1> QED
  BY <1>3, <1>4, <1>5 DEF Fits

LEMMA StepEvictsWithReason ==
  ASSUME Accounts, Next, \A j, k \in resident \cup protected : Size[j] = Size[k],
         stats'.evictions > stats.evictions
  PROVE  stats'.bypasses = stats.bypasses
<1>1. TypeOK /\ stats \in Stats
  BY DEF Accounts, TypeOK
<1>2. stats'.evictions # stats.evictions
  BY <1>1 DEF Stats
<1>3. stats' # stats
  BY <1>2
<1>4. PICK k \in protected : GetOrLoad(k)
  BY <1>3 DEF Next, BeginAccessSet
<1>5. ~Hit(k) /\ ~Transient(k)
  BY <1>3 DEF Hit, Transient, vars
<1>6. ~BypassAtOnce(k)
  BY <1>1, <1>2, MissedType DEF BypassAtOnce, Stats
<1>7. PICK gone \in SUBSET Candidates :
             EvictAndBypass(k, gone) \/ EvictAndAdmit(k, gone)
  BY <1>4, <1>5, <1>6 DEF GetOrLoad
<1>8. gone \in SUBSET Keys
  BY <1>1 DEF TypeOK, Candidates
<1>9. ~EvictAndBypass(k, gone)
  <2> SUFFICES ASSUME EvictAndBypass(k, gone) PROVE FALSE
    OBVIOUS
  <2>1. ~Fits(k, gone)
    BY DEF EvictAndBypass
  <2>2. gone = {}
    BY <2>1, OneEvictionMakesRoom
  <2>3. stats'.evictions = stats.evictions + Cardinality(gone)
    BY <1>1, <1>8, EvictType DEF EvictAndBypass, Stats
  <2> QED
    BY <1>1, <1>2, <2>2, <2>3, FS_EmptySet DEF Stats
<1>10. stats'.bypasses = stats.bypasses
  <2> DEFINE counted == Evict(gone, Missed(k))
  <2>1. counted \in Stats /\ counted.bypasses = stats.bypasses
    BY <1>1, <1>8, EvictType
  <2>2. stats' = [counted EXCEPT
                    !.residentBytes = counted.residentBytes + Size[k],
                    !.peakBytes = Higher(counted.peakBytes,
                                         counted.residentBytes + Size[k])]
    BY <1>7, <1>9 DEF EvictAndAdmit
  <2> HIDE DEF counted
  <2> QED
    BY <2>1, <2>2 DEF Stats
<1> QED
  BY <1>10

\* Evictions are in order and have their reason, for every policy, every
\* mixture of sizes and every history of get_or_load and begin_access_set: the
\* least_stale loop gives up an entry of the current cycle only when no
\* unprotected older one is left, among experts of one size nothing is evicted
\* for a payload that is then bypassed, and the statistics account for every
\* miss.
THEOREM EvictionsHaveTheirReason == Spec => EvictsForAReason
<1>1. Reckoned /\ [Next]_vars =>
        [mode = "least_stale" /\ (\E k \in resident \ resident' : Current(k))
           => \A k \in (resident \cap resident') \ protected : Current(k)]_vars
  BY StepLetsStaleGoFirst DEF Reckoned, Accounts
<1>2. Reckoned /\ [Next]_vars =>
        [(\A j, k \in resident \cup protected : Size[j] = Size[k])
           => (stats'.evictions > stats.evictions
                 => stats'.bypasses = stats.bypasses)]_vars
  BY StepEvictsWithReason DEF Reckoned
<1>3. Reckoned => TypeOK /\ MissesAccountedFor
  BY DEF Reckoned, Accounts
<1> QED
  BY <1>1, <1>2, <1>3, AlwaysReckoned, PTL
  DEF Spec, EvictsForAReason, StaleGoFirst, NoEvictionInVain
=============================================================================
