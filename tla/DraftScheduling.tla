--------------------------- MODULE DraftScheduling ---------------------------
(***************************************************************************)
(* The draft scheduler under every sequence of requests and verified        *)
(* blocks: a provider calls select, drafts that many tokens, and reports    *)
(* the verification to observe before it selects again.                     *)
(***************************************************************************)
EXTENDS DraftScheduler

CONSTANTS
  Policies,     \* the policies to consider: TRUE is adaptive
  Requests,     \* max_draft_tokens of the requests
  Costs,        \* <<payload loads, assignments>> of a verified position
  MaxTrials     \* bound on prefix_trials_[0]

\* The parameters; MCRuntime has TLC evaluate it.
SchedulingAssumption ==
  /\ Policies \subseteq BOOLEAN
  /\ Requests \subseteq Nat
  /\ Costs \subseteq Nat \X Nat

VARIABLES
  scheduler,
  drafted,      \* the length selected and not yet observed: at most one
  rejected,     \* history: length of the last drafted block if it was
                \* rejected, else 0
  ordinary      \* history: positive requests answered with 0 since then

draftVars == <<scheduler, drafted, rejected, ordinary>>

DraftTypeOK ==
  /\ scheduler \in Scheduler
  /\ drafted \in SUBSET ({0} \cup Lengths)
  /\ rejected \in {0} \cup Lengths
  /\ ordinary \in Nat

DraftInit ==
  /\ \E adaptive \in Policies : scheduler = NewScheduler(adaptive)
  /\ drafted = {}
  /\ rejected = 0
  /\ ordinary = 0

Select(request) ==
  /\ drafted = {}
  /\ scheduler.trials[1] < MaxTrials
  /\ drafted' = {SelectedLength(scheduler, request)}
  /\ scheduler' = AfterSelect(scheduler, request)
  \* Two are as good as many.
  /\ ordinary' = IF request > 0 /\ drafted' = {0} THEN Min({ordinary + 1, 2})
                 ELSE ordinary
  /\ UNCHANGED rejected

Verification(proposed, accepted, cost) ==
  LET evaluated == proposed + 1 IN
  [proposed |-> proposed, accepted |-> accepted,
   evaluated |-> evaluated, discarded |-> proposed - accepted,
   loads |-> cost[1] * evaluated, assignments |-> cost[2] * evaluated]

Observe(accepted, cost) ==
  \E length \in drafted :
    LET v == Verification(length, accepted, cost) IN
    /\ Observable(v)
    /\ drafted' = {}
    /\ scheduler' = AfterObserve(scheduler, v)
    /\ IF length = 0 THEN UNCHANGED <<rejected, ordinary>>
       ELSE /\ rejected' = IF accepted < length THEN length ELSE 0
            /\ ordinary' = 0

DraftNext ==
  \/ \E request \in Requests : Select(request)
  \/ \E accepted \in 0..MaximumLength, cost \in Costs : Observe(accepted, cost)

DraftSpec == DraftInit /\ [][DraftNext]_draftVars

-----------------------------------------------------------------------------
(* Properties                                                              *)

\* The survival estimates are estimates of prefixes: a later position is
\* never tried or accepted more often than an earlier one, and never
\* accepted more often than tried.
PrefixCountsAreOrdered ==
  \A p \in Positions :
    /\ scheduler.successes[p] <= scheduler.trials[p]
    /\ p > 1 => /\ scheduler.trials[p] <= scheduler.trials[p - 1]
                /\ scheduler.successes[p] <= scheduler.successes[p - 1]

\* Adaptive growth never skips a rung: a length above the first is drafted
\* only after the rung before it was drafted and its last position accepted at
\* least once.
GrowsRungByRung ==
  scheduler.adaptive =>
    \A length \in drafted \ {0, 1} :
      LET before == RungOf(length) - 1 IN
      before \in scheduler.observed /\ scheduler.successes[ladder[before]] > 0

\* Adaptive growth climbs the ladder rung by rung, on estimates that are
\* estimates of prefixes.
LadderIsClimbed == DraftTypeOK /\ PrefixCountsAreOrdered /\ GrowsRungByRung

\* The first draft after a rejected block is shorter than that block.
RejectionBacksOff ==
  scheduler.adaptive /\ rejected > 0 /\ ordinary = 0 /\ drafted = {}
    => \A length \in drafted' : length < rejected

\* A rejection at the smallest rung costs one ordinary step and no more: the
\* next positive request drafts one token again, whatever the survival.
RejectionIsRetried ==
  scheduler.adaptive /\ rejected = 1 /\ drafted = {} => ordinary' <= 1

\* A rejected block makes the next draft shorter, and one of a single token
\* costs one ordinary step and no more.
RejectionIsHeeded == [][RejectionBacksOff /\ RejectionIsRetried]_draftVars
=============================================================================
