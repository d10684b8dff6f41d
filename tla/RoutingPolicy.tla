---------------------------- MODULE RoutingPolicy ----------------------------
(***************************************************************************)
(* The router of the reference model: route and stable_latent_moe of        *)
(* reference/k3x_ref/moe.py and select_routing of routing_policy.py.  One   *)
(* behaviour is one call of stable_latent_moe: the policy is validated, the *)
(* tokens are routed, in one batch along the natural path or one by one     *)
(* through the policy, and the contributions of the experts are added to    *)
(* each token in the order of its slots.                                    *)
(*                                                                         *)
(* Scores are small naturals, so that every comparison is exact and the     *)
(* comparison epsilon, which absorbs rounding, is zero.  A weight is the    *)
(* fraction [num, den].  An expert's output is the expert's number.         *)
(***************************************************************************)
EXTENDS Integers, Sequences, FiniteSets, SequencesExt, FiniteSetsExt

CONSTANTS
  Experts,          \* expert numbers, 1..n
  Ladder,           \* _K_LADDER
  AdaptiveTopK,     \* the natural top K adaptive routing requires (16)
  TopKs,            \* values of cfg.top_k to consider
  Batches,          \* batches of tokens: sequences of score functions
  Biases,           \* correction biases, functions from Experts
  Targets, Gaps,    \* mass targets and boundary gaps, in units of Unit
  Unit

\* cfg.top_k is validated against the number of experts, and the ladder and the
\* scores are those of the code: no K of zero, no negative score.
ASSUME RouterAssumption ==
  /\ IsFiniteSet(Experts) /\ Experts \subseteq Nat
  /\ Ladder \subseteq Nat \ {0}
  /\ TopKs \subseteq 1..Cardinality(Experts)
  /\ Batches \subseteq Seq([Experts -> Nat]) \ {<<>>}
  /\ Biases \subseteq [Experts -> Int]

RoutingModes == {"natural", "fixed", "adaptive"}
RoutingPolicies == [mode : RoutingModes, fixedK : Ladder \cup {0}, floor : Ladder \cup {0},
             target : Targets, gap : Gaps]

VARIABLES
  batch, bias, topK, policy,    \* the arguments of the call
  pc,                           \* "validate", "route", "mix", "done", "failed"
  decisions,                    \* one per token routed so far
  mixed                         \* contributions added to each token so far

routerVars == <<batch, bias, topK, policy, pc, decisions, mixed>>

-----------------------------------------------------------------------------
(* select_routing                                                          *)

\* argsort(scores + bias, descending, stable): a tie goes to the lower expert.
Adjusted(scores, e) == scores[e] + bias[e]
Before(scores, e, f) ==
  \/ Adjusted(scores, e) > Adjusted(scores, f)
  \/ Adjusted(scores, e) = Adjusted(scores, f) /\ e < f
Rank(scores, e) == Cardinality({f \in Experts : f = e \/ Before(scores, f, e)})
Order(scores) ==
  [i \in 1..Cardinality(Experts) |-> CHOOSE e \in Experts : Rank(scores, e) = i]

SumOf(f) == FoldFunction(+, 0, f)
Mass(scores, chosen) == SumOf([i \in DOMAIN chosen |-> scores[chosen[i]]])
Prefix(scores, k) == SubSeq(Order(scores), 1, k)
NaturalMass(scores) == Mass(scores, Prefix(scores, topK))

\* confidence >= gap, where confidence = max(0, p[k] - p[k+1]) / p[1]: the
\* order is that of the adjusted scores, so a gap may be negative and p[1] zero.
Confident(scores, k, gap) ==
  LET natural == Prefix(scores, topK)
      drop    == scores[natural[k]] - scores[natural[k + 1]]
      top     == scores[natural[1]]
  IN  \/ k >= topK
      \/ gap = 0
      \/ drop > 0 /\ drop * Unit >= gap * top

\* k >= exp(H(p)), the effective support, for p the natural distribution:
\* exp(H) = M / (product of s^(s/M)) for scores s of sum M.
ProductOf(f) == FoldFunction(LAMBDA x, y : x * y, 1, f)
Supports(scores, k) ==
  LET total    == NaturalMass(scores)
      natural  == Prefix(scores, topK)
      positive == {i \in DOMAIN natural : scores[natural[i]] > 0}
  IN  (k ^ total) * ProductOf([i \in positive |-> scores[natural[i]] ^ scores[natural[i]]])
        >= total ^ total

Adequate(scores, k) ==
  /\ Mass(scores, Prefix(scores, k)) * Unit >= policy.target * NaturalMass(scores)
  /\ Supports(scores, k)
  /\ Confident(scores, k, policy.gap)

\* The first candidate of the ladder, from the floor up, that passes all tests.
ChooseAdaptive(scores, floor) ==
  LET adequate == {k \in Ladder : k <= topK /\ k >= floor /\ Adequate(scores, k)}
  IN  IF adequate = {} THEN topK ELSE Min(adequate)

\* Mutant: the floor replaces the K that was asked for.
SelectedKReplaced(scores, floor) ==
  CASE policy.mode = "natural"  -> topK
    [] policy.mode = "fixed"    -> IF floor = 0 THEN policy.fixedK ELSE floor
    [] policy.mode = "adaptive" -> ChooseAdaptive(scores, floor)
SelectedK(scores, floor) ==
  CASE policy.mode = "natural"  -> topK
    [] policy.mode = "fixed"    -> IF policy.fixedK > floor THEN policy.fixedK ELSE floor
    [] policy.mode = "adaptive" -> ChooseAdaptive(scores, floor)

Decision(scores) ==
  LET k        == SelectedK(scores, policy.floor)
      selected == Prefix(scores, k)
  IN  [ experts   |-> selected,
        weights   |-> [i \in 1..k |-> [num |-> scores[selected[i]],
                                       den |-> Mass(scores, selected)]],
        escalated |-> k > SelectedK(scores, 0) ]

\* "zero natural routing mass", "zero selected routing mass".
Refused(scores) ==
  \/ NaturalMass(scores) = 0
  \/ Mass(scores, Prefix(scores, SelectedK(scores, policy.floor))) = 0

\* validate_routing_policy.
Valid ==
  /\ policy.floor # 0 /\ policy.mode # "natural" => policy.floor <= topK
  /\ policy.mode = "fixed" => policy.fixedK \in Ladder /\ policy.fixedK <= topK
  /\ policy.mode = "adaptive" => topK = AdaptiveTopK

-----------------------------------------------------------------------------
(* stable_latent_moe                                                       *)

\* route: the natural path; a zero mass is clamped, the weights are then zero.
Route(scores) ==
  LET selected == Prefix(scores, topK)
      total    == Mass(scores, selected)
  IN  [ experts   |-> selected,
        weights   |-> [i \in 1..topK |-> [num |-> scores[selected[i]],
                                          den |-> IF total = 0 THEN 1 ELSE total]] ]

\* use_natural_batch: fixed routing of the natural K is the natural path too.
NaturalBatch ==
  \/ policy.mode = "natural"
  \/ policy.mode = "fixed" /\ topK = SelectedK(<<>>, policy.floor)

RouterInit ==
  /\ batch \in Batches /\ bias \in Biases /\ topK \in TopKs
  /\ policy \in {p \in RoutingPolicies : p.mode # "fixed" => p.fixedK = 0}
  /\ pc = "validate" /\ decisions = <<>> /\ mixed = <<>>

Validate ==
  /\ pc = "validate"
  /\ pc' = IF Valid THEN "route" ELSE "failed"
  /\ UNCHANGED <<batch, bias, topK, policy, decisions, mixed>>

RouteBatch ==
  /\ pc = "route" /\ NaturalBatch
  /\ decisions' = [t \in DOMAIN batch |-> Route(batch[t])]
  /\ pc' = "mix"
  /\ UNCHANGED <<batch, bias, topK, policy, mixed>>

\* One token through the policy; a refusal fails the whole call.
RouteToken ==
  /\ pc = "route" /\ ~NaturalBatch
  /\ LET scores == batch[Len(decisions) + 1] IN
     IF Refused(scores)
     THEN pc' = "failed" /\ UNCHANGED decisions
     ELSE /\ decisions' = Append(decisions, Decision(scores))
          /\ pc' = IF Len(decisions') = Len(batch) THEN "mix" ELSE pc
  /\ UNCHANGED <<batch, bias, topK, policy, mixed>>

\* contribution * expert_output, slot by slot.
Contributions(d) ==
  [i \in DOMAIN d.experts |-> [expert |-> d.experts[i], weight |-> d.weights[i]]]

MixToken ==
  /\ pc = "mix"
  /\ mixed' = Append(mixed, Contributions(decisions[Len(mixed) + 1]))
  /\ pc' = IF Len(mixed') = Len(batch) THEN "done" ELSE pc
  /\ UNCHANGED <<batch, bias, topK, policy, decisions>>

RouterNext == Validate \/ RouteBatch \/ RouteToken \/ MixToken
RouterSpec == RouterInit /\ [][RouterNext]_routerVars

-----------------------------------------------------------------------------
\* Types: a decision names distinct experts, with one weight each.
RouterTypeOK ==
  /\ pc \in {"validate", "route", "mix", "done", "failed"}
  /\ Len(decisions) <= Len(batch) /\ Len(mixed) <= Len(decisions)
  /\ \A t \in DOMAIN decisions :
       LET d == decisions[t] IN
       /\ d.experts \in Seq(Experts) /\ IsInjective(d.experts)
       /\ Len(d.weights) = Len(d.experts)
       /\ \A i \in DOMAIN d.weights : d.weights[i].num \in Nat /\ d.weights[i].den # 0
       /\ ~NaturalBatch => d.escalated \in BOOLEAN

\* An external signal can only raise K: whatever the policy, a decision takes
\* no fewer experts than it would without the quality floor, at least the
\* floor itself unless routing is natural, and never more than the checkpoint's
\* K; "escalated", which only the policy reports, tells exactly that the floor
\* added experts.
FloorRaises ==
  \A t \in DOMAIN decisions :
    LET k == Len(decisions[t].experts)
        unfloored == SelectedK(batch[t], 0)
    IN  /\ unfloored <= k /\ k <= topK
        /\ policy.mode # "natural" => policy.floor <= k
        /\ ~NaturalBatch => (decisions[t].escalated <=> unfloored < k)

\* Every path keeps the natural order: the experts taken are the best of the
\* adjusted scores, best first, the lower number first in a tie.
TakesTheBest ==
  \A t \in DOMAIN decisions :
    LET chosen == decisions[t].experts IN
    /\ \A i \in 2..Len(chosen) : Before(batch[t], chosen[i - 1], chosen[i])
    /\ \A e \in Experts \ ToSet(chosen) : Before(batch[t], Last(chosen), e)

\* What is mixed into a token is a convex combination, in slot order, of the
\* experts of its own decision: the weights are the unbiased scores and add up
\* to one, whichever path routed it and however many experts it took.
MixesConvexly ==
  \A t \in DOMAIN mixed :
    /\ [i \in DOMAIN mixed[t] |-> mixed[t][i].expert] = decisions[t].experts
    /\ LET den == mixed[t][1].weight.den
       IN  /\ \A i \in DOMAIN mixed[t] :
                mixed[t][i].weight = [num |-> batch[t][mixed[t][i].expert], den |-> den]
           /\ NaturalMass(batch[t]) # 0 =>
                den = SumOf([i \in DOMAIN mixed[t] |-> mixed[t][i].weight.num])

\* The batched natural path and the policy's own natural order agree wherever
\* the policy accepts the token, so that switching the policy on, or asking it
\* for the natural K, changes no weight.
PathsAgree ==
  \A t \in DOMAIN decisions :
    NaturalBatch /\ ~Refused(batch[t]) =>
      /\ decisions[t].experts = Decision(batch[t]).experts
      /\ decisions[t].weights = Decision(batch[t]).weights

\* A quality floor only ever adds experts; every path takes the best of
\* the adjusted scores and mixes the experts of each token convexly by its
\* own unbiased scores; the batched path and the policy agree.
FloorOnlyRaises ==
  RouterTypeOK /\ FloorRaises /\ TakesTheBest /\ MixesConvexly /\ PathsAgree
=============================================================================
