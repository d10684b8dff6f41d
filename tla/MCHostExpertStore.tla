-------------------------- MODULE MCHostExpertStore -------------------------
(***************************************************************************)
(* Instances of HostExpertStore for TLC: four experts on three layers.     *)
(***************************************************************************)
EXTENDS HostExpertStore, Functions

Expert(l, e) == [layer |-> l, expert |-> e]

MCKeys == {Expert(1, 0), Expert(2, 0), Expert(2, 1), Expert(3, 0)}

\* Charged bytes in units of one projection: two experts are of one size.
MCMixed == [k \in MCKeys |-> IF k = Expert(2, 1) THEN 3
                             ELSE IF k = Expert(3, 0) THEN 4 ELSE 2]

MCTotal(size) ==
  [S \in SUBSET MCKeys |->
     FoldFunctionOnSet(LAMBDA a, b : a + b, 0, size, S)]
MCMixedTotal == MCTotal(MCMixed)

\* A prior learned from three routed experts, two of them the first layer's.
MCPrior == [k \in MCKeys |-> IF k = Expert(1, 0) THEN 2
                             ELSE IF k = Expert(3, 0) THEN 1 ELSE 0]
MCAllModes == AllModes
=============================================================================
