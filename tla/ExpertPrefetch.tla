--------------------------- MODULE ExpertPrefetch ---------------------------
(***************************************************************************)
(* Prefetch of routed experts (AsyncMxfp4Pipeline and its use by the CUDA   *)
(* backend): the experts of a layer are staged in one pinned slab and       *)
(* copied to one device slab on a transfer stream, while the caller works;  *)
(* the token it holds admits one use, whose kernels run on the compute      *)
(* stream after the copy.                                                   *)
(*                                                                         *)
(* External: a stream runs what was enqueued in order, at any later time;   *)
(* an event that a stream waits for is the one recorded last when it was    *)
(* told to wait.  Kernels, activations and outputs are the experts they     *)
(* read; clocks and byte counters are left out.                             *)
(***************************************************************************)
EXTENDS Integers, Sequences

CONSTANTS
  Groups,         \* the sequences of experts that are prefetched
  PrefetchLayers, \* the layers they are of
  Slots,          \* experts that fit in a slab
  Nothing,        \* what a slab holds before its first expert
  MaxPrefetches,  \* bound on the tokens given out
  MaxUses,        \* bound on the calls that use one
  MaxCudaFaults   \* bound on CUDA calls that fail

Experts == UNION {{group[slot] : slot \in DOMAIN group} : group \in Groups}

ASSUME PrefetchAssumption ==
  /\ Slots \in Nat /\ Groups \subseteq Seq(Experts)
  /\ MaxPrefetches \in Nat /\ MaxUses \in Nat /\ MaxCudaFaults \in Nat

VARIABLES
  slabs,      \* pinned and device: the expert in each slot
  transfer,   \* what the transfer stream has still to copy
  compute,    \* the kernels the compute stream has still to run
  pipeline,   \* Impl::pending and views, and prepared_mxfp4_ of the backend
  use,        \* the call that uses a token
  tokens,     \* the tokens given out: the group and layer of each
  ran,        \* what the kernels of each token were to read, and read
  counted     \* uses and faults until now

prefetchVars == <<slabs, transfer, compute, pipeline, use, tokens, ran, counted>>

NotUsing == [pc |-> "idle", token |-> 0, layer |-> 0, launched |-> 0]
NoExperts == [slot \in 1..Slots |-> Nothing]

PrefetchInit ==
  /\ slabs = [pinned |-> NoExperts, device |-> NoExperts]
  /\ transfer = <<>> /\ compute = <<>>
  /\ pipeline = [pending |-> {}, views |-> <<>>, prepared |-> {}]
  /\ use = NotUsing
  /\ tokens = <<>>
  /\ ran = <<>>
  /\ counted = [uses |-> 0, faults |-> 0, answers |-> <<>>]

CudaFault == counted.faults < MaxCudaFaults /\ counted' = [counted EXCEPT !.faults = @ + 1]

-----------------------------------------------------------------------------
(* prefetch_mxfp4_situ_mlp_group                                            *)

\* Mutant of PrefetchAdmits: a group whose kernels may still run is overwritten.
PrefetchAdmitsConsumed(group) ==
  (\A p \in pipeline.pending : p.consumed) /\ group # <<>> /\ Len(group) <= Slots

\* One group at a time: what is pending keeps the slabs.
PrefetchAdmits(group) == pipeline.pending = {} /\ group # <<>> /\ Len(group) <= Slots

Staged(slab, group) ==
  [slot \in 1..Slots |-> IF slot \in DOMAIN group THEN group[slot] ELSE slab[slot]]

Prefetch(group, layer) ==
  /\ use.pc = "idle" /\ Len(tokens) < MaxPrefetches
  /\ PrefetchAdmits(group)
  /\ LET token == Len(tokens) + 1 IN
     /\ slabs' = [slabs EXCEPT !.pinned = Staged(@, group)]
     /\ transfer' = transfer \o [slot \in DOMAIN group |-> [token |-> token, slot |-> slot]]
     /\ tokens' = Append(tokens, [group |-> group, layer |-> layer])
     /\ pipeline' = [pending |-> {[token |-> token, layer |-> layer, consumed |-> FALSE]},
                     views |-> group,
                     prepared |-> {[token |-> token, layer |-> layer, count |-> Len(group)]}]
     /\ ran' = Append(ran, <<>>)
  /\ UNCHANGED <<compute, use, counted>>

\* An enqueued copy may have been the one before the call that failed: the
\* transfer stream is awaited before the views go.
PrefetchFails(group) ==
  /\ use.pc = "idle" /\ Len(tokens) < MaxPrefetches
  /\ PrefetchAdmits(group) /\ CudaFault
  /\ LET pinned == Staged(slabs.pinned, group) IN
     \E device \in {slabs.device, Staged(slabs.device, group)} :
       slabs' = [pinned |-> pinned, device |-> device]
  /\ pipeline' = [pipeline EXCEPT !.views = <<>>]
  /\ UNCHANGED <<transfer, compute, use, tokens, ran>>

-----------------------------------------------------------------------------
(* mxfp4_situ_mlp_group_prepared and mxfp4_situ_moe_prepared                *)

\* Any token ever given out may be used, once or again, for any layer; what
\* does not match is refused without a trace.
Use(token, layer) ==
  /\ use.pc = "idle" /\ counted.uses < MaxUses
  /\ counted' = [counted EXCEPT !.uses = @ + 1]
  /\ use' = IF \E p \in pipeline.prepared : p.token = token /\ p.layer = layer
            THEN [pc |-> "consume", token |-> token, layer |-> layer, launched |-> 0]
            ELSE NotUsing
  /\ UNCHANGED <<slabs, transfer, compute, pipeline, tokens, ran>>

Returns == use' = NotUsing

\* An event, a scratch buffer or the upload of the activation fails.
UseFails ==
  /\ use.pc = "consume" /\ CudaFault /\ Returns
  /\ UNCHANGED <<slabs, transfer, compute, pipeline, tokens, ran>>

Consumes ==
  \E p \in pipeline.pending : ~p.consumed /\ p.token = use.token /\ p.layer = use.layer

Consume ==
  /\ use.pc = "consume"
  /\ IF Consumes
     THEN /\ pipeline' = [pipeline EXCEPT !.pending = {[p EXCEPT !.consumed = TRUE] : p \in @}]
          /\ use' = [use EXCEPT !.pc = "launch"]
     ELSE Returns /\ UNCHANGED pipeline
  /\ UNCHANGED <<slabs, transfer, compute, tokens, ran, counted>>

\* Kernels are enqueued expert by expert, behind the wait for the copy.
LaunchExpert ==
  /\ use.pc = "launch" /\ use.launched < Len(pipeline.views)
  /\ LET slot == use.launched + 1 IN
     /\ compute' = Append(compute, [after |-> Len(tokens), token |-> use.token, slot |-> slot,
                                    expert |-> pipeline.views[slot]])
     /\ use' = [use EXCEPT !.launched = slot]
  /\ UNCHANGED <<slabs, transfer, pipeline, tokens, ran, counted>>

\* What was launched before the failure still runs.
LaunchExpertFails ==
  /\ use.pc = "launch" /\ CudaFault /\ Returns
  /\ UNCHANGED <<slabs, transfer, compute, pipeline, tokens, ran>>

\* The compute stream is awaited, the token completed, the outputs returned;
\* a failure to read the times leaves the token pending, or prepared.
Complete ==
  /\ use.pc = "launch" /\ use.launched = Len(pipeline.views) /\ compute = <<>>
  /\ pipeline' = [pipeline EXCEPT !.pending = {}, !.prepared = {}]
  /\ counted' = [counted EXCEPT !.answers = Append(@, use.token)]
  /\ Returns
  /\ UNCHANGED <<slabs, transfer, compute, tokens, ran>>

CompleteFails ==
  /\ use.pc = "launch" /\ use.launched = Len(pipeline.views) /\ compute = <<>>
  /\ CudaFault /\ Returns
  /\ pipeline' \in {pipeline, [pipeline EXCEPT !.pending = {}]}
  /\ UNCHANGED <<slabs, transfer, compute, tokens, ran>>

-----------------------------------------------------------------------------
(* The streams                                                              *)

Copy ==
  /\ transfer # <<>>
  /\ LET slot == Head(transfer).slot IN
     slabs' = [slabs EXCEPT !.device[slot] = slabs.pinned[slot]]
  /\ transfer' = Tail(transfer)
  /\ UNCHANGED <<compute, pipeline, use, tokens, ran, counted>>

Ready(token) == \A i \in DOMAIN transfer : transfer[i].token > token

Run ==
  /\ compute # <<>>
  /\ LET kernel == Head(compute) IN
     /\ Ready(kernel.after)
     /\ ran' = [ran EXCEPT ![kernel.token] = Append(@, slabs.device[kernel.slot])]
  /\ compute' = Tail(compute)
  /\ UNCHANGED <<slabs, transfer, pipeline, use, tokens, counted>>

UseStep == Consume \/ LaunchExpert \/ Complete
PrefetchFault ==
  (\E group \in Groups : PrefetchFails(group)) \/ UseFails \/ LaunchExpertFails \/ CompleteFails
Streams == Copy \/ Run

PrefetchNext ==
  \/ \E group \in Groups, layer \in PrefetchLayers : Prefetch(group, layer)
  \/ \E token \in DOMAIN tokens, layer \in PrefetchLayers : Use(token, layer)
  \/ UseStep \/ PrefetchFault \/ Streams

PrefetchSpec == PrefetchInit /\ [][PrefetchNext]_prefetchVars

-----------------------------------------------------------------------------
(* Properties                                                              *)

\* Every kernel reads the expert of its slot in the group that its token was
\* given out for, and a successful use has read the whole group once.
KernelsReadTheirExperts ==
  /\ \A token \in DOMAIN ran :
       /\ Len(ran[token]) <= Len(tokens[token].group)
       /\ \A i \in DOMAIN ran[token] : ran[token][i] = tokens[token].group[i]
  /\ \A i \in DOMAIN counted.answers :
       LET token == counted.answers[i] IN
       /\ ran[token] = tokens[token].group
       /\ \A j \in DOMAIN counted.answers : counted.answers[j] = token => i = j

\* A copy still to be made finds in the slab what was staged for it.
StagingIsKept ==
  \A i \in DOMAIN transfer :
    LET copy == transfer[i] IN slabs.pinned[copy.slot] = tokens[copy.token].group[copy.slot]

\* Only one group is under way, and whoever prefetched it is known: what is
\* prepared for use is what the pipeline holds, unless the use of it failed.
OneGroupAtATime ==
  /\ \A p \in pipeline.pending :
       \E q \in pipeline.prepared : q.token = p.token /\ q.layer = p.layer
  /\ \A i \in DOMAIN transfer : \E p \in pipeline.pending : p.token = transfer[i].token
  /\ \A i \in DOMAIN compute :
       \E p \in pipeline.pending : p.token = compute[i].token /\ p.consumed

\* Kernels of a prefetched group read that group's experts, and a slab is not
\* refilled while it is copied from or to be read, whatever CUDA call failed.
KernelsReadTheirGroup == KernelsReadTheirExperts /\ StagingIsKept /\ OneGroupAtATime
=============================================================================
