----------------------------- MODULE OfficialPlan -----------------------------
(***************************************************************************)
(* From a pinned checkpoint to the tensors of a fixture: the plans of      *)
(* official_source.py, official_moe.py, official_layer.py and              *)
(* official_two_layer.py (converter/k3x_converter), and the order in which *)
(* the planned ranges, fetched as objects, become one microshard.          *)
(*                                                                         *)
(* A checkpoint is a record of what the index says, tensor by tensor, and  *)
(* of the tensors each shard really holds, in the order of their bytes.    *)
(* A byte is the shard it is in and its offset there.                      *)
(***************************************************************************)
EXTENDS Integers, Sequences, SequencesExt, FiniteSets

CONSTANTS KdaRoles,    \* roles of the KDA tensors, in order
          FrontRoles,  \* roles of the MoE tensors before the experts, in order
          BackRoles,   \* roles of the MoE tensors after them
          Length       \* the bytes of a tensor, by its role

DataStart == 10

(* Names of the tensors a layer needs whatever is routed, in plan order.   *)
Named(layer, roles) == [i \in DOMAIN roles |-> <<layer, roles[i], 0>>]
AlwaysActive(layer) == Named(layer, FrontRoles \o BackRoles)
KdaTensors(layer) == Named(layer, KdaRoles)

(* Tensors of an expert, in the order of the checkpoint and of a fixture.  *)
Stored == <<"w1.packed", "w1.scale", "w2.packed", "w2.scale", "w3.packed", "w3.scale">>
Executed == <<"w1.packed", "w1.scale", "w3.packed", "w3.scale", "w2.packed", "w2.scale">>
ExpertTensors(layer, e, roles) == [i \in DOMAIN roles |-> <<layer, roles[i], e>>]

(* The header of a shard: where each of its tensors lies, and whether its  *)
(* type and shape are the expected ones.                                   *)
HeaderOf(checkpoint, shard) ==
  LET held == checkpoint.shards[shard]
      offset[i \in 1..(Len(held) + 1)] ==
        IF i = 1 THEN DataStart ELSE offset[i - 1] + Length[held[i - 1][2]]
  IN [n \in ToSet(held) |->
        LET i == CHOOSE j \in DOMAIN held : held[j] = n IN
        [offset |-> offset[i], length |-> Length[n[2]], typed |-> n \notin checkpoint.odd]]

(* Every tensor of a plan is of this shard for the index, and in its header*)
(* with the expected type.                                                 *)
Plannable(checkpoint, header, shard, names) ==
  \A i \in DOMAIN names :
    /\ names[i] \in DOMAIN checkpoint.index /\ checkpoint.index[names[i]] = shard
    /\ names[i] \in DOMAIN header /\ header[names[i]].typed

Planned(header, names) ==
  [i \in DOMAIN names |->
     [name |-> names[i], offset |-> header[names[i]].offset, length |-> header[names[i]].length]]

(* An expert is planned only when its six tensors follow one another.      *)
ExpertPlannable(checkpoint, header, shard, layer, e) ==
  LET names == ExpertTensors(layer, e, Stored) IN
  /\ Plannable(checkpoint, header, shard, names)
  /\ \A i \in 1..(Len(names) - 1) :
        header[names[i]].offset + header[names[i]].length = header[names[i + 1]].offset

ExpertPlan(header, shard, layer, e) ==
  LET tensors == Planned(header, ExpertTensors(layer, e, Stored)) IN
  [shard |-> shard, tensors |-> tensors, start |-> tensors[1].offset,
   end |-> tensors[Len(tensors)].offset + tensors[Len(tensors)].length]

MoePlan(header, shard, layer) ==
  [layer |-> layer, shard |-> shard, always |-> Planned(header, AlwaysActive(layer))]
LayerPlan(header, shard, layer) ==
  [moe |-> MoePlan(header, shard, layer), kda |-> Planned(header, KdaTensors(layer))]

------------------------------------------------------------------------------
(* Tensors of a fixture *)

(* A range of a shard, fetched as an object. *)
Object(shard, start, end) == [i \in 1..(end - start) |-> <<shard, start + i - 1>>]
Whole(shard, item) == [name |-> item.name, offset |-> 0, length |-> item.length,
                       object |-> Object(shard, item.offset, item.offset + item.length)]

(* The tensors of an expert, cut out of its one object.                    *)
Cut(plan, roles, layer, e) ==
  [i \in DOMAIN roles |->
     LET item == plan.tensors[CHOOSE j \in DOMAIN plan.tensors :
                                plan.tensors[j].name = <<layer, roles[i], e>>] IN
     [name |-> item.name, offset |-> item.offset - plan.start, length |-> item.length,
      object |-> Object(plan.shard, plan.start, plan.end)]]

(* build_official_moe_source_tensors: the first always active tensors, the *)
(* experts in the order of the routes, the other always active tensors.    *)
MoeSource(moe, selected, experts) ==
  LET always == [i \in DOMAIN moe.always |-> Whole(moe.shard, moe.always[i])]
      front == Len(FrontRoles)
  IN SubSeq(always, 1, front)
     \o FlattenSeq([i \in DOMAIN selected |->
          Cut(experts[selected[i]], Executed, moe.layer, selected[i])])
     \o SubSeq(always, front + 1, Len(always))

LayerSource(plan, selected, experts) ==
  [i \in DOMAIN plan.kda |-> Whole(plan.moe.shard, plan.kda[i])]
  \o MoeSource(plan.moe, selected, experts)

(* What assemble_official_moe_source refuses. *)
Assemblable(tensors) ==
  /\ tensors # <<>> /\ IsInjective([i \in DOMAIN tensors |-> tensors[i].name])
  /\ \A i \in DOMAIN tensors :
        /\ tensors[i].offset >= 0 /\ tensors[i].length > 0
        /\ tensors[i].offset + tensors[i].length <= Len(tensors[i].object)

(* The microshard: a header of running offsets, and the tensors' bytes.    *)
(* Mutant: the running offset does not count the tensor just written. *)
AssembleLate(tensors) ==
  LET start[i \in 0..Len(tensors)] ==
        IF i <= 1 THEN 0 ELSE start[i - 1] + tensors[i - 1].length
  IN [header |-> [i \in DOMAIN tensors |->
         [name |-> tensors[i].name, start |-> start[i - 1], end |-> start[i - 1] + tensors[i].length]],
      data |-> FlattenSeq([i \in DOMAIN tensors |->
         SubSeq(tensors[i].object, tensors[i].offset + 1, tensors[i].offset + tensors[i].length)])]
Assemble(tensors) ==
  LET start[i \in 1..(Len(tensors) + 1)] ==
        IF i = 1 THEN 0 ELSE start[i - 1] + tensors[i - 1].length
  IN [header |-> [i \in DOMAIN tensors |->
         [name |-> tensors[i].name, start |-> start[i], end |-> start[i] + tensors[i].length]],
      data |-> FlattenSeq([i \in DOMAIN tensors |->
         SubSeq(tensors[i].object, tensors[i].offset + 1, tensors[i].offset + tensors[i].length)])]

(* What manufacture_official_two_layer_fixture asks of its tensors: both   *)
(* layers, one after the other, and only whole experts of both.            *)
LayerOrder(tensors) ==
  FoldLeft(LAMBDA seen, t : IF seen # <<>> /\ Last(seen) = t.name[1] THEN seen
                            ELSE Append(seen, t.name[1]), <<>>, tensors)
ExpertParts(tensors, layer, e) ==
  {tensors[i].name[2] : i \in {j \in DOMAIN tensors :
     tensors[j].name[1] = layer /\ tensors[j].name[3] = e}}
ExpertIds(tensors, layer) ==
  {tensors[i].name[3] : i \in {j \in DOMAIN tensors : tensors[j].name[1] = layer}} \ {0}
Manufacturable(tensors) ==
  /\ LayerOrder(tensors) = <<1, 2>>
  /\ \A layer \in {1, 2} :
        /\ ExpertIds(tensors, layer) # {}
        /\ \A e \in ExpertIds(tensors, layer) : ExpertParts(tensors, layer, e) = ToSet(Stored)

------------------------------------------------------------------------------
(* Kinds of the layers *)

(* The configuration of the checkpoint counts layers from one.             *)
KdaLayers == {i \in 1..91 : i % 4 # 0}
FullLayers == {4 * i : i \in 1..23} \cup {93}

(* The configuration written into a fixture counts them from zero.         *)
ReleasedKinds ==
  [i \in 0..92 |-> IF (i < 92 /\ i % 4 = 3) \/ i = 92 THEN "mla" ELSE "kda"]
==============================================================================
