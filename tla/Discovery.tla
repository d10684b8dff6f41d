------------------------------ MODULE Discovery ------------------------------
(***************************************************************************)
(* tools/discover_official_kimi_k3.py: the snapshot, the index and the     *)
(* configuration are loaded, the headers of the shards the plan needs      *)
(* inspected, the plan made, and, when asked, the fixture materialized     *)
(* from whatever experts are routed.  A dry run stops at the plan.         *)
(***************************************************************************)
EXTENDS OfficialPlan

CONSTANTS ShardNames,   \* names that end in .safetensors
          Checkpoints,  \* what the repository may hold
          Selections    \* experts that may be routed, in order of first use

VARIABLES checkpoint,   \* what it holds
          scope,        \* layers planned, and whether KDA tensors are
          mode,         \* "dry-run" or "materialize"
          pc,           \* the step of main, or how it ended
          snapshot,     \* the files listed
          headers,      \* shard inspected for a layer
          plans,        \* plan of a layer
          tensors,      \* tensors of the fixture
          payload       \* ranges of tensor bytes requested

vars == <<checkpoint, scope, mode, pc, snapshot, headers, plans, tensors, payload>>

Init ==
  /\ checkpoint \in Checkpoints
  /\ scope \in {[layers |-> <<1>>, kda |-> FALSE], [layers |-> <<1>>, kda |-> TRUE],
                [layers |-> <<1, 2>>, kda |-> TRUE]}
  /\ mode \in {"dry-run", "materialize"}
  /\ pc = "discover"
  /\ snapshot = {} /\ headers = <<>> /\ plans = <<>> /\ tensors = <<>> /\ payload = {}

Refuse == pc' = "refused"
Go(ok, next) == pc' = IF ok THEN next ELSE "refused"

(* The API lists every file once, shards and index with their digest, and  *)
(* answers for the pinned revision.                                        *)
Discover ==
  /\ pc = "discover"
  /\ Go(/\ checkpoint.pinned
        /\ IsInjective(checkpoint.files)
        /\ {"config.json", "index"} \subseteq ToSet(checkpoint.files)
        /\ (ToSet(checkpoint.files) \cap (ShardNames \cup {"index"})) \subseteq checkpoint.lfs,
        "index")
  /\ snapshot' = ToSet(checkpoint.files)
  /\ UNCHANGED <<checkpoint, scope, mode, headers, plans, tensors, payload>>

(* The index names exactly the shards the snapshot lists.                  *)
LoadIndex ==
  /\ pc = "index"
  /\ Go({checkpoint.index[n] : n \in DOMAIN checkpoint.index} = snapshot \cap ShardNames, "config")
  /\ UNCHANGED <<checkpoint, scope, mode, snapshot, headers, plans, tensors, payload>>

(* The configuration has the pinned dimensions and the kinds of the layers.*)
LoadConfig ==
  /\ pc = "config"
  /\ Go(checkpoint.kda = KdaLayers /\ checkpoint.full = FullLayers, "headers")
  /\ UNCHANGED <<checkpoint, scope, mode, snapshot, headers, plans, tensors, payload>>

(* The tensor whose shard is inspected. *)
Anchor(layer) == IF scope.kda THEN KdaTensors(layer)[1] ELSE AlwaysActive(layer)[1]

(* The header of the shard the index gives for one tensor of each layer.   *)
InspectHeaders ==
  /\ pc = "headers"
  /\ IF \A i \in DOMAIN scope.layers : Anchor(scope.layers[i]) \in DOMAIN checkpoint.index
     THEN /\ headers' = [i \in DOMAIN scope.layers |-> checkpoint.index[Anchor(scope.layers[i])]]
          /\ pc' = "plan"
     ELSE Refuse /\ UNCHANGED headers
  /\ UNCHANGED <<checkpoint, scope, mode, snapshot, plans, tensors, payload>>

header(i) == HeaderOf(checkpoint, headers[i])
Needed(i) == (IF scope.kda THEN KdaTensors(scope.layers[i]) ELSE <<>>) \o AlwaysActive(scope.layers[i])

(* plan_official_moe_slice, plan_official_kda_layer, plan_official_two_layer*)
Plan ==
  /\ pc = "plan"
  /\ IF \A i \in DOMAIN headers :
          /\ scope.kda => scope.layers[i] \in checkpoint.kda
          /\ Plannable(checkpoint, header(i), headers[i], Needed(i))
     THEN /\ plans' = [i \in DOMAIN headers |-> LayerPlan(header(i), headers[i], scope.layers[i])]
          /\ pc' = IF mode = "dry-run" THEN "reported" ELSE "trunk"
     ELSE Refuse /\ UNCHANGED plans
  /\ UNCHANGED <<checkpoint, scope, mode, snapshot, headers, tensors, payload>>

Bytes(shard, item) == <<shard, item.offset, item.offset + item.length>>

FetchTrunk ==
  /\ pc = "trunk"
  /\ payload' = UNION {{Bytes(headers[i], t) :
        t \in ToSet(plans[i].moe.always) \cup (IF scope.kda THEN ToSet(plans[i].kda) ELSE {})} :
        i \in DOMAIN plans}
  /\ pc' = "experts"
  /\ UNCHANGED <<checkpoint, scope, mode, snapshot, headers, plans, tensors>>

(* The experts the routes select are planned, fetched, and with the rest   *)
(* laid out as the tensors of the fixture.                                 *)
FetchExperts ==
  /\ pc = "experts"
  /\ \E selected \in [DOMAIN plans -> Selections] :
       LET plan(i, e) == ExpertPlan(header(i), headers[i], scope.layers[i], e)
           experts(i) == [e \in ToSet(selected[i]) |-> plan(i, e)]
       IN IF \A i \in DOMAIN plans : \A e \in ToSet(selected[i]) :
               ExpertPlannable(checkpoint, header(i), headers[i], scope.layers[i], e)
          THEN /\ payload' = payload \cup UNION {{<<headers[i], plan(i, e).start, plan(i, e).end>> :
                      e \in ToSet(selected[i])} : i \in DOMAIN plans}
               /\ tensors' = FlattenSeq([i \in DOMAIN plans |->
                      IF scope.kda THEN LayerSource(plans[i], selected[i], experts(i))
                      ELSE MoeSource(plans[i].moe, selected[i], experts(i))])
               /\ pc' = "assemble"
          ELSE Refuse /\ UNCHANGED <<payload, tensors>>
  /\ UNCHANGED <<checkpoint, scope, mode, snapshot, headers, plans>>

AssembleSource ==
  /\ pc = "assemble"
  /\ Go(Assemblable(tensors) /\ (Len(scope.layers) = 2 => Manufacturable(tensors)), "reported")
  /\ UNCHANGED <<checkpoint, scope, mode, snapshot, headers, plans, tensors, payload>>

Next ==
  \/ Discover \/ LoadIndex \/ LoadConfig \/ InspectHeaders \/ Plan
  \/ FetchTrunk \/ FetchExperts \/ AssembleSource

Spec == Init /\ [][Next]_vars

------------------------------------------------------------------------------
(* Properties *)

TypeOK ==
  /\ pc \in {"discover", "index", "config", "headers", "plan", "trunk", "experts",
             "assemble", "reported", "refused"}
  /\ Len(headers) \in {0, Len(scope.layers)} /\ Len(plans) \in {0, Len(headers)}
  /\ tensors # <<>> => plans # <<>>
  /\ \A r \in payload : r[2] >= DataStart /\ r[2] < r[3]

Microshard == Assemble(tensors)
Sound == pc = "reported" /\ mode = "materialize"

(* Every tensor of a fixture has, at the offsets its header gives, exactly *)
(* the bytes its name has in the checkpoint, however expert objects were   *)
(* cut and regrouped; and the data holds nothing else.                     *)
FixtureHasPublishedBytes ==
  Sound =>
    /\ \A i \in DOMAIN Microshard.header :
         LET t == Microshard.header[i]
             shard == checkpoint.index[t.name]
             there == HeaderOf(checkpoint, shard)[t.name]
         IN SubSeq(Microshard.data, t.start + 1, t.end)
              = Object(shard, there.offset, there.offset + there.length)
    /\ Last(Microshard.header).end = Len(Microshard.data)

(* Only ranges the plan names are requested, each byte by one request, and *)
(* none by a dry run.                                                      *)
PayloadIsPlanned ==
  /\ mode = "dry-run" => payload = {}
  /\ \A r, q \in payload : (r # q /\ r[1] = q[1]) => r[3] <= q[2] \/ q[3] <= r[2]
  /\ Sound => \A i \in DOMAIN tensors : \E r \in payload :
       /\ r[1] = checkpoint.index[tensors[i].name]
       /\ ToSet(tensors[i].object) = ToSet(Object(r[1], r[2], r[3]))

(* Experts lie in the order the kernels run them, gate, up and then down,  *)
(* each with its scale behind it, and layer 1 lies before layer 2.         *)
Kernel == <<"w1.packed", "w3.packed", "w2.packed">>
ExecutionOrder ==
  Sound =>
    /\ \A i, j \in DOMAIN tensors : i < j => tensors[i].name[1] <= tensors[j].name[1]
    /\ \A layer \in ToSet(scope.layers) : \A e \in ExpertIds(tensors, layer) :
         LET at(role) == CHOOSE i \in DOMAIN tensors : tensors[i].name = <<layer, role, e>> IN
         \A k \in 1..2 : at(Kernel[k]) + 2 = at(Kernel[k + 1])

(* A checkpoint with a file listed twice, a shard nobody uses, a tensor of *)
(* the wrong type or an expert in pieces yields no plan that needs it.     *)
DriftIsRefused ==
  pc = "reported" =>
    /\ IsInjective(checkpoint.files) /\ DOMAIN checkpoint.shards = {checkpoint.index[n] : n \in DOMAIN checkpoint.index}
    /\ \A i \in DOMAIN tensors : tensors[i].name \notin checkpoint.odd

(* The kinds of the layers a fixture carries, counted from zero, are those *)
(* the configuration was checked for, counted from one.                    *)
KindsAgree ==
  pc \notin {"discover", "index", "config", "refused"} =>
    \A i \in 0..92 : /\ (ReleasedKinds[i] = "kda") <=> (i + 1) \in checkpoint.kda
                     /\ (ReleasedKinds[i] = "mla") <=> (i + 1) \in checkpoint.full
==============================================================================
