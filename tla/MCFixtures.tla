------------------------------ MODULE MCFixtures ------------------------------
(***************************************************************************)
(* The fixture builders for TLC.  The first state picks the part that runs:*)
(* the MoE builder with three builds ("moe") or with one that is run until *)
(* it is done ("moe1"), the layer builder ("layer"), the two-layer builder *)
(* likewise ("two", "two1"), or a discovery ("discovery").  The variables  *)
(* of a discovery stay None elsewhere, those of the builders as they began.*)
(***************************************************************************)
EXTENDS MoeFixture, LayerFixture, TwoLayerFixture, Integers, FiniteSets

CONSTANT Parts

VARIABLES part,
          checkpoint, scope, mode, pc, snapshot, headers, plans, tensors, payload

discovering == <<checkpoint, scope, mode, pc, snapshot, headers, plans, tensors, payload>>
vars == <<part, twoVars, discovering>>

------------------------------------------------------------------------------
(* The builders: two trunk ranges, three experts, builds whose routes      *)
(* differ, and one (b3) whose two cases route alike.                       *)
MCRoutes == ("b1" :> <<<<"e2", "e1">>, <<"e3", "e2">>>>) @@ ("b2" :> <<<<"e1">>, <<"e2", "e1">>>>)
            @@ ("b3" :> <<<<"e1", "e2">>, <<"e2", "e1">>>>)
MCTrunk == <<"t1", "t2">>

(* Two layers with two experts each, used again by input b or not.         *)
MCWalkRoutes == ("b1" :> <<<<<<"1x">>, <<"1y", "1x">>>>, <<<<"2y", "2x">>, <<"2x">>>>>>)
          @@ ("b2" :> <<<<<<"1y">>, <<"1y">>>>, <<<<"2x">>, <<"2y">>>>>>)
          @@ ("b3" :> <<<<<<"1x">>, <<"1x">>>>, <<<<"2x">>, <<"2x">>>>>>)
MCExperts == {"e1", "e2", "e3", "1x", "1y", "2x", "2y"}

------------------------------------------------------------------------------
(* Discovery: checkpoints of two layers with two experts each, the         *)
(* published one, and ones that differ from it in one respect, the layers  *)
(* in one shard or in two.                                                 *)
KdaTwo == <<"q", "o">>
FrontTwo == <<"router", "down">>
BackTwo == <<"up", "shared">>
Lengths == [r \in {"q", "up"} |-> 2] @@ [r \in {"o", "router", "down", "shared"} |-> 1]
           @@ [r \in {"w1.packed", "w2.packed", "w3.packed"} |-> 2]
           @@ [r \in {"w1.scale", "w2.scale", "w3.scale"} |-> 1]

Plan == INSTANCE OfficialPlan WITH
  KdaRoles <- KdaTwo, FrontRoles <- FrontTwo, BackRoles <- BackTwo, Length <- Lengths

Unrouted(l) == Plan!Named(l, <<"router", "q", "shared", "up", "o", "down">>)
LayerOf(l, first, second, stored) ==
  Plan!ExpertTensors(l, first, stored) \o Unrouted(l) \o Plan!ExpertTensors(l, second, stored)
Apart(l) == SubSeq(Plan!ExpertTensors(l, 1, Plan!Stored), 1, 4) \o Unrouted(l)
            \o SubSeq(Plan!ExpertTensors(l, 1, Plan!Stored), 5, 6) \o Plan!ExpertTensors(l, 2, Plan!Stored)

Holds(shards) ==
  [pinned |-> TRUE,
   files |-> <<"config.json", "index">> \o SetToSeq(DOMAIN shards),
   lfs |-> {"index"} \cup DOMAIN shards,
   index |-> [n \in UNION {ToSet(shards[s]) : s \in DOMAIN shards} |->
                CHOOSE s \in DOMAIN shards : n \in ToSet(shards[s])],
   shards |-> shards, odd |-> {}, kda |-> Plan!KdaLayers, full |-> Plan!FullLayers]

Published == Holds(("s1" :> LayerOf(1, 1, 2, Plan!Stored)) @@ ("s2" :> LayerOf(2, 2, 1, Plan!Stored)))
InOneShard == Holds("s1" :> LayerOf(2, 1, 2, Plan!Stored) \o LayerOf(1, 2, 1, Plan!Stored))
InPieces == Holds(("s1" :> Apart(1)) @@ ("s2" :> LayerOf(2, 1, 2, Plan!Stored)))
Regrouped == Holds(("s1" :> LayerOf(1, 1, 2, Plan!Stored)) @@ ("s2" :> LayerOf(2, 1, 2, Plan!Executed)))

Drifted(c) ==
  {[c EXCEPT !.pinned = FALSE], [c EXCEPT !.files = Append(@, "index")],
   [c EXCEPT !.files = Append(@, "s3"), !.lfs = @ \cup {"s3"},
             !.shards = @ @@ ("s3" :> <<>>)],
   [c EXCEPT !.lfs = @ \ {"s1"}], [c EXCEPT !.files = Tail(@)],
   [c EXCEPT !.full = @ \ {93}], [c EXCEPT !.kda = {i - 1 : i \in @}],
   [c EXCEPT !.index = [n \in DOMAIN @ \ {<<1, "q", 0>>} |-> @[n]]]}
  \cup {[c EXCEPT !.odd = {n}] : n \in {<<1, "q", 0>>, <<1, "down", 0>>, <<1, "w2.scale", 1>>,
                                       <<2, "w3.packed", 2>>}}
  \cup {[c EXCEPT !.index[n] = "s2"] : n \in {<<1, "up", 0>>, <<1, "w2.packed", 1>>}}

Candidates == {Published, InOneShard, InPieces, Regrouped} \cup Drifted(Published)
Routed == {<<1>>, <<1, 2>>, <<2, 1>>}

Disc == INSTANCE Discovery WITH
  KdaRoles <- KdaTwo, FrontRoles <- FrontTwo, BackRoles <- BackTwo, Length <- Lengths,
  ShardNames <- {"s1", "s2", "s3"}, Checkpoints <- Candidates, Selections <- Routed

------------------------------------------------------------------------------
DiscoveringParked ==
  /\ checkpoint = None /\ scope = None /\ mode = None /\ pc = None /\ snapshot = None
  /\ headers = None /\ plans = None /\ tensors = None /\ payload = None

Init ==
  /\ part \in Parts
  /\ CASE part \in {"moe", "moe1", "discovery"} -> MoeInit
       [] part = "layer" -> LayerInit
       [] part \in {"two", "two1"} -> TwoInit
  /\ walk = NoWalk
  /\ IF part = "discovery" THEN Disc!Init ELSE DiscoveringParked

(* A part is of some builds, and stops some runs. *)
Doing(p, builds, stopped, started) ==
  /\ part = p /\ UNCHANGED <<part, builder, discovering>>
  /\ run'.build \in builds \cup {None} /\ stops' <= stopped /\ runs' <= started
DoingMoe == Doing("moe", Builds, 3, 4) /\ UNCHANGED walk
DoingMoe1 == Doing("moe1", {"b1"}, 3, 4) /\ UNCHANGED walk
DoingLayer == Doing("layer", {"b1", "b2"}, 2, 4) /\ UNCHANGED walk
DoingTwo == Doing("two", {"b1", "b2"}, 2, 3)
DoingTwo1 == Doing("two1", {"b1"}, 3, 4)

Next ==
  \/ MoeNext /\ (DoingMoe \/ DoingMoe1)
  \/ LayerNext /\ DoingLayer
  \/ TwoNext /\ (DoingTwo \/ DoingTwo1)
  \/ part = "discovery" /\ Disc!Next /\ UNCHANGED <<part, twoVars>>

(* A run that began goes on, and the operator runs the builder again.      *)
Spec ==
  /\ Init /\ [][Next]_vars
  /\ WF_vars(MoeStep /\ DoingMoe1)
  /\ WF_vars(MoeStart("b1") /\ DoingMoe1)
  /\ WF_vars(TwoStep /\ DoingTwo1)
  /\ WF_vars(TwoStart("b1") /\ DoingTwo1)

------------------------------------------------------------------------------
(* Properties; the others are those of the modules.                        *)

(* Every tensor of a fixture has the bytes its name has in the checkpoint, *)
(* in the order of execution; only planned ranges are requested, each once;*)
(* a checkpoint that drifted is refused and the published one is not.      *)
FixtureHasPublishedBytes ==
  part = "discovery" =>
    /\ Disc!TypeOK /\ Disc!FixtureHasPublishedBytes /\ Disc!PayloadIsPlanned
    /\ Disc!ExecutionOrder /\ Disc!DriftIsRefused /\ Disc!KindsAgree
    /\ checkpoint \in {Published, InOneShard} => pc # "refused"

(* With one build, whatever files a cut off run leaves, a later run        *)
(* finishes and records its artifact.                                      *)
EventuallyRecorded == <>(part \in {"moe1", "two1"} => files.artifact # None)
==============================================================================
