---------------------------- MODULE LayerFixture ----------------------------
(***************************************************************************)
(* materialize_official_kda_layer (converter/k3x_converter/                *)
(* official_layer.py): the MoE fixture with the seventeen KDA tensors      *)
(* before it.  The routes of the two inputs are derived along the state of *)
(* the KDA layer, and the outputs and the final state are kept in an       *)
(* oracle file, whose digest the route-state manifest carries.             *)
(***************************************************************************)
EXTENDS FixtureFiles

Moe == INSTANCE MoeFixture WITH
  builder <- "moe", files <- [files EXCEPT !.oracle = None],
  run <- IF at("oracle") THEN [run EXCEPT !.pc = "publish"] ELSE run

LayerSelected(b) == Moe!FirstUse(Routes[b][1], Routes[b][2])

LayerInit == FixtureInit /\ builder = "layer"

LayerStart(b) == StartOf(b, "trunk")

FetchLayerTrunk == Fetch("trunk")

(* Both inputs are evaluated at once and one after the other, the second   *)
(* from the state of the first, and are routed.  A difference stops the    *)
(* run, as any failure does.                                               *)
DeriveLayerRoutes ==
  /\ Fetched("trunk") /\ Goto("oracle")
  /\ UNCHANGED <<store, disk, bounds>>
IncrementalMismatch ==
  /\ Fetched("trunk") /\ stops < MaxStops /\ stops' = stops + 1
  /\ run' = NoRun
  /\ UNCHANGED <<store, disk, runs>>

(* The oracle replaces the one there is,                                   *)
PublishLayerOracle ==
  /\ at("oracle")
  /\ files' = [files EXCEPT !.oracle = run.build]
  /\ Goto("publish") /\ UNCHANGED <<store, ledger, partial, bounds>>

(* Mutant: the artifact of the manifest there is survives. *)
PublishLayerRoutesInPlace ==
  /\ at("publish")
  /\ files' = [files EXCEPT !.routes = run.build]
  /\ run' = [run EXCEPT !.pc = "experts", !.need = LayerSelected(run.build)]
  /\ UNCHANGED <<store, ledger, partial, bounds>>
(* then route-state-manifest.json, with the oracle's digest.               *)
PublishLayerRoutes ==
  /\ at("publish")
  /\ files' = [files EXCEPT !.routes = run.build, !.artifact = None]
  /\ run' = [run EXCEPT !.pc = "experts", !.need = LayerSelected(run.build)]
  /\ UNCHANGED <<store, ledger, partial, bounds>>

FetchLayerExperts == Fetch("experts")

LayOutLayer ==
  /\ Fetched("experts")
  /\ IF SubSeq(Asked, Len(Trunk) + 1, Len(Asked)) = LayerSelected(run.build) THEN Goto("assemble")
     ELSE run' = NoRun
  /\ UNCHANGED <<store, disk, bounds>>

RecordLayer ==
  /\ at("verify")
  /\ files' = [files EXCEPT !.routes = run.build, !.artifact = run.build]
  /\ Goto("return") /\ UNCHANGED <<store, ledger, partial, bounds>>

LayerStep ==
  \/ FetchLayerTrunk \/ DeriveLayerRoutes \/ PublishLayerOracle \/ PublishLayerRoutes \/ FetchLayerExperts
  \/ LayOutLayer \/ RecordLayer \/ Assembling \/ Return

LayerNext ==
  /\ builder = "layer" /\ UNCHANGED builder
  /\ \/ \E b \in Builds : LayerStart(b)
     \/ LayerStep \/ IncrementalMismatch \/ Stop \/ Lose

LayerSpec == LayerInit /\ [][LayerNext]_fixtureVars

------------------------------------------------------------------------------
(* Properties *)

(* A K3X file is only made beside the oracle of its own build, so that an  *)
(* artifact record vouches for both when it is written.                    *)
OracleBeforeArtifact ==
  /\ files'.k3x # files.k3x => files.oracle = files'.k3x
  /\ files'.artifact \notin {files.artifact, None} => files.oracle = files'.artifact

(* The layer builder is the MoE builder, with the oracle written in a step *)
(* the other does not see, and makes a K3X file only beside the oracle of  *)
(* its own build: what holds of routes, source, K3X file and artifact there*)
(* holds here.                                                             *)
ImplementsMoe ==
  /\ builder = "layer" => Moe!MoeInit
  /\ [][builder = "layer" =>
          OracleBeforeArtifact /\ [Moe!MoeNext]_(Moe!fixtureVars)]_fixtureVars

(* A manifest with an artifact carries the digest of the oracle beside it. *)
OracleIsBound == builder = "layer" /\ files.artifact # None => files.oracle = files.artifact
==============================================================================
