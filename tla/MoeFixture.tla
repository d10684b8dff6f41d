----------------------------- MODULE MoeFixture -----------------------------
(***************************************************************************)
(* materialize_official_moe_slice (converter/k3x_converter/official_moe.py)*)
(* in two phases: the ranges every route needs are fetched and two routes  *)
(* derived from them; then the experts of either route are fetched, the    *)
(* source assembled and converted.  route-manifest.json is written after   *)
(* the first phase, and again, with the artifact, after the second.        *)
(***************************************************************************)
EXTENDS FixtureFiles

MoeSelected(b) == FirstUse(Routes[b][1], Routes[b][2])

MoeInit == FixtureInit /\ builder = "moe"

MoeStart(b) == StartOf(b, "trunk")

FetchMoeTrunk == Fetch("trunk")

(* Both cases are routed; cases with the same experts are refused.         *)
DeriveMoeRoutes ==
  /\ Fetched("trunk")
  /\ IF ToSet(Routes[run.build][1]) = ToSet(Routes[run.build][2]) THEN run' = NoRun
     ELSE Goto("publish")
  /\ UNCHANGED <<store, disk, bounds>>

(* Mutant: the artifact of the manifest there is survives. *)
PublishMoeRoutesInPlace ==
  /\ at("publish")
  /\ files' = [files EXCEPT !.routes = run.build]
  /\ run' = [run EXCEPT !.pc = "experts", !.need = MoeSelected(run.build)]
  /\ UNCHANGED <<store, ledger, partial, bounds>>
(* The manifest, without an artifact, replaces the one there is.           *)
PublishMoeRoutes ==
  /\ at("publish")
  /\ files' = [files EXCEPT !.routes = run.build, !.artifact = None]
  /\ run' = [run EXCEPT !.pc = "experts", !.need = MoeSelected(run.build)]
  /\ UNCHANGED <<store, ledger, partial, bounds>>

FetchMoeExperts == Fetch("experts")

(* The experts must be the selected ones, in the order of the routes.      *)
LayOutMoe ==
  /\ Fetched("experts")
  /\ IF SubSeq(Asked, Len(Trunk) + 1, Len(Asked)) = MoeSelected(run.build) THEN Goto("assemble")
     ELSE run' = NoRun
  /\ UNCHANGED <<store, disk, bounds>>

(* The K3X file is opened, and recorded in the manifest.                   *)
RecordMoe ==
  /\ at("verify")
  /\ files' = [files EXCEPT !.routes = run.build, !.artifact = run.build]
  /\ Goto("return") /\ UNCHANGED <<store, ledger, partial, bounds>>

MoeStep ==
  \/ FetchMoeTrunk \/ DeriveMoeRoutes \/ PublishMoeRoutes \/ FetchMoeExperts \/ LayOutMoe
  \/ Assembling \/ RecordMoe \/ Return

MoeNext ==
  /\ builder = "moe" /\ UNCHANGED builder
  /\ (\E b \in Builds : MoeStart(b)) \/ MoeStep \/ Stop \/ Lose

MoeSpec == MoeInit /\ [][MoeNext]_fixtureVars

------------------------------------------------------------------------------
(* Properties *)

(* Types of the variables. *)
MoeTypeOK ==
  /\ FixtureTypeOK
  /\ run.pc \in {"idle", "trunk", "publish", "experts", "assemble", "describe", "convert",
                 "write", "unlink", "verify", "return"}

(* An artifact is recorded only while the K3X file, the source directory   *)
(* and the routes beside it are those of the same build, whatever runs were*)
(* killed since and whatever build they were of.                           *)
RecordIsOfOneBuild ==
  files.artifact # None =>
    \A f \in {"routes", "microshard", "source", "k3x"} : files[f] = files.artifact

(* However often runs are cut off, a range is transferred once for every   *)
(* time its object was lost, and once more.                                *)
NothingTwice == \A r \in Ranges : downloads[r] <= 1 + losses

(* The artifact recorded in a directory is described by the files there,   *)
(* and no range is transferred again unless its object was lost.           *)
ArtifactIsDescribed == builder = "moe" => MoeTypeOK /\ RecordIsOfOneBuild /\ NothingTwice

(* The K3X file is only ever replaced by one made of a whole source whose  *)
(* routes are durable.                                                     *)
ConvertsWholeSource ==
  files'.k3x # files.k3x =>
    \A f \in {"routes", "microshard", "source"} : files[f] = files'.k3x

(* No expert is asked for before the routes that select it are durable,    *)
(* and none but those of the routes.                                       *)
ExpertsFollowRoutes ==
  \A r \in Experts : downloads'[r] # downloads[r] =>
    /\ files.routes = run.build
    /\ r \in ToSet(Routes[run.build][1]) \cup ToSet(Routes[run.build][2])

(* A run that returns asked for every range of its routes once: the sum of *)
(* its report counts each source byte once.                                *)
ReportCountsOnce ==
  Return =>
    /\ AskedOnce
    /\ ToSet(Asked) = ToSet(Trunk) \cup UNION {ToSet(Routes[run.build][i]) : i \in {1, 2}}
    /\ ToSet(Asked) \subseteq objects

(* A run converts only a whole source with durable routes, asks for no     *)
(* expert before the routes that select it, and returns a report that      *)
(* counts every range once.                                                *)
RunsAreWhole ==
  [][builder = "moe" => ConvertsWholeSource /\ ExpertsFollowRoutes /\ ReportCountsOnce]_fixtureVars
==============================================================================
