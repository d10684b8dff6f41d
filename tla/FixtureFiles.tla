---------------------------- MODULE FixtureFiles ----------------------------
(***************************************************************************)
(* What the three fixture builders of the converter share                  *)
(* (materialize_official_moe_slice, materialize_official_kda_layer and     *)
(* materialize_official_two_layer): the object store they fetch ranges     *)
(* into, the source directory they assemble (assemble_official_moe_source) *)
(* and the conversion of it.  A run that fails or is killed takes nothing  *)
(* back; the next one starts from the top.                                 *)
(*                                                                         *)
(* A directory is one builder's.  A run is of a build: the tool and the    *)
(* numeric libraries that decide routes and digests.  A derived file is the*)
(* build it was derived by.                                                *)
(***************************************************************************)
EXTENDS Naturals, Sequences, SequencesExt

CONSTANTS Trunk,     \* the ranges every run needs, in order
          Experts,   \* the ranges of the experts of all layers
          Builds, None,
          Routes,    \* of a build: the experts of case a and of case b, each in order
          MaxRuns, MaxStops, MaxLosses

Repeats(s) == \E i, j \in DOMAIN s : i # j /\ s[i] = s[j]
IsRoute(s) == s \in Seq(Experts) /\ ~Repeats(s)   \* a topk

FixtureAssumption ==
  /\ None \notin Builds /\ Builds # {}
  /\ Trunk \in Seq(ToSet(Trunk)) /\ ~Repeats(Trunk) /\ ToSet(Trunk) \cap Experts = {}
  /\ \A b \in Builds : \A i \in {1, 2} : IsRoute(Routes[b][i])
  /\ {MaxRuns, MaxStops, MaxLosses} \subseteq Nat
ASSUME FixtureConstants == FixtureAssumption

Ranges == ToSet(Trunk) \cup Experts

VARIABLES builder,     \* the builder of this directory
          objects,     \* ranges whose object is stored, with the published bytes
          files,       \* the build of every derived file
          ledger,      \* build of the conversion begun and not finished
          partial,     \* is there a partial K3X file
          run,         \* the run in progress
          downloads,   \* transfers of a range's bytes, in all runs
          losses, runs, stops

store == <<objects, downloads, losses>>
disk == <<files, ledger, partial>>
bounds == <<runs, stops>>
fixtureVars == <<builder, store, disk, run, bounds>>

Store == INSTANCE ObjectStore WITH
  Data <- [r \in Ranges |-> r], available <- objects, bytes <- [r \in objects |-> r]

NoRun == [pc |-> "idle", build |-> None, need |-> <<>>, got |-> <<>>]
at(pc) == run.pc = pc
Goto(pc) == run' = [run EXCEPT !.pc = pc]

FixtureInit ==
  /\ builder \in {"moe", "layer", "two-layer"}
  /\ objects = {} /\ losses = 0
  /\ files = [routes |-> None, oracle |-> None, microshard |-> None,
              source |-> None, k3x |-> None, artifact |-> None]
  /\ ledger = None /\ partial = FALSE
  /\ run = NoRun
  /\ downloads = [r \in Ranges |-> 0]
  /\ runs = 0 /\ stops = 0

(* What of these experts is not among those seen, in order. *)
Unused(experts, seen) ==
  LET upTo[i \in 0..Len(experts)] ==
        IF i = 0 THEN <<>>
        ELSE IF experts[i] \in ToSet(seen) THEN upTo[i - 1] ELSE Append(upTo[i - 1], experts[i])
  IN  upTo[Len(experts)]

(* Mutant: an expert of both cases is listed twice. *)
FirstUseTwice(one, other) == one \o other
(* The experts of both cases in the order of their first use.              *)
FirstUse(one, other) == one \o Unused(other, one)

StartOf(b, pc) ==
  /\ at("idle") /\ runs < MaxRuns /\ runs' = runs + 1
  /\ run' = [NoRun EXCEPT !.pc = pc, !.build = b, !.need = Trunk]
  /\ UNCHANGED <<store, disk, stops>>

(* One range: a stored object is reused, another is downloaded.            *)
Fetch(pc) ==
  /\ at(pc) /\ run.need # <<>>
  /\ LET r == Head(run.need) IN
     /\ run' = [run EXCEPT !.need = Tail(@),
                           !.got = Append(@, [range |-> r, reused |-> r \in objects])]
     /\ IF r \in objects THEN UNCHANGED store
        ELSE /\ Store!Materialize(r)
             /\ downloads' = [downloads EXCEPT ![r] = @ + 1]
  /\ UNCHANGED <<disk, bounds>>

Fetched(pc) == at(pc) /\ run.need = <<>>

(* model.safetensors is written beside and renamed,                        *)
AssembleMicroshard ==
  /\ at("assemble")
  /\ files' = [files EXCEPT !.microshard = run.build]
  /\ Goto("describe") /\ UNCHANGED <<store, ledger, partial, bounds>>
(* then source-manifest.json, with its digests.                            *)
AssembleManifest ==
  /\ at("describe")
  /\ files' = [files EXCEPT !.source = run.build]
  /\ Goto("convert") /\ UNCHANGED <<store, ledger, partial, bounds>>

(* Mutant: a ledger that is there is refused. *)
StartConvertAfresh ==
  /\ at("convert")
  /\ IF ledger = None
     THEN ledger' = run.build /\ partial' = TRUE /\ Goto("write")
     ELSE UNCHANGED <<ledger, partial>> /\ run' = NoRun
  /\ UNCHANGED <<store, files, bounds>>
(* A ledger of another source is refused, one of this source is taken up.  *)
StartConvert ==
  /\ at("convert")
  /\ IF ledger = None
     THEN ledger' = run.build /\ partial' = TRUE /\ Goto("write")
     ELSE /\ UNCHANGED <<ledger, partial>>
          /\ CASE ledger # run.build -> run' = NoRun
               [] ledger = run.build /\ partial -> Goto("write")
               [] ledger = run.build /\ ~partial /\ files.k3x = run.build -> Goto("unlink")
               [] OTHER -> run' = NoRun
  /\ UNCHANGED <<store, files, bounds>>
PublishK3x ==
  /\ at("write")
  /\ files' = [files EXCEPT !.k3x = run.build] /\ partial' = FALSE
  /\ Goto("unlink") /\ UNCHANGED <<store, ledger, bounds>>
UnlinkLedger ==
  /\ at("unlink")
  /\ ledger' = None
  /\ Goto("verify") /\ UNCHANGED <<store, files, partial, bounds>>

Assembling ==
  \/ AssembleMicroshard \/ AssembleManifest \/ StartConvert \/ PublishK3x \/ UnlinkLedger

(* The report is returned. *)
Return ==
  /\ at("return") /\ run' = NoRun
  /\ UNCHANGED <<store, disk, bounds>>

(* A call fails or the process is killed, anywhere. *)
Stop ==
  /\ ~at("idle") /\ stops < MaxStops /\ stops' = stops + 1
  /\ run' = NoRun
  /\ UNCHANGED <<store, disk, runs>>

(* A stored object goes bad between two runs. *)
Lose ==
  /\ at("idle") /\ losses < MaxLosses /\ Store!Lose
  /\ UNCHANGED <<downloads, disk, run, bounds>>

Files == {"routes", "oracle", "microshard", "source", "k3x", "artifact"}

FixtureTypeOK ==
  /\ objects \subseteq Ranges
  /\ DOMAIN files = Files /\ \A f \in Files : files[f] \in Builds \cup {None}
  /\ ledger \in Builds \cup {None} /\ partial \in BOOLEAN
  /\ run.build \in Builds \cup {None} /\ (run.build = None <=> at("idle"))
  /\ ToSet(run.need) \subseteq Ranges
  /\ losses <= MaxLosses /\ stops <= MaxStops

(* The ranges a run asked for, without repetition, and what it reused. *)
Asked == [i \in DOMAIN run.got |-> run.got[i].range]
AskedOnce == ~Repeats(Asked)
==============================================================================
