----------------------------- MODULE ExpertSlice -----------------------------
(***************************************************************************)
(* materialize_official_expert_slice (converter/k3x_converter/             *)
(* official_source.py): one expert is fetched and becomes three files of a *)
(* directory, its microshard named by content, source-manifest.json and    *)
(* the converted K3X file.  A call that fails takes back what it created;  *)
(* a call that is killed takes nothing back.                               *)
(*                                                                         *)
(* A file is a pair of its kind and the expert its name carries.  The      *)
(* bytes come through OfficialTransport, whose calls run beside the slices.*)
(***************************************************************************)
EXTENDS OfficialTransport

CONSTANTS Experts, Nobody,
          MaxSliceCalls, MaxSliceKills, MaxSliceFailures, MaxSliceDamage

SliceAssumption ==
  /\ Nobody \notin Experts
  /\ {MaxSliceCalls, MaxSliceKills, MaxSliceFailures, MaxSliceDamage} \subseteq Nat
ASSUME SliceConstants == SliceAssumption

VARIABLES dir,       \* content of the files there are
          slice,     \* the call in progress: pc, expert, final names it created, and
                     \* the step of the except block
          before,    \* the files with a final name when the call began
          late,      \* conversions that failed after they published
          outcome,   \* how the last call of an expert ended
          calls, sliceKills, sliceFailures, sliceDamage

sliceBounds == <<sliceKills, sliceFailures, sliceDamage>>
sliceVars == <<dir, slice, before, late, outcome, calls, sliceBounds>>

Shard(e) == <<"shard", e>>
Manifest == <<"manifest", Nobody>>
K3x(e) == <<"k3x", e>>
Partial == <<"shard.partial", Nobody>>
ManifestPartial == <<"manifest.partial", Nobody>>
K3xPartial(e) == <<"k3x.partial", e>>
Ledger(e) == <<"k3x.resume.json", e>>

Final(d) == {f \in DOMAIN d : f[1] \in {"shard", "manifest", "k3x"}}
There(f) == f \in DOMAIN dir
With(d, f, content) == [g \in DOMAIN d \cup {f} |-> IF g = f THEN content ELSE d[g]]
Removed(d, f) == [g \in DOMAIN d \ {f} |-> d[g]]

NoSlice == [pc |-> "idle", expert |-> Nobody, created |-> {}, undo |-> 0]
Asked == slice.expert   \* the expert of the call
GoTo(stage) == slice' = [slice EXCEPT !.pc = stage]
Created(f, stage) == slice' = [slice EXCEPT !.pc = stage, !.created = @ \cup {f}]

SliceInit ==
  /\ dir = <<>> /\ slice = NoSlice /\ before = <<>> /\ late = {}
  /\ outcome = [e \in Experts |-> "none"]
  /\ calls = 0 /\ sliceKills = 0 /\ sliceFailures = 0 /\ sliceDamage = 0

AskFor(e) ==
  /\ slice.pc = "idle" /\ calls < MaxSliceCalls /\ calls' = calls + 1
  /\ slice' = [NoSlice EXCEPT !.pc = "fetch", !.expert = e]
  /\ before' = [f \in Final(dir) |-> dir[f]]
  /\ outcome' = [outcome EXCEPT ![e] = "none"]
  /\ UNCHANGED <<dir, late, sliceBounds>>

Undo == slice' = [slice EXCEPT !.pc = "undo", !.undo = 1]
Stay == UNCHANGED <<before, late, outcome, calls, sliceBounds>>

(* Before the directory is touched a failure needs no taking back. *)
FetchSliceFails ==
  /\ slice.pc = "fetch" /\ sliceFailures < MaxSliceFailures /\ sliceFailures' = sliceFailures + 1
  /\ slice' = NoSlice /\ outcome' = [outcome EXCEPT ![Asked] = "failed"]
  /\ UNCHANGED <<dir, before, late, calls, sliceKills, sliceDamage>>

FetchSlice ==
  /\ slice.pc = "fetch"
  /\ dir' = With(dir, Partial, "good")
  /\ GoTo("shard") /\ Stay

(* The microshard takes the name of its content, or is there already. *)
StoreShard ==
  /\ slice.pc = "shard"
  /\ CASE ~There(Shard(Asked)) ->
            dir' = With(Removed(dir, Partial), Shard(Asked), "good") /\ Created(Shard(Asked), "manifest")
       [] There(Shard(Asked)) /\ dir[Shard(Asked)] = "good" ->
            dir' = Removed(dir, Partial) /\ GoTo("manifest")
       [] OTHER -> UNCHANGED dir /\ Undo
  /\ Stay

(* A manifest that is there must be this one, byte for byte. *)
WriteManifest ==
  /\ slice.pc = "manifest"
  /\ CASE ~There(Manifest) -> dir' = With(dir, ManifestPartial, Asked) /\ GoTo("publish")
       [] There(Manifest) /\ dir[Manifest] = Asked -> UNCHANGED dir /\ GoTo("k3x")
       [] OTHER -> UNCHANGED dir /\ Undo
  /\ Stay

PublishManifest ==
  /\ slice.pc = "publish"
  /\ dir' = With(Removed(dir, ManifestPartial), Manifest, Asked)
  /\ Created(Manifest, "k3x")
  /\ Stay

(* A K3X file that is there is opened and must come from this source.      *)
UseK3x ==
  /\ slice.pc = "k3x" /\ There(K3x(Asked))
  /\ IF dir[K3x(Asked)] = "good" THEN GoTo("return") ELSE Undo
  /\ UNCHANGED dir /\ Stay

StartConvert ==
  /\ slice.pc = "k3x" /\ ~There(K3x(Asked))
  /\ dir' = With(With(dir, K3xPartial(Asked), "good"), Ledger(Asked), "good")
  /\ GoTo("convert") /\ Stay

(* convert renames its partial file, then removes its ledger. *)
Convert ==
  /\ slice.pc = "convert"
  /\ dir' = With(Removed(Removed(dir, K3xPartial(Asked)), Ledger(Asked)), K3x(Asked), "good")
  /\ Created(K3x(Asked), "return") /\ Stay

(* The ledger cannot be removed: convert raises with its file published,   *)
(* and its caller never learns that a file was created.                    *)
ConvertFailsLate ==
  /\ slice.pc = "convert" /\ sliceFailures < MaxSliceFailures /\ sliceFailures' = sliceFailures + 1
  /\ dir' = With(Removed(dir, K3xPartial(Asked)), K3x(Asked), "good")
  /\ late' = late \cup {Asked} /\ Undo
  /\ UNCHANGED <<before, outcome, calls, sliceKills, sliceDamage>>

(* Any other write, read or conversion fails. *)
SliceFails ==
  /\ slice.pc \in {"shard", "manifest", "publish", "k3x", "convert", "return"}
  /\ sliceFailures < MaxSliceFailures /\ sliceFailures' = sliceFailures + 1
  /\ Undo
  /\ UNCHANGED <<dir, before, late, outcome, calls, sliceKills, sliceDamage>>

Return ==
  /\ slice.pc = "return"
  /\ slice' = NoSlice /\ outcome' = [outcome EXCEPT ![Asked] = "returned"]
  /\ UNCHANGED <<dir, before, late, calls, sliceBounds>>

(* Mutant: the microshard goes before the manifest that names it. *)
UndoneShardFirst ==
  <<Partial, ManifestPartial, K3xPartial(Asked), Ledger(Asked), Shard(Asked), Manifest, K3x(Asked)>>
(* The files of the except block, in its order. *)
UndoneFiles ==
  <<Partial, ManifestPartial, K3xPartial(Asked), Ledger(Asked), K3x(Asked), Manifest, Shard(Asked)>>

(* A file with a final name goes only if this call created it.             *)
TakeBack ==
  /\ slice.pc = "undo" /\ slice.undo \in 1..7
  /\ LET f == UndoneFiles[slice.undo] IN
     dir' = IF f \in Final(dir) \ slice.created THEN dir ELSE Removed(dir, f)
  /\ slice' = [slice EXCEPT !.undo = @ + 1]
  /\ Stay

Raise ==
  /\ slice.pc = "undo" /\ slice.undo > 7
  /\ slice' = NoSlice /\ outcome' = [outcome EXCEPT ![Asked] = "failed"]
  /\ UNCHANGED <<dir, before, late, calls, sliceBounds>>

KillSlice ==
  /\ slice.pc # "idle" /\ sliceKills < MaxSliceKills /\ sliceKills' = sliceKills + 1
  /\ slice' = NoSlice
  /\ UNCHANGED <<dir, before, late, outcome, calls, sliceFailures, sliceDamage>>

(* A stored file goes bad between two calls. *)
DamageSlice ==
  /\ slice.pc = "idle" /\ sliceDamage < MaxSliceDamage /\ sliceDamage' = sliceDamage + 1
  /\ \E f \in Final(dir) : f # Manifest /\ dir' = With(dir, f, "bad")
  /\ UNCHANGED <<slice, before, late, outcome, calls, sliceKills, sliceFailures>>

SliceStep ==
  \/ FetchSlice \/ StoreShard \/ WriteManifest \/ PublishManifest \/ UseK3x \/ StartConvert
  \/ Convert \/ Return \/ TakeBack \/ Raise

SliceNext ==
  \/ \E e \in Experts : AskFor(e)
  \/ SliceStep \/ FetchSliceFails \/ ConvertFailsLate \/ SliceFails \/ KillSlice \/ DamageSlice

SliceSpec == SliceInit /\ [][SliceNext]_sliceVars

------------------------------------------------------------------------------
(* Properties *)

(* Types of the variables. *)
SliceTypeOK ==
  /\ slice.pc \in {"idle", "fetch", "shard", "manifest", "publish", "k3x", "convert", "return", "undo"}
  /\ Asked \in Experts \cup {Nobody} /\ (Asked = Nobody <=> slice.pc = "idle")
  /\ slice.created \subseteq {Shard(Asked), Manifest, K3x(Asked)}
  /\ late \subseteq Experts
  /\ sliceKills <= MaxSliceKills /\ sliceFailures <= MaxSliceFailures
  /\ sliceDamage <= MaxSliceDamage

(* No call changes or removes a file that had its final name when it began.*)
KeepsWhatWasThere ==
  slice.pc # "idle" => \A f \in DOMAIN before : There(f) /\ dir[f] = before[f]

(* A call that fails, at any step and for any reason, leaves the final     *)
(* names as it found them; only a conversion that failed after publishing  *)
(* leaves its file.                                                        *)
UndoneOnRaise == Raise => Final(dir) \ DOMAIN before \subseteq {K3x(e) : e \in late}

(* A manifest never stands without the microshard it names, nor a K3X file *)
(* without its manifest, also when a call is killed while it builds them up*)
(* or takes them back.                                                     *)
ManifestHasShard ==
  /\ There(Manifest) => There(Shard(dir[Manifest]))
  /\ \A e \in Experts \ late : There(K3x(e)) => There(Manifest) /\ dir[Manifest] = e

(* A call that returns leaves the three files of its expert, all sound.    *)
WholeOnReturn ==
  Return =>
    /\ There(Shard(Asked)) /\ dir[Shard(Asked)] = "good"
    /\ There(Manifest) /\ dir[Manifest] = Asked
    /\ There(K3x(Asked)) /\ dir[K3x(Asked)] = "good"
    /\ ~There(K3xPartial(Asked)) /\ ~There(ManifestPartial)

(* A call for an expert leaves what was there when it began; when it fails *)
(* it leaves the final names as it found them, when it returns its three   *)
(* files are whole, and when it is killed no manifest stands without its   *)
(* microshard.  However redirects, lengths and answers mix on the way, only*)
(* trusted hosts are connected to, each connection and delivered byte is   *)
(* counted, and only the whole of what was pinned is accepted.             *)
FetchIsTransaction ==
  /\ [](SliceTypeOK /\ KeepsWhatWasThere /\ ManifestHasShard)
  /\ [][UndoneOnRaise /\ WholeOnReturn]_sliceVars
  /\ []TransportIsExact
===============================================================================
