---------------------------- MODULE ResidentLayer ----------------------------
(***************************************************************************)
(* A resident MoE layer on the device (CudaCustomBackend::                  *)
(* resident_moe_layer): its weights are admitted to a table that evicts     *)
(* nothing, its scratch buffers only grow, and its operations are recorded  *)
(* in CUDA graphs, which are kept under the ordered experts they are for.   *)
(*                                                                         *)
(* A graph holds addresses of weights and of scratch buffers.  A scratch    *)
(* buffer is told from its successors by its capacity.  What the kernels    *)
(* compute, the staging of inputs, and the scan of weights are left out.    *)
(***************************************************************************)
EXTENDS Integers, Sequences, FiniteSets

CONSTANTS
  Layers,          \* requests: [dense |-> a tensor, experts |-> a sequence of tensors]
  TensorBytes,     \* bytes of each tensor
  WeightCapacity,  \* bytes of the resident table
  GraphCapacity,   \* entries of the graph cache
  MaxLayerCalls,   \* bound on the calls
  MaxLayerFaults   \* bound on CUDA calls that fail

LayerAssumption ==
  /\ Layers \subseteq [dense : DOMAIN TensorBytes, experts : Seq(DOMAIN TensorBytes)]
  /\ TensorBytes \in [DOMAIN TensorBytes -> Nat] /\ WeightCapacity \in Nat
  /\ GraphCapacity \in Nat \ {0}
  /\ MaxLayerCalls \in Nat /\ MaxLayerFaults \in Nat
ASSUME LayerConstants == LayerAssumption

VARIABLES
  mode,       \* CudaGraphMode
  resident,   \* the table: its tensors, and resident_weight_bytes
  scratch,    \* capacity of each scratch buffer
  graphs,     \* graph_entries_, graph_index_, update_graph_entry_ and
              \* graph_scratch_identity_
  layerCall,  \* the call under way
  launched,   \* the last launch: what was asked for and what ran
  touched,    \* history: the keys of the cache in the order they were used
  spent       \* calls and faults until now

layerVars == <<mode, resident, scratch, graphs, layerCall, launched, touched, spent>>

NoCall == [pc |-> "idle", request |-> <<>>, acquired |-> 0, bypass |-> FALSE, candidate |-> {}]
NoGraphs == [entries |-> <<>>, lastUse |-> [sequence |-> 0, of |-> <<>>], update |-> {},
             identity |-> {}]

LayerInit ==
  /\ mode \in {"disabled", "update", "cache"}
  /\ resident = [tensors |-> {}, bytes |-> 0]
  /\ scratch = [input |-> 0, descriptors |-> 0]
  /\ graphs = NoGraphs
  /\ layerCall = NoCall
  /\ launched = {}
  /\ touched = <<>>
  /\ spent = [calls |-> 0, faults |-> 0]

Without(f, key) == [k \in DOMAIN f \ {key} |-> f[k]]
With(f, key, value) == [k \in DOMAIN f \cup {key} |-> IF k = key THEN value ELSE f[k]]

CudaFails == spent.faults < MaxLayerFaults /\ spent' = [spent EXCEPT !.faults = @ + 1]
Gives == layerCall' = NoCall

-----------------------------------------------------------------------------
(* Weights and scratch                                                      *)

Tensors(request) == <<request.dense>> \o request.experts
Asked == Tensors(layerCall.request)

Ask(request) ==
  /\ layerCall.pc = "idle" /\ spent.calls < MaxLayerCalls
  /\ layerCall' = [NoCall EXCEPT !.pc = "acquire", !.request = request]
  /\ spent' = [spent EXCEPT !.calls = @ + 1]
  /\ UNCHANGED <<mode, resident, scratch, graphs, launched, touched>>

\* acquire: a tensor that does not fit is bypassed, and evicts nothing.
Fits(tensor) == resident.bytes + TensorBytes[tensor] <= WeightCapacity

\* Every tensor is asked for, also after one was bypassed.
Acquire ==
  /\ layerCall.pc = "acquire" /\ layerCall.acquired < Len(Asked)
  /\ LET tensor == Asked[layerCall.acquired + 1]
         hit == tensor \in resident.tensors
     IN
     /\ resident' = IF hit \/ ~Fits(tensor) THEN resident
                    ELSE [tensors |-> resident.tensors \cup {tensor},
                          bytes |-> resident.bytes + TensorBytes[tensor]]
     /\ layerCall' = [layerCall EXCEPT !.acquired = @ + 1, !.bypass = @ \/ ~(hit \/ Fits(tensor))]
  /\ UNCHANGED <<mode, scratch, graphs, launched, touched, spent>>

\* A failed upload ends the call; the tensors admitted before it stay.
AcquireFails ==
  /\ layerCall.pc = "acquire" /\ layerCall.acquired < Len(Asked)
  /\ Asked[layerCall.acquired + 1] \notin resident.tensors /\ Fits(Asked[layerCall.acquired + 1])
  /\ CudaFails /\ Gives
  /\ UNCHANGED <<mode, resident, scratch, graphs, launched, touched>>

\* After a bypass, executed = false: the caller falls back.
Acquired ==
  /\ layerCall.pc = "acquire" /\ layerCall.acquired = Len(Asked)
  /\ IF layerCall.bypass THEN Gives ELSE layerCall' = [layerCall EXCEPT !.pc = "reserve"]
  /\ UNCHANGED <<mode, resident, scratch, graphs, launched, touched, spent>>

Needs(request) == [input |-> 1, descriptors |-> Len(request.experts)]
Grown(buffers, needs, which) ==
  [b \in DOMAIN buffers |-> IF b \in which /\ needs[b] > buffers[b] THEN needs[b] ELSE buffers[b]]

Reserve ==
  /\ layerCall.pc = "reserve"
  /\ scratch' = Grown(scratch, Needs(layerCall.request), DOMAIN scratch)
  /\ layerCall' = [layerCall EXCEPT !.pc = IF mode = "disabled" THEN "launch" ELSE "identify"]
  /\ UNCHANGED <<mode, resident, graphs, launched, touched, spent>>

\* Buffers reserved before the one that fails have moved.
ReserveFails ==
  /\ layerCall.pc = "reserve" /\ CudaFails /\ Gives
  /\ \E which \in SUBSET DOMAIN scratch :
       scratch' = Grown(scratch, Needs(layerCall.request), which)
  /\ UNCHANGED <<mode, resident, graphs, launched, touched>>

\* official_mxfp4_moe_ffn grows the same buffers, to twice the input, and
\* knows nothing of graphs; it may fail on the way.
OfficialReserve(request) ==
  /\ layerCall.pc = "idle" /\ spent.calls < MaxLayerCalls
  /\ \E which \in SUBSET DOMAIN scratch :
       /\ scratch' = Grown(scratch, [Needs(request) EXCEPT !.input = 2], which)
       /\ which # DOMAIN scratch => spent.faults < MaxLayerFaults
       /\ spent' = [calls |-> spent.calls + 1,
                    faults |-> spent.faults + IF which = DOMAIN scratch THEN 0 ELSE 1]
  /\ UNCHANGED <<mode, resident, graphs, layerCall, launched, touched>>

-----------------------------------------------------------------------------
(* Graphs                                                                   *)

\* Mutant of Identify: only the executable of update mode is forgotten.
IdentifyKeepsEntries ==
  /\ layerCall.pc = "identify"
  /\ graphs' = [graphs EXCEPT !.identity = {scratch},
                  !.update = IF graphs.identity = {scratch} THEN @ ELSE {}]
  /\ layerCall' = [layerCall EXCEPT !.pc = "graph"]
  /\ UNCHANGED <<mode, resident, scratch, launched, touched, spent>>

\* Graphs that name buffers which have moved are all forgotten.
Identify ==
  /\ layerCall.pc = "identify"
  /\ IF graphs.identity \notin {{}, {scratch}}
     THEN /\ graphs' = [entries |-> <<>>, update |-> {}, identity |-> {scratch},
                        lastUse |-> [graphs.lastUse EXCEPT !.of = <<>>]]
          /\ touched' = <<>>
     ELSE graphs' = [graphs EXCEPT !.identity = {scratch}] /\ UNCHANGED touched
  /\ layerCall' = [layerCall EXCEPT !.pc = "graph"]
  /\ UNCHANGED <<mode, resident, scratch, launched, spent>>

\* BoundedCudaGraphIndex::touch.
Touch(index, key) ==
  LET full == key \notin DOMAIN index.of /\ Cardinality(DOMAIN index.of) = GraphCapacity
      victim == CHOOSE k \in DOMAIN index.of : \A j \in DOMAIN index.of : index.of[k] <= index.of[j]
      kept == IF full THEN Without(index.of, victim) ELSE index.of
  IN  [index |-> [sequence |-> index.sequence + 1, of |-> With(kept, key, index.sequence + 1)],
       evicted |-> IF full THEN {victim} ELSE {}]

Key == layerCall.request
Captured == [key |-> Key, scratch |-> scratch]
Cached == mode = "cache" /\ Key \in DOMAIN graphs.entries

Hit ==
  /\ layerCall.pc = "graph" /\ Cached
  /\ graphs' = [graphs EXCEPT !.lastUse = Touch(@, Key).index]
  /\ touched' = Append(touched, Key)
  /\ layerCall' = [layerCall EXCEPT !.pc = "launch"]
  /\ UNCHANGED <<mode, resident, scratch, launched, spent>>

\* A graph is recorded; in update mode it goes into the executable that is
\* there, which leaves its entry, or else into a new one.
Record ==
  /\ layerCall.pc = "graph" /\ ~Cached
  /\ layerCall' = [layerCall EXCEPT !.pc = "launch", !.candidate = {Captured}]
  /\ \/ UNCHANGED graphs
     \/ /\ mode = "update" /\ \E entry \in graphs.update : entry.executable # {}
        /\ graphs' = [graphs EXCEPT !.update = {[executable |-> {}]}]
  /\ UNCHANGED <<mode, resident, scratch, launched, touched, spent>>

RecordFails ==
  /\ layerCall.pc = "graph" /\ ~Cached /\ CudaFails /\ Gives
  /\ UNCHANGED <<mode, resident, scratch, graphs, launched, touched>>

Launch ==
  /\ layerCall.pc = "launch"
  /\ launched' = {[asked |-> Captured,
                   ran |-> IF mode = "disabled" THEN Captured
                           ELSE IF Cached THEN graphs.entries[Key]
                           ELSE CHOOSE graph \in layerCall.candidate : TRUE]}
  /\ layerCall' = [layerCall EXCEPT !.pc = "settle"]
  /\ UNCHANGED <<mode, resident, scratch, graphs, touched, spent>>

\* The launch, the wait or the timing fails: a recorded graph is lost, with
\* the executable it may have taken.
LaunchFails ==
  /\ layerCall.pc \in {"launch", "settle"} /\ CudaFails /\ Gives
  /\ UNCHANGED <<mode, resident, scratch, graphs, launched, touched>>

Settle ==
  /\ layerCall.pc = "settle"
  /\ IF layerCall.candidate = {} THEN UNCHANGED <<graphs, touched>>
     ELSE IF mode = "update"
     THEN /\ graphs' = [graphs EXCEPT !.update = {[executable |-> layerCall.candidate]}]
          /\ UNCHANGED touched
     ELSE LET touch == Touch(graphs.lastUse, Key)
              kept == [k \in DOMAIN graphs.entries \ touch.evicted |-> graphs.entries[k]]
              graph == CHOOSE g \in layerCall.candidate : TRUE
          IN  /\ graphs' = [graphs EXCEPT !.lastUse = touch.index, !.entries = With(kept, Key, graph)]
              /\ touched' = Append(touched, Key)
  /\ Gives
  /\ UNCHANGED <<mode, resident, scratch, launched, spent>>

LayerNext ==
  \/ \E request \in Layers : Ask(request) \/ OfficialReserve(request)
  \/ Acquire \/ AcquireFails \/ Acquired
  \/ Reserve \/ ReserveFails \/ Identify \/ Hit \/ Record \/ RecordFails
  \/ Launch \/ LaunchFails \/ Settle

LayerSpec == LayerInit /\ [][LayerNext]_layerVars

-----------------------------------------------------------------------------
(* Properties                                                              *)

\* What is launched was recorded for the ordered experts asked for and for the
\* scratch buffers as they are now, whoever moved them since.
LaunchesAreCurrent == \A launch \in launched : launch.ran = launch.asked

\* The weights that a kept graph names are in the table, the bytes of which are
\* those accounted for and within its capacity.
BytesOf(tensors) == UNION {{t} \X (1..TensorBytes[t]) : t \in tensors}
AreResident(request) ==
  \A k \in DOMAIN Tensors(request) : Tensors(request)[k] \in resident.tensors
WeightsAreResident ==
  /\ resident.bytes = Cardinality(BytesOf(resident.tensors))
  /\ resident.bytes <= WeightCapacity
  /\ \A key \in DOMAIN graphs.entries : AreResident(key)

\* The cache holds the graphs used last, as many as it has room for, and its
\* index knows exactly those.
UsedLast ==
  LET Later(k) == {touched[j] : j \in (k + 1)..Len(touched)} IN
  {touched[k] : k \in {i \in DOMAIN touched : Cardinality(Later(i) \ {touched[i]}) < GraphCapacity}}
CacheIsUsedLast ==
  /\ DOMAIN graphs.entries = DOMAIN graphs.lastUse.of
  /\ DOMAIN graphs.entries = UsedLast
  /\ Cardinality(DOMAIN graphs.entries) <= GraphCapacity

\* A graph that is launched was recorded for the experts in the order asked for
\* and for the scratch buffers where they are now; it names resident weights; and
\* the cache keeps those used last.
GraphsAreCurrent == LaunchesAreCurrent /\ WeightsAreResident /\ CacheIsUsedLast
=============================================================================
