--------------------------- MODULE OfficialDevice ---------------------------
(***************************************************************************)
(* The official layers on CUDA: what the backend keeps between calls (a    *)
(* KDA state slot per layer, one prepared MoE input, two hidden slots, the *)
(* resident and the validated weights, its counters), the drivers          *)
(* official_layer_cuda and official_two_layer_cuda that call it step by    *)
(* step and clean up when a step fails, and the benchmarks that run them.  *)
(* The formulas the tools require of their rows follow at the end.         *)
(*                                                                         *)
(* A step may fail at each point at which its code leaves the state        *)
(* differently.  Sizes are constants; shapes, values and kernels are left  *)
(* out, and so are the wrap of the generations and the limit of residency. *)
(***************************************************************************)
EXTENDS Integers, Sequences, FiniteSets, FiniteSetsExt, SequencesExt

CONSTANTS
  Benches,       \* what may be run: see MCReference
  MaxFaults,     \* bound on the steps that fail
  RouteOf,       \* RouteOf[i]: the experts the input at position i is routed to
  HiddenBytes, State, KdaBf16, KdaF32, Common, Expert, RouteBytes, FrontBytes, LogitsBytes,
  Contribution, ExpertIo   \* bytes

\* What is run: one of the four drivers, in one of its cases, at least once.
ASSUME DeviceAssumption ==
  /\ MaxFaults \in Nat
  /\ \A b \in Benches :
       /\ <<b.tool, b.case>> \in
            ({"layer"} \X {"a", "ab-full", "ab-incremental"}) \cup ({"moe"} \X {"a", "alternating"})
              \cup {<<"expert", "a">>} \cup ({"closure"} \X {"host-round-trip", "device-closure"})
       /\ b.warmups \in Nat /\ b.iterations \in Nat \ {0}

VARIABLES
  bench,     \* the benchmark: a tool, a case, its options and counts
  backend,   \* the CUDA backend
  held,      \* the tokens the driver and its caller hold
  todo,      \* the steps left of the current execution
  ran,       \* executions completed
  marks,     \* counters the benchmark kept: after the first, before the measured
  faults,
  outcome    \* "running", "done", or why an execution failed

deviceVars == <<bench, backend, held, todo, ran, marks, faults, outcome>>

Layers == {1, 2}
TwoLayer == {"closure"}
Counters == {"weight_h2d", "activation_h2d", "d2h", "kda_calls", "kda_launches", "state_h2d",
             "state_d2h", "output_d2h", "state_seeds", "state_continuations",
             "state_publications", "state_invalidations", "route_calls", "route_launches",
             "logit_d2h", "prepared_seeds", "prepared_consumes", "prepared_discards",
             "prepared_invalidations", "hits", "misses", "allocations", "syncs",
             "scans", "scan_hits", "scan_bytes"}
Zero == [c \in Counters |-> 0]
FreeSlot == [state |-> "free", generation |-> 0, layer |-> 0]

IdleBackend ==
  [kda |-> [l \in Layers |-> 0],               \* the generation of an active slot
   prepared |-> [active |-> FALSE, layer |-> 0, slot |-> 0],
   hidden |-> [s \in {1, 2} |-> FreeSlot],
   generations |-> [kda |-> 0, prepared |-> 0, hidden |-> 0],
   resident |-> {}, validated |-> {}, stats |-> Zero]
NoTokens == [call |-> 0, state |-> [l \in Layers |-> 0], prepared |-> 0,
             hidden |-> [generation |-> 0, slot |-> 0, layer |-> 0]]

Add(b, more) ==
  [b EXCEPT !.stats = [c \in Counters |-> @[c] + (IF c \in DOMAIN more THEN more[c] ELSE 0)]]

-----------------------------------------------------------------------------
(* Weights, in groups that are always taken together                        *)

KdaWeights(l) == {<<"bf16", l>>, <<"f32", l>>}
FfnWeights(l, i) == {<<"common", l>>} \cup {<<"expert", l, e>> : e \in RouteOf[i]}
Views(g) == CASE g[1] = "bf16" -> 8 [] g[1] = "f32" -> 6 [] g[1] = "common" -> 6
              [] g[1] = "expert" -> 3 [] g[1] = "route" -> 4 [] g[1] = "front" -> 3
Bytes(g) == CASE g[1] = "bf16" -> KdaBf16 [] g[1] = "f32" -> KdaF32 [] g[1] = "common" -> Common
              [] g[1] = "expert" -> Expert [] g[1] = "route" -> RouteBytes
              [] g[1] = "front" -> FrontBytes
ViewsOf(groups) == MapThenSumSet(Views, groups)
BytesOf(groups) == MapThenSumSet(Bytes, groups)
\* Packed values and scales of an expert's matrices are two allocations.
AllocationsOf(groups) == MapThenSumSet(LAMBDA g : IF g[1] = "expert" THEN 6 ELSE Views(g), groups)

\* A resident weight is uploaded once; a transient one in every call.
Acquire(b, groups) ==
  IF bench.weights = "resident"
  THEN Add([b EXCEPT !.resident = @ \cup groups],
           [hits |-> ViewsOf(groups \cap b.resident), misses |-> ViewsOf(groups \ b.resident),
            weight_h2d |-> BytesOf(groups \ b.resident)])
  ELSE Add(b, [weight_h2d |-> BytesOf(groups), allocations |-> AllocationsOf(groups)])

\* Immutable weights are scanned in every call, or once, when admitted.
Validated(b, groups) ==
  LET scanned == IF bench.validation = "per-call" THEN groups ELSE groups \ b.validated
  IN  Add([b EXCEPT !.validated = IF bench.validation = "per-call" THEN @ ELSE @ \cup groups],
          [scans |-> ViewsOf(scanned), scan_bytes |-> BytesOf(scanned),
           scan_hits |-> ViewsOf(groups \ scanned)])

-----------------------------------------------------------------------------
(* Calls of the backend that succeed.  A step is a record: its op, layer,   *)
(* and what the driver passes.                                              *)

Retains(mode) == mode \in {"seed", "continue"}
Publishes(mode) == mode \in {"roundtrip", "publish"}
Continues(mode) == mode \in {"continue", "publish"}

KdaAdmits(b, s, token) ==
  CASE s.mode = "seed" -> b.kda[s.layer] = 0
    [] Continues(s.mode) -> b.kda[s.layer] # 0 /\ b.kda[s.layer] = token
    [] OTHER -> TRUE

SlotAfterKda(b, s) == IF Retains(s.mode) THEN b.generations.kda + 1 ELSE 0

\* Mutant: only a state that stays on the device counts as continued.
ContinuationsOfRetained(s) == IF s.mode = "continue" THEN 1 ELSE 0
ContinuationsOf(s) == IF Continues(s.mode) THEN 1 ELSE 0

\* official_kda; onDevice where official_layer_front gives its input there.
Kda(b, s, onDevice) ==
  LET weights == KdaWeights(s.layer)
      n == Len(s.inputs)
      stateIn == IF Continues(s.mode) THEN 0 ELSE State
      stateOut == IF Publishes(s.mode) THEN State ELSE 0
      io == IF onDevice THEN 0 ELSE n * HiddenBytes
      ran1 == Acquire(Validated(b, weights), weights)
      counted == Add(ran1,
        [syncs |-> 1, activation_h2d |-> io + stateIn, d2h |-> io + stateOut,
         kda_calls |-> 1, kda_launches |-> 8 + 8 * n, state_h2d |-> stateIn,
         state_d2h |-> stateOut, output_d2h |-> io,
         state_seeds |-> IF s.mode = "seed" THEN 1 ELSE 0,
         state_continuations |-> ContinuationsOf(s),
         state_publications |-> IF s.mode = "publish" THEN 1 ELSE 0,
         state_invalidations |-> IF s.mode = "roundtrip" /\ b.kda[s.layer] # 0 THEN 1 ELSE 0])
  IN  [counted EXCEPT !.kda[s.layer] = SlotAfterKda(b, s),
                      !.generations.kda = IF Retains(s.mode) THEN @ + 1 ELSE @]

FreeHidden(b, slot) ==
  IF slot = 0 THEN b ELSE [b EXCEPT !.hidden[slot].state = "free"]
NotPrepared == [active |-> FALSE, layer |-> 0, slot |-> 0]
\* A prepared input that another replaces is invalidated, with its hidden slot.
DropPrepared(b, counter) ==
  IF b.prepared.active
  THEN Add([FreeHidden(b, b.prepared.slot) EXCEPT !.prepared = NotPrepared], [c \in {counter} |-> 1])
  ELSE b

\* prepare_official_moe_route
Prepare(b, s, onDevice) ==
  LET weights == {<<"route", s.layer>>}
      clear == DropPrepared(Acquire(Validated(b, weights), weights), "prepared_invalidations")
      counted == Add(clear,
        [syncs |-> 1, activation_h2d |-> IF onDevice THEN 0 ELSE 2 * HiddenBytes, d2h |-> LogitsBytes,
         route_calls |-> 1, route_launches |-> 2, logit_d2h |-> LogitsBytes, prepared_seeds |-> 1])
  IN  [counted EXCEPT !.prepared = [active |-> TRUE, layer |-> s.layer, slot |-> 0],
                      !.generations.prepared = @ + 1]

\* discard_official_moe_prepared, discard_official_kda_device_state and
\* discard_official_layer_hidden: of what is there and of this generation.
DiscardPrepared(b, token) ==
  IF token = b.generations.prepared THEN DropPrepared(b, "prepared_discards") ELSE b
DiscardKda(b, token) ==
  LET slots == {l \in Layers : token # 0 /\ b.kda[l] = token}
  IN  IF slots = {} THEN b
      ELSE Add([b EXCEPT !.kda = [l \in Layers |-> IF l \in slots THEN 0 ELSE @[l]]],
               [state_invalidations |-> 1])
DiscardHidden(b, token) ==
  IF token.slot # 0 /\ b.hidden[token.slot].state = "live"
       /\ b.hidden[token.slot].generation = token.generation
       /\ b.hidden[token.slot].layer = token.layer
  THEN FreeHidden(b, token.slot) ELSE b

PreparedAdmits(b, s, token) ==
  b.prepared.active /\ b.prepared.layer = s.layer /\ b.generations.prepared = token
Consume(b) == Add([b EXCEPT !.prepared.active = FALSE], [prepared_consumes |-> 1])

\* official_mxfp4_moe_ffn, or _prepared, or the one inside official_layer_tail
\* that retains its output on the device.
Ffn(b, s, retain) ==
  LET taken == IF s.prepared THEN Consume(b) ELSE DropPrepared(b, "prepared_invalidations")
  IN  Add(Acquire(taken, FfnWeights(s.layer, s.inputs[1])),
          [syncs |-> 1, d2h |-> IF retain THEN 0 ELSE HiddenBytes,
           activation_h2d |-> (IF s.prepared THEN 0 ELSE 2 * HiddenBytes) + Contribution])

\* official_layer_front
HiddenSlotFor(b, s, token) == IF s.layer = 1 THEN 1 ELSE token.slot
FrontAdmits(b, s, token) ==
  /\ ~b.prepared.active
  /\ IF s.layer = 1
     THEN \A slot \in {1, 2} : b.hidden[slot].state = "free"
     ELSE /\ token.slot # 0 /\ token.layer + 1 = s.layer
          /\ b.hidden[token.slot] =
               [state |-> "live", generation |-> token.generation, layer |-> token.layer]
          /\ b.hidden[3 - token.slot].state = "free"
LayerFront(b, s, token) ==
  LET slot == HiddenSlotFor(b, s, token)
      self == {<<"front", s.layer>>}
      taken == [Acquire(Validated(b, self), self) EXCEPT !.hidden[slot].state = "prepared"]
      routed == Prepare(Kda(taken, s, TRUE), s, TRUE)
  IN  Add([routed EXCEPT !.prepared.slot = slot],
          [activation_h2d |-> IF s.layer = 1 THEN 2 * HiddenBytes ELSE 0])

\* official_layer_tail
TailAdmits(b, s, token) ==
  /\ PreparedAdmits(b, s, token)
  /\ b.prepared.slot # 0 /\ b.hidden[b.prepared.slot].state = "prepared"
  /\ s.retain => b.hidden[3 - b.prepared.slot].state = "free"
LayerTail(b, s) ==
  LET source == b.prepared.slot
      mixed == [FreeHidden(Ffn(b, s, s.retain), source) EXCEPT !.prepared = NotPrepared]
      generation == b.generations.hidden + 1
  IN  IF s.retain
      THEN [mixed EXCEPT !.hidden[3 - source] =
                           [state |-> "live", generation |-> generation, layer |-> s.layer],
                         !.generations.hidden = generation]
      ELSE mixed

\* mxfp4_situ_mlp_group over one expert, as the expert benchmark calls it
\* with its buffers reused.
Group(b) ==
  Add(IF bench.weights = "resident" THEN Acquire(b, {<<"expert", 1, 0>>})
                                    ELSE Add(b, [weight_h2d |-> Expert]),
      [syncs |-> 1, activation_h2d |-> ExpertIo, d2h |-> ExpertIo])

-----------------------------------------------------------------------------
(* Calls of the backend that fail, and the points at which they may         *)

FaultPoints(s) ==
  CASE s.op \in {"kda", "prepare", "ffn", "tail", "group"} -> {"early", "late"}
    [] s.op = "route" -> {"early"}
    [] s.op = "front" -> {"early", "input", "kda early", "kda late", "after kda"}
    [] s.op = "return" -> {}
Admits(b, s) ==
  CASE s.op = "kda" -> KdaAdmits(b, s, held.state[s.layer])
    [] s.op = "ffn" -> s.prepared => PreparedAdmits(b, s, held.prepared)
    [] s.op = "front" ->
         FrontAdmits(b, s, held.hidden) /\ KdaAdmits(b, s, held.state[s.layer])
    [] s.op = "tail" -> TailAdmits(b, s, held.prepared)
    [] OTHER -> TRUE

\* The work on the state has begun: a slot on the device is lost.
KdaLost(b, s) ==
  IF s.mode = "roundtrip" THEN DiscardKda(b, b.kda[s.layer])
  ELSE Add([b EXCEPT !.kda[s.layer] = 0], [state_invalidations |-> 1])
\* A front that fails frees the slot of its input and the state it made.
FrontFailed(b, s, point, slot) ==
  CASE point = "early" -> b
    [] point \in {"input", "kda early"} -> FreeHidden(b, slot)
    [] point = "kda late" -> FreeHidden(KdaLost(b, s), slot)
    [] point = "after kda" ->
         FreeHidden(DiscardKda(Kda(b, s, TRUE), Kda(b, s, TRUE).kda[s.layer]), slot)

Failed(b, s, point) ==
  IF point = "refused" THEN b ELSE
  CASE s.op \in {"route", "group"} -> b
    [] s.op = "kda" -> IF point = "early" THEN b ELSE KdaLost(b, s)
    [] s.op = "prepare" ->
         IF point = "early" THEN b ELSE DropPrepared(b, "prepared_invalidations")
    [] s.op = "ffn" ->
         IF ~s.prepared THEN DropPrepared(b, "prepared_invalidations")
         ELSE IF point = "early" THEN b ELSE Consume(b)
    [] s.op = "front" -> FrontFailed(b, s, point, HiddenSlotFor(b, s, held.hidden))
    [] s.op = "tail" ->
         IF point = "early" THEN DiscardPrepared(b, held.prepared)
         ELSE [FreeHidden(Consume(b), b.prepared.slot) EXCEPT !.prepared = NotPrepared]

-----------------------------------------------------------------------------
(* The drivers, as the steps of their calls                                 *)

Step(op, layer, mode, inputs, prepared, retain) ==
  [op |-> op, layer |-> layer, mode |-> mode, inputs |-> inputs, prepared |-> prepared,
   retain |-> retain]

\* An input through its experts, routed on the device or on the host.
InputSteps(layer, mode, route, input) ==
  (IF route = "device" THEN <<Step("prepare", layer, mode, <<input>>, FALSE, FALSE)>> ELSE <<>>)
    \o <<Step("route", layer, mode, <<input>>, FALSE, FALSE),
         Step("ffn", layer, mode, <<input>>, route = "device", FALSE)>>

\* official_layer_cuda: KDA over all its inputs, of which there are one or two,
\* then each through its experts.
LayerCall(layer, inputs, mode, route) ==
  <<Step("kda", layer, mode, inputs, FALSE, FALSE)>>
    \o InputSteps(layer, mode, route, inputs[1])
    \o (IF Len(inputs) > 1 THEN InputSteps(layer, mode, route, inputs[2]) ELSE <<>>)
    \o <<Step("return", layer, mode, inputs, FALSE, FALSE)>>

\* official_two_layer_cuda: two positions through two layers, the states
\* staying on the device between the positions; the hidden vector too, in the
\* device closure.
LayerAt(onDevice, p, layer) ==
  LET mode == IF p = 1 THEN "seed" ELSE "publish"
  IN  IF onDevice
      THEN <<Step("front", layer, mode, <<p>>, TRUE, FALSE),
             Step("route", layer, mode, <<p>>, TRUE, FALSE),
             Step("tail", layer, mode, <<p>>, TRUE, layer = 1)>>
      ELSE LayerCall(layer, <<p>>, mode, "device")
TwoLayerCall(onDevice) ==
  LayerAt(onDevice, 1, 1) \o LayerAt(onDevice, 1, 2)
    \o LayerAt(onDevice, 2, 1) \o LayerAt(onDevice, 2, 2)

\* What a benchmark executes once.
Execution ==
  CASE bench.tool = "layer" ->
         (CASE bench.case = "a" -> LayerCall(1, <<1>>, "roundtrip", bench.route)
            [] bench.case = "ab-full" -> LayerCall(1, <<1, 2>>, "roundtrip", bench.route)
            [] bench.case = "ab-incremental" ->
                 IF bench.state = "device"
                 THEN LayerCall(1, <<1>>, "seed", bench.route)
                        \o LayerCall(1, <<2>>, "publish", bench.route)
                 ELSE LayerCall(1, <<1>>, "roundtrip", bench.route)
                        \o LayerCall(1, <<2>>, "roundtrip", bench.route))
    [] bench.tool = "moe" ->
         <<Step("ffn", 1, "roundtrip", <<1>>, FALSE, FALSE)>>
           \o (IF bench.case = "alternating"
               THEN <<Step("ffn", 1, "roundtrip", <<2>>, FALSE, FALSE)>> ELSE <<>>)
    [] bench.tool = "expert" -> <<Step("group", 1, "roundtrip", <<1>>, FALSE, FALSE)>>
    [] bench.tool = "closure" -> TwoLayerCall(bench.case = "device-closure")

-----------------------------------------------------------------------------
(* Running                                                                  *)

Start(b) ==
  /\ bench = b /\ backend = IdleBackend /\ held = NoTokens /\ todo = <<>> /\ ran = 0
  /\ marks = [cold |-> Zero, before |-> Zero] /\ faults = 0 /\ outcome = "ready"
DeviceInit == \E b \in Benches : Start(b)

\* The layer, MoE and expert benchmarks measure a first, cold execution apart.
Executions == bench.warmups + bench.iterations + (IF bench.tool \in TwoLayer THEN 0 ELSE 1)
\* Counters are taken before the measured executions, or, in the two-layer
\* driver's telemetry, before the last.
TakenAfter == IF bench.tool \in TwoLayer THEN Executions - 1 ELSE Executions - bench.iterations

\* The caller executes again: the benchmarks do where nothing failed; the
\* two-layer driver's callers also after a failure.
Execute ==
  /\ outcome = "ready" \/ (outcome = "failed" /\ bench.tool \in TwoLayer)
  /\ ran < Executions
  /\ todo' = Execution /\ outcome' = "running"
  /\ UNCHANGED <<bench, backend, held, ran, marks, faults>>

Completed ==
  /\ outcome = "running" /\ todo = <<>>
  /\ ran' = ran + 1
  /\ marks' = [cold |-> IF ran' = 1 THEN backend.stats ELSE marks.cold,
               before |-> IF ran' = TakenAfter THEN backend.stats ELSE marks.before]
  /\ outcome' = IF ran' = Executions THEN "done" ELSE "ready"
  /\ UNCHANGED <<bench, backend, held, todo, faults>>

Proceeds(op) ==
  outcome = "running" /\ todo # <<>> /\ Head(todo).op = op /\ Admits(backend, Head(todo))
Advance(b, tokens) ==
  /\ backend' = b /\ held' = tokens /\ todo' = Tail(todo)
  /\ UNCHANGED <<bench, ran, marks, faults, outcome>>

KdaCall ==
  /\ Proceeds("kda")
  /\ LET s == Head(todo)
         b == Kda(backend, s, FALSE)
     IN  Advance(b, [held EXCEPT !.call = IF Retains(s.mode) THEN b.generations.kda ELSE 0])
PrepareCall ==
  /\ Proceeds("prepare")
  /\ LET b == Prepare(backend, Head(todo), FALSE)
     IN  Advance(b, [held EXCEPT !.prepared = b.generations.prepared])
RouteExperts ==
  Proceeds("route") /\ Advance(backend, held)
FfnCall ==
  Proceeds("ffn") /\ Advance(Ffn(backend, Head(todo), FALSE), [held EXCEPT !.prepared = 0])
\* official_layer_cuda returns the token of the state it retained.
ReturnLayer ==
  /\ Proceeds("return")
  /\ Advance(backend, [held EXCEPT !.call = 0, !.state[Head(todo).layer] = held.call])
FrontCall ==
  /\ Proceeds("front")
  /\ LET s == Head(todo)
         b == LayerFront(backend, s, held.hidden)
     IN  Advance(b, [held EXCEPT
           !.prepared = b.generations.prepared,
           !.hidden = IF s.layer = 2 THEN NoTokens.hidden ELSE @,
           !.state[s.layer] = IF Retains(s.mode) THEN b.generations.kda ELSE 0])
TailCall ==
  /\ Proceeds("tail")
  /\ LET s == Head(todo)
         b == LayerTail(backend, s)
     IN  Advance(b, [held EXCEPT
           !.prepared = 0,
           !.hidden = IF s.retain
                      THEN [generation |-> b.generations.hidden, layer |-> s.layer,
                            slot |-> 3 - backend.prepared.slot]
                      ELSE NoTokens.hidden])
GroupCall == Proceeds("group") /\ Advance(Group(backend), held)

\* Mutant: a failing layer leaves the state it made on the device.
LayerCleanupForgets(b, s) ==
  IF s.op \in {"route", "ffn"} THEN DiscardPrepared(b, held.prepared) ELSE b
\* fail_after_prepare and fail_after_kda of official_layer_cuda, and what the
\* two-layer driver discards when its experts cannot be selected.
LayerCleanup(b, s) ==
  LET unprepared == IF s.op \in {"route", "ffn"} /\ held.prepared # 0
                    THEN DiscardPrepared(b, held.prepared) ELSE b
  IN  DiscardKda(unprepared, held.call)
\* cleanup of official_two_layer_cuda.  Tokens that were consumed already are
\* refused, which hides the first error and changes nothing.
TwoLayerCleanup(b) ==
  DiscardKda(DiscardKda(DiscardHidden(b, held.hidden), held.state[1]), held.state[2])

StepFails ==
  /\ outcome = "running" /\ todo # <<>>
  /\ LET s == Head(todo)
     IN  \E point \in IF ~Admits(backend, s) THEN {"refused"}
                      ELSE IF faults < MaxFaults THEN FaultPoints(s) ELSE {} :
           LET left == LayerCleanup(Failed(backend, s, point), s)
           IN  /\ backend' = IF bench.tool \in TwoLayer THEN TwoLayerCleanup(left) ELSE left
               /\ held' = IF bench.tool \in TwoLayer THEN NoTokens
                          ELSE [held EXCEPT !.call = 0, !.prepared = 0]
               /\ faults' = IF point = "refused" THEN faults ELSE faults + 1
               /\ outcome' = IF point = "refused" THEN "refused" ELSE "failed"
  /\ todo' = <<>>
  /\ UNCHANGED <<bench, ran, marks>>

DeviceNext ==
  \/ Execute \/ Completed \/ StepFails
  \/ KdaCall \/ PrepareCall \/ RouteExperts \/ FfnCall \/ ReturnLayer
  \/ FrontCall \/ TailCall \/ GroupCall

DeviceSpec == DeviceInit /\ [][DeviceNext]_deviceVars

-----------------------------------------------------------------------------
DeviceTypeOK ==
  /\ bench \in Benches /\ faults \in 0..MaxFaults /\ ran \in 0..Executions
  /\ outcome \in {"ready", "running", "done", "failed", "refused"}
  /\ DOMAIN backend.stats = Counters
  /\ \A c \in {"prepared_seeds", "prepared_consumes", "prepared_discards",
              "prepared_invalidations"} : backend.stats[c] \in Nat
  /\ \A s \in {1, 2} : backend.hidden[s].state \in {"free", "prepared", "live"}

\* Whether a driver ends well or any of its steps fails at any point, it leaves
\* nothing on the device but a state whose token its caller was given: no
\* prepared input, no hidden vector.  So none of its calls is ever refused, and
\* a caller may call again after a failure; and every input that was prepared
\* is consumed, discarded or invalidated, once.
DeviceIsLeftFree ==
  /\ DeviceTypeOK
  /\ outcome # "refused"
  /\ outcome \in {"ready", "done", "failed"} =>
       /\ ~backend.prepared.active /\ backend.prepared.slot = 0
       /\ \A s \in {1, 2} : backend.hidden[s].state = "free"
       /\ \A l \in Layers : backend.kda[l] # 0 =>
            outcome = "failed" /\ bench.tool \notin TwoLayer /\ backend.kda[l] = held.state[l]
  /\ backend.stats.prepared_seeds =
       backend.stats.prepared_consumes + backend.stats.prepared_discards
         + backend.stats.prepared_invalidations + (IF backend.prepared.active THEN 1 ELSE 0)

-----------------------------------------------------------------------------
(* What the evidence tools require of the rows of the CUDA benchmarks:       *)
(* closed formulas of the case, the options and the number of iterations for *)
(* every transfer, launch, hit and scan.  They are written in Python, apart  *)
(* from the C++ that counts; here the two meet.  Identity fields, timings,   *)
(* errors and the counters of the reader are left out.                       *)

-----------------------------------------------------------------------------
(* The row a benchmark prints                                               *)

TopK == Cardinality(RouteOf[1])
Selected == UNION {RouteOf[i] : i \in DOMAIN RouteOf}
Cold == marks.cold
Measured == [c \in Counters |-> backend.stats[c] - marks.before[c]]
ResidentBytes == BytesOf(backend.resident)

\* The layer benchmark prints transfers by precision from formulas of its own,
\* and refuses to print where they do not add up to what was counted.
BenchParts ==
  LET cold == [bf16 |-> KdaBf16 + Common + (IF bench.route = "device" THEN RouteBytes ELSE 0),
               f32 |-> KdaF32,
               mxfp4 |-> (IF bench.case = "a" THEN TopK ELSE Cardinality(Selected)) * Expert]
      measured == IF bench.weights = "transient"
                  THEN [bf16 |-> bench.iterations * (KdaBf16 + Common),
                        f32 |-> bench.iterations * KdaF32,
                        mxfp4 |-> bench.iterations * TopK * Expert]
                  ELSE [bf16 |-> 0, f32 |-> 0, mxfp4 |-> 0]
  IN  [cold |-> cold, measured |-> measured]
BenchPrints ==
  /\ Measured.weight_h2d =
       BenchParts.measured.bf16 + BenchParts.measured.f32 + BenchParts.measured.mxfp4
  /\ Cold.weight_h2d = BenchParts.cold.bf16 + BenchParts.cold.f32 + BenchParts.cold.mxfp4

Row == [cold |-> Cold, measured |-> Measured, parts |-> BenchParts, resident |-> ResidentBytes,
        slotBytes |-> IF backend.generations.prepared = 0 THEN 0 ELSE 2 * HiddenBytes]

\* Whether a row has the values a formula gives to some of its counters.
Agrees(counters, formula) == \A c \in DOMAIN formula : counters[c] = formula[c]

-----------------------------------------------------------------------------
(* ablate_official_layer                                                    *)

Traffic(case, weights, iterations) ==
  LET tokens == IF case = "a" THEN 1 ELSE 2
      kdaCalls == IF case = "ab-incremental" THEN 2 ELSE 1
      state == State * kdaCalls * iterations
      output == HiddenBytes * tokens * iterations
      experts == IF case = "a" THEN TopK ELSE Cardinality(Selected)
      perIteration == IF weights = "resident" THEN 0 ELSE iterations
  IN  [cold |-> [weight_h2d |-> KdaBf16 + KdaF32 + Common + experts * Expert],
       coldParts |-> [bf16 |-> KdaBf16 + Common, f32 |-> KdaF32, mxfp4 |-> experts * Expert],
       parts |-> [bf16 |-> (KdaBf16 + Common) * perIteration, f32 |-> KdaF32 * perIteration,
                  mxfp4 |-> TopK * Expert * perIteration],
       measured |->
         [weight_h2d |-> (KdaBf16 + KdaF32 + Common + TopK * Expert) * perIteration,
          activation_h2d |->
            (State * kdaCalls + HiddenBytes * tokens + (2 * HiddenBytes + Contribution) * tokens) * iterations,
          d2h |-> state + 2 * output,
          kda_calls |-> kdaCalls * iterations,
          kda_launches |-> (IF case = "ab-full" THEN 24 ELSE 16 * kdaCalls) * iterations,
          state_h2d |-> state, state_d2h |-> state, output_d2h |-> output,
          syncs |-> (kdaCalls + tokens) * iterations]]

\* 54 views of the experts and their norms are hit per token, 14 of KDA per call.
FfnViews == 6 + 3 * TopK
LayerRow(row, case, weights, iterations) ==
  LET traffic == Traffic(case, weights, iterations)
      full == KdaBf16 + KdaF32 + Common + Cardinality(Selected) * Expert
  IN  /\ Agrees(row.cold, traffic.cold) /\ Agrees(row.measured, traffic.measured)
      /\ row.parts = [cold |-> traffic.coldParts, measured |-> traffic.parts]
      /\ row.resident = IF weights = "resident" THEN full ELSE 0
      /\ row.measured.misses = 0
      /\ IF weights = "resident"
         THEN /\ row.measured.hits =
                   ((IF case = "ab-incremental" THEN 28 ELSE 14) + 2 * FfnViews) * iterations
              /\ row.measured.allocations = 0
         ELSE row.measured.hits = 0

-----------------------------------------------------------------------------
(* ablate_official_kda_validation                                           *)

ValidationFormula(case, validation, iterations) ==
  LET calls == IF case = "ab-incremental" THEN 2 ELSE 1
      weight == KdaBf16 + KdaF32
  IN  IF validation = "admission"
      THEN [cold |-> [scans |-> 14, scan_hits |-> 14 * (calls - 1), scan_bytes |-> weight],
            measured |-> [scans |-> 0, scan_hits |-> 14 * calls * iterations, scan_bytes |-> 0]]
      ELSE [cold |-> [scans |-> 14 * calls, scan_hits |-> 0, scan_bytes |-> weight * calls],
            measured |-> [scans |-> 14 * calls * iterations, scan_hits |-> 0,
                          scan_bytes |-> weight * calls * iterations]]
ValidationRow(row, case, validation, iterations) ==
  LET formula == ValidationFormula(case, validation, iterations)
  IN  /\ LayerRow(row, case, "resident", iterations)
      /\ Agrees(row.cold, formula.cold) /\ Agrees(row.measured, formula.measured)

-----------------------------------------------------------------------------
(* ablate_official_kda_device_state                                         *)

StateFormula(case, transfer, iterations) ==
  LET host == Traffic(case, "resident", iterations).measured
      device == IF transfer = "device" THEN 1 ELSE 0
      calls == IF transfer = "device" \/ case = "ab-full" THEN 1 ELSE 2
      once == [state_seeds |-> device, state_continuations |-> device,
               state_publications |-> device, state_invalidations |-> 0]
  IN  [cold |-> once,
       measured |->
         [c \in DOMAIN once |-> once[c] * iterations] @@
         [activation_h2d |-> host.activation_h2d - State * iterations * device,
          d2h |-> host.d2h - State * iterations * device,
          state_h2d |-> State * calls * iterations, state_d2h |-> State * calls * iterations]]
StateRow(row, case, transfer, iterations) ==
  LET formula == StateFormula(case, transfer, iterations)
      host == Traffic(case, "resident", iterations).measured
      legacy == IF transfer = "device"
                THEN [row EXCEPT !.measured.activation_h2d = host.activation_h2d,
                                 !.measured.d2h = host.d2h,
                                 !.measured.state_h2d = host.state_h2d,
                                 !.measured.state_d2h = host.state_d2h]
                ELSE row
  IN  /\ transfer = "device" => case = "ab-incremental"
      /\ Agrees(row.cold, formula.cold) /\ Agrees(row.measured, formula.measured)
      /\ ValidationRow(legacy, case, "admission", iterations)

-----------------------------------------------------------------------------
(* ablate_official_moe_device_routing                                       *)

RouteFormula(route, iterations) ==
  LET calls == IF route = "device" THEN 2 ELSE 0
      once == [route_calls |-> calls, route_launches |-> calls * 2, logit_d2h |-> LogitsBytes * calls,
               prepared_seeds |-> calls, prepared_consumes |-> calls, prepared_discards |-> 0,
               prepared_invalidations |-> 0]
  IN  [cold |-> once, measured |-> [c \in DOMAIN once |-> once[c] * iterations],
       slotBytes |-> IF route = "device" THEN 2 * HiddenBytes ELSE 0]
\* What a row of device routing would be with the routing on the host.
NormalizeStateRow(row, route, iterations) ==
  IF route = "host" THEN row
  ELSE LET less(counters, deltas) ==
             [c \in DOMAIN counters |->
                counters[c] - (IF c \in DOMAIN deltas THEN deltas[c] ELSE 0)]
       IN  [row EXCEPT
              !.cold = less(@, [weight_h2d |-> RouteBytes, scans |-> 4, scan_hits |-> 4,
                                scan_bytes |-> RouteBytes]),
              !.parts.cold.bf16 = @ - RouteBytes,
              !.resident = @ - RouteBytes,
              !.measured = less(@, [d2h |-> LogitsBytes * 2 * iterations, syncs |-> 2 * iterations,
                                    hits |-> 8 * iterations, scan_hits |-> 8 * iterations])]
RouteRow(row, route, iterations) ==
  LET formula == RouteFormula(route, iterations)
  IN  /\ Agrees(row.cold, formula.cold) /\ Agrees(row.measured, formula.measured)
      /\ row.slotBytes = formula.slotBytes
      /\ StateRow(NormalizeStateRow(row, route, iterations), "ab-incremental", "device", iterations)

-----------------------------------------------------------------------------
(* ablate_official_moe and ablate_official_expert_cuda                      *)

MoeRow(row, case, weights, iterations) ==
  LET calls == IF case = "alternating" THEN 2 ELSE 1
      total == calls * iterations
      experts == IF case = "alternating" THEN Cardinality(Selected) ELSE TopK
      coldCommon == IF weights = "resident" THEN Common ELSE calls * Common
      resident == Common + experts * Expert
  IN  /\ row.cold.weight_h2d = coldCommon + experts * Expert
      /\ Agrees(row.measured,
           [activation_h2d |-> total * (2 * HiddenBytes + Contribution), d2h |-> total * HiddenBytes,
            syncs |-> total, misses |-> 0])
      /\ IF weights = "transient"
         THEN /\ row.resident = 0
              /\ Agrees(row.measured,
                   [weight_h2d |-> total * (Common + TopK * Expert), hits |-> 0,
                    allocations |-> total * (6 + 6 * TopK)])
         ELSE /\ row.resident = resident
              /\ Agrees(row.measured,
                   [weight_h2d |-> 0, hits |-> total * FfnViews, allocations |-> 0])

ExpertRow(row, weights, iterations) ==
  /\ Agrees(row.cold, [weight_h2d |-> Expert, activation_h2d |-> ExpertIo, d2h |-> ExpertIo])
  /\ Agrees(row.measured,
       [activation_h2d |-> ExpertIo * iterations, d2h |-> ExpertIo * iterations,
        allocations |-> 0, syncs |-> iterations, misses |-> 0])
  /\ IF weights = "transient"
     THEN Agrees(row.measured, [weight_h2d |-> Expert * iterations, hits |-> 0]) /\ row.resident = 0
     ELSE Agrees(row.measured, [weight_h2d |-> 0, hits |-> 3 * iterations]) /\ row.resident = Expert

-----------------------------------------------------------------------------
(* ablate_official_two_layer_closure                                        *)

ExpectedResident(host) ==
  2 * (KdaBf16 + KdaF32 + Common + Cardinality(Selected) * Expert) + 2 * RouteBytes
    + (IF host THEN 0 ELSE 2 * FrontBytes)
\* Transfers are of the last execution, lifetimes of all.
ClosureRow(row, mode, warmups, iterations) ==
  LET host == mode = "host-round-trip"
      runs == warmups + iterations
      between == IF host THEN 2 * HiddenBytes ELSE 0
      output == IF host THEN 4 * HiddenBytes ELSE 0
      lifetime == [state_seeds |-> 2 * runs, state_continuations |-> 2 * runs,
                   state_publications |-> 2 * runs, state_invalidations |-> 0,
                   prepared_seeds |-> 4 * runs, prepared_consumes |-> 4 * runs,
                   prepared_discards |-> 0, prepared_invalidations |-> 0]
  IN  /\ Agrees(row.measured,
           [weight_h2d |-> 0, state_h2d |-> 2 * State, state_d2h |-> 2 * State,
            output_d2h |-> output, logit_d2h |-> 4 * LogitsBytes,
            d2h |-> 2 * State + output + 4 * LogitsBytes + between + 2 * HiddenBytes])
      /\ row.measured.activation_h2d >= 2 * State
      /\ Agrees(backend.stats, lifetime)
      /\ row.resident = ExpectedResident(host)

-----------------------------------------------------------------------------
\* Counters never go below zero, and the row of a benchmark none of whose steps
\* failed is printed and accepted by the tools it is run by.  Of the two-layer
\* tools this asks for two executions at least: the first uploads the weights,
\* and they refuse a row in which weights were uploaded.
RowsAreAccepted ==
  /\ backend.stats \in [Counters -> Nat]
  /\ outcome = "done" /\ faults = 0 =>
       CASE bench.tool = "layer" ->
              /\ BenchPrints
              /\ bench.state = "host" /\ bench.route = "host"
                    /\ (bench.weights = "transient") = (bench.case = "a") =>
                   LayerRow(Row, bench.case, bench.weights, bench.iterations)
              /\ bench.weights = "resident" /\ bench.state = "host" /\ bench.route = "host" =>
                   ValidationRow(Row, bench.case, bench.validation, bench.iterations)
              /\ bench.validation = "admission" /\ bench.route = "host" =>
                   StateRow(Row, bench.case, bench.state, bench.iterations)
              /\ bench.validation = "admission" /\ bench.state = "device" =>
                   RouteRow(Row, bench.route, bench.iterations)
         [] bench.tool = "moe" -> MoeRow(Row, bench.case, bench.weights, bench.iterations)
         [] bench.tool = "expert" -> ExpertRow(Row, bench.weights, bench.iterations)
         [] bench.tool = "closure" ->
              Executions > 1 => ClosureRow(Row, bench.case, bench.warmups, bench.iterations)
=============================================================================
