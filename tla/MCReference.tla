----------------------------- MODULE MCReference -----------------------------
(***************************************************************************)
(* The Python reference for TLC.  The first state picks the part that runs:*)
(* a call of the router ("routing"), sessions of the reference model       *)
(* ("model"), the writer of a bounded expert source ("bounded") or the     *)
(* synthetic generator ("synthetic"); or the CUDA benchmark of an official *)
(* layer, whose oracle the reference is ("device").  The other parts stay  *)
(* at rest.                                                                *)
(***************************************************************************)
EXTENDS RoutingPolicy, OfficialDevice, ReferenceSources

CONSTANTS None, id1, id2

VARIABLES part, read, forward, call, returned

model == <<read, forward, call, returned>>
vars == <<part, routerVars, model, boundedVars, syntheticVars, deviceVars>>

------------------------------------------------------------------------------
(* Routing: four experts and a ladder of 2, 3 and 4, the adaptive K; scores*)
(* up to two; a bias that lifts two experts, one that lifts one and sinks  *)
(* one.                                                                    *)
FourExperts == 1..4
Scores == [FourExperts -> 0..2]
TokenBatches ==
  {<<s>> : s \in Scores}
    \cup {<<s, u>> : s \in {<<2, 1, 1, 0>>, <<0, 0, 0, 0>>},
                     u \in {<<2, 0, 0, 0>>, <<1, 1, 1, 1>>, <<0, 0, 1, 2>>}}
CorrectionBiases == {<<0, 0, 0, 0>>, <<0, 0, 2, 2>>, <<-1, 0, 0, 1>>}

------------------------------------------------------------------------------
(* The model: values are residues, its computations hashes of what they    *)
(* read; four layers as in the default configuration, kda three times and  *)
(* then mla, two blocks of two, a convolution of three.                    *)
Vocabulary == {1, 2, 3}
P == 9973
Hash(s) ==
  LET upTo[i \in 0..Len(s)] == IF i = 0 THEN 5 ELSE (upTo[i - 1] * 211 + s[i] + 17) % P
  IN  upTo[Len(s)]
RoleOf(role) == CASE role = "attention" -> 1 [] role = "mlp" -> 2 [] role = "output" -> 3
Embedding(t) == (t * 1009) % P
Head1(h) == (h % Cardinality(Vocabulary)) + 1
Mixed(l, role, list) == Hash(<<l, RoleOf(role)>> \o list)
Sum2(x, y) == (x + 3 * y) % P
KdaOut(l, window, recurrent) == Hash(<<l, 4, recurrent>> \o window)
KdaNext(l, window, recurrent) == Hash(<<l, 5, recurrent>> \o window)
MlaOut(l, x, keys) == Hash(<<l, 6, x>> \o keys)
FfnOut(l, x) == Hash(<<l, 7, x>>)

Model == INSTANCE ReferenceModel WITH
  Tokens <- Vocabulary, LayerKinds <- <<"kda", "kda", "kda", "mla">>, AttnResBlockSize <- 2,
  Kernel <- 3, Zero <- 0, Embed <- Embedding, LmHead <- Head1, Mix <- Mixed, Add <- Sum2,
  KdaOutput <- KdaOut, KdaRecurrent <- KdaNext, MlaOutput <- MlaOut, FeedForward <- FfnOut,
  Prompts <- {<<1>>, <<2, 3>>},
  Batches <- {<<<<1>>>>, <<<<2, 3>>>>, <<<<1, 2>>, <<2, 1>>>>, <<<<3>>, <<1>>>>},
  MaxRead <- 3, MaxCount <- 3, MaxCalls <- 2

------------------------------------------------------------------------------
(* The bounded source: one writer, two tensors of three and two bytes,     *)
(* every chunk size, three calls.  The synthetic source: one layer of each  *)
(* kind, the first dense, two experts, two generations.                    *)
TwoTensors == <<3, 2>>
TwoKinds == <<"kda", "mla">>

------------------------------------------------------------------------------
(* The device: the cases the tools run, with none or one execution to warm *)
(* up and one or two measured, and up to two steps that fail.  Two inputs  *)
(* share one of their two experts; sizes are such that sums tell them apart*)
Bench(tool, case, weights, validation, state, route) ==
  {[tool |-> tool, case |-> case, weights |-> weights, validation |-> validation,
    state |-> state, route |-> route, warmups |-> w, iterations |-> i] : w \in {0, 1}, i \in {1, 2}}
Routes == <<{1, 2}, {2, 3}>>
AllBenches ==
  Bench("layer", "a", "transient", "per-call", "host", "host")
    \cup UNION {Bench("layer", case, "resident", validation, "host", "host") :
                   case \in {"ab-full", "ab-incremental"}, validation \in {"per-call", "admission"}}
    \cup UNION {Bench("layer", "ab-incremental", "resident", "admission", "device", route) :
                   route \in {"host", "device"}}
    \cup Bench("moe", "a", "transient", "per-call", "host", "host")
    \cup UNION {Bench("moe", case, "resident", "per-call", "host", "host") :
                   case \in {"a", "alternating"}}
    \cup UNION {Bench("expert", "a", weights, "per-call", "host", "host") :
                   weights \in {"transient", "resident"}}
    \cup UNION {Bench("closure", case, "resident", "admission", "device", "device") :
                   case \in {"host-round-trip", "device-closure"}}

------------------------------------------------------------------------------
RoutingParked ==
  /\ batch = <<>> /\ bias = None /\ topK = None /\ policy = None /\ pc = "done"
  /\ decisions = <<>> /\ mixed = <<>>
ModelParked == read = None /\ forward = None /\ call = None /\ returned = None
SyntheticParked == SyntheticInit /\ seed = CHOOSE s \in Seeds : TRUE
DeviceParked == Start(CHOOSE b \in Benches : TRUE)

Init ==
  \/ /\ part = "routing" /\ RouterInit
     /\ ModelParked /\ BoundedInit /\ SyntheticParked /\ DeviceParked
  \/ /\ part = "model" /\ Model!Init
     /\ RoutingParked /\ BoundedInit /\ SyntheticParked /\ DeviceParked
  \/ /\ part = "bounded" /\ BoundedInit
     /\ RoutingParked /\ ModelParked /\ SyntheticParked /\ DeviceParked
  \/ /\ part = "synthetic" /\ SyntheticInit
     /\ RoutingParked /\ ModelParked /\ BoundedInit /\ DeviceParked
  \/ /\ part = "device" /\ DeviceInit
     /\ RoutingParked /\ ModelParked /\ BoundedInit /\ SyntheticParked

Next ==
  \/ part = "routing" /\ RouterNext /\ UNCHANGED <<part, model, boundedVars, syntheticVars, deviceVars>>
  \/ part = "model" /\ Model!Next /\ UNCHANGED <<part, routerVars, boundedVars, syntheticVars, deviceVars>>
  \/ part = "bounded" /\ BoundedNext /\ UNCHANGED <<part, routerVars, model, syntheticVars, deviceVars>>
  \/ part = "synthetic" /\ SyntheticNext /\ UNCHANGED <<part, routerVars, model, boundedVars, deviceVars>>
  \/ part = "device" /\ DeviceNext /\ UNCHANGED <<part, routerVars, model, boundedVars, syntheticVars>>

Spec == Init /\ [][Next]_vars

------------------------------------------------------------------------------
(* Properties *)

(* However the tokens of a session were split between prefill and steps,   *)
(* state and logits are those of one prefill of them all, row by row and   *)
(* position by position; and both ways to generate answer the same.        *)
SessionIsHistory ==
  part = "model" =>
    /\ Model!TypeOK /\ Model!WindowsAreRecent /\ Model!SessionIsHistory
    /\ Model!RowsAreIndependent /\ Model!Causal /\ Model!GenerationsAgree
==============================================================================
