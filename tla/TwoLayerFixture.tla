--------------------------- MODULE TwoLayerFixture ---------------------------
(***************************************************************************)
(* materialize_official_two_layer and derive_official_two_layer_trace      *)
(* (converter/k3x_converter/official_two_layer.py): inputs a and b walk    *)
(* through layers 1 and 2 in the order a:1, a:2, b:1, b:2.  A layer keeps  *)
(* its own state; the output of layer 1 is the input of layer 2.  Experts  *)
(* are fetched when a step first routes to them.                           *)
(*                                                                         *)
(* A state is the inputs its layer has consumed; an output is its layer    *)
(* and the state it left.                                                  *)
(***************************************************************************)
EXTENDS FixtureFiles

CONSTANT WalkRoutes  \* of a build: for each layer, the experts of input a and of input b

(* The experts of the two layers are different ranges.                     *)
WalkAssumption ==
  \A b \in Builds :
    /\ \A l \in {1, 2}, i \in {1, 2} : IsRoute(WalkRoutes[b][l][i])
    /\ \A i, j \in {1, 2} : ToSet(WalkRoutes[b][1][i]) \cap ToSet(WalkRoutes[b][2][j]) = {}
ASSUME WalkConstants == WalkAssumption

VARIABLE walk        \* the evaluation of the run in progress

twoVars == <<fixtureVars, walk>>

StepOrder == <<<<"a", 1>>, <<"a", 2>>, <<"b", 1>>, <<"b", 2>>>>
Input(p) == <<0, <<p>>>>
CaseOf(p) == IF p = "a" THEN 1 ELSE 2

NoWalk == [step |-> 1, hidden |-> Input("a"), states |-> <<<<>>, <<>>>>,
           chosen |-> <<<<>>, <<>>>>, executions |-> <<>>, trace |-> <<>>]

position == StepOrder[walk.step][1]
layer == StepOrder[walk.step][2]
route == WalkRoutes[run.build][layer][CaseOf(position)]

TwoInit == FixtureInit /\ builder = "two-layer" /\ walk = NoWalk

TwoStart(b) == StartOf(b, "trunk") /\ walk' = NoWalk

FetchTwoTrunk == Fetch("trunk") /\ UNCHANGED walk

LoadSources ==
  /\ Fetched("trunk") /\ Goto("prepare")
  /\ UNCHANGED <<store, disk, bounds, walk>>

(* The step is routed; the experts its layer has not used yet are wanted.  *)
Prepare ==
  /\ at("prepare")
  /\ run' = [run EXCEPT !.pc = "experts", !.need = Unused(route, walk.chosen[layer])]
  /\ UNCHANGED <<store, disk, bounds, walk>>

FetchStepExperts == Fetch("experts") /\ UNCHANGED walk

(* Mutant: both layers advance one state. *)
ExecuteShared(hidden, states, l) ==
  LET state == Append(states[1], hidden) IN
  [hidden |-> <<l, state>>, states |-> <<state, state>>]
(* A layer consumes the hidden value and its own state, and leaves both.   *)
Execute(hidden, states, l) ==
  LET state == Append(states[l], hidden) IN
  [hidden |-> <<l, state>>, states |-> [states EXCEPT ![l] = state]]

(* Every expert of the route must be loaded by now.                        *)
Finish ==
  /\ Fetched("experts")
  /\ LET chosen == FirstUse(walk.chosen[layer], route)
         result == Execute(walk.hidden, walk.states, layer)
         last == walk.step = Len(StepOrder)
     IN
     IF ToSet(route) \subseteq ToSet(chosen) \cap objects
     THEN /\ walk' = [walk EXCEPT
               !.chosen[layer] = chosen,
               !.states = result.states,
               !.executions = Append(@, [output |-> result.hidden,
                                         state |-> result.states[layer], route |-> route]),
               !.step = IF last THEN @ ELSE @ + 1,
               !.hidden = IF ~last /\ layer = 2 THEN Input("b") ELSE result.hidden]
          /\ Goto(IF last THEN "trace" ELSE "prepare")
     ELSE run' = NoRun /\ walk' = NoWalk
  /\ UNCHANGED <<store, disk, bounds>>

LastOf(i, l) == {j \in 1..(i - 1) : StepOrder[j][2] = l}

(* The trace replays the executions from zero states: what a step takes in *)
(* is what its position and its layer put out last.                        *)
Replay(executions) ==
  [i \in DOMAIN executions |->
     LET p == StepOrder[i][1]  l == StepOrder[i][2] IN
     [position |-> p, layer_id |-> l,
      hidden |-> IF l = 1 THEN Input(p) ELSE executions[i - 1].output,
      consumes |-> IF LastOf(i, l) = {} THEN <<>> ELSE executions[Max(LastOf(i, l))].state,
      state |-> executions[i].state, route |-> executions[i].route,
      output |-> executions[i].output]]

DeriveTrace ==
  /\ at("trace")
  /\ walk' = [walk EXCEPT !.trace = Replay(walk.executions)]
  /\ Goto("oracle") /\ UNCHANGED <<store, disk, bounds>>

PublishTwoOracle ==
  /\ at("oracle")
  /\ files' = [files EXCEPT !.oracle = run.build]
  /\ Goto("layout") /\ UNCHANGED <<store, ledger, partial, bounds, walk>>

(* The experts of the routes of the trace, by layer.                       *)
TraceStep(p, l) == CHOOSE i \in DOMAIN walk.trace :
  walk.trace[i].position = p /\ walk.trace[i].layer_id = l
SelectedOf(l) == FirstUse(walk.trace[TraceStep("a", l)].route, walk.trace[TraceStep("b", l)].route)

(* The evaluation is local to the run. *)
Kept == walk' = IF run'.pc = "idle" THEN NoWalk ELSE walk

LayOutTwo ==
  /\ at("layout")
  /\ IF \A l \in {1, 2} : walk.chosen[l] = SelectedOf(l) THEN Goto("assemble")
     ELSE run' = NoRun
  /\ Kept /\ UNCHANGED <<store, disk, bounds>>

(* The manifest is written last, with its artifact. *)
RecordTwo ==
  /\ at("verify")
  /\ files' = [files EXCEPT !.routes = run.build, !.artifact = run.build]
  /\ Goto("return") /\ UNCHANGED <<store, ledger, partial, bounds, walk>>

TwoStep ==
  \/ FetchTwoTrunk \/ LoadSources \/ Prepare \/ FetchStepExperts \/ Finish \/ DeriveTrace
  \/ PublishTwoOracle \/ LayOutTwo \/ RecordTwo
  \/ (Assembling /\ Kept)
  \/ (Return /\ Kept)

TwoNext ==
  /\ builder = "two-layer" /\ UNCHANGED builder
  /\ \/ \E b \in Builds : TwoStart(b)
     \/ TwoStep
     \/ (Stop /\ Kept)
     \/ (Lose /\ UNCHANGED walk)

TwoSpec == TwoInit /\ [][TwoNext]_twoVars

------------------------------------------------------------------------------
(* Properties *)

(* Types of the variables. *)
TwoTypeOK ==
  /\ FixtureTypeOK
  /\ walk.step \in DOMAIN StepOrder
  /\ Len(walk.executions) \in 0..Len(StepOrder)
  /\ at("idle") => walk = NoWalk

(* Layer by layer: layer 1 reads both inputs, layer 2 both its outputs.    *)
Layer1(ps) == <<1, [i \in DOMAIN ps |-> Input(ps[i])]>>
Layer2(ps) == <<2, [i \in DOMAIN ps |-> Layer1(SubSeq(ps, 1, i))]>>
Whole(p) == IF p = "a" THEN <<"a">> ELSE <<"a", "b">>

(* Walking the inputs one by one through both layers gives every step the  *)
(* input, the state and the output it has when whole sequences go through  *)
(* one layer after the other; the trace says so, of the executions that    *)
(* were made.                                                              *)
TraceIsOfLayers ==
  walk.trace # <<>> =>
    \A i \in DOMAIN StepOrder :
      LET p == StepOrder[i][1]
          l == StepOrder[i][2]
          output == IF l = 1 THEN Layer1(Whole(p)) ELSE Layer2(Whole(p))
          s == walk.trace[i]
      IN /\ s.output = output /\ s.state = output[2]
         /\ Append(s.consumes, s.hidden) = s.state

(* An expert is transferred only while a step that routes to it waits, and *)
(* no range is asked for twice in a run.                                   *)
ExpertsOnFirstUse ==
  /\ AskedOnce
  /\ at("experts") => ToSet(run.need) \subseteq ToSet(route)

(* A returned run leaves every file of its own build, and the experts it   *)
(* asked for are those of its trace.                                       *)
ReturnedIsWhole ==
  Return =>
    /\ \A f \in Files : files[f] = run.build
    /\ ToSet(Asked) = ToSet(Trunk) \cup ToSet(SelectedOf(1)) \cup ToSet(SelectedOf(2))
    /\ ledger = None /\ ~partial

(* Walking the inputs one by one through both layers gives what whole      *)
(* sequences give layer by layer, the trace says so, an expert is asked for*)
(* once, by the step that first routes to it, and a run that returns leaves*)
(* files of its own build alone.                                           *)
TraceIsLayerMajor ==
  /\ [](builder = "two-layer" => TwoTypeOK /\ TraceIsOfLayers /\ ExpertsOnFirstUse)
  /\ [][builder = "two-layer" => ReturnedIsWhole]_twoVars
==============================================================================
