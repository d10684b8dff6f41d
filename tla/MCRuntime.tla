------------------------------ MODULE MCRuntime ------------------------------
(***************************************************************************)
(* The parts of the C++ runtime below the decoding loop, in one run; the    *)
(* first state picks the part that runs, and the others stay where they     *)
(* start:                                                                   *)
(*   pair      the expert loader: two callers race over two loads and a     *)
(*             queue of one place;                                          *)
(*   order     the expert loader with one caller, a queue of two places,    *)
(*             and a load of later use whose latest start may be earlier;   *)
(*   read      the Reader's batches;                                        *)
(*   prefetch  the staging of experts for the device;                       *)
(*   layer     resident weights and CUDA graphs;                            *)
(*   profile   the profile of routed experts over sessions;                 *)
(*   drafting  the adaptive draft scheduler.                                *)
(***************************************************************************)
EXTENDS ExpertLoader, ReadBatch, ExpertPrefetch, ResidentLayer, RuntimeProfile, DraftScheduling

CONSTANT Parts

VARIABLE part

runtimeVars == <<part, vars, readVars, prefetchVars, layerVars, profileVars, draftVars>>

------------------------------------------------------------------------------
(* Constants                                                                *)

Request(start, latency) == [use |-> start, latency |-> latency]
PairRequests == {Request(2, 0)}
OrderRequests == {Request(2, 0), Request(3, 2)}

Pair == INSTANCE ExpertLoader WITH MaximumPending <- 1, Metadata <- PairRequests

\* Reads: a file of seven bytes, operations of three, which direct I/O cuts to
\* two; a queue of two; requests that begin and end off the boundaries, end with
\* the file, need several operations, or do not lie in the file.
Extent(offset, length) == [offset |-> offset, length |-> length]
MCRequestLists ==
  {<<>>, <<Extent(6, 2)>>, <<Extent(5, 2)>>, <<Extent(0, 1), Extent(3, 4)>>,
   <<Extent(1, 5), Extent(6, 1)>>}

\* Prefetch: slabs of two experts, groups that differ in a slot or in size.
MCGroups == {<<"e1", "e2">>, <<"e2", "e3">>, <<"e3">>}

\* Layers: two orders of the same two experts, a third expert alone, and a layer
\* whose weights no longer fit when the others are there.
Routed(dense, experts) == [dense |-> dense, experts |-> experts]
MCLayers ==
  {Routed("d1", <<"e1", "e2">>), Routed("d1", <<"e2", "e1">>), Routed("d1", <<"e3">>),
   Routed("d2", <<"e1">>)}
MCTensorBytes == [t \in {"d1", "d2", "e1", "e2", "e3"} |-> IF t = "d2" THEN 2 ELSE 1]

\* Profiles: five experts on three layers, three of which a profile has records
\* for; files of three bytes for a full map of frequencies, fifteen for one of
\* transitions, and twelve at most.
MCProfileExperts == {<<1, 1>>, <<1, 2>>, <<2, 1>>, <<2, 2>>, <<3, 1>>}
MCSelections ==
  {<<<<1, 1>>, <<1, 2>>>>, <<<<1, 1>>>>, <<<<2, 2>>, <<2, 1>>>>, <<<<2, 1>>>>, <<<<3, 1>>>>}
FullProfile ==
  [whole |-> TRUE, hot |-> <<<<3, 1>>, <<1, 1>>>>,
   counts |-> [frequency |-> [k \in {<<1, 1>>, <<3, 1>>} |-> IF k = <<3, 1>> THEN 5 ELSE 2],
               transitions |-> <<>>, observations |-> 7]]
MCOldProfiles == {{FullProfile}}

\* Drafting: a ladder of 1, 2 and 4; positions that report no cost, that load all
\* of their experts, and that share half of them.
MCCosts == {<<0, 0>>, <<2, 2>>, <<1, 2>>}

ASSUME LoaderAssumption /\ Pair!LoaderAssumption /\ SchedulingAssumption

------------------------------------------------------------------------------
\* A part that does not run has one first state.
RuntimeInit ==
  /\ part \in Parts
  /\ Init /\ ReadInit /\ PrefetchInit /\ LayerInit /\ ProfileInit /\ DraftInit
  /\ part # "read" => plane.engine = "pread" /\ plane.cache = "buffered"
  /\ part # "layer" => mode = "disabled"
  /\ part # "profile" => disk.file = {}
  /\ part # "drafting" => scheduler.adaptive

Elsewhere(own) ==
  /\ UNCHANGED part
  /\ own # "loader" => UNCHANGED vars
  /\ own # "read" => UNCHANGED readVars
  /\ own # "prefetch" => UNCHANGED prefetchVars
  /\ own # "layer" => UNCHANGED layerVars
  /\ own # "profile" => UNCHANGED profileVars
  /\ own # "drafting" => UNCHANGED draftVars

\* Tickets are numbered in the order they are taken: their names mean nothing.
Taken(t) == job[t] # {} \/ result[t] # {} \/ \E c \in Clients : client[c].ticket = t
InOrder == \A t \in Tickets : t > 1 /\ Taken(t) => Taken(t - 1)

\* Two callers race in "pair"; in "order" all but one have nothing to load.
Caller == CHOOSE c \in Clients : TRUE
OthersIdle == \A c \in Clients \ {Caller} : UNCHANGED client[c]

RuntimeNext ==
  \/ part = "pair" /\ Pair!Next /\ Elsewhere("loader") /\ InOrder'
  \/ part = "order" /\ Next /\ Elsewhere("loader") /\ InOrder' /\ OthersIdle
  \/ part = "read" /\ ReadNext /\ Elsewhere("read")
  \/ part = "prefetch" /\ PrefetchNext /\ Elsewhere("prefetch")
  \/ part = "layer" /\ LayerNext /\ Elsewhere("layer")
  \/ part = "profile" /\ ProfileNext /\ Elsewhere("profile")
  \/ part = "drafting" /\ DraftNext /\ Elsewhere("drafting")

\* The loader: its Fairness.  The Reader and the backend run on in their calls, and
\* the kernel and the device get to whatever they were given.
RuntimeSpec ==
  /\ RuntimeInit /\ [][RuntimeNext]_runtimeVars
  /\ WF_runtimeVars(part = "pair" /\ Pair!WorkerStep /\ Elsewhere("loader"))
  /\ \A c \in Clients : WF_runtimeVars(part = "pair" /\ Pair!Continue(c) /\ Elsewhere("loader"))
  /\ WF_runtimeVars(part = "order" /\ WorkerStep /\ Elsewhere("loader"))
  /\ \A c \in Clients : WF_runtimeVars(part = "order" /\ Continue(c) /\ Elsewhere("loader"))
  /\ WF_runtimeVars(part = "read" /\ ReadStep /\ Elsewhere("read"))
  /\ WF_runtimeVars(part = "read" /\ Lands /\ Elsewhere("read"))
  /\ WF_runtimeVars(part = "prefetch" /\ UseStep /\ Elsewhere("prefetch"))
  /\ WF_runtimeVars(part = "prefetch" /\ Streams /\ Elsewhere("prefetch"))

------------------------------------------------------------------------------
\* Every call returns: waits on tickets, wait_idle and the destructor of the
\* loader, a read_extents of the Reader whatever the kernel refuses, and the use
\* of a prefetched group, which waits for the device.  And every accepted load is
\* performed: no wakeup of the worker is lost.
Inside(c) == client[c].pc # "running" \/ reading.pc # "idle" \/ use.pc # "idle"
EveryCallReturns ==
  /\ \A c \in Clients : Inside(c) ~> ~Inside(c)
  /\ \A t \in Tickets : job[t] # {} ~> result[t] # {}
==============================================================================
