# Verification of K3X

K3X runs a mixture-of-experts language model whose experts do not fit in
memory. A Python converter writes the weights into one `.k3x` file; a C++
runtime decodes tokens, reading experts from that file as the router selects
them; Python tools fetch slices of the official checkpoint, build fixtures out
of them, and publish evidence of what the runtime measured. This directory
holds TLA+ models of the parts whose correctness depends on order, history,
failure or limits, the TLC configurations that check them, and theorems that
TLAPS checks.

## 1. Inventory

`rt` stands for `src/runtime`, `cv` for `src/converter/k3x_converter`.

| Component | State | Operations | Talks to | What is hard |
|---|---|---|---|---|
| Deadline expert loader, `rt/src/expert_scheduler.cpp` | priority queue, flags, results of tickets, statistics | `submit`, `wait`, `wait_idle`, destructor, worker thread | a callable over host store and Reader | threads, lost wakeups, shutdown with work queued, the moved-out result |
| Host expert store, `rt/src/host_expert_store.cpp` | resident payloads, protected set, remembered evictions, byte account | `begin_access_set`, `get_or_load` | Reader, runtime profile | eviction while a layer is under way, the unsigned account, six admission modes |
| Runtime profile, `rt/src/runtime_profile.cpp` | prior and live counts, transitions, previous layer | `observe`, `hot_bank`, `save`, `load` | host store, file system | bounded maps, the merge at save, saturation, the temp file |
| Reader (L2), `rt/src/reader.cpp`, `direct_io.cpp` | file, ring, counters | `read_extents` over four data planes | kernel | completions out of order, partial submission, a batch failing while reads are in flight |
| Speculative decoding, `rt/src/model.cpp`, `speculative.cpp` | tokens, target state, proposal | `generate_speculative`, `generate_greedy` | draft provider, engine | rejected candidates must leave no trace; the end of the generation |
| Draft providers, `rt/src/aurora.cpp` | expected history, pending proposal, latched error | `propose`, `update` | scheduler, cursor, runtime | agreement on the history, partial failure |
| Adaptive draft scheduler, `rt/src/aurora_scheduler.cpp` | counts per position, cap, retry, frontier | `create`, `select`, `observe` | provider | behaviour depends on long histories |
| Incremental draft cursor, `rt/src/model.cpp` | draft model state, logits, checkpoints | `create`, `propose`, `commit` | provider | three parts of the state rolled back in three ways |
| Asynchronous expert pipeline, `rt/cuda/async_mxfp4_pipeline.cu` | pending transfer, pinned slabs, events | `prepare`, `consume`, `complete` | CUDA backend | two streams, tokens used out of turn, reuse of staging memory |
| Graph index and cache, `rt/src/cuda_graph_cache.cpp`, `rt/cuda/backend_cuda.cu` | sequence numbers, entries, update mode | `touch`, `resident_moe_layer` | resident weights, scratch | graphs that outlive the addresses they name, eviction at the limit |
| Resident weights, scratch, `rt/cuda/resident_weights.cu`, `device_memory.cu` | device copies, bytes | `acquire`, `reserve` | CUDA backend | failure half way |
| Official layers on the device, `rt/src/official_*.cpp`, `rt/cuda/backend_cuda.cu` | hidden states, KDA state, prepared inputs, counters | the drivers of layer, MoE, expert and two-layer benchmarks | CUDA backend, evidence tools | what a failing step leaves on the device; counters that tools compare exactly |
| Converter, `cv/writer.py`, `resume.py` | partial file, ledger, output | `convert` | file system | a crash anywhere, resume, power loss |
| Converter sources and formats, `cv/safetensors.py`, `sharded.py`, `format.py`, `reader.py` | headers, weight map, plans, directories | inspect, plan, lay out, open | converter | what a header may claim, order, alignment |
| Official checkpoint tools, `cv/official_*.py`, `src/tools/discover_official_kimi_k3.py` | range objects, records, blobs, slices, fixtures | fetch, materialize, build, discover | HTTP, file system, converter | kills, truncated or redirected answers, damaged files, two writers |
| Reference model, `src/reference/k3x_ref` | KDA and MLA state, synthetic and bounded sources, routing | `prefill`, `decode`, `generate`, generators, router | tests, runtime | state passed between calls, batched against incremental |
| Evidence tools, `src/tools/ablate_*.py`, `verify_*.py` | evidence directories | run, verify | benchmarks | kills, reruns into the same directory, inputs made again meanwhile |
| Expert-major planner, kernels, CPU backend, command lines | | | | straight-line or numerical code |

What makes each correct, in a sentence:

* loader: every accepted load is performed once, in the order of its latest
  start, and delivered once; idle means that nothing runs; shutdown drains;
* store: the account is exact and bounded; what a layer selected is not evicted
  under it;
* profile: it counts what was observed, and the file is a whole profile at
  every moment;
* Reader: what is answered is what the file holds, and no read outlives the
  buffer it writes to;
* decoding: the output is that of greedy decoding, whatever the provider does;
  what providers believe was generated is what was generated;
* scheduler: growth is gradual, rejection shortens, drafting is retried;
* pipeline: kernels read the group they were launched for;
* graphs: what is launched was recorded for these experts at these addresses;
* device: a failing step leaves nothing its caller does not know of;
* converter: the output name holds a whole conversion or nothing, and a rerun
  decides;
* official tools: stored objects are the published bytes, a fixture is recorded
  only with the files of its own build;
* evidence: what verifies is of one run, for the input it names.

`PROJECT.json` lists every component with its status, and the hazards at their lines.

## 2. Modules

| Module | Models | Form |
|---|---|---|
| `ExpertLoader`, `ExpertDelivery` | the loader's threads step by step; what it promises without threads | state machine, abstract specification |
| `HostExpertStore` | the store | state machine |
| `RuntimeProfile` | the profile over sessions, its file and kills | state machine |
| `ReadBatch` | `read_extents`, its operations, ring and buffers | state machine |
| `DraftScheduler`, `DraftScheduling` | the scheduler, with lemmas about its operators; the scheduler under every sequence of requests and verified blocks | operators, state machine |
| `SpeculativeDecoding`, `GreedyDecoding` | the block loop with its providers, verifiers, scheduler and cursor (operators on its state); what decoding promises | state machine, abstract specification |
| `ExpertPrefetch` | prefetch and use of a group: pipeline, slabs, two streams | state machine |
| `ResidentLayer` | resident weights, scratch, graphs and their index | state machine |
| `OfficialDevice` | the drivers of official layers and what they hold; the counters their rows report | state machine |
| `Conversion`, `Publication` | `convert` with its file operations; what a reader of the output name may see | state machine, abstract specification |
| `SourceFiles`, `Container` | the reading of a source; plans, layout, directories and the reader of the file | state machines |
| `RangeObject`, `ObjectStore` | a resumable range and its blob; ranges as a service | state machine, abstract specification |
| `OfficialTransport` | redirects, bounds and counters of one request | state machine |
| `ExpertSlice` | the three files of an expert slice as a transaction | state machine |
| `FixtureFiles`, `MoeFixture`, `LayerFixture`, `TwoLayerFixture` | what the builders share; the three builders | state machines; `LayerFixture` implements `MoeFixture` |
| `OfficialPlan`, `Discovery` | the plans over headers; discovery and the tensors a fixture gets | operators, state machine |
| `RoutingPolicy` | both routers and the mixing weights | state machine of one call |
| `ReferenceModel` | state passing, prefill, decode and both ways to generate | state machine |
| `ReferenceSources` | the two writers of sources: one bounded expert, the synthetic model | two state machines |
| `Evidence` | the transactions and verifiers of twelve tools | state machine |
| `AdaptationProofs`, `SpeculativeDecodingProofs`, `RuntimeProofs`, `ConversionProofs`, `TransferProofs`, `RangeObjectProofs`, `OfficialToolProofs` | section 5 | proofs |
| `MC...` | instances for TLC | constants, properties |

How state and actions correspond to the code:

* **`ExpertLoader`** A thread is at a program location; an action is what it does between
  two points at which another thread can be seen: a critical section, a call of
  the callable, a notification outside the mutex. A condition variable is the
  set of its waiters; any waiter may wake spuriously. `ExpertDelivery` forgets
  threads: loads are accepted, started in order, finished and delivered.
* **`HostExpertStore`** The mutex is held through a whole operation, so each operation is one
  action. `Victims` says which entries the eviction loop removes; `Usefulness` is the code's
  score with its positive common denominator removed. A forward visits layers in order and
  loads only what the current layer selected, as `Engine::moe` does.
* **`RuntimeProfile`** A session loads the file or not, observes selections and saves; a kill
  leaves the temp file behind. `ObserveSelection` begins `observe`, whose loops count a pair
  (`CountPair`) and an expert (`CountKey`) a step. `Merged` is what `save` writes; a sum of counts is
  the number of its units, so that it is finite without recursion.
* **`ReadBatch`** `reading` is the call, `ring` what the kernel has been given and has answered.
  `PlanChunk` and `PlanNext` cut the requests into operations one by one, as the loops of
  `read_io_uring` and `make_plan` do; a submission is a sequence of `SubmitEntry`, so a partial one
  stops anywhere. `Lands` is the kernel, which may complete in any order, in part or with an error;
  `Abandon` is the ring destroyed with reads in flight.
* **`DraftScheduler` and the cursor** Each method is an operator from record to record.
  A model state is the sequence of tokens it has read, kept three times, since the code
  rolls back its three parts differently.
* **`SpeculativeDecoding`** One action per stage of the loop. `Verify` is both verifiers, which
  differ in what they read and report; faults stand for any exception of Reader or backend.
* **`ExpertPrefetch`** The transfer and the compute stream are queues of copies, events and
  kernels that the device takes in order; a slab and a buffer remember the group they hold.
* **`ResidentLayer`** A graph remembers the experts and the scratch buffers it was recorded for; a
  buffer is told from its successors by its capacity, which only grows. `Acquire` asks for one
  tensor of the layer, `Acquired` ends the call if one was bypassed.
* **`OfficialDevice`** `todo` holds the driver's remaining steps; every step may fail, and its
  cleanup is part of the same action. Its last part compares the rows with the formulas of the tools.
* **`Conversion`** Every file operation that a kill or a power loss can separate is an action;
  `undo` is the list of directory operations that are not yet durable.
* **`RangeObject`, `ExpertSlice`, fixtures** As `Conversion`: one action per durable step, and a
  kill anywhere; files may go bad between calls, as the code's re-verification expects.
* **`Evidence`** One action per open, write, rename, unlink, removal and making of a directory, per test for and
  listing of the partial one, and per file read back; what a process has open (`opened`) goes where another's
  rename takes it. A digest is one action, and so are the inputs and the two readings of a file in a row. The program of a tool is
  the operator that says which stage follows which (`AtomicRun` for those that publish a directory,
  `InPlaceRun` for the others), and tools differ by it and by what their verifiers compare. A
  behaviour is of one setting: who runs which tool over the directory, and how often.
* **`ReferenceModel`** Arithmetic is a hash of what it reads, so that a value computed from
  the wrong state, the wrong row or the wrong position differs.

## 3. Runs

Several parts share a run: `part` is picked by the first state, each part keeps
its own variables, and those of the others stay where they start. The state space is the
sum of those of the parts, and a property of a part is guarded by its name.

| Run | Parts | What is asked |
|---|---|---|
| `Runtime` | loader twice, reads, prefetch, layer, profile, scheduler | Is idle quiescent, is a queue drained at shutdown, a result taken once (`LoaderIsSafe`)? Is the loader the service of `ExpertDelivery` (`ImplementsDelivery`)? Are reads right, and done before their buffers are freed (`ReadsAreRight`)? Do kernels read their group (`KernelsReadTheirGroup`)? Are graphs current (`GraphsAreCurrent`)? Does a profile count what was observed (`ProfileIsHistory`)? Is growth gradual (`LadderIsClimbed`) and rejection heeded (`RejectionIsHeeded`)? Does every call return (`EveryCallReturns`)? |
| `HostExpertStore` | | The account and the capacity, protection of the selected experts, room for a selection that fits, and eviction only for a reason and in order |
| `SpeculativeDecoding` | | Is the output greedy, do target, provider and cursor agree with it, and is `GreedyDecoding` implemented, its liveness included? |
| `Converter` | conversion, reading, layout | Is the ledger backed by durable bytes, is `Publication` implemented, is every conversion decided, are sources judged rightly, does the file describe its source? |
| `OfficialObjects` | twins, apart, slices, alone, transport | Are ranges and transfers right, is `ObjectStore` implemented, is a slice a transaction and a transfer whole or refused, does every object arrive? |
| `Fixtures` | moe, moe1, layer, two, two1, discovery | Is a recorded artifact of one build, are runs whole, does the layer builder implement the MoE builder, is the trace layer by layer, are the bytes the published ones, is an artifact recorded in the end? |
| `Reference` | routing, model, bounded, synthetic, device | Does the router take the best, is a session its history, are sources consistent, is the device left free, are the rows those of the tools' formulas? |
| `Evidence` | killed, shared, rebuilt, certain | Is accepted evidence of one run of the input it names, does success vouch for it, does a rerun arrive? |
| `SpeculativeDecodingOrdinary` | | (violated) is a block without candidates a no-op of the scheduler? |
| `ConverterEmptyTensor` | layout | (violated) does the reader open what the converter wrote, for tensors without elements? |
| `FixturesOracle` | layer | (violated) is the oracle bound into the manifest? |
| `RuntimeProfile` | profile | (violated) does a session within the bounds of its records persist them? |

**Bounds and why they are enough.** They are named in the MC modules.

* Loader: one worker; a race is between it and at most two callers. Two tickets
  with a queue of one let a load run while another waits or is refused; with a
  queue of two, one caller and requests that cross (the later use has the earlier
  latest start), the second overtakes the first. Section 5 proves the safety of any number.
* Reads: a file of seven bytes, operations of three, alignment of two and a ring
  of two give extents that begin and end off the boundaries, several operations
  per extent, and more operations than the ring takes; two reads, for what a
  failed one leaves to the next; two faults.
* Prefetch: slabs of two experts and groups that share an expert in another slot;
  three prefetches and uses, since staging is reused by the second and the third
  sees whether the second waited.
* Layer: two orders of the same experts, a third expert, a layer that does not
  fit; two graphs, so that the third evicts; five calls.
* Profile: three records out of five experts, so that a full map is reached and
  exceeded; two sessions, for the merge.
* Scheduler: three rungs; four blocks reach every rung, reject there and retry.
* Store: capacity 5 with sizes 2, 3 and 4 is the smallest store in which a
  payload may need none, one or two evictions, may not fit beside the selected
  ones, or not at all; two cycles give stale and current entries; five misses go
  past the point at which an evicted expert comes back.
* Decoding: seven tokens hold a full block of five positions, a partly rejected one
  and a tail shorter than the block; every set of positions at which the draft errs.
* Conversion: two extents of two chunks, two sources that share one, two tool
  versions; one kill, one power loss that takes back up to two directory
  operations, one edit. Together they give an interrupted resume of an edited source.
* Official objects: two ranges with equal bytes (one blob) and two that share a
  chunk; two kills, a failure, two damages. Slices: four calls for two experts that share a
  directory, one alone up to six, so that its kills and failures are used up. Transport: two
  requests, three hosts of which one is not trusted, two redirects, and answers up to two bytes past
  the limit. Fixtures: four runs, three of them cut off,
  builds whose routes differ. Two layers with two experts each, used again or not.
* Reference: four experts on a ladder of 2, 3, 4; four layers of both kinds with a
  convolution of three; sessions of up to three prefill or decode calls.
* Evidence: one process that is killed once in three runs and whose rows may be refused or disagree,
  two processes over one directory (the layer and MoE benchmarks, audit and discovery), inputs made again twice during two runs, and two kills where
  arrival is asked; tables of two rows, of one where
  two processes write in place (the theorems are about any number of both).

**Deadlock.** Runs with bounded parts stop at their bounds and do not check it.
`SpeculativeDecoding` stops only where the program returned, and deadlock is checked there. That no call of the runtime hangs is `EveryCallReturns`.

**Fairness.** `Runtime`: weak fairness of each thread that is in a call, which a fair
operating system scheduler gives; of the kernel, which completes what it was
given; of the device, which takes its queues in order. No call has to be made and no
spurious wakeup is needed. `SpeculativeDecoding`: the one thread goes on. `Converter`,
`OfficialObjects`, `Fixtures`, `Evidence`: a program that runs goes on (of `Evidence`, one that has the directory to itself), and the
operator runs it again when it was killed; kills, losses and edits are bounded, so that
they end. Only the calls for ranges need strong fairness: a call is
not possible while another is under way.

## 4. What the runs found

* `SpeculativeDecodingOrdinary`: an expert-major block of the anchor alone reports its expert
  loads; the scheduler refuses loads for a block without candidates, and the provider
  latches an error that fails the generation at its next proposal. The design
  says such a block is a state-preserving no-op. `SpeculativeDecoding` leaves this configuration out
  of `ProvidersAgree` and shows the agreement in every other.
* `ConverterEmptyTensor`: a tensor with an empty dimension is accepted, converted and published,
  and the reader refuses the file.
* `FixturesOracle`: a rerun killed between oracle and manifest leaves the finished manifest of
  the earlier build beside an oracle it does not describe.
* `RuntimeProfile`: the bound of transition records does not fit into the bound of the file,
  so that a session within the first is refused at save.

Disagreements met while modelling that no run is kept for:

* The worker publishes a result before it counts the completion;
  `tests/cpp/test_expert_scheduler.cpp:104` reads the count after the fifth `wait`.
* Equal slacks are ordered by sequence alone; the design orders them by earliest use first.
* An accepted retry clears the rejection cap and with it the means to a further retry; if
  the survival estimate is still low, drafting stops for good. The design says it does not.
* A resumed conversion refuses its own ledger entry of an empty extent (`writer.py:271`).
* The two-layer builder writes its only trace manifest at its end; its plan wants a partial one.
* Two writers of a bounded source share the name of the partial manifest (`storage_fixture.py:99`).
* Evidence of a fixture made again during a run is published, then rejected, and stays in the way.
* Two runs of a tool that publishes by a rename share the name of the partial directory. A file that one has open,
  or an `rmtree` of one that is under way, follows the `os.replace` of the other into the published directory
  (`ablate_official_layer.py:427`, `:472`, `:476`), which then loses files or holds bytes of both. Two runs of a tool
  that writes in place may overwrite what the other has read back already (`ablate_official_moe.py:380-438`), so that
  both end well over a directory that does not verify. No such directory is accepted by a later verification
  (`EvidenceIsOfOneRun`); that success vouches is said of one process (`SuccessVouches`).
* A second use of a consumed token is refused after its uploads when the first failed late;
  `ARCHITECTURE.md:173` says before.
* A `.weight_scale` without its packed half is dropped without an error (`writer.py:120`).
* The two-layer driver reports a failed step as `invalid_state` when its cleanup fails too.

## 5. Proofs

`AdaptationProofs` is about what the runtime takes from its own past. Of the host store it proves,
for every finite set of experts, every assignment of sizes, every capacity and all admission modes:

* `TypeCorrect`: `Spec => []TypeOK`;
* `StaysWithinCapacity`: `Spec => []WithinCapacity`;
* `SelectedNeverEvicted`: `Spec => SelectedStayResident`, an action property;
* `AffordableSelections`: `Spec => []AffordableSelectionFits`;
* `EvictionsHaveTheirReason`: `Spec => EvictsForAReason`, an action property.

The inductive invariant is `Accounts == TypeOK /\ WithinCapacity`. `WithinCapacity` is
inductive only together with the type invariant, which says that resident and
protected keys are experts with a size. One lemma per action shows that the
action keeps `Accounts`; they rest on four facts about `Total`, the charged bytes
of a set of keys. `SelectedNeverEvicted` follows from the shape of the actions, for no
victim is outside `Candidates`. `AffordableSelections` follows from `Accounts`: when nothing
unprotected is left, what is resident and protected, with the missing expert, is
part of the protected set, so its bytes fit. `EvictionsHaveTheirReason` needs the invariant
`Reckoned`, which adds that every miss was bypassed, evicted since or is resident; that victims are
a prefix of the ranking, in which stale entries lead (`StalenessLeads`); and that among payloads
of one size a single eviction makes room (`OneEvictionMakesRoom`). Assumed are `StoreAssumption` (types) and
`TotalAssumption` (`Total` is additive over disjoint sets), both evaluated by TLC.

Of the draft scheduler it proves, for every bound and threshold and every history of requests and
verified blocks (`SchedulerAssumption`, `SchedulingAssumption`):

* `ClimbsTheLadder`: `DraftSpec => []LadderIsClimbed`;
* `HeedsRejection`: `DraftSpec => RejectionIsHeeded`, an action property.

The invariant adds to the types and `PrefixCountsAreOrdered` that every rung below the qualified one
was observed and accepted in full (`Growth`), that a rejection leaves a cap below it until a request
is answered with zero (`CapIsBelow`), and the stages of a retry (`RetryIsUnderway`).

And of the profile, for every finite set of experts, all bounds of records, counts and bytes, every
sequence of selections and every file an earlier session saved (`ProfileAssumption`):

* `ProfilesAreHistory`: `ProfileSpec => []ProfileIsHistory`.

The property compares tables with the history when no observation is under way; within one, only
what the loops have come by is counted. So the invariant compares them with `SeenUses` and
`SeenPairs`, the places of the history before the one the loops are at: a step sees one more place of
one key (`PairSees`, `KeySees`), and a table that tallies what was seen still does after it counts, or
declines to count, that key (`IncrementTallies`). For the file it needs that what is saved may be
loaded: the sum of a merge is the sum of the sums (`MergeAdds`), and what a saturated session
observed sums to more than a count can hold (`SumsAreSound`, `MergedIsSound`), so that
`load` refuses a saved file only for a bound that is passed (`WhyNotLoaded`).

`SpeculativeDecodingProofs` proves that speculation is lossless, for every vocabulary of
naturals, target and draft model, prompt, provider, script, block policy, verification mode,
block size and number of tokens, with faults anywhere:

* `OutputIsGreedy`: `Spec => []TokensAreGreedy`;
* `TargetInStep`: `Spec => []TargetFollowsTokens`;
* `ProviderInStep`: `Spec => []ProvidersAgree`;
* `RefinesGreedyDecoding`: `Spec => Greedy!SafeSpec`, the safety part of
  `ImplementsGreedyDecoding`.

`TokensAreGreedy` is not inductive alone: it says nothing of a block that is verified but
not yet committed, nor of what the target has read. The invariant `Lossless` adds
`BlockFollowsTokens` (such a block is the target's own continuation of the tokens, fits in
what is left, and has been read up to its last token), that the loop only runs while a
token is missing, and the types these need. `BlockContexts` shows that after the anchor and
`i - 1` candidates the target has read the prompt, the tokens and those candidates;
`AcceptedPrefixProperties` that the accepted prefix exists and agrees with the target;
`VerifyLossless` puts them together; `EmitLossless` shows that committing the block keeps
the claim. Nothing of what providers know is used: a proposal only has to pass the
validation of the runtime. `ProviderInStep` does need what they know: its invariant `AgreeInv` adds
`Agreement`, which says for each stage of the block what the provider expects, what it has pending
and what the verdict under way contains. Its heart is `CommitFollows`: whatever part of a block is
accepted, the checkpointed recurrent state, the cropped attention state and the logits of the cursor
have read the prompt and the committed tokens, which is also where a replay of the whole history starts. `DraftScheduler` bounds what the scheduler selects
(`SelectedLengthProperties`) and shows that it keeps its type. Assumed are
`DecodingAssumption` (types; the prompt is not empty, which `generate_speculative` demands),
`TargetAssumption` (an argmax within the vocabulary) and `SchedulerAssumption` (what
`create` rejects otherwise).

It also proves of the router, for every finite set of expert numbers, every ladder, natural K within
the number of experts, natural scores, integer biases and policies, and batches of any length
(`RouterAssumption`, which `Reference` evaluates):

* `RouterFloorOnlyRaises`: `RouterSpec => []FloorOnlyRaises`.

The invariant `RouterInv` says that every decision is that of its path for its token, which was not
refused if a policy routed it, and that every mixture is made of its own decision (`Faithful`), as far
as the call has come (`Progress`). What the property says then follows for one token at a time. That
experts are the best, best first, rests on the order: `Before` is a strict total order, so the rank of
an expert, by which the stable sort is defined, is a bijection (`RankIsBijective`, by the pigeonhole
theorems of finite sets), and a prefix of the order leaves out only what comes after it
(`PrefixProperties`). That the floor only adds experts is `ChosenKIsMonotone`: a higher floor leaves
fewer candidates of the ladder, the least of which is not less. The sum of scores is not expanded: it
is enough that both paths divide by the same one and that a refusal, or the clamp of the
natural path, keeps it from zero.

`RuntimeProofs` proves what the loader's run checks, for every finite number of callers
and submissions, every capacity and all metadata (`LoaderAssumption`, which `Runtime` evaluates):

* `Typed`: `Spec => []TypeOK`;
* `Quiescent`: `Spec => []IdleMeansQuiescent`;
* `Drains`: `Spec => []StopDrainsQueue`;
* `ConsumedOnce`: `Spec => []SingleConsumption`;
* `Safe`: `Spec => []LoaderIsSafe`, all four, as `Runtime` checks them;
* `Implements`: `Spec => ImplementsDelivery`, the refinement of `ExpertDelivery`.

The invariant `Control` says who holds a load: an accepted one is queued, with the worker, or has
its result (`JobInv`); the worker's is out of the queue and without a result, and `active` is set
from the pop to the clearing (`WorkerInv`); a ticket loaded inline or waited for is one thread's
alone (`ClientInv`); a result is taken by a wait that consumed the ticket (`TakenInv`). The first
lemmas say what an action does to the threads (one moves, or some wake), so that every step is
shown to keep each part with one case per action. Three invariants rest on it: `Accounted`
(submissions are those completed, inline, queued or held), `TakesCounted` (takes are those counted
or about to be) and `Sequenced` (sequence numbers are distinct and as many as the accepted loads).
The refinement maps a queued submission to `Accept`, the pop to `Start`, publishing to `Finish` or
`ServeResident`, and the step that moves a result out to `Deliver`; all others stutter.

It also proves of the drivers of official layers, for every benchmark of the four tools (any number
of warmups and iterations), all routes, sizes and every number of steps that fail (`DeviceAssumption`,
which `Reference` evaluates):

* `DeviceIsAlwaysLeftFree`: `DeviceSpec => []DeviceIsLeftFree`.

That no call is refused depends on all that came before it. The proof first shows that whatever a driver
executes is a path of steps (`ExecutionIsPath`): `Follows` says which step may follow which, in a call of a
layer and from call to call, and `Path` that all neighbours do. `Before` and `After` say for each kind of
step which states, which prepared input and which hidden vector are on the device and which of their
tokens the driver has. A call made in a state as it should be is admitted (`CallsAreAdmitted`) and leaves it as it
should be (one `...GoesOn` lemma per call), and what a step leaves is what the next one needs
(`LeftIsNeeded`). A step that fails keeps no more than `Kept`, wherever in the backend it failed (one
`...Fails` lemma per call); after that the cleanup of the layer driver leaves only what its own
caller has tokens of (`Remnant`), and the cleanup of the two-layer driver nothing (`Clean`).
`DeviceInv` is then short: the backend is typed and its counters account for the prepared input
(`BackendOk`), and an execution is under way with a path of steps left, the first of which finds what it
needs (`Underway`), or none is (`Resting`). `Holds` states a call's effect on the slots alone, so that the
transfers and launches it counts need no expansion.

`ConversionProofs` proves the conversion transaction for every set of sources, tools and file
identities, every number of extents and chunks, and every number of kills, power losses, edits and
directory operations held back (`ConversionAssumption`):

* `Backed`: `QuietRun => (Spec => []LedgerIsBacked)`;
* `Publishes`: `QuietRun => (Spec => ImplementsPublication)`, the refinement of `Publication`.

`QuietRun` says that nobody edits the source while a run is under way, which `convert` relies on
without checking it (it reads a tensor twice, for the fingerprint and for the copy; the source may
change between runs), and that no tensor is empty: with one, the file does not open, which is what
`ConverterEmptyTensor` shows. `LedgerIsBacked` speaks of the disk as it is; a power loss takes
directory operations back, the latest first, so it is inductive only together with every
disk that may come back. The invariant therefore says that there is a *history* (`IsHistory`):
a sequence of disks the pending operations led through, each of them `Sound` (the ledger names a
prefix of the extents with the bytes of its source, the partial file holds them synced, a file under
the output name is whole), each the next one with an operation undone, and along which the ledger of
one partial file only grows, so that an older ledger may meet the newer file but never the reverse.
To this it adds how far the run is (`RunInv`, a stage for each step): what the file holds
beyond the ledger, and that the superblock goes out only over synced extents and directories.
`HistoryGrows`, `HistoryShrinks`, `HistoryForgotten` and `HistoryRewritten` say what an operation, a
loss, a reboot and a write to the file under way do to a history; `WholeRemains` and `SyncedRemains`
what a power loss leaves of a file; and one lemma per action keeps the invariant.

It also proves `SourcesStayConsistent`: `BoundedSpec /\ SyntheticSpec => SourcesAreConsistent`, for all
lengths of tensors and chunks, every configuration of the synthetic model, and every number of calls
and kills, with one writer in a directory (`SourcesAssumption`; two share the name of the partial
manifest, and one could publish what the other has just emptied).

* *The bounded source.* `BoundedInv` says how far a call is. The bytes written so far are the tensors
  before, joined, and as much of the current one as the offset says (`ShardSoFar`); from the rename on they
  are the shard of the identity asked for (`ShardDone`); at the replacement the partial file holds
  the whole manifest, in another inode than the published one. That the chunks add up to the
  shard whatever their size is `ChunkFollows`, and that `FlattenSeq` joins its parts is
  `FlattenJoins`, by a least counterexample, for the operator of the community module recurs
  inside a `CHOOSE`.
* *The synthetic source.* `SyntheticInv` says that a whole file is the work of some seed, that the
  files before the next one are the work of the seed that runs, and that whole digests are those of
  the four files of one seed: they are written last. `DrawsAreOnceEach` is the other half: names
  differ by layer, part, expert or role, so that the sequence of all draws repeats none
  (`FlattenOnceEach`, `ConcatOnceEach`), and cut in two it loses and shares none (`ShardNamesSplit`).

`TransferProofs` proves, for every number of slots, every set of groups, and every number of
prefetches, uses and failed CUDA calls (`PrefetchAssumption`, which `Runtime` evaluates):

* `PrefetchedIsRead`: `PrefetchSpec => []KernelsReadTheirGroup`.

The property speaks of kernels that have run; that they will read what they should needs the streams.
The invariant `PrefetchInv` says that at most the group given out last is held (`OneIsHeld`); that
its copies are still to be made slot by slot, from a pinned slab that holds the whole group, into a
device slab that holds the slots before (`IsStaged`); that its kernels are still to run slot by
slot, and one that ran found no copy before it (`IsRead`); and that an answered token is held no
more (`IsAnswered`). `WholeGroupRead` draws the conclusion for `complete`, and a failure that leaves
the group held, or gives it up, is a case of its own.

It also proves, for every length of the file, every list of extents, both engines and cache modes,
every alignment, limit of a read and queue depth, and every number of calls and faults
(`ReadConstants`, which `Runtime` evaluates):

* `ReadsBringTheFile`: `ReadSpec => []ReadsAreRight`.

`ReadsAreRight` speaks of answers, of entries in the ring and of two counters; why an answer is right
takes the whole way of a request. The invariant `ReadInv` says that an engine works in its own states
and is lost to faults only (`EngineWorks`); that what is read lies in the file and has a buffer of the
aligned length (`RequestsAreSound`); that every byte asked for is within the minimum of some
operation, up to the position of the plan (`PlanIsSound`); that operations before the batch have
brought their minimum, and the current `pread` as much as it counts (`BuffersAreSound`); that
the ring holds exactly what the batch waits for, each entry once, a completion is as good as its
result, and as long as no error is recorded what was reaped is there (`RingIsSound`); and that every
completion still to come has been asked for (`BytesAreOwed`, the cardinality of the bytes owed). Its
heart is `LandedIsSound`, by which the kernel may write the operations of one buffer in any order, and
`BytesAreThere`, which turns a finished plan into the bytes of each request.

And it proves, for every set of layers and tensors, every capacity of the table and of the cache, and
every number of calls and failures of CUDA calls (`LayerConstants`, which `Runtime` evaluates):

* `GraphsStayCurrent`: `LayerSpec => []GraphsAreCurrent`.

`LayerInv` says that the table holds the bytes it accounts for, and all that a kept graph names
(`TableIsSound`); that a call has found every tensor it asked for until now unless one was bypassed,
and then has a graph of its own or one that is kept (`CallIsSound`); that a kept graph is of its key and
of the buffers of `graph_scratch_identity_` (`EntriesAreSound`), although those of the backend may
have moved meanwhile; and that the index and the entries have the same keys (`IndexIsSound`).
That the cache holds the keys used last speaks of the whole history of uses; `Knows` says how the
index knows it: a key has the position where it was used last, and a key that is not there was used
before all of those, of which there are as many as the cache has room for. `TouchKeeps` is the step of
the index, `KnownAreUsedLast` the conclusion, by two counts of the keys used after a position.

`RangeObjectProofs` proves, for all ranges and their data, ranges with equal bytes included, and every
number of kills, failed requests and damaged files (under `RangeAssumption`):

* `DownloadsAreSound`: `Spec => []RangesAreRight`;
* `AnswersHoldTheirBytes`: `Spec => [][AnswersRight]_vars`;
* `RangesImplementStore`: `Spec => ImplementsStore`, the refinement of
  `ObjectStore`, together with `AnswersRight`.

The invariant `RangeInv` says what the files may be whatever happened (`FilesAreSound`: a progress file
names a true prefix, a record the published bytes; a partial file may have gone bad) and what the call
under way knows of them (`CallIsSound`). `RefetchBounded` counts the past, so it needs what is
still there: `Stored` is the number of chunks of a range that need not be fetched again if nothing goes
wrong, and `FetchesAreKept` that the fetched chunks are at most those plus one whole range per kill and
damage. No step but a kill or a damage lowers `Stored`; a step of one range may raise that of
its twins. In the refinement, storing a blob makes every recorded range with the same bytes
available, so one step of the store may serve several ranges.

It also proves, for every set of experts, and every number of calls, kills, failures and damaged
files, late failures of the conversion included (`SliceAssumption`), and for all hosts, limits, sizes
and numbers of requests (`TransportAssumption`; `OfficialObjects` evaluates both):

* `FetchesAreTransactions`: `SliceSpec /\ TransportSpec => FetchIsTransaction`.

That a failed call leaves the final names as it found them is a claim about two moments of a call.
`FilesAreAccounted` is what holds between them: a file with a final name was found, or is in `created`
and, once the except block has begun, still ahead of it (`Pending`), or comes of a conversion that
raised after it published, which the code does not take back. The manifest leans on its microshard
and the K3X file on the manifest, and this must hold of the files found too (`Leans` of `dir` and of
`before`), for an undone call leaves exactly those. `PartialsAreAlone` says that a publish replaces
nothing, `SliceIsAt` how far the call is. For the transport, `ConnectionsAreCounted` bounds
connections by the calls that are over and the redirects of the one under way; `BodyIsWhole` says
that a body handed out was not cut by the read of one byte more than the bound; `TotalOfAppend` adds
a body to the byte count.

`OfficialToolProofs` is first about the three fixture builders, for every trunk, every set of experts, every set
of builds (a build is what decides the routes), all their routes and every number of runs, kills and
lost objects (`FixtureConstants`, `WalkConstants`):

* `FixtureArtifact`: `MoeSpec => []ArtifactIsDescribed`;
* `FixtureRuns`: `MoeSpec => RunsAreWhole`, an action property;
* `LayerFixtureIsMoe`: `RoutesDiffer => (LayerSpec => ImplementsMoe)`, the refinement;
* `TwoLayerFixtureTrace`: `TwoSpec => TraceIsLayerMajor`.

What the files of a directory say is decided by runs that may be of other builds than the one under
way, so `RecordIsOfOneBuild` is inductive only with what the run has made of the files so far:
`AssemblyFiles` says from which stage on each file is of its build and the ledger gone, `MoeManifest`
that no artifact is recorded while they are being replaced. That a report counts every range once
is a claim about what was asked for, range by range: `MoeAsked` says that what a run asked for and
what it still needs are together the trunk and the selected experts, in order, and a first-use list
repeats nothing (`FirstUseProperties`). `TransfersCount` says the same of all runs: a stored range was
transferred at most once more than objects were lost, another at most as often. In the refinement, the oracle is hidden and the
step that writes it stutters. `RoutesDiffer` says that the two cases of a layer never select the same
experts: the MoE builder refuses such routes and the layer builder takes them, so without it there is a
step the MoE builder does not have. For the two layers, `WalkInv` gives each step of
the walk the state and the output it leaves, which are compared with the layer-major
definition once, when the trace is derived (`TraceOfExecutions`); `TwoAsked` accounts for
the experts each layer has asked for, and `TwoFiles` for the files.

It is then about the evidence of all twelve tools, for every number of processes, runs, kills, rebuilds
and rows (`SettingsAssumption`, `MaxRowsAssumption`):

* `EvidenceHoldsTogether`: `Spec => []EvidenceIsOfOneRun`;
* `SuccessIsVouched`: `Spec => SuccessVouches`, an action property, of a process that has the directory to itself.

`AfterFollows` and `FollowsEdge` turn the twelve programs into one graph of stages, of which the
rest of the proof uses only where an edge may lead (`Edge`). What is claimed of a directory that
verifies needs little of how it came about: each summary written has the rows of one run
(`SummaryIsOk`), whoever wrote it and wherever a rename took it, and the verifier ties the other files to the summary. Only the table
of a graph is tied by its digest and names, so there the summary's digest must be of a table of the same
rows, which takes a process that is alone; the property has the same exception. That a run is vouched
for is the harder half. `IsFilled` says, stage by stage, that what a run alone has written and digested
is there as it wrote it, over whatever earlier runs left, `HandleIsOk` that the file it has open is the
one it opened and never in a published directory, `SeenIsOk` that what it has read back is there still, `WasFilled` the same between what a step
does and the stage that follows; `RunIsOk` accounts for its rows and their parity, `InputsAre` for the
inputs it has identified and named. At the last stage a directory is `Complete`, and
`CompleteVerifies` for every tool, and what was read back file by file verifies as the directory does
(`SeenVerifies`); `LastStepEnds` says that no other stage ends a run well. A
published directory is whole only if the process is alone and its inputs rest while it runs: without
the one another run empties the directory or writes into it, before or after its rename, without the other the named inputs are
not those identified.

Only model-checked: the reading of sources and the layout of files, the plans and discovery
of the official tools, the state passing of the reference, and the closed formulas of the
benchmark rows: `SourceIsJudged`, `FileDescribesSource`, `FixtureHasPublishedBytes`, `SessionIsHistory`
and `RowsAreAccepted`. Most of them compare sums and folds over data. Liveness is out of the prover's reach. So are the library's induction
theorems, which take an operator as a parameter: that is why `Total` is a constant with an additive law
instead of a fold, and why arguments by a least element (`WFMin`, as in `LeastIsFirst`) replace
induction over naturals.

## 6. Not modelled, and why

* The expert-major planner: one pass that groups assignments, without state, covered by unit
  tests; what it feeds is arithmetic.
* Kernels, the CPU backend and the arithmetic of the NumPy reference: floating point.
* Encodings: the bytes of headers, superblocks, records and checksums. A checksum is
  modelled as a comparison of what was written with what is read.
* Parsers of arguments, manifests and fixtures of the C++ tools; the Windows
  branches; reports, timings and metadata.
* The composition of Reader, loader and store inside one MoE layer: each is
  checked against an interface of the next (a load fails or yields a payload; tickets are awaited
  in order).
* The counters of bytes and nanoseconds, except where a tool compares them exactly (`OfficialDevice`).
* Crashes of the runtime: it persists nothing but the profile.

## 7. Plan

1. `DecodeLayer`: `Engine::moe` over `ExpertDelivery` and `HostExpertStore`: the flags
   read before the loads, two passes of submissions, an exception at any point.
2. Theorems about the state passing of the reference and the reading of sources.
3. `Container` for a checkpoint of many shards.
