------------------------- MODULE SpeculativeDecoding -------------------------
(***************************************************************************)
(* generate_speculative of runtime/src/model.cpp with its draft providers   *)
(* (runtime/src/aurora.cpp, the scripted one of main.cpp) and verifiers     *)
(* (runtime/src/speculative.cpp): a target model decodes greedily, block by *)
(* block, each block drafted by a provider and verified in one of two ways. *)
(*                                                                         *)
(* One thread runs a whole generation; a step is one stage of its loop.  A  *)
(* model state is the sequence of tokens it has read.  Numerics, telemetry, *)
(* diagnostics and routing traces are left out; every position counts one   *)
(* routed expert.                                                           *)
(***************************************************************************)
EXTENDS Integers, Sequences, DraftScheduler

CONSTANTS
  Tokens,             \* the vocabulary
  Models,             \* the draft models to consider
  Draft(_, _),        \* Draft(m, context): argmax of the logits of model m
  Prompt,             \* the prompt's tokens
  Count,              \* tokens to generate
  BlockSize,          \* block_size
  Target(_),          \* Target(context): argmax of the target model's logits
  Configs,            \* [provider, expertMajor, adaptive] to consider
  ScriptedProposals   \* [anchor, candidates] a script may hold

Providers == {"replay", "persistent", "scripted"}

ASSUME DecodingAssumption ==
  /\ Tokens \subseteq Nat
  /\ Prompt \in Seq(Tokens) /\ Prompt # <<>>
  /\ Count \in Nat /\ BlockSize \in Nat \ {0}
  /\ Configs \subseteq [provider : Providers, expertMajor : BOOLEAN,
                        adaptive : BOOLEAN]
  /\ ScriptedProposals \subseteq [anchor : Nat, candidates : Seq(Nat)]

\* argmax stays within the vocabulary.
ASSUME TargetAssumption ==
  \A n \in 0..(Len(Prompt) + Count) :
    \A context \in [1..n -> Tokens] : Target(context) \in Tokens

-----------------------------------------------------------------------------
(* IncrementalDraftCursor, as operators on its state.  A model state is the  *)
(* sequence of tokens it has read: the KDA part is copied into checkpoints,  *)
(* the MLA part only grows and is cropped, and the logits are those of the   *)
(* sequence read when they were computed.  Telemetry is left out.            *)

Checkpoint == [kda : Seq(Tokens), length : Nat, logits : Seq(Tokens)]
Cursor == [
  exists : BOOLEAN,
  kda : Seq(Tokens), mla : Seq(Tokens),    \* state
  logits : Seq(Tokens),
  candidates : Seq(Tokens),                \* pending_candidates
  checkpoints : Seq(Checkpoint),           \* base_checkpoint, then
                                           \* processed_checkpoints
  pending : BOOLEAN, failed : BOOLEAN ]

\* create: the context is read from its beginning.
CursorAt(context) == [
  exists |-> TRUE, kda |-> context, mla |-> context, logits |-> context,
  candidates |-> <<>>, checkpoints |-> <<>>, pending |-> FALSE, failed |-> FALSE ]
NoCursor == [CursorAt(<<>>) EXCEPT !.exists = FALSE]

\* Engine::forward on the cursor's state.
Forward(c, token) ==
  [c EXCEPT !.kda = Append(@, token), !.mla = Append(@, token),
            !.logits = Append(c.kda, token)]

-----------------------------------------------------------------------------
(* propose                                                                 *)

CanPropose(c) == ~c.failed /\ ~c.pending

\* Each candidate is the argmax of the logits of what was read before it.
Drafted(m, c, candidates) ==
  \A i \in DOMAIN candidates :
    candidates[i] =
      Draft(m, IF i = 1 THEN c.logits ELSE c.kda \o SubSeq(candidates, 1, i - 1))

\* All candidates but the last are read, with a checkpoint after each.
Proposed(c, candidates) ==
  LET reads == SubSeq(candidates, 1, Len(candidates) - 1)
      LogitsAfter(i) == IF i = 0 THEN c.logits ELSE c.kda \o SubSeq(reads, 1, i)
  IN
  [c EXCEPT
     !.kda = @ \o reads, !.mla = @ \o reads, !.logits = LogitsAfter(Len(reads)),
     !.candidates = candidates,
     !.checkpoints = [j \in 1..(Len(reads) + 1) |->
                        [kda |-> c.kda \o SubSeq(reads, 1, j - 1),
                         length |-> Len(c.mla) + j - 1,
                         logits |-> LogitsAfter(j - 1)]],
     !.pending = TRUE]

-----------------------------------------------------------------------------
(* commit                                                                  *)

CanCommit(c, accepted, committed) ==
  /\ ~c.failed /\ c.pending
  /\ accepted <= Len(c.candidates)
  /\ Len(committed) = accepted + 1
  /\ \A i \in 1..accepted : committed[i] = c.candidates[i]

\* Mutant: the MLA part is not cropped.
RestoredUncropped(c, checkpoint) ==
  [c EXCEPT !.kda = checkpoint.kda, !.logits = checkpoint.logits]
Restored(c, checkpoint) ==
  [c EXCEPT !.kda = checkpoint.kda,
            !.mla = SubSeq(@, 1, checkpoint.length),
            !.logits = checkpoint.logits]

RolledBack(c, accepted) ==
  IF accepted < Len(c.candidates) - 1 THEN Restored(c, c.checkpoints[accepted + 1])
  ELSE c

\* The last candidate was not read to propose it.
CaughtUp(c, accepted) ==
  IF accepted = Len(c.candidates) /\ accepted # 0
  THEN Forward(c, c.candidates[accepted]) ELSE c

Committed(c, accepted, committed) ==
  [Forward(CaughtUp(RolledBack(c, accepted), accepted), committed[accepted + 1])
     EXCEPT !.pending = FALSE, !.candidates = <<>>, !.checkpoints = <<>>]

-----------------------------------------------------------------------------
(* The state                                                                *)

VARIABLES
  config,         \* the provider, the verification mode and the block policy
  model,          \* the draft model
  phase,          \* where generate_speculative is
  tokens,         \* result.token_ids
  target,         \* tokens read by the target model's state
  proposal,       \* the DraftProposal of the block
  verification,   \* its DraftVerification
  scheduler,      \* scheduler_ of the provider
  provider,       \* the other fields of the provider
  cursor,         \* cursor_ of a persistent provider
  faulty          \* history: a Reader or backend has failed

generation == <<config, model, phase, tokens, target, proposal, verification>>
drafting == <<scheduler, provider, cursor>>
vars == <<generation, drafting, faulty>>

NoProposal == [anchor |-> 0, candidates |-> <<>>]
NoVerification ==
  [anchor |-> 0, proposed |-> 0, accepted |-> 0, committed |-> <<>>,
   all |-> FALSE, evaluated |-> 0, discarded |-> 0, loads |-> 0, assignments |-> 0]

TypeOK ==
  /\ config \in Configs /\ model \in Models
  /\ phase \in {"prefill", "propose", "verify", "update", "done", "failed"}
  /\ tokens \in Seq(Tokens) /\ target \in Seq(Tokens)
  /\ verification \in
       [anchor : Tokens \cup {0}, proposed : Nat, accepted : Nat,
        committed : Seq(Tokens), all : BOOLEAN, evaluated : Nat, discarded : Nat,
        loads : Nat, assignments : Nat]
  /\ scheduler \in Scheduler
  /\ provider \in [expected : Seq(Tokens), initialized : BOOLEAN,
                   pending : BOOLEAN, anchor : Tokens \cup {0},
                   candidates : Seq(Tokens), cursorPending : BOOLEAN,
                   error : BOOLEAN]
  /\ cursor \in Cursor
  /\ faulty \in BOOLEAN

Init ==
  /\ config \in Configs /\ model \in Models
  /\ phase = "prefill"
  /\ tokens = <<>> /\ target = <<>>
  /\ proposal = NoProposal /\ verification = NoVerification
  /\ scheduler = NewScheduler(config.adaptive)
  /\ provider = [expected |-> <<>>, initialized |-> FALSE, pending |-> FALSE,
                 anchor |-> 0, candidates |-> <<>>, cursorPending |-> FALSE,
                 error |-> FALSE]
  /\ cursor = NoCursor
  /\ faulty = FALSE

\* The loop goes on while tokens are missing.
Continue(generated) == IF Len(generated) < Count THEN "propose" ELSE "done"

Prefill ==
  /\ phase = "prefill"
  /\ target' = Prompt
  /\ tokens' = IF Count = 0 THEN <<>> ELSE <<Target(Prompt)>>
  /\ phase' = Continue(tokens')
  /\ UNCHANGED <<config, model, proposal, verification, drafting, faulty>>

\* An exception in the target's Reader or backend.
TargetFault ==
  /\ phase \in {"prefill", "verify"}
  /\ phase' = "failed"
  /\ faulty' = TRUE
  /\ UNCHANGED <<config, model, tokens, target, proposal, verification, drafting>>

-----------------------------------------------------------------------------
(* DraftProvider::propose                                                  *)

anchor == tokens[Len(tokens)]

\* Mutant: the block may run past the last token.
MaxDraftUnreserved == Min({BlockSize, Count - Len(tokens)})
MaxDraft == Min({BlockSize, Count - Len(tokens) - 1})

Refuses ==
  \/ provider.error \/ provider.pending
  \/ provider.initialized /\ provider.expected # tokens
  \/ cursor.exists /\ ~CanPropose(cursor)

ProposeRefused ==
  /\ phase = "propose" /\ config.provider # "scripted"
  /\ Refuses
  /\ phase' = "failed"
  /\ UNCHANGED <<config, model, tokens, target, proposal, verification, drafting,
                 faulty>>

\* The draft's Reader or backend fails, or a script is exhausted.
ProposeFault ==
  /\ phase = "propose"
  /\ phase' = "failed"
  /\ faulty' = TRUE
  /\ cursor' = [cursor EXCEPT !.failed = cursor.exists]
  /\ provider' = [provider EXCEPT !.error = @ \/ cursor.exists]
  /\ UNCHANGED <<config, model, tokens, target, proposal, verification, scheduler>>

Offer(candidates, cursorPending) ==
  /\ phase' = "verify"
  /\ proposal' = [anchor |-> anchor, candidates |-> candidates]
  /\ provider' = [provider EXCEPT
       !.expected = IF provider.initialized THEN @ ELSE tokens,
       !.initialized = TRUE, !.pending = TRUE, !.anchor = anchor,
       !.candidates = candidates, !.cursorPending = cursorPending]
  /\ scheduler' = AfterSelect(scheduler, MaxDraft)
  /\ UNCHANGED <<config, model, tokens, target, verification, faulty>>

\* generate_greedy of the draft model over everything committed.
ProposeReplay ==
  /\ phase = "propose" /\ config.provider = "replay"
  /\ ~Refuses
  /\ \E candidates \in [1..SelectedLength(scheduler, MaxDraft) -> Tokens] :
       /\ Drafted(model, CursorAt(Prompt \o tokens), candidates)
       /\ Offer(candidates, FALSE)
  /\ UNCHANGED cursor

\* The cursor is created by the first proposal that drafts something.
ProposePersistent ==
  LET n == SelectedLength(scheduler, MaxDraft)
      c == IF ~cursor.exists /\ n # 0 THEN CursorAt(Prompt \o tokens) ELSE cursor
  IN
  /\ phase = "propose" /\ config.provider = "persistent"
  /\ ~Refuses
  /\ \E candidates \in [1..n -> Tokens] :
       /\ Drafted(model, c, candidates)
       /\ Offer(candidates, c.exists)
       /\ cursor' = IF c.exists THEN Proposed(c, candidates) ELSE c

ProposeScripted ==
  /\ phase = "propose" /\ config.provider = "scripted"
  /\ proposal' \in ScriptedProposals
  /\ phase' = "verify"
  /\ UNCHANGED <<config, model, tokens, target, verification, drafting, faulty>>

-----------------------------------------------------------------------------
(* Verification                                                            *)

ValidProposal ==
  /\ proposal.anchor = anchor
  /\ Len(proposal.candidates) <= MaxDraft
  /\ \A i \in DOMAIN proposal.candidates : proposal.candidates[i] \in Tokens

RejectProposal ==
  /\ phase = "verify"
  /\ ~ValidProposal
  /\ phase' = "failed"
  /\ UNCHANGED <<config, model, tokens, target, proposal, verification, drafting,
                 faulty>>

\* The first n candidates are the target's own choices.
Agrees(candidates, targets, n) == \A i \in 1..n : candidates[i] = targets[i]

\* Mutant: an agreement after the first mismatch counts too.
AcceptedAnywhere(candidates, targets) ==
  Cardinality({i \in DOMAIN candidates : candidates[i] = targets[i]})
AcceptedPrefix(candidates, targets) ==
  CHOOSE n \in 0..Len(candidates) :
    /\ Agrees(candidates, targets, n)
    /\ n < Len(candidates) => ~Agrees(candidates, targets, n + 1)

\* Mutant: the target keeps the state of the whole block.
KeptAll(after, accepted) == after[Len(after)]
\* The target's state once the committed positions have been read.
Kept(after, accepted) == after[accepted + 1]

Evaluated(inputs, accepted) ==
  IF config.expertMajor THEN Len(inputs) ELSE accepted + 1

\* after[i] is the target's state once it has read i inputs of the block: all
\* of them in an expert-major block, which then keeps the snapshot of the
\* committed ones; token by token, nothing beyond the first mismatch is read.
Verify ==
  LET inputs == <<proposal.anchor>> \o proposal.candidates
      after == [i \in 1..Len(inputs) |-> target \o SubSeq(inputs, 1, i)]
      targets == [i \in 1..Len(inputs) |-> Target(after[i])]
      accepted == AcceptedPrefix(proposal.candidates, targets)
  IN
  /\ phase = "verify"
  /\ ValidProposal
  /\ phase' = "update"
  /\ target' = Kept(after, accepted)
  \* The positions of an expert-major block share expert loads or do not.
  /\ \E loads \in IF config.expertMajor THEN 1..Len(inputs) ELSE {0} :
       verification' = [
         anchor |-> proposal.anchor,
         proposed |-> Len(proposal.candidates), accepted |-> accepted,
         committed |-> SubSeq(proposal.candidates, 1, accepted)
                         \o <<targets[accepted + 1]>>,
         all |-> accepted = Len(proposal.candidates),
         evaluated |-> Evaluated(inputs, accepted),
         discarded |-> Evaluated(inputs, accepted) - (accepted + 1),
         loads |-> loads,
         assignments |-> IF config.expertMajor THEN Len(inputs) ELSE 0]
  /\ UNCHANGED <<config, model, tokens, proposal, drafting, faulty>>

-----------------------------------------------------------------------------
(* DraftProvider::update, and the tokens the block commits                 *)

ValidUpdate(v) ==
  /\ provider.pending
  /\ v.anchor = provider.anchor
  /\ v.proposed = Len(provider.candidates)
  /\ v.accepted <= v.proposed
  /\ Len(v.committed) = v.accepted + 1
  /\ v.all <=> v.accepted = v.proposed
  /\ \A i \in 1..v.accepted : v.committed[i] = provider.candidates[i]

Emit ==
  /\ tokens' = tokens \o verification.committed
  /\ phase' = Continue(tokens')
  /\ proposal' = NoProposal /\ verification' = NoVerification
  /\ UNCHANGED <<config, model, target>>

Settled(expected, error) ==
  [provider EXCEPT !.expected = expected, !.pending = FALSE, !.candidates = <<>>,
                   !.cursorPending = FALSE, !.error = error]

Expected(v) == provider.expected \o v.committed

\* The provider commits into its cursor, if it has one, and the scheduler
\* learns.  Whatever it refuses latches its error: update cannot fail.
Update ==
  LET v == verification
      valid == /\ ValidUpdate(v)
               /\ provider.cursorPending => CanCommit(cursor, v.accepted, v.committed)
  IN
  /\ phase = "update" /\ config.provider # "scripted"
  /\ Emit
  /\ cursor' = IF valid /\ provider.cursorPending
               THEN Committed(cursor, v.accepted, v.committed) ELSE cursor
  /\ IF valid /\ Observable(v)
     THEN /\ scheduler' = AfterObserve(scheduler, v)
          /\ provider' = Settled(Expected(v), provider.error)
     ELSE /\ scheduler' = scheduler
          /\ provider' = Settled(provider.expected, TRUE)
  /\ UNCHANGED faulty

\* The cursor's commit fails while it reads: the provider latches its error,
\* the block is committed all the same.
UpdateFault ==
  /\ phase = "update" /\ provider.cursorPending
  /\ Emit
  /\ cursor' = [cursor EXCEPT !.failed = TRUE, !.pending = FALSE]
  /\ provider' = Settled(provider.expected, TRUE)
  /\ faulty' = TRUE
  /\ UNCHANGED scheduler

UpdateScripted ==
  /\ phase = "update" /\ config.provider = "scripted"
  /\ Emit
  /\ UNCHANGED <<drafting, faulty>>

-----------------------------------------------------------------------------
Propose ==
  \/ ProposeReplay \/ ProposePersistent \/ ProposeScripted
  \/ ProposeRefused \/ ProposeFault

Step ==
  \/ Prefill \/ TargetFault
  \/ Propose
  \/ Verify \/ RejectProposal
  \/ Update \/ UpdateFault \/ UpdateScripted

\* The generation has returned.
Returned == phase \in {"done", "failed"} /\ UNCHANGED vars

Next == Step \/ Returned

Spec == Init /\ [][Next]_vars
\* One thread runs the loop, and its storage reads return.
FairSpec == Spec /\ WF_vars(Step)

-----------------------------------------------------------------------------
(* Properties                                                              *)

\* Speculation is lossless: whatever the provider proposes and whichever way
\* blocks are verified, the generated tokens are those the target model
\* chooses on its own, and never more of them than asked for.
TokensAreGreedy ==
  /\ Len(tokens) <= Count
  /\ \A i \in DOMAIN tokens :
       tokens[i] = Target(Prompt \o SubSeq(tokens, 1, i - 1))

\* Between blocks the target's state has read the prompt and every generated
\* token but the last: rejected candidates leave no trace in it.
TargetFollowsTokens ==
  phase \in {"propose", "verify", "done"} =>
    target = Prompt \o SubSeq(tokens, 1, Len(tokens) - 1)

\* After every commit the draft cursor's KDA state, MLA state and logits have
\* all read the prompt and the generated tokens, however much of the block
\* was rolled back.
CursorFollowsTokens ==
  (phase = "propose" /\ cursor.exists /\ ~provider.error) =>
    \A part \in {cursor.kda, cursor.mla, cursor.logits} : part = Prompt \o tokens

\* The incremental provider drafts what replaying the whole history would.
DraftsFollowHistory ==
  (phase = "verify" /\ config.provider # "scripted") =>
    \A i \in DOMAIN proposal.candidates :
      proposal.candidates[i] =
        Draft(model, Prompt \o tokens \o SubSeq(proposal.candidates, 1, i - 1))

\* Provider and runtime never disagree about the history: a generation drafted
\* by AURORA fails only when a Reader or a backend does.  The exception is
\* expert-major feedback of a block without candidates to an adaptive scheduler,
\* which refuses it: see OrdinaryStepIsNoOp.
FailsOnlyOnFault ==
  (/\ phase = "failed" /\ config.provider # "scripted"
   /\ ~(config.expertMajor /\ config.adaptive)) => faulty

\* The draft cursor's KDA state, MLA state and logits have read the committed
\* tokens however much of a block was rolled back, the incremental provider
\* drafts what a replay of the whole history would, and a generation only fails
\* when something below it did: provider and loop agree on every block.
ProvidersAgree ==
  TypeOK /\ CursorFollowsTokens /\ DraftsFollowHistory /\ FailsOnlyOnFault

\* Speculative decoding implements plain greedy decoding, and ends.
Greedy == INSTANCE GreedyDecoding WITH failed <- phase = "failed"
ImplementsGreedyDecoding == Greedy!Spec

-----------------------------------------------------------------------------
(* What a design document says, which the code does not do.                *)

\* A block without candidates is an ordinary target step: its verification
\* feedback is a state-preserving no-op of the scheduler.
OrdinaryStepIsNoOp ==
  [][(/\ phase = "update" /\ phase' = "propose" /\ ~faulty'
      /\ config.provider # "scripted" /\ verification.proposed = 0)
     => scheduler' = scheduler /\ provider'.error = provider.error]_vars
=============================================================================
