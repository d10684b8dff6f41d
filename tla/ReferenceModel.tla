---------------------------- MODULE ReferenceModel ----------------------------
(***************************************************************************)
(* SyntheticK3Model of reference/k3x_ref/model.py with its attention states *)
(* (kda.py, mla.py) and depth residuals (attn_res.py).  A hidden vector is  *)
(* a value; every tensor computation is a constant operator of what it      *)
(* reads, so that two results agree only if they were computed from the     *)
(* same values in the same roles.  A batch is a sequence of rows of equal   *)
(* length, flattened row by row where the code flattens it.                 *)
(*                                                                         *)
(* A session prefills a batch and decodes it token by token; a call of      *)
(* generate_greedy runs its loop, incrementally or by recomputation.        *)
(***************************************************************************)
EXTENDS Integers, Sequences, FiniteSets

CONSTANTS
  Tokens,                 \* the vocabulary
  LayerKinds,             \* cfg.layer_kinds: "kda" or "mla"
  AttnResBlockSize,       \* cfg.attn_res_block_size
  Kernel,                 \* cfg.short_conv_kernel_size
  Zero,                   \* the value of a zeroed tensor
  Embed(_), LmHead(_),      \* embedding; logits, of which only argmax is used
  Mix(_, _, _),           \* apply_attn_res at (layer, role), of a list
  Add(_, _),
  KdaOutput(_, _, _), KdaRecurrent(_, _, _),   \* (layer, window, recurrent)
  MlaOutput(_, _, _),                          \* (layer, x, keys)
  FeedForward(_, _),                           \* (layer, x), norm included
  Prompts,                \* sets of prompts and batches to start from
  Batches,
  MaxRead, MaxCount, MaxCalls   \* bounds: tokens of a session, of an answer; calls

\* <<F(1), ..., F(n)>>, built from its first element to its last.
Tabulate(n, F(_)) ==
  LET upTo[i \in 0..n] == IF i = 0 THEN <<>> ELSE Append(upTo[i - 1], F(i))
  IN  upTo[n]

NumLayers == Len(LayerKinds)
Layers == 1..NumLayers

-----------------------------------------------------------------------------
(* Attention, one position of one row                                      *)

\* empty_kda_state: the convolution starts on zeros.
EmptyKda == [conv |-> [i \in 1..(Kernel - 1) |-> Zero], recurrent |-> Zero]
\* empty_mla_state.
EmptyMla == [keys |-> <<>>, length |-> 0]

\* kda_decode: the short convolution sees the last Kernel inputs, the delta
\* rule the recurrent state.
KdaDecode(l, x, st) ==
  LET window == Append(st.conv, x)
  IN  [ output |-> KdaOutput(l, window, st.recurrent),
        state  |-> [conv |-> Tail(window),
                    recurrent |-> KdaRecurrent(l, window, st.recurrent)] ]

\* mla_decode: the token attends to itself and to all before it.
MlaDecode(l, x, st) ==
  LET keys == Append(st.keys, x)
  IN  [ output |-> MlaOutput(l, x, keys),
        state  |-> [keys |-> keys, length |-> st.length + 1] ]

DecodeAt(l, x, st) ==
  IF LayerKinds[l] = "kda" THEN KdaDecode(l, x, st) ELSE MlaDecode(l, x, st)

\* kda_prefill, mla_prefill: position by position, from the state given.
AttentionPrefill(l, xs, st) ==
  LET step[i \in 0..Len(xs)] ==
        IF i = 0 THEN [outputs |-> <<>>, state |-> st]
        ELSE LET before == step[i - 1]
                 now == DecodeAt(l, xs[i], before.state)
             IN  [outputs |-> Append(before.outputs, now.output), state |-> now.state]
  IN  step[Len(xs)]

-----------------------------------------------------------------------------
(* _forward                                                                *)

\* Where element n of a flattened batch of rows of length s comes from, and
\* row r of it.
RowOf(n, s) == (n - 1) \div s + 1
PositionOf(n, s) == ((n - 1) % s) + 1
Row(flat, r, s) == SubSeq(flat, (r - 1) * s + 1, r * s)

\* empty_state.
EmptyState(batch) ==
  [ attention |-> [l \in Layers |-> [r \in 1..batch |->
                     IF LayerKinds[l] = "kda" THEN EmptyKda ELSE EmptyMla]],
    position  |-> 0 ]

Pushed(l) == (l - 1) % AttnResBlockSize = 0

\* After attention, a layer that opens a block starts its prefix sum afresh.
PrefixSum(l, hidden, attended) == IF Pushed(l) THEN attended ELSE Add(hidden, attended)

\* One layer: mix the depth sources into the attention's input, open a block
\* every AttnResBlockSize layers, attend, mix again and feed forward.
ForwardLayer(l, s, batch, before, state) ==
  LET Input(n) == IF before.sources[n] = <<>> THEN before.hidden[n]
                  ELSE Mix(l, "attention", Append(before.sources[n], before.hidden[n]))
      input == Tabulate(batch * s, Input)
      Attend(r) == AttentionPrefill(l, Row(input, r, s), state.attention[l][r])
      attended == Tabulate(batch, Attend)
      Sources(n) == IF Pushed(l) THEN Append(before.sources[n], before.hidden[n])
                    ELSE before.sources[n]
      sources == Tabulate(batch * s, Sources)
      Prefix(n) == PrefixSum(l, before.hidden[n],
                             attended[RowOf(n, s)].outputs[PositionOf(n, s)])
      prefix == Tabulate(batch * s, Prefix)
      Hidden(n) == Add(prefix[n], FeedForward(l, Mix(l, "mlp", Append(sources[n], prefix[n]))))
      NextState(r) == attended[r].state
  IN [ hidden  |-> Tabulate(batch * s, Hidden),
       sources |-> sources,
       states  |-> Append(before.states, Tabulate(batch, NextState)) ]

\* _forward: rows of token ids from a state; logits for every position.
Forward(rows, state) ==
  LET batch == Len(rows)
      s     == Len(rows[1])
      Embedded(n) == Embed(rows[RowOf(n, s)][PositionOf(n, s)])
      layer[l \in 0..NumLayers] ==
        IF l = 0
        THEN [ hidden  |-> Tabulate(batch * s, Embedded),
               sources |-> Tabulate(batch * s, LAMBDA n : <<>>),
               states  |-> <<>> ]
        ELSE ForwardLayer(l, s, batch, layer[l - 1], state)
      last == layer[NumLayers]
      Logits(n) == LmHead(Mix(0, "output", Append(last.sources[n], last.hidden[n])))
      logits == Tabulate(batch * s, Logits)
  IN [ logits |-> Tabulate(batch, LAMBDA r : Row(logits, r, s)),
       state  |-> [attention |-> last.states, position |-> state.position + s] ]

Prefill(rows) == Forward(rows, EmptyState(Len(rows)))

\* decode: one token of each row, reshape(-1, 1).
Decode(tokens, state) == Forward([r \in DOMAIN tokens |-> <<tokens[r]>>], state)

\* The token greedy decoding takes: argmax of the last logits of the row.
Argmax(forward, r) == forward.logits[r][Len(forward.logits[r])]

\* What state_sha256 digests, in its order.
StateDigest(state) ==
  << state.position,
     [l \in Layers |-> [r \in DOMAIN state.attention[l] |->
        IF LayerKinds[l] = "kda"
        THEN <<state.attention[l][r].conv, state.attention[l][r].recurrent>>
        ELSE <<state.attention[l][r].length, state.attention[l][r].keys>>]] >>

-----------------------------------------------------------------------------
VARIABLES
  read,         \* the session's tokens: one row per element of the batch
  forward,      \* the last logits and the state of the session or call
  call,         \* the call of generate_greedy in progress
  returned      \* what calls of generate_greedy returned

vars == <<read, forward, call, returned>>

NoForward == [logits |-> <<>>, state |-> EmptyState(0)]
NoCall == [prompt |-> <<>>, count |-> 0, incremental |-> FALSE, generated |-> <<>>,
           sequence |-> <<>>]
Idle == call = NoCall

Init == read = <<>> /\ forward = NoForward /\ call = NoCall /\ returned = {}

\* prefill of a batch opens a session.
OpenSession ==
  /\ Idle /\ read = <<>>
  /\ \E rows \in Batches : read' = rows /\ forward' = Prefill(rows)
  /\ UNCHANGED <<call, returned>>

\* decode of any tokens, one for each row.
DecodeSession ==
  /\ Idle /\ read # <<>> /\ forward.state.position < MaxRead
  /\ \E tokens \in [DOMAIN read -> Tokens] :
       /\ forward' = Decode(tokens, forward.state)
       /\ read' = [r \in DOMAIN read |-> Append(read[r], tokens[r])]
  /\ UNCHANGED <<call, returned>>

\* generate_greedy refuses an empty prompt and answers a zero count at once.
StartGreedy ==
  /\ Idle /\ read = <<>> /\ Cardinality(returned) < MaxCalls
  /\ \E prompt \in Prompts, count \in 1..MaxCount, incremental \in BOOLEAN :
       /\ \A r \in returned : <<r.prompt, r.incremental>> # <<prompt, incremental>>
       /\ call' = [prompt |-> prompt, count |-> count, incremental |-> incremental,
                   generated |-> <<>>, sequence |-> prompt]
       /\ forward' = IF incremental THEN Prefill(<<prompt>>) ELSE NoForward
  /\ UNCHANGED <<read, returned>>

\* Mutant: the last token is not read before the next is taken.
GreedyIncrementalLate ==
  /\ ~Idle /\ call.incremental /\ Len(call.generated) < call.count
  /\ LET token == Argmax(forward, 1) IN
     /\ call' = [call EXCEPT !.generated = Append(@, token)]
     /\ forward' = IF Len(call.generated) # 0 /\ Len(call.generated) + 1 < call.count
                   THEN Decode(<<token>>, forward.state) ELSE forward
  /\ UNCHANGED <<read, returned>>
\* The incremental loop: the last token of all is not read.
GreedyIncremental ==
  /\ ~Idle /\ call.incremental /\ Len(call.generated) < call.count
  /\ LET token == Argmax(forward, 1) IN
     /\ call' = [call EXCEPT !.generated = Append(@, token)]
     /\ forward' = IF Len(call.generated) + 1 < call.count
                   THEN Decode(<<token>>, forward.state) ELSE forward
  /\ UNCHANGED <<read, returned>>

\* The recomputing loop: the whole sequence is prefilled for every token.
GreedyRecompute ==
  /\ ~Idle /\ ~call.incremental /\ Len(call.generated) < call.count
  /\ LET token == Argmax(Prefill(<<call.sequence>>), 1) IN
     call' = [call EXCEPT !.generated = Append(@, token), !.sequence = Append(@, token)]
  /\ UNCHANGED <<read, forward, returned>>

ReturnGreedy ==
  /\ ~Idle /\ Len(call.generated) = call.count
  /\ returned' = returned \cup {[prompt |-> call.prompt, incremental |-> call.incremental,
                                 tokens |-> call.generated]}
  /\ call' = NoCall /\ forward' = NoForward
  /\ UNCHANGED read

Next == OpenSession \/ DecodeSession \/ StartGreedy \/ GreedyIncremental
          \/ GreedyRecompute \/ ReturnGreedy
Spec == Init /\ [][Next]_vars

-----------------------------------------------------------------------------
\* Types: the MLA part of a state has read as many tokens as the session, the
\* KDA part keeps the inputs a convolution needs.
TypeOK ==
  /\ read \in Seq(Seq(Tokens)) /\ call.generated \in Seq(Tokens)
  /\ \A l \in Layers : \A r \in DOMAIN forward.state.attention[l] :
       LET st == forward.state.attention[l][r] IN
       IF LayerKinds[l] = "kda" THEN Len(st.conv) = Kernel - 1
       ELSE st.length = Len(st.keys) /\ st.length = forward.state.position

\* A convolution sees what was just read, and zeros before the first token: the
\* first layer keeps exactly the embeddings of the last Kernel - 1 tokens.
WindowsAreRecent ==
  LayerKinds[1] = "kda" =>
    \A r \in DOMAIN read :
      LET all == [i \in 1..(Kernel - 1) |-> Zero] \o Tabulate(Len(read[r]), LAMBDA i : Embed(read[r][i]))
      IN  forward.state.attention[1][r].conv = SubSeq(all, Len(read[r]) + 1, Len(all))

\* A state is its history: however the tokens of a session were split between
\* the prefill and the steps, the logits and the state (to its digest) are
\* those of one prefill of everything read.
SessionIsHistory ==
  read # <<>> =>
    LET whole == Prefill(read) IN
    /\ StateDigest(forward.state) = StateDigest(whole.state)
    /\ \A r \in DOMAIN read : Argmax(forward, r) = Argmax(whole, r)

\* Rows do not leak into one another: each row of a batch has the logits and
\* the state it would have alone.
RowsAreIndependent ==
  \A r \in DOMAIN read :
    LET alone == Prefill(<<read[r]>>) IN
    /\ Argmax(forward, r) = Argmax(alone, 1)
    /\ \A l \in Layers : forward.state.attention[l][r] = alone.state.attention[l][1]

\* Attention is causal: the logits a prefill gives at a position are those of
\* a prefill that stops there.
Causal ==
  \A r \in DOMAIN read : \A i \in DOMAIN read[r] :
    Prefill(read).logits[r][i] = Argmax(Prefill(<<SubSeq(read[r], 1, i)>>), 1)

\* generate_greedy answers the same whether it decodes incrementally or
\* recomputes: the shorter of two answers to a prompt begins the longer one.
GenerationsAgree ==
  \A a, b \in returned :
    a.prompt = b.prompt =>
      \A i \in DOMAIN a.tokens \cap DOMAIN b.tokens : a.tokens[i] = b.tokens[i]
=============================================================================
