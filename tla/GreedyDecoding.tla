--------------------------- MODULE GreedyDecoding ---------------------------
(***************************************************************************)
(* What decoding promises: the tokens generate_greedy of                    *)
(* runtime/src/model.cpp emits, each the argmax of the target model over    *)
(* everything before it, or a failure.  How many tokens appear at a time is *)
(* left open.                                                               *)
(***************************************************************************)
EXTENDS Integers, Sequences

CONSTANTS
  Tokens,       \* the vocabulary
  Prompt,       \* the prompt's tokens
  Count,        \* tokens to generate
  Target(_)     \* Target(context): argmax of the target model's logits

VARIABLES tokens, failed

greedyVars == <<tokens, failed>>

Init == tokens = <<>> /\ failed = FALSE

\* more continues the generated tokens as the target model would.
Continues(more) ==
  \A i \in DOMAIN more :
    more[i] = Target(Prompt \o tokens \o SubSeq(more, 1, i - 1))

Emit ==
  /\ ~failed
  /\ \E n \in 1..(Count - Len(tokens)) :
       \E more \in [1..n -> Tokens] :
         Continues(more) /\ tokens' = tokens \o more
  /\ UNCHANGED failed

\* While a token is missing, or in the prefill.
Fail ==
  /\ Len(tokens) < Count \/ tokens = <<>>
  /\ failed' = TRUE
  /\ UNCHANGED tokens

Next == Emit \/ Fail

SafeSpec == Init /\ [][Next]_greedyVars

\* The decoding thread goes on until it has every token or has failed.
Spec == SafeSpec /\ WF_greedyVars(Emit)
=============================================================================
