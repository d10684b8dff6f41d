---------------------- MODULE SpeculativeDecodingProofs ----------------------
(***************************************************************************)
(* Theorems about what is decided for a token.                              *)
(*                                                                         *)
(* Speculation is lossless: proved for every target and draft model, prompt,*)
(* vocabulary, provider, verification mode, block size and number of tokens.*)
(* The router takes the best experts and a quality floor only adds some:    *)
(* proved for every set of experts, ladder, score, bias and policy.         *)
(***************************************************************************)
EXTENDS SpeculativeDecoding, RoutingPolicy, FiniteSetTheorems, FunctionTheorems, SequenceTheorems

-----------------------------------------------------------------------------
(* Prefixes of sequences.                                                  *)

LEMMA PrefixType ==
  ASSUME NEW S, NEW s \in Seq(S), NEW n \in 0..Len(s)
  PROVE  /\ SubSeq(s, 1, n) \in Seq(S)
         /\ Len(SubSeq(s, 1, n)) = n
         /\ \A i \in 1..n : SubSeq(s, 1, n)[i] = s[i]
<1>1. \A i \in 1..n : s[i] \in S
  BY ElementOfSeq
<1> QED
  BY <1>1, SubSeqProperties, LenProperties

LEMMA PrefixOfPrefix ==
  ASSUME NEW S, NEW s \in Seq(S), NEW n \in 0..Len(s), NEW m \in 0..n
  PROVE  SubSeq(SubSeq(s, 1, n), 1, m) = SubSeq(s, 1, m)
<1>1. m \in 0..Len(s)
  BY LenProperties
<1>2. /\ SubSeq(s, 1, n) \in Seq(S) /\ Len(SubSeq(s, 1, n)) = n
      /\ \A i \in 1..n : SubSeq(s, 1, n)[i] = s[i]
  BY PrefixType
<1>3. /\ SubSeq(s, 1, m) \in Seq(S) /\ Len(SubSeq(s, 1, m)) = m
      /\ \A i \in 1..m : SubSeq(s, 1, m)[i] = s[i]
  BY <1>1, PrefixType
<1>4. LET r == SubSeq(SubSeq(s, 1, n), 1, m) IN
      /\ r \in Seq(S) /\ Len(r) = m
      /\ \A i \in 1..m : r[i] = SubSeq(s, 1, n)[i]
  BY <1>2, PrefixType
<1>5. \A i \in 1..m : i \in 1..n
  OBVIOUS
<1> QED
  BY <1>2, <1>3, <1>4, <1>5, SeqEqual

\* A prefix that does not reach the second sequence.
LEMMA PrefixOfFirst ==
  ASSUME NEW S, NEW s \in Seq(S), NEW t \in Seq(S), NEW n \in 0..Len(s)
  PROVE  SubSeq(s \o t, 1, n) = SubSeq(s, 1, n)
<1>1. /\ s \o t \in Seq(S) /\ Len(s \o t) = Len(s) + Len(t)
      /\ \A i \in 1..Len(s) : (s \o t)[i] = s[i]
  BY ConcatProperties, LenProperties
<1>2. n \in 0..Len(s \o t)
  BY <1>1, LenProperties
<1>3. /\ SubSeq(s \o t, 1, n) \in Seq(S) /\ Len(SubSeq(s \o t, 1, n)) = n
      /\ \A i \in 1..n : SubSeq(s \o t, 1, n)[i] = (s \o t)[i]
  BY <1>1, <1>2, PrefixType
<1>4. /\ SubSeq(s, 1, n) \in Seq(S) /\ Len(SubSeq(s, 1, n)) = n
      /\ \A i \in 1..n : SubSeq(s, 1, n)[i] = s[i]
  BY PrefixType
<1>5. \A i \in 1..n : i \in 1..Len(s)
  BY LenProperties
<1> QED
  BY <1>1, <1>3, <1>4, <1>5, SeqEqual

\* A prefix that ends in the second sequence.
LEMMA PrefixOfConcat ==
  ASSUME NEW S, NEW s \in Seq(S), NEW t \in Seq(S), NEW n \in 0..Len(t)
  PROVE  SubSeq(s \o t, 1, Len(s) + n) = s \o SubSeq(t, 1, n)
<1> DEFINE whole == SubSeq(s \o t, 1, Len(s) + n)
           parts == s \o SubSeq(t, 1, n)
<1>1. Len(s) \in Nat /\ Len(t) \in Nat
  BY LenProperties
<1>2. /\ s \o t \in Seq(S) /\ Len(s \o t) = Len(s) + Len(t)
      /\ \A i \in 1..(Len(s) + Len(t)) :
           (s \o t)[i] = IF i <= Len(s) THEN s[i] ELSE t[i - Len(s)]
  BY ConcatProperties
<1>3. /\ whole \in Seq(S) /\ Len(whole) = Len(s) + n
      /\ \A i \in 1..(Len(s) + n) : whole[i] = (s \o t)[i]
  BY <1>1, <1>2, PrefixType
<1>4. /\ SubSeq(t, 1, n) \in Seq(S) /\ Len(SubSeq(t, 1, n)) = n
      /\ \A i \in 1..n : SubSeq(t, 1, n)[i] = t[i]
  BY PrefixType
<1>5. /\ parts \in Seq(S) /\ Len(parts) = Len(s) + n
      /\ \A i \in 1..(Len(s) + n) :
           parts[i] = IF i <= Len(s) THEN s[i] ELSE SubSeq(t, 1, n)[i - Len(s)]
  BY <1>4, ConcatProperties
<1> HIDE DEF whole, parts
<1>6. ASSUME NEW i \in 1..(Len(s) + n)
      PROVE  whole[i] = parts[i]
  <2>1. whole[i] = IF i <= Len(s) THEN s[i] ELSE t[i - Len(s)]
    BY <1>1, <1>2, <1>3
  <2>2. CASE i <= Len(s)
    BY <1>5, <2>1, <2>2
  <2>3. CASE ~(i <= Len(s))
    <3>1. i - Len(s) \in 1..n
      BY <1>1, <2>3
    <3> QED
      BY <1>4, <1>5, <2>1, <2>3, <3>1
  <2> QED
    BY <2>2, <2>3
<1>7. whole = parts
  BY <1>3, <1>5, <1>6, SeqEqual
<1> QED
  BY <1>7 DEF whole, parts

LEMMA TokensAssociative ==
  \A s, t, u \in Seq(Tokens) : (s \o t) \o u = s \o (t \o u)
<1> SUFFICES ASSUME NEW s \in Seq(Tokens), NEW t \in Seq(Tokens),
                    NEW u \in Seq(Tokens)
             PROVE  (s \o t) \o u = s \o (t \o u)
  OBVIOUS
<1> QED
  BY ConcatAssociative, SMT

LEMMA SingletonSeq ==
  ASSUME NEW S, NEW e \in S
  PROVE  <<e>> \in Seq(S) /\ Len(<<e>>) = 1 /\ <<e>>[1] = e
  OBVIOUS

\* All but the last element, and the last.
LEMMA FrontAndLast ==
  ASSUME NEW S, NEW s \in Seq(S), s # <<>>
  PROVE  SubSeq(s, 1, Len(s) - 1) \o <<s[Len(s)]>> = s
<1>1. Len(s) \in Nat \ {0}
  BY EmptySeq
<1>2. SubSeq(s, 1, Len(s)) = SubSeq(s, 1, Len(s) - 1) \o <<s[Len(s)]>>
  BY <1>1, SubSeqRecursiveSecond
<1> QED
  BY <1>2, SubSeqFull

-----------------------------------------------------------------------------
(* The accepted prefix.                                                    *)

\* The CHOOSE of AcceptedPrefix has something to choose: the candidates
\* before the first mismatch, all of them if there is none.
LEMMA AcceptedPrefixProperties ==
  ASSUME NEW candidates \in Seq(Tokens), NEW targets
  PROVE  /\ AcceptedPrefix(candidates, targets) \in 0..Len(candidates)
         /\ Agrees(candidates, targets, AcceptedPrefix(candidates, targets))
<1> DEFINE n == Len(candidates)
           mismatch == {i \in 0..n : i < n => candidates[i + 1] # targets[i + 1]}
<1>1. n \in Nat
  BY LenProperties
<1>2. mismatch \in SUBSET Nat /\ mismatch # {}
  BY <1>1
<1>3. PICK first \in mismatch : \A i \in mismatch : first <= i
  BY <1>2, LeastElement
<1>4. first \in 0..n
  OBVIOUS
<1>5. ASSUME NEW i \in 1..first
      PROVE  candidates[i] = targets[i]
  <2>1. i - 1 \in 0..n /\ i - 1 < n /\ ~(first <= i - 1) /\ (i - 1) + 1 = i
    BY <1>1, <1>4
  <2> QED
    BY <1>3, <2>1
<1>6. Agrees(candidates, targets, first)
  BY <1>5 DEF Agrees
<1>7. first < n => ~Agrees(candidates, targets, first + 1)
  <2> SUFFICES ASSUME first < n, Agrees(candidates, targets, first + 1)
               PROVE  FALSE
    OBVIOUS
  <2>1. candidates[first + 1] # targets[first + 1]
    OBVIOUS
  <2>2. first + 1 \in 1..(first + 1)
    BY <1>1, <1>4
  <2> QED
    BY <2>1, <2>2 DEF Agrees
<1> QED
  BY <1>4, <1>6, <1>7 DEF AcceptedPrefix

-----------------------------------------------------------------------------
(* The inductive invariant.                                                *)

Phases == {"prefill", "propose", "verify", "update", "done", "failed"}

\* The target model's own continuation of the generated tokens.
OwnContinuation(more) ==
  \A i \in 1..Len(more) :
    more[i] = Target(Prompt \o tokens \o SubSeq(more, 1, i - 1))

\* A verified block is the target's own continuation, fits in what is left to
\* generate, and has been read by the target up to its last token.
BlockFollowsTokens ==
  LET more == verification.committed IN
  /\ more \in Seq(Tokens) /\ more # <<>>
  /\ Len(more) <= Count - Len(tokens)
  /\ OwnContinuation(more)
  /\ target = Prompt \o tokens \o SubSeq(more, 1, Len(more) - 1)

Counts(v) == v.proposed \in Nat /\ v.loads \in Nat /\ v.assignments \in Nat

Lossless ==
  /\ config \in Configs
  /\ scheduler \in Scheduler
  /\ phase \in Phases
  /\ tokens \in Seq(Tokens)
  /\ phase = "prefill" => tokens = <<>>
  /\ phase \in {"propose", "verify", "update"} =>
       tokens # <<>> /\ Len(tokens) < Count
  /\ phase = "verify" => proposal.candidates \in Seq(Nat)
  /\ phase = "update" => BlockFollowsTokens /\ Counts(verification)
  /\ TokensAreGreedy
  /\ TargetFollowsTokens

-----------------------------------------------------------------------------
(* Emission of a block.                                                    *)

\* Appending the target's own continuation leaves a greedy sequence, and what
\* the target has read is what it has read of the longer sequence.
LEMMA EmitLossless ==
  ASSUME tokens \in Seq(Tokens), TokensAreGreedy, BlockFollowsTokens, Emit
  PROVE  /\ tokens' \in Seq(Tokens) /\ tokens' # <<>>
         /\ TokensAreGreedy'
         /\ target' = Prompt \o SubSeq(tokens', 1, Len(tokens') - 1)
<1> DEFINE more == verification.committed
<1>1. /\ more \in Seq(Tokens) /\ more # <<>>
      /\ Len(more) <= Count - Len(tokens)
      /\ OwnContinuation(more)
      /\ target = Prompt \o tokens \o SubSeq(more, 1, Len(more) - 1)
  BY DEF BlockFollowsTokens
<1>2. tokens' = tokens \o more /\ target' = target
  BY DEF Emit
<1> HIDE DEF more
<1>3. /\ Len(tokens) \in Nat /\ Len(more) \in Nat \ {0}
      /\ Count \in Nat /\ Prompt \in Seq(Tokens)
  BY <1>1, EmptySeq, LenProperties, DecodingAssumption
<1>4. /\ tokens' \in Seq(Tokens) /\ Len(tokens') = Len(tokens) + Len(more)
      /\ \A i \in 1..(Len(tokens) + Len(more)) :
           tokens'[i] = IF i <= Len(tokens) THEN tokens[i]
                        ELSE more[i - Len(tokens)]
  BY <1>1, <1>2, ConcatProperties
<1>5. tokens' # <<>>
  BY <1>3, <1>4, EmptySeq
<1>6. \A j \in 0..Len(more) :
        Prompt \o SubSeq(tokens', 1, Len(tokens) + j)
          = Prompt \o tokens \o SubSeq(more, 1, j)
  <2> TAKE j \in 0..Len(more)
  <2>1. SubSeq(tokens', 1, Len(tokens) + j) = tokens \o SubSeq(more, 1, j)
    BY <1>1, <1>2, PrefixOfConcat
  <2>2. SubSeq(more, 1, j) \in Seq(Tokens)
    BY <1>1, PrefixType
  <2> DEFINE x == SubSeq(more, 1, j)
             y == SubSeq(tokens', 1, Len(tokens) + j)
  <2>3. x \in Seq(Tokens) /\ y = tokens \o x
    BY <2>1, <2>2
  <2> HIDE DEF x, y
  <2>4. Prompt \o y = (Prompt \o tokens) \o x
    BY <1>3, <2>3, TokensAssociative, Zenon
  <2> QED
    BY <2>4 DEF x, y
<1>7. ASSUME NEW i \in 1..(Len(tokens) + Len(more))
      PROVE  tokens'[i] = Target(Prompt \o SubSeq(tokens', 1, i - 1))
  <2>1. CASE i <= Len(tokens)
    <3>1. i \in 1..Len(tokens) /\ i - 1 \in 0..Len(tokens)
      BY <1>3, <2>1
    <3>2. tokens[i] = Target(Prompt \o SubSeq(tokens, 1, i - 1))
      BY <3>1, LenProperties DEF TokensAreGreedy
    <3>3. SubSeq(tokens', 1, i - 1) = SubSeq(tokens, 1, i - 1)
      BY <1>1, <1>2, <3>1, PrefixOfFirst
    <3> QED
      BY <1>4, <2>1, <3>2, <3>3
  <2>2. CASE ~(i <= Len(tokens))
    <3> DEFINE j == i - Len(tokens)
    <3>1. j \in 1..Len(more) /\ j - 1 \in 0..Len(more)
          /\ Len(tokens) + (j - 1) = i - 1
      BY <1>3, <2>2
    <3>2. more[j] = Target(Prompt \o tokens \o SubSeq(more, 1, j - 1))
      BY <1>1, <3>1 DEF OwnContinuation
    <3>3. Prompt \o SubSeq(tokens', 1, i - 1)
            = Prompt \o tokens \o SubSeq(more, 1, j - 1)
      BY <1>6, <3>1
    <3> QED
      BY <1>4, <2>2, <3>2, <3>3
  <2> QED
    BY <2>1, <2>2
<1>8. TokensAreGreedy'
  <2>1. Len(tokens') <= Count
    BY <1>1, <1>3, <1>4
  <2>2. DOMAIN tokens' = 1..(Len(tokens) + Len(more))
    BY <1>4, LenProperties
  <2> QED
    BY <1>7, <2>1, <2>2 DEF TokensAreGreedy
<1>9. target' = Prompt \o SubSeq(tokens', 1, Len(tokens') - 1)
  <2>1. /\ Len(more) - 1 \in 0..Len(more)
        /\ Len(tokens) + (Len(more) - 1) = Len(tokens') - 1
    BY <1>3, <1>4
  <2> QED
    BY <1>1, <1>2, <1>6, <2>1
<1> QED
  BY <1>4, <1>5, <1>8, <1>9

-----------------------------------------------------------------------------
(* Verification of a block.                                                *)

LEMMA MaxDraftProperties ==
  ASSUME tokens \in Seq(Tokens), Len(tokens) < Count
  PROVE  /\ MaxDraft \in Nat
         /\ MaxDraft <= Count - Len(tokens) - 1
<1> DEFINE S == {BlockSize, Count - Len(tokens) - 1}
<1>1. Len(tokens) \in Nat /\ Count \in Nat /\ BlockSize \in Nat
  BY LenProperties, DecodingAssumption
<1>2. S \in SUBSET Nat /\ S # {}
  BY <1>1
<1> HIDE DEF S
<1>3. Min(S) \in S /\ \A n \in S : Min(S) <= n
  BY <1>2, MinProperties
<1>4. MaxDraft = Min(S)
  BY DEF MaxDraft, S
<1>5. Count - Len(tokens) - 1 \in S
  BY DEF S
<1> QED
  BY <1>2, <1>3, <1>4, <1>5

\* A context within the generation has a token.
LEMMA TargetType ==
  ASSUME NEW context \in Seq(Tokens), Len(context) <= Len(Prompt) + Count
  PROVE  Target(context) \in Tokens
<1>1. /\ Len(context) \in 0..(Len(Prompt) + Count)
      /\ context \in [1..Len(context) -> Tokens]
  BY LenProperties, DecodingAssumption
<1> QED
  BY <1>1, TargetAssumption

\* Having read the anchor and i - 1 candidates, the target has read the
\* prompt, the tokens and those candidates.
LEMMA BlockContexts ==
  ASSUME tokens \in Seq(Tokens), tokens # <<>>,
         target = Prompt \o SubSeq(tokens, 1, Len(tokens) - 1),
         NEW candidates \in Seq(Tokens),
         NEW i \in 1..(Len(candidates) + 1)
  PROVE  target \o SubSeq(<<anchor>> \o candidates, 1, i)
           = Prompt \o tokens \o SubSeq(candidates, 1, i - 1)
<1> DEFINE front == SubSeq(tokens, 1, Len(tokens) - 1)
           last == <<anchor>>
           x == SubSeq(candidates, 1, i - 1)
<1>1. /\ Len(tokens) \in Nat \ {0} /\ Len(candidates) \in Nat
      /\ Prompt \in Seq(Tokens)
  BY EmptySeq, LenProperties, DecodingAssumption
<1>2. Len(tokens) - 1 \in 0..Len(tokens) /\ Len(tokens) \in 1..Len(tokens)
  BY <1>1
<1>3. front \in Seq(Tokens)
  BY <1>2, PrefixType
<1>4. anchor \in Tokens
  BY <1>2, ElementOfSeq DEF anchor
<1>5. last \in Seq(Tokens) /\ Len(last) = 1
  BY <1>4, SingletonSeq
<1>6. i - 1 \in 0..Len(candidates) /\ 1 + (i - 1) = i
  BY <1>1
<1>7. x \in Seq(Tokens)
  BY <1>6, PrefixType
<1>8. SubSeq(last \o candidates, 1, i) = last \o x
  <2>1. SubSeq(last \o candidates, 1, Len(last) + (i - 1)) = last \o x
    BY <1>5, <1>6, PrefixOfConcat
  <2> QED
    BY <1>5, <1>6, <2>1
<1>9. front \o last = tokens
  BY FrontAndLast DEF anchor
<1>10. target = Prompt \o front
  OBVIOUS
<1> HIDE DEF front, last, x
<1>11. (Prompt \o front) \o (last \o x) = ((Prompt \o front) \o last) \o x
  <2>1. Prompt \o front \in Seq(Tokens)
    BY <1>1, <1>3, ConcatProperties
  <2> QED
    BY <1>5, <1>7, <2>1, TokensAssociative, Zenon
<1>12. (Prompt \o front) \o last = Prompt \o (front \o last)
  BY <1>1, <1>3, <1>5, TokensAssociative, ZenonT(40)
<1>13. target \o SubSeq(last \o candidates, 1, i) = Prompt \o tokens \o x
  BY <1>8, <1>9, <1>10, <1>11, <1>12
<1> QED
  BY <1>13 DEF last, x

\* What a block commits: the accepted candidates are the target's choices, and
\* so is the token after them; the target keeps what precedes that token.
LEMMA VerifyLossless ==
  ASSUME Lossless, Verify
  PROVE  BlockFollowsTokens' /\ Counts(verification)'
<1> DEFINE c == proposal.candidates
           inputs == <<proposal.anchor>> \o c
           after == [i \in 1..Len(inputs) |-> target \o SubSeq(inputs, 1, i)]
           targets == [i \in 1..Len(inputs) |-> Target(after[i])]
           accepted == AcceptedPrefix(c, targets)
           bonus == targets[accepted + 1]
           more == SubSeq(c, 1, accepted) \o <<bonus>>
<1>1. /\ tokens \in Seq(Tokens) /\ tokens # <<>> /\ Len(tokens) < Count
      /\ c \in Seq(Nat)
      /\ target = Prompt \o SubSeq(tokens, 1, Len(tokens) - 1)
      /\ phase = "verify"
  BY DEF Lossless, TargetFollowsTokens, Verify
<1>2. /\ proposal.anchor = anchor
      /\ Len(c) <= MaxDraft
      /\ \A i \in DOMAIN c : c[i] \in Tokens
  BY DEF Verify, ValidProposal
<1>3. /\ Len(tokens) \in Nat \ {0} /\ Len(c) \in Nat
      /\ Count \in Nat /\ Prompt \in Seq(Tokens) /\ Len(Prompt) \in Nat
  BY <1>1, EmptySeq, LenProperties, DecodingAssumption
<1>4. Len(c) <= Count - Len(tokens) - 1
  BY <1>1, <1>2, <1>3, MaxDraftProperties
<1>5. c \in Seq(Tokens)
  <2>1. c \in [1..Len(c) -> Nat] /\ DOMAIN c = 1..Len(c)
    BY <1>1, LenProperties
  <2>2. c \in [1..Len(c) -> Tokens]
    BY <1>2, <2>1
  <2> QED
    BY <1>3, <2>2, SeqDef
<1>6. proposal.anchor \in Tokens
  <2>1. Len(tokens) \in 1..Len(tokens)
    BY <1>3
  <2> QED
    BY <1>1, <1>2, <2>1, ElementOfSeq DEF anchor
<1>7. Len(inputs) = Len(c) + 1
  BY <1>3, <1>5, <1>6, SingletonSeq, ConcatProperties
<1>8. ASSUME NEW i \in 1..(Len(c) + 1)
      PROVE  after[i] = Prompt \o tokens \o SubSeq(c, 1, i - 1)
  <2>1. after[i] = target \o SubSeq(inputs, 1, i)
    BY <1>7
  <2>2. target \o SubSeq(<<anchor>> \o c, 1, i)
          = Prompt \o tokens \o SubSeq(c, 1, i - 1)
    BY <1>1, <1>5, BlockContexts
  <2> QED
    BY <1>2, <2>1, <2>2
<1>9. /\ target' = after[accepted + 1]
      /\ verification'.committed = more
      /\ verification'.proposed = Len(c)
      /\ verification'.loads \in Nat
      /\ verification'.assignments \in Nat
      /\ tokens' = tokens
  <2>1. PICK loads \in IF config.expertMajor THEN 1..Len(inputs) ELSE {0} :
          verification' = [
            anchor |-> proposal.anchor,
            proposed |-> Len(c), accepted |-> accepted,
            committed |-> more,
            all |-> accepted = Len(c),
            evaluated |-> Evaluated(inputs, accepted),
            discarded |-> Evaluated(inputs, accepted) - (accepted + 1),
            loads |-> loads,
            assignments |-> IF config.expertMajor THEN Len(inputs) ELSE 0]
    BY DEF Verify
  <2>2. loads \in Nat /\ (IF config.expertMajor THEN Len(inputs) ELSE 0) \in Nat
    BY <1>3, <1>7
  <2> QED
    BY <2>1, <2>2 DEF Verify, Kept
<1>10. \A i \in 1..(Len(c) + 1) : targets[i] = Target(after[i])
  BY <1>7
<1> HIDE DEF inputs, after, targets
<1>11. accepted \in 0..Len(c) /\ Agrees(c, targets, accepted)
  BY <1>5, AcceptedPrefixProperties
<1> HIDE DEF accepted
<1>12. ASSUME NEW i \in 1..(accepted + 1)
       PROVE  targets[i] = Target(Prompt \o tokens \o SubSeq(c, 1, i - 1))
  <2>1. i \in 1..(Len(c) + 1)
    BY <1>3, <1>11
  <2> QED
    BY <1>8, <1>10, <2>1
<1> HIDE DEF c
<1>13. /\ SubSeq(c, 1, accepted) \in Seq(Tokens)
       /\ Len(SubSeq(c, 1, accepted)) = accepted
       /\ \A i \in 1..accepted : SubSeq(c, 1, accepted)[i] = c[i]
  BY <1>5, <1>11, PrefixType
<1>14. bonus \in Tokens
  <2> DEFINE context == Prompt \o tokens \o SubSeq(c, 1, accepted)
  <2>1. accepted + 1 \in 1..(accepted + 1) /\ (accepted + 1) - 1 = accepted
    BY <1>3, <1>11
  <2>2. bonus = Target(context)
    BY <1>12, <2>1
  <2>3. /\ Prompt \o tokens \in Seq(Tokens)
        /\ Len(Prompt \o tokens) = Len(Prompt) + Len(tokens)
    BY <1>1, <1>3, ConcatProperties
  <2>4. /\ context \in Seq(Tokens)
        /\ Len(context) = Len(Prompt) + Len(tokens) + accepted
    BY <1>13, <2>3, ConcatProperties
  <2>5. Len(context) <= Len(Prompt) + Count
    BY <1>3, <1>4, <1>11, <2>4
  <2> HIDE DEF context
  <2> QED
    BY <2>2, <2>4, <2>5, TargetType
<1> HIDE DEF bonus
<1>15. /\ more \in Seq(Tokens) /\ Len(more) = accepted + 1
       /\ \A i \in 1..(accepted + 1) :
            more[i] = IF i <= accepted THEN c[i] ELSE bonus
  <2> DEFINE first == SubSeq(c, 1, accepted)
             last == <<bonus>>
  <2>1. last \in Seq(Tokens) /\ Len(last) = 1 /\ last[1] = bonus
    BY <1>14, SingletonSeq
  <2>2. first \in Seq(Tokens) /\ Len(first) = accepted
        /\ \A i \in 1..accepted : first[i] = c[i]
    BY <1>13
  <2>3. more = first \o last
    OBVIOUS
  <2> HIDE DEF first, last, more
  <2>4. /\ more \in Seq(Tokens) /\ Len(more) = accepted + 1
        /\ \A i \in 1..(accepted + 1) :
             more[i] = IF i <= accepted THEN first[i] ELSE last[i - accepted]
    <3>1. /\ more \in Seq(Tokens) /\ Len(more) = Len(first) + Len(last)
          /\ \A i \in 1..(Len(first) + Len(last)) :
               more[i] = IF i <= Len(first) THEN first[i] ELSE last[i - Len(first)]
      BY <2>1, <2>2, <2>3, ConcatProperties
    <3> QED
      BY <2>1, <2>2, <3>1
  <2>5. \A i \in 1..(accepted + 1) :
          IF i <= accepted THEN i \in 1..accepted ELSE i - accepted = 1
    BY <1>3, <1>11
  <2> QED
    BY <2>1, <2>2, <2>4, <2>5
<1>16. \A j \in 0..accepted : SubSeq(more, 1, j) = SubSeq(c, 1, j)
  <2> TAKE j \in 0..accepted
  <2>1. <<bonus>> \in Seq(Tokens)
    BY <1>14, SingletonSeq
  <2>2. SubSeq(more, 1, j) = SubSeq(SubSeq(c, 1, accepted), 1, j)
    BY <1>13, <2>1, PrefixOfFirst
  <2>3. SubSeq(SubSeq(c, 1, accepted), 1, j) = SubSeq(c, 1, j)
    BY <1>5, <1>11, PrefixOfPrefix
  <2> QED
    BY <2>2, <2>3
<1> HIDE DEF more
<1>17. ASSUME NEW i \in 1..(accepted + 1)
       PROVE  more[i] = Target(Prompt \o tokens \o SubSeq(more, 1, i - 1))
  <2>1. i - 1 \in 0..accepted
    BY <1>3, <1>11
  <2>2. more[i] = targets[i]
    <3>1. CASE i <= accepted
      <4>1. i \in 1..accepted
        BY <1>3, <1>11, <3>1
      <4> QED
        BY <1>11, <1>15, <3>1, <4>1 DEF Agrees
    <3>2. CASE ~(i <= accepted)
      <4>1. i = accepted + 1
        BY <1>3, <1>11, <3>2
      <4> QED
        BY <1>15, <3>2, <4>1 DEF bonus
    <3> QED
      BY <3>1, <3>2
  <2> QED
    BY <1>12, <1>16, <2>1, <2>2
<1>18. more # <<>> /\ Len(more) <= Count - Len(tokens)
  BY <1>3, <1>4, <1>11, <1>15, EmptySeq
<1>19. target' = Prompt \o tokens \o SubSeq(more, 1, Len(more) - 1)
  <2>1. /\ accepted + 1 \in 1..(Len(c) + 1) /\ (accepted + 1) - 1 = accepted
        /\ accepted \in 0..accepted
    BY <1>3, <1>11
  <2>2. after[accepted + 1] = Prompt \o tokens \o SubSeq(c, 1, accepted)
    BY <1>8, <2>1
  <2> QED
    BY <1>9, <1>15, <1>16, <2>1, <2>2
<1>20. BlockFollowsTokens'
  BY <1>9, <1>15, <1>17, <1>18, <1>19 DEF BlockFollowsTokens, OwnContinuation
<1> QED
  BY <1>3, <1>9, <1>20 DEF Counts

-----------------------------------------------------------------------------
(* The invariant is inductive.                                             *)

LEMMA InitLossless == Init => Lossless
<1> SUFFICES ASSUME Init PROVE Lossless
  OBVIOUS
<1>1. /\ config \in Configs /\ phase = "prefill" /\ tokens = <<>>
      /\ scheduler = NewScheduler(config.adaptive)
  BY DEF Init
<1>2. config.adaptive \in BOOLEAN
  BY <1>1, DecodingAssumption
<1>3. scheduler \in Scheduler
  BY <1>1, <1>2, NewSchedulerType
<1>4. tokens \in Seq(Tokens) /\ Len(tokens) = 0
  BY <1>1, EmptySeq
<1>5. TokensAreGreedy
  BY <1>1, <1>4, DecodingAssumption, LenProperties DEF TokensAreGreedy
<1>6. TargetFollowsTokens
  BY <1>1 DEF TargetFollowsTokens
<1> QED
  BY <1>1, <1>3, <1>4, <1>5, <1>6 DEF Lossless, Phases

LEMMA PrefillLossless ==
  ASSUME Lossless, Prefill
  PROVE  Lossless'
<1>1. /\ target' = Prompt
      /\ tokens' = IF Count = 0 THEN <<>> ELSE <<Target(Prompt)>>
      /\ phase' = IF Len(tokens') < Count THEN "propose" ELSE "done"
      /\ config' = config /\ scheduler' = scheduler
  BY DEF Prefill, Continue, drafting
<1>2. /\ Prompt \in Seq(Tokens) /\ Len(Prompt) \in Nat /\ Count \in Nat
  BY DecodingAssumption, LenProperties
<1>3. SubSeq(tokens', 1, 0) = <<>> /\ Prompt \o <<>> = Prompt
  BY <1>2, SubSeqEmpty, ConcatEmptySeq
<1>4. /\ tokens' \in Seq(Tokens)
      /\ TokensAreGreedy'
      /\ target' = Prompt \o SubSeq(tokens', 1, Len(tokens') - 1)
      /\ phase' = "propose" => tokens' # <<>> /\ Len(tokens') < Count
  <2>1. CASE Count = 0
    <3>1. tokens' = <<>> /\ Len(tokens') = 0 /\ tokens' \in Seq(Tokens)
      BY <1>1, <2>1, EmptySeq
    <3>2. SubSeq(tokens', 1, 0 - 1) = <<>>
      BY SubSeqEmpty
    <3>3. DOMAIN tokens' = {}
      BY <3>1, LenProperties
    <3>4. TokensAreGreedy'
      BY <2>1, <3>1, <3>3 DEF TokensAreGreedy
    <3>5. phase' # "propose"
      BY <1>1, <2>1, <3>1
    <3>6. Len(tokens') - 1 = 0 - 1 /\ SubSeq(tokens', 1, Len(tokens') - 1) = <<>>
      BY <3>1, <3>2
    <3>7. target' = Prompt \o SubSeq(tokens', 1, Len(tokens') - 1)
      BY <1>1, <1>3, <3>6, Zenon
    <3> QED
      BY <3>1, <3>4, <3>5, <3>7, Zenon
  <2>2. CASE Count # 0
    <3> DEFINE first == Target(Prompt)
    <3>1. first \in Tokens
      BY <1>2, TargetType
    <3> HIDE DEF first
    <3>2. tokens' = <<first>>
      BY <1>1, <2>2 DEF first
    <3>3. tokens' \in Seq(Tokens) /\ Len(tokens') = 1 /\ tokens'[1] = first
      BY <3>1, <3>2, SingletonSeq
    <3>4. tokens' # <<>>
      BY <3>3, EmptySeq
    <3>5. DOMAIN tokens' = {1}
      BY <3>3, LenProperties
    <3>6. first = Target(Prompt \o SubSeq(tokens', 1, 0))
      BY <1>3 DEF first
    <3>7. TokensAreGreedy'
      BY <1>2, <2>2, <3>3, <3>5, <3>6 DEF TokensAreGreedy
    <3>8. Len(tokens') - 1 = 0
      BY <3>3
    <3>9. target' = Prompt \o SubSeq(tokens', 1, Len(tokens') - 1)
      BY <1>1, <1>3, <3>8, Zenon
    <3>10. phase' = "propose" => Len(tokens') < Count
      BY <1>1, Zenon
    <3> QED
      BY <3>3, <3>4, <3>7, <3>9, <3>10, Zenon
  <2> QED
    BY <2>1, <2>2
<1>5. TargetFollowsTokens'
  BY <1>4 DEF TargetFollowsTokens
<1> QED
  BY <1>1, <1>4, <1>5 DEF Lossless, Phases

\* A step that leaves the tokens and the target alone, and fails.
LEMMA FailureLossless ==
  ASSUME Lossless, phase' = "failed", UNCHANGED <<config, tokens, scheduler>>
  PROVE  Lossless'
  BY DEF Lossless, Phases, TokensAreGreedy, TargetFollowsTokens

\* A step from propose to verify.
LEMMA OfferLossless ==
  ASSUME Lossless, phase = "propose", phase' = "verify",
         UNCHANGED <<config, tokens, target>>, scheduler' \in Scheduler,
         proposal'.candidates \in Seq(Nat)
  PROVE  Lossless'
  BY DEF Lossless, Phases, TokensAreGreedy, TargetFollowsTokens

LEMMA ProposeLossless ==
  ASSUME Lossless, Propose
  PROVE  Lossless'
<1> DEFINE n == SelectedLength(scheduler, MaxDraft)
<1>1. ASSUME phase = "propose"
      PROVE  n \in Nat /\ AfterSelect(scheduler, MaxDraft) \in Scheduler
  <2>1. MaxDraft \in Nat
    BY <1>1, MaxDraftProperties DEF Lossless
  <2> HIDE DEF n
  <2>2. n \in {0} \cup Lengths
    BY <2>1, SelectedLengthProperties DEF Lossless, n
  <2> QED
    BY <2>1, <2>2, LadderProperties, AfterSelectType DEF Lossless
<1>2. ASSUME phase = "propose", NEW candidates \in [1..n -> Tokens],
             NEW pending, Offer(candidates, pending)
      PROVE  Lossless'
  <2>1. /\ phase' = "verify" /\ proposal'.candidates = candidates
        /\ scheduler' = AfterSelect(scheduler, MaxDraft)
        /\ UNCHANGED <<config, tokens, target>>
    BY <1>2 DEF Offer
  <2>2. n \in Nat /\ scheduler' \in Scheduler
    BY <1>1, <1>2, <2>1
  <2> HIDE DEF n
  <2>3. candidates \in Seq(Nat)
    <3>1. candidates \in [1..n -> Nat]
      BY DecodingAssumption
    <3> QED
      BY <2>2, <3>1, SeqDef
  <2> QED
    BY <1>2, <2>1, <2>2, <2>3, OfferLossless
<1>3. CASE ProposeReplay
  BY <1>2, <1>3 DEF ProposeReplay
<1>4. CASE ProposePersistent
  BY <1>2, <1>4 DEF ProposePersistent
<1>5. CASE ProposeScripted
  <2>1. proposal'.candidates \in Seq(Nat)
    BY <1>5, DecodingAssumption DEF ProposeScripted
  <2>2. /\ phase = "propose" /\ phase' = "verify"
        /\ UNCHANGED <<config, tokens, target>> /\ scheduler' = scheduler
    BY <1>5 DEF ProposeScripted, drafting
  <2>3. scheduler' \in Scheduler
    BY <2>2 DEF Lossless
  <2> QED
    BY <2>1, <2>2, <2>3, OfferLossless
<1>6. CASE ProposeRefused
  BY <1>6, FailureLossless DEF ProposeRefused, drafting
<1>7. CASE ProposeFault
  BY <1>7, FailureLossless DEF ProposeFault
<1> QED
  BY <1>3, <1>4, <1>5, <1>6, <1>7 DEF Propose

\* A block is emitted, and the scheduler keeps its type.
LEMMA UpdateLossless ==
  ASSUME Lossless, phase = "update", Emit, scheduler' \in Scheduler
  PROVE  Lossless'
<1>1. /\ tokens' \in Seq(Tokens) /\ tokens' # <<>>
      /\ TokensAreGreedy'
      /\ target' = Prompt \o SubSeq(tokens', 1, Len(tokens') - 1)
  BY EmitLossless DEF Lossless
<1>2. /\ phase' = IF Len(tokens') < Count THEN "propose" ELSE "done"
      /\ config' = config
  BY DEF Emit, Continue
<1>3. TargetFollowsTokens'
  BY <1>1 DEF TargetFollowsTokens
<1>4. config' \in Configs
  BY <1>2 DEF Lossless
<1> QED
  BY <1>1, <1>2, <1>3, <1>4 DEF Lossless, Phases

LEMMA NextLossless ==
  ASSUME Lossless, [Next]_vars
  PROVE  Lossless'
<1>1. CASE Prefill
  BY <1>1, PrefillLossless
<1>2. CASE TargetFault
  BY <1>2, FailureLossless DEF TargetFault, drafting
<1>3. CASE Propose
  BY <1>3, ProposeLossless
<1>4. CASE Verify
  <2>1. BlockFollowsTokens' /\ Counts(verification)'
    BY <1>4, VerifyLossless
  <2>2. /\ phase = "verify" /\ phase' = "update"
        /\ UNCHANGED <<config, tokens, scheduler>>
    BY <1>4 DEF Verify, drafting
  <2> QED
    BY <2>1, <2>2 DEF Lossless, Phases, TokensAreGreedy, TargetFollowsTokens
<1>5. CASE RejectProposal
  BY <1>5, FailureLossless DEF RejectProposal, drafting
<1>6. CASE Update
  <2>1. phase = "update" /\ Emit
    BY <1>6 DEF Update
  <2>2. \/ scheduler' = scheduler
        \/ /\ scheduler' = AfterObserve(scheduler, verification)
           /\ Observable(verification)
    BY <1>6 DEF Update
  <2>3. scheduler' \in Scheduler
    BY <2>1, <2>2, AfterObserveType DEF Lossless, Counts
  <2> QED
    BY <2>1, <2>3, UpdateLossless
<1>7. CASE UpdateFault
  <2>1. phase = "update" /\ Emit /\ scheduler' \in Scheduler
    BY <1>7 DEF UpdateFault, Lossless
  <2> QED
    BY <2>1, UpdateLossless
<1>8. CASE UpdateScripted
  <2>1. phase = "update" /\ Emit /\ scheduler' \in Scheduler
    BY <1>8 DEF UpdateScripted, drafting, Lossless
  <2> QED
    BY <2>1, UpdateLossless
<1>9. CASE UNCHANGED vars
  BY <1>9 DEF vars, generation, drafting, Lossless, BlockFollowsTokens,
              OwnContinuation, Counts, TokensAreGreedy, TargetFollowsTokens
<1> QED
  BY <1>1, <1>2, <1>3, <1>4, <1>5, <1>6, <1>7, <1>8, <1>9
     DEF Next, Step, Returned

LEMMA AlwaysLossless == Spec => []Lossless
<1> QED
  BY InitLossless, NextLossless, PTL DEF Spec

-----------------------------------------------------------------------------
(* The theorems.                                                           *)

\* The tokens generate_speculative returns, and those it had when it failed,
\* are the ones the target model chooses greedily.
THEOREM OutputIsGreedy == Spec => []TokensAreGreedy
<1>1. Lossless => TokensAreGreedy
  BY DEF Lossless
<1> QED
  BY <1>1, AlwaysLossless, PTL

\* After every block the target model has read exactly the prompt and the
\* generated tokens but the last: a rejected candidate leaves no trace.
THEOREM TargetInStep == Spec => []TargetFollowsTokens
<1>1. Lossless => TargetFollowsTokens
  BY DEF Lossless
<1> QED
  BY <1>1, AlwaysLossless, PTL

-----------------------------------------------------------------------------
(* Every step is one of plain greedy decoding, or none.                    *)

LEMMA GreedyEmit ==
  ASSUME phase # "failed", phase' # "failed", tokens \in Seq(Tokens),
         NEW more \in Seq(Tokens), more # <<>>,
         Len(more) <= Count - Len(tokens),
         OwnContinuation(more), tokens' = tokens \o more
  PROVE  Greedy!Emit
<1>1. /\ Len(more) \in Nat \ {0} /\ Len(tokens) \in Nat /\ Count \in Nat
      /\ DOMAIN more = 1..Len(more) /\ more \in [1..Len(more) -> Tokens]
  BY EmptySeq, LenProperties, DecodingAssumption
<1>2. Len(more) \in 1..(Count - Len(tokens))
  BY <1>1
<1>3. Greedy!Continues(more)
  BY <1>1 DEF Greedy!Continues, OwnContinuation
<1>4. \E n \in 1..(Count - Len(tokens)) :
        \E m \in [1..n -> Tokens] : Greedy!Continues(m) /\ tokens' = tokens \o m
  BY <1>1, <1>2, <1>3
<1> QED
  BY <1>4 DEF Greedy!Emit

LEMMA UpdateRefines ==
  ASSUME Lossless, phase = "update", Emit
  PROVE  Greedy!Emit
<1> DEFINE more == verification.committed
<1>1. /\ more \in Seq(Tokens) /\ more # <<>>
      /\ Len(more) <= Count - Len(tokens)
      /\ OwnContinuation(more)
      /\ tokens \in Seq(Tokens)
  BY DEF Lossless, BlockFollowsTokens
<1>2. tokens' = tokens \o more /\ phase' # "failed"
  BY DEF Emit, Continue
<1> HIDE DEF more
<1> QED
  BY <1>1, <1>2, GreedyEmit

LEMMA PrefillRefines ==
  ASSUME Lossless, Prefill
  PROVE  Greedy!Emit \/ UNCHANGED Greedy!greedyVars
<1>1. /\ phase = "prefill" /\ phase' # "failed" /\ tokens = <<>>
      /\ tokens' = IF Count = 0 THEN <<>> ELSE <<Target(Prompt)>>
  BY DEF Prefill, Continue, Lossless
<1>2. CASE Count = 0
  BY <1>1, <1>2 DEF Greedy!greedyVars
<1>3. CASE Count # 0
  <2> DEFINE first == Target(Prompt)
             more == <<first>>
  <2>1. Prompt \in Seq(Tokens) /\ Len(Prompt) \in Nat /\ Count \in Nat
    BY LenProperties, DecodingAssumption
  <2>2. first \in Tokens
    BY <2>1, TargetType
  <2> HIDE DEF first
  <2>3. more \in Seq(Tokens) /\ Len(more) = 1 /\ more[1] = first
    BY <2>2, SingletonSeq
  <2>4. tokens \in Seq(Tokens) /\ Len(tokens) = 0
    BY <1>1, EmptySeq
  <2>5. tokens' = more
    BY <1>1, <1>3 DEF first
  <2> HIDE DEF more
  <2>6. SubSeq(more, 1, 1 - 1) = <<>>
    BY SubSeqEmpty
  <2>7. Prompt \o tokens = Prompt /\ Prompt \o <<>> = Prompt
    BY <1>1, <2>1, ConcatEmptySeq
  <2>8. more[1] = Target(Prompt \o tokens \o SubSeq(more, 1, 1 - 1))
    BY <2>3, <2>6, <2>7, Zenon DEF first
  <2>9. \A i \in 1..Len(more) : i = 1
    BY <2>3
  <2>10. OwnContinuation(more)
    BY <2>8, <2>9, Zenon DEF OwnContinuation
  <2>11. tokens' = tokens \o more
    BY <1>1, <2>3, <2>5, ConcatEmptySeq
  <2>12. more # <<>> /\ Len(more) <= Count - Len(tokens)
    BY <1>3, <2>1, <2>3, <2>4, EmptySeq
  <2> QED
    BY <1>1, <2>3, <2>4, <2>10, <2>11, <2>12, GreedyEmit
<1> QED
  BY <1>2, <1>3

LEMMA NextRefines ==
  ASSUME Lossless, [Next]_vars
  PROVE  [Greedy!Next]_(Greedy!greedyVars)
<1>1. CASE Prefill
  BY <1>1, PrefillRefines DEF Greedy!Next
<1>2. CASE phase = "update" /\ Emit
  BY <1>2, UpdateRefines DEF Greedy!Next
<1>3. CASE /\ phase \in {"prefill", "propose", "verify"} /\ phase' = "failed"
           /\ UNCHANGED tokens
  <2>1. Len(tokens) < Count \/ tokens = <<>>
    BY <1>3 DEF Lossless
  <2>2. Greedy!Fail
    BY <1>3, <2>1 DEF Greedy!Fail
  <2> QED
    BY <2>2 DEF Greedy!Next
<1>4. CASE phase # "failed" /\ phase' # "failed" /\ UNCHANGED tokens
  BY <1>4 DEF Greedy!greedyVars
<1>5. CASE UNCHANGED vars
  BY <1>5 DEF vars, generation, Greedy!greedyVars
<1>6. ASSUME Next
      PROVE  \/ Prefill
             \/ phase = "update" /\ Emit
             \/ /\ phase \in {"prefill", "propose", "verify"} /\ phase' = "failed"
                /\ UNCHANGED tokens
             \/ phase # "failed" /\ phase' # "failed" /\ UNCHANGED tokens
             \/ UNCHANGED vars
  <2>1. CASE Propose
    BY <2>1 DEF Propose, ProposeReplay, ProposePersistent, ProposeScripted,
                ProposeRefused, ProposeFault, Offer
  <2>2. CASE Verify \/ RejectProposal \/ TargetFault
    BY <2>2 DEF Verify, RejectProposal, TargetFault
  <2>3. CASE Update \/ UpdateFault \/ UpdateScripted
    BY <2>3 DEF Update, UpdateFault, UpdateScripted
  <2> QED
    BY <1>6, <2>1, <2>2, <2>3 DEF Next, Step, Returned
<1> QED
  BY <1>1, <1>2, <1>3, <1>4, <1>5, <1>6

\* Whatever the provider, the block policy, the verification mode and the
\* faults, a speculative generation is one plain greedy decoding could make:
\* tokens appear in the target's own order and are never taken back.
THEOREM RefinesGreedyDecoding == Spec => Greedy!SafeSpec
<1>1. Init => Greedy!Init
  BY DEF Init, Greedy!Init
<1> QED
  BY <1>1, NextRefines, AlwaysLossless, PTL DEF Spec, Greedy!SafeSpec

-----------------------------------------------------------------------------
(* The invariant of the agreement between the loop and its provider.        *)

\* A provider that has not been asked for anything.
Pristine ==
  /\ ~provider.error /\ ~provider.pending /\ ~provider.initialized
  /\ ~provider.cursorPending /\ ~cursor.exists

\* Between blocks a provider without an error expects the committed tokens, and
\* its cursor is the one that would have been created for them.
InStep ==
  ~provider.error =>
    /\ ~provider.pending
    /\ provider.initialized => provider.expected = tokens
    /\ cursor.exists => cursor = CursorAt(Prompt \o tokens)

\* The block a provider has drafted and not yet been told the verdict of.
Pending ==
  LET c == provider.candidates IN
  /\ provider.pending /\ provider.initialized /\ ~provider.error
  /\ provider.expected = tokens /\ provider.anchor = anchor
  /\ c \in Seq(Tokens)
  /\ Len(c) \in {0} \cup Lengths /\ Len(c) <= MaximumLength /\ Len(c) <= MaxDraft
  /\ Drafted(model, CursorAt(Prompt \o tokens), c)
  /\ provider.cursorPending = cursor.exists
  /\ cursor.exists => cursor = Proposed(CursorAt(Prompt \o tokens), c)
  /\ Len(c) = 0 /\ ~config.adaptive => Len(tokens) = Count - 1

\* The verdict on a pending block, as its provider reads it.
Verdict(v, c) ==
  /\ v.anchor = anchor /\ v.proposed = Len(c)
  /\ v.accepted \in 0..Len(c)
  /\ v.all <=> v.accepted = v.proposed
  /\ Len(v.committed) = v.accepted + 1
  /\ \A i \in 1..v.accepted : v.committed[i] = c[i]
  /\ v.evaluated \in Nat /\ v.discarded \in Nat /\ v.discarded <= v.evaluated
  /\ v.loads \in Nat /\ v.assignments \in Nat /\ v.loads <= v.assignments
  /\ ~config.expertMajor => v.loads = 0 /\ v.assignments = 0

Refusable == config.expertMajor /\ config.adaptive

Agreement ==
  /\ scheduler.adaptive = config.adaptive
  /\ ~config.adaptive => scheduler.cap = {}
  /\ config.provider # "persistent" => ~cursor.exists
  /\ config.provider = "scripted" \/ phase = "prefill" => Pristine
  /\ phase = "propose" => InStep
  /\ phase = "propose" /\ provider.error => faulty \/ Refusable
  /\ config.provider # "scripted" /\ phase = "verify" =>
       /\ Pending
       /\ proposal = [anchor |-> anchor, candidates |-> provider.candidates]
  /\ config.provider # "scripted" /\ phase = "update" =>
       Pending /\ Verdict(verification, provider.candidates)
  /\ FailsOnlyOnFault

-----------------------------------------------------------------------------
(* The draft cursor through a proposal and the commit of a prefix.          *)

LEMMA CursorAtType ==
  ASSUME NEW context \in Seq(Tokens)
  PROVE  CursorAt(context) \in Cursor
<1>1. <<>> \in Seq(Tokens) /\ <<>> \in Seq(Checkpoint)
  BY EmptySeq
<1> QED
  BY <1>1 DEF CursorAt, Cursor

\* The candidates a proposal reads: all but the last.
LEMMA ReadsProperties ==
  ASSUME NEW c \in Seq(Tokens)
  PROVE  LET reads == SubSeq(c, 1, Len(c) - 1) IN
         /\ reads \in Seq(Tokens)
         /\ Len(reads) = IF Len(c) = 0 THEN 0 ELSE Len(c) - 1
         /\ \A n \in 0..Len(reads) : SubSeq(reads, 1, n) = SubSeq(c, 1, n)
<1> DEFINE reads == SubSeq(c, 1, Len(c) - 1)
<1>1. Len(c) \in Nat
  BY LenProperties
<1>2. CASE Len(c) = 0
  <2>1. reads = <<>>
    BY <1>2, SubSeqEmpty
  <2>2. reads \in Seq(Tokens) /\ Len(reads) = 0
    BY <2>1, EmptySeq
  <2>3. c = <<>>
    BY <1>2, EmptySeq
  <2>4. reads = c
    BY <2>1, <2>3
  <2> HIDE DEF reads
  <2> QED
    BY <1>2, <2>2, <2>4 DEF reads
<1>3. CASE Len(c) # 0
  <2>1. Len(c) - 1 \in 0..Len(c)
    BY <1>1, <1>3
  <2>2. reads \in Seq(Tokens) /\ Len(reads) = Len(c) - 1
    BY <2>1, PrefixType
  <2>3. \A n \in 0..(Len(c) - 1) : SubSeq(reads, 1, n) = SubSeq(c, 1, n)
    BY <2>1, PrefixOfPrefix
  <2> HIDE DEF reads
  <2> QED
    BY <1>3, <2>2, <2>3 DEF reads
<1> QED
  BY <1>2, <1>3

\* A context extended by the first n candidates that were read.
ReadTo(context, c, n) == context \o SubSeq(SubSeq(c, 1, Len(c) - 1), 1, n)

LEMMA ReadToProperties ==
  ASSUME NEW context \in Seq(Tokens), NEW c \in Seq(Tokens),
         NEW n \in 0..Len(SubSeq(c, 1, Len(c) - 1))
  PROVE  /\ ReadTo(context, c, n) \in Seq(Tokens)
         /\ ReadTo(context, c, n) = context \o SubSeq(c, 1, n)
         /\ Len(ReadTo(context, c, n)) = Len(context) + n
<1> DEFINE reads == SubSeq(c, 1, Len(c) - 1)
           part == SubSeq(reads, 1, n)
<1>1. reads \in Seq(Tokens) /\ part = SubSeq(c, 1, n)
  BY ReadsProperties
<1> HIDE DEF reads
<1>2. part \in Seq(Tokens) /\ Len(part) = n
  <2>1. n \in 0..Len(reads)
    BY DEF reads
  <2> QED
    BY <1>1, <2>1, PrefixType
<1>3. ReadTo(context, c, n) = context \o part
  BY DEF ReadTo, reads
<1> HIDE DEF part
<1> QED
  BY <1>1, <1>2, <1>3, ConcatProperties

\* The cursor of a proposal, field by field.
LEMMA ProposedCursor ==
  ASSUME NEW context \in Seq(Tokens), NEW c \in Seq(Tokens)
  PROVE  LET last == Len(SubSeq(c, 1, Len(c) - 1)) IN
         Proposed(CursorAt(context), c) =
           [exists |-> TRUE, kda |-> ReadTo(context, c, last),
            mla |-> ReadTo(context, c, last), logits |-> ReadTo(context, c, last),
            candidates |-> c,
            checkpoints |-> [j \in 1..(last + 1) |->
                               [kda |-> ReadTo(context, c, j - 1),
                                length |-> Len(context) + j - 1,
                                logits |-> ReadTo(context, c, j - 1)]],
            pending |-> TRUE, failed |-> FALSE]
<1> DEFINE reads == SubSeq(c, 1, Len(c) - 1)
           last == Len(reads)
           start == CursorAt(context)
           LogitsAfter(i) ==
             IF i = 0 THEN start.logits ELSE start.kda \o SubSeq(reads, 1, i)
           checkpoints == [j \in 1..(last + 1) |->
                             [kda |-> start.kda \o SubSeq(reads, 1, j - 1),
                              length |-> Len(start.mla) + j - 1,
                              logits |-> LogitsAfter(j - 1)]]
<1>1. start.kda = context /\ start.mla = context /\ start.logits = context
  BY DEF CursorAt
<1>2. reads \in Seq(Tokens) /\ last \in Nat
  BY ReadsProperties, LenProperties
<1>3. \A i \in 0..last : LogitsAfter(i) = ReadTo(context, c, i)
  <2> TAKE i \in 0..last
  <2>1. CASE i = 0
    <3>1. SubSeq(reads, 1, i) = <<>>
      BY <2>1, SubSeqEmpty
    <3>2. context \o SubSeq(reads, 1, i) = context
      BY <3>1, ConcatEmptySeq
    <3> QED
      BY <1>1, <2>1, <3>2 DEF ReadTo
  <2>2. CASE i # 0
    BY <1>1, <2>2 DEF ReadTo
  <2> QED
    BY <2>1, <2>2
<1>4. context \o reads = ReadTo(context, c, last)
  <2>1. SubSeq(reads, 1, last) = reads
    BY <1>2, SubSeqFull
  <2> QED
    BY <2>1 DEF ReadTo
<1>5. checkpoints = [j \in 1..(last + 1) |->
                       [kda |-> ReadTo(context, c, j - 1),
                        length |-> Len(context) + j - 1,
                        logits |-> ReadTo(context, c, j - 1)]]
  <2>1. \A j \in 1..(last + 1) : j - 1 \in 0..last
    BY <1>2
  <2>2. \A j \in 1..(last + 1) :
          start.kda \o SubSeq(reads, 1, j - 1) = ReadTo(context, c, j - 1)
    BY <1>1 DEF ReadTo
  <2> QED
    BY <1>1, <1>3, <2>1, <2>2
<1>6. Proposed(start, c) =
        [start EXCEPT !.kda = context \o reads, !.mla = context \o reads,
                      !.logits = LogitsAfter(last), !.candidates = c,
                      !.checkpoints = checkpoints, !.pending = TRUE]
  BY <1>1 DEF Proposed, CursorAt
<1>7. LogitsAfter(last) = ReadTo(context, c, last)
  <2>1. last \in 0..last
    BY <1>2
  <2> HIDE DEF LogitsAfter, last
  <2> QED
    BY <1>3, <2>1
<1> HIDE DEF LogitsAfter, checkpoints, reads
<1> QED
  BY <1>4, <1>5, <1>6, <1>7 DEF CursorAt, reads

LEMMA ProposedFields ==
  ASSUME NEW context \in Seq(Tokens), NEW c \in Seq(Tokens)
  PROVE  /\ Proposed(CursorAt(context), c).pending
         /\ ~Proposed(CursorAt(context), c).failed
         /\ Proposed(CursorAt(context), c).candidates = c
<1> DEFINE last == Len(SubSeq(c, 1, Len(c) - 1))
           end == ReadTo(context, c, last)
           checkpoints == [j \in 1..(last + 1) |->
                             [kda |-> ReadTo(context, c, j - 1),
                              length |-> Len(context) + j - 1,
                              logits |-> ReadTo(context, c, j - 1)]]
           p == Proposed(CursorAt(context), c)
<1>1. p = [exists |-> TRUE, kda |-> end, mla |-> end, logits |-> end,
           candidates |-> c, checkpoints |-> checkpoints,
           pending |-> TRUE, failed |-> FALSE]
  BY ProposedCursor
<1> HIDE DEF p, end, checkpoints
<1>2. p.pending /\ ~p.failed /\ p.candidates = c
  BY <1>1
<1> QED
  BY <1>2 DEF p

LEMMA ProposedType ==
  ASSUME NEW context \in Seq(Tokens), NEW c \in Seq(Tokens)
  PROVE  Proposed(CursorAt(context), c) \in Cursor
<1> DEFINE last == Len(SubSeq(c, 1, Len(c) - 1))
           end == ReadTo(context, c, last)
           checkpoints == [j \in 1..(last + 1) |->
                             [kda |-> ReadTo(context, c, j - 1),
                              length |-> Len(context) + j - 1,
                              logits |-> ReadTo(context, c, j - 1)]]
<1>1. last \in Nat /\ Len(context) \in Nat
  BY ReadsProperties, LenProperties
<1>2. end \in Seq(Tokens)
  BY <1>1, ReadToProperties
<1>3. checkpoints \in Seq(Checkpoint)
  <2>1. ASSUME NEW j \in 1..(last + 1)
        PROVE  checkpoints[j] \in Checkpoint
    <3>1. j - 1 \in 0..last /\ Len(context) + j - 1 \in Nat
      BY <1>1
    <3>2. ReadTo(context, c, j - 1) \in Seq(Tokens)
      BY <3>1, ReadToProperties
    <3> QED
      BY <3>1, <3>2 DEF Checkpoint
  <2>2. checkpoints \in [1..(last + 1) -> Checkpoint]
    BY <2>1
  <2>3. last + 1 \in Nat
    BY <1>1
  <2> HIDE DEF checkpoints, last
  <2> QED
    BY <2>2, <2>3, SeqDef
<1>4. Proposed(CursorAt(context), c) =
        [exists |-> TRUE, kda |-> end, mla |-> end, logits |-> end,
         candidates |-> c, checkpoints |-> checkpoints,
         pending |-> TRUE, failed |-> FALSE]
  BY ProposedCursor
<1> HIDE DEF last, end, checkpoints
<1> QED
  BY <1>2, <1>3, <1>4 DEF Cursor

\* What a commit appends to: the state after the accepted candidates.
LEMMA CaughtUpCursor ==
  ASSUME NEW context \in Seq(Tokens), NEW c \in Seq(Tokens),
         NEW accepted \in 0..Len(c)
  PROVE  LET x == CaughtUp(RolledBack(Proposed(CursorAt(context), c), accepted),
                           accepted)
             read == context \o SubSeq(c, 1, accepted)
         IN
         \E logits, checkpoints :
           x = [exists |-> TRUE, kda |-> read, mla |-> read, logits |-> logits,
                candidates |-> c, checkpoints |-> checkpoints,
                pending |-> TRUE, failed |-> FALSE]
<1> DEFINE reads == SubSeq(c, 1, Len(c) - 1)
           last == Len(reads)
           end == ReadTo(context, c, last)
           read == context \o SubSeq(c, 1, accepted)
           checkpoints == [j \in 1..(last + 1) |->
                             [kda |-> ReadTo(context, c, j - 1),
                              length |-> Len(context) + j - 1,
                              logits |-> ReadTo(context, c, j - 1)]]
           p == Proposed(CursorAt(context), c)
           r == RolledBack(p, accepted)
<1>1. /\ Len(c) \in Nat /\ last = (IF Len(c) = 0 THEN 0 ELSE Len(c) - 1)
      /\ Len(context) \in Nat
  BY ReadsProperties, LenProperties
<1>2. p = [exists |-> TRUE, kda |-> end, mla |-> end, logits |-> end,
           candidates |-> c, checkpoints |-> checkpoints,
           pending |-> TRUE, failed |-> FALSE]
  BY ProposedCursor
<1>3. p.candidates = c /\ p.kda = end /\ p.mla = end /\ p.checkpoints = checkpoints
  BY <1>2
<1>4. \A n \in 0..last :
        /\ ReadTo(context, c, n) \in Seq(Tokens)
        /\ ReadTo(context, c, n) = context \o SubSeq(c, 1, n)
        /\ Len(ReadTo(context, c, n)) = Len(context) + n
  BY ReadToProperties
<1>5. last \in 0..last
  BY <1>1
<1>6. end = context \o SubSeq(c, 1, last) /\ end \in Seq(Tokens)
  BY <1>4, <1>5
<1>7. ASSUME accepted < Len(c) - 1
      PROVE  CaughtUp(r, accepted) =
               [exists |-> TRUE, kda |-> read, mla |-> read,
                logits |-> ReadTo(context, c, accepted),
                candidates |-> c, checkpoints |-> checkpoints,
                pending |-> TRUE, failed |-> FALSE]
  <2> DEFINE point == checkpoints[accepted + 1]
             back == ReadTo(context, c, accepted)
  <2>1. /\ accepted \in 0..last /\ accepted + 1 \in 1..(last + 1)
        /\ (accepted + 1) - 1 = accepted
        /\ Len(context) + (accepted + 1) - 1 = Len(context) + accepted
    BY <1>1, <1>7
  <2>2. /\ point.kda = back /\ point.logits = back
        /\ point.length = Len(context) + accepted
    BY <2>1
  <2>3. back = read /\ back \in Seq(Tokens)
    BY <1>4, <2>1
  <2>4. SubSeq(end, 1, Len(context) + accepted) = back
    <3>1. reads \in Seq(Tokens)
      BY ReadsProperties
    <3>2. SubSeq(reads, 1, last) = reads
      BY <3>1, SubSeqFull
    <3>3. end = context \o reads
      BY <3>2 DEF ReadTo
    <3>4. accepted \in 0..Len(reads)
      BY <2>1
    <3> HIDE DEF reads, last, end
    <3>5. SubSeq(context \o reads, 1, Len(context) + accepted)
            = context \o SubSeq(reads, 1, accepted)
      BY <3>1, <3>4, PrefixOfConcat
    <3> QED
      BY <3>3, <3>5 DEF ReadTo, reads
  <2> HIDE DEF point, back, checkpoints, end, read, p, last, reads
  <2>5. r = Restored(p, p.checkpoints[accepted + 1])
    BY <1>3, <1>7 DEF RolledBack
  <2>6. r = [p EXCEPT !.kda = point.kda, !.mla = SubSeq(p.mla, 1, point.length),
                      !.logits = point.logits]
    BY <1>3, <2>5 DEF Restored, point
  <2>7. r = [exists |-> TRUE, kda |-> read, mla |-> read, logits |-> back,
             candidates |-> c, checkpoints |-> checkpoints,
             pending |-> TRUE, failed |-> FALSE]
    <3>1. SubSeq(p.mla, 1, point.length) = read
      BY <1>3, <2>2, <2>3, <2>4
    <3>2. point.kda = read /\ point.logits = back
      BY <2>2, <2>3
    <3>3. r = [p EXCEPT !.kda = read, !.mla = read, !.logits = back]
      BY <2>6, <3>1, <3>2
    <3> HIDE DEF r
    <3> QED
      BY <1>2, <3>3
  <2>8. accepted # Len(c) /\ r.candidates = c
    BY <1>1, <1>7, <2>7
  <2>9. CaughtUp(r, accepted) = r
    BY <2>8 DEF CaughtUp
  <2> QED
    BY <2>7, <2>9 DEF back
<1>8. ASSUME accepted = Len(c) - 1 \/ Len(c) = 0
      PROVE  CaughtUp(r, accepted) =
               [exists |-> TRUE, kda |-> read, mla |-> read, logits |-> end,
                candidates |-> c, checkpoints |-> checkpoints,
                pending |-> TRUE, failed |-> FALSE]
  <2>1. /\ accepted = last /\ ~(accepted < Len(c) - 1)
        /\ ~(accepted = Len(c) /\ accepted # 0)
    BY <1>1, <1>8
  <2> HIDE DEF checkpoints, last, p
  <2>2. end = read
    BY <1>6, <2>1
  <2> HIDE DEF end, read
  <2>3. r = p
    BY <1>3, <2>1 DEF RolledBack
  <2>4. CaughtUp(r, accepted) = r
    BY <1>3, <2>1, <2>3 DEF CaughtUp
  <2> QED
    BY <1>2, <2>2, <2>3, <2>4
<1>9. ASSUME accepted = Len(c), Len(c) # 0
      PROVE  CaughtUp(r, accepted) =
               [exists |-> TRUE, kda |-> read, mla |-> read,
                logits |-> Append(end, c[accepted]),
                candidates |-> c, checkpoints |-> checkpoints,
                pending |-> TRUE, failed |-> FALSE]
  <2>1. ~(accepted < Len(c) - 1) /\ last = Len(c) - 1 /\ accepted # 0
    BY <1>1, <1>9
  <2>2. c[accepted] \in Tokens
    <3>1. Len(c) \in 1..Len(c)
      BY <1>1, <1>9
    <3> QED
      BY <1>9, <3>1, ElementOfSeq
  <2>3. Append(end, c[accepted]) = read
    <3> DEFINE front == SubSeq(c, 1, Len(c) - 1)
               token == <<c[Len(c)]>>
    <3>1. front \o token = c /\ SubSeq(c, 1, Len(c)) = c
      <4>1. c # <<>>
        BY <1>9, EmptySeq
      <4> QED
        BY <4>1, FrontAndLast, SubSeqFull
    <3>2. token \in Seq(Tokens) /\ front \in Seq(Tokens)
      BY <1>9, <2>2, SingletonSeq, ReadsProperties
    <3>3. end = context \o front
      BY <1>6, <2>1
    <3>4. Append(end, c[accepted]) = end \o token
      BY <1>6, <1>9, <2>2, AppendIsConcat
    <3>5. read = context \o c
      BY <1>9, <3>1
    <3> HIDE DEF front, token, end, read
    <3>6. (context \o front) \o token = context \o (front \o token)
      BY <3>2, TokensAssociative, Zenon
    <3> QED
      BY <3>1, <3>3, <3>4, <3>5, <3>6
  <2> HIDE DEF checkpoints, last, p, end, read
  <2>4. r = p
    BY <1>3, <2>1 DEF RolledBack
  <2>5. CaughtUp(r, accepted) = Forward(p, c[accepted])
    BY <1>3, <1>9, <2>1, <2>4 DEF CaughtUp
  <2>6. Forward(p, c[accepted]) =
          [p EXCEPT !.kda = Append(end, c[accepted]),
                    !.mla = Append(end, c[accepted]),
                    !.logits = Append(end, c[accepted])]
    BY <1>3 DEF Forward
  <2> QED
    BY <1>2, <2>3, <2>5, <2>6
<1>10. \/ accepted < Len(c) - 1
       \/ accepted = Len(c) - 1 \/ Len(c) = 0
       \/ accepted = Len(c) /\ Len(c) # 0
  BY <1>1
<1> HIDE DEF checkpoints, last, end, read, r, p
<1>11. \E logits, more :
         CaughtUp(r, accepted) =
           [exists |-> TRUE, kda |-> read, mla |-> read, logits |-> logits,
            candidates |-> c, checkpoints |-> more,
            pending |-> TRUE, failed |-> FALSE]
  BY <1>7, <1>8, <1>9, <1>10, Zenon
<1> QED
  BY <1>11 DEF r, p, read

\* Whatever prefix of a block is accepted, the commit leaves the cursor that
\* would have been created for the context and the committed tokens.
LEMMA CommitFollows ==
  ASSUME NEW context \in Seq(Tokens), NEW c \in Seq(Tokens),
         NEW accepted \in 0..Len(c), NEW committed \in Seq(Tokens),
         Len(committed) = accepted + 1,
         \A i \in 1..accepted : committed[i] = c[i]
  PROVE  Committed(Proposed(CursorAt(context), c), accepted, committed)
           = CursorAt(context \o committed)
<1> DEFINE x == CaughtUp(RolledBack(Proposed(CursorAt(context), c), accepted),
                         accepted)
           part == SubSeq(c, 1, accepted)
           read == context \o part
           next == committed[accepted + 1]
           last == <<next>>
<1>1. PICK logits, checkpoints :
        x = [exists |-> TRUE, kda |-> read, mla |-> read, logits |-> logits,
             candidates |-> c, checkpoints |-> checkpoints,
             pending |-> TRUE, failed |-> FALSE]
  BY CaughtUpCursor
<1>2. /\ accepted \in Nat /\ accepted + 1 \in 1..Len(committed)
      /\ (accepted + 1) - 1 = accepted
  BY LenProperties
<1>3. next \in Tokens
  BY <1>2, ElementOfSeq
<1>4. last \in Seq(Tokens)
  BY <1>3, SingletonSeq
<1>5. part \in Seq(Tokens)
  BY PrefixType
<1>6. read \in Seq(Tokens)
  BY <1>5, ConcatProperties
<1>7. part \o last = committed
  <2>1. SubSeq(committed, 1, accepted) = part
    <3>1. accepted \in 0..Len(committed)
      BY <1>2
    <3>2. /\ SubSeq(committed, 1, accepted) \in Seq(Tokens)
          /\ Len(SubSeq(committed, 1, accepted)) = accepted
          /\ \A i \in 1..accepted : SubSeq(committed, 1, accepted)[i] = committed[i]
      BY <3>1, PrefixType
    <3>3. /\ Len(part) = accepted
          /\ \A i \in 1..accepted : part[i] = c[i]
      BY PrefixType
    <3> HIDE DEF part
    <3> QED
      BY <1>5, <3>2, <3>3, SeqEqual
  <2>2. committed # <<>>
    BY <1>2, EmptySeq
  <2> HIDE DEF part
  <2> QED
    BY <1>2, <2>1, <2>2, FrontAndLast
<1>8. Append(read, next) = context \o committed
  <2>1. Append(read, next) = read \o last
    BY <1>3, <1>6, AppendIsConcat
  <2>2. (context \o part) \o last = context \o (part \o last)
    BY <1>4, <1>5, TokensAssociative, ZenonT(40)
  <2> QED
    BY <1>7, <2>1, <2>2
<1>9. Committed(Proposed(CursorAt(context), c), accepted, committed) =
        [Forward(x, next) EXCEPT !.pending = FALSE, !.candidates = <<>>,
                                 !.checkpoints = <<>>]
  BY DEF Committed
<1> HIDE DEF x, read, next
<1> DEFINE end == Append(read, next)
<1>10. Forward(x, next) = [x EXCEPT !.kda = end, !.mla = end, !.logits = end]
  <2>1. x.kda = read /\ x.mla = read
    BY <1>1
  <2> QED
    BY <2>1 DEF Forward
<1>11. end = context \o committed
  BY <1>8
<1> HIDE DEF end
<1>12. Forward(x, next) =
         [exists |-> TRUE, kda |-> end, mla |-> end, logits |-> end,
          candidates |-> c, checkpoints |-> checkpoints,
          pending |-> TRUE, failed |-> FALSE]
  BY <1>1, <1>10
<1> DEFINE forward == Forward(x, next)
           after == Committed(Proposed(CursorAt(context), c), accepted, committed)
<1>13. after = [forward EXCEPT !.pending = FALSE, !.candidates = <<>>,
                               !.checkpoints = <<>>]
  BY <1>9
<1>14. forward =
         [exists |-> TRUE, kda |-> end, mla |-> end, logits |-> end,
          candidates |-> c, checkpoints |-> checkpoints,
          pending |-> TRUE, failed |-> FALSE]
  BY <1>12
<1> HIDE DEF forward, after
<1>15. after =
         [exists |-> TRUE, kda |-> end, mla |-> end, logits |-> end,
          candidates |-> <<>>, checkpoints |-> <<>>,
          pending |-> FALSE, failed |-> FALSE]
  BY <1>13, <1>14
<1>16. after = CursorAt(end)
  BY <1>15 DEF CursorAt
<1> QED
  BY <1>11, <1>16 DEF after

-----------------------------------------------------------------------------
(* The scheduler of a provider: its policy, and the blocks it leaves empty.  *)

LEMMA AfterSelectKeeps ==
  ASSUME NEW s \in Scheduler, NEW request \in Nat
  PROVE  /\ AfterSelect(s, request).adaptive = s.adaptive
         /\ s.cap = {} => AfterSelect(s, request).cap = {}
  BY DEF AfterSelect, Scheduler

LEMMA AfterObserveKeeps ==
  ASSUME NEW s \in Scheduler, NEW v, v.proposed \in Nat,
         v.loads \in Nat, v.assignments \in Nat, Observable(v)
  PROVE  /\ AfterObserve(s, v).adaptive = s.adaptive
         /\ ~s.adaptive => AfterObserve(s, v).cap = s.cap
<1>1. CASE v.proposed = 0
  BY <1>1 DEF AfterObserve
<1>2. CASE v.proposed # 0
  <2> DEFINE r == Recorded(s, v)
  <2>1. v.proposed \in Lengths
    BY <1>2 DEF Observable
  <2>2. r \in Scheduler
    BY <2>1, RecordedType
  <2>3. r.adaptive = s.adaptive /\ r.cap = s.cap
    BY DEF Recorded, Scheduler
  <2> HIDE DEF r
  <2>4. Rejected(r, v).adaptive = r.adaptive /\ Accepted(r, v).adaptive = r.adaptive
    BY <2>2 DEF Rejected, Accepted, Scheduler
  <2>5. AfterObserve(s, v) = IF ~s.adaptive THEN r
                             ELSE IF v.accepted < v.proposed THEN Rejected(r, v)
                             ELSE Accepted(r, v)
    BY <1>2 DEF AfterObserve, r
  <2> QED
    BY <2>3, <2>4, <2>5
<1> QED
  BY <1>1, <1>2

\* Only an adaptive provider leaves a block empty for which there is room.
LEMMA FixedPolicyDrafts ==
  ASSUME NEW s \in Scheduler, NEW request \in Nat,
         ~s.adaptive, s.cap = {}, SelectedLength(s, request) = 0
  PROVE  request = 0
<1> SUFFICES ASSUME request # 0 PROVE FALSE
  OBVIOUS
<1> DEFINE effective == EffectiveMaximum(s, request)
           S == Selectable(s, request)
<1>1. MaximumLength \in Nat /\ MaximumLength >= 1
  BY LadderProperties, SchedulerAssumption
<1>2. effective = request \/ effective = MaximumLength
  <2>1. {request, MaximumLength} \cup s.cap = {request, MaximumLength}
    OBVIOUS
  <2>2. effective = Min({request, MaximumLength})
    BY <2>1 DEF EffectiveMaximum
  <2>3. Min({request, MaximumLength}) \in {request, MaximumLength}
    BY <1>1, MinProperties
  <2> QED
    BY <2>2, <2>3
<1>3. effective >= 1
  BY <1>1, <1>2
<1>4. S = {length \in Lengths : length <= effective}
  BY DEF Selectable
<1> HIDE DEF effective, S
<1>5. 1 \in S /\ S \in SUBSET Lengths
  BY <1>1, <1>2, <1>3, <1>4, LadderProperties
<1>6. Max({0} \cup S) >= 1 /\ Max({0} \cup S) \in {0} \cup S
  BY <1>5, MaxOfLengths
<1>7. SelectedLength(s, request) = Max({0} \cup S)
  BY DEF SelectedLength, S
<1> QED
  BY <1>6, <1>7

-----------------------------------------------------------------------------
(* The agreement is inductive: one lemma per stage of the loop.             *)

AgreeInv == Lossless /\ TypeOK /\ Agreement

Provider == [expected : Seq(Tokens), initialized : BOOLEAN, pending : BOOLEAN,
             anchor : Tokens \cup {0}, candidates : Seq(Tokens),
             cursorPending : BOOLEAN, error : BOOLEAN]

Verification ==
  [anchor : Tokens \cup {0}, proposed : Nat, accepted : Nat,
   committed : Seq(Tokens), all : BOOLEAN, evaluated : Nat, discarded : Nat,
   loads : Nat, assignments : Nat]

LEMMA NoVerificationType == NoVerification \in Verification
<1>1. <<>> \in Seq(Tokens)
  BY EmptySeq
<1> QED
  BY <1>1 DEF NoVerification, Verification

LEMMA AnchorType ==
  ASSUME tokens \in Seq(Tokens), tokens # <<>>
  PROVE  anchor \in Tokens
<1>1. Len(tokens) \in 1..Len(tokens)
  BY EmptySeq, LenProperties
<1> QED
  BY <1>1, ElementOfSeq DEF anchor

LEMMA InitAgrees == Init => TypeOK /\ Agreement
<1> SUFFICES ASSUME Init PROVE TypeOK /\ Agreement
  OBVIOUS
<1>1. config.adaptive \in BOOLEAN /\ scheduler = NewScheduler(config.adaptive)
  BY DecodingAssumption DEF Init
<1>2. <<>> \in Seq(Tokens)
  BY EmptySeq
<1>3. cursor \in Cursor /\ ~cursor.exists
  BY <1>2, CursorAtType DEF Init, NoCursor, CursorAt, Cursor
<1>4. scheduler \in Scheduler /\ scheduler.adaptive = config.adaptive
      /\ scheduler.cap = {}
  BY <1>1, NewSchedulerType DEF NewScheduler
<1>5. verification \in Verification /\ provider \in Provider
  BY <1>2, NoVerificationType DEF Init, Provider
<1>6. TypeOK
  <2>1. /\ config \in Configs /\ model \in Models /\ phase = "prefill"
        /\ tokens \in Seq(Tokens) /\ target \in Seq(Tokens) /\ faulty \in BOOLEAN
    BY <1>2 DEF Init
  <2> QED
    BY <1>3, <1>4, <1>5, <2>1 DEF TypeOK, Verification, Provider
<1>7. Agreement
  BY <1>3, <1>4 DEF Init, Agreement, Pristine, FailsOnlyOnFault
<1> QED
  BY <1>6, <1>7

LEMMA PrefillAgrees ==
  ASSUME AgreeInv, Lossless', Prefill
  PROVE  TypeOK' /\ Agreement'
<1>1. /\ phase = "prefill" /\ target' = Prompt
      /\ phase' \in {"propose", "done"}
      /\ UNCHANGED <<config, model, proposal, verification, drafting, faulty>>
  BY DEF Prefill, Continue
<1>2. TypeOK'
  BY <1>1, DecodingAssumption DEF AgreeInv, TypeOK, Lossless, drafting
<1>3. Pristine /\ Pristine'
  BY <1>1 DEF AgreeInv, Agreement, Pristine, drafting
<1>4. InStep'
  BY <1>3 DEF InStep, Pristine
<1> QED
  BY <1>1, <1>2, <1>3, <1>4
  DEF AgreeInv, Agreement, Pristine, FailsOnlyOnFault, drafting

\* A step that fails, and leaves the provider's state or a fault behind.
LEMMA FailAgrees ==
  ASSUME AgreeInv, phase' = "failed", FailsOnlyOnFault',
         UNCHANGED <<config, model, tokens, target, verification, drafting>>,
         faulty' \in BOOLEAN
  PROVE  TypeOK' /\ Agreement'
<1>1. TypeOK'
  BY DEF AgreeInv, TypeOK, drafting
<1>2. Agreement'
  BY DEF AgreeInv, Agreement, Pristine, drafting
<1> QED
  BY <1>1, <1>2

LEMMA TargetFaultAgrees ==
  ASSUME AgreeInv, TargetFault
  PROVE  TypeOK' /\ Agreement'
<1>1. FailsOnlyOnFault'
  BY DEF TargetFault, FailsOnlyOnFault
<1> QED
  BY <1>1, FailAgrees DEF TargetFault

\* A provider in step with the loop refuses nothing.
LEMMA ProposeRefusedAgrees ==
  ASSUME AgreeInv, ProposeRefused
  PROVE  TypeOK' /\ Agreement'
<1>1. provider.error
  <2> SUFFICES ASSUME ~provider.error PROVE FALSE
    OBVIOUS
  <2>1. /\ ~provider.pending
        /\ provider.initialized => provider.expected = tokens
        /\ cursor.exists => cursor = CursorAt(Prompt \o tokens)
    BY DEF AgreeInv, Agreement, InStep, ProposeRefused
  <2>2. cursor.exists => CanPropose(cursor)
    BY <2>1 DEF CanPropose, CursorAt
  <2> QED
    BY <2>1, <2>2 DEF ProposeRefused, Refuses
<1>2. faulty \/ Refusable
  BY <1>1 DEF AgreeInv, Agreement, ProposeRefused
<1>3. FailsOnlyOnFault'
  BY <1>2 DEF ProposeRefused, Refusable, FailsOnlyOnFault
<1>4. faulty' \in BOOLEAN
  BY DEF ProposeRefused, AgreeInv, TypeOK
<1> QED
  BY <1>3, <1>4, FailAgrees DEF ProposeRefused

LEMMA ProposeFaultAgrees ==
  ASSUME AgreeInv, ProposeFault
  PROVE  TypeOK' /\ Agreement'
<1>1. /\ phase' = "failed" /\ faulty'
      /\ UNCHANGED <<config, model, tokens, target, verification, scheduler>>
      /\ cursor' = [cursor EXCEPT !.failed = cursor.exists]
      /\ provider' = [provider EXCEPT !.error = provider.error \/ cursor.exists]
      /\ faulty' = TRUE
  BY DEF ProposeFault
<1>2. cursor \in Cursor /\ provider \in Provider
  BY DEF AgreeInv, TypeOK, Provider
<1> DEFINE error == provider.error \/ cursor.exists
<1>3. error \in BOOLEAN /\ cursor.exists \in BOOLEAN
  BY <1>2 DEF Cursor
<1>4. cursor' \in Cursor /\ cursor'.exists = cursor.exists
  BY <1>1, <1>2 DEF Cursor
<1>5. provider' = [provider EXCEPT !.error = error]
  BY <1>1
<1> HIDE DEF error
<1>6. /\ provider' \in Provider
      /\ provider'.error = error
      /\ provider'.pending = provider.pending
      /\ provider'.initialized = provider.initialized
      /\ provider'.cursorPending = provider.cursorPending
  BY <1>2, <1>3, <1>5 DEF Provider
<1>7. TypeOK'
  BY <1>1, <1>4, <1>6 DEF AgreeInv, TypeOK, Provider
<1>8. Agreement'
  BY <1>1, <1>4, <1>6
  DEF AgreeInv, Agreement, Pristine, FailsOnlyOnFault, error
<1> QED
  BY <1>7, <1>8

\* What an offered block leaves in the provider, whichever provider drafts.
LEMMA OfferAgrees ==
  ASSUME AgreeInv, Lossless', phase = "propose", config.provider # "scripted",
         ~Refuses,
         NEW c \in [1..SelectedLength(scheduler, MaxDraft) -> Tokens],
         Drafted(model, CursorAt(Prompt \o tokens), c),
         Offer(c, cursor'.exists), cursor' \in Cursor,
         cursor'.exists => cursor' = Proposed(CursorAt(Prompt \o tokens), c),
         config.provider # "persistent" => ~cursor'.exists
  PROVE  TypeOK' /\ Agreement'
<1> DEFINE n == SelectedLength(scheduler, MaxDraft)
           expected == IF provider.initialized THEN provider.expected ELSE tokens
<1>1. /\ tokens \in Seq(Tokens) /\ tokens # <<>> /\ Len(tokens) < Count
      /\ scheduler \in Scheduler /\ Len(tokens) \in Nat
      /\ provider \in Provider
  BY LenProperties DEF AgreeInv, Lossless, TypeOK, Provider
<1>2. MaxDraft \in Nat
  BY <1>1, MaxDraftProperties
<1>3. n \in {0} \cup Lengths /\ n <= MaximumLength /\ n <= MaxDraft
  <2>1. /\ n \in {0} \cup Lengths
        /\ n <= EffectiveMaximum(scheduler, MaxDraft)
        /\ EffectiveMaximum(scheduler, MaxDraft) <= MaxDraft
        /\ EffectiveMaximum(scheduler, MaxDraft) <= MaximumLength
        /\ EffectiveMaximum(scheduler, MaxDraft) \in Nat
    BY <1>1, <1>2, SelectedLengthProperties, EffectiveMaximumProperties
  <2>2. n \in Nat /\ MaximumLength \in Nat
    BY <2>1, LadderProperties, SchedulerAssumption
  <2> HIDE DEF n
  <2> QED
    BY <1>2, <2>1, <2>2
<1>4. c \in Seq(Tokens) /\ Len(c) = n
  <2>1. n \in Nat
    BY <1>3, LadderProperties
  <2> HIDE DEF n
  <2>2. c \in [1..n -> Tokens]
    BY DEF n
  <2>3. c \in Seq(Tokens)
    BY <2>1, <2>2, SeqDef
  <2>4. Len(c) = n
    BY <2>1, <2>2, <2>3, LenProperties
  <2> QED
    BY <2>3, <2>4
<1>5. n = 0 /\ ~config.adaptive => Len(tokens) = Count - 1
  <2> SUFFICES ASSUME n = 0, ~config.adaptive PROVE Len(tokens) = Count - 1
    OBVIOUS
  <2>1. MaxDraft = 0
    BY <1>1, <1>2, FixedPolicyDrafts DEF AgreeInv, Agreement
  <2> DEFINE S == {BlockSize, Count - Len(tokens) - 1}
  <2>2. Count \in Nat /\ BlockSize \in Nat \ {0}
    BY DecodingAssumption
  <2>3. S \in SUBSET Nat /\ S # {}
    BY <1>1, <2>2
  <2> HIDE DEF S
  <2>4. Min(S) \in S
    BY <2>3, MinProperties
  <2>5. 0 \in S
    BY <2>1, <2>4 DEF MaxDraft, S
  <2> QED
    BY <1>1, <2>2, <2>5 DEF S
<1>6. expected = tokens /\ ~provider.error
  BY DEF AgreeInv, Agreement, InStep, Refuses
<1>7. /\ phase' = "verify"
      /\ proposal' = [anchor |-> anchor, candidates |-> c]
      /\ provider' = [provider EXCEPT
           !.expected = expected, !.initialized = TRUE, !.pending = TRUE,
           !.anchor = anchor, !.candidates = c, !.cursorPending = cursor'.exists]
      /\ scheduler' = AfterSelect(scheduler, MaxDraft)
      /\ UNCHANGED <<config, model, tokens, target, verification, faulty>>
  BY DEF Offer
<1> HIDE DEF n, expected
<1>8. anchor \in Tokens /\ anchor' = anchor
  BY <1>1, <1>7, AnchorType DEF anchor
<1>9. cursor'.exists \in BOOLEAN
  BY DEF Cursor
<1>10. /\ provider' \in Provider
       /\ provider'.expected = tokens /\ provider'.initialized
       /\ provider'.pending /\ provider'.anchor = anchor
       /\ provider'.candidates = c
       /\ provider'.cursorPending = cursor'.exists
       /\ ~provider'.error
  BY <1>1, <1>4, <1>6, <1>7, <1>8, <1>9 DEF Provider
<1>11. scheduler' \in Scheduler
  BY DEF Lossless
<1>12. TypeOK'
  BY <1>7, <1>10, <1>11 DEF AgreeInv, TypeOK, Provider
<1>13. MaxDraft' = MaxDraft
  BY <1>7 DEF MaxDraft
<1>14. Pending'
  BY <1>3, <1>4, <1>5, <1>7, <1>8, <1>10, <1>13 DEF Pending
<1>15. /\ scheduler'.adaptive = config.adaptive
       /\ ~config.adaptive => scheduler'.cap = {}
  BY <1>1, <1>2, <1>7, AfterSelectKeeps DEF AgreeInv, Agreement
<1>16. Agreement'
  BY <1>7, <1>8, <1>10, <1>14, <1>15 DEF Agreement, FailsOnlyOnFault
<1> QED
  BY <1>12, <1>16

LEMMA ProposeReplayAgrees ==
  ASSUME AgreeInv, Lossless', ProposeReplay
  PROVE  TypeOK' /\ Agreement'
<1>1. ~cursor.exists /\ cursor' = cursor /\ cursor \in Cursor
  BY DEF ProposeReplay, AgreeInv, Agreement, TypeOK
<1>2. PICK c \in [1..SelectedLength(scheduler, MaxDraft) -> Tokens] :
        Drafted(model, CursorAt(Prompt \o tokens), c) /\ Offer(c, FALSE)
  BY DEF ProposeReplay
<1>3. cursor'.exists = FALSE
  BY <1>1 DEF Cursor
<1>4. Offer(c, cursor'.exists)
  BY <1>2, <1>3
<1> QED
  BY <1>1, <1>2, <1>3, <1>4, OfferAgrees DEF ProposeReplay

LEMMA ProposePersistentAgrees ==
  ASSUME AgreeInv, Lossless', ProposePersistent
  PROVE  TypeOK' /\ Agreement'
<1> DEFINE n == SelectedLength(scheduler, MaxDraft)
           context == Prompt \o tokens
           x == IF ~cursor.exists /\ n # 0 THEN CursorAt(context) ELSE cursor
<1>1. context \in Seq(Tokens)
  BY DecodingAssumption, ConcatProperties DEF AgreeInv, TypeOK
<1>2. PICK c \in [1..n -> Tokens] :
        /\ Drafted(model, x, c)
        /\ Offer(c, x.exists)
        /\ cursor' = IF x.exists THEN Proposed(x, c) ELSE x
  BY DEF ProposePersistent
<1>3. x.exists => x = CursorAt(context)
  BY DEF ProposePersistent, AgreeInv, Agreement, InStep, Refuses
<1>4. ~x.exists => n = 0
  BY DEF CursorAt
<1>5. x \in Cursor
  BY <1>1, CursorAtType DEF AgreeInv, TypeOK
<1>6. tokens \in Seq(Tokens) /\ Len(tokens) < Count /\ scheduler \in Scheduler
  BY DEF AgreeInv, Lossless, ProposePersistent
<1>7. n \in Nat
  BY <1>6, MaxDraftProperties, SelectedLengthProperties, LadderProperties
<1> HIDE DEF n, x, context
<1>8. c \in Seq(Tokens)
  BY <1>7, SeqDef
<1>9. Drafted(model, CursorAt(context), c)
  <2>1. CASE x.exists
    BY <1>2, <1>3, <2>1
  <2>2. CASE ~x.exists
    <3>1. DOMAIN c = {}
      BY <1>4, <2>2
    <3> QED
      BY <3>1 DEF Drafted
  <2> QED
    BY <2>1, <2>2
<1>10. /\ cursor' \in Cursor /\ cursor'.exists = x.exists
       /\ cursor'.exists => cursor' = Proposed(CursorAt(context), c)
  <2>1. CASE x.exists
    <3>1. cursor' = Proposed(CursorAt(context), c)
      BY <1>2, <1>3, <2>1
    <3>2. cursor'.exists = TRUE
      BY <1>1, <1>8, <3>1, ProposedCursor
    <3>3. x.exists = TRUE
      BY <1>5, <2>1 DEF Cursor
    <3> QED
      BY <1>1, <1>8, <3>1, <3>2, <3>3, ProposedType
  <2>2. CASE ~x.exists
    BY <1>2, <1>5, <2>2
  <2> QED
    BY <2>1, <2>2
<1>11. Offer(c, cursor'.exists)
  BY <1>2, <1>10
<1> QED
  BY <1>9, <1>10, <1>11, OfferAgrees DEF ProposePersistent, n, context

LEMMA ProposeScriptedAgrees ==
  ASSUME AgreeInv, ProposeScripted
  PROVE  TypeOK' /\ Agreement'
<1>1. TypeOK'
  BY DEF ProposeScripted, AgreeInv, TypeOK, drafting
<1>2. Agreement'
  BY DEF ProposeScripted, AgreeInv, Agreement, Pristine, FailsOnlyOnFault, drafting
<1> QED
  BY <1>1, <1>2

\* A block its provider has drafted is never rejected.
LEMMA RejectProposalAgrees ==
  ASSUME AgreeInv, RejectProposal
  PROVE  TypeOK' /\ Agreement'
<1>1. config.provider = "scripted"
  <2> SUFFICES ASSUME config.provider # "scripted" PROVE FALSE
    OBVIOUS
  <2> DEFINE c == provider.candidates
  <2>1. Pending /\ proposal = [anchor |-> anchor, candidates |-> c]
    BY DEF AgreeInv, Agreement, RejectProposal
  <2>2. /\ proposal.anchor = anchor /\ proposal.candidates = c
        /\ Len(c) <= MaxDraft /\ c \in Seq(Tokens)
    BY <2>1 DEF Pending
  <2>3. \A i \in DOMAIN c : c[i] \in Tokens
    BY <2>2, ElementOfSeq, LenProperties
  <2> QED
    BY <2>2, <2>3 DEF ValidProposal, RejectProposal
<1>2. FailsOnlyOnFault' /\ faulty' \in BOOLEAN
  BY <1>1 DEF RejectProposal, FailsOnlyOnFault, AgreeInv, TypeOK
<1> QED
  BY <1>2, FailAgrees DEF RejectProposal

\* A prefix and one more element, whatever that is.
LEMMA PrefixAndNext ==
  ASSUME NEW S, NEW c \in Seq(S), NEW n \in 0..Len(c), NEW next
  PROVE  /\ Len(SubSeq(c, 1, n) \o <<next>>) = n + 1
         /\ \A i \in 1..n : (SubSeq(c, 1, n) \o <<next>>)[i] = c[i]
<1> DEFINE T == S \cup {next}
           part == SubSeq(c, 1, n)
           last == <<next>>
<1>1. part \in Seq(S) /\ Len(part) = n /\ \A i \in 1..n : part[i] = c[i]
  BY PrefixType
<1>2. part \in Seq(T) /\ Len(last) = 1 /\ last \in Seq(T)
  BY <1>1
<1> HIDE DEF part, last, T
<1>3. /\ Len(part \o last) = Len(part) + Len(last)
      /\ \A i \in 1..(Len(part) + Len(last)) :
           (part \o last)[i] = IF i <= Len(part) THEN part[i]
                               ELSE last[i - Len(part)]
  BY <1>2, ConcatProperties
<1>4. \A i \in 1..n : i \in 1..(n + 1) /\ i <= n
  OBVIOUS
<1> QED
  BY <1>1, <1>2, <1>3, <1>4 DEF part, last

LEMMA VerifyAgrees ==
  ASSUME AgreeInv, Lossless', Verify
  PROVE  TypeOK' /\ Agreement'
<1> DEFINE c == proposal.candidates
           inputs == <<proposal.anchor>> \o c
           after == [i \in 1..Len(inputs) |-> target \o SubSeq(inputs, 1, i)]
           targets == [i \in 1..Len(inputs) |-> Target(after[i])]
           accepted == AcceptedPrefix(c, targets)
           bonus == targets[accepted + 1]
           more == SubSeq(c, 1, accepted) \o <<bonus>>
           total == Len(inputs)
           evaluated == Evaluated(inputs, accepted)
           assignments == IF config.expertMajor THEN total ELSE 0
<1>1. /\ phase = "verify" /\ phase' = "update" /\ ValidProposal
      /\ UNCHANGED <<config, model, tokens, proposal, drafting, faulty>>
  BY DEF Verify
<1>2. /\ tokens \in Seq(Tokens) /\ tokens # <<>>
      /\ config \in Configs /\ c \in Seq(Nat)
  BY <1>1 DEF AgreeInv, Lossless
<1>3. proposal.anchor = anchor /\ anchor \in Tokens
      /\ \A i \in DOMAIN c : c[i] \in Tokens
  BY <1>1, <1>2, AnchorType DEF ValidProposal
<1>4. c \in Seq(Tokens) /\ Len(c) \in Nat
  <2>1. c \in [1..Len(c) -> Nat] /\ DOMAIN c = 1..Len(c) /\ Len(c) \in Nat
    BY <1>2, LenProperties
  <2>2. c \in [1..Len(c) -> Tokens]
    BY <1>3, <2>1
  <2> QED
    BY <2>1, <2>2, SeqDef
<1>5. total = Len(c) + 1
  BY <1>3, <1>4, SingletonSeq, ConcatProperties
<1>6. PICK loads \in IF config.expertMajor THEN 1..total ELSE {0} :
        verification' = [
          anchor |-> proposal.anchor,
          proposed |-> Len(c), accepted |-> accepted, committed |-> more,
          all |-> accepted = Len(c), evaluated |-> evaluated,
          discarded |-> evaluated - (accepted + 1),
          loads |-> loads, assignments |-> assignments]
  BY DEF Verify
<1>7. accepted \in 0..Len(c)
  BY <1>4, AcceptedPrefixProperties
<1>8. more \in Seq(Tokens)
  BY <1>1, <1>6 DEF Lossless, BlockFollowsTokens
<1>9. Len(more) = accepted + 1 /\ \A i \in 1..accepted : more[i] = c[i]
  BY <1>4, <1>7, PrefixAndNext
<1>10. evaluated = IF config.expertMajor THEN total ELSE accepted + 1
  BY DEF Evaluated
<1> HIDE DEF c, inputs, after, targets, accepted, bonus, more, total, evaluated
<1>11. /\ evaluated \in Nat /\ evaluated - (accepted + 1) \in Nat
       /\ evaluated - (accepted + 1) <= evaluated /\ accepted \in Nat
  BY <1>4, <1>5, <1>7, <1>10
<1>12. /\ loads \in Nat /\ assignments \in Nat /\ loads <= assignments
       /\ ~config.expertMajor => loads = 0 /\ assignments = 0
  BY <1>4, <1>5
<1> HIDE DEF assignments
<1> DEFINE all == accepted = Len(c)
           discarded == evaluated - (accepted + 1)
<1>13. all \in BOOLEAN /\ (all <=> accepted = Len(c))
  OBVIOUS
<1>14. verification' = [
         anchor |-> anchor, proposed |-> Len(c), accepted |-> accepted,
         committed |-> more, all |-> all, evaluated |-> evaluated,
         discarded |-> discarded, loads |-> loads, assignments |-> assignments]
  BY <1>3, <1>6
<1>15. discarded \in Nat /\ discarded <= evaluated
  BY <1>11
<1> HIDE DEF all, discarded
<1>16. verification' \in Verification
  BY <1>3, <1>4, <1>8, <1>11, <1>12, <1>13, <1>14, <1>15 DEF Verification
<1>17. target' \in Seq(Tokens)
  <2>1. /\ BlockFollowsTokens' /\ tokens' = tokens
        /\ verification'.committed = more
    BY <1>1, <1>14 DEF Lossless
  <2>2. more # <<>> /\ target' = Prompt \o tokens \o SubSeq(more, 1, Len(more) - 1)
    BY <2>1 DEF BlockFollowsTokens
  <2>3. Len(more) - 1 \in 0..Len(more)
    BY <1>8, <2>2, EmptySeq
  <2>4. SubSeq(more, 1, Len(more) - 1) \in Seq(Tokens)
    BY <1>8, <2>3, PrefixType
  <2>5. Prompt \o tokens \in Seq(Tokens)
    BY <1>2, DecodingAssumption, ConcatProperties
  <2> QED
    BY <2>2, <2>4, <2>5, ConcatProperties
<1>18. TypeOK'
  BY <1>1, <1>16, <1>17 DEF AgreeInv, TypeOK, Verification, drafting
<1>19. anchor' = anchor
  BY <1>1 DEF anchor
<1>20. Verdict(verification, c)'
  <2>1. Verdict(verification', c)
    BY <1>7, <1>9, <1>11, <1>12, <1>13, <1>14, <1>15 DEF Verdict
  <2>2. c' = c /\ config' = config
    BY <1>1 DEF c
  <2> QED
    BY <1>19, <2>1, <2>2 DEF Verdict
<1>21. config.provider # "scripted" => Pending /\ provider.candidates = c
  BY <1>1 DEF AgreeInv, Agreement, c
<1>22. Pending => Pending'
  BY <1>1, <1>19 DEF Pending, MaxDraft, drafting
<1>23. config.provider # "scripted" =>
         Pending' /\ Verdict(verification, provider.candidates)'
  BY <1>1, <1>20, <1>21, <1>22 DEF drafting, c
<1>24. Agreement'
  BY <1>1, <1>23 DEF AgreeInv, Agreement, Pristine, FailsOnlyOnFault, drafting
<1> QED
  BY <1>18, <1>24

\* Whatever the verdict, tokens and phase after an emitted block.
LEMMA EmitAgrees ==
  ASSUME AgreeInv, Lossless', phase = "update", Emit,
         provider' \in Provider, cursor' \in Cursor, faulty' \in BOOLEAN
  PROVE  /\ TypeOK'
         /\ phase' \in {"propose", "done"} /\ config' = config
         /\ tokens' = tokens \o verification.committed
<1>1. /\ tokens' = tokens \o verification.committed
      /\ phase' \in {"propose", "done"}
      /\ verification' = NoVerification
      /\ UNCHANGED <<config, model, target>>
  BY DEF Emit, Continue
<1>2. verification' \in Verification
  BY <1>1, NoVerificationType
<1>3. tokens' \in Seq(Tokens) /\ scheduler' \in Scheduler
  BY DEF Lossless
<1> QED
  BY <1>1, <1>2, <1>3 DEF AgreeInv, TypeOK, Verification, Provider

LEMMA UpdateScriptedAgrees ==
  ASSUME AgreeInv, Lossless', UpdateScripted
  PROVE  TypeOK' /\ Agreement'
<1>1. /\ phase = "update" /\ config.provider = "scripted" /\ Emit
      /\ UNCHANGED <<drafting, faulty>>
  BY DEF UpdateScripted
<1>2. provider' \in Provider /\ cursor' \in Cursor /\ faulty' \in BOOLEAN
  BY <1>1 DEF AgreeInv, TypeOK, Provider, drafting
<1>3. TypeOK' /\ phase' \in {"propose", "done"} /\ config' = config
  BY <1>1, <1>2, EmitAgrees
<1>4. Pristine /\ Pristine'
  BY <1>1 DEF AgreeInv, Agreement, Pristine, drafting
<1>5. InStep'
  BY <1>4 DEF InStep, Pristine
<1>6. Agreement'
  BY <1>1, <1>3, <1>4, <1>5
  DEF AgreeInv, Agreement, Pristine, FailsOnlyOnFault, drafting
<1> QED
  BY <1>3, <1>6

LEMMA SettledType ==
  ASSUME provider \in Provider, NEW expected \in Seq(Tokens), NEW error \in BOOLEAN
  PROVE  /\ Settled(expected, error) \in Provider
         /\ Settled(expected, error).expected = expected
         /\ Settled(expected, error).error = error
         /\ Settled(expected, error).pending = FALSE
         /\ Settled(expected, error).cursorPending = FALSE
         /\ Settled(expected, error).initialized = provider.initialized
  BY EmptySeq DEF Settled, Provider

LEMMA UpdateFaultAgrees ==
  ASSUME AgreeInv, Lossless', UpdateFault
  PROVE  TypeOK' /\ Agreement'
<1>1. /\ phase = "update" /\ provider.cursorPending /\ Emit
      /\ cursor' = [cursor EXCEPT !.failed = TRUE, !.pending = FALSE]
      /\ provider' = Settled(provider.expected, TRUE)
      /\ faulty' = TRUE /\ scheduler' = scheduler
  BY DEF UpdateFault
<1>2. config.provider # "scripted"
  BY <1>1 DEF AgreeInv, Agreement, Pristine
<1>3. provider \in Provider /\ provider.expected \in Seq(Tokens)
  BY DEF AgreeInv, TypeOK, Provider
<1>4. provider' \in Provider /\ provider'.error = TRUE
  BY <1>1, <1>3, SettledType
<1>5. cursor' \in Cursor /\ cursor'.exists = cursor.exists
  BY <1>1 DEF AgreeInv, TypeOK, Cursor
<1>6. TypeOK' /\ phase' \in {"propose", "done"} /\ config' = config
  BY <1>1, <1>4, <1>5, EmitAgrees
<1>7. InStep'
  BY <1>4 DEF InStep
<1>8. Agreement'
  BY <1>1, <1>2, <1>4, <1>5, <1>6, <1>7
  DEF AgreeInv, Agreement, FailsOnlyOnFault
<1> QED
  BY <1>6, <1>8

\* The verdict on the pending block is one its provider takes in; only the
\* scheduler may refuse it, and then only an expert-major block left empty.
LEMMA UpdateAgrees ==
  ASSUME AgreeInv, Lossless', Update
  PROVE  TypeOK' /\ Agreement'
<1> DEFINE v == verification
           c == provider.candidates
           context == Prompt \o tokens
           valid == /\ ValidUpdate(v)
                    /\ provider.cursorPending =>
                         CanCommit(cursor, v.accepted, v.committed)
<1>1. /\ phase = "update" /\ config.provider # "scripted" /\ Emit
      /\ cursor' = IF valid /\ provider.cursorPending
                   THEN Committed(cursor, v.accepted, v.committed) ELSE cursor
      /\ IF valid /\ Observable(v)
         THEN /\ scheduler' = AfterObserve(scheduler, v)
              /\ provider' = Settled(Expected(v), provider.error)
         ELSE /\ scheduler' = scheduler
              /\ provider' = Settled(provider.expected, TRUE)
      /\ faulty' = faulty
  BY DEF Update
<1>2. /\ tokens \in Seq(Tokens) /\ v \in Verification /\ provider \in Provider
      /\ cursor \in Cursor /\ scheduler \in Scheduler /\ faulty \in BOOLEAN
      /\ config \in Configs
  BY DEF AgreeInv, TypeOK, Verification, Provider
<1>3. Pending /\ Verdict(v, c)
  BY <1>1 DEF AgreeInv, Agreement
<1>4. /\ c \in Seq(Tokens) /\ v.committed \in Seq(Tokens) /\ v.accepted \in 0..Len(c)
      /\ context \in Seq(Tokens) /\ Len(c) \in Nat
  BY <1>2, <1>3, DecodingAssumption, ConcatProperties, LenProperties
  DEF Pending, Verdict, Verification
<1>5. ValidUpdate(v)
  BY <1>3, <1>4 DEF Pending, Verdict, ValidUpdate
<1>6. cursor.exists =>
        /\ cursor = Proposed(CursorAt(context), c)
        /\ CanCommit(cursor, v.accepted, v.committed)
  <2> SUFFICES ASSUME cursor.exists
               PROVE  /\ cursor = Proposed(CursorAt(context), c)
                      /\ CanCommit(cursor, v.accepted, v.committed)
    OBVIOUS
  <2>1. cursor = Proposed(CursorAt(context), c)
    BY <1>3 DEF Pending
  <2>2. cursor.pending /\ ~cursor.failed /\ cursor.candidates = c
    BY <1>4, <2>1, ProposedFields
  <2>3. v.accepted <= Len(c) /\ Len(v.committed) = v.accepted + 1
        /\ \A i \in 1..v.accepted : v.committed[i] = c[i]
    BY <1>3, <1>4 DEF Verdict
  <2> QED
    BY <2>1, <2>2, <2>3 DEF CanCommit
<1>7. provider.cursorPending = cursor.exists
  BY <1>3 DEF Pending
<1>8. valid
  BY <1>5, <1>6, <1>7
<1> HIDE DEF valid
<1>9. tokens' = tokens \o v.committed /\ phase' = Continue(tokens') /\ config' = config
  BY <1>1 DEF Emit
<1>10. IF cursor.exists THEN cursor' = CursorAt(Prompt \o tokens') ELSE cursor' = cursor
  <2>1. CASE cursor.exists
    <3>1. Committed(Proposed(CursorAt(context), c), v.accepted, v.committed)
            = CursorAt(context \o v.committed)
      BY <1>3, <1>4, CommitFollows DEF Verdict
    <3>2. (Prompt \o tokens) \o v.committed = Prompt \o (tokens \o v.committed)
      BY <1>2, <1>4, DecodingAssumption, TokensAssociative, ZenonT(40)
    <3> HIDE DEF v
    <3> QED
      BY <1>1, <1>6, <1>7, <1>8, <1>9, <2>1, <3>1, <3>2
  <2>2. CASE ~cursor.exists
    BY <1>1, <1>7, <2>2
  <2> QED
    BY <2>1, <2>2
<1>11. tokens' \in Seq(Tokens) /\ Prompt \o tokens' \in Seq(Tokens)
  BY DecodingAssumption, ConcatProperties DEF Lossless
<1>12. cursor' \in Cursor /\ (cursor'.exists <=> cursor.exists)
  <2>1. CursorAt(Prompt \o tokens').exists
    BY DEF CursorAt
  <2> QED
    BY <1>2, <1>10, <1>11, <2>1, CursorAtType
<1>13. /\ provider' \in Provider /\ ~provider'.pending
       /\ ~provider'.error => Observable(v) /\ provider'.expected = tokens'
       /\ Observable(v) => ~provider'.error
  <2>1. Expected(v) = tokens' /\ provider.error = FALSE
        /\ provider.expected \in Seq(Tokens)
    BY <1>2, <1>3, <1>9 DEF Expected, Pending, Provider
  <2>2. CASE Observable(v)
    <3>1. provider' = Settled(tokens', FALSE)
      BY <1>1, <1>8, <2>1, <2>2
    <3> QED
      BY <1>2, <1>11, <2>2, <3>1, SettledType
  <2>3. CASE ~Observable(v)
    <3>1. provider' = Settled(provider.expected, TRUE)
      BY <1>1, <2>3
    <3> QED
      BY <1>2, <2>1, <2>3, <3>1, SettledType
  <2> QED
    BY <2>2, <2>3
<1>14. TypeOK' /\ phase' \in {"propose", "done"}
  BY <1>1, <1>2, <1>12, <1>13, EmitAgrees
<1>15. InStep'
  BY <1>10, <1>12, <1>13 DEF InStep
<1>16. /\ scheduler'.adaptive = config.adaptive
       /\ ~config.adaptive => scheduler'.cap = {}
  <2>1. \/ scheduler' = scheduler
        \/ scheduler' = AfterObserve(scheduler, v) /\ Observable(v)
    BY <1>1
  <2>2. v.proposed \in Nat /\ v.loads \in Nat /\ v.assignments \in Nat
    BY <1>2 DEF Verification
  <2> HIDE DEF v
  <2> QED
    BY <1>2, <2>1, <2>2, AfterObserveKeeps DEF AgreeInv, Agreement
<1>17. phase' = "propose" => Observable(v) \/ Refusable
  <2> SUFFICES ASSUME phase' = "propose", ~Refusable PROVE Observable(v)
    OBVIOUS
  <2>1. /\ v.proposed = Len(c) /\ v.accepted \in 0..Len(c)
        /\ v.discarded <= v.evaluated /\ v.loads <= v.assignments
        /\ ~config.expertMajor => v.loads = 0 /\ v.assignments = 0
        /\ Len(v.committed) = v.accepted + 1
    BY <1>3 DEF Verdict
  <2>2. /\ Len(c) \in {0} \cup Lengths /\ Len(c) <= MaximumLength
        /\ Len(c) = 0 /\ ~config.adaptive => Len(tokens) = Count - 1
    BY <1>3 DEF Pending
  <2>3. CASE Len(c) # 0
    BY <1>4, <2>1, <2>2, <2>3 DEF Observable
  <2>4. CASE Len(c) = 0
    <3>1. v.accepted = 0
      BY <2>1, <2>4
    <3>2. config.adaptive
      <4> SUFFICES ASSUME ~config.adaptive PROVE FALSE
        OBVIOUS
      <4>1. Len(tokens') = Len(tokens) + Len(v.committed)
        BY <1>2, <1>4, <1>9, ConcatProperties
      <4>2. Len(tokens) = Count - 1 /\ Count \in Nat
        BY <2>2, <2>4, DecodingAssumption
      <4>3. ~(Len(tokens') < Count)
        BY <2>1, <3>1, <4>1, <4>2
      <4> QED
        BY <1>9, <4>3 DEF Continue
    <3>3. ~config.expertMajor
      BY <3>2 DEF Refusable
    <3> QED
      BY <2>1, <2>4, <3>1, <3>3 DEF Observable
  <2> QED
    BY <2>3, <2>4
<1>18. Agreement'
  <2>1. config.provider # "persistent" => ~cursor'.exists
    BY <1>12 DEF AgreeInv, Agreement
  <2>2. phase' = "propose" /\ provider'.error => faulty' \/ Refusable'
    BY <1>9, <1>13, <1>17 DEF Refusable
  <2> QED
    BY <1>1, <1>9, <1>14, <1>15, <1>16, <2>1, <2>2 DEF Agreement, FailsOnlyOnFault
<1> QED
  BY <1>14, <1>18

LEMMA NextAgrees == AgreeInv /\ [Next]_vars => AgreeInv'
<1> SUFFICES ASSUME AgreeInv, [Next]_vars
             PROVE  AgreeInv'
  OBVIOUS
<1>1. Lossless'
  BY NextLossless DEF AgreeInv
<1>2. CASE Prefill \/ TargetFault
  BY <1>1, <1>2, PrefillAgrees, TargetFaultAgrees DEF AgreeInv
<1>3. CASE Propose
  BY <1>1, <1>3, ProposeReplayAgrees, ProposePersistentAgrees, ProposeScriptedAgrees,
     ProposeRefusedAgrees, ProposeFaultAgrees DEF AgreeInv, Propose
<1>4. CASE Verify \/ RejectProposal
  BY <1>1, <1>4, VerifyAgrees, RejectProposalAgrees DEF AgreeInv
<1>5. CASE Update \/ UpdateFault \/ UpdateScripted
  BY <1>1, <1>5, UpdateAgrees, UpdateFaultAgrees, UpdateScriptedAgrees DEF AgreeInv
<1>6. CASE UNCHANGED vars
  <2>1. TypeOK'
    BY <1>6 DEF vars, generation, drafting, AgreeInv, TypeOK
  <2>2. Agreement'
    <3>1. Pending => Pending'
      BY <1>6 DEF vars, generation, drafting, Pending, anchor, MaxDraft
    <3>2. \A v, x : Verdict(v, x) => Verdict(v, x)'
      BY <1>6 DEF vars, generation, Verdict, anchor
    <3>3. anchor' = anchor
      BY <1>6 DEF vars, generation, anchor
    <3> QED
      BY <1>6, <3>1, <3>2, <3>3
      DEF vars, generation, drafting, AgreeInv, Agreement, Pristine, InStep,
          Refusable, FailsOnlyOnFault, Verdict
  <2> QED
    BY <1>1, <2>1, <2>2 DEF AgreeInv
<1> QED
  BY <1>2, <1>3, <1>4, <1>5, <1>6 DEF Next, Step, Returned

LEMMA AlwaysAgrees == Spec => []AgreeInv
<1>1. Init => AgreeInv
  BY InitLossless, InitAgrees DEF AgreeInv
<1> QED
  BY <1>1, NextAgrees, PTL DEF Spec

\* Provider and loop agree on every block, whatever the draft model, the
\* policy, the verification mode and the faults: after any commit or rollback
\* the cursor's KDA state, MLA state and logits have read the same committed
\* tokens, the incremental provider drafts what a replay of the history would,
\* and a generation drafted by AURORA fails only when a Reader or backend does.
THEOREM ProviderInStep == Spec => []ProvidersAgree
<1>1. AgreeInv => ProvidersAgree
  <2> SUFFICES ASSUME AgreeInv PROVE ProvidersAgree
    OBVIOUS
  <2>1. CursorFollowsTokens
    BY DEF AgreeInv, Agreement, InStep, CursorFollowsTokens, CursorAt
  <2>2. DraftsFollowHistory
    <3> SUFFICES ASSUME phase = "verify", config.provider # "scripted",
                        NEW i \in DOMAIN proposal.candidates
                 PROVE  proposal.candidates[i] =
                          Draft(model, Prompt \o tokens
                                         \o SubSeq(proposal.candidates, 1, i - 1))
      BY DEF DraftsFollowHistory
    <3> DEFINE c == proposal.candidates
               context == Prompt \o tokens
    <3>1. c = provider.candidates /\ Drafted(model, CursorAt(context), c)
      BY DEF AgreeInv, Agreement, Pending
    <3>2. c[i] = Draft(model, IF i = 1 THEN context
                              ELSE context \o SubSeq(c, 1, i - 1))
      BY <3>1 DEF Drafted, CursorAt
    <3>3. context \o <<>> = context
      <4>1. context \in Seq(Tokens)
        BY DecodingAssumption, ConcatProperties DEF AgreeInv, TypeOK
      <4> QED
        BY <4>1, ConcatEmptySeq
    <3>4. CASE i = 1
      <4>1. SubSeq(c, 1, i - 1) = <<>>
        BY <3>4, SubSeqEmpty
      <4> QED
        BY <3>2, <3>3, <3>4, <4>1
    <3>5. CASE i # 1
      BY <3>2, <3>5
    <3> QED
      BY <3>4, <3>5
  <2> QED
    BY <2>1, <2>2 DEF AgreeInv, Agreement, ProvidersAgree
<1> QED
  BY <1>1, AlwaysAgrees, PTL

-----------------------------------------------------------------------------
(* The router: the order of the experts.                                    *)

NumExperts == Cardinality(Experts)
\* What a behaviour is about.
Scored(scores) == scores \in [Experts -> Nat] /\ bias \in [Experts -> Int]

LEMMA ExpertsAreFinite == NumExperts \in Nat /\ IsFiniteSet(1..NumExperts) /\ Cardinality(1..NumExperts) = NumExperts
<1>1. NumExperts \in Nat
  BY RouterAssumption, FS_CardinalityType DEF NumExperts
<1> QED
  BY <1>1, FS_Interval

\* Before is a strict total order of the experts.
LEMMA BeforeIsOrder ==
  ASSUME NEW scores, Scored(scores)
  PROVE  /\ \A e \in Experts : ~Before(scores, e, e)
         /\ \A e, f \in Experts : e = f \/ Before(scores, e, f) \/ Before(scores, f, e)
         /\ \A e, f, g \in Experts :
              Before(scores, e, f) /\ Before(scores, f, g) => Before(scores, e, g)
<1>1. /\ \A e \in Experts : Adjusted(scores, e) \in Int
      /\ Experts \subseteq Int
  BY RouterAssumption DEF Scored, Adjusted
<1> QED
  BY <1>1 DEF Before

UpTo(scores, e) == {f \in Experts : f = e \/ Before(scores, f, e)}

LEMMA RankRange ==
  ASSUME NEW scores, Scored(scores), NEW e \in Experts
  PROVE  IsFiniteSet(UpTo(scores, e)) /\ Rank(scores, e) \in 1..NumExperts
<1> DEFINE S == UpTo(scores, e)
<1>1. S \in SUBSET Experts /\ e \in S
  BY DEF UpTo
<1>2. IsFiniteSet(S) /\ Cardinality(S) <= NumExperts
  BY <1>1, FS_Subset, RouterAssumption DEF NumExperts
<1>3. Cardinality(S) \in Nat /\ Cardinality(S) # 0
  BY <1>1, <1>2, FS_CardinalityType, FS_EmptySet
<1> QED
  BY <1>2, <1>3, ExpertsAreFinite DEF Rank, UpTo

LEMMA RankIsMonotone ==
  ASSUME NEW scores, Scored(scores), NEW e \in Experts, NEW f \in Experts, Before(scores, e, f)
  PROVE  Rank(scores, e) < Rank(scores, f)
<1> DEFINE S == UpTo(scores, e)
           T == UpTo(scores, f)
<1>1. S \in SUBSET T /\ f \in T /\ f \notin S
  BY BeforeIsOrder DEF UpTo
<1>2. IsFiniteSet(T) /\ Cardinality(S) \in Nat /\ Cardinality(T) \in Nat
  BY RankRange, FS_CardinalityType
<1>3. Cardinality(S) <= Cardinality(T) /\ Cardinality(S) # Cardinality(T)
  BY <1>1, <1>2, FS_Subset
<1> QED
  BY <1>2, <1>3 DEF Rank, UpTo

\* Every rank is that of one expert.
LEMMA RankIsBijective ==
  ASSUME NEW scores, Scored(scores)
  PROVE  /\ \A e, f \in Experts : Rank(scores, e) = Rank(scores, f) => e = f
         /\ \A i \in 1..NumExperts : \E e \in Experts : Rank(scores, e) = i
<1> DEFINE r == [e \in Experts |-> Rank(scores, e)]
<1>1. \A e, f \in Experts : Rank(scores, e) = Rank(scores, f) => e = f
  <2> TAKE e, f \in Experts
  <2>1. Rank(scores, e) \in Int /\ Rank(scores, f) \in Int
    BY RankRange, ExpertsAreFinite
  <2> QED
    BY <2>1, BeforeIsOrder, RankIsMonotone
<1>2. r \in [Experts -> 1..NumExperts]
  BY RankRange
<1>3. r \in Injection(Experts, 1..NumExperts)
  BY <1>1, <1>2, Fun_IsInj
<1>4. r \in Surjection(Experts, 1..NumExperts)
  BY <1>3, FS_Injection, ExpertsAreFinite DEF NumExperts
<1>5. \A i \in 1..NumExperts : \E e \in Experts : r[e] = i
  <2> HIDE DEF r
  <2> QED
    BY <1>4, Fun_SurjectionProperties
<1> QED
  BY <1>1, <1>5

\* The order has every expert once, the better before the worse.
LEMMA OrderProperties ==
  ASSUME NEW scores, Scored(scores)
  PROVE  /\ Order(scores) \in Seq(Experts) /\ Len(Order(scores)) = NumExperts
         /\ \A i, j \in 1..NumExperts : i < j => Before(scores, Order(scores)[i], Order(scores)[j])
         /\ \A e \in Experts : \E i \in 1..NumExperts : Order(scores)[i] = e
<1> DEFINE o == Order(scores)
<1>1. DOMAIN o = 1..NumExperts /\ \A i \in 1..NumExperts : o[i] \in Experts /\ Rank(scores, o[i]) = i
  BY RankIsBijective DEF Order, NumExperts
<1>2. o \in Seq(Experts) /\ Len(o) = NumExperts
  <2>1. o = [i \in 1..NumExperts |-> o[i]]
    BY <1>1 DEF Order, NumExperts
  <2>2. o \in [1..NumExperts -> Experts]
    BY <1>1, <2>1
  <2> QED
    BY <2>2, ExpertsAreFinite
<1>3. \A i, j \in 1..NumExperts : i < j => Before(scores, o[i], o[j])
  <2> TAKE i, j \in 1..NumExperts
  <2> HAVE i < j
  <2>1. i \in Int /\ j \in Int
    BY ExpertsAreFinite
  <2>2. ~Before(scores, o[j], o[i])
    BY <1>1, <2>1, RankIsMonotone
  <2>3. o[i] # o[j]
    BY <1>1, <2>1
  <2> QED
    BY <1>1, <2>2, <2>3, BeforeIsOrder
<1>4. \A e \in Experts : o[Rank(scores, e)] = e
  BY <1>1, RankRange, RankIsBijective
<1> QED
  BY <1>2, <1>3, <1>4, RankRange

\* What a prefix of the order has.
LEMMA PrefixProperties ==
  ASSUME NEW scores, Scored(scores), NEW k \in 1..NumExperts
  PROVE  LET chosen == Prefix(scores, k)
         IN  /\ chosen \in Seq(Experts) /\ Len(chosen) = k /\ DOMAIN chosen = 1..k
             /\ IsInjective(chosen)
             /\ \A i \in 2..Len(chosen) : Before(scores, chosen[i - 1], chosen[i])
             /\ \A e \in Experts \ ToSet(chosen) : Before(scores, Last(chosen), e)
<1> DEFINE chosen == Prefix(scores, k)
           o == Order(scores)
<1>1. /\ o \in Seq(Experts) /\ Len(o) = NumExperts /\ NumExperts \in Nat /\ k \in 1..NumExperts
      /\ \A i, j \in 1..NumExperts : i < j => Before(scores, o[i], o[j])
      /\ \A e \in Experts : \E i \in 1..NumExperts : o[i] = e
      /\ chosen = SubSeq(o, 1, k)
  BY OrderProperties, ExpertsAreFinite DEF Prefix
<1> HIDE DEF o, chosen
<1>2. /\ chosen \in Seq(Experts) /\ Len(chosen) = k /\ DOMAIN chosen = 1..k
      /\ \A i \in 1..k : chosen[i] = o[i] /\ o[i] \in Experts
  BY <1>1
<1>3. IsInjective(chosen)
  <2> SUFFICES ASSUME NEW a \in 1..k, NEW b \in 1..k, chosen[a] = chosen[b] PROVE a = b
    BY <1>2 DEF IsInjective
  <2>1. a < b \/ b < a \/ a = b
    OBVIOUS
  <2>2. ~(a < b) /\ ~(b < a)
    BY <1>1, <1>2, BeforeIsOrder
  <2> QED
    BY <2>1, <2>2
<1>4. \A i \in 2..Len(chosen) : Before(scores, chosen[i - 1], chosen[i])
  BY <1>1, <1>2
<1>5. \A e \in Experts \ ToSet(chosen) : Before(scores, Last(chosen), e)
  <2> TAKE e \in Experts \ ToSet(chosen)
  <2>1. PICK i \in 1..NumExperts : o[i] = e
    BY <1>1
  <2>2. i \notin 1..k
    BY <1>2, <2>1 DEF ToSet
  <2>3. Last(chosen) = o[k] /\ k < i
    BY <1>1, <1>2, <2>2 DEF Last
  <2> QED
    BY <1>1, <2>1, <2>3
<1> QED
  BY <1>2, <1>3, <1>4, <1>5 DEF chosen

-----------------------------------------------------------------------------
(* How many experts are taken.                                              *)

Arguments ==
  /\ batch \in Seq([Experts -> Nat]) \ {<<>>} /\ bias \in [Experts -> Int]
  /\ topK \in 1..NumExperts /\ policy \in RoutingPolicies

LEMMA ArgumentBounds ==
  ASSUME Arguments
  PROVE  /\ topK \in Nat \ {0} /\ Ladder \subseteq Nat \ {0}
         /\ policy.floor \in Nat /\ policy.fixedK \in Ladder \cup {0}
         /\ policy.mode \in {"natural", "fixed", "adaptive"}
<1>1. Ladder \subseteq Nat \ {0}
  BY RouterAssumption
<1>2. topK \in Nat \ {0}
  BY ExpertsAreFinite DEF Arguments
<1>3. policy.floor \in Ladder \cup {0} /\ policy.fixedK \in Ladder \cup {0} /\ policy.mode \in RoutingModes
  BY DEF Arguments, RoutingPolicies
<1>4. policy.floor \in Nat
  <2>1. \A f \in Ladder : f \in Nat
    BY <1>1
  <2>2. 0 \in Nat
    OBVIOUS
  <2>3. policy.floor \in Ladder \/ policy.floor = 0
    BY <1>3
  <2> QED
    BY <2>1, <2>2, <2>3, Zenon
<1>5. policy.mode \in {"natural", "fixed", "adaptive"}
  BY <1>3 DEF RoutingModes
<1> QED
  BY <1>1, <1>2, <1>3, <1>4, <1>5

LEMMA MinIsLeast ==
  ASSUME NEW S \in SUBSET Nat, S # {}
  PROVE  Min(S) \in S /\ \A n \in S : Min(S) <= n
  BY LeastElement DEF Min

LEMMA ChosenK ==
  ASSUME NEW scores, Arguments, NEW floor \in Nat
  PROVE  LET k == ChooseAdaptive(scores, floor)
         IN  k \in 1..topK /\ (floor <= topK => floor <= k)
<1> DEFINE adequate == {k \in Ladder : k <= topK /\ k >= floor /\ Adequate(scores, k)}
<1>1. adequate \in SUBSET Nat /\ \A k \in adequate : k \in 1..topK /\ floor <= k
  BY ArgumentBounds
<1>2. topK \in 1..topK
  BY ArgumentBounds
<1>3. adequate # {} => Min(adequate) \in adequate
  <2> HIDE DEF adequate
  <2> QED
    BY <1>1, MinIsLeast
<1>4. ChooseAdaptive(scores, floor) = IF adequate = {} THEN topK ELSE Min(adequate)
  BY DEF ChooseAdaptive
<1> HIDE DEF adequate
<1> QED
  BY <1>1, <1>2, <1>3, <1>4

\* A floor leaves fewer candidates, and takes none that is less.
LEMMA ChosenKIsMonotone ==
  ASSUME NEW scores, Arguments, NEW floor \in Nat
  PROVE  ChooseAdaptive(scores, 0) <= ChooseAdaptive(scores, floor)
<1> DEFINE adequate(f) == {k \in Ladder : k <= topK /\ k >= f /\ Adequate(scores, k)}
<1>1. /\ adequate(floor) \subseteq adequate(0) /\ adequate(0) \in SUBSET Nat
      /\ \A k \in adequate(0) : k <= topK
  BY ArgumentBounds
<1>2. \A f \in {0, floor} : ChooseAdaptive(scores, f) = IF adequate(f) = {} THEN topK ELSE Min(adequate(f))
  BY DEF ChooseAdaptive
<1>3. topK \in Nat
  BY ArgumentBounds
<1> HIDE DEF adequate
<1>4. /\ adequate(0) # {} => Min(adequate(0)) \in adequate(0) /\ \A k \in adequate(0) : Min(adequate(0)) <= k
      /\ adequate(floor) # {} => Min(adequate(floor)) \in adequate(floor)
  BY <1>1, MinIsLeast
<1> QED
  BY <1>1, <1>2, <1>3, <1>4

\* A valid policy takes at least one expert and at most the natural K, no fewer
\* with a floor than without, and no fewer than the floor unless it is natural.
LEMMA SelectedKRange ==
  ASSUME NEW scores, Arguments, Valid
  PROVE  LET k == SelectedK(scores, policy.floor)
             unfloored == SelectedK(scores, 0)
         IN  /\ k \in 1..topK /\ unfloored \in 1..topK /\ unfloored <= k
             /\ policy.mode # "natural" => policy.floor <= k
<1>1. /\ topK \in Nat \ {0} /\ topK \in 1..topK /\ policy.floor \in Nat
      /\ policy.mode \in {"natural", "fixed", "adaptive"}
      /\ policy.floor # 0 /\ policy.mode # "natural" => policy.floor <= topK
      /\ policy.mode = "fixed" => policy.fixedK \in 1..topK
  BY ArgumentBounds DEF Valid
<1>2. CASE policy.mode = "natural"
  BY <1>1, <1>2 DEF SelectedK
<1>3. CASE policy.mode = "fixed"
  BY <1>1, <1>3 DEF SelectedK
<1>4. CASE policy.mode = "adaptive"
  <2>1. SelectedK(scores, policy.floor) = ChooseAdaptive(scores, policy.floor)
        /\ SelectedK(scores, 0) = ChooseAdaptive(scores, 0)
    BY <1>4 DEF SelectedK
  <2>2. policy.floor <= topK
    BY <1>1, <1>4
  <2> QED
    BY <1>1, <2>1, <2>2, ChosenK, ChosenKIsMonotone
<1> QED
  BY <1>1, <1>2, <1>3, <1>4

\* The natural batch takes the natural K, whatever its scores.
LEMMA NaturalBatchTakesTopK ==
  ASSUME NEW scores, Arguments, Valid, NaturalBatch
  PROVE  SelectedK(scores, policy.floor) = topK
  BY DEF NaturalBatch, SelectedK

-----------------------------------------------------------------------------
(* The inductive invariant: every decision is that of its path, and every   *)
(* token is mixed from its own decision.                                    *)

Routed(scores) == IF NaturalBatch THEN Route(scores) ELSE Decision(scores)
Outcomes == {Routed(batch[t]) : t \in 1..Len(batch)}
Mixtures == {Contributions(d) : d \in Outcomes}

Progress ==
  /\ decisions \in Seq(Outcomes) /\ mixed \in Seq(Mixtures)
  /\ Len(decisions) <= Len(batch) /\ Len(mixed) <= Len(decisions)
  /\ pc = "validate" => decisions = <<>>
  /\ pc \in {"validate", "route", "failed"} => mixed = <<>>
  /\ pc = "route" => Len(decisions) < Len(batch)
  /\ pc = "mix" => Len(decisions) = Len(batch) /\ Len(mixed) < Len(batch)

Faithful ==
  /\ decisions # <<>> \/ pc = "route" => Valid
  /\ \A t \in DOMAIN decisions :
       decisions[t] = Routed(batch[t]) /\ (~NaturalBatch => ~Refused(batch[t]))
  /\ \A t \in DOMAIN mixed : mixed[t] = Contributions(decisions[t])

RouterInv ==
  /\ Arguments
  /\ pc \in {"validate", "route", "mix", "done", "failed"}
  /\ Progress
  /\ Faithful

LEMMA BatchAt ==
  ASSUME Arguments, NEW t \in 1..Len(batch)
  PROVE  batch[t] \in [Experts -> Nat] /\ Scored(batch[t])
  BY DEF Arguments, Scored

LEMMA RouterInitInv == RouterInit => RouterInv
<1> SUFFICES ASSUME RouterInit PROVE RouterInv
  OBVIOUS
<1>1. Arguments
  BY RouterAssumption DEF RouterInit, Arguments, NumExperts
<1>2. pc = "validate" /\ decisions = <<>> /\ mixed = <<>>
  BY DEF RouterInit
<1>3. Progress
  <2>1. Len(batch) \in Nat
    BY <1>1 DEF Arguments
  <2>2. <<>> \in Seq(Outcomes) /\ <<>> \in Seq(Mixtures) /\ Len(<<>>) = 0
    BY EmptySeq
  <2> QED
    BY <1>2, <2>1, <2>2 DEF Progress
<1>4. Faithful
  BY <1>2 DEF Faithful
<1> QED
  BY <1>1, <1>2, <1>3, <1>4 DEF RouterInv

\* A call's arguments do not change, nor does what it makes of a token.
Stays == UNCHANGED <<batch, bias, topK, policy>>
LEMMA ArgumentsStay ==
  ASSUME Stays
  PROVE  /\ Arguments => Arguments'
         /\ Valid' <=> Valid
         /\ NaturalBatch' <=> NaturalBatch
         /\ \A scores : Routed(scores)' = Routed(scores) /\ (Refused(scores)' <=> Refused(scores))
<1> USE DEF Stays
<1>1. Arguments => Arguments'
  BY DEF Arguments
<1>2. \A scores : Order(scores)' = Order(scores)
  BY DEF Order, Rank, Before, Adjusted
<1>3. \A scores, k : Prefix(scores, k)' = Prefix(scores, k)
  BY <1>2 DEF Prefix
<1>4. \A scores : NaturalMass(scores)' = NaturalMass(scores)
  BY <1>3 DEF NaturalMass, Mass
<1>5. \A scores, k : Adequate(scores, k)' <=> Adequate(scores, k)
  <2> TAKE scores, k
  <2>1. Supports(scores, k)' <=> Supports(scores, k)
    BY <1>3, <1>4 DEF Supports
  <2>2. Confident(scores, k, policy.gap)' <=> Confident(scores, k, policy.gap)
    BY <1>3 DEF Confident
  <2> QED
    BY <1>3, <1>4, <2>1, <2>2 DEF Adequate
<1>6. \A scores, floor : ChooseAdaptive(scores, floor)' = ChooseAdaptive(scores, floor)
  BY <1>5 DEF ChooseAdaptive
<1>7. \A scores, floor : SelectedK(scores, floor)' = SelectedK(scores, floor)
  BY <1>6 DEF SelectedK
<1>8. Valid' <=> Valid
  BY DEF Valid
<1>9. NaturalBatch' <=> NaturalBatch
  BY <1>7 DEF NaturalBatch
<1>10. \A scores : Decision(scores)' = Decision(scores) /\ Route(scores)' = Route(scores)
  BY <1>3, <1>7 DEF Decision, Route
<1>11. \A scores : Refused(scores)' <=> Refused(scores)
  BY <1>3, <1>4, <1>7 DEF Refused
<1> QED
  BY <1>1, <1>8, <1>9, <1>10, <1>11 DEF Routed

Appends(S, s, e, r) ==
  /\ r \in Seq(S) /\ Len(r) = Len(s) + 1 /\ DOMAIN r = 1..(Len(s) + 1)
  /\ \A t \in 1..Len(s) : r[t] = s[t]
  /\ r[Len(s) + 1] = e
LEMMA OneIsAppended ==
  ASSUME NEW S, NEW s \in Seq(S), NEW e \in S, NEW r, r = Append(s, e)
  PROVE  Appends(S, s, e, r)
  BY DEF Appends

LEMMA OneFits ==
  ASSUME NEW m \in Nat, NEW n \in Nat, n < m
  PROVE  n + 1 <= m /\ (n + 1 # m => n + 1 < m)
  OBVIOUS

LEMMA RouterNextInv == RouterInv /\ [RouterNext]_routerVars => RouterInv'
<1> SUFFICES ASSUME RouterInv, [RouterNext]_routerVars PROVE RouterInv'
  OBVIOUS
<1>s. Stays
  BY DEF Stays, RouterNext, Validate, RouteBatch, RouteToken, MixToken, routerVars
<1>0. /\ Len(batch) \in Nat \ {0} /\ Len(batch) \in Nat /\ Len(decisions) \in Nat /\ Len(mixed) \in Nat
      /\ DOMAIN batch = 1..Len(batch)
      /\ decisions \in Seq(Outcomes) /\ mixed \in Seq(Mixtures)
      /\ Len(decisions) \in 0..Len(batch) /\ Len(mixed) \in 0..Len(decisions)
  BY DEF RouterInv, Arguments, Progress
<1>a. /\ Arguments' /\ (Valid' <=> Valid) /\ (NaturalBatch' <=> NaturalBatch)
      /\ \A scores : Routed(scores)' = Routed(scores) /\ (Refused(scores)' <=> Refused(scores))
      /\ batch' = batch /\ Outcomes' = Outcomes /\ Mixtures' = Mixtures
  <2>1. /\ Arguments' /\ (Valid' <=> Valid) /\ (NaturalBatch' <=> NaturalBatch)
        /\ \A scores : Routed(scores)' = Routed(scores) /\ (Refused(scores)' <=> Refused(scores))
    BY <1>s, ArgumentsStay DEF RouterInv
  <2>2. batch' = batch
    BY <1>s DEF Stays
  <2>3. Outcomes' = Outcomes
    BY <2>1, <2>2 DEF Outcomes
  <2> QED
    BY <2>1, <2>2, <2>3 DEF Mixtures
<1>1. CASE Validate
  <2>1. /\ pc = "validate" /\ pc' \in {"route", "failed"} /\ (pc' = "route" => Valid)
        /\ UNCHANGED <<decisions, mixed>>
    BY <1>1 DEF Validate
  <2>2. decisions = <<>> /\ mixed = <<>> /\ Len(decisions) = 0
    BY <2>1 DEF RouterInv, Progress
  <2>3. Progress'
    BY <1>0, <1>a, <2>1, <2>2 DEF Progress
  <2>4. Faithful'
    BY <1>a, <2>1, <2>2 DEF Faithful
  <2> QED
    BY <1>a, <2>1, <2>3, <2>4 DEF RouterInv
<1>2. CASE RouteBatch
  <2>1. /\ pc = "route" /\ NaturalBatch /\ UNCHANGED mixed /\ pc' = "mix"
        /\ decisions' = [t \in 1..Len(batch) |-> Route(batch[t])]
    BY <1>0, <1>2 DEF RouteBatch
  <2>2. mixed = <<>> /\ Valid
    BY <2>1 DEF RouterInv, Progress, Faithful
  <2>3. /\ decisions' \in Seq(Outcomes) /\ Len(decisions') = Len(batch) /\ DOMAIN decisions' = 1..Len(batch)
        /\ \A t \in 1..Len(batch) : decisions'[t] = Routed(batch[t])
    <3>1. \A t \in 1..Len(batch) : Route(batch[t]) = Routed(batch[t]) /\ Routed(batch[t]) \in Outcomes
      BY <2>1 DEF Routed, Outcomes
    <3> QED
      BY <1>0, <2>1, <3>1
  <2>4. Len(mixed) = 0 /\ DOMAIN mixed = {}
    BY <2>2
  <2>5. Progress'
    BY <1>0, <1>a, <2>1, <2>2, <2>3, <2>4 DEF Progress
  <2>6. Faithful'
    BY <1>a, <2>1, <2>2, <2>3, <2>4 DEF Faithful
  <2> QED
    BY <1>a, <2>1, <2>5, <2>6 DEF RouterInv
<1>3. CASE RouteToken
  <2> DEFINE n == Len(decisions)
             scores == batch[n + 1]
  <2>1. /\ pc = "route" /\ ~NaturalBatch /\ UNCHANGED mixed
        /\ IF Refused(scores)
           THEN pc' = "failed" /\ UNCHANGED decisions
           ELSE /\ decisions' = Append(decisions, Decision(scores))
                /\ pc' = IF Len(decisions') = Len(batch) THEN "mix" ELSE "route"
    BY <1>3 DEF RouteToken
  <2>2. mixed = <<>> /\ Valid /\ n < Len(batch) /\ Len(mixed) = 0 /\ DOMAIN mixed = {}
    BY <2>1 DEF RouterInv, Progress, Faithful
  <2>3. CASE Refused(scores)
    <3>1. pc' = "failed" /\ UNCHANGED decisions
      BY <2>1, <2>3
    <3>2. Progress'
      BY <1>0, <1>a, <2>1, <2>2, <3>1 DEF Progress
    <3>3. Faithful'
      BY <1>a, <2>1, <2>2, <3>1 DEF Faithful, RouterInv
    <3> QED
      BY <1>a, <3>1, <3>2, <3>3 DEF RouterInv
  <2>4. CASE ~Refused(scores)
    <3>1. /\ decisions' = Append(decisions, Decision(scores))
          /\ pc' = IF Len(decisions') = Len(batch) THEN "mix" ELSE "route"
      BY <2>1, <2>4
    <3>2. Decision(scores) = Routed(scores) /\ Routed(scores) \in Outcomes
      BY <1>0, <2>1, <2>2 DEF Routed, Outcomes
    <3>3. /\ decisions' \in Seq(Outcomes) /\ Len(decisions') = n + 1 /\ DOMAIN decisions' = 1..(n + 1)
          /\ \A t \in 1..n : decisions'[t] = decisions[t]
          /\ decisions'[n + 1] = Routed(scores)
      <4>1. Appends(Outcomes, decisions, Routed(scores), decisions')
        BY <1>0, <3>1, <3>2, OneIsAppended
      <4> HIDE DEF scores
      <4> QED
        BY <4>1 DEF Appends
    <3>4. \A t \in 1..n : decisions[t] = Routed(batch[t]) /\ ~Refused(batch[t])
      BY <1>0, <2>1 DEF RouterInv, Faithful
    <3>5. \A t \in 1..(n + 1) : decisions'[t] = Routed(batch[t]) /\ ~Refused(batch[t])
      <4> TAKE t \in 1..(n + 1)
      <4>1. t \in 1..n \/ t = n + 1
        BY <1>0
      <4> QED
        BY <2>4, <3>3, <3>4, <4>1
    <3>6. Progress'
      <4>1. /\ Len(decisions') <= Len(batch) /\ pc' \in {"mix", "route"}
            /\ pc' = "route" => Len(decisions') < Len(batch)
            /\ pc' = "mix" => Len(decisions') = Len(batch)
        BY <1>0, <2>2, <3>1, <3>3, OneFits, Zenon
      <4> QED
        <5>1. Len(mixed') = 0 /\ mixed' = <<>> /\ mixed' \in Seq(Mixtures')
          BY <1>0, <1>a, <2>1, <2>2
        <5>2. decisions' \in Seq(Outcomes')
          BY <1>a, <3>3
        <5>3. Len(decisions') \in Nat /\ Len(decisions') > 0 /\ Len(batch) > 0
          BY <1>0, <3>3
        <5> QED
          BY <1>a, <4>1, <5>1, <5>2, <5>3 DEF Progress
    <3>7. Faithful'
      BY <1>a, <2>1, <2>2, <3>3, <3>5 DEF Faithful
    <3>8. pc' \in {"mix", "route"}
      BY <3>1
    <3> QED
      BY <1>a, <3>8, <3>6, <3>7 DEF RouterInv
  <2> QED
    BY <2>3, <2>4
<1>4. CASE MixToken
  <2> DEFINE n == Len(mixed)
             d == decisions[n + 1]
  <2>1. /\ pc = "mix" /\ UNCHANGED decisions /\ mixed' = Append(mixed, Contributions(d))
        /\ pc' = IF Len(mixed') = Len(batch) THEN "done" ELSE "mix"
    BY <1>4 DEF MixToken
  <2>2. Len(decisions) = Len(batch) /\ n < Len(batch) /\ DOMAIN decisions = 1..Len(decisions)
    BY <1>0, <2>1 DEF RouterInv, Progress
  <2>3. Contributions(d) \in Mixtures
    BY <1>0, <2>2 DEF Mixtures
  <2>4. /\ mixed' \in Seq(Mixtures) /\ Len(mixed') = n + 1 /\ DOMAIN mixed' = 1..(n + 1)
        /\ \A t \in 1..n : mixed'[t] = mixed[t]
        /\ mixed'[n + 1] = Contributions(d)
    <3>1. Appends(Mixtures, mixed, Contributions(d), mixed')
      BY <1>0, <2>1, <2>3, OneIsAppended
    <3> HIDE DEF d
    <3> QED
      BY <3>1 DEF Appends
  <2>5. \A t \in 1..n : mixed[t] = Contributions(decisions[t])
    BY <1>0 DEF RouterInv, Faithful
  <2>6. \A t \in 1..(n + 1) : mixed'[t] = Contributions(decisions[t])
    <3> TAKE t \in 1..(n + 1)
    <3>1. t \in 1..n \/ t = n + 1
      BY <1>0
    <3> QED
      BY <2>4, <2>5, <3>1
  <2>7. Progress'
    <3>1. /\ pc' \in {"mix", "done"} /\ Len(mixed') <= Len(batch)
          /\ pc' = "mix" => Len(mixed') < Len(batch)
      BY <1>0, <2>1, <2>2, <2>4, OneFits, Zenon
    <3> QED
      <4>1. decisions' \in Seq(Outcomes') /\ mixed' \in Seq(Mixtures')
        BY <1>0, <1>a, <2>1, <2>4
      <4>2. Len(decisions') = Len(batch)
        BY <2>1, <2>2
      <4>3. Len(batch) <= Len(batch)
        BY <1>0
      <4> QED
        BY <1>a, <3>1, <4>1, <4>2, <4>3 DEF Progress
  <2>8. Faithful'
    <3>1. decisions # <<>>
      BY <1>0, <2>2
    <3> QED
      BY <1>a, <2>1, <2>4, <2>6, <3>1 DEF Faithful, RouterInv
  <2>9. pc' \in {"mix", "done"}
    BY <2>1
  <2> QED
    BY <1>a, <2>7, <2>8, <2>9 DEF RouterInv
<1>5. CASE UNCHANGED routerVars
  <2>1. UNCHANGED <<pc, decisions, mixed>>
    BY <1>5 DEF routerVars
  <2> QED
    BY <1>a, <2>1 DEF RouterInv, Progress, Faithful
<1> QED
  BY <1>1, <1>2, <1>3, <1>4, <1>5 DEF RouterNext

-----------------------------------------------------------------------------
(* What the invariant says of a decision.                                   *)

\* The fraction's denominator: the mass selected, clamped on the natural path.
Denominator(scores) ==
  LET mass == Mass(scores, Prefix(scores, SelectedK(scores, policy.floor)))
  IN  IF NaturalBatch /\ mass = 0 THEN 1 ELSE mass

LEMMA RoutedDecision ==
  ASSUME NEW scores \in [Experts -> Nat], Arguments, Valid, ~NaturalBatch => ~Refused(scores)
  PROVE  LET d   == Routed(scores)
             k   == SelectedK(scores, policy.floor)
         IN  /\ d.experts = Prefix(scores, k)
             /\ d.weights = [i \in 1..k |-> [num |-> scores[d.experts[i]], den |-> Denominator(scores)]]
             /\ Denominator(scores) # 0
             /\ ~NaturalBatch => d.escalated = (k > SelectedK(scores, 0))
<1> DEFINE k == SelectedK(scores, policy.floor)
<1>1. CASE NaturalBatch
  <2>1. k = topK
    BY <1>1, NaturalBatchTakesTopK
  <2>2. Routed(scores) = Route(scores)
    BY <1>1 DEF Routed
  <2> QED
    BY <1>1, <2>1, <2>2 DEF Route, Denominator
<1>2. CASE ~NaturalBatch
  <2>1. Routed(scores) = Decision(scores)
    BY <1>2 DEF Routed
  <2>2. Denominator(scores) = Mass(scores, Prefix(scores, k)) /\ Denominator(scores) # 0
    BY <1>2 DEF Denominator, Refused
  <2> HIDE DEF k
  <2>3. Decision(scores) =
          [ experts   |-> Prefix(scores, k),
            weights   |-> [i \in 1..k |-> [num |-> scores[Prefix(scores, k)[i]],
                                           den |-> Mass(scores, Prefix(scores, k))]],
            escalated |-> k > SelectedK(scores, 0) ]
    BY DEF Decision, k
  <2> QED
    BY <1>2, <2>1, <2>2, <2>3 DEF k
<1> QED
  BY <1>1, <1>2

LEMMA RoutedExperts ==
  ASSUME NEW scores \in [Experts -> Nat], Arguments, Valid, ~NaturalBatch => ~Refused(scores)
  PROVE  LET d == Routed(scores)
             k == SelectedK(scores, policy.floor)
         IN  /\ k \in 1..topK /\ k \in Nat /\ topK \in Nat
             /\ d.experts \in Seq(Experts) /\ Len(d.experts) = k /\ DOMAIN d.experts = 1..k
             /\ IsInjective(d.experts)
             /\ \A i \in 2..Len(d.experts) : Before(scores, d.experts[i - 1], d.experts[i])
             /\ \A e \in Experts \ ToSet(d.experts) : Before(scores, Last(d.experts), e)
<1> DEFINE k == SelectedK(scores, policy.floor)
<1>1. k \in 1..topK /\ topK \in Nat
  BY SelectedKRange, ArgumentBounds
<1>2. k \in 1..NumExperts /\ k \in Nat
  BY <1>1, ExpertsAreFinite DEF Arguments
<1>3. Scored(scores)
  BY DEF Scored, Arguments
<1>4. Routed(scores).experts = Prefix(scores, k)
  BY RoutedDecision
<1> HIDE DEF k
<1>5. LET chosen == Prefix(scores, k)
      IN  /\ chosen \in Seq(Experts) /\ Len(chosen) = k /\ DOMAIN chosen = 1..k
          /\ IsInjective(chosen)
          /\ \A i \in 2..Len(chosen) : Before(scores, chosen[i - 1], chosen[i])
          /\ \A e \in Experts \ ToSet(chosen) : Before(scores, Last(chosen), e)
  BY <1>2, <1>3, PrefixProperties
<1> QED
  BY <1>1, <1>2, <1>4, <1>5 DEF k

\* What is known of every token routed.
LEMMA TokenRouted ==
  ASSUME RouterInv, NEW t \in DOMAIN decisions
  PROVE  /\ Arguments /\ Valid /\ batch[t] \in [Experts -> Nat]
         /\ decisions[t] = Routed(batch[t]) /\ (~NaturalBatch => ~Refused(batch[t]))
<1>1. Arguments /\ decisions # <<>>
  BY DEF RouterInv, Progress
<1>2. t \in 1..Len(batch)
  BY <1>1 DEF RouterInv, Progress, Arguments
<1> QED
  BY <1>1, <1>2 DEF RouterInv, Faithful, Arguments

LEMMA RouterTypes == RouterInv => RouterTypeOK
<1> SUFFICES ASSUME RouterInv PROVE RouterTypeOK
  OBVIOUS
<1>1. /\ pc \in {"validate", "route", "mix", "done", "failed"}
      /\ Len(decisions) <= Len(batch) /\ Len(mixed) <= Len(decisions)
  BY DEF RouterInv, Progress
<1>2. ASSUME NEW t \in DOMAIN decisions
      PROVE  LET d == decisions[t] IN
             /\ d.experts \in Seq(Experts) /\ IsInjective(d.experts)
             /\ Len(d.weights) = Len(d.experts)
             /\ \A i \in DOMAIN d.weights : d.weights[i].num \in Nat /\ d.weights[i].den # 0
             /\ ~NaturalBatch => d.escalated \in BOOLEAN
  <2> DEFINE d == decisions[t]
             k == SelectedK(batch[t], policy.floor)
             den == Denominator(batch[t])
  <2>1. /\ batch[t] \in [Experts -> Nat] /\ den # 0
        /\ d.experts \in Seq(Experts) /\ IsInjective(d.experts) /\ Len(d.experts) = k
        /\ DOMAIN d.experts = 1..k /\ k \in Nat
        /\ d.weights = [i \in 1..k |-> [num |-> batch[t][d.experts[i]], den |-> den]]
        /\ ~NaturalBatch => d.escalated = (k > SelectedK(batch[t], 0))
    BY TokenRouted, RoutedDecision, RoutedExperts
  <2> HIDE DEF d, k, den
  <2>2. Len(d.weights) = k /\ DOMAIN d.weights = 1..k
    BY <2>1
  <2>3. \A i \in 1..k : d.weights[i].num \in Nat /\ d.weights[i].den # 0
    <3> TAKE i \in 1..k
    <3>1. d.experts[i] \in Experts
      BY <2>1
    <3>2. batch[t][d.experts[i]] \in Nat
      BY <2>1, <3>1
    <3> QED
      BY <2>1, <3>2
  <2>4. ~NaturalBatch => d.escalated \in BOOLEAN
    <3>1. (k > SelectedK(batch[t], 0)) \in BOOLEAN
      OBVIOUS
    <3> QED
      BY <2>1, <3>1, Zenon
  <2> QED
    BY <2>1, <2>2, <2>3, <2>4 DEF d
<1> QED
  BY <1>1, <1>2 DEF RouterTypeOK

LEMMA RouterRaises == RouterInv => FloorRaises
<1> SUFFICES ASSUME RouterInv, NEW t \in DOMAIN decisions
             PROVE  LET k == Len(decisions[t].experts)
                        unfloored == SelectedK(batch[t], 0)
                    IN  /\ unfloored <= k /\ k <= topK
                        /\ policy.mode # "natural" => policy.floor <= k
                        /\ ~NaturalBatch => (decisions[t].escalated <=> unfloored < k)
  BY DEF FloorRaises
<1> DEFINE k == SelectedK(batch[t], policy.floor)
           u == SelectedK(batch[t], 0)
<1>1. Len(decisions[t].experts) = k /\ (~NaturalBatch => decisions[t].escalated = (k > u))
  BY TokenRouted, RoutedDecision, RoutedExperts
<1>2. k \in 1..topK /\ u \in 1..topK /\ u <= k /\ (policy.mode # "natural" => policy.floor <= k) /\ topK \in Nat
  BY TokenRouted, SelectedKRange, ArgumentBounds
<1> HIDE DEF k, u
<1>3. k <= topK /\ (k > u <=> u < k)
  BY <1>2
<1> QED
  BY <1>1, <1>2, <1>3 DEF k, u

LEMMA RouterTakesTheBest == RouterInv => TakesTheBest
<1> SUFFICES ASSUME RouterInv, NEW t \in DOMAIN decisions
             PROVE  LET chosen == decisions[t].experts IN
                    /\ \A i \in 2..Len(chosen) : Before(batch[t], chosen[i - 1], chosen[i])
                    /\ \A e \in Experts \ ToSet(chosen) : Before(batch[t], Last(chosen), e)
  BY DEF TakesTheBest
<1> QED
  BY TokenRouted, RoutedExperts

LEMMA RouterMixesConvexly == RouterInv => MixesConvexly
<1> SUFFICES ASSUME RouterInv, NEW t \in DOMAIN mixed
             PROVE  /\ [i \in DOMAIN mixed[t] |-> mixed[t][i].expert] = decisions[t].experts
                    /\ LET den == mixed[t][1].weight.den
                       IN  /\ \A i \in DOMAIN mixed[t] :
                                mixed[t][i].weight = [num |-> batch[t][mixed[t][i].expert], den |-> den]
                           /\ NaturalMass(batch[t]) # 0 =>
                                den = SumOf([i \in DOMAIN mixed[t] |-> mixed[t][i].weight.num])
  BY DEF MixesConvexly
<1> DEFINE d == decisions[t]
           m == mixed[t]
           k == SelectedK(batch[t], policy.floor)
           den == Denominator(batch[t])
<1>1. t \in DOMAIN decisions /\ m = Contributions(d)
  BY DEF RouterInv, Progress, Faithful
<1>2. /\ d.experts \in Seq(Experts) /\ DOMAIN d.experts = 1..k /\ k \in 1..topK /\ topK \in Nat
      /\ d.experts = Prefix(batch[t], k)
      /\ d.weights = [i \in 1..k |-> [num |-> batch[t][d.experts[i]], den |-> den]]
  <2>1. /\ batch[t] \in [Experts -> Nat] /\ Arguments /\ Valid
        /\ d = Routed(batch[t]) /\ (~NaturalBatch => ~Refused(batch[t]))
    BY <1>1, TokenRouted
  <2>2. d.experts \in Seq(Experts) /\ DOMAIN d.experts = 1..k /\ k \in 1..topK /\ topK \in Nat
    BY <2>1, RoutedExperts
  <2>3. /\ d.experts = Prefix(batch[t], k)
        /\ d.weights = [i \in 1..k |-> [num |-> batch[t][d.experts[i]], den |-> den]]
    BY <2>1, RoutedDecision
  <2> QED
    BY <2>2, <2>3
<1>3. NaturalMass(batch[t]) # 0 => den = Mass(batch[t], d.experts)
  <2>1. NaturalBatch => k = topK
    BY <1>1, TokenRouted, NaturalBatchTakesTopK
  <2> QED
    BY <1>2, <2>1 DEF Denominator, NaturalMass
<1>4. Mass(batch[t], d.experts) = SumOf([i \in 1..k |-> batch[t][d.experts[i]]])
  BY <1>2 DEF Mass
<1> HIDE DEF d, m, k, den
<1>5. /\ DOMAIN m = 1..k /\ 1 \in 1..k
      /\ \A i \in 1..k : m[i].expert = d.experts[i]
                        /\ m[i].weight = [num |-> batch[t][d.experts[i]], den |-> den]
  BY <1>1, <1>2 DEF Contributions
<1>6. [i \in DOMAIN m |-> m[i].expert] = d.experts
  <2>1. d.experts = [i \in 1..k |-> d.experts[i]]
    BY <1>2
  <2> QED
    BY <1>5, <2>1
<1>w. \A i \in 1..k : m[i].weight.num = batch[t][d.experts[i]] /\ m[i].weight.den = den
  <2> TAKE i \in 1..k
  <2>1. m[i].weight = [num |-> batch[t][d.experts[i]], den |-> den]
    BY <1>5
  <2> DEFINE w == m[i].weight
             n == batch[t][d.experts[i]]
  <2> HIDE DEF w, n
  <2>2. w = [num |-> n, den |-> den]
    BY <2>1 DEF w, n
  <2>3. w.num = n /\ w.den = den
    BY <2>2
  <2> QED
    BY <2>3 DEF w, n
<1>7. m[1].weight.den = den
  BY <1>5, <1>w
<1>8. [i \in DOMAIN m |-> m[i].weight.num] = [i \in 1..k |-> batch[t][d.experts[i]]]
  BY <1>5, <1>w
<1>9. \A i \in DOMAIN m : m[i].weight = [num |-> batch[t][m[i].expert], den |-> den]
  BY <1>5
<1> QED
  BY <1>3, <1>4, <1>6, <1>7, <1>8, <1>9 DEF d, m

LEMMA RouterPathsAgree == RouterInv => PathsAgree
<1> SUFFICES ASSUME RouterInv, NEW t \in DOMAIN decisions, NaturalBatch, ~Refused(batch[t])
             PROVE  /\ decisions[t].experts = Decision(batch[t]).experts
                    /\ decisions[t].weights = Decision(batch[t]).weights
  BY DEF PathsAgree
<1>1. decisions[t] = Route(batch[t]) /\ SelectedK(batch[t], policy.floor) = topK
  BY TokenRouted, NaturalBatchTakesTopK DEF Routed
<1>2. Mass(batch[t], Prefix(batch[t], topK)) # 0
  BY DEF Refused, NaturalMass
<1>3. /\ Decision(batch[t]).experts = Prefix(batch[t], topK)
      /\ Decision(batch[t]).weights =
           [i \in 1..topK |-> [num |-> batch[t][Prefix(batch[t], topK)[i]],
                              den |-> Mass(batch[t], Prefix(batch[t], topK))]]
  BY <1>1 DEF Decision
<1> QED
  BY <1>1, <1>2, <1>3 DEF Route

LEMMA RouterInvIsEnough == RouterInv => FloorOnlyRaises
BY RouterTypes, RouterRaises, RouterTakesTheBest, RouterMixesConvexly, RouterPathsAgree DEF FloorOnlyRaises

\* A quality floor only ever adds experts, every path takes the best and mixes
\* them convexly by the unbiased scores, and the two paths agree: for any
\* experts, ladder, scores, biases and policy, and a batch of any length.
THEOREM RouterFloorOnlyRaises == RouterSpec => []FloorOnlyRaises
BY RouterInitInv, RouterNextInv, RouterInvIsEnough, PTL DEF RouterSpec
=============================================================================
