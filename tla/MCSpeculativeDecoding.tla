------------------------ MODULE MCSpeculativeDecoding ------------------------
(***************************************************************************)
(* Instances of SpeculativeDecoding for TLC: two tokens, a target model     *)
(* whose choice depends on everything it has read, and draft models that    *)
(* disagree with it at any set of positions.                                *)
(***************************************************************************)
EXTENDS SpeculativeDecoding

MCTokens == {1, 2}
MCPrompt == <<2>>

MCTarget(context) ==
  1 + ((Cardinality({i \in DOMAIN context : context[i] = 2})
          + Len(context) \div 2) % 2)

\* A draft model is the set of positions at which it is wrong.
MCModels == SUBSET (2..7)
MCDraft(m, context) ==
  IF Len(context) \in m THEN 3 - MCTarget(context) ELSE MCTarget(context)

Config(p, e, a) == [provider |-> p, expertMajor |-> e, adaptive |-> a]
MCAll == {Config(p, e, a) : p \in Providers, e \in BOOLEAN, a \in BOOLEAN}
MCAdaptiveExpertMajor == {Config("replay", TRUE, TRUE)}

\* 9 is outside the vocabulary, and five candidates are too many.
MCScripted ==
  [anchor : MCTokens,
   candidates : {<<>>, <<9>>, <<1, 2, 1, 2, 1>>}
                  \cup MCTokens \X MCTokens \cup {<<t>> : t \in MCTokens}]
==============================================================================
