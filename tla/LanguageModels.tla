--------------------------- MODULE LanguageModels ---------------------------
(***************************************************************************)
(* What labs/speculative-decoding asks of a language model: a distribution *)
(* over the next token, given as integer weights with a common sum.  The   *)
(* models of models.py look at the length of the context only; here at the *)
(* length modulo LmPeriod.                                                 *)
(***************************************************************************)
EXTENDS Integers, Sequences, FiniteSets

CONSTANTS LmToken, LmEos,     \* the vocabulary and EOS_TOKEN_ID in it
          LmPeriod            \* contexts that a model tells apart

ASSUME LmAssumption == LmEos \in LmToken /\ LmPeriod \in Nat \ {0}

LmModels == [0..LmPeriod - 1 -> [LmToken -> Nat]]

\* get_probs of a context of n tokens.
LmProbs(model, n) == model[n % LmPeriod]

\* The tokens that model may choose one after another from n tokens on.
LmPlausible(model, n, tokens) ==
    \A j \in 1..Len(tokens) :
        tokens[j] \in LmToken /\ LmProbs(model, n + j - 1)[tokens[j]] > 0
=============================================================================
