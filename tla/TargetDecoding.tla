--------------------------- MODULE TargetDecoding ---------------------------
(***************************************************************************)
(* What a decoder owes the target model, whatever it uses to go faster: a  *)
(* sequence only grows, by tokens the target may choose at their places,   *)
(* never past an end of sequence or past the limit, and it is finished for *)
(* no other reason.                                                        *)
(***************************************************************************)
EXTENDS LanguageModels

CONSTANTS TdSlot
VARIABLES tdTarget,           \* the target model; <<>> before a call
          tdFrom, tdLimit,    \* length of the prompt; tokens to write
          tdText, tdDone      \* what each sequence has grown to, and if it ended

tdVars == <<tdTarget, tdFrom, tdLimit, tdText, tdDone>>

TdInit == /\ tdTarget = <<>> /\ tdLimit = 0
          /\ tdFrom = [i \in TdSlot |-> 0]
          /\ tdText = [i \in TdSlot |-> <<>>]
          /\ tdDone = [i \in TdSlot |-> TRUE]

TdCall ==
    /\ tdTarget = <<>>
    /\ tdTarget' \in LmModels /\ tdLimit' \in Nat
    /\ tdFrom' \in [TdSlot -> Nat] /\ tdDone' \in [TdSlot -> BOOLEAN]
    /\ UNCHANGED tdText

\* Sequence i grows by one or more tokens, or ends.
TdGrow(i) ==
    LET more == SubSeq(tdText'[i], Len(tdText[i]) + 1, Len(tdText'[i]))
        n == tdFrom[i] + Len(tdText[i])
        len == Len(tdText[i]) + Len(more)
    IN  /\ ~tdDone[i]
        /\ tdText' = [tdText EXCEPT ![i] = @ \o more]
        /\ more \in Seq(LmToken \ {LmEos})
        /\ LmPlausible(tdTarget, n, more)
        /\ len <= tdLimit
        /\ \/ tdDone' = tdDone /\ more # <<>>
           \/ /\ tdDone' = [tdDone EXCEPT ![i] = TRUE]
              /\ len = tdLimit \/ LmProbs(tdTarget, n + Len(more))[LmEos] > 0
        /\ UNCHANGED <<tdTarget, tdFrom, tdLimit>>

TdNext == TdCall \/ \E i \in TdSlot : TdGrow(i)

TdSpec == TdInit /\ [][TdNext]_tdVars
=============================================================================
