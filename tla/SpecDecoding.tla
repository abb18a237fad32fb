---------------------------- MODULE SpecDecoding ----------------------------
(***************************************************************************)
(* labs/speculative-decoding: a draft model proposes tokens, the target    *)
(* accepts a part of them and adds one of its own.  Generation of one      *)
(* sequence (v0), of a batch (v1), one step of self-speculation and the    *)
(* verification of a draft tree (v2).  A random number is an outcome that  *)
(* has some probability; the 1e-9 in the code's quotients is left out.     *)
(***************************************************************************)
EXTENDS LanguageModels, FiniteSetsExt

CONSTANTS SdSlot,             \* the sequences of a batch, 1 .. size
          SdSum,              \* bound: weights of a distribution add up to it
          SdWidths,           \* bound: values of K, and of a tree's depth
          SdLimits,           \* bound: values of max_tokens
          SdBranches          \* width of a draft tree

ASSUME SdAssumption == /\ SdSlot \subseteq Nat /\ SdSum \in Nat
                       /\ SdWidths \subseteq Nat /\ SdLimits \subseteq Nat

VARIABLES sdAlgo, sdTarget, sdDraft, sdK, sdLimit, sdFrom,   \* the call
          sdText, sdDone,     \* generated and finished of each sequence
          sdPass,             \* sequences this pass over the batch has to visit
          sdStats,            \* SpeedupStats or AcceptanceRate
          sdLast              \* the last result and where its tokens stand

sdCallVars == <<sdAlgo, sdTarget, sdDraft, sdK, sdLimit, sdFrom>>
sdVars == <<sdCallVars, sdText, sdDone, sdPass, sdStats, sdLast>>

SdWeights == {w \in [LmToken -> 0..SdSum] : MapThenSumSet(LAMBDA t : w[t], LmToken) = SdSum}
SdModels == [0..LmPeriod - 1 -> SdWeights]

-----------------------------------------------------------------------------
\* u < min(1, p_target / p_draft) can hold for this token, and can fail.
SdAccepts(pt, t) == pt[t] > 0
SdRejects(pd, pt, t) == pt[t] <= pd[t]

\* Mutant: a rejected token is drawn again from the target as it is.
SdCorrectedMutant(pd, pt) == pt
\* The weights left for a token drawn after a rejection, when there are any.
SdCorrected(pd, pt) == [t \in LmToken |-> IF pt[t] > pd[t] THEN pt[t] - pd[t] ELSE 0]

SdResampled(pd, pt, t) ==
    IF \A x \in LmToken : SdCorrected(pd, pt)[x] = 0 THEN pt[t] > 0
    ELSE SdCorrected(pd, pt)[t] > 0

\* Mutant: a rejected token makes way for any token of the draft.
SdEndsMutant(n, drafted, m, t) ==
    /\ LmPlausible(sdTarget, n, SubSeq(drafted, 1, m))
    /\ IF m = Len(drafted) THEN LmProbs(sdTarget, n + m)[t] > 0
       ELSE LmProbs(sdDraft, n + m)[t] > 0
\* Of the drafted tokens m are accepted, and t comes after them.
SdEnds(n, drafted, m, t) ==
    LET pt == LmProbs(sdTarget, n + m)
        pd == LmProbs(sdDraft, n + m)
    IN  /\ \A j \in 1..m : SdAccepts(LmProbs(sdTarget, n + j - 1), drafted[j])
        /\ IF m = Len(drafted) THEN pt[t] > 0
           ELSE SdRejects(pd, pt, drafted[m + 1]) /\ SdResampled(pd, pt, t)

SdDrafts(n) == {d \in [1..sdK -> LmToken] : LmPlausible(sdDraft, n, d)}

-----------------------------------------------------------------------------
(* Draft trees: the most likely tokens of the draft at every node.         *)

SdTop(pd) == {t \in LmToken :
    Cardinality({x \in LmToken : pd[x] > pd[t] \/ (pd[x] = pd[t] /\ x < t)}) < SdBranches}

SdPaths(n) == {p \in [1..sdK -> LmToken] :
                  \A j \in 1..sdK : p[j] \in SdTop(LmProbs(sdDraft, n + j - 1))}

\* The walk along a path may stop after m tokens.
SdPathEnds(n, path, m) ==
    /\ \A j \in 1..m : SdAccepts(LmProbs(sdTarget, n + j - 1), path[j])
    /\ m < sdK => SdRejects(LmProbs(sdDraft, n + m), LmProbs(sdTarget, n + m), path[m + 1])

\* Every path is walked on its own and the longest walk wins.
SdBest(n, path, m) ==
    /\ SdPathEnds(n, path, m)
    /\ \A other \in SdPaths(n) : \E k \in 0..m : SdPathEnds(n, other, k)

-----------------------------------------------------------------------------
SdNoStats == [calls |-> 0, steps |-> 0, proposed |-> 0, accepted |-> 0, tokens |-> 0]

SdInit == /\ sdAlgo = "none" /\ sdTarget = <<>> /\ sdDraft = <<>>
          /\ sdK = 0 /\ sdLimit = 0
          /\ sdFrom = [i \in SdSlot |-> 0]
          /\ sdText = [i \in SdSlot |-> <<>>]
          /\ sdDone = [i \in SdSlot |-> TRUE]
          /\ sdPass = {} /\ sdStats = SdNoStats
          /\ sdLast = [from |-> 0, tokens |-> <<>>]

\* The first pass of a batch does not look at max_tokens: asked for none, it writes
\* one token.  The limit of such a call is taken to be 1.
SdLimit(algo, max) == IF algo = "batch" /\ max = 0 THEN 1 ELSE max

SdCall ==
    /\ sdAlgo = "none"
    /\ sdAlgo' \in {"generate", "batch", "self", "tree"}
    /\ sdTarget' \in SdModels /\ sdDraft' \in SdModels
    /\ sdK' \in SdWidths
    /\ \E max \in SdLimits :
          /\ sdAlgo' \in {"self", "tree"} => max = 0
          /\ sdLimit' = SdLimit(sdAlgo', max)
    /\ sdFrom' = [i \in SdSlot |-> i]
    /\ sdDone' = [i \in SdSlot |-> sdAlgo' # "batch" /\ (i # 1 \/ sdLimit' = 0)]
    /\ UNCHANGED <<sdText, sdPass, sdStats, sdLast>>

\* Mutant: tokens after the end of the sequence are kept.
SdAppendMutant(i, tokens) ==
    \E k \in 0..Len(tokens) :
        LET len == Len(sdText[i]) + k
        IN  /\ len <= sdLimit /\ (k < Len(tokens) => len = sdLimit)
            /\ sdText' = [sdText EXCEPT ![i] = @ \o SubSeq(tokens, 1, k)]
            /\ sdDone' = [sdDone EXCEPT ![i] = LmEos \in {tokens[j] : j \in 1..Len(tokens)}
                                               \/ len = sdLimit]
\* append_tokens: up to the end of the sequence or the limit.
SdAppend(i, tokens) ==
    \E k \in 0..Len(tokens) :
        LET len == Len(sdText[i]) + k
        IN  /\ len <= sdLimit
            /\ \A j \in 1..k : tokens[j] # LmEos
            /\ k < Len(tokens) => len = sdLimit \/ tokens[k + 1] = LmEos
            /\ sdText' = [sdText EXCEPT ![i] = @ \o SubSeq(tokens, 1, k)]
            /\ sdDone' = [sdDone EXCEPT ![i] = k < Len(tokens) \/ len = sdLimit]

\* Mutant: a step is taken to yield all it proposed.
SdCountMutant(m, newPass) ==
    [sdStats EXCEPT !.calls = @ + (IF newPass THEN 1 ELSE 0),
                    !.steps = @ + 1, !.proposed = @ + sdK,
                    !.accepted = @ + m, !.tokens = @ + sdK + 1]
SdCount(m, newPass) ==
    [sdStats EXCEPT !.calls = @ + (IF newPass THEN 1 ELSE 0),
                    !.steps = @ + 1, !.proposed = @ + sdK,
                    !.accepted = @ + m, !.tokens = @ + m + 1]

\* One speculative step for the next unfinished sequence; a target call is
\* counted when a pass over the batch begins.
SdStep(i) ==
    LET left == {j \in sdPass : ~sdDone[j]}
        pass == IF left = {} THEN {j \in SdSlot : ~sdDone[j]} ELSE left
        n == sdFrom[i] + Len(sdText[i])
    IN  /\ sdAlgo \in {"generate", "batch"}
        /\ i \in pass /\ \A j \in pass : i <= j
        /\ \E drafted \in SdDrafts(n) : \E m \in 0..sdK, t \in LmToken :
              /\ SdEnds(n, drafted, m, t)
              /\ SdAppend(i, Append(SubSeq(drafted, 1, m), t))
              /\ sdStats' = SdCount(m, left = {})
              /\ sdLast' = [from |-> n, tokens |-> Append(SubSeq(drafted, 1, m), t)]
        /\ sdPass' = pass \ {i}
        /\ UNCHANGED sdCallVars

\* SelfSpeculator.speculative_step; the caller keeps the context.
SdSelf == /\ sdAlgo = "self" /\ sdLast.tokens = <<>>
          /\ \E drafted \in SdDrafts(1) : \E m \in 0..sdK, t \in LmToken :
                /\ SdEnds(1, drafted, m, t)
                /\ sdLast' = [from |-> 1, tokens |-> Append(SubSeq(drafted, 1, m), t)]
          /\ UNCHANGED <<sdCallVars, sdText, sdDone, sdPass, sdStats>>

\* verify_tree: the bonus token comes from the target, rejection or not.
SdTree == /\ sdAlgo = "tree" /\ sdLast.tokens = <<>>
          /\ \E path \in SdPaths(1) : \E m \in 0..sdK, t \in LmToken :
                /\ SdBest(1, path, m)
                /\ LmProbs(sdTarget, 1 + m)[t] > 0
                /\ sdLast' = [from |-> 1, tokens |-> Append(SubSeq(path, 1, m), t)]
          /\ UNCHANGED <<sdCallVars, sdText, sdDone, sdPass, sdStats>>

\* Mutant: the pass breaks off at the first finished sequence.
SdDecodeMutant == \E i \in SdSlot : SdStep(i) /\ \A j \in SdSlot : j < i => ~sdDone[j]
SdDecode == \E i \in SdSlot : SdStep(i)

SdNext == SdCall \/ SdDecode \/ SdSelf \/ SdTree

SdSpec == SdInit /\ [][SdNext]_sdVars

-----------------------------------------------------------------------------
\* The call is one of those the bounds allow, and texts hold no end of sequence.
SdTypeOK ==
    /\ sdAlgo \in {"none", "generate", "batch", "self", "tree"}
    /\ sdTarget \in SdModels \cup {<<>>} /\ sdDraft \in SdModels \cup {<<>>}
    /\ sdK \in Nat /\ sdLimit \in Nat /\ sdFrom \in [SdSlot -> Nat]
    /\ sdText \in [SdSlot -> Seq(LmToken \ {LmEos})]
    /\ sdDone \in [SdSlot -> BOOLEAN]
    /\ sdPass \subseteq SdSlot
    /\ sdLast.from \in Nat /\ sdLast.tokens \in Seq(LmToken)

\* Every result, of a step or of a tree, is something the target could have
\* written, one to K + 1 tokens long.  (accept, reject and resample against the
\* distribution at the right position)
SdResultPlausible ==
    sdLast.tokens # <<>> =>
        /\ Len(sdLast.tokens) <= sdK + 1
        /\ LmPlausible(sdTarget, sdLast.from, sdLast.tokens)

\* A step leaves the target's distribution as it is: accepted and resampled
\* weights of a token add up to the target's.  (min(1, p_target / p_draft) and
\* the correction max(0, p_target - p_draft) / Z belong together)
SdExact ==
    sdTarget # <<>> =>
        \A c \in 0..LmPeriod - 1 :
            LET pt == sdTarget[c]
                pd == sdDraft[c]
                smaller(t) == IF pt[t] < pd[t] THEN pt[t] ELSE pd[t]
                left == SdCorrected(pd, pt)
                z == MapThenSumSet(LAMBDA t : left[t], LmToken)
                rejected == SdSum - MapThenSumSet(smaller, LmToken)
            IN  \A t \in LmToken : smaller(t) * z + rejected * left[t] = pt[t] * z

\* The numbers the speed-up is computed from: a step of a sequence proposes K
\* and yields one to K + 1 tokens, a target call serves the whole batch, and
\* only the last step of a finished sequence yields tokens nobody sees.
SdStatsOK ==
    LET written == MapThenSumSet(LAMBDA i : Len(sdText[i]), SdSlot)
        ended == Cardinality({i \in SdSlot : sdDone[i]})
    IN  /\ sdStats.proposed = sdK * sdStats.steps
        /\ sdStats.accepted <= sdStats.proposed
        /\ sdStats.tokens = sdStats.accepted + sdStats.steps
        /\ sdStats.calls <= sdStats.steps
        /\ sdStats.steps <= Cardinality(SdSlot) * sdStats.calls
        /\ written <= sdStats.tokens
        /\ sdStats.tokens <= written + (sdK + 1) * ended

\* A loop is to end: every step adds a token or finishes its sequence.
SdOwed == sdAlgo \in {"generate", "batch"} /\ \E i \in SdSlot : ~sdDone[i]

Standard == INSTANCE TargetDecoding WITH
    TdSlot <- SdSlot, tdTarget <- sdTarget, tdFrom <- sdFrom, tdLimit <- sdLimit,
    tdText <- sdText, tdDone <- sdDone

\* What a sequence grows to is what the target alone could have written, up to
\* the same limit, whatever the draft proposes and whoever shares the batch.
SdImplementsTarget == Standard!TdSpec
=============================================================================
