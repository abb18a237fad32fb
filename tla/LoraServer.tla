----------------------------- MODULE LoraServer -----------------------------
(***************************************************************************)
(* labs/lora-finetune.  One model whose LoRA layers are shared by every    *)
(* request: /train runs a trainer in a thread and accumulates gradients in *)
(* the parameters' own .grad, /switch-adapter and the first half of        *)
(* /generate copy a saved adapter over the layers on the event loop, and   *)
(* /generate produces its tokens in a thread.  Nothing takes a lock.       *)
(* Weights are represented by where they come from: the checkpoint, an     *)
(* adapter file, a training run, or "nan".  Next to the LoRA layers stands *)
(* the rest of the model, LoBase, whose parameters inject_lora leaves      *)
(* trainable where it does not wrap them.                                  *)
(***************************************************************************)
EXTENDS Naturals, Sequences, SequencesExt, FiniteSets, FiniteSetsExt

CONSTANTS LoCall, LoLayer,     \* requests (numbers), LoRA layers 1..n
          LoFile,              \* adapter files that cover every layer
          LoJobs,              \* what /train is given: records of epochs and of samples,
                               \* a sequence of <<prompt, output>> lengths
          LoAccum, LoBatch, LoMaxLen,
          LoMaxTokens

VARIABLES loCall,              \* the state of each request
          loWeights, loGrad,   \* origin, by layer and of LoBase; batches in .grad
          loTraining,          \* model.train() or model.eval()
          loFiles, loCurrent,  \* saved adapters (layer -> origin); _current_adapter
          loLoop               \* the request that occupies the event loop

loVars == <<loCall, loWeights, loGrad, loTraining, loFiles, loCurrent, loLoop>>

LoNone == 0
LoBase == 0                    \* of what no layer wraps
LoPartial == "partial"         \* a file for the first layer only
LoIdle == [phase |-> "new"]

ASSUME LoAssumption ==
    /\ LoAccum \in Nat \ {0} /\ LoBatch \in Nat \ {0}
    /\ LoNone \notin LoCall /\ LoLayer \subseteq Nat \ {LoBase} /\ 1 \in LoLayer
    /\ LoFile \cap {"none", "missing"} = {}

\* inject_lora wraps the linear layers it is told to, and none of a model whose
\* attention is a Conv1D, as in gpt2.
LoInit ==
    /\ loCall = [c \in LoCall |-> LoIdle]
    /\ \E layers \in {LoLayer, {}} : loWeights = [l \in layers \cup {LoBase} |-> "base"]
    /\ loGrad = {} /\ loTraining = FALSE
    /\ loFiles = [f \in LoFile \cup {LoPartial} |->
                     [l \in IF f = LoPartial THEN {1} ELSE LoLayer |-> f]]
    /\ loCurrent = "none" /\ loLoop = LoNone

LoWrapped == DOMAIN loWeights \ {LoBase}

-----------------------------------------------------------------------------
(* dataset.tokenize_sample, collate_batch: how many labels are not -100.   *)

\* Truncation keeps the first LoMaxLen tokens, the prompt is masked.
LoTrained(sample) ==
    LET full == Min({sample[1] + sample[2], LoMaxLen})
        prompt == Min({sample[1], LoMaxLen, full})
    IN  full - prompt

LoTokens(batch) == FoldSeq(LAMBDA s, n : n + LoTrained(s), 0, batch)

\* The mean over no label is not a number, and neither is a loss of such weights.
LoLossNaN(batch) ==
    LoTokens(batch) = 0 \/ \E l \in DOMAIN loWeights : loWeights[l] = "nan"

-----------------------------------------------------------------------------
(* Requests.  "met" is what else was active while a request was.           *)

LoActive(c) == loCall[c].phase \notin {"new", "done", "failed"}
LoOthers(c) == {d \in LoCall \ {c} : LoActive(d)}

LoEnter(c, r) ==
    loCall' = [d \in LoCall |->
        IF d = c THEN [r EXCEPT !.met = LoOthers(c)]
        ELSE IF LoActive(d) THEN [loCall[d] EXCEPT !.met = @ \cup {c}] ELSE loCall[d]]

LoUpdate(c, r) == loCall' = [loCall EXCEPT ![c] = r]

LoTrain(c) ==
    /\ loCall[c].phase = "new" /\ loLoop = LoNone
    /\ \E job \in LoJobs, file \in LoFile \cup {"none"} :
          LoEnter(c, [epochs |-> job.epochs, samples |-> job.samples, phase |-> "begin",
                      file |-> file, order |-> <<>>, batches |-> 0, accum |-> 0,
                      tokens |-> 0, steps |-> <<>>, total |-> 0, met |-> {}])
    /\ UNCHANGED <<loWeights, loGrad, loTraining, loFiles, loCurrent, loLoop>>

\* train(): model.train(), which an error for want of samples leaves behind; .grad
\* is not cleared.
LoTrainBegin(c) ==
    /\ loCall[c].phase = "begin"
    /\ loTraining' = TRUE
    /\ LoUpdate(c, [loCall[c] EXCEPT !.phase = IF loCall[c].samples = <<>> THEN "failed"
                                               ELSE "epoch"])
    /\ UNCHANGED <<loWeights, loGrad, loFiles, loCurrent, loLoop>>

\* An epoch shuffles the samples; after the last one come the leftovers.
LoEpoch(c) ==
    LET r == loCall[c]
    IN  /\ r.phase = "epoch"
        /\ IF r.epochs > 0
           THEN \E p \in Permutations(DOMAIN r.samples) :
                   LoUpdate(c, [r EXCEPT !.phase = "batch", !.epochs = @ - 1,
                                         !.order = [i \in DOMAIN p |-> r.samples[p[i]]]])
           ELSE LoUpdate(c, [r EXCEPT !.phase = IF r.accum > 0 THEN "leftover" ELSE "finish"])
        /\ UNCHANGED <<loWeights, loGrad, loTraining, loFiles, loCurrent, loLoop>>

\* One batch: forward, loss and backward, which adds to .grad.
LoBackward(c) ==
    LET r == loCall[c]
        n == Min({LoBatch, Len(r.order)})
        batch == SubSeq(r.order, 1, n)
    IN  /\ r.phase = "batch"
        /\ IF r.order = <<>>
           THEN /\ LoUpdate(c, [r EXCEPT !.phase = "epoch"]) /\ UNCHANGED loGrad
           ELSE /\ loGrad' = loGrad \cup {<<c, r.batches + 1, LoLossNaN(batch)>>}
                /\ LoUpdate(c, [r EXCEPT !.order = SubSeq(@, n + 1, Len(@)),
                                         !.batches = @ + 1, !.accum = @ + 1,
                                         !.tokens = @ + LoTokens(batch),
                                         !.phase = IF r.accum + 1 >= LoAccum THEN "step" ELSE @])
        /\ UNCHANGED <<loWeights, loTraining, loFiles, loCurrent, loLoop>>

\* clip_grad_norm_ and optimizer.step: whatever is in .grad is applied, to all that
\* is trainable.
LoStep(c) ==
    LET r == loCall[c]
        origin == IF \E g \in loGrad : g[3] THEN "nan" ELSE "trained"
    IN  /\ r.phase \in {"step", "leftover"}
        /\ loWeights' = [l \in DOMAIN loWeights |->
                            IF loGrad = {} \/ loWeights[l] = "nan" THEN loWeights[l] ELSE origin]
        /\ LoUpdate(c, [r EXCEPT !.steps = Append(@, {<<g[1], g[2]>> : g \in loGrad}),
                                 !.phase = IF @ = "step" THEN "zero" ELSE "lastzero"])
        /\ UNCHANGED <<loGrad, loTraining, loFiles, loCurrent, loLoop>>

\* Mutant: no zero_grad after a step of the loop.
LoZeroGradMutant(c) ==
    LET r == loCall[c]
    IN  /\ r.phase \in {"zero", "lastzero"}
        /\ loGrad' = IF r.phase = "zero" THEN loGrad ELSE {}
        /\ LoUpdate(c, IF r.phase = "zero"
                       THEN [r EXCEPT !.total = @ + 1, !.accum = 0, !.phase = "batch"]
                       ELSE [r EXCEPT !.phase = "finish"])
        /\ UNCHANGED <<loWeights, loTraining, loFiles, loCurrent, loLoop>>
\* zero_grad; global_step counts the steps of the loop, not the last one of leftovers.
LoZeroGrad(c) ==
    LET r == loCall[c]
    IN  /\ r.phase \in {"zero", "lastzero"}
        /\ loGrad' = {}
        /\ LoUpdate(c, IF r.phase = "zero"
                       THEN [r EXCEPT !.total = @ + 1, !.accum = 0, !.phase = "batch"]
                       ELSE [r EXCEPT !.phase = "finish"])
        /\ UNCHANGED <<loWeights, loTraining, loFiles, loCurrent, loLoop>>

LoTrainEnd(c) ==
    /\ loCall[c].phase = "finish"
    /\ loTraining' = FALSE
    /\ LoUpdate(c, [loCall[c] EXCEPT !.phase = "save"])
    /\ UNCHANGED <<loWeights, loGrad, loFiles, loCurrent, loLoop>>

\* Back on the loop: save_lora_adapter of what the model holds by now.
LoSave(c) ==
    LET r == loCall[c]
    IN  /\ r.phase = "save" /\ loLoop = LoNone
        /\ loFiles' = IF r.file = "none" THEN loFiles
                      ELSE [loFiles EXCEPT ![r.file] = [l \in LoWrapped |-> loWeights[l]]]
        /\ LoUpdate(c, [r EXCEPT !.phase = "done"])
        /\ UNCHANGED <<loWeights, loGrad, loTraining, loCurrent, loLoop>>

-----------------------------------------------------------------------------
\* /switch-adapter, or /generate with an adapter_path; a file that does not
\* exist is refused at once.
LoAsk(c) ==
    /\ loCall[c].phase = "new" /\ loLoop = LoNone
    /\ \E text \in BOOLEAN, file \in DOMAIN loFiles \cup {"none", "missing"} :
          /\ text \/ file # "none"
          /\ LoEnter(c, [phase |-> CASE file = "missing" -> "failed"
                                     [] file = "none" -> "generate"
                                     [] OTHER -> "load",
                         text |-> text, file |-> file, layers |-> {}, tokens |-> <<>>, met |-> {},
                         asked |-> IF file \in DOMAIN loFiles THEN loFiles[file] ELSE loWeights])
          /\ loLoop' = IF file \in DOMAIN loFiles THEN c ELSE LoNone
    /\ UNCHANGED <<loWeights, loGrad, loTraining, loFiles, loCurrent>>

LoMatched(r) == DOMAIN r.asked \cap LoWrapped

\* Mutant: the first layer ends the copying.
LoLoadMutant(c) ==
    LET r == loCall[c]
    IN  /\ r.phase = "load" /\ r.layers = {} /\ 1 \in LoMatched(r)
        /\ loWeights' = [loWeights EXCEPT ![1] = r.asked[1]]
        /\ LoUpdate(c, [r EXCEPT !.layers = LoMatched(r)])
        /\ UNCHANGED <<loGrad, loTraining, loFiles, loCurrent, loLoop>>
\* load_lora_adapter copies layer after layer, those the file has.
LoLoad(c) ==
    LET r == loCall[c]
    IN  /\ r.phase = "load"
        /\ \E l \in LoMatched(r) \ r.layers :
              /\ \A k \in LoMatched(r) \ r.layers : l <= k
              /\ loWeights' = [loWeights EXCEPT ![l] = r.asked[l]]
              /\ LoUpdate(c, [r EXCEPT !.layers = @ \cup {l}])
        /\ UNCHANGED <<loGrad, loTraining, loFiles, loCurrent, loLoop>>

\* Mutant: the event loop is kept.
LoLoadedMutant(c) ==
    LET r == loCall[c]
    IN  /\ r.phase = "load" /\ LoMatched(r) = r.layers
        /\ loCurrent' = r.file
        /\ LoUpdate(c, [r EXCEPT !.phase = IF r.text THEN "generate" ELSE "done"])
        /\ UNCHANGED <<loWeights, loGrad, loTraining, loFiles, loLoop>>
\* ... and fails when there are none; switch_adapter notes the others.
LoLoaded(c) ==
    LET r == loCall[c]
    IN  /\ r.phase = "load" /\ LoMatched(r) = r.layers
        /\ loLoop' = LoNone
        /\ loCurrent' = IF r.layers = {} THEN loCurrent ELSE r.file
        /\ LoUpdate(c, [r EXCEPT !.phase = IF r.layers = {} THEN "failed"
                                           ELSE IF r.text THEN "generate" ELSE "done"])
        /\ UNCHANGED <<loWeights, loGrad, loTraining, loFiles>>

\* The thread of generate: one forward pass per token, with whatever the
\* layers hold and the mode the model is in.
LoToken(c) ==
    LET r == loCall[c]
        tokens == Append(r.tokens, [from |-> loWeights, dropout |-> loTraining])
    IN  /\ r.phase = "generate"
        /\ \E eos \in BOOLEAN :
              LoUpdate(c, [r EXCEPT !.tokens = tokens,
                                    !.phase = IF eos \/ Len(tokens) >= LoMaxTokens
                                              THEN "done" ELSE @])
        /\ UNCHANGED <<loWeights, loGrad, loTraining, loFiles, loCurrent, loLoop>>

LoProceed(c) == \/ LoTrainBegin(c) \/ LoEpoch(c) \/ LoBackward(c) \/ LoStep(c)
                \/ LoZeroGrad(c) \/ LoTrainEnd(c) \/ LoSave(c)
                \/ LoLoad(c) \/ LoLoaded(c) \/ LoToken(c)

LoNext == \E c \in LoCall : LoTrain(c) \/ LoAsk(c) \/ LoProceed(c)

LoSpec == LoInit /\ [][LoNext]_loVars

-----------------------------------------------------------------------------
LoIsTrain(c) == "epochs" \in DOMAIN loCall[c]
LoAlone(c) == loCall[c].phase = "done" /\ \A d \in loCall[c].met : ~LoIsTrain(d)

\* A call that holds the event loop is loading, and no other is.
LoTypeOK ==
    /\ LoWrapped \in {LoLayer, {}} /\ LoBase \in DOMAIN loWeights /\ loTraining \in BOOLEAN
    /\ \A c \in LoCall : loCall[c].phase = "load" <=> loLoop = c
    /\ loCurrent \in DOMAIN loFiles \cup {"none"}

\* Without another trainer beside it, a run applies the gradient of every batch
\* in exactly one optimizer step, whole groups of LoAccum batches and then what
\* is left, across epochs.  (LoraTrainer.train; .grad is shared and never
\* cleared at the start)
LoBatchesOnce ==
    \A c \in LoCall : LoIsTrain(c) /\ LoAlone(c) =>
        LET r == loCall[c]
        IN  /\ \A k \in DOMAIN r.steps :
                  r.steps[k] = {<<c, b>> : b \in (k - 1) * LoAccum + 1
                                              .. Min({k * LoAccum, r.batches})}
            /\ Len(r.steps) * LoAccum >= r.batches

\* A text no trainer and no other adapter came between is of one state of the model
\* throughout, with the layers of the adapter asked for as it was saved; a file
\* that lacks a layer leaves the old one there.  It has no dropout, unless a
\* request to train has failed.  (generate)
LoTextOfAdapter ==
    \A c \in LoCall : loCall[c].phase = "done" /\ "text" \in DOMAIN loCall[c] =>
        LET r == loCall[c]
        IN  r.met = {} => \A i \in DOMAIN r.tokens :
               /\ r.tokens[i].dropout =>
                     \E d \in LoCall : LoIsTrain(d) /\ loCall[d].phase = "failed"
               /\ \A l \in DOMAIN r.asked \cap DOMAIN r.tokens[i].from :
                     r.tokens[i].from[l] = r.asked[l]
               /\ \A j \in DOMAIN r.tokens : r.tokens[i] = r.tokens[j]

LoFaithful == LoBatchesOnce /\ LoTextOfAdapter
=============================================================================
