----------------------------- MODULE EvalHarness -----------------------------
(***************************************************************************)
(* labs/llm-eval: training texts are indexed shard by shard, a task loses  *)
(* the examples found in them, what is left is evaluated example by        *)
(* example (the answer the model writes, or the choice it scores best),    *)
(* each under a prompt with others as demonstrations, and reported with a  *)
(* bootstrap interval; a suite averages over tasks.  A text is a sequence  *)
(* of words, and an example its text with the answer that is right.        *)
(***************************************************************************)
EXTENDS Integers, Sequences, SequencesExt, FiniteSetsExt

CONSTANTS EhTasks,                \* sequences of examples
          EhShards,               \* bound: what may be indexed
          EhNgram, EhThreshold,   \* NGRAM_SIZE, CONTAMINATION_THRESHOLD as a fraction
          EhShots,                \* n_shot
          EhCosts, EhLengths,     \* bounds: of the choices, -log P
          EhMaxShards, EhMaxRuns  \* bounds

ASSUME EhAssumption == /\ EhNgram \in Nat \ {0}
                       /\ EhCosts \subseteq Nat

VARIABLES ehTexts,                \* the texts indexed
          ehRun,                  \* the evaluation under way
          ehSuite, ehRuns         \* accuracies by task

ehVars == <<ehTexts, ehRun, ehSuite, ehRuns>>

EhLogprobs == {-c : c \in EhCosts}
EhIdle == [phase |-> "idle"]
EhInit == ehTexts = <<>> /\ ehRun = EhIdle /\ ehSuite = <<>> /\ ehRuns = 0

-----------------------------------------------------------------------------
\* _make_ngrams: a shorter text is one n-gram, unless it is empty.
EhNgrams(text) ==
    IF text = <<>> THEN {}
    ELSE IF Len(text) < EhNgram THEN {text}
    ELSE {SubSeq(text, i, i + EhNgram - 1) : i \in 1..Len(text) - EhNgram + 1}

EhIndex == UNION {EhNgrams(t) : t \in ToSet(ehTexts)}
EhWithin(text, t) == \E i \in 0..Len(t) - Len(text) : SubSeq(t, i + 1, i + Len(text)) = text

\* Mutant: short examples are looked up among the n-grams.
EhContaminationMutant(text) ==
    LET grams == EhNgrams(text)
    IN  IF grams = {} THEN <<0, 1>> ELSE <<Cardinality(grams \cap EhIndex), Cardinality(grams)>>
\* check_contamination, as a fraction.
EhContamination(text) ==
    LET grams == EhNgrams(text)
    IN  IF Len(text) \in 1..EhNgram - 1
        THEN IF \E t \in ToSet(ehTexts) : EhWithin(text, t) THEN <<1, 1>> ELSE <<0, 1>>
        ELSE IF grams = {} THEN <<0, 1>>
        ELSE <<Cardinality(grams \cap EhIndex), Cardinality(grams)>>

EhContaminated(text) ==
    LET f == EhContamination(text) IN f[1] * EhThreshold[2] > EhThreshold[1] * f[2]

EhAddShard(texts) ==
    /\ ehRun = EhIdle /\ Len(ehTexts) + Len(texts) <= EhMaxShards
    /\ ehTexts' = ehTexts \o texts
    /\ UNCHANGED <<ehRun, ehSuite, ehRuns>>

-----------------------------------------------------------------------------
\* Harness.run filters; the evaluators are also called on the whole task.
EhStart(task, mode) ==
    /\ ehRun = EhIdle /\ ehRuns < EhMaxRuns
    /\ \E filter \in BOOLEAN, shots \in EhShots :
          LET kept == IF filter THEN SelectSeq(EhTasks[task], LAMBDA e : ~EhContaminated(e.text))
                      ELSE EhTasks[task]
          IN  ehRun' = [phase |-> "examples", task |-> task, mode |-> mode, filter |-> filter,
                        shots |-> shots, examples |-> kept,
                        removed |-> Len(EhTasks[task]) - Len(kept),
                        results |-> <<>>, prompts |-> <<>>, choices |-> <<>>]
    /\ ehRuns' = ehRuns + 1 /\ UNCHANGED <<ehTexts, ehSuite>>

\* build_prompt: the first n_shot of the others, by their position.
EhPrompt(run, i) ==
    LET others == SelectSeq([j \in DOMAIN run.examples |-> j], LAMBDA j : j # i)
    IN  SubSeq(others, 1, Min({run.shots, Len(others)}))

EhNormalized(c) == <<c.logprob, Max({1, c.tokens})>>
\* less the bias under the content-free context
EhCalibrated(c) == <<c.logprob - c.prior, 1>>

\* Mutant: multiplied by the length.
EhScoreMutant(mode, c) ==
    CASE mode = "raw"        -> <<c.logprob, 1>>
      [] mode = "normalized" -> <<c.logprob * Max({1, c.tokens}), 1>>
      [] mode = "calibrated" -> <<c.logprob - c.prior, 1>>
\* _score_choice, as a fraction; a choice has at least one token.
EhScore(mode, c) ==
    CASE mode = "raw"        -> <<c.logprob, 1>>
      [] mode = "normalized" -> EhNormalized(c)
      [] mode = "calibrated" -> EhCalibrated(c)

\* max over the labels in their order: the first of the best.
EhBest(mode, choices) ==
    LET less(c, d) == LET p == EhScore(mode, c)
                          q == EhScore(mode, d)
                      IN  p[1] * q[2] < q[1] * p[2]
    IN  CHOOSE i \in DOMAIN choices :
            /\ \A j \in DOMAIN choices : ~less(choices[i], choices[j])
            /\ \A j \in 1..i - 1 : less(choices[j], choices[i])

EhExample ==
    LET i == Len(ehRun.results) + 1
        goOn(answer, choices) ==
            ehRun' = [ehRun EXCEPT !.prompts = Append(@, EhPrompt(ehRun, i)), !.choices = choices,
                                   !.results = Append(@, answer = ehRun.examples[i].answer)]
    IN  /\ ehRun.phase = "examples" /\ i <= Len(ehRun.examples)
        /\ \/ /\ ehRun.mode = "written"
              /\ \E answer \in {0, 1, 2} : goOn(answer, <<>>)       \* 0: none was found
           \/ /\ ehRun.mode # "written"
              /\ \E choices \in [1..2 -> [logprob : EhLogprobs,
                                          tokens : IF ehRun.mode = "normalized" THEN EhLengths ELSE {1},
                                          prior : IF ehRun.mode = "calibrated" THEN EhLogprobs ELSE {0}]] :
                    goOn(EhBest(ehRun.mode, choices), choices)
        /\ UNCHANGED <<ehTexts, ehSuite, ehRuns>>

EhCorrect(results) == Cardinality({i \in DOMAIN results : results[i]})

\* bootstrap_ci: the two outer ones of resampled counts (percentiles of many).
EhReport ==
    LET n == Len(ehRun.results)
        correct == EhCorrect(ehRun.results)
        means == IF n = 0 THEN {0} ELSE {k \in 0..n : (k > 0 => correct > 0) /\ (k < n => correct < n)}
    IN  /\ ehRun.phase = "examples" /\ n = Len(ehRun.examples)
        /\ \E lower, upper \in means :
              /\ lower <= upper
              /\ ehRun' = [phase |-> "reported", task |-> ehRun.task, filter |-> ehRun.filter,
                           correct |-> correct, total |-> n + ehRun.removed, removed |-> ehRun.removed,
                           lower |-> lower, upper |-> upper]
        /\ UNCHANGED <<ehTexts, ehSuite, ehRuns>>

\* EvalSuite.run keeps the last accuracy of a task name.
EhRecord ==
    LET r == ehRun
        accuracy == <<r.correct, r.total - r.removed>>
        known == {i \in DOMAIN ehSuite : ehSuite[i].task = r.task}
    IN  /\ r.phase = "reported"
        /\ ehRun' = EhIdle
        /\ ehSuite' = IF known = {} THEN Append(ehSuite, [task |-> r.task, accuracy |-> accuracy])
                      ELSE [i \in DOMAIN ehSuite |->
                               IF i \in known THEN [ehSuite[i] EXCEPT !.accuracy = accuracy] ELSE ehSuite[i]]
        /\ UNCHANGED <<ehTexts, ehRuns>>

EhNext == \/ \E texts \in EhShards : EhAddShard(texts)
          \/ \E task \in DOMAIN EhTasks, mode \in {"written", "raw", "normalized", "calibrated"} :
                EhStart(task, mode)
          \/ EhExample \/ EhReport \/ EhRecord

-----------------------------------------------------------------------------
EhTypeOK == /\ ehRun.phase \in {"idle", "examples", "reported"}
            /\ IsInjective([i \in DOMAIN ehSuite |-> ehSuite[i].task])

\* An example that stands word for word in a text trained on is never evaluated,
\* nor shown as a demonstration; one that shares no run of words with any
\* always is.  (ContaminationDetector, across shards)
EhClean ==
    ehRun.phase = "examples" /\ ehRun.filter =>
        LET all == ToSet(EhTasks[ehRun.task])
            known(e) == e.text # <<>> /\ \E t \in ToSet(ehTexts) : EhWithin(e.text, t)
            strange(e) == \A t \in ToSet(ehTexts) :
                              ~EhWithin(SubSeq(e.text, 1, Min({EhNgram, Len(e.text)})), t)
                              /\ EhNgrams(e.text) \cap EhNgrams(t) = {}
        IN  \A e \in all : /\ known(e) => e \notin ToSet(ehRun.examples)
                           /\ strange(e) => e \in ToSet(ehRun.examples)

\* A prompt never shows the example it asks about and shows as many others as
\* there are, up to n_shot.
EhNoLeak ==
    ehRun.phase = "examples" =>
        \A i \in DOMAIN ehRun.prompts :
            /\ i \notin ToSet(ehRun.prompts[i])
            /\ Cardinality(ToSet(ehRun.prompts[i])) = Min({ehRun.shots, Len(ehRun.examples) - 1})

\* "Normalization prevents bias toward shorter choices": of two choices, the
\* shorter does not win when the longer is at least as probable.
EhNotShorter ==
    ehRun.phase = "examples" /\ ehRun.mode = "normalized" /\ ehRun.choices # <<>> =>
        LET best == EhBest("normalized", ehRun.choices)
            c == ehRun.choices[best]
            d == ehRun.choices[3 - best]
        IN  ~(c.tokens < d.tokens /\ d.tokens > 1 /\ c.logprob <= d.logprob /\ c.logprob < 0)

\* A report accounts for every example of the task once; its interval holds the
\* accuracy when that is 0 or 1.
EhAccounted ==
    ehRun.phase = "reported" =>
        /\ ehRun.total = Len(EhTasks[ehRun.task])
        /\ ehRun.correct \in {0, ehRun.total - ehRun.removed} =>
              ehRun.lower = ehRun.correct /\ ehRun.upper = ehRun.correct

EhFaithful == EhClean /\ EhNoLeak /\ EhNotShorter /\ EhAccounted
=============================================================================
