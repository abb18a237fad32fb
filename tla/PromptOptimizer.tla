--------------------------- MODULE PromptOptimizer ---------------------------
(***************************************************************************)
(* labs/prompt-optimization.  A compilation tries configurations of a      *)
(* prompt (demonstrations bootstrapped from the training set, or candidate *)
(* instructions) on validation examples and keeps the first of the best;   *)
(* a counter between it and the language model enforces a budget.  The     *)
(* server compiles in threads and publishes module and history in two      *)
(* globals.  What the model gets right is a set of examples for every      *)
(* configuration; all the rest of a compilation is local to its thread.    *)
(***************************************************************************)
EXTENDS Naturals, Sequences, SequencesExt, FiniteSetsExt

CONSTANTS PoCall, PoTrain, PoVal,      \* compilations, sequences of examples
          PoDemos, PoTrials,           \* max_bootstrapped_demos, num_trials
          PoInstructions,              \* candidates, tried in order
          PoBudgets,
          PoRightSets                  \* bound: sets of examples a prompt gets right

PoNone == 0
ASSUME PoAssumption ==
    /\ PoNone \notin PoCall /\ PoDemos \in Nat /\ PoTrials \in Nat /\ PoBudgets \subseteq Nat
    /\ PoTrain \in Seq(ToSet(PoTrain)) /\ PoVal \in Seq(ToSet(PoVal))

VARIABLES poCall,                \* the state of each compilation
          poModule, poHistory    \* whose results the globals hold

poVars == <<poCall, poModule, poHistory>>

PoInit == /\ poCall = [c \in PoCall |-> [phase |-> "new"]]
          /\ poModule = PoNone /\ poHistory = PoNone

PoActive(c) == poCall[c].phase \notin {"new", "done", "raised"}

-----------------------------------------------------------------------------
\* _CallCounter: the calls above the limit raise, and are counted too; those
\* who call it take any exception for a wrong answer.
PoAsk(examples, right, count, budget) ==
    [right |-> {e \in ToSet(examples) :
                   /\ e \in right
                   /\ count + (CHOOSE i \in DOMAIN examples : examples[i] = e) <= budget},
     count |-> count + Len(examples)]

\* evaluate, and the entry of the history.
PoTrial(r, config) ==
    LET asked == PoAsk(PoVal, r.right[config], r.count, r.budget)
    IN  [config |-> config, correct |-> Cardinality(asked.right),
         exceeded |-> asked.count > r.budget, calls |-> asked.count - r.count]

\* Mutant: the last of the best.
PoBetterMutant(entry, best) == best = <<>> \/ entry.correct >= best[1].correct
PoBetter(entry, best) == best = <<>> \/ entry.correct > best[1].correct

\* The demonstrations a trial may sample.
PoSamples(pool) == kSubset(Min({PoDemos, Cardinality(pool)}), pool)

-----------------------------------------------------------------------------
\* A compilation begins; the others that run at the time are remembered.
PoBegin(c) ==
    /\ poCall[c].phase = "new"
    /\ \E kind \in {"search", "instructions"}, budget \in PoBudgets :
       \E known \in IF kind = "search" THEN PoRightSets ELSE {{}} :
       \E right \in [IF kind = "search" THEN UNION {kSubset(n, known) : n \in 0..PoDemos}
                     ELSE ToSet(PoInstructions) -> PoRightSets] :
          poCall' = [d \in PoCall |->
              IF d = c THEN [phase |-> "bootstrap", kind |-> kind, budget |-> budget,
                             known |-> known, right |-> right, count |-> 0, pool |-> {},
                             best |-> <<>>, history |-> <<>>,
                             met |-> {e \in PoCall \ {c} : PoActive(e)}]
              ELSE IF PoActive(d) THEN [poCall[d] EXCEPT !.met = @ \cup {c}] ELSE poCall[d]]
    /\ UNCHANGED <<poModule, poHistory>>

\* Bootstrapper.bootstrap: the training examples the bare module gets right.
PoBootstrap(c) ==
    LET r == poCall[c]
        asked == PoAsk(PoTrain, r.known, 0, r.budget)
    IN  /\ r.phase = "bootstrap"
        /\ poCall' = [poCall EXCEPT ![c] =
               IF r.kind = "search"
               THEN [r EXCEPT !.pool = asked.right, !.count = asked.count, !.phase = "trials"]
               ELSE [r EXCEPT !.phase = "trials"]]
        /\ UNCHANGED <<poModule, poHistory>>

\* One trial: a sample of the pool, or the next instruction.
PoTry(c) ==
    LET r == poCall[c]
        n == Len(r.history) + 1
    IN  /\ r.phase = "trials" /\ n <= (IF r.kind = "search" THEN PoTrials ELSE Len(PoInstructions))
        /\ \E config \in IF r.kind = "search" THEN PoSamples(r.pool) ELSE {PoInstructions[n]} :
              LET entry == PoTrial(r, config)
              IN  poCall' = [poCall EXCEPT ![c] =
                      [r EXCEPT !.history = Append(@, entry), !.count = @ + entry.calls,
                                !.best = IF PoBetter(entry, @) THEN <<entry>> ELSE @]]
        /\ UNCHANGED <<poModule, poHistory>>

\* compile_module assigns one global, then the other; the optimizer of
\* instructions is only called from Python and publishes nothing.
PoPublish(c) ==
    LET r == poCall[c]
        all == IF r.kind = "search" THEN PoTrials ELSE Len(PoInstructions)
    IN  /\ r.phase = "trials" /\ Len(r.history) = all
        /\ poCall' = [poCall EXCEPT ![c].phase = "published"]
        /\ poModule' = IF r.kind = "search" THEN c ELSE poModule
        /\ UNCHANGED poHistory

PoReturn(c) ==
    LET r == poCall[c]
    IN  /\ r.phase = "published"
        /\ poCall' = [poCall EXCEPT ![c] = [phase |-> "done", met |-> r.met]]
        /\ poHistory' = IF r.kind = "search" THEN c ELSE poHistory
        /\ UNCHANGED poModule

PoProceed(c) == PoBootstrap(c) \/ PoTry(c) \/ PoPublish(c) \/ PoReturn(c)
PoNext == \E c \in PoCall : PoBegin(c) \/ PoProceed(c)

PoSpec == PoInit /\ [][PoNext]_poVars

-----------------------------------------------------------------------------
PoTypeOK ==
    /\ {poModule, poHistory} \subseteq PoCall \cup {PoNone}
    /\ \A c \in PoCall : poCall[c].phase \in {"new", "bootstrap", "trials", "published", "done"}

\* Demonstrations are examples the bare module got right.  A trial never reports
\* more right answers than its configuration gives, and just as many while the
\* budget lasts; then the result is a configuration no other trial beats, and the
\* first such.  (compile, evaluate and the counter)
PoBestKept ==
    \A c \in PoCall : poCall[c].phase = "published" =>
        LET r == poCall[c]
            h == r.history
            truth(i) == Cardinality(r.right[h[i].config] \cap ToSet(PoVal))
        IN  /\ \A i \in DOMAIN h :
                  /\ r.kind = "search" => h[i].config \subseteq r.pool /\ r.pool \subseteq r.known
                  /\ h[i].correct <= truth(i)
                  /\ ~h[i].exceeded => h[i].correct = truth(i)
            /\ h # <<>> /\ (\A i \in DOMAIN h : ~h[i].exceeded) =>
                  \E i \in DOMAIN h : /\ h[i] = r.best[1]
                                      /\ \A j \in DOMAIN h : truth(j) <= truth(i)
                                      /\ \A j \in 1..i - 1 : truth(j) < truth(i)

\* A compilation that met no other one leaves its module and its history
\* together.  (compile_module publishes in two steps)
PoPublishedTogether ==
    \A c \in PoCall : poCall[c].phase = "done" /\ poCall[c].met = {} =>
        (poModule = c <=> poHistory = c) \/ \E d \in PoCall \ {c} : PoActive(d)

PoFaithful == PoBestKept /\ PoPublishedTogether
=============================================================================
