----------------------------- MODULE MCTraining -----------------------------
(***************************************************************************)
(* Training, compressing and evaluating models: LoRA adapters of a served  *)
(* model, optimized prompts, fine-tuning jobs, quantized models and their  *)
(* files, evaluations.  As in MCServices a behaviour is about one of them, *)
(* its part, and the variables of the others keep one initial value.       *)
(***************************************************************************)
EXTENDS Trainers, ModelQuantizer, EvalHarness

VARIABLE part

vars == <<loVars, poVars, ftVars, qzVars, ehVars, part>>

Parts == {"lora", "prompts", "finetune", "quantize", "evaluate"}

-----------------------------------------------------------------------------
\* Of LoRA: no samples, one sample three times over, and samples of several lengths.
Jobs == {[samples |-> <<>>, epochs |-> 1], [samples |-> << <<1, 1>> >>, epochs |-> 3],
         [samples |-> << <<1, 1>>, <<3, 1>>, <<1, 2>> >>, epochs |-> 1]}

\* Of prompts: two examples, two instructions and the demonstrations each shows.
Two == <<1, 2>>
Instructions == <<{7}, {8}>>

\* Of the UNet: attention layers, another linear layer and a convolution.
Modules == {[name |-> n, linear |-> TRUE] : n \in {"to_q", "to_out", "time_embed"}}
           \cup {[name |-> "conv_in", linear |-> FALSE]}

\* Of weights: empty, zero, odd, longer than groups; with an embedding, and with a
\* layer that is named as a scale is.
Tensors == {<<>>, <<0, 0>>, <<1, 3, 14>>, <<-14, 3, -5, 1>>, <<-1, -3, 2, 0, 1, 1, 0, -9>>,
            <<200, -1, 3, -77, 101>>}
Weights(t) == <<"w", 0>> :> t
Models == {Weights(t) : t \in Tensors}
          \cup {Weights(t) @@ (<<"embed", 0>> :> u) : t \in Tensors, u \in {<<>>, <<-14, 3, -5, 1>>}}
          \cup {Weights(<<3>>) @@ (<<"norm", 1>> :> <<1, 2>>), Weights(<<3>>) @@ (<<"w", 1>> :> <<9, 9, -9, 1>>)}

\* Of evaluation: two tasks, and texts that hold some of their examples whole, in
\* part or not at all.
Example(text, answer) == [text |-> text, answer |-> answer]
Tasks == << <<Example(<<1, 2, 1, 2>>, 1), Example(<<1>>, 2), Example(<<2, 2, 3>>, 1)>>,
            <<Example(<<3, 3>>, 1), Example(<<1, 1, 2, 3>>, 2)>> >>
Shards == {<<t>> : t \in {<<1, 2, 1, 2, 3>>, <<3, 3>>, <<3, 2, 2, 3>>, <<>>}}
Threshold == <<1, 3>>

-----------------------------------------------------------------------------
Init == /\ part \in Parts
        /\ LoInit /\ PoInit /\ FtInit /\ QzInit /\ EhInit
        /\ part # "lora" => LoWrapped = LoLayer
        /\ part # "quantize" => qzModel = Weights(<<>>)

Only(p, Step, others) == part = p /\ Step /\ UNCHANGED <<others, part>>

Next == \/ Only("lora", LoNext, <<poVars, ftVars, qzVars, ehVars>>)
        \/ Only("prompts", PoNext, <<loVars, ftVars, qzVars, ehVars>>)
        \/ Only("finetune", FtNext, <<loVars, poVars, qzVars, ehVars>>)
        \/ Only("quantize", QzNext, <<loVars, poVars, ftVars, ehVars>>)
        \/ Only("evaluate", EhNext, <<loVars, poVars, ftVars, qzVars>>)

\* The threads of the two calls, compilations or jobs are scheduled.
Serve(i) == \/ Only("lora", LoProceed(i), <<poVars, ftVars, qzVars, ehVars>>)
            \/ Only("prompts", PoProceed(i), <<loVars, ftVars, qzVars, ehVars>>)
            \/ Only("finetune", FtProceed(i), <<loVars, poVars, qzVars, ehVars>>)

Spec == Init /\ [][Next]_vars /\ \A i \in 1..2 : WF_vars(Serve(i))

-----------------------------------------------------------------------------
\* Weights come back within half a step and a file is read whole or not at all; an
\* evaluation never shows or counts what was trained on.
ModelsFaithful == QzTypeOK /\ QzFaithful /\ EhTypeOK /\ EhFaithful

Owed(i) == \/ part = "lora" /\ LoActive(i)
           \/ part = "prompts" /\ PoActive(i)
           \/ part = "finetune" /\ FtOwed(i)

\* Every request, compilation and job comes to an end.
TrainingEnds == \A i \in 1..2 : Owed(i) ~> ~Owed(i)
=============================================================================
