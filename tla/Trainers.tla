------------------------------ MODULE Trainers ------------------------------
(***************************************************************************)
(* The three labs that train: LoRA adapters of a served model, optimized   *)
(* prompts and fine-tuning jobs.  They share nothing.                      *)
(***************************************************************************)
EXTENDS LoraServer, PromptOptimizer, SdFinetuner

TrainersSpec == LoSpec /\ PoSpec /\ FtSpec

\* Two trainers at a time: batches are learnt from once, texts are of one adapter,
\* the best prompt is kept and published with its history, polls and saved
\* adapters are those of the job.
TrainersFaithful == /\ LoTypeOK /\ LoFaithful
                    /\ PoTypeOK /\ PoFaithful
                    /\ FtTypeOK /\ FtFaithful
=============================================================================
