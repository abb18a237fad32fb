----------------------------- MODULE SdFinetuner -----------------------------
(***************************************************************************)
(* labs/sd-finetuner: training jobs, each in a thread with its own model   *)
(* and optimizer, report to a job store; a status is read field by field   *)
(* from the live entry after the store's lock is released; adapters are    *)
(* saved before a job is complete.  Weights are what they were trained on. *)
(***************************************************************************)
EXTENDS Naturals, Sequences, SequencesExt, FiniteSetsExt

CONSTANTS FtJob, FtSteps,          \* jobs, the numbers of steps they ask for
          FtImages,                \* bound: how many images a directory holds
          FtModules,               \* the modules of the UNet and what each is
          FtSides, FtTarget,       \* bound: sides of images; TARGET_SIZE
          FtMaxPolls               \* bound

ASSUME FtAssumption ==
    /\ FtSteps \subseteq Nat \ {0} /\ FtImages \subseteq Nat
    /\ FtSides \subseteq Nat \ {0} /\ FtTarget \in Nat \ {0}
    /\ \A m, n \in FtModules : m.name = n.name => m = n

VARIABLES ftStore,                 \* JobStore
          ftThread,                \* the training thread of each job
          ftFile,                  \* adapters_dir
          ftPoll, ftLast, ftPolls  \* a client, its last answers

ftVars == <<ftStore, ftThread, ftFile, ftPoll, ftLast, ftPolls>>

FtNone == "none"
FtIdle == [phase |-> "none"]

FtInit ==
    /\ ftStore = [j \in {} |-> FtIdle]
    /\ ftThread = [j \in FtJob |-> [phase |-> "none"]]
    /\ ftFile = [j \in FtJob |-> [written |-> FALSE, lora |-> <<>>]]
    /\ ftPoll = FtIdle /\ ftLast = [j \in {} |-> FtIdle] /\ ftPolls = 0

-----------------------------------------------------------------------------
\* inject_lora replaces the linear layers of these names.
FtTargets == {"to_q", "to_k", "to_v", "to_out"}
FtInjected == {m \in FtModules : m.name \in FtTargets /\ m.linear}
\* What the optimizer is given.
FtOptimized == {[name |-> m.name, part |-> "lora"] : m \in FtInjected}
\* What takes gradients once LoRA is in: LoRALinear freezes the weights it wraps.
FtTrainable == FtOptimized
               \cup {[name |-> m.name, part |-> "weight"] : m \in FtModules \ FtInjected}

\* Resize the shorter side to the target, crop anywhere: boxes and image.
FtCrops(w, h) ==
    LET nw == IF w < h THEN FtTarget ELSE (w * FtTarget) \div h
        nh == IF w < h THEN (h * FtTarget) \div w ELSE FtTarget
    IN  {[left |-> l, top |-> t, width |-> nw, height |-> nh] :
            l \in 0..(IF nw > FtTarget THEN nw - FtTarget ELSE 0),
            t \in 0..(IF nh > FtTarget THEN nh - FtTarget ELSE 0)}

-----------------------------------------------------------------------------
\* start_training: the entry, then the thread.  A library call of train has the
\* same loop, no entry, and may be given class images.
FtStart(j) ==
    /\ ftThread[j].phase = "none"
    /\ \E server \in BOOLEAN, steps \in FtSteps, n \in FtImages :
       \E reg \in IF server THEN {0} ELSE FtImages :
          /\ ftThread' = [ftThread EXCEPT ![j] =
                 [phase |-> IF server THEN "queued" ELSE "training", server |-> server,
                  steps |-> steps, images |-> n, reg |-> reg, lora |-> <<>>]]
          /\ ftStore' = IF server
                        THEN [k \in DOMAIN ftStore \cup {j} |->
                                 IF k = j THEN [status |-> "queued", progress |-> 0, total |-> steps,
                                                loss |-> FtNone, error |-> FtNone]
                                 ELSE ftStore[k]]
                        ELSE ftStore
    /\ UNCHANGED <<ftFile, ftPoll, ftLast, ftPolls>>

\* The image of a step, and the class image (0 without any).
FtImage(r, step) == 1 + (step % r.images)
FtClassImage(r, step) == IF r.reg = 0 THEN 0 ELSE 1 + (step % r.reg)

FtGoOn(j, thread) == ftThread' = [ftThread EXCEPT ![j] = thread]
FtUpdate(j, entry) == ftStore' = IF j \in DOMAIN ftStore THEN [ftStore EXCEPT ![j] = entry] ELSE ftStore

FtBegin(j) ==
    LET r == ftThread[j]
    IN  /\ r.phase = "queued"
        /\ FtGoOn(j, [r EXCEPT !.phase = "training"])
        /\ FtUpdate(j, [ftStore[j] EXCEPT !.status = "running"])
        /\ UNCHANGED <<ftFile, ftPoll, ftLast, ftPolls>>

\* Whatever raises ends the job: an empty directory, an image, the disk.
FtRaise(j) ==
    LET r == ftThread[j]
    IN  /\ r.phase \in {"training", "saving"}
        /\ FtGoOn(j, [r EXCEPT !.phase = "ended"])
        /\ FtUpdate(j, [ftStore[j] EXCEPT !.status = "error", !.error = "raised"])
        /\ UNCHANGED <<ftPoll, ftLast, ftPolls>>
        /\ \/ UNCHANGED ftFile
           \/ /\ r.phase = "saving"
              /\ ftFile' = [ftFile EXCEPT ![j] = [written |-> TRUE, lora |-> <<>>]]

\* training_step on the next image, and on the next class image.
FtStep(j) ==
    LET r == ftThread[j]
        step == Len(r.lora)
    IN  /\ r.phase = "training" /\ step < r.steps /\ r.images > 0
        /\ FtGoOn(j, [r EXCEPT !.lora = Append(@, <<FtImage(r, step), FtClassImage(r, step)>>)])
        /\ FtUpdate(j, [ftStore[j] EXCEPT !.progress = step + 1, !.loss = "some"])
        /\ UNCHANGED <<ftFile, ftPoll, ftLast, ftPolls>>

FtTrained(j) ==
    LET r == ftThread[j]
    IN  /\ r.phase = "training" /\ Len(r.lora) = r.steps
        /\ FtGoOn(j, [r EXCEPT !.phase = IF r.server THEN "saving" ELSE "ended"])
        /\ UNCHANGED <<ftStore, ftFile, ftPoll, ftLast, ftPolls>>

\* save_lora, then the entry.
FtSave(j) ==
    LET r == ftThread[j]
    IN  /\ r.phase = "saving"
        /\ FtGoOn(j, [r EXCEPT !.phase = "saved"])
        /\ ftFile' = [ftFile EXCEPT ![j] = [written |-> TRUE, lora |-> r.lora]]
        /\ UNCHANGED <<ftStore, ftPoll, ftLast, ftPolls>>

FtComplete(j) ==
    LET r == ftThread[j]
    IN  /\ r.phase = "saved"
        /\ FtGoOn(j, [r EXCEPT !.phase = "ended"])
        /\ FtUpdate(j, [ftStore[j] EXCEPT !.status = "complete", !.progress = r.steps])
        /\ UNCHANGED <<ftFile, ftPoll, ftLast, ftPolls>>

FtProceed(j) == FtBegin(j) \/ FtRaise(j) \/ FtStep(j) \/ FtTrained(j) \/ FtSave(j) \/ FtComplete(j)

-----------------------------------------------------------------------------
\* Mutant: the status last.
FtFieldsMutant == <<"progress", "total", "loss", "error", "status">>
\* The order in which get_status evaluates the fields of its answer.
FtFields == <<"status", "progress", "total", "loss", "error">>

\* job_store.get hands out the live entry.
FtGet(j) ==
    /\ ftPoll = FtIdle /\ ftPolls < FtMaxPolls /\ j \in DOMAIN ftStore
    /\ ftPoll' = [phase |-> "reading", job |-> j, at |-> 1, answer |-> <<>>]
    /\ ftPolls' = ftPolls + 1 /\ UNCHANGED <<ftStore, ftThread, ftFile, ftLast>>

FtReadField ==
    LET p == ftPoll
        f == FtFields[p.at]
    IN  /\ p.phase = "reading"
        /\ ftPoll' = [p EXCEPT !.answer = [g \in DOMAIN @ \cup {f} |->
                                             IF g = f THEN ftStore[p.job][f] ELSE @[g]],
                               !.at = @ + 1,
                               !.phase = IF p.at = Len(FtFields) THEN "answered" ELSE @]
        /\ UNCHANGED <<ftStore, ftThread, ftFile, ftLast, ftPolls>>

FtAnswered ==
    /\ ftPoll.phase = "answered"
    /\ ftPoll' = FtIdle
    /\ ftLast' = [k \in DOMAIN ftLast \cup {ftPoll.job} |->
                     IF k = ftPoll.job THEN ftPoll.answer ELSE ftLast[k]]
    /\ UNCHANGED <<ftStore, ftThread, ftFile, ftPolls>>

FtNext == \/ \E j \in FtJob : FtStart(j) \/ FtProceed(j) \/ FtGet(j)
          \/ FtReadField \/ FtAnswered

FtSpec == FtInit /\ [][FtNext]_ftVars

-----------------------------------------------------------------------------
\* list_adapters
FtListed == {j \in DOMAIN ftStore : ftStore[j].status = "complete" /\ ftFile[j].written}

FtTypeOK == /\ \A j \in DOMAIN ftStore : ftStore[j].status \in {"queued", "running", "complete", "error"}
            /\ DOMAIN ftLast \subseteq DOMAIN ftStore

\* A status that was read while the job went on still makes sense: complete means
\* all steps, a loss and no error, error means a message; and asked again, a job
\* has not gone back.  (get_status reads an entry without the lock)
FtPollsSane ==
    ftPoll.phase = "answered" =>
        LET a == ftPoll.answer
        IN  /\ a.progress <= a.total
            /\ a.status = "complete" => a.progress = a.total /\ a.loss # FtNone /\ a.error = FtNone
            /\ a.status = "error" => a.error # FtNone
            /\ ftPoll.job \in DOMAIN ftLast =>
                  LET b == ftLast[ftPoll.job]
                  IN  /\ b.progress <= a.progress /\ (b.status \in {"complete", "error"} => a.status = b.status)
                      /\ b.status = "running" => a.status # "queued"

\* A listed adapter is the whole of what its own job trained: every step on the
\* next image in turn.  All that the optimizer changes takes gradients, and no
\* wrapped layer's own weight does: the file and the base model give the trained
\* model.  Crops lie inside the resized image.
FtAdaptersWhole ==
    /\ FtOptimized \subseteq FtTrainable
    /\ \A m \in FtInjected : [name |-> m.name, part |-> "weight"] \notin FtTrainable
    /\ \A j \in FtListed :
          ftFile[j].lora = [s \in 1..ftThread[j].steps |-> <<1 + ((s - 1) % ftThread[j].images), 0>>]
    /\ \A w, h \in FtSides : \A c \in FtCrops(w, h) :
          c.left + FtTarget <= c.width /\ c.top + FtTarget <= c.height

FtFaithful == FtPollsSane /\ FtAdaptersWhole

\* A job is to be complete or fail.
FtOwed(j) == ftThread[j].phase \notin {"none", "ended"}
=============================================================================
