-------------------------------- MODULE Saga --------------------------------
(***************************************************************************)
(* labs/saga/pkg/saga: SagaOrchestrator.Run (orchestrator.go) driving the  *)
(* steps 1..N of one saga against the event log (log.go), each step an     *)
(* HttpStep (http_step.go) under a RetryPolicy (retry.go).  A step calls a *)
(* participant service, whose answer can be lost after the effect.         *)
(*                                                                         *)
(* Every call of Run or Recover is a run of its own, with Run's local      *)
(* variables; a run can crash between any two of its effects and appends.  *)
(* Which further calls the caller makes is a parameter: Recover after a    *)
(* crash, a redelivery after a result, a duplicate while one is running.   *)
(*                                                                         *)
(* The log is kept as the set of its events: EventsFor and ReplayLog read  *)
(* no more of it than which events of this saga it holds.                  *)
(***************************************************************************)
EXTENDS Naturals, Sequences

CONSTANTS N,             \* len(s.Steps)
          Undoable,      \* the steps that have a CompensateURL
          MaxAttempts,   \* RetryPolicy.MaxAttempts
          Runs,          \* bound: the calls of Run and Recover
          Calls          \* what the caller does: subset of CallKinds

CallKinds == {"recover", "redeliver", "duplicate"}
Step == 1..N

ASSUME SagaAssumption ==
    /\ N \in Nat /\ Undoable \subseteq Step
    /\ MaxAttempts \in Nat /\ Calls \subseteq CallKinds

VARIABLES log,                \* SagaLog.events, of this saga
          held,               \* external: steps in effect at the participants
          pc,                 \* where each run is
          CompletedSteps, CompensatedSteps,  \* ReplayLog's state, per run
          i, completed,       \* the forward loop: next step, finished steps
          attempt,            \* AsStep's loop over attempts
          j                   \* the compensation loop's cursor in completed

replayVars == <<CompletedSteps, CompensatedSteps>>
vars == <<log, held, pc, replayVars, i, completed, attempt, j>>

Running == {"forward", "attempt", "executed", "failed",
            "unwind", "compensate", "undone", "notUndone"}
Ended == {"completed", "compensated", "crashed"}

EventKind == {"StepStarted", "StepCompleted", "StepFailed",
              "CompensationStarted", "CompensationCompleted", "CompensationFailed"}
Event(k, kind) == [step |-> k, kind |-> kind]
Logged(k, kind) == Event(k, kind) \in log

Init ==
    /\ log = {} /\ held = {}
    /\ pc = [r \in Runs |-> "unstarted"]
    /\ CompletedSteps = [r \in Runs |-> {}]
    /\ CompensatedSteps = [r \in Runs |-> {}]
    /\ i = [r \in Runs |-> 1]
    /\ completed = [r \in Runs |-> <<>>]
    /\ attempt = [r \in Runs |-> 1]
    /\ j = [r \in Runs |-> 0]

-----------------------------------------------------------------------------
Goto(r, place) == pc' = [pc EXCEPT ![r] = place]
Record(k, kind) == log' = log \cup {Event(k, kind)}

\* Mutant: a step that was only started counts as completed.
ReplayMutant(kind) ==
    {k \in Step : Logged(k, IF kind = "StepCompleted" THEN "StepStarted" ELSE kind)}

\* Mutant: a failure makes the replay start afresh.
ReplayAfreshMutant(kind) ==
    {k \in Step : Logged(k, kind) /\ \A m \in Step : ~Logged(m, "StepFailed")}

\* ReplayLog: the steps with an event of this kind.
Replay(kind) == {k \in Step : Logged(k, kind)}

\* When the caller may call Run or Recover: nothing in the code prevents a
\* second call while one is running.
MayCall ==
    /\ "duplicate" \in Calls \/ \A q \in Runs : pc[q] \notin Running
    /\ "redeliver" \in Calls
       \/ \A q \in Runs : pc[q] \notin {"completed", "compensated"}
    /\ "recover" \in Calls \/ \A q \in Runs : pc[q] # "crashed"

\* Run, and Recover, which is Run: replay the log once, then go forward.
Run(r) ==
    /\ pc[r] = "unstarted" /\ MayCall
    /\ CompletedSteps' = [CompletedSteps EXCEPT ![r] = Replay("StepCompleted")]
    /\ CompensatedSteps' =
         [CompensatedSteps EXCEPT ![r] = Replay("CompensationCompleted")]
    /\ Goto(r, "forward")
    /\ UNCHANGED <<log, held, i, completed, attempt, j>>

\* completed = append(completed, i), and on to the next step.
Completes(r) ==
    /\ completed' = [completed EXCEPT ![r] = Append(@, i[r])]
    /\ i' = [i EXCEPT ![r] = @ + 1]
    /\ Goto(r, "forward")

\* Mutant: a step completed by an earlier run is not remembered.
SkipCompletedMutant(r) ==
    /\ pc[r] = "forward" /\ i[r] \in CompletedSteps[r]
    /\ i' = [i EXCEPT ![r] = @ + 1]
    /\ UNCHANGED <<log, held, pc, replayVars, completed, attempt, j>>

SkipCompleted(r) ==
    /\ pc[r] = "forward" /\ i[r] \in CompletedSteps[r]
    /\ Completes(r)
    /\ UNCHANGED <<log, held, replayVars, attempt, j>>

StartStep(r) ==
    /\ pc[r] = "forward" /\ i[r] \in Step \ CompletedSteps[r]
    /\ Record(i[r], "StepStarted")
    /\ attempt' = [attempt EXCEPT ![r] = 1]
    /\ Goto(r, "attempt")
    /\ UNCHANGED <<held, replayVars, i, completed, j>>

\* Mutant: the attempts have no limit.
AttemptMutant(r) == pc[r] = "attempt"

\* One attempt at the participant.  The idempotency key makes repeating it
\* harmless; a failed call has had its effect or not.
Attempt(r) == pc[r] = "attempt" /\ attempt[r] <= MaxAttempts
MayHaveEffect(k) == held' \in {held, held \cup {k}}

ExecuteSucceeds(r) ==
    /\ Attempt(r)
    /\ held' = held \cup {i[r]}
    /\ Goto(r, "executed")
    /\ UNCHANGED <<log, replayVars, i, completed, attempt, j>>

\* Mutant: the count of attempts starts over when they are used up.
ExecuteRetryableMutant(r) ==
    /\ Attempt(r)
    /\ MayHaveEffect(i[r])
    /\ attempt' = [attempt EXCEPT ![r] = (@ % MaxAttempts) + 1]
    /\ UNCHANGED <<log, pc, replayVars, i, completed, j>>

\* A network error, 429, 503 or 504.
ExecuteRetryable(r) ==
    /\ Attempt(r)
    /\ MayHaveEffect(i[r])
    /\ attempt' = [attempt EXCEPT ![r] = @ + 1]
    /\ UNCHANGED <<log, pc, replayVars, i, completed, j>>

\* Any other answer.
ExecuteFatal(r) ==
    /\ Attempt(r)
    /\ MayHaveEffect(i[r])
    /\ Goto(r, "failed")
    /\ UNCHANGED <<log, replayVars, i, completed, attempt, j>>

\* The attempts are used up, or the saga's context is cancelled before one.
GiveUp(r) ==
    /\ pc[r] = "attempt"
    /\ Goto(r, "failed")
    /\ UNCHANGED <<log, held, replayVars, i, completed, attempt, j>>

CompleteStep(r) ==
    /\ pc[r] = "executed"
    /\ Record(i[r], "StepCompleted")
    /\ Completes(r)
    /\ UNCHANGED <<held, replayVars, attempt, j>>

FailStep(r) ==
    /\ pc[r] = "failed"
    /\ Record(i[r], "StepFailed")
    /\ j' = [j EXCEPT ![r] = Len(completed[r])]
    /\ Goto(r, "unwind")
    /\ UNCHANGED <<held, replayVars, i, completed, attempt>>

\* Mutant: compensation in the order of execution.
CompensatingMutant(r) == completed[r][Len(completed[r]) + 1 - j[r]]

\* The step at the cursor of the compensation loop.
Compensating(r) == completed[r][j[r]]

\* Mutant: a step compensated by an earlier run is not recognised.
AlreadyCompensatedMutant(r) == FALSE

AlreadyCompensated(r) == Compensating(r) \in CompensatedSteps[r]

SkipCompensated(r) ==
    /\ pc[r] = "unwind" /\ j[r] > 0 /\ AlreadyCompensated(r)
    /\ j' = [j EXCEPT ![r] = @ - 1]
    /\ UNCHANGED <<log, held, pc, replayVars, i, completed, attempt>>

StartCompensation(r) ==
    /\ pc[r] = "unwind" /\ j[r] > 0 /\ ~AlreadyCompensated(r)
    /\ Record(Compensating(r), "CompensationStarted")
    /\ Goto(r, "compensate")
    /\ UNCHANGED <<held, replayVars, i, completed, attempt, j>>

\* The compensation is not retried; without a URL it does nothing.
CompensateSucceeds(r) ==
    /\ pc[r] = "compensate"
    /\ held' = held \ ({Compensating(r)} \cap Undoable)
    /\ Goto(r, "undone")
    /\ UNCHANGED <<log, replayVars, i, completed, attempt, j>>

CompensateFails(r) ==
    /\ pc[r] = "compensate" /\ Compensating(r) \in Undoable
    /\ held' \in {held, held \ {Compensating(r)}}
    /\ Goto(r, "notUndone")
    /\ UNCHANGED <<log, replayVars, i, completed, attempt, j>>

\* Either way the loop goes on to the step before.
EndCompensation(r) ==
    /\ \/ /\ pc[r] = "undone"
          /\ Record(Compensating(r), "CompensationCompleted")
       \/ /\ pc[r] = "notUndone"
          /\ Record(Compensating(r), "CompensationFailed")
    /\ j' = [j EXCEPT ![r] = @ - 1]
    /\ Goto(r, "unwind")
    /\ UNCHANGED <<held, replayVars, i, completed, attempt>>

ReturnCompleted(r) ==
    /\ pc[r] = "forward" /\ i[r] > N
    /\ Goto(r, "completed")
    /\ UNCHANGED <<log, held, replayVars, i, completed, attempt, j>>

ReturnCompensated(r) ==
    /\ pc[r] = "unwind" /\ j[r] = 0
    /\ Goto(r, "compensated")
    /\ UNCHANGED <<log, held, replayVars, i, completed, attempt, j>>

\* The process stops: the log and the participants keep what they have.
Crash(r) ==
    /\ pc[r] \in Running
    /\ Goto(r, "crashed")
    /\ UNCHANGED <<log, held, replayVars, i, completed, attempt, j>>

RunStep(r) ==
    \/ SkipCompleted(r) \/ StartStep(r)
    \/ ExecuteSucceeds(r) \/ ExecuteRetryable(r) \/ ExecuteFatal(r) \/ GiveUp(r)
    \/ CompleteStep(r) \/ FailStep(r)
    \/ SkipCompensated(r) \/ StartCompensation(r)
    \/ CompensateSucceeds(r) \/ CompensateFails(r) \/ EndCompensation(r)
    \/ ReturnCompleted(r) \/ ReturnCompensated(r)

Next == \E r \in Runs : Run(r) \/ RunStep(r) \/ Crash(r)

\* A run that has not crashed keeps going: every HTTP call has a timeout.
Spec == Init /\ [][Next]_vars /\ \A r \in Runs : WF_vars(RunStep(r))
-----------------------------------------------------------------------------
\* Type correctness; the cursors stay within their lists and attempt never
\* gets past the one that ends AsStep's loop.
TypeOK ==
    /\ log \subseteq [step : Step, kind : EventKind]
    /\ held \subseteq Step
    /\ pc \in [Runs -> {"unstarted"} \cup Running \cup Ended]
    /\ CompletedSteps \in [Runs -> SUBSET Step]
    /\ CompensatedSteps \in [Runs -> SUBSET Step]
    /\ i \in [Runs -> 1..N + 1]
    /\ completed \in [Runs -> Seq(Step)]
    /\ attempt \in [Runs -> 1..MaxAttempts + 1]
    /\ j \in [Runs -> 0..N]

\* "If the log already shows StepCompleted for a step, the orchestrator skips
\* re-executing it": no run is about to execute a step that is logged as
\* completed, whichever crashes and recoveries went before.
NotReexecuted ==
    \A r \in Runs : pc[r] = "attempt" => ~Logged(i[r], "StepCompleted")

\* Compensation goes in reverse: while Run compensates a step, every later step
\* that is logged as completed has had its compensation attempted.
ReverseOrder ==
    \A r \in Runs : pc[r] = "compensate" =>
        \A m \in Step : m > Compensating(r) /\ Logged(m, "StepCompleted") =>
            Logged(m, "CompensationCompleted") \/ Logged(m, "CompensationFailed")

\* No run compensates a step that is logged as compensated.
CompensatedOnce ==
    \A r \in Runs : pc[r] = "compensate" =>
        ~Logged(Compensating(r), "CompensationCompleted")

Returns(r, status) == pc[r] # status /\ pc'[r] = status

\* When Run returns Compensated, whatever is still in effect at a participant is
\* the failed step's own effect, or that of a step whose compensation failed:
\* also when earlier runs, cut short by crashes, executed the steps.
UndoneWhenCompensated ==
    [][\A r \in Runs : Returns(r, "compensated") =>
          \A k \in held \cap Undoable : k = i[r] \/ Logged(k, "CompensationFailed")]_vars

\* When Run returns Completed and no compensation was ever started, every step
\* is in effect, the ones that this run skipped included.
InEffectWhenCompleted ==
    [][\A r \in Runs : Returns(r, "completed") =>
          \/ Step \subseteq held
          \/ \E k \in Step : Logged(k, "CompensationStarted")]_vars

\* A run ends, with a result or in a crash: retries do not go on for ever.
RunEnds == \A r \in Runs : pc[r] \in Running ~> pc[r] \in Ended

-----------------------------------------------------------------------------
\* StatusCompleted "means all steps executed successfully": when Run returns
\* Completed, every step is in effect.
CompletedMeansInEffect ==
    [][\A r \in Runs : Returns(r, "completed") => Step \subseteq held]_vars
=============================================================================
