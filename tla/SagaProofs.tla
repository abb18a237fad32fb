----------------------------- MODULE SagaProofs -----------------------------
(***************************************************************************)
(* Proofs about Saga for every number of steps, attempts and runs.         *)
(*                                                                         *)
(* TypeInv holds whatever the caller does.  SagaInv adds what is true when *)
(* at most one run is in progress (Sequential): it ties the running call's *)
(* replayed copy of the log and its loop counters to the log itself, and   *)
(* the participants' effects to both.                                      *)
(***************************************************************************)
EXTENDS Saga, TLAPS, SequenceTheorems

\* The caller never has two runs of the saga in progress.
Sequential == "duplicate" \notin Calls

AtStep == {"attempt", "executed", "failed"}
AtUndo == {"compensate", "undone", "notUndone"}
Unwinding == AtUndo \cup {"unwind"}

\* completed lists the steps before i, and the cursor j is in it.
Cursors ==
    \A r \in Runs :
        /\ Len(completed[r]) = i[r] - 1
        /\ \A p \in 1..i[r] - 1 : completed[r][p] = p
        /\ j[r] <= i[r] - 1
        /\ pc[r] \in AtStep \cup Unwinding => i[r] <= N
        /\ pc[r] \in AtUndo => j[r] > 0
        /\ pc[r] = "unstarted" => i[r] = 1

TypeInv == TypeOK /\ Cursors

-----------------------------------------------------------------------------
LEMMA TypeInvInit == Init => TypeInv
<1> SUFFICES ASSUME Init PROVE TypeInv
  OBVIOUS
<1>1. TypeOK
  BY SagaAssumption DEF Init, TypeOK, EventKind, Running, Ended
<1>2. Cursors
  BY SagaAssumption DEF Init, Cursors, AtStep, AtUndo, Unwinding
<1> QED BY <1>1, <1>2 DEF TypeInv

\* The step at the cursor is the cursor itself.
LEMMA CursorStep ==
    ASSUME TypeInv, NEW r \in Runs, j[r] > 0
    PROVE  Compensating(r) = j[r] /\ j[r] \in Step
BY SagaAssumption DEF TypeInv, TypeOK, Cursors, Compensating, Step

\* Appending i to completed keeps the list the steps before i.
LEMMA CompletesKeepsList ==
    ASSUME TypeInv, NEW r \in Runs, i[r] \in Step, Completes(r), UNCHANGED j
    PROVE  /\ i' \in [Runs -> 1..N + 1]
           /\ completed' \in [Runs -> Seq(Step)]
           /\ Cursors'
<1>1. /\ i \in [Runs -> 1..N + 1] /\ completed \in [Runs -> Seq(Step)]
      /\ Len(completed[r]) = i[r] - 1
      /\ \A p \in 1..i[r] - 1 : completed[r][p] = p
  BY DEF TypeInv, TypeOK, Cursors
<1>2. /\ i' = [i EXCEPT ![r] = @ + 1]
      /\ completed' = [completed EXCEPT ![r] = Append(@, i[r])]
      /\ pc' = [pc EXCEPT ![r] = "forward"]
  BY DEF Completes, Goto
<1>3. i' \in [Runs -> 1..N + 1] /\ i'[r] = i[r] + 1
  BY <1>1, <1>2, SagaAssumption DEF Step
<1>4. completed'[r] = Append(completed[r], i[r])
  BY <1>1, <1>2
<1>5. /\ Append(completed[r], i[r]) \in Seq(Step)
      /\ Len(Append(completed[r], i[r])) = i[r]
      /\ \A p \in 1..Len(completed[r]) : Append(completed[r], i[r])[p] = completed[r][p]
      /\ Append(completed[r], i[r])[i[r]] = i[r]
  BY <1>1, SagaAssumption DEF Step
<1>6. completed' \in [Runs -> Seq(Step)]
  BY <1>1, <1>2, <1>5
<1>7. \A p \in 1..i'[r] - 1 : completed'[r][p] = p
  BY <1>1, <1>3, <1>4, <1>5, SagaAssumption DEF Step
<1>8. Cursors'
  <2> SUFFICES ASSUME NEW q \in Runs
      PROVE /\ Len(completed'[q]) = i'[q] - 1
            /\ \A p \in 1..i'[q] - 1 : completed'[q][p] = p
            /\ j'[q] <= i'[q] - 1
            /\ pc'[q] \in AtStep \cup Unwinding => i'[q] <= N
            /\ pc'[q] \in AtUndo => j'[q] > 0
            /\ pc'[q] = "unstarted" => i'[q] = 1
    BY DEF Cursors
  <2>1. CASE q = r
    BY <1>1, <1>2, <1>3, <1>4, <1>5, <1>7, <2>1, SagaAssumption
       DEF TypeInv, TypeOK, Cursors, AtStep, AtUndo, Unwinding, Step
  <2>2. CASE q # r
    BY <1>1, <1>2, <2>2 DEF TypeInv, TypeOK, Cursors
  <2> QED BY <2>1, <2>2
<1> QED BY <1>3, <1>6, <1>8

LEMMA TypeInvNext == TypeInv /\ [Next]_vars => TypeInv'
<1> SUFFICES ASSUME TypeInv, [Next]_vars PROVE TypeInv'
  OBVIOUS
<1> USE SagaAssumption
<1>0. CASE UNCHANGED vars
  BY <1>0 DEF vars, replayVars, TypeInv, TypeOK, Cursors
<1>1. ASSUME NEW r \in Runs, Run(r) PROVE TypeInv'
  BY <1>1 DEF Run, Goto, Replay, TypeInv, TypeOK, Cursors, Running, Ended,
      AtStep, AtUndo, Unwinding
<1>2. ASSUME NEW r \in Runs, SkipCompleted(r) PROVE TypeInv'
  <2>1. i[r] \in Step /\ Completes(r)
    BY <1>2 DEF SkipCompleted, TypeInv, TypeOK
  <2>3. i' \in [Runs -> 1..N + 1] /\ completed' \in [Runs -> Seq(Step)] /\ Cursors'
    BY <1>2, <2>1, CompletesKeepsList DEF SkipCompleted
  <2>4. TypeOK'
    BY <1>2, <2>3 DEF SkipCompleted, Completes, Goto, replayVars, TypeInv, TypeOK, Running
  <2> QED BY <2>3, <2>4 DEF TypeInv
<1>3. ASSUME NEW r \in Runs, StartStep(r) PROVE TypeInv'
  BY <1>3, SMTT(30) DEF StartStep, Goto, Record, Event, EventKind, replayVars, TypeInv,
      TypeOK, Cursors, Running, Ended, AtStep, AtUndo, Unwinding, Step
<1>4. ASSUME NEW r \in Runs,
             ExecuteSucceeds(r) \/ ExecuteRetryable(r) \/ ExecuteFatal(r) \/ GiveUp(r)
      PROVE TypeInv'
  <2>1. i[r] \in Step
    BY <1>4 DEF ExecuteSucceeds, ExecuteRetryable, ExecuteFatal, GiveUp, Attempt,
        TypeInv, TypeOK, Cursors, AtStep, Step
  <2>2. CASE ExecuteSucceeds(r)
    BY <2>1, <2>2 DEF ExecuteSucceeds, Attempt, Goto, replayVars, TypeInv, TypeOK,
        Cursors, Running, Ended, AtStep, AtUndo, Unwinding
  <2>3. CASE ExecuteRetryable(r)
    BY <2>1, <2>3, SMTT(30) DEF ExecuteRetryable, Attempt, MayHaveEffect, replayVars, TypeInv,
        TypeOK, Cursors
  <2>4. CASE ExecuteFatal(r)
    BY <2>1, <2>4 DEF ExecuteFatal, Attempt, MayHaveEffect, Goto, replayVars,
        TypeInv, TypeOK, Cursors, Running, Ended, AtStep, AtUndo, Unwinding
  <2>5. CASE GiveUp(r)
    BY <2>1, <2>5 DEF GiveUp, Goto, replayVars, TypeInv, TypeOK, Cursors,
        Running, Ended, AtStep, AtUndo, Unwinding
  <2> QED BY <1>4, <2>2, <2>3, <2>4, <2>5
<1>5. ASSUME NEW r \in Runs, CompleteStep(r) PROVE TypeInv'
  <2>1. i[r] \in Step /\ Completes(r)
    BY <1>5 DEF CompleteStep, TypeInv, TypeOK, Cursors, AtStep, Step
  <2>2. log' \subseteq [step : Step, kind : EventKind]
    BY <1>5, <2>1 DEF CompleteStep, Record, Event, EventKind, TypeInv, TypeOK
  <2>3. i' \in [Runs -> 1..N + 1] /\ completed' \in [Runs -> Seq(Step)] /\ Cursors'
    BY <1>5, <2>1, CompletesKeepsList DEF CompleteStep
  <2>4. TypeOK'
    BY <1>5, <2>3, <2>2 DEF CompleteStep, Completes, Goto, replayVars, TypeInv, TypeOK, Running
  <2> QED BY <2>3, <2>4 DEF TypeInv
<1>6. ASSUME NEW r \in Runs, FailStep(r) PROVE TypeInv'
  BY <1>6, SMTT(30) DEF FailStep, Goto, Record, Event, EventKind, replayVars, TypeInv,
      TypeOK, Cursors, Running, Ended, AtStep, AtUndo, Unwinding, Step
<1>7. ASSUME NEW r \in Runs, SkipCompensated(r) PROVE TypeInv'
  BY <1>7, SMTT(30) DEF SkipCompensated, replayVars, TypeInv, TypeOK, Cursors, AtUndo,
      AtStep, Unwinding
<1>8. ASSUME NEW r \in Runs, StartCompensation(r) PROVE TypeInv'
  BY <1>8, CursorStep, SMTT(30) DEF StartCompensation, Goto, Record, Event, EventKind,
      replayVars, TypeInv, TypeOK, Cursors, Running, Ended, AtStep, AtUndo, Unwinding
<1>9. ASSUME NEW r \in Runs, CompensateSucceeds(r) \/ CompensateFails(r) PROVE TypeInv'
  BY <1>9 DEF CompensateSucceeds, CompensateFails, Goto, replayVars, TypeInv,
      TypeOK, Cursors, Running, Ended, AtStep, AtUndo, Unwinding
<1>10. ASSUME NEW r \in Runs, EndCompensation(r) PROVE TypeInv'
  <2>1. j[r] > 0
    BY <1>10 DEF EndCompensation, TypeInv, Cursors, AtUndo
  <2>2. Compensating(r) \in Step
    BY <2>1, CursorStep
  <2>3. log' \subseteq [step : Step, kind : EventKind]
    BY <1>10, <2>2 DEF EndCompensation, Record, Event, EventKind, TypeInv, TypeOK
  <2>4. TypeOK'
    BY <1>10, <2>1, <2>3 DEF EndCompensation, Goto, replayVars, TypeInv, TypeOK, Running
  <2>5. Cursors'
    BY <1>10, <2>1, SMTT(30) DEF EndCompensation, Goto, TypeInv, TypeOK, Cursors, AtStep,
        AtUndo, Unwinding
  <2> QED BY <2>4, <2>5 DEF TypeInv
<1>11. ASSUME NEW r \in Runs, ReturnCompleted(r) \/ ReturnCompensated(r) \/ Crash(r)
       PROVE TypeInv'
  BY <1>11 DEF ReturnCompleted, ReturnCompensated, Crash, Goto, replayVars, TypeInv,
      TypeOK, Cursors, Running, Ended, AtStep, AtUndo, Unwinding
<1> QED BY <1>0, <1>1, <1>2, <1>3, <1>4, <1>5, <1>6, <1>7, <1>8, <1>9, <1>10, <1>11
      DEF Next, RunStep

LEMMA SagaTypeInv == Spec => []TypeInv
BY TypeInvInit, TypeInvNext, PTL DEF Spec

\* Type correctness, whatever the caller does: the loops of Run and AsStep
\* stay within their lists and limits.
THEOREM SagaType == Spec => []TypeOK
<1>1. TypeInv => TypeOK
  BY DEF TypeInv
<1> QED BY <1>1, SagaTypeInv, PTL

-----------------------------------------------------------------------------
(***************************************************************************)
(* One run at a time.                                                      *)
(***************************************************************************)
OneRunning == \A q, r \in Runs : pc[q] \in Running /\ pc[r] \in Running => q = r

\* Steps complete in order, and only completed steps are compensated.
LogOrdered ==
    /\ \A k, m \in Step : m < k /\ Logged(k, "StepCompleted") => Logged(m, "StepCompleted")
    /\ \A k \in Step : Logged(k, "CompensationCompleted") => Logged(k, "StepCompleted")

\* What the log says of a step is true of its participant.
LogTrue ==
    /\ \A k \in Step : Logged(k, "StepCompleted") =>
          k \in held \/ Logged(k, "CompensationStarted")
    /\ \A k \in Undoable : Logged(k, "CompensationCompleted") => k \notin held
    /\ \A k \in held, m \in Step : m < k => Logged(m, "StepCompleted")

\* A running call's replayed state and its counters give the log as it is now.
ReplayCurrent(r) ==
    \A k \in Step :
        /\ Logged(k, "StepCompleted") <=> k \in CompletedSteps[r] \/ k < i[r]
        /\ k \in CompensatedSteps[r] => Logged(k, "CompensationCompleted")
        /\ Logged(k, "CompensationCompleted") =>
              k \in CompensatedSteps[r] \/ (pc[r] \in Unwinding /\ k > j[r])

\* What a running call has done so far with its step i or cursor j.
Underway(r) ==
    /\ pc[r] \in AtStep \cup Unwinding => i[r] \notin CompletedSteps[r]
    /\ pc[r] = "executed" => i[r] \in held
    /\ pc[r] \in AtUndo =>
          j[r] \notin CompensatedSteps[r] /\ Logged(j[r], "CompensationStarted")
    /\ pc[r] = "undone" /\ j[r] \in Undoable => j[r] \notin held
    /\ pc[r] \in Unwinding => \A k \in Step : j[r] < k /\ k < i[r] =>
          Logged(k, "CompensationCompleted") \/ Logged(k, "CompensationFailed")

RunInv == \A r \in Runs : pc[r] \in Running => ReplayCurrent(r) /\ Underway(r)

\* The inductive invariant.
SagaInv == TypeInv /\ OneRunning /\ LogOrdered /\ LogTrue /\ RunInv

\* Appending an event makes exactly that event hold in addition.
LEMMA RecordLogs ==
    ASSUME NEW k0, NEW kind0, Record(k0, kind0)
    PROVE  \A k, kind : Logged(k, kind)' <=> Logged(k, kind) \/ (k = k0 /\ kind = kind0)
BY DEF Record, Logged, Event

\* The other runs are not running, so only the acting run's part is to be shown.
LEMMA OnlyRunner ==
    ASSUME SagaInv, NEW r \in Runs, pc[r] \in Running, NEW place,
           pc' = [pc EXCEPT ![r] = place],
           place \in Running => ReplayCurrent(r)' /\ Underway(r)'
    PROVE  OneRunning' /\ RunInv'
<1>1. pc \in [Runs -> {"unstarted"} \cup Running \cup Ended]
  BY DEF SagaInv, TypeInv, TypeOK
<1>2. \A q \in Runs : q # r => pc'[q] \notin Running
  BY <1>1 DEF SagaInv, OneRunning
<1>3. pc'[r] = place
  BY <1>1
<1>4. OneRunning'
  BY <1>2 DEF OneRunning
<1>5. RunInv'
  BY <1>2, <1>3 DEF RunInv
<1> QED BY <1>4, <1>5

\* What SagaInv says of a running call, for the steps below.
LEMMA RunningFacts ==
    ASSUME SagaInv, NEW r \in Runs, pc[r] \in Running
    PROVE  /\ ReplayCurrent(r) /\ Underway(r) /\ LogOrdered /\ LogTrue
           /\ pc \in [Runs -> {"unstarted"} \cup Running \cup Ended]
           /\ i \in [Runs -> 1..N + 1] /\ j \in [Runs -> 0..N]
           /\ held \subseteq Step /\ j[r] < i[r]
           /\ (pc[r] \in AtStep \cup Unwinding => i[r] \in Step)
           /\ (j[r] > 0 => Compensating(r) = j[r] /\ j[r] \in Step)
           /\ (pc[r] \in AtUndo => j[r] > 0)
<1>1. TypeInv
  BY DEF SagaInv
<1>2. i \in [Runs -> 1..N + 1] /\ j \in [Runs -> 0..N] /\ j[r] <= i[r] - 1
  BY <1>1 DEF TypeInv, TypeOK, Cursors
<1>3. j[r] < i[r]
  BY <1>2, SagaAssumption
<1>4. pc[r] \in AtStep \cup Unwinding => i[r] \in Step
  BY <1>1, <1>2, SagaAssumption DEF TypeInv, Cursors, Step
<1> QED BY <1>1, <1>2, <1>3, <1>4, CursorStep
      DEF SagaInv, RunInv, TypeInv, TypeOK, Cursors

LEMMA SagaInvInit == Init => SagaInv
<1> SUFFICES ASSUME Init PROVE SagaInv
  OBVIOUS
<1>1. TypeInv
  BY TypeInvInit
<1>2. OneRunning /\ RunInv
  BY DEF Init, OneRunning, RunInv, Running
<1>3. LogOrdered /\ LogTrue
  BY DEF Init, LogOrdered, LogTrue, Logged
<1> QED BY <1>1, <1>2, <1>3 DEF SagaInv

LEMMA RunStart ==
    ASSUME Sequential, SagaInv, NEW r \in Runs, Run(r)
    PROVE  OneRunning' /\ RunInv' /\ LogOrdered' /\ LogTrue'
<1>1. \A q \in Runs : pc[q] \notin Running
  BY DEF Run, MayCall, Sequential
<1>2. pc \in [Runs -> {"unstarted"} \cup Running \cup Ended] /\ i[r] = 1
  BY DEF SagaInv, TypeInv, TypeOK, Cursors, Run
<1>3. \A q \in Runs : q # r => pc'[q] \notin Running
  BY <1>1, <1>2 DEF Run, Goto
<1>4. LogOrdered' /\ LogTrue'
  BY DEF Run, SagaInv, LogOrdered, LogTrue, Logged
<1>5. pc'[r] = "forward" /\ i'[r] = 1
  BY <1>2 DEF Run, Goto
<1>6. \A k \in Step : /\ k \in CompletedSteps'[r] <=> Logged(k, "StepCompleted")'
                      /\ k \in CompensatedSteps'[r] <=> Logged(k, "CompensationCompleted")'
  BY DEF Run, SagaInv, TypeInv, TypeOK, Replay, Logged
<1>7. ReplayCurrent(r)' /\ Underway(r)'
  <2>1. \A k \in Step : ~(k < 1)
    BY SagaAssumption DEF Step
  <2>2. ReplayCurrent(r)'
    BY <1>5, <1>6, <2>1 DEF ReplayCurrent
  <2>3. Underway(r)'
    BY <1>5 DEF Underway, AtStep, AtUndo, Unwinding
  <2> QED BY <2>2, <2>3
<1>8. OneRunning' /\ RunInv'
  BY <1>3, <1>7 DEF OneRunning, RunInv
<1> QED BY <1>4, <1>8

LEMMA SkipCompletedStep ==
    ASSUME SagaInv, NEW r \in Runs, SkipCompleted(r)
    PROVE  OneRunning' /\ RunInv' /\ LogOrdered' /\ LogTrue'
<1>1. pc[r] = "forward" /\ pc' = [pc EXCEPT ![r] = "forward"] /\ pc[r] \in Running
  BY DEF SkipCompleted, Completes, Goto, Running
<1>2. /\ ReplayCurrent(r) /\ i[r] \in CompletedSteps[r]
      /\ i'[r] = i[r] + 1 /\ i[r] \in Nat /\ pc'[r] = "forward"
      /\ UNCHANGED <<log, held, CompletedSteps, CompensatedSteps, j>>
  BY <1>1, RunningFacts, SagaAssumption DEF SkipCompleted, Completes, replayVars
<1>3. ReplayCurrent(r)'
  BY <1>1, <1>2, SagaAssumption DEF ReplayCurrent, Logged, Step, Unwinding, AtUndo
<1>4. Underway(r)'
  BY <1>2 DEF Underway, AtStep, AtUndo, Unwinding
<1>5. LogOrdered' /\ LogTrue'
  BY <1>2 DEF SagaInv, LogOrdered, LogTrue, Logged
<1> QED BY <1>1, <1>3, <1>4, <1>5, OnlyRunner

LEMMA StartStepStep ==
    ASSUME SagaInv, NEW r \in Runs, StartStep(r)
    PROVE  OneRunning' /\ RunInv' /\ LogOrdered' /\ LogTrue'
<1>1. pc[r] = "forward" /\ pc' = [pc EXCEPT ![r] = "attempt"] /\ pc[r] \in Running
  BY DEF StartStep, Goto, Running
<1>2. /\ ReplayCurrent(r) /\ i[r] \notin CompletedSteps[r] /\ pc'[r] = "attempt"
      /\ LogOrdered /\ LogTrue
      /\ UNCHANGED <<held, CompletedSteps, CompensatedSteps, i, j>>
  BY <1>1, RunningFacts DEF StartStep, replayVars
<1>3. \A k, kind : Logged(k, kind)' <=> Logged(k, kind) \/ (k = i[r] /\ kind = "StepStarted")
  BY RecordLogs DEF StartStep
<1>4. ReplayCurrent(r)'
  BY <1>1, <1>2, <1>3 DEF ReplayCurrent, Unwinding, AtUndo
<1>5. Underway(r)'
  BY <1>2 DEF Underway, AtStep, AtUndo, Unwinding
<1>6. LogOrdered' /\ LogTrue'
  BY <1>2, <1>3 DEF LogOrdered, LogTrue
<1> QED BY <1>1, <1>4, <1>5, <1>6, OnlyRunner

LEMMA AttemptStep ==
    ASSUME SagaInv, NEW r \in Runs, NEW place \in AtStep, pc[r] = "attempt",
           held' = held \/ held' = held \cup {i[r]},
           place = "executed" => i[r] \in held',
           pc' = [pc EXCEPT ![r] = place],
           UNCHANGED <<log, CompletedSteps, CompensatedSteps, i, j>>
    PROVE  OneRunning' /\ RunInv' /\ LogOrdered' /\ LogTrue'
<1>1. pc[r] \in Running /\ place \in Running
  BY DEF Running, AtStep
<1>2. /\ ReplayCurrent(r) /\ Underway(r) /\ i[r] \in Step /\ pc'[r] = place
      /\ LogOrdered /\ LogTrue
  BY <1>1, RunningFacts DEF AtStep
<1>3. ReplayCurrent(r)'
  BY <1>2 DEF ReplayCurrent, Logged, Unwinding, AtUndo, AtStep
<1>4. Underway(r)'
  BY <1>2 DEF Underway, AtStep, AtUndo, Unwinding
<1>5. ~Logged(i[r], "StepCompleted") /\ ~Logged(i[r], "CompensationCompleted")
  BY <1>2, SagaAssumption DEF ReplayCurrent, Underway, AtStep, LogOrdered, Step
<1>6. \A m \in Step : m < i[r] => Logged(m, "StepCompleted")
  BY <1>2 DEF ReplayCurrent
<1>7. LogOrdered' /\ LogTrue'
  BY <1>2, <1>5, <1>6 DEF LogOrdered, LogTrue, Logged
<1> QED BY <1>1, <1>3, <1>4, <1>7, OnlyRunner

LEMMA CompleteStepStep ==
    ASSUME SagaInv, NEW r \in Runs, CompleteStep(r)
    PROVE  OneRunning' /\ RunInv' /\ LogOrdered' /\ LogTrue'
<1>1. pc[r] = "executed" /\ pc' = [pc EXCEPT ![r] = "forward"] /\ pc[r] \in Running
  BY DEF CompleteStep, Completes, Goto, Running
<1>2. /\ ReplayCurrent(r) /\ Underway(r) /\ LogOrdered /\ LogTrue
      /\ i[r] \in Step /\ i'[r] = i[r] + 1 /\ pc'[r] = "forward"
      /\ UNCHANGED <<held, CompletedSteps, CompensatedSteps, j>>
  BY <1>1, RunningFacts, SagaAssumption DEF CompleteStep, Completes, replayVars, AtStep
<1>3. \A k, kind : Logged(k, kind)' <=> Logged(k, kind) \/ (k = i[r] /\ kind = "StepCompleted")
  BY RecordLogs DEF CompleteStep
<1>4. ReplayCurrent(r)'
  BY <1>1, <1>2, <1>3, SagaAssumption DEF ReplayCurrent, Unwinding, AtUndo, Step
<1>5. Underway(r)'
  BY <1>2 DEF Underway, AtStep, AtUndo, Unwinding
<1>6. i[r] \in held /\ \A m \in Step : m < i[r] => Logged(m, "StepCompleted")
  BY <1>1, <1>2 DEF ReplayCurrent, Underway
<1>7. LogOrdered'
  BY <1>2, <1>3, <1>6 DEF LogOrdered
<1>8. LogTrue'
  BY <1>2, <1>3, <1>6 DEF LogTrue
<1> QED BY <1>1, <1>4, <1>5, <1>7, <1>8, OnlyRunner

LEMMA FailStepStep ==
    ASSUME SagaInv, NEW r \in Runs, FailStep(r)
    PROVE  OneRunning' /\ RunInv' /\ LogOrdered' /\ LogTrue'
<1>1. pc[r] = "failed" /\ pc' = [pc EXCEPT ![r] = "unwind"] /\ pc[r] \in Running
  BY DEF FailStep, Goto, Running
<1>2. /\ ReplayCurrent(r) /\ Underway(r) /\ LogOrdered /\ LogTrue
      /\ i[r] \in Step /\ pc'[r] = "unwind"
      /\ UNCHANGED <<held, CompletedSteps, CompensatedSteps, i>>
  BY <1>1, RunningFacts DEF FailStep, replayVars, AtStep
<1>3. j'[r] = i[r] - 1
  BY DEF FailStep, SagaInv, TypeInv, TypeOK, Cursors
<1>4. \A k, kind : Logged(k, kind)' <=> Logged(k, kind) \/ (k = i[r] /\ kind = "StepFailed")
  BY RecordLogs DEF FailStep
<1>5. ReplayCurrent(r)'
  BY <1>1, <1>2, <1>3, <1>4 DEF ReplayCurrent, Unwinding, AtUndo
<1>6. Underway(r)'
  BY <1>1, <1>2, <1>3, SagaAssumption DEF Underway, AtStep, AtUndo, Unwinding, Step
<1>7. LogOrdered' /\ LogTrue'
  BY <1>2, <1>4 DEF LogOrdered, LogTrue
<1> QED BY <1>1, <1>5, <1>6, <1>7, OnlyRunner

LEMMA SkipCompensatedStep ==
    ASSUME SagaInv, NEW r \in Runs, SkipCompensated(r)
    PROVE  OneRunning' /\ RunInv' /\ LogOrdered' /\ LogTrue'
<1>1. pc[r] = "unwind" /\ pc' = [pc EXCEPT ![r] = "unwind"] /\ pc[r] \in Running
  BY DEF SkipCompensated, Running, SagaInv, TypeInv, TypeOK
<1>2. /\ ReplayCurrent(r) /\ Underway(r) /\ LogOrdered /\ LogTrue
      /\ i[r] \in Step /\ j[r] \in Step /\ pc'[r] = "unwind" /\ j'[r] = j[r] - 1
      /\ j[r] \in CompensatedSteps[r]
      /\ UNCHANGED <<log, held, CompletedSteps, CompensatedSteps, i>>
  BY <1>1, RunningFacts DEF SkipCompensated, AlreadyCompensated, replayVars, Unwinding
<1>3. ReplayCurrent(r)'
  BY <1>1, <1>2, SagaAssumption DEF ReplayCurrent, Logged, Unwinding, Step
<1>4. Underway(r)'
  <2>1. Logged(j[r], "CompensationCompleted")
    BY <1>2 DEF ReplayCurrent
  <2> QED BY <1>1, <1>2, <2>1, SagaAssumption
          DEF Underway, AtStep, AtUndo, Unwinding, Logged, Step
<1>5. LogOrdered' /\ LogTrue'
  BY <1>2 DEF LogOrdered, LogTrue, Logged
<1> QED BY <1>1, <1>3, <1>4, <1>5, OnlyRunner

LEMMA StartCompensationStep ==
    ASSUME SagaInv, NEW r \in Runs, StartCompensation(r)
    PROVE  OneRunning' /\ RunInv' /\ LogOrdered' /\ LogTrue'
<1>1. pc[r] = "unwind" /\ pc' = [pc EXCEPT ![r] = "compensate"] /\ pc[r] \in Running
  BY DEF StartCompensation, Goto, Running
<1>2. /\ ReplayCurrent(r) /\ Underway(r) /\ LogOrdered /\ LogTrue
      /\ pc'[r] = "compensate" /\ Compensating(r) = j[r]
      /\ j[r] \notin CompensatedSteps[r]
      /\ UNCHANGED <<held, CompletedSteps, CompensatedSteps, i, j>>
  BY <1>1, RunningFacts DEF StartCompensation, AlreadyCompensated, replayVars
<1>3. \A k, kind : Logged(k, kind)' <=>
                   Logged(k, kind) \/ (k = j[r] /\ kind = "CompensationStarted")
  BY <1>2, RecordLogs DEF StartCompensation
<1>4. ReplayCurrent(r)'
  BY <1>1, <1>2, <1>3 DEF ReplayCurrent, Unwinding, AtUndo
<1>5. Underway(r)'
  BY <1>1, <1>2, <1>3 DEF Underway, AtStep, AtUndo, Unwinding
<1>6. LogOrdered' /\ LogTrue'
  BY <1>2, <1>3 DEF LogOrdered, LogTrue
<1> QED BY <1>1, <1>4, <1>5, <1>6, OnlyRunner

LEMMA CompensateStep ==
    ASSUME SagaInv, NEW r \in Runs, NEW place \in {"undone", "notUndone"},
           pc[r] = "compensate", pc' = [pc EXCEPT ![r] = place],
           held' \subseteq held, held \subseteq held' \cup {j[r]},
           place = "undone" /\ j[r] \in Undoable => j[r] \notin held',
           UNCHANGED <<log, CompletedSteps, CompensatedSteps, i, j>>
    PROVE  OneRunning' /\ RunInv' /\ LogOrdered' /\ LogTrue'
<1>1. pc[r] \in Running /\ place \in Running
  BY DEF Running
<1>2. /\ ReplayCurrent(r) /\ Underway(r) /\ LogOrdered /\ LogTrue /\ pc'[r] = place
  BY <1>1, RunningFacts
<1>3. ReplayCurrent(r)'
  BY <1>2 DEF ReplayCurrent, Logged, Unwinding, AtUndo
<1>4. Underway(r)'
  BY <1>2 DEF Underway, AtStep, AtUndo, Unwinding, Logged
<1>5. Logged(j[r], "CompensationStarted")
  BY <1>2 DEF Underway, AtUndo
<1>6. LogOrdered' /\ LogTrue'
  BY <1>2, <1>5 DEF LogOrdered, LogTrue, Logged
<1> QED BY <1>1, <1>3, <1>4, <1>6, OnlyRunner

LEMMA EndCompensationStep ==
    ASSUME SagaInv, NEW r \in Runs, EndCompensation(r)
    PROVE  OneRunning' /\ RunInv' /\ LogOrdered' /\ LogTrue'
<1>1. pc[r] \in AtUndo /\ pc' = [pc EXCEPT ![r] = "unwind"] /\ pc[r] \in Running
  BY DEF EndCompensation, Goto, Running, AtUndo
<1>2. /\ ReplayCurrent(r) /\ Underway(r) /\ LogOrdered /\ LogTrue
      /\ pc'[r] = "unwind" /\ Compensating(r) = j[r]
      /\ i[r] \in Step /\ j[r] \in Step /\ j[r] < i[r] /\ j'[r] = j[r] - 1
      /\ UNCHANGED <<held, CompletedSteps, CompensatedSteps, i>>
  BY <1>1, RunningFacts DEF EndCompensation, replayVars, Unwinding
<1>3. PICK kind0 \in {"CompensationCompleted", "CompensationFailed"} :
        /\ Record(j[r], kind0)
        /\ kind0 = "CompensationCompleted" => pc[r] = "undone"
  BY <1>2 DEF EndCompensation
<1>4. \A k, kind : Logged(k, kind)' <=> Logged(k, kind) \/ (k = j[r] /\ kind = kind0)
  BY <1>3, RecordLogs
<1>5. Logged(j[r], "StepCompleted")
  BY <1>2 DEF ReplayCurrent
<1>6. ReplayCurrent(r)'
  BY <1>1, <1>2, <1>3, <1>4, SagaAssumption DEF ReplayCurrent, Unwinding, Step
<1>7. Underway(r)'
  BY <1>1, <1>2, <1>3, <1>4, SagaAssumption DEF Underway, AtStep, AtUndo, Unwinding, Step
<1>8. LogOrdered'
  BY <1>2, <1>3, <1>4, <1>5 DEF LogOrdered
<1>9. LogTrue'
  BY <1>1, <1>2, <1>3, <1>4 DEF LogTrue, Underway
<1> QED BY <1>1, <1>6, <1>7, <1>8, <1>9, OnlyRunner

LEMMA SagaInvNext == Sequential /\ SagaInv /\ [Next]_vars => SagaInv'
<1> SUFFICES ASSUME Sequential, SagaInv, [Next]_vars
    PROVE OneRunning' /\ RunInv' /\ LogOrdered' /\ LogTrue'
  BY TypeInvNext DEF SagaInv
<1>1. CASE UNCHANGED vars
  BY <1>1 DEF vars, replayVars, SagaInv, OneRunning, RunInv, LogOrdered, LogTrue,
      ReplayCurrent, Underway, Logged
<1>2. ASSUME NEW r \in Runs, Run(r)
      PROVE OneRunning' /\ RunInv' /\ LogOrdered' /\ LogTrue'
  BY <1>2, RunStart
<1>3. ASSUME NEW r \in Runs, RunStep(r)
      PROVE OneRunning' /\ RunInv' /\ LogOrdered' /\ LogTrue'
  <2>1. CASE ExecuteSucceeds(r)
    BY <2>1, AttemptStep DEF ExecuteSucceeds, Attempt, Goto, replayVars, AtStep
  <2>2. CASE ExecuteRetryable(r)
    <3>1. pc' = [pc EXCEPT ![r] = "attempt"]
      BY <2>2 DEF ExecuteRetryable, Attempt, SagaInv, TypeInv, TypeOK
    <3> QED BY <2>2, <3>1, AttemptStep
            DEF ExecuteRetryable, Attempt, MayHaveEffect, replayVars, AtStep
  <2>3. CASE ExecuteFatal(r)
    BY <2>3, AttemptStep DEF ExecuteFatal, Attempt, MayHaveEffect, Goto, replayVars, AtStep
  <2>4. CASE GiveUp(r)
    BY <2>4, AttemptStep DEF GiveUp, Goto, replayVars, AtStep
  <2>5. CASE CompensateSucceeds(r) \/ CompensateFails(r)
    <3>1. Compensating(r) = j[r]
      BY <2>5, RunningFacts DEF CompensateSucceeds, CompensateFails, Running, AtUndo
    <3>2. CASE CompensateSucceeds(r)
      BY <3>1, <3>2, CompensateStep DEF CompensateSucceeds, Goto, replayVars
    <3>3. CASE CompensateFails(r)
      BY <3>1, <3>3, CompensateStep DEF CompensateFails, Goto, replayVars
    <3> QED BY <2>5, <3>2, <3>3
  <2>6. CASE ReturnCompleted(r)
    BY <2>6, OnlyRunner DEF ReturnCompleted, Goto, Running, SagaInv, LogOrdered,
        LogTrue, Logged
  <2>7. CASE ReturnCompensated(r)
    BY <2>7, OnlyRunner DEF ReturnCompensated, Goto, Running, SagaInv, LogOrdered,
        LogTrue, Logged
  <2> QED BY <1>3, <2>1, <2>2, <2>3, <2>4, <2>5, <2>6, <2>7, SkipCompletedStep,
        StartStepStep, CompleteStepStep, FailStepStep, SkipCompensatedStep,
        StartCompensationStep, EndCompensationStep DEF RunStep
<1>4. ASSUME NEW r \in Runs, Crash(r)
      PROVE OneRunning' /\ RunInv' /\ LogOrdered' /\ LogTrue'
  BY <1>4, OnlyRunner DEF Crash, Goto, Running, SagaInv, LogOrdered, LogTrue, Logged
<1> QED BY <1>1, <1>2, <1>3, <1>4 DEF Next

LEMMA SagaSafe == ASSUME Sequential PROVE Spec => []SagaInv
BY SagaInvInit, SagaInvNext, PTL DEF Spec

-----------------------------------------------------------------------------
\* With one run at a time, no step that is logged as completed is executed
\* again, whatever crashes, recoveries and redeliveries happen.
THEOREM SagaNotReexecuted == ASSUME Sequential PROVE Spec => []NotReexecuted
<1>1. SagaInv => NotReexecuted
  <2> SUFFICES ASSUME SagaInv, NEW r \in Runs, pc[r] = "attempt"
      PROVE ~Logged(i[r], "StepCompleted")
    BY DEF NotReexecuted
  <2>1. /\ ReplayCurrent(r) /\ Underway(r) /\ i[r] \in Step
    BY RunningFacts DEF Running, AtStep
  <2> QED BY <2>1, SagaAssumption DEF ReplayCurrent, Underway, AtStep, Step
<1> QED BY <1>1, SagaSafe, PTL

\* With one run at a time, no step that is logged as compensated is
\* compensated again.
THEOREM SagaCompensatedOnce == ASSUME Sequential PROVE Spec => []CompensatedOnce
<1>1. SagaInv => CompensatedOnce
  <2> SUFFICES ASSUME SagaInv, NEW r \in Runs, pc[r] = "compensate"
      PROVE ~Logged(Compensating(r), "CompensationCompleted")
    BY DEF CompensatedOnce
  <2>1. ReplayCurrent(r) /\ Underway(r) /\ Compensating(r) = j[r] /\ j[r] \in Step
    BY RunningFacts DEF Running, AtUndo
  <2> QED BY <2>1, SagaAssumption DEF ReplayCurrent, Underway, AtUndo, Step
<1> QED BY <1>1, SagaSafe, PTL

\* The first step that is not completed is the one the running call is at.
LEMMA CompletedBeforeFailed ==
    ASSUME SagaInv, NEW r \in Runs, pc[r] \in Unwinding, NEW m \in Step
    PROVE  /\ Logged(m, "StepCompleted") => m < i[r]
           /\ m \in held => m <= i[r]
<1>1. /\ ReplayCurrent(r) /\ Underway(r) /\ LogOrdered /\ LogTrue /\ i[r] \in Step
  BY RunningFacts DEF Running, Unwinding, AtUndo
<1>2. ~Logged(i[r], "StepCompleted")
  BY <1>1, SagaAssumption DEF ReplayCurrent, Underway, Step
<1>3. Logged(m, "StepCompleted") => m < i[r]
  BY <1>1, <1>2, SagaAssumption DEF LogOrdered, Step
<1>4. m \in held => m <= i[r]
  BY <1>1, <1>2, SagaAssumption DEF LogTrue, Step
<1> QED BY <1>3, <1>4

\* With one run at a time, compensation goes in reverse order of the steps
\* that the log says completed, in whichever run.
THEOREM SagaReverseOrder == ASSUME Sequential PROVE Spec => []ReverseOrder
<1>1. SagaInv => ReverseOrder
  <2> SUFFICES ASSUME SagaInv, NEW r \in Runs, pc[r] = "compensate",
                      NEW m \in Step, m > Compensating(r), Logged(m, "StepCompleted")
      PROVE Logged(m, "CompensationCompleted") \/ Logged(m, "CompensationFailed")
    BY DEF ReverseOrder
  <2>1. Underway(r) /\ Compensating(r) = j[r] /\ j[r] \in Step
    BY RunningFacts DEF Running, AtUndo
  <2>2. m < i[r]
    BY CompletedBeforeFailed DEF Unwinding, AtUndo
  <2> QED BY <2>1, <2>2, SagaAssumption DEF Underway, Unwinding, AtUndo, Step
<1> QED BY <1>1, SagaSafe, PTL

\* With one run at a time, a run that returns Compensated leaves in effect only
\* its failed step and the steps whose compensation failed.
THEOREM SagaUndone == ASSUME Sequential PROVE Spec => UndoneWhenCompensated
<1>1. SagaInv /\ [Next]_vars =>
        [\A r \in Runs : Returns(r, "compensated") =>
          \A k \in held \cap Undoable : k = i[r] \/ Logged(k, "CompensationFailed")]_vars
  <2> SUFFICES ASSUME SagaInv, Next, NEW r \in Runs, Returns(r, "compensated"),
                      NEW k \in held \cap Undoable
      PROVE k = i[r] \/ Logged(k, "CompensationFailed")
    BY DEF Returns, vars
  <2>1. pc[r] = "unwind" /\ j[r] = 0
    <3>1. pc \in [Runs -> {"unstarted"} \cup Running \cup Ended]
      BY DEF SagaInv, TypeInv, TypeOK
    <3> QED BY <3>1 DEF Next, RunStep, Returns, Goto, Run, SkipCompleted, Completes,
          StartStep, ExecuteSucceeds, ExecuteRetryable, ExecuteFatal, GiveUp, CompleteStep,
          FailStep, SkipCompensated, StartCompensation, CompensateSucceeds,
          CompensateFails, EndCompensation, ReturnCompleted, ReturnCompensated, Crash
  <2>2. Underway(r) /\ LogTrue /\ i[r] \in Step /\ k \in Step
    BY <2>1, RunningFacts DEF Running, Unwinding
  <2>3. k <= i[r]
    BY <2>1, <2>2, CompletedBeforeFailed DEF Unwinding
  <2>4. k < i[r] => Logged(k, "CompensationCompleted") \/ Logged(k, "CompensationFailed")
    BY <2>1, <2>2, SagaAssumption DEF Underway, Unwinding, Step
  <2> QED BY <2>2, <2>3, <2>4, SagaAssumption DEF LogTrue, Step
<1> QED BY <1>1, SagaSafe, PTL DEF Spec, UndoneWhenCompensated

\* With one run at a time, a run that returns Completed before any compensation
\* was started leaves every step in effect, those it skipped included.
THEOREM SagaInEffect == ASSUME Sequential PROVE Spec => InEffectWhenCompleted
<1>1. SagaInv /\ [Next]_vars =>
        [\A r \in Runs : Returns(r, "completed") =>
          \/ Step \subseteq held
          \/ \E k \in Step : Logged(k, "CompensationStarted")]_vars
  <2> SUFFICES ASSUME SagaInv, Next, NEW r \in Runs, Returns(r, "completed"),
                      NEW k \in Step, ~Logged(k, "CompensationStarted")
      PROVE k \in held
    BY DEF Returns, vars
  <2>1. pc[r] = "forward" /\ i[r] > N
    <3>1. pc \in [Runs -> {"unstarted"} \cup Running \cup Ended]
      BY DEF SagaInv, TypeInv, TypeOK
    <3> QED BY <3>1 DEF Next, RunStep, Returns, Goto, Run, SkipCompleted, Completes,
          StartStep, ExecuteSucceeds, ExecuteRetryable, ExecuteFatal, GiveUp, CompleteStep,
          FailStep, SkipCompensated, StartCompensation, CompensateSucceeds,
          CompensateFails, EndCompensation, ReturnCompleted, ReturnCompensated, Crash
  <2>2. ReplayCurrent(r) /\ LogTrue /\ i \in [Runs -> 1..N + 1]
    BY <2>1, RunningFacts DEF Running
  <2>3. Logged(k, "StepCompleted")
    BY <2>1, <2>2, SagaAssumption DEF ReplayCurrent, Step
  <2> QED BY <2>2, <2>3 DEF LogTrue
<1> QED BY <1>1, SagaSafe, PTL DEF Spec, InEffectWhenCompleted
=============================================================================
