------------------------------- MODULE Agent -------------------------------
(***************************************************************************)
(* labs/agent-framework: the loop of the ReAct agent, the function-calling *)
(* agent and the asynchronous agent behind the facade Agent, the cost      *)
(* guard, the conversation memory, and the registry that runs several      *)
(* tools at once.  What the model writes is abstracted to the tokens the   *)
(* regular expressions of the parsers look for.                            *)
(***************************************************************************)
EXTENDS Naturals, Sequences, SequencesExt, FiniteSets

CONSTANTS AgMaxSteps,          \* max_steps
          AgMaxTokens,         \* CostGuard.max_tokens
          AgRecent,            \* _MAX_RECENT_TURNS
          AgMaxRuns,           \* bound: runs of one agent
          AgMaxParallel        \* bound: calls in one output

VARIABLES agMode, agPc,        \* the facade's mode; where the run is
          agRuns,              \* runs started
          agOutputs,           \* what the model has written in this run
          agHistory,           \* observations fed back in this run
          agTokens,            \* CostGuard.token_count
          agEvents,            \* StreamingCallback events of this run
          agSummary, agTurns,  \* AgentMemory._summary (batches), _recent
          agAdded,             \* turns ever added to the memory
          agCalls, agFinished, agResults   \* one call_parallel

agLoopVars == <<agMode, agPc, agRuns, agOutputs, agHistory, agTokens, agEvents,
                agSummary, agTurns, agAdded>>
agParallelVars == <<agCalls, agFinished, agResults>>
agVars == <<agLoopVars, agParallelVars>>

-----------------------------------------------------------------------------
(* What the model may write, as the tokens the parsers can tell apart.     *)

AgText   == <<"text">>
AgFinal  == <<"text", "final">>
AgReact  == <<"text", "action", "input">>
AgNoInput == <<"text", "action">>
\* The format of the system prompts: an object within an object, whose string
\* of arguments holds braces too.
AgNested == <<"text", "{", "type", "function", "{", "name", "{", "}", "}", "}">>
AgFlat   == <<"text", "{", "type", "name", "}">>
AgString == <<"text", "{", "type", "function", "}">>
AgWritten == {AgText, AgFinal, AgReact, AgNoInput, AgNested, AgFlat, AgString}

AgHas(out, token) == token \in ToSet(out)

\* _FUNC_CALL_RE: an object without inner braces, with "type": "function".
AgMatches(out) ==
    {s \in (1 .. Len(out)) \X (1 .. Len(out)) :
        /\ s[1] < s[2] /\ out[s[1]] = "{" /\ out[s[2]] = "}"
        /\ \A k \in s[1]+1 .. s[2]-1 : out[k] \notin {"{", "}"}
        /\ \E k \in s[1]+1 .. s[2]-1 : out[k] = "type"}

\* _parse_function_call and _parse_all_function_calls.  Nothing nested is ever
\* matched, so "function" is absent, and has no name, or is no dict, and
\* func.get raises.
AgParseCall(out) ==
    IF \E s \in AgMatches(out) : \E k \in s[1] .. s[2] : out[k] = "function"
    THEN "AttributeError" ELSE "none"

\* Mutant: an action is taken for one although its input is missing.
AgParseActionMutant(out) == IF AgHas(out, "action") THEN "call" ELSE "none"

\* _parse_action wants both lines.
AgParseAction(out) ==
    IF AgHas(out, "action") /\ AgHas(out, "input") THEN "call" ELSE "none"

AgParse(mode, out) ==
    IF mode = "react" THEN AgParseAction(out) ELSE AgParseCall(out)

\* len(text) // 4 of a prompt with all that was said, and of an output.
AgPromptTokens == 2 + 2 * Len(agHistory)
AgOutputTokens(out) == IF Len(out) > 2 THEN 2 ELSE 1

-----------------------------------------------------------------------------
(* AgentMemory.                                                            *)

\* Mutant: one turn too many is dropped when the oldest are summarised.
AgRememberMutant(turns) ==
    /\ agAdded' = agAdded \o turns
    /\ LET all == agTurns \o turns
           old == IF Len(all) > AgRecent THEN Len(all) - AgRecent ELSE 0
       IN  /\ agTurns' = SubSeq(all, IF old > 0 THEN old + 2 ELSE 1, Len(all))
           /\ agSummary' = agSummary \o SubSeq(all, 1, old)

\* add, once for each turn: beyond the limit the oldest go to the summary.
AgRemember(turns) ==
    /\ agAdded' = agAdded \o turns
    /\ LET all == agTurns \o turns
           old == IF Len(all) > AgRecent THEN Len(all) - AgRecent ELSE 0
       IN  /\ agTurns' = SubSeq(all, old + 1, Len(all))
           /\ agSummary' = agSummary \o SubSeq(all, 1, old)

AgForget == UNCHANGED <<agSummary, agTurns, agAdded>>
AgMemory(turns) == IF agMode = "async" THEN AgRemember(turns) ELSE AgForget

-----------------------------------------------------------------------------
(* The loop.                                                               *)

AgInit ==
    /\ agMode = "none" /\ agPc = "idle" /\ agRuns = 0
    /\ agOutputs = <<>> /\ agHistory = <<>> /\ agTokens = 0 /\ agEvents = <<>>
    /\ agSummary = <<>> /\ agTurns = <<>> /\ agAdded = <<>>
    /\ agCalls = <<>> /\ agFinished = <<>> /\ agResults = <<>>

AgCreate ==
    /\ agMode = "none"
    /\ agMode' \in {"react", "function", "async"}
    /\ UNCHANGED <<agPc, agRuns, agOutputs, agHistory, agTokens, agEvents,
                   agSummary, agTurns, agAdded>>

\* run: the guard and the memory are those of the earlier runs.
AgStart ==
    /\ agMode # "none" /\ agPc # "running" /\ agRuns < AgMaxRuns
    /\ agPc' = "running" /\ agRuns' = agRuns + 1
    /\ agOutputs' = <<>> /\ agHistory' = <<>> /\ agEvents' = <<>>
    /\ AgMemory(<<"user">>)
    /\ UNCHANGED <<agMode, agTokens>>

\* Mutant: range(max_steps + 1).
AgExhaustedMutant == agPc = "running" /\ Len(agOutputs) = AgMaxSteps + 1

AgExhausted == agPc = "running" /\ Len(agOutputs) = AgMaxSteps

\* Mutant: the end of the loop raises nothing and the run hangs.
AgGiveUpMutant == AgExhausted /\ UNCHANGED agLoopVars

AgGiveUp ==
    /\ AgExhausted
    /\ agPc' = "maxSteps"
    /\ UNCHANGED <<agMode, agRuns, agOutputs, agHistory, agTokens, agEvents>> /\ AgForget

\* The guard refuses the prompt: the model is not called.
AgRefused ==
    /\ agPc = "running" /\ ~AgExhausted /\ agMode = "function"
    /\ agTokens + AgPromptTokens > AgMaxTokens
    /\ agPc' = "budget" /\ agTokens' = agTokens + AgPromptTokens
    /\ UNCHANGED <<agMode, agRuns, agOutputs, agHistory, agEvents>> /\ AgForget

AgAnswer(events) ==
    /\ agPc' = "answered"
    /\ agEvents' = IF agMode = "function" THEN agEvents \o events \o <<"answer">> ELSE agEvents
    /\ AgMemory(<<"assistant">>)
    /\ UNCHANGED agHistory

\* One turn: the model writes out, which ends the run or asks for a tool.
AgTurn(out) ==
    LET tokens == agTokens + AgPromptTokens + AgOutputTokens(out)
        thought == IF AgHas(out, "{") THEN <<"thought">> ELSE <<>>
    IN  /\ agPc = "running" /\ ~AgExhausted
        /\ agMode = "function" => agTokens + AgPromptTokens <= AgMaxTokens
        /\ agOutputs' = Append(agOutputs, out)
        /\ agTokens' = IF agMode = "function" THEN tokens ELSE agTokens
        /\ IF agMode = "function" /\ tokens > AgMaxTokens
           THEN agPc' = "budget" /\ UNCHANGED <<agHistory, agEvents>> /\ AgForget
           ELSE CASE AgHas(out, "final") -> AgAnswer(<<>>)
                  [] ~AgHas(out, "final") /\ AgParse(agMode, out) = "none" -> AgAnswer(thought)
                  [] ~AgHas(out, "final") /\ AgParse(agMode, out) = "AttributeError" ->
                        /\ agPc' = "error"
                        /\ agEvents' = IF agMode = "function" THEN agEvents \o thought
                                       ELSE agEvents
                        /\ UNCHANGED agHistory /\ AgForget
                  [] OTHER -> /\ agHistory' = Append(agHistory, Len(agOutputs'))
                              /\ UNCHANGED <<agPc, agEvents>>
                              /\ AgMemory(<<"assistant", "observation">>)
        /\ UNCHANGED <<agMode, agRuns>>

-----------------------------------------------------------------------------
(* call_parallel: each call runs in the executor, in a subprocess with a   *)
(* timeout; gather waits for all of them.                                  *)

AgTools == {"calculator", "search"}

AgDispatch ==
    /\ agCalls = <<>>
    /\ agCalls' \in UNION {[1 .. n -> AgTools \cup {"unknown"}] : n \in 1 .. AgMaxParallel}
    /\ agFinished' = <<>>      \* in order of completion
    /\ UNCHANGED agResults

\* A call ends, well or with an exit status or a timeout, and never fails
\* another; an unknown tool is an error at once.
AgFinish(i) ==
    /\ i \in DOMAIN agCalls /\ \A f \in ToSet(agFinished) : f.call # i
    /\ \E ok \in (IF agCalls[i] \in AgTools THEN BOOLEAN ELSE {FALSE}) :
          agFinished' = Append(agFinished, [call |-> i, tool |-> agCalls[i], success |-> ok])
    /\ UNCHANGED <<agCalls, agResults>>

\* Mutant: results are collected as they come in.
AgGatherMutant ==
    /\ agCalls # <<>> /\ agResults = <<>> /\ Len(agFinished) = Len(agCalls)
    /\ agResults' = agFinished
    /\ UNCHANGED <<agCalls, agFinished>>

AgGather ==
    /\ agCalls # <<>> /\ agResults = <<>> /\ Len(agFinished) = Len(agCalls)
    /\ agResults' = [i \in DOMAIN agCalls |->
                        CHOOSE f \in ToSet(agFinished) : f.call = i]
    /\ UNCHANGED <<agCalls, agFinished>>

AgLoopStep == AgGiveUp \/ AgRefused \/ \E out \in AgWritten : AgTurn(out)

AgLoopNext == AgCreate \/ AgStart \/ AgLoopStep
AgParallelNext == AgDispatch \/ AgGather \/ \E i \in 1 .. AgMaxParallel : AgFinish(i)

-----------------------------------------------------------------------------
\* Ranges of the loop's state.
AgTypeOK == /\ agMode \in {"none", "react", "function", "async"}
            /\ agPc \in {"idle", "running", "answered", "maxSteps", "budget", "error"}
            /\ agOutputs \in Seq(AgWritten) /\ agTokens \in Nat
            /\ Len(agOutputs) <= AgMaxSteps

\* What went to the summary and what is kept verbatim are together all turns,
\* in order, over any number of runs; no more than AgRecent are kept.
\* (AgentMemory.add and _summarize_oldest)
AgMemoryWhole == agSummary \o agTurns = agAdded /\ Len(agTurns) <= AgRecent

\* Each tool a ReAct output asks for, with its input, is run, and what it said
\* is in the next prompt; an answer is the model's first output that asks for
\* nothing.  (Agent.run of v0_react)
AgReactObserved ==
    agMode = "react" =>
        LET asks(k) == AgHas(agOutputs[k], "input") /\ ~AgHas(agOutputs[k], "final")
        IN  /\ agHistory = SelectSeq([k \in DOMAIN agOutputs |-> k], asks)
            /\ \A k \in DOMAIN agOutputs : k < Len(agOutputs) => asks(k)
            /\ agPc = "maxSteps" => Len(agHistory) = AgMaxSteps

\* call_parallel returns one result for each call, at its place, and a tool
\* that fails or times out spoils no other.  (asyncio.gather over run_in_executor)
AgResultsInOrder ==
    agResults # <<>> =>
        /\ DOMAIN agResults = DOMAIN agCalls
        /\ \A i \in DOMAIN agCalls :
              agResults[i].call = i /\ agResults[i].tool = agCalls[i]

\* A run is to end: with an answer, the step limit, the budget or an exception.
AgOwed == agPc = "running"
=============================================================================
