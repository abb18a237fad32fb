----------------------------- MODULE MCServices -----------------------------
(***************************************************************************)
(* The services around a language model: the MCP server, the agent, the    *)
(* inference engine, speculative decoding and the voice assistant.  They   *)
(* are separate programs, so a behaviour is about one of them, its part,   *)
(* and the variables of the others keep their initial values.              *)
(***************************************************************************)
EXTENDS McpServer, McpStreams, Agent, LlmInference, SpecDecoding, VoiceAssistant

VARIABLE part

mcpAll == <<mcpVars, sseVars, progVars>>
agAll == <<agLoopVars, agParallelVars>>
llmAll == <<infVars, genVars>>
vars == <<mcpAll, agAll, llmAll, sdVars, vaVars, part>>

Parts == {"mcp dispatch", "mcp sse", "mcp progress", "agent loop", "agent tools",
          "engine", "generate", "speculative", "voice"}

\* Bound: the prompts that may be empty.  The requests are submitted in any order,
\* so it does not matter which one it is.
Raising == {CHOOSE r \in InfRequest : TRUE}

Init == /\ part \in Parts /\ McpInit /\ McpStreamsInit /\ AgInit /\ InfInit /\ GenInit /\ SdInit /\ VaInit
        /\ infRaises \subseteq IF part = "engine" THEN Raising ELSE {}

Only(p, Step, others) == part = p /\ Step /\ UNCHANGED <<others, part>>

Next ==
    \/ Only("mcp dispatch", McpNext, <<sseVars, progVars, agAll, llmAll, sdVars, vaVars>>)
    \/ Only("mcp sse", SseNext, <<mcpVars, progVars, agAll, llmAll, sdVars, vaVars>>)
    \/ Only("mcp progress", ProgNext, <<mcpVars, sseVars, agAll, llmAll, sdVars, vaVars>>)
    \/ Only("agent loop", AgLoopNext, <<mcpAll, agParallelVars, llmAll, sdVars, vaVars>>)
    \/ Only("agent tools", AgParallelNext, <<mcpAll, agLoopVars, llmAll, sdVars, vaVars>>)
    \/ Only("engine", InfNext, <<mcpAll, agAll, genVars, sdVars, vaVars>>)
    \/ Only("generate", GenNext, <<mcpAll, agAll, infVars, sdVars, vaVars>>)
    \/ Only("speculative", SdNext, <<mcpAll, agAll, llmAll, vaVars>>)
    \/ Only("voice", VaNext, <<mcpAll, agAll, llmAll, sdVars>>)

\* The event loop serves every open stream; a model that is called answers; the
\* engine's loop and the decoding loops run on.  (Parts exclude each other, so
\* this is weak fairness of each of the steps.)
Serve(i) ==
    \/ i \in SseClient /\ Only("mcp sse", SseServe(i), <<mcpVars, progVars, agAll, llmAll, sdVars, vaVars>>)
    \/ i = 1 /\ Only("agent loop", AgLoopStep, <<mcpAll, agParallelVars, llmAll, sdVars, vaVars>>)
    \/ i = 1 /\ Only("engine", InfStep, <<mcpAll, agAll, genVars, sdVars, vaVars>>)
    \/ i = 1 /\ Only("speculative", SdDecode, <<mcpAll, agAll, llmAll, vaVars>>)
    \/ i = 1 /\ Only("voice", VaServe, <<mcpAll, agAll, llmAll, sdVars>>)

Spec == Init /\ [][Next]_vars /\ \A i \in SseClient : WF_vars(Serve(i))

-----------------------------------------------------------------------------
\* Nothing said is lost or out of order: every MCP message has its answer and its
\* log entry, streams and progress notes have no gaps whoever comes and goes, an
\* agent keeps every turn, observation and tool result, and a spoken utterance is
\* cut out, remembered and answered whole.
AgentsFaithful ==
    /\ McpTypeOK /\ McpAnswersInOrder /\ McpLogComplete
    /\ McpStreamsTypeOK /\ SseGapless /\ ProgFaithful
    /\ AgTypeOK /\ AgMemoryWhole /\ AgReactObserved /\ AgResultsInOrder
    /\ VaTypeOK /\ VaFaithful

\* What speculative decoding yields is the target's, in its distribution, and the
\* numbers it reports add up.
SdFaithful == SdTypeOK /\ SdResultPlausible /\ SdExact /\ SdStatsOK

Owed(i) == \/ part = "mcp sse" /\ i \in SseClient /\ SseOwed(i)
           \/ part = "agent loop" /\ i = 1 /\ AgOwed
           \/ part = "engine" /\ i \in InfRequest /\ InfOwed(i)
           \/ part = "speculative" /\ i = 1 /\ SdOwed
           \/ part = "voice" /\ i = 1 /\ VaOwed

\* What is asked for comes: a queued notification, the end of an agent's run, the
\* text of a queued request, the end of a decoding loop, the answer to an utterance.
ServicesAnswer == \A i \in SseClient \cup InfRequest : Owed(i) ~> ~Owed(i)
=============================================================================
