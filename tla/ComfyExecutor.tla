---------------------------- MODULE ComfyExecutor ----------------------------
(***************************************************************************)
(* labs/comfyui-executor: every prompt runs its workflow in a thread of    *)
(* its own (server.py), and all threads share the cache of v1, the model   *)
(* registry of v2 and Python's generator of random numbers, none of them   *)
(* under a lock.  A step is what happens between two places where the      *)
(* interpreter may switch threads and it makes a difference.               *)
(***************************************************************************)
EXTENDS Naturals, Sequences, SequencesExt, FiniteSets

CONSTANTS CfThread,          \* prompts, each with its thread
          CfModel,           \* models of the samplers, and their seeds
          CfSlots            \* max_gpu_slots

ASSUME CfAssumption == CfSlots \in Nat \ {0} /\ IsFiniteSet(CfThread)

VARIABLES cfOverlap,         \* does the client submit without waiting?
          cfJob,             \* state of each prompt and its thread
          cfGpu, cfCpu,      \* _gpu_slots, oldest first; _cpu_slots
          cfCache,           \* what CacheStore holds, by key
          cfRng              \* seed and draws of the module random

cfVars == <<cfOverlap, cfJob, cfGpu, cfCpu, cfCache, cfRng>>

-----------------------------------------------------------------------------
(* Workflows of two nodes: LoadText, ConcatText, ToUpperCase, KSampler and *)
(* VAEDecode, a KSampler whose seed or model is no value it can use, and a *)
(* type that is not registered.  A param is the model of a node that needs *)
(* one, and stands for the seed of a KSampler; node 3 does not exist.      *)

CfNodes == {1, 2}
CfNode(kind, param) == [kind |-> kind, param |-> param]
CfSamplers == {CfNode("sample", m) : m \in CfModel}
CfDecoders == {CfNode("decode", m) : m \in CfModel}
CfMisfits == {CfNode("misfit", m) : m \in CfModel}
CfLoad == CfNode("load", 0)
CfJoin == CfNode("join", 0)
CfUpper == CfNode("upper", 0)
CfWorkflows ==
    [nodes : {p \in CfSamplers \X CfSamplers : p[1] # p[2]}, edges : {{}, {<<1, 2>>}}]
    \cup [nodes : {p \in CfSamplers \X CfDecoders : p[1].param # p[2].param}
                  \cup (CfSamplers \X {CfJoin}) \cup (CfDecoders \X {CfJoin, CfUpper})
                  \cup ({CfLoad} \X ({CfJoin, CfUpper} \cup CfSamplers \cup CfDecoders
                                     \cup CfMisfits)),
          edges : {{<<1, 2>>}}]
    \cup [nodes : {<<CfLoad, CfJoin>>}, edges : {{<<1, 2>>, <<2, 1>>}, {<<3, 2>>}}]
    \cup [nodes : {<<CfLoad, CfNode("unregistered", 0)>>}, edges : {{<<1, 2>>}}]

\* _MODEL_CONSUMING_NODES
CfConsumes(node) == node.kind \in {"sample", "misfit", "decode"}

CfSources(g, n) == {m \in CfNodes : <<m, n>> \in g.edges}

\* parse_comfyui_json refuses an edge from nowhere and a type that is not
\* registered, Kahn's algorithm a cycle.
CfRefused(g) ==
    \/ \E n \in CfNodes : g.nodes[n].kind = "unregistered"
    \/ \E e \in g.edges : e[1] \notin CfNodes
    \/ \E S \in (SUBSET CfNodes) \ {{}} : \A n \in S : CfSources(g, n) \cap S # {}

\* upstream_result.get(src_key): the only slot of VAEDecode is named image in
\* _OUTPUT_SLOT_NAMES and its output image_data, so None comes from there.
CfInput(g, results, m) ==
    IF g.nodes[m].kind = "decode" THEN <<"none", {}>> ELSE results[m]
CfGiven(g, results, n) == {CfInput(g, results, m) : m \in CfSources(g, n)}

\* Mutant: the inputs are no part of the key.
CfKeyMutant(g, results, n) == [node |-> g.nodes[n], inputs |-> {}]
\* node_cache_key: node type, params and the content of every input.
CfKey(g, results, n) ==
    [node |-> g.nodes[n], inputs |-> {<<m, CfInput(g, results, m)>> : m \in CfSources(g, n)}]

\* execute raises: text.upper of what is no string, the sum over what is no
\* latent, and random.seed of a list.  ConcatText formats whatever it is given.
CfRaises(node, given) ==
    \/ node.kind = "misfit"
    \/ node.kind = "upper" /\ \E v \in given : v[1] \notin {"load", "join", "upper"}
    \/ node.kind = "decode" /\ \E v \in given : v[1] # "noise"

\* execute: a sampler looks at nothing but the numbers it draws.
CfOutput(g, results, n, noise) ==
    IF g.nodes[n].kind = "sample" THEN <<"noise", noise>>
    ELSE <<g.nodes[n].kind, CfGiven(g, results, n)>>

\* What the nodes of a workflow mean: pure functions of their inputs.
CfMeaning(g) ==
    LET noise(n) == [seed |-> g.nodes[n].param, draws |-> 0]
        first == CfOutput(g, <<>>, 1, noise(1))
    IN  <<first, CfOutput(g, <<first>>, 2, noise(2))>>

\* A node of the workflow raises when its turn comes.
CfFails(g) == \E n \in CfNodes : CfRaises(g.nodes[n], CfGiven(g, CfMeaning(g), n))

-----------------------------------------------------------------------------
CfNoJob == [status |-> "none", graph |-> <<>>, phase |-> "none", at |-> 0,
            results |-> <<>>, noise |-> <<>>]

CfInit == /\ cfOverlap = "unset"
          /\ cfJob = [t \in CfThread |-> CfNoJob]
          /\ cfGpu = <<>> /\ cfCpu = {} /\ cfCache = <<>>
          /\ cfRng = [seed |-> "os", draws |-> 0]

CfEnded(t) == cfJob[t].status \in {"complete", "error"}

CfConfigure == /\ cfOverlap = "unset" /\ cfOverlap' \in {"overlap", "wait"}
               /\ UNCHANGED <<cfJob, cfGpu, cfCpu, cfCache, cfRng>>

\* submit_prompt.
CfSubmit(t) ==
    /\ cfOverlap # "unset" /\ cfJob[t].status = "none"
    /\ cfOverlap = "wait" => \A u \in CfThread : CfEnded(u) \/ cfJob[u].status = "none"
    /\ \E g \in CfWorkflows :
          cfJob' = [cfJob EXCEPT ![t] = [CfNoJob EXCEPT !.status = "pending",
                                                        !.graph = g, !.phase = "parse"]]
    /\ UNCHANGED <<cfOverlap, cfGpu, cfCpu, cfCache, cfRng>>

CfGo(t, phase) == cfJob' = [cfJob EXCEPT ![t].phase = phase]
\* Mutant: the exception ends the thread and nobody notes it.
CfFailMutant(t) == CfGo(t, "none")
CfFail(t) == cfJob' = [cfJob EXCEPT ![t].status = "error", ![t].phase = "none"]

CfParse(t) ==
    /\ cfJob[t].phase = "parse"
    /\ IF CfRefused(cfJob[t].graph) THEN CfFail(t)
       ELSE cfJob' = [cfJob EXCEPT ![t].status = "running", ![t].phase = "next"]
    /\ UNCHANGED <<cfGpu, cfCpu, cfCache, cfRng>>

\* The next node in topological order; a node that
\* consumes a model needs it first.
CfPick(t) ==
    LET j == cfJob[t]
    IN  /\ j.phase = "next"
        /\ \/ /\ j.at < 2
              /\ cfJob' = [cfJob EXCEPT ![t].at = j.at + 1, ![t].phase =
                     IF CfConsumes(j.graph.nodes[j.at + 1]) THEN "find" ELSE "lookup"]
           \/ /\ j.at = 2
              /\ cfJob' = [cfJob EXCEPT ![t].status = "complete", ![t].phase = "none"]
        /\ UNCHANGED <<cfGpu, cfCpu, cfCache, cfRng>>

-----------------------------------------------------------------------------
(* ensure_loaded, in the phases find, touch, evict, take, pop, insert.     *)

CfNeeds(t) == cfJob[t].graph.nodes[cfJob[t].at].param

\* A model's name that is a list cannot be looked up.
CfFind(t) ==
    /\ cfJob[t].phase = "find"
    /\ \/ CfGo(t, IF CfNeeds(t) \in ToSet(cfGpu) THEN "touch"
                  ELSE IF Len(cfGpu) >= CfSlots THEN "evict" ELSE "take")
       \/ cfJob[t].graph.nodes[cfJob[t].at].kind = "misfit" /\ CfFail(t)
    /\ UNCHANGED <<cfGpu, cfCpu, cfCache, cfRng>>

CfToEnd(m) ==
    IF m \in ToSet(cfGpu)
    THEN Append(RemoveAt(cfGpu, CHOOSE i \in DOMAIN cfGpu : cfGpu[i] = m), m)
    ELSE Append(cfGpu, m)

\* move_to_end, a KeyError when another thread has evicted the model since.
CfTouch(t) ==
    /\ cfJob[t].phase = "touch"
    /\ IF CfNeeds(t) \in ToSet(cfGpu)
       THEN cfGpu' = CfToEnd(CfNeeds(t)) /\ CfGo(t, "lookup")
       ELSE cfGpu' = cfGpu /\ CfFail(t)
    /\ UNCHANGED <<cfCpu, cfCache, cfRng>>

\* Mutant: the model stays in its slot.
CfEvictMutant(t) ==
    /\ cfJob[t].phase = "evict" /\ cfGpu # <<>>
    /\ cfCpu' = cfCpu \cup {Head(cfGpu)} /\ CfGo(t, "take")
    /\ UNCHANGED <<cfGpu, cfCache, cfRng>>
\* _evict_lru; popitem fails when another thread has taken the last slot.
CfEvict(t) ==
    /\ cfJob[t].phase = "evict"
    /\ \/ /\ cfGpu # <<>>
          /\ cfGpu' = Tail(cfGpu) /\ cfCpu' = cfCpu \cup {Head(cfGpu)}
          /\ CfGo(t, "take")
       \/ /\ cfGpu = <<>> /\ CfFail(t) /\ UNCHANGED <<cfGpu, cfCpu>>
    /\ UNCHANGED <<cfCache, cfRng>>

\* The slot comes from the CPU, a KeyError when another thread has taken it
\* since, or is made; the transfer to the GPU is a sleep.
CfTake(t) ==
    /\ cfJob[t].phase = "take"
    /\ CfGo(t, IF CfNeeds(t) \in cfCpu THEN "pop" ELSE "insert")
    /\ UNCHANGED <<cfGpu, cfCpu, cfCache, cfRng>>

CfPop(t) ==
    /\ cfJob[t].phase = "pop"
    /\ IF CfNeeds(t) \in cfCpu THEN CfGo(t, "insert") ELSE CfFail(t)
    /\ cfCpu' = cfCpu \ {CfNeeds(t)}
    /\ UNCHANGED <<cfGpu, cfCache, cfRng>>

CfInsert(t) ==
    /\ cfJob[t].phase = "insert"
    /\ cfGpu' = CfToEnd(CfNeeds(t))
    /\ CfGo(t, "lookup")
    /\ UNCHANGED <<cfCpu, cfCache, cfRng>>

-----------------------------------------------------------------------------
CfKeyOf(t) == CfKey(cfJob[t].graph, cfJob[t].results, cfJob[t].at)

\* cache.get: a hit skips the node.
CfLookup(t) ==
    LET j == cfJob[t]
    IN  /\ j.phase = "lookup"
        /\ IF CfKeyOf(t) \in DOMAIN cfCache
           THEN cfJob' = [cfJob EXCEPT ![t].phase = "next",
                              ![t].results = Append(@, cfCache[CfKeyOf(t)])]
           ELSE CfGo(t, IF j.graph.nodes[j.at].kind = "sample" THEN "seed" ELSE "put")
        /\ UNCHANGED <<cfGpu, cfCpu, cfCache, cfRng>>

\* Mutant: the generator is seeded only once.
CfSeedMutant(t) ==
    /\ cfJob[t].phase = "seed" /\ CfGo(t, "draw")
    /\ cfRng' = IF cfRng.seed = "os" THEN [seed |-> CfNeeds(t), draws |-> 0] ELSE cfRng
    /\ UNCHANGED <<cfGpu, cfCpu, cfCache>>
\* KSamplerNode.execute seeds the generator of the whole process ...
CfSeed(t) ==
    /\ cfJob[t].phase = "seed" /\ CfGo(t, "draw")
    /\ cfRng' = [seed |-> CfNeeds(t), draws |-> 0]
    /\ UNCHANGED <<cfGpu, cfCpu, cfCache>>

\* ... and draws from it.
CfDraw(t) ==
    /\ cfJob[t].phase = "draw"
    /\ cfJob' = [cfJob EXCEPT ![t].phase = "put", ![t].noise = cfRng]
    /\ cfRng' = [cfRng EXCEPT !.draws = @ + 1]
    /\ UNCHANGED <<cfGpu, cfCpu, cfCache>>

\* Mutant: a node that raises leaves an entry in the cache all the same.
CfPutMutant(t) ==
    LET j == cfJob[t]
        output == CfOutput(j.graph, j.results, j.at, j.noise)
    IN  /\ j.phase = "put"
        /\ cfCache' = [k \in DOMAIN cfCache \cup {CfKeyOf(t)} |->
                          IF k = CfKeyOf(t) THEN output ELSE cfCache[k]]
        /\ IF CfRaises(j.graph.nodes[j.at], CfGiven(j.graph, j.results, j.at)) THEN CfFail(t)
           ELSE cfJob' = [cfJob EXCEPT ![t].phase = "next",
                              ![t].results = Append(@, output), ![t].noise = <<>>]
        /\ UNCHANGED <<cfGpu, cfCpu, cfRng>>
\* execute of the node, whose exception ends the prompt, and cache.put.
CfPut(t) ==
    LET j == cfJob[t]
        output == CfOutput(j.graph, j.results, j.at, j.noise)
    IN  /\ j.phase = "put"
        /\ \/ /\ CfRaises(j.graph.nodes[j.at], CfGiven(j.graph, j.results, j.at))
              /\ CfFail(t) /\ UNCHANGED cfCache
           \/ /\ ~CfRaises(j.graph.nodes[j.at], CfGiven(j.graph, j.results, j.at))
              /\ cfCache' = [k \in DOMAIN cfCache \cup {CfKeyOf(t)} |->
                                IF k = CfKeyOf(t) THEN output ELSE cfCache[k]]
              /\ cfJob' = [cfJob EXCEPT ![t].phase = "next",
                                        ![t].results = Append(@, output), ![t].noise = <<>>]
        /\ UNCHANGED <<cfGpu, cfCpu, cfRng>>

CfRun(t) == /\ \/ CfParse(t) \/ CfPick(t)
               \/ CfFind(t) \/ CfTouch(t) \/ CfEvict(t) \/ CfTake(t) \/ CfPop(t)
               \/ CfInsert(t) \/ CfLookup(t) \/ CfSeed(t) \/ CfDraw(t) \/ CfPut(t)
            /\ UNCHANGED cfOverlap

CfNext == CfConfigure \/ \E t \in CfThread : CfSubmit(t) \/ CfRun(t)

CfSpec == CfInit /\ [][CfNext]_cfVars

-----------------------------------------------------------------------------
\* Jobs pass through the phases of the code; a slot holds one model.
CfTypeOK ==
    /\ cfOverlap \in {"unset", "overlap", "wait"}
    /\ \A t \in CfThread :
          /\ cfJob[t].status \in {"none", "pending", "running", "complete", "error"}
          /\ cfJob[t].at \in 0..2 /\ Len(cfJob[t].results) <= cfJob[t].at
    /\ IsInjective(cfGpu) /\ ToSet(cfGpu) \subseteq CfModel /\ cfCpu \subseteq CfModel

\* Prompts that run one after another get what their nodes mean, however much
\* of it comes from the cache, fail when they are refused or a node of theirs
\* raises and then only, use a model while it is on the GPU, and no model is in
\* two places.
CfSequential ==
    cfOverlap = "wait" =>
        /\ Len(cfGpu) <= CfSlots /\ ToSet(cfGpu) \cap cfCpu = {}
        /\ \A t \in CfThread :
              LET j == cfJob[t]
              IN  /\ j.status = "error" => CfRefused(j.graph) \/ CfFails(j.graph)
                  /\ j.status = "complete" =>
                        ~CfFails(j.graph) /\ j.results = CfMeaning(j.graph)
                  /\ j.phase \in {"seed", "draw", "put"} /\ CfConsumes(j.graph.nodes[j.at]) =>
                        CfNeeds(t) \in ToSet(cfGpu)

\* Prompts that overlap: no more models than slots and other threads, and a
\* node that does not sample still gets what it means from what it was given,
\* where it does not raise.
CfConcurrent ==
    /\ Len(cfGpu) <= CfSlots + Cardinality(CfThread) - 1
    /\ \A t \in CfThread :
          LET j == cfJob[t]
          IN  \A n \in DOMAIN j.results :
                 /\ ~CfRaises(j.graph.nodes[n], CfGiven(j.graph, j.results, n))
                 /\ j.graph.nodes[n].kind # "sample" =>
                       j.results[n] = CfOutput(j.graph, j.results, n, <<>>)

\* Prompts get what their nodes mean: all of it when they run one by one, and what
\* does not depend on the shared generator when they overlap.
CfFaithful == CfTypeOK /\ CfSequential /\ CfConcurrent

\* A prompt is to come to an end, of one kind or the other.
CfOwed(t) == cfJob[t].status \in {"pending", "running"}
=============================================================================
