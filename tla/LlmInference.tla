---------------------------- MODULE LlmInference ----------------------------
(***************************************************************************)
(* labs/llm-inference: the continuous-batching engine of stage v2 with its *)
(* paged allocator and priority queue, driven by the coroutines of the     *)
(* server, and the generation loops of stages v0 and v1 over one           *)
(* deterministic model (greedy decoding).                                  *)
(*                                                                         *)
(* scheduler_step runs under _engine_lock without a suspension: its loops  *)
(* are actions of their own, during which nobody else moves.  Which token  *)
(* is the end of the sequence is up to the model.                          *)
(***************************************************************************)
EXTENDS Integers, Sequences, SequencesExt, FiniteSets, FiniteSetsExt

CONSTANTS InfRequest, InfPriorities, InfLimits,   \* requests, priority, max_tokens
          InfPageSize, InfPages, InfMaxBatch      \* PAGE_SIZE, total_pages, max_batch_size

InfNobody == 0   \* nobody drives a step

ASSUME InfAssumption ==
    /\ InfPageSize \in Nat \ {0} /\ InfMaxBatch \in Nat \ {0} /\ InfPages \in Nat
    /\ IsFiniteSet(InfRequest) /\ InfNobody \notin InfRequest
    /\ InfPriorities \subseteq Int /\ InfLimits \subseteq Nat

VARIABLES infReq,              \* status, priority, max_tokens, tokens of each request
          infQueue,            \* RequestQueue, in the order of its heap
          infActive,           \* active
          infPhase, infTodo,   \* where scheduler_step is; who is left in its loop
          infCache,            \* PagedKVCache
          infStarved,          \* an allocation found no free page
          infDriver,           \* whose coroutine called scheduler_step
          infRaises            \* requests on which the model raises: their prompt is empty

infVars == <<infReq, infQueue, infActive, infPhase, infTodo, infCache, infStarved, infDriver,
             infRaises>>

InfPage == 1 .. InfPages

-----------------------------------------------------------------------------
(* PagedKVCache: free pages, the pages of a request and their tokens.      *)

InfEmptyCache == [free |-> InfPage, pages |-> [r \in InfRequest |-> <<>>],
                  used |-> [p \in InfPage |-> 0]]

\* allocate_page: None, and no change, when there is no page.
InfAllocate(c, r, tokens) ==
    IF c.free = {} THEN c
    ELSE LET p == CHOOSE p \in c.free : TRUE
         IN  [free |-> c.free \ {p}, pages |-> [c.pages EXCEPT ![r] = Append(@, p)],
              used |-> [c.used EXCEPT ![p] = tokens]]

InfLastPage(c, r) == c.pages[r][Len(c.pages[r])]

InfNeedsPage(c, r) == c.pages[r] = <<>> \/ c.used[InfLastPage(c, r)] >= InfPageSize

\* Mutant: a page counts as full one token late.
InfRecordTokenMutant(c, r) ==
    CASE c.pages[r] = <<>> -> InfAllocate(c, r, 0)
      [] c.pages[r] # <<>> /\ c.used[InfLastPage(c, r)] > InfPageSize -> InfAllocate(c, r, 1)
      [] OTHER -> [c EXCEPT !.used[InfLastPage(c, r)] = @ + 1]

\* record_token: a request without a page gets one, without the token.
InfRecordToken(c, r) ==
    CASE c.pages[r] = <<>> -> InfAllocate(c, r, 0)
      [] c.pages[r] # <<>> /\ InfNeedsPage(c, r) -> InfAllocate(c, r, 1)
      [] OTHER -> [c EXCEPT !.used[InfLastPage(c, r)] = @ + 1]

\* Mutant: only the last page is returned.
InfFreeMutant(c, r) ==
    IF c.pages[r] = <<>> THEN c
    ELSE [c EXCEPT !.free = @ \cup {InfLastPage(c, r)}, !.pages[r] = <<>>]

\* free_request.
InfFree(c, r) ==
    LET mine == ToSet(c.pages[r])
    IN  [free |-> c.free \cup mine, pages |-> [c.pages EXCEPT ![r] = <<>>],
         used |-> [p \in InfPage |-> IF p \in mine THEN 0 ELSE c.used[p]]]

-----------------------------------------------------------------------------
(* RequestQueue and BatchedEngine.                                         *)

InfNew == [status |-> "new", priority |-> 0, limit |-> 0, tokens |-> 0,
           arrival |-> 0, waiting |-> FALSE]

InfInit == /\ infReq = [r \in InfRequest |-> InfNew]
           /\ infQueue = <<>> /\ infActive = <<>>
           /\ infPhase = "idle" /\ infTodo = <<>>
           /\ infCache = InfEmptyCache /\ infStarved = FALSE
           /\ infDriver = InfNobody /\ infRaises \in SUBSET InfRequest

\* Mutant: a newcomer goes before those of the same priority.
InfPushMutant(q, r, priority) ==
    InsertAt(q, Cardinality({i \in DOMAIN q : infReq[q[i]].priority < priority}) + 1, r)

\* push: by priority, then by arrival: behind all that are not to be served later.
InfPush(q, r, priority) ==
    InsertAt(q, Cardinality({i \in DOMAIN q : infReq[q[i]].priority <= priority}) + 1, r)

\* generate: submit, and a coroutine that steps the engine while it waits.
InfSubmit(r) ==
    /\ infPhase = "idle" /\ infReq[r].status = "new"
    /\ \E priority \in InfPriorities, limit \in InfLimits :
          /\ infReq' = [infReq EXCEPT ![r] = [InfNew EXCEPT !.status = "queued",
                           !.priority = priority, !.limit = limit, !.waiting = TRUE,
                           !.arrival = Cardinality({s \in InfRequest : infReq[s].status # "new"})]]
          /\ infQueue' = InfPush(infQueue, r, priority)
    /\ UNCHANGED <<infActive, infPhase, infTodo, infCache, infStarved, infDriver, infRaises>>

\* wait_for gives up: the request stays with the engine.
InfTimeout(r) ==
    /\ infPhase = "idle" /\ infReq[r].waiting
    /\ infReq' = [infReq EXCEPT ![r].waiting = FALSE]
    /\ UNCHANGED <<infQueue, infActive, infPhase, infTodo, infCache, infStarved, infDriver, infRaises>>

\* Mutant: a coroutine steps the engine only once its request is in the batch.
InfBeginMutant ==
    /\ infPhase = "idle"
    /\ \E r \in ToSet(infActive) : infReq[r].waiting /\ infDriver' = r
    /\ infPhase' = "admit"
    /\ UNCHANGED <<infReq, infQueue, infActive, infTodo, infCache, infStarved, infRaises>>

\* A waiting coroutine takes the lock and calls scheduler_step.
InfBegin ==
    /\ infPhase = "idle"
    /\ \E r \in InfRequest : infReq[r].waiting /\ infDriver' = r
    /\ infPhase' = "admit"
    /\ UNCHANGED <<infReq, infQueue, infActive, infTodo, infCache, infStarved, infRaises>>

InfRoom == Len(infActive) < InfMaxBatch /\ infQueue # <<>>

\* The first of the queue joins the batch; that it gets no page is ignored.
InfAdmit ==
    LET r == Head(infQueue)
    IN  /\ infPhase = "admit" /\ InfRoom
        /\ infQueue' = Tail(infQueue)
        /\ infActive' = Append(infActive, r)
        /\ infReq' = [infReq EXCEPT ![r].status = "active"]
        /\ infStarved' = (infStarved \/ infCache.free = {})
        /\ infCache' = InfAllocate(infCache, r, 0)
        /\ UNCHANGED <<infPhase, infTodo, infDriver, infRaises>>

\* Admission is over; the loop goes over a copy of active.
InfPlan ==
    /\ infPhase = "admit" /\ ~InfRoom
    /\ infPhase' = IF infActive = <<>> THEN "idle" ELSE "decode"
    /\ infTodo' = infActive
    /\ infDriver' = IF infActive = <<>> THEN InfNobody ELSE infDriver
    /\ UNCHANGED <<infReq, infQueue, infActive, infCache, infStarved, infRaises>>

\* One forward pass and token; a request that is complete gives its pages back
\* and calls its callback.
InfDecode ==
    LET r == Head(infTodo)
        recorded == InfRecordToken(infCache, r)
    IN  /\ infPhase = "decode" /\ r \notin infRaises
        /\ infTodo' = Tail(infTodo)
        /\ infPhase' = IF Len(infTodo) = 1 THEN "idle" ELSE "decode"
        /\ infDriver' = IF Len(infTodo) = 1 THEN InfNobody ELSE infDriver
        /\ infStarved' = (infStarved \/ (InfNeedsPage(infCache, r) /\ infCache.free = {}))
        /\ \E eos \in BOOLEAN :
             IF eos \/ infReq[r].tokens + 1 >= infReq[r].limit
             THEN /\ infReq' = [infReq EXCEPT ![r].tokens = @ + 1, ![r].status = "done",
                                              ![r].waiting = FALSE]
                  /\ infActive' = RemoveAt(infActive,
                                   CHOOSE i \in DOMAIN infActive : infActive[i] = r)
                  /\ infCache' = InfFree(recorded, r)
             ELSE /\ infReq' = [infReq EXCEPT ![r].tokens = @ + 1]
                  /\ infCache' = recorded
                  /\ UNCHANGED infActive
        /\ UNCHANGED <<infQueue, infRaises>>

\* The forward pass raises: the step ends, the coroutine that called it answers
\* with an error, and the request stays in the batch, to raise again.
InfRaise ==
    /\ infPhase = "decode" /\ Head(infTodo) \in infRaises
    /\ infPhase' = "idle" /\ infTodo' = <<>> /\ infDriver' = InfNobody
    /\ infReq' = [infReq EXCEPT ![infDriver].waiting = FALSE]
    /\ UNCHANGED <<infQueue, infActive, infCache, infStarved, infRaises>>

InfStep == InfBegin \/ InfAdmit \/ InfPlan \/ InfDecode \/ InfRaise
InfNext == InfStep \/ \E r \in InfRequest : InfSubmit(r) \/ InfTimeout(r)

-----------------------------------------------------------------------------
(* Generation: generate_naive, generate_with_kv_cache and the manual one,  *)
(* each on its own copy of the same prompt.                                *)

CONSTANTS GenToken, GenEos, GenLimits   \* vocabulary, max_tokens

ASSUME GenAssumption == (\E t \in GenToken : t # GenEos) /\ GenLimits \subseteq Nat

VARIABLES genModel,            \* the next token after each context
          genLimit,            \* max_tokens
          genIds, genPast,     \* input_ids, and what the KV cache covers
          genDone,             \* loops that have ended
          genTimes             \* context_length of each PerTokenTiming

genVars == <<genModel, genLimit, genIds, genPast, genDone, genTimes>>
GenLoops == {"naive", "kv", "manual"}

GenPrompt == <<CHOOSE t \in GenToken : t # GenEos>>
GenMax == Max(GenLimits)
GenContexts == {GenPrompt \o c : c \in UNION {[1 .. n -> GenToken] : n \in 0 .. GenMax}}

GenInit == /\ genModel = <<>> /\ genLimit = 0
           /\ genIds = [l \in GenLoops |-> GenPrompt]
           /\ genPast = [l \in GenLoops |-> <<>>]
           /\ genDone = {} /\ genTimes = <<>>

GenCall == /\ genModel = <<>>
           /\ genModel' \in [GenContexts -> GenToken]
           /\ genLimit' \in GenLimits
           /\ UNCHANGED <<genIds, genPast, genDone, genTimes>>

GenCount(l) == Len(genIds[l]) - Len(GenPrompt)

\* Mutant: the decode step hands over the whole sequence beside the cache.
GenInputMutant(l) == genIds[l]

\* What a forward pass is given: everything, or the prompt and then only the
\* last token, the rest being in the cache.
GenInput(l) == IF l = "naive" \/ GenCount(l) = 0 THEN genIds[l]
               ELSE <<Last(genIds[l])>>

\* Mutant: the cache of the previous step is not handed over.
GenForwardMutant(l) == GenInput(l)

\* A forward pass attends to the cache and its input.
GenForward(l) == (IF l = "naive" THEN <<>> ELSE genPast[l]) \o GenInput(l)

\* The prefill of the cached loops makes a token whatever max_tokens is, and
\* the manual loop does not look at it before it goes on.
GenStops(l, token, count) ==
    CASE l = "manual" /\ count = 1 -> count >= genLimit
      [] OTHER -> token = GenEos \/ count >= genLimit

GenStep(l) ==
    LET context == GenForward(l)
        token == IF context \in DOMAIN genModel THEN genModel[context]
                 ELSE CHOOSE t \in GenToken : t # GenEos
    IN  /\ genModel # <<>> /\ l \notin genDone
        /\ ~(l = "naive" /\ genLimit = 0)
        /\ genIds' = [genIds EXCEPT ![l] = Append(@, token)]
        /\ genPast' = [genPast EXCEPT ![l] = IF l = "naive" THEN @ ELSE context]
        /\ genTimes' = IF l = "naive" THEN Append(genTimes, Len(genIds[l])) ELSE genTimes
        /\ genDone' = IF GenStops(l, token, GenCount(l) + 1) THEN genDone \cup {l} ELSE genDone
        /\ UNCHANGED <<genModel, genLimit>>

GenNothing == /\ genModel # <<>> /\ genLimit = 0 /\ "naive" \notin genDone
              /\ genDone' = genDone \cup {"naive"}
              /\ UNCHANGED <<genModel, genLimit, genIds, genPast, genTimes>>

GenNext == GenCall \/ GenNothing \/ \E l \in GenLoops : GenStep(l)

\* The stages are programs of their own.
LlmSpec == /\ InfInit /\ GenInit
           /\ [][\/ InfNext /\ UNCHANGED genVars
                 \/ GenNext /\ UNCHANGED infVars]_<<infVars, genVars>>

-----------------------------------------------------------------------------
\* Ranges of the engine's state.
InfTypeOK == /\ \A r \in InfRequest : infReq[r].status \in {"new", "queued", "active", "done"}
             /\ infCache.free \subseteq InfPage /\ infStarved \in BOOLEAN
             /\ infCache.used \in [InfPage -> 0 .. InfPageSize]
             /\ Len(infActive) <= InfMaxBatch

\* A page is free or belongs to one request, and only requests in the batch
\* have pages: whatever is completed, in whatever order, nothing leaks and
\* nothing is shared.  (PagedKVCache under scheduler_step)
InfPagesPartition ==
    LET owned(r) == ToSet(infCache.pages[r])  \* also between two loop steps
    IN  /\ \A r \in InfRequest :
              /\ owned(r) \cap infCache.free = {}
              /\ Cardinality(owned(r)) = Len(infCache.pages[r])
              /\ owned(r) # {} => r \in ToSet(infActive)
              /\ \A s \in InfRequest \ {r} : owned(r) \cap owned(s) = {}
        /\ (UNION {owned(r) : r \in InfRequest}) \cup infCache.free = InfPage

\* As long as no allocation found the pool empty, a request in the batch has
\* just the pages that its tokens fill.  (record_token against admission)
InfPagesFit ==
    ~infStarved => \A r \in ToSet(infActive) :
        Len(infCache.pages[r]) =
            IF infReq[r].tokens = 0 THEN 1
            ELSE (infReq[r].tokens + InfPageSize - 1) \div InfPageSize

\* Nobody overtakes: a request leaves the queue before every one that has a
\* higher priority number, or the same and came later.  (RequestQueue)
InfNoOvertaking ==
    [][\A a, b \in ToSet(infQueue) :
          /\ \/ infReq[a].priority < infReq[b].priority
             \/ /\ infReq[a].priority = infReq[b].priority
                /\ infReq[a].arrival < infReq[b].arrival
          /\ infReq'[b].status # "queued"
          => infReq'[a].status # "queued"]_infVars

\* Whoever waits for its text is to get it, an error or a time-out, even when it was
\* submitted behind others and the others' coroutines stop.  (run_engine of the server)
InfOwed(r) == infReq[r].waiting

\* Greedy decoding with a cache writes what it writes without one, for every
\* max_tokens the server admits; the manual loop too unless the prompt itself
\* is followed by the end of the sequence.  (generate_* of v0 and v1)
GenCacheChangesNothing ==
    genLimit > 0 =>
        /\ {"naive", "kv"} \subseteq genDone => genIds["kv"] = genIds["naive"]
        /\ {"naive", "manual"} \subseteq genDone =>
              \/ genIds["manual"] = genIds["naive"]
              \/ genIds["naive"] = Append(GenPrompt, GenEos)

\* The cache covers every token but the last one written.
GenCacheCovers ==
    \A l \in {"kv", "manual"} : GenCount(l) > 0 => genPast[l] = Front(genIds[l])

\* The engine's pages are partitioned and fit its requests, and a cache of keys and
\* values changes nothing of what is written.
EngineFaithful ==
    /\ InfTypeOK /\ InfPagesPartition /\ InfPagesFit
    /\ GenCacheChangesNothing /\ GenCacheCovers
=============================================================================
