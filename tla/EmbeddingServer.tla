--------------------------- MODULE EmbeddingServer ---------------------------
(***************************************************************************)
(* labs/embedding-pipeline.  Stage v1: calls of embed look every text up   *)
(* in a shared LRU cache and queue the others for a worker thread, which   *)
(* encodes them in batches.  Stage v2: a registry of models by version,    *)
(* and pins that hold a caller to a version until they expire.  The vector *)
(* of a text is represented by the text itself; norms are left out.        *)
(***************************************************************************)
EXTENDS Naturals, Sequences, SequencesExt, FiniteSets

CONSTANTS EmCall, EmText,      \* calls of v1, and the texts they ask for
          EmMaxTexts,          \* bound: texts of a call
          EmMaxBatch, EmCacheSize,
          EmModel,             \* models that versions can stand for
          EmDefaultModel       \* the one load_default registers as stable

\* A vector is none of the marks that a future carries instead of one.
ASSUME EmAssumption ==
    /\ EmMaxTexts \in Nat /\ EmMaxBatch \in Nat /\ EmCacheSize \in Nat
    /\ EmDefaultModel \in EmModel
    /\ \A text \in EmText : text \notin {"none", "pending", "failed"}

VARIABLES emTexts, emAt,       \* each call: its texts, the next one to look at
          emPhase,             \* lookup, wait, done, failed
          emFuture,            \* per text: none, cached, pending, failed, or a vector
          emQueue, emBatch,    \* <<call, index>> pairs queued and taken
          emWorker,            \* drain, encode, stopped
          emStop, emCache,     \* stop event; the cache, least recent first
          emRegistry, emPins,  \* version -> model; caller -> version and if active
          emRequest            \* a v2 request between its two resolutions

emV1Vars == <<emTexts, emAt, emPhase, emFuture, emQueue, emBatch, emWorker, emStop, emCache>>
emV2Vars == <<emRegistry, emPins, emRequest>>

EmVersions == {"stable", "canary"}
\* A caller_id or a version may be the empty string ("empty"), which is not None ("none").
EmCallers == {"anna", "empty"}
EmAsked == [caller : EmCallers \cup {"none"}, version : EmVersions \cup {"empty", "none"}]
EmNobody == [phase |-> "idle"]

EmInit ==
    /\ emTexts = [c \in EmCall |-> <<>>] /\ emAt = [c \in EmCall |-> 1]
    /\ emPhase = [c \in EmCall |-> "none"] /\ emFuture = [c \in EmCall |-> <<>>]
    /\ emQueue = <<>> /\ emBatch = <<>> /\ emWorker = "drain"
    /\ emStop = FALSE /\ emCache = <<>>
    /\ emRegistry = [v \in {"stable"} |-> EmDefaultModel] /\ emPins = [c \in {} |-> {}]
    /\ emRequest = EmNobody

-----------------------------------------------------------------------------
(* The cache: pairs of a text and its vector.                              *)

EmCached(text) == {p \in ToSet(emCache) : p[1] = text}
\* A text has one entry at most: move_to_end and put take out that one.
EmWithout(text) ==
    IF EmCached(text) = {} THEN emCache
    ELSE RemoveAt(emCache, CHOOSE k \in DOMAIN emCache : emCache[k][1] = text)

\* put: the entry becomes the most recent, and the oldest goes when needed.
EmPut(text, vector) ==
    LET new == Append(EmWithout(text), <<text, vector>>)
    IN  IF Len(new) > EmCacheSize THEN Tail(new) ELSE new

EmTouch(p) == Append(EmWithout(p[1]), p)

-----------------------------------------------------------------------------
EmEmbed(c) ==
    /\ emPhase[c] = "none"
    /\ \E n \in 1..EmMaxTexts : \E texts \in [1..n -> EmText] :
          /\ emTexts' = [emTexts EXCEPT ![c] = texts]
          /\ emFuture' = [emFuture EXCEPT ![c] = [i \in 1..n |-> "none"]]
    /\ emPhase' = [emPhase EXCEPT ![c] = "lookup"]
    /\ UNCHANGED <<emAt, emQueue, emBatch, emWorker, emStop, emCache>>

EmLookup(c) ==
    LET i == emAt[c]
        text == emTexts[c][i]
    IN  /\ emPhase[c] = "lookup" /\ i <= Len(emTexts[c])
        /\ \/ \E p \in EmCached(text) :
                 /\ emFuture' = [emFuture EXCEPT ![c][i] = p[2]]
                 /\ emCache' = EmTouch(p) /\ UNCHANGED emQueue
           \/ /\ EmCached(text) = {}
              /\ emFuture' = [emFuture EXCEPT ![c][i] = "pending"]
              /\ emQueue' = Append(emQueue, <<c, i>>) /\ UNCHANGED emCache
        /\ emAt' = [emAt EXCEPT ![c] = i + 1]
        /\ UNCHANGED <<emTexts, emPhase, emBatch, emWorker, emStop>>

EmLookedUp(c) ==
    /\ emPhase[c] = "lookup" /\ emAt[c] > Len(emTexts[c])
    /\ emPhase' = [emPhase EXCEPT ![c] = "wait"] /\ emAt' = [emAt EXCEPT ![c] = 1]
    /\ UNCHANGED <<emTexts, emFuture, emQueue, emBatch, emWorker, emStop, emCache>>

\* The results are collected and cached in the order of the texts; the first
\* that failed is raised.
EmCollect(c) ==
    LET i == emAt[c]
        future == emFuture[c]
    IN  /\ emPhase[c] = "wait"
        /\ \/ /\ i <= Len(future) /\ future[i] \notin {"pending", "failed"}
              /\ emCache' = EmPut(emTexts[c][i], future[i])
              /\ emAt' = [emAt EXCEPT ![c] = i + 1] /\ UNCHANGED emPhase
           \/ /\ i <= Len(future) /\ future[i] = "failed"
              /\ emPhase' = [emPhase EXCEPT ![c] = "failed"] /\ UNCHANGED <<emAt, emCache>>
           \/ /\ i > Len(future)
              /\ emPhase' = [emPhase EXCEPT ![c] = "done"] /\ UNCHANGED <<emAt, emCache>>
        /\ UNCHANGED <<emTexts, emFuture, emQueue, emBatch, emWorker, emStop>>

\* future.result(timeout=30.0)
EmTimeout(c) ==
    /\ emPhase[c] = "wait" /\ emAt[c] <= Len(emFuture[c])
    /\ emFuture[c][emAt[c]] = "pending"
    /\ emPhase' = [emPhase EXCEPT ![c] = "failed"]
    /\ UNCHANGED <<emTexts, emAt, emFuture, emQueue, emBatch, emWorker, emStop, emCache>>

-----------------------------------------------------------------------------
\* drain: what has come when the window closes or the batch is full.
EmDrain ==
    /\ emWorker = "drain" /\ emQueue # <<>>
    /\ \E n \in 1..Len(emQueue) :
          /\ n <= EmMaxBatch
          /\ emBatch' = SubSeq(emQueue, 1, n)
          /\ emQueue' = SubSeq(emQueue, n + 1, Len(emQueue))
    /\ emWorker' = "encode"
    /\ UNCHANGED <<emTexts, emAt, emPhase, emFuture, emStop, emCache>>

\* Mutant: vectors are handed out in the order of the calls' own texts.
EmResolveMutant(vectors) ==
    emFuture' = [c \in EmCall |-> [i \in DOMAIN emFuture[c] |->
        IF <<c, i>> \in ToSet(emBatch) /\ i <= Len(vectors) THEN vectors[i]
        ELSE emFuture[c][i]]]
\* The k-th vector belongs to the k-th request of the batch.
EmResolve(vectors) ==
    emFuture' = [c \in EmCall |-> [i \in DOMAIN emFuture[c] |->
        IF <<c, i>> \in ToSet(emBatch)
        THEN vectors[CHOOSE k \in DOMAIN emBatch : emBatch[k] = <<c, i>>]
        ELSE emFuture[c][i]]]

\* _run: an exception of encode fails every request of the batch.
EmEncode ==
    /\ emWorker = "encode"
    /\ \/ EmResolve([k \in DOMAIN emBatch |-> emTexts[emBatch[k][1]][emBatch[k][2]]])
       \/ EmResolve([k \in DOMAIN emBatch |-> "failed"])
    /\ emBatch' = <<>>
    /\ emWorker' = IF emStop THEN "stopped" ELSE "drain"
    /\ UNCHANGED <<emTexts, emAt, emPhase, emQueue, emStop, emCache>>

\* shutdown sets the event; an idle worker sees it when its get times out.
EmShutdown == /\ ~emStop /\ emStop' = TRUE
              /\ emWorker' = IF emWorker = "drain" /\ emQueue = <<>> THEN "stopped" ELSE emWorker
              /\ UNCHANGED <<emTexts, emAt, emPhase, emFuture, emQueue, emBatch, emCache>>

EmServe(c) == EmLookup(c) \/ EmLookedUp(c) \/ EmCollect(c)
EmWork == EmDrain \/ EmEncode

EmV1Next == EmWork \/ EmShutdown
            \/ \E c \in EmCall : EmEmbed(c) \/ EmServe(c) \/ EmTimeout(c)

-----------------------------------------------------------------------------
(* Stage v2.                                                               *)

\* A version that exists is replaced.
EmRegister(v, model) ==
    /\ emRegistry' = [w \in DOMAIN emRegistry \cup {v} |->
                         IF w = v THEN model ELSE emRegistry[w]]
    /\ emRequest' = IF emRequest.phase = "embedded" THEN [emRequest EXCEPT !.disturbed = TRUE]
                    ELSE emRequest
    /\ UNCHANGED emPins

\* A pin replaces the caller's earlier one; duration_hours may be negative.
EmPin(caller, v, active) ==
    /\ emPins' = [c \in DOMAIN emPins \cup {caller} |->
                     IF c = caller THEN [version |-> v, active |-> active] ELSE emPins[c]]
    /\ emRequest' = IF emRequest.phase = "embedded" THEN [emRequest EXCEPT !.disturbed = TRUE]
                    ELSE emRequest
    /\ UNCHANGED emRegistry

EmExpire(caller) ==
    /\ caller \in DOMAIN emPins /\ emPins[caller].active
    /\ EmPin(caller, emPins[caller].version, FALSE)

EmResolvePin(caller) ==
    IF caller \in DOMAIN emPins /\ emPins[caller].active THEN emPins[caller].version
    ELSE "stable"

\* VersionedEmbeddingServer.embed tests its arguments with "is not None": an
\* explicit version counts only when no caller is given.
EmVersionOf(caller, version) ==
    IF caller # "none" THEN EmResolvePin(caller)
    ELSE IF version # "none" THEN version ELSE "stable"

\* Mutant: the pin is looked up for the first resolution only.
EmNamedVersionMutant(caller, version) ==
    IF version \in {"none", "empty"} THEN "stable" ELSE version
\* server.embed resolves the version a second time to name the model, and tests
\* both for truth.
EmNamedVersion(caller, version) ==
    IF caller \notin {"none", "empty"} THEN EmResolvePin(caller)
    ELSE IF version \notin {"none", "empty"} THEN version ELSE "stable"

EmBegin(caller, version) ==
    LET v == EmVersionOf(caller, version)
    IN  /\ emRequest.phase \in {"idle", "answered", "refused"}
        /\ emRequest' = IF v \in DOMAIN emRegistry
                        THEN [phase |-> "embedded", caller |-> caller, version |-> version,
                              by |-> emRegistry[v], name |-> {}, disturbed |-> FALSE]
                        ELSE [phase |-> "refused"]
        /\ UNCHANGED <<emRegistry, emPins>>

EmAnswer ==
    LET v == EmNamedVersion(emRequest.caller, emRequest.version)
    IN  /\ emRequest.phase = "embedded"
        /\ emRequest' = IF v \in DOMAIN emRegistry
                        THEN [emRequest EXCEPT !.phase = "answered", !.name = emRegistry[v]]
                        ELSE [phase |-> "refused"]
        /\ UNCHANGED <<emRegistry, emPins>>

EmV2Next ==
    \/ \E v \in EmVersions, m \in EmModel : EmRegister(v, m)
    \/ \E c \in EmCallers, v \in EmVersions : EmPin(c, v, TRUE) \/ EmPin(c, v, FALSE)
    \/ \E c \in EmCallers : EmExpire(c)
    \/ \E asked \in EmAsked : EmBegin(asked.caller, asked.version)
    \/ EmAnswer

\* The stages are programs of their own.
EmNext == \/ EmV1Next /\ UNCHANGED emV2Vars
          \/ EmV2Next /\ UNCHANGED emV1Vars

EmSpec == EmInit /\ [][EmNext]_<<emV1Vars, emV2Vars>>

-----------------------------------------------------------------------------
\* Queued requests are pending, and the cache stays within its size.
EmTypeOK ==
    /\ \A c \in EmCall : emPhase[c] \in {"none", "lookup", "wait", "done", "failed"}
    /\ \A k \in DOMAIN emQueue : emFuture[emQueue[k][1]][emQueue[k][2]] = "pending"
    /\ emWorker \in {"drain", "encode", "stopped"} /\ Len(emBatch) <= EmMaxBatch
    /\ emRequest.phase \in {"idle", "embedded", "answered", "refused"}

\* Whatever was batched with what and came from the cache: the i-th vector of a
\* call is that of its i-th text, every text has one entry in the cache at most,
\* with its own vector, and the cache stays within its size.
EmVectorsRight ==
    /\ \A c \in EmCall : emPhase[c] = "done" =>
          emFuture[c] = emTexts[c]
    /\ Len(emCache) <= EmCacheSize
    /\ \A k \in DOMAIN emCache : emCache[k][2] = emCache[k][1]
    /\ \A k, l \in DOMAIN emCache : emCache[k][1] = emCache[l][1] => k = l

\* Until the server is shut down no request is to be lost: every call gets its
\* vectors or an error.  (queue and worker)
EmOwed(c) == emPhase[c] \in {"lookup", "wait"} /\ ~emStop

\* The model an answer names is the one that made its vectors, unless a model
\* was registered or a pin set or expired in between, or the caller's id is the
\* empty string, which the two resolutions read differently.  (server.embed
\* resolves twice)
EmModelNamed ==
    emRequest.phase = "answered" /\ ~emRequest.disturbed /\ emRequest.caller # "empty" =>
        emRequest.name = emRequest.by

\* A text's vector is its own, whatever was batched and cached, and an answer names
\* the model that made it.
EmFaithful == EmTypeOK /\ EmVectorsRight /\ EmModelNamed
=============================================================================
