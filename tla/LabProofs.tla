------------------------------ MODULE LabProofs ------------------------------
(***************************************************************************)
(* Proofs about the Python labs that serve and train: the batching worker, *)
(* cache, registry and pins of the embedding server, which several calls   *)
(* share; the threads, cache and model pool of the workflow executor; the  *)
(* prompt optimizer, the fine-tuning jobs and the adapters of a served     *)
(* model.                                                                  *)
(***************************************************************************)
EXTENDS EmbeddingServer, ComfyExecutor, Trainers, SequenceLemmas, SequenceTheorems, TLAPS

-----------------------------------------------------------------------------
(* The embedding server, stage v1.                                         *)

EmMarks == {"none", "pending", "failed"}

\* A call that was not made has no texts; the others have a future for each.
EmCallsOK ==
    /\ emTexts \in [EmCall -> Seq(EmText)]
    /\ emFuture \in [EmCall -> Seq(EmText \cup EmMarks)]
    /\ emAt \in [EmCall -> Nat \ {0}]
    /\ emPhase \in [EmCall -> {"none", "lookup", "wait", "done", "failed"}]
    /\ \A c \in EmCall : Len(emFuture[c]) = Len(emTexts[c])
    /\ \A c \in EmCall : emPhase[c] = "none" => emTexts[c] = <<>> /\ emAt[c] = 1

\* The i-th future of a call never holds another text's vector; those looked up
\* are marked or resolved, and those collected are resolved.
EmFutureOK(c, i) ==
    /\ emFuture[c][i] \in EmMarks \cup {emTexts[c][i]}
    /\ emFuture[c][i] = "none" <=> emPhase[c] = "lookup" /\ emAt[c] <= i
    /\ emPhase[c] = "wait" /\ i < emAt[c] => emFuture[c][i] = emTexts[c][i]
    /\ emPhase[c] = "done" => emFuture[c][i] = emTexts[c][i]

EmFuturesOK == \A c \in EmCall : \A i \in 1..Len(emTexts[c]) : EmFutureOK(c, i)

\* A request that is queued or taken waits for its vector.
EmPendingAt(e) ==
    /\ e[2] \in 1..Len(emTexts[e[1]])
    /\ emFuture[e[1]][e[2]] = "pending"

EmQueueOK ==
    /\ emQueue \in Seq(EmCall \X Nat) /\ emBatch \in Seq(EmCall \X Nat)
    /\ \A k \in 1..Len(emQueue) : EmPendingAt(emQueue[k])
    /\ \A k \in 1..Len(emBatch) : EmPendingAt(emBatch[k])

\* Nothing is queued twice, nor both queued and taken.
EmQueuedOnce ==
    /\ \A k, l \in 1..Len(emQueue) : emQueue[k] = emQueue[l] => k = l
    /\ \A k \in 1..Len(emQueue), l \in 1..Len(emBatch) : emQueue[k] # emBatch[l]

EmWorkerOK ==
    /\ emWorker \in {"drain", "encode", "stopped"}
    /\ emWorker # "encode" => emBatch = <<>>
    /\ Len(emBatch) <= EmMaxBatch

EmCacheGood(cache) ==
    /\ cache \in Seq(EmText \X EmText) /\ Len(cache) <= EmCacheSize
    /\ \A k \in 1..Len(cache) : cache[k][2] = cache[k][1]
    /\ \A k, l \in 1..Len(cache) : cache[k][1] = cache[l][1] => k = l

(* Stage v2: the model an undisturbed request was embedded by is the one   *)
(* its version still stands for.                                           *)
EmRequestOK ==
    /\ emRequest \in [phase : {"idle", "refused"}]
           \cup [phase : {"embedded", "answered"}, caller : EmCallers \cup {"none"},
                 version : EmVersions \cup {"empty", "none"}, by : EmModel,
                 name : EmModel \cup {{}}, disturbed : BOOLEAN]
    /\ emRequest.phase = "embedded" /\ ~emRequest.disturbed =>
          LET v == EmVersionOf(emRequest.caller, emRequest.version)
          IN  v \in DOMAIN emRegistry /\ emRegistry[v] = emRequest.by

EmRegistryOK ==
    /\ emRegistry \in [DOMAIN emRegistry -> EmModel] /\ DOMAIN emRegistry \subseteq EmVersions
    /\ emPins \in [DOMAIN emPins -> [version : EmVersions, active : BOOLEAN]]

EmV1Inv == EmCallsOK /\ EmFuturesOK /\ EmQueueOK /\ EmQueuedOnce /\ EmWorkerOK
           /\ EmCacheGood(emCache)
EmV2Inv == EmRequestOK /\ EmRegistryOK /\ EmModelNamed
EmInv == EmV1Inv /\ EmV2Inv

-----------------------------------------------------------------------------
(* The cache.                                                              *)

LEMMA EmWithoutGood ==
    ASSUME EmCacheGood(emCache), NEW text \in EmText
    PROVE  /\ EmCacheGood(EmWithout(text))
           /\ \A k \in 1..Len(EmWithout(text)) : EmWithout(text)[k][1] # text
           /\ EmCached(text) # {} => Len(EmWithout(text)) = Len(emCache) - 1
<1> DEFINE S == EmText \X EmText
<1>1. emCache \in Seq(S) /\ DOMAIN emCache = 1..Len(emCache) /\ Len(emCache) \in Nat
  BY DEF EmCacheGood
<1>2. CASE EmCached(text) = {}
  <2>1. \A k \in 1..Len(emCache) : emCache[k][1] # text
    BY <1>1, <1>2, Members DEF EmCached
  <2> QED
    BY <1>2, <2>1 DEF EmWithout
<1>3. CASE EmCached(text) # {}
  <2> DEFINE i == CHOOSE k \in DOMAIN emCache : emCache[k][1] = text
             w == RemoveAt(emCache, i)
  <2>1. \E k \in DOMAIN emCache : emCache[k][1] = text
    BY <1>1, <1>3, Members DEF EmCached
  <2>2. i \in 1..Len(emCache) /\ emCache[i][1] = text
    BY <1>1, <2>1
  <2>3. EmWithout(text) = w
    BY <1>3 DEF EmWithout
  <2> HIDE DEF i
  <2>4. /\ w \in Seq(S) /\ Len(w) = Len(emCache) - 1
        /\ \A k \in 1..Len(w) : w[k] = IF k < i THEN emCache[k] ELSE emCache[k + 1]
    BY <1>1, <2>2, Removed
  <2> HIDE DEF w, S
  <2>5. \A k \in 1..Len(w) : k \in 1..Len(emCache) /\ k + 1 \in 1..Len(emCache)
    BY <1>1, <2>4
  <2>6. ASSUME NEW k \in 1..Len(w) PROVE w[k][2] = w[k][1] /\ w[k][1] # text
    <3>1. PICK l \in 1..Len(emCache) : w[k] = emCache[l] /\ l # i
      <4>1. k \in Int /\ i \in Int /\ k \in 1..Len(emCache) /\ k + 1 \in 1..Len(emCache)
        BY <1>1, <2>2, <2>5
      <4>2. CASE k < i
        <5>1. w[k] = emCache[k] /\ k # i
          BY <2>4, <4>1, <4>2
        <5> QED BY <4>1, <5>1
      <4>3. CASE ~(k < i)
        <5>1. w[k] = emCache[k + 1] /\ k + 1 # i
          BY <2>4, <4>1, <4>3
        <5> QED BY <4>1, <5>1
      <4> QED BY <4>2, <4>3
    <3> QED
      BY <2>2, <3>1 DEF EmCacheGood
  <2>7. \A k, l \in 1..Len(w) : w[k][1] = w[l][1] => k = l
    BY <1>1, <2>2, <2>4, <2>5 DEF EmCacheGood
  <2>8. Len(w) <= EmCacheSize
    BY <1>1, <2>4, EmAssumption DEF EmCacheGood
  <2> QED
    BY <1>3, <2>3, <2>4, <2>6, <2>7, <2>8 DEF EmCacheGood, S
<1> QED
  BY <1>2, <1>3

\* Every entry of a cache with one more text is good as far as its length is.
LEMMA EmOneMore ==
    ASSUME EmCacheGood(emCache), NEW text \in EmText
    PROVE  LET new == Append(EmWithout(text), <<text, text>>)
           IN  /\ new \in Seq(EmText \X EmText) /\ Len(new) = Len(EmWithout(text)) + 1
               /\ \A k \in 1..Len(new) : new[k][2] = new[k][1]
               /\ \A k, l \in 1..Len(new) : new[k][1] = new[l][1] => k = l
<1> DEFINE w == EmWithout(text)
           new == Append(w, <<text, text>>)
<1>1. EmCacheGood(w) /\ \A k \in 1..Len(w) : w[k][1] # text
  BY EmWithoutGood
<1> HIDE DEF w
<1>2. /\ new \in Seq(EmText \X EmText) /\ Len(new) = Len(w) + 1 /\ Len(w) \in Nat
      /\ \A k \in 1..(Len(w) + 1) : new[k] = IF k = Len(w) + 1 THEN <<text, text>> ELSE w[k]
  BY <1>1, Lengthened DEF EmCacheGood
<1> HIDE DEF new
<1>3. \A k \in 1..Len(new) : k = Len(w) + 1 \/ k \in 1..Len(w)
  BY <1>2
<1>4. ASSUME NEW k \in 1..Len(new) PROVE new[k][2] = new[k][1]
  <2>1. CASE k = Len(w) + 1
    <3>1. new[k] = <<text, text>>
      BY <1>2, <2>1
    <3> QED BY <3>1
  <2>2. CASE k # Len(w) + 1
    <3>1. k \in 1..Len(w) /\ new[k] = w[k]
      BY <1>2, <1>3, <2>2
    <3> QED BY <1>1, <3>1 DEF EmCacheGood
  <2> QED BY <2>1, <2>2
<1>5. ASSUME NEW k \in 1..Len(new), NEW l \in 1..Len(new), new[k][1] = new[l][1]
      PROVE  k = l
  <2>1. \A m \in 1..Len(w) : m # Len(w) + 1 /\ new[m] = w[m]
    BY <1>2, SMTT(30)
  <2>2. new[Len(w) + 1][1] = text
    BY <1>2
  <2>3. CASE k \in 1..Len(w) /\ l \in 1..Len(w)
    BY <1>1, <1>5, <2>1, <2>3 DEF EmCacheGood
  <2>4. CASE k = Len(w) + 1 \/ l = Len(w) + 1
    BY <1>1, <1>3, <1>5, <2>1, <2>2, <2>4
  <2> QED
    BY <1>3, <2>3, <2>4
<1> QED
  BY <1>2, <1>4, <1>5 DEF new, w

LEMMA EmTouchGood ==
    ASSUME EmCacheGood(emCache), NEW text \in EmText, NEW p \in EmCached(text)
    PROVE  p[2] = text /\ EmCacheGood(EmTouch(p))
<1>1. PICK place \in 1..Len(emCache) : emCache[place] = p
  BY Members DEF EmCached, EmCacheGood
<1>2. p = <<text, text>>
  <2>1. p[1] = text /\ p[2] = p[1] /\ p \in EmText \X EmText
    BY <1>1 DEF EmCached, EmCacheGood
  <2> QED
    BY <2>1
<1>3. Len(EmWithout(text)) = Len(emCache) - 1 /\ Len(emCache) \in Nat
  BY EmWithoutGood DEF EmCacheGood
<1>4. EmTouch(p) = Append(EmWithout(text), <<text, text>>)
  BY <1>2 DEF EmTouch
<1>5. Len(EmWithout(text)) + 1 <= EmCacheSize
  BY <1>3 DEF EmCacheGood
<1> DEFINE new == Append(EmWithout(text), <<text, text>>)
<1>6. /\ new \in Seq(EmText \X EmText) /\ Len(new) = Len(EmWithout(text)) + 1
      /\ \A k \in 1..Len(new) : new[k][2] = new[k][1]
      /\ \A k, l \in 1..Len(new) : new[k][1] = new[l][1] => k = l
  BY EmOneMore
<1>7. EmCacheGood(new)
  <2> HIDE DEF new
  <2> QED
    BY <1>5, <1>6 DEF EmCacheGood
<1> QED
  BY <1>2, <1>4, <1>7

LEMMA EmPutGood ==
    ASSUME EmCacheGood(emCache), NEW text \in EmText
    PROVE  EmCacheGood(EmPut(text, text))
<1> DEFINE new == Append(EmWithout(text), <<text, text>>)
<1>1. /\ new \in Seq(EmText \X EmText) /\ Len(new) = Len(EmWithout(text)) + 1
      /\ \A k \in 1..Len(new) : new[k][2] = new[k][1]
      /\ \A k, l \in 1..Len(new) : new[k][1] = new[l][1] => k = l
  BY EmOneMore
<1>2. Len(EmWithout(text)) \in Nat /\ Len(EmWithout(text)) <= EmCacheSize
  BY EmWithoutGood DEF EmCacheGood
<1>3. EmPut(text, text) = IF Len(new) > EmCacheSize THEN Tail(new) ELSE new
  BY DEF EmPut
<1> HIDE DEF new
<1>4. CASE Len(new) > EmCacheSize
  <2>1. /\ Tail(new) \in Seq(EmText \X EmText) /\ Len(Tail(new)) = Len(new) - 1
        /\ \A k \in 1..(Len(new) - 1) : Tail(new)[k] = new[k + 1]
    BY <1>1, <1>2
  <2>2. \A k \in 1..(Len(new) - 1) : k + 1 \in 1..Len(new)
    BY <1>1, <1>2
  <2> QED
    BY <1>1, <1>2, <1>3, <1>4, <2>1, <2>2 DEF EmCacheGood
<1>5. CASE Len(new) <= EmCacheSize
  BY <1>1, <1>2, <1>3, <1>5, EmAssumption DEF EmCacheGood
<1> QED
  BY <1>1, <1>2, <1>4, <1>5, EmAssumption

-----------------------------------------------------------------------------
(* The steps of stage v1.                                                  *)

\* Which requests wait is the same when texts and futures are.
LEMMA EmQueueKept ==
    ASSUME EmQueueOK, EmQueuedOnce, EmWorkerOK,
           UNCHANGED <<emTexts, emFuture, emQueue, emBatch, emWorker>>
    PROVE  EmQueueOK' /\ EmQueuedOnce' /\ EmWorkerOK'
BY DEF EmQueueOK, EmQueuedOnce, EmWorkerOK, EmPendingAt

\* e waits after the step.
EmWaits(e) == e[2] \in 1..Len(emTexts'[e[1]]) /\ emFuture'[e[1]][e[2]] = "pending"

LEMMA EmEmbedStep ==
    ASSUME EmV1Inv, NEW c \in EmCall, EmEmbed(c)
    PROVE  EmV1Inv'
<1>0. PICK n \in 1..EmMaxTexts : \E texts \in [1..n -> EmText] :
         /\ emTexts' = [emTexts EXCEPT ![c] = texts]
         /\ emFuture' = [emFuture EXCEPT ![c] = [i \in 1..n |-> "none"]]
  BY DEF EmEmbed
<1>1. PICK texts \in [1..n -> EmText] :
         /\ emTexts' = [emTexts EXCEPT ![c] = texts]
         /\ emFuture' = [emFuture EXCEPT ![c] = [i \in 1..n |-> "none"]]
  BY <1>0
<1> n \in Nat
  BY EmAssumption
<1>2. /\ emPhase[c] = "none" /\ emPhase' = [emPhase EXCEPT ![c] = "lookup"]
      /\ UNCHANGED <<emAt, emQueue, emBatch, emWorker, emStop, emCache>>
  BY DEF EmEmbed
<1>3. EmCallsOK /\ EmFuturesOK /\ EmQueueOK /\ EmQueuedOnce /\ EmWorkerOK /\ EmCacheGood(emCache)
  BY DEF EmV1Inv
<1>4. texts \in Seq(EmText) /\ Len(texts) = n
  BY FunctionIsSequence
<1> DEFINE none == [i \in 1..n |-> "none"]
<1>5. none \in Seq(EmText \cup EmMarks) /\ Len(none) = n
  <2>1. none \in [1..n -> EmText \cup EmMarks]
    BY DEF EmMarks
  <2> HIDE DEF none
  <2> QED
    BY <2>1, FunctionIsSequence
<1>6. \A i \in 1..n : none[i] = "none"
  OBVIOUS
<1>7. emFuture' = [emFuture EXCEPT ![c] = none]
  BY <1>1
<1> HIDE DEF none
<1>8. /\ emTexts'[c] = texts /\ emFuture'[c] = none /\ emPhase'[c] = "lookup" /\ emAt'[c] = 1
      /\ emTexts[c] = <<>>
      /\ \A d \in EmCall \ {c} : emTexts'[d] = emTexts[d] /\ emFuture'[d] = emFuture[d]
                                 /\ emPhase'[d] = emPhase[d] /\ emAt'[d] = emAt[d]
  BY <1>1, <1>2, <1>3, <1>7 DEF EmCallsOK
<1>9. EmCallsOK'
  BY <1>1, <1>2, <1>3, <1>4, <1>5, <1>7, <1>8 DEF EmCallsOK
<1>10. EmFuturesOK'
  <2>1. ASSUME NEW d \in EmCall, NEW i \in 1..Len(emTexts'[d]) PROVE EmFutureOK(d, i)'
    <3>1. CASE d = c
      BY <1>4, <1>6, <1>8, <3>1 DEF EmFutureOK, EmMarks
    <3>2. CASE d # c
      BY <1>3, <1>8, <3>2 DEF EmFuturesOK, EmFutureOK
    <3> QED
      BY <3>1, <3>2
  <2> QED
    BY <2>1 DEF EmFuturesOK
<1>11. ASSUME NEW e \in EmCall \X Nat, EmPendingAt(e) PROVE EmWaits(e)
  BY <1>8, <1>11 DEF EmPendingAt, EmWaits
<1>12. EmQueueOK'
  <2>1. \A k \in 1..Len(emQueue) : EmWaits(emQueue[k])
    BY <1>3, <1>11 DEF EmQueueOK
  <2>2. \A k \in 1..Len(emBatch) : EmWaits(emBatch[k])
    BY <1>3, <1>11 DEF EmQueueOK
  <2> QED
    BY <1>2, <1>3, <2>1, <2>2 DEF EmQueueOK, EmPendingAt, EmWaits
<1> QED
  BY <1>2, <1>3, <1>9, <1>10, <1>12 DEF EmV1Inv, EmQueuedOnce, EmWorkerOK

LEMMA EmLookupStep ==
    ASSUME EmV1Inv, NEW c \in EmCall, EmLookup(c)
    PROVE  EmV1Inv'
<1> DEFINE i == emAt[c]
           text == emTexts[c][i]
<1>1. EmCallsOK /\ EmFuturesOK /\ EmQueueOK /\ EmQueuedOnce /\ EmWorkerOK /\ EmCacheGood(emCache)
  BY DEF EmV1Inv
<1>2. /\ emPhase[c] = "lookup" /\ i <= Len(emTexts[c])
      /\ emAt' = [emAt EXCEPT ![c] = i + 1]
      /\ UNCHANGED <<emTexts, emPhase, emBatch, emWorker, emStop>>
  BY DEF EmLookup
<1>3. i \in Nat /\ i # 0 /\ Len(emTexts[c]) \in Nat /\ i \in 1..Len(emTexts[c])
  <2>1. i \in Nat /\ i # 0 /\ Len(emTexts[c]) \in Nat
    BY <1>1 DEF EmCallsOK
  <2> QED
    BY <1>2, <2>1
<1>4. text \in EmText /\ emFuture[c][i] = "none"
  BY <1>1, <1>2, <1>3 DEF EmCallsOK, EmFuturesOK, EmFutureOK
<1>5. PICK x \in {text, "pending"} :
         /\ emFuture' = [emFuture EXCEPT ![c][i] = x]
         /\ \/ x = text /\ EmCacheGood(emCache') /\ UNCHANGED emQueue
            \/ x = "pending" /\ emQueue' = Append(emQueue, <<c, i>>) /\ UNCHANGED emCache
  <2>1. CASE \E p \in EmCached(text) :
               /\ emFuture' = [emFuture EXCEPT ![c][i] = p[2]]
               /\ emCache' = EmTouch(p) /\ UNCHANGED emQueue
    BY <1>1, <1>4, <2>1, EmTouchGood
  <2>2. CASE /\ emFuture' = [emFuture EXCEPT ![c][i] = "pending"]
             /\ emQueue' = Append(emQueue, <<c, i>>) /\ UNCHANGED emCache
    BY <2>2
  <2> QED
    BY <2>1, <2>2 DEF EmLookup
<1> HIDE DEF text
<1>6. /\ emFuture[c] \in Seq(EmText \cup EmMarks) /\ i \in 1..Len(emFuture[c])
      /\ x \in EmText \cup EmMarks
  BY <1>1, <1>3, <1>4 DEF EmCallsOK, EmMarks
<1>7. /\ emFuture'[c] = [emFuture[c] EXCEPT ![i] = x]
      /\ emAt'[c] = i + 1
      /\ \A d \in EmCall \ {c} : emFuture'[d] = emFuture[d] /\ emAt'[d] = emAt[d]
  BY <1>1, <1>2, <1>5 DEF EmCallsOK
<1>8. /\ emFuture'[c] \in Seq(EmText \cup EmMarks) /\ Len(emFuture'[c]) = Len(emFuture[c])
      /\ emFuture'[c][i] = x
      /\ \A j \in 1..Len(emFuture[c]) : j # i => emFuture'[c][j] = emFuture[c][j]
  BY <1>6, <1>7
<1>9. EmCallsOK'
  <2>1. emFuture' \in [EmCall -> Seq(EmText \cup EmMarks)]
    BY <1>1, <1>5, <1>7, <1>8 DEF EmCallsOK
  <2>2. emAt' \in [EmCall -> Nat \ {0}]
    BY <1>1, <1>2, <1>3 DEF EmCallsOK
  <2>3. \A d \in EmCall : Len(emFuture'[d]) = Len(emTexts[d])
    BY <1>1, <1>7, <1>8 DEF EmCallsOK
  <2> QED
    BY <1>1, <1>2, <1>7, <2>1, <2>2, <2>3 DEF EmCallsOK
<1>10. EmFuturesOK'
  <2>1. ASSUME NEW d \in EmCall, NEW j \in 1..Len(emTexts[d]) PROVE EmFutureOK(d, j)'
    <3>1. EmFutureOK(d, j)
      BY <1>1 DEF EmFuturesOK
    <3>2. CASE d = c /\ j = i
      <4>1. x # "none"
        BY <1>4, EmAssumption
      <4> QED
        BY <1>2, <1>3, <1>7, <1>8, <3>2, <4>1 DEF EmFutureOK, EmMarks, text
    <3>3. CASE d = c /\ j # i
      <4>1. j \in Nat /\ (i <= j <=> i + 1 <= j)
        BY <1>3, <3>3
      <4>2. emFuture'[c][j] = emFuture[c][j]
        BY <1>1, <1>8, <3>3 DEF EmCallsOK
      <4> QED
        BY <1>2, <1>7, <3>1, <3>3, <4>1, <4>2 DEF EmFutureOK
    <3>4. CASE d # c
      BY <1>2, <1>7, <3>1, <3>4 DEF EmFutureOK
    <3> QED
      BY <3>2, <3>3, <3>4
  <2> QED
    BY <1>2, <2>1 DEF EmFuturesOK
<1>11. ASSUME NEW e \in EmCall \X Nat, EmPendingAt(e)
       PROVE  EmWaits(e) /\ e # <<c, i>>
  <2>1. e # <<c, i>>
    BY <1>4, <1>11 DEF EmPendingAt
  <2>2. e[1] = c => e[2] # i
    BY <2>1
  <2> QED
    BY <1>1, <1>2, <1>7, <1>8, <1>11, <2>1, <2>2 DEF EmPendingAt, EmWaits, EmCallsOK
<1>12. EmQueueOK' /\ EmQueuedOnce'
  <2>1. \A k \in 1..Len(emQueue) : EmWaits(emQueue[k]) /\ emQueue[k] # <<c, i>>
    BY <1>1, <1>11 DEF EmQueueOK
  <2>2. \A k \in 1..Len(emBatch) : EmWaits(emBatch[k]) /\ emBatch[k] # <<c, i>>
    BY <1>1, <1>11 DEF EmQueueOK
  <2>3. CASE UNCHANGED emQueue
    BY <1>1, <1>2, <2>3, <2>1, <2>2 DEF EmQueueOK, EmQueuedOnce, EmPendingAt, EmWaits
  <2>4. CASE x = "pending" /\ emQueue' = Append(emQueue, <<c, i>>)
    <3>1. EmWaits(<<c, i>>)
      BY <1>1, <1>2, <1>3, <1>8, <2>4 DEF EmWaits
    <3>2. /\ emQueue' \in Seq(EmCall \X Nat) /\ Len(emQueue') = Len(emQueue) + 1
          /\ \A k \in 1..(Len(emQueue) + 1) :
                emQueue'[k] = IF k = Len(emQueue) + 1 THEN <<c, i>> ELSE emQueue[k]
          /\ Len(emQueue) \in Nat
      BY <1>1, <1>3, <2>4, Lengthened DEF EmQueueOK
    <3>3. \A k \in 1..Len(emQueue') :
             \/ k = Len(emQueue) + 1 /\ emQueue'[k] = <<c, i>>
             \/ k \in 1..Len(emQueue) /\ emQueue'[k] = emQueue[k]
      BY <3>2
    <3>4. EmQueueOK'
      <4>1. \A k \in 1..Len(emQueue') : EmWaits(emQueue'[k])
        BY <2>1, <3>1, <3>3
      <4> QED
        BY <1>1, <1>2, <2>2, <3>2, <4>1 DEF EmQueueOK, EmPendingAt, EmWaits
    <3>5. EmQueuedOnce'
      BY <1>1, <1>2, <2>1, <2>2, <3>3 DEF EmQueuedOnce
    <3> QED
      BY <3>4, <3>5
  <2> QED
    BY <1>5, <2>3, <2>4
<1> QED
  BY <1>1, <1>2, <1>5, <1>9, <1>10, <1>12 DEF EmV1Inv, EmWorkerOK

LEMMA EmLookedUpStep ==
    ASSUME EmV1Inv, NEW c \in EmCall, EmLookedUp(c)
    PROVE  EmV1Inv'
<1>1. EmCallsOK /\ EmFuturesOK /\ EmQueueOK /\ EmQueuedOnce /\ EmWorkerOK /\ EmCacheGood(emCache)
  BY DEF EmV1Inv
<1>2. /\ emPhase[c] = "lookup" /\ emAt[c] > Len(emTexts[c])
      /\ emPhase' = [emPhase EXCEPT ![c] = "wait"] /\ emAt' = [emAt EXCEPT ![c] = 1]
      /\ UNCHANGED <<emTexts, emFuture, emQueue, emBatch, emWorker, emStop, emCache>>
  BY DEF EmLookedUp
<1>3. /\ emPhase'[c] = "wait" /\ emAt'[c] = 1
      /\ \A d \in EmCall \ {c} : emPhase'[d] = emPhase[d] /\ emAt'[d] = emAt[d]
  BY <1>1, <1>2 DEF EmCallsOK
<1>4. EmCallsOK'
  BY <1>1, <1>2, <1>3 DEF EmCallsOK
<1>5. EmFuturesOK'
  <2>1. ASSUME NEW d \in EmCall, NEW i \in 1..Len(emTexts[d]) PROVE EmFutureOK(d, i)'
    <3>1. EmFutureOK(d, i)
      BY <1>1 DEF EmFuturesOK
    <3>2. CASE d = c
      <4>1. emAt[c] \in Nat /\ Len(emTexts[c]) \in Nat
        BY <1>1 DEF EmCallsOK
      <4>2. ~(emAt[c] <= i) /\ ~(i < 1)
        BY <1>2, <3>2, <4>1
      <4> QED
        BY <1>2, <1>3, <3>1, <3>2, <4>2 DEF EmFutureOK
    <3>3. CASE d # c
      BY <1>2, <1>3, <3>1, <3>3 DEF EmFutureOK
    <3> QED
      BY <3>2, <3>3
  <2> QED
    BY <1>2, <2>1 DEF EmFuturesOK
<1> QED
  BY <1>1, <1>2, <1>4, <1>5, EmQueueKept DEF EmV1Inv

LEMMA EmCollectStep ==
    ASSUME EmV1Inv, NEW c \in EmCall, EmCollect(c) \/ EmTimeout(c)
    PROVE  EmV1Inv'
<1> DEFINE i == emAt[c]
           future == emFuture[c]
<1>1. EmCallsOK /\ EmFuturesOK /\ EmQueueOK /\ EmQueuedOnce /\ EmWorkerOK /\ EmCacheGood(emCache)
  BY DEF EmV1Inv
<1>2. /\ emPhase[c] = "wait"
      /\ UNCHANGED <<emTexts, emFuture, emQueue, emBatch, emWorker, emStop>>
  BY DEF EmCollect, EmTimeout
<1>3. i \in Nat \ {0} /\ Len(future) = Len(emTexts[c]) /\ Len(future) \in Nat
  BY <1>1 DEF EmCallsOK
<1>4. ASSUME NEW d \in EmCall, NEW j \in 1..Len(emTexts[d]) PROVE EmFutureOK(d, j)
  BY <1>1 DEF EmFuturesOK
<1>5. CASE /\ i <= Len(future) /\ future[i] \notin {"pending", "failed"}
           /\ emCache' = EmPut(emTexts[c][i], future[i])
           /\ emAt' = [emAt EXCEPT ![c] = i + 1] /\ UNCHANGED emPhase
  <2>1. i \in 1..Len(emTexts[c])
    BY <1>3, <1>5
  <2>2. future[i] = emTexts[c][i] /\ emTexts[c][i] \in EmText
    BY <1>1, <1>2, <1>4, <1>5, <2>1 DEF EmFutureOK, EmMarks, EmCallsOK
  <2>3. EmCacheGood(emCache')
    BY <1>1, <1>5, <2>2, EmPutGood
  <2>4. emAt'[c] = i + 1 /\ \A d \in EmCall \ {c} : emAt'[d] = emAt[d]
    BY <1>1, <1>5 DEF EmCallsOK
  <2>5. EmCallsOK'
    BY <1>1, <1>2, <1>3, <1>5, <2>4 DEF EmCallsOK
  <2>6. EmFuturesOK'
    <3>1. ASSUME NEW d \in EmCall, NEW j \in 1..Len(emTexts[d]) PROVE EmFutureOK(d, j)'
      <4>1. CASE d = c
        <5>1. j \in Nat /\ (j < i + 1 => j < i \/ j = i)
          BY <1>3, <4>1
        <5> QED
          BY <1>2, <1>4, <1>5, <2>2, <2>4, <4>1, <5>1 DEF EmFutureOK
      <4>2. CASE d # c
        BY <1>2, <1>4, <1>5, <2>4, <4>2 DEF EmFutureOK
      <4> QED
        BY <4>1, <4>2
    <3> QED
      BY <1>2, <3>1 DEF EmFuturesOK
  <2> QED
    BY <1>1, <1>2, <2>3, <2>5, <2>6, EmQueueKept DEF EmV1Inv
<1>6. CASE \E p \in {"failed", "done"} :
              /\ p = "done" => i > Len(future)
              /\ emPhase' = [emPhase EXCEPT ![c] = p] /\ UNCHANGED <<emAt, emCache>>
  <2>1. PICK p \in {"failed", "done"} :
              /\ p = "done" => i > Len(future)
              /\ emPhase' = [emPhase EXCEPT ![c] = p] /\ UNCHANGED <<emAt, emCache>>
    BY <1>6
  <2>2. emPhase'[c] = p /\ \A d \in EmCall \ {c} : emPhase'[d] = emPhase[d]
    BY <1>1, <2>1 DEF EmCallsOK
  <2>3. EmCallsOK'
    BY <1>1, <1>2, <2>1, <2>2 DEF EmCallsOK
  <2>4. EmFuturesOK'
    <3>1. ASSUME NEW d \in EmCall, NEW j \in 1..Len(emTexts[d]) PROVE EmFutureOK(d, j)'
      <4>1. CASE d = c
        <5>1. p = "done" => j < i
          BY <1>3, <2>1, <4>1
        <5> QED
          BY <1>2, <1>4, <2>1, <2>2, <4>1, <5>1 DEF EmFutureOK
      <4>2. CASE d # c
        BY <1>2, <1>4, <2>1, <2>2, <4>2 DEF EmFutureOK
      <4> QED
        BY <4>1, <4>2
    <3> QED
      BY <1>2, <3>1 DEF EmFuturesOK
  <2> QED
    BY <1>1, <1>2, <2>1, <2>3, <2>4, EmQueueKept DEF EmV1Inv
<1>7. CASE EmCollect(c)
  BY <1>5, <1>6, <1>7 DEF EmCollect
<1>8. CASE EmTimeout(c)
  BY <1>6, <1>8 DEF EmTimeout
<1> QED
  BY <1>7, <1>8

LEMMA EmDrainStep ==
    ASSUME EmV1Inv, EmDrain
    PROVE  EmV1Inv'
<1>1. EmCallsOK /\ EmFuturesOK /\ EmQueueOK /\ EmQueuedOnce /\ EmWorkerOK /\ EmCacheGood(emCache)
  BY DEF EmV1Inv
<1>2. /\ emWorker = "drain" /\ emWorker' = "encode"
      /\ UNCHANGED <<emTexts, emAt, emPhase, emFuture, emStop, emCache>>
  BY DEF EmDrain
<1>3. PICK n \in 1..Len(emQueue) :
         /\ n <= EmMaxBatch
         /\ emBatch' = SubSeq(emQueue, 1, n)
         /\ emQueue' = SubSeq(emQueue, n + 1, Len(emQueue))
  BY DEF EmDrain
<1>4. emQueue \in Seq(EmCall \X Nat) /\ Len(emQueue) \in Nat
  BY <1>1 DEF EmQueueOK
<1>5. /\ emBatch' \in Seq(EmCall \X Nat) /\ Len(emBatch') = n
      /\ \A k \in 1..n : k \in 1..Len(emQueue) /\ emBatch'[k] = emQueue[k]
  BY <1>3, <1>4
<1>6. /\ emQueue' \in Seq(EmCall \X Nat) /\ Len(emQueue') = Len(emQueue) - n
      /\ \A k \in 1..(Len(emQueue) - n) :
            n + k \in 1..Len(emQueue) /\ emQueue'[k] = emQueue[n + k]
  BY <1>3, <1>4
<1>7. EmQueueOK'
  <2>1. \A k \in 1..Len(emQueue) : EmWaits(emQueue[k])
    BY <1>1, <1>2 DEF EmQueueOK, EmPendingAt, EmWaits
  <2>2. \A k \in 1..Len(emQueue') : EmWaits(emQueue'[k])
    BY <1>6, <2>1
  <2>3. \A k \in 1..Len(emBatch') : EmWaits(emBatch'[k])
    BY <1>5, <2>1
  <2> QED
    BY <1>5, <1>6, <2>2, <2>3 DEF EmQueueOK, EmPendingAt, EmWaits
<1>8. EmQueuedOnce'
  <2>1. ASSUME NEW k \in 1..Len(emQueue'), NEW l \in 1..Len(emQueue'), emQueue'[k] = emQueue'[l]
        PROVE  k = l
    <3>1. n + k = n + l
      BY <1>1, <1>6, <2>1 DEF EmQueuedOnce
    <3> QED
      BY <1>4, <1>6, <3>1
  <2>2. ASSUME NEW k \in 1..Len(emQueue'), NEW l \in 1..Len(emBatch'), emQueue'[k] = emBatch'[l]
        PROVE  FALSE
    <3>0. l \in 1..n /\ k \in 1..(Len(emQueue) - n)
      BY <1>5, <1>6
    <3>1. n + k = l
      BY <1>1, <1>5, <1>6, <2>2, <3>0, SMTT(30) DEF EmQueuedOnce
    <3> QED
      BY <1>4, <1>5, <1>6, <3>1
  <2> QED
    BY <2>1, <2>2 DEF EmQueuedOnce
<1>9. EmWorkerOK'
  BY <1>2, <1>3, <1>5 DEF EmWorkerOK
<1>10. EmCallsOK' /\ EmFuturesOK'
  BY <1>1, <1>2 DEF EmCallsOK, EmFuturesOK, EmFutureOK
<1> QED
  BY <1>1, <1>2, <1>7, <1>8, <1>9, <1>10 DEF EmV1Inv

\* Every waiting call of the batch gets the vector of its own text, or the failure.
LEMMA EmResolved ==
    ASSUME EmV1Inv, NEW vectors, EmResolve(vectors),
           \/ vectors = [k \in DOMAIN emBatch |-> emTexts[emBatch[k][1]][emBatch[k][2]]]
           \/ vectors = [k \in DOMAIN emBatch |-> "failed"]
    PROVE  \A c \in EmCall :
              /\ emFuture'[c] \in Seq(EmText \cup EmMarks)
              /\ Len(emFuture'[c]) = Len(emTexts[c])
              /\ \A i \in 1..Len(emTexts[c]) :
                    IF <<c, i>> \in ToSet(emBatch)
                    THEN emFuture'[c][i] \in {"failed", emTexts[c][i]}
                    ELSE emFuture'[c][i] = emFuture[c][i]
<1>1. EmCallsOK /\ EmQueueOK
  BY DEF EmV1Inv
<1>2. emBatch \in Seq(EmCall \X Nat) /\ DOMAIN emBatch = 1..Len(emBatch)
  BY <1>1 DEF EmQueueOK
<1> SUFFICES ASSUME NEW c \in EmCall
    PROVE  /\ emFuture'[c] \in Seq(EmText \cup EmMarks)
           /\ Len(emFuture'[c]) = Len(emTexts[c])
           /\ \A i \in 1..Len(emTexts[c]) :
                 IF <<c, i>> \in ToSet(emBatch)
                 THEN emFuture'[c][i] \in {"failed", emTexts[c][i]}
                 ELSE emFuture'[c][i] = emFuture[c][i]
  OBVIOUS
<1>3. /\ emTexts[c] \in Seq(EmText) /\ emFuture[c] \in Seq(EmText \cup EmMarks)
      /\ Len(emFuture[c]) = Len(emTexts[c]) /\ Len(emTexts[c]) \in Nat
      /\ DOMAIN emFuture[c] = 1..Len(emTexts[c])
  BY <1>1 DEF EmCallsOK
<1>4. emFuture'[c] = [i \in 1..Len(emTexts[c]) |->
                         IF <<c, i>> \in ToSet(emBatch)
                         THEN vectors[CHOOSE k \in DOMAIN emBatch : emBatch[k] = <<c, i>>]
                         ELSE emFuture[c][i]]
  BY <1>3 DEF EmResolve
<1>5. ASSUME NEW i \in 1..Len(emTexts[c]), <<c, i>> \in ToSet(emBatch)
      PROVE  vectors[CHOOSE k \in DOMAIN emBatch : emBatch[k] = <<c, i>>]
                \in {"failed", emTexts[c][i]}
  <2> DEFINE k == CHOOSE k \in DOMAIN emBatch : emBatch[k] = <<c, i>>
  <2>1. \E l \in DOMAIN emBatch : emBatch[l] = <<c, i>>
    BY <1>2, <1>5, Members
  <2>2. k \in DOMAIN emBatch /\ emBatch[k] = <<c, i>>
    BY <2>1
  <2> HIDE DEF k
  <2>3. vectors[k] \in {"failed", emTexts[c][i]}
    BY <2>2
  <2> QED
    BY <2>3 DEF k
<1>6. \A i \in 1..Len(emTexts[c]) :
         IF <<c, i>> \in ToSet(emBatch)
         THEN emFuture'[c][i] \in {"failed", emTexts[c][i]}
         ELSE emFuture'[c][i] = emFuture[c][i]
  BY <1>4, <1>5
<1>7. ASSUME NEW i \in 1..Len(emTexts[c]) PROVE emFuture'[c][i] \in EmText \cup EmMarks
  <2>1. emTexts[c][i] \in EmText /\ emFuture[c][i] \in EmText \cup EmMarks
    BY <1>3
  <2>2. "failed" \in EmMarks
    BY DEF EmMarks
  <2> QED
    BY <1>6, <2>1, <2>2
<1>8. emFuture'[c] \in [1..Len(emTexts[c]) -> EmText \cup EmMarks]
  BY <1>4, <1>7
<1> QED
  BY <1>3, <1>6, <1>8, FunctionIsSequence

LEMMA EmEncodeStep ==
    ASSUME EmV1Inv, EmEncode
    PROVE  EmV1Inv'
<1>1. EmCallsOK /\ EmFuturesOK /\ EmQueueOK /\ EmQueuedOnce /\ EmWorkerOK /\ EmCacheGood(emCache)
  BY DEF EmV1Inv
<1>2. /\ emBatch' = <<>> /\ emWorker' \in {"drain", "stopped"}
      /\ UNCHANGED <<emTexts, emAt, emPhase, emQueue, emStop, emCache>>
  BY DEF EmEncode
<1>3. PICK vectors : /\ EmResolve(vectors)
                     /\ \/ vectors = [k \in DOMAIN emBatch |->
                                         emTexts[emBatch[k][1]][emBatch[k][2]]]
                        \/ vectors = [k \in DOMAIN emBatch |-> "failed"]
  BY DEF EmEncode
<1>4. \A c \in EmCall :
         /\ emFuture'[c] \in Seq(EmText \cup EmMarks)
         /\ Len(emFuture'[c]) = Len(emTexts[c])
         /\ \A i \in 1..Len(emTexts[c]) :
               IF <<c, i>> \in ToSet(emBatch)
               THEN emFuture'[c][i] \in {"failed", emTexts[c][i]}
               ELSE emFuture'[c][i] = emFuture[c][i]
  BY <1>3, EmResolved
<1>5. emFuture' \in [EmCall -> Seq(EmText \cup EmMarks)]
  <2>1. DOMAIN emFuture' = EmCall /\ emFuture' = [c \in EmCall |-> emFuture'[c]]
    BY <1>3 DEF EmResolve
  <2> QED
    BY <1>4, <2>1
<1>6. EmCallsOK'
  BY <1>1, <1>2, <1>4, <1>5 DEF EmCallsOK
<1>7. ASSUME NEW c \in EmCall, NEW i \in 1..Len(emTexts[c])
      PROVE  /\ EmFutureOK(c, i)'
             /\ emFuture[c][i] = "pending" /\ <<c, i>> \notin ToSet(emBatch)
                => emFuture'[c][i] = "pending"
  <2>1. EmFutureOK(c, i)
    BY <1>1 DEF EmFuturesOK
  <2>2. CASE <<c, i>> \in ToSet(emBatch)
    <3>1. PICK k \in 1..Len(emBatch) : emBatch[k] = <<c, i>>
      BY <1>1, <2>2, Members DEF EmQueueOK
    <3>2. emFuture[c][i] = "pending"
      BY <1>1, <3>1 DEF EmQueueOK, EmPendingAt
    <3>3. emTexts[c][i] \in EmText
      BY <1>1 DEF EmCallsOK
    <3>4. emTexts[c][i] \notin {"none", "pending", "failed"}
      BY <3>3, EmAssumption
    <3> QED
      BY <1>2, <1>4, <2>1, <2>2, <3>2, <3>4 DEF EmFutureOK, EmMarks
  <2>3. CASE <<c, i>> \notin ToSet(emBatch)
    BY <1>2, <1>4, <2>1, <2>3 DEF EmFutureOK
  <2> QED
    BY <2>2, <2>3
<1>8. EmFuturesOK'
  BY <1>2, <1>7 DEF EmFuturesOK
<1>9. \A k \in 1..Len(emQueue) : EmWaits(emQueue[k])
  <2> SUFFICES ASSUME NEW k \in 1..Len(emQueue) PROVE EmWaits(emQueue[k])
    OBVIOUS
  <2>1. PICK c \in EmCall, i \in Nat : emQueue[k] = <<c, i>>
    <3>1. emQueue[k] \in EmCall \X Nat
      BY <1>1 DEF EmQueueOK
    <3> QED
      BY <3>1
  <2>2. i \in 1..Len(emTexts[c]) /\ emFuture[c][i] = "pending"
    BY <1>1, <2>1 DEF EmQueueOK, EmPendingAt
  <2>3. <<c, i>> \notin ToSet(emBatch)
    BY <1>1, <2>1, Members, ZenonT(30) DEF EmQueueOK, EmQueuedOnce
  <2> QED
    BY <1>2, <1>7, <2>1, <2>2, <2>3 DEF EmWaits
<1>10. emBatch' \in Seq(EmCall \X Nat) /\ Len(emBatch') = 0
  BY <1>2
<1>11. EmQueueOK' /\ EmQueuedOnce'
  BY <1>1, <1>2, <1>9, <1>10 DEF EmQueueOK, EmQueuedOnce, EmPendingAt, EmWaits
<1>12. EmWorkerOK'
  BY <1>2, <1>10, EmAssumption DEF EmWorkerOK
<1> QED
  BY <1>1, <1>2, <1>6, <1>8, <1>11, <1>12 DEF EmV1Inv

LEMMA EmV1Step == EmV1Inv /\ EmV1Next => EmV1Inv'
<1> SUFFICES ASSUME EmV1Inv, EmV1Next PROVE EmV1Inv'
  OBVIOUS
<1>1. CASE EmWork
  BY <1>1, EmDrainStep, EmEncodeStep DEF EmWork
<1>2. CASE EmShutdown
  BY <1>2 DEF EmShutdown, EmV1Inv, EmCallsOK, EmFuturesOK, EmFutureOK, EmQueueOK, EmPendingAt,
              EmQueuedOnce, EmWorkerOK
<1>3. ASSUME NEW c \in EmCall, EmEmbed(c) \/ EmServe(c) \/ EmTimeout(c)
      PROVE  EmV1Inv'
  BY <1>3, EmEmbedStep, EmLookupStep, EmLookedUpStep, EmCollectStep DEF EmServe
<1> QED
  BY <1>1, <1>2, <1>3 DEF EmV1Next

-----------------------------------------------------------------------------
(* The steps of stage v2.                                                  *)

\* A registration or a pin disturbs the request that is between its resolutions.
LEMMA EmDisturbed ==
    ASSUME EmRequestOK, EmModelNamed,
           emRequest' = IF emRequest.phase = "embedded"
                        THEN [emRequest EXCEPT !.disturbed = TRUE] ELSE emRequest
    PROVE  EmRequestOK' /\ EmModelNamed'
<1>1. CASE emRequest.phase = "embedded"
  <2>1. emRequest'.phase = "embedded" /\ emRequest'.disturbed
    BY <1>1 DEF EmRequestOK
  <2> QED
    BY <1>1, <2>1 DEF EmRequestOK, EmModelNamed
<1>2. CASE emRequest.phase # "embedded"
  BY <1>2 DEF EmRequestOK, EmModelNamed
<1> QED
  BY <1>1, <1>2

LEMMA EmPinStep ==
    ASSUME EmV2Inv, NEW caller \in EmCallers, NEW v \in EmVersions, NEW active \in BOOLEAN,
           EmPin(caller, v, active)
    PROVE  EmV2Inv'
<1>1. EmRequestOK' /\ EmModelNamed'
  BY EmDisturbed DEF EmPin, EmV2Inv
<1>2. EmRegistryOK'
  BY DEF EmPin, EmV2Inv, EmRegistryOK
<1> QED
  BY <1>1, <1>2 DEF EmV2Inv

LEMMA EmV2Step == EmV2Inv /\ EmV2Next => EmV2Inv'
<1> SUFFICES ASSUME EmV2Inv, EmV2Next PROVE EmV2Inv'
  OBVIOUS
<1>1. ASSUME NEW v \in EmVersions, NEW m \in EmModel, EmRegister(v, m) PROVE EmV2Inv'
  <2>1. EmRequestOK' /\ EmModelNamed'
    BY <1>1, EmDisturbed DEF EmRegister, EmV2Inv
  <2>2. EmRegistryOK'
    BY <1>1 DEF EmRegister, EmV2Inv, EmRegistryOK
  <2> QED
    BY <2>1, <2>2 DEF EmV2Inv
<1>2. ASSUME NEW c \in EmCallers, NEW v \in EmVersions, EmPin(c, v, TRUE) \/ EmPin(c, v, FALSE)
      PROVE  EmV2Inv'
  BY <1>2, EmPinStep
<1>3. ASSUME NEW c \in EmCallers, EmExpire(c) PROVE EmV2Inv'
  <2>1. emPins[c].version \in EmVersions
    BY <1>3 DEF EmExpire, EmV2Inv, EmRegistryOK
  <2> QED
    BY <1>3, <2>1, EmPinStep DEF EmExpire
<1>4. ASSUME NEW c \in EmCallers \cup {"none"}, NEW v \in EmVersions \cup {"empty", "none"},
             EmBegin(c, v)
      PROVE  EmV2Inv'
  <2> DEFINE u == EmVersionOf(c, v)
  <2>1. /\ emRequest' = IF u \in DOMAIN emRegistry
                        THEN [phase |-> "embedded", caller |-> c, version |-> v,
                              by |-> emRegistry[u], name |-> {}, disturbed |-> FALSE]
                        ELSE [phase |-> "refused"]
        /\ UNCHANGED <<emRegistry, emPins>>
    BY <1>4 DEF EmBegin
  <2>2. EmRegistryOK'
    BY <2>1 DEF EmV2Inv, EmRegistryOK
  <2>3. u = EmVersionOf(c, v)'
    BY <2>1 DEF EmVersionOf, EmResolvePin
  <2> HIDE DEF u
  <2>4. CASE u \in DOMAIN emRegistry
    <3>1. emRegistry[u] \in EmModel
      BY <2>4 DEF EmV2Inv, EmRegistryOK
    <3>2. /\ emRequest'.phase = "embedded" /\ emRequest'.by = emRegistry[u]
          /\ emRequest'.caller = c /\ emRequest'.version = v
      BY <2>1, <2>4
    <3>3. EmVersionOf(emRequest.caller, emRequest.version)' = u
      BY <2>1, <2>3, <3>2 DEF EmVersionOf, EmResolvePin
    <3> QED
      BY <2>1, <2>2, <2>4, <3>1, <3>2, <3>3 DEF EmV2Inv, EmRequestOK, EmModelNamed
  <2>5. CASE u \notin DOMAIN emRegistry
    BY <2>1, <2>2, <2>5 DEF EmV2Inv, EmRequestOK, EmModelNamed
  <2> QED
    BY <2>4, <2>5
<1>5. CASE EmAnswer
  <2> DEFINE u == EmNamedVersion(emRequest.caller, emRequest.version)
  <2>1. /\ emRequest.phase = "embedded"
        /\ emRequest' = IF u \in DOMAIN emRegistry
                        THEN [emRequest EXCEPT !.phase = "answered", !.name = emRegistry[u]]
                        ELSE [phase |-> "refused"]
        /\ UNCHANGED <<emRegistry, emPins>>
    BY <1>5 DEF EmAnswer
  <2>2. EmRegistryOK'
    BY <2>1 DEF EmV2Inv, EmRegistryOK
  <2>3. ~emRequest.disturbed /\ emRequest.caller # "empty" => emRegistry[u] = emRequest.by
    <3> SUFFICES ASSUME ~emRequest.disturbed, emRequest.caller # "empty"
                 PROVE  emRegistry[u] = emRequest.by
      OBVIOUS
    <3> DEFINE v == EmVersionOf(emRequest.caller, emRequest.version)
    <3>1. v \in DOMAIN emRegistry /\ emRegistry[v] = emRequest.by
      BY <2>1 DEF EmV2Inv, EmRequestOK
    <3>2. v # "empty"
      BY <3>1 DEF EmV2Inv, EmRegistryOK, EmVersions
    <3>3. u = v
      BY <3>2 DEF EmVersionOf, EmNamedVersion
    <3> QED
      BY <3>1, <3>3
  <2> HIDE DEF u
  <2>4. CASE u \in DOMAIN emRegistry
    <3>1. emRegistry[u] \in EmModel
      BY <2>4 DEF EmV2Inv, EmRegistryOK
    <3>2. /\ emRequest'.phase = "answered" /\ emRequest'.name = emRegistry[u]
          /\ emRequest'.by = emRequest.by /\ emRequest'.disturbed = emRequest.disturbed
          /\ emRequest'.caller = emRequest.caller
      BY <2>1, <2>4 DEF EmV2Inv, EmRequestOK
    <3> QED
      BY <2>1, <2>2, <2>3, <2>4, <3>1, <3>2 DEF EmV2Inv, EmRequestOK, EmModelNamed
  <2>5. CASE u \notin DOMAIN emRegistry
    BY <2>1, <2>2, <2>5 DEF EmV2Inv, EmRequestOK, EmModelNamed
  <2> QED
    BY <2>4, <2>5
<1> QED
  BY <1>1, <1>2, <1>3, <1>4, <1>5 DEF EmV2Next, EmAsked

-----------------------------------------------------------------------------
LEMMA EmInvInit == EmInit => EmInv
<1> SUFFICES ASSUME EmInit PROVE EmInv
  OBVIOUS
<1>1. EmCallsOK /\ EmFuturesOK
  BY DEF EmInit, EmCallsOK, EmFuturesOK
<1>2. EmQueueOK /\ EmQueuedOnce /\ EmWorkerOK
  BY EmAssumption DEF EmInit, EmQueueOK, EmQueuedOnce, EmWorkerOK
<1>3. EmCacheGood(emCache)
  BY EmAssumption DEF EmInit, EmCacheGood
<1>4. EmV2Inv
  BY EmAssumption DEF EmInit, EmV2Inv, EmRequestOK, EmRegistryOK, EmModelNamed, EmNobody,
                      EmVersions
<1> QED
  BY <1>1, <1>2, <1>3, <1>4 DEF EmInv, EmV1Inv

LEMMA EmInvNext == EmInv /\ [EmNext]_<<emV1Vars, emV2Vars>> => EmInv'
<1> SUFFICES ASSUME EmInv, [EmNext]_<<emV1Vars, emV2Vars>> PROVE EmInv'
  OBVIOUS
<1>1. ASSUME UNCHANGED emV1Vars PROVE EmV1Inv'
  BY <1>1 DEF EmInv, emV1Vars, EmV1Inv, EmCallsOK, EmFuturesOK, EmFutureOK, EmQueueOK,
              EmPendingAt, EmQueuedOnce, EmWorkerOK
<1>2. ASSUME UNCHANGED emV2Vars PROVE EmV2Inv'
  BY <1>2 DEF EmInv, emV2Vars, EmV2Inv, EmRequestOK, EmRegistryOK, EmModelNamed,
              EmVersionOf, EmResolvePin
<1> QED
  BY <1>1, <1>2, EmV1Step, EmV2Step DEF EmInv, EmNext

\* Whatever calls, time-outs, failures and shutdowns interleave with the worker, and
\* whatever is registered, pinned or expires: futures, cache and answers are right.
THEOREM EmbeddingsFaithful == EmSpec => []EmFaithful
<1>1. EmInit => EmInv
  BY EmInvInit
<1>2. EmInv /\ [EmNext]_<<emV1Vars, emV2Vars>> => EmInv'
  BY EmInvNext
<1>3. EmInv => EmFaithful
  <2> SUFFICES ASSUME EmInv PROVE EmFaithful
    OBVIOUS
  <2>1. EmTypeOK
    <3>1. DOMAIN emQueue = 1..Len(emQueue)
      BY DEF EmInv, EmV1Inv, EmQueueOK
    <3>2. \A k \in DOMAIN emQueue : emFuture[emQueue[k][1]][emQueue[k][2]] = "pending"
      BY <3>1 DEF EmInv, EmV1Inv, EmQueueOK, EmPendingAt
    <3>3. emRequest.phase \in {"idle", "embedded", "answered", "refused"}
      BY DEF EmInv, EmV2Inv, EmRequestOK
    <3> QED
      BY <3>2, <3>3 DEF EmInv, EmV1Inv, EmTypeOK, EmCallsOK, EmWorkerOK
  <2>2. ASSUME NEW c \in EmCall, emPhase[c] = "done" PROVE emFuture[c] = emTexts[c]
    <3>1. /\ emFuture[c] \in Seq(EmText \cup EmMarks) /\ emTexts[c] \in Seq(EmText)
          /\ Len(emFuture[c]) = Len(emTexts[c])
      BY DEF EmInv, EmV1Inv, EmCallsOK
    <3>2. \A i \in 1..Len(emTexts[c]) : emFuture[c][i] = emTexts[c][i]
      BY <2>2 DEF EmInv, EmV1Inv, EmFuturesOK, EmFutureOK
    <3> QED
      BY <3>1, <3>2
  <2>3. EmVectorsRight
    <3>1. EmCacheGood(emCache)
      BY DEF EmInv, EmV1Inv
    <3>2. DOMAIN emCache = 1..Len(emCache)
      BY <3>1 DEF EmCacheGood
    <3> QED
      BY <2>2, <3>1, <3>2 DEF EmCacheGood, EmVectorsRight
  <2> QED
    BY <2>1, <2>3 DEF EmInv, EmV2Inv, EmFaithful
<1> QED
  BY <1>1, <1>2, <1>3, PTL DEF EmSpec

-----------------------------------------------------------------------------
(* The workflow executor.                                                  *)

CfPhases == {"none", "parse", "next", "find", "touch", "evict", "take", "pop", "insert",
             "lookup", "seed", "draw", "put"}
CfAtNode == CfPhases \ {"none", "parse", "next"}
CfSampling == CfAtNode \ {"lookup", "put"}
CfMoving == {"take", "pop", "insert"}
\* Only a sampler draws; every consumer of a model loads it.
CfFits(phase, node) ==
    IF phase \in {"seed", "draw"} THEN node.kind = "sample" ELSE CfConsumes(node)

CfSlotsOK == cfGpu \in Seq(CfModel) /\ IsInjective(cfGpu) /\ cfCpu \subseteq CfModel

\* At most two nodes have a result.
CfShape(s) == s = <<>> \/ s = <<s[1]>> \/ s = <<s[1], s[2]>>

CfJobOK(j) ==
    /\ j = [status |-> j.status, graph |-> j.graph, phase |-> j.phase, at |-> j.at,
            results |-> j.results, noise |-> j.noise]
    /\ j.status \in {"none", "pending", "running", "complete", "error"}
    /\ j.phase \in CfPhases /\ j.at \in 0..2
    /\ CfShape(j.results) /\ Len(j.results) <= j.at
    /\ j.phase = "none" <=> j.status \in {"none", "complete", "error"}
    /\ j.phase = "parse" <=> j.status = "pending"
    /\ j.status # "none" => j.graph \in CfWorkflows
    /\ j.status \in {"running", "complete"} => ~CfRefused(j.graph)
    /\ j.results # <<>> => ~CfRefused(j.graph) /\ j.status # "none"
    /\ j.phase = "parse" => j.at = 0
    /\ j.phase = "next" \/ j.status = "complete" => Len(j.results) = j.at
    /\ j.status = "complete" => j.at = 2
    /\ j.phase \in CfAtNode => j.at \in 1..2 /\ Len(j.results) = j.at - 1
    /\ j.phase \in CfSampling => CfFits(j.phase, j.graph.nodes[j.at])

\* What does not sample is a function of its inputs, where it was computed and
\* where it comes from the cache, and what raises has no result in either.
CfResultsOK(j) ==
    \A n \in 1..Len(j.results) :
        /\ ~CfRaises(j.graph.nodes[n], CfGiven(j.graph, j.results, n))
        /\ j.graph.nodes[n].kind # "sample" =>
              j.results[n] = CfOutput(j.graph, j.results, n, <<>>)
CfKept(key) == {e[2] : e \in key.inputs}
CfCacheOK ==
    \A k \in DOMAIN cfCache :
        /\ ~CfRaises(k.node, CfKept(k))
        /\ k.node.kind # "sample" => cfCache[k] = <<k.node.kind, CfKept(k)>>

\* Who is about to put a model on the GPU found a free slot, or made one.
CfRoomOK ==
    Len(cfGpu) + Cardinality({t \in CfThread : cfJob[t].phase \in CfMoving})
        <= CfSlots + Cardinality(CfThread) - 1

CfUnset == /\ cfOverlap \in {"unset", "overlap", "wait"}
           /\ cfOverlap = "unset" => \A t \in CfThread : cfJob[t] = CfNoJob

-----------------------------------------------------------------------------
(* Prompts that run one after another.                                     *)

CfNoise(node) == [seed |-> node.param, draws |-> 0]

CfAlone == \A t, u \in CfThread : cfJob[t].phase # "none" /\ cfJob[u].phase # "none" => t = u

CfPlaces == Len(cfGpu) <= CfSlots /\ ToSet(cfGpu) \cap cfCpu = {}

CfSampledOK(j) ==
    /\ j.status = "error" => CfRefused(j.graph) \/ CfFails(j.graph)
    /\ \A n \in 1..Len(j.results) :
          j.graph.nodes[n].kind = "sample" =>
             j.results[n] = <<"noise", CfNoise(j.graph.nodes[n])>>

CfCachedNoise ==
    \A k \in DOMAIN cfCache :
        k.node.kind = "sample" => cfCache[k] = <<"noise", CfNoise(k.node)>>

\* The step of loading a thread is at still finds what the last one found.
CfLoadOK(j) ==
    LET node == j.graph.nodes[j.at]
        loaded == node.param \in ToSet(cfGpu)
        room == Len(cfGpu) < CfSlots
    IN  /\ j.phase = "touch" => loaded
        /\ j.phase = "evict" => ~loaded /\ ~room
        /\ j.phase \in CfMoving => ~loaded /\ room
        /\ j.phase = "pop" => node.param \in cfCpu
        /\ j.phase = "insert" => node.param \notin cfCpu
        /\ j.phase \in {"lookup", "seed", "draw", "put"} /\ CfConsumes(node) => loaded
        /\ j.phase = "draw" => cfRng = CfNoise(node)
        /\ j.phase = "put" /\ node.kind = "sample" => j.noise = CfNoise(node)

CfOneByOne == /\ CfAlone /\ CfPlaces /\ CfCachedNoise
              /\ \A t \in CfThread : CfSampledOK(cfJob[t]) /\ CfLoadOK(cfJob[t])

CfShared == CfSlotsOK /\ CfRoomOK /\ CfUnset /\ CfCacheOK
CfJobs == /\ cfJob = [t \in CfThread |-> cfJob[t]]
          /\ \A t \in CfThread : CfJobOK(cfJob[t]) /\ CfResultsOK(cfJob[t])

CfInv == CfShared /\ CfJobs /\ (cfOverlap # "overlap" => CfOneByOne)

-----------------------------------------------------------------------------
(* Graphs and results.                                                     *)

\* A result is added at the end of at most one other.
LEMMA CfResultAdded ==
    ASSUME NEW s, CfShape(s), Len(s) <= 1, NEW v
    PROVE  /\ CfShape(Append(s, v)) /\ Len(s) \in Nat /\ Len(Append(s, v)) = Len(s) + 1
           /\ \A n \in 1..Len(s) : Append(s, v)[n] = s[n]
           /\ Append(s, v)[Len(s) + 1] = v
<1>1. CASE s = <<>>
  <2>1. Append(<<>>, v) = <<v>>
    <3>1. <<>> \in Seq({v})
      OBVIOUS
    <3> QED BY <3>1
  <2> QED BY <1>1, <2>1 DEF CfShape
<1>2. CASE s = <<s[1]>>
  <2>1. PICK a : a = s[1]
    OBVIOUS
  <2>2. <<a>> \in Seq({a, v}) /\ Len(<<a>>) = 1
    OBVIOUS
  <2>3. Append(<<a>>, v) = <<a, v>>
    <3>1. PICK w : w = Append(<<a>>, v)
      OBVIOUS
    <3>2. w \in Seq({a, v}) /\ Len(w) = 2 /\ w[1] = a /\ w[2] = v
      <4>1. \A k \in 1..2 : w[k] = IF k = 2 THEN v ELSE <<a>>[k]
        BY <2>2, <3>1, Lengthened
      <4>2. w \in Seq({a, v}) /\ Len(w) = 2
        BY <2>2, <3>1, Lengthened
      <4> QED BY <4>1, <4>2
    <3>3. <<a, v>> \in Seq({a, v}) /\ Len(<<a, v>>) = 2
      OBVIOUS
    <3>4. \A k \in 1..Len(w) : w[k] = <<a, v>>[k]
      BY <3>2
    <3>5. w = <<a, v>>
      <4>1. PICK u : u = <<a, v>>
        OBVIOUS
      <4> QED BY <3>2, <3>3, <3>4, <4>1, SeqEqual
    <3> QED BY <3>1, <3>5
  <2> QED BY <1>2, <2>1, <2>3 DEF CfShape
<1>3. CASE s = <<s[1], s[2]>>
  <2>1. PICK a, b : s = <<a, b>>
    BY <1>3
  <2>2. Len(<<a, b>>) = 2
    OBVIOUS
  <2> QED BY <2>1, <2>2
<1> QED BY <1>1, <1>2, <1>3 DEF CfShape

LEMMA CfShapeLen ==
    ASSUME NEW s, CfShape(s)
    PROVE  Len(s) \in 0..2 /\ DOMAIN s = 1..Len(s)
<1>1. CASE s = <<>>
  BY <1>1
<1>2. CASE s = <<s[1]>>
  <2>1. PICK a : s = <<a>>
    BY <1>2
  <2> QED BY <2>1
<1>3. CASE s = <<s[1], s[2]>>
  <2>1. PICK a, b : s = <<a, b>>
    BY <1>3
  <2> QED BY <2>1
<1> QED BY <1>1, <1>2, <1>3 DEF CfShape

\* The kinds of the nodes of a workflow; those that need a model name one.
LEMMA CfNodeOf ==
    ASSUME NEW g \in CfWorkflows, NEW n \in 1..2
    PROVE  CfConsumes(g.nodes[n]) => g.nodes[n].param \in CfModel
<1> DEFINE Using == CfSamplers \cup CfDecoders \cup CfMisfits
           Other == {CfLoad, CfJoin, CfUpper, CfNode("unregistered", 0)}
<1>1. \A node \in Using : node.param \in CfModel
  BY DEF CfSamplers, CfDecoders, CfMisfits, CfNode
<1>2. \A node \in Other : ~CfConsumes(node)
  BY DEF CfLoad, CfJoin, CfUpper, CfNode, CfConsumes
<1>3. g.nodes \in (Using \cup Other) \X (Using \cup Other)
  BY DEF CfWorkflows
<1>4. g.nodes[n] \in Using \cup Other
  BY <1>3
<1> QED BY <1>1, <1>2, <1>4

\* A workflow that is run has no edge but from its first node to its second.
LEMMA CfSourcesOf ==
    ASSUME NEW g \in CfWorkflows, ~CfRefused(g)
    PROVE  CfSources(g, 1) = {} /\ CfSources(g, 2) \in {{}, {1}}
<1>1. g.edges \in {{}, {<<1, 2>>}, {<<1, 2>>, <<2, 1>>}, {<<3, 2>>}}
  BY DEF CfWorkflows
<1>2. CASE g.edges = {<<3, 2>>}
  BY <1>2 DEF CfRefused, CfNodes
<1>3. CASE g.edges = {<<1, 2>>, <<2, 1>>}
  <2>1. 2 \in CfSources(g, 1) /\ 1 \in CfSources(g, 2)
    BY <1>3 DEF CfSources, CfNodes
  <2>2. CfNodes \in (SUBSET CfNodes) \ {{}} /\ \A n \in CfNodes : CfSources(g, n) \cap CfNodes # {}
    BY <2>1 DEF CfNodes
  <2> QED BY <2>2 DEF CfRefused
<1>4. CASE g.edges = {}
  BY <1>4 DEF CfSources
<1>5. CASE g.edges = {<<1, 2>>}
  <2>1. CfSources(g, 1) = {}
    BY <1>5 DEF CfSources, CfNodes
  <2>2. CfSources(g, 2) = {1}
    BY <1>5 DEF CfSources, CfNodes
  <2> QED BY <2>1, <2>2
<1> QED BY <1>1, <1>2, <1>3, <1>4, <1>5

\* The output of a node depends on the results before it alone.
CfAgree(n, r, s) == \A m \in 1..(n - 1) : r[m] = s[m]

LEMMA CfGivenKept ==
    ASSUME NEW g \in CfWorkflows, ~CfRefused(g), NEW n \in 1..2, NEW r, NEW s, CfAgree(n, r, s)
    PROVE  CfGiven(g, r, n) = CfGiven(g, s, n)
<1>1. \A m \in CfSources(g, n) : r[m] = s[m]
  BY CfSourcesOf DEF CfAgree
<1>2. \A m \in CfSources(g, n) : CfInput(g, r, m) = CfInput(g, s, m)
  BY <1>1 DEF CfInput
<1>3. {CfInput(g, r, m) : m \in CfSources(g, n)} = {CfInput(g, s, m) : m \in CfSources(g, n)}
  BY <1>2
<1> QED BY <1>3 DEF CfGiven

LEMMA CfOutputKept ==
    ASSUME NEW g \in CfWorkflows, ~CfRefused(g), NEW n \in 1..2, NEW r, NEW s, NEW noise,
           CfAgree(n, r, s)
    PROVE  CfOutput(g, r, n, noise) = CfOutput(g, s, n, noise)
BY CfGivenKept DEF CfOutput

\* What a key says of the inputs is what the node is given.
LEMMA CfKeyed ==
    ASSUME NEW g, NEW results, NEW n
    PROVE  /\ CfKey(g, results, n).node = g.nodes[n]
           /\ CfKept(CfKey(g, results, n)) = CfGiven(g, results, n)
<1> DEFINE S == CfSources(g, n)
           in(m) == CfInput(g, results, m)
           E == {<<m, in(m)>> : m \in S}
<1>1. ASSUME NEW e \in E PROVE e[2] \in {in(m) : m \in S}
  <2>1. PICK m \in S : e = <<m, in(m)>>
    OBVIOUS
  <2> QED BY <2>1
<1>2. ASSUME NEW m \in S PROVE \E e \in E : e[2] = in(m)
  <2>1. <<m, in(m)>> \in E /\ <<m, in(m)>>[2] = in(m)
    OBVIOUS
  <2> QED BY <2>1
<1>3. {e[2] : e \in E} = {in(m) : m \in S}
  <2> HIDE DEF E, S, in
  <2> QED BY <1>1, <1>2
<1>4. CfKey(g, results, n).inputs = E
  BY DEF CfKey
<1>5. CfKept(CfKey(g, results, n)) = {e[2] : e \in E}
  BY <1>4 DEF CfKept
<1> QED BY <1>3, <1>5 DEF CfKey, CfGiven

\* Results of the right nodes are what the workflow means.
LEMMA CfMeantSoFar ==
    ASSUME NEW j, CfJobOK(j), CfResultsOK(j), CfSampledOK(j),
           j.graph \in CfWorkflows, ~CfRefused(j.graph)
    PROVE  /\ \A n \in 1..Len(j.results) : j.results[n] = CfMeaning(j.graph)[n]
           /\ \A n \in 1..2 : n - 1 <= Len(j.results) =>
                 CfGiven(j.graph, j.results, n) = CfGiven(j.graph, CfMeaning(j.graph), n)
<1> DEFINE g == j.graph
           r == j.results
           first == CfOutput(g, <<>>, 1, CfNoise(g.nodes[1]))
           second == CfOutput(g, <<first>>, 2, CfNoise(g.nodes[2]))
<1>1. Len(r) \in 0..2
  BY CfShapeLen DEF CfJobOK
<1>2. \A n \in 1..Len(r) : r[n] = CfOutput(g, r, n, CfNoise(g.nodes[n]))
  BY DEF CfResultsOK, CfSampledOK, CfOutput
<1>3. ASSUME 1 <= Len(r) PROVE r[1] = first
  <2>1. CfOutput(g, r, 1, CfNoise(g.nodes[1])) = first
    BY CfOutputKept DEF CfAgree
  <2> QED BY <1>1, <1>2, <1>3, <2>1
<1>4. ASSUME 2 <= Len(r) PROVE r[2] = second
  <2>1. \A m \in 1..(2 - 1) : r[m] = <<first>>[m]
    BY <1>1, <1>3, <1>4
  <2>2. CfOutput(g, r, 2, CfNoise(g.nodes[2])) = second
    BY <2>1, CfOutputKept DEF CfAgree
  <2> QED BY <1>1, <1>2, <1>4, <2>2
<1>5. CfMeaning(g) = <<first, second>>
  BY DEF CfMeaning, CfNoise
<1>6. \A n \in 1..Len(r) : r[n] = CfMeaning(g)[n]
  <2> HIDE DEF first, second
  <2>1. <<first, second>>[1] = first /\ <<first, second>>[2] = second
    OBVIOUS
  <2> QED BY <1>1, <1>3, <1>4, <1>5, <2>1
<1>7. ASSUME NEW n \in 1..2, n - 1 <= Len(r)
      PROVE  CfGiven(g, r, n) = CfGiven(g, CfMeaning(g), n)
  <2>1. CfAgree(n, r, CfMeaning(g))
    BY <1>1, <1>6, <1>7 DEF CfAgree
  <2> QED BY <2>1, CfGivenKept
<1> QED BY <1>6, <1>7

LEMMA CfMeant ==
    ASSUME NEW j, CfJobOK(j), CfResultsOK(j), CfSampledOK(j), j.status = "complete"
    PROVE  j.results = CfMeaning(j.graph) /\ ~CfFails(j.graph)
<1> DEFINE g == j.graph
           r == j.results
<1>1. g \in CfWorkflows /\ ~CfRefused(g) /\ Len(r) = 2
  BY DEF CfJobOK
<1>2. r = <<r[1], r[2]>>
  <2>1. r # <<>> /\ r # <<r[1]>>
    <3>1. Len(<<>>) = 0
      OBVIOUS
    <3>2. PICK a : a = r[1]
      OBVIOUS
    <3>3. Len(<<a>>) = 1
      OBVIOUS
    <3> QED BY <1>1, <3>1, <3>2, <3>3
  <2> QED BY <2>1 DEF CfJobOK, CfShape
<1>3. /\ \A n \in 1..2 : r[n] = CfMeaning(g)[n]
      /\ \A n \in 1..2 : CfGiven(g, r, n) = CfGiven(g, CfMeaning(g), n)
  BY <1>1, CfMeantSoFar
<1>4. PICK a, b : CfMeaning(g) = <<a, b>>
  BY DEF CfMeaning
<1>5. r = CfMeaning(g)
  <2>1. r[1] = a /\ r[2] = b
    BY <1>3, <1>4
  <2> QED BY <1>2, <1>4, <2>1
<1>6. \A n \in 1..2 : ~CfRaises(g.nodes[n], CfGiven(g, CfMeaning(g), n))
  BY <1>1, <1>3 DEF CfResultsOK
<1>7. ~CfFails(g)
  BY <1>6 DEF CfFails, CfNodes
<1> QED BY <1>5, <1>7

\* A node that raises where it is, raises by what the workflow means.
LEMMA CfFailing ==
    ASSUME NEW j, CfJobOK(j), CfResultsOK(j), CfSampledOK(j), j.phase \in CfAtNode,
           CfRaises(j.graph.nodes[j.at], CfGiven(j.graph, j.results, j.at))
    PROVE  CfFails(j.graph)
<1>1. /\ j.graph \in CfWorkflows /\ ~CfRefused(j.graph) /\ j.at \in 1..2
      /\ Len(j.results) = j.at - 1
  BY DEF CfJobOK, CfAtNode
<1>2. CfGiven(j.graph, j.results, j.at) = CfGiven(j.graph, CfMeaning(j.graph), j.at)
  BY <1>1, CfMeantSoFar
<1> QED BY <1>1, <1>2 DEF CfFails, CfNodes

-----------------------------------------------------------------------------
(* The slots.                                                              *)

LEMMA CfMovedToEnd ==
    ASSUME CfSlotsOK, NEW m \in CfModel
    PROVE  /\ CfToEnd(m) \in Seq(CfModel) /\ IsInjective(CfToEnd(m))
           /\ ToSet(CfToEnd(m)) = ToSet(cfGpu) \cup {m}
           /\ Len(CfToEnd(m)) = IF m \in ToSet(cfGpu) THEN Len(cfGpu) ELSE Len(cfGpu) + 1
<1>1. cfGpu \in Seq(CfModel) /\ \A a, b \in 1..Len(cfGpu) : cfGpu[a] = cfGpu[b] => a = b
  BY DEF CfSlotsOK, IsInjective
<1>2. CASE m \notin ToSet(cfGpu)
  <2>1. PICK w : w = Append(cfGpu, m)
    OBVIOUS
  <2>2. /\ w \in Seq(CfModel) /\ Len(w) = Len(cfGpu) + 1
        /\ \A k \in 1..(Len(cfGpu) + 1) : w[k] = IF k = Len(cfGpu) + 1 THEN m ELSE cfGpu[k]
    BY <1>1, <2>1, Lengthened
  <2>3. \A k \in 1..Len(cfGpu) : cfGpu[k] # m
    BY <1>1, <1>2, Members
  <2>4. \A a, b \in 1..Len(w) : w[a] = w[b] => a = b
    BY <1>1, <2>2, <2>3
  <2>5. \A e : e \in ToSet(w) <=> e \in ToSet(cfGpu) \cup {m}
    <3>1. \A e : e \in ToSet(w) <=> \E k \in 1..Len(w) : w[k] = e
      BY <2>2, Members
    <3>2. \A e : e \in ToSet(cfGpu) <=> \E k \in 1..Len(cfGpu) : cfGpu[k] = e
      BY <1>1, Members
    <3> QED BY <1>1, <2>2, <3>1, <3>2
  <2>6. CfToEnd(m) = w
    BY <1>2, <2>1 DEF CfToEnd
  <2> QED BY <1>2, <2>2, <2>4, <2>5, <2>6 DEF IsInjective
<1>3. CASE m \in ToSet(cfGpu)
  <2>1. PICK p \in 1..Len(cfGpu) : cfGpu[p] = m /\ p = CHOOSE i \in DOMAIN cfGpu : cfGpu[i] = m
    BY <1>1, <1>3, Members
  <2>2. PICK v : v = RemoveAt(cfGpu, p)
    OBVIOUS
  <2>3. /\ v \in Seq(CfModel) /\ Len(v) = Len(cfGpu) - 1
        /\ \A k \in 1..(Len(cfGpu) - 1) : v[k] = IF k < p THEN cfGpu[k] ELSE cfGpu[k + 1]
    BY <1>1, <2>2, Removed
  <2>4. PICK w : w = Append(v, m)
    OBVIOUS
  <2>5. /\ w \in Seq(CfModel) /\ Len(w) = Len(v) + 1
        /\ \A k \in 1..(Len(v) + 1) : w[k] = IF k = Len(v) + 1 THEN m ELSE v[k]
    BY <2>3, <2>4, Lengthened
  <2>6. PICK n \in Nat : n = Len(cfGpu)
    BY <1>1
  <2>7. /\ Len(w) = n /\ p \in 1..n
        /\ \A k \in 1..n : w[k] = IF k = n THEN m ELSE IF k < p THEN cfGpu[k] ELSE cfGpu[k + 1]
    BY <2>1, <2>3, <2>5, <2>6, SMTT(30)
  <2>8. ASSUME NEW a \in 1..n, NEW b \in 1..n, w[a] = w[b] PROVE a = b
    <3> DEFINE q(k) == IF k = n THEN p ELSE IF k < p THEN k ELSE k + 1
    <3>1. ASSUME NEW k \in 1..n PROVE q(k) \in 1..n /\ w[k] = cfGpu[q(k)]
      <4>1. CASE k = n
        <5>1. w[k] = m /\ q(k) = p
          BY <2>7, <4>1
        <5> QED BY <2>1, <2>7, <5>1
      <4>2. CASE k # n /\ k < p
        <5>1. w[k] = cfGpu[k] /\ q(k) = k
          BY <2>7, <4>2
        <5> QED BY <5>1
      <4>3. CASE k # n /\ ~(k < p)
        <5>1. w[k] = cfGpu[k + 1] /\ q(k) = k + 1
          BY <2>7, <4>3
        <5>2. k + 1 \in 1..n
          BY <2>6, <4>3
        <5> QED BY <5>1, <5>2
      <4> QED BY <4>1, <4>2, <4>3
    <3>2. q(a) = q(b) => a = b
      BY <2>7
    <3> HIDE DEF q
    <3> QED BY <1>1, <2>6, <2>8, <3>1, <3>2
  <2>9. ASSUME NEW e PROVE e \in ToSet(w) <=> e \in ToSet(cfGpu)
    <3>1. e \in ToSet(w) <=> \E k \in 1..n : w[k] = e
      BY <2>5, <2>7, Members
    <3>2. e \in ToSet(cfGpu) <=> \E k \in 1..n : cfGpu[k] = e
      BY <1>1, <2>6, Members
    <3>3. ASSUME NEW k \in 1..n, cfGpu[k] = e PROVE \E i \in 1..n : w[i] = e
      <4>1. CASE k = p
        <5>1. n \in 1..n /\ w[n] = m
          BY <2>7
        <5> QED BY <2>1, <3>3, <4>1, <5>1
      <4>2. CASE k < p
        BY <2>7, <3>3, <4>2
      <4>3. CASE k > p
        <5>1. k - 1 \in 1..n /\ k - 1 # n /\ ~(k - 1 < p) /\ (k - 1) + 1 = k
          BY <2>7, <4>3
        <5> QED BY <2>7, <3>3, <5>1
      <4> QED BY <2>7, <4>1, <4>2, <4>3
    <3>4. ASSUME NEW k \in 1..n, w[k] = e PROVE \E i \in 1..n : cfGpu[i] = e
      <4>1. CASE k = n
        <5>1. e = m
          BY <2>7, <3>4, <4>1
        <5> QED BY <2>1, <2>7, <5>1
      <4>2. CASE k # n /\ k < p
        <5>1. e = cfGpu[k]
          BY <2>7, <3>4, <4>2
        <5> QED BY <5>1
      <4>3. CASE k # n /\ ~(k < p)
        <5>1. e = cfGpu[k + 1]
          BY <2>7, <3>4, <4>3
        <5>2. k + 1 \in 1..n
          BY <2>6, <4>3
        <5> QED BY <5>1, <5>2
      <4> QED BY <4>1, <4>2, <4>3
    <3> QED BY <3>1, <3>2, <3>3, <3>4
  <2>10. CfToEnd(m) = w
    BY <1>3, <2>1, <2>2, <2>4 DEF CfToEnd
  <2>11. ToSet(w) = ToSet(cfGpu) \cup {m}
    BY <1>3, <2>9
  <2>12. IsInjective(w)
    BY <2>5, <2>7, <2>8 DEF IsInjective
  <2> QED BY <1>3, <2>5, <2>6, <2>7, <2>10, <2>11, <2>12
<1> QED BY <1>2, <1>3

\* The first slot is freed.
LEMMA CfEvicted ==
    ASSUME CfSlotsOK, cfGpu # <<>>
    PROVE  /\ Tail(cfGpu) \in Seq(CfModel) /\ IsInjective(Tail(cfGpu))
           /\ ToSet(Tail(cfGpu)) = ToSet(cfGpu) \ {Head(cfGpu)}
           /\ Len(cfGpu) \in Nat \ {0} /\ Len(Tail(cfGpu)) = Len(cfGpu) - 1
           /\ Head(cfGpu) \in CfModel
<1>1. cfGpu \in Seq(CfModel) /\ \A a, b \in 1..Len(cfGpu) : cfGpu[a] = cfGpu[b] => a = b
  BY DEF CfSlotsOK, IsInjective
<1>2. PICK n \in Nat \ {0} : n = Len(cfGpu)
  BY <1>1
<1>3. PICK w : w = Tail(cfGpu)
  OBVIOUS
<1>4. /\ w \in Seq(CfModel) /\ Len(w) = n - 1 /\ \A k \in 1..(n - 1) : w[k] = cfGpu[k + 1]
      /\ Head(cfGpu) = cfGpu[1] /\ Head(cfGpu) \in CfModel
  BY <1>1, <1>2, <1>3
<1>5. ASSUME NEW e PROVE e \in ToSet(w) <=> e \in ToSet(cfGpu) \ {Head(cfGpu)}
  <2>1. e \in ToSet(w) <=> \E k \in 1..(n - 1) : w[k] = e
    BY <1>4, Members
  <2>2. e \in ToSet(cfGpu) <=> \E k \in 1..n : cfGpu[k] = e
    BY <1>1, <1>2, Members
  <2>3. ASSUME NEW k \in 1..n, cfGpu[k] = e, e # cfGpu[1] PROVE \E i \in 1..(n - 1) : w[i] = e
    <3>1. k - 1 \in 1..(n - 1) /\ (k - 1) + 1 = k
      BY <2>3
    <3> QED BY <1>4, <2>3, <3>1
  <2>4. ASSUME NEW k \in 1..(n - 1), w[k] = e PROVE e # cfGpu[1] /\ \E i \in 1..n : cfGpu[i] = e
    <3>1. k + 1 \in 1..n /\ k + 1 # 1 /\ 1 \in 1..n
      OBVIOUS
    <3> QED BY <1>1, <1>2, <1>4, <2>4, <3>1
  <2> QED BY <1>4, <2>1, <2>2, <2>3, <2>4
<1>6. IsInjective(w)
  BY <1>1, <1>2, <1>4 DEF IsInjective
<1> QED BY <1>2, <1>3, <1>4, <1>5, <1>6

-----------------------------------------------------------------------------
(* A step of a thread.                                                     *)

CfMovers == {t \in CfThread : cfJob[t].phase \in CfMoving}
CfMovesIn(j) == IF j.phase \in CfMoving THEN 1 ELSE 0

\* Threads that move a model, before and after a step of one of them.
LEMMA CfMoversChange ==
    ASSUME cfJob = [u \in CfThread |-> cfJob[u]], NEW t \in CfThread, NEW new,
           cfJob' = [cfJob EXCEPT ![t] = new]
    PROVE  /\ Cardinality(CfThread) \in Nat \ {0} /\ Cardinality(CfMovers) \in Nat
           /\ Cardinality(CfMovers') \in Nat
           /\ Cardinality(CfMovers) + CfMovesIn(new)
                = Cardinality(CfMovers') + CfMovesIn(cfJob[t])
           /\ Cardinality(CfMovers') - CfMovesIn(new) <= Cardinality(CfThread) - 1
<1> DEFINE rest == CfMovers \ {t}
<1>1. IsFiniteSet(CfThread)
  BY CfAssumption
<1>2. rest \subseteq CfThread \ {t} /\ t \notin rest /\ IsFiniteSet(CfThread \ {t})
  BY <1>1, FS_RemoveElement DEF CfMovers
<1>3. IsFiniteSet(rest) /\ Cardinality(rest) <= Cardinality(CfThread \ {t})
  BY <1>2, FS_Subset
<1>4. /\ Cardinality(CfThread) \in Nat /\ Cardinality(CfThread \ {t}) = Cardinality(CfThread) - 1
      /\ Cardinality(CfThread \ {t}) \in Nat /\ Cardinality(rest) \in Nat
  BY <1>1, <1>2, <1>3, FS_RemoveElement, FS_CardinalityType
<1>5. CfMovers = IF cfJob[t].phase \in CfMoving THEN rest \cup {t} ELSE rest
  BY DEF CfMovers
<1>6. CfMovers' = IF new.phase \in CfMoving THEN rest \cup {t} ELSE rest
  <2>1. cfJob'[t] = new /\ \A u \in CfThread \ {t} : cfJob'[u] = cfJob[u]
    OBVIOUS
  <2> QED BY <2>1 DEF CfMovers
<1>7. Cardinality(rest \cup {t}) = Cardinality(rest) + 1
  BY <1>2, <1>3, FS_AddElement
<1> HIDE DEF rest
<1>8. Cardinality(CfMovers) = Cardinality(rest) + CfMovesIn(cfJob[t])
  BY <1>4, <1>5, <1>7 DEF CfMovesIn
<1>9. Cardinality(CfMovers') = Cardinality(rest) + CfMovesIn(new)
  BY <1>4, <1>6, <1>7 DEF CfMovesIn
<1>10. CfMovesIn(new) \in 0..1 /\ CfMovesIn(cfJob[t]) \in 0..1
  BY DEF CfMovesIn
<1> QED BY <1>3, <1>4, <1>8, <1>9, <1>10

\* What the step of one thread has to leave behind, for the rest to follow.
CfRoomLeft(t, new) ==
    \/ Len(cfGpu') + CfMovesIn(new) <= Len(cfGpu) + CfMovesIn(cfJob[t])
    \/ cfGpu' = cfGpu /\ Len(cfGpu) < CfSlots

CfOthersIdle(t) == \A u \in CfThread \ {t} : cfJob[u].phase = "none"

LEMMA CfThreadStep ==
    ASSUME CfInv, cfOverlap # "unset", cfOverlap' = cfOverlap,
           NEW t \in CfThread, NEW new, cfJob' = [cfJob EXCEPT ![t] = new],
           CfJobOK(new), CfResultsOK(new), CfSlotsOK', CfCacheOK', CfRoomLeft(t, new),
           cfOverlap # "overlap" =>
              /\ CfOthersIdle(t) /\ CfPlaces' /\ CfCachedNoise'
              /\ CfSampledOK(new) /\ CfLoadOK(new)'
    PROVE  CfInv'
<1>1. /\ cfJob' = [u \in CfThread |-> cfJob'[u]] /\ cfJob'[t] = new
      /\ \A u \in CfThread \ {t} : cfJob'[u] = cfJob[u]
  BY DEF CfInv, CfJobs
<1>2. CfJobs'
  BY <1>1 DEF CfInv, CfJobs
<1>3. CfUnset'
  BY DEF CfInv, CfShared, CfUnset
<1>4. CfRoomOK'
  <2>1. /\ Cardinality(CfThread) \in Nat \ {0} /\ Cardinality(CfMovers) \in Nat
        /\ Cardinality(CfMovers') \in Nat
        /\ Cardinality(CfMovers) + CfMovesIn(new)
             = Cardinality(CfMovers') + CfMovesIn(cfJob[t])
        /\ Cardinality(CfMovers') - CfMovesIn(new) <= Cardinality(CfThread) - 1
    BY CfMoversChange DEF CfInv, CfJobs
  <2>2. Len(cfGpu) + Cardinality(CfMovers) <= CfSlots + Cardinality(CfThread) - 1
    BY DEF CfInv, CfShared, CfRoomOK, CfMovers
  <2>3. Len(cfGpu) \in Nat /\ Len(cfGpu') \in Nat /\ CfSlots \in Nat
    BY CfAssumption DEF CfInv, CfShared, CfSlotsOK
  <2>4. CfMovesIn(new) \in 0..1 /\ CfMovesIn(cfJob[t]) \in 0..1
    BY DEF CfMovesIn
  <2>5. Len(cfGpu') + Cardinality(CfMovers') <= CfSlots + Cardinality(CfThread) - 1
    <3>1. CASE Len(cfGpu') + CfMovesIn(new) <= Len(cfGpu) + CfMovesIn(cfJob[t])
      BY <2>1, <2>2, <2>3, <2>4, <3>1, SMTT(30)
    <3>2. CASE cfGpu' = cfGpu /\ Len(cfGpu) < CfSlots
      BY <2>1, <2>3, <2>4, <3>2
    <3> QED BY <3>1, <3>2 DEF CfRoomLeft
  <2> QED BY <2>5 DEF CfRoomOK, CfMovers
<1>5. ASSUME cfOverlap # "overlap" PROVE CfOneByOne'
  <2>1. ASSUME NEW u \in CfThread \ {t} PROVE (cfJob[u]).phase = "none" /\ CfSampledOK(cfJob[u])
    BY <1>5 DEF CfOthersIdle, CfInv, CfOneByOne
  <2>2. CfAlone'
    BY <1>1, <2>1 DEF CfAlone
  <2>3. ASSUME NEW u \in CfThread PROVE CfSampledOK(cfJob[u])' /\ CfLoadOK(cfJob[u])'
    <3>1. CASE u = t
      BY <1>1, <1>5, <3>1 DEF CfSampledOK, CfLoadOK
    <3>2. CASE u # t
      <4>1. cfJob'[u] = cfJob[u] /\ cfJob[u].phase = "none" /\ CfSampledOK(cfJob[u])
        BY <1>1, <2>1, <3>2
      <4> QED BY <4>1 DEF CfSampledOK, CfLoadOK, CfMoving
    <3> QED BY <3>1, <3>2
  <2> QED BY <1>5, <2>2, <2>3 DEF CfOneByOne
<1> QED BY <1>2, <1>3, <1>4, <1>5 DEF CfInv, CfShared

\* The state of a thread that runs.
LEMMA CfRunning ==
    ASSUME CfInv, NEW t \in CfThread, cfJob[t].phase # "none"
    PROVE  /\ CfJobOK(cfJob[t]) /\ CfResultsOK(cfJob[t])
           /\ cfOverlap # "unset"
           /\ cfOverlap # "overlap" => /\ CfOthersIdle(t) /\ CfPlaces /\ CfCachedNoise
                                       /\ CfSampledOK(cfJob[t]) /\ CfLoadOK(cfJob[t])
<1>1. cfOverlap # "unset"
  BY DEF CfInv, CfShared, CfUnset, CfNoJob
<1>2. CfJobOK(cfJob[t]) /\ CfResultsOK(cfJob[t])
  BY DEF CfInv, CfJobs
<1>3. cfOverlap # "overlap" => CfOthersIdle(t)
  BY DEF CfInv, CfOneByOne, CfAlone, CfOthersIdle
<1> QED BY <1>1, <1>2, <1>3 DEF CfInv, CfOneByOne

\* It goes on at the same node.
LEMMA CfWent ==
    ASSUME NEW j, CfJobOK(j), CfResultsOK(j), j.phase \in CfAtNode, NEW phase \in CfAtNode,
           phase \in CfSampling => CfFits(phase, j.graph.nodes[j.at]),
           NEW new, new = [j EXCEPT !.phase = phase]
    PROVE  CfJobOK(new) /\ CfResultsOK(new) /\ (CfSampledOK(j) => CfSampledOK(new))
<1>1. new = [status |-> j.status, graph |-> j.graph, phase |-> phase, at |-> j.at,
             results |-> j.results, noise |-> j.noise]
  BY DEF CfJobOK
<1>2. j.status = "running"
  BY DEF CfJobOK, CfAtNode
<1>3. CfJobOK(new)
  BY <1>1, <1>2 DEF CfJobOK, CfAtNode, CfPhases
<1>4. CfResultsOK(new)
  BY <1>1 DEF CfResultsOK
<1>5. CfSampledOK(j) => CfSampledOK(new)
  BY <1>1 DEF CfSampledOK
<1> QED BY <1>3, <1>4, <1>5

\* It fails.
LEMMA CfFailed ==
    ASSUME NEW j, CfJobOK(j), CfResultsOK(j), j.phase # "none",
           NEW new, new = [j EXCEPT !.status = "error", !.phase = "none"]
    PROVE  /\ CfJobOK(new) /\ CfResultsOK(new) /\ CfMovesIn(new) = 0
           /\ CfSampledOK(j) /\ (CfRefused(j.graph) \/ CfFails(j.graph)) => CfSampledOK(new)
           /\ new.phase = "none"
<1>1. new = [status |-> "error", graph |-> j.graph, phase |-> "none", at |-> j.at,
             results |-> j.results, noise |-> j.noise]
  BY DEF CfJobOK
<1>2. CfJobOK(new)
  BY <1>1 DEF CfJobOK, CfAtNode, CfSampling, CfPhases
<1>3. CfResultsOK(new)
  BY <1>1 DEF CfResultsOK
<1>4. CfSampledOK(j) /\ (CfRefused(j.graph) \/ CfFails(j.graph)) => CfSampledOK(new)
  BY <1>1 DEF CfSampledOK
<1>5. CfMovesIn(new) = 0
  BY <1>1 DEF CfMovesIn, CfMoving
<1> QED BY <1>1, <1>2, <1>3, <1>4, <1>5

\* It has the result of its node.
CfRightSample(j, v) ==
    CfSampledOK(j) /\ (j.graph.nodes[j.at].kind = "sample" =>
                           v = <<"noise", CfNoise(j.graph.nodes[j.at])>>)

LEMMA CfDone ==
    ASSUME NEW j, CfJobOK(j), CfResultsOK(j), j.phase \in CfAtNode, NEW v, NEW noise, NEW new,
           new = [status |-> j.status, graph |-> j.graph, phase |-> "next", at |-> j.at,
                  results |-> Append(j.results, v), noise |-> noise],
           ~CfRaises(j.graph.nodes[j.at], CfGiven(j.graph, j.results, j.at)),
           j.graph.nodes[j.at].kind # "sample" =>
               v = CfOutput(j.graph, j.results, j.at, <<>>)
    PROVE  /\ CfJobOK(new) /\ CfResultsOK(new)
           /\ CfRightSample(j, v) => CfSampledOK(new)
<1> PICK g, r, s, at : g = j.graph /\ r = j.results /\ s = Append(r, v) /\ at = j.at
  OBVIOUS
<1>1. /\ j.status = "running" /\ g \in CfWorkflows /\ ~CfRefused(g)
      /\ at \in 1..2 /\ Len(r) = at - 1 /\ CfShape(r)
  BY DEF CfJobOK, CfAtNode
<1>2. /\ CfShape(s) /\ Len(s) = Len(r) + 1 /\ s[Len(r) + 1] = v
      /\ \A n \in 1..Len(r) : s[n] = r[n]
  BY <1>1, CfResultAdded
<1>3. s # <<>> /\ Len(s) = at /\ Len(r) + 1 = at
  <2>1. s = <<>> => Len(s) = 0
    OBVIOUS
  <2>2. Len(r) + 1 = at
    BY <1>1
  <2>3. Len(s) = at
    BY <1>2, <2>2
  <2> QED BY <1>1, <2>1, <2>2, <2>3
<1>4. CfJobOK(new)
  BY <1>1, <1>2, <1>3 DEF CfJobOK, CfAtNode, CfSampling, CfPhases
<1>5. ASSUME NEW n \in 1..Len(s)
      PROVE  /\ ~CfRaises(g.nodes[n], CfGiven(g, s, n))
             /\ g.nodes[n].kind # "sample" => s[n] = CfOutput(g, s, n, <<>>)
  <2>1. n \in 1..2 /\ CfAgree(n, r, s)
    BY <1>1, <1>2, <1>3 DEF CfAgree
  <2>2. CfGiven(g, r, n) = CfGiven(g, s, n) /\ CfOutput(g, r, n, <<>>) = CfOutput(g, s, n, <<>>)
    BY <1>1, <2>1, CfGivenKept, CfOutputKept
  <2>3. CASE n = at
    BY <1>2, <1>3, <2>2, <2>3
  <2>4. CASE n # at
    <3>1. n \in 1..Len(r)
      BY <1>1, <1>3, <2>4
    <3> QED BY <1>2, <2>2, <3>1 DEF CfResultsOK
  <2> QED BY <2>3, <2>4
<1>6. CfResultsOK(new)
  BY <1>5 DEF CfResultsOK
<1>7. ASSUME CfRightSample(j, v) PROVE CfSampledOK(new)
  <2> CfSampledOK(j) /\ (g.nodes[at].kind = "sample" => v = <<"noise", CfNoise(g.nodes[at])>>)
    BY <1>7 DEF CfRightSample
  <2>1. ASSUME NEW n \in 1..Len(s), g.nodes[n].kind = "sample"
        PROVE  s[n] = <<"noise", CfNoise(g.nodes[n])>>
    <3>1. CASE n = at
      BY <1>2, <1>3, <1>7, <2>1, <3>1
    <3>2. CASE n # at
      <4>1. n \in 1..Len(r)
        BY <1>1, <1>3, <3>2
      <4> QED BY <1>2, <1>7, <2>1, <4>1 DEF CfSampledOK
    <3> QED BY <3>1, <3>2
  <2> QED BY <1>1, <2>1 DEF CfSampledOK
<1> QED BY <1>4, <1>6, <1>7

-----------------------------------------------------------------------------
(* The steps.                                                              *)

LEMMA CfSubmitStep == ASSUME CfInv, NEW t \in CfThread, CfSubmit(t) PROVE CfInv'
<1>1. PICK g \in CfWorkflows :
         cfJob' = [cfJob EXCEPT ![t] = [CfNoJob EXCEPT !.status = "pending",
                                                       !.graph = g, !.phase = "parse"]]
  BY DEF CfSubmit
<1>2. PICK new : new = [CfNoJob EXCEPT !.status = "pending", !.graph = g, !.phase = "parse"]
  OBVIOUS
<1>3. cfJob' = [cfJob EXCEPT ![t] = new]
  BY <1>1, <1>2
<1> new = [status |-> "pending", graph |-> g, phase |-> "parse", at |-> 0,
           results |-> <<>>, noise |-> <<>>]
  <2>1. PICK b : b = CfNoJob
    OBVIOUS
  <2>2. b = [status |-> "none", graph |-> <<>>, phase |-> "none", at |-> 0,
             results |-> <<>>, noise |-> <<>>]
    BY <2>1 DEF CfNoJob
  <2>3. new = [b EXCEPT !.status = "pending", !.graph = g, !.phase = "parse"]
    BY <1>2, <2>1
  <2> QED BY <2>2, <2>3
<1>4. UNCHANGED <<cfOverlap, cfGpu, cfCpu, cfCache, cfRng>> /\ cfOverlap # "unset"
  BY DEF CfSubmit
<1>5. CfJobOK(new) /\ CfResultsOK(new)
  <2>1. CfShape(<<>>) /\ Len(<<>>) = 0
    BY DEF CfShape
  <2>2. CfJobOK(new)
    BY <1>2, <2>1 DEF CfJobOK, CfPhases, CfAtNode, CfSampling
  <2>3. CfResultsOK(new)
    BY <1>2, <2>1 DEF CfResultsOK
  <2> QED BY <2>2, <2>3
<1>6. CfSlotsOK' /\ CfCacheOK' /\ CfSlotsOK
  BY <1>4 DEF CfInv, CfShared, CfSlotsOK, CfCacheOK
<1>7. CfRoomLeft(t, new)
  <2>1. CfMovesIn(new) = 0 /\ CfMovesIn(cfJob[t]) \in 0..1 /\ Len(cfGpu) \in Nat
    BY <1>2, <1>6 DEF CfMovesIn, CfMoving, CfSlotsOK
  <2> QED BY <1>4, <2>1 DEF CfRoomLeft
<1>8. ASSUME cfOverlap # "overlap"
      PROVE  /\ CfOthersIdle(t) /\ CfPlaces' /\ CfCachedNoise'
             /\ CfSampledOK(new) /\ CfLoadOK(new)'
  <2>1. cfOverlap = "wait"
    BY <1>4, <1>8 DEF CfInv, CfShared, CfUnset
  <2>2. CfOthersIdle(t)
    BY <1>4, <1>8, <2>1 DEF CfSubmit, CfOthersIdle, CfEnded, CfInv, CfJobs, CfJobOK
  <2>3. CfPlaces' /\ CfCachedNoise'
    BY <1>4, <1>8 DEF CfInv, CfOneByOne, CfPlaces, CfCachedNoise
  <2>4. CfSampledOK(new) /\ CfLoadOK(new)'
    <3>1. Len(<<>>) = 0
      OBVIOUS
    <3> QED BY <1>2, <3>1 DEF CfSampledOK, CfLoadOK, CfMoving
  <2> QED BY <2>2, <2>3, <2>4
<1> QED BY <1>3, <1>4, <1>5, <1>6, <1>7, <1>8, CfThreadStep

\* Steps that change nothing but the thread's own state.
CfQuiet == UNCHANGED <<cfOverlap, cfGpu, cfCpu, cfCache, cfRng>>

LEMMA CfQuietStep ==
    ASSUME CfInv, CfQuiet, NEW t \in CfThread, cfJob[t].phase # "none",
           NEW new, cfJob' = [cfJob EXCEPT ![t] = new],
           CfJobOK(new), CfResultsOK(new),
           new.phase \in CfMoving =>
               cfJob[t].phase \in CfMoving \/ Len(cfGpu) < CfSlots,
           cfOverlap # "overlap" => CfSampledOK(new) /\ CfLoadOK(new)
    PROVE  CfInv'
<1>1. CfSlotsOK' /\ CfCacheOK' /\ Len(cfGpu) \in Nat
  BY DEF CfQuiet, CfInv, CfShared, CfSlotsOK, CfCacheOK
<1>2. CfRoomLeft(t, new)
  <2>1. Len(cfGpu') = Len(cfGpu) /\ cfGpu' = cfGpu
    BY DEF CfQuiet
  <2> QED BY <1>1, <2>1 DEF CfRoomLeft, CfMovesIn
<1>3. ASSUME cfOverlap # "overlap"
      PROVE  /\ CfOthersIdle(t) /\ CfPlaces' /\ CfCachedNoise'
             /\ CfSampledOK(new) /\ CfLoadOK(new)'
  <2>1. CfOthersIdle(t) /\ CfPlaces /\ CfCachedNoise
    BY <1>3, CfRunning
  <2>2. CfPlaces' /\ CfCachedNoise'
    BY <2>1 DEF CfQuiet, CfPlaces, CfCachedNoise
  <2>3. CfLoadOK(new)'
    BY <1>3 DEF CfQuiet, CfLoadOK
  <2> QED BY <1>3, <2>1, <2>2, <2>3
<1>4. cfOverlap' = cfOverlap /\ cfOverlap # "unset"
  BY CfRunning DEF CfQuiet
<1> QED BY <1>1, <1>2, <1>3, <1>4, CfThreadStep

LEMMA CfParseStep ==
    ASSUME CfInv, NEW t \in CfThread, CfParse(t), cfOverlap' = cfOverlap PROVE CfInv'
<1> PICK j : j = cfJob[t]
  OBVIOUS
<1>1. /\ j.phase = "parse" /\ CfQuiet /\ CfJobOK(j) /\ CfResultsOK(j)
      /\ cfOverlap # "overlap" => CfSampledOK(j)
  BY CfRunning DEF CfParse, CfQuiet
<1>2. CASE CfRefused(j.graph)
  <2>1. PICK new : new = [j EXCEPT !.status = "error", !.phase = "none"]
    OBVIOUS
  <2>2. cfJob' = [cfJob EXCEPT ![t] = new]
    BY <1>2, <2>1 DEF CfParse, CfFail, CfInv, CfJobs
  <2>3. /\ CfJobOK(new) /\ CfResultsOK(new) /\ new.phase = "none"
        /\ CfSampledOK(j) => CfSampledOK(new)
    BY <1>1, <1>2, <2>1, CfFailed
  <2>4. CfLoadOK(new) /\ new.phase \notin CfMoving
    BY <2>3 DEF CfLoadOK, CfMoving
  <2> QED BY <1>1, <2>2, <2>3, <2>4, CfQuietStep
<1>3. CASE ~CfRefused(j.graph)
  <2>1. PICK new : new = [j EXCEPT !.status = "running", !.phase = "next"]
    OBVIOUS
  <2>2. cfJob' = [cfJob EXCEPT ![t] = new]
    BY <1>3, <2>1 DEF CfParse, CfInv, CfJobs
  <2> new = [status |-> "running", graph |-> j.graph, phase |-> "next", at |-> j.at,
             results |-> j.results, noise |-> j.noise]
    BY <1>1, <2>1 DEF CfJobOK
  <2>3. CfJobOK(new)
    <3>1. j.at = 0 /\ Len(j.results) \in Nat
      BY <1>1, CfShapeLen DEF CfJobOK
    <3> QED BY <1>1, <1>3, <2>1, <3>1 DEF CfJobOK, CfPhases, CfAtNode, CfSampling
  <2>4. CfResultsOK(new) /\ (CfSampledOK(j) => CfSampledOK(new)) /\ CfLoadOK(new)
    BY <1>1, <2>1 DEF CfResultsOK, CfSampledOK, CfLoadOK, CfMoving
  <2>5. new.phase \notin CfMoving
    BY <2>1 DEF CfMoving
  <2> QED BY <1>1, <2>2, <2>3, <2>4, <2>5, CfQuietStep
<1> QED BY <1>2, <1>3

LEMMA CfPickStep ==
    ASSUME CfInv, NEW t \in CfThread, CfPick(t), cfOverlap' = cfOverlap PROVE CfInv'
<1> PICK j : j = cfJob[t]
  OBVIOUS
<1>1. /\ j.phase = "next" /\ CfQuiet /\ CfJobOK(j) /\ CfResultsOK(j)
      /\ cfOverlap # "overlap" => CfSampledOK(j)
  BY CfRunning DEF CfPick, CfQuiet
<1>2. /\ j.status = "running" /\ j.at \in 0..2 /\ Len(j.results) = j.at
      /\ j.graph \in CfWorkflows /\ ~CfRefused(j.graph)
  BY <1>1 DEF CfJobOK
<1>3. ASSUME j.at < 2,
             cfJob' = [cfJob EXCEPT ![t].at = j.at + 1, ![t].phase =
                 IF CfConsumes(j.graph.nodes[j.at + 1]) THEN "find" ELSE "lookup"]
      PROVE  CfInv'
  <2>1. PICK phase : phase = IF CfConsumes(j.graph.nodes[j.at + 1]) THEN "find" ELSE "lookup"
    OBVIOUS
  <2>2. PICK new : new = [j EXCEPT !.at = j.at + 1, !.phase = phase]
    OBVIOUS
  <2>3. cfJob' = [cfJob EXCEPT ![t] = new]
    BY <1>3, <2>1, <2>2 DEF CfInv, CfJobs
  <2> new = [status |-> j.status, graph |-> j.graph, phase |-> phase, at |-> j.at + 1,
             results |-> j.results, noise |-> j.noise]
    BY <1>1, <2>2 DEF CfJobOK
  <2>4. CfJobOK(new)
    <3>1. j.at + 1 \in 1..2 /\ Len(j.results) = (j.at + 1) - 1 /\ Len(j.results) <= j.at + 1
      BY <1>2, <1>3
    <3>2. phase \in {"find", "lookup"}
          /\ (phase = "find" => CfFits(phase, j.graph.nodes[j.at + 1]))
      BY <2>1 DEF CfFits
    <3> QED BY <1>1, <1>2, <3>1, <3>2 DEF CfJobOK, CfPhases, CfAtNode, CfSampling
  <2>5. CfResultsOK(new) /\ (CfSampledOK(j) => CfSampledOK(new))
    BY <1>1 DEF CfResultsOK, CfSampledOK
  <2>6. CfLoadOK(new) /\ new.phase \notin CfMoving
    <3>1. phase = "find" \/ (phase = "lookup" /\ ~CfConsumes(j.graph.nodes[j.at + 1]))
      BY <2>1
    <3> QED BY <3>1 DEF CfLoadOK, CfMoving
  <2> QED BY <1>1, <2>3, <2>4, <2>5, <2>6, CfQuietStep
<1>4. ASSUME j.at = 2, cfJob' = [cfJob EXCEPT ![t].status = "complete", ![t].phase = "none"]
      PROVE  CfInv'
  <2>2. PICK new : new = [j EXCEPT !.status = "complete", !.phase = "none"]
    OBVIOUS
  <2>3. cfJob' = [cfJob EXCEPT ![t] = new]
    BY <1>4, <2>2 DEF CfInv, CfJobs
  <2> new = [status |-> "complete", graph |-> j.graph, phase |-> "none", at |-> 2,
             results |-> j.results, noise |-> j.noise]
    BY <1>1, <1>4, <2>2 DEF CfJobOK
  <2>4. CfJobOK(new)
    BY <1>1, <1>2, <1>4 DEF CfJobOK, CfPhases, CfAtNode, CfSampling
  <2>5. CfResultsOK(new) /\ (CfSampledOK(j) => CfSampledOK(new))
    BY <1>1, <1>2 DEF CfResultsOK, CfSampledOK
  <2>6. CfLoadOK(new) /\ new.phase \notin CfMoving
    BY DEF CfLoadOK, CfMoving
  <2> QED BY <1>1, <2>3, <2>4, <2>5, <2>6, CfQuietStep
<1> QED BY <1>3, <1>4 DEF CfPick

\* What a thread that loads a model finds.
LEMMA CfLoading ==
    ASSUME CfInv, NEW t \in CfThread, NEW j, j = cfJob[t], j.phase \in CfSampling
    PROVE  /\ CfJobOK(j) /\ CfResultsOK(j) /\ CfSlotsOK /\ j.phase \in CfAtNode
           /\ j.at \in 1..2 /\ CfConsumes(j.graph.nodes[j.at])
           /\ j.phase \in {"seed", "draw"} => j.graph.nodes[j.at].kind = "sample"
           /\ CfNeeds(t) = j.graph.nodes[j.at].param /\ CfNeeds(t) \in CfModel
           /\ cfOverlap # "unset"
           /\ cfOverlap # "overlap" => /\ CfOthersIdle(t) /\ CfPlaces /\ CfCachedNoise
                                       /\ CfSampledOK(j) /\ CfLoadOK(j)
           /\ Len(cfGpu) \in Nat /\ CfSlots \in Nat \ {0}
<1>1. j.phase # "none" /\ j.phase \in CfAtNode
  BY DEF CfSampling, CfAtNode
<1>2. /\ CfJobOK(j) /\ CfResultsOK(j) /\ cfOverlap # "unset"
      /\ cfOverlap # "overlap" => /\ CfOthersIdle(t) /\ CfPlaces /\ CfCachedNoise
                                  /\ CfSampledOK(j) /\ CfLoadOK(j)
  BY <1>1, CfRunning
<1>3. /\ j.at \in 1..2 /\ j.graph \in CfWorkflows /\ CfConsumes(j.graph.nodes[j.at])
      /\ j.phase \in {"seed", "draw"} => j.graph.nodes[j.at].kind = "sample"
  <2>1. j.at \in 1..2 /\ j.graph \in CfWorkflows /\ CfFits(j.phase, j.graph.nodes[j.at])
    BY <1>1, <1>2 DEF CfJobOK
  <2> QED BY <2>1 DEF CfFits, CfConsumes
<1>4. j.graph.nodes[j.at].param \in CfModel
  BY <1>3, CfNodeOf
<1>5. CfSlotsOK /\ Len(cfGpu) \in Nat /\ CfSlots \in Nat \ {0}
  BY CfAssumption DEF CfInv, CfShared, CfSlotsOK
<1>6. CfNeeds(t) = j.graph.nodes[j.at].param
  BY DEF CfNeeds
<1> QED BY <1>1, <1>2, <1>3, <1>4, <1>5, <1>6

\* A thread goes on at its node and nothing else changes.
LEMMA CfGoStep ==
    ASSUME CfInv, CfQuiet, NEW t \in CfThread, NEW j, j = cfJob[t], j.phase \in CfAtNode,
           NEW phase \in CfAtNode, CfGo(t, phase),
           phase \in CfSampling => CfFits(phase, j.graph.nodes[j.at]),
           phase \in CfMoving => j.phase \in CfMoving \/ Len(cfGpu) < CfSlots,
           NEW new, new = [j EXCEPT !.phase = phase],
           cfOverlap # "overlap" => CfLoadOK(new)
    PROVE  CfInv'
<1>1. /\ CfJobOK(j) /\ CfResultsOK(j) /\ j.phase # "none"
      /\ cfOverlap # "overlap" => CfSampledOK(j)
  <2>1. j.phase # "none"
    BY DEF CfAtNode
  <2> QED BY <2>1, CfRunning
<1>2. cfJob' = [cfJob EXCEPT ![t] = new]
  BY DEF CfGo, CfInv, CfJobs
<1>3. CfJobOK(new) /\ CfResultsOK(new) /\ (CfSampledOK(j) => CfSampledOK(new))
  BY <1>1, CfWent
<1>4. new.phase = phase
  BY <1>1 DEF CfJobOK
<1> QED BY <1>1, <1>2, <1>3, <1>4, CfQuietStep

\* What CfLoadOK says of a thread that goes on at its node.
LEMMA CfLoadOf ==
    ASSUME NEW j, CfJobOK(j), NEW phase, NEW new, new = [j EXCEPT !.phase = phase]
    PROVE  /\ new.graph = j.graph /\ new.at = j.at /\ new.phase = phase /\ new.noise = j.noise
BY DEF CfJobOK

LEMMA CfFindStep ==
    ASSUME CfInv, NEW t \in CfThread, CfFind(t), cfOverlap' = cfOverlap PROVE CfInv'
<1> PICK j : j = cfJob[t]
  OBVIOUS
<1>1. j.phase = "find" /\ CfQuiet /\ j.phase \in CfSampling
  BY DEF CfFind, CfQuiet, CfSampling, CfAtNode, CfPhases
<1>2. /\ CfJobOK(j) /\ CfResultsOK(j) /\ j.phase \in CfAtNode /\ CfConsumes(j.graph.nodes[j.at])
      /\ CfNeeds(t) = j.graph.nodes[j.at].param /\ Len(cfGpu) \in Nat /\ CfSlots \in Nat \ {0}
      /\ cfOverlap # "overlap" => CfSampledOK(j)
  BY <1>1, CfLoading
<1>3. PICK phase : phase = IF CfNeeds(t) \in ToSet(cfGpu) THEN "touch"
                           ELSE IF Len(cfGpu) >= CfSlots THEN "evict" ELSE "take"
  OBVIOUS
<1>4. CASE CfGo(t, phase)
  <2>1. PICK new : new = [j EXCEPT !.phase = phase]
    OBVIOUS
  <2>2. phase \in CfAtNode /\ (phase \in CfMoving => Len(cfGpu) < CfSlots)
    BY <1>2, <1>3 DEF CfAtNode, CfPhases, CfMoving
  <2>3. new.graph = j.graph /\ new.at = j.at /\ new.phase = phase
    BY <1>2, <2>1, CfLoadOf
  <2>4. /\ phase \in {"touch", "evict", "take"}
        /\ phase = "touch" => CfNeeds(t) \in ToSet(cfGpu)
        /\ phase = "evict" => CfNeeds(t) \notin ToSet(cfGpu) /\ ~(Len(cfGpu) < CfSlots)
        /\ phase = "take" => CfNeeds(t) \notin ToSet(cfGpu) /\ Len(cfGpu) < CfSlots
    BY <1>2, <1>3
  <2>5. CfLoadOK(new)
    BY <1>2, <2>3, <2>4 DEF CfLoadOK, CfMoving
  <2>6. CfFits(phase, j.graph.nodes[j.at])
    BY <1>2, <2>4 DEF CfFits
  <2> QED BY <1>1, <1>2, <1>4, <2>1, <2>2, <2>5, <2>6, CfGoStep
<1>5. ASSUME j.graph.nodes[j.at].kind = "misfit", CfFail(t) PROVE CfInv'
  <2>1. PICK new : new = [j EXCEPT !.status = "error", !.phase = "none"]
    OBVIOUS
  <2>2. cfJob' = [cfJob EXCEPT ![t] = new]
    BY <1>5, <2>1 DEF CfFail, CfInv, CfJobs
  <2>3. CfSampledOK(j) => CfFails(j.graph)
    BY <1>2, <1>5, CfFailing DEF CfRaises
  <2>4. /\ CfJobOK(new) /\ CfResultsOK(new) /\ new.phase = "none"
        /\ CfSampledOK(j) => CfSampledOK(new)
    BY <1>1, <1>2, <2>1, <2>3, CfFailed
  <2>5. CfLoadOK(new) /\ new.phase \notin CfMoving
    BY <2>4 DEF CfLoadOK, CfMoving
  <2> QED BY <1>1, <1>2, <2>2, <2>4, <2>5, CfQuietStep
<1>6. CfGo(t, phase) \/ (j.graph.nodes[j.at].kind = "misfit" /\ CfFail(t))
  BY <1>3 DEF CfFind, CfGo
<1> QED BY <1>4, <1>5, <1>6

LEMMA CfTakeStep ==
    ASSUME CfInv, NEW t \in CfThread, CfTake(t), cfOverlap' = cfOverlap PROVE CfInv'
<1> PICK j : j = cfJob[t]
  OBVIOUS
<1>1. j.phase = "take" /\ CfQuiet /\ j.phase \in CfSampling /\ j.phase \in CfMoving
  BY DEF CfTake, CfQuiet, CfSampling, CfAtNode, CfPhases, CfMoving
<1>2. /\ CfJobOK(j) /\ j.phase \in CfAtNode /\ CfConsumes(j.graph.nodes[j.at])
      /\ CfNeeds(t) = j.graph.nodes[j.at].param /\ (cfOverlap # "overlap" => CfLoadOK(j))
  BY <1>1, CfLoading
<1>3. PICK phase : phase = IF CfNeeds(t) \in cfCpu THEN "pop" ELSE "insert"
  OBVIOUS
<1>4. PICK new : new = [j EXCEPT !.phase = phase]
  OBVIOUS
<1>5. CfGo(t, phase) /\ phase \in CfAtNode
  BY <1>3 DEF CfTake, CfAtNode, CfPhases
<1>6. new.graph = j.graph /\ new.at = j.at /\ new.phase = phase
  BY <1>2, <1>4, CfLoadOf
<1>7. CfLoadOK(j) => CfLoadOK(new)
  BY <1>1, <1>2, <1>3, <1>6 DEF CfLoadOK, CfMoving
<1>8. CfFits(phase, j.graph.nodes[j.at])
  BY <1>2, <1>3 DEF CfFits
<1> QED BY <1>1, <1>2, <1>4, <1>5, <1>7, <1>8, CfGoStep

LEMMA CfTouchStep ==
    ASSUME CfInv, NEW t \in CfThread, CfTouch(t), cfOverlap' = cfOverlap PROVE CfInv'
<1> PICK j : j = cfJob[t]
  OBVIOUS
<1>1. j.phase = "touch" /\ j.phase \in CfSampling /\ UNCHANGED <<cfCpu, cfCache, cfRng>>
  BY DEF CfTouch, CfSampling, CfAtNode, CfPhases
<1>2. /\ CfJobOK(j) /\ CfResultsOK(j) /\ CfSlotsOK /\ j.phase \in CfAtNode
      /\ CfConsumes(j.graph.nodes[j.at])
      /\ CfNeeds(t) = j.graph.nodes[j.at].param /\ CfNeeds(t) \in CfModel
      /\ cfOverlap # "unset"
      /\ cfOverlap # "overlap" => /\ CfOthersIdle(t) /\ CfPlaces /\ CfCachedNoise
                                  /\ CfSampledOK(j) /\ CfLoadOK(j)
      /\ Len(cfGpu) \in Nat
  BY <1>1, CfLoading
<1>3. CASE CfNeeds(t) \in ToSet(cfGpu)
  <2>1. PICK new : new = [j EXCEPT !.phase = "lookup"]
    OBVIOUS
  <2>2. cfJob' = [cfJob EXCEPT ![t] = new] /\ cfGpu' = CfToEnd(CfNeeds(t))
    BY <1>3, <2>1 DEF CfTouch, CfGo, CfInv, CfJobs
  <2>3. CfJobOK(new) /\ CfResultsOK(new) /\ (CfSampledOK(j) => CfSampledOK(new))
    <3>1. "lookup" \in CfAtNode /\ "lookup" \notin CfSampling
      BY DEF CfAtNode, CfSampling, CfPhases
    <3> QED BY <1>2, <2>1, <3>1, CfWent DEF CfFits
  <2>4. /\ cfGpu' \in Seq(CfModel) /\ IsInjective(cfGpu') /\ ToSet(cfGpu') = ToSet(cfGpu)
        /\ Len(cfGpu') = Len(cfGpu)
    BY <1>2, <1>3, <2>2, CfMovedToEnd
  <2>5. CfSlotsOK' /\ CfCacheOK'
    BY <1>1, <2>4 DEF CfSlotsOK, CfInv, CfShared, CfCacheOK
  <2>6. new.graph = j.graph /\ new.at = j.at /\ new.phase = "lookup"
    BY <1>2, <2>1, CfLoadOf
  <2>7. CfRoomLeft(t, new)
    <3>1. CfMovesIn(new) = 0 /\ CfMovesIn(cfJob[t]) \in 0..1
      BY <2>6 DEF CfMovesIn, CfMoving
    <3> QED BY <1>2, <2>4, <3>1 DEF CfRoomLeft
  <2>8. CfPlaces => CfPlaces'
    BY <1>1, <2>4 DEF CfPlaces
  <2>9. CfCachedNoise => CfCachedNoise'
    BY <1>1 DEF CfCachedNoise
  <2>10. CfLoadOK(new)'
    BY <1>2, <1>3, <2>4, <2>6 DEF CfLoadOK, CfMoving
  <2> QED BY <1>2, <2>2, <2>3, <2>5, <2>7, <2>8, <2>9, <2>10, CfThreadStep
<1>4. CASE CfNeeds(t) \notin ToSet(cfGpu)
  <2>1. cfOverlap = "overlap"
    BY <1>1, <1>2, <1>4 DEF CfLoadOK
  <2>2. PICK new : new = [j EXCEPT !.status = "error", !.phase = "none"]
    OBVIOUS
  <2>3. cfJob' = [cfJob EXCEPT ![t] = new] /\ CfQuiet
    BY <1>1, <1>4, <2>2 DEF CfTouch, CfFail, CfInv, CfJobs, CfQuiet
  <2>4. CfJobOK(new) /\ CfResultsOK(new) /\ new.phase = "none"
    BY <1>1, <1>2, <2>2, CfFailed
  <2>5. new.phase \notin CfMoving
    BY <2>4 DEF CfMoving
  <2> QED BY <1>1, <2>1, <2>3, <2>4, <2>5, CfQuietStep
<1> QED BY <1>3, <1>4

LEMMA CfEvictStep ==
    ASSUME CfInv, NEW t \in CfThread, CfEvict(t), cfOverlap' = cfOverlap PROVE CfInv'
<1> PICK j : j = cfJob[t]
  OBVIOUS
<1>1. j.phase = "evict" /\ j.phase \in CfSampling /\ UNCHANGED <<cfCache, cfRng>>
  BY DEF CfEvict, CfSampling, CfAtNode, CfPhases
<1>2. /\ CfJobOK(j) /\ CfResultsOK(j) /\ CfSlotsOK /\ j.phase \in CfAtNode
      /\ CfConsumes(j.graph.nodes[j.at])
      /\ CfNeeds(t) = j.graph.nodes[j.at].param /\ CfNeeds(t) \in CfModel
      /\ cfOverlap # "unset"
      /\ cfOverlap # "overlap" => /\ CfOthersIdle(t) /\ CfPlaces /\ CfCachedNoise
                                  /\ CfSampledOK(j) /\ CfLoadOK(j)
      /\ Len(cfGpu) \in Nat /\ CfSlots \in Nat \ {0}
  BY <1>1, CfLoading
<1>3. ASSUME cfGpu # <<>>, cfGpu' = Tail(cfGpu), cfCpu' = cfCpu \cup {Head(cfGpu)}, CfGo(t, "take")
      PROVE  CfInv'
  <2>1. PICK new : new = [j EXCEPT !.phase = "take"]
    OBVIOUS
  <2>2. cfJob' = [cfJob EXCEPT ![t] = new]
    BY <1>3, <2>1 DEF CfGo, CfInv, CfJobs
  <2>3. CfJobOK(new) /\ CfResultsOK(new) /\ (CfSampledOK(j) => CfSampledOK(new))
    <3>1. "take" \in CfAtNode
      BY DEF CfAtNode, CfPhases
    <3> QED BY <1>2, <2>1, <3>1, CfWent DEF CfFits
  <2>4. /\ cfGpu' \in Seq(CfModel) /\ IsInjective(cfGpu')
        /\ ToSet(cfGpu') = ToSet(cfGpu) \ {Head(cfGpu)}
        /\ Len(cfGpu) \in Nat \ {0} /\ Len(cfGpu') = Len(cfGpu) - 1 /\ Head(cfGpu) \in CfModel
    BY <1>2, <1>3, CfEvicted
  <2>5. CfSlotsOK' /\ CfCacheOK'
    BY <1>1, <1>2, <1>3, <2>4 DEF CfSlotsOK, CfInv, CfShared, CfCacheOK
  <2>6. new.graph = j.graph /\ new.at = j.at /\ new.phase = "take"
    BY <1>2, <2>1, CfLoadOf
  <2>7. CfRoomLeft(t, new)
    <3>1. CfMovesIn(new) \in 0..1 /\ CfMovesIn(cfJob[t]) \in 0..1
      BY DEF CfMovesIn
    <3> QED BY <1>2, <2>4, <3>1 DEF CfRoomLeft
  <2>8. CfPlaces => CfPlaces'
    BY <1>2, <1>3, <2>4 DEF CfPlaces
  <2>9. CfCachedNoise => CfCachedNoise'
    BY <1>1 DEF CfCachedNoise
  <2>10. CfLoadOK(j) /\ CfPlaces => CfLoadOK(new)'
    <3>1. CfPlaces => Len(cfGpu') < CfSlots
      BY <1>2, <2>4 DEF CfPlaces
    <3>2. CfLoadOK(j) => j.graph.nodes[j.at].param \notin ToSet(cfGpu')
      BY <1>1, <2>4 DEF CfLoadOK
    <3> QED BY <2>6, <3>1, <3>2 DEF CfLoadOK, CfMoving
  <2> QED BY <1>2, <2>2, <2>3, <2>5, <2>7, <2>8, <2>9, <2>10, CfThreadStep
<1>4. ASSUME cfGpu = <<>>, CfFail(t), UNCHANGED <<cfGpu, cfCpu>>
      PROVE  CfInv'
  <2>1. cfOverlap = "overlap"
    <3>1. Len(cfGpu) = 0
      BY <1>4
    <3> QED BY <1>1, <1>2, <3>1 DEF CfLoadOK
  <2>2. PICK new : new = [j EXCEPT !.status = "error", !.phase = "none"]
    OBVIOUS
  <2>3. cfJob' = [cfJob EXCEPT ![t] = new] /\ CfQuiet
    BY <1>1, <1>4, <2>2 DEF CfFail, CfInv, CfJobs, CfQuiet
  <2>4. CfJobOK(new) /\ CfResultsOK(new) /\ new.phase = "none"
    BY <1>1, <1>2, <2>2, CfFailed
  <2>5. new.phase \notin CfMoving
    BY <2>4 DEF CfMoving
  <2> QED BY <1>1, <2>1, <2>3, <2>4, <2>5, CfQuietStep
<1> QED BY <1>3, <1>4 DEF CfEvict

LEMMA CfPopStep ==
    ASSUME CfInv, NEW t \in CfThread, CfPop(t), cfOverlap' = cfOverlap PROVE CfInv'
<1> PICK j : j = cfJob[t]
  OBVIOUS
<1>1. /\ j.phase = "pop" /\ j.phase \in CfSampling /\ UNCHANGED <<cfGpu, cfCache, cfRng>>
      /\ cfCpu' = cfCpu \ {CfNeeds(t)}
  BY DEF CfPop, CfSampling, CfAtNode, CfPhases
<1>2. /\ CfJobOK(j) /\ CfResultsOK(j) /\ CfSlotsOK /\ j.phase \in CfAtNode
      /\ CfConsumes(j.graph.nodes[j.at])
      /\ CfNeeds(t) = j.graph.nodes[j.at].param /\ CfNeeds(t) \in CfModel
      /\ cfOverlap # "unset"
      /\ cfOverlap # "overlap" => /\ CfOthersIdle(t) /\ CfPlaces /\ CfCachedNoise
                                  /\ CfSampledOK(j) /\ CfLoadOK(j)
      /\ Len(cfGpu) \in Nat
  BY <1>1, CfLoading
<1>3. CfSlotsOK' /\ CfCacheOK' /\ (CfPlaces => CfPlaces') /\ (CfCachedNoise => CfCachedNoise')
  BY <1>1, <1>2 DEF CfSlotsOK, CfInv, CfShared, CfCacheOK, CfPlaces, CfCachedNoise
<1>4. \A new : CfRoomLeft(t, new)
  <2>1. CfMovesIn(cfJob[t]) = 1 /\ \A new : CfMovesIn(new) \in 0..1
    BY <1>1 DEF CfMovesIn, CfMoving
  <2> QED BY <1>1, <1>2, <2>1 DEF CfRoomLeft
<1>5. CASE CfNeeds(t) \in cfCpu
  <2>1. PICK new : new = [j EXCEPT !.phase = "insert"]
    OBVIOUS
  <2>2. cfJob' = [cfJob EXCEPT ![t] = new]
    BY <1>5, <2>1 DEF CfPop, CfGo, CfInv, CfJobs
  <2>3. CfJobOK(new) /\ CfResultsOK(new) /\ (CfSampledOK(j) => CfSampledOK(new))
    <3>1. "insert" \in CfAtNode
      BY DEF CfAtNode, CfPhases
    <3> QED BY <1>2, <2>1, <3>1, CfWent DEF CfFits
  <2>4. new.graph = j.graph /\ new.at = j.at /\ new.phase = "insert"
    BY <1>2, <2>1, CfLoadOf
  <2>5. CfLoadOK(j) => CfLoadOK(new)'
    BY <1>1, <1>2, <2>4 DEF CfLoadOK, CfMoving
  <2> QED BY <1>2, <1>3, <1>4, <2>2, <2>3, <2>5, CfThreadStep
<1>6. CASE CfNeeds(t) \notin cfCpu
  <2>1. cfOverlap = "overlap"
    BY <1>1, <1>2, <1>6 DEF CfLoadOK
  <2>2. PICK new : new = [j EXCEPT !.status = "error", !.phase = "none"]
    OBVIOUS
  <2>3. cfJob' = [cfJob EXCEPT ![t] = new]
    BY <1>1, <1>6, <2>2 DEF CfPop, CfFail, CfInv, CfJobs
  <2>4. CfJobOK(new) /\ CfResultsOK(new)
    BY <1>1, <1>2, <2>2, CfFailed
  <2> QED BY <1>2, <1>3, <1>4, <2>1, <2>3, <2>4, CfThreadStep
<1> QED BY <1>5, <1>6

LEMMA CfInsertStep ==
    ASSUME CfInv, NEW t \in CfThread, CfInsert(t), cfOverlap' = cfOverlap PROVE CfInv'
<1> PICK j : j = cfJob[t]
  OBVIOUS
<1>1. j.phase = "insert" /\ j.phase \in CfSampling /\ UNCHANGED <<cfCpu, cfCache, cfRng>>
  BY DEF CfInsert, CfSampling, CfAtNode, CfPhases
<1>2. /\ CfJobOK(j) /\ CfResultsOK(j) /\ CfSlotsOK /\ j.phase \in CfAtNode
      /\ CfConsumes(j.graph.nodes[j.at])
      /\ CfNeeds(t) = j.graph.nodes[j.at].param /\ CfNeeds(t) \in CfModel
      /\ cfOverlap # "unset"
      /\ cfOverlap # "overlap" => /\ CfOthersIdle(t) /\ CfPlaces /\ CfCachedNoise
                                  /\ CfSampledOK(j) /\ CfLoadOK(j)
      /\ Len(cfGpu) \in Nat /\ CfSlots \in Nat \ {0}
  BY <1>1, CfLoading
<1>3. PICK new : new = [j EXCEPT !.phase = "lookup"]
  OBVIOUS
<1>4. cfJob' = [cfJob EXCEPT ![t] = new] /\ cfGpu' = CfToEnd(CfNeeds(t))
  BY <1>3 DEF CfInsert, CfGo, CfInv, CfJobs
<1>5. CfJobOK(new) /\ CfResultsOK(new) /\ (CfSampledOK(j) => CfSampledOK(new))
  <2>1. "lookup" \in CfAtNode /\ "lookup" \notin CfSampling
    BY DEF CfAtNode, CfSampling, CfPhases
  <2> QED BY <1>2, <1>3, <2>1, CfWent
<1>6. /\ cfGpu' \in Seq(CfModel) /\ IsInjective(cfGpu')
      /\ ToSet(cfGpu') = ToSet(cfGpu) \cup {CfNeeds(t)}
      /\ Len(cfGpu') = IF CfNeeds(t) \in ToSet(cfGpu) THEN Len(cfGpu) ELSE Len(cfGpu) + 1
  BY <1>2, <1>4, CfMovedToEnd
<1>7. CfSlotsOK' /\ CfCacheOK'
  BY <1>1, <1>2, <1>6 DEF CfSlotsOK, CfInv, CfShared, CfCacheOK
<1>8. new.graph = j.graph /\ new.at = j.at /\ new.phase = "lookup"
  BY <1>2, <1>3, CfLoadOf
<1>9. CfRoomLeft(t, new)
  <2>1. CfMovesIn(new) = 0 /\ CfMovesIn(cfJob[t]) = 1
    BY <1>1, <1>8 DEF CfMovesIn, CfMoving
  <2> QED BY <1>2, <1>6, <2>1 DEF CfRoomLeft
<1>10. CfLoadOK(j) /\ CfPlaces => CfPlaces'
  <2>1. CfLoadOK(j) => Len(cfGpu) < CfSlots /\ CfNeeds(t) \notin cfCpu
    BY <1>1, <1>2 DEF CfLoadOK, CfMoving
  <2>2. Len(cfGpu) < CfSlots => Len(cfGpu') <= CfSlots
    BY <1>2, <1>6
  <2> QED BY <1>1, <1>6, <2>1, <2>2 DEF CfPlaces
<1>11. CfCachedNoise => CfCachedNoise'
  BY <1>1 DEF CfCachedNoise
<1>12. CfLoadOK(new)'
  BY <1>2, <1>6, <1>8 DEF CfLoadOK, CfMoving
<1> QED BY <1>2, <1>4, <1>5, <1>7, <1>9, <1>10, <1>11, <1>12, CfThreadStep

LEMMA CfSeedStep ==
    ASSUME CfInv, NEW t \in CfThread, CfSeed(t), cfOverlap' = cfOverlap PROVE CfInv'
<1> PICK j : j = cfJob[t]
  OBVIOUS
<1>1. /\ j.phase = "seed" /\ j.phase \in CfSampling /\ UNCHANGED <<cfGpu, cfCpu, cfCache>>
      /\ cfRng' = [seed |-> CfNeeds(t), draws |-> 0]
  BY DEF CfSeed, CfSampling, CfAtNode, CfPhases
<1>2. /\ CfJobOK(j) /\ CfResultsOK(j) /\ CfSlotsOK /\ j.phase \in CfAtNode
      /\ j.graph.nodes[j.at].kind = "sample"
      /\ CfNeeds(t) = j.graph.nodes[j.at].param
      /\ cfOverlap # "unset"
      /\ cfOverlap # "overlap" => /\ CfOthersIdle(t) /\ CfPlaces /\ CfCachedNoise
                                  /\ CfSampledOK(j) /\ CfLoadOK(j)
      /\ Len(cfGpu) \in Nat
  BY <1>1, CfLoading
<1>3. PICK new : new = [j EXCEPT !.phase = "draw"]
  OBVIOUS
<1>4. cfJob' = [cfJob EXCEPT ![t] = new]
  BY <1>3 DEF CfSeed, CfGo, CfInv, CfJobs
<1>5. CfJobOK(new) /\ CfResultsOK(new) /\ (CfSampledOK(j) => CfSampledOK(new))
  <2>1. "draw" \in CfAtNode
    BY DEF CfAtNode, CfPhases
  <2> QED BY <1>2, <1>3, <2>1, CfWent DEF CfFits
<1>6. CfSlotsOK' /\ CfCacheOK' /\ (CfPlaces => CfPlaces') /\ (CfCachedNoise => CfCachedNoise')
  BY <1>1, <1>2 DEF CfSlotsOK, CfInv, CfShared, CfCacheOK, CfPlaces, CfCachedNoise
<1>7. new.graph = j.graph /\ new.at = j.at /\ new.phase = "draw"
  BY <1>2, <1>3, CfLoadOf
<1>8. CfRoomLeft(t, new)
  <2>1. CfMovesIn(new) = 0 /\ CfMovesIn(cfJob[t]) \in 0..1
    BY <1>7 DEF CfMovesIn, CfMoving
  <2> QED BY <1>1, <1>2, <2>1 DEF CfRoomLeft
<1>9. CfLoadOK(j) => CfLoadOK(new)'
  BY <1>1, <1>2, <1>7 DEF CfLoadOK, CfMoving, CfNoise, CfConsumes
<1> QED BY <1>2, <1>4, <1>5, <1>6, <1>8, <1>9, CfThreadStep

LEMMA CfDrawStep ==
    ASSUME CfInv, NEW t \in CfThread, CfDraw(t), cfOverlap' = cfOverlap PROVE CfInv'
<1> PICK j : j = cfJob[t]
  OBVIOUS
<1>1. j.phase = "draw" /\ j.phase \in CfSampling /\ UNCHANGED <<cfGpu, cfCpu, cfCache>>
  BY DEF CfDraw, CfSampling, CfAtNode, CfPhases
<1>2. /\ CfJobOK(j) /\ CfResultsOK(j) /\ CfSlotsOK /\ j.phase \in CfAtNode
      /\ j.graph.nodes[j.at].kind = "sample"
      /\ cfOverlap # "unset"
      /\ cfOverlap # "overlap" => /\ CfOthersIdle(t) /\ CfPlaces /\ CfCachedNoise
                                  /\ CfSampledOK(j) /\ CfLoadOK(j)
      /\ Len(cfGpu) \in Nat
  BY <1>1, CfLoading
<1>3. PICK new : new = [j EXCEPT !.phase = "put", !.noise = cfRng]
  OBVIOUS
<1>4. cfJob' = [cfJob EXCEPT ![t] = new]
  BY <1>3 DEF CfDraw, CfInv, CfJobs
<1> new = [status |-> j.status, graph |-> j.graph, phase |-> "put", at |-> j.at,
           results |-> j.results, noise |-> cfRng]
  BY <1>2, <1>3 DEF CfJobOK
<1>5. CfJobOK(new) /\ CfResultsOK(new) /\ (CfSampledOK(j) => CfSampledOK(new))
  <2>1. j.status = "running"
    BY <1>2 DEF CfJobOK, CfAtNode
  <2>2. CfJobOK(new)
    BY <1>2, <2>1 DEF CfJobOK, CfAtNode, CfSampling, CfPhases
  <2> QED BY <1>2, <2>2 DEF CfResultsOK, CfSampledOK
<1>6. CfSlotsOK' /\ CfCacheOK' /\ (CfPlaces => CfPlaces') /\ (CfCachedNoise => CfCachedNoise')
  BY <1>1, <1>2 DEF CfSlotsOK, CfInv, CfShared, CfCacheOK, CfPlaces, CfCachedNoise
<1>7. CfRoomLeft(t, new)
  <2>1. CfMovesIn(new) = 0 /\ CfMovesIn(cfJob[t]) \in 0..1
    BY DEF CfMovesIn, CfMoving
  <2> QED BY <1>1, <1>2, <2>1 DEF CfRoomLeft
<1>8. CfLoadOK(j) => CfLoadOK(new)'
  BY <1>1, <1>2 DEF CfLoadOK, CfMoving, CfConsumes
<1> QED BY <1>2, <1>4, <1>5, <1>6, <1>7, <1>8, CfThreadStep

\* A thread that looks its node up, or puts its output in the cache.
LEMMA CfComputing ==
    ASSUME CfInv, NEW t \in CfThread, NEW j, j = cfJob[t], j.phase \in {"lookup", "put"}
    PROVE  /\ CfJobOK(j) /\ CfResultsOK(j) /\ CfSlotsOK /\ CfCacheOK /\ j.phase \in CfAtNode
           /\ cfOverlap # "unset"
           /\ cfOverlap # "overlap" => /\ CfOthersIdle(t) /\ CfPlaces /\ CfCachedNoise
                                       /\ CfSampledOK(j) /\ CfLoadOK(j)
           /\ Len(cfGpu) \in Nat /\ CfMovesIn(j) = 0
           /\ CfKeyOf(t) = CfKey(j.graph, j.results, j.at)
           /\ CfKeyOf(t).node = j.graph.nodes[j.at]
           /\ CfKept(CfKeyOf(t)) = CfGiven(j.graph, j.results, j.at)
           /\ j.graph.nodes[j.at].kind # "sample" =>
                 CfOutput(j.graph, j.results, j.at, <<>>)
                   = <<j.graph.nodes[j.at].kind, CfKept(CfKeyOf(t))>>
<1>1. j.phase # "none" /\ j.phase \in CfAtNode /\ CfMovesIn(j) = 0
  BY DEF CfAtNode, CfPhases, CfMovesIn, CfMoving
<1>2. /\ CfJobOK(j) /\ CfResultsOK(j) /\ cfOverlap # "unset"
      /\ cfOverlap # "overlap" => /\ CfOthersIdle(t) /\ CfPlaces /\ CfCachedNoise
                                  /\ CfSampledOK(j) /\ CfLoadOK(j)
  BY <1>1, CfRunning
<1>3. CfSlotsOK /\ CfCacheOK /\ Len(cfGpu) \in Nat
  BY DEF CfInv, CfShared, CfSlotsOK
<1>4. CfKeyOf(t) = CfKey(j.graph, j.results, j.at)
  BY DEF CfKeyOf
<1>5. PICK k, g, r, n : k = CfKeyOf(t) /\ g = j.graph /\ r = j.results /\ n = j.at
  OBVIOUS
<1>6. k = CfKey(g, r, n)
  BY <1>4, <1>5
<1>7. k.node = g.nodes[n] /\ CfKept(k) = CfGiven(g, r, n)
  BY <1>6, CfKeyed
<1>8. g.nodes[n].kind # "sample" =>
         CfOutput(g, r, n, <<>>) = <<g.nodes[n].kind, CfKept(k)>>
  BY <1>7 DEF CfOutput
<1> QED BY <1>1, <1>2, <1>3, <1>4, <1>5, <1>7, <1>8

LEMMA CfLookupStep ==
    ASSUME CfInv, NEW t \in CfThread, CfLookup(t), cfOverlap' = cfOverlap PROVE CfInv'
<1> PICK j : j = cfJob[t]
  OBVIOUS
<1> PICK node : node = j.graph.nodes[j.at]
  OBVIOUS
<1> PICK key : key = CfKeyOf(t)
  OBVIOUS
<1>1. j.phase = "lookup" /\ CfQuiet
  BY DEF CfLookup, CfQuiet
<1>2. /\ CfJobOK(j) /\ CfResultsOK(j) /\ CfCacheOK /\ j.phase \in CfAtNode
      /\ cfOverlap # "overlap" => /\ CfCachedNoise /\ CfSampledOK(j) /\ CfLoadOK(j)
      /\ key.node = node /\ CfKept(key) = CfGiven(j.graph, j.results, j.at)
      /\ node.kind # "sample" =>
            CfOutput(j.graph, j.results, j.at, <<>>) = <<node.kind, CfKept(key)>>
  BY <1>1, CfComputing
<1>3. CASE key \in DOMAIN cfCache
  <2>1. PICK v : v = cfCache[key]
    OBVIOUS
  <2>2. PICK new : new = [j EXCEPT !.phase = "next", !.results = Append(@, v)]
    OBVIOUS
  <2>3. cfJob' = [cfJob EXCEPT ![t] = new]
    BY <1>3, <2>1, <2>2 DEF CfLookup, CfInv, CfJobs
  <2>4. new = [status |-> j.status, graph |-> j.graph, phase |-> "next", at |-> j.at,
               results |-> Append(j.results, v), noise |-> j.noise]
    BY <1>2, <2>2 DEF CfJobOK
  <2>5. node.kind # "sample" => v = CfOutput(j.graph, j.results, j.at, <<>>)
    BY <1>2, <1>3, <2>1 DEF CfCacheOK
  <2>6. CfCachedNoise => (node.kind = "sample" => v = <<"noise", CfNoise(node)>>)
    BY <1>2, <1>3, <2>1 DEF CfCachedNoise
  <2>7. ~CfRaises(node, CfGiven(j.graph, j.results, j.at))
    BY <1>2, <1>3 DEF CfCacheOK
  <2>8. CfJobOK(new) /\ CfResultsOK(new)
    BY <1>2, <2>4, <2>5, <2>7, CfDone
  <2>9. ASSUME CfSampledOK(j), CfCachedNoise PROVE CfSampledOK(new)
    <3>1. CfRightSample(j, v)
      BY <2>6, <2>9 DEF CfRightSample
    <3> QED BY <1>2, <2>4, <2>5, <2>7, <3>1, CfDone
  <2>10. CfLoadOK(new) /\ new.phase \notin CfMoving
    BY <2>4 DEF CfLoadOK, CfMoving
  <2>11. j.phase # "none"
    BY <1>1
  <2> QED BY <1>1, <1>2, <2>3, <2>8, <2>9, <2>10, <2>11, CfQuietStep
<1>4. CASE key \notin DOMAIN cfCache
  <2>1. PICK phase : phase = IF node.kind = "sample" THEN "seed" ELSE "put"
    OBVIOUS
  <2>2. PICK new : new = [j EXCEPT !.phase = phase]
    OBVIOUS
  <2>3. /\ CfGo(t, phase) /\ phase \in CfAtNode /\ phase \notin CfMoving
        /\ phase \in CfSampling => CfFits(phase, node)
    BY <1>4, <2>1 DEF CfLookup, CfAtNode, CfPhases, CfMoving, CfSampling, CfFits
  <2>4. new.graph = j.graph /\ new.at = j.at /\ new.phase = phase
    BY <1>2, <2>2, CfLoadOf
  <2>5. CfLoadOK(j) => CfLoadOK(new)
    BY <1>1, <2>1, <2>4 DEF CfLoadOK, CfMoving, CfConsumes
  <2> QED BY <1>1, <1>2, <2>2, <2>3, <2>5, CfGoStep
<1> QED BY <1>3, <1>4

LEMMA CfPutStep ==
    ASSUME CfInv, NEW t \in CfThread, CfPut(t), cfOverlap' = cfOverlap PROVE CfInv'
<1> PICK j : j = cfJob[t]
  OBVIOUS
<1> PICK node : node = j.graph.nodes[j.at]
  OBVIOUS
<1> PICK key : key = CfKeyOf(t)
  OBVIOUS
<1> PICK v : v = CfOutput(j.graph, j.results, j.at, j.noise)
  OBVIOUS
<1>1. j.phase = "put" /\ UNCHANGED <<cfGpu, cfCpu, cfRng>>
  BY DEF CfPut
<1>2. /\ CfJobOK(j) /\ CfResultsOK(j) /\ CfSlotsOK /\ CfCacheOK /\ j.phase \in CfAtNode
      /\ cfOverlap # "unset"
      /\ cfOverlap # "overlap" => /\ CfOthersIdle(t) /\ CfPlaces /\ CfCachedNoise
                                  /\ CfSampledOK(j) /\ CfLoadOK(j)
      /\ Len(cfGpu) \in Nat /\ CfMovesIn(j) = 0
      /\ key.node = node /\ CfKept(key) = CfGiven(j.graph, j.results, j.at)
      /\ node.kind # "sample" =>
            CfOutput(j.graph, j.results, j.at, <<>>) = <<node.kind, CfKept(key)>>
  BY <1>1, CfComputing
<1>3. CASE CfRaises(node, CfGiven(j.graph, j.results, j.at)) /\ CfFail(t) /\ UNCHANGED cfCache
  <2>1. PICK new : new = [j EXCEPT !.status = "error", !.phase = "none"]
    OBVIOUS
  <2>2. cfJob' = [cfJob EXCEPT ![t] = new] /\ CfQuiet
    BY <1>1, <1>3, <2>1 DEF CfFail, CfInv, CfJobs, CfQuiet
  <2>3. CfSampledOK(j) => CfFails(j.graph)
    BY <1>2, <1>3, CfFailing
  <2>4. /\ CfJobOK(new) /\ CfResultsOK(new) /\ new.phase = "none"
        /\ CfSampledOK(j) => CfSampledOK(new)
    BY <1>1, <1>2, <2>1, <2>3, CfFailed
  <2>5. CfLoadOK(new) /\ new.phase \notin CfMoving
    BY <2>4 DEF CfLoadOK, CfMoving
  <2> QED BY <1>1, <1>2, <2>2, <2>4, <2>5, CfQuietStep
<1>4. CASE /\ ~CfRaises(node, CfGiven(j.graph, j.results, j.at))
           /\ cfCache' = [k \in DOMAIN cfCache \cup {key} |->
                             IF k = key THEN v ELSE cfCache[k]]
           /\ cfJob' = [cfJob EXCEPT ![t].phase = "next",
                                     ![t].results = Append(@, v), ![t].noise = <<>>]
  <2>1. PICK new : new = [j EXCEPT !.phase = "next", !.results = Append(@, v), !.noise = <<>>]
    OBVIOUS
  <2>2. cfJob' = [cfJob EXCEPT ![t] = new]
    BY <1>4, <2>1 DEF CfInv, CfJobs
  <2>3. new = [status |-> j.status, graph |-> j.graph, phase |-> "next", at |-> j.at,
               results |-> Append(j.results, v), noise |-> <<>>]
    BY <1>2, <2>1 DEF CfJobOK
  <2>4. node.kind # "sample" => v = CfOutput(j.graph, j.results, j.at, <<>>)
    BY DEF CfOutput
  <2>5. CfLoadOK(j) => (node.kind = "sample" => v = <<"noise", CfNoise(node)>>)
    BY <1>1 DEF CfLoadOK, CfOutput
  <2>6. CfJobOK(new) /\ CfResultsOK(new)
    BY <1>2, <1>4, <2>3, <2>4, CfDone
  <2>7. ASSUME CfSampledOK(j), CfLoadOK(j) PROVE CfSampledOK(new)
    <3>1. CfRightSample(j, v)
      BY <2>5, <2>7 DEF CfRightSample
    <3> QED BY <1>2, <1>4, <2>3, <2>4, <3>1, CfDone
  <2>8. CfSlotsOK' /\ (CfPlaces => CfPlaces')
    BY <1>1, <1>2 DEF CfSlotsOK, CfPlaces
  <2>9. /\ CfCacheOK'
        /\ CfCachedNoise /\ CfLoadOK(j) => CfCachedNoise'
    <3>1. DOMAIN cfCache' = DOMAIN cfCache \cup {key}
      BY <1>4
    <3>2. ASSUME NEW k \in DOMAIN cfCache' PROVE cfCache'[k] = IF k = key THEN v ELSE cfCache[k]
      BY <1>4
    <3>3. ~CfRaises(key.node, CfKept(key))
      BY <1>2, <1>4
    <3>4. key.node.kind # "sample" => v = <<key.node.kind, CfKept(key)>>
      BY <1>2, <2>4
    <3>5. CfCacheOK'
      BY <1>2, <3>1, <3>2, <3>3, <3>4 DEF CfCacheOK
    <3>6. CfCachedNoise /\ CfLoadOK(j) => CfCachedNoise'
      BY <1>2, <2>5, <3>1, <3>2 DEF CfCachedNoise
    <3> QED BY <3>5, <3>6
  <2>10. CfRoomLeft(t, new)
    <3>1. CfMovesIn(new) = 0
      BY <2>3 DEF CfMovesIn, CfMoving
    <3> QED BY <1>1, <1>2, <3>1 DEF CfRoomLeft
  <2>11. CfLoadOK(new)'
    BY <2>3 DEF CfLoadOK, CfMoving
  <2> QED BY <1>2, <2>2, <2>6, <2>7, <2>8, <2>9, <2>10, <2>11, CfThreadStep
<1> QED BY <1>3, <1>4 DEF CfPut

-----------------------------------------------------------------------------
(* The invariant, and what it says.                                        *)

LEMMA CfInvInit == CfInit => CfInv
<1> SUFFICES ASSUME CfInit PROVE CfInv
  OBVIOUS
<1>1. Len(<<>>) = 0 /\ ToSet(<<>>) = {} /\ DOMAIN <<>> = {}
  BY DEF ToSet
<1>2. \A t \in CfThread : cfJob[t] = CfNoJob
  BY DEF CfInit
<1>3. CfSlotsOK
  BY <1>1 DEF CfInit, CfSlotsOK, IsInjective
<1>4. CfRoomOK
  <2>1. \A t \in CfThread : cfJob[t].phase \notin CfMoving
    BY <1>2 DEF CfNoJob, CfMoving
  <2>2. {t \in CfThread : cfJob[t].phase \in CfMoving} = {}
    BY <2>1
  <2>3. Cardinality({}) = 0 /\ Cardinality(CfThread) \in Nat
    BY CfAssumption, FS_EmptySet, FS_CardinalityType
  <2>4. Len(cfGpu) = 0 /\ CfSlots \in Nat \ {0}
    BY <1>1, CfAssumption DEF CfInit
  <2>5. Cardinality({t \in CfThread : cfJob[t].phase \in CfMoving}) = 0
    BY <2>2, <2>3
  <2> QED BY <2>3, <2>4, <2>5 DEF CfRoomOK
<1>5. CfUnset /\ CfCacheOK
  BY <1>1, <1>2 DEF CfInit, CfUnset, CfCacheOK
<1>6. CfJobOK(CfNoJob) /\ CfResultsOK(CfNoJob) /\ CfSampledOK(CfNoJob) /\ CfLoadOK(CfNoJob)
  <2>1. CfShape(<<>>)
    BY DEF CfShape
  <2>2. CfJobOK(CfNoJob)
    BY <1>1, <2>1 DEF CfNoJob, CfJobOK, CfPhases, CfAtNode, CfSampling
  <2>3. CfResultsOK(CfNoJob) /\ CfSampledOK(CfNoJob)
    BY <1>1 DEF CfNoJob, CfResultsOK, CfSampledOK
  <2>4. CfLoadOK(CfNoJob)
    BY DEF CfNoJob, CfLoadOK, CfMoving
  <2> QED BY <2>2, <2>3, <2>4
<1>7. CfJobs
  BY <1>2, <1>6 DEF CfJobs, CfInit
<1>8. CfAlone
  BY <1>2 DEF CfAlone, CfNoJob
<1>9. CfPlaces /\ CfCachedNoise
  BY <1>1, CfAssumption DEF CfInit, CfPlaces, CfCachedNoise
<1> QED BY <1>2, <1>3, <1>4, <1>5, <1>6, <1>7, <1>8, <1>9 DEF CfInv, CfShared, CfOneByOne

LEMMA CfConfigureStep == CfInv /\ CfConfigure => CfInv'
<1> SUFFICES ASSUME CfInv, CfConfigure PROVE CfInv'
  OBVIOUS
<1>1. /\ cfOverlap = "unset" /\ cfOverlap' \in {"overlap", "wait"}
      /\ UNCHANGED <<cfJob, cfGpu, cfCpu, cfCache, cfRng>>
  BY DEF CfConfigure
<1>2. CfShared'
  BY <1>1 DEF CfInv, CfShared, CfSlotsOK, CfRoomOK, CfUnset, CfCacheOK
<1>3. CfJobs'
  BY <1>1 DEF CfInv, CfJobs
<1>4. CfOneByOne'
  BY <1>1 DEF CfInv, CfOneByOne, CfAlone, CfPlaces, CfCachedNoise, CfLoadOK
<1> QED BY <1>2, <1>3, <1>4 DEF CfInv

LEMMA CfInvNext == CfInv /\ [CfNext]_cfVars => CfInv'
<1> SUFFICES ASSUME CfInv, [CfNext]_cfVars PROVE CfInv'
  OBVIOUS
<1>1. CASE CfConfigure
  BY <1>1, CfConfigureStep
<1>2. ASSUME NEW t \in CfThread, CfSubmit(t) PROVE CfInv'
  BY <1>2, CfSubmitStep
<1>3. ASSUME NEW t \in CfThread, CfRun(t) PROVE CfInv'
  BY <1>3, CfParseStep, CfPickStep, CfFindStep, CfTouchStep, CfEvictStep, CfTakeStep,
     CfPopStep, CfInsertStep, CfLookupStep, CfSeedStep, CfDrawStep, CfPutStep DEF CfRun
<1>4. CASE UNCHANGED cfVars
  BY <1>4 DEF cfVars, CfInv, CfShared, CfSlotsOK, CfRoomOK, CfUnset, CfCacheOK, CfJobs,
     CfOneByOne, CfAlone, CfPlaces, CfCachedNoise, CfLoadOK
<1> QED BY <1>1, <1>2, <1>3, <1>4 DEF CfNext

LEMMA CfFaithfulFollows == CfInv => CfFaithful
<1> SUFFICES ASSUME CfInv PROVE CfFaithful
  OBVIOUS
<1>1. \A t \in CfThread : CfJobOK(cfJob[t]) /\ CfResultsOK(cfJob[t])
  BY DEF CfInv, CfJobs
<1>2. cfGpu \in Seq(CfModel) /\ IsInjective(cfGpu) /\ cfCpu \subseteq CfModel
  BY DEF CfInv, CfShared, CfSlotsOK
<1>3. CfTypeOK
  <2>1. ToSet(cfGpu) \subseteq CfModel
    BY <1>2, Members
  <2> QED BY <1>1, <1>2, <2>1 DEF CfTypeOK, CfInv, CfShared, CfUnset, CfJobOK
<1>4. CfSequential
  <2> SUFFICES ASSUME cfOverlap = "wait" PROVE CfOneByOne => CfSequential
    BY DEF CfSequential, CfInv
  <2> SUFFICES ASSUME CfOneByOne PROVE CfSequential
    OBVIOUS
  <2>1. ASSUME NEW t \in CfThread
        PROVE  LET j == cfJob[t]
               IN  /\ j.status = "error" => CfRefused(j.graph) \/ CfFails(j.graph)
                   /\ j.status = "complete" =>
                         ~CfFails(j.graph) /\ j.results = CfMeaning(j.graph)
                   /\ j.phase \in {"seed", "draw", "put"} /\ CfConsumes(j.graph.nodes[j.at]) =>
                         CfNeeds(t) \in ToSet(cfGpu)
    <3> PICK j : j = cfJob[t]
      OBVIOUS
    <3>1. CfSampledOK(j) /\ CfLoadOK(j) /\ CfJobOK(j) /\ CfResultsOK(j)
      BY <1>1 DEF CfOneByOne
    <3>2. j.status = "complete" => ~CfFails(j.graph) /\ j.results = CfMeaning(j.graph)
      BY <3>1, CfMeant
    <3>3. j.status = "error" => CfRefused(j.graph) \/ CfFails(j.graph)
      BY <3>1 DEF CfSampledOK
    <3>4. j.phase \in {"seed", "draw", "put"} /\ CfConsumes(j.graph.nodes[j.at]) =>
             CfNeeds(t) \in ToSet(cfGpu)
      BY <3>1 DEF CfLoadOK, CfNeeds
    <3> QED BY <3>2, <3>3, <3>4
  <2>2. Len(cfGpu) <= CfSlots /\ ToSet(cfGpu) \cap cfCpu = {}
    BY DEF CfOneByOne, CfPlaces
  <2> QED BY <2>1, <2>2 DEF CfSequential
<1>5. CfConcurrent
  <2>1. Len(cfGpu) <= CfSlots + Cardinality(CfThread) - 1
    <3>1. Cardinality(CfMovers) \in Nat
      <4>1. CfMovers \subseteq CfThread /\ IsFiniteSet(CfThread)
        BY CfAssumption DEF CfMovers
      <4> QED BY <4>1, FS_Subset, FS_CardinalityType
    <3>2. Len(cfGpu) + Cardinality(CfMovers) <= CfSlots + Cardinality(CfThread) - 1
      BY DEF CfInv, CfShared, CfRoomOK, CfMovers
    <3>3. Len(cfGpu) \in Nat /\ CfSlots \in Nat /\ Cardinality(CfThread) \in Nat
      BY <1>2, CfAssumption, FS_CardinalityType
    <3> QED BY <3>1, <3>2, <3>3
  <2>2. ASSUME NEW t \in CfThread
        PROVE  LET j == cfJob[t]
               IN  \A n \in DOMAIN j.results :
                      /\ ~CfRaises(j.graph.nodes[n], CfGiven(j.graph, j.results, n))
                      /\ j.graph.nodes[n].kind # "sample" =>
                            j.results[n] = CfOutput(j.graph, j.results, n, <<>>)
    <3> PICK j : j = cfJob[t]
      OBVIOUS
    <3>1. DOMAIN j.results = 1..Len(j.results)
      BY <1>1, CfShapeLen DEF CfJobOK
    <3> QED BY <1>1, <3>1 DEF CfResultsOK
  <2> QED BY <2>1, <2>2 DEF CfConcurrent
<1> QED BY <1>3, <1>4, <1>5 DEF CfFaithful

\* Threads of prompts that share a cache, a model registry and the generator of
\* random numbers: every node gets what it means while prompts run one by one, which
\* fail when they are refused or a node of theirs raises and then only; however
\* they overlap, nodes that do not sample get it and no result, from the cache or
\* not, is of a node that raises; the slots are exceeded by no more
\* models than there are other threads.  (OffloadingExecutor.run, CacheStore,
\* ModelRegistry.ensure_loaded)
THEOREM WorkflowsFaithful == CfSpec => []CfFaithful
<1>1. CfInit => CfInv
  BY CfInvInit
<1>2. CfInv /\ [CfNext]_cfVars => CfInv'
  BY CfInvNext
<1>3. CfInv => CfFaithful
  BY CfFaithfulFollows
<1> QED BY <1>1, <1>2, <1>3, PTL DEF CfSpec

-----------------------------------------------------------------------------
(* The compiler of prompts.                                                *)

PoCompiling == {"bootstrap", "trials", "published"}

\* How many examples of the validation set a configuration gets right.
PoTruth(r, config) == Cardinality(r.right[config] \cap ToSet(PoVal))

PoEntryOK(r, e) ==
    /\ r.kind = "search" => e.config \subseteq r.pool
    /\ e.correct \in Nat /\ e.correct <= PoTruth(r, e.config)
    /\ ~e.exceeded => e.correct = PoTruth(r, e.config)

\* The best so far: none before it did as well, none after it did better.
PoBestOf(h, best) ==
    IF h = <<>> THEN best = <<>>
    ELSE \E i \in 1..Len(h) : /\ best = <<h[i]>>
                              /\ \A k \in 1..Len(h) : h[k].correct <= h[i].correct
                              /\ \A k \in 1..(i - 1) : h[k].correct < h[i].correct

PoCompilationOK(r) ==
    /\ r = [phase |-> r.phase, kind |-> r.kind, budget |-> r.budget, known |-> r.known,
            right |-> r.right, count |-> r.count, pool |-> r.pool, best |-> r.best,
            history |-> r.history, met |-> r.met]
    /\ r.kind \in {"search", "instructions"} /\ r.budget \in Nat /\ r.count \in Nat
    /\ r.kind = "search" => r.pool \subseteq r.known
    /\ r.history \in Seq(ToSet(r.history))
    /\ r.phase = "bootstrap" => r.history = <<>>
    /\ \A i \in 1..Len(r.history) : PoEntryOK(r, r.history[i])
    /\ PoBestOf(r.history, r.best)

PoCallOK(r) ==
    /\ r.phase \in {"new", "done"} \cup PoCompiling
    /\ r.phase = "done" => r = [phase |-> "done", met |-> r.met]
    /\ r.phase \in PoCompiling => PoCompilationOK(r)

\* Calls that run at the same time know of each other.
PoMet == \A c, d \in PoCall : PoActive(c) /\ PoActive(d) /\ c # d => d \in poCall[c].met

PoPublishes(c) == poCall[c].phase = "published" /\ poCall[c].kind = "search"

\* Whose results the globals hold is about to have published them, or has.
PoOrigin ==
    \A c \in PoCall :
        /\ poModule = c => PoPublishes(c) \/ poCall[c].phase = "done"
        /\ poHistory = c => poCall[c].phase = "done"

\* A call that met no other one published both, or another is between the two.
PoTogether(c) ==
    /\ PoPublishes(c) /\ poCall[c].met = {} => poModule = c
    /\ poCall[c].phase = "done" /\ poCall[c].met = {} =>
          /\ (poModule = c <=> poHistory = c) \/ \E d \in PoCall \ {c} : PoPublishes(d)
          /\ \A d \in PoCall \ {c} : PoPublishes(d) => poModule # c

PoInv == /\ poCall = [c \in PoCall |-> poCall[c]]
         /\ {poModule, poHistory} \subseteq PoCall \cup {PoNone}
         /\ \A c \in PoCall : PoCallOK(poCall[c])
         /\ PoMet /\ PoOrigin /\ \A c \in PoCall : PoTogether(c)


\* A trial is judged on the validation set, within the budget or not.
LEMMA PoAsked ==
    ASSUME NEW r, NEW config, r.budget \in Nat, r.count \in Nat
    PROVE  LET e == PoTrial(r, config)
           IN  /\ e.config = config /\ e.calls \in Nat
               /\ e.correct \in Nat /\ e.correct <= PoTruth(r, config)
               /\ ~e.exceeded => e.correct = PoTruth(r, config)
<1> PICK right, S, n : right = r.right[config] /\ S = ToSet(PoVal) /\ n = Len(PoVal)
  OBVIOUS
<1>1. /\ PoVal \in Seq(S) /\ n \in Nat /\ IsFiniteSet(S)
      /\ \A x \in S : \E i \in 1..n : PoVal[i] = x
  <2>1. PoVal \in Seq(S)
    BY PoAssumption
  <2>2. S = {PoVal[i] : i \in 1..n} /\ n \in Nat
    BY <2>1 DEF ToSet
  <2>3. IsFiniteSet({PoVal[i] : i \in 1..n})
    <3>1. IsFiniteSet(1..n)
      <4>1. 1 \in Int /\ n \in Int
        BY <2>2
      <4> QED BY <4>1, FS_Interval
    <3> DEFINE f == [i \in 1..n |-> PoVal[i]]
    <3>2. f \in Surjection(1..n, {PoVal[i] : i \in 1..n})
      BY DEF Surjection
    <3> HIDE DEF f
    <3> QED BY <3>1, <3>2, FS_Surjection
  <2> QED BY <2>1, <2>2, <2>3
<1> DEFINE at(x) == CHOOSE i \in DOMAIN PoVal : PoVal[i] = x
           got == {x \in S : x \in right /\ r.count + at(x) <= r.budget}
<1>2. \A x \in S : at(x) \in 1..n
  BY <1>1
<1>3. PoAsk(PoVal, right, r.count, r.budget) = [right |-> got, count |-> r.count + n]
  BY DEF PoAsk
<1> PICK e : e = PoTrial(r, config)
  OBVIOUS
<1>4. e = [config |-> config, correct |-> Cardinality(got),
           exceeded |-> r.count + n > r.budget, calls |-> (r.count + n) - r.count]
  BY <1>3 DEF PoTrial
<1> HIDE DEF at
<1>5. got \subseteq right \cap S /\ IsFiniteSet(right \cap S)
  BY <1>1, FS_Subset
<1>6. /\ Cardinality(got) \in Nat /\ Cardinality(got) <= Cardinality(right \cap S)
  BY <1>5, FS_Subset, FS_CardinalityType
<1>7. ~(r.count + n > r.budget) => got = right \cap S
  BY <1>1, <1>2
<1> HIDE DEF got
<1>8. (r.count + n) - r.count \in Nat
  BY <1>1
<1>9. PoTruth(r, config) = Cardinality(right \cap S)
  BY DEF PoTruth
<1>10. /\ e.config = config /\ e.calls \in Nat /\ e.correct \in Nat
       /\ e.correct <= PoTruth(r, config)
  BY <1>4, <1>6, <1>8, <1>9
<1>11. ASSUME ~e.exceeded PROVE e.correct = PoTruth(r, config)
  <2>1. e.exceeded = (r.count + n > r.budget) /\ e.correct = Cardinality(got)
    BY <1>4
  <2>2. got = right \cap S
    BY <1>7, <1>11, <2>1
  <2> QED BY <1>9, <2>1, <2>2
<1> QED BY <1>10, <1>11

\* One more trial in a history, and the best of it.
LEMMA PoBestGrows ==
    ASSUME NEW h, h \in Seq(ToSet(h)), NEW best, PoBestOf(h, best), NEW e, e.correct \in Nat,
           \A i \in 1..Len(h) : h[i].correct \in Nat
    PROVE  PoBestOf(Append(h, e), IF PoBetter(e, best) THEN <<e>> ELSE best)
<1> PICK w, n : w = Append(h, e) /\ n = Len(h)
  OBVIOUS
<1>1. /\ n \in Nat /\ Len(w) = n + 1 /\ w[n + 1] = e /\ \A k \in 1..n : w[k] = h[k]
      /\ w # <<>>
  <2>1. /\ n \in Nat /\ Len(w) = n + 1 /\ w[n + 1] = e /\ \A k \in 1..n : w[k] = h[k]
    BY Grown
  <2>2. w = <<>> => Len(w) = 0
    OBVIOUS
  <2> QED BY <2>1, <2>2
<1>2. CASE h = <<>>
  <2>1. n = 0 /\ best = <<>>
    BY <1>2 DEF PoBestOf
  <2>2. PoBetter(e, best) /\ w[1] = e /\ Len(w) = 1
    BY <1>1, <2>1 DEF PoBetter
  <2>3. \E i \in 1..Len(w) : /\ <<e>> = <<w[i]>>
                             /\ \A k \in 1..Len(w) : w[k].correct <= w[i].correct
                             /\ \A k \in 1..(i - 1) : w[k].correct < w[i].correct
    <3>1. 1 \in 1..Len(w) /\ (\A k \in 1..Len(w) : k = 1) /\ 1..(1 - 1) = {}
      BY <2>2
    <3>2. e.correct <= e.correct
      OBVIOUS
    <3> QED BY <2>2, <3>1, <3>2
  <2> QED BY <1>1, <2>2, <2>3 DEF PoBestOf
<1>3. CASE h # <<>>
  <2>1. PICK i \in 1..n : /\ best = <<h[i]>>
                          /\ \A k \in 1..n : h[k].correct <= h[i].correct
                          /\ \A k \in 1..(i - 1) : h[k].correct < h[i].correct
    BY <1>3 DEF PoBestOf
  <2>2. PoBetter(e, best) <=> e.correct > h[i].correct
    <3>1. best # <<>> /\ best[1] = h[i]
      BY <2>1
    <3> QED BY <3>1 DEF PoBetter
  <2>3. CASE PoBetter(e, best)
    <3>1. n + 1 \in 1..Len(w) /\ (n + 1) - 1 = n
      BY <1>1
    <3>2. \A k \in 1..n : w[k].correct < e.correct
      BY <1>1, <2>1, <2>2, <2>3
    <3>3. \A k \in 1..Len(w) : w[k].correct <= w[n + 1].correct
      BY <1>1, <3>2, SMTT(30)
    <3>4. \A k \in 1..((n + 1) - 1) : w[k].correct < w[n + 1].correct
      BY <1>1, <3>1, <3>2
    <3>5. <<e>> = <<w[n + 1]>>
      BY <1>1
    <3> QED BY <1>1, <2>3, <3>1, <3>3, <3>4, <3>5 DEF PoBestOf
  <2>4. CASE ~PoBetter(e, best)
    <3>1. i \in 1..Len(w) /\ w[i] = h[i]
      BY <1>1
    <3>2. \A k \in 1..Len(w) : w[k].correct <= w[i].correct
      BY <1>1, <2>1, <2>2, <2>4, <3>1
    <3>3. \A k \in 1..(i - 1) : w[k].correct < w[i].correct
      BY <1>1, <2>1, <3>1
    <3>4. best = <<w[i]>>
      BY <2>1, <3>1
    <3> QED BY <1>1, <2>4, <3>1, <3>2, <3>3, <3>4 DEF PoBestOf
  <2> QED BY <2>3, <2>4
<1> QED BY <1>2, <1>3

\* A step of a compilation before it publishes.
LEMMA PoCompilingStep ==
    ASSUME PoInv, UNCHANGED <<poModule, poHistory>>, NEW c \in PoCall,
           poCall[c].phase \in {"bootstrap", "trials"},
           NEW new, poCall' = [poCall EXCEPT ![c] = new],
           new.phase = "trials", new.met = poCall[c].met, PoCompilationOK(new)
    PROVE  PoInv'
<1>1. /\ poCall' = [d \in PoCall |-> poCall'[d]] /\ poCall'[c] = new
      /\ \A d \in PoCall \ {c} : poCall'[d] = poCall[d]
  BY DEF PoInv
<1>2. \A d \in PoCall : PoCallOK(poCall'[d])
  BY <1>1 DEF PoInv, PoCallOK, PoCompiling
<1>3. \A d \in PoCall : /\ PoActive(d)' = PoActive(d) /\ PoPublishes(d)' = PoPublishes(d)
                        /\ poCall'[d].met = poCall[d].met
                        /\ poCall'[d].phase = "done" <=> poCall[d].phase = "done"
  BY <1>1 DEF PoActive, PoPublishes
<1>4. PoMet'
  BY <1>3 DEF PoInv, PoMet
<1>5. PoOrigin'
  BY <1>3 DEF PoInv, PoOrigin
<1>6. \A d \in PoCall : PoTogether(d)'
  BY <1>3 DEF PoInv, PoTogether
<1>7. (\A d \in PoCall : PoCallOK(poCall[d]))'
  BY <1>2
<1> QED BY <1>1, <1>4, <1>5, <1>6, <1>7 DEF PoInv

LEMMA PoBootstrapStep == ASSUME PoInv, NEW c \in PoCall, PoBootstrap(c) PROVE PoInv'
<1> PICK r : r = poCall[c]
  OBVIOUS
<1> PICK asked : asked = PoAsk(PoTrain, r.known, 0, r.budget)
  OBVIOUS
<1>1. r.phase = "bootstrap" /\ UNCHANGED <<poModule, poHistory>> /\ PoCompilationOK(r)
  BY DEF PoBootstrap, PoInv, PoCallOK, PoCompiling
<1>2. asked.right \subseteq r.known /\ asked.count \in Nat
  <2>1. Len(PoTrain) \in Nat
    BY PoAssumption
  <2> QED BY <2>1 DEF PoAsk
<1>3. PICK new : new = IF r.kind = "search"
                       THEN [r EXCEPT !.pool = asked.right, !.count = asked.count, !.phase = "trials"]
                       ELSE [r EXCEPT !.phase = "trials"]
  OBVIOUS
<1>4. poCall' = [poCall EXCEPT ![c] = new]
  BY <1>3 DEF PoBootstrap
<1>5. /\ new = [phase |-> "trials", kind |-> r.kind, budget |-> r.budget, known |-> r.known,
                right |-> r.right, count |-> new.count, pool |-> new.pool, best |-> r.best,
                history |-> r.history, met |-> r.met]
      /\ new.count \in Nat /\ (r.kind = "search" => new.pool \subseteq r.known)
  <2>1. CASE r.kind = "search"
    <3>1. new = [r EXCEPT !.pool = asked.right, !.count = asked.count, !.phase = "trials"]
      BY <1>3, <2>1
    <3> QED BY <1>1, <1>2, <3>1 DEF PoCompilationOK
  <2>2. CASE r.kind # "search"
    <3>1. new = [r EXCEPT !.phase = "trials"]
      BY <1>3, <2>2
    <3> QED BY <1>1, <2>2, <3>1 DEF PoCompilationOK
  <2> QED BY <2>1, <2>2
<1>6. PoCompilationOK(new)
  <2>1. r.history = <<>> /\ Len(r.history) = 0
    BY <1>1 DEF PoCompilationOK
  <2>2. /\ new = [phase |-> new.phase, kind |-> new.kind, budget |-> new.budget,
                  known |-> new.known, right |-> new.right, count |-> new.count,
                  pool |-> new.pool, best |-> new.best, history |-> new.history, met |-> new.met]
        /\ new.phase = "trials" /\ new.kind = r.kind /\ new.budget = r.budget
        /\ new.known = r.known /\ new.best = r.best /\ new.history = r.history
    BY <1>5
  <2>3. new.history \in Seq(ToSet(new.history)) /\ PoBestOf(new.history, new.best)
    BY <1>1, <2>2 DEF PoCompilationOK
  <2>4. \A i \in 1..Len(new.history) : PoEntryOK(new, new.history[i])
    BY <2>1, <2>2
  <2>5. /\ new.kind \in {"search", "instructions"} /\ new.budget \in Nat /\ new.count \in Nat
        /\ new.kind = "search" => new.pool \subseteq new.known
    BY <1>1, <1>5, <2>2 DEF PoCompilationOK
  <2> QED BY <2>2, <2>3, <2>4, <2>5 DEF PoCompilationOK
<1> QED BY <1>1, <1>4, <1>5, <1>6, PoCompilingStep

LEMMA PoTryStep == ASSUME PoInv, NEW c \in PoCall, PoTry(c) PROVE PoInv'
<1> PICK r : r = poCall[c]
  OBVIOUS
<1>1. r.phase = "trials" /\ UNCHANGED <<poModule, poHistory>> /\ PoCompilationOK(r)
  BY DEF PoTry, PoInv, PoCallOK, PoCompiling
<1>2. PICK config : /\ r.kind = "search" => config \in PoSamples(r.pool)
                    /\ LET e == PoTrial(r, config)
                       IN  poCall' = [poCall EXCEPT ![c] =
                               [r EXCEPT !.history = Append(@, e), !.count = @ + e.calls,
                                         !.best = IF PoBetter(e, @) THEN <<e>> ELSE @]]
  BY DEF PoTry
<1>3. PICK e : e = PoTrial(r, config)
  OBVIOUS
<1>4. PICK best : best = IF PoBetter(e, r.best) THEN <<e>> ELSE r.best
  OBVIOUS
<1>5. PICK new : new = [r EXCEPT !.history = Append(@, e), !.count = @ + e.calls, !.best = best]
  OBVIOUS
<1>6. poCall' = [poCall EXCEPT ![c] = new]
  BY <1>2, <1>3, <1>4, <1>5
<1>7. new = [phase |-> "trials", kind |-> r.kind, budget |-> r.budget, known |-> r.known,
             right |-> r.right, count |-> r.count + e.calls, pool |-> r.pool, best |-> best,
             history |-> Append(r.history, e), met |-> r.met]
  BY <1>1, <1>5 DEF PoCompilationOK
<1>8. /\ e.config = config /\ e.calls \in Nat /\ e.correct \in Nat
      /\ e.correct <= PoTruth(r, config) /\ (~e.exceeded => e.correct = PoTruth(r, config))
  BY <1>1, <1>3, PoAsked DEF PoCompilationOK
<1>9. r.kind = "search" => config \subseteq r.pool
  BY <1>2 DEF PoSamples, kSubset
<1>10. \A x : PoEntryOK(new, x) <=> PoEntryOK(r, x)
  BY <1>7 DEF PoEntryOK, PoTruth
<1>11. PoEntryOK(r, e)
  BY <1>8, <1>9 DEF PoEntryOK
<1>12. r.history \in Seq(ToSet(r.history)) /\ \A i \in 1..Len(r.history) : PoEntryOK(r, r.history[i])
  BY <1>1 DEF PoCompilationOK
<1>13. PICK w : w = Append(r.history, e)
  OBVIOUS
<1>14. /\ w \in Seq(ToSet(w)) /\ Len(r.history) \in Nat /\ Len(w) = Len(r.history) + 1
       /\ \A k \in 1..Len(r.history) : w[k] = r.history[k]
       /\ w[Len(r.history) + 1] = e
  BY <1>12, <1>13, Grown
<1>15. \A i \in 1..Len(w) : PoEntryOK(new, w[i])
  BY <1>10, <1>11, <1>12, <1>14
<1>16. PoBestOf(w, best)
  <2>1. \A i \in 1..Len(r.history) : r.history[i].correct \in Nat
    BY <1>12 DEF PoEntryOK
  <2>2. PoBestOf(r.history, r.best) /\ e.correct \in Nat
    BY <1>1, <1>8 DEF PoCompilationOK
  <2> QED BY <1>4, <1>12, <1>13, <2>1, <2>2, PoBestGrows
<1>17. PoCompilationOK(new)
  <2>1. r.count + e.calls \in Nat
    BY <1>1, <1>8 DEF PoCompilationOK
  <2> QED BY <1>1, <1>7, <1>13, <1>14, <1>15, <1>16, <2>1 DEF PoCompilationOK
<1> QED BY <1>1, <1>6, <1>7, <1>17, PoCompilingStep


LEMMA PoBeginStep == ASSUME PoInv, NEW c \in PoCall, PoBegin(c) PROVE PoInv'
<1>1. /\ poCall[c].phase = "new" /\ UNCHANGED <<poModule, poHistory>>
      /\ poCall = [d \in PoCall |-> poCall[d]]
  BY DEF PoBegin, PoInv
<1> DEFINE Started(kind, budget, known, right) ==
               poCall' = [d \in PoCall |->
                   IF d = c THEN [phase |-> "bootstrap", kind |-> kind, budget |-> budget,
                                  known |-> known, right |-> right, count |-> 0, pool |-> {},
                                  best |-> <<>>, history |-> <<>>,
                                  met |-> {e \in PoCall \ {c} : PoActive(e)}]
                   ELSE IF PoActive(d) THEN [poCall[d] EXCEPT !.met = @ \cup {c}] ELSE poCall[d]]
<1>2. PICK kind \in {"search", "instructions"}, budget \in PoBudgets :
         \E known \in IF kind = "search" THEN PoRightSets ELSE {{}} :
         \E right \in [IF kind = "search" THEN UNION {kSubset(n, known) : n \in 0..PoDemos}
                       ELSE ToSet(PoInstructions) -> PoRightSets] :
            Started(kind, budget, known, right)
  BY DEF PoBegin
<1>22. PICK known, right : Started(kind, budget, known, right)
  <2> HIDE DEF Started
  <2>1. PICK known \in IF kind = "search" THEN PoRightSets ELSE {{}} :
         \E right \in [IF kind = "search" THEN UNION {kSubset(n, known) : n \in 0..PoDemos}
                       ELSE ToSet(PoInstructions) -> PoRightSets] :
            Started(kind, budget, known, right)
    BY <1>2
  <2>2. PICK right : Started(kind, budget, known, right)
    BY <2>1
  <2> QED BY <2>2
<1>3. PICK met : met = {e \in PoCall \ {c} : PoActive(e)}
  OBVIOUS
<1>4. PICK new : new = [phase |-> "bootstrap", kind |-> kind, budget |-> budget,
                        known |-> known, right |-> right, count |-> 0, pool |-> {},
                        best |-> <<>>, history |-> <<>>, met |-> met]
  OBVIOUS
<1>5. /\ poCall' = [d \in PoCall |-> poCall'[d]] /\ poCall'[c] = new
      /\ \A d \in PoCall \ {c} :
            poCall'[d] = IF PoActive(d) THEN [poCall[d] EXCEPT !.met = @ \cup {c}] ELSE poCall[d]
  BY <1>22, <1>3, <1>4
<1>6. PoCallOK(new)
  <2>1. /\ budget \in Nat /\ Len(<<>>) = 0 /\ <<>> \in Seq(ToSet(<<>>))
    BY PoAssumption
  <2>2. PoCompilationOK(new)
    BY <1>4, <2>1 DEF PoCompilationOK, PoBestOf
  <2> QED BY <1>4, <2>2 DEF PoCallOK, PoCompiling
<1>7. ASSUME NEW d \in PoCall \ {c}
      PROVE  /\ PoCallOK(poCall'[d]) /\ poCall'[d].phase = poCall[d].phase
             /\ PoActive(d) => poCall'[d].met = poCall[d].met \cup {c}
             /\ ~PoActive(d) => poCall'[d] = poCall[d]
             /\ poCall[d].phase \in PoCompiling => poCall'[d].kind = poCall[d].kind
  <2> PICK r : r = poCall[d]
    OBVIOUS
  <2>1. PoCallOK(r)
    BY DEF PoInv
  <2>2. CASE PoActive(d)
    <3>1. r.phase \in PoCompiling /\ PoCompilationOK(r)
      BY <2>1, <2>2 DEF PoActive, PoCallOK, PoCompiling
    <3>2. PICK q : q = [r EXCEPT !.met = @ \cup {c}]
      OBVIOUS
    <3>3. poCall'[d] = q
      BY <1>5, <2>2, <3>2
    <3>4. q = [phase |-> r.phase, kind |-> r.kind, budget |-> r.budget, known |-> r.known,
               right |-> r.right, count |-> r.count, pool |-> r.pool, best |-> r.best,
               history |-> r.history, met |-> r.met \cup {c}]
      BY <3>1, <3>2 DEF PoCompilationOK
    <3>5. \A x : PoEntryOK(q, x) <=> PoEntryOK(r, x)
      BY <3>4 DEF PoEntryOK, PoTruth
    <3>6. PoCompilationOK(q)
      BY <3>1, <3>4, <3>5 DEF PoCompilationOK
    <3>7. PoCallOK(q)
      BY <3>1, <3>4, <3>6 DEF PoCallOK, PoCompiling
    <3> QED BY <2>2, <3>3, <3>4, <3>7
  <2>3. CASE ~PoActive(d)
    BY <1>5, <2>1, <2>3
  <2> QED BY <2>2, <2>3
<1>8. /\ \A d \in PoCall \ {c} : PoActive(d)' = PoActive(d)
      /\ PoActive(c)' /\ ~PoActive(c)
  BY <1>1, <1>4, <1>5, <1>7 DEF PoActive
<1>9. /\ \A d \in PoCall \ {c} : PoPublishes(d)' = PoPublishes(d)
      /\ ~PoPublishes(c)' /\ ~PoPublishes(c)
  BY <1>1, <1>4, <1>5, <1>7 DEF PoPublishes, PoCompiling
<1>10. (\A d \in PoCall : PoCallOK(poCall[d]))'
  BY <1>5, <1>6, <1>7
<1>11. PoMet'
  <2>1. ASSUME NEW a \in PoCall, NEW b \in PoCall, PoActive(a)', PoActive(b)', a # b
        PROVE  b \in poCall'[a].met
    <3>1. CASE a = c
      BY <1>3, <1>4, <1>5, <1>8, <2>1, <3>1
    <3>2. CASE a # c /\ b = c
      BY <1>7, <1>8, <2>1, <3>2
    <3>3. CASE a # c /\ b # c
      <4>1. b \in poCall[a].met
        BY <1>8, <2>1, <3>3 DEF PoInv, PoMet
      <4> QED BY <1>7, <1>8, <2>1, <3>3, <4>1
    <3> QED BY <3>1, <3>2, <3>3
  <2> QED BY <2>1 DEF PoMet
<1>12. poModule # c /\ poHistory # c
  BY <1>1 DEF PoInv, PoOrigin, PoPublishes
<1>13. PoOrigin'
  BY <1>1, <1>7, <1>9, <1>12 DEF PoInv, PoOrigin
<1>14. ASSUME NEW d \in PoCall PROVE PoTogether(d)'
  <2>1. CASE d = c
    BY <1>4, <1>5, <1>9, <2>1 DEF PoTogether
  <2>2. CASE d # c
    <3>1. PoTogether(d)
      BY DEF PoInv
    <3>2. poCall'[d].phase = "done" => poCall'[d].met = poCall[d].met
      BY <1>7, <2>2 DEF PoActive
    <3>3. PoPublishes(d)' => poCall'[d].met # {}
      BY <1>7, <2>2 DEF PoPublishes, PoActive
    <3>4. poCall'[d].phase = poCall[d].phase
      BY <1>7, <2>2
    <3> QED BY <1>1, <1>9, <2>2, <3>1, <3>2, <3>3, <3>4 DEF PoTogether
  <2> QED BY <2>1, <2>2
<1>15. ({poModule, poHistory} \subseteq PoCall \cup {PoNone})'
  BY <1>1 DEF PoInv
<1> QED BY <1>5, <1>10, <1>11, <1>13, <1>14, <1>15 DEF PoInv

LEMMA PoPublishStep == ASSUME PoInv, NEW c \in PoCall, PoPublish(c) PROVE PoInv'
<1> PICK r : r = poCall[c]
  OBVIOUS
<1> PICK new : new = [r EXCEPT !.phase = "published"]
  OBVIOUS
<1>1. /\ r.phase = "trials" /\ poHistory' = poHistory /\ PoCompilationOK(r)
      /\ poModule' = IF r.kind = "search" THEN c ELSE poModule
      /\ poCall' = [poCall EXCEPT ![c] = new]
      /\ poCall = [d \in PoCall |-> poCall[d]]
  BY DEF PoPublish, PoInv, PoCallOK, PoCompiling
<1>2. new = [phase |-> "published", kind |-> r.kind, budget |-> r.budget, known |-> r.known,
             right |-> r.right, count |-> r.count, pool |-> r.pool, best |-> r.best,
             history |-> r.history, met |-> r.met]
  BY <1>1 DEF PoCompilationOK
<1>3. /\ poCall' = [d \in PoCall |-> poCall'[d]] /\ poCall'[c] = new
      /\ \A d \in PoCall \ {c} : poCall'[d] = poCall[d]
  BY <1>1
<1>4. PoCallOK(new)
  <2>1. \A x : PoEntryOK(new, x) <=> PoEntryOK(r, x)
    BY <1>2 DEF PoEntryOK, PoTruth
  <2>2. PoCompilationOK(new)
    BY <1>1, <1>2, <2>1 DEF PoCompilationOK
  <2> QED BY <1>2, <2>2 DEF PoCallOK, PoCompiling
<1>5. (\A d \in PoCall : PoCallOK(poCall[d]))'
  BY <1>3, <1>4 DEF PoInv
<1>6. /\ \A d \in PoCall : PoActive(d)' = PoActive(d) /\ poCall'[d].met = poCall[d].met
      /\ \A d \in PoCall \ {c} : PoPublishes(d)' = PoPublishes(d)
      /\ PoActive(c) /\ ~PoPublishes(c) /\ (PoPublishes(c)' <=> r.kind = "search")
      /\ \A d \in PoCall : poCall'[d].phase = "done" <=> poCall[d].phase = "done" /\ d # c
  BY <1>1, <1>2, <1>3, ZenonT(30) DEF PoActive, PoPublishes
<1>7. PoMet'
  BY <1>6 DEF PoInv, PoMet
<1>8. poModule # c /\ poHistory # c
  BY <1>1 DEF PoInv, PoOrigin, PoPublishes
<1>9. PoOrigin'
  BY <1>1, <1>6, <1>8 DEF PoInv, PoOrigin
<1>10. ASSUME NEW d \in PoCall PROVE PoTogether(d)'
  <2>1. CASE d = c
    BY <1>1, <1>6, <2>1 DEF PoTogether
  <2>2. CASE d # c
    <3>1. PoTogether(d)
      BY DEF PoInv
    <3>2. PoPublishes(d) => poCall[d].met # {}
      <4>1. PoPublishes(d) => PoActive(d)
        BY DEF PoPublishes, PoActive
      <4> QED BY <1>6, <2>2, <4>1 DEF PoInv, PoMet
    <3>3. CASE r.kind = "search"
      BY <1>1, <1>6, <2>2, <3>1, <3>2, <3>3 DEF PoTogether
    <3>4. CASE r.kind # "search"
      BY <1>1, <1>6, <2>2, <3>1, <3>2, <3>4 DEF PoTogether
    <3> QED BY <3>3, <3>4
  <2> QED BY <2>1, <2>2
<1>11. ({poModule, poHistory} \subseteq PoCall \cup {PoNone})'
  BY <1>1 DEF PoInv
<1> QED BY <1>3, <1>5, <1>7, <1>9, <1>10, <1>11 DEF PoInv

LEMMA PoReturnStep == ASSUME PoInv, NEW c \in PoCall, PoReturn(c) PROVE PoInv'
<1> PICK r : r = poCall[c]
  OBVIOUS
<1> PICK new : new = [phase |-> "done", met |-> r.met]
  OBVIOUS
<1>1. /\ r.phase = "published" /\ poModule' = poModule
      /\ poHistory' = IF r.kind = "search" THEN c ELSE poHistory
      /\ poCall' = [poCall EXCEPT ![c] = new]
      /\ poCall = [d \in PoCall |-> poCall[d]]
  BY DEF PoReturn, PoInv
<1>2. /\ poCall' = [d \in PoCall |-> poCall'[d]] /\ poCall'[c] = new
      /\ \A d \in PoCall \ {c} : poCall'[d] = poCall[d]
  BY <1>1
<1>3. (\A d \in PoCall : PoCallOK(poCall[d]))'
  <2>1. PoCallOK(new)
    BY DEF PoCallOK, PoCompiling
  <2> QED BY <1>2, <2>1 DEF PoInv
<1>4. /\ \A d \in PoCall \ {c} : PoActive(d)' = PoActive(d) /\ PoPublishes(d)' = PoPublishes(d)
      /\ \A d \in PoCall : poCall'[d].met = poCall[d].met
      /\ ~PoActive(c)' /\ PoActive(c) /\ ~PoPublishes(c)' /\ (PoPublishes(c) <=> r.kind = "search")
      /\ \A d \in PoCall : poCall'[d].phase = "done" <=> poCall[d].phase = "done" \/ d = c
  BY <1>1, <1>2 DEF PoActive, PoPublishes
<1>5. PoMet'
  BY <1>4 DEF PoInv, PoMet
<1>6. PoOrigin'
  BY <1>1, <1>4 DEF PoInv, PoOrigin
<1>7. ASSUME NEW d \in PoCall PROVE PoTogether(d)'
  <2>1. CASE d = c
    <3>1. poCall[c].met = {} => \A e \in PoCall \ {c} : ~PoPublishes(e)
      <4>1. \A e \in PoCall \ {c} : PoPublishes(e) => e \in poCall[c].met
        BY <1>4 DEF PoInv, PoMet, PoPublishes, PoActive
      <4> QED BY <4>1
    <3>2. poCall[c].met = {} /\ r.kind = "search" => poModule = c
      BY <1>4 DEF PoInv, PoTogether
    <3>3. r.kind # "search" => poModule # c /\ poHistory # c
      BY <1>1, <1>4 DEF PoInv, PoOrigin
    <3> QED BY <1>1, <1>4, <2>1, <3>1, <3>2, <3>3 DEF PoTogether
  <2>2. CASE d # c
    <3>1. PoTogether(d)
      BY DEF PoInv
    <3>2. CASE r.kind = "search"
      BY <1>1, <1>4, <2>2, <3>1, <3>2 DEF PoTogether
    <3>3. CASE r.kind # "search"
      BY <1>1, <1>4, <2>2, <3>1, <3>3 DEF PoTogether
    <3> QED BY <3>2, <3>3
  <2> QED BY <2>1, <2>2
<1>8. ({poModule, poHistory} \subseteq PoCall \cup {PoNone})'
  BY <1>1 DEF PoInv
<1> QED BY <1>2, <1>3, <1>5, <1>6, <1>7, <1>8 DEF PoInv

LEMMA PoInvInit == PoInit => PoInv
<1> SUFFICES ASSUME PoInit PROVE PoInv
  OBVIOUS
<1>1. /\ poCall = [c \in PoCall |-> [phase |-> "new"]] /\ poModule = PoNone /\ poHistory = PoNone
      /\ PoNone \notin PoCall
  BY PoAssumption DEF PoInit
<1>2. \A c \in PoCall : poCall[c].phase = "new" /\ ~PoActive(c) /\ ~PoPublishes(c)
  BY <1>1 DEF PoActive, PoPublishes
<1>3. \A c \in PoCall : PoCallOK(poCall[c])
  BY <1>2 DEF PoCallOK, PoCompiling
<1>4. PoMet /\ PoOrigin /\ \A c \in PoCall : PoTogether(c)
  BY <1>1, <1>2 DEF PoMet, PoOrigin, PoTogether
<1> QED BY <1>1, <1>3, <1>4 DEF PoInv

LEMMA PoInvNext == PoInv /\ [PoNext]_poVars => PoInv'
<1> SUFFICES ASSUME PoInv, [PoNext]_poVars PROVE PoInv'
  OBVIOUS
<1>1. ASSUME NEW c \in PoCall, PoBegin(c) \/ PoProceed(c) PROVE PoInv'
  BY <1>1, PoBeginStep, PoBootstrapStep, PoTryStep, PoPublishStep, PoReturnStep DEF PoProceed
<1>2. CASE UNCHANGED poVars
  BY <1>2 DEF poVars, PoInv, PoMet, PoOrigin, PoTogether, PoActive, PoPublishes
<1> QED BY <1>1, <1>2 DEF PoNext

LEMMA PoInvFaithful == PoInv => PoTypeOK /\ PoFaithful
<1> SUFFICES ASSUME PoInv PROVE PoTypeOK /\ PoFaithful
  OBVIOUS
<1>1. PoTypeOK
  BY DEF PoTypeOK, PoInv, PoCallOK, PoCompiling
<1>2. ASSUME NEW c \in PoCall, poCall[c].phase = "published"
      PROVE  LET r == poCall[c]
                 h == r.history
                 truth(i) == Cardinality(r.right[h[i].config] \cap ToSet(PoVal))
             IN  /\ \A i \in DOMAIN h :
                       /\ r.kind = "search" => h[i].config \subseteq r.pool /\ r.pool \subseteq r.known
                       /\ h[i].correct <= truth(i)
                       /\ ~h[i].exceeded => h[i].correct = truth(i)
                 /\ h # <<>> /\ (\A i \in DOMAIN h : ~h[i].exceeded) =>
                       \E i \in DOMAIN h : /\ h[i] = r.best[1]
                                           /\ \A j \in DOMAIN h : truth(j) <= truth(i)
                                           /\ \A j \in 1..i - 1 : truth(j) < truth(i)
  <2> PICK r, h : r = poCall[c] /\ h = r.history
    OBVIOUS
  <2>1. PoCompilationOK(r)
    BY <1>2 DEF PoInv, PoCallOK, PoCompiling
  <2>2. DOMAIN h = 1..Len(h) /\ \A i \in 1..Len(h) : PoEntryOK(r, h[i])
    BY <2>1 DEF PoCompilationOK
  <2>3. ASSUME NEW i \in DOMAIN h
        PROVE  /\ r.kind = "search" => h[i].config \subseteq r.pool /\ r.pool \subseteq r.known
               /\ h[i].correct <= PoTruth(r, h[i].config)
               /\ ~h[i].exceeded => h[i].correct = PoTruth(r, h[i].config)
    BY <2>1, <2>2 DEF PoEntryOK, PoCompilationOK
  <2>4. ASSUME h # <<>>, \A i \in DOMAIN h : ~h[i].exceeded
        PROVE  \E i \in DOMAIN h :
                  /\ h[i] = r.best[1]
                  /\ \A j \in DOMAIN h : PoTruth(r, h[j].config) <= PoTruth(r, h[i].config)
                  /\ \A j \in 1..i - 1 : PoTruth(r, h[j].config) < PoTruth(r, h[i].config)
    <3>1. PICK i \in 1..Len(h) : /\ r.best = <<h[i]>>
                                 /\ \A k \in 1..Len(h) : h[k].correct <= h[i].correct
                                 /\ \A k \in 1..(i - 1) : h[k].correct < h[i].correct
      BY <2>1, <2>4 DEF PoCompilationOK, PoBestOf
    <3>2. \A k \in DOMAIN h : h[k].correct = PoTruth(r, h[k].config)
      BY <2>3, <2>4
    <3>3. h[i] = r.best[1] /\ \A k \in 1..(i - 1) : k \in DOMAIN h
      BY <2>2, <3>1
    <3> QED BY <2>2, <3>1, <3>2, <3>3, SMTT(30)
  <2> QED BY <2>3, <2>4 DEF PoTruth
<1>3. PoBestKept
  BY <1>2 DEF PoBestKept
<1>4. PoPublishedTogether
  <2>1. \A d \in PoCall : PoPublishes(d) => PoActive(d)
    BY DEF PoPublishes, PoActive
  <2> QED BY <2>1 DEF PoInv, PoTogether, PoPublishedTogether
<1> QED BY <1>1, <1>3, <1>4 DEF PoFaithful

\* For any number of compilations, examples, trials and calls of the budget: the
\* best configuration is kept, and a compilation alone leaves its module with its
\* history.
THEOREM PromptsFaithful == PoSpec => [](PoTypeOK /\ PoFaithful)
<1>1. PoInit => PoInv
  BY PoInvInit
<1>2. PoInv /\ [PoNext]_poVars => PoInv'
  BY PoInvNext
<1>3. PoInv => PoTypeOK /\ PoFaithful
  BY PoInvFaithful
<1> QED BY <1>1, <1>2, <1>3, PTL DEF PoSpec

-----------------------------------------------------------------------------
(* The fine-tuner.                                                         *)

FtStatuses == {"queued", "running", "complete", "error"}
FtOver == {"complete", "error"}
FtEntries == [status : FtStatuses, progress : Nat, total : Nat,
              loss : {"none", "some"}, error : {"none", "raised"}]

\* A thread has trained on the images of its steps so far.
FtThreadOK(r) ==
    /\ r \in [phase : {"queued", "training", "saving", "saved", "ended"}, server : BOOLEAN,
              steps : Nat \ {0}, images : Nat, reg : Nat, lora : Seq(Nat \X Nat)]
    /\ Len(r.lora) <= r.steps
    /\ \A s \in 1..Len(r.lora) : r.lora[s] = <<FtImage(r, s - 1), FtClassImage(r, s - 1)>>
    /\ r.phase \in {"saving", "saved"} => r.server /\ Len(r.lora) = r.steps
    /\ r.server => r.reg = 0

\* The entry of a job follows its thread, and is the last to know.
FtEntryOK(e, r) ==
    /\ e \in FtEntries
    /\ r.server /\ e.total = r.steps /\ e.progress = Len(r.lora)
    /\ e.loss = "none" => e.progress = 0
    /\ e.status = "queued" <=> r.phase = "queued"
    /\ e.status \in FtOver <=> r.phase = "ended"
    /\ e.status = "error" <=> e.error = "raised"
    /\ e.status = "complete" => e.progress = e.total

FtJobOK(j) ==
    /\ ftThread[j].phase = "none" => j \notin DOMAIN ftStore
    /\ ftThread[j].phase # "none" => /\ FtThreadOK(ftThread[j])
                                     /\ ftThread[j].server => j \in DOMAIN ftStore
    /\ j \in DOMAIN ftStore =>
          /\ FtEntryOK(ftStore[j], ftThread[j])
          /\ ftThread[j].phase = "saved" \/ ftStore[j].status = "complete" =>
                ftFile[j].lora = ftThread[j].lora

\* What may be read of an entry, of one that has gone on since, and of one that
\* was read before.
FtSeen(a, e) ==
    /\ "status" \in DOMAIN a => /\ a.status \in FtStatuses
                                /\ a.status = "running" => e.status # "queued"
                                /\ a.status \in FtOver => \A f \in DOMAIN a : a[f] = e[f]
    /\ "progress" \in DOMAIN a => a.progress \in Nat /\ a.progress <= e.progress
    /\ "total" \in DOMAIN a => a.total = e.total

FtLater(e, w) ==
    /\ w.total = e.total /\ e.progress <= w.progress
    /\ e.status = "running" => w.status # "queued"
    /\ e.status \in FtOver => w = e

FtSince(b, a) ==
    /\ "status" \in DOMAIN a => /\ b.status \in FtOver => a.status = b.status
                                /\ b.status = "running" => a.status # "queued"
    /\ "progress" \in DOMAIN a => b.progress <= a.progress

FtNames == {"status", "progress", "total", "loss", "error"}

\* The fields before the one that is read next, and what reading it gives.
FtUpTo(a, at) == DOMAIN a = {FtFields[i] : i \in 1..(at - 1)}

FtExtends(b, a, e, f) == b = [g \in DOMAIN a \cup {f} |-> IF g = f THEN e[f] ELSE a[g]]

FtGained(b, a, e, f) == f \in DOMAIN b => b[f] = e[f] \/ (f \in DOMAIN a /\ b[f] = a[f])

FtReading(p) ==
    /\ p = [phase |-> p.phase, job |-> p.job, at |-> p.at, answer |-> p.answer]
    /\ p.phase \in {"reading", "answered"} /\ p.at \in 1..6
    /\ p.phase = "answered" <=> p.at = 6
    /\ p.job \in DOMAIN ftStore
    /\ FtUpTo(p.answer, p.at)
    /\ FtSeen(p.answer, ftStore[p.job])
    /\ p.job \in DOMAIN ftLast => FtSince(ftLast[p.job], p.answer)

FtAnswersOK ==
    /\ ftPoll = FtIdle \/ FtReading(ftPoll)
    /\ DOMAIN ftLast \subseteq DOMAIN ftStore
    /\ \A k \in DOMAIN ftLast : DOMAIN ftLast[k] = FtNames /\ FtSeen(ftLast[k], ftStore[k])

FtInv ==
    /\ ftThread = [j \in FtJob |-> ftThread[j]]
    /\ ftFile = [j \in FtJob |-> ftFile[j]]
    /\ \A j \in FtJob : ftFile[j] = [written |-> ftFile[j].written, lora |-> ftFile[j].lora]
    /\ ftStore = [j \in DOMAIN ftStore |-> ftStore[j]] /\ DOMAIN ftStore \subseteq FtJob
    /\ \A j \in FtJob : FtJobOK(j)
    /\ FtAnswersOK

\* What is true of an answer stays true as the entry goes on.
LEMMA FtSeenLater ==
    ASSUME NEW a, NEW e \in FtEntries, NEW w \in FtEntries, FtSeen(a, e), FtLater(e, w)
    PROVE  FtSeen(a, w)
<1>1. ASSUME "status" \in DOMAIN a
      PROVE  /\ a.status \in FtStatuses
             /\ a.status = "running" => w.status # "queued"
             /\ a.status \in FtOver => \A f \in DOMAIN a : a[f] = w[f]
  <2>1. /\ a.status \in FtStatuses
        /\ a.status = "running" => e.status # "queued"
        /\ a.status \in FtOver => \A f \in DOMAIN a : a[f] = e[f]
    BY <1>1 DEF FtSeen
  <2>2. a.status \in FtOver => e.status \in FtOver
    BY <1>1, <2>1
  <2>3. e.status \in FtOver => w = e
    BY DEF FtLater
  <2>4. a.status = "running" => w.status # "queued"
    BY <2>1, <2>3 DEF FtLater, FtEntries, FtStatuses, FtOver
  <2>5. a.status \in FtOver => \A f \in DOMAIN a : a[f] = w[f]
    BY <2>1, <2>2, <2>3
  <2> QED BY <2>1, <2>4, <2>5
<1>2. "progress" \in DOMAIN a => a.progress \in Nat /\ a.progress <= w.progress
  BY DEF FtSeen, FtLater, FtEntries
<1>3. "total" \in DOMAIN a => a.total = w.total
  BY DEF FtSeen, FtLater
<1> QED BY <1>1, <1>2, <1>3 DEF FtSeen

\* The five fields, in their order.
LEMMA FtFieldNames ==
    /\ Len(FtFields) = 5 /\ FtFields[1] = "status" /\ FtFields[2] = "progress"
    /\ FtFields[3] = "total" /\ FtFields[4] = "loss" /\ FtFields[5] = "error"
BY DEF FtFields

\* One more field of the entry as it is now.
LEMMA FtSeenMore ==
    ASSUME NEW at \in 1..5, NEW a, FtUpTo(a, at), NEW e \in FtEntries, FtSeen(a, e),
           NEW b, FtExtends(b, a, e, FtFields[at])
    PROVE  /\ FtSeen(b, e) /\ FtUpTo(b, at + 1)
           /\ FtGained(b, a, e, "status") /\ FtGained(b, a, e, "progress")
<1> PICK f : f = FtFields[at]
  OBVIOUS
<1>2. DOMAIN b = DOMAIN a \cup {f} /\ b[f] = e[f] /\ \A g \in DOMAIN a \ {f} : b[g] = a[g]
  BY DEF FtExtends
<1>1. FtUpTo(b, at + 1)
  BY <1>2 DEF FtUpTo
<1>3. ASSUME NEW g \in DOMAIN a PROVE g # f /\ b[g] = a[g]
  <2>1. PICK i \in 1..(at - 1) : g = FtFields[i]
    BY DEF FtUpTo
  <2>2. \A m, n \in 1..5 : FtFields[m] = FtFields[n] => m = n
    BY FtFieldNames
  <2>3. i \in 1..5 /\ i # at
    OBVIOUS
  <2> QED BY <2>1, <2>2, <2>3, <1>2
<1>4. \A g \in DOMAIN b : b[g] = e[g] \/ (g \in DOMAIN a /\ b[g] = a[g])
  BY <1>2, <1>3
<1>5. f # "status" => "status" \in DOMAIN a
  <2>1. CASE at = 1
    BY <2>1, FtFieldNames
  <2>2. CASE at # 1
    BY <2>2, FtFieldNames DEF FtUpTo
  <2> QED BY <2>1, <2>2
<1>6. ASSUME "status" \in DOMAIN b
      PROVE  /\ b.status \in FtStatuses
             /\ b.status = "running" => e.status # "queued"
             /\ b.status \in FtOver => \A g \in DOMAIN b : b[g] = e[g]
  <2>1. CASE f = "status"
    <3>1. b.status = e.status
      BY <1>2, <2>1
    <3>2. at = 1
      <4>1. at = 1 \/ at = 2 \/ at = 3 \/ at = 4 \/ at = 5
        OBVIOUS
      <4> QED BY <2>1, <4>1, FtFieldNames
    <3>3. DOMAIN a = {}
      BY <3>2 DEF FtUpTo
    <3>4. DOMAIN b = {"status"}
      BY <1>2, <2>1, <3>3
    <3> QED BY <3>1, <3>4 DEF FtEntries, FtStatuses
  <2>2. CASE f # "status"
    <3>1. "status" \in DOMAIN a /\ b.status = a.status
      BY <1>3, <1>5, <2>2
    <3>2. /\ a.status \in FtStatuses
          /\ a.status = "running" => e.status # "queued"
          /\ a.status \in FtOver => \A g \in DOMAIN a : a[g] = e[g]
      BY <3>1 DEF FtSeen
    <3> QED BY <1>2, <1>4, <3>1, <3>2
  <2> QED BY <2>1, <2>2
<1>7. ASSUME "progress" \in DOMAIN b PROVE b.progress \in Nat /\ b.progress <= e.progress
  <2>1. e.progress \in Nat
    BY DEF FtEntries
  <2>2. "progress" \in DOMAIN a => a.progress \in Nat /\ a.progress <= e.progress
    BY DEF FtSeen
  <2> QED BY <1>4, <1>7, <2>1, <2>2
<1>8. "total" \in DOMAIN b => b.total = e.total
  BY <1>4 DEF FtSeen
<1>9. FtSeen(b, e)
  BY <1>6, <1>7, <1>8 DEF FtSeen
<1>10. FtGained(b, a, e, "status") /\ FtGained(b, a, e, "progress")
  BY <1>4 DEF FtGained
<1> QED BY <1>1, <1>9, <1>10

\* A whole answer makes sense, and so it does after an earlier one.
LEMMA FtSeenWhole ==
    ASSUME NEW a, NEW e, NEW r, FtEntryOK(e, r), FtThreadOK(r), FtSeen(a, e), DOMAIN a = FtNames
    PROVE  /\ a.progress <= a.total
           /\ a.status = "complete" => a.progress = a.total /\ a.loss # FtNone /\ a.error = FtNone
           /\ a.status = "error" => a.error # FtNone
<1>1. /\ e.progress \in Nat /\ e.total \in Nat \ {0} /\ e.progress <= e.total
      /\ e.loss \in {"none", "some"} /\ e.error \in {"none", "raised"}
  BY DEF FtEntryOK, FtThreadOK, FtEntries
<1>2. a.progress \in Nat /\ a.progress <= e.progress /\ a.total = e.total
  BY DEF FtSeen, FtNames
<1>3. a.status \in FtOver => \A f \in FtNames : a[f] = e[f]
  BY DEF FtSeen, FtNames
<1>4. a.progress <= a.total
  BY <1>1, <1>2
<1>5. ASSUME a.status = "complete"
      PROVE  a.progress = a.total /\ a.loss # FtNone /\ a.error = FtNone
  <2>1. e.status = "complete" /\ a.loss = e.loss /\ a.error = e.error /\ a.progress = e.progress
    BY <1>3, <1>5 DEF FtOver, FtNames
  <2>2. e.progress = e.total /\ e.error # "raised" /\ (e.loss = "none" => e.progress = 0)
    BY <2>1 DEF FtEntryOK
  <2> QED BY <1>1, <1>2, <2>1, <2>2 DEF FtNone
<1>6. ASSUME a.status = "error" PROVE a.error # FtNone
  <2>1. e.status = "error" /\ a.error = e.error
    BY <1>3, <1>6 DEF FtOver, FtNames
  <2> QED BY <2>1 DEF FtEntryOK, FtNone
<1> QED BY <1>4, <1>5, <1>6

\* Answers keep while entries go on.
LEMMA FtAnswersKept ==
    ASSUME FtInv, UNCHANGED <<ftPoll, ftLast>>, DOMAIN ftStore \subseteq DOMAIN ftStore',
           \A k \in DOMAIN ftStore : /\ ftStore[k] \in FtEntries /\ ftStore'[k] \in FtEntries
                                     /\ FtLater(ftStore[k], ftStore'[k])
    PROVE  FtAnswersOK'
<1>1. FtAnswersOK
  BY DEF FtInv
<1>2. \A k \in DOMAIN ftStore : \A a : FtSeen(a, ftStore[k]) => FtSeen(a, ftStore'[k])
  BY FtSeenLater
<1>3. ftPoll' = FtIdle \/ FtReading(ftPoll)'
  <2>1. CASE ftPoll = FtIdle
    BY <2>1
  <2>2. CASE FtReading(ftPoll)
    <3>1. ftPoll.job \in DOMAIN ftStore /\ FtSeen(ftPoll.answer, ftStore[ftPoll.job])
      BY <2>2 DEF FtReading
    <3>2. FtSeen(ftPoll.answer, ftStore'[ftPoll.job])
      BY <1>2, <3>1
    <3>3. FtReading(ftPoll)'
      BY <2>2, <3>1, <3>2 DEF FtReading
    <3> QED BY <3>3
  <2> QED BY <1>1, <2>1, <2>2 DEF FtAnswersOK
<1>4. ASSUME NEW k \in DOMAIN ftLast
      PROVE  DOMAIN ftLast[k] = FtNames /\ FtSeen(ftLast[k], ftStore'[k])
  BY <1>1, <1>2 DEF FtAnswersOK
<1>5. DOMAIN ftLast \subseteq DOMAIN ftStore'
  BY <1>1 DEF FtAnswersOK
<1> QED BY <1>3, <1>4, <1>5 DEF FtAnswersOK

\* A step of one job's thread.
LEMMA FtGoesOn ==
    ASSUME FtInv, NEW j \in FtJob, NEW w, NEW x, NEW file,
           ftThread' = [ftThread EXCEPT ![j] = w], FtThreadOK(w),
           ftThread[j].phase # "none", w.server = ftThread[j].server,
           ftStore' = IF j \in DOMAIN ftStore THEN [ftStore EXCEPT ![j] = x] ELSE ftStore,
           j \in DOMAIN ftStore => FtEntryOK(x, w),
           j \in DOMAIN ftStore => FtLater(ftStore[j], x),
           ftFile' = [ftFile EXCEPT ![j] = file],
           file = [written |-> file.written, lora |-> file.lora],
           j \in DOMAIN ftStore => (w.phase = "saved" \/ x.status = "complete" => file.lora = w.lora),
           UNCHANGED <<ftPoll, ftLast>>
    PROVE  FtInv'
<1>1. /\ ftThread' = [k \in FtJob |-> ftThread'[k]] /\ ftThread'[j] = w
      /\ \A k \in FtJob \ {j} : ftThread'[k] = ftThread[k]
  BY DEF FtInv
<1>2. /\ ftFile' = [k \in FtJob |-> ftFile'[k]] /\ ftFile'[j] = file
      /\ \A k \in FtJob \ {j} : ftFile'[k] = ftFile[k]
  BY DEF FtInv
<1>3. /\ DOMAIN ftStore' = DOMAIN ftStore /\ DOMAIN ftStore \subseteq FtJob
      /\ ftStore' = [k \in DOMAIN ftStore' |-> ftStore'[k]]
      /\ j \in DOMAIN ftStore => ftStore'[j] = x
      /\ \A k \in DOMAIN ftStore \ {j} : ftStore'[k] = ftStore[k]
  BY DEF FtInv
<1>4. \A k \in FtJob : FtJobOK(k)
  BY DEF FtInv
<1>5. ASSUME NEW k \in FtJob PROVE FtJobOK(k)'
  <2>1. CASE k = j
    <3>1. w.phase # "none"
      BY DEF FtThreadOK
    <3>2. w.server => j \in DOMAIN ftStore
      BY <1>4 DEF FtJobOK
    <3>3. j \in DOMAIN ftStore =>
             /\ FtEntryOK(x, w)
             /\ w.phase = "saved" \/ x.status = "complete" => file.lora = w.lora
      OBVIOUS
    <3> QED BY <1>1, <1>2, <1>3, <2>1, <3>1, <3>2, <3>3 DEF FtJobOK
  <2>2. CASE k # j
    <3>1. /\ ftThread'[k] = ftThread[k] /\ ftFile'[k] = ftFile[k]
          /\ k \in DOMAIN ftStore => ftStore'[k] = ftStore[k]
      BY <1>1, <1>2, <1>3, <2>2
    <3>2. FtJobOK(k)
      BY <1>4
    <3> QED BY <1>3, <3>1, <3>2 DEF FtJobOK
  <2> QED BY <2>1, <2>2
<1>6. ASSUME NEW k \in DOMAIN ftStore
      PROVE  /\ ftStore[k] \in FtEntries /\ ftStore'[k] \in FtEntries
             /\ FtLater(ftStore[k], ftStore'[k])
  <2>1. ftStore[k] \in FtEntries
    BY <1>3, <1>4 DEF FtJobOK, FtEntryOK
  <2>2. CASE k = j
    BY <1>3, <2>1, <2>2 DEF FtEntryOK
  <2>3. CASE k # j
    <3>1. FtLater(ftStore[k], ftStore[k])
      BY <2>1 DEF FtLater, FtEntries
    <3> QED BY <1>3, <2>1, <2>3, <3>1
  <2> QED BY <2>2, <2>3
<1>7. FtAnswersOK'
  BY <1>3, <1>6, FtAnswersKept
<1>8. \A k \in FtJob : ftFile'[k] = [written |-> ftFile'[k].written, lora |-> ftFile'[k].lora]
  BY <1>2 DEF FtInv
<1> QED BY <1>1, <1>2, <1>3, <1>5, <1>7, <1>8 DEF FtInv

\* A job begins, with an entry or without.
LEMMA FtStartStep == ASSUME FtInv, NEW j \in FtJob, FtStart(j) PROVE FtInv'
<1>1. PICK server \in BOOLEAN, steps \in FtSteps, n \in FtImages :
         \E reg \in IF server THEN {0} ELSE FtImages :
            /\ ftThread' = [ftThread EXCEPT ![j] =
                   [phase |-> IF server THEN "queued" ELSE "training", server |-> server,
                    steps |-> steps, images |-> n, reg |-> reg, lora |-> <<>>]]
            /\ ftStore' = IF server
                          THEN [k \in DOMAIN ftStore \cup {j} |->
                                   IF k = j THEN [status |-> "queued", progress |-> 0,
                                                  total |-> steps, loss |-> FtNone, error |-> FtNone]
                                   ELSE ftStore[k]]
                          ELSE ftStore
  BY DEF FtStart
<1>2. PICK reg \in IF server THEN {0} ELSE FtImages :
            /\ ftThread' = [ftThread EXCEPT ![j] =
                   [phase |-> IF server THEN "queued" ELSE "training", server |-> server,
                    steps |-> steps, images |-> n, reg |-> reg, lora |-> <<>>]]
            /\ ftStore' = IF server
                          THEN [k \in DOMAIN ftStore \cup {j} |->
                                   IF k = j THEN [status |-> "queued", progress |-> 0,
                                                  total |-> steps, loss |-> FtNone, error |-> FtNone]
                                   ELSE ftStore[k]]
                          ELSE ftStore
  BY <1>1
<1>3. PICK w : w = [phase |-> IF server THEN "queued" ELSE "training", server |-> server,
                    steps |-> steps, images |-> n, reg |-> reg, lora |-> <<>>]
  OBVIOUS
<1>4. PICK x : x = [status |-> "queued", progress |-> 0, total |-> steps,
                    loss |-> FtNone, error |-> FtNone]
  OBVIOUS
<1>5. /\ ftThread[j].phase = "none" /\ UNCHANGED <<ftFile, ftPoll, ftLast>>
      /\ j \notin DOMAIN ftStore /\ \A k \in FtJob : FtJobOK(k)
  BY DEF FtStart, FtInv, FtJobOK
<1>6. /\ ftThread' = [k \in FtJob |-> ftThread'[k]] /\ ftThread'[j] = w
      /\ \A k \in FtJob \ {j} : ftThread'[k] = ftThread[k]
  BY <1>2, <1>3 DEF FtInv
<1>7. /\ ftStore' = [k \in DOMAIN ftStore' |-> ftStore'[k]] /\ DOMAIN ftStore \subseteq DOMAIN ftStore'
      /\ DOMAIN ftStore' \subseteq DOMAIN ftStore \cup {j} /\ DOMAIN ftStore \subseteq FtJob
      /\ \A k \in DOMAIN ftStore : ftStore'[k] = ftStore[k] /\ k # j
      /\ j \in DOMAIN ftStore' => server /\ ftStore'[j] = x
      /\ server => j \in DOMAIN ftStore'
  <2>1. CASE server
    BY <1>2, <1>4, <1>5, <2>1 DEF FtInv
  <2>2. CASE ~server
    BY <1>2, <1>5, <2>2 DEF FtInv
  <2> QED BY <2>1, <2>2
<1>8. /\ w.phase \in {"queued", "training"} /\ w.server = server /\ w.steps = steps
      /\ w.reg = reg /\ w.lora = <<>> /\ Len(w.lora) = 0
      /\ server => w.phase = "queued"
      /\ w \in [phase : {"queued", "training", "saving", "saved", "ended"}, server : BOOLEAN,
                steps : Nat \ {0}, images : Nat, reg : Nat, lora : Seq(Nat \X Nat)]
  <2>1. /\ steps \in Nat \ {0} /\ n \in Nat /\ reg \in Nat /\ <<>> \in Seq(Nat \X Nat)
        /\ Len(<<>>) = 0
    BY <1>1, <1>2, FtAssumption
  <2> QED BY <1>3, <2>1
<1>9. FtThreadOK(w)
  <2>1. server => reg = 0
    BY <1>2
  <2>2. Len(w.lora) <= w.steps
    BY <1>8
  <2> QED BY <1>8, <2>1, <2>2 DEF FtThreadOK
<1>10. /\ x \in FtEntries /\ x.status = "queued" /\ x.total = steps /\ x.progress = 0
       /\ x.error = "none"
  <2>1. steps \in Nat
    BY <1>1, FtAssumption
  <2> QED BY <1>4, <2>1 DEF FtEntries, FtStatuses, FtNone
<1>11. server => FtEntryOK(x, w)
  BY <1>8, <1>10 DEF FtEntryOK, FtOver
<1>12. ASSUME NEW k \in FtJob PROVE FtJobOK(k)'
  <2>1. CASE k = j
    BY <1>6, <1>7, <1>8, <1>9, <1>10, <1>11, <2>1 DEF FtJobOK
  <2>2. CASE k # j
    <3>1. /\ ftThread'[k] = ftThread[k] /\ ftFile'[k] = ftFile[k]
          /\ k \in DOMAIN ftStore' <=> k \in DOMAIN ftStore
          /\ k \in DOMAIN ftStore => ftStore'[k] = ftStore[k]
      BY <1>5, <1>6, <1>7, <2>2
    <3>2. FtJobOK(k)
      BY <1>5
    <3> QED BY <3>1, <3>2 DEF FtJobOK
  <2> QED BY <2>1, <2>2
<1>13. ASSUME NEW k \in DOMAIN ftStore
       PROVE  /\ ftStore[k] \in FtEntries /\ ftStore'[k] \in FtEntries
              /\ FtLater(ftStore[k], ftStore'[k])
  <2>1. ftStore[k] \in FtEntries
    BY <1>5, <1>7 DEF FtJobOK, FtEntryOK
  <2>2. FtLater(ftStore[k], ftStore[k])
    BY <2>1 DEF FtLater, FtEntries
  <2> QED BY <1>7, <2>1, <2>2
<1>14. FtAnswersOK'
  BY <1>5, <1>7, <1>13, FtAnswersKept
<1> QED BY <1>5, <1>6, <1>7, <1>12, <1>14 DEF FtInv

\* What the invariant says of a job whose thread has begun, and how its step is shaped.
LEMMA FtBegun ==
    ASSUME FtInv, NEW j \in FtJob, ftThread[j].phase # "none"
    PROVE  /\ FtThreadOK(ftThread[j])
           /\ ftThread[j].server => j \in DOMAIN ftStore
           /\ j \in DOMAIN ftStore => FtEntryOK(ftStore[j], ftThread[j])
           /\ j \in DOMAIN ftStore =>
                 (ftThread[j].phase = "saved" \/ ftStore[j].status = "complete"
                     => ftFile[j].lora = ftThread[j].lora)
           /\ ftFile[j] = [written |-> ftFile[j].written, lora |-> ftFile[j].lora]
           /\ ftFile = [ftFile EXCEPT ![j] = ftFile[j]]
           /\ ftStore = IF j \in DOMAIN ftStore THEN [ftStore EXCEPT ![j] = ftStore[j]] ELSE ftStore
<1>1. FtJobOK(j)
  BY DEF FtInv
<1>2. /\ ftFile[j] = [written |-> ftFile[j].written, lora |-> ftFile[j].lora]
      /\ ftFile = [ftFile EXCEPT ![j] = ftFile[j]]
  BY DEF FtInv
<1>3. ftStore = IF j \in DOMAIN ftStore THEN [ftStore EXCEPT ![j] = ftStore[j]] ELSE ftStore
  BY DEF FtInv
<1> QED BY <1>1, <1>2, <1>3 DEF FtJobOK

\* An entry that moves on.
LEMMA FtLaterNow ==
    ASSUME NEW e \in FtEntries PROVE FtLater(e, e)
BY DEF FtLater, FtEntries

LEMMA Remainder ==
    ASSUME NEW n \in Nat, NEW b \in Nat \ {0} PROVE n % b \in Nat
OBVIOUS

LEMMA FtBeginStep == ASSUME FtInv, NEW j \in FtJob, FtBegin(j) PROVE FtInv'
<1> PICK r, e : r = ftThread[j] /\ e = ftStore[j]
  OBVIOUS
<1>1. r.phase = "queued" /\ UNCHANGED <<ftFile, ftPoll, ftLast>>
  BY DEF FtBegin
<1>2. PICK w : w = [r EXCEPT !.phase = "training"]
  OBVIOUS
<1>3. PICK x : x = [e EXCEPT !.status = "running"]
  OBVIOUS
<1>4. /\ ftThread' = [ftThread EXCEPT ![j] = w]
      /\ ftStore' = IF j \in DOMAIN ftStore THEN [ftStore EXCEPT ![j] = x] ELSE ftStore
  BY <1>2, <1>3 DEF FtBegin, FtGoOn, FtUpdate
<1>5. /\ FtThreadOK(r)
      /\ j \in DOMAIN ftStore => FtEntryOK(e, r)
      /\ j \in DOMAIN ftStore =>
            (r.phase = "saved" \/ e.status = "complete" => ftFile[j].lora = r.lora)
      /\ ftFile[j] = [written |-> ftFile[j].written, lora |-> ftFile[j].lora]
      /\ ftFile = [ftFile EXCEPT ![j] = ftFile[j]]
  BY <1>1, FtBegun
<1>6. /\ w.phase = "training" /\ w.lora = r.lora /\ w.server = r.server /\ w.steps = r.steps
      /\ w.images = r.images /\ w.reg = r.reg
  BY <1>2, <1>5 DEF FtThreadOK
<1>7. FtThreadOK(w)
  <2>1. w \in [phase : {"queued", "training", "saving", "saved", "ended"}, server : BOOLEAN,
               steps : Nat \ {0}, images : Nat, reg : Nat, lora : Seq(Nat \X Nat)]
    BY <1>2, <1>5 DEF FtThreadOK
  <2> QED BY <1>5, <1>6, <2>1 DEF FtThreadOK, FtImage, FtClassImage
<1>8. ASSUME j \in DOMAIN ftStore
      PROVE  /\ FtEntryOK(x, w) /\ FtLater(e, x) /\ x.status # "complete"
  <2>1. FtEntryOK(e, r)
    BY <1>5, <1>8
  <2>2. /\ x \in FtEntries /\ x.status = "running" /\ x.total = e.total /\ x.progress = e.progress
        /\ x.loss = e.loss /\ x.error = e.error
    BY <1>3, <2>1 DEF FtEntryOK, FtEntries, FtStatuses
  <2>3. e.status = "queued" /\ e.progress \in Nat
    BY <1>1, <2>1 DEF FtEntryOK, FtEntries
  <2>4. FtEntryOK(x, w)
    BY <1>6, <2>1, <2>2, <2>3 DEF FtEntryOK, FtOver
  <2>5. FtLater(e, x)
    BY <2>2, <2>3 DEF FtLater, FtOver
  <2> QED BY <2>2, <2>4, <2>5
<1>9. r.phase # "none" /\ w.phase # "saved"
  BY <1>1, <1>6
<1>10. ftFile' = [ftFile EXCEPT ![j] = ftFile[j]]
  BY <1>1, <1>5
<1> QED BY <1>1, <1>4, <1>5, <1>6, <1>7, <1>8, <1>9, <1>10, FtGoesOn

\* A step that raises leaves its file, or an empty one when it was being saved.
LEMMA FtRaiseStep == ASSUME FtInv, NEW j \in FtJob, FtRaise(j) PROVE FtInv'
<1> PICK r, e : r = ftThread[j] /\ e = ftStore[j]
  OBVIOUS
<1>1. r.phase \in {"training", "saving"} /\ UNCHANGED <<ftPoll, ftLast>>
  BY DEF FtRaise
<1>2. PICK w : w = [r EXCEPT !.phase = "ended"]
  OBVIOUS
<1>3. PICK x : x = [e EXCEPT !.status = "error", !.error = "raised"]
  OBVIOUS
<1>4. /\ ftThread' = [ftThread EXCEPT ![j] = w]
      /\ ftStore' = IF j \in DOMAIN ftStore THEN [ftStore EXCEPT ![j] = x] ELSE ftStore
  BY <1>2, <1>3 DEF FtRaise, FtGoOn, FtUpdate
<1>5. /\ FtThreadOK(r)
      /\ j \in DOMAIN ftStore => FtEntryOK(e, r)
      /\ ftFile[j] = [written |-> ftFile[j].written, lora |-> ftFile[j].lora]
      /\ ftFile = [ftFile EXCEPT ![j] = ftFile[j]]
  BY <1>1, FtBegun
<1>6. /\ w.phase = "ended" /\ w.lora = r.lora /\ w.server = r.server /\ w.steps = r.steps
      /\ w.images = r.images /\ w.reg = r.reg
  BY <1>2, <1>5 DEF FtThreadOK
<1>7. FtThreadOK(w)
  <2>1. w \in [phase : {"queued", "training", "saving", "saved", "ended"}, server : BOOLEAN,
               steps : Nat \ {0}, images : Nat, reg : Nat, lora : Seq(Nat \X Nat)]
    BY <1>2, <1>5 DEF FtThreadOK
  <2> QED BY <1>5, <1>6, <2>1 DEF FtThreadOK, FtImage, FtClassImage
<1>8. ASSUME j \in DOMAIN ftStore
      PROVE  /\ FtEntryOK(x, w) /\ FtLater(e, x) /\ x.status # "complete"
  <2>1. FtEntryOK(e, r)
    BY <1>5, <1>8
  <2>2. /\ x \in FtEntries /\ x.status = "error" /\ x.total = e.total /\ x.progress = e.progress
        /\ x.loss = e.loss /\ x.error = "raised"
    BY <1>3, <2>1 DEF FtEntryOK, FtEntries, FtStatuses
  <2>3. e.status \notin FtOver /\ e.progress \in Nat
    BY <1>1, <2>1 DEF FtEntryOK, FtEntries
  <2>4. FtEntryOK(x, w)
    BY <1>6, <2>1, <2>2, <2>3 DEF FtEntryOK, FtOver
  <2>5. FtLater(e, x)
    BY <2>2, <2>3 DEF FtLater
  <2> QED BY <2>2, <2>4, <2>5
<1>9. r.phase # "none" /\ w.phase # "saved"
  BY <1>1, <1>6
<1>10. PICK file : /\ ftFile' = [ftFile EXCEPT ![j] = file]
                   /\ file = [written |-> file.written, lora |-> file.lora]
  <2>1. CASE UNCHANGED ftFile
    BY <1>5, <2>1
  <2>2. CASE ftFile' = [ftFile EXCEPT ![j] = [written |-> TRUE, lora |-> <<>>]]
    <3>1. PICK file : file = [written |-> TRUE, lora |-> <<>>]
      OBVIOUS
    <3>2. file.written = TRUE /\ file.lora = <<>>
      BY <3>1
    <3>3. file = [written |-> file.written, lora |-> file.lora]
      BY <3>1, <3>2
    <3> QED BY <2>2, <3>1, <3>3
  <2> QED BY <2>1, <2>2 DEF FtRaise
<1> QED BY <1>1, <1>4, <1>5, <1>6, <1>7, <1>8, <1>9, <1>10, FtGoesOn

\* The next image.
LEMMA FtStepStep == ASSUME FtInv, NEW j \in FtJob, FtStep(j) PROVE FtInv'
<1> PICK r, e : r = ftThread[j] /\ e = ftStore[j]
  OBVIOUS
<1> PICK n, lora : n = Len(r.lora) /\ lora = Append(r.lora, <<FtImage(r, n), FtClassImage(r, n)>>)
  OBVIOUS
<1>1. /\ r.phase = "training" /\ n < r.steps /\ r.images > 0
      /\ UNCHANGED <<ftFile, ftPoll, ftLast>>
  BY DEF FtStep
<1>2. PICK w : w = [r EXCEPT !.lora = lora]
  OBVIOUS
<1>3. PICK x : x = [e EXCEPT !.progress = n + 1, !.loss = "some"]
  OBVIOUS
<1>4. /\ ftThread' = [ftThread EXCEPT ![j] = w]
      /\ ftStore' = IF j \in DOMAIN ftStore THEN [ftStore EXCEPT ![j] = x] ELSE ftStore
  BY <1>2, <1>3 DEF FtStep, FtGoOn, FtUpdate
<1>5. /\ FtThreadOK(r)
      /\ j \in DOMAIN ftStore => FtEntryOK(e, r)
      /\ ftFile[j] = [written |-> ftFile[j].written, lora |-> ftFile[j].lora]
      /\ ftFile = [ftFile EXCEPT ![j] = ftFile[j]]
  BY <1>1, FtBegun
<1>6. /\ r.lora \in Seq(Nat \X Nat) /\ n \in Nat /\ r.steps \in Nat /\ r.images \in Nat \ {0}
      /\ r.reg \in Nat
  BY <1>1, <1>5 DEF FtThreadOK
<1>7. /\ lora \in Seq(Nat \X Nat) /\ Len(lora) = n + 1
      /\ \A k \in 1..(n + 1) :
            lora[k] = IF k = n + 1 THEN <<FtImage(r, n), FtClassImage(r, n)>> ELSE r.lora[k]
  <2>1. FtImage(r, n) \in Nat
    <3>1. n % r.images \in Nat
      BY <1>6, Remainder
    <3> QED BY <3>1 DEF FtImage
  <2>2. FtClassImage(r, n) \in Nat
    <3>1. r.reg # 0 => n % r.reg \in Nat
      BY <1>6, Remainder
    <3> QED BY <3>1 DEF FtClassImage
  <2>3. <<FtImage(r, n), FtClassImage(r, n)>> \in Nat \X Nat
    BY <2>1, <2>2
  <2> QED BY <1>6, <2>3, Lengthened
<1>8. /\ w.phase = "training" /\ w.lora = lora /\ w.server = r.server /\ w.steps = r.steps
      /\ w.images = r.images /\ w.reg = r.reg
  BY <1>1, <1>2, <1>5 DEF FtThreadOK
<1>9. FtThreadOK(w)
  <2>1. w \in [phase : {"queued", "training", "saving", "saved", "ended"}, server : BOOLEAN,
               steps : Nat \ {0}, images : Nat, reg : Nat, lora : Seq(Nat \X Nat)]
    BY <1>2, <1>5, <1>7 DEF FtThreadOK
  <2>2. ASSUME NEW k \in 1..(n + 1)
        PROVE  lora[k] = <<FtImage(w, k - 1), FtClassImage(w, k - 1)>>
    <3>1. \A i : FtImage(w, i) = FtImage(r, i) /\ FtClassImage(w, i) = FtClassImage(r, i)
      BY <1>8 DEF FtImage, FtClassImage
    <3>2. CASE k = n + 1
      <4>1. k - 1 = n
        BY <1>6, <3>2
      <4> QED BY <1>7, <3>1, <3>2, <4>1
    <3>3. CASE k # n + 1
      <4>1. k \in 1..n
        BY <1>6, <3>3
      <4>2. r.lora[k] = <<FtImage(r, k - 1), FtClassImage(r, k - 1)>>
        BY <1>5, <4>1 DEF FtThreadOK
      <4> QED BY <1>7, <3>1, <3>3, <4>2
    <3> QED BY <3>2, <3>3
  <2>3. n + 1 <= r.steps
    BY <1>1, <1>6
  <2>4. w.server => w.reg = 0
    BY <1>5, <1>8 DEF FtThreadOK
  <2>5. \A k \in 1..Len(w.lora) : w.lora[k] = <<FtImage(w, k - 1), FtClassImage(w, k - 1)>>
    BY <1>7, <1>8, <2>2
  <2>6. Len(w.lora) <= w.steps /\ w.phase \notin {"saving", "saved"}
    BY <1>7, <1>8, <2>3
  <2> QED BY <2>1, <2>4, <2>5, <2>6 DEF FtThreadOK
<1>10. ASSUME j \in DOMAIN ftStore
       PROVE  /\ FtEntryOK(x, w) /\ FtLater(e, x) /\ x.status # "complete"
  <2>1. FtEntryOK(e, r)
    BY <1>5, <1>10
  <2>2. /\ x \in FtEntries /\ x.status = e.status /\ x.total = e.total /\ x.progress = n + 1
        /\ x.loss = "some" /\ x.error = e.error
    <3>1. e \in FtEntries /\ n + 1 \in Nat
      BY <1>6, <2>1 DEF FtEntryOK
    <3>2. PICK m : m = n + 1
      OBVIOUS
    <3>3. x = [status |-> e.status, progress |-> m, total |-> e.total, loss |-> "some",
               error |-> e.error]
      BY <1>3, <3>1, <3>2 DEF FtEntries
    <3> QED BY <3>1, <3>2, <3>3 DEF FtEntries
  <2>3. e.status = "running" /\ e.progress = n
    BY <1>1, <2>1 DEF FtEntryOK, FtEntries, FtStatuses, FtOver
  <2>4. FtEntryOK(x, w)
    BY <1>7, <1>8, <2>1, <2>2, <2>3 DEF FtEntryOK, FtOver
  <2>5. FtLater(e, x)
    BY <1>6, <2>2, <2>3 DEF FtLater, FtOver
  <2> QED BY <2>2, <2>3, <2>4, <2>5
<1>11. r.phase # "none" /\ w.phase # "saved"
  BY <1>1, <1>8
<1>12. ftFile' = [ftFile EXCEPT ![j] = ftFile[j]]
  BY <1>1, <1>5
<1> QED BY <1>1, <1>4, <1>5, <1>8, <1>9, <1>10, <1>11, <1>12, FtGoesOn

LEMMA FtTrainedStep == ASSUME FtInv, NEW j \in FtJob, FtTrained(j) PROVE FtInv'
<1> PICK r, e : r = ftThread[j] /\ e = ftStore[j]
  OBVIOUS
<1>1. r.phase = "training" /\ Len(r.lora) = r.steps /\ UNCHANGED <<ftStore, ftFile, ftPoll, ftLast>>
  BY DEF FtTrained
<1>2. PICK w : w = [r EXCEPT !.phase = IF r.server THEN "saving" ELSE "ended"]
  OBVIOUS
<1>3. ftThread' = [ftThread EXCEPT ![j] = w]
  BY <1>2 DEF FtTrained, FtGoOn
<1>4. /\ FtThreadOK(r)
      /\ j \in DOMAIN ftStore => FtEntryOK(e, r)
      /\ ftFile[j] = [written |-> ftFile[j].written, lora |-> ftFile[j].lora]
      /\ ftFile = [ftFile EXCEPT ![j] = ftFile[j]]
      /\ ftStore = IF j \in DOMAIN ftStore THEN [ftStore EXCEPT ![j] = e] ELSE ftStore
  BY <1>1, FtBegun
<1>5. /\ w.phase = IF r.server THEN "saving" ELSE "ended"
      /\ w.lora = r.lora /\ w.server = r.server /\ w.steps = r.steps
      /\ w.images = r.images /\ w.reg = r.reg
  BY <1>2, <1>4 DEF FtThreadOK
<1>6. FtThreadOK(w)
  <2>1. w \in [phase : {"queued", "training", "saving", "saved", "ended"}, server : BOOLEAN,
               steps : Nat \ {0}, images : Nat, reg : Nat, lora : Seq(Nat \X Nat)]
    <3>1. PICK phase \in {"queued", "training", "saving", "saved", "ended"} :
             w = [r EXCEPT !.phase = phase]
      BY <1>2
    <3> QED BY <1>4, <3>1 DEF FtThreadOK
  <2> QED BY <1>1, <1>4, <1>5, <2>1 DEF FtThreadOK, FtImage, FtClassImage
<1>7. ASSUME j \in DOMAIN ftStore
      PROVE  /\ FtEntryOK(e, w) /\ FtLater(e, e) /\ e.status # "complete"
  <2>1. FtEntryOK(e, r)
    BY <1>4, <1>7
  <2>2. e \in FtEntries /\ r.server /\ e.status \notin FtOver /\ e.status # "queued"
    BY <1>1, <2>1 DEF FtEntryOK
  <2>3. FtEntryOK(e, w)
    BY <1>5, <2>1, <2>2 DEF FtEntryOK
  <2> QED BY <2>2, <2>3, FtLaterNow DEF FtOver
<1>8. r.phase # "none" /\ w.phase # "saved"
  BY <1>1, <1>5
<1>9. /\ ftFile' = [ftFile EXCEPT ![j] = ftFile[j]]
      /\ ftStore' = IF j \in DOMAIN ftStore THEN [ftStore EXCEPT ![j] = e] ELSE ftStore
  BY <1>1, <1>4
<1> QED BY <1>1, <1>3, <1>4, <1>5, <1>6, <1>7, <1>8, <1>9, FtGoesOn, ZenonT(30)

\* The file holds what the thread has trained, before the entry says so.
LEMMA FtSaveStep == ASSUME FtInv, NEW j \in FtJob, FtSave(j) PROVE FtInv'
<1> PICK r, e : r = ftThread[j] /\ e = ftStore[j]
  OBVIOUS
<1>1. r.phase = "saving" /\ UNCHANGED <<ftStore, ftPoll, ftLast>>
  BY DEF FtSave
<1>2. PICK w : w = [r EXCEPT !.phase = "saved"]
  OBVIOUS
<1>3. PICK file : file = [written |-> TRUE, lora |-> r.lora]
  OBVIOUS
<1>4. ftThread' = [ftThread EXCEPT ![j] = w] /\ ftFile' = [ftFile EXCEPT ![j] = file]
  BY <1>2, <1>3 DEF FtSave, FtGoOn
<1>5. /\ FtThreadOK(r)
      /\ j \in DOMAIN ftStore => FtEntryOK(e, r)
      /\ ftStore = IF j \in DOMAIN ftStore THEN [ftStore EXCEPT ![j] = e] ELSE ftStore
  BY <1>1, FtBegun
<1>6. /\ w.phase = "saved" /\ w.lora = r.lora /\ w.server = r.server /\ w.steps = r.steps
      /\ w.images = r.images /\ w.reg = r.reg
  BY <1>2, <1>5 DEF FtThreadOK
<1>7. FtThreadOK(w)
  <2>1. w \in [phase : {"queued", "training", "saving", "saved", "ended"}, server : BOOLEAN,
               steps : Nat \ {0}, images : Nat, reg : Nat, lora : Seq(Nat \X Nat)]
    BY <1>2, <1>5 DEF FtThreadOK
  <2> QED BY <1>1, <1>5, <1>6, <2>1 DEF FtThreadOK, FtImage, FtClassImage
<1>8. ASSUME j \in DOMAIN ftStore
      PROVE  /\ FtEntryOK(e, w) /\ FtLater(e, e)
  <2>1. FtEntryOK(e, r)
    BY <1>5, <1>8
  <2>2. e \in FtEntries /\ e.status \notin FtOver /\ e.status # "queued"
    BY <1>1, <2>1 DEF FtEntryOK
  <2>3. FtEntryOK(e, w)
    BY <1>6, <2>1, <2>2 DEF FtEntryOK
  <2> QED BY <2>2, <2>3, FtLaterNow
<1>9. r.phase # "none" /\ file.lora = w.lora /\ file = [written |-> file.written, lora |-> file.lora]
  <2>1. file.written = TRUE /\ file.lora = r.lora
    BY <1>3
  <2> QED BY <1>1, <1>3, <1>6, <2>1
<1>10. ftStore' = IF j \in DOMAIN ftStore THEN [ftStore EXCEPT ![j] = e] ELSE ftStore
  BY <1>1, <1>5
<1> QED BY <1>1, <1>4, <1>5, <1>6, <1>7, <1>8, <1>9, <1>10, FtGoesOn

LEMMA FtCompleteStep == ASSUME FtInv, NEW j \in FtJob, FtComplete(j) PROVE FtInv'
<1> PICK r, e : r = ftThread[j] /\ e = ftStore[j]
  OBVIOUS
<1>1. r.phase = "saved" /\ UNCHANGED <<ftFile, ftPoll, ftLast>>
  BY DEF FtComplete
<1>2. PICK w : w = [r EXCEPT !.phase = "ended"]
  OBVIOUS
<1>3. PICK x : x = [e EXCEPT !.status = "complete", !.progress = r.steps]
  OBVIOUS
<1>4. /\ ftThread' = [ftThread EXCEPT ![j] = w]
      /\ ftStore' = IF j \in DOMAIN ftStore THEN [ftStore EXCEPT ![j] = x] ELSE ftStore
  BY <1>2, <1>3 DEF FtComplete, FtGoOn, FtUpdate
<1>5. /\ FtThreadOK(r)
      /\ j \in DOMAIN ftStore => FtEntryOK(e, r)
      /\ j \in DOMAIN ftStore =>
            (r.phase = "saved" \/ e.status = "complete" => ftFile[j].lora = r.lora)
      /\ ftFile[j] = [written |-> ftFile[j].written, lora |-> ftFile[j].lora]
      /\ ftFile = [ftFile EXCEPT ![j] = ftFile[j]]
  BY <1>1, FtBegun
<1>6. /\ w.phase = "ended" /\ w.lora = r.lora /\ w.server = r.server /\ w.steps = r.steps
      /\ w.images = r.images /\ w.reg = r.reg
  BY <1>2, <1>5 DEF FtThreadOK
<1>7. FtThreadOK(w)
  <2>1. w \in [phase : {"queued", "training", "saving", "saved", "ended"}, server : BOOLEAN,
               steps : Nat \ {0}, images : Nat, reg : Nat, lora : Seq(Nat \X Nat)]
    BY <1>2, <1>5 DEF FtThreadOK
  <2> QED BY <1>5, <1>6, <2>1 DEF FtThreadOK, FtImage, FtClassImage
<1>8. ASSUME j \in DOMAIN ftStore
      PROVE  /\ FtEntryOK(x, w) /\ FtLater(e, x) /\ ftFile[j].lora = w.lora
  <2>1. FtEntryOK(e, r) /\ ftFile[j].lora = r.lora
    BY <1>1, <1>5, <1>8
  <2>2. /\ r.steps \in Nat \ {0} /\ Len(r.lora) = r.steps
    BY <1>1, <1>5 DEF FtThreadOK
  <2>3. /\ e.progress = r.steps /\ e.loss = "some" /\ e.error = "none" /\ e.total = r.steps
        /\ e.status \notin FtOver
    BY <1>1, <2>1, <2>2 DEF FtEntryOK, FtEntries, FtOver
  <2>4. /\ x \in FtEntries /\ x.status = "complete" /\ x.total = r.steps /\ x.progress = r.steps
        /\ x.loss = "some" /\ x.error = "none"
    <3>1. PICK m : m = r.steps
      OBVIOUS
    <3>2. e \in FtEntries /\ m \in Nat
      BY <2>1, <2>2, <3>1 DEF FtEntryOK
    <3>3. x = [status |-> "complete", progress |-> m, total |-> e.total, loss |-> e.loss,
               error |-> e.error]
      BY <1>3, <3>1, <3>2 DEF FtEntries
    <3> QED BY <2>3, <3>1, <3>2, <3>3 DEF FtEntries, FtStatuses
  <2>5. FtEntryOK(x, w)
    BY <1>6, <2>1, <2>2, <2>4 DEF FtEntryOK, FtOver
  <2>6. FtLater(e, x)
    BY <2>2, <2>3, <2>4 DEF FtLater
  <2> QED BY <1>6, <2>1, <2>5, <2>6
<1>9. r.phase # "none" /\ w.phase # "saved"
  BY <1>1, <1>6
<1>10. ftFile' = [ftFile EXCEPT ![j] = ftFile[j]]
  BY <1>1, <1>5
<1> QED BY <1>1, <1>4, <1>5, <1>6, <1>7, <1>8, <1>9, <1>10, FtGoesOn

\* A poll begins, reads a field of the live entry, and is answered.
LEMMA FtGetStep == ASSUME FtInv, NEW j \in FtJob, FtGet(j) PROVE FtInv'
<1>1. PICK p : p = [phase |-> "reading", job |-> j, at |-> 1, answer |-> <<>>]
  OBVIOUS
<1>2. ftPoll' = p /\ j \in DOMAIN ftStore /\ UNCHANGED <<ftStore, ftThread, ftFile, ftLast>>
  BY <1>1 DEF FtGet
<1>3. FtReading(p)
  <2>1. /\ p.phase = "reading" /\ p.job = j /\ p.at = 1 /\ p.answer = <<>>
    BY <1>1
  <2>2. DOMAIN p.answer = {} /\ FtUpTo(p.answer, p.at)
    BY <2>1 DEF FtUpTo
  <2>3. FtSeen(p.answer, ftStore[p.job])
    BY <2>2 DEF FtSeen
  <2>4. p.job \in DOMAIN ftLast => FtSince(ftLast[p.job], p.answer)
    BY <2>2 DEF FtSince
  <2>5. p = [phase |-> p.phase, job |-> p.job, at |-> p.at, answer |-> p.answer]
    BY <1>1, <2>1
  <2> QED BY <1>2, <2>1, <2>2, <2>3, <2>4, <2>5 DEF FtReading
<1>4. FtAnswersOK'
  BY <1>2, <1>3 DEF FtInv, FtAnswersOK, FtReading
<1> QED BY <1>2, <1>4 DEF FtInv, FtJobOK

LEMMA FtReadFieldStep == ASSUME FtInv, FtReadField PROVE FtInv'
<1> PICK p, e, a, f : p = ftPoll /\ e = ftStore[p.job] /\ a = p.answer /\ f = FtFields[p.at]
  OBVIOUS
<1>1. PICK b : b = [g \in DOMAIN a \cup {f} |-> IF g = f THEN e[f] ELSE a[g]]
  OBVIOUS
<1>2. PICK q : q = [p EXCEPT !.answer = b, !.at = @ + 1,
                             !.phase = IF p.at = Len(FtFields) THEN "answered" ELSE @]
  OBVIOUS
<1>3. /\ p.phase = "reading" /\ ftPoll' = q
      /\ UNCHANGED <<ftStore, ftThread, ftFile, ftLast>>
  BY <1>1, <1>2 DEF FtReadField
<1>4. FtReading(p)
  BY <1>3 DEF FtInv, FtAnswersOK, FtIdle
<1>5. /\ p = [phase |-> p.phase, job |-> p.job, at |-> p.at, answer |-> a]
      /\ p.at \in 1..5 /\ p.job \in DOMAIN ftStore /\ FtSeen(a, e)
      /\ FtUpTo(a, p.at)
      /\ p.job \in DOMAIN ftLast => FtSince(ftLast[p.job], a)
  BY <1>3, <1>4 DEF FtReading
<1>6. e \in FtEntries
  BY <1>5 DEF FtInv, FtJobOK, FtEntryOK
<1>7. /\ FtSeen(b, e) /\ FtUpTo(b, p.at + 1)
      /\ FtGained(b, a, e, "status") /\ FtGained(b, a, e, "progress")
  <2>1. PICK at \in 1..5 : at = p.at
    BY <1>5
  <2>2. FtUpTo(a, at) /\ FtExtends(b, a, e, FtFields[at])
    BY <1>1, <1>5, <2>1 DEF FtExtends
  <2>3. /\ FtSeen(b, e) /\ FtUpTo(b, at + 1)
        /\ FtGained(b, a, e, "status") /\ FtGained(b, a, e, "progress")
    BY <1>5, <1>6, <2>2, FtSeenMore
  <2> QED BY <2>1, <2>3
<1>8. /\ q = [phase |-> q.phase, job |-> q.job, at |-> q.at, answer |-> q.answer]
      /\ q.job = p.job /\ q.at = p.at + 1 /\ q.answer = b
      /\ q.phase = IF p.at = 5 THEN "answered" ELSE "reading"
  <2>1. PICK at, phase : at = p.at + 1 /\ phase = IF p.at = 5 THEN "answered" ELSE "reading"
    OBVIOUS
  <2>2. PICK u : u = [phase |-> p.phase, job |-> p.job, at |-> p.at, answer |-> a]
    OBVIOUS
  <2>3. q = [u EXCEPT !.answer = b, !.at = at, !.phase = phase]
    BY <1>2, <1>3, <1>5, <2>1, <2>2, FtFieldNames
  <2>4. q = [phase |-> phase, job |-> p.job, at |-> at, answer |-> b]
    BY <2>2, <2>3
  <2> QED BY <2>1, <2>4
<1>9. ASSUME q.job \in DOMAIN ftLast PROVE FtSince(ftLast[q.job], b)
  <2> PICK s : s = ftLast[q.job]
    OBVIOUS
  <2>1. FtSince(s, a) /\ FtSeen(s, e) /\ DOMAIN s = FtNames
    BY <1>5, <1>8, <1>9 DEF FtInv, FtAnswersOK
  <2>2. /\ s.status \in FtOver => e.status = s.status
        /\ s.status = "running" => e.status # "queued"
        /\ s.progress <= e.progress
    BY <2>1 DEF FtSeen, FtNames
  <2>3. ASSUME "status" \in DOMAIN b
        PROVE  /\ s.status \in FtOver => b.status = s.status
               /\ s.status = "running" => b.status # "queued"
    BY <1>7, <2>1, <2>2, <2>3 DEF FtSince, FtGained
  <2>4. ASSUME "progress" \in DOMAIN b PROVE s.progress <= b.progress
    BY <1>7, <2>1, <2>2, <2>4 DEF FtSince, FtGained
  <2> QED BY <2>3, <2>4 DEF FtSince
<1>10. q.at \in 1..6 /\ (q.phase = "answered" <=> q.at = 6) /\ q.phase \in {"reading", "answered"}
  BY <1>5, <1>8
<1>11. /\ FtUpTo(q.answer, q.at) /\ FtSeen(q.answer, ftStore[q.job])
       /\ q.job \in DOMAIN ftStore
  BY <1>5, <1>7, <1>8
<1>12. FtReading(q)
  BY <1>8, <1>9, <1>10, <1>11 DEF FtReading
<1>13. FtAnswersOK'
  BY <1>3, <1>12 DEF FtInv, FtAnswersOK, FtReading
<1> QED BY <1>3, <1>13 DEF FtInv, FtJobOK

LEMMA FtAnsweredStep == ASSUME FtInv, FtAnswered PROVE FtInv'
<1> PICK p : p = ftPoll
  OBVIOUS
<1>1. /\ p.phase = "answered" /\ ftPoll' = FtIdle /\ UNCHANGED <<ftStore, ftThread, ftFile>>
      /\ ftLast' = [k \in DOMAIN ftLast \cup {p.job} |->
                       IF k = p.job THEN p.answer ELSE ftLast[k]]
  BY DEF FtAnswered
<1>2. FtReading(p) /\ FtAnswersOK
  BY <1>1 DEF FtInv, FtAnswersOK, FtIdle
<1>3. DOMAIN p.answer = FtNames /\ p.job \in DOMAIN ftStore /\ FtSeen(p.answer, ftStore[p.job])
  <2>1. p.at = 6
    BY <1>1, <1>2 DEF FtReading
  <2>2. DOMAIN p.answer = {FtFields[i] : i \in 1..5}
    BY <1>2, <2>1 DEF FtReading, FtUpTo
  <2>3. {FtFields[i] : i \in 1..5} = FtNames
    <3>1. \A i \in 1..5 : i = 1 \/ i = 2 \/ i = 3 \/ i = 4 \/ i = 5
      OBVIOUS
    <3> QED BY <3>1, FtFieldNames DEF FtNames
  <2> QED BY <1>2, <2>2, <2>3 DEF FtReading
<1>4. ASSUME NEW k \in DOMAIN ftLast'
      PROVE  DOMAIN ftLast'[k] = FtNames /\ FtSeen(ftLast'[k], ftStore[k])
  BY <1>1, <1>2, <1>3 DEF FtAnswersOK
<1>5. DOMAIN ftLast' \subseteq DOMAIN ftStore
  BY <1>1, <1>2, <1>3 DEF FtAnswersOK
<1>6. FtAnswersOK'
  BY <1>1, <1>4, <1>5 DEF FtAnswersOK
<1> QED BY <1>1, <1>6 DEF FtInv, FtJobOK

LEMMA FtInvInit == FtInit => FtInv
<1> SUFFICES ASSUME FtInit PROVE FtInv
  OBVIOUS
<1>1. /\ DOMAIN ftStore = {} /\ DOMAIN ftLast = {} /\ ftPoll = FtIdle
      /\ ftStore = [j \in {} |-> FtIdle]
      /\ ftThread = [j \in FtJob |-> [phase |-> "none"]]
      /\ ftFile = [j \in FtJob |-> [written |-> FALSE, lora |-> <<>>]]
  BY DEF FtInit
<1>2. ASSUME NEW j \in FtJob
      PROVE  FtJobOK(j) /\ ftFile[j] = [written |-> ftFile[j].written, lora |-> ftFile[j].lora]
  <2>1. ftThread[j].phase = "none"
    BY <1>1
  <2>2. PICK file : file = [written |-> FALSE, lora |-> <<>>]
    OBVIOUS
  <2>3. ftFile[j] = file /\ file.written = FALSE /\ file.lora = <<>>
    BY <1>1, <2>2
  <2>4. ftFile[j] = [written |-> ftFile[j].written, lora |-> ftFile[j].lora]
    BY <2>2, <2>3
  <2> QED BY <1>1, <2>1, <2>4 DEF FtJobOK
<1>3. FtAnswersOK
  BY <1>1 DEF FtAnswersOK
<1> QED BY <1>1, <1>2, <1>3 DEF FtInv

LEMMA FtInvNext == FtInv /\ [FtNext]_ftVars => FtInv'
<1> SUFFICES ASSUME FtInv, [FtNext]_ftVars PROVE FtInv'
  OBVIOUS
<1>1. ASSUME NEW j \in FtJob, FtStart(j) PROVE FtInv'
  BY <1>1, FtStartStep
<1>2. ASSUME NEW j \in FtJob, FtProceed(j) PROVE FtInv'
  BY <1>2, FtBeginStep, FtRaiseStep, FtStepStep, FtTrainedStep, FtSaveStep, FtCompleteStep DEF FtProceed
<1>3. ASSUME NEW j \in FtJob, FtGet(j) PROVE FtInv'
  BY <1>3, FtGetStep
<1>4. CASE FtReadField
  BY <1>4, FtReadFieldStep
<1>5. CASE FtAnswered
  BY <1>5, FtAnsweredStep
<1>6. CASE UNCHANGED ftVars
  BY <1>6 DEF ftVars, FtInv, FtJobOK, FtAnswersOK, FtReading
<1> QED BY <1>1, <1>2, <1>3, <1>4, <1>5, <1>6, Zenon DEF FtNext

\* Answers make sense.
LEMMA FtInvPolls == FtInv => FtTypeOK /\ FtPollsSane
<1> SUFFICES ASSUME FtInv PROVE FtTypeOK /\ FtPollsSane
  OBVIOUS
<1>1. /\ \A j \in DOMAIN ftStore : FtEntryOK(ftStore[j], ftThread[j]) /\ ftThread[j].phase # "none"
      /\ FtAnswersOK /\ DOMAIN ftStore \subseteq FtJob
  BY DEF FtInv, FtJobOK
<1>2. FtTypeOK
  BY <1>1 DEF FtTypeOK, FtEntryOK, FtEntries, FtStatuses, FtAnswersOK
<1>3. ASSUME ftPoll.phase = "answered" PROVE FtPollsSane
  <2> PICK p, a, j : p = ftPoll /\ a = p.answer /\ j = p.job
    OBVIOUS
  <2>1. FtReading(p)
    BY <1>1, <1>3 DEF FtAnswersOK, FtIdle
  <2>2. /\ DOMAIN a = {FtFields[i] : i \in 1..5} /\ j \in DOMAIN ftStore
        /\ FtSeen(a, ftStore[j])
        /\ j \in DOMAIN ftLast => FtSince(ftLast[j], a)
    <3>1. p.at = 6
      BY <1>3, <2>1 DEF FtReading
    <3> QED BY <2>1, <3>1 DEF FtReading, FtUpTo
  <2>3. DOMAIN a = FtNames
    <3>1. {FtFields[i] : i \in 1..5} = FtNames
      <4>1. \A i \in 1..5 : i = 1 \/ i = 2 \/ i = 3 \/ i = 4 \/ i = 5
        OBVIOUS
      <4> QED BY <4>1, FtFieldNames DEF FtNames
    <3> QED BY <2>2, <3>1
  <2>4. FtEntryOK(ftStore[j], ftThread[j]) /\ FtThreadOK(ftThread[j])
    BY <1>1, <2>2 DEF FtInv, FtJobOK
  <2>5. /\ a.progress <= a.total
        /\ a.status = "complete" => a.progress = a.total /\ a.loss # FtNone /\ a.error = FtNone
        /\ a.status = "error" => a.error # FtNone
    BY <2>2, <2>3, <2>4, FtSeenWhole
  <2>6. ASSUME j \in DOMAIN ftLast
        PROVE  LET b == ftLast[j]
               IN  /\ b.progress <= a.progress
                   /\ b.status \in {"complete", "error"} => a.status = b.status
                   /\ b.status = "running" => a.status # "queued"
    BY <2>2, <2>3, <2>6 DEF FtSince, FtNames, FtOver
  <2> QED BY <2>5, <2>6 DEF FtPollsSane
<1> QED BY <1>2, <1>3 DEF FtPollsSane

\* Names tell modules apart, so no wrapped layer's weight is trained.
LEMMA FtFrozen == \A m \in FtInjected : [name |-> m.name, part |-> "weight"] \notin FtTrainable
<1> SUFFICES ASSUME NEW m \in FtInjected, [name |-> m.name, part |-> "weight"] \in FtTrainable
             PROVE  FALSE
  OBVIOUS
<1> PICK t : t = [name |-> m.name, part |-> "weight"]
  OBVIOUS
<1>1. t.name = m.name /\ t.part = "weight" /\ m \in FtModules
  BY DEF FtInjected
<1>2. t \notin FtOptimized
  BY <1>1 DEF FtOptimized
<1>3. PICK n \in FtModules \ FtInjected : t = [name |-> n.name, part |-> "weight"]
  BY <1>2 DEF FtTrainable
<1>4. n.name = m.name
  BY <1>1, <1>3
<1> QED BY <1>1, <1>3, <1>4, FtAssumption

\* A side that is no shorter than the shorter one is resized to the target at least.
LEMMA FtResized ==
    ASSUME NEW a \in Nat \ {0}, NEW b \in Nat, a <= b, NEW t \in Nat
    PROVE  (b * t) \div a \in Nat /\ t <= (b * t) \div a
<1>1. b * t \in Nat /\ a * t \in Nat /\ a * t <= b * t
  <2>1. PICK d \in Nat : b = a + d
    <3>1. b - a \in Nat /\ b = a + (b - a)
      OBVIOUS
    <3> QED BY <3>1
  <2>2. b * t = a * t + d * t /\ d * t \in Nat /\ a * t \in Nat
    BY <2>1
  <2> QED BY <2>2
<1>2. PICK n \in Nat : n = b * t
  BY <1>1
<1>3. n \div a \in Nat /\ n = a * (n \div a) + (n % a) /\ n % a \in 0..(a - 1)
  OBVIOUS
<1>4. PICK q \in Nat, m \in Nat : q = n \div a /\ n = a * q + m /\ m < a
  BY <1>3
<1>5. t <= q
  <2>1. SUFFICES ASSUME q < t PROVE FALSE
    BY <1>4
  <2>2. PICK d \in Nat : t = (q + 1) + d
    <3>1. t - (q + 1) \in Nat /\ t = (q + 1) + (t - (q + 1))
      BY <2>1
    <3> QED BY <3>1
  <2>3. a * t = a * q + a + a * d /\ a * d \in Nat /\ a * q \in Nat
    BY <2>2
  <2> QED BY <1>1, <1>2, <1>4, <2>3
<1> QED BY <1>2, <1>4, <1>5

LEMMA FtCropsInside ==
    \A w, h \in FtSides : \A c \in FtCrops(w, h) :
        c.left + FtTarget <= c.width /\ c.top + FtTarget <= c.height
<1> SUFFICES ASSUME NEW w \in FtSides, NEW h \in FtSides, NEW c \in FtCrops(w, h)
             PROVE  c.left + FtTarget <= c.width /\ c.top + FtTarget <= c.height
  OBVIOUS
<1>1. w \in Nat \ {0} /\ h \in Nat \ {0} /\ FtTarget \in Nat
  BY FtAssumption
<1>2. PICK nw, nh : /\ nw = (IF w < h THEN FtTarget ELSE (w * FtTarget) \div h)
                    /\ nh = (IF w < h THEN (h * FtTarget) \div w ELSE FtTarget)
  OBVIOUS
<1>3. nw \in Nat /\ nh \in Nat /\ FtTarget <= nw /\ FtTarget <= nh
  <2>1. CASE w < h
    <3>1. (h * FtTarget) \div w \in Nat /\ FtTarget <= (h * FtTarget) \div w
      BY <1>1, <2>1, FtResized
    <3> QED BY <1>1, <1>2, <2>1, <3>1
  <2>2. CASE ~(w < h)
    <3>1. (w * FtTarget) \div h \in Nat /\ FtTarget <= (w * FtTarget) \div h
      BY <1>1, <2>2, FtResized
    <3> QED BY <1>1, <1>2, <2>2, <3>1
  <2> QED BY <2>1, <2>2
<1>4. PICK l \in 0..(IF nw > FtTarget THEN nw - FtTarget ELSE 0),
           t \in 0..(IF nh > FtTarget THEN nh - FtTarget ELSE 0) :
         c = [left |-> l, top |-> t, width |-> nw, height |-> nh]
  BY <1>2 DEF FtCrops
<1>5. c.left = l /\ c.top = t /\ c.width = nw /\ c.height = nh
  BY <1>4
<1>6. l + FtTarget <= nw
  BY <1>1, <1>3
<1>7. t + FtTarget <= nh
  BY <1>1, <1>3
<1> QED BY <1>5, <1>6, <1>7

\* Adapters are whole.
LEMMA FtInvAdapters == FtInv => FtAdaptersWhole
<1> SUFFICES ASSUME FtInv PROVE FtAdaptersWhole
  OBVIOUS
<1>1. FtOptimized \subseteq FtTrainable
  BY DEF FtTrainable
<1>2. ASSUME NEW j \in FtListed
      PROVE  ftFile[j].lora = [s \in 1..ftThread[j].steps |-> <<1 + ((s - 1) % ftThread[j].images), 0>>]
  <2> PICK r, e : r = ftThread[j] /\ e = ftStore[j]
    OBVIOUS
  <2>1. j \in DOMAIN ftStore /\ e.status = "complete" /\ j \in FtJob
    BY DEF FtListed, FtInv
  <2>2. FtEntryOK(e, r) /\ ftFile[j].lora = r.lora /\ FtThreadOK(r)
    BY <2>1 DEF FtInv, FtJobOK
  <2>3. /\ r.server /\ r.reg = 0 /\ Len(r.lora) = r.steps /\ r.lora \in Seq(Nat \X Nat)
        /\ \A s \in 1..Len(r.lora) : r.lora[s] = <<FtImage(r, s - 1), FtClassImage(r, s - 1)>>
    BY <2>1, <2>2 DEF FtEntryOK, FtThreadOK
  <2>4. r.lora = [s \in 1..r.steps |-> r.lora[s]]
    <3>1. PICK lora : lora = r.lora
      OBVIOUS
    <3>2. lora \in Seq(Nat \X Nat) /\ Len(lora) = r.steps
      BY <2>3, <3>1
    <3>3. lora = [s \in 1..Len(lora) |-> lora[s]]
      BY <3>2, SequenceIsFunction
    <3> QED BY <3>1, <3>2, <3>3
  <2>5. \A s \in 1..r.steps : r.lora[s] = <<1 + ((s - 1) % r.images), 0>>
    BY <2>3 DEF FtImage, FtClassImage
  <2>6. r.lora = [s \in 1..r.steps |-> <<1 + ((s - 1) % r.images), 0>>]
    BY <2>4, <2>5
  <2> QED BY <2>2, <2>6
<1> QED BY <1>1, <1>2, FtFrozen, FtCropsInside DEF FtAdaptersWhole

\* For any number of jobs, images, steps and modules: no poll sees a nonsensical
\* or earlier state of a job, and a listed adapter is all that its job trained.
THEOREM JobsFaithful == FtSpec => [](FtTypeOK /\ FtFaithful)
<1>1. FtInit => FtInv
  BY FtInvInit
<1>2. FtInv /\ [FtNext]_ftVars => FtInv'
  BY FtInvNext
<1>3. FtInv => FtTypeOK /\ FtFaithful
  BY FtInvPolls, FtInvAdapters DEF FtFaithful
<1> QED BY <1>1, <1>2, <1>3, PTL DEF FtSpec

-----------------------------------------------------------------------------
(* The model with LoRA layers.                                             *)

LoTrainFields == {"epochs", "samples", "phase", "file", "order", "batches", "accum", "tokens",
                  "steps", "total", "met"}
LoAskFields == {"phase", "text", "file", "layers", "tokens", "asked", "met"}

\* Before a step has been taken of the last batches, and while .grad holds some.
LoLooping == {"begin", "epoch", "batch", "step", "leftover"}
LoAdding == {"epoch", "batch", "step", "leftover", "zero", "lastzero"}
LoInTrain == LoAdding \cup {"finish"}
LoTrainPhases == LoInTrain \cup {"begin", "save", "done", "failed"}
LoSaved == LoFile \cup {LoPartial}

LoRunOK(r) ==
    /\ DOMAIN r = LoTrainFields /\ r.phase \in LoTrainPhases /\ r.met \subseteq LoCall
    /\ r.file \in LoFile \cup {"none"}
    /\ r.batches \in Nat /\ r.accum \in 0..r.batches /\ r.accum <= LoAccum
    /\ r.steps \in Seq(SUBSET (LoCall \X Nat))
    /\ r.phase = "begin" => r.accum = 0
    /\ r.phase \in {"epoch", "batch"} => r.accum < LoAccum
    /\ r.phase \in {"step", "zero"} => r.accum = LoAccum

LoAskOK(r) ==
    /\ DOMAIN r = LoAskFields /\ r.phase \in {"load", "generate", "done", "failed"}
    /\ r.met \subseteq LoCall /\ r.layers \subseteq DOMAIN r.asked
    /\ DOMAIN r.asked \subseteq LoLayer \cup {LoBase}
    /\ r.tokens \in Seq(ToSet(r.tokens))
    /\ r.phase = "load" => r.tokens = <<>> /\ r.file \in LoSaved /\ DOMAIN r.asked \subseteq LoLayer

LoCallOK(r) == r = LoIdle \/ LoRunOK(r) \/ LoAskOK(r)

\* The batches a step is to apply: the k-th, and what is gathered for the next one.
LoGroup(c, k, n) == {<<c, b>> : b \in ((k - 1) * LoAccum + 1)..Min({k * LoAccum, n})}
LoGathered(c, r) == {<<c, b>> : b \in (r.batches - r.accum + 1)..r.batches}
LoPairs == {<<g[1], g[2]>> : g \in loGrad}

LoClean(c) == \A d \in loCall[c].met : ~LoIsTrain(d)

LoLearnt(c, r) ==
    /\ \A k \in 1..Len(r.steps) : r.steps[k] = LoGroup(c, k, r.batches)
    /\ r.phase \in LoLooping => Len(r.steps) * LoAccum + r.accum = r.batches
    /\ r.phase = "zero" => Len(r.steps) * LoAccum = r.batches
    /\ r.phase \notin LoLooping => r.batches <= Len(r.steps) * LoAccum

LoRunLearnt(c) ==
    LoIsTrain(c) /\ LoClean(c) =>
        /\ LoLearnt(c, loCall[c])
        /\ loCall[c].phase \in LoAdding => LoGathered(c, loCall[c]) \subseteq LoPairs

\* Every gradient is of a batch its trainer has not stepped and cleared yet.
LoOwner(g, r) == /\ DOMAIN r = LoTrainFields /\ r.phase \in LoAdding
                 /\ g[2] \in (r.batches - r.accum + 1)..r.batches

LoGradOK == \A g \in loGrad : LoOwner(g, loCall[g[1]])

\* The layers are the adapter's as far as they are copied, and tokens are of them;
\* an error for want of samples is what leaves dropout on.
LoOf(w, layers, asked) == \A l \in layers : w[l] = asked[l]
LoTokensOf(tokens, w, dropout) ==
    \A i \in 1..Len(tokens) : tokens[i] = [from |-> w, dropout |-> dropout]
LoFailed == \E d \in LoCall : LoIsTrain(d) /\ loCall[d].phase = "failed"

LoTextOK(r) ==
    DOMAIN r = LoAskFields /\ r.met = {} =>
        /\ r.phase = "load" => /\ r.layers \subseteq DOMAIN loWeights
                               /\ LoOf(loWeights, r.layers, r.asked)
        /\ r.phase = "generate" =>
              /\ LoOf(loWeights, DOMAIN r.asked \cap DOMAIN loWeights, r.asked)
              /\ LoTokensOf(r.tokens, loWeights, loTraining)
        /\ r.phase = "done" =>
              \E w, dropout : /\ LoOf(w, DOMAIN r.asked \cap DOMAIN w, r.asked)
                              /\ LoTokensOf(r.tokens, w, dropout) /\ dropout \in BOOLEAN
                              /\ dropout => LoFailed

LoMetOK == \A c, d \in LoCall : c # d /\ LoActive(c) /\ LoActive(d) => d \in loCall[c].met

LoTrainingOK ==
    /\ loTraining \in BOOLEAN
    /\ loTraining => \E c \in LoCall : LoIsTrain(c) /\ loCall[c].phase \in LoInTrain \cup {"failed"}

LoLoopOK == /\ loLoop \in LoCall \cup {LoNone}
            /\ \A c \in LoCall : loCall[c].phase = "load" <=> loLoop = c

\* Either every layer asked for is wrapped, or none.
LoWeightsOK(w) == /\ w = [l \in DOMAIN w |-> w[l]]
                  /\ DOMAIN w \in {LoLayer \cup {LoBase}, {LoBase}}

LoDataOK ==
    /\ LoWeightsOK(loWeights)
    /\ loGrad \subseteq LoCall \X Nat \X BOOLEAN
    /\ loFiles = [f \in LoSaved |-> loFiles[f]]
    /\ \A f \in LoSaved : DOMAIN loFiles[f] \subseteq LoLayer
    /\ loCurrent \in LoSaved \cup {"none"}

LoInv ==
    /\ loCall = [c \in LoCall |-> loCall[c]]
    /\ LoDataOK /\ LoGradOK /\ LoMetOK /\ LoTrainingOK /\ LoLoopOK
    /\ \A c \in LoCall : LoCallOK(loCall[c]) /\ LoRunLearnt(c) /\ LoTextOK(loCall[c])

\* Kinds of requests exclude each other.
LEMMA LoKinds ==
    /\ DOMAIN LoIdle = {"phase"} /\ LoIdle.phase = "new"
    /\ LoTrainFields # LoAskFields /\ "epochs" \in LoTrainFields /\ "epochs" \notin LoAskFields
    /\ "epochs" \notin {"phase"} /\ "text" \in LoAskFields /\ "text" \notin LoTrainFields
    /\ "text" \notin {"phase"}
BY DEF LoIdle, LoTrainFields, LoAskFields

LEMMA LoKindOf ==
    ASSUME NEW r, LoCallOK(r)
    PROVE  /\ "epochs" \in DOMAIN r <=> LoRunOK(r)
           /\ "text" \in DOMAIN r <=> LoAskOK(r)
           /\ r.phase = "new" => r = LoIdle
           /\ r.phase \in LoInTrain => LoRunOK(r)
<1>1. LoRunOK(r) => DOMAIN r = LoTrainFields /\ r.phase \in LoTrainPhases
  BY DEF LoRunOK
<1>2. LoAskOK(r) => DOMAIN r = LoAskFields /\ r.phase \in {"load", "generate", "done", "failed"}
  BY DEF LoAskOK
<1>3. "new" \notin LoTrainPhases
  BY DEF LoTrainPhases, LoInTrain, LoAdding
<1>4. {"new", "load", "generate", "done", "failed"} \cap LoInTrain = {}
  BY DEF LoInTrain, LoAdding
<1> QED BY <1>1, <1>2, <1>3, <1>4, LoKinds DEF LoCallOK

\* Once a call is made, its kind does not change: who is clean, was.
LEMMA LoStaysClean ==
    ASSUME NEW c \in LoCall, NEW met, met \subseteq loCall'[c].met, met \subseteq LoCall,
           \A d \in LoCall : LoIsTrain(d) => LoIsTrain(d)', LoClean(c)'
    PROVE  \A d \in met : ~LoIsTrain(d)
BY DEF LoClean

\* A step of a trainer.
LEMMA LoTrainerStep ==
    ASSUME LoInv, NEW c \in LoCall, NEW r, r = loCall[c], LoRunOK(r), LoActive(c),
           NEW w, loCall' = [loCall EXCEPT ![c] = w], LoRunOK(w), w.met = r.met,
           loGrad' \subseteq LoCall \X Nat \X BOOLEAN,
           \A g \in loGrad' : (g \in loGrad /\ g[1] # c) \/ (g[1] = c /\ LoOwner(g, w)),
           LoClean(c) => LoLearnt(c, w),
           LoClean(c) /\ w.phase \in LoAdding => LoGathered(c, w) \subseteq LoPairs',
           loTraining' \in BOOLEAN,
           loTraining' => w.phase \in LoInTrain \/ w.phase = "failed" \/ (loTraining /\ r.phase \notin LoInTrain),
           LoWeightsOK(loWeights'),
           loFiles' = [f \in LoSaved |-> loFiles'[f]],
           \A f \in LoSaved : DOMAIN loFiles'[f] \subseteq LoLayer,
           UNCHANGED <<loCurrent, loLoop>>
    PROVE  LoInv'
<1>1. /\ loCall' = [d \in LoCall |-> loCall'[d]] /\ loCall'[c] = w
      /\ \A d \in LoCall \ {c} : loCall'[d] = loCall[d]
  BY DEF LoInv
<1>2. \A d \in LoCall : LoCallOK(loCall[d]) /\ LoRunLearnt(d) /\ LoTextOK(loCall[d])
  BY DEF LoInv
<1>3. /\ DOMAIN r = LoTrainFields /\ DOMAIN w = LoTrainFields /\ w.met \subseteq LoCall
      /\ w.phase \in LoTrainPhases /\ w.phase # "load" /\ r.phase # "load" /\ w.phase # "new"
  BY DEF LoRunOK, LoTrainPhases, LoInTrain, LoAdding
<1>4. /\ LoIsTrain(c) /\ LoIsTrain(c)'
      /\ \A d \in LoCall : LoIsTrain(d) <=> LoIsTrain(d)'
      /\ \A d \in LoCall : LoActive(d)' => LoActive(d)
  BY <1>1, <1>3, LoKinds DEF LoIsTrain, LoActive
<1>5. ASSUME NEW d \in LoCall \ {c}, LoActive(d)
      PROVE  c \in loCall[d].met
  BY <1>5 DEF LoInv, LoMetOK
<1>5a. LoFailed => LoFailed'
  BY <1>1, <1>4 DEF LoFailed, LoActive
<1>6. LoDataOK'
  BY DEF LoInv, LoDataOK
<1>7. LoGradOK'
  <2>1. ASSUME NEW g \in loGrad' PROVE LoOwner(g, loCall'[g[1]])
    <3>1. g[1] \in LoCall
      OBVIOUS
    <3>2. CASE g \in loGrad /\ g[1] # c
      BY <1>1, <3>1, <3>2 DEF LoInv, LoGradOK
    <3>3. CASE g[1] = c /\ LoOwner(g, w)
      BY <1>1, <3>3
    <3> QED BY <3>2, <3>3
  <2> QED BY <2>1 DEF LoGradOK
<1>8. LoMetOK'
  <2>1. ASSUME NEW d \in LoCall, NEW e \in LoCall, d # e, LoActive(d)', LoActive(e)'
        PROVE  e \in loCall'[d].met
    <3>1. e \in loCall[d].met
      BY <1>4, <2>1 DEF LoInv, LoMetOK
    <3> QED BY <1>1, <3>1
  <2> QED BY <2>1 DEF LoMetOK
<1>9. LoTrainingOK'
  <2>1. CASE ~loTraining'
    BY <2>1 DEF LoTrainingOK
  <2>2. CASE loTraining' /\ w.phase \in LoInTrain \cup {"failed"}
    BY <1>1, <1>4, <2>2 DEF LoTrainingOK
  <2>3. CASE loTraining /\ r.phase \notin LoInTrain
    <3>1. PICK d \in LoCall : LoIsTrain(d) /\ loCall[d].phase \in LoInTrain \cup {"failed"}
      BY <2>3 DEF LoInv, LoTrainingOK
    <3>2. d # c
      BY <2>3, <3>1 DEF LoActive
    <3>3. LoIsTrain(d)' /\ loCall'[d].phase \in LoInTrain \cup {"failed"}
      BY <1>1, <1>4, <3>1, <3>2
    <3> QED BY <3>3 DEF LoTrainingOK
  <2> QED BY <2>1, <2>2, <2>3
<1>10. LoLoopOK'
  BY <1>1, <1>3 DEF LoInv, LoLoopOK
<1>11. ASSUME NEW d \in LoCall
       PROVE  LoCallOK(loCall'[d]) /\ LoRunLearnt(d)' /\ LoTextOK(loCall[d])'
  <2>1. CASE d = c
    <3>1. LoClean(c)' => LoClean(c)
      BY <1>1, <1>3, <1>4 DEF LoClean
    <3>2. LoRunLearnt(c)'
      <4>1. ASSUME LoClean(c)' PROVE LoLearnt(c, w) /\ (w.phase \in LoAdding => LoGathered(c, w) \subseteq LoPairs')
        BY <3>1, <4>1
      <4>2. LoLearnt(c, w)' = LoLearnt(c, w) /\ LoGathered(c, w)' = LoGathered(c, w)
        BY DEF LoLearnt, LoGathered, LoGroup
      <4> QED BY <1>1, <4>1, <4>2 DEF LoRunLearnt
    <3>3. LoTextOK(loCall[c])'
      BY <1>1, <1>3, LoKinds DEF LoTextOK
    <3> QED BY <1>1, <2>1, <3>2, <3>3 DEF LoCallOK
  <2>2. CASE d # c
    <3>1. loCall'[d] = loCall[d]
      BY <1>1, <2>2
    <3>2. LoRunLearnt(d)'
      <4>1. SUFFICES ASSUME LoIsTrain(d)', LoClean(d)'
                     PROVE  /\ LoLearnt(d, loCall[d])
                            /\ loCall[d].phase \in LoAdding => LoGathered(d, loCall[d]) \subseteq LoPairs'
        BY <3>1 DEF LoRunLearnt
      <4>2. LoRunOK(loCall[d])
        BY <1>2, <1>4, <4>1, LoKindOf DEF LoIsTrain
      <4>3. LoClean(d)
        BY <1>4, <3>1, <4>1, <4>2 DEF LoClean, LoRunOK
      <4>4. loCall[d].phase \notin LoAdding
        <5>1. SUFFICES ASSUME loCall[d].phase \in LoAdding PROVE FALSE
          OBVIOUS
        <5>2. LoActive(d)
          BY <5>1 DEF LoActive, LoAdding
        <5> QED BY <1>4, <1>5, <2>2, <4>3, <5>2 DEF LoClean
      <4>5. LoLearnt(d, loCall[d])
        BY <1>2, <1>4, <4>1, <4>3 DEF LoRunLearnt
      <4> QED BY <4>4, <4>5
    <3>3. LoTextOK(loCall[d])'
      <4>1. SUFFICES ASSUME DOMAIN loCall[d] = LoAskFields, loCall[d].met = {}
                     PROVE  LoTextOK(loCall[d])'
        BY <3>1 DEF LoTextOK
      <4>2. loCall[d].phase \notin {"load", "generate"}
        BY <1>5, <2>2, <4>1 DEF LoActive
      <4>3. LoTextOK(loCall[d])
        BY <1>2
      <4> QED BY <1>5a, <3>1, <4>1, <4>2, <4>3 DEF LoTextOK
    <3> QED BY <1>2, <3>1, <3>2, <3>3
  <2> QED BY <2>1, <2>2
<1> QED BY <1>1, <1>6, <1>7, <1>8, <1>9, <1>10, <1>11 DEF LoInv

\* A step of a call that is not a trainer.
LEMMA LoReaderStep ==
    ASSUME LoInv, NEW c \in LoCall, NEW r, r = loCall[c], LoAskOK(r), LoActive(c),
           NEW w, loCall' = [loCall EXCEPT ![c] = w], LoAskOK(w), w.met = r.met, LoTextOK(w)',
           LoWeightsOK(loWeights'), loCurrent' \in LoSaved \cup {"none"},
           UNCHANGED <<loGrad, loTraining, loFiles>>,
           \/ loLoop' = loLoop /\ (w.phase = "load" <=> r.phase = "load")
           \/ loLoop = c /\ loLoop' = LoNone /\ w.phase # "load"
    PROVE  LoInv'
<1>1. /\ loCall' = [d \in LoCall |-> loCall'[d]] /\ loCall'[c] = w
      /\ \A d \in LoCall \ {c} : loCall'[d] = loCall[d]
  BY DEF LoInv
<1>2. \A d \in LoCall : LoCallOK(loCall[d]) /\ LoRunLearnt(d) /\ LoTextOK(loCall[d])
  BY DEF LoInv
<1>3. /\ DOMAIN r = LoAskFields /\ DOMAIN w = LoAskFields /\ w.phase # "new"
  BY DEF LoAskOK
<1>4. /\ ~LoIsTrain(c) /\ ~LoIsTrain(c)'
      /\ \A d \in LoCall : LoIsTrain(d) <=> LoIsTrain(d)'
      /\ \A d \in LoCall : LoActive(d)' => LoActive(d)
  BY <1>1, <1>3, LoKinds DEF LoIsTrain, LoActive
<1>5. ASSUME NEW d \in LoCall \ {c}, LoActive(d)
      PROVE  c \in loCall[d].met
  BY <1>5 DEF LoInv, LoMetOK
<1>5a. LoFailed => LoFailed'
  BY <1>1, <1>4 DEF LoFailed, LoActive
<1>6. LoDataOK'
  BY DEF LoInv, LoDataOK
<1>7. LoGradOK'
  <2>1. ASSUME NEW g \in loGrad PROVE LoOwner(g, loCall'[g[1]])
    <3>1. g[1] \in LoCall /\ LoOwner(g, loCall[g[1]])
      BY DEF LoInv, LoGradOK, LoDataOK
    <3>2. g[1] # c
      BY <1>3, <3>1, LoKinds DEF LoOwner
    <3> QED BY <1>1, <3>1, <3>2
  <2> QED BY <2>1 DEF LoGradOK
<1>8. LoMetOK'
  <2>1. ASSUME NEW d \in LoCall, NEW e \in LoCall, d # e, LoActive(d)', LoActive(e)'
        PROVE  e \in loCall'[d].met
    <3>1. e \in loCall[d].met
      BY <1>4, <2>1 DEF LoInv, LoMetOK
    <3> QED BY <1>1, <3>1
  <2> QED BY <2>1 DEF LoMetOK
<1>9. LoTrainingOK'
  <2>1. CASE ~loTraining
    BY <2>1 DEF LoInv, LoTrainingOK
  <2>2. CASE loTraining
    <3>1. PICK d \in LoCall : LoIsTrain(d) /\ loCall[d].phase \in LoInTrain \cup {"failed"}
      BY <2>2 DEF LoInv, LoTrainingOK
    <3>2. d # c
      BY <1>4, <3>1
    <3>3. LoIsTrain(d)' /\ loCall'[d].phase \in LoInTrain \cup {"failed"}
      BY <1>1, <1>4, <3>1, <3>2
    <3>4. loTraining' \in BOOLEAN
      BY DEF LoTrainingOK, LoInv
    <3> QED BY <3>3, <3>4 DEF LoTrainingOK
  <2> QED BY <2>1, <2>2
<1>10. LoLoopOK'
  <2>1. /\ loLoop \in LoCall \cup {LoNone}
        /\ \A d \in LoCall : loCall[d].phase = "load" <=> loLoop = d
    BY DEF LoInv, LoLoopOK
  <2>2. CASE loLoop' = loLoop /\ (w.phase = "load" <=> r.phase = "load")
    BY <1>1, <2>1, <2>2 DEF LoLoopOK
  <2>3. CASE loLoop = c /\ loLoop' = LoNone /\ w.phase # "load"
    BY <1>1, <2>1, <2>3, LoAssumption DEF LoLoopOK
  <2> QED BY <2>2, <2>3
<1>11. ASSUME NEW d \in LoCall
       PROVE  LoCallOK(loCall'[d]) /\ LoRunLearnt(d)' /\ LoTextOK(loCall[d])'
  <2>1. CASE d = c
    BY <1>1, <1>4, <2>1 DEF LoCallOK, LoRunLearnt
  <2>2. CASE d # c
    <3>1. loCall'[d] = loCall[d]
      BY <1>1, <2>2
    <3>2. LoRunLearnt(d)'
      <4>1. SUFFICES ASSUME LoIsTrain(d)', LoClean(d)'
                     PROVE  /\ LoLearnt(d, loCall[d])
                            /\ loCall[d].phase \in LoAdding => LoGathered(d, loCall[d]) \subseteq LoPairs
        BY <3>1 DEF LoRunLearnt, LoPairs
      <4>2. LoRunOK(loCall[d])
        BY <1>2, <1>4, <4>1, LoKindOf DEF LoIsTrain
      <4>3. LoClean(d)
        BY <1>4, <3>1, <4>1, <4>2 DEF LoClean, LoRunOK
      <4> QED BY <1>2, <1>4, <4>1, <4>3 DEF LoRunLearnt
    <3>3. LoTextOK(loCall[d])'
      <4>1. SUFFICES ASSUME DOMAIN loCall[d] = LoAskFields, loCall[d].met = {}
                     PROVE  LoTextOK(loCall[d])'
        BY <3>1 DEF LoTextOK
      <4>2. loCall[d].phase \notin {"load", "generate"}
        BY <1>5, <2>2, <4>1 DEF LoActive
      <4>3. LoTextOK(loCall[d])
        BY <1>2
      <4> QED BY <1>5a, <3>1, <4>1, <4>2, <4>3 DEF LoTextOK
    <3> QED BY <1>2, <3>1, <3>2, <3>3
  <2> QED BY <2>1, <2>2
<1> QED BY <1>1, <1>6, <1>7, <1>8, <1>9, <1>10, <1>11 DEF LoInv

\* A call begins: who is active meets it, and it meets who is active.
LEMMA LoEnterStep ==
    ASSUME LoInv, NEW c \in LoCall, loCall[c].phase = "new", NEW r, LoEnter(c, r),
           NEW w, w = [r EXCEPT !.met = LoOthers(c)],
           \/ LoRunOK(w) /\ w.phase = "begin" /\ LoLearnt(c, w)
           \/ LoAskOK(w) /\ LoTextOK(w),
           loLoop = LoNone, loLoop' = IF w.phase = "load" THEN c ELSE LoNone,
           UNCHANGED <<loWeights, loGrad, loTraining, loFiles, loCurrent>>
    PROVE  LoInv'
<1>1. /\ loCall' = [d \in LoCall |-> loCall'[d]] /\ loCall'[c] = w
      /\ \A d \in LoCall \ {c} :
            loCall'[d] = IF LoActive(d) THEN [loCall[d] EXCEPT !.met = @ \cup {c}] ELSE loCall[d]
  BY DEF LoEnter
<1>2. \A d \in LoCall : LoCallOK(loCall[d]) /\ LoRunLearnt(d) /\ LoTextOK(loCall[d])
  BY DEF LoInv
<1>3. loCall[c] = LoIdle /\ ~LoIsTrain(c) /\ ~LoActive(c)
  <2>1. loCall[c] = LoIdle
    BY <1>2, LoKindOf
  <2> QED BY <2>1, LoKinds DEF LoIsTrain, LoActive
<1>4. w.met = LoOthers(c) /\ w.phase # "new"
  <2>1. "met" \in DOMAIN w
    BY DEF LoRunOK, LoAskOK, LoTrainFields, LoAskFields
  <2>2. DOMAIN w = DOMAIN r
    OBVIOUS
  <2> QED BY <2>1, <2>2 DEF LoAskOK
<1>5. ASSUME NEW d \in LoCall \ {c}
      PROVE  /\ DOMAIN loCall'[d] = DOMAIN loCall[d] /\ LoCallOK(loCall'[d])
             /\ \A f \in DOMAIN loCall[d] \ {"met"} : loCall'[d][f] = loCall[d][f]
             /\ LoActive(d) => loCall'[d].met = loCall[d].met \cup {c}
             /\ ~LoActive(d) => loCall'[d] = loCall[d]
             /\ "phase" \in DOMAIN loCall[d]
  <2> PICK e : e = loCall[d]
    OBVIOUS
  <2>1. LoCallOK(e)
    BY <1>2
  <2>2. "phase" \in DOMAIN e
    BY <2>1 DEF LoCallOK, LoRunOK, LoAskOK, LoIdle, LoTrainFields, LoAskFields
  <2>3. CASE ~LoActive(d)
    BY <1>1, <2>1, <2>2, <2>3
  <2>4. CASE LoActive(d)
    <3>1. PICK u : u = [e EXCEPT !.met = @ \cup {c}]
      OBVIOUS
    <3>2. LoRunOK(e) \/ LoAskOK(e)
      BY <2>1, <2>4, LoKinds DEF LoCallOK, LoActive
    <3>3. "met" \in DOMAIN e
      BY <3>2 DEF LoRunOK, LoAskOK, LoTrainFields, LoAskFields
    <3>4. /\ DOMAIN u = DOMAIN e /\ u.met = e.met \cup {c}
          /\ \A f \in DOMAIN e \ {"met"} : u[f] = e[f]
      BY <3>1, <3>3
    <3>5. LoRunOK(e) => LoRunOK(u)
      BY <3>4 DEF LoRunOK, LoTrainFields
    <3>6. LoAskOK(e) => LoAskOK(u)
      BY <3>4 DEF LoAskOK, LoAskFields
    <3>7. loCall'[d] = u
      BY <1>1, <2>4, <3>1
    <3> QED BY <2>2, <2>4, <3>2, <3>4, <3>5, <3>6, <3>7 DEF LoCallOK
  <2> QED BY <2>3, <2>4
<1>6. /\ \A d \in LoCall \ {c} : LoIsTrain(d) <=> LoIsTrain(d)'
      /\ \A d \in LoCall \ {c} : loCall'[d].phase = loCall[d].phase
      /\ \A d \in LoCall \ {c} : LoActive(d)' <=> LoActive(d)
  BY <1>5 DEF LoIsTrain, LoActive
<1>6a. LoFailed => LoFailed'
  BY <1>3, <1>6 DEF LoFailed
<1>7. LoDataOK'
  BY DEF LoInv, LoDataOK
<1>8. LoGradOK'
  <2>1. ASSUME NEW g \in loGrad PROVE LoOwner(g, loCall'[g[1]])
    <3>1. g[1] \in LoCall /\ LoOwner(g, loCall[g[1]])
      BY DEF LoInv, LoGradOK, LoDataOK
    <3>2. g[1] # c
      BY <1>3, <3>1, LoKinds DEF LoOwner, LoTrainFields
    <3> QED BY <1>5, <3>1, <3>2 DEF LoOwner, LoTrainFields
  <2> QED BY <2>1 DEF LoGradOK
<1>9. LoMetOK'
  <2>1. ASSUME NEW d \in LoCall, NEW e \in LoCall, d # e, LoActive(d)', LoActive(e)'
        PROVE  e \in loCall'[d].met
    <3>1. CASE d = c
      BY <1>1, <1>4, <1>6, <2>1, <3>1 DEF LoOthers
    <3>2. CASE d # c /\ e = c
      BY <1>5, <1>6, <2>1, <3>2
    <3>3. CASE d # c /\ e # c
      <4>1. LoActive(d) /\ LoActive(e)
        BY <1>6, <2>1, <3>3
      <4>2. e \in loCall[d].met
        BY <2>1, <4>1 DEF LoInv, LoMetOK
      <4> QED BY <1>5, <3>3, <4>1, <4>2
    <3> QED BY <3>1, <3>2, <3>3
  <2> QED BY <2>1 DEF LoMetOK
<1>10. LoTrainingOK'
  <2>1. CASE ~loTraining
    BY <2>1 DEF LoInv, LoTrainingOK
  <2>2. CASE loTraining
    <3>1. PICK d \in LoCall : LoIsTrain(d) /\ loCall[d].phase \in LoInTrain \cup {"failed"}
      BY <2>2 DEF LoInv, LoTrainingOK
    <3>2. d # c
      BY <1>3, <3>1
    <3>3. LoIsTrain(d)' /\ loCall'[d].phase \in LoInTrain \cup {"failed"}
      BY <1>6, <3>1, <3>2
    <3>4. loTraining' \in BOOLEAN
      BY DEF LoTrainingOK, LoInv
    <3> QED BY <3>3, <3>4 DEF LoTrainingOK
  <2> QED BY <2>1, <2>2
<1>11. LoLoopOK'
  <2>1. /\ \A d \in LoCall : loCall[d].phase = "load" <=> loLoop = d
    BY DEF LoInv, LoLoopOK
  <2>2. \A d \in LoCall \ {c} : loCall'[d].phase # "load"
    BY <1>6, <2>1, LoAssumption
  <2> QED BY <1>1, <2>2, LoAssumption DEF LoLoopOK
<1>12. ASSUME NEW d \in LoCall
       PROVE  LoCallOK(loCall'[d]) /\ LoRunLearnt(d)' /\ LoTextOK(loCall[d])'
  <2>1. CASE d = c
    <3>1. CASE LoRunOK(w) /\ w.phase = "begin" /\ LoLearnt(c, w)
      <4>1. DOMAIN w = LoTrainFields /\ w.phase \notin LoAdding
        BY <3>1 DEF LoRunOK, LoAdding
      <4>2. LoLearnt(c, w)'
        BY <3>1 DEF LoLearnt, LoGroup
      <4>3. LoRunLearnt(c)'
        BY <1>1, <4>1, <4>2 DEF LoRunLearnt
      <4>4. LoTextOK(loCall[c])'
        BY <1>1, <4>1, LoKinds DEF LoTextOK
      <4> QED BY <1>1, <2>1, <3>1, <4>3, <4>4 DEF LoCallOK
    <3>2. CASE LoAskOK(w) /\ LoTextOK(w)
      <4>1. DOMAIN w = LoAskFields
        BY <3>2 DEF LoAskOK
      <4>2. LoRunLearnt(c)'
        BY <1>1, <4>1, LoKinds DEF LoRunLearnt, LoIsTrain
      <4>3. LoTextOK(loCall[c])'
        BY <1>1, <1>6a, <3>2 DEF LoTextOK
      <4> QED BY <1>1, <2>1, <3>2, <4>2, <4>3 DEF LoCallOK
    <3> QED BY <3>1, <3>2
  <2>2. CASE d # c
    <3> PICK e, u : e = loCall[d] /\ u = loCall'[d]
      OBVIOUS
    <3>1. /\ DOMAIN u = DOMAIN e /\ LoCallOK(u) /\ LoCallOK(e)
          /\ \A f \in DOMAIN e \ {"met"} : u[f] = e[f]
          /\ LoActive(d) => u.met = e.met \cup {c}
          /\ ~LoActive(d) => u = e
      BY <1>2, <1>5, <2>2
    <3>2. LoRunLearnt(d)'
      <4>1. SUFFICES ASSUME LoIsTrain(d)', LoClean(d)'
                     PROVE  /\ LoLearnt(d, u)
                            /\ u.phase \in LoAdding => LoGathered(d, u) \subseteq LoPairs
        BY DEF LoRunLearnt, LoPairs, LoLearnt, LoGathered, LoGroup
      <4>2. LoRunOK(e) /\ LoIsTrain(d)
        BY <1>6, <2>2, <3>1, <4>1, LoKindOf DEF LoIsTrain
      <4>3. LoClean(d)
        <5>1. ASSUME NEW f \in e.met, LoIsTrain(f) PROVE FALSE
          <6>1. f \in LoCall /\ f # c
            BY <1>3, <4>2, <5>1 DEF LoRunOK
          <6>2. LoIsTrain(f)'
            BY <1>6, <5>1, <6>1
          <6>3. f \in u.met
            BY <3>1
          <6> QED BY <4>1, <6>2, <6>3 DEF LoClean
        <5> QED BY <5>1 DEF LoClean
      <4>4. /\ LoLearnt(d, e)
            /\ e.phase \in LoAdding => LoGathered(d, e) \subseteq LoPairs
        BY <1>2, <4>2, <4>3 DEF LoRunLearnt
      <4>5. u.phase = e.phase /\ u.steps = e.steps /\ u.batches = e.batches /\ u.accum = e.accum
        BY <3>1, <4>2 DEF LoRunOK, LoTrainFields
      <4> QED BY <4>4, <4>5 DEF LoLearnt, LoGathered
    <3>3. LoTextOK(u)'
      <4>1. CASE LoActive(d)
        <5>1. u.met # {}
          BY <3>1, <4>1
        <5> QED BY <5>1 DEF LoTextOK
      <4>2. CASE ~LoActive(d)
        <5>1. u = e /\ LoTextOK(e)
          BY <1>2, <3>1, <4>2
        <5> QED BY <1>6a, <5>1 DEF LoTextOK
      <4> QED BY <4>1, <4>2
    <3> QED BY <3>1, <3>2, <3>3 DEF LoTextOK
  <2> QED BY <2>1, <2>2
<1> QED BY <1>1, <1>7, <1>8, <1>9, <1>10, <1>11, <1>12 DEF LoInv

\* The smaller of two numbers.
LEMMA LoMin ==
    ASSUME NEW a \in Int, NEW b \in Int
    PROVE  /\ a <= b => Min({a, b}) = a
           /\ b <= a => Min({a, b}) = b
<1>1. ASSUME a <= b PROVE Min({a, b}) = a
  <2>1. a \in {a, b} /\ \A y \in {a, b} : a <= y
    BY <1>1
  <2>2. ASSUME NEW x \in {a, b}, \A y \in {a, b} : x <= y PROVE x = a
    BY <1>1, <2>2
  <2> QED BY <2>1, <2>2 DEF Min
<1>2. ASSUME b <= a PROVE Min({a, b}) = b
  <2>1. b \in {a, b} /\ \A y \in {a, b} : b <= y
    BY <1>2
  <2>2. ASSUME NEW x \in {a, b}, \A y \in {a, b} : x <= y PROVE x = b
    BY <1>2, <2>2
  <2> QED BY <2>1, <2>2 DEF Min
<1> QED BY <1>1, <1>2

\* Groups of LoAccum follow one another.
LEMMA LoTimes ==
    ASSUME NEW n \in Nat
    PROVE  /\ n * LoAccum \in Nat /\ (n + 1) * LoAccum = n * LoAccum + LoAccum
           /\ \A k \in 1..n : (k - 1) * LoAccum \in Nat /\ k * LoAccum \in Nat /\ k * LoAccum <= n * LoAccum
<1>1. LoAccum \in Nat
  BY LoAssumption
<1>2. \A k \in Nat : k * LoAccum \in Nat
  BY <1>1
<1>3. ASSUME NEW k \in 1..n PROVE k * LoAccum <= n * LoAccum
  <2>1. PICK d \in Nat : n = k + d
    <3>1. n - k \in Nat /\ n = k + (n - k)
      OBVIOUS
    <3> QED BY <3>1
  <2>2. n * LoAccum = k * LoAccum + d * LoAccum
    BY <1>1, <2>1
  <2> QED BY <1>2, <2>2
<1>4. \A k \in 1..n : k \in Nat /\ k - 1 \in Nat
  OBVIOUS
<1> QED BY <1>1, <1>2, <1>3, <1>4

\* A whole group is the same however many batches follow.
LEMMA LoGroupWhole ==
    ASSUME NEW c, NEW n \in Nat, NEW k \in 1..n, NEW a \in Nat, NEW b \in Nat,
           n * LoAccum <= a, n * LoAccum <= b
    PROVE  LoGroup(c, k, a) = LoGroup(c, k, b)
<1>1. PICK m \in Nat : m = k * LoAccum /\ m <= n * LoAccum /\ n * LoAccum \in Nat
  BY LoTimes
<1>2. m <= a /\ m <= b
  BY <1>1
<1>3. Min({m, a}) = m /\ Min({m, b}) = m
  BY <1>2, LoMin
<1> QED BY <1>1, <1>3 DEF LoGroup

\* The gathered batches are the next group.
LEMMA LoGroupNext ==
    ASSUME NEW c, NEW r, r.batches \in Nat, r.accum \in 0..r.batches, r.accum <= LoAccum,
           NEW n \in Nat, n * LoAccum + r.accum = r.batches
    PROVE  /\ LoGathered(c, r) = LoGroup(c, n + 1, r.batches)
           /\ r.batches <= (n + 1) * LoAccum
<1> PICK a, b, p : a = r.accum /\ b = r.batches /\ p = n * LoAccum
  OBVIOUS
<1>1. /\ p \in Nat /\ (n + 1) * LoAccum = p + LoAccum /\ LoAccum \in Nat /\ p + a = b
      /\ a \in Nat /\ b \in Nat /\ a <= LoAccum
  BY LoTimes, LoAssumption
<1>2. PICK m \in Nat : m = (n + 1) * LoAccum
  BY <1>1
<1>3. b <= m /\ Min({m, b}) = b
  <2>1. b <= m
    BY <1>1, <1>2
  <2> QED BY <1>1, <2>1, LoMin
<1>4. b - a + 1 = p + 1 /\ (n + 1) - 1 = n
  BY <1>1
<1>5. LoGathered(c, r) = {<<c, i>> : i \in (p + 1)..b}
  BY <1>4 DEF LoGathered
<1>6. LoGroup(c, n + 1, b) = {<<c, i>> : i \in (p + 1)..b}
  <2>1. PICK k : k = n + 1 /\ k - 1 = n
    BY <1>4
  <2>2. LoGroup(c, k, b) = {<<c, i>> : i \in (n * LoAccum + 1)..Min({k * LoAccum, b})}
    BY <2>1 DEF LoGroup
  <2> QED BY <1>2, <1>3, <2>1, <2>2
<1> QED BY <1>2, <1>3, <1>5, <1>6

\* One more batch behind whole groups.
LEMMA LoLearntMore ==
    ASSUME NEW c, NEW r, NEW w, r.batches \in Nat, w.batches \in Nat,
           r.steps \in Seq(SUBSET (LoCall \X Nat)), w.steps = r.steps,
           Len(r.steps) * LoAccum <= r.batches, Len(r.steps) * LoAccum <= w.batches,
           \A k \in 1..Len(r.steps) : r.steps[k] = LoGroup(c, k, r.batches)
    PROVE  \A k \in 1..Len(w.steps) : w.steps[k] = LoGroup(c, k, w.batches)
<1>1. PICK n \in Nat : n = Len(r.steps)
  OBVIOUS
<1> QED BY <1>1, LoGroupWhole

\* What the invariant says of a trainer that is at work.
LEMMA LoTraining ==
    ASSUME LoInv, NEW c \in LoCall, NEW r, r = loCall[c], r.phase \in LoInTrain \cup {"begin", "save"}
    PROVE  /\ LoRunOK(r) /\ LoActive(c)
           /\ LoClean(c) => LoLearnt(c, r)
           /\ LoClean(c) /\ r.phase \in LoAdding => LoGathered(c, r) \subseteq LoPairs
           /\ loGrad \subseteq LoCall \X Nat \X BOOLEAN
           /\ \A g \in loGrad : (g \in loGrad /\ g[1] # c) \/ (g[1] = c /\ LoOwner(g, r))
           /\ LoWeightsOK(loWeights)
           /\ loFiles = [f \in LoSaved |-> loFiles[f]]
           /\ \A f \in LoSaved : DOMAIN loFiles[f] \subseteq LoLayer
           /\ loTraining \in BOOLEAN
<1>1. r.phase \notin {"new", "load", "generate", "done", "failed"}
  BY DEF LoInTrain, LoAdding
<1>2. LoRunOK(r)
  BY <1>1, LoKinds DEF LoInv, LoCallOK, LoAskOK
<1>3. LoActive(c) /\ LoIsTrain(c)
  BY <1>1, <1>2, LoKinds DEF LoActive, LoIsTrain, LoRunOK
<1>4. LoRunLearnt(c) /\ LoDataOK /\ LoGradOK /\ LoTrainingOK
  BY DEF LoInv
<1>5. \A g \in loGrad : LoOwner(g, loCall[g[1]])
  BY <1>4 DEF LoGradOK
<1> QED BY <1>2, <1>3, <1>4, <1>5 DEF LoRunLearnt, LoDataOK, LoTrainingOK

\* Who adds to .grad while c runs alone: nobody else.
LEMMA LoOnly ==
    ASSUME LoInv, NEW c \in LoCall, NEW r, r = loCall[c], r.phase \in LoAdding, LoClean(c)
    PROVE  LoPairs = LoGathered(c, r)
<1>1. /\ LoRunOK(r) /\ LoActive(c) /\ LoGathered(c, r) \subseteq LoPairs
      /\ loGrad \subseteq LoCall \X Nat \X BOOLEAN
  BY LoTraining DEF LoInTrain
<1>2. ASSUME NEW g \in loGrad PROVE <<g[1], g[2]>> \in LoGathered(c, r)
  <2>1. g[1] \in LoCall /\ LoOwner(g, loCall[g[1]])
    BY <1>1 DEF LoInv, LoGradOK
  <2>2. LoIsTrain(g[1]) /\ LoActive(g[1])
    BY <2>1, LoKinds DEF LoOwner, LoIsTrain, LoActive, LoAdding
  <2>3. g[1] = c
    <3>1. g[1] # c => g[1] \in loCall[c].met
      BY <1>1, <2>1, <2>2 DEF LoInv, LoMetOK
    <3> QED BY <2>2, <3>1 DEF LoClean
  <2> QED BY <2>1, <2>3 DEF LoOwner, LoGathered
<1> QED BY <1>1, <1>2 DEF LoPairs

LEMMA LoTrainBeginStep == ASSUME LoInv, NEW c \in LoCall, LoTrainBegin(c) PROVE LoInv'
<1> PICK r : r = loCall[c]
  OBVIOUS
<1>1. /\ r.phase = "begin" /\ loTraining' = TRUE
      /\ UNCHANGED <<loWeights, loGrad, loFiles, loCurrent, loLoop>>
  BY DEF LoTrainBegin
<1>2. PICK w, phase : /\ phase = IF r.samples = <<>> THEN "failed" ELSE "epoch"
                      /\ w = [r EXCEPT !.phase = phase]
  OBVIOUS
<1>3. loCall' = [loCall EXCEPT ![c] = w]
  BY <1>2 DEF LoTrainBegin, LoUpdate
<1>4. /\ LoRunOK(r) /\ LoActive(c)
      /\ LoClean(c) => LoLearnt(c, r)
      /\ loGrad \subseteq LoCall \X Nat \X BOOLEAN
      /\ \A g \in loGrad : (g \in loGrad /\ g[1] # c) \/ (g[1] = c /\ LoOwner(g, r))
      /\ LoWeightsOK(loWeights)
      /\ loFiles = [f \in LoSaved |-> loFiles[f]]
      /\ \A f \in LoSaved : DOMAIN loFiles[f] \subseteq LoLayer
  BY <1>1, LoTraining
<1>5. /\ DOMAIN w = DOMAIN r /\ w.phase \in {"epoch", "failed"}
      /\ \A f \in LoTrainFields \ {"phase"} : w[f] = r[f]
  BY <1>2, <1>4 DEF LoRunOK, LoTrainFields
<1>6. LoRunOK(w) /\ w.met = r.met
  <2>1. w.accum = 0 /\ 0 < LoAccum
    BY <1>1, <1>4, <1>5, LoAssumption DEF LoRunOK, LoTrainFields
  <2> QED BY <1>1, <1>4, <1>5, <2>1 DEF LoRunOK, LoTrainFields, LoTrainPhases, LoInTrain, LoAdding
<1>7. \A g \in loGrad : g[1] # c
  BY <1>1, <1>4 DEF LoOwner, LoAdding
<1>8. ASSUME LoClean(c) PROVE LoLearnt(c, w)
  <2>1. LoLearnt(c, r)
    BY <1>4, <1>8
  <2>2. PICK p \in Nat : p = Len(r.steps) * LoAccum
    <3>1. Len(r.steps) \in Nat
      BY <1>4 DEF LoRunOK
    <3>2. Len(r.steps) * LoAccum \in Nat
      BY <3>1, LoTimes
    <3> QED BY <3>2
  <2>3. r.accum = 0 /\ r.batches \in Nat /\ p + r.accum = r.batches
    BY <1>1, <1>4, <2>1, <2>2 DEF LoRunOK, LoLearnt, LoLooping
  <2>4. p = r.batches
    BY <2>3
  <2> QED BY <1>1, <1>5, <2>1, <2>2, <2>3, <2>4 DEF LoLearnt, LoLooping, LoTrainFields
<1>9. w.accum = 0
  BY <1>1, <1>4, <1>5 DEF LoRunOK, LoTrainFields
<1>10. LoGathered(c, w) = {}
  BY <1>6, <1>9 DEF LoGathered, LoRunOK
<1>11. w.phase \in LoInTrain \/ w.phase = "failed"
  BY <1>5 DEF LoInTrain, LoAdding
<1>12. /\ loGrad' \subseteq LoCall \X Nat \X BOOLEAN
       /\ \A g \in loGrad' : (g \in loGrad /\ g[1] # c) \/ (g[1] = c /\ LoOwner(g, w))
       /\ LoClean(c) /\ w.phase \in LoAdding => LoGathered(c, w) \subseteq LoPairs'
       /\ loTraining' \in BOOLEAN
       /\ LoWeightsOK(loWeights')
       /\ loFiles' = [f \in LoSaved |-> loFiles'[f]]
       /\ \A f \in LoSaved : DOMAIN loFiles'[f] \subseteq LoLayer
  BY <1>1, <1>4, <1>7, <1>10
<1> QED BY <1>1, <1>3, <1>4, <1>6, <1>8, <1>11, <1>12, LoTrainerStep

\* Shuffling changes no count.
LEMMA LoEpochStep == ASSUME LoInv, NEW c \in LoCall, LoEpoch(c) PROVE LoInv'
<1> PICK r : r = loCall[c]
  OBVIOUS
<1>1. /\ r.phase = "epoch" /\ UNCHANGED <<loWeights, loGrad, loTraining, loFiles, loCurrent, loLoop>>
  BY DEF LoEpoch
<1>2. PICK w, phase : /\ loCall' = [loCall EXCEPT ![c] = w]
                      /\ \/ /\ phase = "batch"
                            /\ \E order : w = [r EXCEPT !.phase = phase, !.epochs = @ - 1, !.order = order]
                         \/ /\ phase = IF r.accum > 0 THEN "leftover" ELSE "finish"
                            /\ w = [r EXCEPT !.phase = phase]
  <2>1. CASE r.epochs > 0
    <3>1. PICK p \in Permutations(DOMAIN r.samples) :
             LoUpdate(c, [r EXCEPT !.phase = "batch", !.epochs = @ - 1,
                                   !.order = [i \in DOMAIN p |-> r.samples[p[i]]]])
      BY <2>1 DEF LoEpoch
    <3>2. PICK order : order = [i \in DOMAIN p |-> r.samples[p[i]]]
      OBVIOUS
    <3>3. PICK w : w = [r EXCEPT !.phase = "batch", !.epochs = @ - 1, !.order = order]
      OBVIOUS
    <3>4. loCall' = [loCall EXCEPT ![c] = w]
      BY <3>1, <3>2, <3>3 DEF LoUpdate
    <3> QED BY <3>3, <3>4, ZenonT(30)
  <2>2. CASE ~(r.epochs > 0)
    <3>1. PICK phase : phase = IF r.accum > 0 THEN "leftover" ELSE "finish"
      OBVIOUS
    <3>2. PICK w : w = [r EXCEPT !.phase = phase]
      OBVIOUS
    <3>3. loCall' = [loCall EXCEPT ![c] = w]
      BY <2>2, <3>1, <3>2 DEF LoEpoch, LoUpdate
    <3> QED BY <3>1, <3>2, <3>3
  <2> QED BY <2>1, <2>2
<1>4. /\ LoRunOK(r) /\ LoActive(c)
      /\ LoClean(c) => LoLearnt(c, r)
      /\ LoClean(c) /\ r.phase \in LoAdding => LoGathered(c, r) \subseteq LoPairs
      /\ loGrad \subseteq LoCall \X Nat \X BOOLEAN
      /\ \A g \in loGrad : (g \in loGrad /\ g[1] # c) \/ (g[1] = c /\ LoOwner(g, r))
      /\ LoWeightsOK(loWeights)
      /\ loFiles = [f \in LoSaved |-> loFiles[f]]
      /\ \A f \in LoSaved : DOMAIN loFiles[f] \subseteq LoLayer
      /\ loTraining \in BOOLEAN
  BY <1>1, LoTraining DEF LoInTrain, LoAdding
<1>5. /\ DOMAIN w = DOMAIN r /\ w.phase = phase
      /\ \A f \in LoTrainFields \ {"phase", "epochs", "order"} : w[f] = r[f]
      /\ phase \in {"batch", "leftover", "finish"} /\ (phase = "finish" => ~(r.accum > 0))
  BY <1>2, <1>4 DEF LoRunOK, LoTrainFields
<1>6. LoRunOK(w) /\ w.met = r.met /\ w.accum = r.accum /\ w.batches = r.batches
  BY <1>1, <1>4, <1>5 DEF LoRunOK, LoTrainFields, LoTrainPhases, LoInTrain, LoAdding
<1>7. r.accum \in Nat /\ r.batches \in Nat
  BY <1>4 DEF LoRunOK
<1>8. \A g \in loGrad : (g \in loGrad /\ g[1] # c) \/ (g[1] = c /\ LoOwner(g, w))
  <2>1. ASSUME NEW g, LoOwner(g, r) PROVE LoOwner(g, w)
    <3>1. phase # "finish"
      BY <1>5, <1>7, <2>1 DEF LoOwner
    <3> QED BY <1>5, <1>6, <2>1, <3>1 DEF LoOwner, LoAdding
  <2> QED BY <1>4, <2>1
<1>9. LoClean(c) => LoLearnt(c, w)
  <2>1. SUFFICES ASSUME LoClean(c) PROVE LoLearnt(c, w)
    OBVIOUS
  <2>2. LoLearnt(c, r) /\ w.steps = r.steps
    BY <1>4, <1>5, <2>1 DEF LoTrainFields
  <2>3. Len(r.steps) * LoAccum + r.accum = r.batches
    BY <1>1, <2>2 DEF LoLearnt, LoLooping
  <2>4. Len(r.steps) \in Nat /\ Len(r.steps) * LoAccum \in Nat
    BY <1>4, LoTimes DEF LoRunOK
  <2>5. phase = "finish" => r.batches <= Len(r.steps) * LoAccum
    BY <1>5, <1>7, <2>3, <2>4
  <2> QED BY <1>5, <1>6, <2>2, <2>3, <2>5 DEF LoLearnt, LoLooping
<1>10. LoClean(c) /\ w.phase \in LoAdding => LoGathered(c, w) \subseteq LoPairs'
  <2>1. LoGathered(c, w) = LoGathered(c, r) /\ LoPairs' = LoPairs
    BY <1>1, <1>6 DEF LoGathered, LoPairs
  <2> QED BY <1>1, <1>4, <2>1 DEF LoAdding
<1>11. w.phase \in LoInTrain
  BY <1>5 DEF LoInTrain, LoAdding
<1> QED BY <1>1, <1>2, <1>4, <1>6, <1>8, <1>9, <1>10, <1>11, LoTrainerStep, ZenonT(80)

\* The gradient of one more batch, or the end of an epoch.
LEMMA LoBackwardStep == ASSUME LoInv, NEW c \in LoCall, LoBackward(c) PROVE LoInv'
<1> PICK r : r = loCall[c]
  OBVIOUS
<1>1. /\ r.phase = "batch" /\ UNCHANGED <<loWeights, loTraining, loFiles, loCurrent, loLoop>>
  BY DEF LoBackward
<1>2. /\ LoRunOK(r) /\ LoActive(c)
      /\ LoClean(c) => LoLearnt(c, r)
      /\ LoClean(c) /\ r.phase \in LoAdding => LoGathered(c, r) \subseteq LoPairs
      /\ loGrad \subseteq LoCall \X Nat \X BOOLEAN
      /\ \A g \in loGrad : (g \in loGrad /\ g[1] # c) \/ (g[1] = c /\ LoOwner(g, r))
      /\ LoWeightsOK(loWeights)
      /\ loFiles = [f \in LoSaved |-> loFiles[f]]
      /\ \A f \in LoSaved : DOMAIN loFiles[f] \subseteq LoLayer
      /\ loTraining \in BOOLEAN
  BY <1>1, LoTraining DEF LoInTrain, LoAdding
<1>3. /\ r.accum \in Nat /\ r.batches \in Nat /\ r.accum <= r.batches /\ r.accum < LoAccum
      /\ LoAccum \in Nat /\ r.steps \in Seq(SUBSET (LoCall \X Nat))
      /\ DOMAIN r = LoTrainFields
  BY <1>1, <1>2, LoAssumption DEF LoRunOK
<1>4. CASE r.order = <<>>
  <2>1. PICK w : w = [r EXCEPT !.phase = "epoch"]
    OBVIOUS
  <2>2. loCall' = [loCall EXCEPT ![c] = w] /\ loGrad' = loGrad
    BY <1>4, <2>1 DEF LoBackward, LoUpdate
  <2>3. /\ DOMAIN w = DOMAIN r /\ w.phase = "epoch"
        /\ \A f \in LoTrainFields \ {"phase"} : w[f] = r[f]
    BY <1>3, <2>1 DEF LoTrainFields
  <2>4. /\ LoRunOK(w) /\ w.met = r.met /\ w.accum = r.accum /\ w.batches = r.batches
        /\ w.steps = r.steps
    BY <1>1, <1>2, <2>3 DEF LoRunOK, LoTrainFields, LoTrainPhases, LoInTrain, LoAdding
  <2>5. \A g \in loGrad : (g \in loGrad /\ g[1] # c) \/ (g[1] = c /\ LoOwner(g, w))
    BY <1>1, <1>2, <2>3, <2>4 DEF LoOwner, LoAdding
  <2>6. LoClean(c) => LoLearnt(c, w)
    BY <1>1, <1>2, <2>3, <2>4 DEF LoLearnt, LoLooping
  <2>7. LoClean(c) /\ w.phase \in LoAdding => LoGathered(c, w) \subseteq LoPairs'
    <3>1. LoGathered(c, w) = LoGathered(c, r) /\ LoPairs' = LoPairs
      BY <2>2, <2>4 DEF LoGathered, LoPairs
    <3> QED BY <1>1, <1>2, <3>1 DEF LoAdding
  <2>8. w.phase \in LoInTrain
    BY <2>3 DEF LoInTrain, LoAdding
  <2> QED BY <1>1, <1>2, <2>2, <2>4, <2>5, <2>6, <2>7, <2>8, LoTrainerStep
<1>5. CASE r.order # <<>>
  <2>1. PICK n, batch, rest, tokens, phase :
           /\ n = Min({LoBatch, Len(r.order)}) /\ batch = SubSeq(r.order, 1, n)
           /\ rest = SubSeq(r.order, n + 1, Len(r.order))
           /\ tokens = r.tokens + LoTokens(batch)
           /\ phase = IF r.accum + 1 >= LoAccum THEN "step" ELSE "batch"
    OBVIOUS
  <2>2. PICK more, b : more = r.accum + 1 /\ b = r.batches + 1
    OBVIOUS
  <2>3. PICK nan \in BOOLEAN : nan = LoLossNaN(batch)
    BY DEF LoLossNaN
  <2>4. PICK w : w = [r EXCEPT !.order = rest, !.batches = b, !.accum = more,
                               !.tokens = tokens, !.phase = phase]
    OBVIOUS
  <2>5. loGrad' = loGrad \cup {<<c, b, nan>>}
    BY <1>5, <2>1, <2>2, <2>3 DEF LoBackward
  <2>6. loCall' = [loCall EXCEPT ![c] = w]
    BY <1>1, <1>5, <2>1, <2>2, <2>4 DEF LoBackward, LoUpdate
  <2>7. /\ DOMAIN w = DOMAIN r /\ w.phase = phase /\ w.batches = b /\ w.accum = more
        /\ w.met = r.met /\ w.steps = r.steps /\ w.file = r.file
    BY <1>3, <2>4 DEF LoTrainFields
  <2>8. /\ more \in 0..b /\ b \in Nat /\ more <= LoAccum /\ r.batches - r.accum = b - more
        /\ phase \in {"step", "batch"} /\ (phase = "step" => more = LoAccum)
        /\ (phase = "batch" => more < LoAccum)
    <3>1. /\ more \in 0..b /\ b \in Nat /\ more \in Nat /\ more <= LoAccum
          /\ r.batches - r.accum = b - more
      <4>1. PICK x \in Nat, y \in Nat, z \in Nat :
               x = r.accum /\ y = r.batches /\ z = LoAccum /\ x <= y /\ x < z
        BY <1>3
      <4>2. more = x + 1 /\ b = y + 1
        BY <2>2, <4>1
      <4>3. more \in Nat /\ b \in Nat /\ more <= b /\ more <= z /\ y - x = b - more
        BY <4>1, <4>2
      <4> QED BY <4>1, <4>3
    <3>2. CASE more >= LoAccum
      <4>1. phase = "step" /\ more = LoAccum
        BY <1>3, <2>1, <2>2, <3>1, <3>2
      <4> QED BY <3>1, <4>1
    <3>3. CASE ~(more >= LoAccum)
      <4>1. phase = "batch" /\ more < LoAccum
        BY <1>3, <2>1, <2>2, <3>1, <3>3
      <4> QED BY <3>1, <4>1
    <3> QED BY <3>2, <3>3
  <2>9. LoRunOK(w)
    BY <1>2, <2>7, <2>8 DEF LoRunOK, LoTrainPhases, LoInTrain, LoAdding
  <2>10. loGrad' \subseteq LoCall \X Nat \X BOOLEAN
    BY <1>2, <2>3, <2>5, <2>8
  <2>11. ASSUME NEW g \in loGrad'
         PROVE  (g \in loGrad /\ g[1] # c) \/ (g[1] = c /\ LoOwner(g, w))
    <3>1. CASE g \in loGrad
      <4>1. ASSUME LoOwner(g, r) PROVE LoOwner(g, w)
        <5>1. g[2] \in (r.batches - r.accum + 1)..r.batches
          BY <4>1 DEF LoOwner
        <5>2. g[2] \in (b - more + 1)..b
          BY <1>3, <2>2, <2>8, <5>1, SMTT(30)
        <5> QED BY <2>7, <2>8, <5>2, <1>3 DEF LoOwner, LoAdding
      <4> QED BY <1>2, <3>1, <4>1
    <3>2. CASE g = <<c, b, nan>>
      <4>1. g[1] = c /\ g[2] = b
        BY <3>2
      <4>2. b \in (b - more + 1)..b
        BY <1>3, <2>2
      <4> QED BY <1>3, <2>7, <2>8, <4>1, <4>2 DEF LoOwner, LoAdding
    <3> QED BY <2>5, <3>1, <3>2
  <2>12. ASSUME LoClean(c) PROVE LoLearnt(c, w) /\ LoGathered(c, w) \subseteq LoPairs'
    <3>1. /\ LoLearnt(c, r) /\ LoGathered(c, r) \subseteq LoPairs
      BY <1>1, <1>2, <2>12 DEF LoAdding
    <3>2. PICK p \in Nat : p = Len(r.steps) * LoAccum
      <4>1. Len(r.steps) \in Nat
        BY <1>3
      <4>2. Len(r.steps) * LoAccum \in Nat
        BY <4>1, LoTimes
      <4> QED BY <4>2
    <3>3. p + r.accum = r.batches
      BY <1>1, <3>1, <3>2 DEF LoLearnt, LoLooping
    <3>4. p <= r.batches /\ p <= b /\ p + more = b
      BY <1>3, <2>2, <3>3, SMTT(30)
    <3>5. \A k \in 1..Len(w.steps) : w.steps[k] = LoGroup(c, k, w.batches)
      <4>1. \A k \in 1..Len(r.steps) : r.steps[k] = LoGroup(c, k, r.batches)
        BY <3>1 DEF LoLearnt
      <4>2. /\ Len(r.steps) * LoAccum <= r.batches /\ Len(r.steps) * LoAccum <= w.batches
            /\ w.batches \in Nat /\ w.steps = r.steps
        BY <2>7, <2>8, <3>2, <3>4
      <4>3. r.batches \in Nat /\ r.steps \in Seq(SUBSET (LoCall \X Nat))
        BY <1>3
      <4> QED BY <4>1, <4>2, <4>3, LoLearntMore, ZenonT(30)
    <3>6. LoLearnt(c, w)
      BY <2>7, <2>8, <3>2, <3>4, <3>5 DEF LoLearnt, LoLooping
    <3>7. ASSUME NEW i \in (b - more + 1)..b PROVE <<c, i>> \in LoPairs'
      <4>1. CASE i = b
        <5>1. <<c, b, nan>> \in loGrad'
          BY <2>5
        <5> QED BY <4>1, <5>1 DEF LoPairs
      <4>2. CASE i # b
        <5>1. i \in (r.batches - r.accum + 1)..r.batches
          <6>1. PICK old \in Nat, added \in Nat : old = r.batches /\ added = r.accum
            BY <1>3
          <6>2. b = old + 1 /\ b - more + 1 = old - added + 1 /\ i # b
            BY <2>2, <4>2, <6>1
          <6>3. i \in (old - added + 1)..old
            BY <6>1, <6>2
          <6> QED BY <6>1, <6>3
        <5>2. <<c, i>> \in LoPairs
          BY <3>1, <5>1 DEF LoGathered
        <5> QED BY <2>5, <5>2 DEF LoPairs
      <4> QED BY <4>1, <4>2
    <3> QED BY <2>7, <3>6, <3>7 DEF LoGathered
  <2>13. w.phase \in LoInTrain
    BY <2>7, <2>8 DEF LoInTrain, LoAdding
  <2> QED BY <1>1, <1>2, <2>6, <2>7, <2>9, <2>10, <2>11, <2>12, <2>13, LoTrainerStep
<1> QED BY <1>4, <1>5

\* An optimizer step applies all of .grad; alone, that is the next group.
LEMMA LoStepStep == ASSUME LoInv, NEW c \in LoCall, LoStep(c) PROVE LoInv'
<1> PICK r : r = loCall[c]
  OBVIOUS
<1>1. /\ r.phase \in {"step", "leftover"}
      /\ UNCHANGED <<loGrad, loTraining, loFiles, loCurrent, loLoop>>
  BY DEF LoStep
<1>1a. LoWeightsOK(loWeights')
  BY DEF LoStep, LoInv, LoDataOK, LoWeightsOK
<1>2. /\ LoRunOK(r) /\ LoActive(c)
      /\ LoClean(c) => LoLearnt(c, r)
      /\ loGrad \subseteq LoCall \X Nat \X BOOLEAN
      /\ \A g \in loGrad : (g \in loGrad /\ g[1] # c) \/ (g[1] = c /\ LoOwner(g, r))
      /\ loFiles = [f \in LoSaved |-> loFiles[f]]
      /\ \A f \in LoSaved : DOMAIN loFiles[f] \subseteq LoLayer
      /\ loTraining \in BOOLEAN
  BY <1>1, LoTraining DEF LoInTrain, LoAdding
<1>3. PICK phase : phase = IF r.phase = "step" THEN "zero" ELSE "lastzero"
  OBVIOUS
<1>4. PICK steps : steps = Append(r.steps, LoPairs)
  OBVIOUS
<1>5. PICK w : w = [r EXCEPT !.steps = steps, !.phase = phase]
  OBVIOUS
<1>6. loCall' = [loCall EXCEPT ![c] = w]
  BY <1>3, <1>4, <1>5 DEF LoStep, LoUpdate, LoPairs
<1>7. /\ DOMAIN w = DOMAIN r /\ w.phase = phase /\ w.steps = steps
      /\ w.met = r.met /\ w.batches = r.batches /\ w.accum = r.accum /\ w.file = r.file
  BY <1>2, <1>5 DEF LoRunOK, LoTrainFields
<1>8. PICK n \in Nat : n = Len(r.steps)
  BY <1>2 DEF LoRunOK
<1>9. /\ steps \in Seq(SUBSET (LoCall \X Nat)) /\ Len(steps) = n + 1
      /\ \A k \in 1..(n + 1) : steps[k] = IF k = n + 1 THEN LoPairs ELSE r.steps[k]
  <2>1. LoPairs \in SUBSET (LoCall \X Nat)
    BY <1>2 DEF LoPairs
  <2> QED BY <1>2, <1>4, <1>8, <2>1, Lengthened DEF LoRunOK
<1>10. LoRunOK(w)
  BY <1>1, <1>2, <1>3, <1>7, <1>9 DEF LoRunOK, LoTrainPhases, LoInTrain, LoAdding
<1>11. \A g \in loGrad : (g \in loGrad /\ g[1] # c) \/ (g[1] = c /\ LoOwner(g, w))
  BY <1>2, <1>3, <1>7 DEF LoOwner, LoAdding
<1>12. ASSUME LoClean(c) PROVE LoLearnt(c, w) /\ LoGathered(c, w) \subseteq LoPairs'
  <2>1. LoLearnt(c, r) /\ LoPairs = LoGathered(c, r)
    BY <1>1, <1>2, <1>12, LoOnly DEF LoAdding
  <2>2. n * LoAccum + r.accum = r.batches
    BY <1>1, <1>8, <2>1 DEF LoLearnt, LoLooping
  <2>3. LoPairs = LoGroup(c, n + 1, r.batches) /\ r.batches <= (n + 1) * LoAccum
    BY <1>2, <2>1, <2>2, LoGroupNext DEF LoRunOK
  <2>4. \A k \in 1..Len(w.steps) : w.steps[k] = LoGroup(c, k, w.batches)
    <3>1. ASSUME NEW k \in 1..(n + 1) PROVE steps[k] = LoGroup(c, k, r.batches)
      <4>1. CASE k = n + 1
        BY <1>9, <2>3, <4>1
      <4>2. CASE k # n + 1
        <5>1. k \in 1..n
          BY <4>2
        <5> QED BY <1>8, <1>9, <2>1, <4>2, <5>1 DEF LoLearnt
      <4> QED BY <4>1, <4>2
    <3> QED BY <1>7, <1>9, <3>1
  <2>5. w.phase = "zero" => Len(w.steps) * LoAccum = w.batches
    <3>1. SUFFICES ASSUME w.phase = "zero" PROVE (n + 1) * LoAccum = r.batches
      BY <1>7, <1>9
    <3>2. r.accum = LoAccum
      BY <1>1, <1>2, <1>3, <1>7, <3>1 DEF LoRunOK
    <3> QED BY <2>2, <3>2, LoTimes
  <2>6. LoLearnt(c, w)
    BY <1>3, <1>7, <1>9, <2>3, <2>4, <2>5 DEF LoLearnt, LoLooping
  <2>7. LoGathered(c, w) = LoPairs /\ LoPairs' = LoPairs
    BY <1>1, <1>7, <2>1 DEF LoGathered, LoPairs
  <2> QED BY <2>6, <2>7
<1>13. w.phase \in LoInTrain
  BY <1>3, <1>7 DEF LoInTrain, LoAdding
<1> QED BY <1>1, <1>1a, <1>2, <1>6, <1>7, <1>10, <1>11, <1>12, <1>13, LoTrainerStep

\* The gradients are cleared, everybody's.
LEMMA LoZeroGradStep == ASSUME LoInv, NEW c \in LoCall, LoZeroGrad(c) PROVE LoInv'
<1> PICK r : r = loCall[c]
  OBVIOUS
<1>1. /\ r.phase \in {"zero", "lastzero"} /\ loGrad' = {}
      /\ UNCHANGED <<loWeights, loTraining, loFiles, loCurrent, loLoop>>
  BY DEF LoZeroGrad
<1>2. /\ LoRunOK(r) /\ LoActive(c)
      /\ LoClean(c) => LoLearnt(c, r)
      /\ LoWeightsOK(loWeights)
      /\ loFiles = [f \in LoSaved |-> loFiles[f]]
      /\ \A f \in LoSaved : DOMAIN loFiles[f] \subseteq LoLayer
      /\ loTraining \in BOOLEAN
  BY <1>1, LoTraining DEF LoInTrain, LoAdding
<1>3. PICK w : /\ loCall' = [loCall EXCEPT ![c] = w]
               /\ \/ r.phase = "zero" /\ \E t : w = [r EXCEPT !.total = t, !.accum = 0, !.phase = "batch"]
                  \/ r.phase = "lastzero" /\ w = [r EXCEPT !.phase = "finish"]
  <2>1. CASE r.phase = "zero"
    <3>1. PICK w, t : t = r.total + 1 /\ w = [r EXCEPT !.total = t, !.accum = 0, !.phase = "batch"]
      OBVIOUS
    <3>2. loCall' = [loCall EXCEPT ![c] = w]
      BY <2>1, <3>1 DEF LoZeroGrad, LoUpdate
    <3> QED BY <2>1, <3>1, <3>2
  <2>2. CASE r.phase # "zero"
    <3>1. PICK w : w = [r EXCEPT !.phase = "finish"]
      OBVIOUS
    <3>2. loCall' = [loCall EXCEPT ![c] = w] /\ r.phase = "lastzero"
      BY <1>1, <2>2, <3>1 DEF LoZeroGrad, LoUpdate
    <3> QED BY <3>1, <3>2
  <2> QED BY <2>1, <2>2
<1>4. /\ DOMAIN w = DOMAIN r /\ w.met = r.met /\ w.batches = r.batches /\ w.steps = r.steps
      /\ w.file = r.file
      /\ \/ r.phase = "zero" /\ w.phase = "batch" /\ w.accum = 0
         \/ r.phase = "lastzero" /\ w.phase = "finish" /\ w.accum = r.accum
  BY <1>2, <1>3 DEF LoRunOK, LoTrainFields
<1>5. /\ LoRunOK(w) /\ r.batches \in Nat /\ r.steps \in Seq(SUBSET (LoCall \X Nat))
  <2>1. LoAccum \in Nat /\ 0 < LoAccum
    BY LoAssumption
  <2> QED BY <1>2, <1>4, <2>1 DEF LoRunOK, LoTrainPhases, LoInTrain, LoAdding
<1>6. ASSUME LoClean(c) PROVE LoLearnt(c, w) /\ (w.phase \in LoAdding => LoGathered(c, w) \subseteq LoPairs')
  <2>1. LoLearnt(c, r)
    BY <1>2, <1>6
  <2>2. PICK p \in Nat : p = Len(r.steps) * LoAccum
    BY <1>5, LoTimes
  <2>3. CASE r.phase = "zero"
    <3>1. p = r.batches /\ p + 0 = r.batches
      BY <1>5, <2>1, <2>2, <2>3 DEF LoLearnt
    <3>2. w.phase = "batch" /\ w.accum = 0
      BY <1>4, <2>3
    <3>3. LoLearnt(c, w)
      BY <1>4, <2>1, <2>2, <3>1, <3>2 DEF LoLearnt, LoLooping
    <3>4. LoGathered(c, w) = {}
      BY <1>4, <1>5, <3>2 DEF LoGathered
    <3> QED BY <3>3, <3>4
  <2>4. CASE r.phase = "lastzero"
    <3>1. w.phase = "finish"
      BY <1>4, <2>4
    <3> QED BY <1>4, <2>1, <2>4, <3>1 DEF LoLearnt, LoLooping, LoAdding
  <2> QED BY <1>1, <2>3, <2>4
<1>7. w.phase \in LoInTrain
  BY <1>4 DEF LoInTrain, LoAdding
<1>8. /\ loCall' = [loCall EXCEPT ![c] = w] /\ w.met = r.met
      /\ loGrad' \subseteq LoCall \X Nat \X BOOLEAN
      /\ \A g \in loGrad' : (g \in loGrad /\ g[1] # c) \/ (g[1] = c /\ LoOwner(g, w))
      /\ loTraining' \in BOOLEAN
      /\ (loTraining' => w.phase \in LoInTrain \/ w.phase = "failed" \/ (loTraining /\ r.phase \notin LoInTrain))
      /\ LoWeightsOK(loWeights')
      /\ loFiles' = [f \in LoSaved |-> loFiles'[f]]
      /\ \A f \in LoSaved : DOMAIN loFiles'[f] \subseteq LoLayer
      /\ UNCHANGED <<loCurrent, loLoop>>
  BY <1>1, <1>2, <1>3, <1>4, <1>7
<1>9. LoClean(c) /\ w.phase \in LoAdding => LoGathered(c, w) \subseteq LoPairs'
  BY <1>6
<1> QED BY <1>2, <1>5, <1>6, <1>8, <1>9, LoTrainerStep

LEMMA LoTrainEndStep == ASSUME LoInv, NEW c \in LoCall, LoTrainEnd(c) PROVE LoInv'
<1> PICK r : r = loCall[c]
  OBVIOUS
<1>1. /\ r.phase = "finish" /\ loTraining' = FALSE
      /\ UNCHANGED <<loWeights, loGrad, loFiles, loCurrent, loLoop>>
  BY DEF LoTrainEnd
<1>2. PICK w : w = [r EXCEPT !.phase = "save"]
  OBVIOUS
<1>3. loCall' = [loCall EXCEPT ![c] = w]
  BY <1>2 DEF LoTrainEnd, LoUpdate
<1>4. /\ LoRunOK(r) /\ LoActive(c)
      /\ LoClean(c) => LoLearnt(c, r)
      /\ loGrad \subseteq LoCall \X Nat \X BOOLEAN
      /\ \A g \in loGrad : (g \in loGrad /\ g[1] # c) \/ (g[1] = c /\ LoOwner(g, r))
      /\ LoWeightsOK(loWeights)
      /\ loFiles = [f \in LoSaved |-> loFiles[f]]
      /\ \A f \in LoSaved : DOMAIN loFiles[f] \subseteq LoLayer
  BY <1>1, LoTraining DEF LoInTrain
<1>5. /\ DOMAIN w = DOMAIN r /\ w.phase = "save" /\ w.met = r.met /\ w.batches = r.batches
      /\ w.steps = r.steps /\ w.file = r.file /\ w.accum = r.accum
  BY <1>2, <1>4 DEF LoRunOK, LoTrainFields
<1>6. LoRunOK(w)
  BY <1>4, <1>5 DEF LoRunOK, LoTrainPhases
<1>7. \A g \in loGrad : g[1] # c
  BY <1>1, <1>4 DEF LoOwner, LoAdding
<1>8. LoClean(c) => LoLearnt(c, w)
  BY <1>1, <1>4, <1>5 DEF LoLearnt, LoLooping
<1>9. w.phase \notin LoAdding
  BY <1>5 DEF LoAdding
<1>10. \A g \in loGrad' : (g \in loGrad /\ g[1] # c) \/ (g[1] = c /\ LoOwner(g, w))
  BY <1>1, <1>7
<1>11. /\ loGrad' \subseteq LoCall \X Nat \X BOOLEAN /\ loTraining' \in BOOLEAN
       /\ LoWeightsOK(loWeights')
       /\ loFiles' = [f \in LoSaved |-> loFiles'[f]]
       /\ \A f \in LoSaved : DOMAIN loFiles'[f] \subseteq LoLayer
       /\ UNCHANGED <<loCurrent, loLoop>>
       /\ (loTraining' => w.phase \in LoInTrain \/ w.phase = "failed" \/ (loTraining /\ r.phase \notin LoInTrain))
       /\ (LoClean(c) /\ w.phase \in LoAdding => LoGathered(c, w) \subseteq LoPairs')
  BY <1>1, <1>4, <1>9
<1> QED BY <1>3, <1>4, <1>5, <1>6, <1>8, <1>10, <1>11, LoTrainerStep

LEMMA LoSaveStep == ASSUME LoInv, NEW c \in LoCall, LoSave(c) PROVE LoInv'
<1> PICK r : r = loCall[c]
  OBVIOUS
<1>1. /\ r.phase = "save" /\ UNCHANGED <<loWeights, loGrad, loTraining, loCurrent, loLoop>>
  BY DEF LoSave
<1>2. PICK w : w = [r EXCEPT !.phase = "done"]
  OBVIOUS
<1>3. loCall' = [loCall EXCEPT ![c] = w]
  BY <1>2 DEF LoSave, LoUpdate
<1>4. /\ LoRunOK(r) /\ LoActive(c)
      /\ LoClean(c) => LoLearnt(c, r)
      /\ loGrad \subseteq LoCall \X Nat \X BOOLEAN
      /\ \A g \in loGrad : (g \in loGrad /\ g[1] # c) \/ (g[1] = c /\ LoOwner(g, r))
      /\ LoWeightsOK(loWeights)
      /\ loFiles = [f \in LoSaved |-> loFiles[f]]
      /\ \A f \in LoSaved : DOMAIN loFiles[f] \subseteq LoLayer
      /\ loTraining \in BOOLEAN
  BY <1>1, LoTraining
<1>5. /\ DOMAIN w = DOMAIN r /\ w.phase = "done" /\ w.met = r.met /\ w.batches = r.batches
      /\ w.steps = r.steps /\ w.file = r.file /\ w.accum = r.accum
  BY <1>2, <1>4 DEF LoRunOK, LoTrainFields
<1>6. LoRunOK(w)
  BY <1>4, <1>5 DEF LoRunOK, LoTrainPhases
<1>7. \A g \in loGrad : g[1] # c
  BY <1>1, <1>4 DEF LoOwner, LoAdding
<1>8. LoClean(c) => LoLearnt(c, w)
  BY <1>1, <1>4, <1>5 DEF LoLearnt, LoLooping
<1>9. w.phase \notin LoAdding /\ r.phase \notin LoInTrain
  BY <1>1, <1>5 DEF LoAdding, LoInTrain
<1>10. \A g \in loGrad' : (g \in loGrad /\ g[1] # c) \/ (g[1] = c /\ LoOwner(g, w))
  BY <1>1, <1>7
<1>11. /\ loFiles' = [f \in LoSaved |-> loFiles'[f]]
       /\ \A f \in LoSaved : DOMAIN loFiles'[f] \subseteq LoLayer
  <2>1. CASE r.file = "none"
    BY <1>4, <2>1 DEF LoSave
  <2>2. CASE r.file # "none"
    <3>1. loFiles' = [loFiles EXCEPT ![r.file] = [l \in LoWrapped |-> loWeights[l]]]
      BY <2>2 DEF LoSave
    <3>2. LoWrapped \subseteq LoLayer
      BY <1>4 DEF LoWeightsOK, LoWrapped
    <3> QED BY <1>4, <3>1, <3>2
  <2> QED BY <2>1, <2>2
<1>12. loGrad' \subseteq LoCall \X Nat \X BOOLEAN /\ loTraining' \in BOOLEAN
       /\ LoWeightsOK(loWeights') /\ UNCHANGED <<loCurrent, loLoop>>
       /\ (loTraining' => w.phase \in LoInTrain \/ w.phase = "failed" \/ (loTraining /\ r.phase \notin LoInTrain))
       /\ (LoClean(c) /\ w.phase \in LoAdding => LoGathered(c, w) \subseteq LoPairs')
  BY <1>1, <1>4, <1>9
<1> QED BY <1>3, <1>4, <1>5, <1>6, <1>8, <1>10, <1>11, <1>12, LoTrainerStep

\* A call that trains: every count at nought.
LEMMA LoTrainStep == ASSUME LoInv, NEW c \in LoCall, LoTrain(c) PROVE LoInv'
<1>1. /\ loCall[c].phase = "new" /\ loLoop = LoNone /\ loLoop' = loLoop
      /\ UNCHANGED <<loWeights, loGrad, loTraining, loFiles, loCurrent>>
  BY DEF LoTrain
<1>2. PICK job \in LoJobs, file \in LoFile \cup {"none"} :
         LoEnter(c, [epochs |-> job.epochs, samples |-> job.samples, phase |-> "begin",
                     file |-> file, order |-> <<>>, batches |-> 0, accum |-> 0,
                     tokens |-> 0, steps |-> <<>>, total |-> 0, met |-> {}])
  BY DEF LoTrain
<1>3. PICK r : r = [epochs |-> job.epochs, samples |-> job.samples, phase |-> "begin",
                    file |-> file, order |-> <<>>, batches |-> 0, accum |-> 0,
                    tokens |-> 0, steps |-> <<>>, total |-> 0, met |-> {}]
  OBVIOUS
<1>4. PICK w : w = [r EXCEPT !.met = LoOthers(c)]
  OBVIOUS
<1>5. /\ DOMAIN w = LoTrainFields /\ w.phase = "begin" /\ w.file = file /\ w.batches = 0
      /\ w.accum = 0 /\ w.steps = <<>> /\ w.met = LoOthers(c)
  BY <1>3, <1>4 DEF LoTrainFields
<1>6. /\ LoAccum \in Nat /\ <<>> \in Seq(SUBSET (LoCall \X Nat)) /\ Len(<<>>) = 0
      /\ LoOthers(c) \subseteq LoCall
  BY LoAssumption DEF LoOthers
<1>7. LoRunOK(w)
  BY <1>5, <1>6 DEF LoRunOK, LoTrainPhases
<1>8. LoLearnt(c, w)
  <2>1. Len(w.steps) = 0 /\ 0 * LoAccum = 0 /\ 0 * LoAccum + 0 = 0
    BY <1>5, <1>6
  <2>2. \A k \in 1..Len(w.steps) : w.steps[k] = LoGroup(c, k, w.batches)
    BY <2>1
  <2>3. Len(w.steps) * LoAccum + w.accum = w.batches
    BY <1>5, <2>1
  <2> QED BY <1>5, <2>2, <2>3 DEF LoLearnt, LoLooping
<1>9. LoEnter(c, r)
  BY <1>2, <1>3
<1>10. loLoop' = IF w.phase = "load" THEN c ELSE LoNone
  BY <1>1, <1>5
<1> QED BY <1>1, <1>4, <1>5, <1>7, <1>8, <1>9, <1>10, LoEnterStep

\* A call that asks for a text or an adapter.
LEMMA LoAskStep == ASSUME LoInv, NEW c \in LoCall, LoAsk(c) PROVE LoInv'
<1>1. /\ loCall[c].phase = "new" /\ loLoop = LoNone
      /\ UNCHANGED <<loWeights, loGrad, loTraining, loFiles, loCurrent>>
  BY DEF LoAsk
<1>2. PICK text \in BOOLEAN, file \in DOMAIN loFiles \cup {"none", "missing"} :
         /\ LoEnter(c, [phase |-> CASE file = "missing" -> "failed"
                                    [] file = "none" -> "generate"
                                    [] OTHER -> "load",
                        text |-> text, file |-> file, layers |-> {}, tokens |-> <<>>, met |-> {},
                        asked |-> IF file \in DOMAIN loFiles THEN loFiles[file] ELSE loWeights])
         /\ loLoop' = IF file \in DOMAIN loFiles THEN c ELSE LoNone
  BY DEF LoAsk
<1>3. PICK phase, asked : /\ phase = (CASE file = "missing" -> "failed"
                                        [] file = "none" -> "generate"
                                        [] OTHER -> "load")
                          /\ asked = IF file \in DOMAIN loFiles THEN loFiles[file] ELSE loWeights
  OBVIOUS
<1>4. PICK r : r = [phase |-> phase, text |-> text, file |-> file, layers |-> {}, tokens |-> <<>>,
                    met |-> {}, asked |-> asked]
  OBVIOUS
<1>5. PICK w : w = [r EXCEPT !.met = LoOthers(c)]
  OBVIOUS
<1>6. /\ DOMAIN w = LoAskFields /\ w.phase = phase /\ w.file = file /\ w.layers = {}
      /\ w.tokens = <<>> /\ w.met = LoOthers(c) /\ w.asked = asked
  BY <1>4, <1>5 DEF LoAskFields
<1>7. /\ DOMAIN loFiles = LoSaved /\ DOMAIN loWeights \subseteq LoLayer \cup {LoBase}
      /\ \A f \in LoSaved : DOMAIN loFiles[f] \subseteq LoLayer
      /\ {"none", "missing"} \cap LoSaved = {}
  BY LoAssumption DEF LoInv, LoDataOK, LoWeightsOK, LoSaved, LoPartial
<1>8. /\ phase \in {"load", "generate", "failed"} /\ (phase = "load" <=> file \in LoSaved)
      /\ DOMAIN asked \subseteq LoLayer \cup {LoBase}
      /\ phase = "load" => DOMAIN asked \subseteq LoLayer
      /\ phase = "generate" => asked = loWeights
  <2>1. CASE file = "missing"
    BY <1>3, <1>7, <2>1
  <2>2. CASE file = "none"
    BY <1>3, <1>7, <2>2
  <2>3. CASE file \in LoSaved
    <3>1. file # "missing" /\ file # "none"
      BY <1>7, <2>3
    <3>2. phase = "load"
      BY <1>3, <3>1
    <3> QED BY <1>3, <1>7, <2>3, <3>2
  <2> QED BY <1>2, <1>7, <2>1, <2>2, <2>3
<1>9. LoAskOK(w)
  <2>1. <<>> \in Seq(ToSet(<<>>)) /\ LoOthers(c) \subseteq LoCall
    BY DEF LoOthers
  <2> QED BY <1>6, <1>8, <2>1 DEF LoAskOK
<1>10. LoTextOK(w)
  <2>1. LoTokensOf(<<>>, loWeights, loTraining)
    <3>1. Len(<<>>) = 0
      OBVIOUS
    <3> QED BY <3>1 DEF LoTokensOf
  <2>2. w.layers \subseteq DOMAIN loWeights /\ LoOf(loWeights, w.layers, w.asked)
    BY <1>6 DEF LoOf
  <2>3. w.phase = "generate" => /\ LoOf(loWeights, DOMAIN w.asked \cap DOMAIN loWeights, w.asked)
                                /\ LoTokensOf(w.tokens, loWeights, loTraining)
    BY <1>6, <1>8, <2>1 DEF LoOf
  <2>4. w.phase # "done"
    BY <1>6, <1>8
  <2> QED BY <2>2, <2>3, <2>4 DEF LoTextOK
<1>11. LoEnter(c, r)
  BY <1>2, <1>3, <1>4
<1>12. loLoop' = IF w.phase = "load" THEN c ELSE LoNone
  BY <1>2, <1>6, <1>7, <1>8
<1> QED BY <1>1, <1>5, <1>9, <1>10, <1>11, <1>12, LoEnterStep

\* What the invariant says of another call that is at work.
LEMMA LoReading ==
    ASSUME LoInv, NEW c \in LoCall, NEW r, r = loCall[c], r.phase \in {"load", "generate"}
    PROVE  /\ LoAskOK(r) /\ LoActive(c) /\ LoTextOK(r)
           /\ LoWeightsOK(loWeights)
           /\ loCurrent \in LoSaved \cup {"none"}
           /\ r.phase = "load" <=> loLoop = c
           /\ r.met = {} /\ loTraining => LoFailed
<1>1. LoAskOK(r)
  <2>1. ~LoRunOK(r)
    BY DEF LoRunOK, LoTrainPhases, LoInTrain, LoAdding
  <2> QED BY <2>1, LoKinds DEF LoInv, LoCallOK
<1>2. LoActive(c)
  BY DEF LoActive
<1>3. ASSUME r.met = {}, loTraining PROVE LoFailed
  <2>1. PICK d \in LoCall : LoIsTrain(d) /\ loCall[d].phase \in LoInTrain \cup {"failed"}
    BY <1>3 DEF LoInv, LoTrainingOK
  <2>2. ASSUME loCall[d].phase \in LoInTrain PROVE FALSE
    <3>1. LoActive(d) /\ d # c
      BY <2>2 DEF LoActive, LoInTrain, LoAdding
    <3> QED BY <1>2, <1>3, <3>1 DEF LoInv, LoMetOK
  <2> QED BY <2>1, <2>2 DEF LoFailed
<1> QED BY <1>1, <1>2, <1>3 DEF LoInv, LoDataOK, LoLoopOK

\* One layer more is the adapter's.
LEMMA LoLoadStep == ASSUME LoInv, NEW c \in LoCall, LoLoad(c) PROVE LoInv'
<1> PICK r : r = loCall[c]
  OBVIOUS
<1>1. r.phase = "load" /\ UNCHANGED <<loGrad, loTraining, loFiles, loCurrent, loLoop>>
  BY DEF LoLoad
<1>2. PICK l \in LoMatched(r) \ r.layers :
         /\ loWeights' = [loWeights EXCEPT ![l] = r.asked[l]]
         /\ LoUpdate(c, [r EXCEPT !.layers = @ \cup {l}])
  BY DEF LoLoad
<1>3. /\ LoAskOK(r) /\ LoActive(c) /\ LoTextOK(r)
      /\ LoWeightsOK(loWeights)
      /\ loCurrent \in LoSaved \cup {"none"}
  BY <1>1, LoReading
<1>4. PICK w : w = [r EXCEPT !.layers = @ \cup {l}]
  OBVIOUS
<1>5. loCall' = [loCall EXCEPT ![c] = w]
  BY <1>2, <1>4 DEF LoUpdate
<1>6. /\ DOMAIN w = DOMAIN r /\ w.layers = r.layers \cup {l} /\ w.phase = "load"
      /\ w.met = r.met /\ w.asked = r.asked /\ w.tokens = r.tokens /\ w.file = r.file
      /\ DOMAIN r = LoAskFields
  BY <1>1, <1>3, <1>4 DEF LoAskOK, LoAskFields
<1>6a. l \in DOMAIN r.asked /\ l \in DOMAIN loWeights /\ l \notin r.layers
  BY DEF LoMatched, LoWrapped
<1>6b. /\ DOMAIN loWeights' = DOMAIN loWeights /\ loWeights'[l] = r.asked[l]
       /\ \A k \in DOMAIN loWeights \ {l} : loWeights'[k] = loWeights[k]
       /\ LoWeightsOK(loWeights')
  BY <1>2, <1>3, <1>6a DEF LoWeightsOK
<1>7. LoAskOK(w)
  BY <1>1, <1>3, <1>6, <1>6a DEF LoAskOK
<1>8. LoTextOK(w)'
  <2>1. ASSUME w.met = {}
        PROVE  w.layers \subseteq DOMAIN loWeights' /\ LoOf(loWeights', w.layers, w.asked)
    <3>1. r.layers \subseteq DOMAIN loWeights /\ LoOf(loWeights, r.layers, r.asked)
      BY <1>1, <1>3, <1>6, <2>1 DEF LoTextOK
    <3> QED BY <1>6, <1>6a, <1>6b, <3>1 DEF LoOf
  <2> QED BY <1>6, <2>1 DEF LoTextOK
<1>9. LoWeightsOK(loWeights')
  BY <1>6b
<1>10. \/ loLoop' = loLoop /\ (w.phase = "load" <=> r.phase = "load")
       \/ loLoop = c /\ loLoop' = LoNone /\ w.phase # "load"
  BY <1>1, <1>6
<1>11. loCurrent' \in LoSaved \cup {"none"} /\ UNCHANGED <<loGrad, loTraining, loFiles>>
  BY <1>1, <1>3
<1> QED BY <1>3, <1>5, <1>6, <1>7, <1>8, <1>9, <1>10, <1>11, LoReaderStep

\* All of them are.
LEMMA LoLoadedStep == ASSUME LoInv, NEW c \in LoCall, LoLoaded(c) PROVE LoInv'
<1> PICK r : r = loCall[c]
  OBVIOUS
<1>1. /\ r.phase = "load" /\ LoMatched(r) = r.layers /\ loLoop' = LoNone
      /\ loCurrent' = IF r.layers = {} THEN loCurrent ELSE r.file
      /\ UNCHANGED <<loWeights, loGrad, loTraining, loFiles>>
  BY DEF LoLoaded
<1>2. /\ LoAskOK(r) /\ LoActive(c) /\ LoTextOK(r) /\ loLoop = c
      /\ LoWeightsOK(loWeights) /\ loCurrent \in LoSaved \cup {"none"}
  BY <1>1, LoReading
<1>3. PICK phase : phase = IF r.layers = {} THEN "failed" ELSE IF r.text THEN "generate" ELSE "done"
  OBVIOUS
<1>4. PICK w : w = [r EXCEPT !.phase = phase]
  OBVIOUS
<1>5. loCall' = [loCall EXCEPT ![c] = w]
  BY <1>3, <1>4 DEF LoLoaded, LoUpdate
<1>6. /\ DOMAIN w = DOMAIN r /\ w.layers = r.layers /\ w.phase = phase
      /\ w.met = r.met /\ w.asked = r.asked /\ w.tokens = r.tokens
      /\ DOMAIN r = LoAskFields /\ phase \in {"generate", "done", "failed"}
  BY <1>2, <1>3, <1>4 DEF LoAskOK, LoAskFields
<1>7. LoAskOK(w) /\ r.tokens = <<>> /\ r.file \in LoSaved
  BY <1>1, <1>2, <1>6 DEF LoAskOK
<1>8. LoTextOK(w)'
  <2>1. ASSUME w.met = {}
        PROVE  /\ LoOf(loWeights, DOMAIN w.asked \cap DOMAIN loWeights, w.asked)
               /\ \A dropout \in BOOLEAN : LoTokensOf(w.tokens, loWeights, dropout)
    <3>1. LoOf(loWeights, r.layers, r.asked)
      BY <1>1, <1>2, <1>6, <2>1 DEF LoTextOK
    <3>2. \A dropout \in BOOLEAN : LoTokensOf(<<>>, loWeights, dropout)
      <4>1. Len(<<>>) = 0
        OBVIOUS
      <4> QED BY <4>1 DEF LoTokensOf
    <3>3. DOMAIN r.asked \cap DOMAIN loWeights = r.layers
      <4>1. LoBase \notin DOMAIN r.asked
        BY <1>1, <1>2, LoAssumption DEF LoAskOK
      <4> QED BY <1>1, <4>1 DEF LoMatched, LoWrapped
    <3> QED BY <1>6, <1>7, <3>1, <3>2, <3>3
  <2>2. loWeights' = loWeights /\ loTraining' = loTraining /\ loTraining \in BOOLEAN
    BY <1>1 DEF LoInv, LoTrainingOK
  <2>3. ASSUME w.met = {}, w.phase = "done"
        PROVE  \E u, dropout : /\ LoOf(u, DOMAIN w.asked \cap DOMAIN u, w.asked)
                               /\ LoTokensOf(w.tokens, u, dropout) /\ dropout \in BOOLEAN
                               /\ dropout => LoFailed'
    <3> WITNESS loWeights, FALSE
    <3> QED BY <2>1, <2>3
  <2> QED BY <1>6, <2>1, <2>2, <2>3 DEF LoTextOK
<1>9. w.phase # "load"
  BY <1>6
<1>10. loCurrent' \in LoSaved \cup {"none"} /\ LoWeightsOK(loWeights')
  BY <1>1, <1>2, <1>7
<1> QED BY <1>1, <1>2, <1>5, <1>6, <1>7, <1>8, <1>9, <1>10, LoReaderStep

\* A token, of what the layers hold.
LEMMA LoTokenStep == ASSUME LoInv, NEW c \in LoCall, LoToken(c) PROVE LoInv'
<1> PICK r : r = loCall[c]
  OBVIOUS
<1> PICK token, tokens : /\ token = [from |-> loWeights, dropout |-> loTraining]
                         /\ tokens = Append(r.tokens, token)
  OBVIOUS
<1>1. /\ r.phase = "generate"
      /\ UNCHANGED <<loWeights, loGrad, loTraining, loFiles, loCurrent, loLoop>>
  BY DEF LoToken
<1>2. /\ LoAskOK(r) /\ LoActive(c) /\ LoTextOK(r)
      /\ LoWeightsOK(loWeights)
      /\ loCurrent \in LoSaved \cup {"none"}
      /\ r.met = {} /\ loTraining => LoFailed
  BY <1>1, LoReading
<1>2a. PICK phase \in {"done", "generate"} : \E w :
         w = [r EXCEPT !.tokens = tokens, !.phase = phase] /\ loCall' = [loCall EXCEPT ![c] = w]
  <2>1. PICK eos \in BOOLEAN :
           LoUpdate(c, [r EXCEPT !.tokens = tokens,
                                 !.phase = IF eos \/ Len(tokens) >= LoMaxTokens THEN "done" ELSE @])
    BY DEF LoToken
  <2>2. PICK phase \in {"done", "generate"} :
           phase = IF eos \/ Len(tokens) >= LoMaxTokens THEN "done" ELSE "generate"
    OBVIOUS
  <2>3. PICK w : w = [r EXCEPT !.tokens = tokens, !.phase = phase]
    OBVIOUS
  <2>4. loCall' = [loCall EXCEPT ![c] = w]
    BY <1>1, <2>1, <2>2, <2>3 DEF LoUpdate
  <2> QED BY <2>2, <2>3, <2>4
<1>3. PICK w : w = [r EXCEPT !.tokens = tokens, !.phase = phase] /\ loCall' = [loCall EXCEPT ![c] = w]
  BY <1>2a
<1>4. /\ DOMAIN w = DOMAIN r /\ w.layers = r.layers /\ w.phase = phase
      /\ w.met = r.met /\ w.asked = r.asked /\ w.tokens = tokens
      /\ DOMAIN r = LoAskFields
  BY <1>2, <1>3 DEF LoAskOK, LoAskFields
<1>5. PICK n : n = Len(r.tokens)
  OBVIOUS
<1>6. /\ tokens \in Seq(ToSet(tokens)) /\ n \in Nat /\ Len(tokens) = n + 1
      /\ \A k \in 1..n : tokens[k] = r.tokens[k]
      /\ tokens[n + 1] = token
  BY <1>2, <1>5, Grown DEF LoAskOK
<1>7. LoAskOK(w)
  BY <1>2, <1>3, <1>4, <1>6 DEF LoAskOK
<1>8. LoTextOK(w)'
  <2>1. ASSUME w.met = {}
        PROVE  /\ LoOf(loWeights, DOMAIN w.asked \cap DOMAIN loWeights, w.asked)
               /\ LoTokensOf(tokens, loWeights, loTraining)
    <3>1. /\ LoOf(loWeights, DOMAIN r.asked \cap DOMAIN loWeights, r.asked)
          /\ LoTokensOf(r.tokens, loWeights, loTraining)
      BY <1>1, <1>2, <1>4, <2>1 DEF LoTextOK
    <3>2. ASSUME NEW k \in 1..(n + 1) PROVE tokens[k] = token
      <4>1. CASE k = n + 1
        BY <1>6, <4>1
      <4>2. CASE k # n + 1
        <5>1. k \in 1..n
          BY <1>6, <4>2
        <5> QED BY <1>5, <1>6, <3>1, <5>1 DEF LoTokensOf
      <4> QED BY <4>1, <4>2
    <3> QED BY <1>4, <1>6, <3>1, <3>2 DEF LoTokensOf
  <2>2. LoFailed => LoFailed'
    <3>1. ~LoIsTrain(c)
      BY <1>4, LoKinds DEF LoIsTrain
    <3>2. \A d \in LoCall \ {c} : loCall'[d] = loCall[d]
      BY <1>3 DEF LoInv
    <3> QED BY <3>1, <3>2 DEF LoFailed, LoIsTrain
  <2>3. loWeights' = loWeights /\ loTraining' = loTraining /\ loTraining \in BOOLEAN
    BY <1>1 DEF LoInv, LoTrainingOK
  <2>4. ASSUME w.met = {}
        PROVE  \E u, dropout : /\ LoOf(u, DOMAIN w.asked \cap DOMAIN u, w.asked)
                               /\ LoTokensOf(w.tokens, u, dropout) /\ dropout \in BOOLEAN
                               /\ dropout => LoFailed'
    <3> WITNESS loWeights, loTraining
    <3> QED BY <1>2, <1>4, <2>1, <2>2, <2>3, <2>4
  <2> QED BY <1>4, <2>1, <2>3, <2>4 DEF LoTextOK
<1>9. loLoop' = loLoop /\ (w.phase = "load" <=> r.phase = "load")
  BY <1>1, <1>3, <1>4
<1>10. loCurrent' \in LoSaved \cup {"none"} /\ LoWeightsOK(loWeights')
       /\ UNCHANGED <<loGrad, loTraining, loFiles>>
  BY <1>1, <1>2
<1> QED BY <1>2, <1>3, <1>4, <1>7, <1>8, <1>9, <1>10, LoReaderStep

LEMMA LoInvInit == LoInit => LoInv
<1> SUFFICES ASSUME LoInit PROVE LoInv
  OBVIOUS
<1>1. /\ loCall = [c \in LoCall |-> LoIdle] /\ loGrad = {} /\ loTraining = FALSE
      /\ loCurrent = "none" /\ loLoop = LoNone
      /\ loFiles = [f \in LoSaved |-> [l \in IF f = LoPartial THEN {1} ELSE LoLayer |-> f]]
  BY DEF LoInit, LoSaved
<1>2. LoDataOK
  <2>1. PICK layers \in {LoLayer, {}} : loWeights = [l \in layers \cup {LoBase} |-> "base"]
    BY DEF LoInit
  <2>2. LoWeightsOK(loWeights)
    BY <2>1 DEF LoWeightsOK
  <2> QED BY <1>1, <2>2, LoAssumption DEF LoDataOK
<1>3. LoGradOK /\ LoTrainingOK
  BY <1>1 DEF LoGradOK, LoTrainingOK
<1>4. LoMetOK
  BY <1>1, LoKinds DEF LoMetOK, LoActive
<1>5. LoLoopOK
  BY <1>1, LoKinds, LoAssumption DEF LoLoopOK
<1>6. ASSUME NEW c \in LoCall PROVE LoCallOK(loCall[c]) /\ LoRunLearnt(c) /\ LoTextOK(loCall[c])
  <2>1. loCall[c] = LoIdle
    BY <1>1
  <2>2. LoRunLearnt(c)
    BY <2>1, LoKinds DEF LoRunLearnt, LoIsTrain
  <2>3. LoTextOK(loCall[c])
    <3>1. "text" \in LoAskFields /\ "text" \notin DOMAIN loCall[c]
      BY <2>1, LoKinds
    <3> QED BY <3>1 DEF LoTextOK
  <2> QED BY <2>1, <2>2, <2>3 DEF LoCallOK
<1> QED BY <1>1, <1>2, <1>3, <1>4, <1>5, <1>6 DEF LoInv

LEMMA LoInvNext == LoInv /\ [LoNext]_loVars => LoInv'
<1> SUFFICES ASSUME LoInv, [LoNext]_loVars PROVE LoInv'
  OBVIOUS
<1>1. ASSUME NEW c \in LoCall, LoTrain(c) PROVE LoInv'
  BY <1>1, LoTrainStep
<1>2. ASSUME NEW c \in LoCall, LoAsk(c) PROVE LoInv'
  BY <1>2, LoAskStep
<1>3. ASSUME NEW c \in LoCall, LoProceed(c) PROVE LoInv'
  BY <1>3, LoTrainBeginStep, LoEpochStep, LoBackwardStep, LoStepStep, LoZeroGradStep,
     LoTrainEndStep, LoSaveStep, LoLoadStep, LoLoadedStep, LoTokenStep, Zenon DEF LoProceed
<1>4. CASE UNCHANGED loVars
  <2>1. UNCHANGED <<loCall, loWeights, loGrad, loTraining, loFiles, loCurrent, loLoop>>
    BY <1>4 DEF loVars
  <2>2. /\ LoDataOK' /\ LoGradOK' /\ LoMetOK' /\ LoTrainingOK' /\ LoLoopOK'
    BY <2>1 DEF LoInv, LoDataOK, LoGradOK, LoOwner, LoMetOK, LoActive, LoTrainingOK, LoIsTrain, LoLoopOK
  <2>3. ASSUME NEW c \in LoCall PROVE LoRunLearnt(c)' /\ LoTextOK(loCall[c])'
    <3>1. LoRunLearnt(c) /\ LoTextOK(loCall[c])
      BY DEF LoInv
    <3>2. LoRunLearnt(c)'
      BY <2>1, <3>1 DEF LoRunLearnt, LoIsTrain, LoClean, LoLearnt, LoGathered, LoGroup, LoPairs
    <3> QED BY <2>1, <3>1, <3>2 DEF LoTextOK, LoFailed, LoIsTrain
  <2> QED BY <2>1, <2>2, <2>3 DEF LoInv, LoCallOK, LoRunOK, LoAskOK
<1> QED BY <1>1, <1>2, <1>3, <1>4, Zenon DEF LoNext

\* What the runs check of the model with LoRA layers.
LEMMA LoInvFaithful == LoInv => LoTypeOK /\ LoFaithful
<1> SUFFICES ASSUME LoInv PROVE LoTypeOK /\ LoFaithful
  OBVIOUS
<1>1. LoTypeOK
  BY LoAssumption DEF LoInv, LoTypeOK, LoDataOK, LoWeightsOK, LoWrapped, LoTrainingOK, LoLoopOK
<1>2. ASSUME NEW c \in LoCall, LoIsTrain(c), LoAlone(c)
      PROVE  LET r == loCall[c]
             IN  /\ \A k \in DOMAIN r.steps :
                       r.steps[k] = {<<c, b>> : b \in (k - 1) * LoAccum + 1
                                                   .. Min({k * LoAccum, r.batches})}
                 /\ Len(r.steps) * LoAccum >= r.batches
  <2> PICK r : r = loCall[c]
    OBVIOUS
  <2>1. LoRunOK(r)
    BY <1>2, LoKindOf DEF LoInv, LoIsTrain
  <2>2. LoLearnt(c, r) /\ r.phase = "done"
    BY <1>2 DEF LoInv, LoRunLearnt, LoAlone, LoClean
  <2>3. /\ \A k \in 1..Len(r.steps) : r.steps[k] = LoGroup(c, k, r.batches)
        /\ r.batches <= Len(r.steps) * LoAccum
    BY <2>2 DEF LoLearnt, LoLooping
  <2>4. DOMAIN r.steps = 1..Len(r.steps) /\ Len(r.steps) * LoAccum \in Nat /\ r.batches \in Nat
    <3>1. r.steps \in Seq(SUBSET (LoCall \X Nat)) /\ r.batches \in Nat
      BY <2>1 DEF LoRunOK
    <3>2. DOMAIN r.steps = 1..Len(r.steps) /\ Len(r.steps) \in Nat
      BY <3>1
    <3>3. Len(r.steps) * LoAccum \in Nat
      BY <3>2, LoTimes
    <3> QED BY <3>1, <3>2, <3>3
  <2>5. Len(r.steps) * LoAccum >= r.batches
    BY <2>3, <2>4
  <2>6. ASSUME NEW k \in DOMAIN r.steps
        PROVE  r.steps[k] = {<<c, b>> : b \in (k - 1) * LoAccum + 1 .. Min({k * LoAccum, r.batches})}
    BY <2>3, <2>4 DEF LoGroup
  <2> QED BY <2>5, <2>6
<1>3. LoBatchesOnce
  BY <1>2 DEF LoBatchesOnce
<1>4. ASSUME NEW c \in LoCall, loCall[c].phase = "done", "text" \in DOMAIN loCall[c],
             loCall[c].met = {}
      PROVE  LET r == loCall[c]
             IN  \A i \in DOMAIN r.tokens :
                    /\ r.tokens[i].dropout =>
                          \E d \in LoCall : LoIsTrain(d) /\ loCall[d].phase = "failed"
                    /\ \A l \in DOMAIN r.asked \cap DOMAIN r.tokens[i].from :
                          r.tokens[i].from[l] = r.asked[l]
                    /\ \A j \in DOMAIN r.tokens : r.tokens[i] = r.tokens[j]
  <2> PICK r : r = loCall[c]
    OBVIOUS
  <2>1. LoAskOK(r) /\ LoTextOK(r)
    BY <1>4, LoKindOf DEF LoInv
  <2>2. PICK w, dropout : /\ LoOf(w, DOMAIN r.asked \cap DOMAIN w, r.asked)
                          /\ LoTokensOf(r.tokens, w, dropout) /\ dropout \in BOOLEAN
                          /\ dropout => LoFailed
    BY <1>4, <2>1 DEF LoTextOK, LoAskOK
  <2>3. DOMAIN r.tokens = 1..Len(r.tokens)
    BY <2>1 DEF LoAskOK
  <2>4. PICK t : t = [from |-> w, dropout |-> dropout]
    OBVIOUS
  <2>5. t.dropout = dropout /\ t.from = w
    BY <2>4
  <2>6. \A i \in DOMAIN r.tokens : r.tokens[i] = t
    BY <2>2, <2>3, <2>4 DEF LoTokensOf
  <2> QED BY <2>2, <2>5, <2>6 DEF LoOf, LoFailed
<1>5. LoTextOfAdapter
  BY <1>4 DEF LoTextOfAdapter
<1> QED BY <1>1, <1>3, <1>5 DEF LoFaithful

\* For any number of runs, requests, layers, saved adapters and batches: a run alone
\* learns from each batch once; a text nobody came between is of one state of the
\* model with the layers of the adapter asked for, and has dropout only where a
\* request to train has failed.
THEOREM AdaptersFaithful == LoSpec => [](LoTypeOK /\ LoFaithful)
<1>1. LoInit => LoInv
  BY LoInvInit
<1>2. LoInv /\ [LoNext]_loVars => LoInv'
  BY LoInvNext
<1>3. LoInv => LoTypeOK /\ LoFaithful
  BY LoInvFaithful
<1> QED BY <1>1, <1>2, <1>3, PTL DEF LoSpec

\* The three labs that train keep their promises, each by its own invariant: they
\* share nothing.
THEOREM TrainersCorrect == TrainersSpec => []TrainersFaithful
<1>1. (LoTypeOK /\ LoFaithful) /\ (PoTypeOK /\ PoFaithful) /\ (FtTypeOK /\ FtFaithful)
      => TrainersFaithful
  BY DEF TrainersFaithful
<1> QED BY <1>1, AdaptersFaithful, PromptsFaithful, JobsFaithful, PTL DEF TrainersSpec
=============================================================================
