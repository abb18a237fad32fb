--------------------------- MODULE InferenceProofs ---------------------------
(***************************************************************************)
(* Proofs about the two labs that run a language model: the batching       *)
(* engine and generation loops of the inference server, and speculative    *)
(* decoding, which implements decoding by the target alone.                *)
(***************************************************************************)
EXTENDS LlmInference, SpecDecoding, SequenceLemmas, SequenceTheorems, TLAPS

-----------------------------------------------------------------------------
(* The inference engine.                                                   *)

InfRequests == [status : {"new", "queued", "active", "done"}, priority : InfPriorities \cup {0},
                limit : InfLimits \cup {0}, tokens : Nat, arrival : Nat, waiting : BOOLEAN]

\* The requests that were submitted; the next one arrives after all of them.
InfSubmitted == {s \in InfRequest : infReq[s].status # "new"}

InfReqOK ==
    /\ infReq \in [InfRequest -> InfRequests]
    /\ \A r \in InfRequest : infReq[r].status \in {"new", "queued"} => infReq[r].tokens = 0
    /\ \A r \in InfSubmitted : infReq[r].arrival < Cardinality(InfSubmitted)

\* a is to be served before b.
InfBefore(a, b) ==
    \/ infReq[a].priority < infReq[b].priority
    \/ infReq[a].priority = infReq[b].priority /\ infReq[a].arrival < infReq[b].arrival

InfQueueOK ==
    /\ infQueue \in Seq(InfRequest)
    /\ \A i \in 1..Len(infQueue) : infReq[infQueue[i]].status = "queued"
    /\ \A i, j \in 1..Len(infQueue) : i < j => InfBefore(infQueue[i], infQueue[j])

\* The batch; what is left of the step's copy of it is still in it.
InfBatchOK ==
    /\ infActive \in Seq(InfRequest) /\ Len(infActive) <= InfMaxBatch
    /\ \A i \in 1..Len(infActive) : infReq[infActive[i]].status = "active"
    /\ \A i, j \in 1..Len(infActive) : infActive[i] = infActive[j] => i = j
    /\ infPhase \in {"idle", "admit", "decode"} /\ infStarved \in BOOLEAN
    /\ infPhase = "decode" =>
          /\ infTodo \in Seq(InfRequest) /\ Len(infTodo) > 0
          /\ \A i, j \in 1..Len(infTodo) : infTodo[i] = infTodo[j] => i = j
          /\ \A i \in 1..Len(infTodo) : \E k \in 1..Len(infActive) : infActive[k] = infTodo[i]

(* The pages of a cache c.                                                 *)
InfOwns(c, r, p) == \E i \in 1..Len(c.pages[r]) : c.pages[r][i] = p

InfCacheTyped(c) ==
    c \in [free : SUBSET InfPage, pages : [InfRequest -> Seq(InfPage)],
           used : [InfPage -> 0..InfPageSize]]

\* Every page is free or at one place of one request.
InfCachePartition(c) ==
    /\ \A p \in InfPage : p \in c.free \/ \E r \in InfRequest : InfOwns(c, r, p)
    /\ \A r \in InfRequest : \A p \in c.free : ~InfOwns(c, r, p)
    /\ \A r, s \in InfRequest : \A p \in InfPage : InfOwns(c, r, p) /\ InfOwns(c, s, p) => r = s
    /\ \A r \in InfRequest : \A i, j \in 1..Len(c.pages[r]) :
          c.pages[r][i] = c.pages[r][j] => i = j

InfCacheOK(c) == InfCacheTyped(c) /\ InfCachePartition(c)

\* All pages of a request but the last are full.
InfFull(c, r, tokens) ==
    /\ Len(c.pages[r]) > 0
    /\ tokens = (Len(c.pages[r]) - 1) * InfPageSize + c.used[InfLastPage(c, r)]
    /\ c.used[InfLastPage(c, r)] = 0 => tokens = 0 /\ Len(c.pages[r]) = 1

InfPagesOK ==
    /\ InfCacheOK(infCache)
    /\ \A r \in InfRequest : infCache.pages[r] # <<>> =>
          \E k \in 1..Len(infActive) : infActive[k] = r
    /\ ~infStarved => \A k \in 1..Len(infActive) :
          InfFull(infCache, infActive[k], infReq[infActive[k]].tokens)

InfInv == InfReqOK /\ InfQueueOK /\ InfBatchOK /\ InfPagesOK

-----------------------------------------------------------------------------
(* The generation loops.                                                   *)

\* The token a loop writes after a context.
GenAfter(context) ==
    IF context \in DOMAIN genModel THEN genModel[context]
    ELSE CHOOSE t \in GenToken : t # GenEos

\* Each token is the model's after all that precede it.
GenWritten(l) ==
    /\ Len(genIds[l]) > 0 /\ genIds[l][1] = GenPrompt[1]
    /\ \A k \in 1..(Len(genIds[l]) - 1) :
          genIds[l][k + 1] = GenAfter(SubSeq(genIds[l], 1, k))

\* A loop has ended just when it was to stop after its last token, and was not to
\* stop after an earlier one.
GenEnded(l) ==
    /\ \A k \in 1..(Len(genIds[l]) - 1) :
          GenStops(l, genIds[l][k + 1], k) <=> l \in genDone /\ k = Len(genIds[l]) - 1
    /\ l \in genDone /\ Len(genIds[l]) = 1 => genLimit = 0

\* The cache covers everything but the last token.
GenCovered(l) ==
    l # "naive" => genPast[l] = IF Len(genIds[l]) = 1 THEN <<>>
                                ELSE SubSeq(genIds[l], 1, Len(genIds[l]) - 1)

GenUncalled == genIds = [l \in GenLoops |-> GenPrompt] /\ genDone = {}

GenInv ==
    /\ genModel = <<>> => GenUncalled
    /\ genLimit \in Nat /\ genDone \subseteq GenLoops
    /\ genIds \in [GenLoops -> Seq(GenToken)] /\ genPast \in [GenLoops -> Seq(GenToken)]
    /\ genModel # <<>> => genModel \in [GenContexts -> GenToken]
    /\ \A l \in GenLoops : GenWritten(l) /\ GenEnded(l) /\ GenCovered(l)

-----------------------------------------------------------------------------
(* Sequences and sets that the engine's proofs use.                        *)

LEMMA PrefixSet ==
    ASSUME NEW N \in Nat, NEW S \in SUBSET (1..N), \A i \in S : \A j \in 1..i : j \in S
    PROVE  Cardinality(S) \in 0..N /\ S = 1..Cardinality(S)
<1>1. CASE S = {}
  BY <1>1, FS_EmptySet
<1>2. CASE S # {}
  <2>1. Max(S) \in S /\ \A y \in S : Max(S) >= y
    <3>1. S \in SUBSET Int /\ \A y \in S : y <= N
      OBVIOUS
    <3> QED
      BY <1>2, <3>1, MaxOfBounded
  <2> DEFINE m == Max(S)
  <2> HIDE DEF m
  <2>2. m \in 1..N /\ S = 1..m
    <3>1. m \in S /\ m \in 1..N /\ \A y \in S : m >= y
      BY <2>1 DEF m
    <3>2. \A y \in S : y \in 1..m
      BY <3>1
    <3>3. \A y \in 1..m : y \in S
      BY <3>1
    <3> QED
      BY <3>1, <3>2, <3>3
  <2>3. Cardinality(1..m) = m
    <3>1. 1 \in Int /\ m \in Int /\ ~(1 > m) /\ m - 1 + 1 = m
      BY <2>2
    <3> QED
      BY <3>1, FS_Interval
  <2> QED
    BY <2>2, <2>3
<1> QED
  BY <1>1, <1>2

\* t is s with e put at place at.
IsInserted(S, s, at, e, t) ==
    /\ t \in Seq(S) /\ Len(t) = Len(s) + 1
    /\ \A k \in 1..(at - 1) : t[k] = s[k]
    /\ t[at] = e
    /\ \A k \in at..Len(s) : t[k + 1] = s[k]

LEMMA Inserted ==
    ASSUME NEW S, NEW s \in Seq(S), NEW at \in 1..(Len(s) + 1), NEW e \in S
    PROVE  IsInserted(S, s, at, e, InsertAt(s, at, e))
<1>0. PICK n \in 0..Len(s) : at = n + 1
  <2>1. at - 1 \in 0..Len(s) /\ at = (at - 1) + 1
    OBVIOUS
  <2> QED
    BY <2>1
<1> DEFINE a == SubSeq(s, 1, at - 1)
           b == SubSeq(s, at, Len(s))
           ae == Append(a, e)
<1>1. a \in Seq(S) /\ Len(a) = n /\ \A k \in 1..n : a[k] = s[k]
  BY <1>0
<1>2. b \in Seq(S) /\ Len(b) = Len(s) - n /\ \A k \in 1..(Len(s) - n) : b[k] = s[n + k]
  BY <1>0
<1>3. InsertAt(s, at, e) = ae \o b
  <2>1. InsertAt(s, at, e) = a \o <<e>> \o b
    BY DEF InsertAt
  <2> HIDE DEF b
  <2>2. a \o <<e>> = Append(a, e)
    <3> HIDE DEF a
    <3> QED
      BY <1>1
  <2> QED
    BY <2>1, <2>2
<1> HIDE DEF a, b
<1>4. ae \in Seq(S) /\ Len(ae) = n + 1 /\ ae[n + 1] = e /\ \A k \in 1..n : ae[k] = s[k]
  BY <1>1
<1> HIDE DEF ae
<1>5. /\ ae \o b \in Seq(S) /\ Len(ae \o b) = Len(ae) + Len(b)
      /\ \A k \in 1..(Len(ae) + Len(b)) :
            (ae \o b)[k] = IF k <= Len(ae) THEN ae[k] ELSE b[k - Len(ae)]
  BY <1>2, <1>4, ConcatProperties
<1>6. Len(ae) + Len(b) = Len(s) + 1
  BY <1>2, <1>4
<1>7. \A k \in 1..(n + 1) : (ae \o b)[k] = ae[k]
  BY <1>2, <1>4, <1>5
<1>8. ASSUME NEW k \in (n + 1)..Len(s) PROVE (ae \o b)[k + 1] = s[k]
  <2>1. k + 1 \in 1..(Len(ae) + Len(b)) /\ ~(k + 1 <= Len(ae)) /\ k + 1 - Len(ae) = k - n
    BY <1>2, <1>4, <1>6
  <2>2. (ae \o b)[k + 1] = b[k + 1 - Len(ae)]
    BY <1>5, <2>1
  <2>3. k - n \in 1..(Len(s) - n) /\ n + (k - n) = k
    OBVIOUS
  <2> QED
    BY <1>2, <2>1, <2>2, <2>3
<1>9. ae \o b \in Seq(S) /\ Len(ae \o b) = Len(s) + 1
  BY <1>5, <1>6
<1>10. (ae \o b)[n + 1] = e /\ \A k \in 1..n : (ae \o b)[k] = s[k]
  BY <1>4, <1>7
<1>11. at - 1 = n
  BY <1>0
<1> QED
  BY <1>0, <1>3, <1>8, <1>9, <1>10, <1>11 DEF IsInserted

LEMMA DistinctCount ==
    ASSUME NEW S, NEW s \in Seq(S), \A i, j \in 1..Len(s) : s[i] = s[j] => i = j
    PROVE  Cardinality(ToSet(s)) = Len(s)
<1>1. DOMAIN s = 1..Len(s) /\ Len(s) \in Nat
  OBVIOUS
<1> DEFINE f == [i \in 1..Len(s) |-> s[i]]
<1>2. ToSet(s) = {s[i] : i \in 1..Len(s)}
  BY <1>1 DEF ToSet
<1>3. f \in Bijection(1..Len(s), ToSet(s))
  BY <1>2 DEF Bijection, Injection, Surjection, IsInjective
<1>4. ExistsBijection(1..Len(s), ToSet(s))
  BY <1>3 DEF ExistsBijection
<1> QED
  BY <1>1, <1>4, FS_CountingElements

-----------------------------------------------------------------------------
(* The pages.                                                              *)

\* What d leaves as it is in c: every request but r.
InfOthersKept(c, d, r) ==
    \A s \in InfRequest \ {r} :
        /\ d.pages[s] = c.pages[s]
        /\ \A p \in InfPage : InfOwns(c, s, p) => d.used[p] = c.used[p]

LEMMA InfLastOwned ==
    ASSUME NEW c, InfCacheTyped(c), NEW r \in InfRequest, c.pages[r] # <<>>
    PROVE  /\ Len(c.pages[r]) \in Nat \ {0} /\ InfLastPage(c, r) \in InfPage
           /\ InfOwns(c, r, InfLastPage(c, r))
<1>1. c.pages[r] \in Seq(InfPage)
  BY DEF InfCacheTyped
<1> QED
  BY <1>1 DEF InfLastPage, InfOwns

LEMMA InfAllocated ==
    ASSUME NEW c, InfCacheOK(c), NEW r \in InfRequest, NEW tokens \in 0..InfPageSize
    PROVE  LET d == InfAllocate(c, r, tokens)
           IN  /\ InfCacheOK(d) /\ InfOthersKept(c, d, r)
               /\ c.free = {} => d = c
               /\ c.free # {} => /\ Len(d.pages[r]) = Len(c.pages[r]) + 1
                                 /\ d.used[InfLastPage(d, r)] = tokens
<1> DEFINE d == InfAllocate(c, r, tokens)
<1>1. CASE c.free = {}
  BY <1>1 DEF InfAllocate, InfOthersKept
<1>2. CASE c.free # {}
  <2> DEFINE p == CHOOSE p \in c.free : TRUE
  <2>1. p \in c.free
    BY <1>2
  <2>2. d = [free |-> c.free \ {p}, pages |-> [c.pages EXCEPT ![r] = Append(@, p)],
             used |-> [c.used EXCEPT ![p] = tokens]]
    BY <1>2 DEF InfAllocate
  <2> HIDE DEF p, d
  <2>3. /\ InfCacheTyped(c) /\ p \in InfPage /\ c.pages \in [InfRequest -> Seq(InfPage)]
        /\ c.used \in [InfPage -> 0..InfPageSize] /\ c.free \subseteq InfPage
    BY <2>1 DEF InfCacheOK, InfCacheTyped
  <2>4. /\ d.free = c.free \ {p} /\ d.pages[r] = Append(c.pages[r], p)
        /\ d.used[p] = tokens /\ \A q \in InfPage \ {p} : d.used[q] = c.used[q]
        /\ \A s \in InfRequest \ {r} : d.pages[s] = c.pages[s]
    BY <2>2, <2>3
  <2>5. /\ d.pages[r] \in Seq(InfPage) /\ Len(d.pages[r]) = Len(c.pages[r]) + 1
        /\ \A i \in 1..(Len(c.pages[r]) + 1) :
              d.pages[r][i] = IF i = Len(c.pages[r]) + 1 THEN p ELSE c.pages[r][i]
        /\ Len(c.pages[r]) \in Nat
    BY <2>3, <2>4, Lengthened
  <2>6. InfCacheTyped(d)
    BY <2>2, <2>3, <2>5 DEF InfCacheTyped
  <2>7. \A q : InfOwns(d, r, q) <=> q = p \/ InfOwns(c, r, q)
    <3> DEFINE n == Len(c.pages[r])
    <3>1. Len(d.pages[r]) = n + 1 /\ d.pages[r][n + 1] = p /\ n + 1 \in 1..(n + 1)
      BY <2>5
    <3>2. \A i \in 1..n : i \in 1..(n + 1) /\ d.pages[r][i] = c.pages[r][i]
      BY <2>5
    <3>3. \A i \in 1..(n + 1) : i = n + 1 \/ i \in 1..n
      BY <2>5
    <3> HIDE DEF n
    <3> QED
      BY <3>1, <3>2, <3>3 DEF InfOwns, n
  <2>8. \A s \in InfRequest \ {r} : \A q : InfOwns(d, s, q) <=> InfOwns(c, s, q)
    BY <2>4 DEF InfOwns
  <2>9. \A s \in InfRequest : ~InfOwns(c, s, p)
    BY <2>1 DEF InfCacheOK, InfCachePartition
  <2>10. InfCachePartition(d)
    <3>1. ASSUME NEW q \in InfPage PROVE q \in d.free \/ \E s \in InfRequest : InfOwns(d, s, q)
      BY <2>4, <2>7, <2>8 DEF InfCacheOK, InfCachePartition
    <3>2. ASSUME NEW s \in InfRequest, NEW q \in d.free PROVE ~InfOwns(d, s, q)
      BY <2>4, <2>7, <2>8 DEF InfCacheOK, InfCachePartition
    <3>3. ASSUME NEW s \in InfRequest, NEW u \in InfRequest, NEW q \in InfPage,
                 InfOwns(d, s, q), InfOwns(d, u, q)
          PROVE  s = u
      BY <2>7, <2>8, <2>9, <3>3 DEF InfCacheOK, InfCachePartition
    <3>4. ASSUME NEW s \in InfRequest, NEW i \in 1..Len(d.pages[s]), NEW j \in 1..Len(d.pages[s]),
                 d.pages[s][i] = d.pages[s][j]
          PROVE  i = j
      <4>1. CASE s = r
        <5>1. \A k \in 1..Len(d.pages[r]) : k = Len(c.pages[r]) + 1 \/ k \in 1..Len(c.pages[r])
          BY <2>5
        <5>2. \A k \in 1..Len(c.pages[r]) : c.pages[r][k] # p
          BY <2>9 DEF InfOwns
        <5>3. \A k \in 1..Len(c.pages[r]) : k \in 1..(Len(c.pages[r]) + 1)
                                              /\ k # Len(c.pages[r]) + 1
          BY <2>5
        <5>4. /\ d.pages[r][Len(c.pages[r]) + 1] = p
              /\ \A k \in 1..Len(c.pages[r]) : d.pages[r][k] = c.pages[r][k]
          <6>1. Len(c.pages[r]) + 1 \in 1..(Len(c.pages[r]) + 1)
            BY <2>5
          <6> QED
            BY <2>5, <5>3, <6>1
        <5> QED
          BY <3>4, <4>1, <5>1, <5>2, <5>3, <5>4 DEF InfCacheOK, InfCachePartition
      <4>2. CASE s # r
        BY <2>4, <3>4, <4>2 DEF InfCacheOK, InfCachePartition
      <4> QED
        BY <4>1, <4>2
    <3> QED
      BY <3>1, <3>2, <3>3, <3>4 DEF InfCachePartition
  <2>11. InfOthersKept(c, d, r)
    BY <2>4, <2>9 DEF InfOthersKept
  <2>12. d.used[InfLastPage(d, r)] = tokens
    BY <2>4, <2>5 DEF InfLastPage
  <2> QED
    BY <1>2, <2>5, <2>6, <2>10, <2>11, <2>12 DEF InfCacheOK, d
<1> QED
  BY <1>1, <1>2

LEMMA InfFreed ==
    ASSUME NEW c, InfCacheOK(c), NEW r \in InfRequest
    PROVE  LET d == InfFree(c, r)
           IN  InfCacheOK(d) /\ InfOthersKept(c, d, r) /\ d.pages[r] = <<>>
<1> DEFINE d == InfFree(c, r)
           mine == ToSet(c.pages[r])
<1>1. /\ c.pages \in [InfRequest -> Seq(InfPage)] /\ c.free \subseteq InfPage
      /\ c.used \in [InfPage -> 0..InfPageSize] /\ 0 \in 0..InfPageSize
  BY InfAssumption DEF InfCacheOK, InfCacheTyped
<1>2. \A p : p \in mine <=> InfOwns(c, r, p)
  BY <1>1, Members DEF InfOwns
<1>3. mine \subseteq InfPage
  BY <1>1, <1>2 DEF InfOwns
<1>4. d = [free |-> c.free \cup mine, pages |-> [c.pages EXCEPT ![r] = <<>>],
           used |-> [p \in InfPage |-> IF p \in mine THEN 0 ELSE c.used[p]]]
  BY DEF InfFree
<1> HIDE DEF d, mine
<1>5. /\ d.free = c.free \cup mine /\ d.pages[r] = <<>>
      /\ \A s \in InfRequest \ {r} : d.pages[s] = c.pages[s]
      /\ \A p \in InfPage \ mine : d.used[p] = c.used[p]
  BY <1>1, <1>4
<1>6. InfCacheTyped(d)
  <2>1. c.free \cup mine \in SUBSET InfPage
    BY <1>1, <1>3
  <2>2. [c.pages EXCEPT ![r] = <<>>] \in [InfRequest -> Seq(InfPage)]
    BY <1>1
  <2>3. [p \in InfPage |-> IF p \in mine THEN 0 ELSE c.used[p]] \in [InfPage -> 0..InfPageSize]
    BY <1>1
  <2> QED
    BY <1>4, <2>1, <2>2, <2>3, Zenon DEF InfCacheTyped
<1>7. \A p : ~InfOwns(d, r, p)
  BY <1>5 DEF InfOwns
<1>8. \A s \in InfRequest \ {r} : \A p : InfOwns(d, s, p) <=> InfOwns(c, s, p)
  BY <1>5 DEF InfOwns
<1>9. InfOthersKept(c, d, r)
  BY <1>2, <1>5 DEF InfOthersKept, InfCacheOK, InfCachePartition
<1>10. InfCachePartition(d)
  <2>1. ASSUME NEW q \in InfPage PROVE q \in d.free \/ \E s \in InfRequest : InfOwns(d, s, q)
    BY <1>2, <1>5, <1>8 DEF InfCacheOK, InfCachePartition
  <2>2. ASSUME NEW s \in InfRequest, NEW q \in d.free PROVE ~InfOwns(d, s, q)
    BY <1>2, <1>3, <1>5, <1>7, <1>8 DEF InfCacheOK, InfCachePartition
  <2>3. ASSUME NEW s \in InfRequest, NEW u \in InfRequest, NEW q \in InfPage,
               InfOwns(d, s, q), InfOwns(d, u, q)
        PROVE  s = u
    BY <1>7, <1>8, <2>3 DEF InfCacheOK, InfCachePartition
  <2>4. ASSUME NEW s \in InfRequest, NEW i \in 1..Len(d.pages[s]), NEW j \in 1..Len(d.pages[s]),
               d.pages[s][i] = d.pages[s][j]
        PROVE  i = j
    <3>1. s # r
      BY <1>5
    <3> QED
      BY <1>5, <2>4, <3>1 DEF InfCacheOK, InfCachePartition
  <2> QED
    BY <2>1, <2>2, <2>3, <2>4 DEF InfCachePartition
<1> QED
  BY <1>5, <1>6, <1>9, <1>10 DEF InfCacheOK, d

\* A token written in the last page, or in a new one when the last is full.
LEMMA InfRecorded ==
    ASSUME NEW c, InfCacheOK(c), NEW r \in InfRequest
    PROVE  LET d == InfRecordToken(c, r)
           IN  /\ InfCacheOK(d) /\ InfOthersKept(c, d, r)
               /\ \A tokens \in Nat :
                     InfFull(c, r, tokens) /\ ~(InfNeedsPage(c, r) /\ c.free = {})
                     => InfFull(d, r, tokens + 1)
<1> DEFINE d == InfRecordToken(c, r)
           last == InfLastPage(c, r)
           n == Len(c.pages[r])
<1>1. /\ InfCacheTyped(c) /\ c.used \in [InfPage -> 0..InfPageSize]
      /\ c.pages \in [InfRequest -> Seq(InfPage)] /\ InfPageSize \in Nat \ {0}
  BY InfAssumption DEF InfCacheOK, InfCacheTyped
<1>2. CASE c.pages[r] = <<>>
  <2>1. d = InfAllocate(c, r, 0)
    BY <1>2 DEF InfRecordToken
  <2>2. InfCacheOK(d) /\ InfOthersKept(c, d, r)
    BY <1>1, <2>1, InfAllocated
  <2>3. \A tokens : ~InfFull(c, r, tokens)
    BY <1>2 DEF InfFull
  <2> QED
    BY <2>2, <2>3
<1>3. CASE c.pages[r] # <<>>
  <2>1. n \in Nat \ {0} /\ last \in InfPage /\ InfOwns(c, r, last)
    BY <1>1, <1>3, InfLastOwned
  <2>2. CASE InfNeedsPage(c, r)
    <3>1. d = InfAllocate(c, r, 1)
      BY <1>3, <2>2 DEF InfRecordToken
    <3>2. 1 \in 0..InfPageSize
      BY <1>1
    <3>3. /\ InfCacheOK(d) /\ InfOthersKept(c, d, r)
          /\ c.free # {} => Len(d.pages[r]) = n + 1 /\ d.used[InfLastPage(d, r)] = 1
      BY <3>1, <3>2, InfAllocated
    <3>4. ASSUME NEW tokens \in Nat, InfFull(c, r, tokens), c.free # {}
          PROVE  InfFull(d, r, tokens + 1)
      <4>1. c.used[last] = InfPageSize
        BY <1>1, <1>3, <2>1, <2>2 DEF InfNeedsPage
      <4>2. tokens = (n - 1) * InfPageSize + InfPageSize
        BY <3>4, <4>1 DEF InfFull
      <4>3. tokens + 1 = (n + 1 - 1) * InfPageSize + 1
        BY <1>1, <2>1, <4>2
      <4>4. Len(d.pages[r]) = n + 1 /\ d.used[InfLastPage(d, r)] = 1 /\ n + 1 > 0
        BY <2>1, <3>3, <3>4
      <4> HIDE DEF d, n
      <4> QED
        BY <2>1, <4>3, <4>4 DEF InfFull
    <3> QED
      BY <2>2, <3>3, <3>4
  <2>3. CASE ~InfNeedsPage(c, r)
    <3>1. d = [c EXCEPT !.used[last] = @ + 1]
      BY <1>3, <2>3 DEF InfRecordToken
    <3>2. c.used[last] + 1 \in 0..InfPageSize
      BY <1>1, <1>3, <2>1, <2>3 DEF InfNeedsPage
    <3> HIDE DEF last
    <3>3. c = [free |-> c.free, pages |-> c.pages, used |-> c.used]
      BY <1>1 DEF InfCacheTyped
    <3>4. d = [free |-> c.free, pages |-> c.pages, used |-> [c.used EXCEPT ![last] = @ + 1]]
      BY <3>1, <3>3
    <3> HIDE DEF d
    <3>5. /\ d.free = c.free /\ d.pages = c.pages /\ d.used[last] = c.used[last] + 1
          /\ \A p \in InfPage \ {last} : d.used[p] = c.used[p]
      BY <1>1, <2>1, <3>4
    <3>6. InfCacheTyped(d)
      <4>1. [c.used EXCEPT ![last] = @ + 1] \in [InfPage -> 0..InfPageSize]
        BY <1>1, <2>1, <3>2
      <4> QED
        BY <1>1, <3>4, <4>1 DEF InfCacheTyped
    <3>7. InfCachePartition(d)
      BY <3>5 DEF InfCacheOK, InfCachePartition, InfOwns
    <3>8. InfOthersKept(c, d, r)
      BY <2>1, <3>5 DEF InfOthersKept, InfCacheOK, InfCachePartition
    <3>9. ASSUME NEW tokens \in Nat, InfFull(c, r, tokens)
          PROVE  InfFull(d, r, tokens + 1)
      <4>1. InfLastPage(d, r) = last
        BY <3>5 DEF InfLastPage, last
      <4>2. c.used[last] \in Nat
        BY <1>1, <2>1
      <4>3. tokens = (n - 1) * InfPageSize + c.used[last] /\ n > 0
        BY <3>9 DEF InfFull, last
      <4>4. (n - 1) * InfPageSize \in Int
        BY <1>1, <2>1
      <4>5. tokens + 1 = (n - 1) * InfPageSize + (c.used[last] + 1)
        BY <4>2, <4>3, <4>4
      <4>6. c.used[last] + 1 # 0
        BY <4>2
      <4> QED
        BY <3>5, <4>1, <4>3, <4>5, <4>6 DEF InfFull
    <3> QED
      BY <3>6, <3>7, <3>8, <3>9 DEF InfCacheOK, d
  <2> QED
    BY <2>2, <2>3
<1> QED
  BY <1>2, <1>3

\* Requests whose pages are kept stay full.
LEMMA InfKeptFull ==
    ASSUME NEW c, InfCacheOK(c), NEW d, NEW r \in InfRequest, NEW s \in InfRequest \ {r},
           InfOthersKept(c, d, r), NEW tokens, InfFull(c, s, tokens)
    PROVE  InfFull(d, s, tokens)
<1>1. c.pages[s] # <<>>
  BY DEF InfFull
<1>2. InfOwns(c, s, InfLastPage(c, s)) /\ InfLastPage(c, s) \in InfPage
  BY <1>1, InfLastOwned DEF InfCacheOK
<1>3. InfLastPage(d, s) = InfLastPage(c, s)
  BY DEF InfOthersKept, InfLastPage
<1> QED
  BY <1>2, <1>3 DEF InfOthersKept, InfFull

-----------------------------------------------------------------------------
(* The steps of the engine.                                                *)

\* Steps that change no more of a request than whether it waits.
LEMMA InfQuietStep ==
    ASSUME InfInv, infReq' \in [InfRequest -> InfRequests],
           \A r \in InfRequest :
               /\ infReq'[r].status = infReq[r].status /\ infReq'[r].tokens = infReq[r].tokens
               /\ infReq'[r].priority = infReq[r].priority /\ infReq'[r].arrival = infReq[r].arrival,
           UNCHANGED <<infQueue, infActive, infCache, infStarved>>
    PROVE  /\ InfReqOK' /\ InfQueueOK' /\ InfPagesOK'
           /\ infActive' \in Seq(InfRequest) /\ Len(infActive') <= InfMaxBatch
           /\ \A i \in 1..Len(infActive') : infReq'[infActive'[i]].status = "active"
<1>1. InfSubmitted' = InfSubmitted
  BY DEF InfSubmitted
<1>2. InfReqOK'
  <2>1. \A r \in InfRequest : r \in InfSubmitted => infReq[r].arrival < Cardinality(InfSubmitted)
    BY DEF InfInv, InfReqOK
  <2> QED
    BY <1>1, <2>1 DEF InfInv, InfReqOK, InfSubmitted
<1>3. \A i \in 1..Len(infQueue) : infQueue[i] \in InfRequest
  BY DEF InfInv, InfQueueOK
<1>4. \A i \in 1..Len(infActive) : infActive[i] \in InfRequest
  BY DEF InfInv, InfBatchOK
<1>5. InfQueueOK'
  BY <1>3 DEF InfInv, InfQueueOK, InfBefore
<1>6. InfPagesOK'
  BY <1>4 DEF InfInv, InfPagesOK
<1> QED
  BY <1>2, <1>4, <1>5, <1>6 DEF InfInv, InfBatchOK

LEMMA InfSubmitStep ==
    ASSUME InfInv, NEW r \in InfRequest, InfSubmit(r)
    PROVE  InfInv'
<1> DEFINE count == Cardinality(InfSubmitted)
<1>1. PICK priority \in InfPriorities : \E limit \in InfLimits :
         /\ infReq' = [infReq EXCEPT ![r] = [InfNew EXCEPT !.status = "queued",
                          !.priority = priority, !.limit = limit, !.waiting = TRUE,
                          !.arrival = count]]
         /\ infQueue' = InfPush(infQueue, r, priority)
  BY DEF InfSubmit, InfSubmitted
<1>2. PICK limit \in InfLimits :
         infReq' = [infReq EXCEPT ![r] = [status |-> "queued", priority |-> priority,
                       limit |-> limit, tokens |-> 0, arrival |-> count, waiting |-> TRUE]]
  BY <1>1 DEF InfNew
<1>3. /\ infPhase = "idle" /\ infReq[r].status = "new" /\ infQueue' = InfPush(infQueue, r, priority)
      /\ UNCHANGED <<infActive, infPhase, infTodo, infCache, infStarved>>
  BY <1>1 DEF InfSubmit
<1>4. InfReqOK /\ InfQueueOK /\ InfBatchOK /\ InfPagesOK
  BY DEF InfInv
<1>5. IsFiniteSet(InfSubmitted) /\ count \in Nat
  <2>1. IsFiniteSet(InfSubmitted)
    BY InfAssumption, FS_Subset DEF InfSubmitted
  <2> QED
    BY <2>1, FS_CardinalityType
<1>6. /\ infReq'[r] = [status |-> "queued", priority |-> priority, limit |-> limit,
                       tokens |-> 0, arrival |-> count, waiting |-> TRUE]
      /\ \A s \in InfRequest \ {r} : infReq'[s] = infReq[s]
  BY <1>2, <1>4 DEF InfReqOK
<1>7. InfSubmitted' = InfSubmitted \cup {r} /\ r \notin InfSubmitted
  BY <1>3, <1>6 DEF InfSubmitted
<1>8. Cardinality(InfSubmitted') = count + 1
  BY <1>5, <1>7, FS_AddElement
<1>9. InfReqOK'
  <2>1. infReq' \in [InfRequest -> InfRequests]
    BY <1>2, <1>4, <1>5 DEF InfReqOK, InfRequests
  <2>2. ASSUME NEW s \in InfSubmitted' PROVE infReq'[s].arrival < count + 1
    <3>1. CASE s = r
      BY <1>5, <1>6, <3>1
    <3>2. CASE s # r
      <4>1. s \in InfSubmitted /\ s \in InfRequest /\ infReq[s].arrival \in Nat
        BY <1>4, <1>7, <2>2, <3>2 DEF InfReqOK, InfSubmitted, InfRequests
      <4>2. infReq[s].arrival < count
        BY <1>4, <4>1 DEF InfReqOK
      <4> QED
        BY <1>5, <1>6, <3>2, <4>1, <4>2
    <3> QED
      BY <3>1, <3>2
  <2>3. \A s \in InfRequest : infReq'[s].status \in {"new", "queued"} => infReq'[s].tokens = 0
    BY <1>4, <1>6 DEF InfReqOK
  <2> QED
    BY <1>8, <2>1, <2>2, <2>3 DEF InfReqOK
<1> DEFINE behind == {i \in DOMAIN infQueue : infReq[infQueue[i]].priority <= priority}
           n == Cardinality(behind)
<1>10. /\ infQueue \in Seq(InfRequest) /\ DOMAIN infQueue = 1..Len(infQueue)
       /\ Len(infQueue) \in Nat /\ priority \in Int
       /\ \A i \in 1..Len(infQueue) :
             /\ infQueue[i] # r /\ infQueue[i] \in InfRequest
             /\ infQueue[i] \in InfSubmitted
             /\ infReq[infQueue[i]].priority \in Int /\ infReq[infQueue[i]].arrival \in Nat
  <2>1. infQueue \in Seq(InfRequest) /\ DOMAIN infQueue = 1..Len(infQueue)
    BY <1>4 DEF InfQueueOK
  <2>2. \A i \in 1..Len(infQueue) : infQueue[i] \in InfRequest
                                    /\ infReq[infQueue[i]].status = "queued"
    BY <1>4, <2>1 DEF InfQueueOK
  <2>3. \A s \in InfRequest : infReq[s].priority \in Int /\ infReq[s].arrival \in Nat
    <3>1. \A s \in InfRequest : infReq[s].priority \in InfPriorities \cup {0}
                                  /\ infReq[s].arrival \in Nat
      BY <1>4 DEF InfReqOK, InfRequests
    <3>2. \A x \in InfPriorities \cup {0} : x \in Int
      BY InfAssumption
    <3> QED
      BY <3>1, <3>2
  <2>4. Len(infQueue) \in Nat /\ priority \in Int
    BY <2>1, InfAssumption
  <2> QED
    BY <1>3, <2>1, <2>2, <2>3, <2>4 DEF InfSubmitted
<1>11. n \in 0..Len(infQueue) /\ behind = 1..n
  <2>1. ASSUME NEW i \in behind, NEW j \in 1..i PROVE j \in behind
    <3>1. CASE j = i
      BY <3>1
    <3>2. CASE j # i
      <4>1. i \in 1..Len(infQueue) /\ j \in 1..Len(infQueue) /\ j < i
        BY <1>10, <3>2
      <4>2. InfBefore(infQueue[j], infQueue[i])
        BY <1>4, <4>1 DEF InfQueueOK
      <4> QED
        BY <1>10, <4>1, <4>2 DEF InfBefore
    <3> QED
      BY <3>1, <3>2
  <2>2. behind \in SUBSET (1..Len(infQueue))
    BY <1>10
  <2> HIDE DEF behind
  <2> QED
    BY <1>10, <2>1, <2>2, PrefixSet
<1>12. infQueue' = InsertAt(infQueue, n + 1, r)
  BY <1>3 DEF InfPush
<1>13. \A i \in 1..Len(infQueue) : i <= n <=> infReq[infQueue[i]].priority <= priority
  BY <1>10, <1>11
<1> HIDE DEF behind, n
<1>14. /\ infQueue' \in Seq(InfRequest) /\ Len(infQueue') = Len(infQueue) + 1
       /\ \A k \in 1..n : infQueue'[k] = infQueue[k]
       /\ infQueue'[n + 1] = r
       /\ \A k \in (n + 1)..Len(infQueue) : infQueue'[k + 1] = infQueue[k]
  <2>1. PICK at : at = n + 1
    OBVIOUS
  <2>2. IsInserted(InfRequest, infQueue, at, r, InsertAt(infQueue, at, r))
    <3>1. at \in 1..(Len(infQueue) + 1)
      BY <1>10, <1>11, <2>1
    <3>2. infQueue \in Seq(InfRequest)
      BY <1>10
    <3> QED
      BY <3>1, <3>2, Inserted, Zenon
  <2>3. infQueue' = InsertAt(infQueue, at, r)
    BY <1>12, <2>1
  <2>4. at - 1 = n
    BY <1>11, <2>1
  <2> QED
    BY <2>1, <2>2, <2>3, <2>4 DEF IsInserted
<1>15. ASSUME NEW k \in 1..Len(infQueue')
       PROVE  \/ k = n + 1 /\ infQueue'[k] = r
              \/ k <= n /\ k \in 1..Len(infQueue) /\ infQueue'[k] = infQueue[k]
              \/ /\ k > n + 1 /\ k - 1 \in 1..Len(infQueue) /\ k - 1 > n
                 /\ infQueue'[k] = infQueue[k - 1]
  <2>1. CASE k <= n
    BY <1>10, <1>11, <1>14, <2>1
  <2>2. CASE k > n + 1
    <3>1. k - 1 \in (n + 1)..Len(infQueue) /\ (k - 1) + 1 = k
      BY <1>10, <1>11, <1>14, <2>2
    <3> QED
      BY <1>10, <1>11, <1>14, <2>2, <3>1
  <2>3. k = n + 1 \/ k <= n \/ k > n + 1
    BY <1>10, <1>11, <1>14
  <2> QED
    BY <1>14, <2>1, <2>2, <2>3
<1>16. \A i \in 1..Len(infQueue) :
          /\ infReq'[infQueue[i]] = infReq[infQueue[i]]
          /\ infReq[infQueue[i]].arrival < count
          /\ infReq[infQueue[i]].status = "queued"
  BY <1>4, <1>6, <1>10 DEF InfReqOK, InfQueueOK
<1>17. \A k \in 1..Len(infQueue') : infReq'[infQueue'[k]].status = "queued"
  BY <1>6, <1>15, <1>16
<1>18. ASSUME NEW k \in 1..Len(infQueue'), NEW l \in 1..Len(infQueue'), k < l
       PROVE  InfBefore(infQueue[k], infQueue[l])'
  <2> DEFINE a == infQueue'[k]
             b == infQueue'[l]
  <2> SUFFICES \/ infReq'[a].priority < infReq'[b].priority
               \/ /\ infReq'[a].priority = infReq'[b].priority
                  /\ infReq'[a].arrival < infReq'[b].arrival
    BY DEF InfBefore
  <2>1. ASSUME NEW i \in 1..Len(infQueue), NEW j \in 1..Len(infQueue), i < j,
               a = infQueue[i], b = infQueue[j]
        PROVE  \/ infReq'[a].priority < infReq'[b].priority
               \/ /\ infReq'[a].priority = infReq'[b].priority
                  /\ infReq'[a].arrival < infReq'[b].arrival
    <3>1. InfBefore(infQueue[i], infQueue[j])
      BY <1>4, <2>1 DEF InfQueueOK
    <3> HIDE DEF a, b
    <3> QED
      BY <1>16, <2>1, <3>1 DEF InfBefore
  <2>2. ASSUME NEW i \in 1..Len(infQueue), i <= n, a = infQueue[i], b = r
        PROVE  \/ infReq'[a].priority < infReq'[b].priority
               \/ /\ infReq'[a].priority = infReq'[b].priority
                  /\ infReq'[a].arrival < infReq'[b].arrival
    <3> HIDE DEF a, b
    <3>1. /\ infReq'[a].priority = infReq[infQueue[i]].priority
          /\ infReq'[a].arrival = infReq[infQueue[i]].arrival
          /\ infReq'[b].priority = priority /\ infReq'[b].arrival = count
      BY <1>6, <1>16, <2>2
    <3>2. infReq[infQueue[i]].priority <= priority /\ infReq[infQueue[i]].arrival < count
      BY <1>13, <1>16, <2>2
    <3> QED
      BY <1>10, <3>1, <3>2
  <2>3. ASSUME NEW j \in 1..Len(infQueue), j > n, a = r, b = infQueue[j]
        PROVE  infReq'[a].priority < infReq'[b].priority
    <3> HIDE DEF a, b
    <3>1. infReq'[b].priority = infReq[infQueue[j]].priority /\ infReq'[a].priority = priority
      BY <1>6, <1>16, <2>3
    <3>2. ~(j <= n)
      BY <1>11, <2>3
    <3>3. ~(infReq[infQueue[j]].priority <= priority)
      BY <1>13, <3>2
    <3> QED
      BY <1>10, <3>1, <3>3
  <2> HIDE DEF a, b
  <2>4. \/ k = n + 1 /\ a = r
        \/ k <= n /\ k \in 1..Len(infQueue) /\ a = infQueue[k]
        \/ k > n + 1 /\ k - 1 \in 1..Len(infQueue) /\ k - 1 > n /\ a = infQueue[k - 1]
    BY <1>15 DEF a
  <2>5. \/ l = n + 1 /\ b = r
        \/ l <= n /\ l \in 1..Len(infQueue) /\ b = infQueue[l]
        \/ l > n + 1 /\ l - 1 \in 1..Len(infQueue) /\ l - 1 > n /\ b = infQueue[l - 1]
    BY <1>15 DEF b
  <2>6. n \in Nat /\ k \in Nat /\ l \in Nat
    BY <1>10, <1>11, <1>14
  <2>7. CASE k = n + 1 /\ a = r
    BY <1>18, <2>3, <2>5, <2>6, <2>7
  <2>8. CASE k <= n /\ k \in 1..Len(infQueue) /\ a = infQueue[k]
    <3>1. CASE l > n + 1 /\ l - 1 \in 1..Len(infQueue) /\ l - 1 > n /\ b = infQueue[l - 1]
      BY <2>1, <2>6, <2>8, <3>1
    <3> QED
      BY <1>18, <2>1, <2>2, <2>5, <2>8, <3>1
  <2>9. CASE k > n + 1 /\ k - 1 \in 1..Len(infQueue) /\ k - 1 > n /\ a = infQueue[k - 1]
    <3>1. l > n + 1 /\ l - 1 \in 1..Len(infQueue) /\ k - 1 < l - 1 /\ b = infQueue[l - 1]
      BY <1>18, <2>5, <2>6, <2>9
    <3> QED
      BY <2>1, <2>9, <3>1
  <2> QED
    BY <2>4, <2>7, <2>8, <2>9
<1>19. InfQueueOK'
  BY <1>14, <1>17, <1>18 DEF InfQueueOK
<1>20. \A i \in 1..Len(infActive) : infActive[i] \in InfRequest /\ infActive[i] # r
  BY <1>3, <1>4 DEF InfBatchOK
<1>21. InfBatchOK'
  BY <1>3, <1>4, <1>6, <1>20 DEF InfBatchOK
<1>22. InfPagesOK'
  BY <1>3, <1>4, <1>6, <1>20 DEF InfPagesOK
<1> QED
  BY <1>9, <1>19, <1>21, <1>22 DEF InfInv

LEMMA InfTimeoutStep ==
    ASSUME InfInv, NEW r \in InfRequest, InfTimeout(r)
    PROVE  InfInv'
<1>1. /\ infReq' = [infReq EXCEPT ![r].waiting = FALSE] /\ infReq \in [InfRequest -> InfRequests]
      /\ UNCHANGED <<infQueue, infActive, infPhase, infTodo, infCache, infStarved>>
      /\ InfBatchOK
  BY DEF InfTimeout, InfInv, InfReqOK
<1>2. infReq' \in [InfRequest -> InfRequests]
  BY <1>1 DEF InfRequests
<1>3. \A s \in InfRequest :
         /\ infReq'[s].status = infReq[s].status /\ infReq'[s].tokens = infReq[s].tokens
         /\ infReq'[s].priority = infReq[s].priority /\ infReq'[s].arrival = infReq[s].arrival
  BY <1>1 DEF InfRequests
<1>4. /\ InfReqOK' /\ InfQueueOK' /\ InfPagesOK'
      /\ infActive' \in Seq(InfRequest) /\ Len(infActive') <= InfMaxBatch
      /\ \A i \in 1..Len(infActive') : infReq'[infActive'[i]].status = "active"
  BY <1>1, <1>2, <1>3, InfQuietStep
<1>5. InfBatchOK'
  BY <1>1, <1>4 DEF InfBatchOK
<1> QED
  BY <1>4, <1>5 DEF InfInv

\* A step whose forward pass raises: its coroutine stops waiting.
LEMMA InfRaiseStep ==
    ASSUME InfInv, InfRaise
    PROVE  InfInv'
<1>1. /\ infReq' = [infReq EXCEPT ![infDriver].waiting = FALSE]
      /\ infReq \in [InfRequest -> InfRequests] /\ infPhase' = "idle" /\ infTodo' = <<>>
      /\ UNCHANGED <<infQueue, infActive, infCache, infStarved>>
      /\ InfBatchOK
  BY DEF InfRaise, InfInv, InfReqOK
<1>2. infReq' \in [InfRequest -> InfRequests]
  BY <1>1 DEF InfRequests
<1>3. \A s \in InfRequest :
         /\ infReq'[s].status = infReq[s].status /\ infReq'[s].tokens = infReq[s].tokens
         /\ infReq'[s].priority = infReq[s].priority /\ infReq'[s].arrival = infReq[s].arrival
  BY <1>1 DEF InfRequests
<1>4. /\ InfReqOK' /\ InfQueueOK' /\ InfPagesOK'
      /\ infActive' \in Seq(InfRequest) /\ Len(infActive') <= InfMaxBatch
      /\ \A i \in 1..Len(infActive') : infReq'[infActive'[i]].status = "active"
  BY <1>1, <1>2, <1>3, InfQuietStep
<1>5. InfBatchOK'
  BY <1>1, <1>4 DEF InfBatchOK
<1> QED
  BY <1>4, <1>5 DEF InfInv

LEMMA InfTurnStep ==
    ASSUME InfInv, InfBegin \/ InfPlan
    PROVE  InfInv'
<1>1. /\ UNCHANGED <<infReq, infQueue, infActive, infCache, infStarved>>
      /\ infReq \in [InfRequest -> InfRequests] /\ InfBatchOK
  BY DEF InfBegin, InfPlan, InfInv, InfReqOK
<1>2. /\ InfReqOK' /\ InfQueueOK' /\ InfPagesOK'
      /\ infActive' \in Seq(InfRequest) /\ Len(infActive') <= InfMaxBatch
      /\ \A i \in 1..Len(infActive') : infReq'[infActive'[i]].status = "active"
  BY <1>1, InfQuietStep
<1>3. \/ infPhase' \in {"idle", "admit"}
      \/ infPhase' = "decode" /\ infTodo' = infActive /\ infActive # <<>>
  BY DEF InfBegin, InfPlan
<1>4. infActive # <<>> => Len(infActive) > 0
  BY <1>1 DEF InfBatchOK
<1>5. InfBatchOK'
  BY <1>1, <1>2, <1>3, <1>4 DEF InfBatchOK
<1> QED
  BY <1>2, <1>5 DEF InfInv

\* The head of the queue joins the batch with a page of its own, if there is one.
LEMMA InfAdmitStep ==
    ASSUME InfInv, InfAdmit
    PROVE  InfInv'
<1> DEFINE r == Head(infQueue)
           n == Len(infActive)
<1>1. /\ infPhase = "admit" /\ Len(infActive) < InfMaxBatch /\ infQueue # <<>>
      /\ infQueue' = Tail(infQueue) /\ infActive' = Append(infActive, r)
      /\ infReq' = [infReq EXCEPT ![r].status = "active"]
      /\ infStarved' = (infStarved \/ infCache.free = {})
      /\ infCache' = InfAllocate(infCache, r, 0)
      /\ UNCHANGED <<infPhase, infTodo>>
  BY DEF InfAdmit, InfRoom
<1>2. InfReqOK /\ InfQueueOK /\ InfBatchOK /\ InfPagesOK
  BY DEF InfInv
<1>3. /\ infQueue \in Seq(InfRequest) /\ Len(infQueue) \in Nat \ {0} /\ r = infQueue[1]
      /\ r \in InfRequest /\ infReq[r].status = "queued" /\ infReq[r].tokens = 0
      /\ infQueue' \in Seq(InfRequest) /\ Len(infQueue') = Len(infQueue) - 1
      /\ \A i \in 1..(Len(infQueue) - 1) : infQueue'[i] = infQueue[i + 1]
  BY <1>1, <1>2 DEF InfQueueOK, InfReqOK
<1>4. /\ infActive \in Seq(InfRequest) /\ n \in Nat /\ infActive' \in Seq(InfRequest)
      /\ Len(infActive') = n + 1
      /\ \A i \in 1..(n + 1) : infActive'[i] = IF i = n + 1 THEN r ELSE infActive[i]
  BY <1>1, <1>2, <1>3, Lengthened DEF InfBatchOK
<1>5. \A i \in 1..n : infActive[i] \in InfRequest /\ infActive[i] # r
  BY <1>2, <1>3 DEF InfBatchOK
<1> HIDE DEF r, n
<1>6. /\ infReq \in [InfRequest -> InfRequests] /\ infReq' \in [InfRequest -> InfRequests]
      /\ infReq'[r].status = "active" /\ infReq'[r].tokens = 0
      /\ infReq'[r].priority = infReq[r].priority /\ infReq'[r].arrival = infReq[r].arrival
      /\ \A s \in InfRequest \ {r} : infReq'[s] = infReq[s]
  BY <1>1, <1>2, <1>3 DEF InfReqOK, InfRequests
<1>7. InfReqOK'
  <2>1. InfSubmitted' = InfSubmitted
    BY <1>3, <1>6 DEF InfSubmitted
  <2>2. \A s \in InfSubmitted : infReq'[s].arrival < Cardinality(InfSubmitted)
    BY <1>2, <1>6 DEF InfReqOK, InfSubmitted
  <2> QED
    BY <1>2, <1>6, <2>1, <2>2 DEF InfReqOK
<1>8. \A i \in 1..Len(infQueue) : infQueue[i] \in InfRequest
  BY <1>3
<1>9. \A s \in InfRequest : infReq[s].priority \in Int /\ infReq[s].arrival \in Nat
  <2>1. \A s \in InfRequest : infReq[s].priority \in InfPriorities \cup {0}
                                /\ infReq[s].arrival \in Nat
    BY <1>6 DEF InfRequests
  <2>2. \A x \in InfPriorities \cup {0} : x \in Int
    BY InfAssumption
  <2> QED
    BY <2>1, <2>2
<1>10. \A i \in 1..(Len(infQueue) - 1) : i + 1 \in 1..Len(infQueue) /\ infQueue[i + 1] # r
  <2>1. ASSUME NEW i \in 1..(Len(infQueue) - 1)
        PROVE  i + 1 \in 1..Len(infQueue) /\ infQueue[i + 1] # r
    <3>1. i + 1 \in 1..Len(infQueue) /\ 1 \in 1..Len(infQueue) /\ 1 < i + 1
      BY <1>3
    <3>2. InfBefore(infQueue[1], infQueue[i + 1])
      BY <1>2, <3>1 DEF InfQueueOK
    <3> QED
      BY <1>3, <1>9, <3>1, <3>2 DEF InfBefore
  <2> QED
    BY <2>1
<1>11. InfQueueOK'
  <2>1. \A i \in 1..Len(infQueue') : infReq'[infQueue'[i]].status = "queued"
    BY <1>2, <1>3, <1>6, <1>8, <1>10 DEF InfQueueOK
  <2>2. ASSUME NEW i \in 1..Len(infQueue'), NEW j \in 1..Len(infQueue'), i < j
        PROVE  InfBefore(infQueue[i], infQueue[j])'
    <3>1. i + 1 \in 1..Len(infQueue) /\ j + 1 \in 1..Len(infQueue) /\ i + 1 < j + 1
      BY <1>3, <2>2
    <3>2. InfBefore(infQueue[i + 1], infQueue[j + 1])
      BY <1>2, <3>1 DEF InfQueueOK
    <3>3. infQueue'[i] = infQueue[i + 1] /\ infQueue'[j] = infQueue[j + 1]
      BY <1>3, <2>2
    <3>4. /\ infReq'[infQueue[i + 1]] = infReq[infQueue[i + 1]]
          /\ infReq'[infQueue[j + 1]] = infReq[infQueue[j + 1]]
      BY <1>3, <1>6, <1>8, <1>10, <3>1
    <3> QED
      BY <3>2, <3>3, <3>4 DEF InfBefore
  <2> QED
    BY <1>3, <2>1, <2>2 DEF InfQueueOK
<1>12. InfBatchOK'
  <2>1. ASSUME NEW i \in 1..(n + 1), NEW j \in 1..(n + 1), infActive'[i] = infActive'[j]
        PROVE  i = j
    BY <1>2, <1>4, <1>5, <2>1 DEF InfBatchOK, n
  <2>2. \A i \in 1..(n + 1) : infReq'[infActive'[i]].status = "active"
    BY <1>2, <1>4, <1>5, <1>6 DEF InfBatchOK, n
  <2>3. Len(infActive') <= InfMaxBatch
    BY <1>1, <1>4, InfAssumption DEF n
  <2> QED
    BY <1>1, <1>2, <1>4, <2>1, <2>2, <2>3 DEF InfBatchOK
<1>13. /\ InfCacheOK(infCache) /\ infCache.pages[r] = <<>>
       /\ InfCacheOK(infCache') /\ InfOthersKept(infCache, infCache', r)
       /\ infCache.free = {} => infCache' = infCache
       /\ infCache.free # {} => /\ Len(infCache'.pages[r]) = Len(infCache.pages[r]) + 1
                                /\ infCache'.used[InfLastPage(infCache', r)] = 0
  <2>1. 0 \in 0..InfPageSize
    BY InfAssumption
  <2>2. InfCacheOK(infCache)
    BY <1>2 DEF InfPagesOK
  <2>3. infCache.pages[r] = <<>>
    BY <1>2, <1>3, <1>5 DEF InfPagesOK, n
  <2>4. PICK c : c = infCache
    OBVIOUS
  <2>5. PICK d : d = InfAllocate(c, r, 0)
    OBVIOUS
  <2>6. /\ InfCacheOK(d) /\ InfOthersKept(c, d, r)
        /\ c.free = {} => d = c
        /\ c.free # {} => /\ Len(d.pages[r]) = Len(c.pages[r]) + 1
                          /\ d.used[InfLastPage(d, r)] = 0
    <3>1. r \in InfRequest /\ InfCacheOK(c)
      BY <1>3, <2>2, <2>4
    <3> QED
      BY <2>1, <2>5, <3>1, InfAllocated
  <2>7. infCache' = d
    BY <1>1, <2>4, <2>5
  <2> QED
    BY <2>2, <2>3, <2>4, <2>6, <2>7
<1>14. ASSUME NEW s \in InfRequest, infCache'.pages[s] # <<>>
       PROVE  \E k \in 1..(n + 1) : infActive'[k] = s
  <2>1. CASE s = r
    BY <1>4, <2>1
  <2>2. CASE s # r
    <3>1. \E k \in 1..n : infActive[k] = s
      BY <1>2, <1>13, <1>14, <2>2 DEF InfPagesOK, InfOthersKept, n
    <3>2. \A k \in 1..n : k \in 1..(n + 1) /\ k # n + 1
      BY <1>4
    <3> QED
      BY <1>4, <3>1, <3>2
  <2> QED
    BY <2>1, <2>2
<1>15. ASSUME ~infStarved', NEW k \in 1..(n + 1)
       PROVE  InfFull(infCache', infActive'[k], infReq'[infActive'[k]].tokens)
  <2>1. ~infStarved /\ infCache.free # {}
    BY <1>1, <1>15
  <2>2. CASE k = n + 1
    <3>1. Len(infCache'.pages[r]) = 1 /\ infCache'.used[InfLastPage(infCache', r)] = 0
      BY <1>13, <2>1
    <3>2. (1 - 1) * InfPageSize + 0 = 0
      BY InfAssumption
    <3>3. InfFull(infCache', r, 0)
      BY <3>1, <3>2 DEF InfFull
    <3> QED
      BY <1>4, <1>6, <2>2, <3>3
  <2>3. CASE k # n + 1
    <3>1. k \in 1..n /\ infActive'[k] = infActive[k]
      BY <1>4, <2>3
    <3> DEFINE s == infActive[k]
    <3>2. s \in InfRequest \ {r} /\ InfFull(infCache, s, infReq[s].tokens)
      BY <1>2, <1>5, <2>1, <3>1 DEF InfPagesOK, n
    <3> HIDE DEF s
    <3>3. InfFull(infCache', s, infReq[s].tokens)
      BY <1>3, <1>13, <3>2, InfKeptFull
    <3> QED
      BY <1>6, <3>1, <3>2, <3>3 DEF s
  <2> QED
    BY <2>2, <2>3
<1>16. InfPagesOK'
  BY <1>4, <1>13, <1>14, <1>15 DEF InfPagesOK
<1> QED
  BY <1>7, <1>11, <1>12, <1>16 DEF InfInv

\* A step that changes a request of the batch, and nothing that orders the queue.
LEMMA InfActiveStep ==
    ASSUME InfInv, NEW r \in InfRequest, infReq[r].status = "active",
           infReq' \in [InfRequest -> InfRequests], infReq'[r].status \in {"active", "done"},
           infReq'[r].priority = infReq[r].priority, infReq'[r].arrival = infReq[r].arrival,
           \A s \in InfRequest \ {r} : infReq'[s] = infReq[s], UNCHANGED infQueue
    PROVE  InfReqOK' /\ InfQueueOK'
<1>1. InfReqOK /\ InfQueueOK
  BY DEF InfInv
<1>2. InfReqOK'
  <2>1. InfSubmitted' = InfSubmitted
    BY DEF InfSubmitted
  <2>2. \A s \in InfSubmitted : infReq'[s].arrival < Cardinality(InfSubmitted)
    BY <1>1 DEF InfReqOK, InfSubmitted
  <2> QED
    BY <1>1, <2>1, <2>2 DEF InfReqOK
<1>3. \A i \in 1..Len(infQueue) : infQueue[i] \in InfRequest \ {r}
                                  /\ infReq'[infQueue[i]] = infReq[infQueue[i]]
  BY <1>1 DEF InfQueueOK
<1>4. InfQueueOK'
  BY <1>1, <1>3 DEF InfQueueOK, InfBefore
<1> QED
  BY <1>2, <1>4

\* The first of the copy of the batch gets a token, in a page of its own.
LEMMA InfDecodeStep ==
    ASSUME InfInv, InfDecode
    PROVE  InfInv'
<1> DEFINE r == Head(infTodo)
           n == Len(infActive)
           recorded == InfRecordToken(infCache, r)
           stays == /\ infReq' = [infReq EXCEPT ![r].tokens = @ + 1]
                    /\ infCache' = recorded
                    /\ UNCHANGED infActive
           ends == /\ infReq' = [infReq EXCEPT ![r].tokens = @ + 1, ![r].status = "done",
                                               ![r].waiting = FALSE]
                   /\ infActive' = RemoveAt(infActive,
                                    CHOOSE i \in DOMAIN infActive : infActive[i] = r)
                   /\ infCache' = InfFree(recorded, r)
<1>1. /\ infPhase = "decode" /\ infTodo' = Tail(infTodo)
      /\ infPhase' = IF Len(infTodo) = 1 THEN "idle" ELSE "decode"
      /\ infStarved' = (infStarved \/ (InfNeedsPage(infCache, r) /\ infCache.free = {}))
      /\ stays \/ ends
      /\ UNCHANGED infQueue
  BY DEF InfDecode
<1>2. InfReqOK /\ InfQueueOK /\ InfBatchOK /\ InfPagesOK
  BY DEF InfInv
<1>3. /\ infTodo \in Seq(InfRequest) /\ Len(infTodo) \in Nat \ {0} /\ r = infTodo[1]
      /\ r \in InfRequest /\ infTodo' \in Seq(InfRequest) /\ Len(infTodo') = Len(infTodo) - 1
      /\ \A i \in 1..(Len(infTodo) - 1) : infTodo'[i] = infTodo[i + 1]
  BY <1>1, <1>2 DEF InfBatchOK
<1>4. /\ infActive \in Seq(InfRequest) /\ n \in Nat /\ DOMAIN infActive = 1..n
      /\ \A i \in 1..n : infActive[i] \in InfRequest /\ infReq[infActive[i]].status = "active"
      /\ \A i, j \in 1..n : infActive[i] = infActive[j] => i = j
  BY <1>2 DEF InfBatchOK
<1>5. \E k \in 1..n : infActive[k] = r
  <2>1. 1 \in 1..Len(infTodo)
    BY <1>3
  <2>2. \E k \in 1..n : infActive[k] = infTodo[1]
    BY <1>1, <1>2, <2>1 DEF InfBatchOK
  <2> QED
    BY <1>3, <2>2
<1>6. \A i \in 1..Len(infTodo') : /\ infTodo'[i] # r
                                  /\ \E k \in 1..n : infActive[k] = infTodo'[i]
  <2>1. ASSUME NEW i \in 1..Len(infTodo')
        PROVE  infTodo'[i] # r /\ \E k \in 1..n : infActive[k] = infTodo'[i]
    <3>1. i + 1 \in 1..Len(infTodo) /\ i + 1 # 1 /\ 1 \in 1..Len(infTodo)
      BY <1>3
    <3>2. infTodo'[i] = infTodo[i + 1]
      BY <1>3, <2>1
    <3>3. infTodo[i + 1] # infTodo[1]
      BY <1>1, <1>2, <3>1 DEF InfBatchOK
    <3>4. \E k \in 1..n : infActive[k] = infTodo[i + 1]
      BY <1>1, <1>2, <3>1 DEF InfBatchOK
    <3> QED
      BY <1>3, <3>2, <3>3, <3>4
  <2> QED
    BY <2>1
<1>7. \A i, j \in 1..Len(infTodo') : infTodo'[i] = infTodo'[j] => i = j
  <2>1. ASSUME NEW i \in 1..Len(infTodo'), NEW j \in 1..Len(infTodo'), infTodo'[i] = infTodo'[j]
        PROVE  i = j
    <3>1. i + 1 \in 1..Len(infTodo) /\ j + 1 \in 1..Len(infTodo)
      BY <1>3
    <3>2. infTodo[i + 1] = infTodo[j + 1]
      BY <1>3, <2>1
    <3>3. i + 1 = j + 1
      BY <1>1, <1>2, <3>1, <3>2 DEF InfBatchOK
    <3> QED
      BY <1>3, <3>3
  <2> QED
    BY <2>1
<1>8. infPhase' \in {"idle", "decode"} /\ (infPhase' = "decode" => Len(infTodo') > 0)
  BY <1>1, <1>3
<1>9. infStarved' \in BOOLEAN /\ infStarved \in BOOLEAN
  BY <1>1, <1>2 DEF InfBatchOK
<1> HIDE DEF r, n
<1>10. /\ infReq \in [InfRequest -> InfRequests] /\ infReq[r].status = "active"
       /\ infReq[r].tokens \in Nat /\ infReq[r].tokens + 1 \in Nat
       /\ infReq[r] \in InfRequests
  BY <1>2, <1>3, <1>4, <1>5 DEF InfReqOK, InfRequests
<1>11. PICK c : c = infCache
  OBVIOUS
<1>12. PICK d : d = recorded
  OBVIOUS
<1>13. /\ InfCacheOK(c) /\ InfCacheOK(d) /\ InfOthersKept(c, d, r)
       /\ \A tokens \in Nat :
             InfFull(c, r, tokens) /\ ~(InfNeedsPage(c, r) /\ c.free = {})
             => InfFull(d, r, tokens + 1)
  <2>1. InfCacheOK(c) /\ r \in InfRequest
    BY <1>2, <1>3, <1>11 DEF InfPagesOK
  <2>2. d = InfRecordToken(c, r)
    BY <1>11, <1>12
  <2> QED
    BY <2>1, <2>2, InfRecorded
<1>14. CASE stays
  <2>1. /\ infReq' \in [InfRequest -> InfRequests] /\ infReq'[r].status = "active"
        /\ infReq'[r].priority = infReq[r].priority /\ infReq'[r].arrival = infReq[r].arrival
        /\ infReq'[r].tokens = infReq[r].tokens + 1
        /\ \A s \in InfRequest \ {r} : infReq'[s] = infReq[s]
    <3>1. infReq' = [infReq EXCEPT ![r] = [infReq[r] EXCEPT !.tokens = infReq[r].tokens + 1]]
      BY <1>3, <1>10, <1>14
    <3>2. PICK new : new = [infReq[r] EXCEPT !.tokens = infReq[r].tokens + 1]
      OBVIOUS
    <3>3. /\ new \in InfRequests /\ new.status = "active" /\ new.tokens = infReq[r].tokens + 1
          /\ new.priority = infReq[r].priority /\ new.arrival = infReq[r].arrival
      BY <1>10, <3>2 DEF InfRequests
    <3>4. infReq' = [infReq EXCEPT ![r] = new]
      BY <3>1, <3>2
    <3> QED
      BY <1>3, <1>10, <3>3, <3>4
  <2>2. InfReqOK' /\ InfQueueOK'
    BY <1>1, <1>3, <1>10, <2>1, InfActiveStep
  <2>3. infActive' = infActive /\ infCache' = d
    BY <1>12, <1>14
  <2> HIDE DEF stays
  <2>4. \A i \in 1..n : infReq'[infActive[i]].status = "active"
    BY <1>4, <2>1
  <2>5. InfBatchOK'
    BY <1>2, <1>3, <1>6, <1>7, <1>8, <1>9, <2>3, <2>4 DEF InfBatchOK, n
  <2>6. ASSUME NEW s \in InfRequest, d.pages[s] # <<>> PROVE \E k \in 1..n : infActive[k] = s
    <3>1. CASE s = r
      BY <1>5, <3>1
    <3>2. CASE s # r
      BY <1>2, <1>11, <1>13, <2>6, <3>2 DEF InfPagesOK, InfOthersKept, n
    <3> QED
      BY <3>1, <3>2
  <2>7. ASSUME ~infStarved', NEW k \in 1..n
        PROVE  InfFull(d, infActive[k], infReq'[infActive[k]].tokens)
    <3> DEFINE s == infActive[k]
    <3>1. ~infStarved /\ ~(InfNeedsPage(c, r) /\ c.free = {})
      BY <1>1, <1>9, <1>11, <2>7
    <3>2. s \in InfRequest /\ InfFull(c, s, infReq[s].tokens)
      BY <1>2, <1>4, <1>11, <3>1 DEF InfPagesOK, n
    <3> HIDE DEF s
    <3>3. CASE s = r
      <4>1. InfFull(d, r, infReq[r].tokens + 1)
        BY <1>10, <1>13, <3>1, <3>2, <3>3
      <4> QED
        BY <2>1, <3>3, <4>1 DEF s
    <3>4. CASE s # r
      <4>1. InfFull(d, s, infReq[s].tokens)
        BY <1>3, <1>13, <3>2, <3>4, InfKeptFull
      <4>2. infReq'[s] = infReq[s]
        BY <2>1, <3>2, <3>4
      <4> QED
        BY <4>1, <4>2 DEF s
    <3> QED
      BY <3>3, <3>4
  <2>8. InfPagesOK'
    BY <1>13, <2>3, <2>6, <2>7 DEF InfPagesOK, n
  <2> QED
    BY <2>2, <2>5, <2>8 DEF InfInv
<1>15. CASE ends
  <2>1. /\ infReq' \in [InfRequest -> InfRequests] /\ infReq'[r].status = "done"
        /\ infReq'[r].priority = infReq[r].priority /\ infReq'[r].arrival = infReq[r].arrival
        /\ \A s \in InfRequest \ {r} : infReq'[s] = infReq[s]
    <3>1. infReq' = [infReq EXCEPT ![r] = [infReq[r] EXCEPT
                        !.tokens = infReq[r].tokens + 1, !.status = "done", !.waiting = FALSE]]
      BY <1>3, <1>10, <1>15
    <3>2. PICK new : new = [infReq[r] EXCEPT !.tokens = infReq[r].tokens + 1,
                                             !.status = "done", !.waiting = FALSE]
      OBVIOUS
    <3>3. /\ new \in InfRequests /\ new.status = "done"
          /\ new.priority = infReq[r].priority /\ new.arrival = infReq[r].arrival
      BY <1>10, <3>2 DEF InfRequests
    <3>4. infReq' = [infReq EXCEPT ![r] = new]
      BY <3>1, <3>2
    <3> QED
      BY <1>3, <1>10, <3>3, <3>4
  <2>2. InfReqOK' /\ InfQueueOK'
    BY <1>1, <1>3, <1>10, <2>1, InfActiveStep
  <2>3. PICK out \in 1..n : infActive[out] = r /\ infActive' = RemoveAt(infActive, out)
    BY <1>4, <1>5, <1>15
  <2>4. PICK e : e = infCache'
    OBVIOUS
  <2>5. e = InfFree(d, r)
    BY <1>12, <1>15, <2>4
  <2> HIDE DEF ends
  <2>6. /\ infActive' \in Seq(InfRequest) /\ Len(infActive') = n - 1
        /\ \A k \in 1..(n - 1) : infActive'[k] = IF k < out THEN infActive[k]
                                                 ELSE infActive[k + 1]
    BY <1>4, <2>3, Removed DEF n
  <2>7. \A k \in 1..(n - 1) : \E i \in 1..n :
           i # out /\ infActive'[k] = infActive[i] /\ i = IF k < out THEN k ELSE k + 1
    BY <1>4, <2>3, <2>6
  <2>8. ASSUME NEW i \in 1..n, infActive[i] # r
        PROVE  \E k \in 1..(n - 1) : infActive'[k] = infActive[i]
    <3>1. CASE i < out
      BY <1>4, <2>6, <3>1
    <3>2. CASE ~(i < out)
      <4>1. i - 1 \in 1..(n - 1) /\ ~(i - 1 < out) /\ (i - 1) + 1 = i
        <5>1. i # out
          BY <2>3, <2>8
        <5> QED
          BY <1>4, <3>2, <5>1
      <4> QED
        BY <2>6, <4>1
    <3> QED
      BY <3>1, <3>2
  <2>9. \A k \in 1..(n - 1) : /\ infActive'[k] \in InfRequest \ {r}
                              /\ \E i \in 1..n : infActive'[k] = infActive[i]
    BY <1>4, <2>3, <2>7
  <2>10. InfBatchOK'
    <3>1. \A k \in 1..(n - 1) : infReq'[infActive'[k]].status = "active"
      BY <1>4, <2>1, <2>9
    <3>2. ASSUME NEW k \in 1..(n - 1), NEW l \in 1..(n - 1), infActive'[k] = infActive'[l]
          PROVE  k = l
      <4>1. PICK i \in 1..n : infActive'[k] = infActive[i] /\ i # out
                              /\ i = IF k < out THEN k ELSE k + 1
        BY <2>7
      <4>2. PICK j \in 1..n : infActive'[l] = infActive[j] /\ j # out
                              /\ j = IF l < out THEN l ELSE l + 1
        BY <2>7
      <4>3. i = j
        BY <1>4, <3>2, <4>1, <4>2
      <4> QED
        BY <1>4, <4>1, <4>2, <4>3
    <3>3. \A i \in 1..Len(infTodo') : \E k \in 1..(n - 1) : infActive'[k] = infTodo'[i]
      BY <1>6, <2>8
    <3>4. Len(infActive') <= InfMaxBatch
      BY <1>2, <1>4, <2>6, InfAssumption DEF InfBatchOK, n
    <3> QED
      BY <1>3, <1>7, <1>8, <1>9, <2>6, <3>1, <3>2, <3>3, <3>4 DEF InfBatchOK
  <2>11. InfCacheOK(e) /\ InfOthersKept(d, e, r) /\ e.pages[r] = <<>>
    BY <1>3, <1>13, <2>5, InfFreed
  <2>12. ASSUME NEW s \in InfRequest, e.pages[s] # <<>>
         PROVE  \E k \in 1..(n - 1) : infActive'[k] = s
    <3>1. s # r /\ infCache.pages[s] # <<>>
      BY <1>11, <1>13, <2>11, <2>12 DEF InfOthersKept
    <3>2. \E i \in 1..n : infActive[i] = s
      BY <1>2, <3>1 DEF InfPagesOK, n
    <3> QED
      BY <2>8, <3>1, <3>2
  <2>13. ASSUME ~infStarved', NEW k \in 1..(n - 1)
         PROVE  InfFull(e, infActive'[k], infReq'[infActive'[k]].tokens)
    <3> DEFINE s == infActive'[k]
    <3>1. ~infStarved
      BY <1>1, <1>9, <2>13
    <3>2. s \in InfRequest \ {r} /\ \E i \in 1..n : s = infActive[i]
      BY <2>9
    <3> HIDE DEF s
    <3>3. InfFull(c, s, infReq[s].tokens)
      BY <1>2, <1>11, <3>1, <3>2 DEF InfPagesOK, n
    <3>4. InfFull(d, s, infReq[s].tokens)
      BY <1>3, <1>13, <3>2, <3>3, InfKeptFull
    <3>5. InfFull(e, s, infReq[s].tokens)
      BY <1>3, <1>13, <2>11, <3>2, <3>4, InfKeptFull
    <3> QED
      BY <2>1, <3>2, <3>5 DEF s
  <2>14. InfPagesOK'
    BY <2>4, <2>6, <2>11, <2>12, <2>13 DEF InfPagesOK
  <2> QED
    BY <2>2, <2>10, <2>14 DEF InfInv
<1> QED
  BY <1>1, <1>14, <1>15

LEMMA InfInvInit == InfInit => InfInv
<1> SUFFICES ASSUME InfInit PROVE InfInv
  OBVIOUS
<1> USE DEF InfInit
<1>1. InfReqOK
  <2>1. InfSubmitted = {}
    BY DEF InfNew, InfSubmitted
  <2> QED
    BY <2>1 DEF InfReqOK, InfRequests, InfNew
<1>2. /\ infQueue \in Seq(InfRequest) /\ Len(infQueue) = 0
      /\ infActive \in Seq(InfRequest) /\ Len(infActive) = 0
      /\ infPhase = "idle" /\ infStarved = FALSE
  OBVIOUS
<1>3. InfQueueOK /\ InfBatchOK
  <2>1. 0 <= InfMaxBatch /\ 1..0 = {}
    BY InfAssumption
  <2>2. InfQueueOK
    BY <1>2, <2>1, Zenon DEF InfQueueOK
  <2>3. InfBatchOK
    BY <1>2, <2>1, Zenon DEF InfBatchOK
  <2> QED
    BY <2>2, <2>3
<1>4. \A r \in InfRequest : infCache.pages[r] = <<>> /\ \A p : ~InfOwns(infCache, r, p)
  BY DEF InfEmptyCache, InfOwns
<1>5. InfCacheTyped(infCache) /\ infCache.free = InfPage
  BY InfAssumption DEF InfEmptyCache, InfCacheTyped
<1>6. InfCachePartition(infCache)
  BY <1>4, <1>5 DEF InfCachePartition
<1>7. InfPagesOK
  BY <1>4, <1>5, <1>6 DEF InfPagesOK, InfCacheOK
<1> QED
  BY <1>1, <1>3, <1>7 DEF InfInv

LEMMA InfStuttering == InfInv /\ UNCHANGED infVars => InfInv'
BY DEF infVars, InfInv, InfReqOK, InfSubmitted, InfQueueOK, InfBefore, InfBatchOK,
       InfPagesOK

LEMMA InfInvNext == InfInv /\ [InfNext]_infVars => InfInv'
<1> SUFFICES ASSUME InfInv, [InfNext]_infVars PROVE InfInv'
  OBVIOUS
<1>1. CASE UNCHANGED infVars
  BY <1>1, InfStuttering
<1>2. ASSUME NEW r \in InfRequest, InfSubmit(r) PROVE InfInv'
  BY <1>2, InfSubmitStep
<1>3. ASSUME NEW r \in InfRequest, InfTimeout(r) PROVE InfInv'
  BY <1>3, InfTimeoutStep
<1>4. CASE InfBegin \/ InfPlan
  BY <1>4, InfTurnStep
<1>5. CASE InfAdmit
  BY <1>5, InfAdmitStep
<1>6. CASE InfDecode
  BY <1>6, InfDecodeStep
<1>7. CASE InfRaise
  BY <1>7, InfRaiseStep
<1> QED
  BY <1>1, <1>2, <1>3, <1>4, <1>5, <1>6, <1>7, Zenon DEF InfNext, InfStep

LEMMA Divided ==
    ASSUME NEW b \in Nat \ {0}, NEW q \in Nat, NEW m \in 0..(b - 1)
    PROVE  (q * b + m) \div b = q
OBVIOUS

LEMMA InfFaithful == InfInv => InfTypeOK /\ InfPagesPartition /\ InfPagesFit
<1> SUFFICES ASSUME InfInv PROVE InfTypeOK /\ InfPagesPartition /\ InfPagesFit
  OBVIOUS
<1>1. /\ infReq \in [InfRequest -> InfRequests] /\ InfBatchOK
      /\ InfCacheTyped(infCache) /\ InfCachePartition(infCache)
      /\ infCache.pages \in [InfRequest -> Seq(InfPage)]
      /\ infCache.used \in [InfPage -> 0..InfPageSize]
  BY DEF InfInv, InfReqOK, InfPagesOK, InfCacheOK, InfCacheTyped
<1>2. InfTypeOK
  BY <1>1 DEF InfTypeOK, InfRequests, InfCacheTyped, InfBatchOK
<1> DEFINE owned(r) == ToSet(infCache.pages[r])
<1>3. \A r \in InfRequest : \A p : p \in owned(r) <=> InfOwns(infCache, r, p)
  BY <1>1, Members DEF InfOwns
<1>4. ASSUME NEW r \in InfRequest PROVE Cardinality(owned(r)) = Len(infCache.pages[r])
  <2>1. PICK s : s = infCache.pages[r]
    OBVIOUS
  <2>2. s \in Seq(InfPage) /\ \A i, j \in 1..Len(s) : s[i] = s[j] => i = j
    BY <1>1, <2>1 DEF InfCachePartition
  <2>3. Cardinality(ToSet(s)) = Len(s)
    BY <2>2, DistinctCount
  <2> QED
    BY <2>1, <2>3
<1>5. \A e : e \in ToSet(infActive) <=> \E k \in 1..Len(infActive) : infActive[k] = e
  BY <1>1, Members DEF InfBatchOK
<1>6. ASSUME NEW r \in InfRequest, NEW p \in owned(r) PROVE p \in InfPage
  <2>1. infCache.pages[r] \in Seq(InfPage) /\ InfOwns(infCache, r, p)
    BY <1>1, <1>3
  <2> QED
    BY <2>1 DEF InfOwns
<1> HIDE DEF owned
<1>7. ASSUME NEW r \in InfRequest, owned(r) # {} PROVE r \in ToSet(infActive)
  <2>1. infCache.pages[r] # <<>>
    BY <1>3, <1>7 DEF InfOwns
  <2> QED
    BY <1>5, <2>1 DEF InfInv, InfPagesOK
<1>8. \A r \in InfRequest : owned(r) \cap infCache.free = {}
  BY <1>1, <1>3 DEF InfCachePartition
<1>9. \A r \in InfRequest : \A s \in InfRequest \ {r} : owned(r) \cap owned(s) = {}
  BY <1>1, <1>3, <1>6 DEF InfCachePartition
<1>10. (UNION {owned(r) : r \in InfRequest}) \cup infCache.free = InfPage
  BY <1>1, <1>3, <1>6 DEF InfCachePartition, InfCacheTyped
<1>11. InfPagesPartition
  <2>1. \A r \in InfRequest :
          /\ owned(r) \cap infCache.free = {}
          /\ Cardinality(owned(r)) = Len(infCache.pages[r])
          /\ owned(r) # {} => r \in ToSet(infActive)
          /\ \A s \in InfRequest \ {r} : owned(r) \cap owned(s) = {}
    BY <1>4, <1>7, <1>8, <1>9
  <2> QED
    BY <1>10, <2>1, Zenon DEF InfPagesPartition, owned
<1>12. ASSUME ~infStarved, NEW r \in ToSet(infActive)
       PROVE  Len(infCache.pages[r]) =
                IF infReq[r].tokens = 0 THEN 1
                ELSE (infReq[r].tokens + InfPageSize - 1) \div InfPageSize
  <2> DEFINE n == Len(infCache.pages[r])
             u == infCache.used[InfLastPage(infCache, r)]
             t == infReq[r].tokens
  <2>1. r \in InfRequest /\ InfFull(infCache, r, t)
    <3>1. PICK k \in 1..Len(infActive) : infActive[k] = r
      BY <1>5, <1>12
    <3>2. infActive[k] \in InfRequest /\ InfFull(infCache, infActive[k], infReq[infActive[k]].tokens)
      BY <1>1, <1>12 DEF InfInv, InfPagesOK, InfBatchOK
    <3> QED
      BY <3>1, <3>2
  <2>2. infCache.pages[r] # <<>>
    BY <2>1 DEF InfFull
  <2>3. InfLastPage(infCache, r) \in InfPage /\ n \in Nat \ {0}
    BY <1>1, <2>1, <2>2, InfLastOwned
  <2>4. u \in 0..InfPageSize /\ t \in Nat /\ InfPageSize \in Nat \ {0}
    BY <1>1, <2>1, <2>3, InfAssumption DEF InfRequests
  <2>5. t = (n - 1) * InfPageSize + u /\ (u = 0 => t = 0 /\ n = 1)
    BY <2>1 DEF InfFull
  <2> HIDE DEF n, u, t
  <2>6. CASE u = 0
    BY <2>5, <2>6 DEF n, t
  <2>7. CASE u # 0
    <3>1. (n - 1) * InfPageSize \in Nat
      BY <2>3, <2>4
    <3>2. t # 0
      BY <2>4, <2>5, <2>7, <3>1
    <3>3. u - 1 \in 0..(InfPageSize - 1) /\ n \in Nat
      BY <2>3, <2>4, <2>7
    <3>4. t + InfPageSize - 1 = n * InfPageSize + (u - 1)
      BY <2>3, <2>4, <2>5
    <3>5. (n * InfPageSize + (u - 1)) \div InfPageSize = n
      BY <2>4, <3>3, Divided
    <3> QED
      BY <3>2, <3>4, <3>5 DEF n, t
  <2> QED
    BY <2>6, <2>7
<1>13. InfPagesFit
  BY <1>12 DEF InfPagesFit
<1> QED
  BY <1>2, <1>11, <1>13

\* Only the head of the queue leaves it, and nobody in it is to be served earlier.
LEMMA InfInOrder ==
    ASSUME InfInv, [InfNext]_infVars,
           NEW a \in ToSet(infQueue), NEW b \in ToSet(infQueue), InfBefore(a, b),
           infReq'[b].status # "queued"
    PROVE  infReq'[a].status # "queued"
<1>1. /\ infQueue \in Seq(InfRequest) /\ infReq \in [InfRequest -> InfRequests]
      /\ \A i \in 1..Len(infQueue) : infReq[infQueue[i]].status = "queued"
      /\ \A i, j \in 1..Len(infQueue) : i < j => InfBefore(infQueue[i], infQueue[j])
  BY DEF InfInv, InfQueueOK, InfReqOK
<1>2. PICK j \in 1..Len(infQueue) : infQueue[j] = b
  BY <1>1, Members
<1>3. PICK k \in 1..Len(infQueue) : infQueue[k] = a
  BY <1>1, Members
<1>4. b \in InfRequest /\ infReq[b].status = "queued"
  BY <1>1, <1>2
<1>5. CASE UNCHANGED infReq
  BY <1>4, <1>5
<1>6. ASSUME NEW r \in InfRequest, InfSubmit(r) PROVE FALSE
  BY <1>1, <1>4, <1>6 DEF InfSubmit
<1>7. ASSUME NEW r \in InfRequest, InfTimeout(r) PROVE FALSE
  BY <1>1, <1>4, <1>7 DEF InfTimeout, InfRequests
<1>8. CASE InfAdmit
  <2>1. Head(infQueue) = infQueue[1] /\ 1 \in 1..Len(infQueue) /\ infQueue[1] \in InfRequest
    BY <1>1, <1>2
  <2>2. infReq' = [infReq EXCEPT ![infQueue[1]].status = "active"]
    BY <1>8, <2>1 DEF InfAdmit
  <2>3. b = infQueue[1]
    BY <1>1, <1>4, <2>1, <2>2
  <2>4. k # 1 => InfBefore(b, a)
    BY <1>1, <1>3, <2>1, <2>3
  <2>5. infReq[a].priority \in Int /\ infReq[b].priority \in Int
        /\ infReq[a].arrival \in Nat /\ infReq[b].arrival \in Nat
    <3>1. \A s \in InfRequest : infReq[s].priority \in InfPriorities \cup {0}
                                  /\ infReq[s].arrival \in Nat
      BY <1>1 DEF InfRequests
    <3>2. \A x \in InfPriorities \cup {0} : x \in Int
      <4>1. \A x \in InfPriorities : x \in Int
        BY InfAssumption, Zenon
      <4>2. 0 \in Int
        OBVIOUS
      <4> QED
        BY <4>1, <4>2, Zenon
    <3>3. a \in InfRequest /\ b \in InfRequest
      BY <1>1, <1>3, <1>4
    <3> QED
      BY <3>1, <3>2, <3>3
  <2> QED
    BY <1>3, <2>3, <2>4, <2>5 DEF InfBefore
<1>9. CASE InfDecode
  <2>1. Head(infTodo) \in InfRequest /\ infReq[Head(infTodo)].status = "active"
    <3>1. /\ infTodo \in Seq(InfRequest) /\ Len(infTodo) > 0 /\ Head(infTodo) = infTodo[1]
          /\ \A i \in 1..Len(infTodo) : \E l \in 1..Len(infActive) : infActive[l] = infTodo[i]
          /\ \A i \in 1..Len(infActive) : infReq[infActive[i]].status = "active"
      BY <1>9 DEF InfDecode, InfInv, InfBatchOK
    <3>2. 1 \in 1..Len(infTodo)
      BY <3>1
    <3> QED
      BY <3>1, <3>2
  <2>2. \A s \in InfRequest \ {Head(infTodo)} : infReq'[s] = infReq[s]
    <3> DEFINE r == Head(infTodo)
    <3>1. \/ infReq' = [infReq EXCEPT ![r].tokens = @ + 1, ![r].status = "done",
                                      ![r].waiting = FALSE]
          \/ infReq' = [infReq EXCEPT ![r].tokens = @ + 1]
      BY <1>9 DEF InfDecode
    <3> HIDE DEF r
    <3> QED
      BY <1>1, <2>1, <3>1 DEF r
  <2> QED
    BY <1>4, <2>1, <2>2
<1>10. CASE InfBegin \/ InfPlan
  BY <1>4, <1>10 DEF InfBegin, InfPlan
<1>11. CASE InfRaise
  BY <1>1, <1>4, <1>11 DEF InfRaise, InfRequests
<1> QED
  BY <1>5, <1>6, <1>7, <1>8, <1>9, <1>10, <1>11, Zenon DEF InfNext, InfStep, infVars

-----------------------------------------------------------------------------
\* Nobody overtakes in the request queue: whichever requests are submitted while
\* the engine runs, one leaves the queue before all that were to be served after it,
\* by priority and then by arrival.  (RequestQueue.push and pop, scheduler_step)
THEOREM QueueNotOvertaken == LlmSpec => InfNoOvertaking
<1>1. LlmSpec => []InfInv
  <2>1. InfInit => InfInv
    BY InfInvInit
  <2>2. /\ InfInv
        /\ [\/ InfNext /\ UNCHANGED genVars
            \/ GenNext /\ UNCHANGED infVars]_<<infVars, genVars>>
        => InfInv'
    BY InfInvNext
  <2> QED
    BY <2>1, <2>2, PTL DEF LlmSpec
<1>2. /\ InfInv
      /\ [\/ InfNext /\ UNCHANGED genVars
          \/ GenNext /\ UNCHANGED infVars]_<<infVars, genVars>>
      => [\A a, b \in ToSet(infQueue) :
             /\ \/ infReq[a].priority < infReq[b].priority
                \/ /\ infReq[a].priority = infReq[b].priority
                   /\ infReq[a].arrival < infReq[b].arrival
             /\ infReq'[b].status # "queued"
             => infReq'[a].status # "queued"]_infVars
  <2> SUFFICES ASSUME InfInv, [InfNext]_infVars
               PROVE  \A a, b \in ToSet(infQueue) :
                         /\ \/ infReq[a].priority < infReq[b].priority
                            \/ /\ infReq[a].priority = infReq[b].priority
                               /\ infReq[a].arrival < infReq[b].arrival
                         /\ infReq'[b].status # "queued"
                         => infReq'[a].status # "queued"
    BY Zenon
  <2> QED
    BY InfInOrder DEF InfBefore
<1> QED
  BY <1>1, <1>2, PTL DEF InfNoOvertaking, LlmSpec

-----------------------------------------------------------------------------
(* The generation loops.                                                   *)

LEMMA GenPromptIsOne ==
    /\ GenPrompt \in Seq(GenToken) /\ Len(GenPrompt) = 1
    /\ \A context : GenInv /\ genModel # <<>> => GenAfter(context) \in GenToken
<1> DEFINE e == CHOOSE t \in GenToken : t # GenEos
<1>1. e \in GenToken
  BY GenAssumption
<1>2. GenPrompt = <<e>> /\ \A context : GenAfter(context) =
          IF context \in DOMAIN genModel THEN genModel[context] ELSE e
  BY DEF GenPrompt, GenAfter
<1> HIDE DEF e
<1>3. GenPrompt \in Seq(GenToken) /\ Len(GenPrompt) = 1
  BY <1>1, <1>2
<1>4. \A context : GenInv /\ genModel # <<>> => GenAfter(context) \in GenToken
  BY <1>1, <1>2 DEF GenInv
<1> QED
  BY <1>3, <1>4

LEMMA GenInvInit == GenInit => GenInv
<1> SUFFICES ASSUME GenInit PROVE GenInv
  OBVIOUS
<1>1. /\ GenPrompt \in Seq(GenToken) /\ Len(GenPrompt) = 1
      /\ genIds = [l \in GenLoops |-> GenPrompt] /\ genPast = [l \in GenLoops |-> <<>>]
      /\ genDone = {} /\ genLimit = 0 /\ genModel = <<>>
  BY GenPromptIsOne DEF GenInit
<1>2. \A l \in GenLoops : GenWritten(l) /\ GenEnded(l) /\ GenCovered(l)
  <2> SUFFICES ASSUME NEW l \in GenLoops PROVE GenWritten(l) /\ GenEnded(l) /\ GenCovered(l)
    OBVIOUS
  <2>1. genIds[l] = GenPrompt /\ genPast[l] = <<>> /\ l \notin genDone
    BY <1>1
  <2>2. Len(GenPrompt) - 1 = 0 /\ 1..0 = {} /\ Len(GenPrompt) > 0 /\ Len(GenPrompt) = 1
    BY <1>1
  <2>3. GenWritten(l) /\ GenCovered(l)
    BY <2>1, <2>2 DEF GenWritten, GenCovered
  <2>4. GenEnded(l)
    BY <2>1, <2>2, Zenon DEF GenEnded
  <2> QED
    BY <2>3, <2>4
<1> QED
  BY <1>1, <1>2 DEF GenInv, GenUncalled

LEMMA GenCallStep ==
    ASSUME GenInv, GenCall
    PROVE  GenInv'
<1>1. /\ genModel = <<>> /\ genModel' \in [GenContexts -> GenToken] /\ genLimit' \in Nat
      /\ UNCHANGED <<genIds, genPast, genDone>> /\ GenUncalled
  BY GenAssumption DEF GenCall, GenInv
<1>2. ASSUME NEW l \in GenLoops PROVE GenWritten(l)' /\ GenEnded(l)' /\ GenCovered(l)'
  <2>1. genIds'[l] = GenPrompt /\ genIds[l] = GenPrompt /\ l \notin genDone'
    BY <1>1 DEF GenUncalled
  <2>2. Len(GenPrompt) = 1 /\ Len(GenPrompt) - 1 = 0 /\ 1..0 = {} /\ 1 > 0
    BY GenPromptIsOne
  <2>3. GenCovered(l)'
    BY <1>1 DEF GenInv, GenCovered
  <2> QED
    BY <2>1, <2>2, <2>3 DEF GenWritten, GenEnded
<1> QED
  BY <1>1, <1>2 DEF GenInv, GenUncalled

LEMMA GenNothingStep ==
    ASSUME GenInv, GenNothing
    PROVE  GenInv'
<1>1. /\ genModel # <<>> /\ genLimit = 0 /\ "naive" \notin genDone
      /\ genDone' = genDone \cup {"naive"}
      /\ UNCHANGED <<genModel, genLimit, genIds, genPast>>
  BY DEF GenNothing
<1>2. \A l \in GenLoops : GenWritten(l) /\ GenEnded(l) /\ GenCovered(l)
  BY DEF GenInv
<1>3. \A l \in GenLoops : genIds[l] \in Seq(GenToken) /\ Len(genIds[l]) \in Nat
  BY DEF GenInv
<1>4. ~(Len(genIds["naive"]) > 1)
  <2> DEFINE ids == genIds["naive"]
  <2>1. SUFFICES ASSUME Len(ids) > 1 PROVE FALSE
    OBVIOUS
  <2>2. "naive" \in GenLoops /\ 1 \in 1..(Len(ids) - 1) /\ 1 >= genLimit
    BY <1>1, <1>3, <2>1 DEF GenLoops
  <2>3. GenStops("naive", ids[1 + 1], 1)
    BY <2>2 DEF GenStops
  <2> QED
    BY <1>1, <1>2, <2>2, <2>3 DEF GenEnded
<1>5. ASSUME NEW l \in GenLoops PROVE GenEnded(l)'
  <2>1. CASE l = "naive"
    <3>1. 1..(Len(genIds[l]) - 1) = {}
      BY <1>3, <1>4, <2>1
    <3> QED
      BY <1>1, <3>1 DEF GenEnded
  <2>2. CASE l # "naive"
    BY <1>1, <1>2, <2>2 DEF GenEnded, GenStops
  <2> QED
    BY <2>1, <2>2
<1>6. \A l \in GenLoops : GenWritten(l)' /\ GenCovered(l)'
  BY <1>1, <1>2 DEF GenWritten, GenCovered, GenAfter
<1> QED
  BY <1>1, <1>5, <1>6 DEF GenInv, GenLoops

\* What a forward pass attends to is everything written so far.
LEMMA GenAttends ==
    ASSUME GenInv, NEW l \in GenLoops
    PROVE  GenForward(l) = genIds[l]
<1> DEFINE s == genIds[l]
           n == Len(genIds[l])
<1>1. s \in Seq(GenToken) /\ n \in Nat \ {0} /\ GenCount(l) = n - 1
  BY GenPromptIsOne DEF GenInv, GenWritten, GenCount
<1>2. l # "naive" => genPast[l] = IF n = 1 THEN <<>> ELSE SubSeq(s, 1, n - 1)
  BY DEF GenInv, GenCovered
<1>3. <<>> \o s = s
  BY <1>1
<1>4. SubSeq(s, 1, n - 1) \o <<s[n]>> = s
  <2> DEFINE front == SubSeq(s, 1, n - 1)
  <2>1. front \in Seq(GenToken) /\ Len(front) = n - 1 /\ \A k \in 1..(n - 1) : front[k] = s[k]
    BY <1>1
  <2> HIDE DEF front, n, s
  <2>2. s[n] \in GenToken /\ Len(s) = n
    BY <1>1 DEF n, s
  <2>3. front \o <<s[n]>> = Append(front, s[n])
    BY <2>1, <2>2
  <2>4. /\ Append(front, s[n]) \in Seq(GenToken) /\ Len(Append(front, s[n])) = n
        /\ \A k \in 1..n : Append(front, s[n])[k] = s[k]
    BY <1>1, <2>1, <2>2
  <2> QED
    BY <1>1, <2>2, <2>3, <2>4, SeqEqual DEF front
<1> HIDE DEF s, n
<1>5. CASE l = "naive"
  <2>1. GenForward(l) = <<>> \o s
    BY <1>5 DEF GenForward, GenInput, s
  <2> QED
    BY <1>3, <2>1 DEF s
<1>6. CASE l # "naive" /\ n = 1
  <2>1. genPast[l] = <<>> /\ GenCount(l) = 0
    BY <1>1, <1>2, <1>6
  <2>2. GenInput(l) = s
    BY <2>1, Zenon DEF GenInput, s
  <2>3. GenForward(l) = <<>> \o s
    BY <1>6, <2>1, <2>2, Zenon DEF GenForward
  <2> QED
    BY <1>3, <2>3 DEF s
<1>7. CASE l # "naive" /\ n # 1
  <2>1. genPast[l] = SubSeq(s, 1, n - 1)
    BY <1>2, <1>7
  <2>2. GenInput(l) = <<s[n]>>
    BY <1>1, <1>7 DEF GenInput, Last, s, n
  <2>3. GenForward(l) = SubSeq(s, 1, n - 1) \o <<s[n]>>
    BY <1>7, <2>1, <2>2 DEF GenForward
  <2> QED
    BY <1>4, <2>3 DEF s
<1> QED
  BY <1>5, <1>6, <1>7

LEMMA GenStepStep ==
    ASSUME GenInv, NEW l \in GenLoops, GenStep(l)
    PROVE  GenInv'
<1> DEFINE ids == genIds[l]
           n == Len(genIds[l])
           token == GenAfter(ids)
<1>1. /\ genModel # <<>> /\ l \notin genDone
      /\ genIds' = [genIds EXCEPT ![l] = Append(@, token)]
      /\ genPast' = [genPast EXCEPT ![l] = IF l = "naive" THEN @ ELSE ids]
      /\ genDone' = IF GenStops(l, token, GenCount(l) + 1) THEN genDone \cup {l} ELSE genDone
      /\ UNCHANGED <<genModel, genLimit>>
  <2>1. GenForward(l) = ids
    BY GenAttends
  <2> HIDE DEF ids
  <2> QED
    BY <2>1 DEF GenStep, GenAfter
<1>2. /\ genIds \in [GenLoops -> Seq(GenToken)] /\ genPast \in [GenLoops -> Seq(GenToken)]
      /\ genDone \subseteq GenLoops /\ genLimit \in Nat
      /\ \A m \in GenLoops : GenWritten(m) /\ GenEnded(m) /\ GenCovered(m)
      /\ genModel \in [GenContexts -> GenToken]
  BY <1>1 DEF GenInv
<1>3. ids \in Seq(GenToken) /\ n \in Nat \ {0} /\ token \in GenToken /\ GenCount(l) + 1 = n
  BY <1>1, <1>2, GenPromptIsOne DEF GenWritten, GenCount
<1> HIDE DEF token
<1>4. /\ Append(ids, token) \in Seq(GenToken) /\ Len(Append(ids, token)) = n + 1
      /\ \A k \in 1..(n + 1) : Append(ids, token)[k] = IF k = n + 1 THEN token ELSE ids[k]
  BY <1>3
<1>5. /\ genIds' \in [GenLoops -> Seq(GenToken)] /\ genIds'[l] = Append(ids, token)
      /\ genPast' \in [GenLoops -> Seq(GenToken)]
      /\ genPast'[l] = IF l = "naive" THEN genPast[l] ELSE ids
      /\ \A m \in GenLoops \ {l} : genIds'[m] = genIds[m] /\ genPast'[m] = genPast[m]
      /\ genDone' \subseteq GenLoops
      /\ \A m \in GenLoops \ {l} : m \in genDone' <=> m \in genDone
      /\ l \in genDone' <=> GenStops(l, token, n)
  BY <1>1, <1>2, <1>3, <1>4
<1> DEFINE new == Append(ids, token)
<1> HIDE DEF ids, n, new
<1>6. \A k \in 1..n : SubSeq(new, 1, k) = SubSeq(ids, 1, k)
  <2> SUFFICES ASSUME NEW k \in 1..n PROVE SubSeq(new, 1, k) = SubSeq(ids, 1, k)
    OBVIOUS
  <2>1. /\ new \in Seq(GenToken) /\ ids \in Seq(GenToken) /\ Len(new) = n + 1 /\ Len(ids) = n
        /\ \A i \in 1..k : new[i] = ids[i]
    BY <1>3, <1>4 DEF new, ids, n
  <2>2. /\ SubSeq(new, 1, k) \in Seq(GenToken) /\ Len(SubSeq(new, 1, k)) = k
        /\ \A i \in 1..k : SubSeq(new, 1, k)[i] = new[i]
    BY <1>3, <2>1
  <2>3. /\ SubSeq(ids, 1, k) \in Seq(GenToken) /\ Len(SubSeq(ids, 1, k)) = k
        /\ \A i \in 1..k : SubSeq(ids, 1, k)[i] = ids[i]
    BY <1>3, <2>1
  <2> QED
    BY <2>1, <2>2, <2>3, SeqEqual
<1>7. SubSeq(ids, 1, n) = ids
  BY <1>3 DEF ids, n
<1>8. GenWritten(l)'
  <2>1. Len(new) > 0 /\ new[1] = GenPrompt[1]
    <3>1. 1 \in 1..(n + 1) /\ 1 # n + 1 /\ n + 1 > 0
      BY <1>3
    <3>2. ids[1] = GenPrompt[1]
      BY <1>2 DEF GenWritten, ids
    <3> QED
      BY <1>4, <3>1, <3>2 DEF new
  <2>2. ASSUME NEW k \in 1..n PROVE new[k + 1] = GenAfter(SubSeq(new, 1, k))
    <3>1. CASE k = n
      <4>1. n + 1 \in 1..(n + 1)
        BY <1>3
      <4> QED
        BY <1>4, <1>6, <1>7, <3>1, <4>1 DEF token, new
    <3>2. CASE k # n
      <4>1. k \in 1..(n - 1) /\ k + 1 \in 1..(n + 1) /\ k + 1 # n + 1
        BY <1>3, <3>2
      <4>2. ids[k + 1] = GenAfter(SubSeq(ids, 1, k))
        BY <1>2, <4>1 DEF GenWritten, ids, n
      <4> QED
        BY <1>4, <1>6, <4>1, <4>2 DEF new
    <3> QED
      BY <3>1, <3>2
  <2>3. genIds'[l] = new /\ Len(new) - 1 = n
    BY <1>3, <1>4, <1>5 DEF new
  <2>4. ASSUME NEW s, s = genIds'[l]
        PROVE  /\ Len(s) > 0 /\ s[1] = GenPrompt[1]
               /\ \A k \in 1..(Len(s) - 1) :
                     s[k + 1] = IF SubSeq(s, 1, k) \in DOMAIN genModel'
                                THEN genModel'[SubSeq(s, 1, k)]
                                ELSE CHOOSE t \in GenToken : t # GenEos
    <3>1. s = new /\ genModel' = genModel
      BY <1>1, <2>3, <2>4
    <3>2. \A k \in 1..n : s[k + 1] = GenAfter(SubSeq(s, 1, k))
      BY <2>2, <3>1
    <3> QED
      BY <2>1, <2>3, <3>1, <3>2, Zenon DEF GenAfter
  <2> QED
    BY <2>4, Zenon DEF GenWritten, GenAfter
<1>9. GenEnded(l)'
  <2>1. ASSUME NEW k \in 1..n
        PROVE  GenStops(l, new[k + 1], k) <=> l \in genDone' /\ k = n
    <3>1. CASE k = n
      <4>1. new[k + 1] = token
        BY <1>3, <1>4, <3>1 DEF new
      <4> QED
        BY <1>5, <3>1, <4>1
    <3>2. CASE k # n
      <4>1. k \in 1..(n - 1) /\ k + 1 \in 1..(n + 1) /\ k + 1 # n + 1
        BY <1>3, <3>2
      <4>2. ~GenStops(l, ids[k + 1], k)
        BY <1>1, <1>2, <4>1 DEF GenEnded, ids, n
      <4>3. new[k + 1] = ids[k + 1]
        BY <1>4, <4>1 DEF new
      <4> QED
        BY <3>2, <4>2, <4>3
    <3> QED
      BY <3>1, <3>2
  <2>2. genIds'[l] = new /\ Len(new) - 1 = n /\ Len(new) # 1
    BY <1>3, <1>4, <1>5 DEF new
  <2> QED
    BY <1>1, <2>1, <2>2 DEF GenEnded, GenStops
<1>10. GenCovered(l)'
  <2>1. genIds'[l] = new /\ Len(new) - 1 = n /\ Len(new) # 1
    BY <1>3, <1>4, <1>5 DEF new
  <2>2. SubSeq(new, 1, n) = ids
    BY <1>3, <1>6, <1>7
  <2> QED
    BY <1>5, <2>1, <2>2 DEF GenCovered
<1>11. ASSUME NEW m \in GenLoops \ {l} PROVE GenWritten(m)' /\ GenEnded(m)' /\ GenCovered(m)'
  <2>1. genIds'[m] = genIds[m] /\ genPast'[m] = genPast[m] /\ (m \in genDone' <=> m \in genDone)
    BY <1>5
  <2>2. GenWritten(m)' /\ GenCovered(m)'
    BY <1>1, <1>2, <2>1 DEF GenWritten, GenCovered, GenAfter
  <2>3. GenEnded(m)'
    BY <1>1, <1>2, <2>1 DEF GenEnded, GenStops
  <2> QED
    BY <2>2, <2>3
<1> QED
  BY <1>1, <1>2, <1>5, <1>8, <1>9, <1>10, <1>11 DEF GenInv

LEMMA GenInvNext == GenInv /\ [GenNext]_genVars => GenInv'
<1> SUFFICES ASSUME GenInv, [GenNext]_genVars PROVE GenInv'
  OBVIOUS
<1>1. CASE UNCHANGED genVars
  BY <1>1 DEF genVars, GenInv, GenUncalled, GenWritten, GenEnded, GenCovered, GenAfter, GenStops
<1>2. CASE GenCall
  BY <1>2, GenCallStep
<1>3. CASE GenNothing
  BY <1>3, GenNothingStep
<1>4. ASSUME NEW l \in GenLoops, GenStep(l) PROVE GenInv'
  BY <1>4, GenStepStep
<1> QED
  BY <1>1, <1>2, <1>3, <1>4 DEF GenNext

\* Two loops write the same as far as both have come.
LEMMA GenSamePrefix ==
    ASSUME GenInv, NEW l \in GenLoops, NEW m \in GenLoops
    PROVE  \A k \in Nat : k \in 1..Len(genIds[l]) /\ k \in 1..Len(genIds[m])
                          => genIds[l][k] = genIds[m][k]
<1> DEFINE a == genIds[l]
           b == genIds[m]
<1>1. /\ a \in Seq(GenToken) /\ b \in Seq(GenToken) /\ a[1] = b[1]
      /\ \A k \in 1..(Len(a) - 1) : a[k + 1] = GenAfter(SubSeq(a, 1, k))
      /\ \A k \in 1..(Len(b) - 1) : b[k + 1] = GenAfter(SubSeq(b, 1, k))
  <2>1. GenWritten(l) /\ GenWritten(m) /\ a \in Seq(GenToken) /\ b \in Seq(GenToken)
    BY DEF GenInv
  <2> QED
    BY <2>1, Zenon DEF GenWritten
<1> HIDE DEF a, b
<1> DEFINE Same == {k \in Nat : \A i \in 1..k : i \in 1..Len(a) /\ i \in 1..Len(b) => a[i] = b[i]}
<1>2. 0 \in Same
  OBVIOUS
<1>3. ASSUME NEW n \in Nat, n \in Same PROVE n + 1 \in Same
  <2>1. ASSUME n + 1 \in 1..Len(a), n + 1 \in 1..Len(b), n # 0 PROVE a[n + 1] = b[n + 1]
    <3>1. n \in 1..(Len(a) - 1) /\ n \in 1..(Len(b) - 1)
      BY <1>1, <2>1
    <3>2. \A i \in 1..n : i \in 1..Len(a) /\ i \in 1..Len(b) /\ a[i] = b[i]
      BY <1>1, <1>3, <3>1
    <3>3. /\ SubSeq(a, 1, n) \in Seq(GenToken) /\ Len(SubSeq(a, 1, n)) = n
          /\ \A i \in 1..n : SubSeq(a, 1, n)[i] = a[i]
      BY <1>1, <3>1
    <3>4. /\ SubSeq(b, 1, n) \in Seq(GenToken) /\ Len(SubSeq(b, 1, n)) = n
          /\ \A i \in 1..n : SubSeq(b, 1, n)[i] = b[i]
      BY <1>1, <3>1
    <3>5. SubSeq(a, 1, n) = SubSeq(b, 1, n)
      BY <3>2, <3>3, <3>4, SeqEqual
    <3> QED
      BY <1>1, <3>1, <3>5
  <2>2. n = 0 => a[n + 1] = b[n + 1]
    BY <1>1
  <2>3. \A i \in 1..(n + 1) : i \in 1..n \/ i = n + 1
    OBVIOUS
  <2> QED
    BY <1>3, <2>1, <2>2, <2>3
<1>4. \A k \in Nat : k \in Same
  <2> HIDE DEF Same
  <2> QED
    BY <1>2, <1>3, SetInduction
<1> QED
  BY <1>4 DEF a, b

\* Loops that stop at the same tokens have written the same when both have ended.
LEMMA GenSameText ==
    ASSUME GenInv, NEW l \in GenLoops, NEW m \in GenLoops, l \in genDone, m \in genDone,
           genLimit > 0,
           \A k \in 1..(Len(genIds[l]) - 1) :
               k \in 1..(Len(genIds[m]) - 1) =>
                   (GenStops(l, genIds[l][k + 1], k) <=> GenStops(m, genIds[l][k + 1], k))
    PROVE  genIds[l] = genIds[m]
<1> DEFINE a == genIds[l]
           b == genIds[m]
<1>1. /\ a \in Seq(GenToken) /\ b \in Seq(GenToken) /\ GenEnded(l) /\ GenEnded(m)
      /\ GenWritten(l) /\ GenWritten(m) /\ genLimit \in Nat
  BY DEF GenInv
<1>2. /\ Len(a) \in Nat /\ Len(b) \in Nat /\ Len(a) > 1 /\ Len(b) > 1
      /\ \A k \in 1..(Len(a) - 1) : GenStops(l, a[k + 1], k) <=> k = Len(a) - 1
      /\ \A k \in 1..(Len(b) - 1) : GenStops(m, b[k + 1], k) <=> k = Len(b) - 1
  <2>1. Len(a) # 1 /\ Len(b) # 1
    BY <1>1 DEF GenEnded
  <2>2. Len(a) > 0 /\ Len(b) > 0
    BY <1>1 DEF GenWritten
  <2>3. Len(a) \in Nat /\ Len(b) \in Nat
    BY <1>1
  <2>4. \A k \in 1..(Len(a) - 1) : GenStops(l, a[k + 1], k) <=> k = Len(a) - 1
    BY <1>1, Zenon DEF GenEnded
  <2>5. \A k \in 1..(Len(b) - 1) : GenStops(m, b[k + 1], k) <=> k = Len(b) - 1
    BY <1>1, Zenon DEF GenEnded
  <2> HIDE DEF a, b
  <2>6. PICK i \in Nat, j \in Nat : i = Len(a) /\ j = Len(b)
    BY <2>3
  <2>7. i # 1 /\ j # 1 /\ i > 0 /\ j > 0
    BY <2>1, <2>2, <2>6
  <2>8. i > 1 /\ j > 1
    BY <2>7
  <2> QED
    BY <2>3, <2>4, <2>5, <2>6, <2>8
<1>3. \A k \in Nat : k \in 1..Len(a) /\ k \in 1..Len(b) => a[k] = b[k]
  BY GenSamePrefix
<1>4. \A k \in 1..(Len(a) - 1) : k \in 1..(Len(b) - 1) =>
         (GenStops(l, a[k + 1], k) <=> GenStops(m, a[k + 1], k))
  OBVIOUS
<1> HIDE DEF a, b
<1>5. ASSUME NEW k \in 1..(Len(a) - 1), k \in 1..(Len(b) - 1)
      PROVE  k = Len(a) - 1 <=> k = Len(b) - 1
  <2>1. k + 1 \in Nat /\ k + 1 \in 1..Len(a) /\ k + 1 \in 1..Len(b)
    BY <1>2, <1>5
  <2>2. a[k + 1] = b[k + 1]
    BY <1>3, <2>1
  <2> QED
    BY <1>2, <1>4, <1>5, <2>2, Zenon
<1>6. Len(a) = Len(b)
  <2>1. Len(a) - 1 \in 1..(Len(a) - 1) /\ Len(b) - 1 \in 1..(Len(b) - 1)
    BY <1>2
  <2>2. Len(a) < Len(b) => Len(a) - 1 \in 1..(Len(b) - 1)
    BY <1>2
  <2>3. Len(b) < Len(a) => Len(b) - 1 \in 1..(Len(a) - 1)
    BY <1>2
  <2>4. ~(Len(a) < Len(b))
    <3> SUFFICES ASSUME Len(a) < Len(b) PROVE FALSE
      OBVIOUS
    <3>1. PICK k \in 1..(Len(a) - 1) : k = Len(a) - 1
      BY <2>1
    <3>2. k \in 1..(Len(b) - 1)
      BY <2>2, <3>1
    <3>3. Len(a) - 1 = Len(b) - 1
      BY <1>5, <3>1, <3>2
    <3> QED
      BY <1>2, <3>3
  <2>5. ~(Len(b) < Len(a))
    <3> SUFFICES ASSUME Len(b) < Len(a) PROVE FALSE
      OBVIOUS
    <3>1. PICK k \in 1..(Len(b) - 1) : k = Len(b) - 1
      BY <2>1
    <3>2. k \in 1..(Len(a) - 1)
      BY <2>3, <3>1
    <3>3. Len(b) - 1 = Len(a) - 1
      BY <1>5, <3>1, <3>2
    <3> QED
      BY <1>2, <3>3
  <2> QED
    BY <1>2, <2>4, <2>5
<1>7. \A k \in 1..Len(a) : a[k] = b[k]
  BY <1>2, <1>3, <1>6
<1> QED
  BY <1>1, <1>6, <1>7, SeqEqual DEF a, b

LEMMA GenFaithful == GenInv => GenCacheChangesNothing /\ GenCacheCovers
<1> SUFFICES ASSUME GenInv PROVE GenCacheChangesNothing /\ GenCacheCovers
  OBVIOUS
<1>1. /\ {"naive", "kv", "manual"} \subseteq GenLoops /\ genIds \in [GenLoops -> Seq(GenToken)]
      /\ \A l \in GenLoops : GenWritten(l) /\ GenEnded(l) /\ GenCovered(l)
  BY DEF GenLoops, GenInv
<1>2. ASSUME genLimit > 0, {"naive", "kv"} \subseteq genDone PROVE genIds["kv"] = genIds["naive"]
  <2>1. \A token, k : GenStops("kv", token, k) <=> GenStops("naive", token, k)
    BY DEF GenStops
  <2> QED
    BY <1>1, <1>2, <2>1, GenSameText
<1>3. ASSUME genLimit > 0, {"naive", "manual"} \subseteq genDone
      PROVE  genIds["manual"] = genIds["naive"] \/ genIds["naive"] = Append(GenPrompt, GenEos)
  <2> DEFINE a == genIds["naive"]
  <2>1. /\ a \in Seq(GenToken) /\ Len(a) \in Nat /\ Len(a) > 0 /\ Len(a) # 1
        /\ a[1] = GenPrompt[1]
    BY <1>1, <1>3 DEF GenEnded, GenWritten
  <2>2. CASE a[2] = GenEos
    <3>1. 1 \in 1..(Len(a) - 1) /\ 1 + 1 = 2
      <4> HIDE DEF a
      <4>1. PICK i \in Nat : i = Len(a)
        BY <2>1
      <4>2. i # 1 /\ i > 0
        BY <2>1, <4>1
      <4>3. 1 \in 1..(i - 1)
        BY <4>2
      <4> QED
        BY <4>1, <4>3
    <3>2. GenStops("naive", a[2], 1)
      BY <2>2 DEF GenStops
    <3>3. Len(a) = 2
      <4>1. GenStops("naive", a[1 + 1], 1) <=> "naive" \in genDone /\ 1 = Len(a) - 1
        BY <1>1, <3>1 DEF GenEnded
      <4> QED
        BY <2>1, <3>2, <4>1
    <3>4. a = Append(GenPrompt, GenEos)
      <4>1. GenPrompt \in Seq(GenToken) /\ Len(GenPrompt) = 1 /\ GenEos \in GenToken
        BY <2>1, <2>2, <3>3, GenPromptIsOne
      <4>2. /\ Append(GenPrompt, GenEos) \in Seq(GenToken) /\ Len(Append(GenPrompt, GenEos)) = 2
            /\ Append(GenPrompt, GenEos)[1] = GenPrompt[1]
            /\ Append(GenPrompt, GenEos)[2] = GenEos
        <5>1. PICK p \in Seq(GenToken) : p = GenPrompt /\ Len(p) = 1
          BY <4>1
        <5>2. /\ Append(p, GenEos) \in Seq(GenToken) /\ Len(Append(p, GenEos)) = Len(p) + 1
              /\ \A k \in 1..(Len(p) + 1) :
                    Append(p, GenEos)[k] = IF k = Len(p) + 1 THEN GenEos ELSE p[k]
          BY <4>1, Lengthened
        <5>3. Len(p) + 1 = 2 /\ 1 \in 1..2 /\ 2 \in 1..2 /\ 1 # 2
          BY <5>1
        <5>4. /\ Append(p, GenEos)[1] = p[1] /\ Append(p, GenEos)[2] = GenEos
          BY <5>2, <5>3
        <5> QED
          BY <5>1, <5>2, <5>3, <5>4
      <4>3. \A i \in 1..2 : i = 1 \/ i = 2
        OBVIOUS
      <4>4. \A i \in 1..2 : a[i] = Append(GenPrompt, GenEos)[i]
        BY <2>1, <2>2, <4>2, <4>3
      <4> HIDE DEF a
      <4> QED
        BY <2>1, <3>3, <4>2, <4>4, SeqEqual
    <3> QED
      BY <3>4
  <2>3. CASE a[2] # GenEos
    <3>1. ASSUME NEW k \in 1..(Len(a) - 1)
          PROVE  GenStops("naive", a[k + 1], k) <=> GenStops("manual", a[k + 1], k)
      <4>1. CASE k = 1
        <5>1. a[k + 1] # GenEos
          BY <2>3, <4>1
        <5> QED
          BY <4>1, <5>1 DEF GenStops
      <4>2. CASE k # 1
        BY <4>2 DEF GenStops
      <4> QED
        BY <4>1, <4>2
    <3> QED
      BY <1>1, <1>3, <3>1, GenSameText
  <2> QED
    BY <2>2, <2>3
<1>4. GenCacheChangesNothing
  BY <1>2, <1>3 DEF GenCacheChangesNothing
<1>5. ASSUME NEW l \in {"kv", "manual"}, GenCount(l) > 0 PROVE genPast[l] = Front(genIds[l])
  <2>1. l \in GenLoops /\ l # "naive"
    BY <1>1, <1>5
  <2>2. genIds[l] \in Seq(GenToken) /\ Len(genIds[l]) - Len(GenPrompt) > 0
    BY <1>1, <1>5, <2>1 DEF GenCount
  <2>3. Len(genIds[l]) # 1
    <3>1. PICK i \in Nat : i = Len(genIds[l])
      BY <2>2
    <3>2. i - 1 > 0
      BY <2>2, <3>1, GenPromptIsOne
    <3>3. i # 1
      BY <3>2
    <3> QED
      BY <3>1, <3>3
  <2> QED
    BY <1>1, <2>1, <2>3 DEF GenCovered, Front
<1>6. GenCacheCovers
  BY <1>5 DEF GenCacheCovers
<1> QED
  BY <1>4, <1>6

-----------------------------------------------------------------------------
\* In every interleaving of submissions, timeouts and steps of the scheduler no page
\* leaks and none is shared, and until an allocation finds the pool empty a request
\* holds just the pages of its tokens; and for every model the generation loops with
\* a cache write what the loop without one writes.  (BatchedEngine, PagedKVCache,
\* generate_naive, generate_with_kv_cache and the manual loop)
THEOREM EngineCorrect == LlmSpec => []EngineFaithful
<1>1. InfInit => InfInv
  BY InfInvInit
<1>2. GenInit => GenInv
  BY GenInvInit
<1>3. /\ InfInv /\ GenInv
      /\ [\/ InfNext /\ UNCHANGED genVars
          \/ GenNext /\ UNCHANGED infVars]_<<infVars, genVars>>
      => InfInv' /\ GenInv'
  BY InfInvNext, GenInvNext
<1>4. InfInv /\ GenInv => EngineFaithful
  BY InfFaithful, GenFaithful DEF EngineFaithful
<1> QED
  BY <1>1, <1>2, <1>3, <1>4, PTL DEF LlmSpec

-----------------------------------------------------------------------------
(* Speculative decoding.  The heart of it is SdStepPlausible: whatever is  *)
(* accepted, or drawn after a rejection, has some probability under the    *)
(* target at its own place.  The rest is bookkeeping of sequences: what    *)
(* SdAppend keeps of a step is what TdGrow may add.                        *)

\* The distributions of a call have weights in Nat at every place.
LEMMA SdModelsAreModels == SdModels \subseteq LmModels
  <1>1. SdWeights \subseteq [LmToken -> 0..SdSum]
    BY Zenon DEF SdWeights
  <1>2. [LmToken -> 0..SdSum] \subseteq [LmToken -> Nat]
    BY SdAssumption
  <1> QED
    BY <1>1, <1>2 DEF SdModels, LmModels

LEMMA SdProbsType ==
  ASSUME NEW model \in SdModels, NEW n \in Nat
  PROVE  LmProbs(model, n) \in [LmToken -> Nat]
  <1>1. n % LmPeriod \in 0..LmPeriod - 1
    BY LmAssumption
  <1>2. model \in [0..LmPeriod - 1 -> [LmToken -> Nat]]
    BY SdModelsAreModels DEF LmModels
  <1> QED
    BY <1>1, <1>2 DEF LmProbs

\* What was appended is what is read behind the old end.
LEMMA AppendedPart ==
  ASSUME NEW S, NEW s \in Seq(S), NEW u \in Seq(S)
  PROVE  SubSeq(s \o u, Len(s) + 1, Len(s \o u)) = u
  <1>1. /\ Len(s) \in Nat /\ Len(u) \in Nat
        /\ Len(s \o u) = Len(s) + Len(u)
    BY ConcatProperties, LenProperties
  <1>2. CASE Len(u) = 0
    <2>1. u = <<>>
      BY <1>2, EmptySeq
    <2>2. SubSeq(s \o u, Len(s) + 1, Len(s \o u)) = <<>>
      BY <1>1, <1>2, SubSeqEmpty
    <2> QED
      BY <2>1, <2>2
  <1>3. CASE Len(u) > 0
    <2>1. /\ Len(s) + 1 \in Len(s) + 1 .. Len(s) + Len(u)
          /\ Len(s) + Len(u) \in Len(s) + 1 .. Len(s) + Len(u)
      BY <1>1, <1>3
    <2>2. SubSeq(s \o u, Len(s) + 1, Len(s) + Len(u))
              = SubSeq(u, (Len(s) + 1) - Len(s), (Len(s) + Len(u)) - Len(s))
      BY <2>1, SubSeqOfConcat2
    <2>3. (Len(s) + 1) - Len(s) = 1 /\ (Len(s) + Len(u)) - Len(s) = Len(u)
      BY <1>1
    <2> QED
      BY <1>1, <2>2, <2>3, SubSeqFull
  <1> QED
    BY <1>1, <1>2, <1>3

\* The tokens of a step: those accepted and the one after them.
LEMMA SdStepTokens ==
  ASSUME NEW k \in Nat, NEW drafted \in [1..k -> LmToken], NEW m \in 0..k, NEW t \in LmToken
  PROVE  LET tokens == Append(SubSeq(drafted, 1, m), t)
         IN  /\ tokens \in Seq(LmToken) /\ Len(tokens) = m + 1
             /\ \A j \in 1..m : tokens[j] = drafted[j]
             /\ tokens[m + 1] = t
  <1> DEFINE s == SubSeq(drafted, 1, m)
  <1>1. \A j \in 1..m : drafted[j] \in LmToken
    OBVIOUS
  <1>2. /\ s \in Seq(LmToken) /\ Len(s) = m
        /\ \A j \in 1..m : s[j] = drafted[j]
    BY <1>1, SubSeqProperties, SMT
  <1>3. DOMAIN drafted = 1..k
    OBVIOUS
  <1> HIDE DEF s
  <1>4. /\ Append(s, t) \in Seq(LmToken) /\ Len(Append(s, t)) = m + 1
        /\ \A j \in 1..m : Append(s, t)[j] = drafted[j]
        /\ Append(s, t)[m + 1] = t
    BY <1>2
  <1> QED
    BY <1>4 DEF s

\* A token that is drawn after a rejection has some probability under the target.
LEMMA SdResampledPlausible ==
  ASSUME NEW pd \in [LmToken -> Nat], NEW pt \in [LmToken -> Nat], NEW t \in LmToken,
         SdResampled(pd, pt, t)
  PROVE  pt[t] > 0
  BY DEF SdResampled, SdCorrected

\* All tokens of a step are plausible at their places.
LEMMA SdStepPlausible ==
  ASSUME sdTarget \in SdModels, sdDraft \in SdModels, sdK \in Nat,
         NEW n \in Nat, NEW drafted \in [1..sdK -> LmToken], NEW m \in 0..sdK, NEW t \in LmToken,
         SdEnds(n, drafted, m, t)
  PROVE  LmPlausible(sdTarget, n, Append(SubSeq(drafted, 1, m), t))
  <1> DEFINE tokens == Append(SubSeq(drafted, 1, m), t)
  <1>1. /\ tokens \in Seq(LmToken) /\ Len(tokens) = m + 1
        /\ \A j \in 1..m : tokens[j] = drafted[j]
        /\ tokens[m + 1] = t
    BY SdStepTokens
  <1>2. n + m \in Nat /\ LmProbs(sdTarget, n + m) \in [LmToken -> Nat] /\ LmProbs(sdDraft, n + m) \in [LmToken -> Nat]
    <2>1. n + m \in Nat
      OBVIOUS
    <2> QED
      BY <2>1, SdProbsType
  <1>3. LmProbs(sdTarget, n + m)[t] > 0
    BY <1>2, SdResampledPlausible DEF SdEnds
  <1>4. \A j \in 1..m : LmProbs(sdTarget, n + j - 1)[drafted[j]] > 0
    BY DEF SdEnds, SdAccepts
  <1> HIDE DEF tokens
  <1>5. ASSUME NEW j \in 1..Len(tokens)
        PROVE  tokens[j] \in LmToken /\ LmProbs(sdTarget, n + j - 1)[tokens[j]] > 0
    <2>1. CASE j \in 1..m
      BY <2>1, <1>1, <1>4
    <2>2. CASE j = m + 1
      <3>1. n + j - 1 = n + m
        BY <2>2
      <3> QED
        BY <3>1, <2>2, <1>1, <1>3
    <2> QED
      BY <1>1, <2>1, <2>2
  <1> QED
    BY <1>5 DEF LmPlausible, tokens

-----------------------------------------------------------------------------
\* The inductive invariant: before a call there is no target and no result;
\* afterwards both models are distributions, and every result is plausible.
SdInv == /\ SdTypeOK
         /\ sdAlgo = "none" => sdTarget = <<>> /\ sdLast.tokens = <<>>
         /\ sdAlgo # "none" => sdTarget \in SdModels /\ sdDraft \in SdModels
         /\ SdResultPlausible

\* A batch starts with the invariant: nothing is asked and nothing written.
LEMMA InitInv == SdInit => SdInv
  <1> SUFFICES ASSUME SdInit PROVE SdInv
    OBVIOUS
  <1>1. <<>> \in Seq(LmToken \ {LmEos}) /\ <<>> \in Seq(LmToken)
    BY EmptySeq
  <1>2. sdLast.from = 0 /\ sdLast.tokens = <<>>
    BY DEF SdInit
  <1>3. SdTypeOK
    BY <1>1, <1>2 DEF SdInit, SdTypeOK
  <1> QED
    BY <1>2, <1>3 DEF SdInit, SdInv, SdResultPlausible

\* A call brings two distributions and leaves the texts as they are.
LEMMA CallInv == SdInv /\ SdCall => SdInv'
  <1> SUFFICES ASSUME SdInv, SdCall PROVE SdInv'
    OBVIOUS
  <1>1. /\ sdAlgo' \in {"generate", "batch", "self", "tree"}
        /\ sdTarget' \in SdModels /\ sdDraft' \in SdModels
        /\ sdK' \in Nat
        /\ UNCHANGED <<sdText, sdPass, sdLast>>
    BY SdAssumption DEF SdCall
  <1>2. sdLimit' \in Nat
    BY SdAssumption DEF SdCall, SdLimit
  <1>3. sdFrom' \in [SdSlot -> Nat] /\ sdDone' \in [SdSlot -> BOOLEAN]
    BY SdAssumption DEF SdCall
  <1>4. sdLast.tokens = <<>>
    BY DEF SdInv, SdCall
  <1>5. SdModels' = SdModels
    OBVIOUS
  <1>6. SdTypeOK'
    BY <1>1, <1>2, <1>3, <1>5 DEF SdInv, SdTypeOK
  <1>7. SdResultPlausible'
    BY <1>1, <1>4 DEF SdResultPlausible
  <1> QED
    BY <1>1, <1>5, <1>6, <1>7 DEF SdInv

\* What a step or a tree hands back is well typed, at most K + 1 tokens long
\* and plausible.
LEMMA ResultInv ==
  ASSUME sdTarget \in SdModels, sdK \in Nat,
         NEW n \in Nat, NEW drafted \in [1..sdK -> LmToken], NEW m \in 0..sdK, NEW t \in LmToken,
         LmPlausible(sdTarget, n, Append(SubSeq(drafted, 1, m), t)),
         UNCHANGED <<sdTarget, sdK>>,
         sdLast' = [from |-> n, tokens |-> Append(SubSeq(drafted, 1, m), t)]
  PROVE  /\ sdLast'.from \in Nat /\ sdLast'.tokens \in Seq(LmToken)
         /\ SdResultPlausible'
  <1> DEFINE tokens == Append(SubSeq(drafted, 1, m), t)
  <1>1. tokens \in Seq(LmToken) /\ Len(tokens) = m + 1
    BY SdStepTokens
  <1>2. LmPlausible(sdTarget, n, tokens)
    OBVIOUS
  <1>3. sdLast' = [from |-> n, tokens |-> tokens]
    OBVIOUS
  <1> HIDE DEF tokens
  <1>4. sdLast'.from = n /\ sdLast'.tokens = tokens
    BY <1>3
  <1>5. Len(tokens) <= sdK + 1
    BY <1>1
  <1>6. LmPlausible(sdTarget', sdLast'.from, sdLast'.tokens)
    BY <1>2, <1>4
  <1> QED
    BY <1>1, <1>4, <1>5, <1>6 DEF SdResultPlausible

\* A sequence and its flag keep their types when a result is appended.
LEMMA AppendInv ==
  ASSUME SdTypeOK, NEW i \in SdSlot, NEW tokens \in Seq(LmToken), SdAppend(i, tokens)
  PROVE  sdText' \in [SdSlot -> Seq(LmToken \ {LmEos})] /\ sdDone' \in [SdSlot -> BOOLEAN]
  <1>1. PICK k \in 0..Len(tokens) :
            /\ \A j \in 1..k : tokens[j] # LmEos
            /\ sdText' = [sdText EXCEPT ![i] = @ \o SubSeq(tokens, 1, k)]
            /\ sdDone' = [sdDone EXCEPT ![i] = k < Len(tokens) \/ Len(sdText[i]) + k = sdLimit]
    BY Zenon DEF SdAppend
  <1>2. \A j \in 1..k : tokens[j] \in LmToken \ {LmEos}
    BY <1>1, ElementOfSeq
  <1>3. SubSeq(tokens, 1, k) \in Seq(LmToken \ {LmEos})
    BY <1>2, SubSeqProperties
  <1>4. sdText[i] \in Seq(LmToken \ {LmEos})
    BY DEF SdTypeOK
  <1>5. sdText[i] \o SubSeq(tokens, 1, k) \in Seq(LmToken \ {LmEos})
    BY <1>3, <1>4, ConcatProperties
  <1>6. (k < Len(tokens) \/ Len(sdText[i]) + k = sdLimit) \in BOOLEAN
    OBVIOUS
  <1>7. sdText \in [SdSlot -> Seq(LmToken \ {LmEos})] /\ sdDone \in [SdSlot -> BOOLEAN]
    BY DEF SdTypeOK
  <1>8. sdText' \in [SdSlot -> Seq(LmToken \ {LmEos})]
    BY <1>1, <1>5, <1>7
  <1>9. sdDone' \in [SdSlot -> BOOLEAN]
    BY <1>1, <1>6, <1>7
  <1> QED
    BY <1>8, <1>9

\* The draft of a step, what is kept of it, and where it stands.
LEMMA StepParts ==
  ASSUME SdInv, NEW i \in SdSlot, SdStep(i)
  PROVE  /\ sdTarget \in SdModels /\ sdDraft \in SdModels /\ sdK \in Nat
         /\ sdFrom[i] + Len(sdText[i]) \in Nat
         /\ ~sdDone[i] /\ sdPass' \subseteq SdSlot
         /\ UNCHANGED sdCallVars
         /\ \E drafted \in [1..sdK -> LmToken] : \E m \in 0..sdK, t \in LmToken :
              LET tokens == Append(SubSeq(drafted, 1, m), t)
              IN  /\ SdEnds(sdFrom[i] + Len(sdText[i]), drafted, m, t)
                  /\ SdAppend(i, tokens)
                  /\ sdLast' = [from |-> sdFrom[i] + Len(sdText[i]), tokens |-> tokens]
  <1>1. sdTarget \in SdModels /\ sdDraft \in SdModels
    BY DEF SdInv, SdStep
  <1>2. sdK \in Nat /\ sdFrom[i] \in Nat /\ sdText[i] \in Seq(LmToken \ {LmEos})
    BY DEF SdInv, SdTypeOK
  <1>3. sdFrom[i] + Len(sdText[i]) \in Nat
    BY <1>2, LenProperties
  <1>4. ~sdDone[i] /\ sdPass' \subseteq SdSlot
    BY DEF SdInv, SdTypeOK, SdStep
  <1>5. \E drafted \in [1..sdK -> LmToken] : \E m \in 0..sdK, t \in LmToken :
            /\ SdEnds(sdFrom[i] + Len(sdText[i]), drafted, m, t)
            /\ SdAppend(i, Append(SubSeq(drafted, 1, m), t))
            /\ sdLast' = [from |-> sdFrom[i] + Len(sdText[i]),
                          tokens |-> Append(SubSeq(drafted, 1, m), t)]
    BY Zenon DEF SdStep, SdDrafts
  <1>6. UNCHANGED sdCallVars
    BY DEF SdStep
  <1> QED
    BY <1>1, <1>2, <1>3, <1>4, <1>5, <1>6, Zenon

\* A speculative step keeps the invariant.
LEMMA StepInv ==
  ASSUME SdInv, NEW i \in SdSlot, SdStep(i)
  PROVE  SdInv'
  <1>1. /\ sdTarget \in SdModels /\ sdDraft \in SdModels /\ sdK \in Nat
        /\ sdFrom[i] + Len(sdText[i]) \in Nat
        /\ sdPass' \subseteq SdSlot /\ UNCHANGED sdCallVars
    BY StepParts, Zenon
  <1> DEFINE n == sdFrom[i] + Len(sdText[i])
  <1>2. PICK drafted \in [1..sdK -> LmToken], m \in 0..sdK, t \in LmToken :
            /\ SdEnds(n, drafted, m, t)
            /\ SdAppend(i, Append(SubSeq(drafted, 1, m), t))
            /\ sdLast' = [from |-> n, tokens |-> Append(SubSeq(drafted, 1, m), t)]
    BY StepParts, Zenon
  <1>3. n \in Nat
    BY <1>1
  <1> HIDE DEF n
  <1>4. LmPlausible(sdTarget, n, Append(SubSeq(drafted, 1, m), t))
    BY <1>1, <1>2, <1>3, SdStepPlausible
  <1>5. UNCHANGED <<sdAlgo, sdTarget, sdDraft, sdK, sdLimit, sdFrom>>
    BY <1>1 DEF sdCallVars
  <1>6. /\ sdLast'.from \in Nat /\ sdLast'.tokens \in Seq(LmToken)
        /\ SdResultPlausible'
    BY <1>1, <1>2, <1>3, <1>4, <1>5, ResultInv
  <1>7. Append(SubSeq(drafted, 1, m), t) \in Seq(LmToken)
    BY <1>1, SdStepTokens
  <1>8. sdText' \in [SdSlot -> Seq(LmToken \ {LmEos})] /\ sdDone' \in [SdSlot -> BOOLEAN]
    BY <1>2, <1>7, AppendInv DEF SdInv
  <1>9. SdTypeOK'
    BY <1>1, <1>5, <1>6, <1>8 DEF SdInv, SdTypeOK
  <1>10. sdAlgo # "none"
    BY DEF SdStep
  <1> QED
    BY <1>1, <1>5, <1>6, <1>9, <1>10 DEF SdInv

\* Self-speculation and a draft tree hand back a plausible result as well.
LEMMA OneResultInv == SdInv /\ (SdSelf \/ SdTree) => SdInv'
  <1> SUFFICES ASSUME SdInv, SdSelf \/ SdTree PROVE SdInv'
    OBVIOUS
  <1>1. /\ sdAlgo # "none"
        /\ UNCHANGED <<sdAlgo, sdTarget, sdDraft, sdK, sdLimit, sdFrom, sdText, sdDone, sdPass>>
    BY DEF SdSelf, SdTree, sdCallVars
  <1>2. sdTarget \in SdModels /\ sdDraft \in SdModels /\ sdK \in Nat
    BY <1>1 DEF SdInv, SdTypeOK
  <1>3. \E drafted \in [1..sdK -> LmToken] : \E m \in 0..sdK, t \in LmToken :
            /\ LmPlausible(sdTarget, 1, Append(SubSeq(drafted, 1, m), t))
            /\ sdLast' = [from |-> 1, tokens |-> Append(SubSeq(drafted, 1, m), t)]
    <2>1. CASE SdSelf
      <3>1. PICK drafted \in [1..sdK -> LmToken], m \in 0..sdK, t \in LmToken :
                /\ SdEnds(1, drafted, m, t)
                /\ sdLast' = [from |-> 1, tokens |-> Append(SubSeq(drafted, 1, m), t)]
        BY <2>1, Zenon DEF SdSelf, SdDrafts
      <3>2. LmPlausible(sdTarget, 1, Append(SubSeq(drafted, 1, m), t))
        BY <1>2, <3>1, SdStepPlausible
      <3> QED
        BY <3>1, <3>2, Zenon
    <2>2. CASE SdTree
      <3>1. PICK path \in [1..sdK -> LmToken], m \in 0..sdK, t \in LmToken :
                /\ \A j \in 1..m : LmProbs(sdTarget, 1 + j - 1)[path[j]] > 0
                /\ LmProbs(sdTarget, 1 + m)[t] > 0
                /\ sdLast' = [from |-> 1, tokens |-> Append(SubSeq(path, 1, m), t)]
        BY <2>2, Zenon DEF SdTree, SdPaths, SdBest, SdPathEnds, SdAccepts
      <3> DEFINE tokens == Append(SubSeq(path, 1, m), t)
      <3>2. /\ tokens \in Seq(LmToken) /\ Len(tokens) = m + 1
            /\ \A j \in 1..m : tokens[j] = path[j]
            /\ tokens[m + 1] = t
        BY <1>2, SdStepTokens
      <3> HIDE DEF tokens
      <3>3. ASSUME NEW j \in 1..Len(tokens)
            PROVE  tokens[j] \in LmToken /\ LmProbs(sdTarget, 1 + j - 1)[tokens[j]] > 0
        <4>1. CASE j \in 1..m
          BY <4>1, <3>1, <3>2
        <4>2. CASE j = m + 1
          <5>1. 1 + j - 1 = 1 + m
            BY <4>2
          <5> QED
            BY <5>1, <4>2, <3>1, <3>2
        <4> QED
          BY <3>2, <4>1, <4>2
      <3>4. LmPlausible(sdTarget, 1, tokens)
        BY <3>3 DEF LmPlausible
      <3> QED
        BY <3>1, <3>4, Zenon DEF tokens
    <2> QED
      BY <2>1, <2>2
  <1>4. /\ sdLast'.from \in Nat /\ sdLast'.tokens \in Seq(LmToken)
        /\ SdResultPlausible'
    <2>1. PICK drafted \in [1..sdK -> LmToken], m \in 0..sdK, t \in LmToken :
            /\ LmPlausible(sdTarget, 1, Append(SubSeq(drafted, 1, m), t))
            /\ sdLast' = [from |-> 1, tokens |-> Append(SubSeq(drafted, 1, m), t)]
      BY <1>3, Zenon
    <2> QED
      BY <2>1, <1>1, <1>2, ResultInv
  <1>5. SdTypeOK'
    BY <1>1, <1>4 DEF SdInv, SdTypeOK
  <1> QED
    BY <1>1, <1>2, <1>4, <1>5 DEF SdInv

LEMMA StutterInv == SdInv /\ UNCHANGED sdVars => SdInv'
  BY DEF SdInv, SdTypeOK, SdResultPlausible, sdVars, sdCallVars

LEMMA NextInv == SdInv /\ [SdNext]_sdVars => SdInv'
  BY CallInv, StepInv, OneResultInv, StutterInv DEF SdNext, SdDecode

LEMMA InvHolds == SdSpec => []SdInv
  BY InitInv, NextInv, PTL DEF SdSpec

\* Every result, of a step or of a tree, is something the target could have
\* written.  (speculative_step, decode_batch, verify_tree)
THEOREM SpecResultPlausible == SdSpec => []SdResultPlausible
  <1>1. SdInv => SdResultPlausible
    BY DEF SdInv
  <1> QED
    BY <1>1, InvHolds, PTL

-----------------------------------------------------------------------------
\* A step grows one sequence as the target alone might.
LEMMA StepGrows ==
  ASSUME SdInv, NEW i \in SdSlot, SdStep(i)
  PROVE  Standard!TdGrow(i)
  <1>1. /\ sdTarget \in SdModels /\ sdDraft \in SdModels /\ sdK \in Nat
        /\ sdFrom[i] + Len(sdText[i]) \in Nat
        /\ ~sdDone[i] /\ UNCHANGED sdCallVars
    BY StepParts, Zenon
  <1> DEFINE n == sdFrom[i] + Len(sdText[i])
             old == sdText[i]
  <1>2. PICK drafted \in [1..sdK -> LmToken], m \in 0..sdK, t \in LmToken :
            /\ SdEnds(n, drafted, m, t)
            /\ SdAppend(i, Append(SubSeq(drafted, 1, m), t))
    BY StepParts, Zenon
  <1> DEFINE tokens == Append(SubSeq(drafted, 1, m), t)
  <1>3. n \in Nat
    BY <1>1
  <1>4. LmPlausible(sdTarget, n, tokens)
    BY <1>1, <1>2, <1>3, SdStepPlausible
  <1>5. tokens \in Seq(LmToken) /\ Len(tokens) = m + 1
    BY <1>1, SdStepTokens
  <1>6. SdAppend(i, tokens)
    BY <1>2
  <1> HIDE DEF tokens
  <1>7. PICK k \in 0..Len(tokens) :
            /\ Len(old) + k <= sdLimit
            /\ \A j \in 1..k : tokens[j] # LmEos
            /\ k < Len(tokens) => Len(old) + k = sdLimit \/ tokens[k + 1] = LmEos
            /\ sdText' = [sdText EXCEPT ![i] = old \o SubSeq(tokens, 1, k)]
            /\ sdDone' = [sdDone EXCEPT ![i] = k < Len(tokens) \/ Len(old) + k = sdLimit]
    BY <1>6, Zenon DEF SdAppend
  <1> DEFINE more == SubSeq(tokens, 1, k)
  <1>8. /\ more \in Seq(LmToken \ {LmEos}) /\ Len(more) = k
        /\ \A j \in 1..k : more[j] = tokens[j]
    <2>1. \A j \in 1..k : tokens[j] \in LmToken \ {LmEos}
      BY <1>5, <1>7, ElementOfSeq
    <2> QED
      BY <2>1, SubSeqProperties, SMT
  <1>9. LmPlausible(sdTarget, n, more)
    <2>1. \A j \in 1..Len(tokens) : LmProbs(sdTarget, n + j - 1)[tokens[j]] > 0 /\ tokens[j] \in LmToken
      BY <1>4 DEF LmPlausible
    <2>2. 1..Len(more) = 1..k /\ \A j \in 1..k : j \in 1..Len(tokens)
      BY <1>5, <1>7, <1>8
    <2> QED
      BY <1>8, <2>1, <2>2, Zenon DEF LmPlausible
  <1>10. /\ sdText \in [SdSlot -> Seq(LmToken \ {LmEos})] /\ sdDone \in [SdSlot -> BOOLEAN]
         /\ sdLimit \in Nat /\ old \in Seq(LmToken \ {LmEos})
    BY DEF SdInv, SdTypeOK
  <1> HIDE DEF more
  <1>11. sdText'[i] = old \o more
    BY <1>7, <1>10 DEF more
  <1>12. SubSeq(sdText'[i], Len(old) + 1, Len(sdText'[i])) = more
    BY <1>8, <1>10, <1>11, AppendedPart
  <1>13. sdText' = [sdText EXCEPT ![i] = @ \o more]
    BY <1>7 DEF more
  <1>14. \/ sdDone' = sdDone /\ more # <<>>
         \/ /\ sdDone' = [sdDone EXCEPT ![i] = TRUE]
            /\ Len(old) + Len(more) = sdLimit \/ LmProbs(sdTarget, n + Len(more))[LmEos] > 0
    <2>1. CASE Len(old) + k = sdLimit
      BY <2>1, <1>7, <1>8
    <2>2. CASE k < Len(tokens) /\ Len(old) + k # sdLimit
      <3>1. tokens[k + 1] = LmEos /\ k + 1 \in 1..Len(tokens)
        BY <2>2, <1>5, <1>7
      <3>2. LmProbs(sdTarget, n + (k + 1) - 1)[LmEos] > 0
        BY <3>1, <1>4, Zenon DEF LmPlausible
      <3>3. n + (k + 1) - 1 = n + Len(more)
        BY <1>3, <1>8, <1>7
      <3>4. LmProbs(sdTarget, n + Len(more))[LmEos] > 0
        BY <3>2, <3>3, Zenon
      <3>5. sdDone' = [sdDone EXCEPT ![i] = TRUE]
        BY <2>2, <1>7
      <3> QED
        BY <3>4, <3>5
    <2>3. CASE ~(k < Len(tokens)) /\ Len(old) + k # sdLimit
      <3>1. Len(more) = m + 1
        BY <2>3, <1>5, <1>7, <1>8
      <3>2. more # <<>>
        BY <3>1, <1>8
      <3>3. sdDone' = [sdDone EXCEPT ![i] = FALSE]
        BY <2>3, <1>7
      <3>4. sdDone' = sdDone
        BY <3>3, <1>1, <1>10
      <3> QED
        BY <3>2, <3>4
    <2> QED
      BY <2>1, <2>2, <2>3
  <1>15. Len(old) + Len(more) <= sdLimit
    BY <1>7, <1>8
  <1>16. UNCHANGED <<sdTarget, sdFrom, sdLimit>>
    BY <1>1 DEF sdCallVars
  <1>17. n = sdFrom[i] + Len(sdText[i])
    OBVIOUS
  <1> QED
    BY <1>1, <1>8, <1>9, <1>12, <1>13, <1>14, <1>15, <1>16, Zenon
       DEF Standard!TdGrow, Standard!LmPlausible, Standard!LmProbs, LmPlausible, LmProbs

\* A call brings the abstract decoder its target, its limit and its prompts.
LEMMA CallIsCall == SdInv /\ SdCall => Standard!TdCall
  <1> SUFFICES ASSUME SdInv, SdCall PROVE Standard!TdCall
    OBVIOUS
  <1>1. sdTarget = <<>>
    BY DEF SdInv, SdCall
  <1>2. sdTarget' \in LmModels
    BY SdModelsAreModels DEF SdCall
  <1>3. sdLimit' \in Nat /\ sdFrom' \in [SdSlot -> Nat] /\ sdDone' \in [SdSlot -> BOOLEAN]
    BY CallInv DEF SdInv, SdTypeOK
  <1>4. UNCHANGED sdText
    BY DEF SdCall
  <1> QED
    BY <1>1, <1>2, <1>3, <1>4 DEF Standard!TdCall, Standard!LmModels, LmModels

\* Speculative decoding, of one sequence or of a batch, implements decoding by
\* the target alone: initial states are its initial states, a step grows one
\* sequence, and self-speculation and draft trees leave the texts alone.
THEOREM SpecImplementsTarget == SdSpec => SdImplementsTarget
  <1>1. SdInit => Standard!TdInit
    BY DEF SdInit, Standard!TdInit
  <1>2. SdInv /\ [SdNext]_sdVars => [Standard!TdNext]_Standard!tdVars
    <2> SUFFICES ASSUME SdInv, [SdNext]_sdVars
                 PROVE  [Standard!TdNext]_Standard!tdVars
      OBVIOUS
    <2>1. CASE SdCall
      BY <2>1, CallIsCall DEF Standard!TdNext
    <2>2. CASE SdDecode
      BY <2>2, StepGrows DEF SdDecode, Standard!TdNext
    <2>3. CASE SdSelf \/ SdTree \/ UNCHANGED sdVars
      BY <2>3 DEF SdSelf, SdTree, sdVars, sdCallVars, Standard!tdVars
    <2> QED
      BY <2>1, <2>2, <2>3 DEF SdNext
  <1> QED
    BY <1>1, <1>2, InvHolds, PTL DEF SdSpec, SdImplementsTarget, Standard!TdSpec
=============================================================================
