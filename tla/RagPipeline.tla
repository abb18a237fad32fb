---------------------------- MODULE RagPipeline ----------------------------
(***************************************************************************)
(* labs/rag.  Documents are cut into overlapping chunks; chunks, their     *)
(* vectors and their terms are kept in three parallel lists and the BM25   *)
(* index is rebuilt from the terms.  A query ranks positions by vector     *)
(* (v0), fuses that with the ranking of BM25 (v1), and may rerank the      *)
(* fused candidates (v2).  A document is its length and the places of its  *)
(* blanks and of the marks that end a sentence; a ranking is any order.    *)
(***************************************************************************)
EXTENDS Naturals, Sequences, SequencesExt, FiniteSetsExt

CONSTANTS RgBatches,           \* lists of documents to ingest
          RgChunkChars, RgWindow, RgOverlap,
          RgK, RgCandidates,   \* the constant of RRF; candidates of each retriever
          RgTopKs,
          RgMaxIngests, RgMaxRanked    \* bounds

ASSUME RgAssumption == RgWindow < RgChunkChars /\ RgOverlap < RgWindow

VARIABLES rgVersion, rgDocs,
          rgChunks, rgVectors, rgTerms, rgIndex,
          rgIngests, rgAnswer

rgVars == <<rgVersion, rgDocs, rgChunks, rgVectors, rgTerms, rgIndex, rgIngests, rgAnswer>>

RgNoAnswer == [kind |-> "none"]

RgInit ==
    /\ rgVersion \in {"v0", "v1", "v2"} /\ rgDocs = <<>>
    /\ rgChunks = <<>> /\ rgVectors = <<>> /\ rgTerms = <<>> /\ rgIndex = <<>>
    /\ rgIngests = 0 /\ rgAnswer = RgNoAnswer

-----------------------------------------------------------------------------
\* Where the chunk from start ends: after the last sentence within the final
\* fifth of it, when there is one and the document goes on.
RgEnd(doc, start) ==
    LET end == start + RgChunkChars
        ends == {p \in start + RgWindow + 2..end : p - 2 \in doc.marks /\ p - 1 \in doc.blanks}
    IN  IF end < doc.length /\ ends # {} THEN Max(ends) ELSE end

RgInked(doc) == (0..doc.length - 1) \ doc.blanks

\* What is left of a piece without the blanks around it, if anything is; a term
\* has two characters.
RgStripped(doc, index, start, end) ==
    LET ink == (start..end - 1) \cap RgInked(doc)
    IN  IF ink = {} THEN <<>>
        ELSE <<[doc |-> index, from |-> Min(ink), to |-> Max(ink) + 1,
                terms |-> \E p \in ink : p + 1 \in ink]>>

\* Mutant: no stop at the end of the document.
RgCutMutant(doc, index) ==
    LET cut[start \in Nat] ==
            LET end == RgEnd(doc, start)
            IN  IF start >= doc.length THEN <<>>
                ELSE RgStripped(doc, index, start, end) \o cut[end - RgOverlap]
    IN  cut[0]
\* chunk_document
RgCut(doc, index) ==
    LET cut[start \in Nat] ==
            LET end == RgEnd(doc, start)
            IN  RgStripped(doc, index, start, end)
                \o IF end >= doc.length THEN <<>>
                   ELSE cut[start + Max({1, end - start - RgOverlap})]
    IN  IF doc.length = 0 THEN <<>> ELSE cut[0]

\* ingest: the lists grow one after the other, and what fails leaves the rest
\* as it is: all of them when the embedder does, the index and the chunks when
\* BM25 does because no chunk has a term.
RgIngest(docs) ==
    LET new == FlattenSeq([i \in DOMAIN docs |-> RgCut(docs[i], Len(rgDocs) + i)])
        terms == rgTerms \o new
    IN  /\ rgIngests < RgMaxIngests
        /\ rgIngests' = rgIngests + 1
        /\ rgDocs' = rgDocs \o docs
        /\ \/ UNCHANGED <<rgChunks, rgVectors, rgTerms, rgIndex>>  \* no new chunk, or no embedder
           \/ /\ new # <<>> /\ rgVersion = "v0"
              /\ rgVectors' = rgVectors \o new /\ rgChunks' = rgChunks \o new
              /\ UNCHANGED <<rgTerms, rgIndex>>
           \/ /\ new # <<>> /\ rgVersion # "v0"
              /\ rgVectors' = rgVectors \o new /\ rgTerms' = terms
              /\ IF \E c \in ToSet(terms) : c.terms
                 THEN rgIndex' = terms /\ rgChunks' = rgChunks \o new
                 ELSE UNCHANGED <<rgIndex, rgChunks>>
        /\ rgAnswer' = RgNoAnswer /\ UNCHANGED rgVersion

-----------------------------------------------------------------------------
RgFirst(n, seq) == SubSeq(seq, 1, Min({n, Len(seq)}))
RgOrders(list) == SetToSeqs(DOMAIN list)

RgRank(ranked, c) == IF c \in ToSet(ranked) THEN CHOOSE r \in DOMAIN ranked : ranked[r] = c ELSE 0

\* Mutant: the rank is counted from the end of the list.
RgScoreMutant(lists, c) ==
    FoldSeq(LAMBDA ranked, s :
                LET r == Len(ranked) + 1 - RgRank(ranked, c)
                IN  IF c \notin ToSet(ranked) THEN s
                    ELSE <<s[1] * (RgK + r) + s[2], s[2] * (RgK + r)>>, <<0, 1>>, lists)
\* The sum of 1 / (k + rank) as a fraction.
RgScore(lists, c) ==
    FoldSeq(LAMBDA ranked, s :
                LET r == RgRank(ranked, c)
                IN  IF r = 0 THEN s
                    ELSE <<s[1] * (RgK + r) + s[2], s[2] * (RgK + r)>>, <<0, 1>>, lists)

\* reciprocal_rank_fusion: by score, ties in the order chunks were first met.
RgFuse(lists) ==
    LET all == FlattenSeq(lists)
        met(c) == CHOOSE i \in DOMAIN all : all[i] = c /\ \A j \in 1..i - 1 : all[j] # c
        before(c, d) ==
            LET p == RgScore(lists, c)
                q == RgScore(lists, d)
            IN  \/ p[1] * q[2] > q[1] * p[2]
                \/ p[1] * q[2] = q[1] * p[2] /\ met(c) < met(d)
    IN  SetToSortSeq(ToSet(all), before)

\* retrieve of the three versions; the server refuses a query while there are
\* no chunks, and a position beyond the list of chunks raises.
RgRetrieve(top) ==
    /\ rgChunks # <<>> /\ Len(rgVectors) <= RgMaxRanked
    /\ rgAnswer = RgNoAnswer           \* bound: one query of each index
    /\ \E dense \in RgOrders(rgVectors), sparse \in RgOrders(rgIndex) :
       \E rerank \in IF rgVersion = "v2" THEN RgOrders(rgVectors) ELSE {<<>>} :
          LET n == IF rgVersion = "v2" THEN RgCandidates ELSE top
              width == Max({n, RgCandidates})
              lists == <<RgFirst(width, dense), RgFirst(width, sparse)>>
              fused == IF rgVersion = "v0" THEN RgFirst(top, dense)
                       ELSE RgFirst(n, RgFuse(lists))
              best == IF rgVersion = "v2"
                      THEN RgFirst(top, SelectSeq(rerank, LAMBDA c : c \in ToSet(fused)))
                      ELSE fused
          IN  rgAnswer' = IF ToSet(fused) \subseteq DOMAIN rgChunks
                          THEN [kind |-> "found", top |-> top, lists |-> lists,
                                candidates |-> fused, best |-> best,
                                sources |-> [i \in DOMAIN best |-> rgChunks[best[i]]]]
                          ELSE [kind |-> "raised"]
    /\ UNCHANGED <<rgVersion, rgDocs, rgChunks, rgVectors, rgTerms, rgIndex, rgIngests>>

RgNext == \/ \E docs \in RgBatches : RgIngest(docs)
          \/ \E top \in RgTopKs : RgRetrieve(top)

-----------------------------------------------------------------------------
RgTypeOK ==
    /\ Len(rgChunks) <= Len(rgVectors) /\ Len(rgIndex) <= Len(rgTerms)
    /\ rgAnswer.kind \in {"none", "found", "raised"}

\* No sentence, however short, is cut in all the chunks: what is no longer than the
\* overlap and one more character stands whole in one of them.  Chunks are stripped,
\* as long as allowed, share the overlap at most and, unless the document has blanks
\* for as long as a chunk goes on before the next begins, never lie inside each other.
\* (chunk_document)
RgChunksCover ==
    \A d \in DOMAIN rgDocs :
        LET cut == SelectSeq(rgChunks, LAMBDA c : c.doc = d)
            ink == RgInked(rgDocs[d])
            gaps == \E p \in ink : p..p + RgWindow + 2 - RgOverlap \cap ink = {p}
                                  /\ \E q \in ink : p < q
        IN  cut # <<>> =>
            /\ \A p \in ink : \A q \in ink \cap (p..p + RgOverlap) :
                  \E i \in DOMAIN cut : cut[i].from <= p /\ q < cut[i].to
            /\ \A i \in DOMAIN cut :
                  /\ cut[i].to - cut[i].from \in 1..RgChunkChars
                  /\ cut[i].from \in ink /\ cut[i].to - 1 \in ink
            /\ \A i \in 1..Len(cut) - 1 :
                  /\ cut[i + 1].from >= cut[i].to - RgOverlap
                  /\ ~gaps => cut[i].from < cut[i + 1].from /\ cut[i].to < cut[i + 1].to

\* While no ingest has left vectors without chunks, a source is the very chunk
\* whose vector and terms were ranked, and as many different ones come back as
\* were asked for and exist.  (three parallel lists)
RgSourcesRanked ==
    rgAnswer.kind = "found" /\ Len(rgChunks) = Len(rgVectors) =>
        /\ \A i \in DOMAIN rgAnswer.best :
              /\ rgAnswer.sources[i] = rgVectors[rgAnswer.best[i]]
              /\ rgVersion # "v0" => rgAnswer.sources[i] = rgIndex[rgAnswer.best[i]]
        /\ Cardinality(ToSet(rgAnswer.best)) = Min({rgAnswer.top, Len(rgChunks)})
        /\ Len(rgAnswer.best) = Cardinality(ToSet(rgAnswer.best))

\* A chunk that no retriever ranks below another and one ranks above it is
\* never behind it among the fused candidates.  (reciprocal_rank_fusion)
RgFusionMonotone ==
    rgAnswer.kind = "found" /\ rgVersion # "v0" =>
        LET lists == rgAnswer.lists
            place(l, c) == IF RgRank(lists[l], c) = 0 THEN Len(lists[l]) + 1 ELSE RgRank(lists[l], c)
        IN  \A c, d \in ToSet(FlattenSeq(lists)) :
               (/\ \A l \in 1..2 : place(l, c) <= place(l, d)
                /\ \E l \in 1..2 : place(l, c) < place(l, d)
                /\ d \in ToSet(rgAnswer.candidates))
               => /\ c \in ToSet(rgAnswer.candidates)
                  /\ RgRank(rgAnswer.candidates, c) < RgRank(rgAnswer.candidates, d)

RgFaithful == RgChunksCover /\ RgSourcesRanked /\ RgFusionMonotone
=============================================================================
