------------------------------ MODULE Tokenizer ------------------------------
(***************************************************************************)
(* labs/tokenizer: one token per character (v0), byte-pair encoding of the *)
(* whole text (v1), and of each piece a pattern splits it into (v2), with  *)
(* the file v2 is saved to and the server loads.  A character is the       *)
(* sequence of its bytes; ids below TkBytes are the bytes themselves (256  *)
(* in the code).  Training and encoding go one merge rule a step.          *)
(***************************************************************************)
EXTENDS Naturals, Sequences, SequencesExt, FiniteSetsExt, TLC

CONSTANTS TkSpace, TkLetters,     \* characters
          TkBytes,                \* number of byte values
          TkMerges,               \* vocab_size - 256
          TkCorpora, TkTexts,     \* bound: what is trained on, and encoded
          TkMaxTrainings          \* bound

ASSUME TkAssumption == /\ TkMerges > 0
                       /\ \A c \in {TkSpace} \cup TkLetters : ToSet(c) \subseteq 0..TkBytes - 1

VARIABLES tkVersion, tkTok,       \* the tokenizer
          tkFile,                 \* what save wrote, if anything
          tkJob,                  \* the encoding under way
          tkTrainings

tkVars == <<tkVersion, tkTok, tkFile, tkJob, tkTrainings>>

TkNothing == [phase |-> "none"]

TkInit == /\ tkVersion \in {"v0", "v1", "v2"}
          /\ tkTok = [phase |-> "new"] /\ tkFile = TkNothing /\ tkJob = TkNothing
          /\ tkTrainings = 0

-----------------------------------------------------------------------------
\* Mutant: a pattern that matches no white space.
TkSplitMutant(text) ==
    SelectSeq(<<SelectSeq(text, LAMBDA c : c # TkSpace)>>, LAMBDA piece : piece # <<>>)
\* GPT2_SPLIT_PATTERN on letters and spaces: a word takes one space before it,
\* the rest of a run of spaces is a piece.
TkSplit(text) ==
    LET n == Len(text)
        space(i) == i \in 1..n /\ text[i] = TkSpace
        letter(i) == i \in 1..n /\ text[i] # TkSpace
        starts(i) == \/ letter(i) /\ ~letter(i - 1) /\ ~space(i - 1)
                     \/ space(i) /\ letter(i + 1)
                     \/ space(i) /\ ~space(i - 1)
        from == SetToSortSeq({i \in 1..n : starts(i)}, <)
    IN  [k \in DOMAIN from |->
            SubSeq(text, from[k], IF k = Len(from) THEN n ELSE from[k + 1] - 1)]

TkEncoded(text) == FlattenSeq(text)

\* The sequences that are merged: the bytes of the text, or of each piece.
TkChunks(text) ==
    IF tkVersion = "v1" THEN <<TkEncoded(text)>>
    ELSE LET pieces == TkSplit(text) IN [i \in DOMAIN pieces |-> TkEncoded(pieces[i])]

\* Mutant: the scan goes on with the second of the two merged.
TkApplyMutant(ids, rule) ==
    LET scan[i \in Nat] ==
            IF i > Len(ids) THEN <<>>
            ELSE IF i < Len(ids) /\ <<ids[i], ids[i + 1]>> = rule.pair
                 THEN <<rule.id>> \o scan[i + 1] ELSE <<ids[i]>> \o scan[i + 1]
    IN  scan[1]
\* _apply_merge
TkApply(ids, rule) ==
    LET scan[i \in Nat] ==
            IF i > Len(ids) THEN <<>>
            ELSE IF i < Len(ids) /\ <<ids[i], ids[i + 1]>> = rule.pair
                 THEN <<rule.id>> \o scan[i + 2] ELSE <<ids[i]>> \o scan[i + 1]
    IN  scan[1]

TkPlaces(chunks, p) ==
    {<<k, i>> \in UNION {{k} \X (1..Len(chunks[k]) - 1) : k \in DOMAIN chunks} :
        <<chunks[k][i], chunks[k][i + 1]>> = p}
TkPairs(chunks) ==
    UNION {{<<c[i], c[i + 1]>> : i \in 1..Len(c) - 1} : c \in ToSet(chunks)}

\* The most frequent pair, of those the largest.
TkBest(chunks) ==
    LET count(p) == Cardinality(TkPlaces(chunks, p))
        before(p, q) == \/ count(p) > count(q)
                        \/ count(p) = count(q) /\ (p[1] > q[1] \/ (p[1] = q[1] /\ p[2] > q[2]))
    IN  CHOOSE p \in TkPairs(chunks) : \A q \in TkPairs(chunks) \ {p} : before(p, q)

-----------------------------------------------------------------------------
\* train: the vocabulary starts anew; a corpus is kept for the properties.
TkTrain(text) ==
    /\ tkTrainings < TkMaxTrainings /\ tkTok.phase # "training" /\ tkJob = TkNothing
    /\ tkTrainings' = tkTrainings + 1
    /\ tkTok' = IF tkVersion = "v0"
                THEN [phase |-> "ready", known |-> ToSet(text), corpus |-> text]
                ELSE [phase |-> "training", corpus |-> text, chunks |-> TkChunks(text),
                      merges |-> <<>>, vocab |-> [i \in 0..TkBytes - 1 |-> <<i>>]]
    /\ UNCHANGED <<tkVersion, tkFile, tkJob>>

TkMerge ==
    LET t == tkTok
        p == TkBest(t.chunks)
        rule == [pair |-> p, id |-> TkBytes + Len(t.merges)]
    IN  /\ t.phase = "training"
        /\ tkTok' = IF \/ Len(t.merges) = TkMerges \/ TkPairs(t.chunks) = {}
                       \/ Cardinality(TkPlaces(t.chunks, p)) < 2
                    THEN [t EXCEPT !.phase = "ready"]
                    ELSE [t EXCEPT !.merges = Append(@, rule),
                                   !.vocab = @ @@ (rule.id :> (@[p[1]] \o @[p[2]])),
                                   !.chunks = [k \in DOMAIN @ |-> TkApply(@[k], rule)]]
        /\ UNCHANGED <<tkVersion, tkFile, tkJob, tkTrainings>>

\* Mutant: the rules come back in the order of their pairs.
TkRulesMutant(file) ==
    SetToSortSeq(ToSet(file.merges), LAMBDA r, s : r.pair[1] > s.pair[1])
TkRules(file) == file.merges

\* save and load: the vocabulary as a list in the order of the ids.
TkSave ==
    /\ tkVersion = "v2" /\ tkTok.phase = "ready" /\ tkFile = TkNothing
    /\ tkFile' = [phase |-> "saved", merges |-> tkTok.merges,
                  vocab |-> LET ids == SetToSortSeq(DOMAIN tkTok.vocab, <)
                            IN  [k \in DOMAIN ids |-> <<ids[k], tkTok.vocab[ids[k]]>>],
                  corpus |-> tkTok.corpus, chunks |-> tkTok.chunks]
    /\ UNCHANGED <<tkVersion, tkTok, tkJob, tkTrainings>>

TkLoad ==
    /\ tkFile # TkNothing /\ tkTok.phase # "training" /\ tkJob = TkNothing
    /\ tkTok' = [phase |-> "ready", merges |-> TkRules(tkFile),
                 vocab |-> [i \in {e[1] : e \in ToSet(tkFile.vocab)} |->
                               (CHOOSE e \in ToSet(tkFile.vocab) : e[1] = i)[2]],
                 corpus |-> tkFile.corpus, chunks |-> tkFile.chunks]
    /\ UNCHANGED <<tkVersion, tkFile, tkJob, tkTrainings>>

-----------------------------------------------------------------------------
\* encode, up to the first merge rule.  (The id of a character in v0 stands for
\* the character; 0 is UNK.)
TkEncode(text) ==
    /\ tkTok.phase = "ready" /\ tkJob = TkNothing
    /\ tkJob' = IF tkVersion = "v0"
                THEN [phase |-> "ids", text |-> text,
                      ids |-> [i \in DOMAIN text |-> IF text[i] \in tkTok.known THEN text[i] ELSE <<>>]]
                ELSE [phase |-> "merging", text |-> text, chunks |-> TkChunks(text), rule |-> 1]
    /\ UNCHANGED <<tkVersion, tkTok, tkFile, tkTrainings>>

TkMergeRule ==
    /\ tkJob.phase = "merging"
    /\ tkJob' = IF tkJob.rule > Len(tkTok.merges)
                THEN [phase |-> "ids", text |-> tkJob.text, chunks |-> tkJob.chunks,
                      ids |-> FlattenSeq(tkJob.chunks)]
                ELSE [tkJob EXCEPT !.rule = @ + 1,
                          !.chunks = [k \in DOMAIN @ |-> TkApply(@[k], tkTok.merges[tkJob.rule])]]
    /\ UNCHANGED <<tkVersion, tkTok, tkFile, tkTrainings>>

\* decode: ids that are not known give nothing.
TkChars(ids) == FlattenSeq(ids)
TkDecoded(ids) ==
    IF tkVersion = "v0" THEN TkChars(ids)
    ELSE FlattenSeq([i \in DOMAIN ids |->
                        IF ids[i] \in DOMAIN tkTok.vocab THEN tkTok.vocab[ids[i]] ELSE <<>>])

TkAnswer == /\ tkJob.phase = "ids"
            /\ tkJob' = TkNothing /\ UNCHANGED <<tkVersion, tkTok, tkFile, tkTrainings>>

TkStep == TkMerge \/ TkMergeRule \/ TkAnswer
TkNext == \/ \E text \in TkCorpora : TkTrain(text)
          \/ TkSave \/ TkLoad
          \/ \E text \in TkTexts : TkEncode(text)
          \/ TkStep

-----------------------------------------------------------------------------
TkTypeOK == /\ tkTok.phase \in {"new", "training", "ready"}
            /\ tkJob.phase \in {"none", "merging", "ids"} /\ tkTrainings \in 0..TkMaxTrainings

\* decode(encode(text)) = text: with v0 for known characters, with v1 and v2 for
\* every text, whatever the tokenizer was trained on or loaded from.
TkLossless ==
    tkJob.phase = "ids" /\ (tkVersion = "v0" => ToSet(tkJob.text) \subseteq tkTok.known) =>
        TkDecoded(tkJob.ids) = TkEncoded(tkJob.text)

\* Encoding goes by rules one pass each, and leaves none to apply: no two ids
\* side by side are the pair of a rule.  So it is as if the earliest rule that
\* applies were applied again and again.
TkMergedOut ==
    tkJob.phase = "ids" /\ tkVersion # "v0" =>
        TkPairs(tkJob.chunks) \cap {r.pair : r \in ToSet(tkTok.merges)} = {}

\* The corpus a tokenizer was trained on is encoded as training left it, after a
\* save and a load too; and in v2 no token reaches over the edge of a piece.
TkAsTrained ==
    tkJob.phase = "ids" /\ tkVersion # "v0" =>
        /\ tkJob.text = tkTok.corpus => tkJob.chunks = tkTok.chunks
        /\ tkVersion = "v2" =>
              \A i \in DOMAIN tkJob.ids :
                 LET bytes == tkTok.vocab[tkJob.ids[i]]
                 IN  \A j \in 2..Len(bytes) : bytes[j] \notin ToSet(TkSpace) \/ ToSet(bytes) = ToSet(TkSpace)

TkFaithful == TkLossless /\ TkMergedOut /\ TkAsTrained

\* Training and encoding are to end.
TkOwed == tkTok.phase = "training" \/ tkJob # TkNothing
=============================================================================
