SPECIFICATION Spec
CONSTANTS
    CfThread = {1, 2}
    CfModel = {a, b}
    CfSlots = 1
    EmCall = {1, 2}
    EmText = {x, y}
    EmMaxTexts = 2
    EmMaxBatch = 2
    EmCacheSize = 1
    EmModel = {m1, m2}
    EmDefaultModel = m1
    RgBatches <- Batches
    RgChunkChars = 15
    RgWindow = 12
    RgOverlap = 3
    RgK = 60
    RgCandidates = 2
    RgTopKs = {1, 2}
    RgMaxIngests = 2
    RgMaxRanked = 3
    TkSpace <- Space
    TkLetters <- Letters
    TkBytes = 4
    TkMerges = 3
    TkCorpora <- Corpora
    TkTexts <- Texts
    TkMaxTrainings = 1
INVARIANTS CfFaithful EmFaithful TextsFaithful
PROPERTIES PipelinesEnd
CHECK_DEADLOCK FALSE
