SPECIFICATION Spec
CONSTANTS
    McpId = {1, 2}
    McpNoId = 0
    McpMaxLines = 2
    SseClient = {1, 2}
    SseLimits = {0, 3}
    ProgCall = {k1, k2}
    SseMaxBroadcasts = 2
    AgMaxSteps = 2
    AgMaxTokens = 3
    AgRecent = 3
    AgMaxRuns = 2
    AgMaxParallel = 3
    InfRequest = {1, 2, 3}
    InfPriorities = {0, 1}
    InfLimits = {4}
    InfPageSize = 2
    InfPages = 3
    InfMaxBatch = 2
    GenToken = {1, 2}
    GenEos = 2
    GenLimits = {0, 1, 2}
    LmToken = {0, 1, 2}
    LmEos = 0
    LmPeriod = 2
    SdSlot = {1, 2}
    SdSum = 2
    SdWidths = {2}
    SdLimits = {0, 2}
    SdBranches = 2
    VaMaxChunks = 9
    VaSilence = 2
    VaMaxTurns = 2
    VaMaxSeq = 4
    VaTextLengths = {1, 2}
    VaSentences = {1, 2}
INVARIANTS AgentsFaithful EngineFaithful SdFaithful
PROPERTIES SdImplementsTarget InfNoOvertaking ServicesAnswer
CHECK_DEADLOCK FALSE
