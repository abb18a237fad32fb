SPECIFICATION Spec
CONSTANTS
    LoCall = {1, 2}
    LoLayer = {1, 2}
    LoFile = {"f"}
    LoJobs <- Jobs
    LoAccum = 2
    LoBatch = 2
    LoMaxLen = 3
    LoMaxTokens = 2
    PoCall = {1, 2}
    PoTrain <- Two
    PoVal <- Two
    PoDemos = 1
    PoTrials = 2
    PoInstructions <- Instructions
    PoBudgets = {5}
    PoRightSets = {{}, {1, 2}}
    FtJob = {1, 2}
    FtSteps = {2}
    FtImages = {2}
    FtModules <- Modules
    FtSides = {3, 4, 7, 9}
    FtTarget = 4
    FtMaxPolls = 2
    QzModels <- Models
    QzEmbeddings = {"embed"}
    QzNorms = {"norm"}
    QzGroupSizes = {2, 3, 4}
    QzMetaLengths = {47, 48}
    EhTasks <- Tasks
    EhShards <- Shards
    EhNgram = 3
    EhThreshold <- Threshold
    EhShots = {1, 5}
    EhCosts = {0, 2}
    EhLengths = {1, 3}
    EhMaxShards = 2
    EhMaxRuns = 1
INVARIANTS TrainersFaithful ModelsFaithful
PROPERTIES TrainingEnds
CHECK_DEADLOCK FALSE
