SPECIFICATION Spec
CONSTANTS
    Ranks = {r1, r2}
    Total = 4
    SaveFreq = 3
    Keep = 2
    StepsPerEpoch = 2
    TotalEpochs = 3
    MaxSessions = 3
SYMMETRY RankSymmetry
CHECK_DEADLOCK FALSE
INVARIANTS
    TypeOK
    ResumePointIntact
    ResumePointUniform
    BatchOrder
    SuspendedIsSaved
    CompleteIsSaved
    PromptSuspend
    RetentionInSession
