SPECIFICATION FairSpec
CONSTANTS
    Reqs = {r1, r2}
    PromptLen = 2
    Steps = 2
    MaxNew = 5
    ForceInterval = 3
    MaxRetract = 2
    Chunking = FALSE
    None = None
INVARIANTS
    TypeOK
    CaptureNeverRaises
    RecordedIsCommitted
    PackComplete
    TargetsMatchEmitted
    StreamIsPrefix
PROPERTY
    EveryRequestAnswered
