SPECIFICATION FairSpec
CONSTANTS
    Reqs = {r1, r2}
    PromptLen = 2
    Steps = 1
    MaxNew = 4
    ForceInterval = 3
    MaxRetract = 2
    Chunking = FALSE
    None = None
PROPERTY
    AbortAnswered
