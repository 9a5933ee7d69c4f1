SPECIFICATION Spec
CONSTANTS
    NumRanks = 2
    NumRows = 2
    NumMini = 2
    Kinds <- MCKinds
    Modes <- MCModes
    MaxCycles = 1
    Priorities <- MCPriorities
    FracNum = 1
    FracDen = 2
INVARIANTS
    TypeOK
    CollectivesAgree
    HeadTrainedOnce
    PolicyGradientOnce
    HeadRate
    RefreshedAreTop
PROPERTY
    NobodyLeftWaiting
CHECK_DEADLOCK
    FALSE
