SPECIFICATION Spec
CONSTANTS
    Ranks = {r1, r2}
    Total = 5
    SaveFreq = 2
    Keep = 2
    StepsPerEpoch = 2
    TotalEpochs = 2
    MaxSessions = 3
CHECK_DEADLOCK FALSE
PROPERTY ImplementsResumable
