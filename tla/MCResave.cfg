SPECIFICATION Spec
CONSTANTS
    Ranks = {r1, r2}
    Total = 2
    SaveFreq = 1
    Keep = 2
    StepsPerEpoch = 2
    TotalEpochs = 2
    MaxSessions = 3
CHECK_DEADLOCK FALSE
INVARIANT CheckpointRemains
