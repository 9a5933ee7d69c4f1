SPECIFICATION Spec
CONSTANTS
    Ranks = {r1, r2}
    Total = 2
    SaveFreq = 1
    Keep = 1
    StepsPerEpoch = 2
    TotalEpochs = 2
    MaxSessions = 1
CHECK_DEADLOCK FALSE
INVARIANT IndexedKept
