CONSTANTS
    Launchers = {l1, l2}
    LastStep = 1
    EpochSteps = {1}
    StepCap = 1
    Kills = {}
    Signals = {"INT"}
SPECIFICATION Spec
INVARIANT ResumeCommandWorks
CHECK_DEADLOCK FALSE
