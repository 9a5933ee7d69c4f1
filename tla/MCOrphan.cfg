CONSTANTS
    Launchers = {l1, l2}
    LastStep = 2
    EpochSteps = {2}
    StepCap = 2
    Kills = {"runner"}
    Signals = {}
SPECIFICATION Spec
INVARIANT OneTrainer
CHECK_DEADLOCK FALSE
