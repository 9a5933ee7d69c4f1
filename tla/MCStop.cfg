CONSTANTS
    Launchers = {l1}
    LastStep = 3
    EpochSteps = {3}
    StepCap = 2
    Kills = {"launcher", "runner"}
    Signals = {"INT", "TERM", "logger"}
SPECIFICATION LeftBehindSpec
PROPERTIES StopHonoured
CHECK_DEADLOCK FALSE
