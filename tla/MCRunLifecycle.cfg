CONSTANTS
    Launchers = {l1, l2}
    LastStep = 2
    EpochSteps = {1, 2}
    StepCap = 2
    Kills = {"launcher", "host"}
    Signals = {"TERM"}
SPECIFICATION Spec
SYMMETRY LauncherSymmetry
INVARIANTS TypeOK OneTrainer FreshStartsClean ReportedWorkIsSaved SuspendNeverComplete
PROPERTIES StopMarkerKept
CHECK_DEADLOCK FALSE
