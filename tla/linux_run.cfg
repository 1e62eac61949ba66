SPECIFICATION FairSpec
CONSTANTS
    NumCpus = 3
    Codes = {0, 1}
    None = None
    Faults = {"init", "run", "panic"}
INVARIANTS StartupExclusive ReturnsTheOnlyCode
PROPERTIES KeepsLifecycle ExitEndsTheVm
CHECK_DEADLOCK FALSE
