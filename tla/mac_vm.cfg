SPECIFICATION FairVmSpec
CONSTANTS
    NumCpus = 2
    Codes = {0, 1}
    None = None
    Faults = {"init", "run", "panic"}
    IOAPIC_REG_TABLE = 2
    REDIR_ENTRIES = 3
    Selected = {2, 4, 8}
    MaxExits = 4
INVARIANT StartupExclusive
PROPERTIES KeepsLifecycle ExitEndsTheVm IsRegisterFile EmulatedOnce
CHECK_DEADLOCK FALSE
