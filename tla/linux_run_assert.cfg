SPECIFICATION Spec
CONSTANTS
    NumCpus = 3
    Codes = {0}
    None = None
    Faults = {}
INVARIANT OneCodeCollected
CHECK_DEADLOCK FALSE
