SPECIFICATION FairSpec
CONSTANTS
    NumCpus = 2
    Codes = {0}
    None = None
    Faults = {}
PROPERTY KickStopsVcpu
CHECK_DEADLOCK FALSE
