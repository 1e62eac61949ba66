SPECIFICATION TxFairSpec
CONSTANTS
    Cores = {c1, c2, c3}
    Size = 3
    MaxPackets = 6
INVARIANT NothingStranded
PROPERTIES TxIsFifo EventuallySent NetWriteReturns
CHECK_DEADLOCK FALSE
