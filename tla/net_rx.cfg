SPECIFICATION RxFairSpec
CONSTANTS
    Size = 3
    MaxPackets = 8
INVARIANTS NoSlotRace NoLostWakeup
PROPERTIES RxIsFifo EventuallyReceived
CHECK_DEADLOCK FALSE
