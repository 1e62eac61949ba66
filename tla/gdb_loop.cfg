SPECIFICATION LoopFairSpec
CONSTANT MaxExits = 3
INVARIANT StoppedMeansStopped
PROPERTY InterruptServed
CHECK_DEADLOCK FALSE
