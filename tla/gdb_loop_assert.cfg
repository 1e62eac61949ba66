SPECIFICATION LoopSpec
CONSTANT MaxExits = 3
INVARIANT PeekFindsData
CHECK_DEADLOCK FALSE
