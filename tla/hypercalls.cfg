SPECIFICATION FairSpec
CONSTANTS
    Cpus = {c1, c2}
    Files = {tty, log}
    Fds = {0, 1}
    Stdin = tty
    None = None
    PageSize = 2
    Pages = 2
    Starts = {1}
    MaxLen = 2
    MaxCalls = 3
INVARIANTS WriteComplete ConsoleInOrder
PROPERTIES ReadFills WriteReturns
CHECK_DEADLOCK FALSE
