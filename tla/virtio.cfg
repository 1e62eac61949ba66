SPECIFICATION FairDeviceSpec
CONSTANTS
    Cpus = {c1, c2}
    Features = {mac, csum}
    HOST_FEATURES = {mac}
    MaxQueues = 2
    Width = 6
    queue_size = 3
    MaxOffers = 7
    None = None
INVARIANTS ConfigurationMatchesStatus ReturnedInOrder NothingLeftBehind
PROPERTIES BrokenUntilReset AllReturned
CHECK_DEADLOCK FALSE
