SPECIFICATION StartSpec
CONSTANTS
    BOOT_GDT = 1
    BOOT_INFO_ADDR = 2
    BOOT_PML4 = 3
    BOOT_PDPTE = 4
    BOOT_PDE = 5
    SHAREDQUEUE_START = 6
    DynStart = 9
    StaticStart = 11
    KERNEL_STACK_SIZE = 1
    KVM_32BIT_GAP_START = 14
    KVM_32BIT_GAP_SIZE = 2
    Entries = 4
    MemSizes = {3, 5, 6, 7, 10, 12, 13, 15, 18}
    Span = 3
    MINIMAL_GUEST_SIZE = 13
    DEFAULT_GUEST_SIZE = 15
    MAX_ARGC = 3
    MAX_ENVC = 2
    HostCpus = {0, 1, 3}
    Words = {"--", "x", "", "garbled"}
    MaxArgs = 4
    MaxEnv = 3
    MaxCpus = 3
    None = None
INVARIANTS MemoryRespected ImageIntact HandoverIntact BootTranslation PinnedToRequested CmdvalFits
CHECK_DEADLOCK FALSE
