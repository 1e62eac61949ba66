SPECIFICATION Spec
CONSTANTS
    Top = 1
    Kinds = {1, 2}
    Bytes = {1, 204}
    NumSlots = 2
    Addrs = {1}
    None = None
INVARIANT MemoryIsOverlay
PROPERTIES IsBag TrapsAreTranslated
CHECK_DEADLOCK FALSE
