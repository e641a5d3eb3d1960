SPECIFICATION Spec
CONSTANTS
    Order = 5
    GateBits = 1
    WireBits = 2
    Coefficient = {1}
    Challenge = {2}
    Quads <- SmallLayers
INVARIANT SortedAsDocumented
CHECK_DEADLOCK FALSE
