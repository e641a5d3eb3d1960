SPECIFICATION Spec
CONSTANTS
    Order = 4
    GateBits = 1
    WireBits = 2
    Coefficient = {1}
    Challenge = {2, 3}
    Quads <- SmallLayers
PROPERTY RefinesDense
CHECK_DEADLOCK FALSE
