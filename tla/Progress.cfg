CONSTANTS
    None = None
    Empty = Empty
    h1 = h1
    d1 = d1
    o1 = o1
    g1 = g1
SPECIFICATION Spec
PROPERTIES BridgeProgress NodeProgress
CHECK_DEADLOCK FALSE
