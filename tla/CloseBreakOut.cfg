CONSTANTS
    Nil = Nil
    v = v
    Values = {Nil, v}
    Returns <- MCReturns
    Constructs = {"break_out"}
    MaxFrames = 3
    MaxOpened = 1
SPECIFICATION Spec
INVARIANTS
    Loads
CHECK_DEADLOCK FALSE
