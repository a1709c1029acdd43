CONSTANTS
    Nil = Nil
    v = v
    Values = {Nil, v}
    Returns <- MCReturns
    Constructs = {"nested_return"}
    MaxFrames = 3
    MaxOpened = 1
SPECIFICATION Spec
PROPERTIES
    KeepsPromise
CHECK_DEADLOCK FALSE
