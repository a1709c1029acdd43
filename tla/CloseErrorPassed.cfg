CONSTANTS
    Nil = Nil
    v = v
    Values = {Nil, v}
    Returns <- MCReturns
    Constructs = {}
    MaxFrames = 3
    MaxOpened = 1
SPECIFICATION Spec
PROPERTIES
    ErrorPassed
CHECK_DEADLOCK FALSE
