CONSTANTS
    Nil = Nil
    v = v
    Values = {Nil, v}
    Returns <- MCReturns
    Constructs = {}
    MaxFrames = 3
    MaxOpened = 2
SPECIFICATION Spec
INVARIANTS
    TypeOK
    ClosedOnce
PROPERTIES
    NewestFirst
    KeepsPromise
CHECK_DEADLOCK FALSE
