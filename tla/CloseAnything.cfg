CONSTANTS
    Nil = Nil
    v = v
    Values = {Nil, v}
    Returns <- MCReturns
    Constructs = {"nested_return", "value_count", "unvisited", "not_closable",
                  "break_out", "vararg_tail", "goto_across"}
    MaxFrames = 2
    MaxOpened = 2
SPECIFICATION Spec
INVARIANTS
    ClosedOnce
PROPERTIES
    NewestFirst
CHECK_DEADLOCK FALSE
