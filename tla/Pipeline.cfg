CONSTANTS
    None = None
    Programs <- MCPrograms
SPECIFICATION Spec
INVARIANTS
    TypeOK
    OnlyLua51
    FallbackIffNeeded
    GateHolds
    ClosesWrapped
    SameVerdict
CHECK_DEADLOCK FALSE
