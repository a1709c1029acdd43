CONSTANTS
    None = None
    Programs <- MCPrograms
SPECIFICATION Spec
INVARIANT StrictlyBlocked
CHECK_DEADLOCK FALSE
