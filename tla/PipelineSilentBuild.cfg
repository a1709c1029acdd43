CONSTANTS
    None = None
    Programs <- MCPrograms
SPECIFICATION Spec
INVARIANT RejectionsShown
CHECK_DEADLOCK FALSE
