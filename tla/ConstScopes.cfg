CONSTANTS
    Idents = {"x", "y"}
    NameLists <- MCLists
    MaxDepth = 3
    MaxDecls = 3
SPECIFICATION Spec
INVARIANTS
    TypeOK
    SameAnswer
    NoFalseAlarm
    NothingMissed
    Balanced
CHECK_DEADLOCK FALSE
