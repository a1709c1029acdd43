CONSTANTS
    Idents = {"x", "y"}
    NameLists <- MCLists
    MaxDepth = 3
    MaxDecls = 3
SPECIFICATION Spec
INVARIANTS
    MirrorsLua
CHECK_DEADLOCK FALSE
