CONSTANTS
    b1 = b1
    b2 = b2
    b3 = b3
    p1 = p1
    p2 = p2
    s1 = s1
    Builds = {b1, b2, b3}
    Paths = {p1, p2}
    Stems = {s1}
    Pids = {id1, id2}
    None = None
    Target <- MCTarget
    Stem <- MCStem
    Blocks <- MCBlocks
SPECIFICATION FairSpec
INVARIANTS
    TypeOK
    WholeOutputs
    TmpAccounted
PROPERTIES
    PublishedFrozen
    ImplementsPromise
    EveryBuildEnds
CHECK_DEADLOCK FALSE
