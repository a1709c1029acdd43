---------------------------- MODULE MCPipeline ----------------------------
(* Every file with at most two nodes of interest, each with at most two    *)
(* kinds of positions above it.                                            *)
EXTENDS Pipeline, Naturals, FiniteSets

MCNodes == {n \in SourceNode : Cardinality(n.at) <= 2 /\ WellPlaced(n)}

MCPrograms ==
    {p \in {{}} \cup {{m, n} : m, n \in MCNodes} :
        \A n \in p : n.what = "second_close" => [n EXCEPT !.what = "close"] \in p}
=============================================================================
