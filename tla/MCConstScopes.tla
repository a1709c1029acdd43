--------------------------- MODULE MCConstScopes ---------------------------
(* Two names, so that one can hide a closure's parameter or local from the *)
(* other, and local statements of one or two names in every attribute mix  *)
(* that can shadow.                                                        *)
EXTENDS ConstScopes

Decl(x, a) == [name |-> x, attr |-> a]

MCLists ==
    {<<Decl(x, a)>> : x \in Idents, a \in {"const", "none"}}
    \cup {<<Decl(x, "const"), Decl(y, "close")>> : x, y \in Idents}
    \cup {<<Decl(x, "none"), Decl(x, "const")>> : x \in Idents}
=============================================================================
