---------------------------- MODULE MCCloseExec ----------------------------
(* Nil and one other value: enough to tell an error from the one that      *)
(* replaces it, and a list of values from its first.                       *)
EXTENDS CloseExec

CONSTANTS v

MCReturns == {<<>>, <<v>>, <<Nil, v>>}
=============================================================================
