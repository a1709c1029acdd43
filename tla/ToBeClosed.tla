----------------------------- MODULE ToBeClosed -----------------------------
(***************************************************************************)
(* What Lua promises for `local x <close>` (Lua 5.4 manual, 3.3.8), the    *)
(* promise the close transform of valua-transformer has to keep.           *)
(*                                                                         *)
(* A stack of blocks, each with the variables it has to close.  However a  *)
(* block is left -- at its end, by break, return or error -- its variables *)
(* are closed first, the newest first, each once; the closing function is  *)
(* a program of its own, and an error in it replaces whatever the block    *)
(* was being left with.  Nothing else changes how control goes on: a       *)
(* return delivers all of its values to the caller of its function, an     *)
(* error goes to the innermost protected call.                             *)
(*                                                                         *)
(* The detailed specification is CloseExec.tla, which refines this one.    *)
(***************************************************************************)
EXTENDS Naturals, Sequences

CONSTANTS
    Values,    \* values that programs raise
    Returns    \* the lists of values that programs return

VARIABLES
    blocks,    \* the blocks being executed, innermost last
    closed,    \* variables whose closing function has been called, in order
    opened,    \* number of variables declared `<close>` so far
    result     \* what the last finished call delivered to its caller

vars == <<blocks, closed, opened, result>>

(* Blocks that have a caller.  The program itself is a protected call.     *)
Called == {"function", "protected", "closer"}

Exit(how, vals) == [how |-> how, vals |-> vals]
Running         == Exit("run", <<>>)

Block(kind) == [kind |-> kind, tbc |-> <<>>, exit |-> Running]

Top       == blocks[Len(blocks)]
SetTop(b) == [blocks EXCEPT ![Len(blocks)] = b]
IsRunning == blocks # <<>> /\ Top.exit = Running
IsLeaving == blocks # <<>> /\ Top.exit # Running

Init ==
    /\ blocks = <<Block("protected")>>
    /\ closed = <<>>
    /\ opened = 0
    /\ result = Running

Enter(kind) ==
    /\ IsRunning
    /\ blocks' = Append(blocks, Block(kind))
    /\ UNCHANGED <<closed, opened, result>>

(* A variable may hold nil instead of something to close.                  *)
Declare(kind) ==
    /\ IsRunning
    /\ opened' = opened + 1
    /\ blocks' = SetTop([Top EXCEPT
                    !.tbc = Append(@, [id |-> opened + 1, kind |-> kind])])
    /\ UNCHANGED <<closed, result>>

(* The innermost block starts being left.                                  *)
Leave(exit) ==
    /\ IsRunning
    /\ blocks' = SetTop([Top EXCEPT !.exit = exit])
    /\ UNCHANGED <<closed, opened, result>>

(* Its newest variable is closed, by a call.                               *)
Close ==
    /\ IsLeaving /\ Top.tbc # <<>>
    /\ LET x    == Top.tbc[Len(Top.tbc)]
           rest == SetTop([Top EXCEPT !.tbc = SubSeq(@, 1, Len(@) - 1)])
       IN  IF x.kind = "nil"
           THEN blocks' = rest /\ UNCHANGED closed
           ELSE /\ blocks' = Append(rest, Block("closer"))
                /\ closed' = Append(closed, x.id)
    /\ UNCHANGED <<opened, result>>

(* What stops where: an error at a protected call, a return at its         *)
(* function, a break at its loop, the end of a block at once.              *)
StopsAt(exit, kind) ==
    \/ exit.how = "end"
    \/ exit.how = "break"  /\ kind = "loop"
    \/ exit.how = "return" /\ kind \in Called
    \/ exit.how = "error"  /\ kind = "protected"

(* The block is left: what it is left with stops here, or leaves the       *)
(* enclosing block too.                                                    *)
Done ==
    /\ IsLeaving /\ Top.tbc = <<>>
    /\ LET outer == SubSeq(blocks, 1, Len(blocks) - 1)
       IN  blocks' = IF outer = <<>> \/ StopsAt(Top.exit, Top.kind)
                     THEN outer
                     ELSE [outer EXCEPT ![Len(outer)] = [@ EXCEPT !.exit = Top.exit]]
    /\ result' = IF Top.kind \in Called THEN Top.exit ELSE result
    /\ UNCHANGED <<closed, opened>>

Next ==
    \/ \E kind \in {"block", "loop", "function", "protected"} : Enter(kind)
    \/ \E kind \in {"meta", "nil"} : Declare(kind)
    \/ Leave(Exit("end", <<>>)) \/ Leave(Exit("break", <<>>))
    \/ \E vals \in Returns : Leave(Exit("return", vals))
    \/ \E e \in Values : Leave(Exit("error", <<e>>))
    \/ Close \/ Done

Spec == Init /\ [][Next]_vars
=============================================================================
