------------------------------ MODULE CloseExec ------------------------------
(***************************************************************************)
(* How a program with `<close>` variables runs after the close transform   *)
(* of valua-transformer: what transform_close_block and process_close_at   *)
(* emit, executed.                                                         *)
(*                                                                         *)
(* A declaration at index i turns the rest of its block into a closure     *)
(* under pcall, followed by the call of __valua_close, the re-raise and,   *)
(* if the block ends with a return statement, a return of the result.      *)
(* Further declarations of the same block nest such closures, so a block   *)
(* is one frame here, with one suspended pcall per variable in `tbc`.      *)
(*                                                                         *)
(* A behaviour is one run of a program that is chosen as it goes: which    *)
(* blocks it enters, what it declares, how it leaves.  What the transform  *)
(* decided from the text (`ends`: whether the block's last statement is a  *)
(* return; `seen`: whether recurse_close_stmt gets to it) is chosen when   *)
(* the block is entered.  Things the emitted code does differently are     *)
(* named, and a program may only use the ones in Constructs.               *)
(***************************************************************************)
EXTENDS Naturals, Sequences

CONSTANTS
    Values,       \* values of the program
    Returns,      \* the lists of values that programs return
    Nil,          \* Lua's nil, what a missing value becomes
    Constructs,   \* the diverging constructs the program may use
    MaxFrames,    \* bound on the nesting of blocks and calls
    MaxOpened     \* bound on the number of `<close>` declarations

(* The last three are texts that Lua refuses to load.                      *)
Diverging == {"nested_return", "value_count", "unvisited", "not_closable",
              "break_out", "vararg_tail", "goto_across"}

ASSUME ValuesAssumption     == Nil \in Values /\ Returns \subseteq Seq(Values)
ASSUME ConstructsAssumption == Constructs \subseteq Diverging
ASSUME BoundsAssumption     == {MaxFrames, MaxOpened} \subseteq Nat

VARIABLES
    frames,    \* the blocks and calls being executed, innermost last
    closed,    \* calls of closing functions, in order
    opened,    \* number of variables declared `<close>` so far
    result,    \* what the last finished call delivered to its caller
    loads      \* FALSE once the emitted text is one Lua refuses to load

vars == <<frames, closed, opened, result, loads>>

-----------------------------------------------------------------------------
Called    == {"function", "protected", "closer"}
Kinds     == {"block", "loop"} \cup Called
Closables == {"meta", "nil"}
Others    == {"method", "plain"}

Exit(how, vals) == [how |-> how, vals |-> vals]
Running         == Exit("run", <<>>)

Exits  == [how : {"run", "end", "break", "return", "error"}, vals : Seq(Values)]
Things == [id : Nat, kind : Closables \cup Others]

Frames == [kind   : Kinds,
           ends   : BOOLEAN,      \* its last statement is a return
           seen   : BOOLEAN,      \* the transform has visited it
           tbc    : Seq(Things),  \* one pcall per variable, newest last
           at     : {"stmts", "cleanup", "reraise"},
           ok     : BOOLEAN,      \* __valua_ok
           result : Values,       \* __valua_result
           exit   : Exits]

Frame(kind, ends, seen) ==
    [kind |-> kind, ends |-> ends, seen |-> seen, tbc |-> <<>>,
     at |-> "stmts", ok |-> TRUE, result |-> Nil, exit |-> Running]

Top       == frames[Len(frames)]
SetTop(f) == [frames EXCEPT ![Len(frames)] = f]
Outer     == SubSeq(frames, 1, Len(frames) - 1)
Last(s)   == s[Len(s)]
Front(s)  == SubSeq(s, 1, Len(s) - 1)

IsRunning == frames # <<>> /\ Top.at = "stmts" /\ Top.exit = Running
IsLeaving == frames # <<>> /\ Top.exit # Running

TypeOK ==
    /\ frames \in Seq(Frames)
    /\ closed \in Seq([id : Nat, kind : Closables \cup Others,
                       told : {"nothing"} \cup Values])
    /\ opened \in Nat
    /\ result \in Exits
    /\ loads  \in BOOLEAN

Init ==
    /\ \E ends \in BOOLEAN : frames = <<Frame("protected", ends, TRUE)>>
    /\ closed = <<>>
    /\ opened = 0
    /\ result = Running
    /\ loads  = TRUE

-----------------------------------------------------------------------------
(* recurse_close_stmt and recurse_close_expr visit every block, and every  *)
(* function but those in a condition, a `for` header or an assignment      *)
(* target; what is inside an unvisited one stays unvisited.                *)
Visited(kind) ==
    IF kind \notin Called THEN {Top.seen}
    ELSE {TRUE} \cup IF "unvisited" \in Constructs THEN {FALSE} ELSE {}

(* The program enters a block or loop body, or calls a function.           *)
Enter(kind, ends) ==
    /\ IsRunning /\ Len(frames) < MaxFrames
    /\ \E seen \in Visited(kind) :
         frames' = Append(frames, Frame(kind, ends, seen))
    /\ UNCHANGED <<closed, opened, result, loads>>

(* local x <close> = v, where v has a __close metamethod, or is nil, or    *)
(* has neither (a table with a close method, a plain value).  The rest of  *)
(* the block goes under pcall; in a function that was not visited the      *)
(* emitter drops the attribute.                                            *)
Declare(kind) ==
    /\ IsRunning /\ opened < MaxOpened
    /\ kind \in Others => "not_closable" \in Constructs
    /\ opened' = opened + 1
    /\ frames' = IF Top.seen
                 THEN SetTop([Top EXCEPT
                        !.tbc = Append(@, [id |-> opened + 1, kind |-> kind])])
                 ELSE frames
    /\ UNCHANGED <<closed, result, loads>>

LeaveWith(exit) ==
    /\ IsRunning
    /\ frames' = SetTop([Top EXCEPT !.exit = exit])
    /\ UNCHANGED <<closed, opened, result, loads>>

(* Control reaches the end of the block, or of the closure it is in.       *)
End == IsRunning /\ ~Top.ends /\ LeaveWith(Exit("end", <<>>))

Raise(e) == LeaveWith(Exit("error", <<e>>))

(* The frames of stack s that a jump out of the k-th passes, up to the     *)
(* innermost one whose kind is in stops, that one included.                *)
Passed(s, k, stops) == {j \in 1..k : \A i \in (j + 1)..k : s[i].kind \notin stops}

(* A return is its block's last statement.  Inside a closure it returns    *)
(* from the closure: the blocks around it go on returning only if they end *)
(* with a return themselves, and with the first value.                     *)
Return(vals) ==
    /\ IsRunning /\ Top.ends
    /\ \A j \in Passed(frames, Len(frames), Called) : frames[j].tbc # <<>> =>
         /\ frames[j].ends   \/ "nested_return" \in Constructs
         /\ Len(vals) = 1    \/ "value_count" \in Constructs
    /\ LeaveWith(Exit("return", vals))

InLoop == \E j \in Passed(frames, Len(frames), Called) : frames[j].kind = "loop"

(* A break that stays inside the closure it is in ...                      *)
Break ==
    /\ IsRunning /\ InLoop
    /\ \A j \in Passed(frames, Len(frames), Called \cup {"loop"}) : frames[j].tbc = <<>>
    /\ LeaveWith(Exit("break", <<>>))

(* The text has something that Lua refuses where the transform has put it. *)
Unloadable(construct) ==
    /\ construct \in Constructs
    /\ IsRunning
    /\ loads' = FALSE
    /\ UNCHANGED <<frames, closed, opened, result>>

InClosure(stops) == \E j \in Passed(frames, Len(frames), stops) : frames[j].tbc # <<>>

(* ... and one that would leave it: in the closure it is in no loop.       *)
BreakOut == InLoop /\ InClosure(Called \cup {"loop"}) /\ Unloadable("break_out")

(* `...` of the function around the block: the closure is emitted with     *)
(* is_vararg false.                                                        *)
VarargTail == InClosure(Called) /\ Unloadable("vararg_tail")

(* A goto whose label is on the other side of a closure: backwards out of  *)
(* it, or past the declaration to a label at the end of the block.         *)
GotoAcross == Unloadable("goto_across") /\ Top.seen

-----------------------------------------------------------------------------
(* Wrong: all the results at once.                                         *)
AllOf(vals) == vals

(* What pcall's second result is when the closure returned vals.           *)
First(vals) == IF vals = <<>> THEN Nil ELSE vals[1]

(* local __valua_ok, __valua_result = pcall(function() ... end)            *)
PcallReturns ==
    /\ IsLeaving /\ Top.tbc # <<>>
    /\ frames' = SetTop([Top EXCEPT !.at     = "cleanup",
                                    !.ok     = (Top.exit.how # "error"),
                                    !.result = First(Top.exit.vals),
                                    !.exit   = Running])
    /\ UNCHANGED <<closed, opened, result, loads>>

(* The helper: nil is skipped, then comes __close, then a `close` method.  *)
Closes(kind) == kind \in {"meta", "method"}

(* What the closing function is told: the helper calls it with the object. *)
Told(frame) == "nothing"

(* __valua_close(x), after which the block has `left` to close.            *)
CleanupOf(x, left, ends) ==
    /\ LET rest == SetTop([Top EXCEPT !.at = "reraise", !.tbc = left])
       IN  IF Closes(x.kind)
           THEN /\ \E seen \in Visited("closer") :
                     frames' = Append(rest, Frame("closer", ends, seen))
                /\ closed' = Append(closed, [id   |-> x.id, kind |-> x.kind,
                                             told |-> Told(Top)])
           ELSE frames' = rest /\ UNCHANGED closed
    /\ UNCHANGED <<opened, result, loads>>

AtCleanup == frames # <<>> /\ Top.at = "cleanup"

(* Wrong: the closures nested the other way round, and a cleanup that does *)
(* not count.                                                              *)
CleanupOldest(ends) == AtCleanup /\ CleanupOf(Head(Top.tbc), Tail(Top.tbc), ends)
CleanupAgain(ends)  == AtCleanup /\ CleanupOf(Last(Top.tbc), Top.tbc, ends)

(* The closures nest in order of declaration, so the newest comes first.   *)
Cleanup(ends) == AtCleanup /\ CleanupOf(Last(Top.tbc), Front(Top.tbc), ends)

(* Wrong: nothing is re-raised.                                            *)
Swallowed(frame) ==
    IF frame.ends THEN Exit("return", <<frame.result>>) ELSE Exit("end", <<>>)

(* How the block goes on after the cleanup.                                *)
Resumed(frame) ==
    IF ~frame.ok THEN Exit("error", <<frame.result>>)
    ELSE IF frame.ends THEN Exit("return", <<frame.result>>)
    ELSE Exit("end", <<>>)

(* if not __valua_ok then error(__valua_result, 0) end, and then           *)
(* `return __valua_result` if tail_has_return.                             *)
Reraise ==
    /\ frames # <<>> /\ Top.at = "reraise"
    /\ frames' = SetTop([Top EXCEPT !.at = "stmts", !.exit = Resumed(Top)])
    /\ UNCHANGED <<closed, opened, result, loads>>

StopsAt(exit, kind) ==
    \/ exit.how = "end"
    \/ exit.how = "break"  /\ kind = "loop"
    \/ exit.how = "return" /\ kind \in Called
    \/ exit.how = "error"  /\ kind = "protected"

(* A frame with no pcall left is left; an error of a closing function hits *)
(* its caller between the cleanup and the re-raise.                        *)
Done ==
    /\ IsLeaving /\ Top.tbc = <<>>
    /\ frames' = IF Outer = <<>> \/ StopsAt(Top.exit, Top.kind)
                 THEN Outer
                 ELSE [Outer EXCEPT ![Len(Outer)] =
                         [@ EXCEPT !.exit = Top.exit, !.at = "stmts"]]
    /\ result' = IF Top.kind \in Called THEN Top.exit ELSE result
    /\ UNCHANGED <<closed, opened, loads>>

Next ==
    \/ \E kind \in Kinds \ {"closer"}, ends \in BOOLEAN : Enter(kind, ends)
    \/ \E kind \in Closables \cup Others : Declare(kind)
    \/ End \/ Break
    \/ BreakOut \/ VarargTail \/ GotoAcross
    \/ \E e \in Values : Raise(e)
    \/ \E vals \in Returns : Return(vals)
    \/ PcallReturns
    \/ \E ends \in BOOLEAN : Cleanup(ends)
    \/ Reraise \/ Done

Spec == Init /\ [][Next]_vars
-----------------------------------------------------------------------------
(* Lua's view of a frame: what the program has started to leave it with    *)
(* stays in force while the closures it is nested in are unwound.          *)
LuaExit(frame) ==
    IF frame.exit = Running /\ frame.at # "stmts" THEN Resumed(frame) ELSE frame.exit

LuaBlock(frame) ==
    [kind |-> frame.kind, tbc |-> frame.tbc, exit |-> LuaExit(frame)]

Lua == INSTANCE ToBeClosed WITH
    blocks <- [k \in 1..Len(frames) |-> LuaBlock(frames[k])],
    closed <- [k \in 1..Len(closed) |-> closed[k].id]

(* The emitted text is one that Lua loads (README.md: "compatible Lua 5.1  *)
(* streams").                                                              *)
Loads == loads

(* The emitted code keeps Lua's promise for to-be-closed variables: Lua    *)
(* loads it, and it runs as the program would.                             *)
KeepsPromise == Lua!Spec /\ []Loads

Pending == UNION {{frames[k].tbc[i] : i \in 1..Len(frames[k].tbc)} : k \in 1..Len(frames)}

(* A variable is closed at most once, whatever its block is left with, and *)
(* also when closing another one fails.                                    *)
ClosedOnce ==
    /\ \A i, j \in 1..Len(closed) : closed[i].id = closed[j].id => i = j
    /\ \A x \in Pending, i \in 1..Len(closed) : closed[i].id # x.id

(* A variable stops waiting to be closed only by being closed (if it has a *)
(* metamethod to call), and only when no newer one is still waiting, across*)
(* blocks, calls and closing functions that have variables of their own    *)
(* (lib.rs, CloseAttributeTransform: "This ordering invariant must hold or *)
(* resource cleanup will execute in the wrong sequence").                  *)
NewestFirst ==
    [][\A x \in Pending : x \notin Pending' =>
          /\ \A y \in Pending : y.id <= x.id
          /\ x.kind = "meta" => Len(closed') = Len(closed) + 1 /\ Last(closed').id = x.id]_vars

(* A closing function called because of an error is told the error (lib.rs,*)
(* CloseAttributeTransform: "pass error as second arg").                   *)
ErrorPassed ==
    [][closed' # closed /\ ~Top.ok => Last(closed').told = Top.result]_vars

-----------------------------------------------------------------------------
(***************************************************************************)
(* The invariant behind KeepsPromise, for programs without the diverging   *)
(* constructs.  A frame that Lua sees being left with a return, or a       *)
(* break, has around it only frames in which the emitted code will do the  *)
(* same: closures whose block ends with a return, of one value, or no      *)
(* closures at all.                                                        *)
(***************************************************************************)
FrameOK(f) ==
    /\ f.at = "cleanup" => f.tbc # <<>>
    /\ f.at # "stmts" => f.exit = Running
    /\ f.exit.how \in {"run", "end", "break"} => f.exit.vals = <<>>
    /\ f.exit.how = "end" => ~f.ends
    /\ f.exit.how = "error" => Len(f.exit.vals) = 1
    /\ f.seen
    /\ \A i \in 1..Len(f.tbc) : f.tbc[i].kind \in Closables

ReturnKept(s, k) ==
    LuaExit(s[k]).how = "return" =>
        \A j \in Passed(s, k, Called) :
            s[j].tbc # <<>> => s[j].ends /\ Len(LuaExit(s[k]).vals) = 1

BreakKept(s, k) ==
    s[k].exit.how = "break" =>
        /\ \E j \in Passed(s, k, Called) : s[j].kind = "loop"
        /\ \A j \in Passed(s, k, Called \cup {"loop"}) : s[j].tbc = <<>>

Kept(s) == \A k \in 1..Len(s) : FrameOK(s[k]) /\ ReturnKept(s, k) /\ BreakKept(s, k)

IInv == TypeOK /\ Kept(frames)

-----------------------------------------------------------------------------
(***************************************************************************)
(* The invariant behind ClosedOnce and NewestFirst, for any program.  Ids  *)
(* are given in order, so what waits to be closed is sorted: along a block *)
(* in order of declaration, and outer blocks before inner ones, however    *)
(* the closures and closing functions have been nested.                    *)
(***************************************************************************)
Ordered(s) ==
    \A k, l \in 1..Len(s) : \A i \in 1..Len(s[k].tbc), j \in 1..Len(s[l].tbc) :
        (k < l \/ (k = l /\ i < j)) => s[k].tbc[i].id < s[l].tbc[j].id

UpTo(s, n) == \A k \in 1..Len(s) : \A i \in 1..Len(s[k].tbc) : s[k].tbc[i].id <= n

CleanupReady(s) == \A k \in 1..Len(s) : s[k].at = "cleanup" => s[k].tbc # <<>>

OInv ==
    /\ TypeOK
    /\ CleanupReady(frames)
    /\ Ordered(frames)
    /\ UpTo(frames, opened)
    /\ \A i \in 1..Len(closed) : closed[i].id <= opened
    /\ ClosedOnce
=============================================================================
