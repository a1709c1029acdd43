----------------------------- MODULE ConstScopes -----------------------------
(***************************************************************************)
(* The E0301 lint (valua-lint, passes/const_mutation.rs) beside the rule   *)
(* it stands for: which `<const>` local, if any, an assignment hits.       *)
(*                                                                         *)
(* The walk over the syntax tree is a sequence of events; the actions      *)
(* below generate every well-nested one, so that a behaviour is a program  *)
(* in the order check_block, check_stmt and check_expr_closures visit it.  *)
(* At each event the lint does to `scopes` and `diags` what the code does, *)
(* and Lua's compiler does to `active` and `illegal` what the language     *)
(* says: it keeps the active variables in order of declaration, drops      *)
(* those of a block when the block ends, and resolves a name to the newest *)
(* active variable of that name.                                           *)
(*                                                                         *)
(* Constructs the code treats differently from Lua are named; `used` says  *)
(* which of them the program has used so far.  Lua 5.5 has three kinds of  *)
(* read-only variables: `<const>` and `<close>` locals and the control     *)
(* variable of a `for`, its first name.  E0301 is about the first alone,   *)
(* and no lint looks for an assignment to the other two.                   *)
(***************************************************************************)
EXTENDS Integers, Sequences, FiniteSets

CONSTANTS
    Idents,       \* identifiers of the program
    NameLists,    \* name lists of `local` statements: <<[name, attr], ...>>
    MaxDepth,     \* bound on the nesting of blocks and functions
    MaxDecls      \* bound on the number of declarations

Attributes == {"const", "close", "none"}

Decls == [name : Idents, attr : Attributes]

(* Declarations the lint does not register, assignments it does not look   *)
(* up, and the one construct walked in another scope than Lua's.           *)
Unregistered == {"for_names", "local_function", "method_self"}
Unseen       == {"function_decl", "target_closure"}
Diverging    == Unregistered \cup Unseen \cup {"until_closure"}

ASSUME ListsAssumption ==
    NameLists \subseteq Seq(Decls) \ {<<>>}
ASSUME BoundsAssumption     == MaxDepth \in Nat /\ MaxDecls \in Nat

VARIABLES
    ctx,       \* the constructs being walked, innermost last
    scopes,    \* the lint's stack of ScopeFrame
    diags,     \* declarations named by an E0301 the lint has pushed
    active,    \* Lua: the active local variables
    illegal,   \* Lua: read-only variables that have been assigned to
    decls,     \* declarations so far; a declaration's number is its span
    used       \* the diverging constructs used so far

vars == <<ctx, scopes, diags, active, illegal, decls, used>>

-----------------------------------------------------------------------------
(* A ScopeFrame maps a name to no entry, to None (in scope, not const) or  *)
(* to Some(span of the const declaration).                                 *)
NoEntry  == -1
NotConst == 0
Frames     == [Idents -> Nat \cup {NoEntry}]
EmptyFrame == [x \in Idents |-> NoEntry]

Top(s)  == s[Len(s)]
Pop(s)  == SubSeq(s, 1, Len(s) - 1)
SetTop(s, v) == [s EXCEPT ![Len(s)] = v]

(* register_locals, one name: HashMap::insert into the innermost frame.    *)
Entry(attr, span) == IF attr = "const" THEN span ELSE NotConst

Insert(frames, x, entry) == [frames EXCEPT ![Len(frames)][x] = entry]

(* Wrong: the frames from the outermost inwards, or only the last one.     *)
Outermost(frames, k, x) ==
    /\ frames[k][x] # NoEntry
    /\ \A j \in 1..(k - 1) : frames[j][x] = NoEntry

InLastFrame(frames, k, x) == k = Len(frames) /\ frames[k][x] # NoEntry

(* find_const: the frames from the innermost outwards; the first entry     *)
(* for the name decides, and None there means not const.                   *)
Innermost(frames, k, x) ==
    /\ frames[k][x] # NoEntry
    /\ \A j \in (k + 1)..Len(frames) : frames[j][x] = NoEntry

(* Wrong: a name without an entry is taken for a const one.                *)
FindAny(x) == {Top(scopes)[x]} \ {NotConst}

FindConst(x) ==
    {scopes[k][x] : k \in {k \in 1..Len(scopes) : Innermost(scopes, k, x)}}
        \ {NotConst}

(* Wrong: the parameters are not registered.                               *)
NoParams(params) == EmptyFrame

(* The frame check_function_body starts with: the parameters, not const.   *)
ParamFrame(params) ==
    [x \in Idents |-> IF x \in params THEN NotConst ELSE NoEntry]

-----------------------------------------------------------------------------
(* Lua's side.  A variable is a name, the number of its declaration, the   *)
(* depth of its block and what was declared of it: its attribute, or that  *)
(* it controls a `for`.                                                    *)
Variables == [name : Idents, span : Nat, depth : Nat, attr : Attributes \cup {"control"}]

Variable(x, span, depth, attr) ==
    [name |-> x, span |-> span, depth |-> depth, attr |-> attr]

Plain(names, span, depth) == {Variable(x, span, depth, "none") : x \in names}

Newest(v) == \A w \in active : w.name = v.name => w.span <= v.span

(* The variable an assignment to x is refused for, if any, and the `const` *)
(* declarations among such variables.                                      *)
ReadOnly(x) == {v \in active : v.name = x /\ v.attr # "none" /\ Newest(v)}

ConstSpans(vs) == {v.span : v \in {w \in vs : w.attr = "const"}}

Resolve(x) == ConstSpans(ReadOnly(x))

Leave(depth) == {v \in active : v.depth < depth}

-----------------------------------------------------------------------------
(* What is being walked: one record per block or function body, with the   *)
(* `local` statement whose values or names are being visited, if any.      *)
Context(kind) == [kind |-> kind, phase |-> "stmts", names |-> <<>>]

Kinds  == {"block", "repeat", "function"}
Phases == {"stmts", "values", "names", "until"}

Contexts == [kind : Kinds, phase : Phases, names : Seq(Decls)]

InPhase(phases) == ctx # <<>> /\ Top(ctx).phase \in phases

(* Bounds: how deep the program nests, how much it declares.               *)
CanNest       == Len(ctx) < MaxDepth
CanDeclare(n) == decls + n <= MaxDecls

Use(construct) == used' = used \cup {construct}

TypeOK ==
    /\ ctx     \in Seq(Contexts)
    /\ scopes  \in Seq(Frames)
    /\ diags   \subseteq Nat
    /\ active  \subseteq Variables
    /\ illegal \subseteq Variables
    /\ decls   \in Nat
    /\ used    \subseteq Diverging

(* check: one frame for the chunk.                                         *)
Init ==
    /\ ctx     = <<Context("block")>>
    /\ scopes  = <<EmptyFrame>>
    /\ diags   = {}
    /\ active  = {}
    /\ illegal = {}
    /\ decls   = 0
    /\ used    = {}

-----------------------------------------------------------------------------
(* check_block on a do block, a loop body, an if branch: a fresh frame.    *)
EnterBlock(kind) ==
    /\ InPhase({"stmts"}) /\ CanNest
    /\ ctx'    = Append(ctx, Context(kind))
    /\ scopes' = Append(scopes, EmptyFrame)
    /\ UNCHANGED <<diags, active, illegal, decls, used>>

(* A `for` body.  check_stmt walks it with check_block, which registers    *)
(* none of the names the loop declares; Lua declares them in the body, the *)
(* variable of a numeric `for` and the first of a generic one read-only.   *)
EnterForBody(control, names) ==
    /\ Use("for_names")
    /\ InPhase({"stmts"}) /\ CanNest /\ CanDeclare(2)
    /\ ctx'    = Append(ctx, Context("block"))
    /\ scopes' = Append(scopes, EmptyFrame)
    /\ active' = active \cup {Variable(control, decls + 1, Len(ctx) + 1, "control")}
                        \cup Plain(names, decls + 2, Len(ctx) + 1)
    /\ decls'  = decls + 2
    /\ UNCHANGED <<diags, illegal>>

(* check_function_body: a frame that holds the parameters.                 *)
PushFunction(params) ==
    /\ CanNest
    /\ ctx'    = Append(ctx, Context("function"))
    /\ scopes' = Append(scopes, ParamFrame(params))

(* A function expression anywhere check_expr_closures looks, or the body   *)
(* of a `function t.f()` statement.                                        *)
EnterClosure(params) ==
    /\ InPhase({"stmts", "values", "until"}) /\ CanDeclare(1)
    /\ PushFunction(params)
    /\ active' = active \cup Plain(params, decls + 1, Len(ctx) + 1)
    /\ decls'  = decls + 1
    /\ UNCHANGED <<diags, illegal, used>>

(* `local function f`: the code walks the body only, Lua first declares f. *)
EnterLocalFunction(f, params) ==
    /\ Use("local_function")
    /\ InPhase({"stmts"}) /\ CanDeclare(2)
    /\ PushFunction(params)
    /\ active' = active \cup Plain({f}, decls + 1, Len(ctx))
                        \cup Plain(params, decls + 2, Len(ctx) + 1)
    /\ decls'  = decls + 2
    /\ UNCHANGED <<diags, illegal>>

(* `function o:m()`: Lua's body has a parameter self that the syntax tree  *)
(* does not list.                                                          *)
EnterMethod(self, params) ==
    /\ Use("method_self")
    /\ InPhase({"stmts"}) /\ CanDeclare(1)
    /\ PushFunction(params)
    /\ active' = active \cup Plain({self} \cup params, decls + 1, Len(ctx) + 1)
    /\ decls'  = decls + 1
    /\ UNCHANGED <<diags, illegal>>

(* `function f()` assigns to f: the code walks the body only.              *)
EnterFunctionDecl(f, params) ==
    /\ Use("function_decl")
    /\ InPhase({"stmts"}) /\ CanDeclare(1)
    /\ PushFunction(params)
    /\ active'  = active \cup Plain(params, decls + 1, Len(ctx) + 1)
    /\ illegal' = illegal \cup ReadOnly(f)
    /\ decls'   = decls + 1
    /\ UNCHANGED diags

(* Wrong: the frame of the block is not popped.                            *)
ExitUnpopped ==
    /\ InPhase({"stmts"})
    /\ ctx'    = Pop(ctx)
    /\ active' = Leave(Len(ctx))
    /\ UNCHANGED <<scopes, diags, illegal, decls, used>>

(* The end of a block or function body (scopes.pop()).  The end of the     *)
(* chunk is the end of the walk.                                           *)
Exit ==
    /\ InPhase({"stmts"})
    /\ ctx'    = Pop(ctx)
    /\ scopes' = Pop(scopes)
    /\ active' = Leave(Len(ctx))
    /\ UNCHANGED <<diags, illegal, decls, used>>

(* `until cond` with a function expression in cond.  check_block has       *)
(* popped the body's frame; in Lua the condition still sees its locals.    *)
EnterUntil ==
    /\ Use("until_closure")
    /\ InPhase({"stmts"}) /\ Top(ctx).kind = "repeat"
    /\ ctx'    = SetTop(ctx, [Top(ctx) EXCEPT !.phase = "until"])
    /\ scopes' = Pop(scopes)
    /\ UNCHANGED <<diags, active, illegal, decls>>

ExitUntil ==
    /\ InPhase({"until"})
    /\ ctx'    = Pop(ctx)
    /\ active' = Leave(Len(ctx))
    /\ UNCHANGED <<scopes, diags, illegal, decls, used>>

(* check_stmt on LocalDecl: the values are walked first, with the names    *)
(* not yet in scope ...                                                    *)
BeginLocal(list) ==
    /\ InPhase({"stmts"}) /\ CanDeclare(Len(list))
    /\ ctx' = SetTop(ctx, [Top(ctx) EXCEPT !.phase = "values", !.names = list])
    /\ UNCHANGED <<scopes, diags, active, illegal, decls, used>>

(* ... and then register_locals inserts the names one by one.              *)
RegisterName ==
    /\ InPhase({"values", "names"})
    /\ LET decl == Head(Top(ctx).names)
           rest == Tail(Top(ctx).names)
       IN  /\ ctx' = SetTop(ctx, [Top(ctx) EXCEPT
                        !.phase = IF rest = <<>> THEN "stmts" ELSE "names",
                        !.names = rest])
           /\ scopes' = Insert(scopes, decl.name, Entry(decl.attr, decls + 1))
           /\ active' = active \cup {Variable(decl.name, decls + 1, Len(ctx), decl.attr)}
    /\ decls' = decls + 1
    /\ UNCHANGED <<diags, illegal, used>>

(* check_assign: every target that is a name is looked up.                 *)
Assign(targets) ==
    /\ InPhase({"stmts"})
    /\ diags'   = diags \cup UNION {FindConst(x) : x \in targets}
    /\ illegal' = illegal \cup UNION {ReadOnly(x) : x \in targets}
    /\ UNCHANGED <<ctx, scopes, active, decls, used>>

(* An assignment to x by a function expression inside an assignment target *)
(* (`t[f(function() x = 1 end)] = v`): check_stmt walks the values only.   *)
AssignInTarget(x) ==
    /\ Use("target_closure")
    /\ InPhase({"stmts"})
    /\ illegal' = illegal \cup ReadOnly(x)
    /\ UNCHANGED <<ctx, scopes, diags, active, decls>>

Next ==
    \/ \E kind \in {"block", "repeat"} : EnterBlock(kind)
    \/ \E params \in SUBSET Idents : EnterClosure(params)
    \/ \E f \in Idents, params \in SUBSET Idents :
         \/ EnterForBody(f, params)
         \/ EnterLocalFunction(f, params)
         \/ EnterMethod(f, params)
         \/ EnterFunctionDecl(f, params)
    \/ Exit \/ EnterUntil \/ ExitUntil
    \/ \E list \in NameLists : BeginLocal(list)
    \/ RegisterName
    \/ \E targets \in (SUBSET Idents) \ {{}} : Assign(targets)
    \/ \E x \in Idents : AssignInTarget(x)

Spec == Init /\ [][Next]_vars

-----------------------------------------------------------------------------
(* At every point of the walk, and for every name, find_const answers what *)
(* Lua's compiler would: the same `<const>` declaration, or none, through  *)
(* any nesting of shadowing locals, parameters, closures and blocks, as    *)
(* long as every declaration of the program is one the lint registers.     *)
SameAnswer ==
    used \subseteq Unseen /\ ctx # <<>> =>
        \A x \in Idents : FindConst(x) = Resolve(x)

(* The lint never reports a program Lua accepts, even one with assignments *)
(* it does not see (docs/errors/E0301.md: "any source that triggers E0301  *)
(* is already an error in the reference implementation").                  *)
NoFalseAlarm == used \subseteq Unseen => diags \subseteq ConstSpans(illegal)

(* Of the assignments Lua's compiler refuses, the lint never lets one to a *)
(* `<const>` variable through, even in a program with declarations it does *)
(* not register (docs/errors/E0301.md: "valua enforces this statically").  *)
(* Those it lets through are assignments to `<close>` variables and to the *)
(* control variables of loops, which are not what E0301 is about.          *)
Missed == {v \in illegal : v.span \notin diags}

NothingMissed ==
    used \subseteq Unregistered => \A v \in Missed : v.attr \in {"close", "control"}

(* The lint reports, in every program, exactly the const declarations that *)
(* Lua's compiler would reject an assignment to (docs/errors/E0301.md:     *)
(* "mirroring the behavior of the standard Lua compiler").                 *)
MirrorsLua == diags = ConstSpans(illegal)

(* The blocks whose statements are being walked.                           *)
Walked(c) == {k \in 1..Len(c) : c[k].phase # "until"}

(* Every frame pushed is popped: the stack has one frame per block whose   *)
(* statements are being walked, none when the chunk ends, and Lua's        *)
(* variables are all gone then too.                                        *)
Balanced ==
    /\ Len(scopes) = Cardinality(Walked(ctx))
    /\ ctx = <<>> => active = {}

-----------------------------------------------------------------------------
(***************************************************************************)
(* The inductive invariant, for programs without an `until` closure.  The  *)
(* frames and the blocks of active variables correspond level by level     *)
(* (FramesMatch): a frame knows a name only if the block has a variable of *)
(* it, and then has the block's newest one if that is const, and, unless   *)
(* some declaration was not registered, in any case.  A variable of an     *)
(* inner block is newer than any of an outer one (ActiveInOrder), so that  *)
(* the innermost entry is about the newest variable.                       *)
(***************************************************************************)
At(x, k) == {v \in active : v.name = x /\ v.depth = k}

NewestAt(v, x, k) == v \in At(x, k) /\ \A w \in At(x, k) : w.span <= v.span

Recorded(v, entry) ==
    IF v.attr = "const" THEN entry = v.span ELSE used \subseteq Unseen => entry = NotConst

FramesMatch ==
    /\ Len(scopes) = Len(ctx)
    /\ \A k \in 1..Len(scopes), x \in Idents :
         \/ At(x, k) = {} /\ scopes[k][x] = NoEntry
         \/ \E v \in active : NewestAt(v, x, k) /\ Recorded(v, scopes[k][x])

ActiveInOrder ==
    \A v \in active :
        /\ v.depth \in 1..Len(ctx)
        /\ v.span \in 1..decls
        /\ \A w \in active : v.depth < w.depth => v.span < w.span
        /\ \A w \in active : v.name = w.name /\ v.span = w.span => v = w

Shape == "until_closure" \notin used => FramesMatch /\ ActiveInOrder

PendingNames ==
    \A k \in 1..Len(ctx) :
        /\ ctx[k].phase \in {"values", "names"} => ctx[k].names # <<>>
        /\ ctx[k].phase = "until" => "until_closure" \in used

IInv == TypeOK /\ PendingNames /\ Shape /\ NoFalseAlarm /\ NothingMissed

(* The invariant behind Balanced, for any program.                         *)
InOpenBlock == \A v \in active : v.depth \in 1..Len(ctx)

BInv == TypeOK /\ PendingNames /\ Balanced /\ InOpenBlock
=============================================================================
