------------------------------ MODULE Pipeline ------------------------------
(***************************************************************************)
(* The commands build, check and lint on one source file: parse, lint,     *)
(* gate, detection, the passes in the order Compiler::compile adds them,   *)
(* emission and the verdict.                                               *)
(*                                                                         *)
(* A syntax tree is the set of its nodes of interest.  Every walk of the   *)
(* compiler is the same recursion up to the children it leaves out, so a   *)
(* node is what it is and the kinds of positions on the way down to it.    *)
(***************************************************************************)
CONSTANTS
    Programs,   \* the source files: sets of nodes
    None        \* no tree, no output, no command

(* The children a walk can descend into: values (of local, assignment,     *)
(* return and call statements), assignment targets, conditions (while,     *)
(* repeat, if), for headers, bodies of statements, function bodies,        *)
(* subexpressions.                                                         *)
Slots == {"value", "target", "condition", "header", "body", "function", "operand"}

(* What a node is in the source, and what the passes make of it.  A float  *)
(* literal out of range is parsed as an infinity (1e999), or, written in   *)
(* hexadecimal, as NaN.  A declaration has its first close name as "close" *)
(* and, though Lua refuses that, may have more as "second_close".          *)
Expressions == {"bitop", "idiv", "unsupported", "infinite"}
Statements  == {"const", "close", "second_close", "mutation"}
Kinds == Expressions \cup Statements \cup {"bit_call", "floor_call", "wrapped", "local"}

Node == [what : Kinds, at : SUBSET Slots]

(* Expressions hang off a statement; a statement inside an expression is   *)
(* in a function body.                                                     *)
Entries == {"value", "target", "condition", "header"}

WellPlaced(n) ==
    /\ n.what \in Expressions \/ "operand" \in n.at => n.at \cap Entries # {}
    /\ n.what \in Statements /\ n.at \cap Entries # {} => "function" \in n.at

SourceNode == [what : Expressions \cup Statements, at : SUBSET Slots]

ASSUME ProgramsAssumption ==
    \A p \in Programs :
        /\ p \subseteq SourceNode
        /\ \A n \in p : /\ WellPlaced(n)
                       /\ n.what = "second_close" => [n EXCEPT !.what = "close"] \in p

Targets  == {"Lua51", "LuaJIT"}
Commands == {"build", "check", "lint"}

(* check compiles with the default options, build and lint take --target.  *)
TargetsOf(c) == IF c = "check" THEN {"Lua51"} ELSE Targets

(* FeatureSet, without the two flags nothing sets.                         *)
Features == {"bitwise_ops", "close_attribute", "integer_div"}

Stages == {"idle", "parse", "lint", "gate", "detect", "const", "bitwise", "idiv",
           "close", "inject", "emit"}

VARIABLES
    source,     \* the nodes of the file
    parses,     \* whether the parser accepts it
    command,    \* the command that runs, and its target
    target,
    stage,
    tree,       \* block, as the passes leave it
    diags,      \* the nodes the lints accuse
    features,   \* the FeatureSet compile detects before the passes
    preamble,   \* the polyfills put in front of the block
    verdict,    \* of each command: whether it accepts the file, or none yet
    reported,   \* of each command: the diagnostics rendered for the user
    output      \* what build has emitted

vars == <<source, parses, command, target, stage, tree, diags, features, preamble,
          verdict, reported, output>>
-----------------------------------------------------------------------------
(* The walks.  detect_*, rewrite_*, rewrite_idiv_* and emit_* descend into *)
(* everything; the two lints and strip_const_* leave out the targets of    *)
(* assignments; recurse_close_* conditions and for headers as well.        *)
Everywhere == Slots
ValueWalk  == Slots \ {"target"}
CloseWalk  == Slots \ {"target", "condition", "header"}

Seen(t, walk, what) == {n \in t : n.what = what /\ n.at \subseteq walk}

Rewrite(t, walk, from, to) ==
    {IF n \in Seen(t, walk, from) THEN [n EXCEPT !.what = to] ELSE n : n \in t}

(* detect_stmt, detect_expr.                                               *)
FeatureOf == [bitop |-> "bitwise_ops", idiv |-> "integer_div", close |-> "close_attribute"]

Detect(t) == {FeatureOf[k] : k \in {k \in DOMAIN FeatureOf : Seen(t, Everywhere, k) # {}}}

(* Wrong: the guard forgets loop headers.                                  *)
GuardBodies(t) == Seen(t, ValueWalk \ {"header"}, "unsupported")

(* UnsupportedFeatureGuard: E0101, E0102, E0103.                           *)
Guard(t) == Seen(t, ValueWalk, "unsupported")

(* Wrong: the guard is added for LuaJIT only.                              *)
LintsOfJIT(t, tgt) ==
    Seen(t, ValueWalk, "mutation") \cup IF tgt = "LuaJIT" THEN Guard(t) ELSE {}

(* LintPipeline::run: ConstMutation, and the guard, which default_for adds *)
(* for both targets.  All they report has Severity::Error.  Which          *)
(* assignments ConstMutation accuses is ConstScopes' subject.              *)
Lints(t, tgt) == Seen(t, ValueWalk, "mutation") \cup Guard(t)

(* suppress_native_features, polyfills_for: the other polyfills are empty. *)
Suppress(fs, tgt) == IF tgt = "LuaJIT" THEN fs \ {"bitwise_ops"} ELSE fs

PolyfillsFor(fs) == {p \in {"bitwise_ops"} : p \in fs}

(* emit_expr_inner: Lua has no literal for an infinity or NaN.             *)
Unprintable(t) == Seen(t, Everywhere, "infinite")

(* The emitter writes names without their attributes.                      *)
Attributed == {"const", "close", "second_close"}

Emitted(t) == {IF n.what \in Attributed THEN [n EXCEPT !.what = "local"] ELSE n : n \in t}
-----------------------------------------------------------------------------
Init ==
    /\ source \in Programs
    /\ parses \in BOOLEAN
    /\ command = None /\ target = None
    /\ stage = "idle"
    /\ tree = None
    /\ diags = {} /\ features = {} /\ preamble = {}
    /\ verdict  = [c \in Commands |-> "none"]
    /\ reported = [c \in Commands |-> {}]
    /\ output = None

Goto(from, to) == stage = from /\ stage' = to

(* The process exits.                                                      *)
Exit(from, v) ==
    /\ Goto(from, "idle")
    /\ verdict' = [verdict EXCEPT ![command] = v]

(* Cli::parse, cmd_build, cmd_check, cmd_lint.                             *)
Start(c, t) ==
    /\ verdict[c] = "none" /\ t \in TargetsOf(c)
    /\ Goto("idle", "parse")
    /\ command' = c /\ target' = t
    /\ tree' = None
    /\ diags' = {} /\ features' = {} /\ preamble' = {}
    /\ UNCHANGED <<source, parses, verdict, reported, output>>

(* Wrong: the commands go on after a parse error, with a node for the text *)
(* that is none.                                                           *)
ParseAnyway ==
    /\ Goto("parse", "lint")
    /\ tree' = IF parses THEN source ELSE {None}
    /\ UNCHANGED <<source, parses, command, target, diags, features, preamble,
                   verdict, reported, output>>

(* valua_parser::parse.                                                    *)
Parse ==
    /\ parses
    /\ Goto("parse", "lint")
    /\ tree' = source
    /\ UNCHANGED <<source, parses, command, target, diags, features, preamble,
                   verdict, reported, output>>

(* `?` on the parse error: main prints it without its span.                *)
ParseFails ==
    /\ ~parses
    /\ Exit("parse", "rejected")
    /\ UNCHANGED <<source, parses, command, target, tree, diags, features, preamble,
                   reported, output>>

(* LintPipeline::default_for(target).run(&block).                          *)
RunLints ==
    /\ Goto("lint", "gate")
    /\ diags' = Lints(tree, target)
    /\ UNCHANGED <<source, parses, command, target, tree, features, preamble,
                   verdict, reported, output>>

(* cmd_lint: every diagnostic is rendered, and counted by the reporter.    *)
LintEnds ==
    /\ command = "lint"
    /\ Exit("gate", IF diags = {} THEN "accepted" ELSE "rejected")
    /\ reported' = [reported EXCEPT ![command] = diags]
    /\ UNCHANGED <<source, parses, command, target, tree, diags, features, preamble, output>>

(* compile returns CompileError::Lint.  cmd_check renders the diagnostics, *)
(* cmd_build leaves main to print how many there are.                      *)
GateRejects ==
    /\ command # "lint" /\ diags # {}
    /\ Exit("gate", "rejected")
    /\ reported' = IF command = "check" THEN [reported EXCEPT ![command] = diags] ELSE reported
    /\ UNCHANGED <<source, parses, command, target, tree, diags, features, preamble, output>>

GatePasses ==
    /\ command # "lint" /\ diags = {}
    /\ Goto("gate", "detect")
    /\ UNCHANGED <<source, parses, command, target, tree, diags, features, preamble,
                   verdict, reported, output>>

(* FeatureDetector::detect, before the passes.                             *)
DetectFeatures ==
    /\ Goto("detect", "const")
    /\ features' = Detect(tree)
    /\ UNCHANGED <<source, parses, command, target, tree, diags, preamble,
                   verdict, reported, output>>

(* TransformPipeline::run: one pass, then the next.                        *)
Pass(from, to, new) ==
    /\ Goto(from, to)
    /\ tree' = new
    /\ UNCHANGED <<source, parses, command, target, diags, features, preamble,
                   verdict, reported, output>>

(* Wrong: an operator pass that walks values only, as its neighbours do.   *)
LowerBitwiseValues ==
    Pass("bitwise", "idiv", Rewrite(tree, ValueWalk, "bitop", "bit_call"))

(* ConstAttributeValidator, BitwiseOpTransform, IntegerDivisionTransform.  *)
StripConst   == Pass("const", "bitwise", Rewrite(tree, ValueWalk, "const", "local"))
LowerBitwise == Pass("bitwise", "idiv", Rewrite(tree, Everywhere, "bitop", "bit_call"))
LowerIntegerDivision ==
    Pass("idiv", "close", Rewrite(tree, Everywhere, "idiv", "floor_call"))

(* CloseAttributeTransform.  In a declaration it gets to, the first close  *)
(* name is wrapped and the attribute of every one removed.  The tail moves *)
(* into a function in a value, a position all later walks reach; what the  *)
(* code does is CloseExec's.                                               *)
Wrap(t, walk) ==
    Rewrite(Rewrite(t, walk, "close", "wrapped"), walk, "second_close", "local")

(* Wrong: the walk for close variables stops at function expressions.      *)
WrapCloseBodies == Pass("close", "inject", Wrap(tree, {"body"}))

WrapClose == Pass("close", "inject", Wrap(tree, CloseWalk))

(* Wrong here: the injector as default_pipeline adds it, detecting anew.   *)
InjectRedetected ==
    /\ Goto("inject", "emit")
    /\ preamble' = PolyfillsFor(Suppress(Detect(tree), target))
    /\ UNCHANGED <<source, parses, command, target, tree, diags, features,
                   verdict, reported, output>>

(* PolyfillInjector::with_features_for_target.                             *)
InjectPolyfill ==
    /\ Goto("inject", "emit")
    /\ preamble' = PolyfillsFor(Suppress(features, target))
    /\ UNCHANGED <<source, parses, command, target, tree, diags, features,
                   verdict, reported, output>>

(* CompileError::CodeGen: build and check print it without its span.       *)
EmitFails ==
    /\ Exit("emit", "rejected")
    /\ Unprintable(tree) # {}
    /\ UNCHANGED <<source, parses, command, target, tree, diags, features, preamble,
                   reported, output>>

(* LuaEmitter::emit succeeds; cmd_check drops the text.                    *)
Emit ==
    /\ Exit("emit", "accepted")
    /\ Unprintable(tree) = {}
    /\ output' = IF command = "build"
                 THEN [text |-> Emitted(tree), preamble |-> preamble, target |-> target]
                 ELSE output
    /\ UNCHANGED <<source, parses, command, target, tree, diags, features, preamble, reported>>

Next ==
    \/ \E c \in Commands, t \in Targets : Start(c, t)
    \/ Parse \/ ParseFails
    \/ RunLints \/ LintEnds \/ GateRejects \/ GatePasses
    \/ DetectFeatures
    \/ StripConst \/ LowerBitwise \/ LowerIntegerDivision \/ WrapClose \/ InjectPolyfill
    \/ Emit \/ EmitFails

Spec == Init /\ [][Next]_vars
-----------------------------------------------------------------------------
Outputs == [text : SUBSET Node, preamble : SUBSET Features, target : Targets]

(* Every variable has its type; past the parse there is a tree, and while  *)
(* a command runs it has a name and a target.                              *)
TypeOK ==
    /\ source \in SUBSET SourceNode /\ parses \in BOOLEAN
    /\ stage \in Stages
    /\ stage # "idle" => command \in Commands /\ target \in Targets
    /\ stage \notin {"idle", "parse"} => tree \in SUBSET Node
    /\ diags \in SUBSET Node
    /\ features \in SUBSET Features /\ preamble \in SUBSET Features
    /\ verdict \in [Commands -> {"none", "accepted", "rejected"}]
    /\ reported \in [Commands -> SUBSET Node]
    /\ output = None \/ output \in Outputs

(* No operator Lua 5.1 lacks is left in an emitted text, wherever in the   *)
(* source it stood: rewrite_* and rewrite_idiv_* reach what emit_* prints. *)
OnlyLua51 ==
    output # None => \A n \in output.text : n.what \notin {"bitop", "idiv"}

(* A text has the fallback for `bit` in front exactly if it calls `bit`    *)
(* and its target has none: what is detected before the passes is what     *)
(* the passes leave to be provided.                                        *)
FallbackIffNeeded ==
    output # None =>
        (output.preamble # {} <=> /\ output.target = "Lua51"
                                  /\ \E n \in output.text : n.what = "bit_call")

(* Nothing the lints accuse is emitted, except below an assignment target, *)
(* where they do not look.                                                 *)
GateHolds ==
    output # None =>
        \A n \in output.text : n.what \in {"unsupported", "mutation"} => "target" \in n.at

(* The first close variable of every declaration of the source is wrapped  *)
(* in the text, unless it is in a function expression that the close pass  *)
(* does not visit.  (A second one, which Lua refuses, is emitted as a      *)
(* plain local: process_close_at.)                                         *)
ClosesWrapped ==
    output # None =>
        \A n \in source :
            n.what = "close" /\ n.at \cap {"target", "condition", "header"} = {}
                => [n EXCEPT !.what = "wrapped"] \in output.text

(* build, check and lint accept the same files, whatever their targets,    *)
(* but for lint, which does not emit, and lets through the literals that   *)
(* the emitter refuses.                                                    *)
SameVerdict ==
    \A c, d \in Commands :
        verdict[c] # "none" /\ verdict[d] # "none" =>
            \/ verdict[c] = verdict[d]
            \/ "lint" \in {c, d} /\ \E n \in source : n.what = "infinite"

(* The README's promise, which the code breaks: a program that uses an     *)
(* unsupported feature is never emitted.                                   *)
StrictlyBlocked ==
    output # None => \A n \in output.text : n.what # "unsupported"

(* The README's promise, which the code breaks: a command that rejects a   *)
(* file that parses has rendered a diagnostic.                             *)
RejectionsShown ==
    \A c \in Commands : parses /\ verdict[c] = "rejected" => reported[c] # {}
-----------------------------------------------------------------------------
(* The inductive invariant: each stage has done to the source what the     *)
(* stages before it do, and nothing else.                                  *)
Stripped(t)  == Rewrite(t, ValueWalk, "const", "local")
Bitwised(t)  == Rewrite(Stripped(t), Everywhere, "bitop", "bit_call")
Divided(t)   == Rewrite(Bitwised(t), Everywhere, "idiv", "floor_call")
Wrapped(t)   == Wrap(Divided(t), CloseWalk)
Preamble(t, tgt) == PolyfillsFor(Suppress(Detect(t), tgt))

Accusable == Lints(source, "Lua51")

TreeOfStage ==
    /\ stage \in {"lint", "gate", "detect", "const"} => tree = source
    /\ stage = "bitwise" => tree = Stripped(source)
    /\ stage = "idiv" => tree = Bitwised(source)
    /\ stage = "close" => tree = Divided(source)
    /\ stage \in {"inject", "emit"} => tree = Wrapped(source)

Decided ==
    /\ stage \notin {"idle", "parse"} => parses
    /\ stage = "gate" => diags = Accusable
    /\ stage \notin {"idle", "parse", "lint", "gate"} => Accusable = {} /\ command # "lint"
    /\ stage \in {"const", "bitwise", "idiv", "close", "inject", "emit"}
          => features = Detect(source)
    /\ stage = "emit" => preamble = Preamble(source, target)

Verdicts ==
    \A c \in Commands :
        /\ verdict[c] = "accepted" =>
             parses /\ Accusable = {} /\ (c # "lint" => Unprintable(source) = {})
        /\ verdict[c] = "rejected" =>
             ~parses \/ Accusable # {} \/ (c # "lint" /\ Unprintable(source) # {})

TextOfSource ==
    output # None =>
        /\ Accusable = {}
        /\ output = [text |-> Emitted(Wrapped(source)),
                     preamble |-> Preamble(source, output.target),
                     target |-> output.target]
        /\ output.target \in Targets

IInv == TypeOK /\ TreeOfStage /\ Decided /\ Verdicts /\ TextOfSource
=============================================================================
