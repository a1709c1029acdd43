# valua: a verification project

valua translates Lua 5.5 source into Lua 5.1 text. A run of `valua build` reads a
file, parses it, lints it, rewrites the syntax tree, emits text and replaces the
output file. These modules model the parts of that path whose correctness depends
on more than one step: what happens to an output file when builds run side by side
and fail half way, which assignments the const lint accuses, what a program with
`<close>` variables does after it has been rewritten, what the stages of a compilation
leave for each other, which texts the parser takes and as which trees, and as what Lua 5.1
reads the text that is printed.

Paths below are relative to the repository; `transformer` stands for
`crates/valua-transformer/src/lib.rs`, `const_mutation` for
`crates/valua-lint/src/passes/const_mutation.rs`, `cli` for
`crates/valua-cli/src/main.rs`, `core` for `crates/valua-core/src/lib.rs`, `codegen` for
`crates/valua-codegen/src/lib.rs`, `lexer` for `crates/valua-lexer/src/lib.rs`, `token` for
`crates/valua-lexer/src/token.rs`, `parser` for `crates/valua-parser/src/lib.rs`, `polyfills` for
`crates/valua-polyfills/src/lib.rs`.

## The system

| component | state it keeps | operations | talks to |
|---|---|---|---|
| CLI (`valua-cli`) | none between runs; the file system during `build -o` | `cmd_build`, `atomic_write`, `cmd_check`, `cmd_lint`, `cmd_explain` | core, the OS |
| core (`valua-core`) | the syntax tree, the diagnostics, the detected features | `Compiler::compile`, `parse_only` | parser, lint, transformer, codegen |
| lexer | the kind of the last error (`last_error_kind`) | `tokenize`, the callbacks of `Token` | parser |
| parser | a cursor in the tokens; the recursion of its procedures | `parse`, one procedure per construct | the syntax tree |
| lint | a stack of `ScopeFrame`s (const lint); nothing (unsupported features) | `LintPipeline::run`, one walk per lint | the syntax tree |
| transformer | the syntax tree; a `FeatureSet` | detection, four rewriting passes, polyfill injection | parser (for injected code), polyfills |
| codegen | an output buffer and an indent | `emit` | the syntax tree |
| polyfills | constant Lua sources | `polyfills_for` | transformer |
| diagnostics | spans, counts of errors and warnings | rendering, reporters | everyone |
| bench, fuzz, examples | | | outside the transpiler |

All of it is sequential inside one process. What makes it hard:

* **several processes on one directory**: builds of one output, or of outputs with one
  stem, meet at their temporary files; any call can fail, and a process can be killed
  between any two of them;
* **two rules for one language**: the lint's scope stack and Lua's own resolution of
  names have to agree through every nesting and shadowing;
* **code that runs later**: the close transform emits closures under `pcall`, and
  what it decided from the text (does this block end with a `return`?) has to be right
  for every way the closures can be left at run time;
* **the order of the passes**: what one pass has removed, a later one cannot detect;
* **three precedence tables**: the parser, codegen and Lua each order the operators; what
  codegen prints without parentheses has to parse back to the same tree, in Lua;
* **no separators**: a statement ends where the next token cannot continue it, so each
  suffix a grammar allows can take in the statement that follows;
* **an error kind that stays**: good tokens set the kind under which the next failure is
  reported.

What correctness means, per component:

* `atomic_write`: an output is only ever replaced by a whole text, nobody sees a partial
  one, and no temporary file is left without a reason;
* const lint: E0301 is reported exactly where Lua's compiler rejects an assignment;
* close transform: each variable is closed once, newest first, however its block is
  left, and then control goes on as it would have;
* pipeline: the emitted text has only Lua 5.1 operators and everything it calls is
  there;
* lexer, parser: the texts of Lua 5.5 are accepted, others are refused, and the tree is
  Lua's; an error is reported as the kind it is;
* codegen: Lua 5.1 loads the text and reads the tree that was printed; strings and
  integers keep their values;
* polyfills: the fallback computes what the operators it stands for compute, and what the
  library it stands for computes.

## Modules

| module | models | of |
|---|---|---|
| `OutputFile` | the promise: contents and outcomes, replacement in one step | `cmd_build`, `atomic_write` |
| `AtomicWrite` | the processes and the file system | `cli` 96-154 |
| `MCAtomicWrite` | three builds, two outputs, one stem, two pids | |
| `AtomicWrite_proofs` | the theorems about it | |
| `ConstScopes` | the walk of the const lint beside Lua's resolution | `const_mutation` |
| `MCConstScopes` | two names, the attribute lists that can shadow | |
| `ConstScopes_proofs` | the theorems about it | |
| `ToBeClosed` | the promise: Lua's to-be-closed variables | Lua 5.4 manual 3.3.8 (external) |
| `CloseExec` | the emitted code, executed | `transformer` 679-905, 1184-1195 |
| `MCCloseExec` | two values, the lists of them a program returns | |
| `CloseExec_proofs` | the refinement; types, once, newest first, for programs of any kind | |
| `Pipeline` | the commands build, check and lint on one file, stage by stage | `core` 71-121, `cli` 82-225, the walks of lint, transformer and codegen |
| `MCPipeline` | every file of at most two nodes | |
| `Pipeline_proofs` | the theorems about it | |
| `Descent` | recursive descent as a stack machine, for the next four | `parser` 34-95 |
| `Parser` | valua's parser, one operator per procedure | `parser` 15-767 |
| `LuaSyntax` | the grammars of Lua 5.5 and 5.1 | the Lua compilers (external) |
| `Lexer` | what lexemes become, and the error kind | `lexer`, `token` |
| `Emitter` | valua's code generator, token by token | `codegen` 98-568 |
| `FixedWidth` | integers of so many bits, for the next two | |
| `FixedWidth_proofs` | lemmas about bits and shifts | |
| `Literals` | strings and integers, read, printed and read again | `token` 135-286, `codegen` 574-595 |
| `BitPolyfill` | the emitted bit library, beside the operators it stands for | `polyfills` 7-17, `transformer` 399-429 |
| `Translation` | all of these beside Lua | |
| `MCTranslation` | the lexemes, units, operators and numbers in use | |
| `Translation_proofs` | the theorems about operators, literals, the lexer, the emitter and the precedences; the equations of the two parsers | |
| `Agreement_proofs` | that the two parsers agree on every token, wherever their stacks are alike | |
| `Reading_proofs` | the invariant of the two parsers, and the theorems about sources | |

### AtomicWrite

Names (output paths and `.{stem}.{pid}.tmp`) are bound to inodes; an inode holds a set of
located blocks `<<b, k>>`, so that a text that is cut off, or mixed from two builds, is a
value of its own. A build goes through the calls of `cmd_build` and `atomic_write` in
order: `Compile`, `CreateTmp`, `WriteBlock`..., `CloseTmp`, `Rename`, `Report`, each with
its error branch. `BufWriter` writes as late as it likes, so blocks are written by
`write_all`, by `flush`, or, after an error, by the writer being dropped (`DropWriter`).
`Kill` can strike anywhere. A pid is unique among live processes only (`Spawn`): a build
may find the file of a dead one under its own temporary name, and `File::create`
truncates it.

`OutputFile` is what a user counts on; `ImplementsPromise` maps a state of `AtomicWrite` to
it (an output's content is its inode's data; an outcome is read off the program counter).

### ConstScopes

A behaviour is a program, in the order the lint walks it. The lint's side
(`scopes`, `diags`) does what `check_block`, `check_function_body`, `register_locals`,
`check_assign` and `find_const` do; Lua's side (`active`, `illegal`) keeps the active
variables and resolves a name to the newest one. Six constructs are walked by the
code otherwise than Lua defines, each an action of its own, and `used` remembers which
of them a program contains:

| construct | the code | the effect |
|---|---|---|
| `for_names` | a loop's names are not registered (94-107) | false alarm for all but the first, which Lua lets nobody assign to |
| `local_function` | its name is not registered (109) | false alarm |
| `method_self` | `self` is not among the parameters (42) | false alarm |
| `function_decl` | `function f()` is not seen as an assignment (108) | missed |
| `target_closure` | function expressions in targets are not walked (63) | missed |
| `until_closure` | the condition is walked after the body's frame is gone (80-81) | both |

Lua 5.5 has more read-only variables than `<const>` locals: a `<close>` local, and the control
variable of a `for` (the only name of a numeric one, the first of a generic one).
`for i = 1, 3 do i = 5 end` does not compile there, and no lint of valua looks for it: E0301 is
about `<const>`, `register_locals` enters a `<close>` name as an ordinary one and a loop's not at
all. Lua's side keeps what makes a variable read-only (`attr`), and `illegal` holds every one
that is assigned to, of all three kinds.

The properties say how far the damage goes. Without unregistered declarations the lint
never accuses a legal program (`NoFalseAlarm`). Without unseen assignments, whatever it lets
through is an assignment to a `<close>` local or to a control variable, never one to a
`<const>` local (`NothingMissed`, over `Missed`).

### CloseExec

A behaviour is one run of a rewritten program, chosen as it goes. A frame is a block or
a call; its `tbc` has one suspended `pcall` per `<close>` variable, because the transform
nests the rest of the block in a closure per declaration. `PcallReturns`, `Cleanup`
and `Reraise` are the three statements `process_close_at` appends; `Resumed` is its
re-raise and its optional `return __valua_result`. A closing function is a frame of its
own, with variables, blocks and errors of its own. Constructs whose emitted code
behaves otherwise than Lua are named in `Constructs`:

| construct | the code | the effect |
|---|---|---|
| `nested_return` | only a `return` that is the tail's last statement is passed on (741) | a `return` inside an `if` is lost |
| `value_count` | `return __valua_result` (809) | several values, or none, become one |
| `break_out` | the tail is moved into a function (740-773) | a `break` has no loop there: the text does not load |
| `vararg_tail` | that function takes no `...` (766) | a tail that uses the `...` of the function around it does not load |
| `goto_across` | the tail is moved away from labels outside it, and the labels in it from the code before | a `goto` from one side to the other does not load (where the target has `goto` at all) |
| `unvisited` | the recursion skips conditions, `for` headers, targets (817-857) | the attribute is dropped |
| `not_closable` | a value without `__close` is accepted, a `close` method called (687) | Lua raises an error |

`KeepsPromise` says that the text loads (`Loads`) and that it runs as `ToBeClosed` has it.
Each of the seven alone refutes it; put its name in the
`Constructs` of a copy of `CloseNestedReturn.cfg` to see the shortest run. The three that do
not load end a behaviour there.

### Pipeline

A file is a set of nodes. A node is what it is (`what`: a bitwise operator, `//`, an unsupported
feature, a float literal out of range, a `<const>` or `<close>` local, an assignment to a const) and the
kinds of positions on the way down to it (`at`). Every walk of the compiler is the same
recursion up to the children it leaves out, so a walk is the set of positions it
descends into, and it sees a node if `at` is within that set:

| walk | leaves out | used by |
|---|---|---|
| `Everywhere` | nothing | feature detection, the two operator passes, the emitter |
| `ValueWalk` | assignment targets | both lints, `strip_const_*` |
| `CloseWalk` | targets, conditions, `for` headers | `recurse_close_*` |

The actions are the stages in the order of `Compiler::compile`: `Parse`, `RunLints`, the gate,
`DetectFeatures`, `StripConst`, `LowerBitwise`, `LowerIntegerDivision`, `WrapClose`,
`InjectPolyfill`, `Emit`, with the way each command takes out of an error (`ParseFails`,
`GateRejects`, `LintEnds`, `EmitFails`). The features are detected before the passes and
used after them, so the fallback is right only if the passes lower exactly what was
detected; detecting again where it is used, as `default_pipeline` in the transformer does,
is the mutant that refutes `FallbackIffNeeded`.

A declaration with several close names is an error to Lua and none to valua
(`Translation`'s `two_closes`). `process_close_at` wraps the first it finds and takes the attribute of
every one (`transformer` 721-738), so the others become plain locals: they are nodes of their own,
`second_close`, next to the `close` of the same declaration, and `Wrap` treats the two differently.
`ClosesWrapped` is about the first.

Left to other modules: which assignments are accused (`ConstScopes`), what a wrapped close
variable does (`CloseExec`). Left out: layout, and errors of the write to stdout. The close
pass moves the rest of a block into a function expression in a value, a position that the
walks after it reach, so a moved node keeps its `at`.

### Translation

Five modes of behaviours, one run. In each, valua and Lua do the same thing side by side,
one lexeme, token, unit or operator at a time, so that TLC stops at the first difference.

*Reading a text* (`Read`). A text is chosen lexeme by lexeme. `Lexer` says what tokens it
becomes; valua's parser and Lua 5.5's compiler are two stack machines in the form of
`Descent` that read them. A machine's stack holds what the procedures that are being
executed still have to do; its tree is the sequence of nodes in the order they are
completed, which determines the tree. A node both have completed is dropped, so that the
trees need no bound: only their difference is kept.

*Printing a tree* (`ChooseNode`, `PrintToken`, `PushIndent`, `CompleteNode`). The tree is
chosen while it is printed: `Emitter!Printed` has for each part of a tree what each node
that may stand there prints, with the parentheses `emit_expr_prec` puts. Lua 5.1's
grammar reads the tokens. The trees are those a program Lua accepts leaves, after the
passes have removed the operators Lua 5.1 lacks.

*Spelling a string* (`Spell`, `ReadPrinted`). A unit of the source (a character, one of the
escapes) is read by `scan_quoted_string` into a code point and printed by
`emit_string_content` as characters; Lua 5.1 then reads them one at a time, as its lexer does: a
backslash, up to three digits, anything else. Only at the next unit's first character does
Lua 5.1 know that an escape of one digit is over, so what is compared with the bytes of
Lua 5.5 (`bytes`) is what has been read up to then, `Flush(reader).bytes`.

*Spelling an integer* (`SpellInteger`). `parse_dec_int` or `parse_hex_int` reads it into 64
bits, it is printed in the base it was written in (`codegen` 433-445: `0x`, or `-0x` for one that
was wrapped, when it was hexadecimal), and Lua 5.1 makes the nearest double of it (`Double`), whichever the base.

*Applying operators* (`Operate`, `Loop`, `Return`). Each bitwise operator is applied to the
last result: by the call `lower_bitwise` makes of it, run through the injected function
turn by turn, by Lua 5.5, and by LuaJIT's library. The last two are sets of bits, which
shares nothing with the loops.

Two rules are no part of a grammar's symbols and are checked as tokens are read. Lua refuses
`...` outside a function that takes it: `vararg` holds how deep the open functions that do are (the
chunk is one of them), `Depth` how deep the token is, and `Checked` turns what Lua makes of the token into
a refusal. And a numeral runs to Lua as far as digits, letters and points go, while valua's regular expressions
stop earlier: `Pointed` numerals (`3.`, `3.e5`) are good to Lua, `Malformed` ones (`1x`, `1and`, `3..`, `3.x`,
`1.2.3`) bad, and both are several good tokens to valua.

Where valua is known to differ, the construct has a name, and `odd` holds what has been met.
A text goes on after it, until a side refuses, the trees differ, or it has been read: `local x = 3.` with
`foo()` on the next line is one statement to valua, which indexes the 3. A chain of operators, a
string or an integer ends with its odd part. Each property exempts only the
names that can break it:

| construct | the code | the effect |
|---|---|---|
| `one_value` | parentheses leave nothing in the tree (`parser` 633) | `(f())` returns every value: another tree |
| `literal_suffix` | any primary expression takes suffixes (`parser` 579) | a literal is called or indexed: another tree, or no Lua |
| `negative_power` | a negative integer is printed with its sign (`codegen` 433) | in front of `^` the sign is applied last: another tree |
| `bare_base` | a string, table or function is indexed or called without parentheses (`codegen` 481, 514) | Lua 5.1 refuses the text, or reads another tree |
| `pointed` | no numeral ends with a point (`token` 361-372), so `3.` is a numeral and a `.` (`parser` 553, 579) | refused, or a name that follows is a field of it: another tree |
| `wide` | a decimal integer beyond u64 is no float (`token` 280) | refused |
| `surrogate` | escapes go through `char::from_u32` (`token` 254) | refused |
| `prefix_attribute` | `local <const> x` (`parser` 225) | refused |
| `named_vararg` | `...name` (`parser` 330) | refused |
| `global` | declarations of globals (`parser` 134) | refused |
| `malformed` | a numeral may run into a word, a point or another numeral (`token` 361-372) | `1and 2`, `3..x` are accepted |
| `outside_vararg` | `...` is an expression everywhere (`parser` 627, `codegen` 432) | accepted, and printed where Lua 5.1 refuses it too |
| `odd_escape` | an escape Lua does not define (`token` 135-268) | accepted |
| `no_variable` | any expression can be assigned to (`parser` 444) | accepted |
| `two_closes` | two `<close>` names in one declaration (`parser` 225) | accepted |
| `leftover` | what follows the chunk is dropped (`parser` 17) | accepted |
| `paren_start` | a statement may start with `(` on a line of its own (`codegen` 231) | Lua 5.1 refuses the text as ambiguous |
| `goto` | `goto` and labels are printed (`codegen` 190-385) | Lua 5.1 has none |
| `break_inside` | `break` before other statements is printed (`codegen` 248) | Lua 5.1 refuses the text |
| `stale_kind` | a character that starts no token sets no kind (`lexer` 102) | reported as another error |
| `high_byte` | byte escapes push a code point (`token` 221) | above 127 one byte becomes two |
| `control_digit` | a control character is printed with as few digits as it has (`codegen` 587) | a digit that follows, however it was spelled, belongs to the escape |
| `wrapped_decimal` | decimals that fit u64 only are wrapped (`token` 280) | Lua makes floats of them |
| `inexact` | integers are printed in full (`codegen` 433) | beyond 2^53 Lua 5.1 rounds them |
| `wide_operand` | operands are reduced to 32 bits (`polyfills` 9) | Lua 5.5 has 64 |
| `shift_count` | counts are reduced to 0..31 (`polyfills` 16) | Lua shifts everything out, or the other way |
| `negative_shr` | the sign bit is bit 31 (`polyfills` 17) | Lua shifts in zeros from bit 63 |
| `overflow` | results are reduced to 32 bits (`polyfills` 10) | Lua 5.5 has 64 |

Several of these are limits the repository states or implies (its bit library has 32 bits,
as the comment at `polyfills` 6 says); the table is about what the code does.

## What is checked

| run | properties | what it shows |
|---|---|---|
| `atomic_write` | `WholeOutputs`, `TmpAccounted`, `PublishedFrozen`, `ImplementsPromise`, `EveryBuildEnds`, `TypeOK` | concurrent, failing and killed builds keep the promise, and end |
| `const_scopes` | `SameAnswer`, `NoFalseAlarm`, `NothingMissed`, `Balanced`, `TypeOK` | for `<const>` the lint is Lua's rule up to the six constructs, and what it lets through without unseen assignments is read-only for another reason |
| `close_exec` | `KeepsPromise`, `ClosedOnce`, `NewestFirst`, `TypeOK` | without the seven constructs the rewritten program loads and does what Lua promises |
| `close_anything` | `ClosedOnce`, `NewestFirst` | with all of them, a wrapped variable is still closed once and in order |
| `pipeline` | `OnlyLua51`, `FallbackIffNeeded`, `GateHolds`, `ClosesWrapped`, `SameVerdict`, `TypeOK` | what the stages leave is what the emitted text needs; the commands agree |
| `translation` | `SameTreeRead`, `SameTreePrinted`, `NothingRefused`, `NothingSlipsThrough`, `TextLoads`, `ErrorNamed`, `SameLiteral`, `SameValue`, `LikeBitLibrary`, `TypeOK` | but for the constructs above, valua accepts what Lua 5.5 accepts, as the same tree, and prints what Lua 5.1 reads as that tree; literals and operators keep their values |
| `gate_hole` | `StrictlyBlocked`, violated | an unsupported feature inside an assignment target is emitted |
| `silent_build` | `RejectionsShown`, violated | `build` rejects a file and renders no diagnostic |
| `const_mirror` | `MirrorsLua`, violated | E0301 does not mirror Lua's compiler |
| `close_nested_return` | `KeepsPromise`, violated | a nested `return` does not leave the function |
| `close_break_out` | `Loads`, violated | a `break` out of a closed scope is emitted where Lua refuses it |
| `close_error_passed` | `ErrorPassed`, violated | the closing function is not told the error |

Bounds.

* `AtomicWrite.cfg`: three builds, so that two can race while a third has died and left its
  pid; two outputs with one stem, so that a temporary name is shared by outputs as
  well; two pids, so that one is given out again; texts of 0, 1 and 2 blocks, so that there
  is an empty one, one that is whole or absent, and one that can be cut.
* `ConstScopes.cfg`: two names, three levels of nesting and three declarations: a const
  local, a declaration that hides it, and one in between. The name lists have every pair
  of attributes that can shadow, among them one name declared twice by one statement.
* `CloseExec.cfg`: three nested frames and two variables, so that a function can call
  through a block, or a closing function can have a variable and be interrupted; `nil`
  and one other value tell an error from the error that replaces it, and a list of
  values from its first. `CloseAnything.cfg` has two frames, all constructs.

* `Translation.cfg`: two open brackets and one open operator in a text, so that a block, a
  call, a table or a function is inside another one, and every operator of a set with one
  of each associativity class stands beside every other, on either side; a text has any
  number of statements. Trees have at most three unfinished nodes: a function in a call in
  a statement, an operator under an operator under another. Strings have three code points, so
  that an escape stands between two others. Integers and operators: six bits for Lua's
  integers, three for a double's mantissa and three for the library's numbers, so that there are operands and counts on both sides of every
  boundary (every value and every count is tried); chains have any length.
  `SourceOps` has nine operators of eight binding powers, of both associativities and on both sides of
  the prefix operators; the rest (`and`, `&`, `<<`, and those that share a line of the tables with one of these) climb
  as Lua's do by theorem (`OperatorsClimbAlike`), and in texts by `ReadingSameTree`. `EmittedOps` has one of each
  binding power that Lua 5.1 has.
* `Pipeline.cfg`: files of up to two nodes, each with up to two kinds of positions above it.
  A walk compares one node's positions with one set, and a third position adds nothing to
  two that are both inside, or of which one is outside; two nodes, because a property
  relates at most two (an operator that is detected, another that is lowered). Every
  order of the three commands is run, with both targets.

`SameVerdict` makes one exception: a float literal out of range (`1e999`) is parsed as an
infinity, which the emitter refuses (`codegen` 450-465); `lint` does not emit and accepts
the file.

`CHECK_DEADLOCK FALSE` everywhere: builds, walks, programs, commands and texts end.

`close_anything` stays beside the proofs of its two properties: it is the run in which
programs have the diverging constructs.

Fairness. Only `EveryBuildEnds` needs any: weak fairness of each process's own step
(`Run`). The OS keeps scheduling a runnable process and a file system call returns,
with success or an error; nothing is assumed about which, nor about kills.

## What is proved

For every value of the constants, by TLAPS:

* `OutputsWhole`, `TmpsAccounted`, `OutputsFrozen`: the safety properties of `AtomicWrite`;
  `BuildsKeepPromise`: it implements `OutputFile`. The inductive invariant (`AtomicWrite!IInv`)
  adds to them why they hold: every name is the only one of its inode (`OneName`), live
  builds have different pids (`PidsDiffer`), and an open temporary file holds exactly the
  first blocks of its own build (`OwnPrefix`), whatever was there before. Whole outputs alone are
  not inductive: a rename publishes whatever the temporary file holds.
  Assumed: `TargetAssumption`, `StemAssumption`, `BlocksAssumption`, `NameAssumption` (output
  paths are no temporary names).
* `LookupIsLuas`, `AlarmsDeserved`, `ErrorsReported`, and the invariant `AlwaysIInv` of
  `ConstScopes`: frames and blocks of active variables correspond level by level
  (`FramesMatch`), and inner variables are newer than outer ones (`ActiveInOrder`). The
  correspondence is claimed for walks that have met no function in a condition of `repeat`
  (`until_closure`): there the lint has one frame fewer than Lua has blocks. The
  entry of a frame may be anything where an unregistered variable hides what was
  there, which is why `FramesMatch` constrains it by the newest variable only
  (`Recorded`). Assumed: `ListsAssumption`, `BoundsAssumption`.
* `JumpsKept`, `PromiseKept`: without the diverging constructs (`Constructs = {}`) `CloseExec`
  implements `ToBeClosed`. The invariant says that a frame Lua sees being left by a
  `return` has around it only closures whose block ends with a `return` too (`ReturnKept`),
  and a `break` none (`BreakKept`). Assumed: `ValuesAssumption`, `ConstructsAssumption`,
  `BoundsAssumption`.

* `TextsRun`, `GateKept`, `ClosesKept`, `VerdictsAgree`: every invariant of `Pipeline`'s passing run, for
  files of any number of nodes anywhere. The invariant says that each stage has made
  of the source exactly what the stages before it make of it (`TreeOfStage`, `Decided`), and the
  properties follow from what the four passes and the emitter make of one node
  (`NodeEnds`). Assumed: `ProgramsAssumption` (a file's nodes are in positions the
  grammar has). `OperatorsLowered` is the part of it that `OnlyLua51` states.
* `ClosedAtMostOnce`, `NewestAlwaysFirst`: for every set of `Constructs`, so for the programs the
  refinement excludes too. The invariant (`CloseExec!OInv`, theorem `AlwaysInOrder`) says
  that the variables still to be closed, read along the stack of frames and in each frame
  along its nested closures, have rising identities (`Ordered`), none beyond the last one
  opened (`UpTo`), and that a frame in its cleanup has one to close (`CleanupReady`). A
  cleanup takes the last of the last frame: the newest, and one no other place holds.
  Neither property is inductive alone, as both speak of `closed` and of the frames' order
  only at the moment of a cleanup.
* `StackBalanced`: `Balanced` for any nesting and any program. Its invariant (`BInv`) adds that a
  declaration being walked has names left to register (`PendingNames`), and that every
  active variable belongs to a block that is open (`InOpenBlock`): when the last block
  ends, no variable is left.
* `FilesTyped`, `ScopesTyped`, `CloseTypes`, `PipelineTyped`: the type invariants of the four modules.
* `LibraryIsLuaJITs`, `LoweringsSame`: `LikeBitLibrary` and `SameValue`, for all widths of
  Lua's integers and of the library's (the code has 64 and 32), all operands and counts, and
  chains of any length. That a call's result is right says nothing about its loop, so the
  invariant (`OperatorInv`, theorem `CallsOnCourse`) follows the call turn by turn: of a
  joining call, the bits below the mask are already those of the result in `r`, and the bits
  above are still in `a` and `b`, moved down; of a shift, `a` moved by the turns that are
  left is the result (`Underway`). A call is also related to LuaJIT's library whatever was
  met, and to Lua 5.5 only as long as nothing odd was, since one odd operation is enough for
  the later values to differ. It rests on `FixedWidth_proofs`: a number of `w` bits is
  determined by them (`SameFixed`), `\div` and `%` by powers of two take bits away from
  either end, and adding a bit that is not there sets it. Assumed: `WidthAssumption`,
  `BitWidthAssumption` (widths are positive), and that Lua's integers are no narrower than the
  library's.
* `LiteralsSame`: `SameLiteral`, for strings of any length over all code points and integers of
  any width. The invariant (`LiteralInv`, theorem `LiteralsOnCourse`) says what Lua 5.1 is in the
  middle of: text that stands for itself, an escape by a letter, or one by digits, each at
  the point where it is broken off; what it has read so far and what that amounts to make
  up `bytes`. An escape of one or two digits stays open until the next character, which is
  why the invariant also has to say that this is no digit: the one thing `control_digit`
  exempts, and that high bytes are never digits or backslashes is what makes it true of
  UTF-8. For integers, `IntegerInv`: an integer within the mantissa is its own double.
* `ErrorsNamed`: `ErrorNamed`, inductive as it stands. `TranslationTypeOK`: of its conjuncts the last
  one is the hard one, that the emitter never comes to refuse. Its invariant (`PrinterInv`) is that what
  is still to be printed is a sequence of the emitter's own symbols, so that each part of
  the tree it is asked for is one of the sixteen it knows; each alternative of each part is
  gone through (`PrintedPrintable`). Assumed: `ConstantsAssumption`.
* `OperatorsClimbAlike`, `ParenthesesNeeded`: the four tables of operators (`binary_prec`, `binary_op_prec`,
  Lua 5.5's and Lua 5.1's priorities) agree on every pair of operators. The second is a lemma about
  single decisions, not about texts: the part of `SameTreePrinted` and `TextLoads` that does not go
  through the machines' recursion.
* `ReadingNothingRefused`, `ReadingNothingSlipsThrough`, `ReadingSameTree`: `NothingRefused`,
  `NothingSlipsThrough` and `SameTreeRead`, for texts of any length, brackets and operators nested to any
  depth, and any set of Lua's lexemes. See the next section. Assumed: `ConstantsAssumption`, which says of
  `SourceLexemes` only that they are lexemes the model has (`TokenKinds`, the words of the two parsers, and
  `Lexemes`, what the lexer makes more or less of).

### The two parsers

The three properties compare two stack machines after any text, and the machines have different grain:
what is one procedure of one parser is several of the other, or none, and one token can close any number of
procedures on both sides. None of the properties is inductive: that neither side has refused yet, with
equal trees, says nothing about what they will do with the next token. The invariant, `ReadingInv`,
has two parts.

*`Standing`*, what the two are to each other. Both wait for a token with stacks that are alike
(`Settled`), or both have ended, or both have refused; or one of the listed constructs has
been met, and one side alone has refused.

*`Level`*, what their trees are: unless a construct that changes the tree has been met, of the nodes
completed so far nothing is left after what both have is dropped, for as long as both read on.

After `pointed` or `literal_suffix` (`Apart`) the two are in different statements, and neither part is
claimed: a field, a call or an index on one side is the end of an expression on the other, and the texts that
follow lead them anywhere. The two are in `OtherTree`, `MayRefuse` and `MayAccept`, so that the properties say
nothing of such texts either. Every other construct leaves the parsers where the
invariant can still speak of them, or one side refuses the text at once.

That stacks of any depth are alike is a least fixed point: `Alike` is the smallest relation on stacks that
holds of the two bottoms (`rest`, and Lua's `eof`) and is closed under putting words of the two grammars on
top of each other (`Closed`). `Fit` lists the pairs of single symbols, `Matched` the pairs of longer words
that stand for each other where a token is about to be read: `suffixes` over `climb` beside
Lua's `climb` alone, `attribute_name` beside the three symbols Lua has pushed for it, and so on. What is true of all
alike stacks is proved by showing that the stacks it is true of are closed under these rules (`AlikePairs`): the
induction that the prover's library cannot express.

The proof then goes token by token. The equations of the two grammars (end of `Translation_proofs`) say what
each procedure does with each token; `Agreement_proofs` runs both sides, for each pair of
words, to where the token is read, and shows that what is left is alike again with the same nodes
completed, or that both refuse (`AgreeOn`), and that without a token both sides only complete the same nodes
(`Settles`). The parenthesis Lua remembers, to tell a variable from a call or a value, is carried along
(`Near`). `Reading_proofs` finds where the odd constructs can begin, shows that there, and only there, their names are
recorded, and follows each of them. That a machine's run ends at all is not in the
definition of the recursion, since a step may push more than it takes; it is shown from finite
approximations of it.

Writing this proof changed the model in three places. `literal_suffix` had also been recorded where Lua too
is about to read a suffix, after a parenthesis or behind the word `global`, and so it exempted texts that need no
exemption; it is now recorded only where Lua takes none (`SuffixPlace`). The words the machines speak are
explicit sets (`TokenKinds`, `NodeKinds`, `Vocabulary`) where they had been any strings, and a procedure has an
effect for each of them. And the two halves of what was one property, about reading and about
printing, are two (`SameTreeRead`, `SameTreePrinted`).

### What is only model-checked

* `EveryBuildEnds`: liveness under fairness.
* `SameTreePrinted` and `TextLoads`: that Lua 5.1 reads what the emitter prints. Here the tokens are not chosen but
  printed by a third machine, from a tree that is chosen as it goes: an invariant would relate the emitter's
  stack of parts, with the parentheses still to be closed, to the stack of Lua 5.1's grammar, whose equations, token by
  token, are not those of Lua 5.5. That proof has not been done. What TLC shows of them is bounded by the nodes that are unfinished at
  once (three), not by the length of a text.

## What is not modelled

* A machine crash: `atomic_write` does not sync, so a rename may outlive the data it
  published. The model has process crashes only.
* Hard links and symbolic links among outputs, and outputs whose name is a temporary
  name.
* In `CloseExec`: coroutines that yield across `pcall`, which Lua 5.1 does not let them (a documented limitation); the
  conditions of loops (a `repeat` whose body has a `<close>` variable evaluates its
  condition after the cleanup); assignments to a `<close>` variable; programs whose own
  names are `__valua_close`, `__valua_ok` or `__valua_result`, or that redefine or hide `pcall`, `error`,
  `getmetatable` or `type`; and the limit of 60 upvalues Lua 5.1 puts on a function, the
  emitted closure included.
* In `Pipeline`: whether a file parses (`Translation` says which do), `explain` and `version`,
  write errors on stdout, and locals of the program named `bit`, `math` or `pcall`, which
  capture the calls the passes emit.
* In `Translation`: line and column numbers and spans, white space and comments that end, the
  `#!` line, indentation, the values of floats and how they are printed, attributes on
  the printed side (the passes have removed them), and those of Lua's checks that need more than the
  open functions: that a `goto` has a label and a `break` a loop (valua accepts what Lua
  refuses there), declarations of globals, assignments to constants (`ConstScopes`). So are the limits of
  both compilers: 200 locals, 255 upvalues (60 in Lua 5.1), 200 levels of nesting, the registers
  and constants of a function.
  The recursion of parser and emitter has no limit in the code, nor in the model: a
  stack overflow is not a state of either. The bit library is modelled on integers: of a
  number with a fraction it takes the floor, where Lua 5.5 raises an error.
* Diagnostics: the reporters' rendering of source lines and carets is layout; that errors
  are reported at all, and the exit they lead to, is in `Pipeline`. The syntax tree has
  types and no behaviour.
* The parts listed as not modelled in `PROJECT.json`; bench, fuzz and examples stay out.

## Plan

Done: the file system, the const lint, the close transform, the pipeline, both ends of the
translation, the bit library; every safety property is a theorem but for the two about the printed
text. What is left, in this order:

1. Those two: the equations of Lua 5.1's grammar, then a relation between what `Emitter` has still to print and
   what `LuaSyntax` still expects, along the lines of `Alike`; each part of a tree is one case.
2. `CloseExec`: the condition of a `repeat` whose body has a `<close>` variable, and assignments to
   such a variable, which need values of variables in the frames.
3. Capture: a local of the program named `bit`, `math`, `pcall` or `error`, with
   `ConstScopes`' resolution applied to the emitted tree.
4. `Pipeline`: stdout as a file that can fail, and the reporters' counts behind the exit codes.
