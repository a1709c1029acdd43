-------------------------- MODULE Pipeline_proofs --------------------------
(* Proofs about Pipeline.  The inductive invariant says what each stage    *)
(* has made of the source; what remains is to read off the last stage what *)
(* became of every node.                                                   *)
EXTENDS Pipeline, TLAPS

-----------------------------------------------------------------------------
(* What a rewriting walk makes of one node.                                *)
Becomes(n, m, walk, from, to) ==
    /\ m.at = n.at
    /\ m.what = IF n.what = from /\ n.at \subseteq walk THEN to ELSE n.what

(* A walk rewrites nodes one by one: it loses none and invents none.       *)
LEMMA RewriteMoves ==
    ASSUME NEW t \in SUBSET Node, NEW walk, NEW from, NEW to \in Kinds
    PROVE  /\ Rewrite(t, walk, from, to) \in SUBSET Node
           /\ \A m \in Rewrite(t, walk, from, to) : \E n \in t : Becomes(n, m, walk, from, to)
           /\ \A n \in t : \E m \in Rewrite(t, walk, from, to) : Becomes(n, m, walk, from, to)
  <1> DEFINE image(n) == IF n \in Seen(t, walk, from) THEN [n EXCEPT !.what = to] ELSE n
  <1>1. ASSUME NEW n \in t
        PROVE  image(n) \in Node /\ Becomes(n, image(n), walk, from, to)
    BY <1>1 DEF Seen, Node, Becomes
  <1>2. Rewrite(t, walk, from, to) = {image(n) : n \in t}
    BY DEF Rewrite
  <1> HIDE DEF image
  <1> QED
    BY <1>1, <1>2

(* The kind a node of the source ends with.                                *)
FinalKind(n) ==
    CASE n.what = "bitop" -> "bit_call"
      [] n.what = "idiv"  -> "floor_call"
      [] n.what = "const" -> "local"
      [] n.what = "close" -> IF n.at \subseteq CloseWalk THEN "wrapped" ELSE "local"
      [] n.what = "second_close" -> "local"
      [] OTHER            -> n.what

Ends(n, m) == m.at = n.at /\ m.what = FinalKind(n)

(* One node through the passes, the last of which rewrites twice, and the  *)
(* emitter.                                                                *)
LEMMA NodeEnds ==
    ASSUME NEW n \in SourceNode, NEW a \in Node, NEW b \in Node, NEW c \in Node,
           NEW d \in Node, NEW e \in Node, NEW m \in Node,
           Becomes(n, a, ValueWalk, "const", "local"),
           Becomes(a, b, Everywhere, "bitop", "bit_call"),
           Becomes(b, c, Everywhere, "idiv", "floor_call"),
           Becomes(c, d, CloseWalk, "close", "wrapped"),
           Becomes(d, e, CloseWalk, "second_close", "local"),
           m.at = e.at,
           m.what = IF e.what \in Attributed THEN "local" ELSE e.what
    PROVE  Ends(n, m)
  <1>1. n.at \subseteq Everywhere /\ n.what \in Expressions \cup Statements
    BY DEF SourceNode, Everywhere
  <1>2. a.at = n.at /\ b.at = n.at /\ c.at = n.at /\ d.at = n.at /\ e.at = n.at /\ m.at = n.at
    BY DEF Becomes
  <1>3. a.what = n.what \/ (n.what = "const" /\ a.what = "local")
    BY DEF Becomes
  <1>4. b.what = IF a.what = "bitop" THEN "bit_call" ELSE a.what
    BY <1>1, <1>2 DEF Becomes
  <1>5. c.what = IF b.what = "idiv" THEN "floor_call" ELSE b.what
    BY <1>1, <1>2 DEF Becomes
  <1>6. d.what = IF c.what = "close" /\ n.at \subseteq CloseWalk THEN "wrapped" ELSE c.what
    BY <1>2 DEF Becomes
  <1>7. e.what = d.what \/ (d.what = "second_close" /\ e.what = "local")
    BY DEF Becomes
  <1> QED
    BY <1>1, <1>2, <1>3, <1>4, <1>5, <1>6, <1>7
       DEF Ends, FinalKind, Expressions, Statements, Attributed

(* The emitter drops attributes and nothing else.                          *)
LEMMA EmittedMoves ==
    ASSUME NEW t \in SUBSET Node
    PROVE  /\ Emitted(t) \in SUBSET Node
           /\ \A m \in Emitted(t) : \E n \in t :
                m.at = n.at /\ m.what = IF n.what \in Attributed THEN "local" ELSE n.what
           /\ \A n \in t : \E m \in Emitted(t) :
                m.at = n.at /\ m.what = IF n.what \in Attributed THEN "local" ELSE n.what
  <1> DEFINE image(n) == IF n.what \in Attributed THEN [n EXCEPT !.what = "local"] ELSE n
             ok(n, m) == m.at = n.at
                         /\ m.what = IF n.what \in Attributed THEN "local" ELSE n.what
  <1>1. ASSUME NEW n \in t PROVE image(n) \in Node /\ ok(n, image(n))
    BY <1>1 DEF Node, Kinds, Attributed
  <1>2. Emitted(t) = {image(n) : n \in t}
    BY DEF Emitted
  <1>3. /\ Emitted(t) \in SUBSET Node
        /\ \A m \in Emitted(t) : \E n \in t : ok(n, m)
        /\ \A n \in t : \E m \in Emitted(t) : ok(n, m)
    <2> HIDE DEF image, ok
    <2> QED
      BY <1>1, <1>2
  <1> QED
    BY <1>3

(* The trees between the passes are sets of nodes.                         *)
LEMMA TreesTyped ==
    ASSUME NEW s \in SUBSET SourceNode
    PROVE  /\ s \in SUBSET Node /\ Stripped(s) \in SUBSET Node
           /\ Bitwised(s) \in SUBSET Node /\ Divided(s) \in SUBSET Node
           /\ Wrapped(s) \in SUBSET Node
  <1>1. s \in SUBSET Node
    BY DEF SourceNode, Node, Kinds
  <1>2. Stripped(s) \in SUBSET Node
    BY <1>1, RewriteMoves DEF Stripped, Kinds
  <1>3. Bitwised(s) \in SUBSET Node
    BY <1>2, RewriteMoves DEF Bitwised, Kinds
  <1>4. Divided(s) \in SUBSET Node
    BY <1>3, RewriteMoves DEF Divided, Kinds
  <1> QED
    <2>1. Rewrite(Divided(s), CloseWalk, "close", "wrapped") \in SUBSET Node
      BY <1>4, RewriteMoves DEF Kinds
    <2>2. Wrapped(s) \in SUBSET Node
      BY <2>1, RewriteMoves DEF Wrapped, Wrap, Kinds
    <2> QED
      BY <1>1, <1>2, <1>3, <1>4, <2>2

(* What became of every node of the source, read in both directions.       *)
LEMMA TextOfNodes ==
    ASSUME NEW s \in SUBSET SourceNode
    PROVE  /\ Emitted(Wrapped(s)) \in SUBSET Node
           /\ \A m \in Emitted(Wrapped(s)) : \E n \in s : Ends(n, m)
           /\ \A n \in s : \E m \in Emitted(Wrapped(s)) : Ends(n, m)
  <1> DEFINE A == Stripped(s)
             B == Bitwised(s)
             C == Divided(s)
             D == Rewrite(C, CloseWalk, "close", "wrapped")
             E == Wrapped(s)
             T == Emitted(E)
  <1>0. {"local", "bit_call", "floor_call", "wrapped"} \subseteq Kinds
    BY DEF Kinds
  <1>1. /\ s \in SUBSET Node /\ A \in SUBSET Node /\ B \in SUBSET Node /\ C \in SUBSET Node
        /\ D \in SUBSET Node /\ E \in SUBSET Node /\ T \in SUBSET Node
    BY <1>0, TreesTyped, RewriteMoves, EmittedMoves
  <1>2. /\ \A m \in A : \E n \in s : Becomes(n, m, ValueWalk, "const", "local")
        /\ \A n \in s : \E m \in A : Becomes(n, m, ValueWalk, "const", "local")
    BY <1>0, <1>1, RewriteMoves DEF Stripped
  <1>3. /\ \A m \in B : \E n \in A : Becomes(n, m, Everywhere, "bitop", "bit_call")
        /\ \A n \in A : \E m \in B : Becomes(n, m, Everywhere, "bitop", "bit_call")
    BY <1>0, <1>1, RewriteMoves DEF Bitwised
  <1>4. /\ \A m \in C : \E n \in B : Becomes(n, m, Everywhere, "idiv", "floor_call")
        /\ \A n \in B : \E m \in C : Becomes(n, m, Everywhere, "idiv", "floor_call")
    BY <1>0, <1>1, RewriteMoves DEF Divided
  <1>5. /\ \A m \in D : \E n \in C : Becomes(n, m, CloseWalk, "close", "wrapped")
        /\ \A n \in C : \E m \in D : Becomes(n, m, CloseWalk, "close", "wrapped")
    BY <1>0, <1>1, RewriteMoves
  <1>8. /\ \A m \in E : \E n \in D : Becomes(n, m, CloseWalk, "second_close", "local")
        /\ \A n \in D : \E m \in E : Becomes(n, m, CloseWalk, "second_close", "local")
    BY <1>0, <1>1, RewriteMoves DEF Wrapped, Wrap
  <1>9. /\ \A m \in T : \E n \in E :
             m.at = n.at /\ m.what = IF n.what \in Attributed THEN "local" ELSE n.what
        /\ \A n \in E : \E m \in T :
             m.at = n.at /\ m.what = IF n.what \in Attributed THEN "local" ELSE n.what
    BY <1>1, EmittedMoves
  <1> HIDE DEF A, B, C, D, E, T
  <1>6. ASSUME NEW m \in T PROVE \E n \in s : Ends(n, m)
    <2>1. PICK e \in E : m.at = e.at
                         /\ m.what = IF e.what \in Attributed THEN "local" ELSE e.what
      BY <1>9
    <2>7. PICK d \in D : Becomes(d, e, CloseWalk, "second_close", "local")
      BY <1>8
    <2>2. PICK c \in C : Becomes(c, d, CloseWalk, "close", "wrapped")
      BY <1>5
    <2>3. PICK b \in B : Becomes(b, c, Everywhere, "idiv", "floor_call")
      BY <1>4
    <2>4. PICK a \in A : Becomes(a, b, Everywhere, "bitop", "bit_call")
      BY <1>3
    <2>5. PICK n \in s : Becomes(n, a, ValueWalk, "const", "local")
      BY <1>2
    <2>6. n \in SourceNode /\ {a, b, c, d, e, m} \subseteq Node
      BY <1>1
    <2> QED
      BY <2>1, <2>2, <2>3, <2>4, <2>5, <2>6, <2>7, NodeEnds
  <1>7. ASSUME NEW n \in s PROVE \E m \in T : Ends(n, m)
    <2>1. PICK a \in A : Becomes(n, a, ValueWalk, "const", "local")
      BY <1>2
    <2>2. PICK b \in B : Becomes(a, b, Everywhere, "bitop", "bit_call")
      BY <1>3
    <2>3. PICK c \in C : Becomes(b, c, Everywhere, "idiv", "floor_call")
      BY <1>4
    <2>4. PICK d \in D : Becomes(c, d, CloseWalk, "close", "wrapped")
      BY <1>5
    <2>7. PICK e \in E : Becomes(d, e, CloseWalk, "second_close", "local")
      BY <1>8
    <2>5. PICK m \in T : m.at = e.at
                         /\ m.what = IF e.what \in Attributed THEN "local" ELSE e.what
      BY <1>9
    <2>6. n \in SourceNode /\ {a, b, c, d, e, m} \subseteq Node
      BY <1>1
    <2> QED
      BY <2>1, <2>2, <2>3, <2>4, <2>5, <2>6, <2>7, NodeEnds
  <1> QED
    BY <1>1, <1>6, <1>7 DEF E, T

(* No pass makes a literal printable, or unprintable.                      *)
LEMMA UnprintableKept ==
    ASSUME NEW s \in SUBSET SourceNode
    PROVE  Unprintable(Wrapped(s)) = {} <=> Unprintable(s) = {}
  <1>1. \A t \in SUBSET Node : Unprintable(t) = {} <=> \A n \in t : n.what # "infinite"
    BY DEF Unprintable, Seen, Everywhere, Node
  <1>2. s \in SUBSET Node /\ Wrapped(s) \in SUBSET Node
    BY TreesTyped
  <1>3. \A n \in s, m \in Node : Ends(n, m) => (m.what = "infinite" <=> n.what = "infinite")
    BY DEF Ends, FinalKind, SourceNode, Expressions, Statements
  <1>4. \A m \in Emitted(Wrapped(s)) : m \in Node /\ \E n \in s : Ends(n, m)
    BY TextOfNodes
  <1>5. \A n \in s : \E m \in Emitted(Wrapped(s)) : m \in Node /\ Ends(n, m)
    BY TextOfNodes
  <1>6. (\A m \in Emitted(Wrapped(s)) : m.what # "infinite") <=> \A n \in s : n.what # "infinite"
    BY <1>3, <1>4, <1>5
  <1>7. (\A m \in Emitted(Wrapped(s)) : m.what # "infinite")
          <=> \A d \in Wrapped(s) : d.what # "infinite"
    <2>1. \A m \in Emitted(Wrapped(s)) : \E d \in Wrapped(s) :
             m.what = IF d.what \in Attributed THEN "local" ELSE d.what
      BY <1>2, EmittedMoves
    <2>2. \A d \in Wrapped(s) : \E m \in Emitted(Wrapped(s)) :
             m.what = IF d.what \in Attributed THEN "local" ELSE d.what
      BY <1>2, EmittedMoves
    <2> QED
      BY <2>1, <2>2 DEF Attributed
  <1> QED
    BY <1>1, <1>2, <1>6, <1>7
-----------------------------------------------------------------------------
(* The lints do not look at the target, so every command asks the same.    *)
LEMMA SameLints ==
    ASSUME NEW t, NEW tgt
    PROVE  Lints(t, tgt) = Lints(t, "Lua51")
  BY DEF Lints

LEMMA LintsTyped ==
    ASSUME NEW t \in SUBSET Node
    PROVE  Lints(t, "Lua51") \in SUBSET Node
  BY DEF Lints, Guard, Seen

LEMMA DetectTyped ==
    ASSUME NEW t
    PROVE  Detect(t) \in SUBSET Features
  BY DEF Detect, FeatureOf, Features

LEMMA PreambleTyped ==
    ASSUME NEW fs, NEW tgt
    PROVE  PolyfillsFor(Suppress(fs, tgt)) \in SUBSET Features
  BY DEF PolyfillsFor, Features

(* Whether the fallback is put in front, by what the source has.           *)
LEMMA PreambleOf ==
    ASSUME NEW t, NEW tgt
    PROVE  Preamble(t, tgt) # {} <=> /\ tgt # "LuaJIT"
                                     /\ Seen(t, Everywhere, "bitop") # {}
  <1>1. "bitwise_ops" \in Detect(t) <=> Seen(t, Everywhere, "bitop") # {}
    BY DEF Detect, FeatureOf
  <1>2. Preamble(t, tgt) # {} <=> "bitwise_ops" \in Suppress(Detect(t), tgt)
    BY DEF Preamble, PolyfillsFor
  <1> QED
    BY <1>1, <1>2 DEF Suppress

LEMMA InitIInv == Init => IInv
  <1> SUFFICES ASSUME Init PROVE IInv
    OBVIOUS
  <1>1. source \in SUBSET SourceNode
    BY ProgramsAssumption DEF Init
  <1> QED
    BY <1>1 DEF Init, IInv, TypeOK, TreeOfStage, Decided, Verdicts, TextOfSource, Stages

(* A step that leaves what has been decided alone keeps it.                *)
LEMMA StartInv ==
    ASSUME IInv, NEW c \in Commands, NEW t \in Targets, Start(c, t)
    PROVE  IInv'
  BY DEF IInv, TypeOK, TreeOfStage, Decided, Verdicts, TextOfSource, Accusable, Start, Goto, Stages

LEMMA ParseInv ==
    ASSUME IInv, Parse
    PROVE  IInv'
  <1>1. source \in SUBSET Node
    BY TreesTyped DEF IInv, TypeOK
  <1> QED
    BY <1>1 DEF IInv, TypeOK, TreeOfStage, Decided, Verdicts, TextOfSource, Accusable, Parse,
       Goto, Stages

LEMMA ParseFailsInv ==
    ASSUME IInv, ParseFails
    PROVE  IInv'
  BY DEF IInv, TypeOK, TreeOfStage, Decided, Verdicts, TextOfSource, Accusable, ParseFails,
     Exit, Goto, Stages

LEMMA RunLintsInv ==
    ASSUME IInv, RunLints
    PROVE  IInv'
  <1>1. Lints(tree, target) = Accusable /\ diags' = Accusable
    BY SameLints DEF IInv, TreeOfStage, Accusable, RunLints, Goto
  <1>2. Accusable \in SUBSET Node
    BY TreesTyped, LintsTyped DEF IInv, TypeOK, Accusable
  <1>3. TypeOK'
    BY <1>1, <1>2 DEF IInv, TypeOK, RunLints, Goto, Stages
  <1>4. Decided'
    BY <1>1 DEF IInv, Decided, RunLints, Goto, Accusable
  <1> QED
    BY <1>3, <1>4 DEF IInv, TreeOfStage, Verdicts, TextOfSource, Accusable, RunLints, Goto

(* A command ends with the verdict the diagnostics give.                   *)
LEMMA LintEndsInv ==
    ASSUME IInv, LintEnds
    PROVE  IInv'
  <1>1. diags = Accusable /\ parses /\ diags \in SUBSET Node /\ command \in Commands
    BY DEF IInv, TypeOK, Decided, LintEnds, Exit, Goto
  <1>2. TypeOK'
    BY <1>1 DEF IInv, TypeOK, LintEnds, Exit, Goto, Stages
  <1>3. Verdicts'
    BY <1>1 DEF IInv, TypeOK, Verdicts, LintEnds, Exit, Goto, Accusable
  <1> QED
    BY <1>2, <1>3 DEF IInv, TreeOfStage, Decided, TextOfSource, Accusable, LintEnds, Exit, Goto

LEMMA GateRejectsInv ==
    ASSUME IInv, GateRejects
    PROVE  IInv'
  <1>1. diags = Accusable /\ diags # {} /\ diags \in SUBSET Node /\ command \in Commands
    BY DEF IInv, TypeOK, Decided, GateRejects, Exit, Goto
  <1>2. TypeOK'
    BY <1>1 DEF IInv, TypeOK, GateRejects, Exit, Goto, Stages
  <1>3. Verdicts'
    BY <1>1 DEF IInv, TypeOK, Verdicts, GateRejects, Exit, Goto, Accusable
  <1> QED
    BY <1>2, <1>3 DEF IInv, TreeOfStage, Decided, TextOfSource, Accusable, GateRejects, Exit, Goto

LEMMA GatePassesInv ==
    ASSUME IInv, GatePasses
    PROVE  IInv'
  BY DEF IInv, TypeOK, TreeOfStage, Decided, Verdicts, TextOfSource, Accusable, GatePasses,
     Goto, Stages

LEMMA DetectInv ==
    ASSUME IInv, DetectFeatures
    PROVE  IInv'
  <1>1. features' = Detect(source) /\ Detect(source) \in SUBSET Features
    BY DetectTyped DEF IInv, TreeOfStage, DetectFeatures, Goto
  <1>2. TypeOK'
    BY <1>1 DEF IInv, TypeOK, DetectFeatures, Goto, Stages
  <1> QED
    BY <1>1, <1>2 DEF IInv, TreeOfStage, Decided, Verdicts, TextOfSource, Accusable,
       DetectFeatures, Goto

(* A pass: the tree of its stage becomes the tree of the next one.         *)
LEMMA StripConstInv ==
    ASSUME IInv, StripConst
    PROVE  IInv'
  <1>1. tree' = Stripped(source) /\ tree' \in SUBSET Node
    BY TreesTyped DEF IInv, TypeOK, TreeOfStage, StripConst, Pass, Goto, Stripped
  <1>2. TypeOK'
    BY <1>1 DEF IInv, TypeOK, StripConst, Pass, Goto, Stages
  <1> QED
    BY <1>1, <1>2 DEF IInv, TreeOfStage, Decided, Verdicts, TextOfSource, Accusable,
       StripConst, Pass, Goto

LEMMA LowerBitwiseInv ==
    ASSUME IInv, LowerBitwise
    PROVE  IInv'
  <1>1. tree' = Bitwised(source) /\ tree' \in SUBSET Node
    BY TreesTyped DEF IInv, TypeOK, TreeOfStage, LowerBitwise, Pass, Goto, Bitwised
  <1>2. TypeOK'
    BY <1>1 DEF IInv, TypeOK, LowerBitwise, Pass, Goto, Stages
  <1> QED
    BY <1>1, <1>2 DEF IInv, TreeOfStage, Decided, Verdicts, TextOfSource, Accusable,
       LowerBitwise, Pass, Goto

LEMMA LowerIntegerDivisionInv ==
    ASSUME IInv, LowerIntegerDivision
    PROVE  IInv'
  <1>1. tree' = Divided(source) /\ tree' \in SUBSET Node
    BY TreesTyped DEF IInv, TypeOK, TreeOfStage, LowerIntegerDivision, Pass, Goto, Divided
  <1>2. TypeOK'
    BY <1>1 DEF IInv, TypeOK, LowerIntegerDivision, Pass, Goto, Stages
  <1> QED
    BY <1>1, <1>2 DEF IInv, TreeOfStage, Decided, Verdicts, TextOfSource, Accusable,
       LowerIntegerDivision, Pass, Goto

LEMMA WrapCloseInv ==
    ASSUME IInv, WrapClose
    PROVE  IInv'
  <1>1. tree' = Wrapped(source) /\ tree' \in SUBSET Node
    BY TreesTyped DEF IInv, TypeOK, TreeOfStage, WrapClose, Pass, Goto, Wrapped
  <1>2. TypeOK'
    BY <1>1 DEF IInv, TypeOK, WrapClose, Pass, Goto, Stages
  <1> QED
    BY <1>1, <1>2 DEF IInv, TreeOfStage, Decided, Verdicts, TextOfSource, Accusable,
       WrapClose, Pass, Goto

LEMMA InjectInv ==
    ASSUME IInv, InjectPolyfill
    PROVE  IInv'
  <1>1. preamble' = Preamble(source, target) /\ preamble' \in SUBSET Features
    BY PreambleTyped DEF IInv, Decided, InjectPolyfill, Goto, Preamble
  <1>2. TypeOK'
    BY <1>1 DEF IInv, TypeOK, InjectPolyfill, Goto, Stages
  <1> QED
    BY <1>1, <1>2 DEF IInv, TreeOfStage, Decided, Verdicts, TextOfSource, Accusable,
       InjectPolyfill, Goto

(* What build emits is the last tree behind the preamble of its target.    *)
LEMMA EmitInv ==
    ASSUME IInv, Emit
    PROVE  IInv'
  <1>1. /\ tree = Wrapped(source) /\ preamble = Preamble(source, target)
        /\ parses /\ Accusable = {} /\ command \in Commands /\ target \in Targets
        /\ preamble \in SUBSET Features /\ stage' = "idle"
        /\ verdict' = [verdict EXCEPT ![command] = "accepted"]
        /\ Unprintable(tree) = {} /\ source \in SUBSET SourceNode
    BY DEF IInv, TypeOK, TreeOfStage, Decided, Emit, Exit, Goto
  <1>2. Emitted(tree) \in SUBSET Node
    BY <1>1, TreesTyped, EmittedMoves DEF IInv, TypeOK
  <1>3. \/ output' = output
        \/ output' = [text |-> Emitted(tree), preamble |-> preamble, target |-> target]
    BY DEF Emit
  <1>4. TypeOK'
    <2>1. output' = None \/ output' \in Outputs
      BY <1>1, <1>2, <1>3 DEF IInv, TypeOK, Outputs
    <2> QED
      BY <1>1, <2>1 DEF IInv, TypeOK, Emit, Stages
  <1>5. Verdicts'
    BY <1>1, UnprintableKept DEF IInv, TypeOK, Verdicts, Emit, Accusable
  <1>6. TextOfSource'
    BY <1>1, <1>3 DEF IInv, TextOfSource, Emit, Accusable
  <1> QED
    BY <1>1, <1>4, <1>5, <1>6 DEF IInv, TreeOfStage, Decided, Emit

LEMMA EmitFailsInv ==
    ASSUME IInv, EmitFails
    PROVE  IInv'
  <1>1. /\ source \in SUBSET SourceNode /\ Unprintable(source) # {}
        /\ command \in Commands /\ command # "lint"
    BY UnprintableKept DEF IInv, TypeOK, TreeOfStage, Decided, EmitFails, Exit, Goto
  <1>2. TypeOK'
    BY <1>1 DEF IInv, TypeOK, EmitFails, Exit, Goto, Stages
  <1>3. Verdicts'
    BY <1>1 DEF IInv, TypeOK, Verdicts, EmitFails, Exit, Goto, Accusable
  <1> QED
    BY <1>2, <1>3 DEF IInv, TreeOfStage, Decided, TextOfSource, Accusable, EmitFails, Exit, Goto

(* The invariant holds of every reachable state.                           *)
THEOREM AlwaysIInv == Spec => []IInv
  <1>1. IInv /\ [Next]_vars => IInv'
    <2> SUFFICES ASSUME IInv, [Next]_vars PROVE IInv'
      OBVIOUS
    <2>1. CASE UNCHANGED vars
      BY <2>1 DEF vars, IInv, TypeOK, TreeOfStage, Decided, Verdicts, TextOfSource, Accusable
    <2>2. ASSUME NEW c \in Commands, NEW t \in Targets, Start(c, t) PROVE IInv'
      BY <2>2, StartInv
    <2> QED
      BY <2>1, <2>2, ParseInv, ParseFailsInv, RunLintsInv, LintEndsInv, GateRejectsInv,
         GatePassesInv, DetectInv, StripConstInv, LowerBitwiseInv, LowerIntegerDivisionInv,
         WrapCloseInv, InjectInv, EmitInv, EmitFailsInv DEF Next
  <1> QED
    BY InitIInv, <1>1, PTL DEF Spec
-----------------------------------------------------------------------------
(* Every emitted text is written in the operators of Lua 5.1, and the      *)
(* polyfill for `bit` is in front of it exactly when it is called for.     *)
THEOREM TextsRun == Spec => [](OnlyLua51 /\ FallbackIffNeeded)
  <1>1. IInv => OnlyLua51 /\ FallbackIffNeeded
    <2> SUFFICES ASSUME IInv, output # None
                 PROVE  /\ \A n \in output.text : n.what \notin {"bitop", "idiv"}
                        /\ output.preamble # {} <=>
                             /\ output.target = "Lua51"
                             /\ \E n \in output.text : n.what = "bit_call"
      BY DEF OnlyLua51, FallbackIffNeeded
    <2>1. /\ source \in SUBSET SourceNode /\ output.target \in Targets
          /\ output.text = Emitted(Wrapped(source))
          /\ output.preamble = Preamble(source, output.target)
      BY DEF IInv, TypeOK, TextOfSource
    <2>2. \A m \in output.text : \E n \in source : Ends(n, m)
      BY <2>1, TextOfNodes
    <2>3. \A n \in source : \E m \in output.text : Ends(n, m)
      BY <2>1, TextOfNodes
    <2>4. \A n \in source : /\ FinalKind(n) \notin {"bitop", "idiv"}
                            /\ FinalKind(n) = "bit_call" <=> n.what = "bitop"
      BY <2>1 DEF FinalKind, SourceNode, Expressions, Statements
    <2>5. \A n \in output.text : n.what \notin {"bitop", "idiv"}
      BY <2>2, <2>4 DEF Ends
    <2>6. (\E m \in output.text : m.what = "bit_call") <=> (\E n \in source : n.what = "bitop")
      BY <2>2, <2>3, <2>4 DEF Ends
    <2>7. Seen(source, Everywhere, "bitop") # {} <=> \E n \in source : n.what = "bitop"
      BY <2>1 DEF Seen, Everywhere, SourceNode
    <2> QED
      BY <2>1, <2>5, <2>6, <2>7, PreambleOf DEF Targets
  <1> QED
    BY AlwaysIInv, <1>1, PTL

(* No emitted text has an operator that Lua 5.1 lacks.                     *)
THEOREM OperatorsLowered == Spec => []OnlyLua51
  BY TextsRun, PTL

(* Every state of every run of the commands is typed (Pipeline.TypeOK).    *)
THEOREM PipelineTyped == Spec => []TypeOK
  BY AlwaysIInv, PTL DEF IInv

(* What the lints accuse is emitted below assignment targets only.         *)
THEOREM GateKept == Spec => []GateHolds
  <1>1. IInv => GateHolds
    <2> SUFFICES ASSUME IInv, output # None, NEW m \in output.text,
                        m.what \in {"unsupported", "mutation"}
                 PROVE  "target" \in m.at
      BY DEF GateHolds
    <2>1. /\ source \in SUBSET SourceNode /\ Accusable = {}
          /\ output.text = Emitted(Wrapped(source))
      BY DEF IInv, TypeOK, TextOfSource
    <2>2. PICK n \in source : Ends(n, m)
      BY <2>1, TextOfNodes
    <2>3. n \in SourceNode
      BY <2>1
    <2>4. n.what = m.what /\ n.at = m.at
      BY <2>2, <2>3 DEF Ends, FinalKind, SourceNode, Expressions, Statements
    <2>5. ~(n.at \subseteq ValueWalk)
      BY <2>1, <2>4 DEF Accusable, Lints, Guard, Seen
    <2> QED
      BY <2>3, <2>4, <2>5 DEF SourceNode, ValueWalk
  <1> QED
    BY AlwaysIInv, <1>1, PTL

(* In every declaration the close pass can reach, the first close variable *)
(* is wrapped (transform_close_block, process_close_at).                   *)
THEOREM ClosesKept == Spec => []ClosesWrapped
  <1>1. IInv => ClosesWrapped
    <2> SUFFICES ASSUME IInv, output # None, NEW n \in source, n.what = "close",
                        n.at \cap {"target", "condition", "header"} = {}
                 PROVE  [n EXCEPT !.what = "wrapped"] \in output.text
      BY DEF ClosesWrapped
    <2>1. /\ source \in SUBSET SourceNode /\ n \in SourceNode
          /\ output.text = Emitted(Wrapped(source))
      BY DEF IInv, TypeOK, TextOfSource
    <2>2. PICK m \in output.text : Ends(n, m)
      BY <2>1, TextOfNodes
    <2>3. n.at \subseteq CloseWalk
      BY <2>1 DEF SourceNode, CloseWalk
    <2>4. m.what = "wrapped" /\ m.at = n.at /\ m \in Node
      BY <2>1, <2>2, <2>3, TextOfNodes DEF Ends, FinalKind
    <2>5. m = [n EXCEPT !.what = "wrapped"]
      BY <2>1, <2>4 DEF SourceNode, Node
    <2> QED
      BY <2>2, <2>5
  <1> QED
    BY AlwaysIInv, <1>1, PTL

(* build, check and lint agree on a file, whatever their targets, but for  *)
(* the literals that only the emitter refuses.                             *)
THEOREM VerdictsAgree == Spec => []SameVerdict
  <1>1. IInv => SameVerdict
    <2> SUFFICES ASSUME IInv, NEW c \in Commands, NEW d \in Commands,
                        verdict[c] # "none", verdict[d] # "none", verdict[c] # verdict[d]
                 PROVE  "lint" \in {c, d} /\ \E n \in source : n.what = "infinite"
      BY DEF SameVerdict
    <2>1. verdict[c] \in {"accepted", "rejected"} /\ verdict[d] \in {"accepted", "rejected"}
      BY DEF IInv, TypeOK
    <2>2. Unprintable(source) # {} /\ (c = "lint" \/ d = "lint")
      BY <2>1 DEF IInv, Verdicts
    <2> QED
      BY <2>2 DEF Unprintable, Seen
  <1> QED
    BY AlwaysIInv, <1>1, PTL
=============================================================================
