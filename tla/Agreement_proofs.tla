-------------------------- MODULE Agreement_proofs --------------------------
(***************************************************************************)
(* valua's parser and Lua 5.5's agree.  Their stacks have different grain: *)
(* Alike relates them word by word, at any depth, and for each pair of words *)
(* and each token the equations of the two grammars lead both sides on to  *)
(* stacks that are alike again, to the same nodes, or to a refusal of both. *)
(***************************************************************************)
EXTENDS Translation_proofs

(* What is read, one token; and registers of the two sides that are as     *)
(* near as they have to be.                                                *)
Only(t) == <<t>>

Input(i) == i \in Tokens55 /\ i # <<>> /\ Head(i) \in TokenKinds /\ Tail(i) = <<>>

OneValue(tree) == \E k \in DOMAIN tree : tree[k] = Node("one_value")

(* The sides have built the same tree, unless Lua has cut a call to one value *)
(* (or they are apart, and nothing is said of their trees); and the last node *)
(* is the same, but that Lua remembers a parenthesis.                      *)
Near(c, r, q) ==
    /\ r \in Regs /\ q \in Regs
    /\ c = "apart" \/ r.tree = q.tree \/ OneValue(q.tree)
    /\ r.last = q.last \/ q.last = "paren"

(* Symbols that complete a node.                                           *)
NodeLike(a) == a \in Symbols /\ Kind(a) \in {"node", "unary", "binary"}

LEMMA OnlyIs == \A t : t \in TokenKinds => Input(Only(t)) /\ Head(Only(t)) = t
<1> SUFFICES ASSUME NEW t \in TokenKinds PROVE Input(Only(t)) /\ Head(Only(t)) = t
  OBVIOUS
<1>1. t \in Vocabulary
  BY VocabularyIs
<1>2. Only(t) \in Tokens55 /\ Only(t) # <<>> /\ Head(Only(t)) = t /\ Tail(Only(t)) = <<>>
  BY <1>1 DEF Only, Tokens55
<1> QED BY Zenon, <1>2 DEF Input

LEMMA InputIs ==
    \A i : Input(i) => /\ i \in Tokens55 /\ i # <<>> /\ Head(i) \in TokenKinds /\ Head(i) \in Vocabulary
                       /\ Tail(i) = <<>>
BY VocabularyIs DEF Input

LEMMA NearIn == \A c, r, q : Near(c, r, q) => r \in Regs /\ q \in Regs
BY DEF Near

LEMMA NearDone == \A c, r, q, a : Near(c, r, q) /\ a \in Symbols => Near(c, Done(r, a), Done(q, a))
<1> SUFFICES ASSUME NEW c, NEW r, NEW q, NEW a \in Symbols, Near(c, r, q)
                        PROVE Near(c, Done(r, a), Done(q, a))
  OBVIOUS
<1>1. r \in Regs /\ q \in Regs /\ r.tree \in Stack /\ q.tree \in Stack
  BY RegsIn, NearIn
<1>2. /\ Done(r, a) \in Regs /\ Done(r, a).last = a[2] /\ Done(r, a).tree = Append(r.tree, a)
      /\ Done(q, a) \in Regs /\ Done(q, a).last = a[2] /\ Done(q, a).tree = Append(q.tree, a)
  BY <1>1, RegsIn
<1>3. OneValue(q.tree) => OneValue(Append(q.tree, a))
  BY <1>1, AppendProperties DEF OneValue, Stack
<1> QED BY <1>1, <1>2, <1>3 DEF Near

LEMMA NearSpoke == \A c, r, q, u, v : Near(c, r, q) /\ (u = ")" <=> v = ")")
    => Near(c, Spoke(r, u), Spoke(q, v))
<1> SUFFICES ASSUME NEW c, NEW r, NEW q, NEW u, NEW v, u = ")" <=> v = ")", Near(c, r, q)
                        PROVE Near(c, Spoke(r, u), Spoke(q, v))
  OBVIOUS
<1>1. r \in Regs /\ q \in Regs
  BY NearIn
<1>2. /\ Spoke(r, u) \in Regs /\ Spoke(r, u).tree = r.tree
      /\ Spoke(q, v) \in Regs /\ Spoke(q, v).tree = q.tree
  BY <1>1, RegsIn
<1>3. Spoke(r, u).last = (IF u = ")" THEN r.last ELSE "none")
          /\ Spoke(q, v).last = (IF v = ")" THEN q.last ELSE "none")
  BY DEF Spoke
<1> QED BY <1>1, <1>2, <1>3 DEF Near

LEMMA NearParen ==
    \A c, r, q : Near(c, r, q) => Near(c, r, Shaped(q, "paren"))
        /\ Near(c, r, Shaped(Done(q, Node("one_value")), "paren"))
<1> SUFFICES ASSUME NEW c, NEW r, NEW q, Near(c, r, q)
             PROVE  Near(c, r, Shaped(q, "paren"))
                        /\ Near(c, r, Shaped(Done(q, Node("one_value")), "paren"))
  OBVIOUS
<1>1. r \in Regs /\ q \in Regs /\ q.tree \in Stack /\ "paren" \in Vocabulary
          /\ Node("one_value") \in Symbols
  BY RegsIn, NearIn, VocabularyIs, SymbolsIn
<1>2. Shaped(q, "paren") \in Regs /\ Shaped(q, "paren").last = "paren" /\ Shaped(q, "paren").tree = q.tree
  BY <1>1, RegsIn
<1>3. Done(q, Node("one_value")) \in Regs
          /\ Done(q, Node("one_value")).tree = Append(q.tree, Node("one_value"))
  BY <1>1, RegsIn
<1> DEFINE p == Done(q, Node("one_value"))
<1>4. Shaped(p, "paren") \in Regs /\ Shaped(p, "paren").last = "paren" /\ Shaped(p, "paren").tree = p.tree
  <2>1. p \in Regs
    BY <1>3
  <2> HIDE DEF p
  <2> QED BY <1>1, <2>1, RegsIn
<1>5. OneValue(Append(q.tree, Node("one_value")))
  <2>1. \A a : a \in Symbols => Len(q.tree) + 1 \in DOMAIN Append(q.tree, a)
            /\ Append(q.tree, a)[Len(q.tree) + 1] = a
    BY <1>1, AppendProperties, LenProperties DEF Stack
  <2> QED BY Zenon, <1>1, <2>1 DEF OneValue
<1>6. Near(c, r, Shaped(p, "paren"))
  BY <1>1, <1>3, <1>4, <1>5 DEF Near
<1> QED BY <1>1, <1>2, <1>6 DEF Near

-----------------------------------------------------------------------------
(* The expected token is read, and a node is completed.                    *)
LEMMA OursExpects ==
    \A i, u, s, r : i \in Tokens55 /\ i # <<>> /\ u \in Vocabulary /\ s \in Stack /\ r \in Regs =>
        /\ Fits(Head(i), u) => ReadOurs(i, Push(Expect(u), s), r) = ReadOurs(Tail(i), s, Spoke(r, u))
        /\ ~Fits(Head(i), u) => ReadOurs(i, Push(Expect(u), s), r) = Refusal("none")
<1> SUFFICES ASSUME NEW i \in Tokens55, i # <<>>, NEW u \in Vocabulary, NEW s \in Stack, NEW r \in Regs
             PROVE  /\ Fits(Head(i), u) => ReadOurs(i, Push(Expect(u), s), r) = ReadOurs(Tail(i), s,
                         Spoke(r, u))
                    /\ ~Fits(Head(i), u) => ReadOurs(i, Push(Expect(u), s), r) = Refusal("none")
  OBVIOUS
<1>1. OursRule \in Rules /\ IsRun(RunParser, OursRule)
  BY OursRuleIn, OursRuns
<1>2. Expect(u) \in Symbols /\ Kind(Expect(u)) = "expect" /\ Expect(u)[2] = u
  BY SymbolIs DEF Expect, Kind
<1> DEFINE a == Expect(u)
<1>3. a \in Symbols /\ Kind(a) = "expect" /\ a[2] = u
  BY <1>2
<1>4. RunParser[Refusal("none")] = Refusal("none")
  BY <1>1, RunRests, VocabularyIs
<1>5. /\ Fits(Head(i), u) => ReadBy(RunParser, i, Push(a, s), r) = ReadBy(RunParser, Tail(i), s,
           Spoke(r, u))
      /\ ~Fits(Head(i), u) => ReadBy(RunParser, i, Push(a, s), r) = RunParser[Refusal("none")]
  <2> HIDE DEF a
  <2> QED BY <1>1, <1>3, RunGoes
<1> QED BY Zenon, <1>4, <1>5 DEF ReadOurs, ReadBy, a

LEMMA LuaExpects ==
    \A i, u, s, r : i \in Tokens55 /\ i # <<>> /\ u \in Vocabulary /\ s \in Stack /\ r \in Regs =>
        /\ Fits(Head(i), u) => ReadLua(i, Push(Expect(u), s), r) = ReadLua(Tail(i), s, Spoke(r, u))
        /\ ~Fits(Head(i), u) => ReadLua(i, Push(Expect(u), s), r) = Refusal("none")
<1> SUFFICES ASSUME NEW i \in Tokens55, i # <<>>, NEW u \in Vocabulary, NEW s \in Stack, NEW r \in Regs
             PROVE  /\ Fits(Head(i), u) => ReadLua(i, Push(Expect(u), s), r) = ReadLua(Tail(i), s,
                         Spoke(r, u))
                    /\ ~Fits(Head(i), u) => ReadLua(i, Push(Expect(u), s), r) = Refusal("none")
  OBVIOUS
<1>1. LuasRule \in Rules /\ IsRun(RunLua55, LuasRule)
  BY LuaRuleIn, LuaRuns
<1>2. Expect(u) \in Symbols /\ Kind(Expect(u)) = "expect" /\ Expect(u)[2] = u
  BY SymbolIs DEF Expect, Kind
<1> DEFINE a == Expect(u)
<1>3. a \in Symbols /\ Kind(a) = "expect" /\ a[2] = u
  BY <1>2
<1>4. RunLua55[Refusal("none")] = Refusal("none")
  BY <1>1, RunRests, VocabularyIs
<1>5. /\ Fits(Head(i), u) => ReadBy(RunLua55, i, Push(a, s), r) = ReadBy(RunLua55, Tail(i), s, Spoke(r, u))
      /\ ~Fits(Head(i), u) => ReadBy(RunLua55, i, Push(a, s), r) = RunLua55[Refusal("none")]
  <2> HIDE DEF a
  <2> QED BY <1>1, <1>3, RunGoes
<1> QED BY Zenon, <1>4, <1>5 DEF ReadLua, ReadBy, a

(* Nodes are completed, and what is read waits for a token.                *)
LEMMA BothGo ==
    /\ \A i, a, s, r : i \in Tokens55 /\ NodeLike(a) /\ s \in Stack /\ r \in Regs =>
          /\ ReadOurs(i, Push(a, s), r) = ReadOurs(i, s, Done(r, a))
          /\ ReadLua(i, Push(a, s), r) = ReadLua(i, s, Done(r, a))
    /\ \A i, s, r : i \in Tokens55 /\ s \in Stack /\ r \in Regs =>
          ReadLua(i, Push(Shape("paren"), s), r) = ReadLua(i, s, Shaped(r, "paren"))
    /\ \A a, s, r : a \in Symbols /\ Reads(a) /\ s \in Stack /\ r \in Regs =>
          /\ ReadOurs(<<>>, Push(a, s), r) = M(<<>>, Push(a, s), r)
          /\ ReadLua(<<>>, Push(a, s), r) = M(<<>>, Push(a, s), r)
    /\ \A i, r : i \in Tokens55 /\ r \in Regs =>
          ReadOurs(i, <<>>, r) = M(i, <<>>, r) /\ ReadLua(i, <<>>, r) = M(i, <<>>, r)
<1>1. OursRule \in Rules /\ IsRun(RunParser, OursRule) /\ LuasRule \in Rules /\ IsRun(RunLua55, LuasRule)
  BY OursRuleIn, OursRuns, LuaRuleIn, LuaRuns
<1>2. ASSUME NEW i \in Tokens55, NEW a, NodeLike(a), NEW s \in Stack, NEW r \in Regs
      PROVE  /\ ReadOurs(i, Push(a, s), r) = ReadOurs(i, s, Done(r, a))
             /\ ReadLua(i, Push(a, s), r) = ReadLua(i, s, Done(r, a))
  <2>1. a \in Symbols /\ Kind(a) \in {"node", "unary", "binary"}
    BY <1>2 DEF NodeLike
  <2>2. ReadBy(RunParser, i, Push(a, s), r) = ReadBy(RunParser, i, s, Done(r, a))
    BY <1>1, <2>1, RunGoes
  <2>3. ReadBy(RunLua55, i, Push(a, s), r) = ReadBy(RunLua55, i, s, Done(r, a))
    BY <1>1, <2>1, RunGoes
  <2> QED BY Zenon, <2>2, <2>3 DEF ReadOurs, ReadLua, ReadBy
<1>3. ASSUME NEW i \in Tokens55, NEW s \in Stack, NEW r \in Regs
      PROVE  ReadLua(i, Push(Shape("paren"), s), r) = ReadLua(i, s, Shaped(r, "paren"))
  <2> DEFINE a == Shape("paren")
  <2>1. a \in Symbols /\ Kind(a) = "shape" /\ a[2] = "paren"
    BY SymbolsIn DEF Kind, Shape
  <2>2. ReadBy(RunLua55, i, Push(a, s), r) = ReadBy(RunLua55, i, s, Shaped(r, "paren"))
    <3> HIDE DEF a
    <3> QED BY <1>1, <2>1, RunGoes
  <2> QED BY Zenon, <2>2 DEF ReadLua, ReadBy, a
<1>4. ASSUME NEW a \in Symbols, Reads(a), NEW s \in Stack, NEW r \in Regs
      PROVE  /\ ReadOurs(<<>>, Push(a, s), r) = M(<<>>, Push(a, s), r)
             /\ ReadLua(<<>>, Push(a, s), r) = M(<<>>, Push(a, s), r)
  <2> DEFINE i == <<>>
  <2>1. i \in Tokens55 /\ i = <<>>
    BY EmptySeq DEF Tokens55
  <2> HIDE DEF i
  <2>2. ReadBy(RunParser, i, Push(a, s), r) = M(i, Push(a, s), r)
    BY <1>1, <1>4, <2>1, RunGoes
  <2>3. ReadBy(RunLua55, i, Push(a, s), r) = M(i, Push(a, s), r)
    BY <1>1, <1>4, <2>1, RunGoes
  <2> QED BY Zenon, <2>1, <2>2, <2>3 DEF ReadOurs, ReadLua, ReadBy
<1>5. ASSUME NEW i \in Tokens55, NEW r \in Regs
      PROVE  ReadOurs(i, <<>>, r) = M(i, <<>>, r) /\ ReadLua(i, <<>>, r) = M(i, <<>>, r)
  BY <1>1, RunRests DEF ReadOurs, ReadLua
<1> QED BY Zenon, <1>2, <1>3, <1>4, <1>5

-----------------------------------------------------------------------------
(* The relation of the two stacks.  The grammars have different grain: Fit *)
(* relates symbols one by one, Matched words of one or more symbols, and two *)
(* stacks are alike if they are built of such pairs, from empty stacks on. *)
(* Alike is the least such relation: a set of pairs that is closed under the *)
(* rules holds all of it, which is how it is reasoned about below.         *)
(* Symbols that can be replaced one by one.                                *)
Fit(a, b) ==
    \/ NodeLike(a) /\ b = a
    \/ \E op \in LeftOf : a = Climb(op) /\ b = Climb(op)
    \/ a = Parse("block") /\ b = Parse("statlist")
    \/ a = Parse("semicolon") /\ b = Parse("semicolon")
    \/ a = Parse("more_exprs") /\ b = Parse("explist")
    \/ a = Parse("initializer") /\ b = Parse("init")
    \/ a = Parse("attribute") /\ b = Parse("attrib")
    \/ a = Parse("more_names") /\ b = Parse("attnamelist")
    \/ a = Parse("attribute") /\ b = Parse("closed")
    \/ a = Parse("more_names") /\ b = Parse("closedlist")
    \/ a = Parse("for_names") /\ b = Parse("forlist")
    \/ a = Parse("step") /\ b = Parse("fornum")
    \/ a = Parse("else_clauses") /\ b = Parse("test_then")
    \/ a = Parse("name_parts") /\ b = Parse("funcname")
    \/ a = Parse("separator") /\ b = Parse("fieldsep")
    \/ a = Parse("assign_or_call") /\ b = Parse("exprstat")

(* Words that can be put on two stacks.                                    *)
Matched(A, B, S, T) ==
    \/ A = S /\ B = T
    \/ \E op \in LeftOf : A = Push(Parse("unary"), Push(Climb(op), S))
         /\ B = Push(Parse("subexpr"), Push(Climb(op), T))
    \/ \E op \in LeftOf : A = Push(Parse("suffixes"), Push(Climb(op), S)) /\ B = Push(Climb(op), T)
    \/ A = Push(Parse("suffixes"), S) /\ B = Push(Parse("suffixedexp"), T)
    \/ A = Push(Parse("suffixes"), S) /\ B = Push(Parse("discharge"), Push(Parse("suffixedexp"), T))
    \/ A = Push(Parse("primary"), Push(Parse("suffixes"), S))
         /\ B = Push(Parse("primaryexp"), Push(Parse("suffixedexp"), T))
    \/ A = Push(Parse("attribute_name"), S) /\ B = Push(Parse("attname"), T)
    \/ A = Push(Parse("attribute_name"), S)
         /\ B = Push(Expect("const"), Push(Expect(">"), Push(Node("const"), T)))
    \/ A = Push(Expect(")"), S) /\ B = Push(Parse("vararg_name"), Push(Expect(")"), T))
    \/ A = Push(Parse("local"), S) /\ B = Push(Parse("localstat"), T)
    \/ A = Push(Parse("fields"), S) /\ B = Push(Parse("constructor"), T)
    \/ A = Push(Parse("args"), S) /\ B = Push(Parse("args"), T)
    \/ A = Push(Parse("values"), S) /\ B = Push(Parse("retstat"), T)
    \/ A = Push(Parse("for"), S) /\ B = Push(Parse("forstat"), T)
    \/ A = Push(Parse("named_field"), S) /\ B = Push(Parse("recfield"), T)
    \/ A = Push(Parse("params"), Push(Expect(")"), S)) /\ B = Push(Parse("parlist"), Push(Expect(")"), T))
    \/ A = Push(Parse("param"), Push(Expect(")"), S)) /\ B = Push(Parse("parameter"), Push(Expect(")"), T))
    \/ A = Push(Parse("call_args"), Push(Node("method_call"), Push(Parse("suffixes"), S)))
         /\ B = Push(Parse("funcargs"), Push(Node("method_call"), Push(Parse("suffixedexp"), T)))

(* Tokens that end or divide a construct.                                  *)
Closers == {"Name", ")", "]", CloseBrace, "end", "=", Comma, "until", "in", "then", "do", "::", ">"}

In(C, S, T) == <<S, T>> \in C

BareOf(C, A, B) == \E S, T : In(C, S, T) /\ Matched(A, B, S, T)

(* Matched words on top of a pair of C, under at most two nodes.           *)
Beside(C, A, B) ==
    \/ BareOf(C, A, B)
    \/ \E a, X, Y : NodeLike(a) /\ BareOf(C, X, Y) /\ A = Push(a, X) /\ B = Push(a, Y)
    \/ \E a, b, X, Y : NodeLike(a) /\ NodeLike(b) /\ BareOf(C, X, Y)
                       /\ A = Push(a, Push(b, X)) /\ B = Push(a, Push(b, Y))

(* C holds the stacks of a text that has been read, and whatever the two   *)
(* grammars can push on what it holds.                                     *)
Closed(C) ==
    /\ In(C, Push(Parse("rest"), <<>>), Push(Expect("eof"), <<>>))
    /\ \A a, b, S, T : Fit(a, b) /\ In(C, S, T) => In(C, Push(a, S), Push(b, T))
    /\ \A S, T : In(C, S, T) =>
          /\ In(C, Push(Parse("targets"),
               Push(Expect("="), Push(Parse("unary"),
               Push(Climb("none"), Push(Parse("more_exprs"), Push(Node("assign"), S)))))),
               Push(Parse("restassign"), T))
          /\ In(C, Push(Parse("more_params"), Push(Expect(")"), S)),
               Push(Parse("morepars"), Push(Expect(")"), T)))
          /\ In(C, Push(Expect("("), Push(Parse("params"), Push(Expect(")"), S))),
               Push(Expect("("), Push(Parse("parlist"), Push(Expect(")"), T))))
    /\ \A u, A, B : u \in Closers /\ Beside(C, A, B) => In(C, Push(Expect(u), A), Push(Expect(u), B))

(* The two stacks are alike.                                               *)
Alike(S, T) == S \in Stack /\ T \in Stack /\ \A C : Closed(C) => In(C, S, T)

(* Where the sides are when they have a token in front of them: matched words *)
(* on stacks that are alike, perhaps under nodes still to be completed.    *)
JointHere(A, B) == \E S, T : Alike(S, T) /\ Matched(A, B, S, T)

Joint(A, B) ==
    \/ JointHere(A, B)
    \/ \E a, X, Y : NodeLike(a) /\ JointHere(X, Y) /\ A = Push(a, X) /\ B = Push(a, Y)
    \/ \E a, b, X, Y : NodeLike(a) /\ NodeLike(b) /\ JointHere(X, Y)
                       /\ A = Push(a, Push(b, X)) /\ B = Push(a, Push(b, Y))

LEMMA AlikeIn == \A S, T : Alike(S, T) => S \in Stack /\ T \in Stack
BY DEF Alike

LEMMA LeftOfIn == \A op : op \in LeftOf => op \in Vocabulary /\ Climb(op) \in Symbols
BY TokensAre, VocabularyIs, SymbolIs DEF LeftOf

LEMMA FitIn == \A a, b : Fit(a, b) => a \in Symbols /\ b \in Symbols
BY SymbolsIn, LeftOfIn DEF Fit, NodeLike

LEMMA BareIn == \A A, B, S, T : S \in Stack /\ T \in Stack /\ Matched(A, B, S, T) => A \in Stack
    /\ B \in Stack
BY SymbolsIn, OnIs, LeftOfIn DEF Matched

LEMMA ClosersIn == \A u : u \in Closers => u \in TokenKinds /\ u \in Vocabulary /\ Expect(u) \in Symbols
<1>1. /\ "Name" \in TokenKinds /\ ")" \in TokenKinds /\ "]" \in TokenKinds /\ CloseBrace \in TokenKinds
      /\ "end" \in TokenKinds /\ "=" \in TokenKinds /\ Comma \in TokenKinds /\ "until" \in TokenKinds
      /\ "in" \in TokenKinds /\ "then" \in TokenKinds /\ "do" \in TokenKinds /\ "::" \in TokenKinds
           /\ ">" \in TokenKinds
  BY PlainAre, PlainIn, MarksIn
<1>2. \A u : u \in Closers => u \in TokenKinds
  BY <1>1 DEF Closers
<1> QED BY <1>2, VocabularyIs, SymbolIs

LEMMA ClosersAre ==
    /\ "Name" \in Closers
    /\ ")" \in Closers
    /\ "]" \in Closers
    /\ CloseBrace \in Closers
    /\ "end" \in Closers
    /\ "=" \in Closers
    /\ Comma \in Closers
    /\ "until" \in Closers
    /\ "in" \in Closers
    /\ "then" \in Closers
    /\ "do" \in Closers
    /\ "::" \in Closers
    /\ ">" \in Closers
BY DEF Closers

LEMMA JointIn == \A A, B : Joint(A, B) => A \in Stack /\ B \in Stack
<1>1. \A A, B : JointHere(A, B) => A \in Stack /\ B \in Stack
  BY AlikeIn, BareIn DEF JointHere
<1> QED BY <1>1, OnIs DEF Joint, NodeLike

(* Stacks that are alike are closed under the rules.                       *)
LEMMA AlikeRules ==
    /\ Alike(Push(Parse("rest"), <<>>), Push(Expect("eof"), <<>>))
    /\ \A a, b, S, T : Fit(a, b) /\ Alike(S, T) => Alike(Push(a, S), Push(b, T))
    /\ \A S, T : Alike(S, T) =>
          /\ Alike(Push(Parse("targets"),
               Push(Expect("="), Push(Parse("unary"),
               Push(Climb("none"), Push(Parse("more_exprs"), Push(Node("assign"), S)))))),
               Push(Parse("restassign"), T))
          /\ Alike(Push(Parse("more_params"), Push(Expect(")"), S)),
               Push(Parse("morepars"), Push(Expect(")"), T)))
          /\ Alike(Push(Expect("("), Push(Parse("params"), Push(Expect(")"), S))),
               Push(Expect("("), Push(Parse("parlist"), Push(Expect(")"), T))))
    /\ \A u, A, B : u \in Closers /\ Joint(A, B) => Alike(Push(Expect(u), A), Push(Expect(u), B))
<1>1. Alike(Push(Parse("rest"), <<>>), Push(Expect("eof"), <<>>))
  <2>1. Push(Parse("rest"), <<>>) \in Stack /\ Push(Expect("eof"), <<>>) \in Stack
    BY SymbolsIn, OnIs
  <2> QED BY Zenon, <2>1 DEF Alike, Closed
<1>2. ASSUME NEW a, NEW b, NEW S, NEW T, Fit(a, b), Alike(S, T) PROVE Alike(Push(a, S), Push(b, T))
  <2>1. Push(a, S) \in Stack /\ Push(b, T) \in Stack
    BY <1>2, FitIn, AlikeIn, OnIs
  <2> QED BY Zenon, <1>2, <2>1 DEF Alike, Closed
<1>3. ASSUME NEW S, NEW T, Alike(S, T)
      PROVE  /\ Alike(Push(Parse("targets"),
                  Push(Expect("="), Push(Parse("unary"),
                  Push(Climb("none"), Push(Parse("more_exprs"), Push(Node("assign"), S)))))),
                  Push(Parse("restassign"), T))
             /\ Alike(Push(Parse("more_params"), Push(Expect(")"), S)),
                  Push(Parse("morepars"), Push(Expect(")"), T)))
             /\ Alike(Push(Expect("("), Push(Parse("params"), Push(Expect(")"), S))),
                  Push(Expect("("), Push(Parse("parlist"), Push(Expect(")"), T))))
  <2>1. /\ Push(Parse("targets"),
             Push(Expect("="), Push(Parse("unary"),
             Push(Climb("none"), Push(Parse("more_exprs"), Push(Node("assign"), S)))))) \in Stack
             /\ Push(Parse("restassign"), T) \in Stack
        /\ Push(Parse("more_params"), Push(Expect(")"), S)) \in Stack
             /\ Push(Parse("morepars"), Push(Expect(")"), T)) \in Stack
        /\ Push(Expect("("), Push(Parse("params"), Push(Expect(")"), S))) \in Stack
             /\ Push(Expect("("), Push(Parse("parlist"), Push(Expect(")"), T))) \in Stack
    BY <1>3, AlikeIn, SymbolsIn, OnIs
  <2> QED BY Zenon, <1>3, <2>1 DEF Alike, Closed
<1>4. ASSUME NEW u \in Closers, NEW A, NEW B, Joint(A, B)
                 PROVE Alike(Push(Expect(u), A), Push(Expect(u), B))
  <2>1. Push(Expect(u), A) \in Stack /\ Push(Expect(u), B) \in Stack
    BY <1>4, ClosersIn, JointIn, OnIs
  <2>2. ASSUME NEW C, Closed(C) PROVE In(C, Push(Expect(u), A), Push(Expect(u), B))
    <3>1. \A X, Y : JointHere(X, Y) => BareOf(C, X, Y)
      BY Zenon, <2>2 DEF JointHere, BareOf, Alike
    <3>2. Beside(C, A, B)
      BY Zenon, <1>4, <3>1 DEF Joint, Beside
    <3> QED BY Zenon, <2>2, <3>2 DEF Closed
  <2> QED BY Zenon, <2>1, <2>2 DEF Alike
<1> QED BY Zenon, <1>1, <1>2, <1>3, <1>4

LEMMA FitsAre ==
    /\ \A a : NodeLike(a) => Fit(a, a)
    /\ \A op : op \in LeftOf => Fit(Climb(op), Climb(op))
    /\ Fit(Parse("block"), Parse("statlist"))
    /\ Fit(Parse("semicolon"), Parse("semicolon"))
    /\ Fit(Parse("more_exprs"), Parse("explist"))
    /\ Fit(Parse("initializer"), Parse("init"))
    /\ Fit(Parse("attribute"), Parse("attrib"))
    /\ Fit(Parse("more_names"), Parse("attnamelist"))
    /\ Fit(Parse("attribute"), Parse("closed"))
    /\ Fit(Parse("more_names"), Parse("closedlist"))
    /\ Fit(Parse("for_names"), Parse("forlist"))
    /\ Fit(Parse("step"), Parse("fornum"))
    /\ Fit(Parse("else_clauses"), Parse("test_then"))
    /\ Fit(Parse("name_parts"), Parse("funcname"))
    /\ Fit(Parse("separator"), Parse("fieldsep"))
    /\ Fit(Parse("assign_or_call"), Parse("exprstat"))
BY Zenon DEF Fit

LEMMA BaresAre ==
    \A S, T : Alike(S, T) =>
      /\ JointHere(S, T)
      /\ \A op : op \in LeftOf => JointHere(Push(Parse("unary"), Push(Climb(op), S)),
           Push(Parse("subexpr"), Push(Climb(op), T)))
      /\ \A op : op \in LeftOf => JointHere(Push(Parse("suffixes"), Push(Climb(op), S)), Push(Climb(op), T))
      /\ JointHere(Push(Parse("suffixes"), S), Push(Parse("suffixedexp"), T))
      /\ JointHere(Push(Parse("suffixes"), S), Push(Parse("discharge"), Push(Parse("suffixedexp"), T)))
      /\ JointHere(Push(Parse("primary"), Push(Parse("suffixes"), S)),
           Push(Parse("primaryexp"), Push(Parse("suffixedexp"), T)))
      /\ JointHere(Push(Parse("attribute_name"), S), Push(Parse("attname"), T))
      /\ JointHere(Push(Parse("attribute_name"), S),
           Push(Expect("const"), Push(Expect(">"), Push(Node("const"), T))))
      /\ JointHere(Push(Expect(")"), S), Push(Parse("vararg_name"), Push(Expect(")"), T)))
      /\ JointHere(Push(Parse("local"), S), Push(Parse("localstat"), T))
      /\ JointHere(Push(Parse("fields"), S), Push(Parse("constructor"), T))
      /\ JointHere(Push(Parse("args"), S), Push(Parse("args"), T))
      /\ JointHere(Push(Parse("values"), S), Push(Parse("retstat"), T))
      /\ JointHere(Push(Parse("for"), S), Push(Parse("forstat"), T))
      /\ JointHere(Push(Parse("named_field"), S), Push(Parse("recfield"), T))
      /\ JointHere(Push(Parse("params"), Push(Expect(")"), S)),
           Push(Parse("parlist"), Push(Expect(")"), T)))
      /\ JointHere(Push(Parse("param"), Push(Expect(")"), S)),
           Push(Parse("parameter"), Push(Expect(")"), T)))
      /\ JointHere(Push(Parse("call_args"), Push(Node("method_call"), Push(Parse("suffixes"), S))),
           Push(Parse("funcargs"), Push(Node("method_call"), Push(Parse("suffixedexp"), T))))
<1> SUFFICES ASSUME NEW S, NEW T, Alike(S, T)
             PROVE  /\ JointHere(S, T)
                    /\ \A op : op \in LeftOf => JointHere(Push(Parse("unary"), Push(Climb(op), S)),
                         Push(Parse("subexpr"), Push(Climb(op), T)))
                    /\ \A op : op \in LeftOf => JointHere(Push(Parse("suffixes"), Push(Climb(op), S)),
                         Push(Climb(op), T))
                    /\ JointHere(Push(Parse("suffixes"), S), Push(Parse("suffixedexp"), T))
                    /\ JointHere(Push(Parse("suffixes"), S),
                         Push(Parse("discharge"), Push(Parse("suffixedexp"), T)))
                    /\ JointHere(Push(Parse("primary"), Push(Parse("suffixes"), S)),
                         Push(Parse("primaryexp"), Push(Parse("suffixedexp"), T)))
                    /\ JointHere(Push(Parse("attribute_name"), S), Push(Parse("attname"), T))
                    /\ JointHere(Push(Parse("attribute_name"), S),
                         Push(Expect("const"), Push(Expect(">"), Push(Node("const"), T))))
                    /\ JointHere(Push(Expect(")"), S), Push(Parse("vararg_name"), Push(Expect(")"), T)))
                    /\ JointHere(Push(Parse("local"), S), Push(Parse("localstat"), T))
                    /\ JointHere(Push(Parse("fields"), S), Push(Parse("constructor"), T))
                    /\ JointHere(Push(Parse("args"), S), Push(Parse("args"), T))
                    /\ JointHere(Push(Parse("values"), S), Push(Parse("retstat"), T))
                    /\ JointHere(Push(Parse("for"), S), Push(Parse("forstat"), T))
                    /\ JointHere(Push(Parse("named_field"), S), Push(Parse("recfield"), T))
                    /\ JointHere(Push(Parse("params"), Push(Expect(")"), S)),
                         Push(Parse("parlist"), Push(Expect(")"), T)))
                    /\ JointHere(Push(Parse("param"), Push(Expect(")"), S)),
                         Push(Parse("parameter"), Push(Expect(")"), T)))
                    /\ JointHere(Push(Parse("call_args"),
                         Push(Node("method_call"), Push(Parse("suffixes"), S))),
                         Push(Parse("funcargs"), Push(Node("method_call"), Push(Parse("suffixedexp"), T))))
  BY Zenon
<1>1. \A A, B : Matched(A, B, S, T) => JointHere(A, B)
  BY Zenon DEF JointHere
<1>2. /\ Matched(S, T, S, T)
      /\ \A op : op \in LeftOf => Matched(Push(Parse("unary"), Push(Climb(op), S)),
           Push(Parse("subexpr"), Push(Climb(op), T)), S, T)
      /\ \A op : op \in LeftOf => Matched(Push(Parse("suffixes"), Push(Climb(op), S)), Push(Climb(op), T),
           S, T)
      /\ Matched(Push(Parse("suffixes"), S), Push(Parse("suffixedexp"), T), S, T)
      /\ Matched(Push(Parse("suffixes"), S), Push(Parse("discharge"), Push(Parse("suffixedexp"), T)), S, T)
      /\ Matched(Push(Parse("primary"), Push(Parse("suffixes"), S)),
           Push(Parse("primaryexp"), Push(Parse("suffixedexp"), T)), S, T)
      /\ Matched(Push(Parse("attribute_name"), S), Push(Parse("attname"), T), S, T)
      /\ Matched(Push(Parse("attribute_name"), S),
           Push(Expect("const"), Push(Expect(">"), Push(Node("const"), T))), S, T)
      /\ Matched(Push(Expect(")"), S), Push(Parse("vararg_name"), Push(Expect(")"), T)), S, T)
      /\ Matched(Push(Parse("local"), S), Push(Parse("localstat"), T), S, T)
      /\ Matched(Push(Parse("fields"), S), Push(Parse("constructor"), T), S, T)
      /\ Matched(Push(Parse("args"), S), Push(Parse("args"), T), S, T)
      /\ Matched(Push(Parse("values"), S), Push(Parse("retstat"), T), S, T)
      /\ Matched(Push(Parse("for"), S), Push(Parse("forstat"), T), S, T)
      /\ Matched(Push(Parse("named_field"), S), Push(Parse("recfield"), T), S, T)
      /\ Matched(Push(Parse("params"), Push(Expect(")"), S)), Push(Parse("parlist"), Push(Expect(")"), T)),
           S, T)
      /\ Matched(Push(Parse("param"), Push(Expect(")"), S)),
           Push(Parse("parameter"), Push(Expect(")"), T)), S, T)
      /\ Matched(Push(Parse("call_args"), Push(Node("method_call"), Push(Parse("suffixes"), S))),
           Push(Parse("funcargs"), Push(Node("method_call"), Push(Parse("suffixedexp"), T))), S, T)
  BY Zenon DEF Matched
<1> QED BY Zenon, <1>1, <1>2

LEMMA JointsAre ==
    /\ \A A, B : JointHere(A, B) => Joint(A, B)
    /\ \A a, A, B : NodeLike(a) /\ JointHere(A, B) => Joint(Push(a, A), Push(a, B))
    /\ \A a, b, A, B : NodeLike(a) /\ NodeLike(b) /\ JointHere(A, B)
         => Joint(Push(a, Push(b, A)), Push(a, Push(b, B)))
BY Zenon DEF Joint

-----------------------------------------------------------------------------
(* What the two sides come to.  Settled: both wait, with stacks that are   *)
(* alike; Verdict: that, or the end, or both refuse, or Lua alone refuses  *)
(* what is no variable.                                                    *)
(* Symbols that wait for a token, other than after the name `global`.      *)
Waits(a) == a \in Symbols /\ Reads(a) /\ a # Parse("globalstat")

(* After the name `global`, which starts a declaration only in Lua.        *)
Global(A, B) == \E S, T : /\ Alike(S, T)
                          /\ A = Push(Parse("suffixes"), Push(Parse("assign_or_call"), S))
                               /\ B = Push(Parse("globalstat"), T)

(* Where both sides wait, what is left for them to do is alike.            *)
Meet(A, B) == /\ JointHere(A, B) \/ Global(A, B)
              /\ A # <<>> /\ B # <<>> /\ Reads(Head(A)) /\ Reads(Head(B))

(* Both wait for a token, near each other and with stacks that are alike.  *)
Settled(c, o, l) ==
    \E A, B, r, q : /\ o = M(<<>>, A, r) /\ l = M(<<>>, B, q) /\ Near(c, r, q) /\ Meet(A, B)
                    /\ Head(B) = Parse("globalstat") => r.last = "name"

Akin(c, r, q) == r \in Regs /\ q \in Regs /\ (c = "apart" \/ r.tree = q.tree \/ OneValue(q.tree))

(* Both have read the whole text.                                          *)
Finished(c, i, o, l) ==
    \E r, q : o = M(i, <<>>, r) /\ l = M(<<>>, <<>>, q) /\ Akin(c, r, q)

(* What the two sides come to on the same token.                           *)
Verdict(c, i, o, l) ==
    \/ o = Refusal("none") /\ l = Refusal("none")
    \/ o \in Machines /\ l = Refusal("no_variable")
    \/ Head(i) # "eof" /\ l = Refusal("none") /\ \E r : r \in Regs /\ o = M(i, <<>>, r)
    \/ Head(i) = "eof" /\ Finished(c, i, o, l)
    \/ Settled(c, o, l)

(* On the tokens i, the stacks A and B come to a verdict; without a token, *)
(* they settle.                                                            *)
AgreeOn(i, A, B) == \A c, r, q : Near(c, r, q) => Verdict(c, i, ReadOurs(i, A, r), ReadLua(i, B, q))
Agree(A, B)      == \A i : Input(i) => AgreeOn(i, A, B)
Settles(A, B)    == \A c, r, q : Near(c, r, q) => Settled(c, ReadOurs(<<>>, A, r), ReadLua(<<>>, B, q))

LEMMA EmptyIn == <<>> \in Tokens55 /\ <<>> \in Stack
BY EmptySeq DEF Tokens55, Stack

LEMMA GlobalIn == \A A, B : Global(A, B) => A \in Stack /\ B \in Stack
BY AlikeIn, SymbolsIn, OnIs DEF Global

LEMMA MeetIn == \A A, B : Meet(A, B) => A \in Stack /\ B \in Stack
BY JointIn, JointsAre, GlobalIn DEF Meet

LEMMA VerdictIn == \A c, i, o, l : Input(i) /\ Verdict(c, i, o, l) => o \in Machines
<1> SUFFICES ASSUME NEW c, NEW i, NEW o, NEW l, Input(i), Verdict(c, i, o, l) PROVE o \in Machines
  OBVIOUS
<1>1. i \in Tokens55
  BY InputIs
<1>2. Refusal("none") \in Machines
  BY RefusalIn, VocabularyIs
<1>3. ASSUME NEW r \in Regs PROVE M(i, <<>>, r) \in Machines
  BY <1>1, EmptyIn, MIs
<1>4. ASSUME Settled(c, o, l) PROVE o \in Machines
  <2>1. PICK A, B, r, q : o = M(<<>>, A, r) /\ Near(c, r, q) /\ Meet(A, B)
    BY <1>4 DEF Settled
  <2> QED BY <2>1, MeetIn, NearIn, EmptyIn, MIs
<1>5. ASSUME Finished(c, i, o, l) PROVE o \in Machines
  BY <1>5, <1>3 DEF Finished, Akin
<1> QED BY <1>2, <1>3, <1>4, <1>5 DEF Verdict

LEMMA AgreeOurs == \A i, A, B, X : OursTo(i, A, X) /\ AgreeOn(i, X, B) => AgreeOn(i, A, B)
BY Zenon, NearIn DEF AgreeOn, OursTo

LEMMA AgreeLua == \A i, A, B, X : LuaTo(i, B, X) /\ AgreeOn(i, A, X) => AgreeOn(i, A, B)
BY Zenon, NearIn DEF AgreeOn, LuaTo

LEMMA AgreeNo == \A i, A, B : OursNo(i, A) /\ LuaNo(i, B) => AgreeOn(i, A, B)
<1>1. \A c, i : Verdict(c, i, Refusal("none"), Refusal("none"))
  BY DEF Verdict
<1> QED BY Zenon, <1>1, NearIn DEF AgreeOn, OursNo, LuaNo

OursRun(i, A) == \A r : r \in Regs => ReadOurs(i, A, r) \in Machines

LEMMA AgreeNoVariable == \A i, A, B : OursRun(i, A) /\ LuaNoVariable(i, B) => AgreeOn(i, A, B)
<1>1. \A c, i, o : o \in Machines => Verdict(c, i, o, Refusal("no_variable"))
  BY DEF Verdict
<1> QED BY Zenon, <1>1, NearIn DEF AgreeOn, OursRun, LuaNoVariable

LEMMA AgreeConsume ==
    ASSUME NEW i, Input(i), Tail(i) = <<>>, NEW u \in Vocabulary, NEW v \in Vocabulary, Fits(Head(i), u),
               Fits(Head(i), v),
           u = ")" <=> v = ")", NEW A \in Stack, NEW B \in Stack, Settles(A, B)
    PROVE  AgreeOn(i, Push(Expect(u), A), Push(Expect(v), B))
<1> SUFFICES ASSUME NEW c, NEW r, NEW q, Near(c, r, q)
             PROVE  Verdict(c, i, ReadOurs(i, Push(Expect(u), A), r),
                        ReadLua(i, Push(Expect(v), B), q))
  BY DEF AgreeOn
<1>1. i \in Tokens55 /\ i # <<>>
  BY InputIs
<1>2. r \in Regs /\ q \in Regs
  BY NearIn
<1>3. ReadOurs(i, Push(Expect(u), A), r) = ReadOurs(<<>>, A, Spoke(r, u))
  <2>1. ReadOurs(i, Push(Expect(u), A), r) = ReadOurs(Tail(i), A, Spoke(r, u))
    BY <1>1, <1>2, OursExpects
  <2> QED BY Zenon, <2>1
<1>4. ReadLua(i, Push(Expect(v), B), q) = ReadLua(<<>>, B, Spoke(q, v))
  <2>1. ReadLua(i, Push(Expect(v), B), q) = ReadLua(Tail(i), B, Spoke(q, v))
    BY <1>1, <1>2, LuaExpects
  <2> QED BY Zenon, <2>1
<1>5. Near(c, Spoke(r, u), Spoke(q, v))
  BY NearSpoke
<1>6. Settled(c, ReadOurs(<<>>, A, Spoke(r, u)), ReadLua(<<>>, B, Spoke(q, v)))
  BY Zenon, <1>5 DEF Settles
<1> QED BY Zenon, <1>1, <1>3, <1>4, <1>6 DEF Verdict

LEMMA Consume ==
    \A i, u, v, A, B : Input(i) /\ Tail(i) = <<>> /\ u \in Vocabulary /\ v \in Vocabulary
        /\ Fits(Head(i), u) /\ Fits(Head(i), v)
                       /\ (u = ")" <=> v = ")") /\ A \in Stack /\ B \in Stack /\ Settles(A, B)
                       => AgreeOn(i, Push(Expect(u), A), Push(Expect(v), B))
BY Zenon, AgreeConsume

LEMMA SettledIn == \A c, o, l : Settled(c, o, l) => o \in Machines
<1> SUFFICES ASSUME NEW c, NEW o, NEW l, Settled(c, o, l) PROVE o \in Machines
  OBVIOUS
<1>1. PICK A, B, r, q : o = M(<<>>, A, r) /\ Near(c, r, q) /\ Meet(A, B)
  BY DEF Settled
<1> QED BY <1>1, MeetIn, NearIn, EmptyIn, MIs

LEMMA NearSelf == \A r : r \in Regs => Near("apart", r, r)
BY DEF Near

LEMMA Eats ==
    ASSUME NEW i, Input(i), Tail(i) = <<>>, NEW u \in Vocabulary, Fits(Head(i), u), NEW A \in Stack, NEW B,
               Settles(A, B)
    PROVE  OursRun(i, Push(Expect(u), A))
<1> SUFFICES ASSUME NEW r \in Regs PROVE ReadOurs(i, Push(Expect(u), A), r) \in Machines
  BY DEF OursRun
<1>1. i \in Tokens55 /\ i # <<>>
  BY InputIs
<1>2. ReadOurs(i, Push(Expect(u), A), r) = ReadOurs(<<>>, A, Spoke(r, u))
  <2>1. ReadOurs(i, Push(Expect(u), A), r) = ReadOurs(Tail(i), A, Spoke(r, u))
    BY <1>1, OursExpects
  <2> QED BY Zenon, <2>1
<1>3. Spoke(r, u) \in Regs
  BY RegsIn
<1>4. Settled("apart", ReadOurs(<<>>, A, Spoke(r, u)), ReadLua(<<>>, B, Spoke(r, u)))
  BY Zenon, <1>3, NearSelf DEF Settles
<1> QED BY Zenon, <1>2, <1>4, SettledIn

LEMMA OursMismatch == \A i, u, A : Input(i) /\ u \in Vocabulary /\ A \in Stack /\ ~Fits(Head(i), u)
    => OursNo(i, Push(Expect(u), A))
BY OursExpects, InputIs DEF OursNo

LEMMA LuaMismatch == \A i, u, A : Input(i) /\ u \in Vocabulary /\ A \in Stack /\ ~Fits(Head(i), u)
    => LuaNo(i, Push(Expect(u), A))
BY LuaExpects, InputIs DEF LuaNo

LEMMA ToNo ==
    /\ \A i, A, X : OursTo(i, A, X) /\ OursNo(i, X) => OursNo(i, A)
    /\ \A i, A, X : LuaTo(i, A, X) /\ LuaNo(i, X) => LuaNo(i, A)
    /\ \A i, A, X : LuaTo(i, A, X) /\ LuaNoVariable(i, X) => LuaNoVariable(i, A)
    /\ \A i, A, X : OursTo(i, A, X) /\ OursRun(i, X) => OursRun(i, A)
BY Zenon DEF OursTo, OursNo, LuaTo, LuaNo, LuaNoVariable, OursRun

(* Completing a node keeps the sides together.                             *)
LEMMA AgreeNode == \A i, a, A, B : Input(i) /\ NodeLike(a) /\ A \in Stack /\ B \in Stack /\ AgreeOn(i, A, B)
                                   => AgreeOn(i, Push(a, A), Push(a, B))
<1> SUFFICES ASSUME NEW i, NEW a, NEW A \in Stack, NEW B \in Stack, Input(i), NodeLike(a), AgreeOn(i, A, B),
                    NEW c, NEW r, NEW q, Near(c, r, q)
             PROVE  Verdict(c, i, ReadOurs(i, Push(a, A), r), ReadLua(i, Push(a, B), q))
  BY DEF AgreeOn
<1>1. i \in Tokens55 /\ r \in Regs /\ q \in Regs
  BY InputIs, NearIn
<1>2. ReadOurs(i, Push(a, A), r) = ReadOurs(i, A, Done(r, a))
          /\ ReadLua(i, Push(a, B), q) = ReadLua(i, B, Done(q, a))
  BY <1>1, BothGo
<1>3. Near(c, Done(r, a), Done(q, a))
  BY NearDone DEF NodeLike
<1> QED BY Zenon, <1>2, <1>3 DEF AgreeOn

LEMMA SettleNode == \A a, A, B : NodeLike(a) /\ A \in Stack /\ B \in Stack /\ Settles(A, B)
    => Settles(Push(a, A), Push(a, B))
<1> SUFFICES ASSUME NEW a, NEW A \in Stack, NEW B \in Stack, NodeLike(a), Settles(A, B), NEW c, NEW r,
                        NEW q, Near(c, r, q)
             PROVE  Settled(c, ReadOurs(<<>>, Push(a, A), r), ReadLua(<<>>, Push(a, B), q))
  BY DEF Settles
<1>1. r \in Regs /\ q \in Regs
  BY NearIn
<1>2. ReadOurs(<<>>, Push(a, A), r) = ReadOurs(<<>>, A, Done(r, a))
          /\ ReadLua(<<>>, Push(a, B), q) = ReadLua(<<>>, B, Done(q, a))
  <2> DEFINE i == <<>>
  <2>1. i \in Tokens55
    BY EmptyIn
  <2> HIDE DEF i
  <2>2. ReadOurs(i, Push(a, A), r) = ReadOurs(i, A, Done(r, a))
            /\ ReadLua(i, Push(a, B), q) = ReadLua(i, B, Done(q, a))
    BY <1>1, <2>1, BothGo
  <2> QED BY Zenon, <2>2 DEF i
<1>3. Near(c, Done(r, a), Done(q, a))
  BY NearDone DEF NodeLike
<1> QED BY Zenon, <1>2, <1>3 DEF Settles

LEMMA SettleMeet == \A a, b, A, B : Waits(a) /\ Waits(b) /\ A \in Stack /\ B \in Stack
    /\ JointHere(Push(a, A), Push(b, B))
                                    => Settles(Push(a, A), Push(b, B))
<1> SUFFICES ASSUME NEW a, NEW b, NEW A \in Stack, NEW B \in Stack, Waits(a), Waits(b),
                        JointHere(Push(a, A), Push(b, B)),
                    NEW c, NEW r, NEW q, Near(c, r, q)
             PROVE  Settled(c, ReadOurs(<<>>, Push(a, A), r), ReadLua(<<>>, Push(b, B), q))
  BY DEF Settles
<1>1. ReadOurs(<<>>, Push(a, A), r) = M(<<>>, Push(a, A), r)
          /\ ReadLua(<<>>, Push(b, B), q) = M(<<>>, Push(b, B), q)
  BY BothGo, NearIn DEF Waits
<1>2. /\ Push(a, A) # <<>> /\ Push(b, B) # <<>> /\ Head(Push(a, A)) = a /\ Head(Push(b, B)) = b
  BY PushIs DEF Waits
<1>3. Meet(Push(a, A), Push(b, B)) /\ Head(Push(b, B)) # Parse("globalstat")
  BY <1>2 DEF Meet, Waits
<1> QED BY Zenon, <1>1, <1>3 DEF Settled

-----------------------------------------------------------------------------
(* Stacks that are alike settle: without a token to read, both sides only  *)
(* complete the same nodes.                                                *)
LEMMA WaitsAre ==
    /\ \A u : u \in Vocabulary => Waits(Expect(u))
    /\ \A op : op \in LeftOf => Waits(Climb(op))
    /\ Waits(Parse("args"))
    /\ Waits(Parse("assign_or_call"))
    /\ Waits(Parse("attname"))
    /\ Waits(Parse("attnamelist"))
    /\ Waits(Parse("attrib"))
    /\ Waits(Parse("attribute"))
    /\ Waits(Parse("attribute_name"))
    /\ Waits(Parse("block"))
    /\ Waits(Parse("call_args"))
    /\ Waits(Parse("closed"))
    /\ Waits(Parse("closedlist"))
    /\ Waits(Parse("constructor"))
    /\ Waits(Parse("discharge"))
    /\ Waits(Parse("else_clauses"))
    /\ Waits(Parse("explist"))
    /\ Waits(Parse("exprstat"))
    /\ Waits(Parse("field"))
    /\ Waits(Parse("fields"))
    /\ Waits(Parse("fieldsep"))
    /\ Waits(Parse("for"))
    /\ Waits(Parse("for_names"))
    /\ Waits(Parse("forlist"))
    /\ Waits(Parse("fornum"))
    /\ Waits(Parse("forstat"))
    /\ Waits(Parse("funcargs"))
    /\ Waits(Parse("funcname"))
    /\ Waits(Parse("init"))
    /\ Waits(Parse("initializer"))
    /\ Waits(Parse("local"))
    /\ Waits(Parse("localstat"))
    /\ Waits(Parse("more_exprs"))
    /\ Waits(Parse("more_names"))
    /\ Waits(Parse("more_params"))
    /\ Waits(Parse("morepars"))
    /\ Waits(Parse("name_parts"))
    /\ Waits(Parse("named_field"))
    /\ Waits(Parse("param"))
    /\ Waits(Parse("parameter"))
    /\ Waits(Parse("params"))
    /\ Waits(Parse("parlist"))
    /\ Waits(Parse("primary"))
    /\ Waits(Parse("primaryexp"))
    /\ Waits(Parse("recfield"))
    /\ Waits(Parse("rest"))
    /\ Waits(Parse("restassign"))
    /\ Waits(Parse("retstat"))
    /\ Waits(Parse("semicolon"))
    /\ Waits(Parse("separator"))
    /\ Waits(Parse("statement"))
    /\ Waits(Parse("statlist"))
    /\ Waits(Parse("step"))
    /\ Waits(Parse("subexpr"))
    /\ Waits(Parse("suffixedexp"))
    /\ Waits(Parse("suffixes"))
    /\ Waits(Parse("targets"))
    /\ Waits(Parse("test_then"))
    /\ Waits(Parse("unary"))
    /\ Waits(Parse("values"))
    /\ Waits(Parse("vararg_name"))
<1>1. \A u : u \in Vocabulary => Waits(Expect(u))
  BY SymbolIs DEF Waits, Reads, Expect, Parse
<1>2. \A op : op \in LeftOf => Waits(Climb(op))
  BY LeftOfIn DEF Waits, Reads, Climb, Parse
<1>3. \A p : p \in Procedures \cup Lua55!LuaProcedures /\ p # "globalstat" => Waits(Parse(p))
  BY WordSymbols DEF Waits, Reads, Parse
<1>4. \A p : p \in {"args", "assign_or_call", "attname", "attnamelist", "attrib", "attribute",
          "attribute_name", "block", "call_args", "closed", "closedlist", "constructor", "discharge",
          "else_clauses", "explist", "exprstat", "field", "fields", "fieldsep", "for", "for_names",
          "forlist", "fornum", "forstat", "funcargs", "funcname", "init", "initializer", "local",
          "localstat", "more_exprs", "more_names", "more_params", "morepars", "name_parts", "named_field",
          "param", "parameter", "params", "parlist", "primary", "primaryexp", "recfield", "rest",
          "restassign", "retstat", "semicolon", "separator", "statement", "statlist", "step", "subexpr",
          "suffixedexp", "suffixes", "targets", "test_then", "unary", "values", "vararg_name"}
          => p \in Procedures \cup Lua55!LuaProcedures /\ p # "globalstat"
  BY ProcsIn
<1> QED BY <1>1, <1>2, <1>3, <1>4

LEMMA NodesLike ==
    /\ \A n : n \in NodeKinds => NodeLike(Node(n))
    /\ \A n : n \in TokenKinds => NodeLike(Node(n)) /\ NodeLike(Unop(n)) /\ NodeLike(Binop(n))
BY WordSymbols DEF NodeLike, Kind, Node, Unop, Binop

LEMMA ShapesSettle ==
    \A S, T : Alike(S, T) =>
      /\ \A op : op \in LeftOf => Settles(Push(Parse("unary"), Push(Climb(op), S)),
           Push(Parse("subexpr"), Push(Climb(op), T)))
      /\ \A op : op \in LeftOf => Settles(Push(Parse("suffixes"), Push(Climb(op), S)), Push(Climb(op), T))
      /\ Settles(Push(Parse("suffixes"), S), Push(Parse("suffixedexp"), T))
      /\ Settles(Push(Parse("suffixes"), S), Push(Parse("discharge"), Push(Parse("suffixedexp"), T)))
      /\ Settles(Push(Parse("primary"), Push(Parse("suffixes"), S)),
           Push(Parse("primaryexp"), Push(Parse("suffixedexp"), T)))
      /\ Settles(Push(Parse("attribute_name"), S), Push(Parse("attname"), T))
      /\ Settles(Push(Parse("attribute_name"), S),
           Push(Expect("const"), Push(Expect(">"), Push(Node("const"), T))))
      /\ Settles(Push(Expect(")"), S), Push(Parse("vararg_name"), Push(Expect(")"), T)))
      /\ Settles(Push(Parse("local"), S), Push(Parse("localstat"), T))
      /\ Settles(Push(Parse("fields"), S), Push(Parse("constructor"), T))
      /\ Settles(Push(Parse("args"), S), Push(Parse("args"), T))
      /\ Settles(Push(Parse("values"), S), Push(Parse("retstat"), T))
      /\ Settles(Push(Parse("for"), S), Push(Parse("forstat"), T))
      /\ Settles(Push(Parse("named_field"), S), Push(Parse("recfield"), T))
      /\ Settles(Push(Parse("params"), Push(Expect(")"), S)), Push(Parse("parlist"), Push(Expect(")"), T)))
      /\ Settles(Push(Parse("param"), Push(Expect(")"), S)), Push(Parse("parameter"), Push(Expect(")"), T)))
      /\ Settles(Push(Parse("call_args"), Push(Node("method_call"), Push(Parse("suffixes"), S))),
           Push(Parse("funcargs"), Push(Node("method_call"), Push(Parse("suffixedexp"), T))))
<1> SUFFICES ASSUME NEW S, NEW T, Alike(S, T)
             PROVE  /\ \A op : op \in LeftOf
                         => Settles(Push(Parse("unary"), Push(Climb(op), S)),
                         Push(Parse("subexpr"), Push(Climb(op), T)))
                    /\ \A op : op \in LeftOf => Settles(Push(Parse("suffixes"), Push(Climb(op), S)),
                         Push(Climb(op), T))
                    /\ Settles(Push(Parse("suffixes"), S), Push(Parse("suffixedexp"), T))
                    /\ Settles(Push(Parse("suffixes"), S),
                         Push(Parse("discharge"), Push(Parse("suffixedexp"), T)))
                    /\ Settles(Push(Parse("primary"), Push(Parse("suffixes"), S)),
                         Push(Parse("primaryexp"), Push(Parse("suffixedexp"), T)))
                    /\ Settles(Push(Parse("attribute_name"), S), Push(Parse("attname"), T))
                    /\ Settles(Push(Parse("attribute_name"), S),
                         Push(Expect("const"), Push(Expect(">"), Push(Node("const"), T))))
                    /\ Settles(Push(Expect(")"), S), Push(Parse("vararg_name"), Push(Expect(")"), T)))
                    /\ Settles(Push(Parse("local"), S), Push(Parse("localstat"), T))
                    /\ Settles(Push(Parse("fields"), S), Push(Parse("constructor"), T))
                    /\ Settles(Push(Parse("args"), S), Push(Parse("args"), T))
                    /\ Settles(Push(Parse("values"), S), Push(Parse("retstat"), T))
                    /\ Settles(Push(Parse("for"), S), Push(Parse("forstat"), T))
                    /\ Settles(Push(Parse("named_field"), S), Push(Parse("recfield"), T))
                    /\ Settles(Push(Parse("params"), Push(Expect(")"), S)),
                         Push(Parse("parlist"), Push(Expect(")"), T)))
                    /\ Settles(Push(Parse("param"), Push(Expect(")"), S)),
                         Push(Parse("parameter"), Push(Expect(")"), T)))
                    /\ Settles(Push(Parse("call_args"),
                         Push(Node("method_call"), Push(Parse("suffixes"), S))),
                         Push(Parse("funcargs"), Push(Node("method_call"), Push(Parse("suffixedexp"), T))))
  BY Zenon
<1>1. S \in Stack /\ T \in Stack
  BY AlikeIn
<1>2. ASSUME NEW op \in LeftOf
                 PROVE Settles(Push(Parse("unary"), Push(Climb(op), S)),
                 Push(Parse("subexpr"), Push(Climb(op), T)))
  <2>1. JointHere(Push(Parse("unary"), Push(Climb(op), S)), Push(Parse("subexpr"), Push(Climb(op), T)))
    BY Zenon, BaresAre
  <2>2. Push(Climb(op), S) \in Stack /\ Push(Climb(op), T) \in Stack
    BY <1>1, SymbolsIn, LeftOfIn, OnIs
  <2>3. Waits(Parse("unary")) /\ Waits(Parse("subexpr"))
    BY WaitsAre
  <2> QED BY Zenon, <2>1, <2>2, <2>3, SettleMeet
<1>3. ASSUME NEW op \in LeftOf
                 PROVE Settles(Push(Parse("suffixes"), Push(Climb(op), S)), Push(Climb(op), T))
  <2>1. JointHere(Push(Parse("suffixes"), Push(Climb(op), S)), Push(Climb(op), T))
    BY Zenon, BaresAre
  <2>2. Push(Climb(op), S) \in Stack /\ T \in Stack
    BY <1>1, SymbolsIn, LeftOfIn, OnIs
  <2>3. Waits(Parse("suffixes")) /\ Waits(Climb(op))
    BY WaitsAre
  <2> QED BY Zenon, <2>1, <2>2, <2>3, SettleMeet
<1>4. Settles(Push(Parse("suffixes"), S), Push(Parse("suffixedexp"), T))
  <2>1. JointHere(Push(Parse("suffixes"), S), Push(Parse("suffixedexp"), T))
    BY Zenon, BaresAre
  <2>2. S \in Stack /\ T \in Stack
    BY <1>1, SymbolsIn, LeftOfIn, OnIs
  <2>3. Waits(Parse("suffixes")) /\ Waits(Parse("suffixedexp"))
    BY WaitsAre
  <2> QED BY Zenon, <2>1, <2>2, <2>3, SettleMeet
<1>5. Settles(Push(Parse("suffixes"), S), Push(Parse("discharge"), Push(Parse("suffixedexp"), T)))
  <2>1. JointHere(Push(Parse("suffixes"), S), Push(Parse("discharge"), Push(Parse("suffixedexp"), T)))
    BY Zenon, BaresAre
  <2>2. S \in Stack /\ Push(Parse("suffixedexp"), T) \in Stack
    BY <1>1, SymbolsIn, LeftOfIn, OnIs
  <2>3. Waits(Parse("suffixes")) /\ Waits(Parse("discharge"))
    BY WaitsAre
  <2> QED BY Zenon, <2>1, <2>2, <2>3, SettleMeet
<1>6. Settles(Push(Parse("primary"), Push(Parse("suffixes"), S)),
          Push(Parse("primaryexp"), Push(Parse("suffixedexp"), T)))
  <2>1. JointHere(Push(Parse("primary"), Push(Parse("suffixes"), S)),
            Push(Parse("primaryexp"), Push(Parse("suffixedexp"), T)))
    BY Zenon, BaresAre
  <2>2. Push(Parse("suffixes"), S) \in Stack /\ Push(Parse("suffixedexp"), T) \in Stack
    BY <1>1, SymbolsIn, LeftOfIn, OnIs
  <2>3. Waits(Parse("primary")) /\ Waits(Parse("primaryexp"))
    BY WaitsAre
  <2> QED BY Zenon, <2>1, <2>2, <2>3, SettleMeet
<1>7. Settles(Push(Parse("attribute_name"), S), Push(Parse("attname"), T))
  <2>1. JointHere(Push(Parse("attribute_name"), S), Push(Parse("attname"), T))
    BY Zenon, BaresAre
  <2>2. S \in Stack /\ T \in Stack
    BY <1>1, SymbolsIn, LeftOfIn, OnIs
  <2>3. Waits(Parse("attribute_name")) /\ Waits(Parse("attname"))
    BY WaitsAre
  <2> QED BY Zenon, <2>1, <2>2, <2>3, SettleMeet
<1>8. Settles(Push(Parse("attribute_name"), S),
          Push(Expect("const"), Push(Expect(">"), Push(Node("const"), T))))
  <2>1. JointHere(Push(Parse("attribute_name"), S),
            Push(Expect("const"), Push(Expect(">"), Push(Node("const"), T))))
    BY Zenon, BaresAre
  <2>2. S \in Stack /\ Push(Expect(">"), Push(Node("const"), T)) \in Stack
    BY <1>1, SymbolsIn, LeftOfIn, OnIs
  <2>3. Waits(Parse("attribute_name")) /\ Waits(Expect("const"))
    <3>1. "const" \in Vocabulary /\ ")" \in Vocabulary
      BY PlainAre, PlainIn, VocabularyIs
    <3> QED BY <3>1, WaitsAre
  <2> QED BY Zenon, <2>1, <2>2, <2>3, SettleMeet
<1>9. Settles(Push(Expect(")"), S), Push(Parse("vararg_name"), Push(Expect(")"), T)))
  <2>1. JointHere(Push(Expect(")"), S), Push(Parse("vararg_name"), Push(Expect(")"), T)))
    BY Zenon, BaresAre
  <2>2. S \in Stack /\ Push(Expect(")"), T) \in Stack
    BY <1>1, SymbolsIn, LeftOfIn, OnIs
  <2>3. Waits(Expect(")")) /\ Waits(Parse("vararg_name"))
    <3>1. "const" \in Vocabulary /\ ")" \in Vocabulary
      BY PlainAre, PlainIn, VocabularyIs
    <3> QED BY <3>1, WaitsAre
  <2> QED BY Zenon, <2>1, <2>2, <2>3, SettleMeet
<1>10. Settles(Push(Parse("local"), S), Push(Parse("localstat"), T))
  <2>1. JointHere(Push(Parse("local"), S), Push(Parse("localstat"), T))
    BY Zenon, BaresAre
  <2>2. S \in Stack /\ T \in Stack
    BY <1>1, SymbolsIn, LeftOfIn, OnIs
  <2>3. Waits(Parse("local")) /\ Waits(Parse("localstat"))
    BY WaitsAre
  <2> QED BY Zenon, <2>1, <2>2, <2>3, SettleMeet
<1>11. Settles(Push(Parse("fields"), S), Push(Parse("constructor"), T))
  <2>1. JointHere(Push(Parse("fields"), S), Push(Parse("constructor"), T))
    BY Zenon, BaresAre
  <2>2. S \in Stack /\ T \in Stack
    BY <1>1, SymbolsIn, LeftOfIn, OnIs
  <2>3. Waits(Parse("fields")) /\ Waits(Parse("constructor"))
    BY WaitsAre
  <2> QED BY Zenon, <2>1, <2>2, <2>3, SettleMeet
<1>12. Settles(Push(Parse("args"), S), Push(Parse("args"), T))
  <2>1. JointHere(Push(Parse("args"), S), Push(Parse("args"), T))
    BY Zenon, BaresAre
  <2>2. S \in Stack /\ T \in Stack
    BY <1>1, SymbolsIn, LeftOfIn, OnIs
  <2>3. Waits(Parse("args")) /\ Waits(Parse("args"))
    BY WaitsAre
  <2> QED BY Zenon, <2>1, <2>2, <2>3, SettleMeet
<1>13. Settles(Push(Parse("values"), S), Push(Parse("retstat"), T))
  <2>1. JointHere(Push(Parse("values"), S), Push(Parse("retstat"), T))
    BY Zenon, BaresAre
  <2>2. S \in Stack /\ T \in Stack
    BY <1>1, SymbolsIn, LeftOfIn, OnIs
  <2>3. Waits(Parse("values")) /\ Waits(Parse("retstat"))
    BY WaitsAre
  <2> QED BY Zenon, <2>1, <2>2, <2>3, SettleMeet
<1>14. Settles(Push(Parse("for"), S), Push(Parse("forstat"), T))
  <2>1. JointHere(Push(Parse("for"), S), Push(Parse("forstat"), T))
    BY Zenon, BaresAre
  <2>2. S \in Stack /\ T \in Stack
    BY <1>1, SymbolsIn, LeftOfIn, OnIs
  <2>3. Waits(Parse("for")) /\ Waits(Parse("forstat"))
    BY WaitsAre
  <2> QED BY Zenon, <2>1, <2>2, <2>3, SettleMeet
<1>15. Settles(Push(Parse("named_field"), S), Push(Parse("recfield"), T))
  <2>1. JointHere(Push(Parse("named_field"), S), Push(Parse("recfield"), T))
    BY Zenon, BaresAre
  <2>2. S \in Stack /\ T \in Stack
    BY <1>1, SymbolsIn, LeftOfIn, OnIs
  <2>3. Waits(Parse("named_field")) /\ Waits(Parse("recfield"))
    BY WaitsAre
  <2> QED BY Zenon, <2>1, <2>2, <2>3, SettleMeet
<1>16. Settles(Push(Parse("params"), Push(Expect(")"), S)), Push(Parse("parlist"), Push(Expect(")"), T)))
  <2>1. JointHere(Push(Parse("params"), Push(Expect(")"), S)), Push(Parse("parlist"), Push(Expect(")"), T)))
    BY Zenon, BaresAre
  <2>2. Push(Expect(")"), S) \in Stack /\ Push(Expect(")"), T) \in Stack
    BY <1>1, SymbolsIn, LeftOfIn, OnIs
  <2>3. Waits(Parse("params")) /\ Waits(Parse("parlist"))
    BY WaitsAre
  <2> QED BY Zenon, <2>1, <2>2, <2>3, SettleMeet
<1>17. Settles(Push(Parse("param"), Push(Expect(")"), S)), Push(Parse("parameter"), Push(Expect(")"), T)))
  <2>1. JointHere(Push(Parse("param"), Push(Expect(")"), S)),
            Push(Parse("parameter"), Push(Expect(")"), T)))
    BY Zenon, BaresAre
  <2>2. Push(Expect(")"), S) \in Stack /\ Push(Expect(")"), T) \in Stack
    BY <1>1, SymbolsIn, LeftOfIn, OnIs
  <2>3. Waits(Parse("param")) /\ Waits(Parse("parameter"))
    BY WaitsAre
  <2> QED BY Zenon, <2>1, <2>2, <2>3, SettleMeet
<1>18. Settles(Push(Parse("call_args"), Push(Node("method_call"), Push(Parse("suffixes"), S))),
           Push(Parse("funcargs"), Push(Node("method_call"), Push(Parse("suffixedexp"), T))))
  <2>1. JointHere(Push(Parse("call_args"), Push(Node("method_call"), Push(Parse("suffixes"), S))),
            Push(Parse("funcargs"), Push(Node("method_call"), Push(Parse("suffixedexp"), T))))
    BY Zenon, BaresAre
  <2>2. Push(Node("method_call"), Push(Parse("suffixes"), S)) \in Stack
            /\ Push(Node("method_call"), Push(Parse("suffixedexp"), T)) \in Stack
    BY <1>1, SymbolsIn, LeftOfIn, OnIs
  <2>3. Waits(Parse("call_args")) /\ Waits(Parse("funcargs"))
    BY WaitsAre
  <2> QED BY Zenon, <2>1, <2>2, <2>3, SettleMeet
<1> QED BY Zenon, <1>2, <1>3, <1>4, <1>5, <1>6, <1>7, <1>8, <1>9, <1>10, <1>11, <1>12, <1>13, <1>14, <1>15,
           <1>16, <1>17, <1>18

LEMMA SettleAlike == \A a, b, S, T : Waits(a) /\ Waits(b) /\ S \in Stack /\ T \in Stack
    /\ Alike(Push(a, S), Push(b, T))
                                    => Settles(Push(a, S), Push(b, T))
BY Zenon, BaresAre, SettleMeet

AlikePairs == {p \in Stack \X Stack : Alike(p[1], p[2])}
Settling == {p \in AlikePairs : Settles(p[1], p[2])}

LEMMA InSettling == \A S, T : In(Settling, S, T) <=> Alike(S, T) /\ Settles(S, T)
BY AlikeIn DEF In, Settling, AlikePairs

LEMMA BesideSettling == \A A, B : Beside(Settling, A, B) => Joint(A, B)
<1>1. \A A, B : BareOf(Settling, A, B) => JointHere(A, B)
  BY Zenon, InSettling DEF BareOf, JointHere
<1> QED BY Zenon, <1>1 DEF Beside, Joint

LEMMA FitWaits == \A a, b : Fit(a, b) => (NodeLike(a) /\ b = a) \/ (Waits(a) /\ Waits(b))
<1> SUFFICES ASSUME NEW a, NEW b, Fit(a, b) PROVE (NodeLike(a) /\ b = a) \/ (Waits(a) /\ Waits(b))
  OBVIOUS
<1>1. CASE \E op \in LeftOf : a = Climb(op) /\ b = Climb(op)
  BY Zenon, <1>1, WaitsAre
<1>2. CASE a = Parse("block") /\ b = Parse("statlist")
  BY Zenon, <1>2, WaitsAre
<1>3. CASE a = Parse("semicolon") /\ b = Parse("semicolon")
  BY Zenon, <1>3, WaitsAre
<1>4. CASE a = Parse("more_exprs") /\ b = Parse("explist")
  BY Zenon, <1>4, WaitsAre
<1>5. CASE a = Parse("initializer") /\ b = Parse("init")
  BY Zenon, <1>5, WaitsAre
<1>6. CASE a = Parse("attribute") /\ b = Parse("attrib")
  BY Zenon, <1>6, WaitsAre
<1>7. CASE a = Parse("more_names") /\ b = Parse("attnamelist")
  BY Zenon, <1>7, WaitsAre
<1>8. CASE a = Parse("attribute") /\ b = Parse("closed")
  BY Zenon, <1>8, WaitsAre
<1>9. CASE a = Parse("more_names") /\ b = Parse("closedlist")
  BY Zenon, <1>9, WaitsAre
<1>10. CASE a = Parse("for_names") /\ b = Parse("forlist")
  BY Zenon, <1>10, WaitsAre
<1>11. CASE a = Parse("step") /\ b = Parse("fornum")
  BY Zenon, <1>11, WaitsAre
<1>12. CASE a = Parse("else_clauses") /\ b = Parse("test_then")
  BY Zenon, <1>12, WaitsAre
<1>13. CASE a = Parse("name_parts") /\ b = Parse("funcname")
  BY Zenon, <1>13, WaitsAre
<1>14. CASE a = Parse("separator") /\ b = Parse("fieldsep")
  BY Zenon, <1>14, WaitsAre
<1>15. CASE a = Parse("assign_or_call") /\ b = Parse("exprstat")
  BY Zenon, <1>15, WaitsAre
<1> QED BY <1>1, <1>2, <1>3, <1>4, <1>5, <1>6, <1>7, <1>8, <1>9, <1>10, <1>11, <1>12, <1>13, <1>14, <1>15
           DEF Fit

(* Whatever is left waits for a token, after nodes that both sides         *)
(* complete.                                                               *)
LEMMA AlikeSettles == \A S, T : Alike(S, T) => Settles(S, T)
<1>1. In(Settling, Push(Parse("rest"), <<>>), Push(Expect("eof"), <<>>))
  <2>1. Waits(Parse("rest")) /\ Waits(Expect("eof"))
    BY WaitsAre, TokensAre, VocabularyIs
  <2> QED BY Zenon, <2>1, AlikeRules, SettleAlike, EmptyIn, InSettling
<1>2. ASSUME NEW a, NEW b, NEW S, NEW T, Fit(a, b), In(Settling, S, T)
                 PROVE In(Settling, Push(a, S), Push(b, T))
  <2>1. Alike(S, T) /\ Settles(S, T) /\ S \in Stack /\ T \in Stack
    BY Zenon, <1>2, InSettling, AlikeIn
  <2>2. Alike(Push(a, S), Push(b, T))
    BY Zenon, <1>2, <2>1, AlikeRules
  <2>3. CASE NodeLike(a) /\ b = a
    BY Zenon, <2>1, <2>2, <2>3, SettleNode, InSettling
  <2>4. CASE Waits(a) /\ Waits(b)
    BY Zenon, <2>1, <2>2, <2>4, SettleAlike, InSettling
  <2> QED BY Zenon, <1>2, <2>3, <2>4, FitWaits
<1>3. ASSUME NEW S, NEW T, In(Settling, S, T)
      PROVE  /\ In(Settling, Push(Parse("targets"),
                  Push(Expect("="), Push(Parse("unary"),
                  Push(Climb("none"), Push(Parse("more_exprs"), Push(Node("assign"), S)))))),
                  Push(Parse("restassign"), T))
             /\ In(Settling, Push(Parse("more_params"), Push(Expect(")"), S)),
                  Push(Parse("morepars"), Push(Expect(")"), T)))
             /\ In(Settling, Push(Expect("("), Push(Parse("params"), Push(Expect(")"), S))),
                  Push(Expect("("), Push(Parse("parlist"), Push(Expect(")"), T))))
  <2>1. Alike(S, T) /\ S \in Stack /\ T \in Stack
    BY Zenon, <1>3, InSettling, AlikeIn
  <2>2. In(Settling, Push(Parse("targets"),
            Push(Expect("="), Push(Parse("unary"),
            Push(Climb("none"), Push(Parse("more_exprs"), Push(Node("assign"), S)))))),
            Push(Parse("restassign"), T))
    <3>1. Alike(Push(Parse("targets"),
              Push(Expect("="), Push(Parse("unary"),
              Push(Climb("none"), Push(Parse("more_exprs"), Push(Node("assign"), S)))))),
              Push(Parse("restassign"), T))
      BY Zenon, <2>1, AlikeRules
    <3>2. Push(Expect("="), Push(Parse("unary"),
              Push(Climb("none"), Push(Parse("more_exprs"), Push(Node("assign"), S))))) \in Stack
              /\ T \in Stack
      BY <2>1, SymbolsIn, OnIs
    <3>3. Waits(Parse("targets")) /\ Waits(Parse("restassign"))
      BY WaitsAre
    <3> QED BY Zenon, <3>1, <3>2, <3>3, SettleAlike, InSettling
  <2>3. In(Settling, Push(Parse("more_params"), Push(Expect(")"), S)),
            Push(Parse("morepars"), Push(Expect(")"), T)))
    <3>1. Alike(Push(Parse("more_params"), Push(Expect(")"), S)),
              Push(Parse("morepars"), Push(Expect(")"), T)))
      BY Zenon, <2>1, AlikeRules
    <3>2. Push(Expect(")"), S) \in Stack /\ Push(Expect(")"), T) \in Stack
      BY <2>1, SymbolsIn, OnIs
    <3>3. Waits(Parse("more_params")) /\ Waits(Parse("morepars"))
      BY WaitsAre
    <3> QED BY Zenon, <3>1, <3>2, <3>3, SettleAlike, InSettling
  <2>4. In(Settling, Push(Expect("("), Push(Parse("params"), Push(Expect(")"), S))),
            Push(Expect("("), Push(Parse("parlist"), Push(Expect(")"), T))))
    <3>1. Alike(Push(Expect("("), Push(Parse("params"), Push(Expect(")"), S))),
              Push(Expect("("), Push(Parse("parlist"), Push(Expect(")"), T))))
      BY Zenon, <2>1, AlikeRules
    <3>2. Push(Parse("params"), Push(Expect(")"), S)) \in Stack
              /\ Push(Parse("parlist"), Push(Expect(")"), T)) \in Stack
      BY <2>1, SymbolsIn, OnIs
    <3>3. Waits(Expect("(")) /\ Waits(Expect("("))
      BY WaitsAre, PlainAre, PlainIn, VocabularyIs
    <3> QED BY Zenon, <3>1, <3>2, <3>3, SettleAlike, InSettling
  <2> QED BY Zenon, <2>2, <2>3, <2>4
<1>4. ASSUME NEW u, NEW A, NEW B, u \in Closers, Beside(Settling, A, B)
                 PROVE In(Settling, Push(Expect(u), A), Push(Expect(u), B))
  <2>1. Joint(A, B) /\ A \in Stack /\ B \in Stack
    BY Zenon, <1>4, BesideSettling, JointIn
  <2>2. Alike(Push(Expect(u), A), Push(Expect(u), B))
    BY Zenon, <1>4, <2>1, AlikeRules
  <2>3. Waits(Expect(u))
    BY <1>4, ClosersIn, WaitsAre
  <2> QED BY Zenon, <2>1, <2>2, <2>3, SettleAlike, InSettling
<1>5. Closed(Settling)
  BY Zenon, <1>1, <1>2, <1>3, <1>4 DEF Closed
<1> QED BY Zenon, <1>5, InSettling DEF Alike

-----------------------------------------------------------------------------
LEMMA LiteralIn == "Literal" \in TokenKinds /\ "Literal" \in Vocabulary /\ "." \in Vocabulary
    /\ "Name" \in Vocabulary /\ "Name" \in TokenKinds /\ "." \in TokenKinds
                   /\ Node("Literal") \in Symbols /\ NodeLike(Node("Literal"))
                        /\ Fits("Literal", "Literal") /\ Fits(".", ".")
<1>1. "Literal" \in TokenKinds /\ "." \in TokenKinds /\ "Name" \in TokenKinds
  BY PlainAre, PlainIn
<1> QED BY <1>1, VocabularyIs, NodesLike, WordSymbols DEF Fits

-----------------------------------------------------------------------------
(* One token read by each pair of words.  For the pair at hand, each token *)
(* is one case: the equations of both sides lead to where it is read, and  *)
(* what is left is alike.                                                  *)
LEMMA NoLineParen == \A t : t \in TokenKinds => t # LineParen
BY DEF TokenKinds, Keywords, Marks, BinaryOps, UnaryOps, Names, Simple, LineParen

LEMMA KindsIn ==
    /\ "assign" \in NodeKinds
    /\ "break" \in NodeKinds
    /\ "call" \in NodeKinds
    /\ "call_statement" \in NodeKinds
    /\ "const" \in NodeKinds
    /\ "close" \in NodeKinds
    /\ "do" \in NodeKinds
    /\ "else" \in NodeKinds
    /\ "elseif" \in NodeKinds
    /\ "expr_key" \in NodeKinds
    /\ "function" \in NodeKinds
    /\ "function_decl" \in NodeKinds
    /\ "generic_for" \in NodeKinds
    /\ "global" \in NodeKinds
    /\ "goto" \in NodeKinds
    /\ "if" \in NodeKinds
    /\ "index" \in NodeKinds
    /\ "index_expr" \in NodeKinds
    /\ "is_vararg" \in NodeKinds
    /\ "label" \in NodeKinds
    /\ "local" \in NodeKinds
    /\ "local_function" \in NodeKinds
    /\ "method" \in NodeKinds
    /\ "method_call" \in NodeKinds
    /\ "name" \in NodeKinds
    /\ "name_key" \in NodeKinds
    /\ "numeric_for" \in NodeKinds
    /\ "one_value" \in NodeKinds
    /\ "param" \in NodeKinds
    /\ "part" \in NodeKinds
    /\ "positional" \in NodeKinds
    /\ "repeat" \in NodeKinds
    /\ "return" \in NodeKinds
    /\ "table" \in NodeKinds
    /\ "while" \in NodeKinds
    /\ "String" \in TokenKinds /\ "Literal" \in TokenKinds /\ "..." \in TokenKinds /\ "Name" \in TokenKinds
<1>1. \A n : n \in {"assign", "break", "call", "call_statement", "const", "close", "do", "else", "elseif",
          "expr_key", "function", "function_decl", "generic_for", "global", "goto", "if", "index",
          "index_expr", "is_vararg", "label", "local", "local_function", "method", "method_call", "name",
          "name_key", "numeric_for", "one_value", "param", "part", "positional", "repeat", "return",
          "table", "while"} => n \in NodeKinds
  BY DEF NodeKinds
<1>2. \A n : n \in {"String", "Literal", "...", "Name"} => n \in TokenKinds
  BY PlainAre, PlainIn
<1> QED BY <1>1, <1>2

LEMMA LeafIn == Node("String") \in Symbols /\ Node("Literal") \in Symbols
BY KindsIn, WordSymbols

LEMMA WordsHere ==
    /\ Comma \in Vocabulary /\ SemiMark \in Vocabulary /\ OpenBrace \in Vocabulary
         /\ CloseBrace \in Vocabulary
    /\ \A t : t \in PlainTokens => t \in Vocabulary
    /\ \A t : t \in {"Name", "(", ")", "=", "in", ">", "const", "Literal"} => t \in Vocabulary
<1>1. \A t : t \in {"Name", "(", ")", "=", "in", ">", "const", "Literal"} => t \in PlainTokens
  BY PlainAre
<1> QED BY <1>1, MarksIn, PlainIn, VocabularyIs

(* Both sides read the token.                                              *)
LEMMA EatBoth ==
    \A i, u, A, B : Input(i) /\ u = Head(i) /\ A \in Stack /\ B \in Stack /\ Settles(A, B)
                    => AgreeOn(i, Push(Expect(u), A), Push(Expect(u), B))
<1> SUFFICES ASSUME NEW i, NEW u, NEW A, NEW B, Input(i), u = Head(i), A \in Stack,
                        B \in Stack, Settles(A, B)
             PROVE  AgreeOn(i, Push(Expect(u), A), Push(Expect(u), B))
  OBVIOUS
<1>1. Tail(i) = <<>> /\ u \in Vocabulary
  BY InputIs
<1>2. Fits(Head(i), u)
  BY DEF Fits
<1> QED BY Zenon, <1>1, <1>2, Consume

LEMMA EatName ==
    \A i, v, A, B : Input(i) /\ Head(i) \in Names /\ (v = "Name" \/ v = Head(i)) /\ A \in Stack
        /\ B \in Stack /\ Settles(A, B)
                    => AgreeOn(i, Push(Expect("Name"), A), Push(Expect(v), B))
<1> SUFFICES ASSUME NEW i, NEW v, NEW A, NEW B, Input(i), Head(i) \in Names, v = "Name"
                        \/ v = Head(i), A \in Stack, B \in Stack, Settles(A, B)
             PROVE  AgreeOn(i, Push(Expect("Name"), A), Push(Expect(v), B))
  OBVIOUS
<1>1. Head(i) # ")"
  BY DEF Names
<1>2. Tail(i) = <<>> /\ v \in Vocabulary /\ "Name" \in Vocabulary
  BY <1>1, InputIs, LiteralIn
<1>3. Fits(Head(i), "Name") /\ Fits(Head(i), v) /\ ("Name" = ")" <=> v = ")")
  BY <1>1 DEF Fits
<1> QED BY Zenon, <1>2, <1>3, Consume

LEMMA EatOurs ==
    \A i, u, A, B : Input(i) /\ u \in Vocabulary /\ Fits(Head(i), u) /\ A \in Stack
        /\ Settles(A, B)
                    => OursRun(i, Push(Expect(u), A))
<1> SUFFICES ASSUME NEW i, NEW u, NEW A, NEW B, Input(i), u \in Vocabulary,
                        Fits(Head(i), u), A \in Stack, Settles(A, B)
             PROVE  OursRun(i, Push(Expect(u), A))
  OBVIOUS
<1>1. Tail(i) = <<>>
  BY InputIs
<1> QED BY Zenon, <1>1, Eats

(* An operator that climbs over what is on its left.                       *)
LEMMA AgreeClimb ==
    \A i, op, S, T : Input(i) /\ op \in LeftOf /\ Alike(S, T) /\ AgreeOn(i, S, T)
        => AgreeOn(i, Push(Climb(op), S), Push(Climb(op), T))
<1> SUFFICES ASSUME NEW i, NEW op \in LeftOf, NEW S, NEW T, Input(i), Alike(S, T), AgreeOn(i, S, T)
             PROVE  AgreeOn(i, Push(Climb(op), S), Push(Climb(op), T))
  BY Zenon
<1> DEFINE t == Head(i)
<1>0. /\ i \in Tokens55 /\ i # <<>> /\ t = Head(i) /\ t \in TokenKinds /\ t \in Vocabulary /\ t # LineParen
      /\ S \in Stack /\ T \in Stack /\ Input(i)
           /\ Alike(S, T)
      /\ Tail(i) = <<>>
  BY InputIs, AlikeIn, NoLineParen
<1> HIDE DEF t
<1>1. CASE ~Climbs(op, t)
  <2>1. OursTo(i, Push(Climb(op), S), S)
    BY Zenon, <1>0, <1>1, OursClimb
  <2>2. LuaTo(i, Push(Climb(op), T), T)
    BY Zenon, <1>0, <1>1, LuaClimb
  <2> QED BY Zenon, <2>1, <2>2, AgreeOurs, AgreeLua
<1>2. CASE Climbs(op, t)
  <2> DEFINE T1 == Push(Parse("subexpr"), Push(Climb(t), Push(Binop(t), Push(Climb(op), T))))
             S1 == Push(Parse("unary"), Push(Climb(t), Push(Binop(t), Push(Climb(op), S))))
  <2>1. t \in LeftOf
    BY <1>2 DEF Climbs, LeftOf, BinaryOps
  <2>2. OursTo(i, Push(Climb(op), S), Push(Expect(t), S1))
    BY Zenon, <1>0, <1>2, OursClimb
  <2>3. LuaTo(i, Push(Climb(op), T), Push(Expect(t), T1))
    BY Zenon, <1>0, <1>2, LuaClimb
  <2>4. Alike(Push(Binop(t), Push(Climb(op), S)), Push(Binop(t), Push(Climb(op), T)))
    BY Zenon, <1>0, NodesLike, FitsAre, AlikeRules
  <2>5. Settles(S1, T1)
    BY Zenon, <2>1, <2>4, ShapesSettle
  <2>6. S1 \in Stack /\ T1 \in Stack
    BY <1>0, SymbolsIn, WordSymbols, LeftOfIn, OnIs
  <2>7. AgreeOn(i, Push(Expect(t), S1), Push(Expect(t), T1))
    BY Zenon, <1>0, <2>1, <2>5, <2>6, EatBoth
  <2>8. AgreeOn(i, Push(Climb(op), S), Push(Expect(t), T1))
    BY Zenon, <2>2, <2>7, AgreeOurs
  <2> QED BY Zenon, <2>3, <2>8, AgreeLua
<1> QED BY <1>1, <1>2

LEMMA AgreeSuffixes ==
    ASSUME NEW i, Input(i), NEW S, NEW T, Alike(S, T), AgreeOn(i, S, T)
    PROVE  AgreeOn(i, Push(Parse("suffixes"), S), Push(Parse("suffixedexp"), T))
<1> DEFINE t == Head(i)
<1>0. /\ i \in Tokens55 /\ i # <<>> /\ t = Head(i) /\ t \in TokenKinds /\ t \in Vocabulary /\ t # LineParen
      /\ S \in Stack /\ T \in Stack /\ Input(i)
           /\ Alike(S, T)
      /\ Tail(i) = <<>> /\ AgreeOn(i, S, T)
  BY InputIs, AlikeIn, NoLineParen
<1> HIDE DEF t
<1>1. CASE t = "("
  <2> DEFINE T1 == Push(Node("call"), Push(Parse("suffixedexp"), T))
             S1 == Push(Node("call"), Push(Parse("suffixes"), S))
             T2 == Push(Parse("args"), Push(Expect(")"), T1))
             S2 == Push(Parse("args"), Push(Expect(")"), S1))
  <2>1. (t = "(" \/ t = "String" \/ t = OpenBrace) /\ t = "("
            /\ (t = "(" \/ t = LineParen \/ t = "String" \/ t = OpenBrace) /\ (t = "(" \/ t = LineParen)
            /\ "(" = Head(i)
    BY <1>0, <1>1, MarksDiffer, WordsHere DEF PlainTokens, Names, Simple, UnaryOps, BlockEnds, Fits
  <2>2. S1 \in Stack /\ T1 \in Stack /\ S2 \in Stack /\ T2 \in Stack
    BY <1>0, SymbolsIn, OnIs
  <2>3. OursTo(i, Push(Parse("suffixes"), S), Push(Parse("call_args"), S1))
    BY Zenon, <1>0, <2>1, <2>2, OursSuffixes
  <2>4. OursTo(i, Push(Parse("call_args"), S1), Push(Expect("("), S2))
    BY Zenon, <1>0, <2>1, <2>2, OursCallArgs
  <2>5. LuaTo(i, Push(Parse("suffixedexp"), T), Push(Parse("funcargs"), T1))
    BY Zenon, <1>0, <2>1, <2>2, LuaSuffixedexp
  <2>6. LuaTo(i, Push(Parse("funcargs"), T1), Push(Expect("("), T2))
    BY Zenon, <1>0, <2>1, <2>2, LuaFuncargs
  <2>7. JointHere(Push(Parse("suffixes"), S), Push(Parse("suffixedexp"), T))
    BY Zenon, <1>0, BaresAre
  <2>8. NodeLike(Node("call"))
    BY NodesLike, KindsIn
  <2>9. Joint(S1, T1)
    BY Zenon, <2>7, <2>8, JointsAre
  <2>10. Alike(Push(Expect(")"), S1), Push(Expect(")"), T1))
    BY Zenon, <2>9, ClosersAre, AlikeRules
  <2>11. Settles(S2, T2)
    BY Zenon, <2>10, ShapesSettle
  <2>12. AgreeOn(i, Push(Expect("("), S2), Push(Expect("("), T2))
    BY Zenon, <1>0, <2>1, <2>2, <2>11, EatBoth
  <2>13. AgreeOn(i, Push(Parse("call_args"), S1), Push(Expect("("), T2))
    BY Zenon, <2>4, <2>12, AgreeOurs
  <2>14. AgreeOn(i, Push(Parse("suffixes"), S), Push(Expect("("), T2))
    BY Zenon, <2>3, <2>13, AgreeOurs
  <2>15. AgreeOn(i, Push(Parse("suffixes"), S), Push(Parse("funcargs"), T1))
    BY Zenon, <2>6, <2>14, AgreeLua
  <2>16. AgreeOn(i, Push(Parse("suffixes"), S), Push(Parse("suffixedexp"), T))
    BY Zenon, <2>5, <2>15, AgreeLua
  <2> QED BY Zenon, <2>16
<1>2. CASE t = OpenBrace
  <2> DEFINE S1 == Push(Node("call"), Push(Parse("suffixes"), S))
             T1 == Push(Node("call"), Push(Parse("suffixedexp"), T))
             S2 == Push(Parse("fields"), Push(Expect(CloseBrace), Push(Node("table"), S1)))
             T2 == Push(Parse("constructor"), Push(Expect(CloseBrace), Push(Node("table"), T1)))
  <2>1. (t = "(" \/ t = "String" \/ t = OpenBrace) /\ t = OpenBrace
            /\ (t = "(" \/ t = LineParen \/ t = "String" \/ t = OpenBrace) /\ OpenBrace = Head(i)
    BY <1>0, <1>2, MarksDiffer, WordsHere DEF PlainTokens, Names, Simple, UnaryOps, BlockEnds, Fits
  <2>2. S1 \in Stack /\ T1 \in Stack /\ S2 \in Stack /\ T2 \in Stack
    BY <1>0, SymbolsIn, OnIs
  <2>3. OursTo(i, Push(Parse("suffixes"), S), Push(Parse("call_args"), S1))
    BY Zenon, <1>0, <2>1, <2>2, OursSuffixes
  <2>4. OursTo(i, Push(Parse("call_args"), S1), Push(Expect(OpenBrace), S2))
    BY Zenon, <1>0, <2>1, <2>2, OursCallArgs
  <2>5. LuaTo(i, Push(Parse("suffixedexp"), T), Push(Parse("funcargs"), T1))
    BY Zenon, <1>0, <2>1, <2>2, LuaSuffixedexp
  <2>6. LuaTo(i, Push(Parse("funcargs"), T1), Push(Expect(OpenBrace), T2))
    BY Zenon, <1>0, <2>1, <2>2, LuaFuncargs
  <2>7. JointHere(Push(Parse("suffixes"), S), Push(Parse("suffixedexp"), T))
    BY Zenon, <1>0, BaresAre
  <2>8. NodeLike(Node("table"))
    BY NodesLike, KindsIn
  <2>9. NodeLike(Node("call"))
    BY NodesLike, KindsIn
  <2>10. Joint(Push(Node("table"), S1), Push(Node("table"), T1))
    BY Zenon, <2>7, <2>8, <2>9, JointsAre
  <2>11. Alike(Push(Expect(CloseBrace), Push(Node("table"), S1)),
             Push(Expect(CloseBrace), Push(Node("table"), T1)))
    BY Zenon, <2>10, ClosersAre, AlikeRules
  <2>12. Settles(S2, T2)
    BY Zenon, <2>11, ShapesSettle
  <2>13. AgreeOn(i, Push(Expect(OpenBrace), S2), Push(Expect(OpenBrace), T2))
    BY Zenon, <1>0, <2>1, <2>2, <2>12, EatBoth
  <2>14. AgreeOn(i, Push(Parse("call_args"), S1), Push(Expect(OpenBrace), T2))
    BY Zenon, <2>4, <2>13, AgreeOurs
  <2>15. AgreeOn(i, Push(Parse("suffixes"), S), Push(Expect(OpenBrace), T2))
    BY Zenon, <2>3, <2>14, AgreeOurs
  <2>16. AgreeOn(i, Push(Parse("suffixes"), S), Push(Parse("funcargs"), T1))
    BY Zenon, <2>6, <2>15, AgreeLua
  <2>17. AgreeOn(i, Push(Parse("suffixes"), S), Push(Parse("suffixedexp"), T))
    BY Zenon, <2>5, <2>16, AgreeLua
  <2> QED BY Zenon, <2>17
<1>3. CASE t = "["
  <2> DEFINE T1 == Push(Node("index_expr"), Push(Parse("suffixedexp"), T))
             S1 == Push(Node("index_expr"), Push(Parse("suffixes"), S))
             T2 == Push(Parse("subexpr"), Push(Climb("none"), Push(Expect("]"), T1)))
             S2 == Push(Parse("unary"), Push(Climb("none"), Push(Expect("]"), S1)))
  <2>1. t = "[" /\ "[" = Head(i)
    BY <1>0, <1>3, MarksDiffer, WordsHere DEF PlainTokens, Names, Simple, UnaryOps, BlockEnds, Fits
  <2>2. S2 \in Stack /\ T2 \in Stack
    BY <1>0, SymbolsIn, OnIs
  <2>3. OursTo(i, Push(Parse("suffixes"), S), Push(Expect("["), S2))
    BY Zenon, <1>0, <2>1, <2>2, OursSuffixes
  <2>4. LuaTo(i, Push(Parse("suffixedexp"), T), Push(Expect("["), T2))
    BY Zenon, <1>0, <2>1, <2>2, LuaSuffixedexp
  <2>5. JointHere(Push(Parse("suffixes"), S), Push(Parse("suffixedexp"), T))
    BY Zenon, <1>0, BaresAre
  <2>6. NodeLike(Node("index_expr"))
    BY NodesLike, KindsIn
  <2>7. Joint(S1, T1)
    BY Zenon, <2>5, <2>6, JointsAre
  <2>8. Alike(Push(Expect("]"), S1), Push(Expect("]"), T1))
    BY Zenon, <2>7, ClosersAre, AlikeRules
  <2>9. "none" \in LeftOf
    BY <1>0 DEF LeftOf, Climbs
  <2>10. Settles(S2, T2)
    BY Zenon, <2>8, <2>9, ShapesSettle
  <2>11. AgreeOn(i, Push(Expect("["), S2), Push(Expect("["), T2))
    BY Zenon, <1>0, <2>1, <2>2, <2>10, EatBoth
  <2>12. AgreeOn(i, Push(Parse("suffixes"), S), Push(Expect("["), T2))
    BY Zenon, <2>3, <2>11, AgreeOurs
  <2>13. AgreeOn(i, Push(Parse("suffixes"), S), Push(Parse("suffixedexp"), T))
    BY Zenon, <2>4, <2>12, AgreeLua
  <2> QED BY Zenon, <2>13
<1>4. CASE t = ":"
  <2> DEFINE T1 == Push(Parse("funcargs"), Push(Node("method_call"), Push(Parse("suffixedexp"), T)))
             S1 == Push(Parse("call_args"), Push(Node("method_call"), Push(Parse("suffixes"), S)))
             T2 == Push(Expect(":"), Push(Expect("Name"), T1))
  <2>1. t = ":" /\ ":" = Head(i)
    BY <1>0, <1>4, MarksDiffer, WordsHere DEF PlainTokens, Names, Simple, UnaryOps, BlockEnds, Fits
  <2>2. Push(Expect("Name"), S1) \in Stack /\ Push(Expect("Name"), T1) \in Stack
    BY <1>0, SymbolsIn, OnIs
  <2>3. OursTo(i, Push(Parse("suffixes"), S), Push(Expect(":"), Push(Expect("Name"), S1)))
    BY Zenon, <1>0, <2>1, <2>2, OursSuffixes
  <2>4. LuaTo(i, Push(Parse("suffixedexp"), T), T2)
    BY Zenon, <1>0, <2>1, <2>2, LuaSuffixedexp
  <2>5. JointHere(S1, T1)
    BY Zenon, <1>0, BaresAre
  <2>6. Joint(S1, T1)
    BY Zenon, <2>5, JointsAre
  <2>7. Alike(Push(Expect("Name"), S1), Push(Expect("Name"), T1))
    BY Zenon, <2>6, ClosersAre, AlikeRules
  <2>8. Settles(Push(Expect("Name"), S1), Push(Expect("Name"), T1))
    BY Zenon, <2>7, AlikeSettles
  <2>9. AgreeOn(i, Push(Expect(":"), Push(Expect("Name"), S1)), T2)
    BY Zenon, <1>0, <2>1, <2>2, <2>8, EatBoth
  <2>10. AgreeOn(i, Push(Parse("suffixes"), S), T2)
    BY Zenon, <2>3, <2>9, AgreeOurs
  <2>11. AgreeOn(i, Push(Parse("suffixes"), S), Push(Parse("suffixedexp"), T))
    BY Zenon, <2>4, <2>10, AgreeLua
  <2> QED BY Zenon, <2>11
<1>5. CASE t = "."
  <2> DEFINE S1 == Push(Expect("Name"), Push(Node("index"), Push(Parse("suffixes"), S)))
             T1 == Push(Node("index"), Push(Parse("suffixedexp"), T))
             T2 == Push(Expect("Name"), T1)
  <2>1. t = "." /\ "." = Head(i)
    BY <1>0, <1>5, MarksDiffer, WordsHere DEF PlainTokens, Names, Simple, UnaryOps, BlockEnds, Fits
  <2>2. S1 \in Stack /\ T2 \in Stack
    BY <1>0, SymbolsIn, OnIs
  <2>3. OursTo(i, Push(Parse("suffixes"), S), Push(Expect("."), S1))
    BY Zenon, <1>0, <2>1, <2>2, OursSuffixes
  <2>4. LuaTo(i, Push(Parse("suffixedexp"), T), Push(Expect("."), T2))
    BY Zenon, <1>0, <2>1, <2>2, LuaSuffixedexp
  <2>5. JointHere(Push(Parse("suffixes"), S), Push(Parse("suffixedexp"), T))
    BY Zenon, <1>0, BaresAre
  <2>6. NodeLike(Node("index"))
    BY NodesLike, KindsIn
  <2>7. Joint(Push(Node("index"), Push(Parse("suffixes"), S)), T1)
    BY Zenon, <2>5, <2>6, JointsAre
  <2>8. Alike(S1, T2)
    BY Zenon, <2>7, ClosersAre, AlikeRules
  <2>9. Settles(S1, T2)
    BY Zenon, <2>8, AlikeSettles
  <2>10. AgreeOn(i, Push(Expect("."), S1), Push(Expect("."), T2))
    BY Zenon, <1>0, <2>1, <2>2, <2>9, EatBoth
  <2>11. AgreeOn(i, Push(Parse("suffixes"), S), Push(Expect("."), T2))
    BY Zenon, <2>3, <2>10, AgreeOurs
  <2>12. AgreeOn(i, Push(Parse("suffixes"), S), Push(Parse("suffixedexp"), T))
    BY Zenon, <2>4, <2>11, AgreeLua
  <2> QED BY Zenon, <2>12
<1>6. CASE t = "String"
  <2> DEFINE T1 == Push(Node("call"), Push(Parse("suffixedexp"), T))
             S1 == Push(Node("call"), Push(Parse("suffixes"), S))
             T2 == Push(Expect("String"), Push(Node("String"), T1))
  <2>1. (t = "(" \/ t = "String" \/ t = OpenBrace) /\ t = "String"
            /\ (t = "(" \/ t = LineParen \/ t = "String" \/ t = OpenBrace) /\ "String" = Head(i)
    BY <1>0, <1>6, MarksDiffer, WordsHere DEF PlainTokens, Names, Simple, UnaryOps, BlockEnds, Fits
  <2>2. S1 \in Stack /\ T1 \in Stack /\ Push(Node("String"), S1) \in Stack
            /\ Push(Node("String"), T1) \in Stack
    BY <1>0, SymbolsIn, WordSymbols, LeafIn, OnIs
  <2>3. OursTo(i, Push(Parse("suffixes"), S), Push(Parse("call_args"), S1))
    BY Zenon, <1>0, <2>1, <2>2, OursSuffixes
  <2>4. OursTo(i, Push(Parse("call_args"), S1), Push(Expect("String"), Push(Node("String"), S1)))
    BY Zenon, <1>0, <2>1, <2>2, OursCallArgs
  <2>5. LuaTo(i, Push(Parse("suffixedexp"), T), Push(Parse("funcargs"), T1))
    BY Zenon, <1>0, <2>1, <2>2, LuaSuffixedexp
  <2>6. LuaTo(i, Push(Parse("funcargs"), T1), T2)
    BY Zenon, <1>0, <2>1, <2>2, LuaFuncargs
  <2>7. Settles(Push(Parse("suffixes"), S), Push(Parse("suffixedexp"), T))
    BY Zenon, <1>0, ShapesSettle
  <2>8. NodeLike(Node("call"))
    BY NodesLike, KindsIn
  <2>9. Push(Parse("suffixes"), S) \in Stack /\ Push(Parse("suffixedexp"), T) \in Stack
    BY <1>0, SymbolsIn, OnIs
  <2>10. Settles(S1, T1)
    BY Zenon, <2>7, <2>8, <2>9, SettleNode
  <2>11. NodeLike(Node("String"))
    BY NodesLike, KindsIn
  <2>12. S1 \in Stack /\ T1 \in Stack
    BY <1>0, SymbolsIn, OnIs
  <2>13. Settles(Push(Node("String"), S1), Push(Node("String"), T1))
    BY Zenon, <2>10, <2>11, <2>12, SettleNode
  <2>14. AgreeOn(i, Push(Expect("String"), Push(Node("String"), S1)), T2)
    BY Zenon, <1>0, <2>1, <2>2, <2>13, EatBoth
  <2>15. AgreeOn(i, Push(Parse("call_args"), S1), T2)
    BY Zenon, <2>4, <2>14, AgreeOurs
  <2>16. AgreeOn(i, Push(Parse("suffixes"), S), T2)
    BY Zenon, <2>3, <2>15, AgreeOurs
  <2>17. AgreeOn(i, Push(Parse("suffixes"), S), Push(Parse("funcargs"), T1))
    BY Zenon, <2>6, <2>16, AgreeLua
  <2>18. AgreeOn(i, Push(Parse("suffixes"), S), Push(Parse("suffixedexp"), T))
    BY Zenon, <2>5, <2>17, AgreeLua
  <2> QED BY Zenon, <2>18
<1>7. CASE t # "(" /\ t # OpenBrace /\ t # "[" /\ t # ":" /\ t # "." /\ t # "String"
  <2>1. (t # "." /\ t # "[" /\ t # ":" /\ t # "(" /\ t # "String" /\ t # OpenBrace)
            /\ (t # "." /\ t # "[" /\ t # ":" /\ t # "(" /\ t # "String" /\ t # OpenBrace /\ t # LineParen)
    BY <1>0, <1>7, MarksDiffer, WordsHere DEF PlainTokens, Names, Simple, UnaryOps, BlockEnds, Fits
  <2>2. OursTo(i, Push(Parse("suffixes"), S), S)
    BY Zenon, <1>0, <2>1, OursSuffixes
  <2>3. LuaTo(i, Push(Parse("suffixedexp"), T), T)
    BY Zenon, <1>0, <2>1, LuaSuffixedexp
  <2>4. AgreeOn(i, Push(Parse("suffixes"), S), T)
    BY Zenon, <2>2, <1>0, AgreeOurs
  <2>5. AgreeOn(i, Push(Parse("suffixes"), S), Push(Parse("suffixedexp"), T))
    BY Zenon, <2>3, <2>4, AgreeLua
  <2> QED BY Zenon, <2>5
<1> QED BY Zenon, <1>1, <1>2, <1>3, <1>4, <1>5, <1>6, <1>7

LEMMA AgreeMoreExprs ==
    ASSUME NEW i, Input(i), NEW S, NEW T, Alike(S, T), AgreeOn(i, S, T)
    PROVE  AgreeOn(i, Push(Parse("more_exprs"), S), Push(Parse("explist"), T))
<1> DEFINE t == Head(i)
<1>0. /\ i \in Tokens55 /\ i # <<>> /\ t = Head(i) /\ t \in TokenKinds /\ t \in Vocabulary /\ t # LineParen
      /\ S \in Stack /\ T \in Stack /\ Input(i)
           /\ Alike(S, T)
      /\ Tail(i) = <<>> /\ AgreeOn(i, S, T)
  BY InputIs, AlikeIn, NoLineParen
<1> HIDE DEF t
<1>1. CASE t = Comma
  <2> DEFINE T1 == Push(Parse("subexpr"), Push(Climb("none"), Push(Parse("explist"), T)))
             S1 == Push(Parse("unary"), Push(Climb("none"), Push(Parse("more_exprs"), S)))
  <2>1. t = Comma /\ Comma = Head(i)
    BY <1>0, <1>1, MarksDiffer, WordsHere DEF PlainTokens, Names, Simple, UnaryOps, BlockEnds, Fits
  <2>2. S1 \in Stack /\ T1 \in Stack
    BY <1>0, SymbolsIn, OnIs
  <2>3. OursTo(i, Push(Parse("more_exprs"), S), Push(Expect(Comma), S1))
    BY Zenon, <1>0, <2>1, <2>2, OursMoreExprs
  <2>4. LuaTo(i, Push(Parse("explist"), T), Push(Expect(Comma), T1))
    BY Zenon, <1>0, <2>1, <2>2, LuaExplist
  <2>5. Fit(Parse("more_exprs"), Parse("explist"))
    BY Zenon, FitsAre
  <2>6. Alike(Push(Parse("more_exprs"), S), Push(Parse("explist"), T))
    BY Zenon, <2>5, <1>0, AlikeRules
  <2>7. "none" \in LeftOf
    BY <1>0 DEF LeftOf, Climbs
  <2>8. Settles(S1, T1)
    BY Zenon, <2>6, <2>7, ShapesSettle
  <2>9. AgreeOn(i, Push(Expect(Comma), S1), Push(Expect(Comma), T1))
    BY Zenon, <1>0, <2>1, <2>2, <2>8, EatBoth
  <2>10. AgreeOn(i, Push(Parse("more_exprs"), S), Push(Expect(Comma), T1))
    BY Zenon, <2>3, <2>9, AgreeOurs
  <2>11. AgreeOn(i, Push(Parse("more_exprs"), S), Push(Parse("explist"), T))
    BY Zenon, <2>4, <2>10, AgreeLua
  <2> QED BY Zenon, <2>11
<1>2. CASE t # Comma
  <2>1. t # Comma
    BY <1>0, <1>2, MarksDiffer, WordsHere DEF PlainTokens, Names, Simple, UnaryOps, BlockEnds, Fits
  <2>2. OursTo(i, Push(Parse("more_exprs"), S), S)
    BY Zenon, <1>0, <2>1, OursMoreExprs
  <2>3. LuaTo(i, Push(Parse("explist"), T), T)
    BY Zenon, <1>0, <2>1, LuaExplist
  <2>4. AgreeOn(i, Push(Parse("more_exprs"), S), T)
    BY Zenon, <2>2, <1>0, AgreeOurs
  <2>5. AgreeOn(i, Push(Parse("more_exprs"), S), Push(Parse("explist"), T))
    BY Zenon, <2>3, <2>4, AgreeLua
  <2> QED BY Zenon, <2>5
<1> QED BY Zenon, <1>1, <1>2

LEMMA AgreeInitializer ==
    ASSUME NEW i, Input(i), NEW S, NEW T, Alike(S, T), AgreeOn(i, S, T)
    PROVE  AgreeOn(i, Push(Parse("initializer"), S), Push(Parse("init"), T))
<1> DEFINE t == Head(i)
<1>0. /\ i \in Tokens55 /\ i # <<>> /\ t = Head(i) /\ t \in TokenKinds /\ t \in Vocabulary /\ t # LineParen
      /\ S \in Stack /\ T \in Stack /\ Input(i)
           /\ Alike(S, T)
      /\ Tail(i) = <<>> /\ AgreeOn(i, S, T)
  BY InputIs, AlikeIn, NoLineParen
<1> HIDE DEF t
<1>1. CASE t = "="
  <2> DEFINE T1 == Push(Parse("subexpr"), Push(Climb("none"), Push(Parse("explist"), T)))
             S1 == Push(Parse("unary"), Push(Climb("none"), Push(Parse("more_exprs"), S)))
  <2>1. t = "=" /\ "=" = Head(i)
    BY <1>0, <1>1, MarksDiffer, WordsHere DEF PlainTokens, Names, Simple, UnaryOps, BlockEnds, Fits
  <2>2. S1 \in Stack /\ T1 \in Stack
    BY <1>0, SymbolsIn, OnIs
  <2>3. OursTo(i, Push(Parse("initializer"), S), Push(Expect("="), S1))
    BY Zenon, <1>0, <2>1, <2>2, OursInitializer
  <2>4. LuaTo(i, Push(Parse("init"), T), Push(Expect("="), T1))
    BY Zenon, <1>0, <2>1, <2>2, LuaInit
  <2>5. Fit(Parse("more_exprs"), Parse("explist"))
    BY Zenon, FitsAre
  <2>6. Alike(Push(Parse("more_exprs"), S), Push(Parse("explist"), T))
    BY Zenon, <2>5, <1>0, AlikeRules
  <2>7. "none" \in LeftOf
    BY <1>0 DEF LeftOf, Climbs
  <2>8. Settles(S1, T1)
    BY Zenon, <2>6, <2>7, ShapesSettle
  <2>9. AgreeOn(i, Push(Expect("="), S1), Push(Expect("="), T1))
    BY Zenon, <1>0, <2>1, <2>2, <2>8, EatBoth
  <2>10. AgreeOn(i, Push(Parse("initializer"), S), Push(Expect("="), T1))
    BY Zenon, <2>3, <2>9, AgreeOurs
  <2>11. AgreeOn(i, Push(Parse("initializer"), S), Push(Parse("init"), T))
    BY Zenon, <2>4, <2>10, AgreeLua
  <2> QED BY Zenon, <2>11
<1>2. CASE t # "="
  <2>1. t # "="
    BY <1>0, <1>2, MarksDiffer, WordsHere DEF PlainTokens, Names, Simple, UnaryOps, BlockEnds, Fits
  <2>2. OursTo(i, Push(Parse("initializer"), S), S)
    BY Zenon, <1>0, <2>1, OursInitializer
  <2>3. LuaTo(i, Push(Parse("init"), T), T)
    BY Zenon, <1>0, <2>1, LuaInit
  <2>4. AgreeOn(i, Push(Parse("initializer"), S), T)
    BY Zenon, <2>2, <1>0, AgreeOurs
  <2>5. AgreeOn(i, Push(Parse("initializer"), S), Push(Parse("init"), T))
    BY Zenon, <2>3, <2>4, AgreeLua
  <2> QED BY Zenon, <2>5
<1> QED BY Zenon, <1>1, <1>2

LEMMA AgreeAttribute ==
    ASSUME NEW i, Input(i), NEW S, NEW T, Alike(S, T), AgreeOn(i, S, T)
    PROVE  AgreeOn(i, Push(Parse("attribute"), S), Push(Parse("attrib"), T))
<1> DEFINE t == Head(i)
<1>0. /\ i \in Tokens55 /\ i # <<>> /\ t = Head(i) /\ t \in TokenKinds /\ t \in Vocabulary /\ t # LineParen
      /\ S \in Stack /\ T \in Stack /\ Input(i)
           /\ Alike(S, T)
      /\ Tail(i) = <<>> /\ AgreeOn(i, S, T)
  BY InputIs, AlikeIn, NoLineParen
<1> HIDE DEF t
<1>1. CASE t = "<"
  <2> DEFINE T1 == Push(Expect("<"), Push(Parse("attname"), T))
             S1 == Push(Expect("<"), Push(Parse("attribute_name"), S))
  <2>1. t = "<" /\ "<" = Head(i)
    BY <1>0, <1>1, MarksDiffer, WordsHere DEF PlainTokens, Names, Simple, UnaryOps, BlockEnds, Fits
  <2>2. Push(Parse("attribute_name"), S) \in Stack /\ Push(Parse("attname"), T) \in Stack
    BY <1>0, SymbolsIn, OnIs
  <2>3. OursTo(i, Push(Parse("attribute"), S), S1)
    BY Zenon, <1>0, <2>1, <2>2, OursAttribute
  <2>4. LuaTo(i, Push(Parse("attrib"), T), T1)
    BY Zenon, <1>0, <2>1, <2>2, LuaAttrib
  <2>5. Settles(Push(Parse("attribute_name"), S), Push(Parse("attname"), T))
    BY Zenon, <1>0, ShapesSettle
  <2>6. AgreeOn(i, S1, T1)
    BY Zenon, <1>0, <2>1, <2>2, <2>5, EatBoth
  <2>7. AgreeOn(i, Push(Parse("attribute"), S), T1)
    BY Zenon, <2>3, <2>6, AgreeOurs
  <2>8. AgreeOn(i, Push(Parse("attribute"), S), Push(Parse("attrib"), T))
    BY Zenon, <2>4, <2>7, AgreeLua
  <2> QED BY Zenon, <2>8
<1>2. CASE t # "<"
  <2>1. t # "<"
    BY <1>0, <1>2, MarksDiffer, WordsHere DEF PlainTokens, Names, Simple, UnaryOps, BlockEnds, Fits
  <2>2. OursTo(i, Push(Parse("attribute"), S), S)
    BY Zenon, <1>0, <2>1, OursAttribute
  <2>3. LuaTo(i, Push(Parse("attrib"), T), T)
    BY Zenon, <1>0, <2>1, LuaAttrib
  <2>4. AgreeOn(i, Push(Parse("attribute"), S), T)
    BY Zenon, <2>2, <1>0, AgreeOurs
  <2>5. AgreeOn(i, Push(Parse("attribute"), S), Push(Parse("attrib"), T))
    BY Zenon, <2>3, <2>4, AgreeLua
  <2> QED BY Zenon, <2>5
<1> QED BY Zenon, <1>1, <1>2

LEMMA AgreeClosed ==
    ASSUME NEW i, Input(i), NEW S, NEW T, Alike(S, T), AgreeOn(i, S, T)
    PROVE  AgreeOn(i, Push(Parse("attribute"), S), Push(Parse("closed"), T))
<1> DEFINE t == Head(i)
<1>0. /\ i \in Tokens55 /\ i # <<>> /\ t = Head(i) /\ t \in TokenKinds /\ t \in Vocabulary /\ t # LineParen
      /\ S \in Stack /\ T \in Stack /\ Input(i)
           /\ Alike(S, T)
      /\ Tail(i) = <<>> /\ AgreeOn(i, S, T)
  BY InputIs, AlikeIn, NoLineParen
<1> HIDE DEF t
<1>1. CASE t = "<"
  <2> DEFINE T1 == Push(Expect("const"), Push(Expect(">"), Push(Node("const"), T)))
             S1 == Push(Expect("<"), Push(Parse("attribute_name"), S))
  <2>1. t = "<" /\ "<" = Head(i)
    BY <1>0, <1>1, MarksDiffer, WordsHere DEF PlainTokens, Names, Simple, UnaryOps, BlockEnds, Fits
  <2>2. Push(Parse("attribute_name"), S) \in Stack /\ T1 \in Stack
    BY <1>0, SymbolsIn, OnIs
  <2>3. OursTo(i, Push(Parse("attribute"), S), S1)
    BY Zenon, <1>0, <2>1, <2>2, OursAttribute
  <2>4. LuaTo(i, Push(Parse("closed"), T), Push(Expect("<"), T1))
    BY Zenon, <1>0, <2>1, <2>2, LuaClosed
  <2>5. Settles(Push(Parse("attribute_name"), S), T1)
    BY Zenon, <1>0, ShapesSettle
  <2>6. AgreeOn(i, S1, Push(Expect("<"), T1))
    BY Zenon, <1>0, <2>1, <2>2, <2>5, EatBoth
  <2>7. AgreeOn(i, Push(Parse("attribute"), S), Push(Expect("<"), T1))
    BY Zenon, <2>3, <2>6, AgreeOurs
  <2>8. AgreeOn(i, Push(Parse("attribute"), S), Push(Parse("closed"), T))
    BY Zenon, <2>4, <2>7, AgreeLua
  <2> QED BY Zenon, <2>8
<1>2. CASE t # "<"
  <2>1. t # "<"
    BY <1>0, <1>2, MarksDiffer, WordsHere DEF PlainTokens, Names, Simple, UnaryOps, BlockEnds, Fits
  <2>2. OursTo(i, Push(Parse("attribute"), S), S)
    BY Zenon, <1>0, <2>1, OursAttribute
  <2>3. LuaTo(i, Push(Parse("closed"), T), T)
    BY Zenon, <1>0, <2>1, LuaClosed
  <2>4. AgreeOn(i, Push(Parse("attribute"), S), T)
    BY Zenon, <2>2, <1>0, AgreeOurs
  <2>5. AgreeOn(i, Push(Parse("attribute"), S), Push(Parse("closed"), T))
    BY Zenon, <2>3, <2>4, AgreeLua
  <2> QED BY Zenon, <2>5
<1> QED BY Zenon, <1>1, <1>2

LEMMA AgreeClosedNames ==
    ASSUME NEW i, Input(i), NEW S, NEW T, Alike(S, T), AgreeOn(i, S, T)
    PROVE  AgreeOn(i, Push(Parse("more_names"), S), Push(Parse("closedlist"), T))
<1> DEFINE t == Head(i)
<1>0. /\ i \in Tokens55 /\ i # <<>> /\ t = Head(i) /\ t \in TokenKinds /\ t \in Vocabulary /\ t # LineParen
      /\ S \in Stack /\ T \in Stack /\ Input(i)
           /\ Alike(S, T)
      /\ Tail(i) = <<>> /\ AgreeOn(i, S, T)
  BY InputIs, AlikeIn, NoLineParen
<1> HIDE DEF t
<1>1. CASE t = Comma
  <2> DEFINE T1 == Push(Parse("closed"), Push(Parse("closedlist"), T))
             S1 == Push(Parse("attribute"), Push(Parse("more_names"), S))
             T2 == Push(Expect(Comma), Push(Expect("Name"), T1))
  <2>1. t = Comma /\ Comma = Head(i)
    BY <1>0, <1>1, MarksDiffer, WordsHere DEF PlainTokens, Names, Simple, UnaryOps, BlockEnds, Fits
  <2>2. Push(Expect("Name"), S1) \in Stack /\ Push(Expect("Name"), T1) \in Stack
    BY <1>0, SymbolsIn, OnIs
  <2>3. OursTo(i, Push(Parse("more_names"), S), Push(Expect(Comma), Push(Expect("Name"), S1)))
    BY Zenon, <1>0, <2>1, <2>2, OursMoreNames
  <2>4. LuaTo(i, Push(Parse("closedlist"), T), T2)
    BY Zenon, <1>0, <2>1, <2>2, LuaClosedlist
  <2>5. Fit(Parse("more_names"), Parse("closedlist"))
    BY Zenon, FitsAre
  <2>6. Alike(Push(Parse("more_names"), S), Push(Parse("closedlist"), T))
    BY Zenon, <2>5, <1>0, AlikeRules
  <2>7. Fit(Parse("attribute"), Parse("closed"))
    BY Zenon, FitsAre
  <2>8. Alike(S1, T1)
    BY Zenon, <2>7, <2>6, AlikeRules
  <2>9. JointHere(S1, T1)
    BY Zenon, <2>8, BaresAre
  <2>10. Joint(S1, T1)
    BY Zenon, <2>9, JointsAre
  <2>11. Alike(Push(Expect("Name"), S1), Push(Expect("Name"), T1))
    BY Zenon, <2>10, ClosersAre, AlikeRules
  <2>12. Settles(Push(Expect("Name"), S1), Push(Expect("Name"), T1))
    BY Zenon, <2>11, AlikeSettles
  <2>13. AgreeOn(i, Push(Expect(Comma), Push(Expect("Name"), S1)), T2)
    BY Zenon, <1>0, <2>1, <2>2, <2>12, EatBoth
  <2>14. AgreeOn(i, Push(Parse("more_names"), S), T2)
    BY Zenon, <2>3, <2>13, AgreeOurs
  <2>15. AgreeOn(i, Push(Parse("more_names"), S), Push(Parse("closedlist"), T))
    BY Zenon, <2>4, <2>14, AgreeLua
  <2> QED BY Zenon, <2>15
<1>2. CASE t # Comma
  <2>1. t # Comma
    BY <1>0, <1>2, MarksDiffer, WordsHere DEF PlainTokens, Names, Simple, UnaryOps, BlockEnds, Fits
  <2>2. OursTo(i, Push(Parse("more_names"), S), S)
    BY Zenon, <1>0, <2>1, OursMoreNames
  <2>3. LuaTo(i, Push(Parse("closedlist"), T), T)
    BY Zenon, <1>0, <2>1, LuaClosedlist
  <2>4. AgreeOn(i, Push(Parse("more_names"), S), T)
    BY Zenon, <2>2, <1>0, AgreeOurs
  <2>5. AgreeOn(i, Push(Parse("more_names"), S), Push(Parse("closedlist"), T))
    BY Zenon, <2>3, <2>4, AgreeLua
  <2> QED BY Zenon, <2>5
<1> QED BY Zenon, <1>1, <1>2

LEMMA AgreeForNames ==
    ASSUME NEW i, Input(i), NEW S, NEW T, Alike(S, T), AgreeOn(i, S, T)
    PROVE  AgreeOn(i, Push(Parse("for_names"), S), Push(Parse("forlist"), T))
<1> DEFINE t == Head(i)
<1>0. /\ i \in Tokens55 /\ i # <<>> /\ t = Head(i) /\ t \in TokenKinds /\ t \in Vocabulary /\ t # LineParen
      /\ S \in Stack /\ T \in Stack /\ Input(i)
           /\ Alike(S, T)
      /\ Tail(i) = <<>> /\ AgreeOn(i, S, T)
  BY InputIs, AlikeIn, NoLineParen
<1> HIDE DEF t
<1>1. CASE t = Comma
  <2> DEFINE T1 == Push(Expect("Name"), Push(Parse("forlist"), T))
             S1 == Push(Expect("Name"), Push(Parse("for_names"), S))
  <2>1. t = Comma /\ Comma = Head(i)
    BY <1>0, <1>1, MarksDiffer, WordsHere DEF PlainTokens, Names, Simple, UnaryOps, BlockEnds, Fits
  <2>2. S1 \in Stack /\ T1 \in Stack
    BY <1>0, SymbolsIn, OnIs
  <2>3. OursTo(i, Push(Parse("for_names"), S), Push(Expect(Comma), S1))
    BY Zenon, <1>0, <2>1, <2>2, OursForNames
  <2>4. LuaTo(i, Push(Parse("forlist"), T), Push(Expect(Comma), T1))
    BY Zenon, <1>0, <2>1, <2>2, LuaForlist
  <2>5. Fit(Parse("for_names"), Parse("forlist"))
    BY Zenon, FitsAre
  <2>6. Alike(Push(Parse("for_names"), S), Push(Parse("forlist"), T))
    BY Zenon, <2>5, <1>0, AlikeRules
  <2>7. JointHere(Push(Parse("for_names"), S), Push(Parse("forlist"), T))
    BY Zenon, <2>6, BaresAre
  <2>8. Joint(Push(Parse("for_names"), S), Push(Parse("forlist"), T))
    BY Zenon, <2>7, JointsAre
  <2>9. Alike(S1, T1)
    BY Zenon, <2>8, ClosersAre, AlikeRules
  <2>10. Settles(S1, T1)
    BY Zenon, <2>9, AlikeSettles
  <2>11. AgreeOn(i, Push(Expect(Comma), S1), Push(Expect(Comma), T1))
    BY Zenon, <1>0, <2>1, <2>2, <2>10, EatBoth
  <2>12. AgreeOn(i, Push(Parse("for_names"), S), Push(Expect(Comma), T1))
    BY Zenon, <2>3, <2>11, AgreeOurs
  <2>13. AgreeOn(i, Push(Parse("for_names"), S), Push(Parse("forlist"), T))
    BY Zenon, <2>4, <2>12, AgreeLua
  <2> QED BY Zenon, <2>13
<1>2. CASE t # Comma
  <2>1. t # Comma
    BY <1>0, <1>2, MarksDiffer, WordsHere DEF PlainTokens, Names, Simple, UnaryOps, BlockEnds, Fits
  <2>2. OursTo(i, Push(Parse("for_names"), S), S)
    BY Zenon, <1>0, <2>1, OursForNames
  <2>3. LuaTo(i, Push(Parse("forlist"), T), T)
    BY Zenon, <1>0, <2>1, LuaForlist
  <2>4. AgreeOn(i, Push(Parse("for_names"), S), T)
    BY Zenon, <2>2, <1>0, AgreeOurs
  <2>5. AgreeOn(i, Push(Parse("for_names"), S), Push(Parse("forlist"), T))
    BY Zenon, <2>3, <2>4, AgreeLua
  <2> QED BY Zenon, <2>5
<1> QED BY Zenon, <1>1, <1>2

LEMMA AgreeStep ==
    ASSUME NEW i, Input(i), NEW S, NEW T, Alike(S, T), AgreeOn(i, S, T)
    PROVE  AgreeOn(i, Push(Parse("step"), S), Push(Parse("fornum"), T))
<1> DEFINE t == Head(i)
<1>0. /\ i \in Tokens55 /\ i # <<>> /\ t = Head(i) /\ t \in TokenKinds /\ t \in Vocabulary /\ t # LineParen
      /\ S \in Stack /\ T \in Stack /\ Input(i)
           /\ Alike(S, T)
      /\ Tail(i) = <<>> /\ AgreeOn(i, S, T)
  BY InputIs, AlikeIn, NoLineParen
<1> HIDE DEF t
<1>1. CASE t = Comma
  <2> DEFINE T1 == Push(Parse("subexpr"), Push(Climb("none"), T))
             S1 == Push(Parse("unary"), Push(Climb("none"), S))
  <2>1. t = Comma /\ Comma = Head(i)
    BY <1>0, <1>1, MarksDiffer, WordsHere DEF PlainTokens, Names, Simple, UnaryOps, BlockEnds, Fits
  <2>2. S1 \in Stack /\ T1 \in Stack
    BY <1>0, SymbolsIn, OnIs
  <2>3. OursTo(i, Push(Parse("step"), S), Push(Expect(Comma), S1))
    BY Zenon, <1>0, <2>1, <2>2, OursStep
  <2>4. LuaTo(i, Push(Parse("fornum"), T), Push(Expect(Comma), T1))
    BY Zenon, <1>0, <2>1, <2>2, LuaFornum
  <2>5. "none" \in LeftOf
    BY <1>0 DEF LeftOf, Climbs
  <2>6. Settles(S1, T1)
    BY Zenon, <1>0, <2>5, ShapesSettle
  <2>7. AgreeOn(i, Push(Expect(Comma), S1), Push(Expect(Comma), T1))
    BY Zenon, <1>0, <2>1, <2>2, <2>6, EatBoth
  <2>8. AgreeOn(i, Push(Parse("step"), S), Push(Expect(Comma), T1))
    BY Zenon, <2>3, <2>7, AgreeOurs
  <2>9. AgreeOn(i, Push(Parse("step"), S), Push(Parse("fornum"), T))
    BY Zenon, <2>4, <2>8, AgreeLua
  <2> QED BY Zenon, <2>9
<1>2. CASE t # Comma
  <2>1. t # Comma
    BY <1>0, <1>2, MarksDiffer, WordsHere DEF PlainTokens, Names, Simple, UnaryOps, BlockEnds, Fits
  <2>2. OursTo(i, Push(Parse("step"), S), S)
    BY Zenon, <1>0, <2>1, OursStep
  <2>3. LuaTo(i, Push(Parse("fornum"), T), T)
    BY Zenon, <1>0, <2>1, LuaFornum
  <2>4. AgreeOn(i, Push(Parse("step"), S), T)
    BY Zenon, <2>2, <1>0, AgreeOurs
  <2>5. AgreeOn(i, Push(Parse("step"), S), Push(Parse("fornum"), T))
    BY Zenon, <2>3, <2>4, AgreeLua
  <2> QED BY Zenon, <2>5
<1> QED BY Zenon, <1>1, <1>2

LEMMA AgreeElseClauses ==
    ASSUME NEW i, Input(i), NEW S, NEW T, Alike(S, T), AgreeOn(i, S, T)
    PROVE  AgreeOn(i, Push(Parse("else_clauses"), S), Push(Parse("test_then"), T))
<1> DEFINE t == Head(i)
<1>0. /\ i \in Tokens55 /\ i # <<>> /\ t = Head(i) /\ t \in TokenKinds /\ t \in Vocabulary /\ t # LineParen
      /\ S \in Stack /\ T \in Stack /\ Input(i)
           /\ Alike(S, T)
      /\ Tail(i) = <<>> /\ AgreeOn(i, S, T)
  BY InputIs, AlikeIn, NoLineParen
<1> HIDE DEF t
<1>1. CASE t = "else"
  <2> DEFINE T1 == Push(Parse("statlist"), Push(Node("else"), T))
             S1 == Push(Parse("block"), Push(Node("else"), S))
  <2>1. t = "else" /\ "else" = Head(i)
    BY <1>0, <1>1, MarksDiffer, WordsHere DEF PlainTokens, Names, Simple, UnaryOps, BlockEnds, Fits
  <2>2. S1 \in Stack /\ T1 \in Stack
    BY <1>0, SymbolsIn, OnIs
  <2>3. OursTo(i, Push(Parse("else_clauses"), S), Push(Expect("else"), S1))
    BY Zenon, <1>0, <2>1, <2>2, OursElseClauses
  <2>4. LuaTo(i, Push(Parse("test_then"), T), Push(Expect("else"), T1))
    BY Zenon, <1>0, <2>1, <2>2, LuaTestThen
  <2>5. NodeLike(Node("else"))
    BY NodesLike, KindsIn
  <2>6. Fit(Node("else"), Node("else"))
    BY Zenon, <2>5, FitsAre
  <2>7. Alike(Push(Node("else"), S), Push(Node("else"), T))
    BY Zenon, <2>6, <1>0, AlikeRules
  <2>8. Fit(Parse("block"), Parse("statlist"))
    BY Zenon, FitsAre
  <2>9. Alike(S1, T1)
    BY Zenon, <2>8, <2>7, AlikeRules
  <2>10. Settles(S1, T1)
    BY Zenon, <2>9, AlikeSettles
  <2>11. AgreeOn(i, Push(Expect("else"), S1), Push(Expect("else"), T1))
    BY Zenon, <1>0, <2>1, <2>2, <2>10, EatBoth
  <2>12. AgreeOn(i, Push(Parse("else_clauses"), S), Push(Expect("else"), T1))
    BY Zenon, <2>3, <2>11, AgreeOurs
  <2>13. AgreeOn(i, Push(Parse("else_clauses"), S), Push(Parse("test_then"), T))
    BY Zenon, <2>4, <2>12, AgreeLua
  <2> QED BY Zenon, <2>13
<1>2. CASE t = "elseif"
  <2> DEFINE T1 == Push(Parse("statlist"), Push(Node("elseif"), Push(Parse("test_then"), T)))
             T2 == Push(Parse("subexpr"), Push(Climb("none"), Push(Expect("then"), T1)))
             S1 == Push(Node("elseif"), Push(Parse("else_clauses"), S))
             S2 == Push(Parse("block"), S1)
             S3 == Push(Parse("unary"), Push(Climb("none"), Push(Expect("then"), S2)))
  <2>1. t = "elseif" /\ "elseif" = Head(i)
    BY <1>0, <1>2, MarksDiffer, WordsHere DEF PlainTokens, Names, Simple, UnaryOps, BlockEnds, Fits
  <2>2. S3 \in Stack /\ T2 \in Stack
    BY <1>0, SymbolsIn, OnIs
  <2>3. OursTo(i, Push(Parse("else_clauses"), S), Push(Expect("elseif"), S3))
    BY Zenon, <1>0, <2>1, <2>2, OursElseClauses
  <2>4. LuaTo(i, Push(Parse("test_then"), T), Push(Expect("elseif"), T2))
    BY Zenon, <1>0, <2>1, <2>2, LuaTestThen
  <2>5. Fit(Parse("else_clauses"), Parse("test_then"))
    BY Zenon, FitsAre
  <2>6. Alike(Push(Parse("else_clauses"), S), Push(Parse("test_then"), T))
    BY Zenon, <2>5, <1>0, AlikeRules
  <2>7. NodeLike(Node("elseif"))
    BY NodesLike, KindsIn
  <2>8. Fit(Node("elseif"), Node("elseif"))
    BY Zenon, <2>7, FitsAre
  <2>9. Alike(S1, Push(Node("elseif"), Push(Parse("test_then"), T)))
    BY Zenon, <2>8, <2>6, AlikeRules
  <2>10. Fit(Parse("block"), Parse("statlist"))
    BY Zenon, FitsAre
  <2>11. Alike(S2, T1)
    BY Zenon, <2>10, <2>9, AlikeRules
  <2>12. JointHere(S2, T1)
    BY Zenon, <2>11, BaresAre
  <2>13. Joint(S2, T1)
    BY Zenon, <2>12, JointsAre
  <2>14. Alike(Push(Expect("then"), S2), Push(Expect("then"), T1))
    BY Zenon, <2>13, ClosersAre, AlikeRules
  <2>15. "none" \in LeftOf
    BY <1>0 DEF LeftOf, Climbs
  <2>16. Settles(S3, T2)
    BY Zenon, <2>14, <2>15, ShapesSettle
  <2>17. AgreeOn(i, Push(Expect("elseif"), S3), Push(Expect("elseif"), T2))
    BY Zenon, <1>0, <2>1, <2>2, <2>16, EatBoth
  <2>18. AgreeOn(i, Push(Parse("else_clauses"), S), Push(Expect("elseif"), T2))
    BY Zenon, <2>3, <2>17, AgreeOurs
  <2>19. AgreeOn(i, Push(Parse("else_clauses"), S), Push(Parse("test_then"), T))
    BY Zenon, <2>4, <2>18, AgreeLua
  <2> QED BY Zenon, <2>19
<1>3. CASE t # "else" /\ t # "elseif"
  <2>1. (t # "elseif" /\ t # "else")
    BY <1>0, <1>3, MarksDiffer, WordsHere DEF PlainTokens, Names, Simple, UnaryOps, BlockEnds, Fits
  <2>2. OursTo(i, Push(Parse("else_clauses"), S), S)
    BY Zenon, <1>0, <2>1, OursElseClauses
  <2>3. LuaTo(i, Push(Parse("test_then"), T), T)
    BY Zenon, <1>0, <2>1, LuaTestThen
  <2>4. AgreeOn(i, Push(Parse("else_clauses"), S), T)
    BY Zenon, <2>2, <1>0, AgreeOurs
  <2>5. AgreeOn(i, Push(Parse("else_clauses"), S), Push(Parse("test_then"), T))
    BY Zenon, <2>3, <2>4, AgreeLua
  <2> QED BY Zenon, <2>5
<1> QED BY Zenon, <1>1, <1>2, <1>3

LEMMA AgreeNameParts ==
    ASSUME NEW i, Input(i), NEW S, NEW T, Alike(S, T), AgreeOn(i, S, T)
    PROVE  AgreeOn(i, Push(Parse("name_parts"), S), Push(Parse("funcname"), T))
<1> DEFINE t == Head(i)
<1>0. /\ i \in Tokens55 /\ i # <<>> /\ t = Head(i) /\ t \in TokenKinds /\ t \in Vocabulary /\ t # LineParen
      /\ S \in Stack /\ T \in Stack /\ Input(i)
           /\ Alike(S, T)
      /\ Tail(i) = <<>> /\ AgreeOn(i, S, T)
  BY InputIs, AlikeIn, NoLineParen
<1> HIDE DEF t
<1>1. CASE t = ":"
  <2> DEFINE T1 == Push(Expect("Name"), Push(Node("method"), T))
             S1 == Push(Expect("Name"), Push(Node("method"), S))
  <2>1. t = ":" /\ ":" = Head(i)
    BY <1>0, <1>1, MarksDiffer, WordsHere DEF PlainTokens, Names, Simple, UnaryOps, BlockEnds, Fits
  <2>2. S1 \in Stack /\ T1 \in Stack
    BY <1>0, SymbolsIn, OnIs
  <2>3. OursTo(i, Push(Parse("name_parts"), S), Push(Expect(":"), S1))
    BY Zenon, <1>0, <2>1, <2>2, OursNameParts
  <2>4. LuaTo(i, Push(Parse("funcname"), T), Push(Expect(":"), T1))
    BY Zenon, <1>0, <2>1, <2>2, LuaFuncname
  <2>5. NodeLike(Node("method"))
    BY NodesLike, KindsIn
  <2>6. Fit(Node("method"), Node("method"))
    BY Zenon, <2>5, FitsAre
  <2>7. Alike(Push(Node("method"), S), Push(Node("method"), T))
    BY Zenon, <2>6, <1>0, AlikeRules
  <2>8. JointHere(Push(Node("method"), S), Push(Node("method"), T))
    BY Zenon, <2>7, BaresAre
  <2>9. Joint(Push(Node("method"), S), Push(Node("method"), T))
    BY Zenon, <2>8, JointsAre
  <2>10. Alike(S1, T1)
    BY Zenon, <2>9, ClosersAre, AlikeRules
  <2>11. Settles(S1, T1)
    BY Zenon, <2>10, AlikeSettles
  <2>12. AgreeOn(i, Push(Expect(":"), S1), Push(Expect(":"), T1))
    BY Zenon, <1>0, <2>1, <2>2, <2>11, EatBoth
  <2>13. AgreeOn(i, Push(Parse("name_parts"), S), Push(Expect(":"), T1))
    BY Zenon, <2>3, <2>12, AgreeOurs
  <2>14. AgreeOn(i, Push(Parse("name_parts"), S), Push(Parse("funcname"), T))
    BY Zenon, <2>4, <2>13, AgreeLua
  <2> QED BY Zenon, <2>14
<1>2. CASE t = "."
  <2> DEFINE T1 == Push(Node("part"), Push(Parse("funcname"), T))
             S1 == Push(Node("part"), Push(Parse("name_parts"), S))
             T2 == Push(Expect("."), Push(Expect("Name"), T1))
  <2>1. t = "." /\ "." = Head(i)
    BY <1>0, <1>2, MarksDiffer, WordsHere DEF PlainTokens, Names, Simple, UnaryOps, BlockEnds, Fits
  <2>2. Push(Expect("Name"), S1) \in Stack /\ Push(Expect("Name"), T1) \in Stack
    BY <1>0, SymbolsIn, OnIs
  <2>3. OursTo(i, Push(Parse("name_parts"), S), Push(Expect("."), Push(Expect("Name"), S1)))
    BY Zenon, <1>0, <2>1, <2>2, OursNameParts
  <2>4. LuaTo(i, Push(Parse("funcname"), T), T2)
    BY Zenon, <1>0, <2>1, <2>2, LuaFuncname
  <2>5. Fit(Parse("name_parts"), Parse("funcname"))
    BY Zenon, FitsAre
  <2>6. Alike(Push(Parse("name_parts"), S), Push(Parse("funcname"), T))
    BY Zenon, <2>5, <1>0, AlikeRules
  <2>7. NodeLike(Node("part"))
    BY NodesLike, KindsIn
  <2>8. Fit(Node("part"), Node("part"))
    BY Zenon, <2>7, FitsAre
  <2>9. Alike(S1, T1)
    BY Zenon, <2>8, <2>6, AlikeRules
  <2>10. JointHere(S1, T1)
    BY Zenon, <2>9, BaresAre
  <2>11. Joint(S1, T1)
    BY Zenon, <2>10, JointsAre
  <2>12. Alike(Push(Expect("Name"), S1), Push(Expect("Name"), T1))
    BY Zenon, <2>11, ClosersAre, AlikeRules
  <2>13. Settles(Push(Expect("Name"), S1), Push(Expect("Name"), T1))
    BY Zenon, <2>12, AlikeSettles
  <2>14. AgreeOn(i, Push(Expect("."), Push(Expect("Name"), S1)), T2)
    BY Zenon, <1>0, <2>1, <2>2, <2>13, EatBoth
  <2>15. AgreeOn(i, Push(Parse("name_parts"), S), T2)
    BY Zenon, <2>3, <2>14, AgreeOurs
  <2>16. AgreeOn(i, Push(Parse("name_parts"), S), Push(Parse("funcname"), T))
    BY Zenon, <2>4, <2>15, AgreeLua
  <2> QED BY Zenon, <2>16
<1>3. CASE t # ":" /\ t # "."
  <2>1. (t # "." /\ t # ":")
    BY <1>0, <1>3, MarksDiffer, WordsHere DEF PlainTokens, Names, Simple, UnaryOps, BlockEnds, Fits
  <2>2. OursTo(i, Push(Parse("name_parts"), S), S)
    BY Zenon, <1>0, <2>1, OursNameParts
  <2>3. LuaTo(i, Push(Parse("funcname"), T), T)
    BY Zenon, <1>0, <2>1, LuaFuncname
  <2>4. AgreeOn(i, Push(Parse("name_parts"), S), T)
    BY Zenon, <2>2, <1>0, AgreeOurs
  <2>5. AgreeOn(i, Push(Parse("name_parts"), S), Push(Parse("funcname"), T))
    BY Zenon, <2>3, <2>4, AgreeLua
  <2> QED BY Zenon, <2>5
<1> QED BY Zenon, <1>1, <1>2, <1>3

LEMMA AgreeSeparator ==
    ASSUME NEW i, Input(i), NEW S, NEW T, Alike(S, T), AgreeOn(i, S, T)
    PROVE  AgreeOn(i, Push(Parse("separator"), S), Push(Parse("fieldsep"), T))
<1> DEFINE t == Head(i)
<1>0. /\ i \in Tokens55 /\ i # <<>> /\ t = Head(i) /\ t \in TokenKinds /\ t \in Vocabulary /\ t # LineParen
      /\ S \in Stack /\ T \in Stack /\ Input(i)
           /\ Alike(S, T)
      /\ Tail(i) = <<>> /\ AgreeOn(i, S, T)
  BY InputIs, AlikeIn, NoLineParen
<1> HIDE DEF t
<1>1. CASE t = SemiMark \/ t = Comma
  <2> DEFINE T1 == Push(Expect(t), Push(Parse("constructor"), T))
  <2>1. (t = Comma \/ t = SemiMark)
    BY <1>0, <1>1, MarksDiffer, WordsHere DEF PlainTokens, Names, Simple, UnaryOps, BlockEnds, Fits
  <2>2. Push(Parse("fields"), S) \in Stack /\ Push(Parse("constructor"), T) \in Stack
    BY <1>0, SymbolsIn, OnIs
  <2>3. OursTo(i, Push(Parse("separator"), S), Push(Expect(t), Push(Parse("fields"), S)))
    BY Zenon, <1>0, <2>1, <2>2, OursSeparator
  <2>4. LuaTo(i, Push(Parse("fieldsep"), T), T1)
    BY Zenon, <1>0, <2>1, <2>2, LuaFieldsep
  <2>5. Settles(Push(Parse("fields"), S), Push(Parse("constructor"), T))
    BY Zenon, <1>0, ShapesSettle
  <2>6. AgreeOn(i, Push(Expect(t), Push(Parse("fields"), S)), T1)
    BY Zenon, <1>0, <2>1, <2>2, <2>5, EatBoth
  <2>7. AgreeOn(i, Push(Parse("separator"), S), T1)
    BY Zenon, <2>3, <2>6, AgreeOurs
  <2>8. AgreeOn(i, Push(Parse("separator"), S), Push(Parse("fieldsep"), T))
    BY Zenon, <2>4, <2>7, AgreeLua
  <2> QED BY Zenon, <2>8
<1>2. CASE t # SemiMark /\ t # Comma
  <2>1. (t # Comma /\ t # SemiMark)
    BY <1>0, <1>2, MarksDiffer, WordsHere DEF PlainTokens, Names, Simple, UnaryOps, BlockEnds, Fits
  <2>2. OursTo(i, Push(Parse("separator"), S), S)
    BY Zenon, <1>0, <2>1, OursSeparator
  <2>3. LuaTo(i, Push(Parse("fieldsep"), T), T)
    BY Zenon, <1>0, <2>1, LuaFieldsep
  <2>4. AgreeOn(i, Push(Parse("separator"), S), T)
    BY Zenon, <2>2, <1>0, AgreeOurs
  <2>5. AgreeOn(i, Push(Parse("separator"), S), Push(Parse("fieldsep"), T))
    BY Zenon, <2>3, <2>4, AgreeLua
  <2> QED BY Zenon, <2>5
<1> QED BY Zenon, <1>1, <1>2

LEMMA AgreeSemicolon ==
    ASSUME NEW i, Input(i), NEW S, NEW T, Alike(S, T), AgreeOn(i, S, T)
    PROVE  AgreeOn(i, Push(Parse("semicolon"), S), Push(Parse("semicolon"), T))
<1> DEFINE t == Head(i)
<1>0. /\ i \in Tokens55 /\ i # <<>> /\ t = Head(i) /\ t \in TokenKinds /\ t \in Vocabulary /\ t # LineParen
      /\ S \in Stack /\ T \in Stack /\ Input(i)
           /\ Alike(S, T)
      /\ Tail(i) = <<>> /\ AgreeOn(i, S, T)
  BY InputIs, AlikeIn, NoLineParen
<1> HIDE DEF t
<1>1. CASE t = SemiMark
  <2>1. t = SemiMark /\ SemiMark = Head(i)
    BY <1>0, <1>1, MarksDiffer, WordsHere DEF PlainTokens, Names, Simple, UnaryOps, BlockEnds, Fits
  <2>2. OursTo(i, Push(Parse("semicolon"), S), Push(Expect(SemiMark), S))
    BY Zenon, <1>0, <2>1, OursSemicolon
  <2>3. LuaTo(i, Push(Parse("semicolon"), T), Push(Expect(SemiMark), T))
    BY Zenon, <1>0, <2>1, LuaSemicolon
  <2>4. Settles(S, T)
    BY Zenon, <1>0, AlikeSettles
  <2>5. AgreeOn(i, Push(Expect(SemiMark), S), Push(Expect(SemiMark), T))
    BY Zenon, <1>0, <2>1, <2>4, EatBoth
  <2>6. AgreeOn(i, Push(Parse("semicolon"), S), Push(Expect(SemiMark), T))
    BY Zenon, <2>2, <2>5, AgreeOurs
  <2>7. AgreeOn(i, Push(Parse("semicolon"), S), Push(Parse("semicolon"), T))
    BY Zenon, <2>3, <2>6, AgreeLua
  <2> QED BY Zenon, <2>7
<1>2. CASE t # SemiMark
  <2>1. t # SemiMark
    BY <1>0, <1>2, MarksDiffer, WordsHere DEF PlainTokens, Names, Simple, UnaryOps, BlockEnds, Fits
  <2>2. OursTo(i, Push(Parse("semicolon"), S), S)
    BY Zenon, <1>0, <2>1, OursSemicolon
  <2>3. LuaTo(i, Push(Parse("semicolon"), T), T)
    BY Zenon, <1>0, <2>1, LuaSemicolon
  <2>4. AgreeOn(i, Push(Parse("semicolon"), S), T)
    BY Zenon, <2>2, <1>0, AgreeOurs
  <2>5. AgreeOn(i, Push(Parse("semicolon"), S), Push(Parse("semicolon"), T))
    BY Zenon, <2>3, <2>4, AgreeLua
  <2> QED BY Zenon, <2>5
<1> QED BY Zenon, <1>1, <1>2

-----------------------------------------------------------------------------
(* Assignments and calls, and the parenthesis that Lua remembers.          *)
(* The other variables of an assignment.                                   *)
LEMMA TargetsRead ==
    ASSUME NEW i, Input(i), NEW S, NEW T, Alike(S, T)
    PROVE  /\ Head(i) = Comma => /\ AgreeOn(i,
                                      Push(Parse("targets"),
                                      Push(Expect("="), Push(Parse("unary"),
                                      Push(Climb("none"), Push(Parse("more_exprs"),
                                      Push(Node("assign"), S)))))),
                                      Push(Expect(Comma), Push(Parse("primaryexp"),
                                      Push(Parse("suffixedexp"), Push(Parse("restassign"), T)))))
                                 /\ OursRun(i, Push(Parse("targets"),
                                      Push(Expect("="), Push(Parse("unary"),
                                      Push(Climb("none"), Push(Parse("more_exprs"),
                                      Push(Node("assign"), S)))))))
           /\ Head(i) = "=" => /\ AgreeOn(i,
                                    Push(Parse("targets"),
                                    Push(Expect("="), Push(Parse("unary"),
                                    Push(Climb("none"), Push(Parse("more_exprs"),
                                    Push(Node("assign"), S)))))),
                                    Push(Expect("="), Push(Parse("subexpr"),
                                    Push(Climb("none"), Push(Parse("explist"), Push(Node("assign"), T))))))
                               /\ OursRun(i, Push(Parse("targets"),
                                    Push(Expect("="), Push(Parse("unary"),
                                    Push(Climb("none"), Push(Parse("more_exprs"),
                                    Push(Node("assign"), S)))))))
           /\ Head(i) # Comma /\ Head(i) # "="
                => OursNo(i, Push(Parse("targets"),
                Push(Expect("="), Push(Parse("unary"),
                Push(Climb("none"), Push(Parse("more_exprs"), Push(Node("assign"), S)))))))
<1> DEFINE t == Head(i)
<1>0. /\ i \in Tokens55 /\ i # <<>> /\ t = Head(i) /\ t \in TokenKinds /\ t \in Vocabulary /\ t # LineParen
      /\ S \in Stack /\ T \in Stack /\ Input(i)
           /\ Alike(S, T)
      /\ Tail(i) = <<>>
  BY InputIs, AlikeIn, NoLineParen
<1> HIDE DEF t

<1>a. Push(Expect("="), Push(Parse("unary"),
          Push(Climb("none"), Push(Parse("more_exprs"), Push(Node("assign"), S))))) \in Stack
          /\ Push(Parse("unary"),
          Push(Climb("none"), Push(Parse("more_exprs"), Push(Node("assign"), S)))) \in Stack
          /\ Push(Parse("primary"),
          Push(Parse("suffixes"),
          Push(Parse("targets"),
          Push(Expect("="), Push(Parse("unary"),
          Push(Climb("none"), Push(Parse("more_exprs"), Push(Node("assign"), S)))))))) \in Stack
          /\ Push(Parse("subexpr"),
          Push(Climb("none"), Push(Parse("explist"), Push(Node("assign"), T)))) \in Stack
          /\ Push(Parse("primaryexp"), Push(Parse("suffixedexp"), Push(Parse("restassign"), T))) \in Stack
  BY <1>0, SymbolsIn, OnIs
<1>1. CASE t = Comma
  <2> DEFINE S1 == Push(Parse("targets"),
                       Push(Expect("="), Push(Parse("unary"),
                       Push(Climb("none"), Push(Parse("more_exprs"), Push(Node("assign"), S))))))
             T1 == Push(Parse("primaryexp"), Push(Parse("suffixedexp"), Push(Parse("restassign"), T)))
             S2 == Push(Parse("primary"), Push(Parse("suffixes"), S1))
  <2>1. Comma = Head(i) /\ Fits(Head(i), Comma) /\ Comma \in Vocabulary /\ (t = Comma \/ t # Comma)
    BY <1>0, <1>1, MarksDiffer, WordsHere DEF PlainTokens, Fits
  <2>2. OursTo(i, S1, Push(Expect(Comma), S2))
    BY Zenon, <1>0, <1>1, <1>a, OursTargets
  <2>3. Alike(S1, Push(Parse("restassign"), T))
    BY Zenon, <1>0, AlikeRules
  <2>4. Settles(S2, T1)
    BY Zenon, <2>3, ShapesSettle
  <2>5. AgreeOn(i, Push(Expect(Comma), S2), Push(Expect(Comma), T1))
    BY Zenon, <1>0, <1>a, <2>1, <2>4, EatBoth
  <2>6. AgreeOn(i, S1, Push(Expect(Comma), T1))
    BY Zenon, <2>2, <2>5, AgreeOurs
  <2>7. OursRun(i, Push(Expect(Comma), S2))
    BY Zenon, <1>0, <1>a, <2>1, <2>4, EatOurs
  <2>8. OursRun(i, S1)
    BY Zenon, <2>2, <2>7, ToNo
  <2>q. Head(i) = Comma <=> t = Comma
    BY <1>0
  <2>r. t # "="
    BY <1>1, MarksDiffer, WordsHere DEF PlainTokens
  <2> QED BY Zenon, <1>0, <1>1, <2>6, <2>8, <2>q, <2>r
<1>2. CASE t = "="
  <2> DEFINE T1 == Push(Parse("subexpr"),
                       Push(Climb("none"), Push(Parse("explist"), Push(Node("assign"), T))))
             S1 == Push(Parse("more_exprs"), Push(Node("assign"), S))
             S2 == Push(Expect("="), Push(Parse("unary"), Push(Climb("none"), S1)))
  <2>1. "=" = Head(i) /\ Fits(Head(i), "=") /\ "=" \in Vocabulary
            /\ (t = Comma \/ t # Comma)
    BY <1>0, <1>2, MarksDiffer, WordsHere DEF PlainTokens, Fits
  <2>2. t # Comma
    BY <1>2, MarksDiffer, WordsHere DEF PlainTokens
  <2>3. OursTo(i, Push(Parse("targets"), S2), S2)
    BY Zenon, <1>0, <2>2, <1>a, OursTargets
  <2>4. NodeLike(Node("assign"))
    BY NodesLike, KindsIn
  <2>5. Fit(Node("assign"), Node("assign"))
    BY Zenon, <2>4, FitsAre
  <2>6. Alike(Push(Node("assign"), S), Push(Node("assign"), T))
    BY Zenon, <2>5, <1>0, AlikeRules
  <2>7. Fit(Parse("more_exprs"), Parse("explist"))
    BY Zenon, FitsAre
  <2>8. Alike(S1, Push(Parse("explist"), Push(Node("assign"), T)))
    BY Zenon, <2>7, <2>6, AlikeRules
  <2>9. "none" \in LeftOf
    BY <1>0 DEF LeftOf, Climbs
  <2>10. Settles(Push(Parse("unary"), Push(Climb("none"), S1)), T1)
    BY Zenon, <2>8, <2>9, ShapesSettle
  <2>11. AgreeOn(i, S2, Push(Expect("="), T1))
    BY Zenon, <1>0, <1>a, <2>1, <2>10, EatBoth
  <2>12. AgreeOn(i, Push(Parse("targets"), S2), Push(Expect("="), T1))
    BY Zenon, <2>3, <2>11, AgreeOurs
  <2>13. OursRun(i, S2)
    BY Zenon, <1>0, <1>a, <2>1, <2>10, EatOurs
  <2>14. OursRun(i, Push(Parse("targets"), S2))
    BY Zenon, <2>3, <2>13, ToNo
  <2>q. Head(i) = Comma <=> t = Comma
    BY <1>0
  <2>r. t # Comma
    BY <1>2, MarksDiffer, WordsHere DEF PlainTokens
  <2> QED BY Zenon, <1>0, <1>2, <2>12, <2>14, <2>q, <2>r
<1>3. CASE t # Comma /\ t # "="
  <2> DEFINE S1 == Push(Expect("="),
                       Push(Parse("unary"),
                       Push(Climb("none"), Push(Parse("more_exprs"), Push(Node("assign"), S)))))
  <2>1. OursTo(i, Push(Parse("targets"), S1), S1)
    BY Zenon, <1>0, <1>3, <1>a, OursTargets
  <2>2. ~Fits(Head(i), "=") /\ "=" \in Vocabulary
    BY <1>0, <1>3, WordsHere DEF Fits
  <2>3. OursNo(i, S1)
    BY Zenon, <1>0, <1>a, <2>2, OursMismatch
  <2>4. OursNo(i, Push(Parse("targets"), S1))
    BY Zenon, <2>1, <2>3, ToNo
  <2> QED BY Zenon, <1>0, <1>3, <2>4
<1> QED BY Zenon, <1>1, <1>2, <1>3

LEMMA NearLasts == \A c, r, q : Near(c, r, q) => r.last = q.last \/ q.last = "paren"
BY DEF Near

LEMMA AgreedIn == \A c, i, A, B, r, q : Input(i) /\ AgreeOn(i, A, B) /\ Near(c, r, q)
    => ReadOurs(i, A, r) \in Machines
BY Zenon, VerdictIn DEF AgreeOn

LEMMA Verdicts ==
    /\ \A c, i : Verdict(c, i, Refusal("none"), Refusal("none"))
    /\ \A c, i, o : o \in Machines => Verdict(c, i, o, Refusal("no_variable"))
BY DEF Verdict

LEMMA RefusedIn == Refusal("none") \in Machines
BY RefusalIn, VocabularyIs

(* An assignment or a call; what Lua calls no variable, valua takes.       *)
LEMMA AgreeAssignOrCall ==
    ASSUME NEW i, Input(i), NEW S, NEW T, Alike(S, T), AgreeOn(i, S, T)
    PROVE  AgreeOn(i, Push(Parse("assign_or_call"), S), Push(Parse("exprstat"), T))
<1> DEFINE t == Head(i)
<1>0. /\ i \in Tokens55 /\ i # <<>> /\ t = Head(i) /\ t \in TokenKinds /\ t \in Vocabulary /\ t # LineParen
      /\ S \in Stack /\ T \in Stack /\ Input(i)
           /\ Alike(S, T)
      /\ Tail(i) = <<>> /\ AgreeOn(i, S, T)
  BY InputIs, AlikeIn, NoLineParen
<1> HIDE DEF t
<1> SUFFICES ASSUME NEW c, NEW r, NEW q, Near(c, r, q)
             PROVE  Verdict(c, i, ReadOurs(i, Push(Parse("assign_or_call"), S), r),
                        ReadLua(i, Push(Parse("exprstat"), T), q))
  BY DEF AgreeOn
<1>a. r \in Regs /\ q \in Regs /\ (r.last = q.last \/ q.last = "paren")
  BY NearIn, NearLasts
<1>1. CASE t = Comma \/ t = "="
  <2> DEFINE S1 == Push(Parse("targets"),
                       Push(Expect("="), Push(Parse("unary"),
                       Push(Climb("none"), Push(Parse("more_exprs"), Push(Node("assign"), S))))))
             T1 == Push(Expect("="), Push(Parse("subexpr"),
                       Push(Climb("none"), Push(Parse("explist"), Push(Node("assign"), T)))))
             T2 == Push(Expect(Comma), Push(Parse("primaryexp"),
                       Push(Parse("suffixedexp"), Push(Parse("restassign"), T))))
  <2>1. ReadOurs(i, Push(Parse("assign_or_call"), S), r) = ReadOurs(i, S1, r)
    BY <1>0, <1>a, <1>1, OursAssignOrCall
  <2>2. CASE t = Comma /\ q.last \in {"name", "index", "index_expr"}
    <3>1. ReadLua(i, Push(Parse("exprstat"), T), q) = ReadLua(i, T2, q)
      BY <1>0, <1>a, <2>2, LuaExprstat
    <3>2. AgreeOn(i, S1, T2)
      BY Zenon, <1>0, <2>2, TargetsRead
    <3> QED BY Zenon, <2>1, <3>1, <3>2 DEF AgreeOn
  <2>3. CASE t = "=" /\ q.last \in {"name", "index", "index_expr"}
    <3>1. ReadLua(i, Push(Parse("exprstat"), T), q) = ReadLua(i, T1, q)
      BY <1>0, <1>a, <2>3, LuaExprstat
    <3>2. AgreeOn(i, S1, T1)
      BY Zenon, <1>0, <2>3, TargetsRead
    <3> QED BY Zenon, <2>1, <3>1, <3>2 DEF AgreeOn
  <2>4. CASE q.last \notin {"name", "index", "index_expr"}
    <3>1. ReadLua(i, Push(Parse("exprstat"), T), q) = Refusal("no_variable")
      BY Zenon, <1>0, <1>a, <1>1, <2>4, LuaExprstat
    <3>2. OursRun(i, S1)
      BY Zenon, <1>0, <1>1, TargetsRead
    <3>3. ReadOurs(i, S1, r) \in Machines
      BY Zenon, <1>a, <3>2 DEF OursRun
    <3> QED BY Zenon, <2>1, <3>1, <3>3, Verdicts
  <2> QED BY <1>1, <2>2, <2>3, <2>4
<1>2. CASE t # Comma /\ t # "="
  <2>0. NodeLike(Node("call_statement"))
    BY NodesLike DEF NodeKinds
  <2>1. AgreeOn(i, Push(Node("call_statement"), S), Push(Node("call_statement"), T))
    BY Zenon, <1>0, <2>0, AgreeNode
  <2>2. CASE q.last \in {"call", "method_call"}
    <3>1. r.last \in {"call", "method_call"}
      BY <1>a, <2>2
    <3>2. ReadOurs(i, Push(Parse("assign_or_call"), S), r) = ReadOurs(i, Push(Node("call_statement"), S), r)
      BY <1>0, <1>a, <1>2, <3>1, OursAssignOrCall
    <3>3. ReadLua(i, Push(Parse("exprstat"), T), q) = ReadLua(i, Push(Node("call_statement"), T),
              q)
      BY Zenon, <1>0, <1>a, <1>2, <2>2, LuaExprstat
    <3> QED BY Zenon, <2>1, <3>2, <3>3 DEF AgreeOn
  <2>3. CASE q.last = "paren"
    <3>1. ReadLua(i, Push(Parse("exprstat"), T), q) = Refusal("no_variable")
      BY Zenon, <1>0, <1>a, <1>2, <2>3, LuaExprstat
    <3>2. CASE r.last \in {"call", "method_call"}
      <4>1. ReadOurs(i, Push(Parse("assign_or_call"), S), r) = ReadOurs(i, Push(Node("call_statement"), S),
                r)
        BY <1>0, <1>a, <1>2, <3>2, OursAssignOrCall
      <4>2. ReadOurs(i, Push(Node("call_statement"), S), r) \in Machines
        BY Zenon, <1>0, <2>1, AgreedIn
      <4> QED BY Zenon, <3>1, <4>1, <4>2, Verdicts
    <3>3. CASE r.last \notin {"call", "method_call"}
      <4>1. ReadOurs(i, Push(Parse("assign_or_call"), S), r) = Refusal("none")
        BY Zenon, <1>0, <1>a, <1>2, <3>3, OursAssignOrCall
      <4> QED BY Zenon, <3>1, <4>1, RefusedIn, Verdicts
    <3> QED BY <3>2, <3>3
  <2>4. CASE q.last # "paren" /\ q.last \notin {"call", "method_call"}
    <3>1. r.last \notin {"call", "method_call"}
      BY <1>a, <2>4
    <3>2. ReadOurs(i, Push(Parse("assign_or_call"), S), r) = Refusal("none")
      BY Zenon, <1>0, <1>a, <1>2, <3>1, OursAssignOrCall
    <3>3. ReadLua(i, Push(Parse("exprstat"), T), q) = Refusal("none")
      BY Zenon, <1>0, <1>a, <1>2, <2>4, LuaExprstat
    <3> QED BY Zenon, <3>2, <3>3, Verdicts
  <2> QED BY <2>2, <2>3, <2>4
<1> QED BY <1>1, <1>2

LEMMA AgreeTargets ==
    ASSUME NEW i, Input(i), NEW S, NEW T, Alike(S, T)
    PROVE  AgreeOn(i, Push(Parse("targets"),
               Push(Expect("="), Push(Parse("unary"),
               Push(Climb("none"), Push(Parse("more_exprs"), Push(Node("assign"), S)))))),
               Push(Parse("restassign"), T))
<1> DEFINE t == Head(i)
<1>0. /\ i \in Tokens55 /\ i # <<>> /\ t = Head(i) /\ t \in TokenKinds /\ t \in Vocabulary /\ t # LineParen
      /\ S \in Stack /\ T \in Stack /\ Input(i)
           /\ Alike(S, T)
      /\ Tail(i) = <<>>
  BY InputIs, AlikeIn, NoLineParen
<1> HIDE DEF t
<1> SUFFICES ASSUME NEW c, NEW r, NEW q, Near(c, r, q)
             PROVE  Verdict(c, i, ReadOurs(i,
                        Push(Parse("targets"),
                        Push(Expect("="), Push(Parse("unary"),
                        Push(Climb("none"), Push(Parse("more_exprs"), Push(Node("assign"), S)))))), r),
                        ReadLua(i, Push(Parse("restassign"), T), q))
  BY DEF AgreeOn
<1>a. r \in Regs /\ q \in Regs
  BY NearIn
<1>1. CASE t = Comma /\ q.last \in {"name", "index", "index_expr"}
  <2> DEFINE T1 == Push(Expect(Comma),
                       Push(Parse("primaryexp"), Push(Parse("suffixedexp"), Push(Parse("restassign"), T))))
  <2>1. ReadLua(i, Push(Parse("restassign"), T), q) = ReadLua(i, T1, q)
    BY <1>0, <1>a, <1>1, LuaRestassign
  <2>2. AgreeOn(i, Push(Parse("targets"),
            Push(Expect("="), Push(Parse("unary"),
            Push(Climb("none"), Push(Parse("more_exprs"), Push(Node("assign"), S)))))), T1)
    BY Zenon, <1>0, <1>1, TargetsRead
  <2> QED BY Zenon, <2>1, <2>2 DEF AgreeOn
<1>2. CASE t = "=" /\ q.last \in {"name", "index", "index_expr"}
  <2> DEFINE T1 == Push(Expect("="),
                       Push(Parse("subexpr"),
                       Push(Climb("none"), Push(Parse("explist"), Push(Node("assign"), T)))))
  <2>1. ReadLua(i, Push(Parse("restassign"), T), q) = ReadLua(i, T1, q)
    BY <1>0, <1>a, <1>2, LuaRestassign
  <2>2. AgreeOn(i, Push(Parse("targets"),
            Push(Expect("="), Push(Parse("unary"),
            Push(Climb("none"), Push(Parse("more_exprs"), Push(Node("assign"), S)))))), T1)
    BY Zenon, <1>0, <1>2, TargetsRead
  <2> QED BY Zenon, <2>1, <2>2 DEF AgreeOn
<1>3. CASE (t = Comma \/ t = "=") /\ q.last \notin {"name", "index", "index_expr"}
  <2> DEFINE S1 == Push(Parse("targets"),
                       Push(Expect("="), Push(Parse("unary"),
                       Push(Climb("none"), Push(Parse("more_exprs"), Push(Node("assign"), S))))))
  <2>1. ReadLua(i, Push(Parse("restassign"), T), q) = Refusal("no_variable")
    BY Zenon, <1>0, <1>a, <1>3, LuaRestassign
  <2>2. OursRun(i, S1)
    BY Zenon, <1>0, <1>3, TargetsRead
  <2>3. ReadOurs(i, S1, r) \in Machines
    BY Zenon, <1>a, <2>2 DEF OursRun
  <2> QED BY Zenon, <2>1, <2>3, Verdicts
<1>4. CASE t # Comma /\ t # "="
  <2> DEFINE S1 == Push(Parse("targets"),
                       Push(Expect("="), Push(Parse("unary"),
                       Push(Climb("none"), Push(Parse("more_exprs"), Push(Node("assign"), S))))))
  <2>1. ReadLua(i, Push(Parse("restassign"), T), q) = Refusal("none")
    BY <1>0, <1>a, <1>4, LuaRestassign
  <2>2. OursNo(i, S1)
    BY Zenon, <1>0, <1>4, TargetsRead
  <2>3. ReadOurs(i, S1, r) = Refusal("none")
    BY Zenon, <1>a, <2>2 DEF OursNo
  <2> QED BY Zenon, <2>1, <2>3, Verdicts
<1> QED BY <1>1, <1>2, <1>3, <1>4

(* Names with attributes; after close, Lua goes on to allow const alone.   *)
LEMMA AgreeMoreNames ==
    ASSUME NEW i, Input(i), NEW S, NEW T, Alike(S, T), AgreeOn(i, S, T)
    PROVE  AgreeOn(i, Push(Parse("more_names"), S), Push(Parse("attnamelist"), T))
<1> DEFINE t == Head(i)
<1>0. /\ i \in Tokens55 /\ i # <<>> /\ t = Head(i) /\ t \in TokenKinds /\ t \in Vocabulary /\ t # LineParen
      /\ S \in Stack /\ T \in Stack /\ Input(i)
           /\ Alike(S, T)
      /\ Tail(i) = <<>> /\ AgreeOn(i, S, T)
  BY InputIs, AlikeIn, NoLineParen
<1> HIDE DEF t
<1>a. Push(Expect("Name"), Push(Parse("attribute"), Push(Parse("more_names"), S))) \in Stack
          /\ Push(Expect("Name"), Push(Parse("closed"), Push(Parse("closedlist"), T))) \in Stack
          /\ Push(Expect("Name"), Push(Parse("attrib"), Push(Parse("attnamelist"), T))) \in Stack
  BY <1>0, SymbolsIn, OnIs
<1> SUFFICES ASSUME NEW c, NEW r, NEW q, Near(c, r, q)
             PROVE  Verdict(c, i, ReadOurs(i, Push(Parse("more_names"), S), r),
                        ReadLua(i, Push(Parse("attnamelist"), T), q))
  BY DEF AgreeOn
<1>b. r \in Regs /\ q \in Regs
  BY NearIn
<1>1. CASE t # Comma
  <2>1. OursTo(i, Push(Parse("more_names"), S), S)
    BY Zenon, <1>0, <1>1, OursMoreNames
  <2>2. ReadOurs(i, Push(Parse("more_names"), S), r) = ReadOurs(i, S, r)
    BY Zenon, <1>b, <2>1 DEF OursTo
  <2>3. ReadLua(i, Push(Parse("attnamelist"), T), q) = ReadLua(i, T, q)
    BY Zenon, <1>0, <1>b, <1>1, LuaAttnamelist
  <2> QED BY Zenon, <1>0, <2>2, <2>3 DEF AgreeOn
<1>2. CASE t = Comma
  <2> DEFINE S1 == Push(Parse("attribute"), Push(Parse("more_names"), S))
             T1 == Push(Parse("attrib"), Push(Parse("attnamelist"), T))
             T2 == Push(Parse("closed"), Push(Parse("closedlist"), T))
             S2 == Push(Expect(Comma), Push(Expect("Name"), S1))
  <2>1. Comma = Head(i)
    BY <1>0, <1>2, MarksDiffer, WordsHere DEF PlainTokens
  <2>2. OursTo(i, Push(Parse("more_names"), S), S2)
    BY Zenon, <1>0, <1>2, OursMoreNames
  <2>3. ReadOurs(i, Push(Parse("more_names"), S), r) = ReadOurs(i, S2, r)
    BY Zenon, <1>b, <2>2 DEF OursTo
  <2>4. Fit(Parse("more_names"), Parse("closedlist"))
    BY Zenon, FitsAre
  <2>5. Alike(Push(Parse("more_names"), S), Push(Parse("closedlist"), T))
    BY Zenon, <2>4, <1>0, AlikeRules
  <2>6. Fit(Parse("attribute"), Parse("closed"))
    BY Zenon, FitsAre
  <2>7. Alike(S1, T2)
    BY Zenon, <2>6, <2>5, AlikeRules
  <2>8. JointHere(S1, T2)
    BY Zenon, <2>7, BaresAre
  <2>9. Joint(S1, T2)
    BY Zenon, <2>8, JointsAre
  <2>10. Alike(Push(Expect("Name"), S1), Push(Expect("Name"), T2))
    BY Zenon, <2>9, ClosersAre, AlikeRules
  <2>11. Settles(Push(Expect("Name"), S1), Push(Expect("Name"), T2))
    BY Zenon, <2>10, AlikeSettles
  <2>12. Fit(Parse("more_names"), Parse("attnamelist"))
    BY Zenon, FitsAre
  <2>13. Alike(Push(Parse("more_names"), S), Push(Parse("attnamelist"), T))
    BY Zenon, <2>12, <1>0, AlikeRules
  <2>14. Fit(Parse("attribute"), Parse("attrib"))
    BY Zenon, FitsAre
  <2>15. Alike(S1, T1)
    BY Zenon, <2>14, <2>13, AlikeRules
  <2>16. JointHere(S1, T1)
    BY Zenon, <2>15, BaresAre
  <2>17. Joint(S1, T1)
    BY Zenon, <2>16, JointsAre
  <2>18. Alike(Push(Expect("Name"), S1), Push(Expect("Name"), T1))
    BY Zenon, <2>17, ClosersAre, AlikeRules
  <2>19. Settles(Push(Expect("Name"), S1), Push(Expect("Name"), T1))
    BY Zenon, <2>18, AlikeSettles
  <2>20. AgreeOn(i, S2, Push(Expect(Comma), Push(Expect("Name"), T2)))
    BY Zenon, <1>0, <1>a, <2>1, <2>11, EatBoth
  <2>21. AgreeOn(i, S2, Push(Expect(Comma), Push(Expect("Name"), T1)))
    BY Zenon, <1>0, <1>a, <2>1, <2>19, EatBoth
  <2>x. CASE q.last = "close"
    <3>1. ReadLua(i, Push(Parse("attnamelist"), T), q) = ReadLua(i,
              Push(Expect(Comma), Push(Expect("Name"), T2)), q)
      BY Zenon, <1>0, <1>b, <1>2, <2>x, LuaAttnamelist
    <3> QED BY Zenon, <2>3, <2>20, <3>1 DEF AgreeOn
  <2>y. CASE q.last # "close"
    <3>1. ReadLua(i, Push(Parse("attnamelist"), T), q) = ReadLua(i,
              Push(Expect(Comma), Push(Expect("Name"), T1)), q)
      BY Zenon, <1>0, <1>b, <1>2, <2>y, LuaAttnamelist
    <3> QED BY Zenon, <2>3, <2>21, <3>1 DEF AgreeOn
  <2> QED BY <2>x, <2>y
<1> QED BY <1>1, <1>2

(* A parenthesis is closed; Lua remembers that it was one.                 *)
LEMMA AgreeParen ==
    ASSUME NEW i, Input(i), NEW A \in Stack, NEW B \in Stack, AgreeOn(i, A, B)
    PROVE  AgreeOn(i, A, Push(Parse("discharge"), B))
<1> SUFFICES ASSUME NEW c, NEW r, NEW q, Near(c, r, q)
                        PROVE Verdict(c, i, ReadOurs(i, A, r),
                        ReadLua(i, Push(Parse("discharge"), B), q))
  BY DEF AgreeOn
<1> DEFINE d == Done(q, Node("one_value"))
<1>1. r \in Regs /\ q \in Regs /\ i \in Tokens55 /\ i # <<>> /\ Push(Shape("paren"), B) \in Stack
  BY NearIn, InputIs, SymbolsIn, OnIs
<1>2. NodeLike(Node("one_value")) /\ Node("one_value") \in Symbols
  BY NodesLike, KindsIn, SymbolsIn
<1>3. d \in Regs
  BY <1>1, <1>2, RegsIn
<1>4. Near(c, r, Shaped(q, "paren")) /\ Near(c, r, Shaped(d, "paren"))
  BY NearParen
<1>5. ReadLua(i, Push(Shape("paren"), B), q) = ReadLua(i, B, Shaped(q, "paren"))
  BY <1>1, BothGo
<1>6. ReadLua(i, Push(Node("one_value"), Push(Shape("paren"), B)), q) = ReadLua(i,
          Push(Shape("paren"), B), d)
  <2> HIDE DEF d
  <2> DEFINE Z == Push(Shape("paren"), B)
             n == Node("one_value")
  <2>1. Z \in Stack /\ NodeLike(n)
    BY <1>1, <1>2
  <2>2. ReadLua(i, Push(n, Z), q) = ReadLua(i, Z, Done(q, n))
    <3> HIDE DEF Z, n
    <3> QED BY <1>1, <2>1, BothGo
  <2> QED BY <2>2 DEF d
<1>7. ReadLua(i, Push(Shape("paren"), B), d) = ReadLua(i, B, Shaped(d, "paren"))
  <2> HIDE DEF d
  <2> QED BY <1>1, <1>3, BothGo
<1> HIDE DEF d
<1>8. CASE q.last \in {"call", "method_call", "..."}
  <2>1. ReadLua(i, Push(Parse("discharge"), B), q) = ReadLua(i,
            Push(Node("one_value"), Push(Shape("paren"), B)), q)
    BY Zenon, <1>1, <1>8, LuaDischarge
  <2> QED BY Zenon, <1>4, <1>6, <1>7, <2>1 DEF AgreeOn
<1>9. CASE q.last \notin {"call", "method_call", "..."}
  <2>1. ReadLua(i, Push(Parse("discharge"), B), q) = ReadLua(i, Push(Shape("paren"), B), q)
    BY Zenon, <1>1, <1>9, LuaDischarge
  <2> QED BY Zenon, <1>4, <1>5, <2>1 DEF AgreeOn
<1> QED BY <1>8, <1>9

LEMMA AgreeDischarge ==
    ASSUME NEW i, Input(i), NEW S, NEW T, Alike(S, T), AgreeOn(i, S, T)
    PROVE  AgreeOn(i, Push(Parse("suffixes"), S), Push(Parse("discharge"), Push(Parse("suffixedexp"), T)))
<1>1. S \in Stack /\ T \in Stack
  BY AlikeIn
<1>2. Push(Parse("suffixes"), S) \in Stack /\ Push(Parse("suffixedexp"), T) \in Stack
  BY <1>1, SymbolsIn, OnIs
<1>3. AgreeOn(i, Push(Parse("suffixes"), S), Push(Parse("suffixedexp"), T))
  BY AgreeSuffixes
<1> QED BY <1>2, <1>3, AgreeParen

-----------------------------------------------------------------------------
(* Expressions, fields, arguments, parameters and loops.                   *)
(* The start of an expression, after an operator or not.                   *)
LEMMA AgreeExpr ==
    ASSUME NEW i, Input(i), NEW op \in LeftOf, NEW S, NEW T, Alike(S, T)
    PROVE  AgreeOn(i, Push(Parse("unary"), Push(Climb(op), S)), Push(Parse("subexpr"), Push(Climb(op), T)))
<1> DEFINE t == Head(i)
<1>0. /\ op \in LeftOf /\ i \in Tokens55 /\ i # <<>> /\ t = Head(i) /\ t \in TokenKinds /\ t \in Vocabulary
           /\ t # LineParen
      /\ S \in Stack /\ T \in Stack /\ Input(i)
           /\ Alike(S, T)
      /\ Tail(i) = <<>>
  BY InputIs, AlikeIn, NoLineParen
<1> HIDE DEF t
<1>1. CASE t = "function"
  <2> DEFINE S1 == Push(Parse("suffixes"), Push(Climb(op), S))
             T1 == Push(Expect("end"), Push(Node("function"), Push(Climb(op), T)))
             S2 == Push(Expect("end"), Push(Node("function"), S1))
             S3 == Push(Parse("unary"), Push(Climb(op), S))
             T2 == Push(Expect("("), Push(Parse("parlist"), Push(Expect(")"), Push(Parse("statlist"), T1))))
             S4 == Push(Expect("("), Push(Parse("params"), Push(Expect(")"), Push(Parse("block"), S2))))
  <2>1. t \notin UnaryOps /\ t = "function" /\ "function" = Head(i)
    BY <1>0, <1>1, MarksDiffer, WordsHere DEF PlainTokens, Names, Simple, UnaryOps, BlockEnds, Fits
  <2>2. Push(Climb(op), S) \in Stack /\ S1 \in Stack /\ Push(Climb(op), T) \in Stack /\ S4 \in Stack
            /\ T2 \in Stack
    BY <1>0, SymbolsIn, LeftOfIn, OnIs
  <2>3. OursTo(i, S3, Push(Parse("primary"), S1))
    BY Zenon, <1>0, <2>1, <2>2, OursUnary
  <2>4. OursTo(i, Push(Parse("primary"), S1), Push(Expect("function"), S4))
    BY Zenon, <1>0, <2>1, <2>2, OursPrimary
  <2>5. LuaTo(i, Push(Parse("subexpr"), Push(Climb(op), T)), Push(Expect("function"), T2))
    BY Zenon, <1>0, <2>1, <2>2, LuaSubexpr
  <2>6. JointHere(S1, Push(Climb(op), T))
    BY Zenon, <1>0, BaresAre
  <2>7. NodeLike(Node("function"))
    BY NodesLike, KindsIn
  <2>8. Joint(Push(Node("function"), S1), Push(Node("function"), Push(Climb(op), T)))
    BY Zenon, <2>6, <2>7, JointsAre
  <2>9. Alike(S2, T1)
    BY Zenon, <2>8, ClosersAre, AlikeRules
  <2>10. Fit(Parse("block"), Parse("statlist"))
    BY Zenon, FitsAre
  <2>11. Alike(Push(Parse("block"), S2), Push(Parse("statlist"), T1))
    BY Zenon, <2>10, <2>9, AlikeRules
  <2>12. Alike(S4, T2)
    BY Zenon, <2>11, AlikeRules
  <2>13. Settles(S4, T2)
    BY Zenon, <2>12, AlikeSettles
  <2>14. AgreeOn(i, Push(Expect("function"), S4), Push(Expect("function"), T2))
    BY Zenon, <1>0, <2>1, <2>2, <2>13, EatBoth
  <2>15. AgreeOn(i, Push(Parse("primary"), S1), Push(Expect("function"), T2))
    BY Zenon, <2>4, <2>14, AgreeOurs
  <2>16. AgreeOn(i, S3, Push(Expect("function"), T2))
    BY Zenon, <2>3, <2>15, AgreeOurs
  <2>17. AgreeOn(i, S3, Push(Parse("subexpr"), Push(Climb(op), T)))
    BY Zenon, <2>5, <2>16, AgreeLua
  <2> QED BY Zenon, <2>17
<1>2. CASE t = "("
  <2> DEFINE S1 == Push(Parse("suffixes"), Push(Climb(op), S))
             T1 == Push(Parse("suffixedexp"), Push(Climb(op), T))
             S2 == Push(Parse("unary"), Push(Climb("none"), Push(Expect(")"), S1)))
             S3 == Push(Parse("unary"), Push(Climb(op), S))
             T2 == Push(Parse("subexpr"), Push(Climb("none"),
                       Push(Expect(")"), Push(Parse("discharge"), T1))))
  <2>1. t \notin UnaryOps /\ t = "("
            /\ (t \notin UnaryOps /\ t \notin Simple /\ t # OpenBrace /\ t # "function")
            /\ (t = "(" \/ t = LineParen) /\ "(" = Head(i)
    BY <1>0, <1>2, MarksDiffer, WordsHere DEF PlainTokens, Names, Simple, UnaryOps, BlockEnds, Fits
  <2>2. Push(Climb(op), S) \in Stack /\ S1 \in Stack /\ Push(Climb(op), T) \in Stack /\ T1 \in Stack
            /\ S2 \in Stack /\ T2 \in Stack
    BY <1>0, SymbolsIn, LeftOfIn, OnIs
  <2>3. OursTo(i, S3, Push(Parse("primary"), S1))
    BY Zenon, <1>0, <2>1, <2>2, OursUnary
  <2>4. OursTo(i, Push(Parse("primary"), S1), Push(Expect("("), S2))
    BY Zenon, <1>0, <2>1, <2>2, OursPrimary
  <2>5. LuaTo(i, Push(Parse("subexpr"), Push(Climb(op), T)), Push(Parse("primaryexp"), T1))
    BY Zenon, <1>0, <2>1, <2>2, LuaSubexpr
  <2>6. LuaTo(i, Push(Parse("primaryexp"), T1), Push(Expect("("), T2))
    BY Zenon, <1>0, <2>1, <2>2, LuaPrimaryexp
  <2>7. Fit(Climb(op), Climb(op))
    BY Zenon, <1>0, FitsAre
  <2>8. Alike(Push(Climb(op), S), Push(Climb(op), T))
    BY Zenon, <2>7, <1>0, AlikeRules
  <2>9. JointHere(S1, Push(Parse("discharge"), T1))
    BY Zenon, <2>8, BaresAre
  <2>10. Joint(S1, Push(Parse("discharge"), T1))
    BY Zenon, <2>9, JointsAre
  <2>11. Alike(Push(Expect(")"), S1), Push(Expect(")"), Push(Parse("discharge"), T1)))
    BY Zenon, <2>10, ClosersAre, AlikeRules
  <2>12. "none" \in LeftOf
    BY <1>0 DEF LeftOf, Climbs
  <2>13. Settles(S2, T2)
    BY Zenon, <2>11, <2>12, ShapesSettle
  <2>14. AgreeOn(i, Push(Expect("("), S2), Push(Expect("("), T2))
    BY Zenon, <1>0, <2>1, <2>2, <2>13, EatBoth
  <2>15. AgreeOn(i, Push(Parse("primary"), S1), Push(Expect("("), T2))
    BY Zenon, <2>4, <2>14, AgreeOurs
  <2>16. AgreeOn(i, S3, Push(Expect("("), T2))
    BY Zenon, <2>3, <2>15, AgreeOurs
  <2>17. AgreeOn(i, S3, Push(Parse("primaryexp"), T1))
    BY Zenon, <2>6, <2>16, AgreeLua
  <2>18. AgreeOn(i, S3, Push(Parse("subexpr"), Push(Climb(op), T)))
    BY Zenon, <2>5, <2>17, AgreeLua
  <2> QED BY Zenon, <2>18
<1>3. CASE t = OpenBrace
  <2> DEFINE S1 == Push(Parse("suffixes"), Push(Climb(op), S))
             S2 == Push(Parse("fields"), Push(Expect(CloseBrace), Push(Node("table"), S1)))
             S3 == Push(Parse("unary"), Push(Climb(op), S))
             T1 == Push(Node("table"), Push(Climb(op), T))
             T2 == Push(Parse("constructor"), Push(Expect(CloseBrace), T1))
  <2>1. t \notin UnaryOps /\ t = OpenBrace /\ OpenBrace = Head(i)
    BY <1>0, <1>3, MarksDiffer, WordsHere DEF PlainTokens, Names, Simple, UnaryOps, BlockEnds, Fits
  <2>2. Push(Climb(op), S) \in Stack /\ S1 \in Stack /\ Push(Climb(op), T) \in Stack /\ S2 \in Stack
            /\ T2 \in Stack
    BY <1>0, SymbolsIn, LeftOfIn, OnIs
  <2>3. OursTo(i, S3, Push(Parse("primary"), S1))
    BY Zenon, <1>0, <2>1, <2>2, OursUnary
  <2>4. OursTo(i, Push(Parse("primary"), S1), Push(Expect(OpenBrace), S2))
    BY Zenon, <1>0, <2>1, <2>2, OursPrimary
  <2>5. LuaTo(i, Push(Parse("subexpr"), Push(Climb(op), T)), Push(Expect(OpenBrace), T2))
    BY Zenon, <1>0, <2>1, <2>2, LuaSubexpr
  <2>6. JointHere(S1, Push(Climb(op), T))
    BY Zenon, <1>0, BaresAre
  <2>7. NodeLike(Node("table"))
    BY NodesLike, KindsIn
  <2>8. Joint(Push(Node("table"), S1), T1)
    BY Zenon, <2>6, <2>7, JointsAre
  <2>9. Alike(Push(Expect(CloseBrace), Push(Node("table"), S1)), Push(Expect(CloseBrace), T1))
    BY Zenon, <2>8, ClosersAre, AlikeRules
  <2>10. Settles(S2, T2)
    BY Zenon, <2>9, ShapesSettle
  <2>11. AgreeOn(i, Push(Expect(OpenBrace), S2), Push(Expect(OpenBrace), T2))
    BY Zenon, <1>0, <2>1, <2>2, <2>10, EatBoth
  <2>12. AgreeOn(i, Push(Parse("primary"), S1), Push(Expect(OpenBrace), T2))
    BY Zenon, <2>4, <2>11, AgreeOurs
  <2>13. AgreeOn(i, S3, Push(Expect(OpenBrace), T2))
    BY Zenon, <2>3, <2>12, AgreeOurs
  <2>14. AgreeOn(i, S3, Push(Parse("subexpr"), Push(Climb(op), T)))
    BY Zenon, <2>5, <2>13, AgreeLua
  <2> QED BY Zenon, <2>14
<1>4. CASE t \in UnaryOps
  <2> DEFINE T1 == Push(Parse("subexpr"), Push(Climb("unary"), Push(Unop(t), Push(Climb(op), T))))
             S1 == Push(Parse("unary"), Push(Climb("unary"), Push(Unop(t), Push(Climb(op), S))))
             S2 == Push(Parse("unary"), Push(Climb(op), S))
  <2>1. t \in UnaryOps
    BY <1>0, <1>4, MarksDiffer, WordsHere DEF PlainTokens, Names, Simple, UnaryOps, BlockEnds, Fits
  <2>2. Push(Climb(op), S) \in Stack /\ Push(Climb(op), T) \in Stack /\ S1 \in Stack /\ T1 \in Stack
    BY <1>0, SymbolsIn, WordSymbols, LeafIn, LeftOfIn, OnIs
  <2>3. OursTo(i, S2, Push(Expect(t), S1))
    BY Zenon, <1>0, <2>1, <2>2, OursUnary
  <2>4. LuaTo(i, Push(Parse("subexpr"), Push(Climb(op), T)), Push(Expect(t), T1))
    BY Zenon, <1>0, <2>1, <2>2, LuaSubexpr
  <2>5. Fit(Climb(op), Climb(op))
    BY Zenon, <1>0, FitsAre
  <2>6. Alike(Push(Climb(op), S), Push(Climb(op), T))
    BY Zenon, <2>5, <1>0, AlikeRules
  <2>7. NodeLike(Unop(t))
    BY Zenon, <1>0, NodesLike
  <2>8. Fit(Unop(t), Unop(t))
    BY Zenon, <2>7, FitsAre
  <2>9. Alike(Push(Unop(t), Push(Climb(op), S)), Push(Unop(t), Push(Climb(op), T)))
    BY Zenon, <2>8, <2>6, AlikeRules
  <2>10. "unary" \in LeftOf
    BY <1>0 DEF LeftOf, Climbs
  <2>11. Settles(S1, T1)
    BY Zenon, <2>9, <2>10, ShapesSettle
  <2>12. AgreeOn(i, Push(Expect(t), S1), Push(Expect(t), T1))
    BY Zenon, <1>0, <2>1, <2>2, <2>11, EatBoth
  <2>13. AgreeOn(i, S2, Push(Expect(t), T1))
    BY Zenon, <2>3, <2>12, AgreeOurs
  <2>14. AgreeOn(i, S2, Push(Parse("subexpr"), Push(Climb(op), T)))
    BY Zenon, <2>4, <2>13, AgreeLua
  <2> QED BY Zenon, <2>14
<1>5. CASE t \in Names
  <2> DEFINE T1 == Push(Parse("suffixedexp"), Push(Climb(op), T))
             S1 == Push(Parse("suffixes"), Push(Climb(op), S))
             S2 == Push(Parse("unary"), Push(Climb(op), S))
             T2 == Push(Expect(t), Push(Node("name"), T1))
  <2>1. t \notin UnaryOps /\ t \in Names
            /\ (t \notin UnaryOps /\ t \notin Simple /\ t # OpenBrace /\ t # "function")
            /\ Head(i) \in Names
    BY <1>0, <1>5, MarksDiffer, WordsHere DEF PlainTokens, Names, Simple, UnaryOps, BlockEnds, Fits
  <2>2. Push(Climb(op), S) \in Stack /\ S1 \in Stack /\ Push(Climb(op), T) \in Stack /\ T1 \in Stack
            /\ Push(Node("name"), S1) \in Stack /\ Push(Node("name"), T1) \in Stack
    BY <1>0, SymbolsIn, LeftOfIn, OnIs
  <2>3. OursTo(i, S2, Push(Parse("primary"), S1))
    BY Zenon, <1>0, <2>1, <2>2, OursUnary
  <2>4. OursTo(i, Push(Parse("primary"), S1), Push(Expect("Name"), Push(Node("name"), S1)))
    BY Zenon, <1>0, <2>1, <2>2, OursPrimary
  <2>5. LuaTo(i, Push(Parse("subexpr"), Push(Climb(op), T)), Push(Parse("primaryexp"), T1))
    BY Zenon, <1>0, <2>1, <2>2, LuaSubexpr
  <2>6. LuaTo(i, Push(Parse("primaryexp"), T1), T2)
    BY Zenon, <1>0, <2>1, <2>2, LuaPrimaryexp
  <2>7. Fit(Climb(op), Climb(op))
    BY Zenon, <1>0, FitsAre
  <2>8. Alike(Push(Climb(op), S), Push(Climb(op), T))
    BY Zenon, <2>7, <1>0, AlikeRules
  <2>9. Settles(S1, T1)
    BY Zenon, <2>8, ShapesSettle
  <2>10. NodeLike(Node("name"))
    BY NodesLike, KindsIn
  <2>11. S1 \in Stack /\ T1 \in Stack
    BY <1>0, SymbolsIn, LeftOfIn, OnIs
  <2>12. Settles(Push(Node("name"), S1), Push(Node("name"), T1))
    BY Zenon, <2>9, <2>10, <2>11, SettleNode
  <2>13. AgreeOn(i, Push(Expect("Name"), Push(Node("name"), S1)), T2)
    BY Zenon, <1>0, <2>1, <2>2, <2>12, EatName
  <2>14. AgreeOn(i, Push(Parse("primary"), S1), T2)
    BY Zenon, <2>4, <2>13, AgreeOurs
  <2>15. AgreeOn(i, S2, T2)
    BY Zenon, <2>3, <2>14, AgreeOurs
  <2>16. AgreeOn(i, S2, Push(Parse("primaryexp"), T1))
    BY Zenon, <2>6, <2>15, AgreeLua
  <2>17. AgreeOn(i, S2, Push(Parse("subexpr"), Push(Climb(op), T)))
    BY Zenon, <2>5, <2>16, AgreeLua
  <2> QED BY Zenon, <2>17
<1>6. CASE t \in Simple
  <2> DEFINE S1 == Push(Parse("suffixes"), Push(Climb(op), S))
             T1 == Push(Expect(t), Push(Node(t), Push(Climb(op), T)))
             S2 == Push(Parse("unary"), Push(Climb(op), S))
  <2>1. t \notin UnaryOps /\ t \in Simple
    BY <1>0, <1>6, MarksDiffer, WordsHere DEF PlainTokens, Names, Simple, UnaryOps, BlockEnds, Fits
  <2>2. Push(Climb(op), S) \in Stack /\ S1 \in Stack /\ Push(Climb(op), T) \in Stack
            /\ Push(Node(t), S1) \in Stack /\ Push(Node(t), Push(Climb(op), T)) \in Stack
    BY <1>0, SymbolsIn, WordSymbols, LeafIn, LeftOfIn, OnIs
  <2>3. OursTo(i, S2, Push(Parse("primary"), S1))
    BY Zenon, <1>0, <2>1, <2>2, OursUnary
  <2>4. OursTo(i, Push(Parse("primary"), S1), Push(Expect(t), Push(Node(t), S1)))
    BY Zenon, <1>0, <2>1, <2>2, OursPrimary
  <2>5. LuaTo(i, Push(Parse("subexpr"), Push(Climb(op), T)), T1)
    BY Zenon, <1>0, <2>1, <2>2, LuaSubexpr
  <2>6. Settles(S1, Push(Climb(op), T))
    BY Zenon, <1>0, ShapesSettle
  <2>7. NodeLike(Node(t))
    BY Zenon, <1>0, NodesLike
  <2>8. S1 \in Stack /\ Push(Climb(op), T) \in Stack
    BY <1>0, SymbolsIn, LeftOfIn, OnIs
  <2>9. Settles(Push(Node(t), S1), Push(Node(t), Push(Climb(op), T)))
    BY Zenon, <2>6, <2>7, <2>8, SettleNode
  <2>10. AgreeOn(i, Push(Expect(t), Push(Node(t), S1)), T1)
    BY Zenon, <1>0, <2>1, <2>2, <2>9, EatBoth
  <2>11. AgreeOn(i, Push(Parse("primary"), S1), T1)
    BY Zenon, <2>4, <2>10, AgreeOurs
  <2>12. AgreeOn(i, S2, T1)
    BY Zenon, <2>3, <2>11, AgreeOurs
  <2>13. AgreeOn(i, S2, Push(Parse("subexpr"), Push(Climb(op), T)))
    BY Zenon, <2>5, <2>12, AgreeLua
  <2> QED BY Zenon, <2>13
<1>7. CASE t # "function" /\ t # "(" /\ t # OpenBrace /\ t \notin UnaryOps
          /\ t \notin Names /\ t \notin Simple
  <2> DEFINE T1 == Push(Parse("primaryexp"), Push(Parse("suffixedexp"), Push(Climb(op), T)))
             S1 == Push(Parse("primary"), Push(Parse("suffixes"), Push(Climb(op), S)))
             S2 == Push(Parse("unary"), Push(Climb(op), S))
  <2>1. t \notin UnaryOps /\ (t \notin Simple /\ t \notin Names /\ t # "(" /\ t # OpenBrace
            /\ t # "function") /\ (t \notin UnaryOps /\ t \notin Simple /\ t # OpenBrace /\ t # "function")
            /\ (t \notin Names /\ t \notin Simple /\ t # "(" /\ t # OpenBrace /\ t # "function"
            /\ t # LineParen)
    BY <1>0, <1>7, MarksDiffer, WordsHere DEF PlainTokens, Names, Simple, UnaryOps, BlockEnds, Fits
  <2>2. Push(Climb(op), S) \in Stack /\ Push(Parse("suffixes"), Push(Climb(op), S)) \in Stack
            /\ Push(Climb(op), T) \in Stack /\ Push(Parse("suffixedexp"), Push(Climb(op), T)) \in Stack
    BY <1>0, SymbolsIn, LeftOfIn, OnIs
  <2>3. OursTo(i, S2, S1)
    BY Zenon, <1>0, <2>1, <2>2, OursUnary
  <2>4. OursNo(i, S1)
    BY Zenon, <1>0, <2>1, <2>2, OursPrimary
  <2>5. LuaTo(i, Push(Parse("subexpr"), Push(Climb(op), T)), T1)
    BY Zenon, <1>0, <2>1, <2>2, LuaSubexpr
  <2>6. LuaNo(i, T1)
    BY Zenon, <1>0, <2>1, <2>2, LuaPrimaryexp
  <2>7. AgreeOn(i, S1, T1)
    BY Zenon, <2>4, <2>6, AgreeNo
  <2>8. AgreeOn(i, S2, T1)
    BY Zenon, <2>3, <2>7, AgreeOurs
  <2>9. AgreeOn(i, S2, Push(Parse("subexpr"), Push(Climb(op), T)))
    BY Zenon, <2>5, <2>8, AgreeLua
  <2> QED BY Zenon, <2>9
<1> QED BY Zenon, <1>1, <1>2, <1>3, <1>4, <1>5, <1>6, <1>7

(* After an operand comes an operator, or whatever comes after both.       *)
LEMMA AgreeAfter ==
    ASSUME NEW i, Input(i), NEW op \in LeftOf, NEW S, NEW T, Alike(S, T), AgreeOn(i, S, T), Head(i) # "."
               /\ Head(i) # "[" /\ Head(i) # ":" /\ Head(i) # "(" /\ Head(i) # "String"
               /\ Head(i) # OpenBrace
    PROVE  AgreeOn(i, Push(Parse("suffixes"), Push(Climb(op), S)), Push(Climb(op), T))
<1> DEFINE t == Head(i)
<1>0. /\ op \in LeftOf /\ i \in Tokens55 /\ i # <<>> /\ t = Head(i) /\ t \in TokenKinds /\ t \in Vocabulary
           /\ t # LineParen
      /\ S \in Stack /\ T \in Stack /\ Input(i)
           /\ Alike(S, T)
      /\ Tail(i) = <<>> /\ AgreeOn(i, S, T)
           /\ (t # "." /\ t # "[" /\ t # ":" /\ t # "(" /\ t # "String" /\ t # OpenBrace)
  BY InputIs, AlikeIn, NoLineParen
<1> HIDE DEF t
<1>1. CASE TRUE
  <2>1. (t # "." /\ t # "[" /\ t # ":" /\ t # "(" /\ t # "String" /\ t # OpenBrace)
    BY <1>0, <1>1, MarksDiffer, WordsHere DEF PlainTokens, Names, Simple, UnaryOps, BlockEnds, Fits
  <2>2. Push(Climb(op), S) \in Stack
    BY <1>0, SymbolsIn, LeftOfIn, OnIs
  <2>3. OursTo(i, Push(Parse("suffixes"), Push(Climb(op), S)), Push(Climb(op), S))
    BY Zenon, <1>0, <2>1, <2>2, OursSuffixes
  <2>4. AgreeOn(i, Push(Climb(op), S), Push(Climb(op), T))
    BY Zenon, <1>0, <1>0, <1>0, AgreeClimb
  <2>5. AgreeOn(i, Push(Parse("suffixes"), Push(Climb(op), S)), Push(Climb(op), T))
    BY Zenon, <2>3, <2>4, AgreeOurs
  <2> QED BY Zenon, <2>5
<1> QED BY Zenon, <1>0, <1>1

(* Names and parentheses; valua takes any other operand too, and Lua refuses *)
(* it for no variable.                                                     *)
LEMMA AgreePrimary ==
    ASSUME NEW i, Input(i), NEW S, NEW T, Alike(S, T)
    PROVE  AgreeOn(i, Push(Parse("primary"), Push(Parse("suffixes"), S)),
               Push(Parse("primaryexp"), Push(Parse("suffixedexp"), T)))
<1> DEFINE t == Head(i)
<1>0. /\ i \in Tokens55 /\ i # <<>> /\ t = Head(i) /\ t \in TokenKinds /\ t \in Vocabulary /\ t # LineParen
      /\ S \in Stack /\ T \in Stack /\ Input(i)
           /\ Alike(S, T)
      /\ Tail(i) = <<>>
  BY InputIs, AlikeIn, NoLineParen
<1> HIDE DEF t
<1>1. CASE t = "function"
  <2> DEFINE S1 == Push(Node("function"), Push(Parse("suffixes"), S))
             T1 == Push(Parse("primaryexp"), Push(Parse("suffixedexp"), T))
             T2 == Push(Node("function"), Push(Parse("suffixedexp"), T))
             S2 == Push(Parse("primary"), Push(Parse("suffixes"), S))
             S3 == Push(Expect("("), Push(Parse("params"),
                       Push(Expect(")"), Push(Parse("block"), Push(Expect("end"), S1)))))
             T3 == Push(Expect("end"), T2)
             T4 == Push(Expect("("), Push(Parse("parlist"), Push(Expect(")"), Push(Parse("statlist"), T3))))
  <2>1. t = "function" /\ (t \in Simple \/ t = OpenBrace \/ t = "function") /\ "function" = Head(i)
            /\ Fits(Head(i), "function") /\ "function" \in Vocabulary
    BY <1>0, <1>1, MarksDiffer, WordsHere DEF PlainTokens, Names, Simple, UnaryOps, BlockEnds, Fits
  <2>2. Push(Parse("suffixes"), S) \in Stack /\ Push(Parse("suffixedexp"), T) \in Stack /\ S3 \in Stack
    BY <1>0, SymbolsIn, OnIs
  <2>3. OursTo(i, S2, Push(Expect("function"), S3))
    BY Zenon, <1>0, <2>1, <2>2, OursPrimary
  <2>4. LuaNoVariable(i, T1)
    BY Zenon, <1>0, <2>1, <2>2, LuaPrimaryexp
  <2>5. JointHere(Push(Parse("suffixes"), S), Push(Parse("suffixedexp"), T))
    BY Zenon, <1>0, BaresAre
  <2>6. NodeLike(Node("function"))
    BY NodesLike, KindsIn
  <2>7. Joint(S1, T2)
    BY Zenon, <2>5, <2>6, JointsAre
  <2>8. Alike(Push(Expect("end"), S1), T3)
    BY Zenon, <2>7, ClosersAre, AlikeRules
  <2>9. Fit(Parse("block"), Parse("statlist"))
    BY Zenon, FitsAre
  <2>10. Alike(Push(Parse("block"), Push(Expect("end"), S1)), Push(Parse("statlist"), T3))
    BY Zenon, <2>9, <2>8, AlikeRules
  <2>11. Alike(S3, T4)
    BY Zenon, <2>10, AlikeRules
  <2>12. Settles(S3, T4)
    BY Zenon, <2>11, AlikeSettles
  <2>13. OursRun(i, Push(Expect("function"), S3))
    BY Zenon, <1>0, <2>1, <2>2, <2>12, EatOurs
  <2>14. AgreeOn(i, Push(Expect("function"), S3), T1)
    BY Zenon, <2>13, <2>4, AgreeNoVariable
  <2>15. AgreeOn(i, S2, T1)
    BY Zenon, <2>3, <2>14, AgreeOurs
  <2> QED BY Zenon, <2>15
<1>2. CASE t = "("
  <2> DEFINE S1 == Push(Parse("unary"), Push(Climb("none"), Push(Expect(")"), Push(Parse("suffixes"), S))))
             T1 == Push(Parse("discharge"), Push(Parse("suffixedexp"), T))
             S2 == Push(Parse("primary"), Push(Parse("suffixes"), S))
             T2 == Push(Parse("primaryexp"), Push(Parse("suffixedexp"), T))
             T3 == Push(Parse("subexpr"), Push(Climb("none"), Push(Expect(")"), T1)))
  <2>1. t = "(" /\ (t = "(" \/ t = LineParen) /\ "(" = Head(i)
    BY <1>0, <1>2, MarksDiffer, WordsHere DEF PlainTokens, Names, Simple, UnaryOps, BlockEnds, Fits
  <2>2. Push(Parse("suffixes"), S) \in Stack /\ Push(Parse("suffixedexp"), T) \in Stack /\ S1 \in Stack
            /\ T3 \in Stack
    BY <1>0, SymbolsIn, OnIs
  <2>3. OursTo(i, S2, Push(Expect("("), S1))
    BY Zenon, <1>0, <2>1, <2>2, OursPrimary
  <2>4. LuaTo(i, T2, Push(Expect("("), T3))
    BY Zenon, <1>0, <2>1, <2>2, LuaPrimaryexp
  <2>5. JointHere(Push(Parse("suffixes"), S), T1)
    BY Zenon, <1>0, BaresAre
  <2>6. Joint(Push(Parse("suffixes"), S), T1)
    BY Zenon, <2>5, JointsAre
  <2>7. Alike(Push(Expect(")"), Push(Parse("suffixes"), S)), Push(Expect(")"), T1))
    BY Zenon, <2>6, ClosersAre, AlikeRules
  <2>8. "none" \in LeftOf
    BY <1>0 DEF LeftOf, Climbs
  <2>9. Settles(S1, T3)
    BY Zenon, <2>7, <2>8, ShapesSettle
  <2>10. AgreeOn(i, Push(Expect("("), S1), Push(Expect("("), T3))
    BY Zenon, <1>0, <2>1, <2>2, <2>9, EatBoth
  <2>11. AgreeOn(i, S2, Push(Expect("("), T3))
    BY Zenon, <2>3, <2>10, AgreeOurs
  <2>12. AgreeOn(i, S2, T2)
    BY Zenon, <2>4, <2>11, AgreeLua
  <2> QED BY Zenon, <2>12
<1>3. CASE t = OpenBrace
  <2> DEFINE T1 == Push(Parse("primaryexp"), Push(Parse("suffixedexp"), T))
             T2 == Push(Node("table"), Push(Parse("suffixedexp"), T))
             S1 == Push(Node("table"), Push(Parse("suffixes"), S))
             S2 == Push(Parse("primary"), Push(Parse("suffixes"), S))
             S3 == Push(Parse("fields"), Push(Expect(CloseBrace), S1))
  <2>1. t = OpenBrace /\ (t \in Simple \/ t = OpenBrace \/ t = "function") /\ OpenBrace = Head(i)
            /\ Fits(Head(i), OpenBrace) /\ OpenBrace \in Vocabulary
    BY <1>0, <1>3, MarksDiffer, WordsHere DEF PlainTokens, Names, Simple, UnaryOps, BlockEnds, Fits
  <2>2. Push(Parse("suffixes"), S) \in Stack /\ Push(Parse("suffixedexp"), T) \in Stack /\ S3 \in Stack
    BY <1>0, SymbolsIn, OnIs
  <2>3. OursTo(i, S2, Push(Expect(OpenBrace), S3))
    BY Zenon, <1>0, <2>1, <2>2, OursPrimary
  <2>4. LuaNoVariable(i, T1)
    BY Zenon, <1>0, <2>1, <2>2, LuaPrimaryexp
  <2>5. JointHere(Push(Parse("suffixes"), S), Push(Parse("suffixedexp"), T))
    BY Zenon, <1>0, BaresAre
  <2>6. NodeLike(Node("table"))
    BY NodesLike, KindsIn
  <2>7. Joint(S1, T2)
    BY Zenon, <2>5, <2>6, JointsAre
  <2>8. Alike(Push(Expect(CloseBrace), S1), Push(Expect(CloseBrace), T2))
    BY Zenon, <2>7, ClosersAre, AlikeRules
  <2>9. Settles(S3, Push(Parse("constructor"), Push(Expect(CloseBrace), T2)))
    BY Zenon, <2>8, ShapesSettle
  <2>10. OursRun(i, Push(Expect(OpenBrace), S3))
    BY Zenon, <1>0, <2>1, <2>2, <2>9, EatOurs
  <2>11. AgreeOn(i, Push(Expect(OpenBrace), S3), T1)
    BY Zenon, <2>10, <2>4, AgreeNoVariable
  <2>12. AgreeOn(i, S2, T1)
    BY Zenon, <2>3, <2>11, AgreeOurs
  <2> QED BY Zenon, <2>12
<1>4. CASE t \in Names
  <2> DEFINE T1 == Push(Node("name"), Push(Parse("suffixedexp"), T))
             S1 == Push(Node("name"), Push(Parse("suffixes"), S))
             S2 == Push(Parse("primary"), Push(Parse("suffixes"), S))
             T2 == Push(Parse("primaryexp"), Push(Parse("suffixedexp"), T))
  <2>1. t \in Names /\ Head(i) \in Names
    BY <1>0, <1>4, MarksDiffer, WordsHere DEF PlainTokens, Names, Simple, UnaryOps, BlockEnds, Fits
  <2>2. Push(Parse("suffixes"), S) \in Stack /\ Push(Parse("suffixedexp"), T) \in Stack /\ S1 \in Stack
            /\ T1 \in Stack
    BY <1>0, SymbolsIn, OnIs
  <2>3. OursTo(i, S2, Push(Expect("Name"), S1))
    BY Zenon, <1>0, <2>1, <2>2, OursPrimary
  <2>4. LuaTo(i, T2, Push(Expect(t), T1))
    BY Zenon, <1>0, <2>1, <2>2, LuaPrimaryexp
  <2>5. Settles(Push(Parse("suffixes"), S), Push(Parse("suffixedexp"), T))
    BY Zenon, <1>0, ShapesSettle
  <2>6. NodeLike(Node("name"))
    BY NodesLike, KindsIn
  <2>7. Push(Parse("suffixes"), S) \in Stack /\ Push(Parse("suffixedexp"), T) \in Stack
    BY <1>0, SymbolsIn, OnIs
  <2>8. Settles(S1, T1)
    BY Zenon, <2>5, <2>6, <2>7, SettleNode
  <2>9. AgreeOn(i, Push(Expect("Name"), S1), Push(Expect(t), T1))
    BY Zenon, <1>0, <2>1, <2>2, <2>8, EatName
  <2>10. AgreeOn(i, S2, Push(Expect(t), T1))
    BY Zenon, <2>3, <2>9, AgreeOurs
  <2>11. AgreeOn(i, S2, T2)
    BY Zenon, <2>4, <2>10, AgreeLua
  <2> QED BY Zenon, <2>11
<1>5. CASE t \in Simple
  <2> DEFINE S1 == Push(Node(t), Push(Parse("suffixes"), S))
             T1 == Push(Parse("primaryexp"), Push(Parse("suffixedexp"), T))
             S2 == Push(Parse("primary"), Push(Parse("suffixes"), S))
  <2>1. t \in Simple /\ (t \in Simple \/ t = OpenBrace \/ t = "function")
            /\ Fits(Head(i), t) /\ t \in Vocabulary
    BY <1>0, <1>5, MarksDiffer, WordsHere DEF PlainTokens, Names, Simple, UnaryOps, BlockEnds, Fits
  <2>2. Push(Parse("suffixes"), S) \in Stack /\ Push(Parse("suffixedexp"), T) \in Stack /\ S1 \in Stack
    BY <1>0, SymbolsIn, WordSymbols, LeafIn, OnIs
  <2>3. OursTo(i, S2, Push(Expect(t), S1))
    BY Zenon, <1>0, <2>1, <2>2, OursPrimary
  <2>4. LuaNoVariable(i, T1)
    BY Zenon, <1>0, <2>1, <2>2, LuaPrimaryexp
  <2>5. Settles(Push(Parse("suffixes"), S), Push(Parse("suffixedexp"), T))
    BY Zenon, <1>0, ShapesSettle
  <2>6. NodeLike(Node(t))
    BY Zenon, <1>0, NodesLike
  <2>7. Push(Parse("suffixes"), S) \in Stack /\ Push(Parse("suffixedexp"), T) \in Stack
    BY <1>0, SymbolsIn, OnIs
  <2>8. Settles(S1, Push(Node(t), Push(Parse("suffixedexp"), T)))
    BY Zenon, <2>5, <2>6, <2>7, SettleNode
  <2>9. OursRun(i, Push(Expect(t), S1))
    BY Zenon, <1>0, <2>1, <2>2, <2>8, EatOurs
  <2>10. AgreeOn(i, Push(Expect(t), S1), T1)
    BY Zenon, <2>9, <2>4, AgreeNoVariable
  <2>11. AgreeOn(i, S2, T1)
    BY Zenon, <2>3, <2>10, AgreeOurs
  <2> QED BY Zenon, <2>11
<1>6. CASE t # "function" /\ t # "(" /\ t # OpenBrace /\ t \notin Names /\ t \notin Simple
  <2> DEFINE T1 == Push(Parse("primaryexp"), Push(Parse("suffixedexp"), T))
             S1 == Push(Parse("primary"), Push(Parse("suffixes"), S))
  <2>1. (t \notin Simple /\ t \notin Names /\ t # "(" /\ t # OpenBrace /\ t # "function")
            /\ (t \notin Names /\ t \notin Simple /\ t # "(" /\ t # OpenBrace /\ t # "function"
            /\ t # LineParen)
    BY <1>0, <1>6, MarksDiffer, WordsHere DEF PlainTokens, Names, Simple, UnaryOps, BlockEnds, Fits
  <2>2. Push(Parse("suffixes"), S) \in Stack /\ Push(Parse("suffixedexp"), T) \in Stack
    BY <1>0, SymbolsIn, OnIs
  <2>3. OursNo(i, S1)
    BY Zenon, <1>0, <2>1, <2>2, OursPrimary
  <2>4. LuaNo(i, T1)
    BY Zenon, <1>0, <2>1, <2>2, LuaPrimaryexp
  <2>5. AgreeOn(i, S1, T1)
    BY Zenon, <2>3, <2>4, AgreeNo
  <2> QED BY Zenon, <2>5
<1> QED BY Zenon, <1>1, <1>2, <1>3, <1>4, <1>5, <1>6

LEMMA AgreeAttributeName ==
    ASSUME NEW i, Input(i), NEW S, NEW T, Alike(S, T)
    PROVE  AgreeOn(i, Push(Parse("attribute_name"), S), Push(Parse("attname"), T))
<1> DEFINE t == Head(i)
<1>0. /\ i \in Tokens55 /\ i # <<>> /\ t = Head(i) /\ t \in TokenKinds /\ t \in Vocabulary /\ t # LineParen
      /\ S \in Stack /\ T \in Stack /\ Input(i)
           /\ Alike(S, T)
      /\ Tail(i) = <<>>
  BY InputIs, AlikeIn, NoLineParen
<1> HIDE DEF t
<1>1. CASE t \in {"const", "close"}
  <2> DEFINE T1 == Push(Expect(">"), Push(Node(t), T))
             S1 == Push(Expect(">"), Push(Node(t), S))
  <2>1. t \in {"const", "close"}
    BY <1>0, <1>1, MarksDiffer, WordsHere DEF PlainTokens, Names, Simple, UnaryOps, BlockEnds, Fits
  <2>2. S1 \in Stack /\ T1 \in Stack
    BY <1>0, SymbolsIn, WordSymbols, LeafIn, OnIs
  <2>3. OursTo(i, Push(Parse("attribute_name"), S), Push(Expect(t), S1))
    BY Zenon, <1>0, <2>1, <2>2, OursAttributeName
  <2>4. LuaTo(i, Push(Parse("attname"), T), Push(Expect(t), T1))
    BY Zenon, <1>0, <2>1, <2>2, LuaAttname
  <2>5. NodeLike(Node(t))
    BY Zenon, <1>0, NodesLike
  <2>6. Fit(Node(t), Node(t))
    BY Zenon, <2>5, FitsAre
  <2>7. Alike(Push(Node(t), S), Push(Node(t), T))
    BY Zenon, <2>6, <1>0, AlikeRules
  <2>8. JointHere(Push(Node(t), S), Push(Node(t), T))
    BY Zenon, <2>7, BaresAre
  <2>9. Joint(Push(Node(t), S), Push(Node(t), T))
    BY Zenon, <2>8, JointsAre
  <2>10. Alike(S1, T1)
    BY Zenon, <2>9, ClosersAre, AlikeRules
  <2>11. Settles(S1, T1)
    BY Zenon, <2>10, AlikeSettles
  <2>12. AgreeOn(i, Push(Expect(t), S1), Push(Expect(t), T1))
    BY Zenon, <1>0, <2>1, <2>2, <2>11, EatBoth
  <2>13. AgreeOn(i, Push(Parse("attribute_name"), S), Push(Expect(t), T1))
    BY Zenon, <2>3, <2>12, AgreeOurs
  <2>14. AgreeOn(i, Push(Parse("attribute_name"), S), Push(Parse("attname"), T))
    BY Zenon, <2>4, <2>13, AgreeLua
  <2> QED BY Zenon, <2>14
<1>2. CASE t \notin {"const", "close"}
  <2>1. (t # "const" /\ t # "close")
    BY <1>0, <1>2, MarksDiffer, WordsHere DEF PlainTokens, Names, Simple, UnaryOps, BlockEnds, Fits
  <2>2. OursNo(i, Push(Parse("attribute_name"), S))
    BY Zenon, <1>0, <2>1, OursAttributeName
  <2>3. LuaNo(i, Push(Parse("attname"), T))
    BY Zenon, <1>0, <2>1, LuaAttname
  <2>4. AgreeOn(i, Push(Parse("attribute_name"), S), Push(Parse("attname"), T))
    BY Zenon, <2>2, <2>3, AgreeNo
  <2> QED BY Zenon, <2>4
<1> QED BY Zenon, <1>1, <1>2

LEMMA AgreeVararg ==
    ASSUME NEW i, Input(i), NEW S, NEW T, Alike(S, T), Head(i) \notin Names
    PROVE  AgreeOn(i, Push(Expect(")"), S), Push(Parse("vararg_name"), Push(Expect(")"), T)))
<1> DEFINE t == Head(i)
<1>0. /\ i \in Tokens55 /\ i # <<>> /\ t = Head(i) /\ t \in TokenKinds /\ t \in Vocabulary /\ t # LineParen
      /\ S \in Stack /\ T \in Stack /\ Input(i)
           /\ Alike(S, T)
      /\ Tail(i) = <<>> /\ (t \notin Names)
  BY InputIs, AlikeIn, NoLineParen
<1> HIDE DEF t
<1>1. CASE t = ")"
  <2>1. t \notin Names /\ ")" = Head(i)
    BY <1>0, <1>1, MarksDiffer, WordsHere DEF PlainTokens, Names, Simple, UnaryOps, BlockEnds, Fits
  <2>2. Push(Expect(")"), T) \in Stack
    BY <1>0, SymbolsIn, OnIs
  <2>3. LuaTo(i, Push(Parse("vararg_name"), Push(Expect(")"), T)), Push(Expect(")"), T))
    BY Zenon, <1>0, <2>1, <2>2, LuaVarargName
  <2>4. Settles(S, T)
    BY Zenon, <1>0, AlikeSettles
  <2>5. AgreeOn(i, Push(Expect(")"), S), Push(Expect(")"), T))
    BY Zenon, <1>0, <2>1, <2>2, <2>4, EatBoth
  <2>6. AgreeOn(i, Push(Expect(")"), S), Push(Parse("vararg_name"), Push(Expect(")"), T)))
    BY Zenon, <2>3, <2>5, AgreeLua
  <2> QED BY Zenon, <2>6
<1>2. CASE t # ")"
  <2>1. t \notin Names /\ ~Fits(Head(i), ")")
    BY <1>0, <1>2, MarksDiffer, WordsHere DEF PlainTokens, Names, Simple, UnaryOps, BlockEnds, Fits
  <2>2. Push(Expect(")"), T) \in Stack
    BY <1>0, SymbolsIn, OnIs
  <2>3. LuaTo(i, Push(Parse("vararg_name"), Push(Expect(")"), T)), Push(Expect(")"), T))
    BY Zenon, <1>0, <2>1, <2>2, LuaVarargName
  <2>4. OursNo(i, Push(Expect(")"), S))
    BY Zenon, <1>0, <2>1, <2>2, ClosersIn, WordsHere, OursMismatch
  <2>5. LuaNo(i, Push(Expect(")"), T))
    BY Zenon, <1>0, <2>1, <2>2, ClosersIn, WordsHere, LuaMismatch
  <2>6. AgreeOn(i, Push(Expect(")"), S), Push(Expect(")"), T))
    BY Zenon, <2>4, <2>5, AgreeNo
  <2>7. AgreeOn(i, Push(Expect(")"), S), Push(Parse("vararg_name"), Push(Expect(")"), T)))
    BY Zenon, <2>3, <2>6, AgreeLua
  <2> QED BY Zenon, <2>7
<1> QED BY Zenon, <1>0, <1>1, <1>2

LEMMA AgreeLocal ==
    ASSUME NEW i, Input(i), NEW S, NEW T, Alike(S, T), Head(i) # "<"
    PROVE  AgreeOn(i, Push(Parse("local"), S), Push(Parse("localstat"), T))
<1> DEFINE t == Head(i)
<1>0. /\ i \in Tokens55 /\ i # <<>> /\ t = Head(i) /\ t \in TokenKinds /\ t \in Vocabulary /\ t # LineParen
      /\ S \in Stack /\ T \in Stack /\ Input(i)
           /\ Alike(S, T)
      /\ Tail(i) = <<>> /\ (t # "<")
  BY InputIs, AlikeIn, NoLineParen
<1> HIDE DEF t
<1>1. CASE t = "function"
  <2> DEFINE S1 == Push(Expect("end"), Push(Node("local_function"), S))
             T1 == Push(Expect("end"), Push(Node("local_function"), T))
             T2 == Push(Expect("("), Push(Parse("parlist"), Push(Expect(")"), Push(Parse("statlist"), T1))))
             S2 == Push(Expect("("), Push(Parse("params"), Push(Expect(")"), Push(Parse("block"), S1))))
             T3 == Push(Expect("function"), Push(Expect("Name"), T2))
             S3 == Push(Expect("function"), Push(Expect("Name"), S2))
  <2>1. t = "function" /\ "function" = Head(i)
    BY <1>0, <1>1, MarksDiffer, WordsHere DEF PlainTokens, Names, Simple, UnaryOps, BlockEnds, Fits
  <2>2. Push(Expect("Name"), S2) \in Stack /\ Push(Expect("Name"), T2) \in Stack
    BY <1>0, SymbolsIn, OnIs
  <2>3. OursTo(i, Push(Parse("local"), S), S3)
    BY Zenon, <1>0, <2>1, <2>2, OursLocal
  <2>4. LuaTo(i, Push(Parse("localstat"), T), T3)
    BY Zenon, <1>0, <2>1, <2>2, LuaLocalstat
  <2>5. NodeLike(Node("local_function"))
    BY NodesLike, KindsIn
  <2>6. Fit(Node("local_function"), Node("local_function"))
    BY Zenon, <2>5, FitsAre
  <2>7. Alike(Push(Node("local_function"), S), Push(Node("local_function"), T))
    BY Zenon, <2>6, <1>0, AlikeRules
  <2>8. JointHere(Push(Node("local_function"), S), Push(Node("local_function"), T))
    BY Zenon, <2>7, BaresAre
  <2>9. Joint(Push(Node("local_function"), S), Push(Node("local_function"), T))
    BY Zenon, <2>8, JointsAre
  <2>10. Alike(S1, T1)
    BY Zenon, <2>9, ClosersAre, AlikeRules
  <2>11. Fit(Parse("block"), Parse("statlist"))
    BY Zenon, FitsAre
  <2>12. Alike(Push(Parse("block"), S1), Push(Parse("statlist"), T1))
    BY Zenon, <2>11, <2>10, AlikeRules
  <2>13. Alike(S2, T2)
    BY Zenon, <2>12, AlikeRules
  <2>14. JointHere(S2, T2)
    BY Zenon, <2>13, BaresAre
  <2>15. Joint(S2, T2)
    BY Zenon, <2>14, JointsAre
  <2>16. Alike(Push(Expect("Name"), S2), Push(Expect("Name"), T2))
    BY Zenon, <2>15, ClosersAre, AlikeRules
  <2>17. Settles(Push(Expect("Name"), S2), Push(Expect("Name"), T2))
    BY Zenon, <2>16, AlikeSettles
  <2>18. AgreeOn(i, S3, T3)
    BY Zenon, <1>0, <2>1, <2>2, <2>17, EatBoth
  <2>19. AgreeOn(i, Push(Parse("local"), S), T3)
    BY Zenon, <2>3, <2>18, AgreeOurs
  <2>20. AgreeOn(i, Push(Parse("local"), S), Push(Parse("localstat"), T))
    BY Zenon, <2>4, <2>19, AgreeLua
  <2> QED BY Zenon, <2>20
<1>2. CASE t \in Names
  <2> DEFINE S1 == Push(Parse("initializer"), Push(Node("local"), S))
             T1 == Push(Parse("init"), Push(Node("local"), T))
             T2 == Push(Parse("attrib"), Push(Parse("attnamelist"), T1))
             S2 == Push(Parse("attribute"), Push(Parse("more_names"), S1))
             T3 == Push(Parse("attrib"), Push(Expect("Name"), T2))
  <2>1. t # "function" /\ t # "<" /\ Head(i) \in Names
    BY <1>0, <1>2, MarksDiffer, WordsHere DEF PlainTokens, Names, Simple, UnaryOps, BlockEnds, Fits
  <2>2. Push(Expect("Name"), T2) \in Stack /\ S2 \in Stack /\ T2 \in Stack
    BY <1>0, SymbolsIn, OnIs
  <2>3. OursTo(i, Push(Parse("local"), S), Push(Expect("Name"), S2))
    BY Zenon, <1>0, <2>1, <2>2, OursLocal
  <2>4. LuaTo(i, Push(Parse("localstat"), T), T3)
    BY Zenon, <1>0, <2>1, <2>2, LuaLocalstat
  <2>5. LuaTo(i, T3, Push(Expect("Name"), T2))
    BY Zenon, <1>0, <2>1, <2>2, LuaAttrib
  <2>6. NodeLike(Node("local"))
    BY NodesLike, KindsIn
  <2>7. Fit(Node("local"), Node("local"))
    BY Zenon, <2>6, FitsAre
  <2>8. Alike(Push(Node("local"), S), Push(Node("local"), T))
    BY Zenon, <2>7, <1>0, AlikeRules
  <2>9. Fit(Parse("initializer"), Parse("init"))
    BY Zenon, FitsAre
  <2>10. Alike(S1, T1)
    BY Zenon, <2>9, <2>8, AlikeRules
  <2>11. Fit(Parse("more_names"), Parse("attnamelist"))
    BY Zenon, FitsAre
  <2>12. Alike(Push(Parse("more_names"), S1), Push(Parse("attnamelist"), T1))
    BY Zenon, <2>11, <2>10, AlikeRules
  <2>13. Fit(Parse("attribute"), Parse("attrib"))
    BY Zenon, FitsAre
  <2>14. Alike(S2, T2)
    BY Zenon, <2>13, <2>12, AlikeRules
  <2>15. Settles(S2, T2)
    BY Zenon, <2>14, AlikeSettles
  <2>16. AgreeOn(i, Push(Expect("Name"), S2), Push(Expect("Name"), T2))
    BY Zenon, <1>0, <2>1, <2>2, <2>15, EatName
  <2>17. AgreeOn(i, Push(Parse("local"), S), Push(Expect("Name"), T2))
    BY Zenon, <2>3, <2>16, AgreeOurs
  <2>18. AgreeOn(i, Push(Parse("local"), S), T3)
    BY Zenon, <2>5, <2>17, AgreeLua
  <2>19. AgreeOn(i, Push(Parse("local"), S), Push(Parse("localstat"), T))
    BY Zenon, <2>4, <2>18, AgreeLua
  <2> QED BY Zenon, <2>19
<1>3. CASE t # "function" /\ t \notin Names
  <2> DEFINE S1 == Push(Parse("attribute"),
                       Push(Parse("more_names"), Push(Parse("initializer"), Push(Node("local"), S))))
             T1 == Push(Parse("attrib"), Push(Parse("attnamelist"),
                       Push(Parse("init"), Push(Node("local"), T))))
             T2 == Push(Expect("Name"), T1)
  <2>1. t # "function" /\ t # "<" /\ ~Fits(Head(i), "Name")
    BY <1>0, <1>3, MarksDiffer, WordsHere DEF PlainTokens, Names, Simple, UnaryOps, BlockEnds, Fits
  <2>2. T2 \in Stack /\ S1 \in Stack /\ T1 \in Stack
    BY <1>0, SymbolsIn, OnIs
  <2>3. OursTo(i, Push(Parse("local"), S), Push(Expect("Name"), S1))
    BY Zenon, <1>0, <2>1, <2>2, OursLocal
  <2>4. LuaTo(i, Push(Parse("localstat"), T), Push(Parse("attrib"), T2))
    BY Zenon, <1>0, <2>1, <2>2, LuaLocalstat
  <2>5. LuaTo(i, Push(Parse("attrib"), T2), T2)
    BY Zenon, <1>0, <2>1, <2>2, LuaAttrib
  <2>6. OursNo(i, Push(Expect("Name"), S1))
    BY Zenon, <1>0, <2>1, <2>2, ClosersIn, WordsHere, OursMismatch
  <2>7. LuaNo(i, T2)
    BY Zenon, <1>0, <2>1, <2>2, ClosersIn, WordsHere, LuaMismatch
  <2>8. AgreeOn(i, Push(Expect("Name"), S1), T2)
    BY Zenon, <2>6, <2>7, AgreeNo
  <2>9. AgreeOn(i, Push(Parse("local"), S), T2)
    BY Zenon, <2>3, <2>8, AgreeOurs
  <2>10. AgreeOn(i, Push(Parse("local"), S), Push(Parse("attrib"), T2))
    BY Zenon, <2>5, <2>9, AgreeLua
  <2>11. AgreeOn(i, Push(Parse("local"), S), Push(Parse("localstat"), T))
    BY Zenon, <2>4, <2>10, AgreeLua
  <2> QED BY Zenon, <2>11
<1> QED BY Zenon, <1>0, <1>1, <1>2, <1>3

LEMMA AgreeFields ==
    ASSUME NEW i, Input(i), NEW S, NEW T, Alike(S, T), AgreeOn(i, S, T)
    PROVE  AgreeOn(i, Push(Parse("fields"), S), Push(Parse("constructor"), T))
<1> DEFINE t == Head(i)
<1>0. /\ i \in Tokens55 /\ i # <<>> /\ t = Head(i) /\ t \in TokenKinds /\ t \in Vocabulary /\ t # LineParen
      /\ S \in Stack /\ T \in Stack /\ Input(i)
           /\ Alike(S, T)
      /\ Tail(i) = <<>> /\ AgreeOn(i, S, T)
          
  BY InputIs, AlikeIn, NoLineParen
<1> HIDE DEF t
<1>1. CASE t = CloseBrace
  <2>1. t = CloseBrace
    BY <1>0, <1>1, MarksDiffer, WordsHere DEF PlainTokens, Names, Simple, UnaryOps, BlockEnds, Fits
  <2>2. OursTo(i, Push(Parse("fields"), S), S)
    BY Zenon, <1>0, <2>1, OursFields
  <2>3. LuaTo(i, Push(Parse("constructor"), T), T)
    BY Zenon, <1>0, <2>1, LuaConstructor
  <2>4. AgreeOn(i, Push(Parse("fields"), S), T)
    BY Zenon, <2>2, <1>0, AgreeOurs
  <2>5. AgreeOn(i, Push(Parse("fields"), S), Push(Parse("constructor"), T))
    BY Zenon, <2>3, <2>4, AgreeLua
  <2> QED BY Zenon, <2>5
<1>2. CASE t = "["
  <2> DEFINE S1 == Push(Parse("field"), Push(Parse("separator"), S))
             T1 == Push(Parse("field"), Push(Parse("fieldsep"), T))
             S2 == Push(Node("expr_key"), Push(Parse("separator"), S))
             T2 == Push(Node("expr_key"), Push(Parse("fieldsep"), T))
             T3 == Push(Parse("subexpr"), Push(Climb("none"), T2))
             S3 == Push(Parse("unary"), Push(Climb("none"), S2))
             T4 == Push(Parse("subexpr"), Push(Climb("none"), Push(Expect("]"), Push(Expect("="), T3))))
             S4 == Push(Parse("unary"), Push(Climb("none"), Push(Expect("]"), Push(Expect("="), S3))))
  <2>1. t # CloseBrace /\ t = "[" /\ "[" = Head(i)
    BY <1>0, <1>2, MarksDiffer, WordsHere DEF PlainTokens, Names, Simple, UnaryOps, BlockEnds, Fits
  <2>2. Push(Parse("separator"), S) \in Stack /\ Push(Parse("fieldsep"), T) \in Stack /\ S4 \in Stack
            /\ T4 \in Stack
    BY <1>0, SymbolsIn, OnIs
  <2>3. OursTo(i, Push(Parse("fields"), S), S1)
    BY Zenon, <1>0, <2>1, <2>2, OursFields
  <2>4. OursTo(i, S1, Push(Expect("["), S4))
    BY Zenon, <1>0, <2>1, <2>2, OursField
  <2>5. LuaTo(i, Push(Parse("constructor"), T), T1)
    BY Zenon, <1>0, <2>1, <2>2, LuaConstructor
  <2>6. LuaTo(i, T1, Push(Expect("["), T4))
    BY Zenon, <1>0, <2>1, <2>2, LuaField
  <2>7. Fit(Parse("separator"), Parse("fieldsep"))
    BY Zenon, FitsAre
  <2>8. Alike(Push(Parse("separator"), S), Push(Parse("fieldsep"), T))
    BY Zenon, <2>7, <1>0, AlikeRules
  <2>9. NodeLike(Node("expr_key"))
    BY NodesLike, KindsIn
  <2>10. Fit(Node("expr_key"), Node("expr_key"))
    BY Zenon, <2>9, FitsAre
  <2>11. Alike(S2, T2)
    BY Zenon, <2>10, <2>8, AlikeRules
  <2>12. "none" \in LeftOf
    BY <1>0 DEF LeftOf, Climbs
  <2>13. JointHere(S3, T3)
    BY Zenon, <2>11, <2>12, BaresAre
  <2>14. Joint(S3, T3)
    BY Zenon, <2>13, JointsAre
  <2>15. Alike(Push(Expect("="), S3), Push(Expect("="), T3))
    BY Zenon, <2>14, ClosersAre, AlikeRules
  <2>16. JointHere(Push(Expect("="), S3), Push(Expect("="), T3))
    BY Zenon, <2>15, BaresAre
  <2>17. Joint(Push(Expect("="), S3), Push(Expect("="), T3))
    BY Zenon, <2>16, JointsAre
  <2>18. Alike(Push(Expect("]"), Push(Expect("="), S3)), Push(Expect("]"), Push(Expect("="), T3)))
    BY Zenon, <2>17, ClosersAre, AlikeRules
  <2>19. Settles(S4, T4)
    BY Zenon, <2>18, <2>12, ShapesSettle
  <2>20. AgreeOn(i, Push(Expect("["), S4), Push(Expect("["), T4))
    BY Zenon, <1>0, <2>1, <2>2, <2>19, EatBoth
  <2>21. AgreeOn(i, S1, Push(Expect("["), T4))
    BY Zenon, <2>4, <2>20, AgreeOurs
  <2>22. AgreeOn(i, Push(Parse("fields"), S), Push(Expect("["), T4))
    BY Zenon, <2>3, <2>21, AgreeOurs
  <2>23. AgreeOn(i, Push(Parse("fields"), S), T1)
    BY Zenon, <2>6, <2>22, AgreeLua
  <2>24. AgreeOn(i, Push(Parse("fields"), S), Push(Parse("constructor"), T))
    BY Zenon, <2>5, <2>23, AgreeLua
  <2> QED BY Zenon, <2>24
<1>3. CASE t \in Names
  <2> DEFINE T1 == Push(Parse("recfield"), Push(Parse("fieldsep"), T))
             S1 == Push(Parse("named_field"), Push(Parse("separator"), S))
             S2 == Push(Parse("field"), Push(Parse("separator"), S))
             T2 == Push(Parse("field"), Push(Parse("fieldsep"), T))
  <2>1. t # CloseBrace /\ t \in Names /\ Head(i) \in Names
    BY <1>0, <1>3, MarksDiffer, WordsHere DEF PlainTokens, Names, Simple, UnaryOps, BlockEnds, Fits
  <2>2. Push(Parse("separator"), S) \in Stack /\ Push(Parse("fieldsep"), T) \in Stack /\ S1 \in Stack
            /\ T1 \in Stack
    BY <1>0, SymbolsIn, OnIs
  <2>3. OursTo(i, Push(Parse("fields"), S), S2)
    BY Zenon, <1>0, <2>1, <2>2, OursFields
  <2>4. OursTo(i, S2, Push(Expect("Name"), S1))
    BY Zenon, <1>0, <2>1, <2>2, OursField
  <2>5. LuaTo(i, Push(Parse("constructor"), T), T2)
    BY Zenon, <1>0, <2>1, <2>2, LuaConstructor
  <2>6. LuaTo(i, T2, Push(Expect("Name"), T1))
    BY Zenon, <1>0, <2>1, <2>2, LuaField
  <2>7. Fit(Parse("separator"), Parse("fieldsep"))
    BY Zenon, FitsAre
  <2>8. Alike(Push(Parse("separator"), S), Push(Parse("fieldsep"), T))
    BY Zenon, <2>7, <1>0, AlikeRules
  <2>9. Settles(S1, T1)
    BY Zenon, <2>8, ShapesSettle
  <2>10. AgreeOn(i, Push(Expect("Name"), S1), Push(Expect("Name"), T1))
    BY Zenon, <1>0, <2>1, <2>2, <2>9, EatName
  <2>11. AgreeOn(i, S2, Push(Expect("Name"), T1))
    BY Zenon, <2>4, <2>10, AgreeOurs
  <2>12. AgreeOn(i, Push(Parse("fields"), S), Push(Expect("Name"), T1))
    BY Zenon, <2>3, <2>11, AgreeOurs
  <2>13. AgreeOn(i, Push(Parse("fields"), S), T2)
    BY Zenon, <2>6, <2>12, AgreeLua
  <2>14. AgreeOn(i, Push(Parse("fields"), S), Push(Parse("constructor"), T))
    BY Zenon, <2>5, <2>13, AgreeLua
  <2> QED BY Zenon, <2>14
<1>4. CASE t # CloseBrace /\ t # "[" /\ t \notin Names
  <2> DEFINE T1 == Push(Node("positional"), Push(Parse("fieldsep"), T))
             S1 == Push(Node("positional"), Push(Parse("separator"), S))
             T2 == Push(Parse("subexpr"), Push(Climb("none"), T1))
             S2 == Push(Parse("field"), Push(Parse("separator"), S))
             T3 == Push(Parse("field"), Push(Parse("fieldsep"), T))
  <2>1. t # CloseBrace /\ (t \notin Names /\ t # "[")
    BY <1>0, <1>4, MarksDiffer, WordsHere DEF PlainTokens, Names, Simple, UnaryOps, BlockEnds, Fits
  <2>2. Push(Parse("separator"), S) \in Stack /\ Push(Parse("fieldsep"), T) \in Stack
    BY <1>0, SymbolsIn, OnIs
  <2>3. OursTo(i, Push(Parse("fields"), S), S2)
    BY Zenon, <1>0, <2>1, <2>2, OursFields
  <2>4. OursTo(i, S2, Push(Parse("unary"), Push(Climb("none"), S1)))
    BY Zenon, <1>0, <2>1, <2>2, OursField
  <2>5. LuaTo(i, Push(Parse("constructor"), T), T3)
    BY Zenon, <1>0, <2>1, <2>2, LuaConstructor
  <2>6. LuaTo(i, T3, T2)
    BY Zenon, <1>0, <2>1, <2>2, LuaField
  <2>7. "none" \in LeftOf
    BY <1>0 DEF LeftOf, Climbs
  <2>8. Fit(Parse("separator"), Parse("fieldsep"))
    BY Zenon, FitsAre
  <2>9. Alike(Push(Parse("separator"), S), Push(Parse("fieldsep"), T))
    BY Zenon, <2>8, <1>0, AlikeRules
  <2>10. NodeLike(Node("positional"))
    BY NodesLike, KindsIn
  <2>11. Fit(Node("positional"), Node("positional"))
    BY Zenon, <2>10, FitsAre
  <2>12. Alike(S1, T1)
    BY Zenon, <2>11, <2>9, AlikeRules
  <2>13. AgreeOn(i, Push(Parse("unary"), Push(Climb("none"), S1)), T2)
    BY Zenon, <1>0, <2>7, <2>12, AgreeExpr
  <2>14. AgreeOn(i, S2, T2)
    BY Zenon, <2>4, <2>13, AgreeOurs
  <2>15. AgreeOn(i, Push(Parse("fields"), S), T2)
    BY Zenon, <2>3, <2>14, AgreeOurs
  <2>16. AgreeOn(i, Push(Parse("fields"), S), T3)
    BY Zenon, <2>6, <2>15, AgreeLua
  <2>17. AgreeOn(i, Push(Parse("fields"), S), Push(Parse("constructor"), T))
    BY Zenon, <2>5, <2>16, AgreeLua
  <2> QED BY Zenon, <2>17
<1> QED BY Zenon, <1>1, <1>2, <1>3, <1>4

LEMMA AgreeArgs ==
    ASSUME NEW i, Input(i), NEW S, NEW T, Alike(S, T), AgreeOn(i, S, T)
    PROVE  AgreeOn(i, Push(Parse("args"), S), Push(Parse("args"), T))
<1> DEFINE t == Head(i)
<1>0. /\ i \in Tokens55 /\ i # <<>> /\ t = Head(i) /\ t \in TokenKinds /\ t \in Vocabulary /\ t # LineParen
      /\ S \in Stack /\ T \in Stack /\ Input(i)
           /\ Alike(S, T)
      /\ Tail(i) = <<>> /\ AgreeOn(i, S, T)
          
  BY InputIs, AlikeIn, NoLineParen
<1> HIDE DEF t
<1>1. CASE t = ")"
  <2>1. t = ")"
    BY <1>0, <1>1, MarksDiffer, WordsHere DEF PlainTokens, Names, Simple, UnaryOps, BlockEnds, Fits
  <2>2. OursTo(i, Push(Parse("args"), S), S)
    BY Zenon, <1>0, <2>1, OursArgs
  <2>3. LuaTo(i, Push(Parse("args"), T), T)
    BY Zenon, <1>0, <2>1, LuaArgs
  <2>4. AgreeOn(i, Push(Parse("args"), S), T)
    BY Zenon, <2>2, <1>0, AgreeOurs
  <2>5. AgreeOn(i, Push(Parse("args"), S), Push(Parse("args"), T))
    BY Zenon, <2>3, <2>4, AgreeLua
  <2> QED BY Zenon, <2>5
<1>2. CASE t # ")"
  <2> DEFINE T1 == Push(Parse("subexpr"), Push(Climb("none"), Push(Parse("explist"), T)))
             S1 == Push(Parse("unary"), Push(Climb("none"), Push(Parse("more_exprs"), S)))
  <2>1. t # ")"
    BY <1>0, <1>2, MarksDiffer, WordsHere DEF PlainTokens, Names, Simple, UnaryOps, BlockEnds, Fits
  <2>2. OursTo(i, Push(Parse("args"), S), S1)
    BY Zenon, <1>0, <2>1, OursArgs
  <2>3. LuaTo(i, Push(Parse("args"), T), T1)
    BY Zenon, <1>0, <2>1, LuaArgs
  <2>4. "none" \in LeftOf
    BY <1>0 DEF LeftOf, Climbs
  <2>5. Fit(Parse("more_exprs"), Parse("explist"))
    BY Zenon, FitsAre
  <2>6. Alike(Push(Parse("more_exprs"), S), Push(Parse("explist"), T))
    BY Zenon, <2>5, <1>0, AlikeRules
  <2>7. AgreeOn(i, S1, T1)
    BY Zenon, <1>0, <2>4, <2>6, AgreeExpr
  <2>8. AgreeOn(i, Push(Parse("args"), S), T1)
    BY Zenon, <2>2, <2>7, AgreeOurs
  <2>9. AgreeOn(i, Push(Parse("args"), S), Push(Parse("args"), T))
    BY Zenon, <2>3, <2>8, AgreeLua
  <2> QED BY Zenon, <2>9
<1> QED BY Zenon, <1>1, <1>2

LEMMA AgreeValues ==
    ASSUME NEW i, Input(i), NEW S, NEW T, Alike(S, T), AgreeOn(i, S, T)
    PROVE  AgreeOn(i, Push(Parse("values"), S), Push(Parse("retstat"), T))
<1> DEFINE t == Head(i)
<1>0. /\ i \in Tokens55 /\ i # <<>> /\ t = Head(i) /\ t \in TokenKinds /\ t \in Vocabulary /\ t # LineParen
      /\ S \in Stack /\ T \in Stack /\ Input(i)
           /\ Alike(S, T)
      /\ Tail(i) = <<>> /\ AgreeOn(i, S, T)
          
  BY InputIs, AlikeIn, NoLineParen
<1> HIDE DEF t
<1>1. CASE t \in BlockEnds \/ t = SemiMark
  <2>1. (t \in BlockEnds \/ t = SemiMark)
    BY <1>0, <1>1, MarksDiffer, WordsHere DEF PlainTokens, Names, Simple, UnaryOps, BlockEnds, Fits
  <2>2. OursTo(i, Push(Parse("values"), S), S)
    BY Zenon, <1>0, <2>1, OursValues
  <2>3. LuaTo(i, Push(Parse("retstat"), T), T)
    BY Zenon, <1>0, <2>1, LuaRetstat
  <2>4. AgreeOn(i, Push(Parse("values"), S), T)
    BY Zenon, <2>2, <1>0, AgreeOurs
  <2>5. AgreeOn(i, Push(Parse("values"), S), Push(Parse("retstat"), T))
    BY Zenon, <2>3, <2>4, AgreeLua
  <2> QED BY Zenon, <2>5
<1>2. CASE t \notin BlockEnds /\ t # SemiMark
  <2> DEFINE T1 == Push(Parse("subexpr"), Push(Climb("none"), Push(Parse("explist"), T)))
             S1 == Push(Parse("unary"), Push(Climb("none"), Push(Parse("more_exprs"), S)))
  <2>1. (t \notin BlockEnds /\ t # SemiMark)
    BY <1>0, <1>2, MarksDiffer, WordsHere DEF PlainTokens, Names, Simple, UnaryOps, BlockEnds, Fits
  <2>2. OursTo(i, Push(Parse("values"), S), S1)
    BY Zenon, <1>0, <2>1, OursValues
  <2>3. LuaTo(i, Push(Parse("retstat"), T), T1)
    BY Zenon, <1>0, <2>1, LuaRetstat
  <2>4. "none" \in LeftOf
    BY <1>0 DEF LeftOf, Climbs
  <2>5. Fit(Parse("more_exprs"), Parse("explist"))
    BY Zenon, FitsAre
  <2>6. Alike(Push(Parse("more_exprs"), S), Push(Parse("explist"), T))
    BY Zenon, <2>5, <1>0, AlikeRules
  <2>7. AgreeOn(i, S1, T1)
    BY Zenon, <1>0, <2>4, <2>6, AgreeExpr
  <2>8. AgreeOn(i, Push(Parse("values"), S), T1)
    BY Zenon, <2>2, <2>7, AgreeOurs
  <2>9. AgreeOn(i, Push(Parse("values"), S), Push(Parse("retstat"), T))
    BY Zenon, <2>3, <2>8, AgreeLua
  <2> QED BY Zenon, <2>9
<1> QED BY Zenon, <1>1, <1>2

LEMMA AgreeFor ==
    ASSUME NEW i, Input(i), NEW S, NEW T, Alike(S, T)
    PROVE  AgreeOn(i, Push(Parse("for"), S), Push(Parse("forstat"), T))
<1> DEFINE t == Head(i)
<1>0. /\ i \in Tokens55 /\ i # <<>> /\ t = Head(i) /\ t \in TokenKinds /\ t \in Vocabulary /\ t # LineParen
      /\ S \in Stack /\ T \in Stack /\ Input(i)
           /\ Alike(S, T)
      /\ Tail(i) = <<>>
  BY InputIs, AlikeIn, NoLineParen
<1> HIDE DEF t
<1>1. CASE t = "in"
  <2> DEFINE T1 == Push(Parse("statlist"), Push(Expect("end"), Push(Node("generic_for"), T)))
             S1 == Push(Parse("block"), Push(Expect("end"), Push(Node("generic_for"), S)))
             T2 == Push(Parse("subexpr"), Push(Climb("none"),
                       Push(Parse("explist"), Push(Expect("do"), T1))))
             S2 == Push(Parse("unary"), Push(Climb("none"),
                       Push(Parse("more_exprs"), Push(Expect("do"), S1))))
             S3 == Push(Parse("for_names"), Push(Expect("in"), S2))
             T3 == Push(Parse("forlist"), Push(Expect("in"), T2))
  <2>1. t # "=" /\ t # Comma /\ "in" = Head(i)
    BY <1>0, <1>1, MarksDiffer, WordsHere DEF PlainTokens, Names, Simple, UnaryOps, BlockEnds, Fits
  <2>2. Push(Expect("in"), S2) \in Stack /\ Push(Expect("in"), T2) \in Stack /\ S2 \in Stack /\ T2 \in Stack
    BY <1>0, SymbolsIn, OnIs
  <2>3. OursTo(i, Push(Parse("for"), S), S3)
    BY Zenon, <1>0, <2>1, <2>2, OursFor
  <2>4. OursTo(i, S3, Push(Expect("in"), S2))
    BY Zenon, <1>0, <2>1, <2>2, OursForNames
  <2>5. LuaTo(i, Push(Parse("forstat"), T), T3)
    BY Zenon, <1>0, <2>1, <2>2, LuaForstat
  <2>6. LuaTo(i, T3, Push(Expect("in"), T2))
    BY Zenon, <1>0, <2>1, <2>2, LuaForlist
  <2>7. NodeLike(Node("generic_for"))
    BY NodesLike, KindsIn
  <2>8. Fit(Node("generic_for"), Node("generic_for"))
    BY Zenon, <2>7, FitsAre
  <2>9. Alike(Push(Node("generic_for"), S), Push(Node("generic_for"), T))
    BY Zenon, <2>8, <1>0, AlikeRules
  <2>10. JointHere(Push(Node("generic_for"), S), Push(Node("generic_for"), T))
    BY Zenon, <2>9, BaresAre
  <2>11. Joint(Push(Node("generic_for"), S), Push(Node("generic_for"), T))
    BY Zenon, <2>10, JointsAre
  <2>12. Alike(Push(Expect("end"), Push(Node("generic_for"), S)),
             Push(Expect("end"), Push(Node("generic_for"), T)))
    BY Zenon, <2>11, ClosersAre, AlikeRules
  <2>13. Fit(Parse("block"), Parse("statlist"))
    BY Zenon, FitsAre
  <2>14. Alike(S1, T1)
    BY Zenon, <2>13, <2>12, AlikeRules
  <2>15. JointHere(S1, T1)
    BY Zenon, <2>14, BaresAre
  <2>16. Joint(S1, T1)
    BY Zenon, <2>15, JointsAre
  <2>17. Alike(Push(Expect("do"), S1), Push(Expect("do"), T1))
    BY Zenon, <2>16, ClosersAre, AlikeRules
  <2>18. Fit(Parse("more_exprs"), Parse("explist"))
    BY Zenon, FitsAre
  <2>19. Alike(Push(Parse("more_exprs"), Push(Expect("do"), S1)),
             Push(Parse("explist"), Push(Expect("do"), T1)))
    BY Zenon, <2>18, <2>17, AlikeRules
  <2>20. "none" \in LeftOf
    BY <1>0 DEF LeftOf, Climbs
  <2>21. Settles(S2, T2)
    BY Zenon, <2>19, <2>20, ShapesSettle
  <2>22. AgreeOn(i, Push(Expect("in"), S2), Push(Expect("in"), T2))
    BY Zenon, <1>0, <2>1, <2>2, <2>21, EatBoth
  <2>23. AgreeOn(i, S3, Push(Expect("in"), T2))
    BY Zenon, <2>4, <2>22, AgreeOurs
  <2>24. AgreeOn(i, Push(Parse("for"), S), Push(Expect("in"), T2))
    BY Zenon, <2>3, <2>23, AgreeOurs
  <2>25. AgreeOn(i, Push(Parse("for"), S), T3)
    BY Zenon, <2>6, <2>24, AgreeLua
  <2>26. AgreeOn(i, Push(Parse("for"), S), Push(Parse("forstat"), T))
    BY Zenon, <2>5, <2>25, AgreeLua
  <2> QED BY Zenon, <2>26
<1>2. CASE t = Comma
  <2> DEFINE T1 == Push(Parse("statlist"), Push(Expect("end"), Push(Node("generic_for"), T)))
             S1 == Push(Parse("block"), Push(Expect("end"), Push(Node("generic_for"), S)))
             T2 == Push(Parse("subexpr"), Push(Climb("none"),
                       Push(Parse("explist"), Push(Expect("do"), T1))))
             S2 == Push(Parse("unary"), Push(Climb("none"),
                       Push(Parse("more_exprs"), Push(Expect("do"), S1))))
             T3 == Push(Parse("forlist"), Push(Expect("in"), T2))
             S3 == Push(Parse("for_names"), Push(Expect("in"), S2))
             T4 == Push(Expect(Comma), Push(Expect("Name"), T3))
  <2>1. t # "=" /\ t = Comma /\ Comma = Head(i)
    BY <1>0, <1>2, MarksDiffer, WordsHere DEF PlainTokens, Names, Simple, UnaryOps, BlockEnds, Fits
  <2>2. Push(Expect("in"), S2) \in Stack /\ Push(Expect("in"), T2) \in Stack
            /\ Push(Expect("Name"), S3) \in Stack /\ Push(Expect("Name"), T3) \in Stack
    BY <1>0, SymbolsIn, OnIs
  <2>3. OursTo(i, Push(Parse("for"), S), S3)
    BY Zenon, <1>0, <2>1, <2>2, OursFor
  <2>4. OursTo(i, S3, Push(Expect(Comma), Push(Expect("Name"), S3)))
    BY Zenon, <1>0, <2>1, <2>2, OursForNames
  <2>5. LuaTo(i, Push(Parse("forstat"), T), T3)
    BY Zenon, <1>0, <2>1, <2>2, LuaForstat
  <2>6. LuaTo(i, T3, T4)
    BY Zenon, <1>0, <2>1, <2>2, LuaForlist
  <2>7. NodeLike(Node("generic_for"))
    BY NodesLike, KindsIn
  <2>8. Fit(Node("generic_for"), Node("generic_for"))
    BY Zenon, <2>7, FitsAre
  <2>9. Alike(Push(Node("generic_for"), S), Push(Node("generic_for"), T))
    BY Zenon, <2>8, <1>0, AlikeRules
  <2>10. JointHere(Push(Node("generic_for"), S), Push(Node("generic_for"), T))
    BY Zenon, <2>9, BaresAre
  <2>11. Joint(Push(Node("generic_for"), S), Push(Node("generic_for"), T))
    BY Zenon, <2>10, JointsAre
  <2>12. Alike(Push(Expect("end"), Push(Node("generic_for"), S)),
             Push(Expect("end"), Push(Node("generic_for"), T)))
    BY Zenon, <2>11, ClosersAre, AlikeRules
  <2>13. Fit(Parse("block"), Parse("statlist"))
    BY Zenon, FitsAre
  <2>14. Alike(S1, T1)
    BY Zenon, <2>13, <2>12, AlikeRules
  <2>15. JointHere(S1, T1)
    BY Zenon, <2>14, BaresAre
  <2>16. Joint(S1, T1)
    BY Zenon, <2>15, JointsAre
  <2>17. Alike(Push(Expect("do"), S1), Push(Expect("do"), T1))
    BY Zenon, <2>16, ClosersAre, AlikeRules
  <2>18. Fit(Parse("more_exprs"), Parse("explist"))
    BY Zenon, FitsAre
  <2>19. Alike(Push(Parse("more_exprs"), Push(Expect("do"), S1)),
             Push(Parse("explist"), Push(Expect("do"), T1)))
    BY Zenon, <2>18, <2>17, AlikeRules
  <2>20. "none" \in LeftOf
    BY <1>0 DEF LeftOf, Climbs
  <2>21. JointHere(S2, T2)
    BY Zenon, <2>19, <2>20, BaresAre
  <2>22. Joint(S2, T2)
    BY Zenon, <2>21, JointsAre
  <2>23. Alike(Push(Expect("in"), S2), Push(Expect("in"), T2))
    BY Zenon, <2>22, ClosersAre, AlikeRules
  <2>24. Fit(Parse("for_names"), Parse("forlist"))
    BY Zenon, FitsAre
  <2>25. Alike(S3, T3)
    BY Zenon, <2>24, <2>23, AlikeRules
  <2>26. JointHere(S3, T3)
    BY Zenon, <2>25, BaresAre
  <2>27. Joint(S3, T3)
    BY Zenon, <2>26, JointsAre
  <2>28. Alike(Push(Expect("Name"), S3), Push(Expect("Name"), T3))
    BY Zenon, <2>27, ClosersAre, AlikeRules
  <2>29. Settles(Push(Expect("Name"), S3), Push(Expect("Name"), T3))
    BY Zenon, <2>28, AlikeSettles
  <2>30. AgreeOn(i, Push(Expect(Comma), Push(Expect("Name"), S3)), T4)
    BY Zenon, <1>0, <2>1, <2>2, <2>29, EatBoth
  <2>31. AgreeOn(i, S3, T4)
    BY Zenon, <2>4, <2>30, AgreeOurs
  <2>32. AgreeOn(i, Push(Parse("for"), S), T4)
    BY Zenon, <2>3, <2>31, AgreeOurs
  <2>33. AgreeOn(i, Push(Parse("for"), S), T3)
    BY Zenon, <2>6, <2>32, AgreeLua
  <2>34. AgreeOn(i, Push(Parse("for"), S), Push(Parse("forstat"), T))
    BY Zenon, <2>5, <2>33, AgreeLua
  <2> QED BY Zenon, <2>34
<1>3. CASE t = "="
  <2> DEFINE T1 == Push(Parse("statlist"), Push(Expect("end"), Push(Node("numeric_for"), T)))
             S1 == Push(Parse("block"), Push(Expect("end"), Push(Node("numeric_for"), S)))
             T2 == Push(Parse("subexpr"), Push(Climb("none"),
                       Push(Parse("fornum"), Push(Expect("do"), T1))))
             S2 == Push(Parse("unary"), Push(Climb("none"), Push(Parse("step"), Push(Expect("do"), S1))))
             T3 == Push(Parse("subexpr"), Push(Climb("none"), Push(Expect(Comma), T2)))
             S3 == Push(Parse("unary"), Push(Climb("none"), Push(Expect(Comma), S2)))
  <2>1. t = "=" /\ "=" = Head(i)
    BY <1>0, <1>3, MarksDiffer, WordsHere DEF PlainTokens, Names, Simple, UnaryOps, BlockEnds, Fits
  <2>2. S3 \in Stack /\ T3 \in Stack
    BY <1>0, SymbolsIn, OnIs
  <2>3. OursTo(i, Push(Parse("for"), S), Push(Expect("="), S3))
    BY Zenon, <1>0, <2>1, <2>2, OursFor
  <2>4. LuaTo(i, Push(Parse("forstat"), T), Push(Expect("="), T3))
    BY Zenon, <1>0, <2>1, <2>2, LuaForstat
  <2>5. NodeLike(Node("numeric_for"))
    BY NodesLike, KindsIn
  <2>6. Fit(Node("numeric_for"), Node("numeric_for"))
    BY Zenon, <2>5, FitsAre
  <2>7. Alike(Push(Node("numeric_for"), S), Push(Node("numeric_for"), T))
    BY Zenon, <2>6, <1>0, AlikeRules
  <2>8. JointHere(Push(Node("numeric_for"), S), Push(Node("numeric_for"), T))
    BY Zenon, <2>7, BaresAre
  <2>9. Joint(Push(Node("numeric_for"), S), Push(Node("numeric_for"), T))
    BY Zenon, <2>8, JointsAre
  <2>10. Alike(Push(Expect("end"), Push(Node("numeric_for"), S)),
             Push(Expect("end"), Push(Node("numeric_for"), T)))
    BY Zenon, <2>9, ClosersAre, AlikeRules
  <2>11. Fit(Parse("block"), Parse("statlist"))
    BY Zenon, FitsAre
  <2>12. Alike(S1, T1)
    BY Zenon, <2>11, <2>10, AlikeRules
  <2>13. JointHere(S1, T1)
    BY Zenon, <2>12, BaresAre
  <2>14. Joint(S1, T1)
    BY Zenon, <2>13, JointsAre
  <2>15. Alike(Push(Expect("do"), S1), Push(Expect("do"), T1))
    BY Zenon, <2>14, ClosersAre, AlikeRules
  <2>16. Fit(Parse("step"), Parse("fornum"))
    BY Zenon, FitsAre
  <2>17. Alike(Push(Parse("step"), Push(Expect("do"), S1)), Push(Parse("fornum"), Push(Expect("do"), T1)))
    BY Zenon, <2>16, <2>15, AlikeRules
  <2>18. "none" \in LeftOf
    BY <1>0 DEF LeftOf, Climbs
  <2>19. JointHere(S2, T2)
    BY Zenon, <2>17, <2>18, BaresAre
  <2>20. Joint(S2, T2)
    BY Zenon, <2>19, JointsAre
  <2>21. Alike(Push(Expect(Comma), S2), Push(Expect(Comma), T2))
    BY Zenon, <2>20, ClosersAre, AlikeRules
  <2>22. Settles(S3, T3)
    BY Zenon, <2>21, <2>18, ShapesSettle
  <2>23. AgreeOn(i, Push(Expect("="), S3), Push(Expect("="), T3))
    BY Zenon, <1>0, <2>1, <2>2, <2>22, EatBoth
  <2>24. AgreeOn(i, Push(Parse("for"), S), Push(Expect("="), T3))
    BY Zenon, <2>3, <2>23, AgreeOurs
  <2>25. AgreeOn(i, Push(Parse("for"), S), Push(Parse("forstat"), T))
    BY Zenon, <2>4, <2>24, AgreeLua
  <2> QED BY Zenon, <2>25
<1>4. CASE t # "in" /\ t # Comma /\ t # "="
  <2> DEFINE S1 == Push(Parse("unary"),
                       Push(Climb("none"), Push(Parse("more_exprs"),
                       Push(Expect("do"), Push(Parse("block"),
                       Push(Expect("end"), Push(Node("generic_for"), S)))))))
             T1 == Push(Parse("subexpr"), Push(Climb("none"),
                       Push(Parse("explist"),
                       Push(Expect("do"), Push(Parse("statlist"),
                       Push(Expect("end"), Push(Node("generic_for"), T)))))))
             S2 == Push(Parse("for_names"), Push(Expect("in"), S1))
             T2 == Push(Expect("in"), T1)
  <2>1. t # "=" /\ t # Comma /\ ~Fits(Head(i), "in")
    BY <1>0, <1>4, MarksDiffer, WordsHere DEF PlainTokens, Names, Simple, UnaryOps, BlockEnds, Fits
  <2>2. Push(Expect("in"), S1) \in Stack /\ T2 \in Stack /\ S1 \in Stack /\ T1 \in Stack
    BY <1>0, SymbolsIn, OnIs
  <2>3. OursTo(i, Push(Parse("for"), S), S2)
    BY Zenon, <1>0, <2>1, <2>2, OursFor
  <2>4. OursTo(i, S2, Push(Expect("in"), S1))
    BY Zenon, <1>0, <2>1, <2>2, OursForNames
  <2>5. LuaTo(i, Push(Parse("forstat"), T), Push(Parse("forlist"), T2))
    BY Zenon, <1>0, <2>1, <2>2, LuaForstat
  <2>6. LuaTo(i, Push(Parse("forlist"), T2), T2)
    BY Zenon, <1>0, <2>1, <2>2, LuaForlist
  <2>7. OursNo(i, Push(Expect("in"), S1))
    BY Zenon, <1>0, <2>1, <2>2, ClosersIn, WordsHere, OursMismatch
  <2>8. LuaNo(i, T2)
    BY Zenon, <1>0, <2>1, <2>2, ClosersIn, WordsHere, LuaMismatch
  <2>9. AgreeOn(i, Push(Expect("in"), S1), T2)
    BY Zenon, <2>7, <2>8, AgreeNo
  <2>10. AgreeOn(i, S2, T2)
    BY Zenon, <2>4, <2>9, AgreeOurs
  <2>11. AgreeOn(i, Push(Parse("for"), S), T2)
    BY Zenon, <2>3, <2>10, AgreeOurs
  <2>12. AgreeOn(i, Push(Parse("for"), S), Push(Parse("forlist"), T2))
    BY Zenon, <2>6, <2>11, AgreeLua
  <2>13. AgreeOn(i, Push(Parse("for"), S), Push(Parse("forstat"), T))
    BY Zenon, <2>5, <2>12, AgreeLua
  <2> QED BY Zenon, <2>13
<1> QED BY Zenon, <1>1, <1>2, <1>3, <1>4

LEMMA AgreeNamedField ==
    ASSUME NEW i, Input(i), NEW S, NEW T, Alike(S, T), AgreeOn(i, S, T)
    PROVE  AgreeOn(i, Push(Parse("named_field"), S), Push(Parse("recfield"), T))
<1> DEFINE t == Head(i)
<1>0. /\ i \in Tokens55 /\ i # <<>> /\ t = Head(i) /\ t \in TokenKinds /\ t \in Vocabulary /\ t # LineParen
      /\ S \in Stack /\ T \in Stack /\ Input(i)
           /\ Alike(S, T)
      /\ Tail(i) = <<>> /\ AgreeOn(i, S, T)
  BY InputIs, AlikeIn, NoLineParen
<1> HIDE DEF t
<1>1. CASE t = "="
  <2> DEFINE T1 == Push(Parse("subexpr"), Push(Climb("none"), Push(Node("name_key"), T)))
             S1 == Push(Parse("unary"), Push(Climb("none"), Push(Node("name_key"), S)))
  <2>1. t = "=" /\ "=" = Head(i)
    BY <1>0, <1>1, MarksDiffer, WordsHere DEF PlainTokens, Names, Simple, UnaryOps, BlockEnds, Fits
  <2>2. S1 \in Stack /\ T1 \in Stack
    BY <1>0, SymbolsIn, OnIs
  <2>3. OursTo(i, Push(Parse("named_field"), S), Push(Expect("="), S1))
    BY Zenon, <1>0, <2>1, <2>2, OursNamedField
  <2>4. LuaTo(i, Push(Parse("recfield"), T), Push(Expect("="), T1))
    BY Zenon, <1>0, <2>1, <2>2, LuaRecfield
  <2>5. NodeLike(Node("name_key"))
    BY NodesLike, KindsIn
  <2>6. Fit(Node("name_key"), Node("name_key"))
    BY Zenon, <2>5, FitsAre
  <2>7. Alike(Push(Node("name_key"), S), Push(Node("name_key"), T))
    BY Zenon, <2>6, <1>0, AlikeRules
  <2>8. "none" \in LeftOf
    BY <1>0 DEF LeftOf, Climbs
  <2>9. Settles(S1, T1)
    BY Zenon, <2>7, <2>8, ShapesSettle
  <2>10. AgreeOn(i, Push(Expect("="), S1), Push(Expect("="), T1))
    BY Zenon, <1>0, <2>1, <2>2, <2>9, EatBoth
  <2>11. AgreeOn(i, Push(Parse("named_field"), S), Push(Expect("="), T1))
    BY Zenon, <2>3, <2>10, AgreeOurs
  <2>12. AgreeOn(i, Push(Parse("named_field"), S), Push(Parse("recfield"), T))
    BY Zenon, <2>4, <2>11, AgreeLua
  <2> QED BY Zenon, <2>12
<1>2. CASE t # "="
  <2> DEFINE S1 == Push(Climb("none"), Push(Node("positional"), S))
             T1 == Push(Climb("none"), Push(Node("positional"), T))
             T2 == Push(Parse("suffixedexp"), T1)
  <2>1. t # "="
    BY <1>0, <1>2, MarksDiffer, WordsHere DEF PlainTokens, Names, Simple, UnaryOps, BlockEnds, Fits
  <2>2. OursTo(i, Push(Parse("named_field"), S), Push(Node("name"), Push(Parse("suffixes"), S1)))
    BY Zenon, <1>0, <2>1, OursNamedField
  <2>3. LuaTo(i, Push(Parse("recfield"), T), Push(Node("name"), T2))
    BY Zenon, <1>0, <2>1, LuaRecfield
  <2>4. NodeLike(Node("positional"))
    BY NodesLike, KindsIn
  <2>5. S \in Stack /\ T \in Stack
    BY <1>0, SymbolsIn, OnIs
  <2>6. AgreeOn(i, Push(Node("positional"), S), Push(Node("positional"), T))
    BY Zenon, <1>0, <2>4, <2>5, <1>0, AgreeNode
  <2>7. Fit(Node("positional"), Node("positional"))
    BY Zenon, <2>4, FitsAre
  <2>8. Alike(Push(Node("positional"), S), Push(Node("positional"), T))
    BY Zenon, <2>7, <1>0, AlikeRules
  <2>9. "none" \in LeftOf
    BY <1>0 DEF LeftOf, Climbs
  <2>10. AgreeOn(i, S1, T1)
    BY Zenon, <1>0, <2>9, <2>8, <2>6, AgreeClimb
  <2>11. Fit(Climb("none"), Climb("none"))
    BY Zenon, <2>9, FitsAre
  <2>12. Alike(S1, T1)
    BY Zenon, <2>11, <2>8, AlikeRules
  <2>13. AgreeOn(i, Push(Parse("suffixes"), S1), T2)
    BY Zenon, <1>0, <2>12, <2>10, AgreeSuffixes
  <2>14. NodeLike(Node("name"))
    BY NodesLike, KindsIn
  <2>15. Push(Parse("suffixes"), S1) \in Stack /\ T2 \in Stack
    BY <1>0, SymbolsIn, OnIs
  <2>16. AgreeOn(i, Push(Node("name"), Push(Parse("suffixes"), S1)), Push(Node("name"), T2))
    BY Zenon, <1>0, <2>14, <2>15, <2>13, AgreeNode
  <2>17. AgreeOn(i, Push(Parse("named_field"), S), Push(Node("name"), T2))
    BY Zenon, <2>2, <2>16, AgreeOurs
  <2>18. AgreeOn(i, Push(Parse("named_field"), S), Push(Parse("recfield"), T))
    BY Zenon, <2>3, <2>17, AgreeLua
  <2> QED BY Zenon, <2>18
<1> QED BY Zenon, <1>1, <1>2

LEMMA AgreeParams ==
    ASSUME NEW i, Input(i), NEW S, NEW T, Alike(S, T)
    PROVE  AgreeOn(i, Push(Parse("params"), Push(Expect(")"), S)),
               Push(Parse("parlist"), Push(Expect(")"), T)))
<1> DEFINE t == Head(i)
<1>0. /\ i \in Tokens55 /\ i # <<>> /\ t = Head(i) /\ t \in TokenKinds /\ t \in Vocabulary /\ t # LineParen
      /\ S \in Stack /\ T \in Stack /\ Input(i)
           /\ Alike(S, T)
      /\ Tail(i) = <<>>
  BY InputIs, AlikeIn, NoLineParen
<1> HIDE DEF t
<1>1. CASE t = ")"
  <2> DEFINE S1 == Push(Parse("params"), Push(Expect(")"), S))
  <2>1. t = ")" /\ ")" = Head(i)
    BY <1>0, <1>1, MarksDiffer, WordsHere DEF PlainTokens, Names, Simple, UnaryOps, BlockEnds, Fits
  <2>2. Push(Expect(")"), S) \in Stack /\ Push(Expect(")"), T) \in Stack
    BY <1>0, SymbolsIn, OnIs
  <2>3. OursTo(i, S1, Push(Expect(")"), S))
    BY Zenon, <1>0, <2>1, <2>2, OursParams
  <2>4. LuaTo(i, Push(Parse("parlist"), Push(Expect(")"), T)), Push(Expect(")"), T))
    BY Zenon, <1>0, <2>1, <2>2, LuaParlist
  <2>5. Settles(S, T)
    BY Zenon, <1>0, AlikeSettles
  <2>6. AgreeOn(i, Push(Expect(")"), S), Push(Expect(")"), T))
    BY Zenon, <1>0, <2>1, <2>2, <2>5, EatBoth
  <2>7. AgreeOn(i, S1, Push(Expect(")"), T))
    BY Zenon, <2>3, <2>6, AgreeOurs
  <2>8. AgreeOn(i, S1, Push(Parse("parlist"), Push(Expect(")"), T)))
    BY Zenon, <2>4, <2>7, AgreeLua
  <2> QED BY Zenon, <2>8
<1>2. CASE t \in Names
  <2> DEFINE T1 == Push(Node("param"), Push(Parse("morepars"), Push(Expect(")"), T)))
             S1 == Push(Node("param"), Push(Parse("more_params"), Push(Expect(")"), S)))
             S2 == Push(Parse("params"), Push(Expect(")"), S))
             T2 == Push(Parse("parameter"), Push(Expect(")"), T))
             S3 == Push(Parse("param"), Push(Expect(")"), S))
  <2>1. t # ")" /\ t # "..." /\ Head(i) \in Names
    BY <1>0, <1>2, MarksDiffer, WordsHere DEF PlainTokens, Names, Simple, UnaryOps, BlockEnds, Fits
  <2>2. Push(Expect(")"), S) \in Stack /\ Push(Expect(")"), T) \in Stack /\ S1 \in Stack /\ T1 \in Stack
    BY <1>0, SymbolsIn, OnIs
  <2>3. OursTo(i, S2, S3)
    BY Zenon, <1>0, <2>1, <2>2, OursParams
  <2>4. OursTo(i, S3, Push(Expect("Name"), S1))
    BY Zenon, <1>0, <2>1, <2>2, OursParam
  <2>5. LuaTo(i, Push(Parse("parlist"), Push(Expect(")"), T)), T2)
    BY Zenon, <1>0, <2>1, <2>2, LuaParlist
  <2>6. LuaTo(i, T2, Push(Expect("Name"), T1))
    BY Zenon, <1>0, <2>1, <2>2, LuaParameter
  <2>7. Alike(Push(Parse("more_params"), Push(Expect(")"), S)),
            Push(Parse("morepars"), Push(Expect(")"), T)))
    BY Zenon, <1>0, AlikeRules
  <2>8. NodeLike(Node("param"))
    BY NodesLike, KindsIn
  <2>9. Fit(Node("param"), Node("param"))
    BY Zenon, <2>8, FitsAre
  <2>10. Alike(S1, T1)
    BY Zenon, <2>9, <2>7, AlikeRules
  <2>11. Settles(S1, T1)
    BY Zenon, <2>10, AlikeSettles
  <2>12. AgreeOn(i, Push(Expect("Name"), S1), Push(Expect("Name"), T1))
    BY Zenon, <1>0, <2>1, <2>2, <2>11, EatName
  <2>13. AgreeOn(i, S3, Push(Expect("Name"), T1))
    BY Zenon, <2>4, <2>12, AgreeOurs
  <2>14. AgreeOn(i, S2, Push(Expect("Name"), T1))
    BY Zenon, <2>3, <2>13, AgreeOurs
  <2>15. AgreeOn(i, S2, T2)
    BY Zenon, <2>6, <2>14, AgreeLua
  <2>16. AgreeOn(i, S2, Push(Parse("parlist"), Push(Expect(")"), T)))
    BY Zenon, <2>5, <2>15, AgreeLua
  <2> QED BY Zenon, <2>16
<1>3. CASE t = "..."
  <2> DEFINE S1 == Push(Node("is_vararg"), Push(Expect(")"), S))
             S2 == Push(Parse("params"), Push(Expect(")"), S))
             T1 == Push(Parse("vararg_name"), Push(Expect(")"), T))
             T2 == Push(Parse("parameter"), Push(Expect(")"), T))
             S3 == Push(Parse("param"), Push(Expect(")"), S))
             T3 == Push(Node("is_vararg"), T1)
  <2>1. t # ")" /\ t = "..." /\ "..." = Head(i)
    BY <1>0, <1>3, MarksDiffer, WordsHere DEF PlainTokens, Names, Simple, UnaryOps, BlockEnds, Fits
  <2>2. Push(Expect(")"), S) \in Stack /\ Push(Expect(")"), T) \in Stack /\ S1 \in Stack /\ T3 \in Stack
    BY <1>0, SymbolsIn, OnIs
  <2>3. OursTo(i, S2, S3)
    BY Zenon, <1>0, <2>1, <2>2, OursParams
  <2>4. OursTo(i, S3, Push(Expect("..."), S1))
    BY Zenon, <1>0, <2>1, <2>2, OursParam
  <2>5. LuaTo(i, Push(Parse("parlist"), Push(Expect(")"), T)), T2)
    BY Zenon, <1>0, <2>1, <2>2, LuaParlist
  <2>6. LuaTo(i, T2, Push(Expect("..."), T3))
    BY Zenon, <1>0, <2>1, <2>2, LuaParameter
  <2>7. Settles(Push(Expect(")"), S), T1)
    BY Zenon, <1>0, ShapesSettle
  <2>8. NodeLike(Node("is_vararg"))
    BY NodesLike, KindsIn
  <2>9. Push(Expect(")"), S) \in Stack /\ T1 \in Stack
    BY <1>0, SymbolsIn, OnIs
  <2>10. Settles(S1, T3)
    BY Zenon, <2>7, <2>8, <2>9, SettleNode
  <2>11. AgreeOn(i, Push(Expect("..."), S1), Push(Expect("..."), T3))
    BY Zenon, <1>0, <2>1, <2>2, <2>10, EatBoth
  <2>12. AgreeOn(i, S3, Push(Expect("..."), T3))
    BY Zenon, <2>4, <2>11, AgreeOurs
  <2>13. AgreeOn(i, S2, Push(Expect("..."), T3))
    BY Zenon, <2>3, <2>12, AgreeOurs
  <2>14. AgreeOn(i, S2, T2)
    BY Zenon, <2>6, <2>13, AgreeLua
  <2>15. AgreeOn(i, S2, Push(Parse("parlist"), Push(Expect(")"), T)))
    BY Zenon, <2>5, <2>14, AgreeLua
  <2> QED BY Zenon, <2>15
<1>4. CASE t # ")" /\ t \notin Names /\ t # "..."
  <2> DEFINE S1 == Push(Node("param"), Push(Parse("more_params"), Push(Expect(")"), S)))
             S2 == Push(Parse("params"), Push(Expect(")"), S))
             T1 == Push(Parse("parameter"), Push(Expect(")"), T))
             S3 == Push(Parse("param"), Push(Expect(")"), S))
             T2 == Push(Node("param"), Push(Parse("morepars"), Push(Expect(")"), T)))
             T3 == Push(Expect("Name"), T2)
  <2>1. t # ")" /\ t # "..." /\ ~Fits(Head(i), "Name")
    BY <1>0, <1>4, MarksDiffer, WordsHere DEF PlainTokens, Names, Simple, UnaryOps, BlockEnds, Fits
  <2>2. Push(Expect(")"), S) \in Stack /\ Push(Expect(")"), T) \in Stack /\ S1 \in Stack /\ T2 \in Stack
    BY <1>0, SymbolsIn, OnIs
  <2>3. OursTo(i, S2, S3)
    BY Zenon, <1>0, <2>1, <2>2, OursParams
  <2>4. OursTo(i, S3, Push(Expect("Name"), S1))
    BY Zenon, <1>0, <2>1, <2>2, OursParam
  <2>5. LuaTo(i, Push(Parse("parlist"), Push(Expect(")"), T)), T1)
    BY Zenon, <1>0, <2>1, <2>2, LuaParlist
  <2>6. LuaTo(i, T1, T3)
    BY Zenon, <1>0, <2>1, <2>2, LuaParameter
  <2>7. OursNo(i, Push(Expect("Name"), S1))
    BY Zenon, <1>0, <2>1, <2>2, ClosersIn, WordsHere, OursMismatch
  <2>8. LuaNo(i, T3)
    BY Zenon, <1>0, <2>1, <2>2, ClosersIn, WordsHere, LuaMismatch
  <2>9. AgreeOn(i, Push(Expect("Name"), S1), T3)
    BY Zenon, <2>7, <2>8, AgreeNo
  <2>10. AgreeOn(i, S3, T3)
    BY Zenon, <2>4, <2>9, AgreeOurs
  <2>11. AgreeOn(i, S2, T3)
    BY Zenon, <2>3, <2>10, AgreeOurs
  <2>12. AgreeOn(i, S2, T1)
    BY Zenon, <2>6, <2>11, AgreeLua
  <2>13. AgreeOn(i, S2, Push(Parse("parlist"), Push(Expect(")"), T)))
    BY Zenon, <2>5, <2>12, AgreeLua
  <2> QED BY Zenon, <2>13
<1> QED BY Zenon, <1>1, <1>2, <1>3, <1>4

LEMMA AgreeParam ==
    ASSUME NEW i, Input(i), NEW S, NEW T, Alike(S, T)
    PROVE  AgreeOn(i, Push(Parse("param"), Push(Expect(")"), S)),
               Push(Parse("parameter"), Push(Expect(")"), T)))
<1> DEFINE t == Head(i)
<1>0. /\ i \in Tokens55 /\ i # <<>> /\ t = Head(i) /\ t \in TokenKinds /\ t \in Vocabulary /\ t # LineParen
      /\ S \in Stack /\ T \in Stack /\ Input(i)
           /\ Alike(S, T)
      /\ Tail(i) = <<>>
  BY InputIs, AlikeIn, NoLineParen
<1> HIDE DEF t
<1>1. CASE t \in Names
  <2> DEFINE T1 == Push(Node("param"), Push(Parse("morepars"), Push(Expect(")"), T)))
             S1 == Push(Node("param"), Push(Parse("more_params"), Push(Expect(")"), S)))
             S2 == Push(Parse("param"), Push(Expect(")"), S))
  <2>1. t # "..." /\ Head(i) \in Names
    BY <1>0, <1>1, MarksDiffer, WordsHere DEF PlainTokens, Names, Simple, UnaryOps, BlockEnds, Fits
  <2>2. Push(Expect(")"), S) \in Stack /\ Push(Expect(")"), T) \in Stack /\ S1 \in Stack /\ T1 \in Stack
    BY <1>0, SymbolsIn, OnIs
  <2>3. OursTo(i, S2, Push(Expect("Name"), S1))
    BY Zenon, <1>0, <2>1, <2>2, OursParam
  <2>4. LuaTo(i, Push(Parse("parameter"), Push(Expect(")"), T)), Push(Expect("Name"), T1))
    BY Zenon, <1>0, <2>1, <2>2, LuaParameter
  <2>5. Alike(Push(Parse("more_params"), Push(Expect(")"), S)),
            Push(Parse("morepars"), Push(Expect(")"), T)))
    BY Zenon, <1>0, AlikeRules
  <2>6. NodeLike(Node("param"))
    BY NodesLike, KindsIn
  <2>7. Fit(Node("param"), Node("param"))
    BY Zenon, <2>6, FitsAre
  <2>8. Alike(S1, T1)
    BY Zenon, <2>7, <2>5, AlikeRules
  <2>9. Settles(S1, T1)
    BY Zenon, <2>8, AlikeSettles
  <2>10. AgreeOn(i, Push(Expect("Name"), S1), Push(Expect("Name"), T1))
    BY Zenon, <1>0, <2>1, <2>2, <2>9, EatName
  <2>11. AgreeOn(i, S2, Push(Expect("Name"), T1))
    BY Zenon, <2>3, <2>10, AgreeOurs
  <2>12. AgreeOn(i, S2, Push(Parse("parameter"), Push(Expect(")"), T)))
    BY Zenon, <2>4, <2>11, AgreeLua
  <2> QED BY Zenon, <2>12
<1>2. CASE t = "..."
  <2> DEFINE S1 == Push(Node("is_vararg"), Push(Expect(")"), S))
             T1 == Push(Parse("vararg_name"), Push(Expect(")"), T))
             S2 == Push(Parse("param"), Push(Expect(")"), S))
             T2 == Push(Node("is_vararg"), T1)
  <2>1. t = "..." /\ "..." = Head(i)
    BY <1>0, <1>2, MarksDiffer, WordsHere DEF PlainTokens, Names, Simple, UnaryOps, BlockEnds, Fits
  <2>2. Push(Expect(")"), S) \in Stack /\ Push(Expect(")"), T) \in Stack /\ S1 \in Stack /\ T2 \in Stack
    BY <1>0, SymbolsIn, OnIs
  <2>3. OursTo(i, S2, Push(Expect("..."), S1))
    BY Zenon, <1>0, <2>1, <2>2, OursParam
  <2>4. LuaTo(i, Push(Parse("parameter"), Push(Expect(")"), T)), Push(Expect("..."), T2))
    BY Zenon, <1>0, <2>1, <2>2, LuaParameter
  <2>5. Settles(Push(Expect(")"), S), T1)
    BY Zenon, <1>0, ShapesSettle
  <2>6. NodeLike(Node("is_vararg"))
    BY NodesLike, KindsIn
  <2>7. Push(Expect(")"), S) \in Stack /\ T1 \in Stack
    BY <1>0, SymbolsIn, OnIs
  <2>8. Settles(S1, T2)
    BY Zenon, <2>5, <2>6, <2>7, SettleNode
  <2>9. AgreeOn(i, Push(Expect("..."), S1), Push(Expect("..."), T2))
    BY Zenon, <1>0, <2>1, <2>2, <2>8, EatBoth
  <2>10. AgreeOn(i, S2, Push(Expect("..."), T2))
    BY Zenon, <2>3, <2>9, AgreeOurs
  <2>11. AgreeOn(i, S2, Push(Parse("parameter"), Push(Expect(")"), T)))
    BY Zenon, <2>4, <2>10, AgreeLua
  <2> QED BY Zenon, <2>11
<1>3. CASE t \notin Names /\ t # "..."
  <2> DEFINE S1 == Push(Node("param"), Push(Parse("more_params"), Push(Expect(")"), S)))
             S2 == Push(Parse("param"), Push(Expect(")"), S))
             T1 == Push(Node("param"), Push(Parse("morepars"), Push(Expect(")"), T)))
             T2 == Push(Expect("Name"), T1)
  <2>1. t # "..." /\ ~Fits(Head(i), "Name")
    BY <1>0, <1>3, MarksDiffer, WordsHere DEF PlainTokens, Names, Simple, UnaryOps, BlockEnds, Fits
  <2>2. Push(Expect(")"), S) \in Stack /\ Push(Expect(")"), T) \in Stack /\ S1 \in Stack /\ T1 \in Stack
    BY <1>0, SymbolsIn, OnIs
  <2>3. OursTo(i, S2, Push(Expect("Name"), S1))
    BY Zenon, <1>0, <2>1, <2>2, OursParam
  <2>4. LuaTo(i, Push(Parse("parameter"), Push(Expect(")"), T)), T2)
    BY Zenon, <1>0, <2>1, <2>2, LuaParameter
  <2>5. OursNo(i, Push(Expect("Name"), S1))
    BY Zenon, <1>0, <2>1, <2>2, ClosersIn, WordsHere, OursMismatch
  <2>6. LuaNo(i, T2)
    BY Zenon, <1>0, <2>1, <2>2, ClosersIn, WordsHere, LuaMismatch
  <2>7. AgreeOn(i, Push(Expect("Name"), S1), T2)
    BY Zenon, <2>5, <2>6, AgreeNo
  <2>8. AgreeOn(i, S2, T2)
    BY Zenon, <2>3, <2>7, AgreeOurs
  <2>9. AgreeOn(i, S2, Push(Parse("parameter"), Push(Expect(")"), T)))
    BY Zenon, <2>4, <2>8, AgreeLua
  <2> QED BY Zenon, <2>9
<1> QED BY Zenon, <1>1, <1>2, <1>3

LEMMA AgreeCallArgs ==
    ASSUME NEW i, Input(i), NEW S, NEW T, Alike(S, T)
    PROVE  AgreeOn(i, Push(Parse("call_args"), Push(Node("method_call"), Push(Parse("suffixes"), S))),
               Push(Parse("funcargs"), Push(Node("method_call"), Push(Parse("suffixedexp"), T))))
<1> DEFINE t == Head(i)
<1>0. /\ i \in Tokens55 /\ i # <<>> /\ t = Head(i) /\ t \in TokenKinds /\ t \in Vocabulary /\ t # LineParen
      /\ S \in Stack /\ T \in Stack /\ Input(i)
           /\ Alike(S, T)
      /\ Tail(i) = <<>>
  BY InputIs, AlikeIn, NoLineParen
<1> HIDE DEF t
<1>1. CASE t = "("
  <2> DEFINE T1 == Push(Node("method_call"), Push(Parse("suffixedexp"), T))
             S1 == Push(Node("method_call"), Push(Parse("suffixes"), S))
             T2 == Push(Parse("args"), Push(Expect(")"), T1))
             S2 == Push(Parse("args"), Push(Expect(")"), S1))
  <2>1. t = "(" /\ (t = "(" \/ t = LineParen) /\ "(" = Head(i)
    BY <1>0, <1>1, MarksDiffer, WordsHere DEF PlainTokens, Names, Simple, UnaryOps, BlockEnds, Fits
  <2>2. S1 \in Stack /\ T1 \in Stack /\ S2 \in Stack /\ T2 \in Stack
    BY <1>0, SymbolsIn, OnIs
  <2>3. OursTo(i, Push(Parse("call_args"), S1), Push(Expect("("), S2))
    BY Zenon, <1>0, <2>1, <2>2, OursCallArgs
  <2>4. LuaTo(i, Push(Parse("funcargs"), T1), Push(Expect("("), T2))
    BY Zenon, <1>0, <2>1, <2>2, LuaFuncargs
  <2>5. JointHere(Push(Parse("suffixes"), S), Push(Parse("suffixedexp"), T))
    BY Zenon, <1>0, BaresAre
  <2>6. NodeLike(Node("method_call"))
    BY NodesLike, KindsIn
  <2>7. Joint(S1, T1)
    BY Zenon, <2>5, <2>6, JointsAre
  <2>8. Alike(Push(Expect(")"), S1), Push(Expect(")"), T1))
    BY Zenon, <2>7, ClosersAre, AlikeRules
  <2>9. Settles(S2, T2)
    BY Zenon, <2>8, ShapesSettle
  <2>10. AgreeOn(i, Push(Expect("("), S2), Push(Expect("("), T2))
    BY Zenon, <1>0, <2>1, <2>2, <2>9, EatBoth
  <2>11. AgreeOn(i, Push(Parse("call_args"), S1), Push(Expect("("), T2))
    BY Zenon, <2>3, <2>10, AgreeOurs
  <2>12. AgreeOn(i, Push(Parse("call_args"), S1), Push(Parse("funcargs"), T1))
    BY Zenon, <2>4, <2>11, AgreeLua
  <2> QED BY Zenon, <2>12
<1>2. CASE t = OpenBrace
  <2> DEFINE S1 == Push(Node("method_call"), Push(Parse("suffixes"), S))
             T1 == Push(Node("method_call"), Push(Parse("suffixedexp"), T))
             S2 == Push(Parse("fields"), Push(Expect(CloseBrace), Push(Node("table"), S1)))
             T2 == Push(Parse("constructor"), Push(Expect(CloseBrace), Push(Node("table"), T1)))
  <2>1. t = OpenBrace /\ OpenBrace = Head(i)
    BY <1>0, <1>2, MarksDiffer, WordsHere DEF PlainTokens, Names, Simple, UnaryOps, BlockEnds, Fits
  <2>2. S1 \in Stack /\ T1 \in Stack /\ S2 \in Stack /\ T2 \in Stack
    BY <1>0, SymbolsIn, OnIs
  <2>3. OursTo(i, Push(Parse("call_args"), S1), Push(Expect(OpenBrace), S2))
    BY Zenon, <1>0, <2>1, <2>2, OursCallArgs
  <2>4. LuaTo(i, Push(Parse("funcargs"), T1), Push(Expect(OpenBrace), T2))
    BY Zenon, <1>0, <2>1, <2>2, LuaFuncargs
  <2>5. JointHere(Push(Parse("suffixes"), S), Push(Parse("suffixedexp"), T))
    BY Zenon, <1>0, BaresAre
  <2>6. NodeLike(Node("table"))
    BY NodesLike, KindsIn
  <2>7. NodeLike(Node("method_call"))
    BY NodesLike, KindsIn
  <2>8. Joint(Push(Node("table"), S1), Push(Node("table"), T1))
    BY Zenon, <2>5, <2>6, <2>7, JointsAre
  <2>9. Alike(Push(Expect(CloseBrace), Push(Node("table"), S1)),
            Push(Expect(CloseBrace), Push(Node("table"), T1)))
    BY Zenon, <2>8, ClosersAre, AlikeRules
  <2>10. Settles(S2, T2)
    BY Zenon, <2>9, ShapesSettle
  <2>11. AgreeOn(i, Push(Expect(OpenBrace), S2), Push(Expect(OpenBrace), T2))
    BY Zenon, <1>0, <2>1, <2>2, <2>10, EatBoth
  <2>12. AgreeOn(i, Push(Parse("call_args"), S1), Push(Expect(OpenBrace), T2))
    BY Zenon, <2>3, <2>11, AgreeOurs
  <2>13. AgreeOn(i, Push(Parse("call_args"), S1), Push(Parse("funcargs"), T1))
    BY Zenon, <2>4, <2>12, AgreeLua
  <2> QED BY Zenon, <2>13
<1>3. CASE t = "String"
  <2> DEFINE T1 == Push(Node("method_call"), Push(Parse("suffixedexp"), T))
             S1 == Push(Node("method_call"), Push(Parse("suffixes"), S))
             T2 == Push(Expect("String"), Push(Node("String"), T1))
  <2>1. t = "String" /\ "String" = Head(i)
    BY <1>0, <1>3, MarksDiffer, WordsHere DEF PlainTokens, Names, Simple, UnaryOps, BlockEnds, Fits
  <2>2. S1 \in Stack /\ T1 \in Stack /\ Push(Node("String"), S1) \in Stack
            /\ Push(Node("String"), T1) \in Stack
    BY <1>0, SymbolsIn, WordSymbols, LeafIn, OnIs
  <2>3. OursTo(i, Push(Parse("call_args"), S1), Push(Expect("String"), Push(Node("String"), S1)))
    BY Zenon, <1>0, <2>1, <2>2, OursCallArgs
  <2>4. LuaTo(i, Push(Parse("funcargs"), T1), T2)
    BY Zenon, <1>0, <2>1, <2>2, LuaFuncargs
  <2>5. Settles(Push(Parse("suffixes"), S), Push(Parse("suffixedexp"), T))
    BY Zenon, <1>0, ShapesSettle
  <2>6. NodeLike(Node("method_call"))
    BY NodesLike, KindsIn
  <2>7. Push(Parse("suffixes"), S) \in Stack /\ Push(Parse("suffixedexp"), T) \in Stack
    BY <1>0, SymbolsIn, OnIs
  <2>8. Settles(S1, T1)
    BY Zenon, <2>5, <2>6, <2>7, SettleNode
  <2>9. NodeLike(Node("String"))
    BY NodesLike, KindsIn
  <2>10. S1 \in Stack /\ T1 \in Stack
    BY <1>0, SymbolsIn, OnIs
  <2>11. Settles(Push(Node("String"), S1), Push(Node("String"), T1))
    BY Zenon, <2>8, <2>9, <2>10, SettleNode
  <2>12. AgreeOn(i, Push(Expect("String"), Push(Node("String"), S1)), T2)
    BY Zenon, <1>0, <2>1, <2>2, <2>11, EatBoth
  <2>13. AgreeOn(i, Push(Parse("call_args"), S1), T2)
    BY Zenon, <2>3, <2>12, AgreeOurs
  <2>14. AgreeOn(i, Push(Parse("call_args"), S1), Push(Parse("funcargs"), T1))
    BY Zenon, <2>4, <2>13, AgreeLua
  <2> QED BY Zenon, <2>14
<1>4. CASE t # "(" /\ t # OpenBrace /\ t # "String"
  <2> DEFINE T1 == Push(Node("method_call"), Push(Parse("suffixedexp"), T))
             S1 == Push(Node("method_call"), Push(Parse("suffixes"), S))
  <2>1. (t # "(" /\ t # "String" /\ t # OpenBrace)
            /\ (t # "(" /\ t # "String" /\ t # OpenBrace /\ t # LineParen)
    BY <1>0, <1>4, MarksDiffer, WordsHere DEF PlainTokens, Names, Simple, UnaryOps, BlockEnds, Fits
  <2>2. S1 \in Stack /\ T1 \in Stack
    BY <1>0, SymbolsIn, OnIs
  <2>3. OursNo(i, Push(Parse("call_args"), S1))
    BY Zenon, <1>0, <2>1, <2>2, OursCallArgs
  <2>4. LuaNo(i, Push(Parse("funcargs"), T1))
    BY Zenon, <1>0, <2>1, <2>2, LuaFuncargs
  <2>5. AgreeOn(i, Push(Parse("call_args"), S1), Push(Parse("funcargs"), T1))
    BY Zenon, <2>3, <2>4, AgreeNo
  <2> QED BY Zenon, <2>5
<1> QED BY Zenon, <1>1, <1>2, <1>3, <1>4

LEMMA AgreeMoreParams ==
    ASSUME NEW i, Input(i), NEW S, NEW T, Alike(S, T)
    PROVE  AgreeOn(i, Push(Parse("more_params"), Push(Expect(")"), S)),
               Push(Parse("morepars"), Push(Expect(")"), T)))
<1> DEFINE t == Head(i)
<1>0. /\ i \in Tokens55 /\ i # <<>> /\ t = Head(i) /\ t \in TokenKinds /\ t \in Vocabulary /\ t # LineParen
      /\ S \in Stack /\ T \in Stack /\ Input(i)
           /\ Alike(S, T)
      /\ Tail(i) = <<>>
  BY InputIs, AlikeIn, NoLineParen
<1> HIDE DEF t
<1>1. CASE t = ")"
  <2> DEFINE S1 == Push(Parse("more_params"), Push(Expect(")"), S))
  <2>1. t # Comma /\ ")" = Head(i)
    BY <1>0, <1>1, MarksDiffer, WordsHere DEF PlainTokens, Names, Simple, UnaryOps, BlockEnds, Fits
  <2>2. Push(Expect(")"), S) \in Stack /\ Push(Expect(")"), T) \in Stack
    BY <1>0, SymbolsIn, OnIs
  <2>3. OursTo(i, S1, Push(Expect(")"), S))
    BY Zenon, <1>0, <2>1, <2>2, OursMoreParams
  <2>4. LuaTo(i, Push(Parse("morepars"), Push(Expect(")"), T)), Push(Expect(")"), T))
    BY Zenon, <1>0, <2>1, <2>2, LuaMorepars
  <2>5. Settles(S, T)
    BY Zenon, <1>0, AlikeSettles
  <2>6. AgreeOn(i, Push(Expect(")"), S), Push(Expect(")"), T))
    BY Zenon, <1>0, <2>1, <2>2, <2>5, EatBoth
  <2>7. AgreeOn(i, S1, Push(Expect(")"), T))
    BY Zenon, <2>3, <2>6, AgreeOurs
  <2>8. AgreeOn(i, S1, Push(Parse("morepars"), Push(Expect(")"), T)))
    BY Zenon, <2>4, <2>7, AgreeLua
  <2> QED BY Zenon, <2>8
<1>2. CASE t = Comma
  <2> DEFINE T1 == Push(Parse("parameter"), Push(Expect(")"), T))
             S1 == Push(Parse("param"), Push(Expect(")"), S))
             S2 == Push(Parse("more_params"), Push(Expect(")"), S))
  <2>1. t = Comma /\ Comma = Head(i)
    BY <1>0, <1>2, MarksDiffer, WordsHere DEF PlainTokens, Names, Simple, UnaryOps, BlockEnds, Fits
  <2>2. Push(Expect(")"), S) \in Stack /\ Push(Expect(")"), T) \in Stack /\ S1 \in Stack /\ T1 \in Stack
    BY <1>0, SymbolsIn, OnIs
  <2>3. OursTo(i, S2, Push(Expect(Comma), S1))
    BY Zenon, <1>0, <2>1, <2>2, OursMoreParams
  <2>4. LuaTo(i, Push(Parse("morepars"), Push(Expect(")"), T)), Push(Expect(Comma), T1))
    BY Zenon, <1>0, <2>1, <2>2, LuaMorepars
  <2>5. Settles(S1, T1)
    BY Zenon, <1>0, ShapesSettle
  <2>6. AgreeOn(i, Push(Expect(Comma), S1), Push(Expect(Comma), T1))
    BY Zenon, <1>0, <2>1, <2>2, <2>5, EatBoth
  <2>7. AgreeOn(i, S2, Push(Expect(Comma), T1))
    BY Zenon, <2>3, <2>6, AgreeOurs
  <2>8. AgreeOn(i, S2, Push(Parse("morepars"), Push(Expect(")"), T)))
    BY Zenon, <2>4, <2>7, AgreeLua
  <2> QED BY Zenon, <2>8
<1>3. CASE t # ")" /\ t # Comma
  <2> DEFINE S1 == Push(Parse("more_params"), Push(Expect(")"), S))
  <2>1. t # Comma /\ ~Fits(Head(i), ")")
    BY <1>0, <1>3, MarksDiffer, WordsHere DEF PlainTokens, Names, Simple, UnaryOps, BlockEnds, Fits
  <2>2. Push(Expect(")"), S) \in Stack /\ Push(Expect(")"), T) \in Stack
    BY <1>0, SymbolsIn, OnIs
  <2>3. OursTo(i, S1, Push(Expect(")"), S))
    BY Zenon, <1>0, <2>1, <2>2, OursMoreParams
  <2>4. LuaTo(i, Push(Parse("morepars"), Push(Expect(")"), T)), Push(Expect(")"), T))
    BY Zenon, <1>0, <2>1, <2>2, LuaMorepars
  <2>5. OursNo(i, Push(Expect(")"), S))
    BY Zenon, <1>0, <2>1, <2>2, ClosersIn, WordsHere, OursMismatch
  <2>6. LuaNo(i, Push(Expect(")"), T))
    BY Zenon, <1>0, <2>1, <2>2, ClosersIn, WordsHere, LuaMismatch
  <2>7. AgreeOn(i, Push(Expect(")"), S), Push(Expect(")"), T))
    BY Zenon, <2>5, <2>6, AgreeNo
  <2>8. AgreeOn(i, S1, Push(Expect(")"), T))
    BY Zenon, <2>3, <2>7, AgreeOurs
  <2>9. AgreeOn(i, S1, Push(Parse("morepars"), Push(Expect(")"), T)))
    BY Zenon, <2>4, <2>8, AgreeLua
  <2> QED BY Zenon, <2>9
<1> QED BY Zenon, <1>1, <1>2, <1>3

LEMMA AgreeOpening ==
    ASSUME NEW i, Input(i), NEW S, NEW T, Alike(S, T)
    PROVE  AgreeOn(i, Push(Expect("("), Push(Parse("params"), Push(Expect(")"), S))),
               Push(Expect("("), Push(Parse("parlist"), Push(Expect(")"), T))))
<1> DEFINE t == Head(i)
<1>0. /\ i \in Tokens55 /\ i # <<>> /\ t = Head(i) /\ t \in TokenKinds /\ t \in Vocabulary /\ t # LineParen
      /\ S \in Stack /\ T \in Stack /\ Input(i)
           /\ Alike(S, T)
      /\ Tail(i) = <<>>
  BY InputIs, AlikeIn, NoLineParen
<1> HIDE DEF t
<1>1. CASE t = "("
  <2> DEFINE T1 == Push(Parse("parlist"), Push(Expect(")"), T))
             S1 == Push(Parse("params"), Push(Expect(")"), S))
  <2>1. "(" = Head(i)
    BY <1>0, <1>1, MarksDiffer, WordsHere DEF PlainTokens, Names, Simple, UnaryOps, BlockEnds, Fits
  <2>2. S1 \in Stack /\ T1 \in Stack
    BY <1>0, SymbolsIn, OnIs
  <2>3. Settles(S1, T1)
    BY Zenon, <1>0, ShapesSettle
  <2>4. AgreeOn(i, Push(Expect("("), S1), Push(Expect("("), T1))
    BY Zenon, <1>0, <2>1, <2>2, <2>3, EatBoth
  <2> QED BY Zenon, <2>4
<1>2. CASE t # "("
  <2> DEFINE T1 == Push(Parse("parlist"), Push(Expect(")"), T))
             S1 == Push(Parse("params"), Push(Expect(")"), S))
  <2>1. ~Fits(Head(i), "(")
    BY <1>0, <1>2, MarksDiffer, WordsHere DEF PlainTokens, Names, Simple, UnaryOps, BlockEnds, Fits
  <2>2. S1 \in Stack /\ T1 \in Stack
    BY <1>0, SymbolsIn, OnIs
  <2>3. OursNo(i, Push(Expect("("), S1))
    BY Zenon, <1>0, <2>1, <2>2, ClosersIn, WordsHere, OursMismatch
  <2>4. LuaNo(i, Push(Expect("("), T1))
    BY Zenon, <1>0, <2>1, <2>2, ClosersIn, WordsHere, LuaMismatch
  <2>5. AgreeOn(i, Push(Expect("("), S1), Push(Expect("("), T1))
    BY Zenon, <2>3, <2>4, AgreeNo
  <2> QED BY Zenon, <2>5
<1> QED BY Zenon, <1>1, <1>2

=============================================================================
