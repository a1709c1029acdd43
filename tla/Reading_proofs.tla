--------------------------- MODULE Reading_proofs ---------------------------
(***************************************************************************)
(* What is read from a source: for texts of any length and nesting, and any *)
(* set of lexemes, valua refuses nothing that Lua 5.5 accepts, accepts     *)
(* nothing that it refuses, and builds the tree that Lua builds, but for the *)
(* constructs that are listed.  The invariant, Standing, says what the two *)
(* readers are to each other at every moment.                              *)
(***************************************************************************)
EXTENDS Agreement_proofs
LOCAL INSTANCE SequencesExt

(* Statements.                                                             *)
(* After `global` either side takes the word for a name, or Lua alone for  *)
(* the start of a declaration.                                             *)
LEMMA GlobalSettles ==
    \A S, T : Alike(S, T) =>
        Settles(Push(Node("name"), Push(Parse("suffixes"), Push(Parse("assign_or_call"), S))),
            Push(Node("name"), Push(Parse("globalstat"), T)))
<1> SUFFICES ASSUME NEW S, NEW T, Alike(S, T), NEW c, NEW r, NEW q, Near(c, r, q)
             PROVE  Settled(c, ReadOurs(<<>>,
                        Push(Node("name"), Push(Parse("suffixes"), Push(Parse("assign_or_call"), S))), r),
                               ReadLua(<<>>, Push(Node("name"), Push(Parse("globalstat"), T)), q))
  BY DEF Settles
<1> DEFINE n == Node("name")
           X == Push(Parse("assign_or_call"), S)
           A == Push(Parse("suffixes"), X)
           B == Push(Parse("globalstat"), T)
<1>1. S \in Stack /\ T \in Stack /\ r \in Regs /\ q \in Regs
  BY AlikeIn, NearIn
<1>2. X \in Stack /\ A \in Stack /\ B \in Stack
  BY <1>1, SymbolsIn, OnIs
<1>3. NodeLike(n) /\ n \in Symbols /\ n[2] = "name"
  BY NodesLike, KindsIn, SymbolsIn DEF Node
<1>4. A # <<>> /\ Head(A) = Parse("suffixes") /\ B # <<>> /\ Head(B) = Parse("globalstat")
  BY <1>1, <1>2, SymbolsIn, PushIs
<1>5. Meet(A, B)
  <2>1. Global(A, B)
    BY Zenon DEF Global
  <2>2. Reads(Head(A)) /\ Reads(Head(B))
    BY <1>4 DEF Reads, Parse
  <2> HIDE DEF A, B
  <2> QED BY <1>4, <2>1, <2>2 DEF Meet
<1>6. Done(r, n) \in Regs /\ Done(q, n) \in Regs /\ Done(r, n).last = "name"
  <2> HIDE DEF n
  <2> QED BY <1>1, <1>3, RegsIn
<1>7. Near(c, Done(r, n), Done(q, n))
  BY <1>3, NearDone
<1>8. ReadOurs(<<>>, Push(n, A), r) = M(<<>>, A, Done(r, n))
          /\ ReadLua(<<>>, Push(n, B), q) = M(<<>>, B, Done(q, n))
  <2> DEFINE i == <<>>
  <2>1. i \in Tokens55
    BY EmptyIn
  <2>2. ReadOurs(i, Push(n, A), r) = ReadOurs(i, A, Done(r, n))
            /\ ReadLua(i, Push(n, B), q) = ReadLua(i, B, Done(q, n))
    <3> HIDE DEF i, n, A, B
    <3> QED BY <1>1, <1>2, <1>3, <2>1, BothGo
  <2>3. ReadOurs(<<>>, A, Done(r, n)) = M(<<>>, A, Done(r, n))
            /\ ReadLua(<<>>, B, Done(q, n)) = M(<<>>, B, Done(q, n))
    <3>1. Parse("suffixes") \in Symbols /\ Reads(Parse("suffixes")) /\ Parse("globalstat") \in Symbols
              /\ Reads(Parse("globalstat"))
      BY SymbolsIn DEF Reads, Parse
    <3> HIDE DEF n, X
    <3> QED BY <1>1, <1>2, <1>6, <3>1, BothGo
  <2> QED BY Zenon, <2>2, <2>3
<1> HIDE DEF n, A, B
<1>9. Settled(c, ReadOurs(<<>>, Push(n, A), r), ReadLua(<<>>, Push(n, B), q))
  BY Zenon, <1>5, <1>6, <1>7, <1>8 DEF Settled
<1> QED BY <1>9 DEF n, A, B, X

LEMMA AgreeBlockName ==
    ASSUME NEW i, Input(i), NEW S, NEW T, Alike(S, T), Head(i) \in Names /\ Head(i) # "global"
    PROVE  AgreeOn(i, Push(Parse("block"), S), Push(Parse("statlist"), T))
<1> DEFINE t == Head(i)
<1>0. /\ i \in Tokens55 /\ i # <<>> /\ t = Head(i) /\ t \in TokenKinds /\ t \in Vocabulary /\ t # LineParen
      /\ S \in Stack /\ T \in Stack /\ Input(i)
           /\ Alike(S, T)
      /\ Tail(i) = <<>> /\ (t \in Names /\ t # "global")
  BY InputIs, AlikeIn, NoLineParen
<1> HIDE DEF t
<1>1. CASE t \in Names /\ t # "global"
  <2> DEFINE S1 == Push(Parse("statement"), Push(Parse("block"), S))
             S2 == Push(Parse("assign_or_call"), Push(Parse("block"), S))
             T1 == Push(Parse("exprstat"), Push(Parse("statlist"), T))
             T2 == Push(Parse("suffixedexp"), T1)
             S3 == Push(Parse("suffixes"), S2)
             T3 == Push(Expect(t), Push(Node("name"), T2))
  <2>1. (t \notin BlockEnds /\ t # SemiMark /\ t # "return")
            /\ (t # "local" /\ t # "function" /\ t # "do" /\ t # "while" /\ t # "repeat" /\ t # "if"
            /\ t # "for" /\ t # "goto" /\ t # "::" /\ t # "break") /\ t \in Names
            /\ (t \notin BlockEnds /\ t # "return" /\ t # SemiMark /\ t # "if" /\ t # "while" /\ t # "do"
            /\ t # "for" /\ t # "repeat" /\ t # "function" /\ t # "local" /\ t # "::" /\ t # "goto"
            /\ t # "break" /\ t # "global") /\ Head(i) \in Names
    BY <1>0, <1>1, MarksDiffer, WordsHere DEF PlainTokens, Names, Simple, UnaryOps, BlockEnds, Fits
  <2>2. Push(Parse("block"), S) \in Stack /\ S3 \in Stack /\ T2 \in Stack
            /\ Push(Node("name"), S3) \in Stack /\ Push(Node("name"), T2) \in Stack
    BY <1>0, SymbolsIn, OnIs
  <2>3. OursTo(i, Push(Parse("block"), S), S1)
    BY Zenon, <1>0, <2>1, <2>2, OursBlock
  <2>4. OursTo(i, S1, Push(Parse("primary"), S3))
    BY Zenon, <1>0, <2>1, <2>2, OursStatement
  <2>5. OursTo(i, Push(Parse("primary"), S3), Push(Expect("Name"), Push(Node("name"), S3)))
    BY Zenon, <1>0, <2>1, <2>2, OursPrimary
  <2>6. LuaTo(i, Push(Parse("statlist"), T), Push(Parse("primaryexp"), T2))
    BY Zenon, <1>0, <2>1, <2>2, LuaStatlist
  <2>7. LuaTo(i, Push(Parse("primaryexp"), T2), T3)
    BY Zenon, <1>0, <2>1, <2>2, LuaPrimaryexp
  <2>8. Fit(Parse("block"), Parse("statlist"))
    BY Zenon, FitsAre
  <2>9. Alike(Push(Parse("block"), S), Push(Parse("statlist"), T))
    BY Zenon, <2>8, <1>0, AlikeRules
  <2>10. Fit(Parse("assign_or_call"), Parse("exprstat"))
    BY Zenon, FitsAre
  <2>11. Alike(S2, T1)
    BY Zenon, <2>10, <2>9, AlikeRules
  <2>12. Settles(S3, T2)
    BY Zenon, <2>11, ShapesSettle
  <2>13. NodeLike(Node("name"))
    BY NodesLike, KindsIn
  <2>14. S3 \in Stack /\ T2 \in Stack
    BY <1>0, SymbolsIn, OnIs
  <2>15. Settles(Push(Node("name"), S3), Push(Node("name"), T2))
    BY Zenon, <2>12, <2>13, <2>14, SettleNode
  <2>16. AgreeOn(i, Push(Expect("Name"), Push(Node("name"), S3)), T3)
    BY Zenon, <1>0, <2>1, <2>2, <2>15, EatName
  <2>17. AgreeOn(i, Push(Parse("primary"), S3), T3)
    BY Zenon, <2>5, <2>16, AgreeOurs
  <2>18. AgreeOn(i, S1, T3)
    BY Zenon, <2>4, <2>17, AgreeOurs
  <2>19. AgreeOn(i, Push(Parse("block"), S), T3)
    BY Zenon, <2>3, <2>18, AgreeOurs
  <2>20. AgreeOn(i, Push(Parse("block"), S), Push(Parse("primaryexp"), T2))
    BY Zenon, <2>7, <2>19, AgreeLua
  <2>21. AgreeOn(i, Push(Parse("block"), S), Push(Parse("statlist"), T))
    BY Zenon, <2>6, <2>20, AgreeLua
  <2> QED BY Zenon, <2>21
<1> QED BY Zenon, <1>0, <1>1

(* Each kind of statement, and the end of a block.                         *)
LEMMA AgreeBlock ==
    ASSUME NEW i, Input(i), NEW S, NEW T, Alike(S, T), AgreeOn(i, S, T)
    PROVE  AgreeOn(i, Push(Parse("block"), S), Push(Parse("statlist"), T))
<1> DEFINE t == Head(i)
<1>0. /\ i \in Tokens55 /\ i # <<>> /\ t = Head(i) /\ t \in TokenKinds /\ t \in Vocabulary /\ t # LineParen
      /\ S \in Stack /\ T \in Stack /\ Input(i)
           /\ Alike(S, T)
      /\ Tail(i) = <<>> /\ AgreeOn(i, S, T)
  BY InputIs, AlikeIn, NoLineParen
<1> HIDE DEF t
<1>1. CASE t = "if"
  <2> DEFINE T1 == Push(Node("if"), Push(Parse("statlist"), T))
             S1 == Push(Node("if"), Push(Parse("block"), S))
             S2 == Push(Parse("statement"), Push(Parse("block"), S))
             S3 == Push(Parse("else_clauses"), Push(Expect("end"), S1))
             T2 == Push(Parse("statlist"), Push(Parse("test_then"), Push(Expect("end"), T1)))
             S4 == Push(Parse("block"), S3)
             T3 == Push(Parse("subexpr"), Push(Climb("none"), Push(Expect("then"), T2)))
             S5 == Push(Parse("unary"), Push(Climb("none"), Push(Expect("then"), S4)))
  <2>1. (t \notin BlockEnds /\ t # SemiMark /\ t # "return") /\ t = "if" /\ "if" = Head(i)
    BY <1>0, <1>1, MarksDiffer, WordsHere DEF PlainTokens, Names, Simple, UnaryOps, BlockEnds, Fits
  <2>2. Push(Parse("block"), S) \in Stack /\ S5 \in Stack /\ T3 \in Stack
    BY <1>0, SymbolsIn, OnIs
  <2>3. OursTo(i, Push(Parse("block"), S), S2)
    BY Zenon, <1>0, <2>1, <2>2, OursBlock
  <2>4. OursTo(i, S2, Push(Expect("if"), S5))
    BY Zenon, <1>0, <2>1, <2>2, OursStatement
  <2>5. LuaTo(i, Push(Parse("statlist"), T), Push(Expect("if"), T3))
    BY Zenon, <1>0, <2>1, <2>2, LuaStatlist
  <2>6. Fit(Parse("block"), Parse("statlist"))
    BY Zenon, FitsAre
  <2>7. Alike(Push(Parse("block"), S), Push(Parse("statlist"), T))
    BY Zenon, <2>6, <1>0, AlikeRules
  <2>8. NodeLike(Node("if"))
    BY NodesLike, KindsIn
  <2>9. Fit(Node("if"), Node("if"))
    BY Zenon, <2>8, FitsAre
  <2>10. Alike(S1, T1)
    BY Zenon, <2>9, <2>7, AlikeRules
  <2>11. JointHere(S1, T1)
    BY Zenon, <2>10, BaresAre
  <2>12. Joint(S1, T1)
    BY Zenon, <2>11, JointsAre
  <2>13. Alike(Push(Expect("end"), S1), Push(Expect("end"), T1))
    BY Zenon, <2>12, ClosersAre, AlikeRules
  <2>14. Fit(Parse("else_clauses"), Parse("test_then"))
    BY Zenon, FitsAre
  <2>15. Alike(S3, Push(Parse("test_then"), Push(Expect("end"), T1)))
    BY Zenon, <2>14, <2>13, AlikeRules
  <2>16. Alike(S4, T2)
    BY Zenon, <2>6, <2>15, AlikeRules
  <2>17. JointHere(S4, T2)
    BY Zenon, <2>16, BaresAre
  <2>18. Joint(S4, T2)
    BY Zenon, <2>17, JointsAre
  <2>19. Alike(Push(Expect("then"), S4), Push(Expect("then"), T2))
    BY Zenon, <2>18, ClosersAre, AlikeRules
  <2>20. "none" \in LeftOf
    BY <1>0 DEF LeftOf, Climbs
  <2>21. Settles(S5, T3)
    BY Zenon, <2>19, <2>20, ShapesSettle
  <2>22. AgreeOn(i, Push(Expect("if"), S5), Push(Expect("if"), T3))
    BY Zenon, <1>0, <2>1, <2>2, <2>21, EatBoth
  <2>23. AgreeOn(i, S2, Push(Expect("if"), T3))
    BY Zenon, <2>4, <2>22, AgreeOurs
  <2>24. AgreeOn(i, Push(Parse("block"), S), Push(Expect("if"), T3))
    BY Zenon, <2>3, <2>23, AgreeOurs
  <2>25. AgreeOn(i, Push(Parse("block"), S), Push(Parse("statlist"), T))
    BY Zenon, <2>5, <2>24, AgreeLua
  <2> QED BY Zenon, <2>25
<1>2. CASE t \in BlockEnds
  <2>1. t \in BlockEnds
    BY <1>0, <1>2, MarksDiffer, WordsHere DEF PlainTokens, Names, Simple, UnaryOps, BlockEnds, Fits
  <2>2. OursTo(i, Push(Parse("block"), S), S)
    BY Zenon, <1>0, <2>1, OursBlock
  <2>3. LuaTo(i, Push(Parse("statlist"), T), T)
    BY Zenon, <1>0, <2>1, LuaStatlist
  <2>4. AgreeOn(i, Push(Parse("block"), S), T)
    BY Zenon, <2>2, <1>0, AgreeOurs
  <2>5. AgreeOn(i, Push(Parse("block"), S), Push(Parse("statlist"), T))
    BY Zenon, <2>3, <2>4, AgreeLua
  <2> QED BY Zenon, <2>5
<1>3. CASE t = "do"
  <2> DEFINE T1 == Push(Node("do"), Push(Parse("statlist"), T))
             S1 == Push(Node("do"), Push(Parse("block"), S))
             S2 == Push(Parse("statement"), Push(Parse("block"), S))
             T2 == Push(Parse("statlist"), Push(Expect("end"), T1))
             S3 == Push(Parse("block"), Push(Expect("end"), S1))
  <2>1. (t \notin BlockEnds /\ t # SemiMark /\ t # "return") /\ t = "do" /\ "do" = Head(i)
    BY <1>0, <1>3, MarksDiffer, WordsHere DEF PlainTokens, Names, Simple, UnaryOps, BlockEnds, Fits
  <2>2. Push(Parse("block"), S) \in Stack /\ S3 \in Stack /\ T2 \in Stack
    BY <1>0, SymbolsIn, OnIs
  <2>3. OursTo(i, Push(Parse("block"), S), S2)
    BY Zenon, <1>0, <2>1, <2>2, OursBlock
  <2>4. OursTo(i, S2, Push(Expect("do"), S3))
    BY Zenon, <1>0, <2>1, <2>2, OursStatement
  <2>5. LuaTo(i, Push(Parse("statlist"), T), Push(Expect("do"), T2))
    BY Zenon, <1>0, <2>1, <2>2, LuaStatlist
  <2>6. Fit(Parse("block"), Parse("statlist"))
    BY Zenon, FitsAre
  <2>7. Alike(Push(Parse("block"), S), Push(Parse("statlist"), T))
    BY Zenon, <2>6, <1>0, AlikeRules
  <2>8. NodeLike(Node("do"))
    BY NodesLike, KindsIn
  <2>9. Fit(Node("do"), Node("do"))
    BY Zenon, <2>8, FitsAre
  <2>10. Alike(S1, T1)
    BY Zenon, <2>9, <2>7, AlikeRules
  <2>11. JointHere(S1, T1)
    BY Zenon, <2>10, BaresAre
  <2>12. Joint(S1, T1)
    BY Zenon, <2>11, JointsAre
  <2>13. Alike(Push(Expect("end"), S1), Push(Expect("end"), T1))
    BY Zenon, <2>12, ClosersAre, AlikeRules
  <2>14. Alike(S3, T2)
    BY Zenon, <2>6, <2>13, AlikeRules
  <2>15. Settles(S3, T2)
    BY Zenon, <2>14, AlikeSettles
  <2>16. AgreeOn(i, Push(Expect("do"), S3), Push(Expect("do"), T2))
    BY Zenon, <1>0, <2>1, <2>2, <2>15, EatBoth
  <2>17. AgreeOn(i, S2, Push(Expect("do"), T2))
    BY Zenon, <2>4, <2>16, AgreeOurs
  <2>18. AgreeOn(i, Push(Parse("block"), S), Push(Expect("do"), T2))
    BY Zenon, <2>3, <2>17, AgreeOurs
  <2>19. AgreeOn(i, Push(Parse("block"), S), Push(Parse("statlist"), T))
    BY Zenon, <2>5, <2>18, AgreeLua
  <2> QED BY Zenon, <2>19
<1>4. CASE t = "while"
  <2> DEFINE T1 == Push(Node("while"), Push(Parse("statlist"), T))
             S1 == Push(Node("while"), Push(Parse("block"), S))
             S2 == Push(Parse("statement"), Push(Parse("block"), S))
             T2 == Push(Parse("statlist"), Push(Expect("end"), T1))
             S3 == Push(Parse("block"), Push(Expect("end"), S1))
             T3 == Push(Parse("subexpr"), Push(Climb("none"), Push(Expect("do"), T2)))
             S4 == Push(Parse("unary"), Push(Climb("none"), Push(Expect("do"), S3)))
  <2>1. (t \notin BlockEnds /\ t # SemiMark /\ t # "return") /\ t = "while" /\ "while" = Head(i)
    BY <1>0, <1>4, MarksDiffer, WordsHere DEF PlainTokens, Names, Simple, UnaryOps, BlockEnds, Fits
  <2>2. Push(Parse("block"), S) \in Stack /\ S4 \in Stack /\ T3 \in Stack
    BY <1>0, SymbolsIn, OnIs
  <2>3. OursTo(i, Push(Parse("block"), S), S2)
    BY Zenon, <1>0, <2>1, <2>2, OursBlock
  <2>4. OursTo(i, S2, Push(Expect("while"), S4))
    BY Zenon, <1>0, <2>1, <2>2, OursStatement
  <2>5. LuaTo(i, Push(Parse("statlist"), T), Push(Expect("while"), T3))
    BY Zenon, <1>0, <2>1, <2>2, LuaStatlist
  <2>6. Fit(Parse("block"), Parse("statlist"))
    BY Zenon, FitsAre
  <2>7. Alike(Push(Parse("block"), S), Push(Parse("statlist"), T))
    BY Zenon, <2>6, <1>0, AlikeRules
  <2>8. NodeLike(Node("while"))
    BY NodesLike, KindsIn
  <2>9. Fit(Node("while"), Node("while"))
    BY Zenon, <2>8, FitsAre
  <2>10. Alike(S1, T1)
    BY Zenon, <2>9, <2>7, AlikeRules
  <2>11. JointHere(S1, T1)
    BY Zenon, <2>10, BaresAre
  <2>12. Joint(S1, T1)
    BY Zenon, <2>11, JointsAre
  <2>13. Alike(Push(Expect("end"), S1), Push(Expect("end"), T1))
    BY Zenon, <2>12, ClosersAre, AlikeRules
  <2>14. Alike(S3, T2)
    BY Zenon, <2>6, <2>13, AlikeRules
  <2>15. JointHere(S3, T2)
    BY Zenon, <2>14, BaresAre
  <2>16. Joint(S3, T2)
    BY Zenon, <2>15, JointsAre
  <2>17. Alike(Push(Expect("do"), S3), Push(Expect("do"), T2))
    BY Zenon, <2>16, ClosersAre, AlikeRules
  <2>18. "none" \in LeftOf
    BY <1>0 DEF LeftOf, Climbs
  <2>19. Settles(S4, T3)
    BY Zenon, <2>17, <2>18, ShapesSettle
  <2>20. AgreeOn(i, Push(Expect("while"), S4), Push(Expect("while"), T3))
    BY Zenon, <1>0, <2>1, <2>2, <2>19, EatBoth
  <2>21. AgreeOn(i, S2, Push(Expect("while"), T3))
    BY Zenon, <2>4, <2>20, AgreeOurs
  <2>22. AgreeOn(i, Push(Parse("block"), S), Push(Expect("while"), T3))
    BY Zenon, <2>3, <2>21, AgreeOurs
  <2>23. AgreeOn(i, Push(Parse("block"), S), Push(Parse("statlist"), T))
    BY Zenon, <2>5, <2>22, AgreeLua
  <2> QED BY Zenon, <2>23
<1>5. CASE t = "repeat"
  <2> DEFINE S1 == Push(Parse("unary"), Push(Climb("none"), Push(Node("repeat"), Push(Parse("block"), S))))
             T1 == Push(Parse("subexpr"), Push(Climb("none"),
                       Push(Node("repeat"), Push(Parse("statlist"), T))))
             S2 == Push(Parse("block"), Push(Expect("until"), S1))
             S3 == Push(Parse("statement"), Push(Parse("block"), S))
             T2 == Push(Parse("statlist"), Push(Expect("until"), T1))
  <2>1. (t \notin BlockEnds /\ t # SemiMark /\ t # "return") /\ t = "repeat" /\ "repeat" = Head(i)
    BY <1>0, <1>5, MarksDiffer, WordsHere DEF PlainTokens, Names, Simple, UnaryOps, BlockEnds, Fits
  <2>2. Push(Parse("block"), S) \in Stack /\ S2 \in Stack /\ T2 \in Stack
    BY <1>0, SymbolsIn, OnIs
  <2>3. OursTo(i, Push(Parse("block"), S), S3)
    BY Zenon, <1>0, <2>1, <2>2, OursBlock
  <2>4. OursTo(i, S3, Push(Expect("repeat"), S2))
    BY Zenon, <1>0, <2>1, <2>2, OursStatement
  <2>5. LuaTo(i, Push(Parse("statlist"), T), Push(Expect("repeat"), T2))
    BY Zenon, <1>0, <2>1, <2>2, LuaStatlist
  <2>6. Fit(Parse("block"), Parse("statlist"))
    BY Zenon, FitsAre
  <2>7. Alike(Push(Parse("block"), S), Push(Parse("statlist"), T))
    BY Zenon, <2>6, <1>0, AlikeRules
  <2>8. NodeLike(Node("repeat"))
    BY NodesLike, KindsIn
  <2>9. Fit(Node("repeat"), Node("repeat"))
    BY Zenon, <2>8, FitsAre
  <2>10. Alike(Push(Node("repeat"), Push(Parse("block"), S)),
             Push(Node("repeat"), Push(Parse("statlist"), T)))
    BY Zenon, <2>9, <2>7, AlikeRules
  <2>11. "none" \in LeftOf
    BY <1>0 DEF LeftOf, Climbs
  <2>12. JointHere(S1, T1)
    BY Zenon, <2>10, <2>11, BaresAre
  <2>13. Joint(S1, T1)
    BY Zenon, <2>12, JointsAre
  <2>14. Alike(Push(Expect("until"), S1), Push(Expect("until"), T1))
    BY Zenon, <2>13, ClosersAre, AlikeRules
  <2>15. Alike(S2, T2)
    BY Zenon, <2>6, <2>14, AlikeRules
  <2>16. Settles(S2, T2)
    BY Zenon, <2>15, AlikeSettles
  <2>17. AgreeOn(i, Push(Expect("repeat"), S2), Push(Expect("repeat"), T2))
    BY Zenon, <1>0, <2>1, <2>2, <2>16, EatBoth
  <2>18. AgreeOn(i, S3, Push(Expect("repeat"), T2))
    BY Zenon, <2>4, <2>17, AgreeOurs
  <2>19. AgreeOn(i, Push(Parse("block"), S), Push(Expect("repeat"), T2))
    BY Zenon, <2>3, <2>18, AgreeOurs
  <2>20. AgreeOn(i, Push(Parse("block"), S), Push(Parse("statlist"), T))
    BY Zenon, <2>5, <2>19, AgreeLua
  <2> QED BY Zenon, <2>20
<1>6. CASE t = "for"
  <2> DEFINE T1 == Push(Parse("forstat"), Push(Parse("statlist"), T))
             S1 == Push(Parse("statement"), Push(Parse("block"), S))
             S2 == Push(Parse("for"), Push(Parse("block"), S))
             T2 == Push(Expect("Name"), T1)
             S3 == Push(Expect("Name"), S2)
  <2>1. (t \notin BlockEnds /\ t # SemiMark /\ t # "return") /\ t = "for" /\ "for" = Head(i)
    BY <1>0, <1>6, MarksDiffer, WordsHere DEF PlainTokens, Names, Simple, UnaryOps, BlockEnds, Fits
  <2>2. Push(Parse("block"), S) \in Stack /\ S3 \in Stack /\ T2 \in Stack
    BY <1>0, SymbolsIn, OnIs
  <2>3. OursTo(i, Push(Parse("block"), S), S1)
    BY Zenon, <1>0, <2>1, <2>2, OursBlock
  <2>4. OursTo(i, S1, Push(Expect("for"), S3))
    BY Zenon, <1>0, <2>1, <2>2, OursStatement
  <2>5. LuaTo(i, Push(Parse("statlist"), T), Push(Expect("for"), T2))
    BY Zenon, <1>0, <2>1, <2>2, LuaStatlist
  <2>6. Fit(Parse("block"), Parse("statlist"))
    BY Zenon, FitsAre
  <2>7. Alike(Push(Parse("block"), S), Push(Parse("statlist"), T))
    BY Zenon, <2>6, <1>0, AlikeRules
  <2>8. JointHere(S2, T1)
    BY Zenon, <2>7, BaresAre
  <2>9. Joint(S2, T1)
    BY Zenon, <2>8, JointsAre
  <2>10. Alike(S3, T2)
    BY Zenon, <2>9, ClosersAre, AlikeRules
  <2>11. Settles(S3, T2)
    BY Zenon, <2>10, AlikeSettles
  <2>12. AgreeOn(i, Push(Expect("for"), S3), Push(Expect("for"), T2))
    BY Zenon, <1>0, <2>1, <2>2, <2>11, EatBoth
  <2>13. AgreeOn(i, S1, Push(Expect("for"), T2))
    BY Zenon, <2>4, <2>12, AgreeOurs
  <2>14. AgreeOn(i, Push(Parse("block"), S), Push(Expect("for"), T2))
    BY Zenon, <2>3, <2>13, AgreeOurs
  <2>15. AgreeOn(i, Push(Parse("block"), S), Push(Parse("statlist"), T))
    BY Zenon, <2>5, <2>14, AgreeLua
  <2> QED BY Zenon, <2>15
<1>7. CASE t = "function"
  <2> DEFINE T1 == Push(Node("function_decl"), Push(Parse("statlist"), T))
             S1 == Push(Node("function_decl"), Push(Parse("block"), S))
             T2 == Push(Expect("("), Push(Parse("parlist"),
                       Push(Expect(")"), Push(Parse("statlist"), Push(Expect("end"), T1)))))
             S2 == Push(Expect("("), Push(Parse("params"),
                       Push(Expect(")"), Push(Parse("block"), Push(Expect("end"), S1)))))
             S3 == Push(Parse("statement"), Push(Parse("block"), S))
             T3 == Push(Parse("funcname"), T2)
             S4 == Push(Parse("name_parts"), S2)
             T4 == Push(Expect("function"), Push(Expect("Name"), T3))
             S5 == Push(Expect("function"), Push(Expect("Name"), S4))
  <2>1. (t \notin BlockEnds /\ t # SemiMark /\ t # "return") /\ t = "function" /\ "function" = Head(i)
    BY <1>0, <1>7, MarksDiffer, WordsHere DEF PlainTokens, Names, Simple, UnaryOps, BlockEnds, Fits
  <2>2. Push(Parse("block"), S) \in Stack /\ Push(Expect("Name"), S4) \in Stack
            /\ Push(Expect("Name"), T3) \in Stack
    BY <1>0, SymbolsIn, OnIs
  <2>3. OursTo(i, Push(Parse("block"), S), S3)
    BY Zenon, <1>0, <2>1, <2>2, OursBlock
  <2>4. OursTo(i, S3, S5)
    BY Zenon, <1>0, <2>1, <2>2, OursStatement
  <2>5. LuaTo(i, Push(Parse("statlist"), T), T4)
    BY Zenon, <1>0, <2>1, <2>2, LuaStatlist
  <2>6. Fit(Parse("block"), Parse("statlist"))
    BY Zenon, FitsAre
  <2>7. Alike(Push(Parse("block"), S), Push(Parse("statlist"), T))
    BY Zenon, <2>6, <1>0, AlikeRules
  <2>8. NodeLike(Node("function_decl"))
    BY NodesLike, KindsIn
  <2>9. Fit(Node("function_decl"), Node("function_decl"))
    BY Zenon, <2>8, FitsAre
  <2>10. Alike(S1, T1)
    BY Zenon, <2>9, <2>7, AlikeRules
  <2>11. JointHere(S1, T1)
    BY Zenon, <2>10, BaresAre
  <2>12. Joint(S1, T1)
    BY Zenon, <2>11, JointsAre
  <2>13. Alike(Push(Expect("end"), S1), Push(Expect("end"), T1))
    BY Zenon, <2>12, ClosersAre, AlikeRules
  <2>14. Alike(Push(Parse("block"), Push(Expect("end"), S1)),
             Push(Parse("statlist"), Push(Expect("end"), T1)))
    BY Zenon, <2>6, <2>13, AlikeRules
  <2>15. Alike(S2, T2)
    BY Zenon, <2>14, AlikeRules
  <2>16. Fit(Parse("name_parts"), Parse("funcname"))
    BY Zenon, FitsAre
  <2>17. Alike(S4, T3)
    BY Zenon, <2>16, <2>15, AlikeRules
  <2>18. JointHere(S4, T3)
    BY Zenon, <2>17, BaresAre
  <2>19. Joint(S4, T3)
    BY Zenon, <2>18, JointsAre
  <2>20. Alike(Push(Expect("Name"), S4), Push(Expect("Name"), T3))
    BY Zenon, <2>19, ClosersAre, AlikeRules
  <2>21. Settles(Push(Expect("Name"), S4), Push(Expect("Name"), T3))
    BY Zenon, <2>20, AlikeSettles
  <2>22. AgreeOn(i, S5, T4)
    BY Zenon, <1>0, <2>1, <2>2, <2>21, EatBoth
  <2>23. AgreeOn(i, S3, T4)
    BY Zenon, <2>4, <2>22, AgreeOurs
  <2>24. AgreeOn(i, Push(Parse("block"), S), T4)
    BY Zenon, <2>3, <2>23, AgreeOurs
  <2>25. AgreeOn(i, Push(Parse("block"), S), Push(Parse("statlist"), T))
    BY Zenon, <2>5, <2>24, AgreeLua
  <2> QED BY Zenon, <2>25
<1>8. CASE t = "local"
  <2> DEFINE T1 == Push(Parse("localstat"), Push(Parse("statlist"), T))
             S1 == Push(Parse("local"), Push(Parse("block"), S))
             S2 == Push(Parse("statement"), Push(Parse("block"), S))
  <2>1. (t \notin BlockEnds /\ t # SemiMark /\ t # "return") /\ t = "local" /\ "local" = Head(i)
    BY <1>0, <1>8, MarksDiffer, WordsHere DEF PlainTokens, Names, Simple, UnaryOps, BlockEnds, Fits
  <2>2. Push(Parse("block"), S) \in Stack /\ S1 \in Stack /\ T1 \in Stack
    BY <1>0, SymbolsIn, OnIs
  <2>3. OursTo(i, Push(Parse("block"), S), S2)
    BY Zenon, <1>0, <2>1, <2>2, OursBlock
  <2>4. OursTo(i, S2, Push(Expect("local"), S1))
    BY Zenon, <1>0, <2>1, <2>2, OursStatement
  <2>5. LuaTo(i, Push(Parse("statlist"), T), Push(Expect("local"), T1))
    BY Zenon, <1>0, <2>1, <2>2, LuaStatlist
  <2>6. Fit(Parse("block"), Parse("statlist"))
    BY Zenon, FitsAre
  <2>7. Alike(Push(Parse("block"), S), Push(Parse("statlist"), T))
    BY Zenon, <2>6, <1>0, AlikeRules
  <2>8. Settles(S1, T1)
    BY Zenon, <2>7, ShapesSettle
  <2>9. AgreeOn(i, Push(Expect("local"), S1), Push(Expect("local"), T1))
    BY Zenon, <1>0, <2>1, <2>2, <2>8, EatBoth
  <2>10. AgreeOn(i, S2, Push(Expect("local"), T1))
    BY Zenon, <2>4, <2>9, AgreeOurs
  <2>11. AgreeOn(i, Push(Parse("block"), S), Push(Expect("local"), T1))
    BY Zenon, <2>3, <2>10, AgreeOurs
  <2>12. AgreeOn(i, Push(Parse("block"), S), Push(Parse("statlist"), T))
    BY Zenon, <2>5, <2>11, AgreeLua
  <2> QED BY Zenon, <2>12
<1>9. CASE t = "return"
  <2> DEFINE T1 == Push(Parse("retstat"), Push(Node("return"), Push(Parse("semicolon"), T)))
             S1 == Push(Parse("values"), Push(Node("return"), Push(Parse("semicolon"), S)))
  <2>1. t = "return" /\ "return" = Head(i)
    BY <1>0, <1>9, MarksDiffer, WordsHere DEF PlainTokens, Names, Simple, UnaryOps, BlockEnds, Fits
  <2>2. S1 \in Stack /\ T1 \in Stack
    BY <1>0, SymbolsIn, OnIs
  <2>3. OursTo(i, Push(Parse("block"), S), Push(Expect("return"), S1))
    BY Zenon, <1>0, <2>1, <2>2, OursBlock
  <2>4. LuaTo(i, Push(Parse("statlist"), T), Push(Expect("return"), T1))
    BY Zenon, <1>0, <2>1, <2>2, LuaStatlist
  <2>5. Fit(Parse("semicolon"), Parse("semicolon"))
    BY Zenon, FitsAre
  <2>6. Alike(Push(Parse("semicolon"), S), Push(Parse("semicolon"), T))
    BY Zenon, <2>5, <1>0, AlikeRules
  <2>7. NodeLike(Node("return"))
    BY NodesLike, KindsIn
  <2>8. Fit(Node("return"), Node("return"))
    BY Zenon, <2>7, FitsAre
  <2>9. Alike(Push(Node("return"), Push(Parse("semicolon"), S)),
            Push(Node("return"), Push(Parse("semicolon"), T)))
    BY Zenon, <2>8, <2>6, AlikeRules
  <2>10. Settles(S1, T1)
    BY Zenon, <2>9, ShapesSettle
  <2>11. AgreeOn(i, Push(Expect("return"), S1), Push(Expect("return"), T1))
    BY Zenon, <1>0, <2>1, <2>2, <2>10, EatBoth
  <2>12. AgreeOn(i, Push(Parse("block"), S), Push(Expect("return"), T1))
    BY Zenon, <2>3, <2>11, AgreeOurs
  <2>13. AgreeOn(i, Push(Parse("block"), S), Push(Parse("statlist"), T))
    BY Zenon, <2>4, <2>12, AgreeLua
  <2> QED BY Zenon, <2>13
<1>10. CASE t = "break"
  <2> DEFINE T1 == Push(Node("break"), Push(Parse("statlist"), T))
             S1 == Push(Node("break"), Push(Parse("block"), S))
             S2 == Push(Parse("statement"), Push(Parse("block"), S))
  <2>1. (t \notin BlockEnds /\ t # SemiMark /\ t # "return") /\ t = "break" /\ "break" = Head(i)
    BY <1>0, <1>10, MarksDiffer, WordsHere DEF PlainTokens, Names, Simple, UnaryOps, BlockEnds, Fits
  <2>2. Push(Parse("block"), S) \in Stack /\ S1 \in Stack /\ T1 \in Stack
    BY <1>0, SymbolsIn, OnIs
  <2>3. OursTo(i, Push(Parse("block"), S), S2)
    BY Zenon, <1>0, <2>1, <2>2, OursBlock
  <2>4. OursTo(i, S2, Push(Expect("break"), S1))
    BY Zenon, <1>0, <2>1, <2>2, OursStatement
  <2>5. LuaTo(i, Push(Parse("statlist"), T), Push(Expect("break"), T1))
    BY Zenon, <1>0, <2>1, <2>2, LuaStatlist
  <2>6. Fit(Parse("block"), Parse("statlist"))
    BY Zenon, FitsAre
  <2>7. Alike(Push(Parse("block"), S), Push(Parse("statlist"), T))
    BY Zenon, <2>6, <1>0, AlikeRules
  <2>8. NodeLike(Node("break"))
    BY NodesLike, KindsIn
  <2>9. Fit(Node("break"), Node("break"))
    BY Zenon, <2>8, FitsAre
  <2>10. Alike(S1, T1)
    BY Zenon, <2>9, <2>7, AlikeRules
  <2>11. Settles(S1, T1)
    BY Zenon, <2>10, AlikeSettles
  <2>12. AgreeOn(i, Push(Expect("break"), S1), Push(Expect("break"), T1))
    BY Zenon, <1>0, <2>1, <2>2, <2>11, EatBoth
  <2>13. AgreeOn(i, S2, Push(Expect("break"), T1))
    BY Zenon, <2>4, <2>12, AgreeOurs
  <2>14. AgreeOn(i, Push(Parse("block"), S), Push(Expect("break"), T1))
    BY Zenon, <2>3, <2>13, AgreeOurs
  <2>15. AgreeOn(i, Push(Parse("block"), S), Push(Parse("statlist"), T))
    BY Zenon, <2>5, <2>14, AgreeLua
  <2> QED BY Zenon, <2>15
<1>11. CASE t = "goto"
  <2> DEFINE S1 == Push(Node("goto"), Push(Parse("block"), S))
             T1 == Push(Node("goto"), Push(Parse("statlist"), T))
             S2 == Push(Parse("statement"), Push(Parse("block"), S))
             T2 == Push(Expect("Name"), T1)
  <2>1. (t \notin BlockEnds /\ t # SemiMark /\ t # "return") /\ t = "goto" /\ "goto" = Head(i)
    BY <1>0, <1>11, MarksDiffer, WordsHere DEF PlainTokens, Names, Simple, UnaryOps, BlockEnds, Fits
  <2>2. Push(Parse("block"), S) \in Stack /\ Push(Expect("Name"), S1) \in Stack /\ T2 \in Stack
    BY <1>0, SymbolsIn, OnIs
  <2>3. OursTo(i, Push(Parse("block"), S), S2)
    BY Zenon, <1>0, <2>1, <2>2, OursBlock
  <2>4. OursTo(i, S2, Push(Expect("goto"), Push(Expect("Name"), S1)))
    BY Zenon, <1>0, <2>1, <2>2, OursStatement
  <2>5. LuaTo(i, Push(Parse("statlist"), T), Push(Expect("goto"), T2))
    BY Zenon, <1>0, <2>1, <2>2, LuaStatlist
  <2>6. Fit(Parse("block"), Parse("statlist"))
    BY Zenon, FitsAre
  <2>7. Alike(Push(Parse("block"), S), Push(Parse("statlist"), T))
    BY Zenon, <2>6, <1>0, AlikeRules
  <2>8. NodeLike(Node("goto"))
    BY NodesLike, KindsIn
  <2>9. Fit(Node("goto"), Node("goto"))
    BY Zenon, <2>8, FitsAre
  <2>10. Alike(S1, T1)
    BY Zenon, <2>9, <2>7, AlikeRules
  <2>11. JointHere(S1, T1)
    BY Zenon, <2>10, BaresAre
  <2>12. Joint(S1, T1)
    BY Zenon, <2>11, JointsAre
  <2>13. Alike(Push(Expect("Name"), S1), T2)
    BY Zenon, <2>12, ClosersAre, AlikeRules
  <2>14. Settles(Push(Expect("Name"), S1), T2)
    BY Zenon, <2>13, AlikeSettles
  <2>15. AgreeOn(i, Push(Expect("goto"), Push(Expect("Name"), S1)), Push(Expect("goto"), T2))
    BY Zenon, <1>0, <2>1, <2>2, <2>14, EatBoth
  <2>16. AgreeOn(i, S2, Push(Expect("goto"), T2))
    BY Zenon, <2>4, <2>15, AgreeOurs
  <2>17. AgreeOn(i, Push(Parse("block"), S), Push(Expect("goto"), T2))
    BY Zenon, <2>3, <2>16, AgreeOurs
  <2>18. AgreeOn(i, Push(Parse("block"), S), Push(Parse("statlist"), T))
    BY Zenon, <2>5, <2>17, AgreeLua
  <2> QED BY Zenon, <2>18
<1>12. CASE t = "("
  <2> DEFINE S1 == Push(Parse("statement"), Push(Parse("block"), S))
             S2 == Push(Parse("assign_or_call"), Push(Parse("block"), S))
             T1 == Push(Parse("exprstat"), Push(Parse("statlist"), T))
             S3 == Push(Parse("suffixes"), S2)
             T2 == Push(Parse("suffixedexp"), T1)
             S4 == Push(Parse("unary"), Push(Climb("none"), Push(Expect(")"), S3)))
             T3 == Push(Parse("subexpr"), Push(Climb("none"),
                       Push(Expect(")"), Push(Parse("discharge"), T2))))
  <2>1. (t \notin BlockEnds /\ t # SemiMark /\ t # "return")
            /\ (t # "local" /\ t # "function" /\ t # "do" /\ t # "while" /\ t # "repeat" /\ t # "if"
            /\ t # "for" /\ t # "goto" /\ t # "::" /\ t # "break") /\ t = "("
            /\ (t \notin BlockEnds /\ t # "return" /\ t # SemiMark /\ t # "if" /\ t # "while" /\ t # "do"
            /\ t # "for" /\ t # "repeat" /\ t # "function" /\ t # "local" /\ t # "::" /\ t # "goto"
            /\ t # "break" /\ t # "global") /\ (t = "(" \/ t = LineParen) /\ "(" = Head(i)
    BY <1>0, <1>12, MarksDiffer, WordsHere DEF PlainTokens, Names, Simple, UnaryOps, BlockEnds, Fits
  <2>2. Push(Parse("block"), S) \in Stack /\ S3 \in Stack /\ T2 \in Stack /\ S4 \in Stack /\ T3 \in Stack
    BY <1>0, SymbolsIn, OnIs
  <2>3. OursTo(i, Push(Parse("block"), S), S1)
    BY Zenon, <1>0, <2>1, <2>2, OursBlock
  <2>4. OursTo(i, S1, Push(Parse("primary"), S3))
    BY Zenon, <1>0, <2>1, <2>2, OursStatement
  <2>5. OursTo(i, Push(Parse("primary"), S3), Push(Expect("("), S4))
    BY Zenon, <1>0, <2>1, <2>2, OursPrimary
  <2>6. LuaTo(i, Push(Parse("statlist"), T), Push(Parse("primaryexp"), T2))
    BY Zenon, <1>0, <2>1, <2>2, LuaStatlist
  <2>7. LuaTo(i, Push(Parse("primaryexp"), T2), Push(Expect("("), T3))
    BY Zenon, <1>0, <2>1, <2>2, LuaPrimaryexp
  <2>8. Fit(Parse("block"), Parse("statlist"))
    BY Zenon, FitsAre
  <2>9. Alike(Push(Parse("block"), S), Push(Parse("statlist"), T))
    BY Zenon, <2>8, <1>0, AlikeRules
  <2>10. Fit(Parse("assign_or_call"), Parse("exprstat"))
    BY Zenon, FitsAre
  <2>11. Alike(S2, T1)
    BY Zenon, <2>10, <2>9, AlikeRules
  <2>12. JointHere(S3, Push(Parse("discharge"), T2))
    BY Zenon, <2>11, BaresAre
  <2>13. Joint(S3, Push(Parse("discharge"), T2))
    BY Zenon, <2>12, JointsAre
  <2>14. Alike(Push(Expect(")"), S3), Push(Expect(")"), Push(Parse("discharge"), T2)))
    BY Zenon, <2>13, ClosersAre, AlikeRules
  <2>15. "none" \in LeftOf
    BY <1>0 DEF LeftOf, Climbs
  <2>16. Settles(S4, T3)
    BY Zenon, <2>14, <2>15, ShapesSettle
  <2>17. AgreeOn(i, Push(Expect("("), S4), Push(Expect("("), T3))
    BY Zenon, <1>0, <2>1, <2>2, <2>16, EatBoth
  <2>18. AgreeOn(i, Push(Parse("primary"), S3), Push(Expect("("), T3))
    BY Zenon, <2>5, <2>17, AgreeOurs
  <2>19. AgreeOn(i, S1, Push(Expect("("), T3))
    BY Zenon, <2>4, <2>18, AgreeOurs
  <2>20. AgreeOn(i, Push(Parse("block"), S), Push(Expect("("), T3))
    BY Zenon, <2>3, <2>19, AgreeOurs
  <2>21. AgreeOn(i, Push(Parse("block"), S), Push(Parse("primaryexp"), T2))
    BY Zenon, <2>7, <2>20, AgreeLua
  <2>22. AgreeOn(i, Push(Parse("block"), S), Push(Parse("statlist"), T))
    BY Zenon, <2>6, <2>21, AgreeLua
  <2> QED BY Zenon, <2>22
<1>13. CASE t = OpenBrace
  <2> DEFINE S1 == Push(Parse("statement"), Push(Parse("block"), S))
             S2 == Push(Parse("assign_or_call"), Push(Parse("block"), S))
             T1 == Push(Parse("exprstat"), Push(Parse("statlist"), T))
             S3 == Push(Parse("suffixes"), S2)
             T2 == Push(Parse("suffixedexp"), T1)
             S4 == Push(Parse("fields"), Push(Expect(CloseBrace), Push(Node("table"), S3)))
  <2>1. (t \notin BlockEnds /\ t # SemiMark /\ t # "return")
            /\ (t # "local" /\ t # "function" /\ t # "do" /\ t # "while" /\ t # "repeat" /\ t # "if"
            /\ t # "for" /\ t # "goto" /\ t # "::" /\ t # "break") /\ t = OpenBrace
            /\ (t \notin BlockEnds /\ t # "return" /\ t # SemiMark /\ t # "if" /\ t # "while" /\ t # "do"
            /\ t # "for" /\ t # "repeat" /\ t # "function" /\ t # "local" /\ t # "::" /\ t # "goto"
            /\ t # "break" /\ t # "global") /\ (t \in Simple \/ t = OpenBrace \/ t = "function")
            /\ OpenBrace = Head(i) /\ Fits(Head(i), OpenBrace)
            /\ OpenBrace \in Vocabulary
    BY <1>0, <1>13, MarksDiffer, WordsHere DEF PlainTokens, Names, Simple, UnaryOps, BlockEnds, Fits
  <2>2. Push(Parse("block"), S) \in Stack /\ S3 \in Stack /\ T2 \in Stack /\ S4 \in Stack
    BY <1>0, SymbolsIn, OnIs
  <2>3. OursTo(i, Push(Parse("block"), S), S1)
    BY Zenon, <1>0, <2>1, <2>2, OursBlock
  <2>4. OursTo(i, S1, Push(Parse("primary"), S3))
    BY Zenon, <1>0, <2>1, <2>2, OursStatement
  <2>5. OursTo(i, Push(Parse("primary"), S3), Push(Expect(OpenBrace), S4))
    BY Zenon, <1>0, <2>1, <2>2, OursPrimary
  <2>6. LuaTo(i, Push(Parse("statlist"), T), Push(Parse("primaryexp"), T2))
    BY Zenon, <1>0, <2>1, <2>2, LuaStatlist
  <2>7. LuaNoVariable(i, Push(Parse("primaryexp"), T2))
    BY Zenon, <1>0, <2>1, <2>2, LuaPrimaryexp
  <2>8. Fit(Parse("block"), Parse("statlist"))
    BY Zenon, FitsAre
  <2>9. Alike(Push(Parse("block"), S), Push(Parse("statlist"), T))
    BY Zenon, <2>8, <1>0, AlikeRules
  <2>10. Fit(Parse("assign_or_call"), Parse("exprstat"))
    BY Zenon, FitsAre
  <2>11. Alike(S2, T1)
    BY Zenon, <2>10, <2>9, AlikeRules
  <2>12. JointHere(S3, T2)
    BY Zenon, <2>11, BaresAre
  <2>13. NodeLike(Node("table"))
    BY NodesLike, KindsIn
  <2>14. Joint(Push(Node("table"), S3), Push(Node("table"), T2))
    BY Zenon, <2>12, <2>13, JointsAre
  <2>15. Alike(Push(Expect(CloseBrace), Push(Node("table"), S3)),
             Push(Expect(CloseBrace), Push(Node("table"), T2)))
    BY Zenon, <2>14, ClosersAre, AlikeRules
  <2>16. Settles(S4, Push(Parse("constructor"), Push(Expect(CloseBrace), Push(Node("table"), T2))))
    BY Zenon, <2>15, ShapesSettle
  <2>17. OursRun(i, Push(Expect(OpenBrace), S4))
    BY Zenon, <1>0, <2>1, <2>2, <2>16, EatOurs
  <2>18. AgreeOn(i, Push(Expect(OpenBrace), S4), Push(Parse("primaryexp"), T2))
    BY Zenon, <2>17, <2>7, AgreeNoVariable
  <2>19. AgreeOn(i, Push(Parse("primary"), S3), Push(Parse("primaryexp"), T2))
    BY Zenon, <2>5, <2>18, AgreeOurs
  <2>20. AgreeOn(i, S1, Push(Parse("primaryexp"), T2))
    BY Zenon, <2>4, <2>19, AgreeOurs
  <2>21. AgreeOn(i, Push(Parse("block"), S), Push(Parse("primaryexp"), T2))
    BY Zenon, <2>3, <2>20, AgreeOurs
  <2>22. AgreeOn(i, Push(Parse("block"), S), Push(Parse("statlist"), T))
    BY Zenon, <2>6, <2>21, AgreeLua
  <2> QED BY Zenon, <2>22
<1>14. CASE t = SemiMark
  <2> DEFINE T1 == Push(Expect(SemiMark), Push(Parse("statlist"), T))
  <2>1. t = SemiMark /\ SemiMark = Head(i)
    BY <1>0, <1>14, MarksDiffer, WordsHere DEF PlainTokens, Names, Simple, UnaryOps, BlockEnds, Fits
  <2>2. Push(Parse("block"), S) \in Stack /\ Push(Parse("statlist"), T) \in Stack
    BY <1>0, SymbolsIn, OnIs
  <2>3. OursTo(i, Push(Parse("block"), S), Push(Expect(SemiMark), Push(Parse("block"), S)))
    BY Zenon, <1>0, <2>1, <2>2, OursBlock
  <2>4. LuaTo(i, Push(Parse("statlist"), T), T1)
    BY Zenon, <1>0, <2>1, <2>2, LuaStatlist
  <2>5. Fit(Parse("block"), Parse("statlist"))
    BY Zenon, FitsAre
  <2>6. Alike(Push(Parse("block"), S), Push(Parse("statlist"), T))
    BY Zenon, <2>5, <1>0, AlikeRules
  <2>7. Settles(Push(Parse("block"), S), Push(Parse("statlist"), T))
    BY Zenon, <2>6, AlikeSettles
  <2>8. AgreeOn(i, Push(Expect(SemiMark), Push(Parse("block"), S)), T1)
    BY Zenon, <1>0, <2>1, <2>2, <2>7, EatBoth
  <2>9. AgreeOn(i, Push(Parse("block"), S), T1)
    BY Zenon, <2>3, <2>8, AgreeOurs
  <2>10. AgreeOn(i, Push(Parse("block"), S), Push(Parse("statlist"), T))
    BY Zenon, <2>4, <2>9, AgreeLua
  <2> QED BY Zenon, <2>10
<1>15. CASE t = "::"
  <2> DEFINE T1 == Push(Node("label"), Push(Parse("statlist"), T))
             S1 == Push(Node("label"), Push(Parse("block"), S))
             S2 == Push(Parse("statement"), Push(Parse("block"), S))
             T2 == Push(Expect("::"), T1)
             S3 == Push(Expect("::"), S1)
             T3 == Push(Expect("::"), Push(Expect("Name"), T2))
  <2>1. (t \notin BlockEnds /\ t # SemiMark /\ t # "return") /\ t = "::" /\ "::" = Head(i)
    BY <1>0, <1>15, MarksDiffer, WordsHere DEF PlainTokens, Names, Simple, UnaryOps, BlockEnds, Fits
  <2>2. Push(Parse("block"), S) \in Stack /\ Push(Expect("Name"), S3) \in Stack
            /\ Push(Expect("Name"), T2) \in Stack
    BY <1>0, SymbolsIn, OnIs
  <2>3. OursTo(i, Push(Parse("block"), S), S2)
    BY Zenon, <1>0, <2>1, <2>2, OursBlock
  <2>4. OursTo(i, S2, Push(Expect("::"), Push(Expect("Name"), S3)))
    BY Zenon, <1>0, <2>1, <2>2, OursStatement
  <2>5. LuaTo(i, Push(Parse("statlist"), T), T3)
    BY Zenon, <1>0, <2>1, <2>2, LuaStatlist
  <2>6. Fit(Parse("block"), Parse("statlist"))
    BY Zenon, FitsAre
  <2>7. Alike(Push(Parse("block"), S), Push(Parse("statlist"), T))
    BY Zenon, <2>6, <1>0, AlikeRules
  <2>8. NodeLike(Node("label"))
    BY NodesLike, KindsIn
  <2>9. Fit(Node("label"), Node("label"))
    BY Zenon, <2>8, FitsAre
  <2>10. Alike(S1, T1)
    BY Zenon, <2>9, <2>7, AlikeRules
  <2>11. JointHere(S1, T1)
    BY Zenon, <2>10, BaresAre
  <2>12. Joint(S1, T1)
    BY Zenon, <2>11, JointsAre
  <2>13. Alike(S3, T2)
    BY Zenon, <2>12, ClosersAre, AlikeRules
  <2>14. JointHere(S3, T2)
    BY Zenon, <2>13, BaresAre
  <2>15. Joint(S3, T2)
    BY Zenon, <2>14, JointsAre
  <2>16. Alike(Push(Expect("Name"), S3), Push(Expect("Name"), T2))
    BY Zenon, <2>15, ClosersAre, AlikeRules
  <2>17. Settles(Push(Expect("Name"), S3), Push(Expect("Name"), T2))
    BY Zenon, <2>16, AlikeSettles
  <2>18. AgreeOn(i, Push(Expect("::"), Push(Expect("Name"), S3)), T3)
    BY Zenon, <1>0, <2>1, <2>2, <2>17, EatBoth
  <2>19. AgreeOn(i, S2, T3)
    BY Zenon, <2>4, <2>18, AgreeOurs
  <2>20. AgreeOn(i, Push(Parse("block"), S), T3)
    BY Zenon, <2>3, <2>19, AgreeOurs
  <2>21. AgreeOn(i, Push(Parse("block"), S), Push(Parse("statlist"), T))
    BY Zenon, <2>5, <2>20, AgreeLua
  <2> QED BY Zenon, <2>21
<1>16. CASE t \in Names /\ t # "global"
  <2> DEFINE S1 == Push(Parse("statement"), Push(Parse("block"), S))
             S2 == Push(Parse("assign_or_call"), Push(Parse("block"), S))
             T1 == Push(Parse("exprstat"), Push(Parse("statlist"), T))
             T2 == Push(Parse("suffixedexp"), T1)
             S3 == Push(Parse("suffixes"), S2)
             T3 == Push(Expect(t), Push(Node("name"), T2))
  <2>1. (t \notin BlockEnds /\ t # SemiMark /\ t # "return")
            /\ (t # "local" /\ t # "function" /\ t # "do" /\ t # "while" /\ t # "repeat" /\ t # "if"
            /\ t # "for" /\ t # "goto" /\ t # "::" /\ t # "break") /\ t \in Names
            /\ (t \notin BlockEnds /\ t # "return" /\ t # SemiMark /\ t # "if" /\ t # "while" /\ t # "do"
            /\ t # "for" /\ t # "repeat" /\ t # "function" /\ t # "local" /\ t # "::" /\ t # "goto"
            /\ t # "break" /\ t # "global") /\ Head(i) \in Names
    BY <1>0, <1>16, MarksDiffer, WordsHere DEF PlainTokens, Names, Simple, UnaryOps, BlockEnds, Fits
  <2>2. Push(Parse("block"), S) \in Stack /\ S3 \in Stack /\ T2 \in Stack
            /\ Push(Node("name"), S3) \in Stack /\ Push(Node("name"), T2) \in Stack
    BY <1>0, SymbolsIn, OnIs
  <2>3. OursTo(i, Push(Parse("block"), S), S1)
    BY Zenon, <1>0, <2>1, <2>2, OursBlock
  <2>4. OursTo(i, S1, Push(Parse("primary"), S3))
    BY Zenon, <1>0, <2>1, <2>2, OursStatement
  <2>5. OursTo(i, Push(Parse("primary"), S3), Push(Expect("Name"), Push(Node("name"), S3)))
    BY Zenon, <1>0, <2>1, <2>2, OursPrimary
  <2>6. LuaTo(i, Push(Parse("statlist"), T), Push(Parse("primaryexp"), T2))
    BY Zenon, <1>0, <2>1, <2>2, LuaStatlist
  <2>7. LuaTo(i, Push(Parse("primaryexp"), T2), T3)
    BY Zenon, <1>0, <2>1, <2>2, LuaPrimaryexp
  <2>8. Fit(Parse("block"), Parse("statlist"))
    BY Zenon, FitsAre
  <2>9. Alike(Push(Parse("block"), S), Push(Parse("statlist"), T))
    BY Zenon, <2>8, <1>0, AlikeRules
  <2>10. Fit(Parse("assign_or_call"), Parse("exprstat"))
    BY Zenon, FitsAre
  <2>11. Alike(S2, T1)
    BY Zenon, <2>10, <2>9, AlikeRules
  <2>12. Settles(S3, T2)
    BY Zenon, <2>11, ShapesSettle
  <2>13. NodeLike(Node("name"))
    BY NodesLike, KindsIn
  <2>14. S3 \in Stack /\ T2 \in Stack
    BY <1>0, SymbolsIn, OnIs
  <2>15. Settles(Push(Node("name"), S3), Push(Node("name"), T2))
    BY Zenon, <2>12, <2>13, <2>14, SettleNode
  <2>16. AgreeOn(i, Push(Expect("Name"), Push(Node("name"), S3)), T3)
    BY Zenon, <1>0, <2>1, <2>2, <2>15, EatName
  <2>17. AgreeOn(i, Push(Parse("primary"), S3), T3)
    BY Zenon, <2>5, <2>16, AgreeOurs
  <2>18. AgreeOn(i, S1, T3)
    BY Zenon, <2>4, <2>17, AgreeOurs
  <2>19. AgreeOn(i, Push(Parse("block"), S), T3)
    BY Zenon, <2>3, <2>18, AgreeOurs
  <2>20. AgreeOn(i, Push(Parse("block"), S), Push(Parse("primaryexp"), T2))
    BY Zenon, <2>7, <2>19, AgreeLua
  <2>21. AgreeOn(i, Push(Parse("block"), S), Push(Parse("statlist"), T))
    BY Zenon, <2>6, <2>20, AgreeLua
  <2> QED BY Zenon, <2>21
<1>17. CASE t = "global"
  <2> DEFINE S1 == Push(Parse("suffixes"), Push(Parse("assign_or_call"), Push(Parse("block"), S)))
             T1 == Push(Node("name"), Push(Parse("globalstat"), Push(Parse("statlist"), T)))
             S2 == Push(Parse("statement"), Push(Parse("block"), S))
  <2>1. (t \notin BlockEnds /\ t # SemiMark /\ t # "return")
            /\ (t # "local" /\ t # "function" /\ t # "do" /\ t # "while" /\ t # "repeat" /\ t # "if"
            /\ t # "for" /\ t # "goto" /\ t # "::" /\ t # "break") /\ t \in Names /\ t = "global"
            /\ Head(i) \in Names /\ "global" = Head(i)
    BY <1>0, <1>17, MarksDiffer, WordsHere DEF PlainTokens, Names, Simple, UnaryOps, BlockEnds, Fits
  <2>2. Push(Parse("block"), S) \in Stack /\ S1 \in Stack /\ Push(Node("name"), S1) \in Stack
            /\ T1 \in Stack
    BY <1>0, SymbolsIn, OnIs
  <2>3. OursTo(i, Push(Parse("block"), S), S2)
    BY Zenon, <1>0, <2>1, <2>2, OursBlock
  <2>4. OursTo(i, S2, Push(Parse("primary"), S1))
    BY Zenon, <1>0, <2>1, <2>2, OursStatement
  <2>5. OursTo(i, Push(Parse("primary"), S1), Push(Expect("Name"), Push(Node("name"), S1)))
    BY Zenon, <1>0, <2>1, <2>2, OursPrimary
  <2>6. LuaTo(i, Push(Parse("statlist"), T), Push(Expect("global"), T1))
    BY Zenon, <1>0, <2>1, <2>2, LuaStatlist
  <2>7. Fit(Parse("block"), Parse("statlist"))
    BY Zenon, FitsAre
  <2>8. Alike(Push(Parse("block"), S), Push(Parse("statlist"), T))
    BY Zenon, <2>7, <1>0, AlikeRules
  <2>9. Settles(Push(Node("name"), S1), T1)
    BY Zenon, <2>8, GlobalSettles
  <2>10. AgreeOn(i, Push(Expect("Name"), Push(Node("name"), S1)), Push(Expect("global"), T1))
    BY Zenon, <1>0, <2>1, <2>2, <2>9, EatName
  <2>11. AgreeOn(i, Push(Parse("primary"), S1), Push(Expect("global"), T1))
    BY Zenon, <2>5, <2>10, AgreeOurs
  <2>12. AgreeOn(i, S2, Push(Expect("global"), T1))
    BY Zenon, <2>4, <2>11, AgreeOurs
  <2>13. AgreeOn(i, Push(Parse("block"), S), Push(Expect("global"), T1))
    BY Zenon, <2>3, <2>12, AgreeOurs
  <2>14. AgreeOn(i, Push(Parse("block"), S), Push(Parse("statlist"), T))
    BY Zenon, <2>6, <2>13, AgreeLua
  <2> QED BY Zenon, <2>14
<1>18. CASE t \in Simple
  <2> DEFINE S1 == Push(Parse("statement"), Push(Parse("block"), S))
             S2 == Push(Parse("assign_or_call"), Push(Parse("block"), S))
             T1 == Push(Parse("exprstat"), Push(Parse("statlist"), T))
             S3 == Push(Parse("suffixes"), S2)
             T2 == Push(Parse("suffixedexp"), T1)
             S4 == Push(Expect(t), Push(Node(t), S3))
  <2>1. (t \notin BlockEnds /\ t # SemiMark /\ t # "return")
            /\ (t # "local" /\ t # "function" /\ t # "do" /\ t # "while" /\ t # "repeat" /\ t # "if"
            /\ t # "for" /\ t # "goto" /\ t # "::" /\ t # "break") /\ t \in Simple
            /\ (t \notin BlockEnds /\ t # "return" /\ t # SemiMark /\ t # "if" /\ t # "while" /\ t # "do"
            /\ t # "for" /\ t # "repeat" /\ t # "function" /\ t # "local" /\ t # "::" /\ t # "goto"
            /\ t # "break" /\ t # "global") /\ (t \in Simple \/ t = OpenBrace \/ t = "function")
            /\ Fits(Head(i), t) /\ t \in Vocabulary
    BY <1>0, <1>18, MarksDiffer, WordsHere DEF PlainTokens, Names, Simple, UnaryOps, BlockEnds, Fits
  <2>2. Push(Parse("block"), S) \in Stack /\ S3 \in Stack /\ T2 \in Stack /\ Push(Node(t), S3) \in Stack
    BY <1>0, SymbolsIn, WordSymbols, LeafIn, OnIs
  <2>3. OursTo(i, Push(Parse("block"), S), S1)
    BY Zenon, <1>0, <2>1, <2>2, OursBlock
  <2>4. OursTo(i, S1, Push(Parse("primary"), S3))
    BY Zenon, <1>0, <2>1, <2>2, OursStatement
  <2>5. OursTo(i, Push(Parse("primary"), S3), S4)
    BY Zenon, <1>0, <2>1, <2>2, OursPrimary
  <2>6. LuaTo(i, Push(Parse("statlist"), T), Push(Parse("primaryexp"), T2))
    BY Zenon, <1>0, <2>1, <2>2, LuaStatlist
  <2>7. LuaNoVariable(i, Push(Parse("primaryexp"), T2))
    BY Zenon, <1>0, <2>1, <2>2, LuaPrimaryexp
  <2>8. Fit(Parse("block"), Parse("statlist"))
    BY Zenon, FitsAre
  <2>9. Alike(Push(Parse("block"), S), Push(Parse("statlist"), T))
    BY Zenon, <2>8, <1>0, AlikeRules
  <2>10. Fit(Parse("assign_or_call"), Parse("exprstat"))
    BY Zenon, FitsAre
  <2>11. Alike(S2, T1)
    BY Zenon, <2>10, <2>9, AlikeRules
  <2>12. Settles(S3, T2)
    BY Zenon, <2>11, ShapesSettle
  <2>13. NodeLike(Node(t))
    BY Zenon, <1>0, NodesLike
  <2>14. S3 \in Stack /\ T2 \in Stack
    BY <1>0, SymbolsIn, OnIs
  <2>15. Settles(Push(Node(t), S3), Push(Node(t), T2))
    BY Zenon, <2>12, <2>13, <2>14, SettleNode
  <2>16. OursRun(i, S4)
    BY Zenon, <1>0, <2>1, <2>2, <2>15, EatOurs
  <2>17. AgreeOn(i, S4, Push(Parse("primaryexp"), T2))
    BY Zenon, <2>16, <2>7, AgreeNoVariable
  <2>18. AgreeOn(i, Push(Parse("primary"), S3), Push(Parse("primaryexp"), T2))
    BY Zenon, <2>5, <2>17, AgreeOurs
  <2>19. AgreeOn(i, S1, Push(Parse("primaryexp"), T2))
    BY Zenon, <2>4, <2>18, AgreeOurs
  <2>20. AgreeOn(i, Push(Parse("block"), S), Push(Parse("primaryexp"), T2))
    BY Zenon, <2>3, <2>19, AgreeOurs
  <2>21. AgreeOn(i, Push(Parse("block"), S), Push(Parse("statlist"), T))
    BY Zenon, <2>6, <2>20, AgreeLua
  <2> QED BY Zenon, <2>21
<1>19. CASE t # "if" /\ t \notin BlockEnds /\ t # "do" /\ t # "while" /\ t # "repeat" /\ t # "for"
           /\ t # "function" /\ t # "local" /\ t # "return" /\ t # "break" /\ t # "goto" /\ t # "("
           /\ t # OpenBrace /\ t # SemiMark /\ t # "::" /\ ~(t \in Names /\ t # "global") /\ t # "global"
           /\ t \notin Simple
  <2> DEFINE S1 == Push(Parse("suffixes"), Push(Parse("assign_or_call"), Push(Parse("block"), S)))
             S2 == Push(Parse("statement"), Push(Parse("block"), S))
             T1 == Push(Parse("suffixedexp"), Push(Parse("exprstat"), Push(Parse("statlist"), T)))
             T2 == Push(Parse("primaryexp"), T1)
  <2>1. (t \notin BlockEnds /\ t # SemiMark /\ t # "return")
            /\ (t # "local" /\ t # "function" /\ t # "do" /\ t # "while" /\ t # "repeat" /\ t # "if"
            /\ t # "for" /\ t # "goto" /\ t # "::" /\ t # "break")
            /\ (t \notin Simple /\ t \notin Names /\ t # "(" /\ t # OpenBrace /\ t # "function")
            /\ (t \notin BlockEnds /\ t # "return" /\ t # SemiMark /\ t # "if" /\ t # "while" /\ t # "do"
            /\ t # "for" /\ t # "repeat" /\ t # "function" /\ t # "local" /\ t # "::" /\ t # "goto"
            /\ t # "break" /\ t # "global")
            /\ (t \notin Names /\ t \notin Simple /\ t # "(" /\ t # OpenBrace /\ t # "function"
            /\ t # LineParen)
    BY <1>0, <1>19, MarksDiffer, WordsHere DEF PlainTokens, Names, Simple, UnaryOps, BlockEnds, Fits
  <2>2. Push(Parse("block"), S) \in Stack /\ S1 \in Stack /\ T1 \in Stack
    BY <1>0, SymbolsIn, OnIs
  <2>3. OursTo(i, Push(Parse("block"), S), S2)
    BY Zenon, <1>0, <2>1, <2>2, OursBlock
  <2>4. OursTo(i, S2, Push(Parse("primary"), S1))
    BY Zenon, <1>0, <2>1, <2>2, OursStatement
  <2>5. OursNo(i, Push(Parse("primary"), S1))
    BY Zenon, <1>0, <2>1, <2>2, OursPrimary
  <2>6. LuaTo(i, Push(Parse("statlist"), T), T2)
    BY Zenon, <1>0, <2>1, <2>2, LuaStatlist
  <2>7. LuaNo(i, T2)
    BY Zenon, <1>0, <2>1, <2>2, LuaPrimaryexp
  <2>8. AgreeOn(i, Push(Parse("primary"), S1), T2)
    BY Zenon, <2>5, <2>7, AgreeNo
  <2>9. AgreeOn(i, S2, T2)
    BY Zenon, <2>4, <2>8, AgreeOurs
  <2>10. AgreeOn(i, Push(Parse("block"), S), T2)
    BY Zenon, <2>3, <2>9, AgreeOurs
  <2>11. AgreeOn(i, Push(Parse("block"), S), Push(Parse("statlist"), T))
    BY Zenon, <2>6, <2>10, AgreeLua
  <2> QED BY Zenon, <2>11
<1> QED BY Zenon, <1>1, <1>2, <1>3, <1>4, <1>5, <1>6, <1>7, <1>8, <1>9, <1>10, <1>11, <1>12, <1>13, <1>14,
           <1>15, <1>16, <1>17, <1>18, <1>19

-----------------------------------------------------------------------------
(* Stacks that are alike agree on every token.                             *)
(* The token is expected on both sides.                                    *)
LEMMA AgreeExpect ==
    \A i, u, A, B : Input(i) /\ u \in Closers /\ A \in Stack /\ B \in Stack /\ Settles(A, B)
                    => AgreeOn(i, Push(Expect(u), A), Push(Expect(u), B))
<1> SUFFICES ASSUME NEW i, NEW u, NEW A, NEW B, Input(i), u \in Closers, A \in Stack, B \in Stack,
                        Settles(A, B)
             PROVE  AgreeOn(i, Push(Expect(u), A), Push(Expect(u), B))
  OBVIOUS
<1>1. u \in Vocabulary
  BY ClosersIn
<1>2. CASE ~Fits(Head(i), u)
  BY Zenon, <1>1, <1>2, OursMismatch, LuaMismatch, AgreeNo
<1>3. CASE Fits(Head(i), u)
  BY Zenon, <1>1, <1>3, InputIs, Consume
<1> QED BY <1>2, <1>3

(* The end of the text, where valua stops and Lua reads `eof`.             *)
LEMMA AgreeEnd == \A i : Input(i) => AgreeOn(i, Push(Parse("rest"), <<>>), Push(Expect("eof"), <<>>))
<1> SUFFICES ASSUME NEW i, Input(i), NEW c, NEW r, NEW q, Near(c, r, q)
             PROVE  Verdict(c, i, ReadOurs(i, Push(Parse("rest"), <<>>), r),
                        ReadLua(i, Push(Expect("eof"), <<>>), q))
  BY DEF AgreeOn
<1> DEFINE E == <<>>
<1>1. /\ i \in Tokens55 /\ i # <<>> /\ E \in Stack /\ E \in Tokens55 /\ r \in Regs /\ q \in Regs
      /\ Tail(i) = E
  BY InputIs, EmptyIn, NearIn
<1>2. "eof" \in Vocabulary
  BY TokensAre, VocabularyIs
<1>3. Spoke(q, "eof") \in Regs /\ Spoke(q, "eof").tree = q.tree
  BY <1>1, RegsIn
<1>4. Akin(c, r, Spoke(q, "eof"))
  BY <1>1, <1>3 DEF Near, Akin
<1> HIDE DEF E
<1>5. ReadOurs(i, Push(Parse("rest"), E), r) = M(i, <<>>, r)
  <2>1. OursTo(i, Push(Parse("rest"), E), E)
    BY Zenon, <1>1, OursRest
  <2>2. ReadOurs(i, Push(Parse("rest"), E), r) = ReadOurs(i, E, r)
    BY Zenon, <1>1, <2>1 DEF OursTo
  <2>3. ReadOurs(i, <<>>, r) = M(i, <<>>, r)
    BY <1>1, BothGo
  <2> QED BY Zenon, <2>2, <2>3 DEF E
<1>6. CASE Head(i) = "eof"
  <2>1. Fits(Head(i), "eof")
    BY <1>1, <1>6 DEF Fits
  <2>2. ReadLua(i, Push(Expect("eof"), E), q) = ReadLua(Tail(i), E, Spoke(q, "eof"))
    BY <1>1, <1>2, <2>1, LuaExpects
  <2>3. ReadLua(E, <<>>, Spoke(q, "eof")) = M(E, <<>>, Spoke(q, "eof"))
    BY <1>1, <1>3, BothGo
  <2>4. ReadLua(i, Push(Expect("eof"), E), q) = M(<<>>, <<>>, Spoke(q, "eof"))
    BY Zenon, <1>1, <2>2, <2>3 DEF E
  <2>5. Finished(c, i, ReadOurs(i, Push(Parse("rest"), E), r), ReadLua(i, Push(Expect("eof"), E), q))
    BY Zenon, <1>4, <1>5, <2>4 DEF Finished
  <2> QED BY Zenon, <1>6, <2>5 DEF Verdict, E
<1>7. CASE Head(i) # "eof"
  <2>1. ~Fits(Head(i), "eof")
    BY <1>1, <1>7 DEF Fits
  <2>2. ReadLua(i, Push(Expect("eof"), E), q) = Refusal("none")
    BY <1>1, <1>2, <2>1, LuaExpects
  <2> QED BY Zenon, <1>1, <1>5, <1>7, <2>2 DEF Verdict, E
<1> QED BY <1>6, <1>7

LEMMA AgreeConst ==
    ASSUME NEW i, Input(i), NEW S, NEW T, Alike(S, T), Head(i) # "close"
    PROVE  AgreeOn(i, Push(Parse("attribute_name"), S),
               Push(Expect("const"), Push(Expect(">"), Push(Node("const"), T))))
<1> DEFINE t == Head(i)
<1>0. /\ i \in Tokens55 /\ i # <<>> /\ t = Head(i) /\ t \in TokenKinds /\ t \in Vocabulary /\ t # "close"
      /\ S \in Stack /\ T \in Stack /\ Input(i)
  BY InputIs, AlikeIn
<1> HIDE DEF t
<1>a. "const" \in Vocabulary /\ Push(Expect(">"), Push(Node("const"), S)) \in Stack
          /\ Push(Expect(">"), Push(Node("const"), T)) \in Stack /\ Push(Node("const"), S) \in Stack
          /\ Push(Node("const"), T) \in Stack
  BY <1>0, SymbolsIn, OnIs, WordsHere
<1>1. CASE t = "const"
  <2> DEFINE S1 == Push(Expect(">"), Push(Node("const"), S))
  <2>1. OursTo(i, Push(Parse("attribute_name"), S), Push(Expect(t), Push(Expect(">"), Push(Node(t), S))))
    BY Zenon, <1>0, <1>1, OursAttributeName
  <2>2. OursTo(i, Push(Parse("attribute_name"), S), Push(Expect("const"), S1))
    BY Zenon, <1>1, <2>1
  <2>3. Settles(S1, Push(Expect(">"), Push(Node("const"), T)))
    <3>1. NodeLike(Node("const"))
      BY NodesLike, KindsIn
    <3>2. Joint(Push(Node("const"), S), Push(Node("const"), T))
      BY Zenon, <3>1, BaresAre, JointsAre
    <3> QED BY Zenon, <3>2, ClosersAre, AlikeRules, AlikeSettles
  <2>4. "const" = Head(i)
    BY <1>0, <1>1
  <2>5. AgreeOn(i, Push(Expect("const"), S1),
            Push(Expect("const"), Push(Expect(">"), Push(Node("const"), T))))
    BY Zenon, <1>0, <1>a, <2>3, <2>4, EatBoth
  <2> QED BY Zenon, <2>2, <2>5, AgreeOurs
<1>2. CASE t # "const"
  <2>1. OursNo(i, Push(Parse("attribute_name"), S))
    BY Zenon, <1>0, <1>2, OursAttributeName
  <2>2. ~Fits(Head(i), "const")
    BY <1>0, <1>2 DEF Fits
  <2>3. LuaNo(i, Push(Expect("const"), Push(Expect(">"), Push(Node("const"), T))))
    BY Zenon, <1>0, <1>a, <2>2, LuaMismatch
  <2> QED BY Zenon, <2>1, <2>3, AgreeNo
<1> QED BY <1>1, <1>2

(* What follows the name `global` and starts no declaration.               *)
LEMMA AgreeGlobal ==
    ASSUME NEW i, Input(i), NEW S, NEW T, Alike(S, T), AgreeOn(i, S, T),
           Head(i) \notin Names /\ Head(i) # "<" /\ Head(i) # "*" /\ Head(i) # "function"
    PROVE  AgreeOn(i, Push(Parse("suffixes"), Push(Parse("assign_or_call"), S)),
               Push(Parse("globalstat"), T))
<1> DEFINE t == Head(i)
<1>0. /\ t = Head(i) /\ i \in Tokens55 /\ i # <<>> /\ t \notin Names /\ t # "<" /\ t # "*"
           /\ t # "function"
      /\ S \in Stack /\ T \in Stack
  BY InputIs, AlikeIn
<1> HIDE DEF t
<1>1. LuaTo(i, Push(Parse("globalstat"), T), Push(Parse("suffixedexp"), Push(Parse("exprstat"), T)))
  BY Zenon, <1>0, LuaGlobalstat
<1>2. AgreeOn(i, Push(Parse("assign_or_call"), S), Push(Parse("exprstat"), T))
  BY AgreeAssignOrCall
<1>3. Alike(Push(Parse("assign_or_call"), S), Push(Parse("exprstat"), T))
  <2>1. Fit(Parse("assign_or_call"), Parse("exprstat"))
    BY Zenon, FitsAre
  <2> QED BY Zenon, <2>1, AlikeRules
<1>4. AgreeOn(i, Push(Parse("suffixes"), Push(Parse("assign_or_call"), S)),
          Push(Parse("suffixedexp"), Push(Parse("exprstat"), T)))
  BY Zenon, <1>2, <1>3, AgreeSuffixes
<1> QED BY Zenon, <1>1, <1>4, AgreeLua

(* Nodes and matched words on stacks that are alike settle.                *)
LEMMA JointSettles == \A A, B : Joint(A, B) => Settles(A, B) /\ A \in Stack /\ B \in Stack
<1>1. ASSUME NEW A, NEW B, JointHere(A, B) PROVE Settles(A, B) /\ A \in Stack /\ B \in Stack
  <2>1. PICK S, T : Alike(S, T) /\ Matched(A, B, S, T)
    BY <1>1 DEF JointHere
  <2>2. A \in Stack /\ B \in Stack
    BY <2>1, AlikeIn, BareIn
  <2>3. Settles(S, T)
    BY <2>1, AlikeSettles
  <2>4. /\ \A op : op \in LeftOf
             => Settles(Push(Parse("unary"), Push(Climb(op), S)),
             Push(Parse("subexpr"), Push(Climb(op), T)))
        /\ \A op : op \in LeftOf => Settles(Push(Parse("suffixes"), Push(Climb(op), S)), Push(Climb(op), T))
        /\ Settles(Push(Parse("suffixes"), S), Push(Parse("suffixedexp"), T))
        /\ Settles(Push(Parse("suffixes"), S), Push(Parse("discharge"), Push(Parse("suffixedexp"), T)))
        /\ Settles(Push(Parse("primary"), Push(Parse("suffixes"), S)),
             Push(Parse("primaryexp"), Push(Parse("suffixedexp"), T)))
        /\ Settles(Push(Parse("attribute_name"), S), Push(Parse("attname"), T))
        /\ Settles(Push(Parse("attribute_name"), S),
             Push(Expect("const"), Push(Expect(">"), Push(Node("const"), T))))
        /\ Settles(Push(Expect(")"), S), Push(Parse("vararg_name"), Push(Expect(")"), T)))
        /\ Settles(Push(Parse("local"), S), Push(Parse("localstat"), T))
        /\ Settles(Push(Parse("fields"), S), Push(Parse("constructor"), T))
        /\ Settles(Push(Parse("args"), S), Push(Parse("args"), T))
        /\ Settles(Push(Parse("values"), S), Push(Parse("retstat"), T))
        /\ Settles(Push(Parse("for"), S), Push(Parse("forstat"), T))
        /\ Settles(Push(Parse("named_field"), S), Push(Parse("recfield"), T))
        /\ Settles(Push(Parse("params"), Push(Expect(")"), S)),
             Push(Parse("parlist"), Push(Expect(")"), T)))
        /\ Settles(Push(Parse("param"), Push(Expect(")"), S)),
             Push(Parse("parameter"), Push(Expect(")"), T)))
        /\ Settles(Push(Parse("call_args"), Push(Node("method_call"), Push(Parse("suffixes"), S))),
             Push(Parse("funcargs"), Push(Node("method_call"), Push(Parse("suffixedexp"), T))))
    BY Zenon, <2>1, ShapesSettle
  <2> QED BY <2>1, <2>2, <2>3, <2>4 DEF Matched
<1>2. ASSUME NEW a, NEW A, NEW B, NodeLike(a), Settles(A, B), A \in Stack, B \in Stack
      PROVE  Settles(Push(a, A), Push(a, B)) /\ Push(a, A) \in Stack /\ Push(a, B) \in Stack
  <2>1. a \in Symbols
    BY <1>2 DEF NodeLike
  <2> QED BY <1>2, <2>1, SettleNode, OnIs
<1> SUFFICES ASSUME NEW A, NEW B, Joint(A, B) PROVE Settles(A, B) /\ A \in Stack /\ B \in Stack
  OBVIOUS
<1>3. CASE JointHere(A, B)
  BY Zenon, <1>1, <1>3
<1>4. CASE \E a, X, Y : NodeLike(a) /\ JointHere(X, Y) /\ A = Push(a, X) /\ B = Push(a, Y)
  <2>1. PICK a, X, Y : NodeLike(a) /\ JointHere(X, Y) /\ A = Push(a, X) /\ B = Push(a, Y)
    BY Zenon, <1>4
  <2>2. Settles(X, Y) /\ X \in Stack /\ Y \in Stack
    BY Zenon, <1>1, <2>1
  <2> QED BY Zenon, <1>2, <2>1, <2>2
<1>5. CASE \E a, b, X, Y : NodeLike(a) /\ NodeLike(b) /\ JointHere(X, Y) /\ A = Push(a, Push(b, X))
          /\ B = Push(a, Push(b, Y))
  <2>1. PICK a, b, X, Y : NodeLike(a) /\ NodeLike(b) /\ JointHere(X, Y) /\ A = Push(a, Push(b, X))
            /\ B = Push(a, Push(b, Y))
    BY Zenon, <1>5
  <2>2. Settles(X, Y) /\ X \in Stack /\ Y \in Stack
    BY Zenon, <1>1, <2>1
  <2>3. Settles(Push(b, X), Push(b, Y)) /\ Push(b, X) \in Stack /\ Push(b, Y) \in Stack
    BY Zenon, <1>2, <2>1, <2>2
  <2> QED BY Zenon, <1>2, <2>1, <2>3
<1> QED BY Zenon, <1>3, <1>4, <1>5 DEF Joint

(* Symbols that fit agree, if what is below them does.                     *)
LEMMA FitAgrees ==
    ASSUME NEW i, Input(i), NEW a, NEW b, Fit(a, b), NEW S, NEW T, Alike(S, T), AgreeOn(i, S, T)
    PROVE  AgreeOn(i, Push(a, S), Push(b, T))
<1>0. S \in Stack /\ T \in Stack
  BY AlikeIn
<1>1. CASE NodeLike(a) /\ b = a
  BY Zenon, <1>0, <1>1, AgreeNode
<1>2. CASE \E op \in LeftOf : a = Climb(op) /\ b = Climb(op)
  BY Zenon, <1>2, AgreeClimb
<1>3. CASE a = Parse("block") /\ b = Parse("statlist")
  <2>1. AgreeOn(i, Push(Parse("block"), S), Push(Parse("statlist"), T))
    BY AgreeBlock
  <2> QED BY Zenon, <1>3, <2>1
<1>4. CASE a = Parse("semicolon") /\ b = Parse("semicolon")
  <2>1. AgreeOn(i, Push(Parse("semicolon"), S), Push(Parse("semicolon"), T))
    BY AgreeSemicolon
  <2> QED BY Zenon, <1>4, <2>1
<1>5. CASE a = Parse("more_exprs") /\ b = Parse("explist")
  <2>1. AgreeOn(i, Push(Parse("more_exprs"), S), Push(Parse("explist"), T))
    BY AgreeMoreExprs
  <2> QED BY Zenon, <1>5, <2>1
<1>6. CASE a = Parse("initializer") /\ b = Parse("init")
  <2>1. AgreeOn(i, Push(Parse("initializer"), S), Push(Parse("init"), T))
    BY AgreeInitializer
  <2> QED BY Zenon, <1>6, <2>1
<1>7. CASE a = Parse("attribute") /\ b = Parse("attrib")
  <2>1. AgreeOn(i, Push(Parse("attribute"), S), Push(Parse("attrib"), T))
    BY AgreeAttribute
  <2> QED BY Zenon, <1>7, <2>1
<1>8. CASE a = Parse("more_names") /\ b = Parse("attnamelist")
  <2>1. AgreeOn(i, Push(Parse("more_names"), S), Push(Parse("attnamelist"), T))
    BY AgreeMoreNames
  <2> QED BY Zenon, <1>8, <2>1
<1>9. CASE a = Parse("attribute") /\ b = Parse("closed")
  <2>1. AgreeOn(i, Push(Parse("attribute"), S), Push(Parse("closed"), T))
    BY AgreeClosed
  <2> QED BY Zenon, <1>9, <2>1
<1>10. CASE a = Parse("more_names") /\ b = Parse("closedlist")
  <2>1. AgreeOn(i, Push(Parse("more_names"), S), Push(Parse("closedlist"), T))
    BY AgreeClosedNames
  <2> QED BY Zenon, <1>10, <2>1
<1>11. CASE a = Parse("for_names") /\ b = Parse("forlist")
  <2>1. AgreeOn(i, Push(Parse("for_names"), S), Push(Parse("forlist"), T))
    BY AgreeForNames
  <2> QED BY Zenon, <1>11, <2>1
<1>12. CASE a = Parse("step") /\ b = Parse("fornum")
  <2>1. AgreeOn(i, Push(Parse("step"), S), Push(Parse("fornum"), T))
    BY AgreeStep
  <2> QED BY Zenon, <1>12, <2>1
<1>13. CASE a = Parse("else_clauses") /\ b = Parse("test_then")
  <2>1. AgreeOn(i, Push(Parse("else_clauses"), S), Push(Parse("test_then"), T))
    BY AgreeElseClauses
  <2> QED BY Zenon, <1>13, <2>1
<1>14. CASE a = Parse("name_parts") /\ b = Parse("funcname")
  <2>1. AgreeOn(i, Push(Parse("name_parts"), S), Push(Parse("funcname"), T))
    BY AgreeNameParts
  <2> QED BY Zenon, <1>14, <2>1
<1>15. CASE a = Parse("separator") /\ b = Parse("fieldsep")
  <2>1. AgreeOn(i, Push(Parse("separator"), S), Push(Parse("fieldsep"), T))
    BY AgreeSeparator
  <2> QED BY Zenon, <1>15, <2>1
<1>16. CASE a = Parse("assign_or_call") /\ b = Parse("exprstat")
  <2>1. AgreeOn(i, Push(Parse("assign_or_call"), S), Push(Parse("exprstat"), T))
    BY AgreeAssignOrCall
  <2> QED BY Zenon, <1>16, <2>1
<1> QED BY Zenon, <1>1, <1>2, <1>3, <1>4, <1>5, <1>6, <1>7, <1>8, <1>9, <1>10, <1>11, <1>12, <1>13, <1>14,
           <1>15, <1>16 DEF Fit

(* The pairs of stacks that agree on the token.                            *)
Holding(i) == {p \in AlikePairs : AgreeOn(i, p[1], p[2])}

LEMMA InHolding == \A i, S, T : In(Holding(i), S, T) <=> Alike(S, T) /\ AgreeOn(i, S, T)
BY AlikeIn DEF In, Holding, AlikePairs

LEMMA BesideHolding == \A i, A, B : Beside(Holding(i), A, B) => Joint(A, B)
<1>1. \A i, A, B : BareOf(Holding(i), A, B) => JointHere(A, B)
  BY Zenon, InHolding DEF BareOf, JointHere
<1> QED BY Zenon, <1>1 DEF Beside, Joint

LEMMA SegmentsAgree ==
    \A i, S, T : Input(i) /\ Alike(S, T) =>
      /\ AgreeOn(i, Push(Parse("targets"),
           Push(Expect("="), Push(Parse("unary"),
           Push(Climb("none"), Push(Parse("more_exprs"), Push(Node("assign"), S)))))),
           Push(Parse("restassign"), T))
      /\ AgreeOn(i, Push(Parse("more_params"), Push(Expect(")"), S)),
           Push(Parse("morepars"), Push(Expect(")"), T)))
      /\ AgreeOn(i, Push(Expect("("), Push(Parse("params"), Push(Expect(")"), S))),
           Push(Expect("("), Push(Parse("parlist"), Push(Expect(")"), T))))
BY Zenon, AgreeTargets, AgreeMoreParams, AgreeOpening

(* Stacks that are alike agree on every token.                             *)
LEMMA AlikeAgree == \A i, S, T : Input(i) /\ Alike(S, T) => AgreeOn(i, S, T)
<1> SUFFICES ASSUME NEW i, Input(i) PROVE \A S, T : Alike(S, T) => AgreeOn(i, S, T)
  BY Zenon
<1>1. In(Holding(i), Push(Parse("rest"), <<>>), Push(Expect("eof"), <<>>))
  BY Zenon, AlikeRules, AgreeEnd, InHolding
<1>2. ASSUME NEW a, NEW b, NEW S, NEW T, Fit(a, b), In(Holding(i), S, T)
                 PROVE In(Holding(i), Push(a, S), Push(b, T))
  <2>1. Alike(S, T) /\ AgreeOn(i, S, T)
    BY Zenon, <1>2, InHolding
  <2>2. Alike(Push(a, S), Push(b, T))
    BY Zenon, <1>2, <2>1, AlikeRules
  <2>3. AgreeOn(i, Push(a, S), Push(b, T))
    BY <1>2, <2>1, FitAgrees
  <2> QED BY Zenon, <2>2, <2>3, InHolding
<1>3. ASSUME NEW S, NEW T, In(Holding(i), S, T)
      PROVE  /\ In(Holding(i), Push(Parse("targets"),
                  Push(Expect("="), Push(Parse("unary"),
                  Push(Climb("none"), Push(Parse("more_exprs"), Push(Node("assign"), S)))))),
                  Push(Parse("restassign"), T))
             /\ In(Holding(i), Push(Parse("more_params"), Push(Expect(")"), S)),
                  Push(Parse("morepars"), Push(Expect(")"), T)))
             /\ In(Holding(i), Push(Expect("("), Push(Parse("params"), Push(Expect(")"), S))),
                  Push(Expect("("), Push(Parse("parlist"), Push(Expect(")"), T))))
  <2>1. Alike(S, T)
    BY Zenon, <1>3, InHolding
  <2>2. /\ Alike(Push(Parse("targets"),
             Push(Expect("="), Push(Parse("unary"),
             Push(Climb("none"), Push(Parse("more_exprs"), Push(Node("assign"), S)))))),
             Push(Parse("restassign"), T))
        /\ Alike(Push(Parse("more_params"), Push(Expect(")"), S)),
             Push(Parse("morepars"), Push(Expect(")"), T)))
        /\ Alike(Push(Expect("("), Push(Parse("params"), Push(Expect(")"), S))),
             Push(Expect("("), Push(Parse("parlist"), Push(Expect(")"), T))))
    BY Zenon, <2>1, AlikeRules
  <2>3. In(Holding(i), Push(Parse("targets"),
            Push(Expect("="), Push(Parse("unary"),
            Push(Climb("none"), Push(Parse("more_exprs"), Push(Node("assign"), S)))))),
            Push(Parse("restassign"), T))
    BY Zenon, <2>1, <2>2, SegmentsAgree, InHolding
  <2>4. In(Holding(i), Push(Parse("more_params"), Push(Expect(")"), S)),
            Push(Parse("morepars"), Push(Expect(")"), T)))
    BY Zenon, <2>1, <2>2, SegmentsAgree, InHolding
  <2>5. In(Holding(i), Push(Expect("("), Push(Parse("params"), Push(Expect(")"), S))),
            Push(Expect("("), Push(Parse("parlist"), Push(Expect(")"), T))))
    BY Zenon, <2>1, <2>2, SegmentsAgree, InHolding
  <2> QED BY Zenon, <2>3, <2>4, <2>5
<1>4. ASSUME NEW u, NEW A, NEW B, u \in Closers, Beside(Holding(i), A, B)
                 PROVE In(Holding(i), Push(Expect(u), A), Push(Expect(u), B))
  <2>1. Joint(A, B)
    BY Zenon, <1>4, BesideHolding
  <2>2. Alike(Push(Expect(u), A), Push(Expect(u), B))
    BY Zenon, <1>4, <2>1, AlikeRules
  <2>3. A \in Stack /\ B \in Stack /\ Settles(A, B)
    BY Zenon, <2>1, JointSettles
  <2> QED BY Zenon, <1>4, <2>2, <2>3, AgreeExpect, InHolding
<1>5. Closed(Holding(i))
  BY Zenon, <1>1, <1>2, <1>3, <1>4 DEF Closed
<1> QED BY Zenon, <1>5, InHolding DEF Alike

-----------------------------------------------------------------------------
(* Comparing the trees: of the two, what both have is dropped.             *)

(* Of sequences that are not too long, one is the longest.                 *)
Longest(k) == \A C : C # {} /\ (\A p \in C : Len(p) \in 0..k) => \E p \in C : \A o \in C : Len(o) <= Len(p)

(* By induction on the bound.                                              *)
LEMMA LongestIn == \A n \in Nat : Longest(n)
<1> DEFINE S == {n \in Nat : Longest(n)}
<1>1. 0 \in S
  BY DEF Longest
<1>2. ASSUME NEW n \in Nat, n \in S PROVE n + 1 \in S
  <2>1. Longest(n)
    BY <1>2
  <2> SUFFICES ASSUME NEW C, C # {}, \A p \in C : Len(p) \in 0..(n + 1)
                          PROVE \E p \in C : \A o \in C : Len(o) <= Len(p)
    BY DEF Longest
  <2>2. CASE \E p \in C : Len(p) = n + 1
    BY <2>2
  <2>3. CASE \A p \in C : Len(p) \in 0..n
    BY <2>1, <2>3 DEF Longest
  <2>4. \A p \in C : Len(p) # n + 1 => Len(p) \in 0..n
    OBVIOUS
  <2> QED BY <2>2, <2>3, <2>4
<1> HIDE DEF S
<1>3. Nat \subseteq S
  BY <1>1, <1>2, SetInduction
<1> QED BY <1>3 DEF S

LEMMA CommonIn ==
    ASSUME NEW a \in Stack, NEW b \in Stack
    PROVE  /\ LongestCommonPrefix({a, b}) \in CommonPrefixes({a, b})
           /\ \A p \in CommonPrefixes({a, b}) : Len(p) <= Len(LongestCommonPrefix({a, b})) /\ Len(p) \in Nat
                                                /\ Len(p) <= Len(a) /\ Len(p) <= Len(b)
<1> DEFINE C == CommonPrefixes({a, b})
<1>1. Len(a) \in Nat /\ Len(b) \in Nat
  BY LenProperties DEF Stack
<1>2. ASSUME NEW p \in C PROVE Len(p) \in Nat /\ Len(p) <= Len(a) /\ Len(p) <= Len(b)
  <2>1. PICK s \in {a, b} : p \in Prefixes(s)
    BY DEF CommonPrefixes
  <2>2. PICK l \in 0..Len(s) : p = SubSeq(s, 1, l)
    BY <2>1 DEF Prefixes
  <2>3. s \in Seq(Symbols) /\ 1 \in 1..(Len(s) + 1) /\ l \in 0..Len(s)
    BY <1>1, <2>2 DEF Stack
  <2>4. Len(p) \in Nat
    BY <2>2, <2>3, <1>1, SubSeqProperties, LenProperties
  <2>5. IsPrefix(p, a) /\ IsPrefix(p, b)
    BY DEF CommonPrefixes
  <2> QED BY <2>4, <2>5 DEF IsPrefix
<1>3. <<>> \in C
  <2>1. SubSeq(a, 1, 0) = <<>> /\ SubSeq(b, 1, 0) = <<>> /\ SubSeq(<<>>, 1, 0) = <<>> /\ Len(<<>>) = 0
    OBVIOUS
  <2>2. <<>> \in Prefixes(a)
    BY <1>1, <2>1 DEF Prefixes
  <2>3. IsPrefix(<<>>, a) /\ IsPrefix(<<>>, b)
    BY <1>1, <2>1 DEF IsPrefix
  <2> QED BY <2>2, <2>3 DEF CommonPrefixes
<1>4. \E p \in C : \A o \in C : Len(o) <= Len(p)
  <2> HIDE DEF C
  <2>1. C # {} /\ \A p \in C : Len(p) \in 0..Len(a)
    BY <1>1, <1>2, <1>3
  <2> QED BY <1>1, <2>1, LongestIn DEF Longest
<1>5. LongestCommonPrefix({a, b}) = CHOOSE p \in C : \A o \in C : Len(o) <= Len(p)
  BY DEF LongestCommonPrefix
<1>6. LongestCommonPrefix({a, b}) \in C /\ \A o \in C : Len(o) <= Len(LongestCommonPrefix({a, b}))
  <2> HIDE DEF C
  <2> QED BY Zenon, <1>4, <1>5
<1> QED BY <1>2, <1>6

(* Of the trees, what both have is dropped.                                *)
LEMMA CommonLength ==
    ASSUME NEW a \in Stack, NEW b \in Stack
    PROVE  LET n == Len(LongestCommonPrefix({a, b}))
           IN  n \in Nat /\ n <= Len(a) /\ n <= Len(b) /\ (a = b => n = Len(a))
<1>1. Len(LongestCommonPrefix({a, b})) \in Nat /\ Len(LongestCommonPrefix({a, b})) <= Len(a)
      /\ Len(LongestCommonPrefix({a, b})) <= Len(b)
  BY CommonIn
<1>2. ASSUME a = b PROVE Len(a) <= Len(LongestCommonPrefix({a, b}))
  <2>1. SubSeq(a, 1, Len(a)) = a /\ Len(a) \in Nat
    BY LenProperties DEF Stack
  <2>2. a \in Prefixes(a) /\ IsPrefix(a, a)
    <3>1. Len(a) \in 0..Len(a) /\ Len(a) <= Len(a)
      BY <2>1
    <3>2. a \in {SubSeq(a, 1, l) : l \in 0..Len(a)}
      BY Zenon, <2>1, <3>1
    <3> QED BY Zenon, <3>1, <3>2 DEF Prefixes, IsPrefix
  <2>3. a \in CommonPrefixes({a, b})
    BY <1>2, <2>2 DEF CommonPrefixes
  <2> QED BY <2>3, CommonIn
<1> QED BY <1>1, <1>2, LenProperties DEF Stack

Left(m, s) == [m EXCEPT !.tree = s]

(* What is left of the two trees: nothing once a side has refused.         *)
LEMMA CompareLeaves ==
    ASSUME NEW o \in Machines, NEW l \in Machines, Compare(o, l)
    PROVE  \E s, t : /\ s \in Stack /\ t \in Stack /\ ours' = Left(o, s) /\ lua' = Left(l, t)
                     /\ o.tree = l.tree => s = <<>> /\ t = <<>>
                     /\ o.tree = <<>> => s = <<>>
                     /\ l.tree = <<>> => t = <<>>
<1>1. o.tree \in Stack /\ l.tree \in Stack
  BY DEF Machines, Stack
<1>2. CASE Refused(o) \/ Refused(l)
  <2>1. ours' = Left(o, <<>>) /\ lua' = Left(l, <<>>)
    BY <1>2 DEF Compare, Left
  <2> QED BY <2>1, EmptyIn
<1>3. CASE ~(Refused(o) \/ Refused(l))
  <2> DEFINE n == Len(LongestCommonPrefix({o.tree, l.tree}))
             s == SubSeq(o.tree, n + 1, Len(o.tree))
             t == SubSeq(l.tree, n + 1, Len(l.tree))
  <2>1. n \in Nat /\ n <= Len(o.tree) /\ n <= Len(l.tree) /\ (o.tree = l.tree => n = Len(o.tree))
    BY <1>1, CommonLength
  <2>2. ours' = Left(o, s) /\ lua' = Left(l, t)
    BY <1>3 DEF Compare, Left
  <2> HIDE DEF n
  <2>3. ASSUME NEW a \in Stack, n <= Len(a)
        PROVE  SubSeq(a, n + 1, Len(a)) \in Stack /\ (n = Len(a) => SubSeq(a, n + 1, Len(a)) = <<>>)
    <3>1. Len(a) \in Nat /\ a \in Seq(Symbols)
      BY LenProperties DEF Stack
    <3> QED BY <2>1, <2>3, <3>1, SubSeqProperties DEF Stack
  <2>4. \A a : a \in Stack /\ a = <<>> => Len(a) = 0
    OBVIOUS
  <2>5. s \in Stack /\ t \in Stack
    BY <1>1, <2>1, <2>3
  <2>6. o.tree = l.tree => s = <<>> /\ t = <<>>
    BY <1>1, <2>1, <2>3
  <2>7. o.tree = <<>> => s = <<>>
    BY <1>1, <2>1, <2>3, <2>4
  <2>8. l.tree = <<>> => t = <<>>
    BY <1>1, <2>1, <2>3, <2>4
  <2> QED BY Zenon, <2>2, <2>5, <2>6, <2>7, <2>8
<1> QED BY <1>2, <1>3

-----------------------------------------------------------------------------
(* The odd constructs begin in few places: nowhere in stacks that are      *)
(* alike, only where Matched words meet.                                   *)
OddPlaces == {Expect("const"), Parse("localstat"), Parse("vararg_name"), Parse("globalstat")}

(* No odd construct begins where the stacks are alike.                     *)
Plain(S, T) == S # <<>> /\ T # <<>> /\ Head(S) # Parse("suffixes") /\ Head(T) \notin OddPlaces
Plains == {p \in AlikePairs : Plain(p[1], p[2])}

LEMMA InPlains == \A S, T : In(Plains, S, T) <=> Alike(S, T) /\ Plain(S, T)
BY AlikeIn DEF In, Plains, AlikePairs

LEMMA BesidePlains == \A A, B : Beside(Plains, A, B) => Joint(A, B)
<1>1. \A A, B : BareOf(Plains, A, B) => JointHere(A, B)
  BY Zenon, InPlains DEF BareOf, JointHere
<1> QED BY Zenon, <1>1 DEF Beside, Joint

PlainSymbols(a, b) == a # Parse("suffixes") /\ b \notin OddPlaces

LEMMA PushPlain == \A a, b, S, T : a \in Symbols /\ b \in Symbols /\ S \in Stack /\ T \in Stack
    /\ PlainSymbols(a, b)
                                   => Plain(Push(a, S), Push(b, T))
BY PushIs DEF Plain, PlainSymbols

LEMMA FitPlain == \A a, b : Fit(a, b) => PlainSymbols(a, b)
BY DEF Fit, NodeLike, Kind, PlainSymbols, OddPlaces, Expect, Parse, Climb

LEMMA CloserPlain == \A u : u \in Closers => PlainSymbols(Expect(u), Expect(u))
<1>1. CloseBrace # "const" /\ Comma # "const"
  BY PlainAre, MarksDiffer
<1> QED BY <1>1 DEF Closers, PlainSymbols, OddPlaces, Expect, Parse

(* So no stack that is alike to another has one of them on top.            *)
LEMMA AlikePlain == \A S, T : Alike(S, T) => Plain(S, T)
<1>1. In(Plains, Push(Parse("rest"), <<>>), Push(Expect("eof"), <<>>))
  <2>1. PlainSymbols(Parse("rest"), Expect("eof"))
    BY DEF PlainSymbols, OddPlaces, Expect, Parse
  <2> QED BY Zenon, <2>1, AlikeRules, EmptyIn, SymbolsIn, PushPlain, InPlains
<1>2. ASSUME NEW a, NEW b, NEW S, NEW T, Fit(a, b), In(Plains, S, T)
                 PROVE In(Plains, Push(a, S), Push(b, T))
  <2>1. Alike(S, T) /\ S \in Stack /\ T \in Stack
    BY Zenon, <1>2, InPlains, AlikeIn
  <2> QED BY Zenon, <1>2, <2>1, AlikeRules, FitIn, FitPlain, PushPlain, InPlains
<1>3. ASSUME NEW S, NEW T, In(Plains, S, T)
      PROVE  /\ In(Plains, Push(Parse("targets"),
                  Push(Expect("="), Push(Parse("unary"),
                  Push(Climb("none"), Push(Parse("more_exprs"), Push(Node("assign"), S)))))),
                  Push(Parse("restassign"), T))
             /\ In(Plains, Push(Parse("more_params"), Push(Expect(")"), S)),
                  Push(Parse("morepars"), Push(Expect(")"), T)))
             /\ In(Plains, Push(Expect("("), Push(Parse("params"), Push(Expect(")"), S))),
                  Push(Expect("("), Push(Parse("parlist"), Push(Expect(")"), T))))
  <2>1. Alike(S, T) /\ S \in Stack /\ T \in Stack
    BY Zenon, <1>3, InPlains, AlikeIn
  <2>2. /\ PlainSymbols(Parse("targets"), Parse("restassign"))
             /\ PlainSymbols(Parse("more_params"), Parse("morepars"))
        /\ PlainSymbols(Expect("("), Expect("("))
    BY DEF PlainSymbols, OddPlaces, Expect, Parse
  <2>3. /\ Push(Expect("="), Push(Parse("unary"),
             Push(Climb("none"), Push(Parse("more_exprs"), Push(Node("assign"), S))))) \in Stack
        /\ Push(Expect(")"), S) \in Stack /\ Push(Expect(")"), T) \in Stack
        /\ Push(Parse("params"), Push(Expect(")"), S)) \in Stack
             /\ Push(Parse("parlist"), Push(Expect(")"), T)) \in Stack
    BY <2>1, SymbolsIn, OnIs
  <2>4. In(Plains, Push(Parse("targets"),
            Push(Expect("="), Push(Parse("unary"),
            Push(Climb("none"), Push(Parse("more_exprs"), Push(Node("assign"), S)))))),
            Push(Parse("restassign"), T))
    BY Zenon, <2>1, <2>2, <2>3, AlikeRules, SymbolsIn, PushPlain, InPlains
  <2>5. In(Plains, Push(Parse("more_params"), Push(Expect(")"), S)),
            Push(Parse("morepars"), Push(Expect(")"), T)))
    BY Zenon, <2>1, <2>2, <2>3, AlikeRules, SymbolsIn, PushPlain, InPlains
  <2>6. In(Plains, Push(Expect("("), Push(Parse("params"), Push(Expect(")"), S))),
            Push(Expect("("), Push(Parse("parlist"), Push(Expect(")"), T))))
    BY Zenon, <2>1, <2>2, <2>3, AlikeRules, SymbolsIn, PushPlain, InPlains
  <2> QED BY Zenon, <2>4, <2>5, <2>6
<1>4. ASSUME NEW u, NEW A, NEW B, u \in Closers, Beside(Plains, A, B)
                 PROVE In(Plains, Push(Expect(u), A), Push(Expect(u), B))
  <2>1. Joint(A, B) /\ A \in Stack /\ B \in Stack
    BY Zenon, <1>4, BesidePlains, JointIn
  <2> QED BY Zenon, <1>4, <2>1, AlikeRules, ClosersIn, CloserPlain, PushPlain, InPlains
<1>5. Closed(Plains)
  BY Zenon, <1>1, <1>2, <1>3, <1>4 DEF Closed
<1> QED BY Zenon, <1>5, InPlains DEF Alike

-----------------------------------------------------------------------------
(* Where and at which token the two sides part by construction.            *)
Strange(A, B, t) ==
    \/ Head(A) = Parse("suffixes") /\ Head(B) \notin SuffixPlace /\ t \in SuffixStart
    \/ Head(B) = Expect("const") /\ t = "close"
    \/ Head(B) = Parse("localstat") /\ t = "<"
    \/ Head(B) = Parse("vararg_name") /\ t \in Names
    \/ Head(B) = Parse("globalstat") /\ t \in Names \cup {"<", "*", "function"}

LEMMA SuffixStartIs == \A t : t \in SuffixStart <=> t = "." \/ t = "[" \/ t = ":" \/ t = "("
    \/ t = "String" \/ t = OpenBrace
BY Zenon DEF SuffixStart, OpenBrace

ConstOnly(A, B) == \E S, T : Alike(S, T) /\ A = Push(Parse("attribute_name"), S)
    /\ B = Push(Expect("const"), Push(Expect(">"), Push(Node("const"), T)))
LocalOnly(A, B) == \E S, T : Alike(S, T) /\ A = Push(Parse("local"), S) /\ B = Push(Parse("localstat"), T)
VarargOnly(A, B) == \E S, T : Alike(S, T) /\ A = Push(Expect(")"), S)
    /\ B = Push(Parse("vararg_name"), Push(Expect(")"), T))

Places(A, B, a, b) == A # <<>> /\ B # <<>> /\ Head(A) = a /\ Head(B) = b

LEMMA PlacesAre == \A a, b, S, T : a \in Symbols /\ b \in Symbols /\ S \in Stack /\ T \in Stack
    => Places(Push(a, S), Push(b, T), a, b)
BY PushIs DEF Places

Where(A, B) ==
    /\ Head(B) = Expect("const") => ConstOnly(A, B)
    /\ Head(B) = Parse("localstat") => LocalOnly(A, B)
    /\ Head(B) = Parse("vararg_name") => VarargOnly(A, B)
    /\ Head(B) = Parse("globalstat") => Global(A, B)

LEMMA Nowhere == \A A, B, a, b : Places(A, B, a, b) /\ b \notin OddPlaces => Where(A, B)
BY DEF Places, OddPlaces, Where

-----------------------------------------------------------------------------
(* Which those places are.                                                 *)
OnlyAt(b, A, B) ==
    \/ b = Expect("const") /\ ConstOnly(A, B)
    \/ b = Parse("localstat") /\ LocalOnly(A, B)
    \/ b = Parse("vararg_name") /\ VarargOnly(A, B)
    \/ b = Parse("globalstat") /\ Global(A, B)

LEMMA Somewhere == \A A, B, a, b : Places(A, B, a, b) /\ OnlyAt(b, A, B) => Where(A, B)
<1>1. /\ Expect("const") # Parse("localstat") /\ Expect("const") # Parse("vararg_name")
           /\ Expect("const") # Parse("globalstat")
      /\ Parse("localstat") # Parse("vararg_name") /\ Parse("localstat") # Parse("globalstat")
           /\ Parse("vararg_name") # Parse("globalstat")
  BY DEF Expect, Parse
<1> QED BY <1>1 DEF Places, OnlyAt, Where

(* Which shapes the odd places have.                                       *)
LEMMA MatchedWhere == \A A, B, S, T : Alike(S, T) /\ Matched(A, B, S, T) => Where(A, B)
<1> SUFFICES ASSUME NEW A, NEW B, NEW S, NEW T, Alike(S, T), Matched(A, B, S, T) PROVE Where(A, B)
  OBVIOUS
<1>0. S \in Stack /\ T \in Stack
  BY AlikeIn
<1>1. CASE A = S /\ B = T
  BY <1>1, AlikePlain DEF Plain, OddPlaces, Where
<1>2. CASE \E op \in LeftOf : A = Push(Parse("unary"), Push(Climb(op), S))
          /\ B = Push(Parse("subexpr"), Push(Climb(op), T))
  <2>1. PICK op \in LeftOf : A = Push(Parse("unary"), Push(Climb(op), S))
            /\ B = Push(Parse("subexpr"), Push(Climb(op), T))
    BY <1>2
  <2>2. Push(Climb(op), S) \in Stack /\ Push(Climb(op), T) \in Stack
    BY <1>0, LeftOfIn, OnIs
  <2>3. Places(A, B, Parse("unary"), Parse("subexpr"))
    BY Zenon, <2>1, <2>2, SymbolsIn, PlacesAre
  <2>4. Parse("subexpr") \notin OddPlaces
    BY DEF Parse, Expect, OddPlaces
  <2> QED BY Zenon, <2>3, <2>4, Nowhere
<1>3. CASE \E op \in LeftOf : A = Push(Parse("suffixes"), Push(Climb(op), S)) /\ B = Push(Climb(op), T)
  <2>1. PICK op \in LeftOf : A = Push(Parse("suffixes"), Push(Climb(op), S)) /\ B = Push(Climb(op), T)
    BY <1>3
  <2>2. Push(Climb(op), S) \in Stack /\ Climb(op) \in Symbols
    BY <1>0, LeftOfIn, OnIs
  <2>3. Places(A, B, Parse("suffixes"), Climb(op))
    BY Zenon, <1>0, <2>1, <2>2, SymbolsIn, PlacesAre
  <2>4. Climb(op) \notin OddPlaces
    BY DEF Parse, Expect, Climb, OddPlaces
  <2> QED BY Zenon, <2>3, <2>4, Nowhere
<1>4. CASE A = Push(Parse("suffixes"), S) /\ B = Push(Parse("suffixedexp"), T)
  <2>2. Places(A, B, Parse("suffixes"), Parse("suffixedexp"))
    BY Zenon, <1>0, <1>4, SymbolsIn, PlacesAre
  <2>3. Parse("suffixedexp") \notin OddPlaces
    BY DEF Parse, Expect, OddPlaces
  <2> QED BY Zenon, <2>2, <2>3, Nowhere
<1>5. CASE A = Push(Parse("suffixes"), S) /\ B = Push(Parse("discharge"), Push(Parse("suffixedexp"), T))
  <2>1. Push(Parse("suffixedexp"), T) \in Stack
    BY <1>0, SymbolsIn, OnIs
  <2>2. Places(A, B, Parse("suffixes"), Parse("discharge"))
    BY Zenon, <1>0, <1>5, <2>1, SymbolsIn, PlacesAre
  <2>3. Parse("discharge") \notin OddPlaces
    BY DEF Parse, Expect, OddPlaces
  <2> QED BY Zenon, <2>2, <2>3, Nowhere
<1>6. CASE A = Push(Parse("primary"), Push(Parse("suffixes"), S))
          /\ B = Push(Parse("primaryexp"), Push(Parse("suffixedexp"), T))
  <2>1. Push(Parse("suffixes"), S) \in Stack /\ Push(Parse("suffixedexp"), T) \in Stack
    BY <1>0, SymbolsIn, OnIs
  <2>2. Places(A, B, Parse("primary"), Parse("primaryexp"))
    BY Zenon, <1>0, <1>6, <2>1, SymbolsIn, PlacesAre
  <2>3. Parse("primaryexp") \notin OddPlaces
    BY DEF Parse, Expect, OddPlaces
  <2> QED BY Zenon, <2>2, <2>3, Nowhere
<1>7. CASE A = Push(Parse("attribute_name"), S) /\ B = Push(Parse("attname"), T)
  <2>2. Places(A, B, Parse("attribute_name"), Parse("attname"))
    BY Zenon, <1>0, <1>7, SymbolsIn, PlacesAre
  <2>3. Parse("attname") \notin OddPlaces
    BY DEF Parse, Expect, OddPlaces
  <2> QED BY Zenon, <2>2, <2>3, Nowhere
<1>8. CASE A = Push(Parse("attribute_name"), S)
          /\ B = Push(Expect("const"), Push(Expect(">"), Push(Node("const"), T)))
  <2>1. Push(Expect(">"), Push(Node("const"), T)) \in Stack
    BY <1>0, SymbolsIn, OnIs
  <2>2. Places(A, B, Parse("attribute_name"), Expect("const"))
    BY Zenon, <1>0, <1>8, <2>1, SymbolsIn, PlacesAre
  <2>4. ConstOnly(A, B)
    BY Zenon, <1>8 DEF ConstOnly
  <2> QED BY Zenon, <2>2, <2>4, Somewhere DEF OnlyAt
<1>9. CASE A = Push(Expect(")"), S) /\ B = Push(Parse("vararg_name"), Push(Expect(")"), T))
  <2>1. Push(Expect(")"), T) \in Stack
    BY <1>0, SymbolsIn, OnIs
  <2>2. Places(A, B, Expect(")"), Parse("vararg_name"))
    BY Zenon, <1>0, <1>9, <2>1, SymbolsIn, PlacesAre
  <2>4. VarargOnly(A, B)
    BY Zenon, <1>9 DEF VarargOnly
  <2> QED BY Zenon, <2>2, <2>4, Somewhere DEF OnlyAt
<1>10. CASE A = Push(Parse("local"), S) /\ B = Push(Parse("localstat"), T)
  <2>2. Places(A, B, Parse("local"), Parse("localstat"))
    BY Zenon, <1>0, <1>10, SymbolsIn, PlacesAre
  <2>4. LocalOnly(A, B)
    BY Zenon, <1>10 DEF LocalOnly
  <2> QED BY Zenon, <2>2, <2>4, Somewhere DEF OnlyAt
<1>11. CASE A = Push(Parse("fields"), S) /\ B = Push(Parse("constructor"), T)
  <2>2. Places(A, B, Parse("fields"), Parse("constructor"))
    BY Zenon, <1>0, <1>11, SymbolsIn, PlacesAre
  <2>3. Parse("constructor") \notin OddPlaces
    BY DEF Parse, Expect, OddPlaces
  <2> QED BY Zenon, <2>2, <2>3, Nowhere
<1>12. CASE A = Push(Parse("args"), S) /\ B = Push(Parse("args"), T)
  <2>2. Places(A, B, Parse("args"), Parse("args"))
    BY Zenon, <1>0, <1>12, SymbolsIn, PlacesAre
  <2>3. Parse("args") \notin OddPlaces
    BY DEF Parse, Expect, OddPlaces
  <2> QED BY Zenon, <2>2, <2>3, Nowhere
<1>13. CASE A = Push(Parse("values"), S) /\ B = Push(Parse("retstat"), T)
  <2>2. Places(A, B, Parse("values"), Parse("retstat"))
    BY Zenon, <1>0, <1>13, SymbolsIn, PlacesAre
  <2>3. Parse("retstat") \notin OddPlaces
    BY DEF Parse, Expect, OddPlaces
  <2> QED BY Zenon, <2>2, <2>3, Nowhere
<1>14. CASE A = Push(Parse("for"), S) /\ B = Push(Parse("forstat"), T)
  <2>2. Places(A, B, Parse("for"), Parse("forstat"))
    BY Zenon, <1>0, <1>14, SymbolsIn, PlacesAre
  <2>3. Parse("forstat") \notin OddPlaces
    BY DEF Parse, Expect, OddPlaces
  <2> QED BY Zenon, <2>2, <2>3, Nowhere
<1>15. CASE A = Push(Parse("named_field"), S) /\ B = Push(Parse("recfield"), T)
  <2>2. Places(A, B, Parse("named_field"), Parse("recfield"))
    BY Zenon, <1>0, <1>15, SymbolsIn, PlacesAre
  <2>3. Parse("recfield") \notin OddPlaces
    BY DEF Parse, Expect, OddPlaces
  <2> QED BY Zenon, <2>2, <2>3, Nowhere
<1>16. CASE A = Push(Parse("params"), Push(Expect(")"), S))
           /\ B = Push(Parse("parlist"), Push(Expect(")"), T))
  <2>1. Push(Expect(")"), S) \in Stack /\ Push(Expect(")"), T) \in Stack
    BY <1>0, SymbolsIn, OnIs
  <2>2. Places(A, B, Parse("params"), Parse("parlist"))
    BY Zenon, <1>0, <1>16, <2>1, SymbolsIn, PlacesAre
  <2>3. Parse("parlist") \notin OddPlaces
    BY DEF Parse, Expect, OddPlaces
  <2> QED BY Zenon, <2>2, <2>3, Nowhere
<1>17. CASE A = Push(Parse("param"), Push(Expect(")"), S))
           /\ B = Push(Parse("parameter"), Push(Expect(")"), T))
  <2>1. Push(Expect(")"), S) \in Stack /\ Push(Expect(")"), T) \in Stack
    BY <1>0, SymbolsIn, OnIs
  <2>2. Places(A, B, Parse("param"), Parse("parameter"))
    BY Zenon, <1>0, <1>17, <2>1, SymbolsIn, PlacesAre
  <2>3. Parse("parameter") \notin OddPlaces
    BY DEF Parse, Expect, OddPlaces
  <2> QED BY Zenon, <2>2, <2>3, Nowhere
<1>18. CASE A = Push(Parse("call_args"), Push(Node("method_call"), Push(Parse("suffixes"), S)))
           /\ B = Push(Parse("funcargs"), Push(Node("method_call"), Push(Parse("suffixedexp"), T)))
  <2>1. Push(Node("method_call"), Push(Parse("suffixes"), S)) \in Stack
            /\ Push(Node("method_call"), Push(Parse("suffixedexp"), T)) \in Stack
    BY <1>0, SymbolsIn, OnIs
  <2>2. Places(A, B, Parse("call_args"), Parse("funcargs"))
    BY Zenon, <1>0, <1>18, <2>1, SymbolsIn, PlacesAre
  <2>3. Parse("funcargs") \notin OddPlaces
    BY DEF Parse, Expect, OddPlaces
  <2> QED BY Zenon, <2>2, <2>3, Nowhere
<1> QED BY <1>1, <1>2, <1>3, <1>4, <1>5, <1>6, <1>7, <1>8, <1>9, <1>10, <1>11, <1>12, <1>13, <1>14, <1>15,
           <1>16, <1>17, <1>18 DEF Matched

LEMMA MeetWhere == \A A, B : Meet(A, B) => Where(A, B)
<1> SUFFICES ASSUME NEW A, NEW B, Meet(A, B) PROVE Where(A, B)
  OBVIOUS
<1>1. CASE JointHere(A, B)
  BY Zenon, <1>1, MatchedWhere DEF JointHere
<1>2. CASE Global(A, B)
  <2>1. PICK S, T : Alike(S, T) /\ A = Push(Parse("suffixes"), Push(Parse("assign_or_call"), S))
            /\ B = Push(Parse("globalstat"), T)
    BY Zenon, <1>2 DEF Global
  <2>2. Push(Parse("assign_or_call"), S) \in Stack /\ T \in Stack
    BY <2>1, AlikeIn, SymbolsIn, OnIs
  <2>3. Places(A, B, Parse("suffixes"), Parse("globalstat"))
    BY Zenon, <2>1, <2>2, SymbolsIn, PlacesAre
  <2>4. /\ Expect("const") # Parse("globalstat") /\ Parse("localstat") # Parse("globalstat")
             /\ Parse("vararg_name") # Parse("globalstat")
    BY DEF Expect, Parse
  <2> QED BY <1>2, <2>3, <2>4 DEF Where, Places
<1> QED BY Zenon, <1>1, <1>2 DEF Meet

-----------------------------------------------------------------------------
(* Everywhere else, the two sides agree on the next token.                 *)
LEMMA HeadIs == \A b, T : b \in Symbols /\ T \in Stack => Head(Push(b, T)) = b
BY PushIs

(* Apart from the odd places, what is left agrees on the next token.       *)
LEMMA MatchedAgrees ==
    \A A, B, S, T, i : Alike(S, T) /\ Matched(A, B, S, T) /\ Input(i) /\ ~Strange(A, B, Head(i))
        => AgreeOn(i, A, B)
<1> SUFFICES ASSUME NEW A, NEW B, NEW S, NEW T, NEW i, Alike(S, T), Matched(A, B, S, T), Input(i),
                        ~Strange(A, B, Head(i))
             PROVE  AgreeOn(i, A, B)
  OBVIOUS
<1>0. S \in Stack /\ T \in Stack /\ AgreeOn(i, S, T)
  BY AlikeIn, AlikeAgree
<1>1. CASE A = S /\ B = T
  BY <1>0, <1>1
<1>2. CASE \E op \in LeftOf : A = Push(Parse("unary"), Push(Climb(op), S))
          /\ B = Push(Parse("subexpr"), Push(Climb(op), T))
  BY Zenon, <1>0, <1>2, AgreeExpr
<1>3. CASE \E op \in LeftOf : A = Push(Parse("suffixes"), Push(Climb(op), S)) /\ B = Push(Climb(op), T)
  <2>1. PICK op \in LeftOf : A = Push(Parse("suffixes"), Push(Climb(op), S)) /\ B = Push(Climb(op), T)
    BY <1>3
  <2>2. Head(A) = Parse("suffixes") /\ Head(B) = Climb(op)
    <3>1. Push(Climb(op), S) \in Stack /\ Climb(op) \in Symbols
      BY <1>0, LeftOfIn, OnIs
    <3> QED BY Zenon, <1>0, <2>1, <3>1, SymbolsIn, HeadIs
  <2>3. Climb(op) \notin SuffixPlace
    BY DEF Parse, Climb, SuffixPlace
  <2>4. Head(i) \notin SuffixStart
    BY Zenon, <2>2, <2>3 DEF Strange
  <2>5. Head(i) # "." /\ Head(i) # "[" /\ Head(i) # ":" /\ Head(i) # "(" /\ Head(i) # "String"
            /\ Head(i) # OpenBrace
    BY Zenon, <2>4, SuffixStartIs
  <2>6. AgreeOn(i, Push(Parse("suffixes"), Push(Climb(op), S)), Push(Climb(op), T))
    BY <1>0, <2>5, AgreeAfter
  <2> QED BY Zenon, <2>1, <2>6
<1>4. CASE A = Push(Parse("suffixes"), S) /\ B = Push(Parse("suffixedexp"), T)
  <2>3. AgreeOn(i, Push(Parse("suffixes"), S), Push(Parse("suffixedexp"), T))
    BY <1>0, AgreeSuffixes
  <2> QED BY Zenon, <1>4, <2>3
<1>5. CASE A = Push(Parse("suffixes"), S) /\ B = Push(Parse("discharge"), Push(Parse("suffixedexp"), T))
  <2>3. AgreeOn(i, Push(Parse("suffixes"), S), Push(Parse("discharge"), Push(Parse("suffixedexp"), T)))
    BY <1>0, AgreeDischarge
  <2> QED BY Zenon, <1>5, <2>3
<1>6. CASE A = Push(Parse("primary"), Push(Parse("suffixes"), S))
          /\ B = Push(Parse("primaryexp"), Push(Parse("suffixedexp"), T))
  <2>3. AgreeOn(i, Push(Parse("primary"), Push(Parse("suffixes"), S)),
            Push(Parse("primaryexp"), Push(Parse("suffixedexp"), T)))
    BY <1>0, AgreePrimary
  <2> QED BY Zenon, <1>6, <2>3
<1>7. CASE A = Push(Parse("attribute_name"), S) /\ B = Push(Parse("attname"), T)
  <2>3. AgreeOn(i, Push(Parse("attribute_name"), S), Push(Parse("attname"), T))
    BY <1>0, AgreeAttributeName
  <2> QED BY Zenon, <1>7, <2>3
<1>8. CASE A = Push(Parse("attribute_name"), S)
          /\ B = Push(Expect("const"), Push(Expect(">"), Push(Node("const"), T)))
  <2> DEFINE t == Head(i)
  <2>1. Head(B) = Expect("const")
    <3>1. Push(Expect(">"), Push(Node("const"), T)) \in Stack
      BY <1>0, SymbolsIn, OnIs
    <3> QED BY Zenon, <1>8, <3>1, SymbolsIn, HeadIs
  <2>2. t # "close"
    BY Zenon, <2>1 DEF Strange
  <2>3. AgreeOn(i, Push(Parse("attribute_name"), S),
            Push(Expect("const"), Push(Expect(">"), Push(Node("const"), T))))
    BY <1>0, <2>2, AgreeConst
  <2> QED BY Zenon, <1>8, <2>3
<1>9. CASE A = Push(Expect(")"), S) /\ B = Push(Parse("vararg_name"), Push(Expect(")"), T))
  <2> DEFINE t == Head(i)
  <2>1. Head(B) = Parse("vararg_name")
    <3>1. Push(Expect(")"), T) \in Stack
      BY <1>0, SymbolsIn, OnIs
    <3> QED BY Zenon, <1>9, <3>1, SymbolsIn, HeadIs
  <2>2. t \notin Names
    BY Zenon, <2>1 DEF Strange
  <2>3. AgreeOn(i, Push(Expect(")"), S), Push(Parse("vararg_name"), Push(Expect(")"), T)))
    BY <1>0, <2>2, AgreeVararg
  <2> QED BY Zenon, <1>9, <2>3
<1>10. CASE A = Push(Parse("local"), S) /\ B = Push(Parse("localstat"), T)
  <2> DEFINE t == Head(i)
  <2>1. Head(B) = Parse("localstat")
    BY Zenon, <1>0, <1>10, SymbolsIn, HeadIs
  <2>2. t # "<"
    BY Zenon, <2>1 DEF Strange
  <2>3. AgreeOn(i, Push(Parse("local"), S), Push(Parse("localstat"), T))
    BY <1>0, <2>2, AgreeLocal
  <2> QED BY Zenon, <1>10, <2>3
<1>11. CASE A = Push(Parse("fields"), S) /\ B = Push(Parse("constructor"), T)
  <2>3. AgreeOn(i, Push(Parse("fields"), S), Push(Parse("constructor"), T))
    BY <1>0, AgreeFields
  <2> QED BY Zenon, <1>11, <2>3
<1>12. CASE A = Push(Parse("args"), S) /\ B = Push(Parse("args"), T)
  <2>3. AgreeOn(i, Push(Parse("args"), S), Push(Parse("args"), T))
    BY <1>0, AgreeArgs
  <2> QED BY Zenon, <1>12, <2>3
<1>13. CASE A = Push(Parse("values"), S) /\ B = Push(Parse("retstat"), T)
  <2>3. AgreeOn(i, Push(Parse("values"), S), Push(Parse("retstat"), T))
    BY <1>0, AgreeValues
  <2> QED BY Zenon, <1>13, <2>3
<1>14. CASE A = Push(Parse("for"), S) /\ B = Push(Parse("forstat"), T)
  <2>3. AgreeOn(i, Push(Parse("for"), S), Push(Parse("forstat"), T))
    BY <1>0, AgreeFor
  <2> QED BY Zenon, <1>14, <2>3
<1>15. CASE A = Push(Parse("named_field"), S) /\ B = Push(Parse("recfield"), T)
  <2>3. AgreeOn(i, Push(Parse("named_field"), S), Push(Parse("recfield"), T))
    BY <1>0, AgreeNamedField
  <2> QED BY Zenon, <1>15, <2>3
<1>16. CASE A = Push(Parse("params"), Push(Expect(")"), S))
           /\ B = Push(Parse("parlist"), Push(Expect(")"), T))
  <2>3. AgreeOn(i, Push(Parse("params"), Push(Expect(")"), S)),
            Push(Parse("parlist"), Push(Expect(")"), T)))
    BY <1>0, AgreeParams
  <2> QED BY Zenon, <1>16, <2>3
<1>17. CASE A = Push(Parse("param"), Push(Expect(")"), S))
           /\ B = Push(Parse("parameter"), Push(Expect(")"), T))
  <2>3. AgreeOn(i, Push(Parse("param"), Push(Expect(")"), S)),
            Push(Parse("parameter"), Push(Expect(")"), T)))
    BY <1>0, AgreeParam
  <2> QED BY Zenon, <1>17, <2>3
<1>18. CASE A = Push(Parse("call_args"), Push(Node("method_call"), Push(Parse("suffixes"), S)))
           /\ B = Push(Parse("funcargs"), Push(Node("method_call"), Push(Parse("suffixedexp"), T)))
  <2>3. AgreeOn(i, Push(Parse("call_args"), Push(Node("method_call"), Push(Parse("suffixes"), S))),
            Push(Parse("funcargs"), Push(Node("method_call"), Push(Parse("suffixedexp"), T))))
    BY <1>0, AgreeCallArgs
  <2> QED BY Zenon, <1>18, <2>3
<1> QED BY <1>1, <1>2, <1>3, <1>4, <1>5, <1>6, <1>7, <1>8, <1>9, <1>10, <1>11, <1>12, <1>13, <1>14, <1>15,
           <1>16, <1>17, <1>18 DEF Matched

LEMMA MeetAgrees == \A A, B, i : Meet(A, B) /\ Input(i) /\ ~Strange(A, B, Head(i)) => AgreeOn(i, A, B)
<1> SUFFICES ASSUME NEW A, NEW B, NEW i, Meet(A, B), Input(i), ~Strange(A, B, Head(i))
                        PROVE AgreeOn(i, A, B)
  OBVIOUS
<1>1. CASE JointHere(A, B)
  BY Zenon, <1>1, MatchedAgrees DEF JointHere
<1>2. CASE Global(A, B)
  <2>1. PICK S, T : Alike(S, T) /\ A = Push(Parse("suffixes"), Push(Parse("assign_or_call"), S))
            /\ B = Push(Parse("globalstat"), T)
    BY Zenon, <1>2 DEF Global
  <2>2. S \in Stack /\ T \in Stack /\ AgreeOn(i, S, T)
    BY <2>1, AlikeIn, AlikeAgree
  <2>3. Head(B) = Parse("globalstat")
    BY Zenon, <2>1, <2>2, SymbolsIn, HeadIs
  <2>4. Head(i) \notin Names \cup {"<", "*", "function"}
    BY Zenon, <2>3 DEF Strange
  <2>5. Head(i) \notin Names /\ Head(i) # "<" /\ Head(i) # "*" /\ Head(i) # "function"
    BY <2>4
  <2>6. AgreeOn(i, Push(Parse("suffixes"), Push(Parse("assign_or_call"), S)), Push(Parse("globalstat"), T))
    BY <2>1, <2>2, <2>5, AgreeGlobal
  <2> QED BY Zenon, <2>1, <2>6
<1> QED BY Zenon, <1>1, <1>2 DEF Meet

-----------------------------------------------------------------------------
(* How a run goes on over a token.                                         *)
(* A machine that has not refused.                                         *)
Going(m) == m \in Machines /\ ~Refused(m)
OursGoing(i, A) == \A r : r \in Regs => Going(ReadOurs(i, A, r))
LuaTyped(i, B)  == \A q : q \in Regs => ReadLua(i, B, q) \in Machines

LEMMA GoingIs == \A i, b, s, r : i \in Tokens55 /\ b \in Symbols /\ Reads(b) /\ s \in Stack /\ r \in Regs
    => Going(M(i, Push(b, s), r))
<1> SUFFICES ASSUME NEW i \in Tokens55, NEW b \in Symbols, NEW s \in Stack, NEW r \in Regs, Reads(b)
                        PROVE Going(M(i, Push(b, s), r))
  OBVIOUS
<1> DEFINE S == Push(b, s)
<1>1. S \in Stack /\ S # <<>> /\ Head(S) = b
  BY PushIs
<1> HIDE DEF S
<1>2. M(i, S, r) \in Machines /\ M(i, S, r).todo = S
  BY <1>1, MIs
<1>3. b[1] # "fail"
  BY DEF Reads
<1>4. Going(M(i, S, r))
  BY <1>1, <1>2, <1>3 DEF Going, Refused, Ended
<1> QED BY Zenon, <1>4 DEF S

LEMMA EmptyGoes == \A i, r : i \in Tokens55 /\ r \in Regs => Going(M(i, <<>>, r))
<1> SUFFICES ASSUME NEW i \in Tokens55, NEW r \in Regs PROVE Going(M(i, <<>>, r))
  OBVIOUS
<1>1. M(i, <<>>, r) \in Machines /\ M(i, <<>>, r).todo = <<>>
  BY EmptyIn, MIs
<1> QED BY <1>1 DEF Going, Refused, Ended

LEMMA Here ==
    \A b, s : b \in Symbols /\ Reads(b) /\ s \in Stack => OursGoing(<<>>, Push(b, s))
        /\ LuaTyped(<<>>, Push(b, s))
<1> SUFFICES ASSUME NEW b \in Symbols, NEW s \in Stack, Reads(b) PROVE OursGoing(<<>>, Push(b, s))
                        /\ LuaTyped(<<>>, Push(b, s))
  OBVIOUS
<1>1. ASSUME NEW r \in Regs PROVE Going(ReadOurs(<<>>, Push(b, s), r))
                 /\ ReadLua(<<>>, Push(b, s), r) \in Machines
  <2>1. Going(M(<<>>, Push(b, s), r))
    BY GoingIs, EmptyIn
  <2>2. ReadOurs(<<>>, Push(b, s), r) = M(<<>>, Push(b, s), r)
            /\ ReadLua(<<>>, Push(b, s), r) = M(<<>>, Push(b, s), r)
    BY BothGo
  <2> QED BY <2>1, <2>2 DEF Going
<1> QED BY <1>1 DEF OursGoing, LuaTyped

LEMMA NodeHere ==
    \A i, a, s : i \in Tokens55 /\ NodeLike(a) /\ s \in Stack =>
      /\ OursGoing(i, s) => OursGoing(i, Push(a, s))
      /\ LuaTyped(i, s) => LuaTyped(i, Push(a, s))
<1> SUFFICES ASSUME NEW i \in Tokens55, NEW a, NEW s \in Stack, NodeLike(a)
             PROVE  /\ OursGoing(i, s) => OursGoing(i, Push(a, s))
                    /\ LuaTyped(i, s) => LuaTyped(i, Push(a, s))
  OBVIOUS
<1>1. ASSUME NEW r \in Regs
      PROVE  /\ ReadOurs(i, Push(a, s), r) = ReadOurs(i, s, Done(r, a))
                  /\ ReadLua(i, Push(a, s), r) = ReadLua(i, s, Done(r, a))
             /\ Done(r, a) \in Regs
  BY BothGo, RegsIn DEF NodeLike
<1>2. OursGoing(i, s) => OursGoing(i, Push(a, s))
  BY Zenon, <1>1 DEF OursGoing
<1>3. LuaTyped(i, s) => LuaTyped(i, Push(a, s))
  BY Zenon, <1>1 DEF LuaTyped
<1> QED BY Zenon, <1>2, <1>3

LEMMA After ==
    \A i, u, X : i \in Tokens55 /\ i # <<>> /\ Tail(i) = <<>> /\ u \in Vocabulary /\ Fits(Head(i), u)
        /\ X \in Stack =>
      /\ OursGoing(<<>>, X) => OursGoing(i, Push(Expect(u), X))
      /\ LuaTyped(<<>>, X) => LuaTyped(i, Push(Expect(u), X))
<1> SUFFICES ASSUME NEW i \in Tokens55, NEW u \in Vocabulary, NEW X \in Stack, i # <<>>, Tail(i) = <<>>,
                        Fits(Head(i), u)
             PROVE  /\ OursGoing(<<>>, X) => OursGoing(i, Push(Expect(u), X))
                    /\ LuaTyped(<<>>, X) => LuaTyped(i, Push(Expect(u), X))
  OBVIOUS
<1>1. ASSUME NEW r \in Regs
      PROVE  /\ ReadOurs(i, Push(Expect(u), X), r) = ReadOurs(<<>>, X, Spoke(r, u))
             /\ ReadLua(i, Push(Expect(u), X), r) = ReadLua(<<>>, X, Spoke(r, u))
             /\ Spoke(r, u) \in Regs
  <2>1. /\ ReadOurs(i, Push(Expect(u), X), r) = ReadOurs(Tail(i), X, Spoke(r, u))
        /\ ReadLua(i, Push(Expect(u), X), r) = ReadLua(Tail(i), X, Spoke(r, u))
    BY OursExpects, LuaExpects
  <2>2. Spoke(r, u) \in Regs
    BY RegsIn
  <2> QED BY Zenon, <2>1, <2>2
<1>2. OursGoing(<<>>, X) => OursGoing(i, Push(Expect(u), X))
  BY Zenon, <1>1 DEF OursGoing
<1>3. LuaTyped(<<>>, X) => LuaTyped(i, Push(Expect(u), X))
  BY Zenon, <1>1 DEF LuaTyped
<1> QED BY Zenon, <1>2, <1>3

LEMMA GoTo ==
    /\ \A i, A, X : OursTo(i, A, X) /\ OursGoing(i, X) => OursGoing(i, A)
    /\ \A i, A, X : LuaTo(i, A, X) /\ LuaTyped(i, X) => LuaTyped(i, A)
    /\ \A i, A : LuaNo(i, A) => LuaTyped(i, A)
<1>1. Refusal("none") \in Machines
  BY RefusalIn, VocabularyIs
<1>2. \A i, A, X : OursTo(i, A, X) /\ OursGoing(i, X) => OursGoing(i, A)
  BY Zenon DEF OursTo, OursGoing
<1>3. \A i, A, X : LuaTo(i, A, X) /\ LuaTyped(i, X) => LuaTyped(i, A)
  BY Zenon DEF LuaTo, LuaTyped
<1>4. \A i, A : LuaNo(i, A) => LuaTyped(i, A)
  BY <1>1 DEF LuaNo, LuaTyped
<1> QED BY <1>2, <1>3, <1>4

(* What is read and then waited for.                                       *)
LEMMA Then ==
    \A i, u, b, T : i \in Tokens55 /\ i # <<>> /\ Tail(i) = <<>> /\ u \in Vocabulary /\ Fits(Head(i), u)
                    /\ b \in Symbols /\ Reads(b) /\ T \in Stack
                    => OursGoing(i, Push(Expect(u), Push(b, T))) /\ LuaTyped(i, Push(Expect(u), Push(b, T)))
<1> SUFFICES ASSUME NEW i \in Tokens55, NEW u \in Vocabulary, NEW b \in Symbols, NEW T \in Stack, i # <<>>,
                        Tail(i) = <<>>,
                    Fits(Head(i), u), Reads(b)
             PROVE  OursGoing(i, Push(Expect(u), Push(b, T))) /\ LuaTyped(i, Push(Expect(u), Push(b, T)))
  OBVIOUS
<1> DEFINE X == Push(b, T)
<1>1. X \in Stack /\ OursGoing(<<>>, X) /\ LuaTyped(<<>>, X)
  BY Here, OnIs
<1> HIDE DEF X
<1>2. OursGoing(i, Push(Expect(u), X)) /\ LuaTyped(i, Push(Expect(u), X))
  BY <1>1, After
<1> QED BY Zenon, <1>2 DEF X

LEMMA FitsSelf == \A t : Fits(t, t)
BY DEF Fits

LEMMA ReadsAre == /\ Reads(Expect("Name")) /\ Reads(Expect(">")) /\ Reads(Expect("(")) /\ Reads(Expect(")"))
                  /\ \A p : Reads(Parse(p))
BY DEF Reads, Expect, Parse

-----------------------------------------------------------------------------
(* What valua and Lua make of a token that begins an odd construct.        *)
(* A second variable to close.                                             *)
LEMMA ConstPlaceRead ==
    \A A, B, i : ConstOnly(A, B) /\ Input(i) /\ Head(i) = "close" => OursGoing(i, A) /\ LuaNo(i, B)
<1> SUFFICES ASSUME NEW A, NEW B, NEW i, ConstOnly(A, B), Input(i), Head(i) = "close" PROVE OursGoing(i, A)
                        /\ LuaNo(i, B)
  OBVIOUS
<1>1. PICK S, T : Alike(S, T) /\ A = Push(Parse("attribute_name"), S)
          /\ B = Push(Expect("const"), Push(Expect(">"), Push(Node("const"), T)))
  BY DEF ConstOnly
<1>2. i \in Tokens55 /\ i # <<>> /\ Tail(i) = <<>>
  BY InputIs
<1>3. S \in Stack /\ T \in Stack
  BY <1>1, AlikeIn
<1>4. OursTo(i, Push(Parse("attribute_name"), S),
          Push(Expect("close"), Push(Expect(">"), Push(Node("close"), S))))
  BY <1>2, <1>3, OursAttributeName
<1>5. "close" \in Vocabulary /\ Push(Node("close"), S) \in Stack /\ Fits(Head(i), "close")
  BY <1>3, ConstCloseIn, VocabularyIs, SymbolsIn, OnIs, FitsSelf
<1>6. OursGoing(i, Push(Expect("close"), Push(Expect(">"), Push(Node("close"), S))))
  BY Zenon, <1>2, <1>5, SymbolsIn, ReadsAre, Then
<1>7. OursGoing(i, A)
  BY Zenon, <1>1, <1>4, <1>6, GoTo
<1>8. ~Fits(Head(i), "const") /\ "const" \in Vocabulary
          /\ Push(Expect(">"), Push(Node("const"), T)) \in Stack
  BY <1>3, ConstCloseIn, VocabularyIs, SymbolsIn, OnIs DEF Fits
<1>9. LuaNo(i, Push(Expect("const"), Push(Expect(">"), Push(Node("const"), T))))
  BY Zenon, <1>8, LuaMismatch
<1> QED BY Zenon, <1>1, <1>2, <1>7, <1>9

(* An attribute before the first name.                                     *)
LEMMA LocalPlaceRead ==
    \A A, B, i : LocalOnly(A, B) /\ Input(i) /\ Head(i) = "<" => OursNo(i, A) /\ LuaTyped(i, B)
<1> SUFFICES ASSUME NEW A, NEW B, NEW i, LocalOnly(A, B), Input(i), Head(i) = "<" PROVE OursNo(i, A)
                        /\ LuaTyped(i, B)
  OBVIOUS
<1>1. PICK S, T : Alike(S, T) /\ A = Push(Parse("local"), S) /\ B = Push(Parse("localstat"), T)
  BY DEF LocalOnly
<1>2. i \in Tokens55 /\ i # <<>> /\ Tail(i) = <<>>
  BY InputIs
<1>3. S \in Stack /\ T \in Stack
  BY <1>1, AlikeIn
<1>4. OursTo(i, Push(Parse("local"), S),
          Push(Expect("Name"),
          Push(Parse("attribute"),
          Push(Parse("more_names"), Push(Parse("initializer"), Push(Node("local"), S))))))
  BY <1>2, <1>3, OursLocal
<1>5. ~Fits(Head(i), "Name") /\ "Name" \in Vocabulary
      /\ Push(Parse("attribute"), Push(Parse("more_names"),
           Push(Parse("initializer"), Push(Node("local"), S)))) \in Stack
  BY <1>3, LiteralIn, SymbolsIn, OnIs DEF Fits, Names
<1>6. OursNo(i, Push(Expect("Name"),
          Push(Parse("attribute"),
          Push(Parse("more_names"), Push(Parse("initializer"), Push(Node("local"), S))))))
  BY Zenon, <1>5, OursMismatch
<1>7. OursNo(i, A)
  BY Zenon, <1>1, <1>4, <1>6, ToNo
<1> DEFINE R == Push(Expect("Name"),
                    Push(Parse("attrib"),
                    Push(Parse("attnamelist"), Push(Parse("init"), Push(Node("local"), T)))))
<1>8. R \in Stack
  BY <1>3, SymbolsIn, OnIs
<1>9. LuaTo(i, Push(Parse("localstat"), T), Push(Parse("attrib"), R))
  BY <1>2, <1>3, LuaLocalstat
<1> HIDE DEF R
<1>10. LuaTo(i, Push(Parse("attrib"), R), Push(Expect("<"), Push(Parse("attname"), R)))
  BY <1>2, <1>8, LuaAttrib
<1>11. "<" \in Vocabulary /\ Fits(Head(i), "<")
  BY PlainAre, PlainIn, VocabularyIs, FitsSelf
<1>12. LuaTyped(i, Push(Expect("<"), Push(Parse("attname"), R)))
  BY Zenon, <1>2, <1>8, <1>11, SymbolsIn, ReadsAre, Then
<1> QED BY Zenon, <1>1, <1>7, <1>9, <1>10, <1>12, GoTo

(* A name for the variable arguments.                                      *)
LEMMA VarargPlaceRead ==
    \A A, B, i : VarargOnly(A, B) /\ Input(i) /\ Head(i) \in Names => OursNo(i, A) /\ LuaTyped(i, B)
<1> SUFFICES ASSUME NEW A, NEW B, NEW i, VarargOnly(A, B), Input(i), Head(i) \in Names PROVE OursNo(i, A)
                        /\ LuaTyped(i, B)
  OBVIOUS
<1>1. PICK S, T : Alike(S, T) /\ A = Push(Expect(")"), S)
          /\ B = Push(Parse("vararg_name"), Push(Expect(")"), T))
  BY DEF VarargOnly
<1>2. i \in Tokens55 /\ i # <<>> /\ Tail(i) = <<>>
  BY InputIs DEF Names
<1>3. S \in Stack /\ T \in Stack /\ Push(Expect(")"), T) \in Stack
  BY <1>1, AlikeIn, SymbolsIn, OnIs
<1>4. ~Fits(Head(i), ")") /\ Fits(Head(i), "Name") /\ ")" \in Vocabulary /\ "Name" \in Vocabulary
  BY WordsHere DEF Fits, Names
<1>5. OursNo(i, Push(Expect(")"), S))
  BY Zenon, <1>3, <1>4, OursMismatch
<1>6. LuaTo(i, Push(Parse("vararg_name"), Push(Expect(")"), T)), Push(Expect("Name"), Push(Expect(")"), T)))
  BY <1>2, <1>3, LuaVarargName
<1>7. LuaTyped(i, Push(Expect("Name"), Push(Expect(")"), T)))
  BY Zenon, <1>2, <1>3, <1>4, SymbolsIn, ReadsAre, Then
<1> QED BY Zenon, <1>1, <1>5, <1>6, <1>7, GoTo

-----------------------------------------------------------------------------
(* Declarations of globals, and all the odd constructs together.           *)
LEMMA SettledLua == \A c, o, l : Settled(c, o, l) => l \in Machines
<1> SUFFICES ASSUME NEW c, NEW o, NEW l, Settled(c, o, l) PROVE l \in Machines
  OBVIOUS
<1>1. PICK A, B, r, q : l = M(<<>>, B, q) /\ Near(c, r, q) /\ Meet(A, B)
  BY DEF Settled
<1> QED BY <1>1, MeetIn, NearIn, EmptyIn, MIs

(* A declaration of globals.                                               *)
LEMMA GlobalPlaceRead ==
    \A A, B, i, r : Global(A, B) /\ Input(i) /\ Head(i) \in Names \cup {"<", "*", "function"} /\ r \in Regs
        /\ r.last = "name"
                    => ReadOurs(i, A, r) = Refusal("none") /\ LuaTyped(i, B)
<1> SUFFICES ASSUME NEW A, NEW B, NEW i, NEW r \in Regs, Global(A, B), Input(i),
                        Head(i) \in Names \cup {"<", "*", "function"}, r.last = "name"
             PROVE  ReadOurs(i, A, r) = Refusal("none") /\ LuaTyped(i, B)
  OBVIOUS
<1>1. PICK S, T : Alike(S, T) /\ A = Push(Parse("suffixes"), Push(Parse("assign_or_call"), S))
          /\ B = Push(Parse("globalstat"), T)
  BY DEF Global
<1> DEFINE t == Head(i)
<1>2. i \in Tokens55 /\ i # <<>> /\ Tail(i) = <<>> /\ t = Head(i) /\ t \in Vocabulary
  BY InputIs DEF Names
<1>3. S \in Stack /\ T \in Stack /\ Push(Parse("assign_or_call"), S) \in Stack
  BY <1>1, AlikeIn, SymbolsIn, OnIs
<1>a. /\ t \in Names \/ t = "<" \/ t = "*" \/ t = "function"
      /\ t # OpenBrace /\ t # Comma
  <2>1. \A u : u \in {"Name", "const", "close", "global", "<", "*", "function"} => u \in PlainTokens
    BY PlainAre
  <2>2. t \in {"Name", "const", "close", "global", "<", "*", "function"}
    BY DEF Names
  <2> QED BY <2>1, <2>2, MarksDiffer DEF Names
<1> HIDE DEF t
<1>4. t # "." /\ t # "[" /\ t # ":" /\ t # "(" /\ t # "String" /\ t # "="
  BY <1>a DEF Names
<1>5. OursTo(i, Push(Parse("suffixes"), Push(Parse("assign_or_call"), S)), Push(Parse("assign_or_call"), S))
  BY <1>2, <1>3, <1>4, <1>a, OursSuffixes
<1>6. ReadOurs(i, Push(Parse("assign_or_call"), S), r) = Refusal("none")
  BY <1>2, <1>3, <1>4, <1>a, OursAssignOrCall
<1>7. ReadOurs(i, A, r) = Refusal("none")
  BY Zenon, <1>1, <1>5, <1>6 DEF OursTo
<1>8. LuaTyped(i, Push(Parse("globalstat"), T))
  <2>1. CASE t = "function"
    <3>1. LuaTo(i, Push(Parse("globalstat"), T),
              Push(Expect("function"),
              Push(Expect("Name"),
              Push(Expect("("), Push(Parse("parlist"),
              Push(Expect(")"), Push(Parse("statlist"), Push(Expect("end"), Push(Node("global"), T)))))))))
      BY <1>2, <1>3, <2>1, LuaGlobalstat
    <3>2. Push(Expect("("), Push(Parse("parlist"),
              Push(Expect(")"), Push(Parse("statlist"),
              Push(Expect("end"), Push(Node("global"), T)))))) \in Stack
      BY <1>3, SymbolsIn, OnIs
    <3>3. LuaTyped(i, Push(Expect("function"),
              Push(Expect("Name"),
              Push(Expect("("), Push(Parse("parlist"),
              Push(Expect(")"), Push(Parse("statlist"), Push(Expect("end"), Push(Node("global"), T)))))))))
      BY Zenon, <1>2, <2>1, <3>2, FitsSelf, SymbolsIn, ReadsAre, Then
    <3> QED BY Zenon, <3>1, <3>3, GoTo
  <2>2. CASE t = "*"
    <3>1. LuaTo(i, Push(Parse("globalstat"), T), Push(Expect("*"), Push(Node("global"), T)))
      BY <1>2, <1>3, <2>2, LuaGlobalstat
    <3>2. LuaTyped(<<>>, T)
      <4> SUFFICES ASSUME NEW q \in Regs PROVE ReadLua(<<>>, T, q) \in Machines
        BY DEF LuaTyped
      <4>1. Settles(S, T)
        BY Zenon, <1>1, AlikeSettles
      <4>2. Settled("apart", ReadOurs(<<>>, S, q), ReadLua(<<>>, T, q))
        BY Zenon, <4>1, NearSelf DEF Settles
      <4> QED BY Zenon, <4>2, SettledLua
    <3>3. NodeLike(Node("global")) /\ Push(Node("global"), T) \in Stack
      BY <1>3, NodesLike, SymbolsIn, OnIs DEF NodeKinds
    <3>4. LuaTyped(<<>>, Push(Node("global"), T))
      BY Zenon, <1>3, <3>2, <3>3, NodeHere, EmptyIn
    <3>5. LuaTyped(i, Push(Expect("*"), Push(Node("global"), T)))
      BY Zenon, <1>2, <2>2, <3>3, <3>4, FitsSelf, After
    <3> QED BY Zenon, <3>1, <3>5, GoTo
  <2>3. CASE t \in Names \/ t = "<"
    <3> DEFINE W == Push(Parse("attnamelist"), Push(Node("global"), T))
               R == Push(Expect("Name"), Push(Parse("attrib"), W))
    <3>1. W \in Stack /\ R \in Stack
      BY <1>3, SymbolsIn, OnIs
    <3>2. LuaTo(i, Push(Parse("globalstat"), T), Push(Parse("attrib"), R))
      BY <1>2, <1>3, <2>3, LuaGlobalstat
    <3> HIDE DEF W, R
    <3>3. CASE t = "<"
      <4>1. LuaTo(i, Push(Parse("attrib"), R), Push(Expect("<"), Push(Parse("attname"), R)))
        BY <1>2, <3>1, <3>3, LuaAttrib
      <4>2. LuaTyped(i, Push(Expect("<"), Push(Parse("attname"), R)))
        BY Zenon, <1>2, <3>1, <3>3, FitsSelf, SymbolsIn, ReadsAre, Then
      <4> QED BY Zenon, <3>2, <4>1, <4>2, GoTo
    <3>4. CASE t \in Names /\ t # "<"
      <4>1. LuaTo(i, Push(Parse("attrib"), R), R)
        BY <1>2, <3>1, <3>4, LuaAttrib
      <4>2. Fits(Head(i), "Name")
        BY <1>2, <3>4 DEF Fits
      <4>3. LuaTyped(i, Push(Expect("Name"), Push(Parse("attrib"), W)))
        BY Zenon, <1>2, <3>1, <4>2, LiteralIn, SymbolsIn, ReadsAre, Then
      <4>4. LuaTyped(i, R)
        BY Zenon, <4>3 DEF R
      <4> QED BY Zenon, <3>2, <4>1, <4>4, GoTo
    <3> QED BY <2>3, <3>3, <3>4
  <2> QED BY <1>a, <2>1, <2>2, <2>3
<1> QED BY Zenon, <1>1, <1>7, <1>8

(* A suffix after what has none in Lua.                                    *)
Suffixed(A, B, t) == Head(A) = Parse("suffixes") /\ Head(B) \notin SuffixPlace /\ t \in SuffixStart

(* What the two sides come to where another odd construct begins.          *)
Parting(A, B, t, o, l) ==
    \/ Head(B) = Expect("const") /\ t = "close" /\ Going(o) /\ l = Refusal("none")
    \/ Head(B) = Parse("localstat") /\ t = "<" /\ o = Refusal("none") /\ l \in Machines
    \/ Head(B) = Parse("vararg_name") /\ t \in Names /\ o = Refusal("none") /\ l \in Machines
    \/ Head(B) = Parse("globalstat") /\ t \in Names \cup {"<", "*", "function"} /\ o = Refusal("none")
         /\ l \in Machines

(* Where an odd construct begins, the sides part as Parting says.          *)
LEMMA StrangeParts ==
    ASSUME NEW A, NEW B, NEW i, NEW r \in Regs, NEW q \in Regs, Meet(A, B), Input(i),
               Strange(A, B, Head(i)), ~Suffixed(A, B, Head(i)),
           Head(B) = Parse("globalstat") => r.last = "name"
    PROVE  Parting(A, B, Head(i), ReadOurs(i, A, r), ReadLua(i, B, q)) /\ Tail(i) = <<>>
<1> DEFINE t == Head(i)
           o == ReadOurs(i, A, r)
           l == ReadLua(i, B, q)
<1>0. Where(A, B)
  BY MeetWhere
<1>1. CASE Head(B) = Expect("const") /\ t = "close"
  <2>1. ConstOnly(A, B) /\ Tail(i) = <<>>
    BY <1>0, <1>1, InputIs DEF Where
  <2>2. OursGoing(i, A) /\ LuaNo(i, B)
    BY Zenon, <1>1, <2>1, ConstPlaceRead
  <2>3. Going(o) /\ l = Refusal("none")
    BY Zenon, <2>2 DEF OursGoing, LuaNo
  <2> QED BY Zenon, <1>1, <2>1, <2>3 DEF Parting
<1>2. CASE Head(B) = Parse("localstat") /\ t = "<"
  <2>1. LocalOnly(A, B) /\ Tail(i) = <<>>
    BY <1>0, <1>2, InputIs DEF Where
  <2>2. OursNo(i, A) /\ LuaTyped(i, B)
    BY Zenon, <1>2, <2>1, LocalPlaceRead
  <2>3. o = Refusal("none") /\ l \in Machines
    BY Zenon, <2>2 DEF OursNo, LuaTyped
  <2> QED BY Zenon, <1>2, <2>1, <2>3 DEF Parting
<1>3. CASE Head(B) = Parse("vararg_name") /\ t \in Names
  <2>1. VarargOnly(A, B) /\ Tail(i) = <<>>
    BY <1>0, <1>3, InputIs DEF Where, Names
  <2>2. OursNo(i, A) /\ LuaTyped(i, B)
    BY Zenon, <1>3, <2>1, VarargPlaceRead
  <2>3. o = Refusal("none") /\ l \in Machines
    BY Zenon, <2>2 DEF OursNo, LuaTyped
  <2> QED BY Zenon, <1>3, <2>1, <2>3 DEF Parting
<1>4. CASE Head(B) = Parse("globalstat") /\ t \in Names \cup {"<", "*", "function"}
  <2>1. Global(A, B) /\ Tail(i) = <<>> /\ r.last = "name"
    BY <1>0, <1>4, InputIs DEF Where, Names
  <2>2. o = Refusal("none") /\ LuaTyped(i, B)
    BY Zenon, <1>4, <2>1, GlobalPlaceRead
  <2>3. l \in Machines
    BY Zenon, <2>2 DEF LuaTyped
  <2> QED BY Zenon, <1>4, <2>1, <2>2, <2>3 DEF Parting
<1>5. \/ Head(B) = Expect("const") /\ t = "close"
      \/ Head(B) = Parse("localstat") /\ t = "<"
      \/ Head(B) = Parse("vararg_name") /\ t \in Names
      \/ Head(B) = Parse("globalstat") /\ t \in Names \cup {"<", "*", "function"}
  BY Zenon DEF Strange, Suffixed
<1> QED BY Zenon, <1>1, <1>2, <1>3, <1>4, <1>5

LEMMA EndIn == "eof" \in TokenKinds /\ "eof" \in Vocabulary
BY PlainAre, PlainIn, VocabularyIs

-----------------------------------------------------------------------------
(* The invariant: what the two readers are to each other, and their trees. *)
(* What two machines are to each other when the constructs d have been met. *)
Standing(o, l, d) ==
    \/ Refused(l) /\ (Refused(o) \/ d \cap MayAccept # {})
    \/ Refused(o) /\ d \cap MayRefuse # {}
    \/ Settled("apart", o, l)
    \/ Ended(o) /\ Ended(l)

(* Their trees before and after what they have in common is dropped.       *)
Levelled(o, l, d) ==
    d \cap OtherTree = {} => /\ o.tree = <<>> \/ l.tree = <<>> \/ o.tree = l.tree
                             /\ ~Refused(o) /\ ~Refused(l) => o.tree = l.tree
Level(o, l, d) ==
    d \cap OtherTree = {} => /\ o.tree = <<>> \/ l.tree = <<>>
                             /\ ~Refused(o) /\ ~Refused(l) => o.tree = <<>> /\ l.tree = <<>>

LEMMA LeftKeeps == \A m, s : m \in Machines => (Refused(Left(m, s)) <=> Refused(m))
    /\ (Ended(Left(m, s)) <=> Ended(m)) /\ Left(m, s).tree = s
<1> SUFFICES ASSUME NEW m \in Machines, NEW s
             PROVE  (Refused(Left(m, s)) <=> Refused(m)) /\ (Ended(Left(m, s)) <=> Ended(m))
                        /\ Left(m, s).tree = s
  OBVIOUS
<1>1. Left(m, s).todo = m.todo /\ Left(m, s).tree = s
  BY DEF Left, Machines
<1> QED BY <1>1 DEF Refused, Ended

LEMMA LeftRefused == \A x : LET m == Refusal("none")
                           IN  Refused(m) /\ m.tree = <<>> /\ Refused(Left(m, x)) /\ Left(m, x).tree = x
<1> SUFFICES ASSUME NEW x
             PROVE  LET m == Refusal("none")
                    IN  Refused(m) /\ m.tree = <<>> /\ Refused(Left(m, x)) /\ Left(m, x).tree = x
  OBVIOUS
<1>1. Refusal("none") = [input |-> <<>>, todo |-> <<Fail("none")>>, tree |-> <<>>, last |-> "none"]
  BY DEF Refusal, Start
<1>2. Left(Refusal("none"), x).todo = <<Fail("none")>> /\ Refusal("none").todo = <<Fail("none")>>
          /\ Refusal("none").tree = <<>> /\ Left(Refusal("none"), x).tree = x
  BY <1>1 DEF Left
<1> QED BY <1>2 DEF Refused, Ended, Fail

Rooted(r, s) == [tree |-> s, last |-> r.last]

LEMMA RootedIs == \A r, s : r \in Regs /\ s \in Stack => Rooted(r, s) \in Regs /\ Rooted(r, s).tree = s
    /\ Rooted(r, s).last = r.last
BY DEF Regs, Rooted

LEMMA LeftOfM == \A i, A, r, s : r \in Regs /\ s \in Stack => Left(M(i, A, r), s) = M(i, A, Rooted(r, s))
<1> SUFFICES ASSUME NEW i, NEW A, NEW r \in Regs, NEW s \in Stack
                        PROVE Left(M(i, A, r), s) = M(i, A, Rooted(r, s))
  OBVIOUS
<1>1. Left(Mach(i, A, r.tree, r.last), s) = Mach(i, A, s, r.last)
  <2>1. \A tree, x, v : [Mach(i, A, tree, x) EXCEPT !.tree = v] = Mach(i, A, v, x)
    BY DEF Mach
  <2> QED BY Zenon, <2>1 DEF Left
<1> QED BY <1>1, RootedIs DEF M

LEMMA NearRooted == \A r, q, s, t : Near("apart", r, q) /\ s \in Stack /\ t \in Stack
    => Near("apart", Rooted(r, s), Rooted(q, t))
BY RootedIs DEF Near

LEMMA SettledLeft == \A o, l, s, t : Settled("apart", o, l) /\ s \in Stack /\ t \in Stack
    => Settled("apart", Left(o, s), Left(l, t))
<1> SUFFICES ASSUME NEW o, NEW l, NEW s \in Stack, NEW t \in Stack, Settled("apart", o, l)
                        PROVE Settled("apart", Left(o, s), Left(l, t))
  OBVIOUS
<1>1. PICK A, B, r, q : /\ o = M(<<>>, A, r) /\ l = M(<<>>, B, q) /\ Near("apart", r, q) /\ Meet(A, B)
                        /\ Head(B) = Parse("globalstat") => r.last = "name"
  BY DEF Settled
<1>2. r \in Regs /\ q \in Regs
  BY <1>1, NearIn
<1>3. Left(o, s) = M(<<>>, A, Rooted(r, s)) /\ Left(l, t) = M(<<>>, B, Rooted(q, t))
          /\ Rooted(r, s).last = r.last
  BY <1>1, <1>2, LeftOfM, RootedIs
<1>4. Near("apart", Rooted(r, s), Rooted(q, t))
  BY <1>1, NearRooted
<1> QED BY Zenon, <1>1, <1>3, <1>4 DEF Settled

(* Two machines that may stand so after a lexeme; of one that has come to  *)
(* something where the other refuses for a construct, nothing is said.     *)
Typed(o, l) == o \in Machines /\ l \in Machines
Outcome(o, l, d) ==
    \/ Typed(o, l) /\ Standing(o, l, d) /\ Levelled(o, l, d)
    \/ l = Refusal("none") /\ d \cap MayAccept # {}
    \/ o = Refusal("none") /\ d \cap MayRefuse # {}

(* Comparing the trees takes nothing else away.                            *)
LEMMA Compared ==
    ASSUME NEW o, NEW l, NEW d, Outcome(o, l, d), Compare(o, l)
    PROVE  Standing(ours', lua', d) /\ Level(ours', lua', d)
<1>1. CASE Typed(o, l) /\ Standing(o, l, d) /\ Levelled(o, l, d)
  <2>1. PICK s, t : /\ s \in Stack /\ t \in Stack /\ ours' = Left(o, s) /\ lua' = Left(l, t)
                    /\ o.tree = l.tree => s = <<>> /\ t = <<>>
                    /\ o.tree = <<>> => s = <<>>
                    /\ l.tree = <<>> => t = <<>>
    BY <1>1, CompareLeaves DEF Typed
  <2>2. /\ Refused(ours') <=> Refused(o)
        /\ Ended(ours') <=> Ended(o)
        /\ ours'.tree = s
        /\ Refused(lua') <=> Refused(l)
        /\ Ended(lua') <=> Ended(l)
        /\ lua'.tree = t
    BY <1>1, <2>1, LeftKeeps DEF Typed
  <2>3. Settled("apart", o, l) => Settled("apart", ours', lua')
    BY <2>1, SettledLeft
  <2>4. Standing(ours', lua', d)
    BY <1>1, <2>2, <2>3 DEF Standing
  <2>5. Level(ours', lua', d)
    BY <1>1, <2>1, <2>2 DEF Level, Levelled
  <2> QED BY <2>4, <2>5
<1>2. CASE l = Refusal("none") /\ d \cap MayAccept # {}
  <2>1. Refused(l)
    BY <1>2, LeftRefused
  <2>2. lua' = Left(l, <<>>)
    BY <2>1 DEF Compare, Left
  <2>3. Refused(lua') /\ lua'.tree = <<>>
    BY <1>2, <2>2, LeftRefused
  <2> QED BY <1>2, <2>3 DEF Standing, Level
<1>3. CASE o = Refusal("none") /\ d \cap MayRefuse # {}
  <2>1. Refused(o)
    BY <1>3, LeftRefused
  <2>2. ours' = Left(o, <<>>)
    BY <2>1 DEF Compare, Left
  <2>3. Refused(ours') /\ ours'.tree = <<>>
    BY <1>3, <2>2, LeftRefused
  <2> QED BY <1>3, <2>3 DEF Standing, Level
<1> QED BY <1>1, <1>2, <1>3 DEF Outcome

-----------------------------------------------------------------------------
(* Lexemes, and the names of the constructs they begin.                    *)
(* What the lexer makes of a lexeme it accepts, and what Lua makes of it.  *)
LEMMA FirstIs == \A t : t \in TokenKinds => Only(t)[1] = t
BY DEF Only

LEMMA LexemeGroups ==
    \A x : x \in TokenKinds \cup Lexemes /\ x \notin Failing /\ x \notin LuaFailing /\ x \notin Pointed =>
      \/ x = "number" \/ x = "String"
      \/ x \in TokenKinds /\ x \notin Numerals /\ x \notin Quoted /\ x \notin Lexemes
BY DEF Lexemes, Numerals, Quoted, Failing, LuaFailing, Malformed, Pointed

(* A lexeme that both lexers accept is one token to both, but for a numeral *)
(* with a point and no digit after it.                                     *)
LEMMA TokensOf ==
    ASSUME NEW x \in TokenKinds \cup Lexemes, x \notin Failing, x \notin LuaFailing, x \notin Pointed
    PROVE  LET i == Tokens(x) IN Input(i) /\ i[1] = Head(i) /\ LuaTokens(x) = i
<1>1. \A t : t \in TokenKinds => Input(Only(t)) /\ Only(t)[1] = Head(Only(t))
  BY OnlyIs, FirstIs
<1>2. "String" \in TokenKinds /\ "Literal" \in TokenKinds
  BY KindsIn
<1>3. CASE x = "number"
  <2>1. x \notin Quoted /\ x \in Numerals
    BY <1>3 DEF Quoted, Numerals
  <2>2. Tokens(x) = Only("Literal")
    BY <1>3, <2>1 DEF Tokens, Only
  <2>3. LuaTokens(x) = Only("Literal")
    BY <1>3, <2>1 DEF LuaTokens, Only
  <2> QED BY <1>1, <1>2, <2>2, <2>3
<1>4. CASE x = "String"
  <2>1. x \in Quoted /\ x \notin Numerals
    BY <1>4 DEF Quoted, Numerals, Pointed, Malformed
  <2>2. Tokens(x) = Only("String")
    BY <1>4, <2>1 DEF Tokens, Only
  <2>3. LuaTokens(x) = Only("String")
    BY <1>4, <2>1 DEF LuaTokens, Only
  <2> QED BY <1>1, <1>2, <2>2, <2>3
<1>5. CASE x \in TokenKinds /\ x \notin Numerals /\ x \notin Quoted /\ x \notin Lexemes
  <2>1. Tokens(x) = Only(x)
    BY <1>5 DEF Tokens, Only, Lexemes, Numerals, Pointed, Malformed
  <2>2. LuaTokens(x) = Only(x)
    BY <1>5 DEF LuaTokens, Only, Lexemes, Failing
  <2> QED BY <1>1, <1>5, <2>1, <2>2
<1> QED BY <1>3, <1>4, <1>5, LexemeGroups

LEMMA OneSideFails ==
    /\ \A x : x \in Failing /\ x \notin LuaFailing => x \in {"wide", "surrogate"}
    /\ \A x : x \notin Failing /\ x \in LuaFailing => x \in Malformed \/ x = "odd_escape"
BY DEF LuaFailing

(* Which of the odd constructs a lexeme begins.                            *)
LEMMA OddNamed ==
    ASSUME NEW x, NEW A, NEW B, NEW t, A = ours.todo, B = lua.todo, t = Tokens(x)[1]
    PROVE  /\ x \in {"wide", "surrogate", "odd_escape"} => x \in OddLexeme(x)
           /\ x \in Pointed => "pointed" \in OddLexeme(x)
           /\ x \in Malformed => "malformed" \in OddLexeme(x)
           /\ Suffixed(A, B, t) => "literal_suffix" \in OddLexeme(x)
           /\ Head(B) = Expect("const") /\ t = "close" => "two_closes" \in OddLexeme(x)
           /\ Head(B) = Parse("localstat") /\ t = "<" => "prefix_attribute" \in OddLexeme(x)
           /\ Head(B) = Parse("vararg_name") /\ t \in Names => "named_vararg" \in OddLexeme(x)
           /\ Head(B) = Parse("globalstat") /\ t \in Names \cup {"<", "*", "function"}
                => "global" \in OddLexeme(x)
BY DEF OddLexeme, Suffixed

(* What the two sides come to names the constructs met at the end of a text. *)
LEMMA OutcomeNamed ==
    ASSUME NEW o, NEW l
    PROVE  /\ Ended(o) /\ o.input # <<"eof">> => "leftover" \in OddOutcome(o, l)
           /\ ~Refused(o) /\ l = Refusal("no_variable") => "no_variable" \in OddOutcome(o, l)
           /\ OneValue(l.tree) => "one_value" \in OddOutcome(o, l)
<1>1. Ended(o) /\ o.input # <<"eof">> => "leftover" \in OddOutcome(o, l)
  BY DEF OddOutcome
<1>2. Refusal("no_variable").todo = <<Fail("no_variable")>>
  BY DEF Refusal, Start
<1>3. ~Refused(o) /\ l = Refusal("no_variable") => "no_variable" \in OddOutcome(o, l)
  BY <1>2 DEF OddOutcome
<1>4. OneValue(l.tree) => "one_value" \in OddOutcome(o, l)
  BY DEF OddOutcome, OneValue
<1> QED BY <1>1, <1>3, <1>4

(* What the named constructs may lead to.                                  *)
LEMMA MayIs ==
    /\ \A x : x \in {"malformed", "odd_escape", "outside_vararg", "no_variable", "two_closes", "leftover"}
         => x \in MayAccept
    /\ \A x : x \in {"wide", "surrogate", "prefix_attribute", "named_vararg", "global"} => x \in MayRefuse
    /\ "one_value" \in OtherTree
BY DEF MayAccept, MayRefuse, OtherTree

(* After these two constructs the sides are no longer compared: each is in *)
(* all three classes.                                                      *)
Apart == {"pointed", "literal_suffix"}

LEMMA ApartIs == \A d : /\ d \cap MayAccept = {} => d \cap Apart = {}
                        /\ d \cap MayRefuse = {} => d \cap Apart = {}
                        /\ d \cap OtherTree = {} => d \cap Apart = {}
BY DEF Apart, MayAccept, MayRefuse, OtherTree

-----------------------------------------------------------------------------
(* A verdict, with the names of the constructs that were met, is one of    *)
(* the cases of the invariant.                                             *)
(* The names of what is odd are among d.                                   *)
Named(x, A, B, t, d) ==
    /\ x \in {"wide", "surrogate", "odd_escape"} => x \in d
    /\ x \in Pointed => "pointed" \in d
    /\ x \in Malformed => "malformed" \in d
    /\ Suffixed(A, B, t) => "literal_suffix" \in d
    /\ Head(B) = Expect("const") /\ t = "close" => "two_closes" \in d
    /\ Head(B) = Parse("localstat") /\ t = "<" => "prefix_attribute" \in d
    /\ Head(B) = Parse("vararg_name") /\ t \in Names => "named_vararg" \in d
    /\ Head(B) = Parse("globalstat") /\ t \in Names \cup {"<", "*", "function"} => "global" \in d

NamedAfter(o, l, d) ==
    /\ Ended(o) /\ o.input # <<"eof">> => "leftover" \in d
    /\ ~Refused(o) /\ l = Refusal("no_variable") => "no_variable" \in d
    /\ OneValue(l.tree) => "one_value" \in d

(* The distance of the sides: equal trees unless a construct that changes  *)
(* them has been met.                                                      *)
Distance(c, d) == c = "apart" => d \cap OtherTree # {}

LEMMA ApartNear == \A c, r, q : Near(c, r, q) => Near("apart", r, q)
BY DEF Near

LEMMA ApartSettled == \A c, o, l : Settled(c, o, l) => Settled("apart", o, l)
BY Zenon, ApartNear DEF Settled

LEMMA NoneRefuses == /\ Refusal("none") \in Machines /\ Refused(Refusal("none"))
                          /\ Refusal("none").tree = <<>>
                     /\ Refusal("no_variable") \in Machines /\ Refused(Refusal("no_variable"))
                          /\ Refusal("no_variable").tree = <<>>
<1>1. Refusal("none") \in Machines /\ Refusal("no_variable") \in Machines
  BY RefusalIn, VocabularyIs
<1>2. \A why : Refusal(why).todo = <<Fail(why)>> /\ Refusal(why).tree = <<>>
  BY DEF Refusal, Start
<1> QED BY <1>1, <1>2 DEF Refused, Ended, Fail

(* Equal trees, or a construct that changes them.                          *)
LEMMA TreesLevel ==
    ASSUME NEW c, NEW d, Distance(c, d), NEW r, NEW q, Akin(c, r, q), NEW o, NEW l, o.tree = r.tree,
               l.tree = q.tree, NamedAfter(o, l, d)
    PROVE  Levelled(o, l, d)
BY MayIs DEF Distance, Akin, NamedAfter, Levelled

LEMMA NearsAkin == \A c, r, q : Near(c, r, q) => Akin(c, r, q)
BY DEF Near, Akin

LEMMA SettledLevel == ASSUME NEW c, NEW d, Distance(c, d), NEW o, NEW l, Settled(c, o, l),
    NamedAfter(o, l, d) PROVE Levelled(o, l, d)
<1>1. PICK A, B, r, q : o = M(<<>>, A, r) /\ l = M(<<>>, B, q) /\ Near(c, r, q) /\ Meet(A, B)
  BY DEF Settled
<1>2. o.tree = r.tree /\ l.tree = q.tree
  BY <1>1, MeetIn, NearIn, EmptyIn, MIs
<1>3. Akin(c, r, q)
  BY <1>1, NearsAkin
<1> QED BY <1>2, <1>3, TreesLevel

LEMMA FinishedLevel ==
    ASSUME NEW c, NEW d, Distance(c, d), NEW i, i \in Tokens55, NEW o, NEW l, Finished(c, i, o, l),
               NamedAfter(o, l, d)
    PROVE  Levelled(o, l, d) /\ Typed(o, l) /\ Ended(o) /\ Ended(l)
<1>1. PICK r, q : o = M(i, <<>>, r) /\ l = M(<<>>, <<>>, q) /\ Akin(c, r, q)
  BY DEF Finished
<1>2. r \in Regs /\ q \in Regs
  BY <1>1 DEF Akin
<1>3. o.tree = r.tree /\ l.tree = q.tree /\ o \in Machines /\ l \in Machines /\ o.todo = <<>>
          /\ l.todo = <<>>
  BY <1>1, <1>2, EmptyIn, MIs
<1>5. Levelled(o, l, d)
  BY <1>1, <1>3, TreesLevel
<1> QED BY <1>3, <1>5 DEF Typed, Ended

LEMMA LuaLevel == \A o, l, d : l = Refusal("none") \/ l = Refusal("no_variable") \/ o = Refusal("none")
    => Levelled(o, l, d)
BY NoneRefuses DEF Levelled

LEMMA RefusedStanding ==
    /\ \A o, l, d : (l = Refusal("none") \/ l = Refusal("no_variable"))
         /\ (Refused(o) \/ d \cap MayAccept # {}) => Standing(o, l, d)
    /\ \A o, l, d : o = Refusal("none") /\ d \cap MayRefuse # {} => Standing(o, l, d)
BY NoneRefuses DEF Standing

-----------------------------------------------------------------------------
(* A verdict is a standing.                                                *)
LEMMA VerdictStands ==
    ASSUME NEW c, NEW i, Input(i), NEW o, NEW l, Verdict(c, i, o, l), NEW d, Distance(c, d),
               NamedAfter(o, l, d)
    PROVE  Outcome(o, l, d)
<1>0. o \in Machines /\ i \in Tokens55
  BY VerdictIn, InputIs
<1>1. CASE o = Refusal("none") /\ l = Refusal("none")
  <2>1. Standing(o, l, d) /\ Levelled(o, l, d)
    BY Zenon, <1>1, NoneRefuses, RefusedStanding, LuaLevel
  <2> QED BY <1>0, <1>1, <2>1, NoneRefuses DEF Outcome, Typed
<1>2. CASE l = Refusal("no_variable")
  <2>1. Refused(o) \/ "no_variable" \in d
    BY <1>2 DEF NamedAfter
  <2>2. Refused(o) \/ d \cap MayAccept # {}
    BY <2>1, MayIs
  <2>3. Standing(o, l, d) /\ Levelled(o, l, d)
    BY Zenon, <1>2, <2>2, RefusedStanding, LuaLevel
  <2> QED BY <1>0, <1>2, <2>3, NoneRefuses DEF Outcome, Typed
<1>3. CASE Head(i) # "eof" /\ l = Refusal("none") /\ \E r : r \in Regs /\ o = M(i, <<>>, r)
  <2>1. PICK r : r \in Regs /\ o = M(i, <<>>, r)
    BY <1>3
  <2>2. o.todo = <<>> /\ o.input = i
    BY <1>0, <2>1, EmptyIn, MIs
  <2>3. i # <<"eof">>
    BY <1>3
  <2>4. "leftover" \in d
    BY <2>2, <2>3 DEF NamedAfter, Ended
  <2>5. d \cap MayAccept # {}
    BY <2>4, MayIs
  <2>6. Standing(o, l, d) /\ Levelled(o, l, d)
    BY Zenon, <1>3, <2>5, RefusedStanding, LuaLevel
  <2> QED BY <1>0, <1>3, <2>6, NoneRefuses DEF Outcome, Typed
<1>4. CASE Finished(c, i, o, l)
  <2>1. Levelled(o, l, d) /\ Typed(o, l) /\ Ended(o) /\ Ended(l)
    BY Zenon, <1>0, <1>4, FinishedLevel
  <2> QED BY <2>1 DEF Outcome, Standing
<1>5. CASE Settled(c, o, l)
  <2>1. Levelled(o, l, d)
    BY Zenon, <1>5, SettledLevel
  <2>2. Settled("apart", o, l) /\ l \in Machines
    BY Zenon, <1>5, ApartSettled, SettledLua
  <2> QED BY <1>0, <2>1, <2>2 DEF Outcome, Typed, Standing
<1> QED BY <1>1, <1>2, <1>3, <1>4, <1>5 DEF Verdict

(* Where the sides part by construction, the construct is named.           *)
LEMMA PartingStands ==
    ASSUME NEW A, NEW B, NEW t, NEW o, NEW l, Parting(A, B, t, o, l), NEW x, NEW d, Named(x, A, B, t, d)
    PROVE  Outcome(o, l, d)
<1>1. CASE Head(B) = Expect("const") /\ t = "close" /\ Going(o) /\ l = Refusal("none")
  <2>1. "two_closes" \in d
    BY Zenon, <1>1 DEF Named
  <2>2. d \cap MayAccept # {}
    BY <2>1, MayIs
  <2>3. Standing(o, l, d) /\ Levelled(o, l, d)
    BY Zenon, <1>1, <2>2, RefusedStanding, LuaLevel
  <2> QED BY <1>1, <2>3, NoneRefuses DEF Outcome, Typed, Going
<1>2. CASE "prefix_attribute" \in d /\ o = Refusal("none") /\ l \in Machines
  <2>1. d \cap MayRefuse # {}
    BY <1>2, MayIs
  <2>2. Standing(o, l, d) /\ Levelled(o, l, d)
    BY Zenon, <1>2, <2>1, RefusedStanding, LuaLevel
  <2> QED BY <1>2, <2>2, NoneRefuses DEF Outcome, Typed
<1>3. CASE "named_vararg" \in d /\ o = Refusal("none") /\ l \in Machines
  <2>1. d \cap MayRefuse # {}
    BY <1>3, MayIs
  <2>2. Standing(o, l, d) /\ Levelled(o, l, d)
    BY Zenon, <1>3, <2>1, RefusedStanding, LuaLevel
  <2> QED BY <1>3, <2>2, NoneRefuses DEF Outcome, Typed
<1>4. CASE "global" \in d /\ o = Refusal("none") /\ l \in Machines
  <2>1. d \cap MayRefuse # {}
    BY <1>4, MayIs
  <2>2. Standing(o, l, d) /\ Levelled(o, l, d)
    BY Zenon, <1>4, <2>1, RefusedStanding, LuaLevel
  <2> QED BY <1>4, <2>2, NoneRefuses DEF Outcome, Typed
<1>5. CASE Head(B) = Parse("localstat") /\ t = "<" /\ o = Refusal("none") /\ l \in Machines
  BY Zenon, <1>2, <1>5 DEF Named
<1>6. CASE Head(B) = Parse("vararg_name") /\ t \in Names /\ o = Refusal("none") /\ l \in Machines
  BY Zenon, <1>3, <1>6 DEF Named
<1>7. CASE Head(B) = Parse("globalstat") /\ t \in Names \cup {"<", "*", "function"} /\ o = Refusal("none")
          /\ l \in Machines
  BY Zenon, <1>4, <1>7 DEF Named
<1> QED BY Zenon, <1>1, <1>5, <1>6, <1>7 DEF Parting

(* Both read the same tokens.                                              *)
LEMMA BothRead ==
    ASSUME NEW A, NEW B, NEW c, NEW r, NEW q, Near(c, r, q), Meet(A, B), Head(B) = Parse("globalstat")
               => r.last = "name",
           NEW i, Input(i), NEW o, NEW l, o = ReadOurs(i, A, r), l = ReadLua(i, B, q),
           NEW x, NEW d, Named(x, A, B, Head(i), d), NamedAfter(o, l, d), Distance(c, d),
           "literal_suffix" \notin d
    PROVE  Outcome(o, l, d)
<1>1. CASE Strange(A, B, Head(i))
  <2>1. r \in Regs /\ q \in Regs
    BY NearIn
  <2>2. ~Suffixed(A, B, Head(i))
    BY Zenon DEF Named
  <2>3. Parting(A, B, Head(i), o, l)
    BY Zenon, <1>1, <2>1, <2>2, StrangeParts
  <2> QED BY Zenon, <2>3, PartingStands
<1>2. CASE ~Strange(A, B, Head(i))
  <2>1. AgreeOn(i, A, B)
    BY Zenon, <1>2, MeetAgrees
  <2>2. Verdict(c, i, o, l)
    BY Zenon, <2>1 DEF AgreeOn
  <2> QED BY Zenon, <2>2, VerdictStands
<1> QED BY Zenon, <1>1, <1>2

-----------------------------------------------------------------------------
(* One lexeme is read.                                                     *)
LEMMA GivenTokens == \A i, A, r : /\ RunParser[[M(<<>>, A, r) EXCEPT !.input = i]] = ReadOurs(i, A, r)
                                  /\ RunLua55[[M(<<>>, A, r) EXCEPT !.input = i]] = ReadLua(i, A, r)
<1>1. \A i, A, tree, y : [Mach(<<>>, A, tree, y) EXCEPT !.input = i] = Mach(i, A, tree, y)
  BY DEF Mach
<1>2. \A i, A, r : [M(<<>>, A, r) EXCEPT !.input = i] = M(i, A, r)
  BY Zenon, <1>1 DEF M
<1> QED BY Zenon, <1>2 DEF ReadOurs, ReadLua

(* One lexeme, where the two sides wait.                                   *)
LEMMA LexemeRead ==
    ASSUME NEW A, NEW B, NEW r, NEW q, ours = M(<<>>, A, r), lua = M(<<>>, B, q), Near("apart", r, q),
               Meet(A, B),
           Head(B) = Parse("globalstat") => r.last = "name", Level(ours, lua, odd),
           NEW x \in TokenKinds \cup Lexemes, NEW o, NEW m, NEW l, l = Checked(x, m),
           x \in Failing => o = Refusal("none"), x \notin Failing => o = ReadOurs(Tokens(x), A, r),
           x \in LuaFailing => m = Refusal("none"), x \notin LuaFailing => m = ReadLua(LuaTokens(x), B, q),
           NEW d, odd \subseteq d, OddLexeme(x) \subseteq d, OddOutcome(o, l) \subseteq d,
           OddVararg(x, m) \subseteq d, d \cap Apart = {}
    PROVE  Outcome(o, l, d)
<1> DEFINE c == IF d \cap OtherTree = {} THEN "same" ELSE "apart"
           i == Tokens(x)
<1>0. A \in Stack /\ B \in Stack /\ r \in Regs /\ q \in Regs
  BY MeetIn, NearIn
<1>1. ours.todo = A /\ lua.todo = B /\ ours.tree = r.tree /\ lua.tree = q.tree
  BY <1>0, EmptyIn, MIs
<1>2. Named(x, A, B, Tokens(x)[1], d)
  BY <1>1, OddNamed DEF Named
<1>3. NamedAfter(o, l, d)
  BY OutcomeNamed DEF NamedAfter
<1>4. Distance(c, d)
  BY DEF Distance
<1>5. Near(c, r, q)
  <2>1. CASE d \cap OtherTree = {}
    <3>1. odd \cap OtherTree = {}
      BY <2>1
    <3>2. ~Refused(ours) /\ ~Refused(lua)
      <4>1. A # <<>> /\ B # <<>> /\ Reads(Head(A)) /\ Reads(Head(B))
        BY DEF Meet
      <4> QED BY <1>1, <4>1 DEF Refused, Reads
    <3>3. r.tree = <<>> /\ q.tree = <<>>
      BY <1>1, <3>1, <3>2 DEF Level
    <3> QED BY <3>3 DEF Near
  <2>2. CASE d \cap OtherTree # {}
    BY <2>2
  <2> QED BY <2>1, <2>2
<1> HIDE DEF c
<1>6. "literal_suffix" \notin d /\ "pointed" \notin d
  BY DEF Apart
<1>7. CASE x \in Failing /\ x \in LuaFailing
  <2>1. o = Refusal("none") /\ m = Refusal("none")
    BY <1>7
  <2>2. l = Refusal("none")
    BY <2>1 DEF Checked
  <2>3. Standing(o, l, d) /\ Levelled(o, l, d)
    BY Zenon, <2>1, <2>2, NoneRefuses, RefusedStanding, LuaLevel
  <2> QED BY <2>1, <2>2, <2>3, NoneRefuses DEF Outcome, Typed
<1>8. CASE x \in Failing /\ x \notin LuaFailing
  <2>1. x \in {"wide", "surrogate"}
    BY Zenon, <1>8, OneSideFails
  <2>2. x \in d
    BY <1>2, <2>1 DEF Named
  <2>3. d \cap MayRefuse # {}
    BY <2>1, <2>2, MayIs
  <2> QED BY <1>8, <2>3 DEF Outcome
<1>9. CASE x \notin Failing /\ x \in LuaFailing
  <2>1. x \in Malformed \/ x = "odd_escape"
    BY Zenon, <1>9, OneSideFails
  <2>2. "malformed" \in d \/ "odd_escape" \in d
    BY <1>2, <2>1 DEF Named
  <2>3. d \cap MayAccept # {}
    BY <2>2, MayIs
  <2>4. l = Refusal("none")
    BY <1>9 DEF Checked
  <2> QED BY <2>3, <2>4 DEF Outcome
<1>10. CASE Outside(x, m)
  <2>1. l = Refusal("none") /\ "outside_vararg" \in d
    BY <1>10 DEF Checked, OddVararg
  <2>2. d \cap MayAccept # {}
    BY <2>1, MayIs
  <2> QED BY <2>1, <2>2 DEF Outcome
<1>11. CASE x \notin Failing /\ x \notin LuaFailing /\ ~Outside(x, m)
  <2>1. x \notin Pointed
    BY <1>2, <1>6 DEF Named
  <2>2. Input(i) /\ i[1] = Head(i) /\ LuaTokens(x) = i
    BY <1>11, <2>1, TokensOf
  <2>3. l = m
    BY <1>11 DEF Checked
  <2>4. o = ReadOurs(i, A, r) /\ l = ReadLua(i, B, q)
    BY <1>11, <2>2, <2>3
  <2>5. Named(x, A, B, Head(i), d)
    BY <1>2, <2>2
  <2> HIDE DEF i
  <2> QED BY Zenon, <1>3, <1>4, <1>5, <1>6, <2>2, <2>4, <2>5, BothRead
<1> QED BY <1>7, <1>8, <1>9, <1>10, <1>11

-----------------------------------------------------------------------------
(* The two sides that read a text are to each other as the constructs that *)
(* have been met allow.                                                    *)
ReadingInv ==
    mode = "source" /\ odd \cap Apart = {} => Standing(ours, lua, odd) /\ Level(ours, lua, odd)

LEMMA StartsAre == \A s : Start(s) = M(<<>>, s, [tree |-> <<>>, last |-> "none"])
BY DEF Start, M, Mach

(* An empty text has been read: both wait for the first token.             *)
LEMMA ReadingInit == Init => ReadingInv
<1> SUFFICES ASSUME Init, mode = "source" PROVE Standing(ours, lua, odd) /\ Level(ours, lua, odd)
  BY DEF ReadingInv
<1> DEFINE A == Push(Parse("block"), Push(Parse("rest"), <<>>))
           B == Push(Parse("statlist"), Push(Expect("eof"), <<>>))
           r == [tree |-> <<>>, last |-> "none"]
<1>1. r \in Regs /\ r.tree = <<>>
  BY EmptyIn, VocabularyIs DEF Regs
<1>2. <<Parse("block"), Parse("rest")>> = A /\ <<Parse("statlist"), Expect("eof")>> = B
  <2>1. /\ Parse("block") \in Symbols /\ Parse("rest") \in Symbols /\ Parse("statlist") \in Symbols
             /\ Expect("eof") \in Symbols
    BY SymbolsIn, EndIn, SymbolIs, VocabularyIs
  <2>2. Word2(Parse("block"), Parse("rest")) = A /\ Word2(Parse("statlist"), Expect("eof")) = B
    BY <2>1, WordRules
  <2> QED BY Zenon, <2>2 DEF Word2
<1>3. Alike(A, B)
  BY Zenon, FitsAre, AlikeRules
<1>4. JointHere(A, B) /\ A \in Stack /\ B \in Stack
  BY Zenon, <1>3, BaresAre, AlikeIn
<1>5. A # <<>> /\ B # <<>> /\ Head(A) = Parse("block") /\ Head(B) = Parse("statlist")
  <2>1. Push(Parse("rest"), <<>>) \in Stack /\ Push(Expect("eof"), <<>>) \in Stack
    BY Zenon, AlikeRules, AlikeIn
  <2> QED BY <2>1, SymbolsIn, PushIs
<1>a. ours = Start(<<Parse("block"), Parse("rest")>>) /\ lua = Start(<<Parse("statlist"), Expect("eof")>>)
  BY DEF Init, Chunk
<1>6. ours = M(<<>>, A, r) /\ lua = M(<<>>, B, r)
  BY Zenon, <1>2, <1>a, StartsAre
<1> HIDE DEF A, B, r
<1>7. Meet(A, B) /\ Head(B) # Parse("globalstat")
  <2>1. Parse("statlist") # Parse("globalstat")
    BY DEF Parse
  <2> QED BY <1>4, <1>5, <2>1, ReadsAre DEF Meet
<1>8. Settled("apart", ours, lua)
  BY Zenon, <1>1, <1>6, <1>7, NearSelf DEF Settled
<1>9. ours.tree = <<>> /\ lua.tree = <<>>
  BY <1>1, <1>4, <1>6, EmptyIn, MIs
<1> QED BY <1>8, <1>9 DEF Standing, Level

(* Reading a lexeme keeps the invariant.                                   *)
LEMMA ReadingRead == ReadingInv /\ Read => ReadingInv'
<1> SUFFICES ASSUME ReadingInv, Read, odd' \cap Apart = {}
             PROVE  Standing(ours', lua', odd') /\ Level(ours', lua', odd')
  BY DEF ReadingInv
<1>1. PICK x \in SourceLexemes :
        /\ Compare(OursOn(x), Checked(x, LuaOn(x)))
        /\ Meets(OddLexeme(x) \cup OddOutcome(OursOn(x), Checked(x, LuaOn(x))) \cup OddVararg(x, LuaOn(x)))
  BY Zenon DEF Read
<1> DEFINE o == OursOn(x)
           m == LuaOn(x)
           l == Checked(x, m)
<1>2. x \in TokenKinds \cup Lexemes
  BY ConstantsAssumption
<1>3. /\ odd \subseteq odd' /\ OddLexeme(x) \subseteq odd' /\ OddOutcome(o, l) \subseteq odd'
      /\ OddVararg(x, m) \subseteq odd'
  BY <1>1 DEF Meets
<1>4. mode = "source" /\ Waiting(ours) /\ Waiting(lua)
  BY DEF Read
<1>5. Standing(ours, lua, odd) /\ Level(ours, lua, odd)
  BY <1>3, <1>4 DEF ReadingInv
<1>6. ~Refused(ours) /\ ~Refused(lua) /\ ~Ended(ours)
  BY <1>4 DEF Waiting, Refused, Reads
<1>7. Settled("apart", ours, lua)
  BY <1>5, <1>6 DEF Standing
<1>8. PICK A, B, r, q : /\ ours = M(<<>>, A, r) /\ lua = M(<<>>, B, q) /\ Near("apart", r, q) /\ Meet(A, B)
                        /\ Head(B) = Parse("globalstat") => r.last = "name"
  BY <1>7 DEF Settled
<1>9. /\ x \in Failing => o = Refusal("none")
      /\ x \notin Failing => o = RunParser[[ours EXCEPT !.input = Tokens(x)]]
      /\ x \in LuaFailing => m = Refusal("none")
      /\ x \notin LuaFailing => m = RunLua55[[lua EXCEPT !.input = LuaTokens(x)]]
  BY DEF OursOn, LuaOn
<1>10. Compare(o, l) /\ l = Checked(x, m)
  BY <1>1
<1> HIDE DEF o, m, l
<1>11. /\ x \notin Failing => o = ReadOurs(Tokens(x), A, r)
       /\ x \notin LuaFailing => m = ReadLua(LuaTokens(x), B, q)
  BY Zenon, <1>8, <1>9, GivenTokens
<1>12. Outcome(o, l, odd')
  BY <1>2, <1>3, <1>5, <1>8, <1>9, <1>10, <1>11, LexemeRead
<1> QED BY <1>10, <1>12, Compared

(* Only reading moves the machines of a text.                              *)
LEMMA ReadingElse == ReadingInv /\ [Next]_vars /\ ~Read => ReadingInv'
<1> SUFFICES ASSUME ReadingInv, [Next]_vars, ~Read, mode' = "source", odd' \cap Apart = {}
             PROVE  Standing(ours', lua', odd') /\ Level(ours', lua', odd')
  BY DEF ReadingInv
<1>1. mode = "source" /\ odd \cap Apart = {} => Standing(ours, lua, odd) /\ Level(ours, lua, odd)
  BY DEF ReadingInv
<1>2. CASE ours' = ours /\ lua' = lua /\ odd' = odd /\ mode' = mode
  BY <1>1, <1>2
<1>3. CASE ChooseNode \/ PrintToken \/ PushIndent \/ CompleteNode \/ PrintOdd \/ Spell \/ SpellInteger
          \/ Operate
  <2>1. mode' = mode /\ mode # "source"
    BY <1>3 DEF ChooseNode, PrintToken, PushIndent, CompleteNode, PrintOdd, Prints, Spell, SpellInteger,
       Operate
  <2> QED BY <2>1
<1>4. CASE ReadPrinted \/ Loop \/ Return \/ UNCHANGED vars
  BY <1>2, <1>4 DEF ReadPrinted, Loop, Return, vars, machines
<1> QED BY <1>3, <1>4 DEF Next

(* valua's parser and Lua 5.5's are to each other at every moment as the   *)
(* invariant says: they wait with stacks that are alike, have both ended, or *)
(* one has refused, and then the other has too, unless a construct was met *)
(* that accounts for it.  Holds for texts of any length and depth, up to a *)
(* numeral that ends in its point or a suffix that Lua does not take for   *)
(* one: from there on the two read different programs.                     *)
THEOREM Reading == Spec => []ReadingInv
<1>1. ReadingInv /\ [Next]_vars => ReadingInv'
  BY ReadingRead, ReadingElse
<1> QED BY <1>1, ReadingInit, PTL DEF Spec

(* No program that Lua 5.5 would accept is refused by `parse_block` and what *)
(* it calls, unless a construct of MayRefuse was met.                      *)
THEOREM ReadingNothingRefused == Spec => []NothingRefused
<1>1. ReadingInv => NothingRefused
  <2> SUFFICES ASSUME ReadingInv, mode = "source", Refused(ours), odd \cap MayRefuse = {} PROVE Refused(lua)
    BY DEF NothingRefused
  <2>1. Standing(ours, lua, odd)
    BY ApartIs DEF ReadingInv
  <2>2. ASSUME Settled("apart", ours, lua) PROVE FALSE
    <3>1. PICK A, B, r, q : ours = M(<<>>, A, r) /\ Near("apart", r, q) /\ Meet(A, B)
      BY <2>2 DEF Settled
    <3>2. ours.todo = A
      BY <3>1, MeetIn, NearIn, EmptyIn, MIs
    <3> QED BY <3>1, <3>2 DEF Meet, Refused, Reads
  <2> QED BY <2>1, <2>2 DEF Standing, Refused
<1> QED BY <1>1, Reading, PTL

(* No program that Lua 5.5 refuses is accepted, unless a construct of      *)
(* MayAccept was met.                                                      *)
THEOREM ReadingNothingSlipsThrough == Spec => []NothingSlipsThrough
<1>1. ReadingInv => NothingSlipsThrough
  <2> SUFFICES ASSUME ReadingInv, mode = "source", Refused(lua), odd \cap MayAccept = {} PROVE Refused(ours)
    BY DEF NothingSlipsThrough
  <2>1. Standing(ours, lua, odd)
    BY ApartIs DEF ReadingInv
  <2>2. ASSUME Settled("apart", ours, lua) PROVE FALSE
    <3>1. PICK A, B, r, q : lua = M(<<>>, B, q) /\ Near("apart", r, q) /\ Meet(A, B)
      BY <2>2 DEF Settled
    <3>2. lua.todo = B
      BY <3>1, MeetIn, NearIn, EmptyIn, MIs
    <3> QED BY <3>1, <3>2 DEF Meet, Refused, Reads
  <2> QED BY <2>1, <2>2 DEF Standing, Refused
<1> QED BY <1>1, Reading, PTL

(* The tree that valua builds of a source is the tree that Lua 5.5 builds. *)
THEOREM ReadingSameTree == Spec => []SameTreeRead
<1>1. ReadingInv => SameTreeRead
  BY ApartIs DEF ReadingInv, Level, SameTreeRead, Differ
<1> QED BY <1>1, Reading, PTL

=============================================================================
