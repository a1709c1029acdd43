------------------------- MODULE ConstScopes_proofs -------------------------
(***************************************************************************)
(* Proofs about ConstScopes for any identifiers, name lists and bounds.    *)
(***************************************************************************)
EXTENDS ConstScopes, SequenceTheorems, FiniteSetTheorems, TLAPS

USE ListsAssumption, BoundsAssumption

(* With the frames and the active variables in correspondence, the const   *)
(* variable a name resolves to is the innermost entry for it.              *)
LEMMA ResolvedIsFound ==
    ASSUME TypeOK, FramesMatch, ActiveInOrder, NEW x \in Idents
    PROVE  Resolve(x) \subseteq FindConst(x)
  <1> USE DEF NoEntry, NotConst
  <1>1. /\ \A k \in 1..Len(scopes) :
             \/ At(x, k) = {} /\ scopes[k][x] = NoEntry
             \/ \E v \in active : NewestAt(v, x, k) /\ Recorded(v, scopes[k][x])
        /\ \A v \in active : v.depth \in 1..Len(scopes) /\ v.span \in Nat \ {0}
        /\ Len(scopes) \in Nat
    BY LenProperties DEF FramesMatch, ActiveInOrder, TypeOK
  <1>3. ASSUME NEW c \in Resolve(x)
        PROVE  c \in FindConst(x)
    <2>1. PICK v \in active : v.name = x /\ v.attr = "const" /\ Newest(v) /\ c = v.span
      BY <1>3 DEF Resolve, ConstSpans, ReadOnly
    <2>2. v.depth \in 1..Len(scopes) /\ v \in At(x, v.depth) /\ v.span # 0
      BY <1>1, <2>1 DEF At
    <2>3. NewestAt(v, x, v.depth)
      BY <2>1, <2>2 DEF NewestAt, At, Newest
    <2>4. scopes[v.depth][x] = v.span
      <3>1. PICK w \in active : NewestAt(w, x, v.depth) /\ Recorded(w, scopes[v.depth][x])
        BY <1>1, <2>2
      <3>2. w.span = v.span /\ w.name = v.name
        BY <1>1, <2>1, <2>2, <2>3, <3>1 DEF NewestAt, At
      <3>3. w = v
        BY <3>2 DEF ActiveInOrder
      <3> QED
        BY <2>1, <3>1, <3>3 DEF Recorded
    <2>5. ASSUME NEW j \in (v.depth + 1)..Len(scopes)
          PROVE  scopes[j][x] = NoEntry
      <3>1. j \in 1..Len(scopes) /\ v.depth < j
        BY <1>1, <2>2
      <3> SUFFICES ASSUME scopes[j][x] # NoEntry PROVE FALSE
        OBVIOUS
      <3>2. PICK w \in active : NewestAt(w, x, j)
        BY <1>1, <3>1
      <3>3. v.span < w.span /\ w.name = x
        BY <3>1, <3>2 DEF NewestAt, At, ActiveInOrder
      <3> QED
        BY <1>1, <2>1, <3>3 DEF Newest
    <2>6. Innermost(scopes, v.depth, x)
      BY <1>1, <2>2, <2>4, <2>5 DEF Innermost
    <2> QED
      BY <2>1, <2>2, <2>4, <2>6 DEF FindConst
  <1> QED
    BY <1>3

(* And the innermost entry is about that variable, if every declaration is *)
(* a registered one.                                                       *)
LEMMA FoundIsResolved ==
    ASSUME TypeOK, FramesMatch, ActiveInOrder, used \subseteq Unseen, NEW x \in Idents
    PROVE  FindConst(x) \subseteq Resolve(x)
  <1> USE DEF NoEntry, NotConst
  <1>1. /\ \A k \in 1..Len(scopes) :
             \/ At(x, k) = {} /\ scopes[k][x] = NoEntry
             \/ \E v \in active : NewestAt(v, x, k) /\ Recorded(v, scopes[k][x])
        /\ \A v \in active : v.depth \in 1..Len(scopes) /\ v.span \in Nat \ {0}
        /\ Len(scopes) \in Nat
    BY LenProperties DEF FramesMatch, ActiveInOrder, TypeOK
  <1>2. ASSUME NEW c \in FindConst(x)
        PROVE  c \in Resolve(x)
    <2>1. PICK k \in 1..Len(scopes) : Innermost(scopes, k, x) /\ c = scopes[k][x]
      BY <1>2 DEF FindConst
    <2>2. c # NotConst /\ c # NoEntry
      BY <1>2, <2>1 DEF FindConst, Innermost
    <2>3. PICK v \in active : NewestAt(v, x, k) /\ v.attr = "const" /\ c = v.span
      BY <1>1, <2>1, <2>2 DEF Recorded
    <2>4. ASSUME NEW w \in active, w.name = x
          PROVE  w.span <= v.span
      <3>1. w.depth \in 1..Len(scopes) /\ w \in At(x, w.depth)
        BY <1>1, <2>4 DEF At
      <3>2. scopes[w.depth][x] # NoEntry
        BY <1>1, <3>1 DEF Recorded
      <3>3. w.depth <= k
        BY <1>1, <2>1, <3>1, <3>2 DEF Innermost
      <3>4. CASE w.depth = k
        BY <2>3, <3>1, <3>4 DEF NewestAt
      <3>5. CASE w.depth < k
        <4>1. v \in active /\ w \in active /\ w.depth < v.depth
          BY <2>3, <3>5 DEF NewestAt, At
        <4>2. w.span < v.span
          BY <4>1 DEF ActiveInOrder
        <4> QED
          BY <1>1, <4>1, <4>2
      <3> QED
        BY <1>1, <3>1, <3>3, <3>4, <3>5
    <2>5. v.name = x /\ Newest(v)
      BY <2>3, <2>4 DEF NewestAt, At, Newest
    <2> QED
      BY <2>3, <2>5 DEF Resolve, ConstSpans, ReadOnly
  <1> QED
    BY <1>2

(* The lint's answers, and hence its diagnostics, are declaration numbers, *)
(* Lua's are variables.                                                    *)
LEMMA AnswersTyped ==
    ASSUME TypeOK, NEW x \in Idents
    PROVE  FindConst(x) \subseteq Nat /\ ReadOnly(x) \subseteq Variables
  <1>1. ReadOnly(x) \subseteq Variables
    BY DEF ReadOnly, TypeOK
  <1>2. \A k \in 1..Len(scopes) : scopes[k][x] \in Nat \cup {NoEntry}
    BY ElementOfSeq DEF TypeOK, Frames
  <1> QED
    BY <1>1, <1>2 DEF FindConst, Innermost

-----------------------------------------------------------------------------
(* The chunk starts with one empty frame and no variable.                  *)
LEMMA InitInv == Init => IInv
  <1> SUFFICES ASSUME Init PROVE IInv
    OBVIOUS
  <1> USE DEF Init
  <1>1. Context("block") \in Contexts /\ EmptyFrame \in Frames
    BY DEF Context, Contexts, Kinds, Phases, EmptyFrame, NoEntry, Frames
  <1>2. TypeOK
    <2>1. <<Context("block")>> \in Seq(Contexts) /\ <<EmptyFrame>> \in Seq(Frames)
      BY <1>1
    <2> QED
      BY <2>1 DEF TypeOK
  <1>3. Shape /\ PendingNames
    BY DEF Shape, FramesMatch, ActiveInOrder, PendingNames, At, EmptyFrame, Context
  <1> QED
    BY <1>2, <1>3 DEF IInv, NoFalseAlarm, NothingMissed, Missed

-----------------------------------------------------------------------------
(* Popping the innermost frame or context.                                 *)
LEMMA PopTyped ==
    ASSUME NEW S, NEW s \in Seq(S)
    PROVE  /\ Pop(s) \in Seq(S)
           /\ Len(s) > 0 => /\ Len(Pop(s)) = Len(s) - 1
                           /\ \A k \in 1..(Len(s) - 1) : Pop(s)[k] = s[k]
  <1>1. Len(s) \in Nat /\ \A k \in 1..Len(s) : s[k] \in S
    BY LenProperties, ElementOfSeq
  <1>2. CASE Len(s) > 0
    <2>1. PICK n \in Nat : n = Len(s) - 1
      BY <1>1, <1>2
    <2>2. /\ SubSeq(s, 1, n) \in Seq(S)
          /\ Len(SubSeq(s, 1, n)) = IF 1 <= n THEN n - 1 + 1 ELSE 0
          /\ \A i \in 1..(n - 1 + 1) : SubSeq(s, 1, n)[i] = s[1 + i - 1]
      BY <1>1, <2>1, SubSeqProperties
    <2>3. ASSUME NEW k \in 1..n PROVE SubSeq(s, 1, n)[k] = s[k]
      <3>1. k \in 1..(n - 1 + 1) /\ 1 + k - 1 = k
        BY <2>1
      <3> QED
        BY <2>2, <3>1
    <2>4. Len(SubSeq(s, 1, n)) = n
      BY <2>1, <2>2
    <2>5. Pop(s) = SubSeq(s, 1, n)
      BY <2>1 DEF Pop
    <2> QED
      BY <2>1, <2>2, <2>3, <2>4, <2>5
  <1>3. CASE Len(s) = 0
    <2>1. SubSeq(s, 1, -1) = <<>>
      BY SubSeqEmpty
    <2> QED
      BY <1>3, <2>1 DEF Pop
  <1> QED
    BY <1>1, <1>2, <1>3

(* Entering a block or a function: what is pushed is typed.                *)
LEMMA EnterTyped ==
    ASSUME TypeOK, PendingNames, NEW kind \in Kinds, NEW params \in SUBSET Idents,
           ctx' = Append(ctx, Context(kind)),
           scopes' = Append(scopes, ParamFrame(params)),
           used \subseteq used'
    PROVE  ctx' \in Seq(Contexts) /\ scopes' \in Seq(Frames) /\ PendingNames'
  <1>1. Context(kind) \in Contexts /\ ParamFrame(params) \in Frames
    BY DEF Contexts, Frames, Context, Phases, ParamFrame, NoEntry, NotConst
  <1>2. ctx \in Seq(Contexts) /\ scopes \in Seq(Frames) /\ Len(ctx) \in Nat
    BY DEF TypeOK
  <1>3. /\ ctx' \in Seq(Contexts) /\ Len(ctx') = Len(ctx) + 1
        /\ \A k \in 1..Len(ctx) : ctx'[k] = ctx[k]
        /\ ctx'[Len(ctx) + 1] = Context(kind)
    BY <1>1, <1>2, AppendProperties
  <1>4. scopes' \in Seq(Frames)
    BY <1>1, <1>2, AppendProperties
  <1>5. PendingNames'
    BY <1>2, <1>3 DEF PendingNames, Context
  <1> QED
    BY <1>3, <1>4, <1>5

(* The variables Lua declares without attribute are variables.             *)
LEMMA PlainTyped ==
    ASSUME NEW names \in SUBSET Idents, NEW span \in Nat, NEW depth \in Nat
    PROVE  \A v \in Plain(names, span, depth) :
              /\ v \in Variables
              /\ v.name \in names /\ v.span = span /\ v.depth = depth /\ v.attr = "none"
              /\ names # {}
  <1> TAKE v \in Plain(names, span, depth)
  <1>1. PICK x \in names : v = Variable(x, span, depth, "none")
    BY DEF Plain
  <1>2. x \in Idents
    OBVIOUS
  <1> QED
    BY <1>1, <1>2 DEF Variable, Variables, Attributes

(* Two of them with one name are one.                                      *)
LEMMA PlainDiffer ==
    ASSUME NEW names, NEW span, NEW depth
    PROVE  \A v, w \in Plain(names, span, depth) : v.name = w.name => v = w
  <1> TAKE v, w \in Plain(names, span, depth)
  <1>1. PICK x \in names : v = Variable(x, span, depth, "none")
    BY DEF Plain
  <1>2. PICK y \in names : w = Variable(y, span, depth, "none")
    BY DEF Plain
  <1>3. v.name = x /\ w.name = y
    BY <1>1, <1>2 DEF Variable
  <1> QED
    BY <1>1, <1>2, <1>3

(* What Lua declares first: the control variable of a `for` or the name of *)
(* a local function.                                                       *)
First(names, span, depth, attr) == {Variable(x, span, depth, attr) : x \in names}

LEMMA FirstTyped ==
    ASSUME NEW names \in SUBSET Idents, NEW span \in Nat, NEW depth \in Nat,
           NEW attr \in {"none", "control"}
    PROVE  \A v \in First(names, span, depth, attr) :
              /\ v \in Variables
              /\ v.name \in names /\ v.span = span /\ v.depth = depth /\ v.attr # "const"
              /\ names # {}
  <1> TAKE v \in First(names, span, depth, attr)
  <1>1. PICK x \in names : v = Variable(x, span, depth, attr)
    BY DEF First
  <1>2. x \in Idents
    OBVIOUS
  <1> QED
    BY <1>1, <1>2 DEF Variable, Variables, Attributes

LEMMA FirstDiffer ==
    ASSUME NEW names, NEW span, NEW depth, NEW attr
    PROVE  \A v, w \in First(names, span, depth, attr) : v.name = w.name => v = w
  <1> TAKE v, w \in First(names, span, depth, attr)
  <1>1. PICK x \in names : v = Variable(x, span, depth, attr)
    BY DEF First
  <1>2. PICK y \in names : w = Variable(y, span, depth, attr)
    BY DEF First
  <1>3. v.name = x /\ w.name = y
    BY <1>1, <1>2 DEF Variable
  <1> QED
    BY <1>1, <1>2, <1>3

(* Entering a block or a function body.  Lua declares `names` in the new   *)
(* block, of which the lint registers `params`.  Before them it declares   *)
(* `first`, which the lint does not register: the control variable of a    *)
(* `for` in the new block, or the name of a local function in the one      *)
(* around it.                                                              *)
LEMMA EnterMatch ==
    ASSUME TypeOK, FramesMatch, ActiveInOrder, NEW kind \in Kinds, Len(ctx) > 0,
           NEW names \in SUBSET Idents, NEW params \in SUBSET names,
           NEW first \in SUBSET Idents, NEW m \in Nat,
           NEW where \in {Len(ctx), Len(ctx) + 1}, NEW attr \in {"none", "control"},
           IF first = {} THEN m = decls + 1 ELSE m = decls + 2,
           ctx' = Append(ctx, Context(kind)),
           scopes' = Append(scopes, ParamFrame(params)),
           active' = active \cup First(first, decls + 1, where, attr)
                            \cup Plain(names, m, Len(ctx) + 1),
           decls' \in Nat, decls' >= decls, names # {} \/ first # {} => decls' = m,
           used \subseteq used',
           names # params \/ first # {} => ~(used' \subseteq Unseen)
    PROVE  FramesMatch' /\ ActiveInOrder'
  <1> DEFINE n == Len(ctx)
             above == First(first, decls + 1, where, attr)
             inside == Plain(names, m, n + 1)
  <1>1. /\ ctx \in Seq(Contexts) /\ scopes \in Seq(Frames)
        /\ n \in Nat \ {0} /\ Len(scopes) = n /\ decls \in Nat
        /\ Context(kind) \in Contexts /\ ParamFrame(params) \in Frames
    BY DEF TypeOK, FramesMatch, Contexts, Frames, Context, Phases,
           ParamFrame, NoEntry, NotConst
  <1>2. Len(ctx') = n + 1
    BY <1>1, AppendProperties
  <1>3. /\ Len(scopes') = n + 1
        /\ \A k \in 1..n : scopes'[k] = scopes[k]
        /\ scopes'[n + 1] = ParamFrame(params)
    BY <1>1, AppendProperties
  <1>4. /\ \A v \in above : /\ v.name \in first /\ v.span = decls + 1 /\ v.depth = where
                            /\ v.attr # "const" /\ first # {}
        /\ \A v \in inside : /\ v.name \in names /\ v.span = m /\ v.depth = n + 1
                             /\ v.attr = "none" /\ names # {}
    <2>1. decls + 1 \in Nat /\ where \in Nat /\ n + 1 \in Nat
      BY <1>1
    <2>2. names \in SUBSET Idents /\ first \in SUBSET Idents /\ m \in Nat
      OBVIOUS
    <2>3. \A v \in First(first, decls + 1, where, attr) :
             /\ v \in Variables
             /\ v.name \in first /\ v.span = decls + 1 /\ v.depth = where /\ v.attr # "const"
             /\ first # {}
      BY <2>1, <2>2, FirstTyped, Zenon
    <2>4. \A v \in Plain(names, m, n + 1) :
             /\ v \in Variables
             /\ v.name \in names /\ v.span = m /\ v.depth = n + 1 /\ v.attr = "none"
             /\ names # {}
      BY <2>1, <2>2, PlainTyped, Zenon
    <2> QED
      BY <2>3, <2>4, Zenon
  <1>5. \A v \in active : v.depth \in 1..n /\ v.span \in 1..decls
    BY DEF ActiveInOrder
  <1>6. active' = active \cup above \cup inside
    OBVIOUS
  <1> HIDE DEF above, inside
  <1>7. FramesMatch'
    <2> SUFFICES ASSUME NEW k \in 1..(n + 1), NEW x \in Idents
                 PROVE  \/ At(x, k)' = {} /\ scopes'[k][x] = NoEntry
                        \/ \E v \in active' : NewestAt(v, x, k)' /\ Recorded(v, scopes[k][x])'
      BY <1>2, <1>3 DEF FramesMatch
    <2>1. CASE k \in 1..n /\ ~(k = where /\ x \in first)
      <3>1. At(x, k)' = At(x, k) /\ scopes'[k] = scopes[k]
        BY <1>1, <1>3, <1>4, <1>6, <2>1 DEF At
      <3>2. \A v \in active : NewestAt(v, x, k) => NewestAt(v, x, k)'
        BY <3>1 DEF NewestAt
      <3>3. \A v \in active : Recorded(v, scopes[k][x]) => Recorded(v, scopes[k][x])'
        BY <3>1 DEF Recorded
      <3>4. \/ At(x, k) = {} /\ scopes[k][x] = NoEntry
            \/ \E v \in active : NewestAt(v, x, k) /\ Recorded(v, scopes[k][x])
        BY <1>1, <2>1 DEF FramesMatch
      <3>5. CASE At(x, k) = {} /\ scopes[k][x] = NoEntry
        BY <3>1, <3>5
      <3>6. ASSUME NEW v \in active, NewestAt(v, x, k), Recorded(v, scopes[k][x])
            PROVE  \E w \in active' : NewestAt(w, x, k)' /\ Recorded(w, scopes[k][x])'
        <4>1. v \in active' /\ NewestAt(v, x, k)' /\ Recorded(v, scopes[k][x])'
          BY <1>6, <3>2, <3>3, <3>6
        <4> QED
          BY <4>1
      <3> QED
        BY <3>4, <3>5, <3>6
    <2>2. CASE k = where /\ x \in first /\ ~(k = n + 1 /\ x \in names)
      <3>1. PICK v \in above : v.name = x /\ v.depth = k /\ v.span = decls + 1 /\ v.attr # "const"
        <4>1. Variable(x, decls + 1, where, attr) \in above
          BY <2>2 DEF First, above
        <4> QED
          BY <1>4, <2>2, <4>1 DEF Variable
      <3>2. \A w \in active' : w.depth = k /\ w.name = x => w.span <= decls + 1
        BY <1>1, <1>4, <1>5, <1>6, <2>2
      <3>3. NewestAt(v, x, k)'
        BY <1>6, <2>2, <3>1, <3>2 DEF NewestAt, At
      <3>4. Recorded(v, scopes[k][x])'
        BY <2>2, <3>1 DEF Recorded
      <3> QED
        BY <1>6, <3>3, <3>4
    <2>3. CASE k = n + 1 /\ x \in names
      <3>1. PICK v \in inside : v.name = x /\ v.depth = k /\ v.span = m /\ v.attr = "none"
        <4>1. Variable(x, m, n + 1, "none") \in inside
          BY <2>3 DEF Plain, inside
        <4> QED
          BY <2>3, <4>1 DEF Variable
      <3>2. scopes'[k][x] = NotConst \/ names # params
        BY <1>3, <2>3 DEF ParamFrame
      <3>3. \A w \in active' : w.depth = k => w.span <= m
        BY <1>1, <1>4, <1>5, <1>6, <2>3
      <3>4. NewestAt(v, x, k)'
        BY <1>1, <1>6, <3>1, <3>3 DEF NewestAt, At
      <3>5. Recorded(v, scopes[k][x])'
        BY <3>1, <3>2 DEF Recorded
      <3> QED
        BY <1>6, <3>4, <3>5
    <2>4. CASE k = n + 1 /\ x \notin names /\ ~(k = where /\ x \in first)
      <3>1. At(x, k)' = {}
        BY <1>1, <1>4, <1>5, <1>6, <2>4 DEF At
      <3> QED
        BY <1>3, <2>4, <3>1 DEF ParamFrame
    <2> QED
      BY <1>1, <2>1, <2>2, <2>3, <2>4
  <1>8. ActiveInOrder'
    <2>1. \A v, w \in active : /\ v.depth < w.depth => v.span < w.span
                               /\ v.name = w.name /\ v.span = w.span => v = w
      BY DEF ActiveInOrder
    <2>2. /\ \A v, w \in inside : v.name = w.name => v = w
          /\ \A v, w \in above : v.name = w.name => v = w
      BY PlainDiffer, FirstDiffer DEF inside, above
    <2>3. \A v \in active' : v.depth \in 1..Len(ctx') /\ v.span \in 1..decls'
      BY <1>1, <1>2, <1>4, <1>5, <1>6
    <2>4. \A v, w \in active' : v.depth < w.depth => v.span < w.span
      BY <1>1, <1>4, <1>5, <1>6, <2>1
    <2>5. \A v, w \in active' : v.name = w.name /\ v.span = w.span => v = w
      BY <1>1, <1>4, <1>5, <1>6, <2>1, <2>2
    <2> QED
      BY <2>3, <2>4, <2>5 DEF ActiveInOrder
  <1> QED
    BY <1>7, <1>8

(* Leaving a block: its frame and its variables go together.               *)
LEMMA ExitMatch ==
    ASSUME TypeOK, PendingNames, Exit
    PROVE  /\ TypeOK' /\ PendingNames'
           /\ FramesMatch /\ ActiveInOrder => FramesMatch' /\ ActiveInOrder'
  <1> DEFINE n == Len(ctx)
  <1>1. /\ ctx \in Seq(Contexts) /\ scopes \in Seq(Frames)
        /\ n \in Nat \ {0}
    BY EmptySeq DEF TypeOK, Exit, InPhase
  <1>2. /\ ctx' \in Seq(Contexts) /\ Len(ctx') = n - 1
        /\ \A k \in 1..(n - 1) : ctx'[k] = ctx[k]
    <2>1. ctx' = Pop(ctx)
      BY DEF Exit
    <2>2. /\ Pop(ctx) \in Seq(Contexts) /\ Len(Pop(ctx)) = n - 1
          /\ \A k \in 1..(n - 1) : Pop(ctx)[k] = ctx[k]
      BY <1>1, PopTyped
    <2> QED
      BY <2>1, <2>2
  <1>3. active' = {v \in active : v.depth < n} /\ decls' = decls /\ used' = used
    BY DEF Exit, Leave
  <1>4. TypeOK'
    BY <1>1, <1>2, <1>3, PopTyped DEF TypeOK, Exit
  <1>5. PendingNames'
    BY <1>1, <1>2, <1>3 DEF PendingNames
  <1>6. ASSUME FramesMatch, ActiveInOrder PROVE FramesMatch' /\ ActiveInOrder'
    <2>1. /\ Len(scopes) = n /\ Len(scopes') = n - 1
          /\ \A k \in 1..(n - 1) : scopes'[k] = scopes[k]
      BY <1>1, <1>6, PopTyped DEF Exit, FramesMatch
    <2>2. FramesMatch'
      <3> SUFFICES ASSUME NEW k \in 1..(n - 1), NEW x \in Idents
                   PROVE  \/ At(x, k)' = {} /\ scopes'[k][x] = NoEntry
                          \/ \E v \in active' : NewestAt(v, x, k)' /\ Recorded(v, scopes[k][x])'
        BY <1>2, <2>1 DEF FramesMatch
      <3>1. k \in 1..n /\ k < n /\ scopes'[k] = scopes[k]
        BY <1>1, <2>1
      <3>2. At(x, k)' = At(x, k)
        BY <1>3, <3>1 DEF At
      <3>3. \A v \in active : NewestAt(v, x, k) => v \in active' /\ NewestAt(v, x, k)'
        BY <1>3, <3>1, <3>2 DEF NewestAt, At
      <3>4. \A v \in active : Recorded(v, scopes[k][x]) => Recorded(v, scopes[k][x])'
        BY <1>3, <3>1 DEF Recorded
      <3>5. \/ At(x, k) = {} /\ scopes[k][x] = NoEntry
            \/ \E v \in active : NewestAt(v, x, k) /\ Recorded(v, scopes[k][x])
        BY <1>6, <2>1, <3>1 DEF FramesMatch
      <3>6. CASE At(x, k) = {} /\ scopes[k][x] = NoEntry
        BY <3>1, <3>2, <3>6
      <3>7. ASSUME NEW v \in active, NewestAt(v, x, k), Recorded(v, scopes[k][x])
            PROVE  \E w \in active' : NewestAt(w, x, k)' /\ Recorded(w, scopes[k][x])'
        <4>1. v \in active' /\ NewestAt(v, x, k)' /\ Recorded(v, scopes[k][x])'
          BY <3>3, <3>4, <3>7
        <4> QED
          BY <4>1
      <3> QED
        BY <3>5, <3>6, <3>7
    <2>3. ActiveInOrder'
      BY <1>1, <1>2, <1>3, <1>6 DEF ActiveInOrder
    <2> QED
      BY <2>2, <2>3
  <1> QED
    BY <1>4, <1>5, <1>6

(* A step that leaves frames and variables alone, and every context in     *)
(* place, leaves them in correspondence.                                   *)
LEMMA SameMatch ==
    ASSUME FramesMatch, ActiveInOrder, UNCHANGED <<scopes, active, decls>>,
           Len(ctx') = Len(ctx), used \subseteq used'
    PROVE  FramesMatch' /\ ActiveInOrder'
  <1>1. \A x, k : At(x, k)' = At(x, k)
    BY DEF At
  <1>2. \A v, x, k : NewestAt(v, x, k)' <=> NewestAt(v, x, k)
    BY <1>1 DEF NewestAt
  <1>3. \A v \in active : \A k, x : Recorded(v, scopes[k][x]) => Recorded(v, scopes[k][x])'
    BY DEF Recorded
  <1>4. FramesMatch'
    BY <1>1, <1>2, <1>3 DEF FramesMatch
  <1>5. ActiveInOrder'
    BY DEF ActiveInOrder
  <1> QED
    BY <1>4, <1>5

(* Starting a local statement, or an until condition, changes the          *)
(* innermost context only.                                                 *)
LEMMA TopContext ==
    ASSUME TypeOK, PendingNames, ctx # <<>>, NEW top \in Contexts, ctx' = SetTop(ctx, top),
           used \subseteq used',
           top.phase \in {"values", "names"} => top.names # <<>>,
           top.phase = "until" => "until_closure" \in used'
    PROVE  ctx' \in Seq(Contexts) /\ Len(ctx') = Len(ctx) /\ PendingNames'
  <1> DEFINE n == Len(ctx)
  <1>1. ctx \in Seq(Contexts) /\ n \in Nat \ {0} /\ n \in 1..n
    BY EmptySeq DEF TypeOK
  <1>2. ctx' = [ctx EXCEPT ![n] = top]
    BY DEF SetTop
  <1>3. /\ ctx' \in Seq(Contexts) /\ Len(ctx') = n
        /\ \A k \in 1..n : ctx'[k] = IF k = n THEN top ELSE ctx[k]
    BY <1>1, <1>2, ExceptSeq
  <1>4. PendingNames'
    BY <1>1, <1>3 DEF PendingNames
  <1> QED
    BY <1>3, <1>4

(* Starting a local statement changes its context only.                    *)
LEMMA BeginLocalTyped ==
    ASSUME TypeOK, PendingNames, NEW list \in NameLists, BeginLocal(list)
    PROVE  TypeOK' /\ PendingNames' /\ Len(ctx') = Len(ctx)
  <1>1. ctx # <<>> /\ Top(ctx) \in Contexts
    BY EmptySeq, ElementOfSeq DEF BeginLocal, InPhase, TypeOK, Top
  <1>2. list \in Seq(Decls) /\ list # <<>>
    OBVIOUS
  <1>3. PICK top \in Contexts : /\ ctx' = SetTop(ctx, top)
                                /\ top.phase = "values" /\ top.names = list
    <2> DEFINE t == [Top(ctx) EXCEPT !.phase = "values", !.names = list]
    <2>1. t \in Contexts /\ t.phase = "values" /\ t.names = list
      BY <1>1, <1>2 DEF Contexts, Phases
    <2>2. ctx' = SetTop(ctx, t)
      BY DEF BeginLocal
    <2> HIDE DEF t
    <2> QED
      BY <2>1, <2>2
  <1>4. used' = used
    BY DEF BeginLocal
  <1>5. ctx' \in Seq(Contexts) /\ Len(ctx') = Len(ctx) /\ PendingNames'
    BY <1>1, <1>2, <1>3, <1>4, TopContext
  <1> QED
    BY <1>5 DEF BeginLocal, TypeOK

(* The innermost context, and what registering its next name makes of it.  *)
LEMMA RegisterContext ==
    ASSUME TypeOK, PendingNames, RegisterName
    PROVE  \E d \in Decls, top \in Contexts :
              /\ d = Head(Top(ctx).names)
              /\ ctx # <<>> /\ ctx' = SetTop(ctx, top) /\ top.phase # "until"
              /\ top.phase \in {"values", "names"} => top.names # <<>>
  <1> DEFINE n == Len(ctx)
  <1>1. /\ ctx \in Seq(Contexts) /\ n \in Nat \ {0} /\ n \in 1..n /\ ctx[n] \in Contexts
        /\ Top(ctx) = ctx[n]
    BY EmptySeq, ElementOfSeq DEF TypeOK, RegisterName, InPhase, Top
  <1>2. PICK names \in Seq(Decls) : names = ctx[n].names /\ names # <<>>
    BY <1>1 DEF RegisterName, InPhase, PendingNames, Contexts
  <1>3. PICK d \in Decls, rest \in Seq(Decls) : d = Head(names) /\ rest = Tail(names)
    BY <1>2, HeadTailProperties
  <1> DEFINE t == [ctx[n] EXCEPT !.phase = IF rest = <<>> THEN "stmts" ELSE "names",
                                 !.names = rest]
  <1>4. /\ t \in Contexts /\ t.phase = (IF rest = <<>> THEN "stmts" ELSE "names")
        /\ t.names = rest
    BY <1>1 DEF Contexts, Phases
  <1>5. ctx' = SetTop(ctx, t)
    BY <1>1, <1>2, <1>3 DEF RegisterName
  <1>6. ctx # <<>>
    BY DEF RegisterName, InPhase
  <1> HIDE DEF t
  <1>7. t.phase # "until" /\ (t.phase \in {"values", "names"} => t.names # <<>>)
    BY <1>4
  <1>8. d = Head(Top(ctx).names)
    BY <1>1, <1>2, <1>3
  <1> QED
    BY <1>4, <1>5, <1>6, <1>7, <1>8

(* Registering a name is typed, whatever frame it goes into.               *)
LEMMA RegisterTyped ==
    ASSUME TypeOK, PendingNames, RegisterName
    PROVE  TypeOK' /\ PendingNames' /\ Len(ctx') = Len(ctx)
  <1>1. PICK d \in Decls, top \in Contexts :
              /\ d = Head(Top(ctx).names)
              /\ ctx # <<>> /\ ctx' = SetTop(ctx, top) /\ top.phase # "until"
              /\ top.phase \in {"values", "names"} => top.names # <<>>
    BY RegisterContext
  <1>2. /\ scopes' = Insert(scopes, d.name, Entry(d.attr, decls + 1))
        /\ active' = active \cup {Variable(d.name, decls + 1, Len(ctx), d.attr)}
        /\ decls' = decls + 1 /\ UNCHANGED <<diags, illegal, used>>
    BY <1>1 DEF RegisterName
  <1>3. d.name \in Idents /\ decls \in Nat /\ decls + 1 \in Nat /\ Len(ctx) \in Nat
    BY LenProperties DEF Decls, TypeOK
  <1>4. Entry(d.attr, decls + 1) \in Nat \cup {NoEntry}
    BY <1>3 DEF Entry, NotConst
  <1>5. scopes' \in Seq(Frames)
    <2>1. scopes \in Seq(Frames) /\ Len(scopes) \in Nat /\ DOMAIN scopes = 1..Len(scopes)
      BY LenProperties DEF TypeOK
    <2>2. CASE Len(scopes) \in 1..Len(scopes)
      <3>1. scopes[Len(scopes)] \in Frames
        BY <2>1, <2>2, ElementOfSeq
      <3> DEFINE frame == [scopes[Len(scopes)] EXCEPT ![d.name] = Entry(d.attr, decls + 1)]
      <3>2. frame \in Frames
        BY <1>3, <1>4, <3>1 DEF Frames
      <3>3. scopes' = [scopes EXCEPT ![Len(scopes)] = frame]
        BY <1>2, <2>2 DEF Insert
      <3> HIDE DEF frame
      <3> QED
        BY <2>1, <2>2, <3>2, <3>3, ExceptSeq
    <2>3. CASE Len(scopes) \notin 1..Len(scopes)
      <3>1. scopes' = scopes
        BY <1>2, <2>1, <2>3 DEF Insert
      <3> QED
        BY <2>1, <3>1
    <2> QED
      BY <2>2, <2>3
  <1>6. Variable(d.name, decls + 1, Len(ctx), d.attr) \in Variables
    BY <1>3 DEF Decls, Variable, Variables
  <1>7. ctx' \in Seq(Contexts) /\ Len(ctx') = Len(ctx) /\ PendingNames'
    BY <1>1, <1>2, TopContext
  <1> QED
    BY <1>2, <1>3, <1>5, <1>6, <1>7 DEF TypeOK

(* Registering a name: the innermost frame's new entry is the new variable. *)
LEMMA RegisterMatch ==
    ASSUME TypeOK, PendingNames, FramesMatch, ActiveInOrder, RegisterName
    PROVE  FramesMatch' /\ ActiveInOrder'
  <1> DEFINE n == Len(ctx)
  <1>0. PICK d \in Decls, top \in Contexts :
              /\ d = Head(Top(ctx).names)
              /\ ctx # <<>> /\ ctx' = SetTop(ctx, top) /\ top.phase # "until"
              /\ top.phase \in {"values", "names"} => top.names # <<>>
    BY RegisterContext
  <1>1. /\ ctx \in Seq(Contexts) /\ scopes \in Seq(Frames) /\ Len(scopes) = n
        /\ n \in Nat \ {0} /\ n \in 1..n /\ scopes[n] \in Frames /\ decls \in Nat
    BY <1>0, EmptySeq, ElementOfSeq DEF TypeOK, FramesMatch
  <1>4. PICK x \in Idents : x = d.name
    BY DEF Decls
  <1>6. PICK u \in Variables :
          /\ active' = active \cup {u}
          /\ u.name = x /\ u.span = decls + 1 /\ u.depth = n
          /\ u.attr = d.attr
    <2> DEFINE v == Variable(x, decls + 1, n, d.attr)
    <2>1. v \in Variables /\ v.name = x /\ v.span = decls + 1 /\ v.depth = n
          /\ v.attr = d.attr
      BY <1>1 DEF Variable, Variables, Decls
    <2>2. active' = active \cup {v}
      BY <1>0, <1>1, <1>4 DEF RegisterName
    <2> HIDE DEF v
    <2> QED
      BY <2>1, <2>2
  <1>7. PICK e \in Nat : /\ e = Entry(d.attr, decls + 1)
                         /\ e = IF u.attr = "const" THEN u.span ELSE NotConst
    <2>1. decls + 1 \in Nat /\ NotConst \in Nat
      BY <1>1 DEF NotConst
    <2>2. CASE d.attr = "const"
      <3>1. u.attr = "const" /\ Entry(d.attr, decls + 1) = u.span
        BY <1>6, <2>2 DEF Entry
      <3> QED
        BY <1>6, <2>1, <3>1
    <2>3. CASE d.attr # "const"
      <3>1. u.attr # "const" /\ Entry(d.attr, decls + 1) = NotConst
        BY <1>6, <2>3 DEF Entry
      <3> QED
        BY <2>1, <3>1
    <2> QED
      BY <2>2, <2>3
  <1>8. PICK frame \in Frames :
          /\ scopes' = [scopes EXCEPT ![n] = frame]
          /\ frame[x] = IF u.attr = "const" THEN u.span ELSE NotConst
          /\ \A y \in Idents : y # x => frame[y] = scopes[n][y]
    <2>1. scopes' = [scopes EXCEPT ![n] = [scopes[n] EXCEPT ![x] = e]]
      BY <1>0, <1>1, <1>4, <1>7 DEF RegisterName, Insert
    <2>2. [scopes[n] EXCEPT ![x] = e] \in Frames
      BY <1>1 DEF Frames
    <2> QED
      BY <1>1, <1>7, <2>1, <2>2 DEF Frames
  <1>9. Len(ctx') = n
    BY RegisterTyped
  <1>10. /\ scopes' \in Seq(Frames) /\ Len(scopes') = n
         /\ \A k \in 1..n : scopes'[k] = IF k = n THEN frame ELSE scopes[k]
    BY <1>1, <1>8, ExceptSeq
  <1>11. decls' = decls + 1 /\ used' = used /\ u.name = x
    BY <1>6 DEF RegisterName
  <1>13. \A v \in active : v.depth \in 1..n /\ v.span \in 1..decls
    BY DEF ActiveInOrder
  <1>14. FramesMatch'
    <2> SUFFICES ASSUME NEW k \in 1..n, NEW y \in Idents
                 PROVE  \/ At(y, k)' = {} /\ scopes'[k][y] = NoEntry
                        \/ \E v \in active' : NewestAt(v, y, k)' /\ Recorded(v, scopes[k][y])'
      BY <1>9, <1>10 DEF FramesMatch
    <2>1. CASE k = n /\ y = x
      <3>1. \A w \in active' : w.span <= u.span
        BY <1>1, <1>6, <1>13
      <3>2. u \in active' /\ NewestAt(u, y, k)'
        BY <1>6, <1>11, <2>1, <3>1 DEF NewestAt, At
      <3>3. Recorded(u, scopes[k][y])'
        BY <1>8, <1>10, <2>1 DEF Recorded
      <3> QED
        BY <3>2, <3>3
    <2>2. CASE ~(k = n /\ y = x)
      <3>1. At(y, k)' = At(y, k)
        BY <1>6, <1>11, <2>2 DEF At
      <3>2. scopes'[k][y] = scopes[k][y]
        BY <1>8, <1>10, <2>2
      <3>3. \A v \in active : NewestAt(v, y, k) => v \in active' /\ NewestAt(v, y, k)'
        BY <1>6, <3>1 DEF NewestAt
      <3>4. \A v \in active : Recorded(v, scopes[k][y]) => Recorded(v, scopes[k][y])'
        BY <1>11, <3>2 DEF Recorded
      <3>5. \/ At(y, k) = {} /\ scopes[k][y] = NoEntry
            \/ \E v \in active : NewestAt(v, y, k) /\ Recorded(v, scopes[k][y])
        BY <1>1 DEF FramesMatch
      <3>6. ASSUME NEW v \in active, NewestAt(v, y, k), Recorded(v, scopes[k][y])
            PROVE  \E w \in active' : NewestAt(w, y, k)' /\ Recorded(w, scopes[k][y])'
        <4>1. v \in active' /\ NewestAt(v, y, k)' /\ Recorded(v, scopes[k][y])'
          BY <3>3, <3>4, <3>6
        <4> QED
          BY <4>1
      <3> QED
        BY <3>1, <3>2, <3>5, <3>6
    <2> QED
      BY <2>1, <2>2
  <1>15. ActiveInOrder'
    <2>1. \A v, w \in active : /\ v.depth < w.depth => v.span < w.span
                               /\ v.name = w.name /\ v.span = w.span => v = w
      BY DEF ActiveInOrder
    <2>2. \A v \in active : v.depth <= u.depth /\ v.span < u.span
      BY <1>1, <1>6, <1>13
    <2>3. u.depth \in 1..Len(ctx') /\ u.span \in 1..decls'
      BY <1>1, <1>6, <1>9, <1>11
    <2>4. \A v \in active : v.depth \in 1..Len(ctx') /\ v.span \in 1..decls'
      BY <1>1, <1>9, <1>11, <1>13
    <2>5. \A v \in active' : v \in active \/ v = u
      BY <1>6
    <2> QED
      BY <1>1, <1>13, <2>1, <2>2, <2>3, <2>4, <2>5 DEF ActiveInOrder
  <1> QED
    BY <1>14, <1>15

(* Every step is typed, whatever constructs the program uses.              *)
LEMMA StepTyped ==
    ASSUME TypeOK, PendingNames, [Next]_vars
    PROVE  TypeOK' /\ PendingNames' /\ used \subseteq used'
  <1>1. \A x \in Idents : FindConst(x) \subseteq Nat /\ ReadOnly(x) \subseteq Variables
    BY AnswersTyped
  <1>2. decls \in Nat /\ Len(ctx) \in Nat /\ {} \in SUBSET Idents
    BY DEF TypeOK
  <1>3. EmptyFrame = ParamFrame({})
    BY DEF EmptyFrame, ParamFrame
  <1>4. \A c \in {"for_names", "local_function", "method_self", "function_decl",
                  "target_closure", "until_closure"} :
          used \cup {c} \subseteq Diverging
    BY DEF TypeOK, Diverging, Unregistered, Unseen
  <1>5. \A names \in SUBSET Idents :
          /\ Plain(names, decls + 1, Len(ctx)) \subseteq Variables
          /\ Plain(names, decls + 1, Len(ctx) + 1) \subseteq Variables
          /\ Plain(names, decls + 2, Len(ctx) + 1) \subseteq Variables
    <2> TAKE names \in SUBSET Idents
    <2>1. decls + 1 \in Nat /\ decls + 2 \in Nat /\ Len(ctx) + 1 \in Nat
      BY <1>2
    <2> QED
      BY <1>2, <2>1, PlainTyped
  <1>6. ASSUME NEW kind \in {"block", "repeat"}, EnterBlock(kind)
        PROVE  TypeOK' /\ PendingNames' /\ used \subseteq used'
    BY <1>2, <1>3, <1>6, EnterTyped DEF EnterBlock, Kinds, TypeOK
  <1>7. ASSUME NEW x \in Idents, NEW names \in SUBSET Idents, EnterForBody(x, names)
        PROVE  TypeOK' /\ PendingNames' /\ used \subseteq used'
    <2>1. used \subseteq used' /\ used' \subseteq Diverging
      BY <1>4, <1>7 DEF EnterForBody, Use
    <2>2. ctx' \in Seq(Contexts) /\ scopes' \in Seq(Frames) /\ PendingNames'
      BY <1>2, <1>3, <1>7, <2>1, EnterTyped DEF EnterForBody, Kinds
    <2>3. active' \subseteq Variables
      <3>1. Variable(x, decls + 1, Len(ctx) + 1, "control") \in Variables
        BY <1>2 DEF Variable, Variables
      <3> QED
        BY <1>2, <1>5, <1>7, <3>1 DEF EnterForBody, TypeOK
    <2>4. decls' \in Nat /\ UNCHANGED diags
      BY <1>2, <1>7 DEF EnterForBody
    <2> QED
      BY <1>7, <2>1, <2>2, <2>3, <2>4 DEF EnterForBody, TypeOK
  <1>8. ASSUME NEW params \in SUBSET Idents, EnterClosure(params)
        PROVE  TypeOK' /\ PendingNames' /\ used \subseteq used'
    <2>1. ctx' \in Seq(Contexts) /\ scopes' \in Seq(Frames) /\ PendingNames'
      BY <1>2, <1>3, <1>8, EnterTyped DEF EnterClosure, PushFunction, Kinds
    <2>2. active' \subseteq Variables
      BY <1>2, <1>5, <1>8 DEF EnterClosure, TypeOK
    <2>3. decls' \in Nat /\ UNCHANGED diags
      BY <1>2, <1>8 DEF EnterClosure
    <2> QED
      BY <1>8, <2>1, <2>2, <2>3 DEF EnterClosure, TypeOK
  <1>9. ASSUME NEW f \in Idents, NEW params \in SUBSET Idents, EnterLocalFunction(f, params)
        PROVE  TypeOK' /\ PendingNames' /\ used \subseteq used'
    <2>1. used \subseteq used' /\ used' \subseteq Diverging
      BY <1>4, <1>9 DEF EnterLocalFunction, Use
    <2>2. {f} \in SUBSET Idents
      OBVIOUS
    <2>3. ctx' \in Seq(Contexts) /\ scopes' \in Seq(Frames) /\ PendingNames'
      BY <1>2, <1>3, <1>9, <2>1, EnterTyped DEF EnterLocalFunction, PushFunction, Kinds
    <2>4. active' \subseteq Variables
      BY <1>2, <1>5, <1>9, <2>2 DEF EnterLocalFunction, TypeOK
    <2>5. decls' \in Nat /\ UNCHANGED diags
      BY <1>2, <1>9 DEF EnterLocalFunction
    <2> QED
      BY <1>9, <2>1, <2>3, <2>4, <2>5 DEF EnterLocalFunction, TypeOK
  <1>10. ASSUME NEW self \in Idents, NEW params \in SUBSET Idents, EnterMethod(self, params)
         PROVE  TypeOK' /\ PendingNames' /\ used \subseteq used'
    <2>1. used \subseteq used' /\ used' \subseteq Diverging
      BY <1>4, <1>10 DEF EnterMethod, Use
    <2>2. {self} \cup params \in SUBSET Idents
      OBVIOUS
    <2>3. ctx' \in Seq(Contexts) /\ scopes' \in Seq(Frames) /\ PendingNames'
      BY <1>2, <1>3, <1>10, <2>1, EnterTyped DEF EnterMethod, PushFunction, Kinds
    <2>4. active' \subseteq Variables
      BY <1>2, <1>5, <1>10, <2>2 DEF EnterMethod, TypeOK
    <2>5. decls' \in Nat /\ UNCHANGED diags
      BY <1>2, <1>10 DEF EnterMethod
    <2> QED
      BY <1>10, <2>1, <2>3, <2>4, <2>5 DEF EnterMethod, TypeOK
  <1>11. ASSUME NEW f \in Idents, NEW params \in SUBSET Idents, EnterFunctionDecl(f, params)
         PROVE  TypeOK' /\ PendingNames' /\ used \subseteq used'
    <2>1. used \subseteq used' /\ used' \subseteq Diverging
      BY <1>4, <1>11 DEF EnterFunctionDecl, Use
    <2>2. ctx' \in Seq(Contexts) /\ scopes' \in Seq(Frames) /\ PendingNames'
      BY <1>2, <1>3, <1>11, <2>1, EnterTyped DEF EnterFunctionDecl, PushFunction, Kinds
    <2>3. active' \subseteq Variables
      BY <1>2, <1>5, <1>11 DEF EnterFunctionDecl, TypeOK
    <2>4. decls' \in Nat /\ UNCHANGED diags
      BY <1>2, <1>11 DEF EnterFunctionDecl
    <2> QED
      BY <1>1, <1>11, <2>1, <2>2, <2>3, <2>4 DEF EnterFunctionDecl, TypeOK
  <1>12. CASE Exit
    BY <1>12, ExitMatch DEF Exit
  <1>13. CASE EnterUntil
    <2>1. ctx # <<>> /\ Top(ctx) \in Contexts
      BY <1>13, EmptySeq, ElementOfSeq DEF EnterUntil, InPhase, TypeOK, Top
    <2>2. PICK top \in Contexts : ctx' = SetTop(ctx, top) /\ top.phase = "until"
      BY <1>13, <2>1 DEF EnterUntil, Contexts, Phases
    <2>3. used \subseteq used' /\ used' \subseteq Diverging /\ "until_closure" \in used'
      BY <1>4, <1>13 DEF EnterUntil, Use
    <2>4. ctx' \in Seq(Contexts) /\ PendingNames'
      BY <2>1, <2>2, <2>3, TopContext
    <2>5. scopes' \in Seq(Frames)
      BY <1>13, PopTyped DEF EnterUntil, TypeOK
    <2> QED
      BY <1>13, <2>3, <2>4, <2>5 DEF EnterUntil, TypeOK
  <1>14. CASE ExitUntil
    <2>1. ctx \in Seq(Contexts) /\ Len(ctx) \in Nat \ {0}
      BY <1>14, EmptySeq DEF ExitUntil, InPhase, TypeOK
    <2>2. /\ ctx' \in Seq(Contexts) /\ Len(ctx') = Len(ctx) - 1
          /\ \A k \in 1..(Len(ctx) - 1) : ctx'[k] = ctx[k]
      BY <1>14, <2>1, PopTyped DEF ExitUntil
    <2>3. PendingNames'
      BY <1>14, <2>1, <2>2 DEF PendingNames, ExitUntil
    <2> QED
      BY <1>14, <2>2, <2>3 DEF ExitUntil, TypeOK, Leave
  <1>15. ASSUME NEW list \in NameLists, BeginLocal(list)
         PROVE  /\ TypeOK' /\ PendingNames' /\ used \subseteq used'
    BY <1>15, BeginLocalTyped DEF BeginLocal
  <1>16. CASE RegisterName
    BY <1>16, RegisterTyped DEF RegisterName
  <1>17. ASSUME NEW targets \in SUBSET Idents, Assign(targets)
         PROVE  TypeOK' /\ PendingNames' /\ used \subseteq used'
    <2>1. /\ UNION {FindConst(x) : x \in targets} \subseteq Nat
          /\ UNION {ReadOnly(x) : x \in targets} \subseteq Variables
      BY <1>1
    <2> QED
      BY <1>17, <2>1 DEF Assign, TypeOK, PendingNames
  <1>18. ASSUME NEW x \in Idents, AssignInTarget(x)
         PROVE  TypeOK' /\ PendingNames' /\ used \subseteq used'
    <2>1. used \subseteq used' /\ used' \subseteq Diverging
      BY <1>4, <1>18 DEF AssignInTarget, Use
    <2> QED
      BY <1>1, <1>18, <2>1 DEF AssignInTarget, TypeOK, PendingNames
  <1>19. CASE UNCHANGED vars
    BY <1>19 DEF vars, TypeOK, PendingNames
  <1> QED
    BY <1>6, <1>7, <1>8, <1>9, <1>10, <1>11, <1>12, <1>13, <1>14, <1>15, <1>16, <1>17,
       <1>18, <1>19 DEF Next

(* Every step but an `until` keeps frames and variables in correspondence. *)
LEMMA StepMatch ==
    ASSUME TypeOK, PendingNames, FramesMatch, ActiveInOrder, [Next]_vars,
           "until_closure" \notin used'
    PROVE  FramesMatch' /\ ActiveInOrder'
  <1>1. TypeOK' /\ used \subseteq used'
    BY StepTyped
  <1>2. decls \in Nat /\ {} \in SUBSET Idents /\ decls' \in Nat
    BY <1>1 DEF TypeOK
  <1>3. EmptyFrame = ParamFrame({})
    BY DEF EmptyFrame, ParamFrame
  <1>4. \A span, depth : First({}, span, depth, "none") = {} /\ Plain({}, span, depth) = {}
    BY DEF First, Plain
  <1>5. ctx # <<>> => Len(ctx) > 0
    BY EmptySeq DEF TypeOK
  <1>6. ASSUME NEW kind \in {"block", "repeat"}, EnterBlock(kind)
        PROVE  FramesMatch' /\ ActiveInOrder'
    <2>1. /\ kind \in Kinds /\ Len(ctx) > 0 /\ decls + 1 \in Nat
          /\ ctx' = Append(ctx, Context(kind)) /\ scopes' = Append(scopes, ParamFrame({}))
          /\ active' = active \cup First({}, decls + 1, Len(ctx), "none")
                              \cup Plain({}, decls + 1, Len(ctx) + 1)
          /\ decls' >= decls
      BY <1>2, <1>3, <1>4, <1>5, <1>6 DEF EnterBlock, InPhase, Kinds
    <2> QED
      BY <1>1, <1>2, <2>1, EnterMatch
  <1>7. ASSUME NEW x \in Idents, NEW names \in SUBSET Idents, EnterForBody(x, names)
        PROVE  FramesMatch' /\ ActiveInOrder'
    <2>1. /\ "block" \in Kinds /\ Len(ctx) > 0 /\ decls + 2 \in Nat
          /\ ctx' = Append(ctx, Context("block")) /\ scopes' = Append(scopes, ParamFrame({}))
          /\ active' = active \cup First({x}, decls + 1, Len(ctx) + 1, "control")
                              \cup Plain(names, decls + 2, Len(ctx) + 1)
          /\ decls' = decls + 2 /\ decls' >= decls
      BY <1>2, <1>3, <1>5, <1>7 DEF EnterForBody, InPhase, Kinds, First
    <2>2. ~(used' \subseteq Unseen) /\ {} \in SUBSET names /\ {x} \in SUBSET Idents /\ {x} # {}
      BY <1>7 DEF EnterForBody, Use, Unseen
    <2> QED
      BY <1>1, <1>2, <2>1, <2>2, EnterMatch
  <1>8. ASSUME NEW params \in SUBSET Idents, EnterClosure(params)
        PROVE  FramesMatch' /\ ActiveInOrder'
    <2>1. /\ "function" \in Kinds /\ Len(ctx) > 0 /\ decls + 1 \in Nat
          /\ ctx' = Append(ctx, Context("function"))
          /\ scopes' = Append(scopes, ParamFrame(params))
          /\ active' = active \cup First({}, decls + 1, Len(ctx), "none")
                              \cup Plain(params, decls + 1, Len(ctx) + 1)
          /\ decls' = decls + 1 /\ decls' >= decls
      BY <1>2, <1>4, <1>5, <1>8 DEF EnterClosure, PushFunction, InPhase, Kinds
    <2>2. params \in SUBSET params
      OBVIOUS
    <2> QED
      BY <1>1, <1>2, <2>1, <2>2, EnterMatch
  <1>9. ASSUME NEW f \in Idents, NEW params \in SUBSET Idents, EnterLocalFunction(f, params)
        PROVE  FramesMatch' /\ ActiveInOrder'
    <2>1. /\ "function" \in Kinds /\ Len(ctx) > 0 /\ decls + 2 \in Nat
          /\ ctx' = Append(ctx, Context("function"))
          /\ scopes' = Append(scopes, ParamFrame(params))
          /\ active' = active \cup First({f}, decls + 1, Len(ctx), "none")
                              \cup Plain(params, decls + 2, Len(ctx) + 1)
          /\ decls' = decls + 2 /\ decls' >= decls
      BY <1>2, <1>5, <1>9 DEF EnterLocalFunction, PushFunction, InPhase, Kinds, First, Plain
    <2>2. ~(used' \subseteq Unseen)
      BY <1>9 DEF EnterLocalFunction, Use, Unseen
    <2>3. {f} \in SUBSET Idents /\ {f} # {} /\ params \in SUBSET params
      OBVIOUS
    <2> QED
      BY <1>1, <1>2, <2>1, <2>2, <2>3, EnterMatch
  <1>10. ASSUME NEW self \in Idents, NEW params \in SUBSET Idents, EnterMethod(self, params)
         PROVE  FramesMatch' /\ ActiveInOrder'
    <2>1. /\ "function" \in Kinds /\ Len(ctx) > 0 /\ decls + 1 \in Nat
          /\ ctx' = Append(ctx, Context("function"))
          /\ scopes' = Append(scopes, ParamFrame(params))
          /\ active' = active \cup First({}, decls + 1, Len(ctx), "none")
                              \cup Plain({self} \cup params, decls + 1, Len(ctx) + 1)
          /\ decls' = decls + 1 /\ decls' >= decls
      BY <1>2, <1>4, <1>5, <1>10 DEF EnterMethod, PushFunction, InPhase, Kinds
    <2>2. ~(used' \subseteq Unseen)
      BY <1>10 DEF EnterMethod, Use, Unseen
    <2>3. PICK names \in SUBSET Idents : names = {self} \cup params /\ params \in SUBSET names
      OBVIOUS
    <2> QED
      BY <1>1, <1>2, <2>1, <2>2, <2>3, EnterMatch
  <1>11. ASSUME NEW f \in Idents, NEW params \in SUBSET Idents, EnterFunctionDecl(f, params)
         PROVE  FramesMatch' /\ ActiveInOrder'
    <2>1. /\ "function" \in Kinds /\ Len(ctx) > 0 /\ decls + 1 \in Nat
          /\ ctx' = Append(ctx, Context("function"))
          /\ scopes' = Append(scopes, ParamFrame(params))
          /\ active' = active \cup First({}, decls + 1, Len(ctx), "none")
                              \cup Plain(params, decls + 1, Len(ctx) + 1)
          /\ decls' = decls + 1 /\ decls' >= decls
      BY <1>2, <1>4, <1>5, <1>11 DEF EnterFunctionDecl, PushFunction, InPhase, Kinds
    <2>2. params \in SUBSET params
      OBVIOUS
    <2> QED
      BY <1>1, <1>2, <2>1, <2>2, EnterMatch
  <1>12. CASE Exit
    BY <1>12, ExitMatch
  <1>13. ~EnterUntil
    BY DEF EnterUntil, Use
  <1>14. ~ExitUntil
    <2>1. ASSUME ExitUntil PROVE FALSE
      <3>1. ctx \in Seq(Contexts) /\ ctx # <<>> /\ Top(ctx).phase = "until"
        BY <2>1 DEF ExitUntil, InPhase, TypeOK
      <3>2. Len(ctx) \in 1..Len(ctx)
        BY <3>1, EmptySeq
      <3> QED
        BY <1>1, <3>1, <3>2 DEF Top, PendingNames
    <2> QED
      BY <2>1
  <1>15. ASSUME NEW list \in NameLists, BeginLocal(list)
         PROVE  FramesMatch' /\ ActiveInOrder'
    BY <1>1, <1>15, BeginLocalTyped, SameMatch DEF BeginLocal
  <1>16. CASE RegisterName
    BY <1>16, RegisterMatch
  <1>17. ASSUME NEW targets \in SUBSET Idents, Assign(targets)
         PROVE  FramesMatch' /\ ActiveInOrder'
    BY <1>1, <1>17, SameMatch DEF Assign
  <1>18. ASSUME NEW x \in Idents, AssignInTarget(x)
         PROVE  FramesMatch' /\ ActiveInOrder'
    BY <1>1, <1>18, SameMatch DEF AssignInTarget
  <1>19. CASE UNCHANGED vars
    BY <1>1, <1>19, SameMatch DEF vars
  <1> QED
    BY <1>6, <1>7, <1>8, <1>9, <1>10, <1>11, <1>12, <1>13, <1>14, <1>15, <1>16, <1>17,
       <1>18, <1>19 DEF Next

-----------------------------------------------------------------------------
(* What is reported and what is illegal after a step, given how names are  *)
(* looked up before it.                                                    *)
LEMMA StepReports ==
    ASSUME IInv, [Next]_vars
    PROVE  NoFalseAlarm' /\ NothingMissed'
  <1>1. TypeOK /\ used \subseteq used' /\ NoFalseAlarm /\ NothingMissed
    BY StepTyped DEF IInv
  <1>2. used \subseteq Unseen \/ used \subseteq Unregistered => FramesMatch /\ ActiveInOrder
    BY DEF IInv, Shape, Unseen, Unregistered
  <1>3. ASSUME NEW targets \in SUBSET Idents, Assign(targets)
        PROVE  NoFalseAlarm' /\ NothingMissed'
    <2>1. ASSUME used \subseteq Unseen
          PROVE  diags' \subseteq ConstSpans(illegal')
      <3>1. ASSUME NEW x \in targets PROVE FindConst(x) \subseteq ConstSpans(illegal')
        <4>1. FindConst(x) \subseteq ConstSpans(ReadOnly(x))
          BY <1>1, <1>2, <2>1, FoundIsResolved DEF Resolve
        <4>2. ReadOnly(x) \subseteq illegal'
          BY <1>3 DEF Assign
        <4> QED
          BY <4>1, <4>2 DEF ConstSpans
      <3>2. diags \subseteq ConstSpans(illegal')
        BY <1>1, <1>3, <2>1 DEF Assign, NoFalseAlarm, ConstSpans
      <3>3. diags' = diags \cup UNION {FindConst(x) : x \in targets}
        BY <1>3 DEF Assign
      <3> QED
        BY <3>1, <3>2, <3>3
    <2>2. ASSUME used \subseteq Unregistered, NEW v \in illegal', v.span \notin diags'
          PROVE  v.attr \in {"close", "control"}
      <3>1. CASE v \in illegal
        BY <1>1, <1>3, <2>2, <3>1 DEF Assign, NothingMissed, Missed
      <3>2. CASE v \notin illegal
        <4>1. PICK x \in targets : v \in ReadOnly(x)
          BY <1>3, <2>2, <3>2 DEF Assign
        <4>2. ConstSpans(ReadOnly(x)) \subseteq diags'
          <5>1. Resolve(x) \subseteq FindConst(x)
            BY <1>1, <1>2, <2>2, ResolvedIsFound
          <5> QED
            BY <1>3, <5>1 DEF Assign, Resolve
        <4>3. v.attr # "const"
          BY <2>2, <4>1, <4>2 DEF ConstSpans
        <4>4. v.attr # "none" /\ v.attr \in Attributes \cup {"control"}
          BY <1>1, <4>1 DEF ReadOnly, TypeOK, Variables
        <4> QED
          BY <4>3, <4>4 DEF Attributes
      <3> QED
        BY <3>1, <3>2
    <2>3. used' = used
      BY <1>3 DEF Assign
    <2> QED
      BY <2>1, <2>2, <2>3 DEF NoFalseAlarm, NothingMissed, Missed
  <1>4. ASSUME NEW x \in Idents, AssignInTarget(x)
        PROVE  NoFalseAlarm' /\ NothingMissed'
    <2>1. ~(used' \subseteq Unregistered)
      BY <1>4 DEF AssignInTarget, Use, Unregistered
    <2> QED
      BY <1>1, <1>4, <2>1 DEF AssignInTarget, NoFalseAlarm, NothingMissed, ConstSpans
  <1>5. ASSUME NEW f \in Idents, NEW params \in SUBSET Idents, EnterFunctionDecl(f, params)
        PROVE  NoFalseAlarm' /\ NothingMissed'
    <2>1. ~(used' \subseteq Unregistered)
      BY <1>5 DEF EnterFunctionDecl, Use, Unregistered
    <2> QED
      BY <1>1, <1>5, <2>1 DEF EnterFunctionDecl, NoFalseAlarm, NothingMissed, ConstSpans
  <1>6. CASE UNCHANGED <<diags, illegal>>
    BY <1>1, <1>6 DEF NoFalseAlarm, NothingMissed, Missed
  <1> QED
    BY <1>3, <1>4, <1>5, <1>6 DEF Next, vars, EnterBlock, EnterForBody, EnterClosure,
       EnterLocalFunction, EnterMethod, Exit, EnterUntil, ExitUntil, BeginLocal, RegisterName

(* At every point of the walk of every program the invariant's parts hold: *)
(* the types, and in programs without a function expression in an `until`  *)
(* condition the correspondence of frames and variables; in those whose    *)
(* declarations are all registered, that alarms are deserved; in those     *)
(* whose assignments are all seen, that one to a `<const>` variable is     *)
(* reported (check_block, register_locals, find_const).                    *)
THEOREM AlwaysIInv == Spec => []IInv
  <1>1. IInv /\ [Next]_vars => IInv'
    <2> SUFFICES ASSUME IInv, [Next]_vars PROVE IInv'
      OBVIOUS
    <2>1. TypeOK' /\ PendingNames' /\ used \subseteq used'
      BY StepTyped DEF IInv
    <2>2. Shape'
      BY <2>1, StepMatch DEF IInv, Shape
    <2> QED
      BY <2>1, <2>2, StepReports DEF IInv
  <1> QED
    BY <1>1, InitInv, PTL DEF Spec

(* For every program whose declarations are all registered -- any names,   *)
(* any nesting, any number of shadowing declarations -- find_const answers *)
(* at every point of the walk what Lua's compiler answers.                 *)
THEOREM LookupIsLuas == Spec => []SameAnswer
  <1>1. IInv => SameAnswer
    BY FoundIsResolved, ResolvedIsFound DEF IInv, SameAnswer, Shape, Unseen
  <1> QED
    BY <1>1, AlwaysIInv, PTL

(* On those programs an E0301 is always deserved, even if they make        *)
(* assignments the lint does not see.                                      *)
THEOREM AlarmsDeserved == Spec => []NoFalseAlarm
  BY AlwaysIInv, PTL DEF IInv

(* In every program whose assignments are all seen, one to a `<const>`     *)
(* variable is reported, even if there are declarations the lint does not  *)
(* register: whatever else Lua refuses and the lint lets through is an     *)
(* assignment to a `<close>` variable or to a loop's control variable,     *)
(* which no lint looks for (check_assign, find_const).                     *)
THEOREM ErrorsReported == Spec => []NothingMissed
  BY AlwaysIInv, PTL DEF IInv

(* The variables of every state of every walk are of their types           *)
(* (ConstScopes.TypeOK).                                                   *)
THEOREM ScopesTyped == Spec => []TypeOK
  BY AlwaysIInv, PTL DEF IInv

-----------------------------------------------------------------------------
(* There are finitely many blocks being walked.                            *)
LEMMA WalkedFinite ==
    ASSUME NEW c \in Seq(Contexts)
    PROVE  IsFiniteSet(Walked(c)) /\ Cardinality(Walked(c)) \in Nat
  <1>1. Len(c) \in Nat /\ 1 \in Int /\ Len(c) \in Int
    BY LenProperties
  <1>2. IsFiniteSet(1..Len(c))
    BY <1>1, FS_Interval
  <1>3. Walked(c) \subseteq 1..Len(c)
    BY DEF Walked
  <1> QED
    BY <1>2, <1>3, FS_Subset, FS_CardinalityType

(* One more when a block is entered ...                                    *)
LEMMA WalkedPush ==
    ASSUME NEW c \in Seq(Contexts), NEW x \in Contexts, x.phase # "until",
           NEW d, d = Append(c, x)
    PROVE  Cardinality(Walked(d)) = Cardinality(Walked(c)) + 1
  <1>1. /\ Len(c) \in Nat /\ Len(d) = Len(c) + 1 /\ d[Len(c) + 1] = x
        /\ \A k \in 1..Len(c) : d[k] = c[k]
    BY AppendProperties, LenProperties
  <1>2. Walked(d) = Walked(c) \cup {Len(c) + 1}
    BY <1>1 DEF Walked
  <1>3. Len(c) + 1 \notin Walked(c)
    BY <1>1 DEF Walked
  <1> QED
    BY <1>2, <1>3, WalkedFinite, FS_AddElement

(* ... and one less when it is left.                                       *)
LEMMA WalkedLess ==
    ASSUME NEW c \in Seq(Contexts), Len(c) > 0, NEW d, Walked(d) = Walked(c) \ {Len(c)}
    PROVE  /\ c[Len(c)].phase = "until" => Cardinality(Walked(d)) = Cardinality(Walked(c))
           /\ c[Len(c)].phase # "until" => /\ Cardinality(Walked(d)) = Cardinality(Walked(c)) - 1
                                           /\ Cardinality(Walked(c)) > 0
  <1>1. Len(c) \in Nat /\ Len(c) \in 1..Len(c)
    BY LenProperties
  <1>2. CASE c[Len(c)].phase = "until"
    <2>1. Walked(d) = Walked(c)
      BY <1>2 DEF Walked
    <2> QED
      BY <1>2, <2>1
  <1>3. CASE c[Len(c)].phase # "until"
    <2>1. Len(c) \in Walked(c)
      BY <1>1, <1>3 DEF Walked
    <2>2. Cardinality(Walked(c) \ {Len(c)}) = Cardinality(Walked(c)) - 1
      BY <2>1, WalkedFinite, FS_RemoveElement
    <2>3. Cardinality(Walked(c)) # 0
      BY <2>1, WalkedFinite, FS_EmptySet
    <2>4. Cardinality(Walked(c)) \in Nat
      BY WalkedFinite
    <2> QED
      BY <1>3, <2>2, <2>3, <2>4
  <1> QED
    BY <1>2, <1>3

LEMMA WalkedPop ==
    ASSUME NEW c \in Seq(Contexts), Len(c) > 0, NEW d, d = Pop(c)
    PROVE  Walked(d) = Walked(c) \ {Len(c)}
  <1>1. Len(c) \in Nat /\ Len(d) = Len(c) - 1 /\ \A k \in 1..(Len(c) - 1) : d[k] = c[k]
    BY PopTyped, LenProperties
  <1> QED
    BY <1>1 DEF Walked

LEMMA WalkedSet ==
    ASSUME NEW c \in Seq(Contexts), Len(c) > 0, NEW x \in Contexts,
           c[Len(c)].phase # "until", NEW d, d = SetTop(c, x)
    PROVE  /\ Len(d) = Len(c)
           /\ Walked(d) = IF x.phase = "until" THEN Walked(c) \ {Len(c)} ELSE Walked(c)
  <1>1. Len(c) \in Nat /\ Len(c) \in 1..Len(c)
    BY LenProperties
  <1>2. /\ Len(d) = Len(c)
        /\ \A k \in 1..Len(c) : d[k] = IF k = Len(c) THEN x ELSE c[k]
    BY <1>1, ExceptSeq DEF SetTop
  <1> QED
    BY <1>1, <1>2 DEF Walked

-----------------------------------------------------------------------------
LEMMA BalancedInit == Init => BInv
  <1> SUFFICES ASSUME Init PROVE BInv
    OBVIOUS
  <1>1. TypeOK /\ PendingNames
    BY InitInv DEF IInv
  <1>2. ctx = <<Context("block")>> /\ scopes = <<EmptyFrame>> /\ active = {}
    BY DEF Init
  <1>3. Walked(ctx) = {1}
    BY <1>2 DEF Walked, Context
  <1>4. Balanced
    BY <1>2, <1>3, FS_Singleton DEF Balanced
  <1> QED
    BY <1>1, <1>2, <1>4 DEF BInv, InOpenBlock

(* A block or function is entered, with variables of its own, or, for the  *)
(* name of a local function, in the block around it.                       *)
LEMMA BalancedEnter ==
    ASSUME BInv, ctx # <<>>, NEW kind \in Kinds, NEW frame \in Frames,
           ctx' = Append(ctx, Context(kind)), scopes' = Append(scopes, frame),
           \A v \in active' : v \in active \/ v.depth \in {Len(ctx), Len(ctx) + 1}
    PROVE  Balanced' /\ InOpenBlock'
  <1>1. PICK c \in Seq(Contexts), s \in Seq(Frames) : c = ctx /\ s = scopes
    BY DEF BInv, TypeOK
  <1>2. PICK d, t : d = ctx' /\ t = scopes'
    OBVIOUS
  <1>3. Context(kind) \in Contexts /\ Context(kind).phase # "until"
    BY DEF Contexts, Context, Phases
  <1>4. Len(c) \in Nat \ {0} /\ Len(d) = Len(c) + 1 /\ Len(s) \in Nat /\ Len(t) = Len(s) + 1
    BY <1>1, <1>2, <1>3, AppendProperties, LenProperties, EmptySeq
  <1>5. Cardinality(Walked(d)) = Cardinality(Walked(c)) + 1
    BY <1>1, <1>2, <1>3, WalkedPush
  <1>6. Len(s) = Cardinality(Walked(c))
    BY <1>1 DEF BInv, Balanced
  <1>7. d # <<>>
    BY <1>4
  <1>8. Balanced'
    BY <1>2, <1>4, <1>5, <1>6, <1>7 DEF Balanced
  <1>9. InOpenBlock'
    <2>1. \A v \in active : v.depth \in 1..Len(c)
      BY <1>1 DEF BInv, InOpenBlock
    <2>2. \A v \in active' : v.depth \in 1..Len(d)
      BY <1>1, <1>4, <2>1
    <2> QED
      BY <1>2, <2>2 DEF InOpenBlock
  <1> QED
    BY <1>8, <1>9

(* A block is left: after its statements with its frame, or after the      *)
(* condition of a repeat, which has had no frame.                          *)
LEMMA BalancedExit ==
    ASSUME BInv, ctx # <<>>, ctx' = Pop(ctx), active' = Leave(Len(ctx)),
           IF Top(ctx).phase = "until" THEN scopes' = scopes ELSE scopes' = Pop(scopes)
    PROVE  Balanced' /\ InOpenBlock'
  <1>1. PICK c \in Seq(Contexts), s \in Seq(Frames) : c = ctx /\ s = scopes
    BY DEF BInv, TypeOK
  <1>2. PICK d, t : d = ctx' /\ t = scopes'
    OBVIOUS
  <1>3. Len(c) \in Nat /\ Len(c) > 0 /\ Len(s) \in Nat
    BY <1>1, EmptySeq, LenProperties
  <1>4. d \in Seq(Contexts) /\ Len(d) = Len(c) - 1 /\ Walked(d) = Walked(c) \ {Len(c)}
    BY <1>1, <1>2, <1>3, PopTyped, WalkedPop
  <1>5. Len(s) = Cardinality(Walked(c))
    BY <1>1 DEF BInv, Balanced
  <1>6. Len(t) = Cardinality(Walked(d))
    <2>1. CASE c[Len(c)].phase = "until"
      <3>1. t = s
        BY <1>1, <1>2, <2>1 DEF Top
      <3> QED
        BY <1>3, <1>4, <1>5, <2>1, <3>1, WalkedLess
    <2>2. CASE c[Len(c)].phase # "until"
      <3>1. t = Pop(s)
        BY <1>1, <1>2, <2>2 DEF Top
      <3>2. Cardinality(Walked(d)) = Cardinality(Walked(c)) - 1 /\ Cardinality(Walked(c)) > 0
        BY <1>3, <1>4, <2>2, WalkedLess
      <3> QED
        BY <1>3, <1>5, <3>1, <3>2, PopTyped
    <2> QED
      BY <2>1, <2>2
  <1>7. \A v \in active' : v.depth \in 1..Len(d)
    <2>1. \A v \in active : v.depth \in 1..Len(c)
      BY <1>1 DEF BInv, InOpenBlock
    <2>2. active' = {v \in active : v.depth < Len(c)}
      BY <1>1 DEF Leave
    <2> QED
      BY <1>3, <1>4, <2>1, <2>2
  <1>8. d = <<>> => active' = {}
    <2> SUFFICES ASSUME d = <<>> PROVE active' = {}
      OBVIOUS
    <2>1. Len(d) = 0
      OBVIOUS
    <2> QED
      BY <1>7, <2>1
  <1> QED
    BY <1>2, <1>6, <1>7, <1>8 DEF Balanced, InOpenBlock

(* The innermost block goes on to something else, with its frame or, at    *)
(* the condition of a repeat, without it.                                  *)
LEMMA BalancedSet ==
    ASSUME BInv, ctx # <<>>, Top(ctx).phase # "until", NEW x \in Contexts,
           ctx' = SetTop(ctx, x), scopes' \in Seq(Frames),
           IF x.phase = "until" THEN scopes' = Pop(scopes) ELSE Len(scopes') = Len(scopes),
           \A v \in active' : v \in active \/ v.depth = Len(ctx)
    PROVE  Balanced' /\ InOpenBlock'
  <1>1. PICK c \in Seq(Contexts), s \in Seq(Frames) : c = ctx /\ s = scopes
    BY DEF BInv, TypeOK
  <1>2. PICK d, t : d = ctx' /\ t = scopes'
    OBVIOUS
  <1>3. Len(c) \in Nat /\ Len(c) > 0 /\ Len(s) \in Nat
    BY <1>1, EmptySeq, LenProperties
  <1>4. c[Len(c)].phase # "until"
    BY <1>1 DEF Top
  <1>5. Len(d) = Len(c)
        /\ Walked(d) = IF x.phase = "until" THEN Walked(c) \ {Len(c)} ELSE Walked(c)
    BY <1>1, <1>2, <1>3, <1>4, WalkedSet
  <1>6. Len(s) = Cardinality(Walked(c))
    BY <1>1 DEF BInv, Balanced
  <1>7. Len(t) = Cardinality(Walked(d))
    <2>1. CASE x.phase = "until"
      <3>1. t = Pop(s)
        BY <1>1, <1>2, <2>1
      <3>2. Cardinality(Walked(d)) = Cardinality(Walked(c)) - 1 /\ Cardinality(Walked(c)) > 0
        BY <1>3, <1>4, <1>5, <2>1, WalkedLess
      <3> QED
        BY <1>3, <1>6, <3>1, <3>2, PopTyped
    <2>2. CASE x.phase # "until"
      BY <1>1, <1>2, <1>5, <1>6, <2>2
    <2> QED
      BY <2>1, <2>2
  <1>8. \A v \in active' : v.depth \in 1..Len(d)
    <2>1. \A v \in active : v.depth \in 1..Len(c)
      BY <1>1 DEF BInv, InOpenBlock
    <2> QED
      BY <1>1, <1>3, <1>5, <2>1
  <1>9. d # <<>>
    BY <1>3, <1>5
  <1> QED
    BY <1>2, <1>7, <1>8, <1>9 DEF Balanced, InOpenBlock

(* Every step keeps one frame per block being walked.                      *)
LEMMA BalancedNext == BInv /\ [Next]_vars => BInv'
  <1> SUFFICES ASSUME BInv, [Next]_vars PROVE BInv'
    OBVIOUS
  <1>1. TypeOK /\ PendingNames /\ TypeOK' /\ PendingNames'
    BY StepTyped DEF BInv
  <1>2. /\ ctx \in Seq(Contexts) /\ Len(ctx) \in Nat /\ decls \in Nat
        /\ \A params \in SUBSET Idents : ParamFrame(params) \in Frames
        /\ EmptyFrame \in Frames
    BY <1>1, LenProperties DEF TypeOK, Frames, ParamFrame, EmptyFrame, NoEntry, NotConst
  <1>3. \A names \in SUBSET Idents, span \in Nat, depth \in Nat :
           \A v \in Plain(names, span, depth) : v.depth = depth
    <2> TAKE names \in SUBSET Idents, span \in Nat, depth \in Nat
    <2> TAKE v \in Plain(names, span, depth)
    <2>1. PICK x \in names : v = Variable(x, span, depth, "none")
      BY DEF Plain
    <2> QED
      BY <2>1 DEF Variable
  <1>4. \A kind \in Kinds, frame \in Frames :
          /\ ctx # <<>> /\ ctx' = Append(ctx, Context(kind)) /\ scopes' = Append(scopes, frame)
          /\ \A v \in active' : v \in active \/ v.depth \in {Len(ctx), Len(ctx) + 1}
          => Balanced' /\ InOpenBlock'
    BY BalancedEnter
  <1>5. ASSUME NEW kind \in {"block", "repeat"}, EnterBlock(kind)
        PROVE  Balanced' /\ InOpenBlock'
    BY <1>2, <1>4, <1>5 DEF EnterBlock, InPhase, Kinds
  <1>6. ASSUME NEW names \in SUBSET Idents,
               (\E x \in Idents : EnterForBody(x, names)) \/ EnterClosure(names)
        PROVE  Balanced' /\ InOpenBlock'
    <2>1. \A v \in active' : v \in active \/ v.depth \in {Len(ctx), Len(ctx) + 1}
      BY <1>2, <1>3, <1>6 DEF EnterForBody, EnterClosure, Variable
    <2>2. ctx # <<>> /\ \E kind \in Kinds, frame \in Frames :
             ctx' = Append(ctx, Context(kind)) /\ scopes' = Append(scopes, frame)
      BY <1>2, <1>6 DEF EnterForBody, EnterClosure, PushFunction, InPhase, Kinds
    <2> QED
      BY <1>4, <2>1, <2>2
  <1>7. ASSUME NEW f \in Idents, NEW params \in SUBSET Idents,
               EnterLocalFunction(f, params) \/ EnterMethod(f, params) \/ EnterFunctionDecl(f, params)
        PROVE  Balanced' /\ InOpenBlock'
    <2>1. \A v \in active' : v \in active \/ v.depth \in {Len(ctx), Len(ctx) + 1}
      <3>1. {f} \in SUBSET Idents /\ {f} \cup params \in SUBSET Idents
            /\ decls + 1 \in Nat /\ decls + 2 \in Nat /\ Len(ctx) + 1 \in Nat
        BY <1>2
      <3>2. \A v \in Plain({f}, decls + 1, Len(ctx)) : v.depth = Len(ctx)
        BY <1>2, <1>3, <3>1
      <3>3. /\ \A v \in Plain(params, decls + 2, Len(ctx) + 1) : v.depth = Len(ctx) + 1
            /\ \A v \in Plain(params, decls + 1, Len(ctx) + 1) : v.depth = Len(ctx) + 1
            /\ \A v \in Plain({f} \cup params, decls + 1, Len(ctx) + 1) : v.depth = Len(ctx) + 1
        BY <1>3, <3>1
      <3> QED
        BY <1>7, <3>2, <3>3 DEF EnterLocalFunction, EnterMethod, EnterFunctionDecl
    <2>2. ctx # <<>> /\ \E kind \in Kinds, frame \in Frames :
             ctx' = Append(ctx, Context(kind)) /\ scopes' = Append(scopes, frame)
      BY <1>2, <1>7 DEF EnterLocalFunction, EnterMethod, EnterFunctionDecl, PushFunction,
                        InPhase, Kinds
    <2> QED
      BY <1>4, <2>1, <2>2
  <1>8. ASSUME Exit \/ ExitUntil
        PROVE  Balanced' /\ InOpenBlock'
    <2>1. /\ ctx # <<>> /\ ctx' = Pop(ctx) /\ active' = Leave(Len(ctx))
          /\ IF Top(ctx).phase = "until" THEN scopes' = scopes ELSE scopes' = Pop(scopes)
      BY <1>8 DEF Exit, ExitUntil, InPhase
    <2> QED
      BY <2>1, BalancedExit
  <1>9. ASSUME EnterUntil
        PROVE  Balanced' /\ InOpenBlock'
    <2>1. ctx # <<>> /\ Top(ctx) \in Contexts /\ Top(ctx).phase # "until"
      BY <1>1, <1>9, EmptySeq, ElementOfSeq DEF EnterUntil, InPhase, TypeOK, Top
    <2>2. PICK x \in Contexts : ctx' = SetTop(ctx, x) /\ x.phase = "until"
      BY <1>9, <2>1 DEF EnterUntil, Contexts, Phases
    <2>3. scopes' = Pop(scopes) /\ active' = active /\ scopes' \in Seq(Frames)
      BY <1>1, <1>9 DEF EnterUntil, TypeOK
    <2> QED
      BY <2>1, <2>2, <2>3, BalancedSet
  <1>10. ASSUME NEW list \in NameLists, BeginLocal(list)
         PROVE  Balanced' /\ InOpenBlock'
    <2>1. ctx # <<>> /\ Top(ctx) \in Contexts /\ Top(ctx).phase # "until"
      BY <1>1, <1>10, EmptySeq, ElementOfSeq DEF BeginLocal, InPhase, TypeOK, Top
    <2>2. list \in Seq(Decls)
      OBVIOUS
    <2>3. PICK x \in Contexts : ctx' = SetTop(ctx, x) /\ x.phase = "values"
      <3>1. [Top(ctx) EXCEPT !.phase = "values", !.names = list] \in Contexts
            /\ [Top(ctx) EXCEPT !.phase = "values", !.names = list].phase = "values"
        BY <2>1, <2>2 DEF Contexts, Phases
      <3> QED
        BY <1>10, <3>1 DEF BeginLocal
    <2>4. scopes' = scopes /\ active' = active /\ scopes' \in Seq(Frames)
      BY <1>1, <1>10 DEF BeginLocal, TypeOK
    <2> QED
      BY <2>1, <2>3, <2>4, BalancedSet
  <1>11. ASSUME RegisterName
         PROVE  Balanced' /\ InOpenBlock'
    <2>1. PICK d \in Decls, x \in Contexts :
                /\ d = Head(Top(ctx).names)
                /\ ctx # <<>> /\ ctx' = SetTop(ctx, x) /\ x.phase # "until"
                /\ x.phase \in {"values", "names"} => x.names # <<>>
      BY <1>1, <1>11, RegisterContext
    <2>2. /\ scopes' = Insert(scopes, d.name, Entry(d.attr, decls + 1))
          /\ active' = active \cup {Variable(d.name, decls + 1, Len(ctx), d.attr)}
          /\ Top(ctx).phase # "until"
      BY <1>11, <2>1 DEF RegisterName, InPhase
    <2>3. \A v \in active' : v \in active \/ v.depth = Len(ctx)
      BY <2>2 DEF Variable
    <2>4. scopes' \in Seq(Frames) /\ Len(scopes') = Len(scopes)
      <3>1. PICK s \in Seq(Frames), t \in Seq(Frames) : s = scopes /\ t = scopes'
        BY <1>1 DEF TypeOK
      <3>2. DOMAIN s = 1..Len(s) /\ DOMAIN t = 1..Len(t) /\ Len(s) \in Nat /\ Len(t) \in Nat
        BY LenProperties
      <3>3. DOMAIN t = DOMAIN s
        BY <2>2, <3>1 DEF Insert
      <3> QED
        <4>1. PICK m \in Nat, n \in Nat : m = Len(s) /\ n = Len(t) /\ 1..n = 1..m
          BY <3>2, <3>3
        <4>2. m = n
          <5>1. \A k \in Int : k \in 1..m <=> k \in 1..n
            BY <4>1
          <5>2. m \in Int /\ n \in Int /\ m + 1 \in Int /\ n + 1 \in Int
            OBVIOUS
          <5> QED
            BY <5>1, <5>2
        <4> QED
          BY <3>1, <4>1, <4>2
    <2> QED
      BY <2>1, <2>2, <2>3, <2>4, BalancedSet
  <1>12. ASSUME UNCHANGED <<ctx, scopes, active>>
         PROVE  Balanced' /\ InOpenBlock'
    BY <1>12 DEF BInv, Balanced, InOpenBlock
  <1>13. ASSUME NEW targets \in SUBSET Idents, Assign(targets)
         PROVE  Balanced' /\ InOpenBlock'
    BY <1>12, <1>13 DEF Assign
  <1>14. ASSUME NEW x \in Idents, AssignInTarget(x)
         PROVE  Balanced' /\ InOpenBlock'
    BY <1>12, <1>14 DEF AssignInTarget
  <1>15. ASSUME UNCHANGED vars
         PROVE  Balanced' /\ InOpenBlock'
    BY <1>12, <1>15 DEF vars
  <1>16. Balanced' /\ InOpenBlock'
    BY <1>5, <1>6, <1>7, <1>8, <1>9, <1>10, <1>11, <1>13, <1>14, <1>15 DEF Next
  <1> QED
    BY <1>1, <1>16 DEF BInv

(* At every point of every walk, with any nesting and any constructs, the  *)
(* lint's stack has exactly one frame per block whose statements are being *)
(* walked, so that it is never popped or read empty, and nothing is left   *)
(* of it, or of Lua's variables, when the chunk ends (check_block,         *)
(* check_function_body).                                                   *)
THEOREM StackBalanced == Spec => []Balanced
  <1>1. BInv => Balanced
    BY DEF BInv
  <1> QED
    BY <1>1, BalancedInit, BalancedNext, PTL DEF Spec
=============================================================================
