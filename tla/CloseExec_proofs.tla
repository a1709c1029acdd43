-------------------------- MODULE CloseExec_proofs --------------------------
(***************************************************************************)
(* The code emitted for `<close>` keeps Lua's promise: CloseExec refines   *)
(* ToBeClosed, for any nesting of blocks, calls and closing functions, any *)
(* number of variables and any values, in programs without the constructs  *)
(* that the transform treats differently.                                  *)
(***************************************************************************)
EXTENDS CloseExec, SequenceTheorems, TLAPS

USE ValuesAssumption, BoundsAssumption

(* Lua's view of a stack of frames, and of the closing calls.              *)
View(s) == [k \in 1..Len(s) |-> LuaBlock(s[k])]
Ids(c)  == [k \in 1..Len(c) |-> c[k].id]

Blocks == [kind : Kinds, tbc : Seq(Things), exit : Exits]

Entries == [id : Nat, kind : Closables \cup Others, told : {"nothing"} \cup Values]

-----------------------------------------------------------------------------
(* What Running and Exit build, for the steps below.                       *)
LEMMA RunningIsExit == Running \in Exits /\ Running.how = "run" /\ Running.vals = <<>>
  BY DEF Running, Exit, Exits

(* The exits the statements start are exits.                               *)
LEMMA ExitTyped ==
    ASSUME NEW how \in {"run", "end", "break", "return", "error"}, NEW vals \in Seq(Values)
    PROVE  /\ Exit(how, vals) \in Exits
           /\ Exit(how, vals).how = how
           /\ Exit(how, vals).vals = vals
  BY DEF Exit, Exits

(* An exit has the fields it was built from.                               *)
LEMMA ExitIs ==
    ASSUME NEW e \in Exits
    PROVE  e = Exit(e.how, e.vals)
  BY DEF Exit, Exits

(* How a frame resumes, by the outcome of its pcall.                       *)
LEMMA ResumedIs ==
    ASSUME NEW f \in Frames
    PROVE  /\ Resumed(f) \in Exits
           /\ Resumed(f).how \in {"error", "return", "end"}
           /\ f.ok = FALSE => Resumed(f) = Exit("error", <<f.result>>)
           /\ f.ok = TRUE /\ f.ends = TRUE => Resumed(f) = Exit("return", <<f.result>>)
           /\ f.ok = TRUE /\ f.ends = FALSE => Resumed(f) = Exit("end", <<>>)
  <1>1. f.ok \in BOOLEAN /\ f.ends \in BOOLEAN /\ f.result \in Values
    BY DEF Frames
  <1>2. PICK e1 \in Exits : e1 = Exit("error", <<f.result>>) /\ e1.how = "error"
    <2>1. <<f.result>> \in Seq(Values)
      BY <1>1
    <2>2. Exit("error", <<f.result>>) \in Exits /\ Exit("error", <<f.result>>).how = "error"
      BY <2>1, ExitTyped
    <2> QED
      BY <2>2
  <1>3. PICK e2 \in Exits : e2 = Exit("return", <<f.result>>) /\ e2.how = "return"
    <2>1. <<f.result>> \in Seq(Values)
      BY <1>1
    <2>2. Exit("return", <<f.result>>) \in Exits /\ Exit("return", <<f.result>>).how = "return"
      BY <2>1, ExitTyped
    <2> QED
      BY <2>2
  <1>4. PICK e3 \in Exits : e3 = Exit("end", <<>>) /\ e3.how = "end"
    <2>1. <<>> \in Seq(Values)
      BY <1>1
    <2>2. Exit("end", <<>>) \in Exits /\ Exit("end", <<>>).how = "end"
      BY <2>1, ExitTyped
    <2> QED
      BY <2>2
  <1>5. Resumed(f) = IF ~f.ok THEN e1 ELSE IF f.ends THEN e2 ELSE e3
    BY <1>2, <1>3, <1>4 DEF Resumed
  <1>6. f.ok = FALSE => Resumed(f) = e1
    BY <1>5
  <1>7. f.ok = TRUE /\ f.ends = TRUE => Resumed(f) = e2
    BY <1>5
  <1>8. f.ok = TRUE /\ f.ends = FALSE => Resumed(f) = e3
    BY <1>5
  <1>9. Resumed(f) \in {e1, e2, e3}
    BY <1>1, <1>6, <1>7, <1>8
  <1>10. Resumed(f) \in Exits /\ Resumed(f).how \in {"error", "return", "end"}
    BY <1>2, <1>3, <1>4, <1>9
  <1> QED
    BY <1>2, <1>3, <1>4, <1>6, <1>7, <1>8, <1>10, Zenon

(* Lua's view of a frame, case by case of where the emitted code is.       *)
LEMMA LuaExitIs ==
    ASSUME NEW f \in Frames
    PROVE  /\ LuaExit(f) \in Exits
           /\ f.at = "stmts" => LuaExit(f) = f.exit
           /\ f.exit # Running => LuaExit(f) = f.exit
           /\ f.exit = Running /\ f.at # "stmts" => LuaExit(f) = Resumed(f)
           /\ LuaExit(f) = Running <=> f.exit = Running /\ f.at = "stmts"
  <1>1. f.exit \in Exits
    BY DEF Frames
  <1>2. Resumed(f) \in Exits /\ Resumed(f) # Running
    BY ResumedIs, RunningIsExit
  <1> QED
    BY <1>1, <1>2 DEF LuaExit

(* Lua's view of a frame as a record.                                      *)
LEMMA BlockTyped ==
    ASSUME NEW f \in Frames
    PROVE  /\ LuaBlock(f) \in Blocks
           /\ LuaBlock(f).kind = f.kind
           /\ LuaBlock(f).tbc = f.tbc
           /\ LuaBlock(f).exit = LuaExit(f)
  <1>1. f.kind \in Kinds /\ f.tbc \in Seq(Things) /\ LuaExit(f) \in Exits
    BY LuaExitIs DEF Frames
  <1> QED
    BY <1>1 DEF LuaBlock, Blocks

(* A sequence without its last element.                                    *)
LEMMA FrontIs ==
    ASSUME NEW S, NEW s \in Seq(S), s # <<>>
    PROVE  /\ SubSeq(s, 1, Len(s) - 1) \in Seq(S)
           /\ Len(SubSeq(s, 1, Len(s) - 1)) = Len(s) - 1
           /\ Len(s) - 1 \in Nat
           /\ \A k \in 1..(Len(s) - 1) : SubSeq(s, 1, Len(s) - 1)[k] = s[k]
  <1>1. PICK m \in Nat : m = Len(s) - 1 /\ m <= Len(s)
    BY EmptySeq, LenProperties
  <1>2. \A k \in 1..m : s[k] \in S
    BY <1>1, ElementOfSeq
  <1>3. /\ SubSeq(s, 1, m) \in Seq(S)
        /\ Len(SubSeq(s, 1, m)) = IF 1 <= m THEN m - 1 + 1 ELSE 0
        /\ \A k \in 1..(m - 1 + 1) : SubSeq(s, 1, m)[k] = s[1 + k - 1]
    <2>1. 1 \in Int /\ m \in Int
      OBVIOUS
    <2> QED
      BY <1>2, <2>1, SubSeqProperties
  <1>4. m - 1 + 1 = m /\ \A k \in 1..m : 1 + k - 1 = k
    OBVIOUS
  <1>5. \A k \in 1..m : SubSeq(s, 1, m)[k] = s[k]
    BY <1>3, <1>4
  <1>6. Len(SubSeq(s, 1, m)) = m
    BY <1>3
  <1> QED
    BY <1>1, <1>3, <1>5, <1>6

(* The view of a stack, position by position and under the ways it changes *)
LEMMA ViewTyped ==
    ASSUME NEW s \in Seq(Frames)
    PROVE  /\ View(s) \in Seq(Blocks)
           /\ Len(View(s)) = Len(s)
           /\ DOMAIN View(s) = 1..Len(s)
           /\ \A k \in 1..Len(s) : View(s)[k] = LuaBlock(s[k])
  <1>1. Len(s) \in Nat /\ \A k \in 1..Len(s) : LuaBlock(s[k]) \in Blocks
    BY ElementOfSeq, BlockTyped, LenProperties
  <1>2. View(s) \in [1..Len(s) -> Blocks]
    BY <1>1 DEF View
  <1>3. View(s) \in Seq(Blocks)
    BY <1>1, <1>2, SeqDef
  <1>4. Len(View(s)) = Len(s)
    BY <1>1, <1>2, <1>3, LenProperties
  <1> QED
    BY <1>2, <1>3, <1>4 DEF View

(* Pushing a frame pushes Lua's view of it.                                *)
LEMMA ViewAppend ==
    ASSUME NEW s \in Seq(Frames), NEW f \in Frames
    PROVE  View(Append(s, f)) = Append(View(s), LuaBlock(f))
  <1>1. /\ Append(s, f) \in Seq(Frames) /\ Len(Append(s, f)) = Len(s) + 1
        /\ \A k \in 1..Len(s) : Append(s, f)[k] = s[k]
        /\ Append(s, f)[Len(s) + 1] = f
        /\ Len(s) \in Nat
    BY AppendProperties, LenProperties
  <1>2. /\ View(s) \in Seq(Blocks) /\ LuaBlock(f) \in Blocks
    BY ViewTyped, BlockTyped
  <1>3. /\ Append(View(s), LuaBlock(f)) \in Seq(Blocks)
        /\ Len(Append(View(s), LuaBlock(f))) = Len(s) + 1
        /\ \A k \in 1..Len(s) : Append(View(s), LuaBlock(f))[k] = View(s)[k]
        /\ Append(View(s), LuaBlock(f))[Len(s) + 1] = LuaBlock(f)
    BY <1>2, ViewTyped, AppendProperties
  <1>4. View(Append(s, f)) \in Seq(Blocks) /\ Len(View(Append(s, f))) = Len(s) + 1
    BY <1>1, ViewTyped
  <1>5. \A k \in 1..(Len(s) + 1) : View(Append(s, f))[k] = Append(View(s), LuaBlock(f))[k]
    <2> TAKE k \in 1..(Len(s) + 1)
    <2>1. View(Append(s, f))[k] = LuaBlock(Append(s, f)[k])
      BY <1>1, ViewTyped
    <2>2. CASE k \in 1..Len(s)
      BY <1>1, <1>3, <2>1, <2>2, ViewTyped
    <2>3. CASE k = Len(s) + 1
      BY <1>1, <1>3, <2>1, <2>3
    <2>4. k \in 1..Len(s) \/ k = Len(s) + 1
      BY <1>1
    <2> QED
      BY <2>2, <2>3, <2>4
  <1> QED
    BY <1>3, <1>4, <1>5, SeqEqual

(* Lua's view of the closings made so far is their sequence of ids.        *)
LEMMA IdsTyped ==
    ASSUME NEW d \in Seq(Entries)
    PROVE  /\ Ids(d) \in Seq(Nat) /\ Len(Ids(d)) = Len(d)
           /\ \A k \in 1..Len(d) : Ids(d)[k] = d[k].id
  <1>1. Len(d) \in Nat /\ \A k \in 1..Len(d) : d[k].id \in Nat
    <2>1. \A k \in 1..Len(d) : d[k] \in Entries
      BY ElementOfSeq
    <2>2. \A z \in Entries : z.id \in Nat
      BY DEF Entries
    <2> QED
      BY <2>1, <2>2, LenProperties
  <1>2. Ids(d) \in [1..Len(d) -> Nat]
    BY <1>1 DEF Ids
  <1>3. Ids(d) \in Seq(Nat)
    BY <1>1, <1>2, SeqDef
  <1>4. Len(Ids(d)) = Len(d)
    BY <1>1, <1>2, <1>3, LenProperties
  <1> QED
    BY <1>3, <1>4 DEF Ids

(* A closing more is an id more.                                           *)
LEMMA IdsAppend ==
    ASSUME NEW c \in Seq(Entries), NEW y \in Entries
    PROVE  Ids(Append(c, y)) = Append(Ids(c), y.id)
  <1>1. /\ Append(c, y) \in Seq(Entries) /\ Len(Append(c, y)) = Len(c) + 1
        /\ \A k \in 1..Len(c) : Append(c, y)[k] = c[k]
        /\ Append(c, y)[Len(c) + 1] = y
        /\ Len(c) \in Nat
    BY AppendProperties, LenProperties
  <1>2. \A d \in Seq(Entries) : Ids(d) \in Seq(Nat) /\ Len(Ids(d)) = Len(d)
                                /\ \A k \in 1..Len(d) : Ids(d)[k] = d[k].id
    BY IdsTyped
  <1>3. y.id \in Nat
    BY DEF Entries
  <1>4. /\ Append(Ids(c), y.id) \in Seq(Nat)
        /\ Len(Append(Ids(c), y.id)) = Len(c) + 1
        /\ \A k \in 1..Len(c) : Append(Ids(c), y.id)[k] = Ids(c)[k]
        /\ Append(Ids(c), y.id)[Len(c) + 1] = y.id
    BY <1>2, <1>3, AppendProperties
  <1>5. \A k \in 1..(Len(c) + 1) : Ids(Append(c, y))[k] = Append(Ids(c), y.id)[k]
    <2> TAKE k \in 1..(Len(c) + 1)
    <2>1. Ids(Append(c, y))[k] = Append(c, y)[k].id
      BY <1>1, <1>2
    <2>2. CASE k \in 1..Len(c)
      BY <1>1, <1>2, <1>4, <2>1, <2>2
    <2>3. CASE k = Len(c) + 1
      BY <1>1, <1>4, <2>1, <2>3
    <2>4. k \in 1..Len(c) \/ k = Len(c) + 1
      BY <1>1
    <2> QED
      BY <2>2, <2>3, <2>4
  <1>6. Ids(Append(c, y)) \in Seq(Nat) /\ Len(Ids(Append(c, y))) = Len(c) + 1
    BY <1>1, <1>2
  <1> QED
    BY <1>4, <1>5, <1>6, SeqEqual

(* Replacing the innermost frame replaces the innermost block of Lua's     *)
(* view.                                                                   *)
LEMMA ViewTop ==
    ASSUME NEW s \in Seq(Frames), s # <<>>, NEW f \in Frames
    PROVE  View([s EXCEPT ![Len(s)] = f]) = [View(s) EXCEPT ![Len(s)] = LuaBlock(f)]
  <1>1. Len(s) \in 1..Len(s) /\ Len(s) \in Nat
    BY EmptySeq, LenProperties
  <1> DEFINE t == [s EXCEPT ![Len(s)] = f]
             w == [View(s) EXCEPT ![Len(s)] = LuaBlock(f)]
  <1>2. /\ t \in Seq(Frames) /\ Len(t) = Len(s)
        /\ \A k \in 1..Len(s) : t[k] = IF k = Len(s) THEN f ELSE s[k]
    BY <1>1, ExceptSeq
  <1>3. /\ View(s) \in Seq(Blocks) /\ LuaBlock(f) \in Blocks /\ Len(View(s)) = Len(s)
    BY ViewTyped, BlockTyped
  <1>4. /\ w \in Seq(Blocks) /\ Len(w) = Len(s)
        /\ \A k \in 1..Len(s) : w[k] = IF k = Len(s) THEN LuaBlock(f) ELSE View(s)[k]
    BY <1>1, <1>3, ExceptSeq
  <1>5. View(t) \in Seq(Blocks) /\ Len(View(t)) = Len(s)
        /\ \A k \in 1..Len(s) : View(t)[k] = LuaBlock(t[k])
    BY <1>2, ViewTyped
  <1> HIDE DEF t, w
  <1>6. \A k \in 1..Len(s) : View(t)[k] = w[k]
    BY <1>2, <1>4, <1>5, ViewTyped
  <1>7. View(t) = w
    BY <1>4, <1>5, <1>6, SeqEqual
  <1> QED
    BY <1>7 DEF t, w

(* Popping a frame pops Lua's view of it.                                  *)
LEMMA ViewFront ==
    ASSUME NEW s \in Seq(Frames), s # <<>>
    PROVE  View(SubSeq(s, 1, Len(s) - 1)) = SubSeq(View(s), 1, Len(s) - 1)
  <1> DEFINE m == Len(s) - 1
             t == SubSeq(s, 1, Len(s) - 1)
             w == SubSeq(View(s), 1, Len(s) - 1)
  <1>1. t \in Seq(Frames) /\ Len(t) = m /\ m \in Nat /\ \A k \in 1..m : t[k] = s[k]
    BY FrontIs
  <1>2. View(s) \in Seq(Blocks) /\ Len(View(s)) = Len(s) /\ View(s) # <<>>
    BY ViewTyped, EmptySeq
  <1>3. w \in Seq(Blocks) /\ Len(w) = m /\ \A k \in 1..m : w[k] = View(s)[k]
    <2>1. /\ SubSeq(View(s), 1, Len(View(s)) - 1) \in Seq(Blocks)
          /\ Len(SubSeq(View(s), 1, Len(View(s)) - 1)) = Len(View(s)) - 1
          /\ \A k \in 1..(Len(View(s)) - 1) :
               SubSeq(View(s), 1, Len(View(s)) - 1)[k] = View(s)[k]
      BY <1>2, FrontIs
    <2> QED
      BY <1>2, <2>1
  <1>4. \A k \in 1..m : View(s)[k] = LuaBlock(s[k])
    <2>1. \A k \in 1..m : k \in 1..Len(s)
      BY LenProperties
    <2> QED
      BY <2>1, ViewTyped
  <1> HIDE DEF m, t, w
  <1>5. View(t) \in Seq(Blocks) /\ Len(View(t)) = m
        /\ \A k \in 1..m : View(t)[k] = LuaBlock(t[k])
    BY <1>1, ViewTyped
  <1>6. \A k \in 1..m : View(t)[k] = w[k]
    BY <1>1, <1>3, <1>4, <1>5
  <1>7. View(t) = w
    BY <1>3, <1>5, <1>6, SeqEqual
  <1> QED
    BY <1>7 DEF t, w

-----------------------------------------------------------------------------
(* What a jump passes depends on the kinds of the frames only.             *)
LEMMA PassedSame ==
    ASSUME NEW s, NEW t, NEW k \in Nat, NEW stops,
           \A i \in 1..k : t[i].kind = s[i].kind
    PROVE  Passed(t, k, stops) = Passed(s, k, stops)
  <1>1. \A j \in 1..k : \A i \in (j + 1)..k : i \in 1..k
    OBVIOUS
  <1> QED
    BY <1>1 DEF Passed

(* A stack is in order if it is up to its m-th frame, and at the next one. *)
LEMMA KeptFrom ==
    ASSUME NEW s \in Seq(Frames), NEW t \in Seq(Frames), NEW m \in Nat,
           m <= Len(s), Kept(s), \A j \in 1..m : t[j] = s[j],
           \/ Len(t) = m
           \/ /\ Len(t) = m + 1
              /\ FrameOK(t[m + 1]) /\ ReturnKept(t, m + 1) /\ BreakKept(t, m + 1)
    PROVE  Kept(t)
  <1> SUFFICES ASSUME NEW k \in 1..Len(t)
               PROVE  FrameOK(t[k]) /\ ReturnKept(t, k) /\ BreakKept(t, k)
    BY DEF Kept
  <1>1. Len(s) \in Nat /\ (k \in 1..m \/ (k = m + 1 /\ Len(t) = m + 1))
    BY LenProperties
  <1>2. CASE k = m + 1 /\ Len(t) = m + 1
    BY <1>2
  <1>3. CASE k \in 1..m
    <2>1. k \in 1..Len(s) /\ k \in Nat /\ t[k] = s[k] /\ \A j \in 1..k : t[j] = s[j]
      BY <1>1, <1>3
    <2>2. FrameOK(s[k]) /\ ReturnKept(s, k) /\ BreakKept(s, k)
      BY <2>1 DEF Kept
    <2>3. /\ Passed(t, k, Called) = Passed(s, k, Called)
          /\ Passed(t, k, Called \cup {"loop"}) = Passed(s, k, Called \cup {"loop"})
      BY <2>1, PassedSame
    <2>4. \A stops : Passed(s, k, stops) \subseteq 1..k
      BY DEF Passed
    <2>5. ReturnKept(t, k)
      BY <2>1, <2>2, <2>3, <2>4 DEF ReturnKept
    <2>6. BreakKept(t, k)
      BY <2>1, <2>2, <2>3, <2>4 DEF BreakKept
    <2> QED
      BY <2>1, <2>2, <2>5, <2>6
  <1> QED
    BY <1>1, <1>2, <1>3

(* A frame that is not being left is in order wherever it is.              *)
LEMMA RunningKept ==
    ASSUME NEW s, NEW k, s[k] \in Frames, LuaExit(s[k]) = Running
    PROVE  ReturnKept(s, k) /\ BreakKept(s, k)
  <1>1. LuaExit(s[k]).how = "run" /\ s[k].exit.how = "run"
    BY LuaExitIs, RunningIsExit
  <1> QED
    BY <1>1 DEF ReturnKept, BreakKept

(* A new frame that runs disturbs no jump around it.                       *)
LEMMA KeptPush ==
    ASSUME NEW s \in Seq(Frames), Kept(s), NEW f \in Frames,
           FrameOK(f), LuaExit(f) = Running
    PROVE  Kept(Append(s, f)) /\ Append(s, f) \in Seq(Frames)
  <1> DEFINE t == Append(s, f)
  <1>1. /\ t \in Seq(Frames) /\ Len(t) = Len(s) + 1 /\ Len(s) \in Nat
        /\ \A k \in 1..Len(s) : t[k] = s[k]
        /\ t[Len(s) + 1] = f
    BY AppendProperties, LenProperties
  <1> HIDE DEF t
  <1>2. ReturnKept(t, Len(s) + 1) /\ BreakKept(t, Len(s) + 1)
    BY <1>1, RunningKept
  <1>3. Kept(t)
    BY <1>1, <1>2, KeptFrom
  <1> QED
    BY <1>1, <1>3 DEF t

(* Popping a frame disturbs no jump around it.                             *)
LEMMA KeptPop ==
    ASSUME NEW s \in Seq(Frames), s # <<>>, Kept(s)
    PROVE  Kept(SubSeq(s, 1, Len(s) - 1))
  <1> DEFINE t == SubSeq(s, 1, Len(s) - 1)
             m == Len(s) - 1
  <1>1. t \in Seq(Frames) /\ Len(t) = m /\ m \in Nat /\ \A k \in 1..m : t[k] = s[k]
    BY FrontIs
  <1>2. m <= Len(s)
    BY LenProperties
  <1> HIDE DEF t, m
  <1>3. Kept(t)
    BY <1>1, <1>2, KeptFrom
  <1> QED
    BY <1>3 DEF t

(* Replacing the top frame.                                                *)
LEMMA KeptTop ==
    ASSUME NEW s \in Seq(Frames), s # <<>>, Kept(s), NEW f \in Frames, FrameOK(f),
           NEW t, t = [s EXCEPT ![Len(s)] = f],
           ReturnKept(t, Len(s)), BreakKept(t, Len(s))
    PROVE  Kept(t) /\ t \in Seq(Frames)
  <1>1. PICK m \in Nat : m + 1 = Len(s) /\ m <= Len(s)
    <2>1. Len(s) \in Nat \ {0}
      BY EmptySeq, LenProperties
    <2>2. Len(s) - 1 \in Nat /\ (Len(s) - 1) + 1 = Len(s) /\ Len(s) - 1 <= Len(s)
      BY <2>1
    <2> QED
      BY <2>2
  <1>2. /\ t \in Seq(Frames) /\ Len(t) = m + 1 /\ t[m + 1] = f
        /\ \A k \in 1..m : t[k] = s[k]
    <2>1. Len(s) \in 1..Len(s) /\ \A k \in 1..m : k \in 1..Len(s) /\ k # Len(s)
      BY <1>1
    <2> QED
      BY <1>1, <2>1, ExceptSeq
  <1>3. ReturnKept(t, m + 1) /\ BreakKept(t, m + 1)
    BY <1>1
  <1> QED
    BY <1>1, <1>2, <1>3, KeptFrom

(* Replacing it by a frame that Lua sees left in the same way, with no     *)
(* closure where there was none.                                           *)
LEMMA KeptSameExit ==
    ASSUME NEW s \in Seq(Frames), s # <<>>, Kept(s), NEW f \in Frames, FrameOK(f),
           NEW g, g = s[Len(s)],
           f.kind = g.kind, f.ends = g.ends,
           f.tbc # <<>> => g.tbc # <<>>,
           LuaExit(f) = LuaExit(g), f.exit.how # "break",
           NEW t, t = [s EXCEPT ![Len(s)] = f]
    PROVE  Kept(t) /\ t \in Seq(Frames)
  <1>1. Len(s) \in 1..Len(s) /\ Len(s) \in Nat
    BY EmptySeq, LenProperties
  <1>2. \A k \in 1..Len(s) : t[k] = IF k = Len(s) THEN f ELSE s[k]
    BY <1>1, ExceptSeq
  <1>3. \A k \in 1..Len(s) : t[k].kind = s[k].kind /\ t[k].ends = s[k].ends
                            /\ (t[k].tbc # <<>> => s[k].tbc # <<>>)
    <2> TAKE k \in 1..Len(s)
    <2>1. CASE k = Len(s)
      <3>1. t[k] = f /\ s[k] = g
        BY <1>2, <2>1
      <3> QED
        BY <3>1, Zenon
    <2>2. CASE k # Len(s)
      BY <1>2, <2>2
    <2> QED
      BY <2>1, <2>2
  <1>4. Passed(t, Len(s), Called) = Passed(s, Len(s), Called)
    <2>1. \A k \in 1..Len(s) : t[k].kind = s[k].kind
      BY <1>3
    <2>2. \A j \in 1..Len(s) : \A i \in (j + 1)..Len(s) : i \in 1..Len(s)
      BY <1>1
    <2> QED
      BY <2>1, <2>2 DEF Passed
  <1>5. ReturnKept(s, Len(s))
    BY <1>1 DEF Kept
  <1>6. Passed(s, Len(s), Called) \subseteq 1..Len(s)
    BY DEF Passed
  <1>7. t[Len(s)] = f
    BY <1>1, <1>2
  <1>8. ReturnKept(t, Len(s))
    <2> SUFFICES ASSUME LuaExit(f).how = "return",
                        NEW j \in Passed(s, Len(s), Called), t[j].tbc # <<>>
                 PROVE  t[j].ends /\ Len(LuaExit(f).vals) = 1
      BY <1>4, <1>7 DEF ReturnKept
    <2>1. s[j].tbc # <<>> /\ j \in 1..Len(s)
      BY <1>3, <1>6
    <2>2. s[j].ends /\ Len(LuaExit(g).vals) = 1
      BY <1>5, <2>1 DEF ReturnKept
    <2> QED
      BY <1>3, <2>1, <2>2
  <1>9. BreakKept(t, Len(s))
    BY <1>7 DEF BreakKept
  <1> QED
    BY <1>8, <1>9, KeptTop
-----------------------------------------------------------------------------
(* What each step does to the frame it works on, and to Lua's view of it.  *)
LEMMA BlockEqual ==
    ASSUME NEW f \in Frames, NEW b \in Blocks,
           f.kind = b.kind, f.tbc = b.tbc, LuaExit(f) = b.exit
    PROVE  LuaBlock(f) = b
  BY DEF LuaBlock, Blocks

(* A frame just entered is typed and satisfies FrameOK.                    *)
LEMMA FrameEntered ==
    ASSUME NEW kind \in Kinds, NEW ends \in BOOLEAN, NEW f, f = Frame(kind, ends, TRUE)
    PROVE  /\ f \in Frames /\ FrameOK(f)
           /\ LuaExit(f) = Running
           /\ LuaBlock(f) = Lua!Block(kind)
  <1>1. /\ f \in Frames /\ f.at = "stmts" /\ f.exit = Running /\ f.tbc = <<>> /\ f.kind = kind
        /\ f.seen = TRUE
    <2>1. <<>> \in Seq(Things) /\ Nil \in Values /\ Running \in Exits
      BY RunningIsExit
    <2> QED
      BY <2>1 DEF Frame, Frames
  <1>2. FrameOK(f)
    <2>1. f.seen
      BY <1>1, Zenon
    <2>2. \A i \in 1..Len(f.tbc) : f.tbc[i].kind \in Closables
      <3>1. PICK q : q = <<>> /\ q = f.tbc
        BY <1>1
      <3>2. \A i \in 1..Len(q) : q[i].kind \in Closables
        BY <3>1
      <3> QED
        BY <3>1, <3>2
    <2>3. f.exit.how = "run" /\ f.exit.vals = <<>> /\ f.at = "stmts"
      BY <1>1, RunningIsExit
    <2> QED
      BY <2>1, <2>2, <2>3 DEF FrameOK
  <1>3. LuaExit(f) = Running
    BY <1>1, LuaExitIs
  <1>4. LuaBlock(f) = Lua!Block(kind)
    BY <1>1, <1>3 DEF LuaBlock, Lua!Block, Lua!Running, Lua!Exit, Running, Exit
  <1> QED
    BY <1>1, <1>2, <1>3, <1>4

(* What frame g may be left with.                                          *)
Leavable(g, e) ==
    /\ e.how # "run"
    /\ e.how \in {"end", "break"} => e.vals = <<>>
    /\ e.how = "end" => g.ends = FALSE
    /\ e.how = "error" => Len(e.vals) = 1

(* So does a frame that starts being left.                                 *)
LEMMA FrameLeaving ==
    ASSUME NEW g \in Frames, FrameOK(g), NEW e \in Exits, Leavable(g, e),
           NEW f, f = [g EXCEPT !.exit = e, !.at = "stmts"]
    PROVE  /\ f \in Frames /\ FrameOK(f)
           /\ f.kind = g.kind /\ f.ends = g.ends /\ f.tbc = g.tbc
           /\ f.exit = e /\ LuaExit(f) = e
           /\ LuaBlock(f) = [LuaBlock(g) EXCEPT !.exit = e]
  <1>1. f \in Frames /\ f.at = "stmts" /\ f.exit = e /\ f.kind = g.kind /\ f.tbc = g.tbc
    BY DEF Frames
  <1>2. f.ends = g.ends /\ f.seen = g.seen
    BY DEF Frames
  <1>3. FrameOK(f)
    BY <1>1, <1>2 DEF FrameOK, Leavable
  <1>4. LuaExit(f) = e
    BY <1>1, LuaExitIs
  <1>5. LuaBlock(f) = [LuaBlock(g) EXCEPT !.exit = e]
    <2>1. LuaBlock(g) \in Blocks /\ LuaBlock(g).kind = g.kind /\ LuaBlock(g).tbc = g.tbc
      BY BlockTyped
    <2>2. PICK b0 \in Blocks : b0 = LuaBlock(g)
      BY <2>1
    <2>3. /\ [b0 EXCEPT !.exit = e] \in Blocks
          /\ [b0 EXCEPT !.exit = e].kind = b0.kind
          /\ [b0 EXCEPT !.exit = e].tbc = b0.tbc
          /\ [b0 EXCEPT !.exit = e].exit = e
      BY DEF Blocks
    <2>4. PICK w \in Blocks : /\ w = [b0 EXCEPT !.exit = e] /\ w.kind = b0.kind
                               /\ w.tbc = b0.tbc /\ w.exit = e
      BY <2>3
    <2>5. f.kind = w.kind /\ f.tbc = w.tbc /\ LuaExit(f) = w.exit
      BY <1>1, <1>4, <2>1, <2>2, <2>4
    <2>6. LuaBlock(f) = w
      BY <1>1, <2>5, BlockEqual
    <2> QED
      BY <2>2, <2>4, <2>6
  <1> QED
    BY <1>1, <1>2, <1>3, <1>4, <1>5

(* So does a frame with one more variable to close.                        *)
LEMMA FrameDeclaring ==
    ASSUME NEW g \in Frames, FrameOK(g), g.at = "stmts", g.exit = Running,
           NEW x \in Things, x.kind \in Closables,
           NEW f, f = [g EXCEPT !.tbc = Append(@, x)]
    PROVE  /\ f \in Frames /\ FrameOK(f)
           /\ LuaExit(f) = Running
           /\ LuaBlock(f) = [LuaBlock(g) EXCEPT !.tbc = Append(@, x)]
  <1>1. g.tbc \in Seq(Things)
    BY DEF Frames
  <1>2. PICK q \in Seq(Things) : q = Append(g.tbc, x)
    BY <1>1, AppendProperties
  <1>3. \A i \in 1..Len(q) : q[i].kind \in Closables
    <2>1. Len(q) = Len(g.tbc) + 1 /\ q[Len(g.tbc) + 1] = x
          /\ \A i \in 1..Len(g.tbc) : q[i] = g.tbc[i]
      BY <1>1, <1>2, AppendProperties
    <2>2. \A i \in 1..Len(g.tbc) : g.tbc[i].kind \in Closables
      BY DEF FrameOK
    <2>3. Len(g.tbc) \in Nat
      BY <1>1, LenProperties
    <2> QED
      BY <2>1, <2>2, <2>3
  <1>4. /\ f \in Frames /\ f.at = "stmts" /\ f.exit = Running /\ f.kind = g.kind /\ f.tbc = q
    BY <1>2 DEF Frames
  <1>5. f.ends = g.ends /\ f.seen = g.seen
    BY DEF Frames
  <1>6. FrameOK(f)
    BY <1>3, <1>4, <1>5, RunningIsExit DEF FrameOK
  <1>7. LuaExit(f) = Running /\ LuaExit(g) = Running
    BY <1>4, LuaExitIs
  <1>8. LuaBlock(f) = [LuaBlock(g) EXCEPT !.tbc = q]
    <2>1. /\ LuaBlock(g) \in Blocks /\ LuaBlock(g).kind = g.kind
          /\ LuaBlock(g).exit = Running
      BY <1>7, BlockTyped
    <2>2. PICK b0 \in Blocks : b0 = LuaBlock(g)
      BY <2>1
    <2>3. /\ [b0 EXCEPT !.tbc = q] \in Blocks
          /\ [b0 EXCEPT !.tbc = q].kind = b0.kind
          /\ [b0 EXCEPT !.tbc = q].tbc = q
          /\ [b0 EXCEPT !.tbc = q].exit = b0.exit
      BY DEF Blocks
    <2>4. PICK w \in Blocks : /\ w = [b0 EXCEPT !.tbc = q] /\ w.kind = b0.kind
                               /\ w.exit = b0.exit /\ w.tbc = q
      BY <2>3
    <2>5. f.kind = w.kind /\ f.tbc = w.tbc /\ LuaExit(f) = w.exit
      BY <1>4, <1>7, <2>1, <2>2, <2>4
    <2>6. LuaBlock(f) = w
      BY <1>4, <2>5, BlockEqual
    <2> QED
      BY <2>2, <2>4, <2>6
  <1>9. LuaBlock(g).tbc = g.tbc
    BY BlockTyped
  <1> QED
    BY <1>2, <1>4, <1>6, <1>7, <1>8, <1>9

(* pcall returns: Lua still sees the block left with what it was left with.*)
LEMMA FramePcall ==
    ASSUME NEW g \in Frames, FrameOK(g), g.exit # Running, g.tbc # <<>>,
           g.exit.how = "return" => g.ends = TRUE /\ Len(g.exit.vals) = 1,
           g.exit.how # "break",
           NEW f, f = [g EXCEPT !.at     = "cleanup",
                                !.ok     = (g.exit.how # "error"),
                                !.result = First(g.exit.vals),
                                !.exit   = Running]
    PROVE  /\ f \in Frames /\ FrameOK(f)
           /\ f.kind = g.kind /\ f.ends = g.ends /\ f.tbc = g.tbc
           /\ f.exit = Running
           /\ LuaExit(f) = LuaExit(g)
           /\ LuaBlock(f) = LuaBlock(g)
  <1>1. g.exit \in Exits /\ g.exit.vals \in Seq(Values)
    BY DEF Frames, Exits
  <1>2. g.exit.how \in {"end", "return", "error"}
    <2>1. g.exit.how # "run"
      BY <1>1, ExitIs DEF FrameOK, Running
    <2> QED
      BY <1>1, <2>1 DEF Exits
  <1>3. /\ First(g.exit.vals) \in Values
        /\ Len(g.exit.vals) = 1 => g.exit.vals = <<First(g.exit.vals)>>
    <2>1. CASE g.exit.vals = <<>>
      BY <2>1, EmptySeq DEF First
    <2>2. CASE g.exit.vals # <<>>
      <3>1. g.exit.vals[1] \in Values
        BY <1>1, <2>2, EmptySeq, ElementOfSeq, LenProperties
      <3>2. First(g.exit.vals) = g.exit.vals[1]
        BY <2>2 DEF First
      <3>3. Len(g.exit.vals) = 1 => g.exit.vals = <<g.exit.vals[1]>>
        BY <1>1
      <3> QED
        BY <3>1, <3>2, <3>3
    <2> QED
      BY <2>1, <2>2
  <1>4. f \in Frames /\ f.at = "cleanup" /\ f.exit = Running /\ f.kind = g.kind /\ f.tbc = g.tbc
        /\ f.result = First(g.exit.vals)
    <2>1. (g.exit.how # "error") \in BOOLEAN
      OBVIOUS
    <2> QED
      BY <1>3, <2>1, RunningIsExit DEF Frames
  <1>5. f.ends = g.ends /\ f.seen = g.seen
    BY DEF Frames
  <1>6. f.ok = (g.exit.how # "error")
    BY DEF Frames
  <1>7. FrameOK(f)
    BY <1>4, <1>5, RunningIsExit DEF FrameOK
  <1>8. LuaExit(f) = Resumed(f) /\ LuaExit(g) = g.exit
    BY <1>4, LuaExitIs
  <1>9. Resumed(f) = g.exit
    <2>1. g.ends \in BOOLEAN
      BY DEF Frames
    <2>2. CASE g.exit.how = "error"
      <3>1. f.ok = FALSE
        BY <1>6, <2>2
      <3>2. g.exit = Exit("error", <<f.result>>)
        BY <1>1, <1>3, <1>4, <2>2, ExitIs DEF FrameOK
      <3> QED
        BY <1>4, <3>1, <3>2, ResumedIs
    <2>3. CASE g.exit.how = "return"
      <3>1. f.ok = TRUE /\ f.ends = TRUE
        BY <1>5, <1>6, <2>3
      <3>2. g.exit = Exit("return", <<f.result>>)
        BY <1>1, <1>3, <1>4, <2>3, ExitIs
      <3> QED
        BY <1>4, <3>1, <3>2, ResumedIs
    <2>4. CASE g.exit.how = "end"
      <3>1. f.ok = TRUE /\ f.ends = FALSE
        BY <1>5, <1>6, <2>1, <2>4 DEF FrameOK
      <3>2. g.exit = Exit("end", <<>>)
        BY <1>1, <2>4, ExitIs DEF FrameOK
      <3> QED
        BY <1>4, <3>1, <3>2, ResumedIs
    <2> QED
      BY <1>2, <2>2, <2>3, <2>4
  <1>10. LuaExit(f) = LuaExit(g)
    BY <1>8, <1>9
  <1>11. LuaBlock(f) = LuaBlock(g)
    BY <1>4, <1>10 DEF LuaBlock
  <1> QED
    BY <1>4, <1>5, <1>7, <1>10, <1>11

(* So does a frame after the cleanup of its newest variable.               *)
LEMMA FrameCleanup ==
    ASSUME NEW g \in Frames, FrameOK(g), g.at = "cleanup",
           NEW f, f = [g EXCEPT !.at = "reraise", !.tbc = Front(@)]
    PROVE  /\ f \in Frames /\ FrameOK(f)
           /\ f.kind = g.kind /\ f.ends = g.ends
           /\ f.exit = Running
           /\ LuaExit(f) = LuaExit(g)
           /\ LuaBlock(f) = [LuaBlock(g) EXCEPT !.tbc = SubSeq(@, 1, Len(@) - 1)]
  <1>1. g.tbc \in Seq(Things) /\ g.tbc # <<>> /\ g.exit = Running
    BY DEF Frames, FrameOK
  <1>2. PICK q \in Seq(Things) : /\ q = Front(g.tbc) /\ Len(q) = Len(g.tbc) - 1
                                 /\ \A i \in 1..Len(q) : q[i] = g.tbc[i]
    <2>1. /\ Front(g.tbc) \in Seq(Things)
          /\ Len(Front(g.tbc)) = Len(g.tbc) - 1
          /\ \A i \in 1..(Len(g.tbc) - 1) : Front(g.tbc)[i] = g.tbc[i]
      <3>1. /\ SubSeq(g.tbc, 1, Len(g.tbc) - 1) \in Seq(Things)
            /\ Len(SubSeq(g.tbc, 1, Len(g.tbc) - 1)) = Len(g.tbc) - 1
            /\ \A i \in 1..(Len(g.tbc) - 1) : SubSeq(g.tbc, 1, Len(g.tbc) - 1)[i] = g.tbc[i]
        BY <1>1, FrontIs
      <3> QED
        BY <3>1 DEF Front
    <2> QED
      BY <2>1
  <1>3. \A i \in 1..Len(q) : q[i].kind \in Closables
    <2>1. \A i \in 1..Len(q) : i \in 1..Len(g.tbc)
      BY <1>1, <1>2, LenProperties
    <2> QED
      BY <1>2, <2>1 DEF FrameOK
  <1>4. f \in Frames /\ f.at = "reraise" /\ f.exit = Running /\ f.kind = g.kind /\ f.tbc = q
        /\ f.result = g.result
    BY <1>1, <1>2 DEF Frames
  <1>5. f.ends = g.ends /\ f.seen = g.seen /\ f.ok = g.ok
    BY DEF Frames
  <1>6. FrameOK(f)
    BY <1>3, <1>4, <1>5, RunningIsExit DEF FrameOK
  <1>7. LuaExit(f) = LuaExit(g)
    <2>1. LuaExit(f) = Resumed(f) /\ LuaExit(g) = Resumed(g)
      BY <1>1, <1>4, LuaExitIs
    <2>2. Resumed(f) = Resumed(g)
      BY <1>4, <1>5 DEF Resumed
    <2> QED
      BY <2>1, <2>2
  <1>8. LuaBlock(f) = [LuaBlock(g) EXCEPT !.tbc = q]
    <2>1. /\ LuaBlock(g) \in Blocks /\ LuaBlock(g).kind = g.kind
          /\ LuaBlock(g).exit = LuaExit(g)
      BY BlockTyped
    <2>2. PICK b0 \in Blocks : b0 = LuaBlock(g)
      BY <2>1
    <2>3. /\ [b0 EXCEPT !.tbc = q] \in Blocks
          /\ [b0 EXCEPT !.tbc = q].kind = b0.kind
          /\ [b0 EXCEPT !.tbc = q].tbc = q
          /\ [b0 EXCEPT !.tbc = q].exit = b0.exit
      BY DEF Blocks
    <2>4. PICK w \in Blocks : /\ w = [b0 EXCEPT !.tbc = q] /\ w.kind = b0.kind
                               /\ w.exit = b0.exit /\ w.tbc = q
      BY <2>3
    <2>5. f.kind = w.kind /\ f.tbc = w.tbc /\ LuaExit(f) = w.exit
      BY <1>4, <1>7, <2>1, <2>2, <2>4
    <2>6. LuaBlock(f) = w
      BY <1>4, <2>5, BlockEqual
    <2> QED
      BY <2>2, <2>4, <2>6
  <1>9. LuaBlock(g).tbc = g.tbc
    BY BlockTyped
  <1> QED
    BY <1>2, <1>4, <1>5, <1>6, <1>7, <1>8, <1>9 DEF Front

(* The re-raise does to the block what Lua has seen since pcall returned.  *)
LEMMA FrameReraise ==
    ASSUME NEW g \in Frames, FrameOK(g), g.at = "reraise",
           NEW f, f = [g EXCEPT !.at = "stmts", !.exit = Resumed(g)]
    PROVE  /\ f \in Frames /\ FrameOK(f)
           /\ f.kind = g.kind /\ f.ends = g.ends /\ f.tbc = g.tbc
           /\ f.exit.how # "break"
           /\ LuaExit(f) = LuaExit(g)
           /\ LuaBlock(f) = LuaBlock(g)
  <1>1. PICK e \in Exits : /\ e = Resumed(g)
                           /\ e.how \in {"error", "return", "end"}
                           /\ e.how = "end" => e.vals = <<>> /\ g.ends = FALSE
                           /\ e.how = "error" => Len(e.vals) = 1
    <2>1. g.ok \in BOOLEAN /\ g.ends \in BOOLEAN /\ g.result \in Values
      BY DEF Frames
    <2>2. <<g.result>> \in Seq(Values) /\ <<>> \in Seq(Values) /\ Len(<<g.result>>) = 1
      BY <2>1
    <2>3. Exit("error", <<g.result>>).how = "error" /\ Exit("error", <<g.result>>).vals = <<g.result>>
      BY <2>2, ExitTyped
    <2>4. Exit("return", <<g.result>>).how = "return"
      BY <2>2, ExitTyped
    <2>5. Exit("end", <<>>).how = "end" /\ Exit("end", <<>>).vals = <<>>
      BY <2>2, ExitTyped
    <2>6. Resumed(g) \in Exits /\ Resumed(g).how \in {"error", "return", "end"}
      BY ResumedIs
    <2>7. CASE g.ok = FALSE
      <3>1. Resumed(g) = Exit("error", <<g.result>>)
        BY <2>7, ResumedIs
      <3>2. Resumed(g).how = "error" /\ Len(Resumed(g).vals) = 1
        BY <2>2, <2>3, <3>1
      <3> QED
        BY <2>6, <3>2
    <2>8. CASE g.ok = TRUE /\ g.ends = TRUE
      <3>1. Resumed(g) = Exit("return", <<g.result>>)
        BY <2>8, ResumedIs
      <3>2. Resumed(g).how = "return"
        BY <2>4, <3>1
      <3> QED
        BY <2>6, <3>2
    <2>9. CASE g.ok = TRUE /\ g.ends = FALSE
      <3>1. Resumed(g) = Exit("end", <<>>)
        BY <2>9, ResumedIs
      <3>2. Resumed(g).how = "end" /\ Resumed(g).vals = <<>>
        BY <2>5, <3>1
      <3> QED
        BY <2>6, <2>9, <3>2
    <2> QED
      BY <2>1, <2>7, <2>8, <2>9
  <1>2. f \in Frames /\ f.at = "stmts" /\ f.exit = e /\ f.kind = g.kind /\ f.tbc = g.tbc
    BY <1>1 DEF Frames
  <1>3. f.ends = g.ends /\ f.seen = g.seen
    BY DEF Frames
  <1>4. FrameOK(f)
    BY <1>1, <1>2, <1>3 DEF FrameOK
  <1>5. LuaExit(f) = LuaExit(g)
    <2>1. g.exit = Running
      BY DEF FrameOK
    <2> QED
      BY <1>1, <1>2, <2>1, LuaExitIs
  <1>6. LuaBlock(f) = LuaBlock(g)
    BY <1>2, <1>5 DEF LuaBlock
  <1>7. f.exit.how # "break"
    BY <1>1, <1>2
  <1> QED
    BY <1>2, <1>3, <1>4, <1>5, <1>6, <1>7
-----------------------------------------------------------------------------
(* The frame on top, and the block Lua sees there.                         *)
LEMMA TopIs ==
    ASSUME IInv, frames # <<>>
    PROVE  /\ Len(frames) \in Nat /\ Len(frames) \in 1..Len(frames)
           /\ Top \in Frames /\ FrameOK(Top)
           /\ ReturnKept(frames, Len(frames)) /\ BreakKept(frames, Len(frames))
  <1>1. frames \in Seq(Frames) /\ Kept(frames)
    BY DEF IInv, TypeOK
  <1>2. Len(frames) \in Nat /\ Len(frames) \in 1..Len(frames)
    BY <1>1, EmptySeq, LenProperties
  <1>3. Top \in Frames
    BY <1>1, <1>2, ElementOfSeq DEF Top
  <1> QED
    BY <1>1, <1>2, <1>3 DEF Kept, Top

(* What the innermost frame is doing, in Lua's view.                       *)
LEMMA LuaTop ==
    ASSUME IInv, frames # <<>>
    PROVE  /\ Lua!Top = LuaBlock(Top)
           /\ IsRunning => Lua!IsRunning /\ LuaExit(Top) = Running
           /\ LuaExit(Top) # Running => Lua!IsLeaving
           /\ \A f \in Frames : View(SetTop(f)) = Lua!SetTop(LuaBlock(f))
  <1>1. frames \in Seq(Frames) /\ Top \in Frames /\ Len(frames) \in 1..Len(frames)
    BY TopIs DEF IInv, TypeOK
  <1>2. View(frames) # <<>> /\ Len(View(frames)) = Len(frames)
    BY <1>1, ViewTyped, EmptySeq
  <1>3. View(frames)[Len(View(frames))] = LuaBlock(Top)
    BY <1>1, <1>2, ViewTyped DEF Top
  <1>4. Lua!Top = LuaBlock(Top)
    BY <1>3 DEF View, Lua!Top
  <1>5. LuaBlock(Top).exit = LuaExit(Top)
    BY <1>1, BlockTyped
  <1>6. IsRunning => LuaExit(Top) = Running
    BY <1>1, LuaExitIs DEF IsRunning
  <1>7. Lua!Running = Running
    BY DEF Lua!Running, Lua!Exit, Running, Exit
  <1>8. IsRunning => Lua!IsRunning
    BY <1>2, <1>4, <1>5, <1>6, <1>7 DEF View, Lua!IsRunning
  <1>9. LuaExit(Top) # Running => Lua!IsLeaving
    BY <1>2, <1>4, <1>5, <1>7 DEF View, Lua!IsLeaving
  <1>10. ASSUME NEW f \in Frames
         PROVE  View(SetTop(f)) = Lua!SetTop(LuaBlock(f))
    <2>1. View(SetTop(f)) = [View(frames) EXCEPT ![Len(View(frames))] = LuaBlock(f)]
      BY <1>1, <1>2, ViewTop DEF SetTop
    <2> QED
      BY <2>1 DEF View, Lua!SetTop
  <1> QED
    BY <1>4, <1>6, <1>8, <1>9, <1>10

(* Entering a block or calling a function.                                 *)
LEMMA StepEnter ==
    ASSUME IInv, Constructs = {}, NEW kind \in Kinds, NEW ends \in BOOLEAN, Enter(kind, ends)
    PROVE  IInv' /\ Lua!Enter(kind)
  <1>1. /\ IsRunning /\ frames # <<>>
        /\ UNCHANGED <<closed, opened, result, loads>>
    BY DEF Enter, IsRunning
  <1>2. frames \in Seq(Frames) /\ Kept(frames) /\ Top \in Frames /\ FrameOK(Top)
    BY <1>1, TopIs DEF IInv, TypeOK
  <1>3. Visited(kind) = {TRUE}
    <2>1. Top.seen = TRUE
      <3>1. Top.seen /\ Top.seen \in BOOLEAN
        BY <1>2 DEF FrameOK, Frames
      <3> QED
        BY <3>1
    <2>2. "unvisited" \notin Constructs
      OBVIOUS
    <2> QED
      BY <2>1, <2>2 DEF Visited
  <1>4. PICK f : f = Frame(kind, ends, TRUE) /\ frames' = Append(frames, f)
    BY <1>3 DEF Enter
  <1>5. f \in Frames /\ FrameOK(f) /\ LuaExit(f) = Running /\ LuaBlock(f) = Lua!Block(kind)
    BY <1>4, FrameEntered
  <1>6. Kept(frames') /\ frames' \in Seq(Frames)
    BY <1>2, <1>4, <1>5, KeptPush
  <1>7. View(frames') = Append(View(frames), Lua!Block(kind))
    BY <1>2, <1>4, <1>5, ViewAppend
  <1>8. IInv'
    BY <1>1, <1>6 DEF IInv, TypeOK
  <1>9. Lua!Enter(kind)
    BY <1>1, <1>7, LuaTop DEF View, Lua!Enter
  <1> QED
    BY <1>8, <1>9

(* Declaring a variable.                                                   *)
LEMMA StepDeclare ==
    ASSUME IInv, Constructs = {}, NEW kind \in Closables \cup Others, Declare(kind)
    PROVE  IInv' /\ kind \in Closables /\ Lua!Declare(kind)
  <1>1. /\ IsRunning /\ frames # <<>> /\ Top.at = "stmts" /\ Top.exit = Running
        /\ opened' = opened + 1
        /\ UNCHANGED <<closed, result, loads>>
        /\ kind \in Closables
    BY DEF Declare, IsRunning
  <1>2. /\ frames \in Seq(Frames) /\ Kept(frames) /\ Top \in Frames /\ FrameOK(Top)
        /\ opened \in Nat
    BY <1>1, TopIs DEF IInv, TypeOK
  <1>3. PICK x \in Things : x = [id |-> opened + 1, kind |-> kind] /\ x.kind \in Closables
    <2>1. opened + 1 \in Nat
      BY <1>2
    <2>2. [id |-> opened + 1, kind |-> kind] \in Things
      BY <2>1 DEF Things
    <2>3. [id |-> opened + 1, kind |-> kind].kind \in Closables
      BY <1>1
    <2> QED
      BY <2>2, <2>3
  <1>4. PICK g \in Frames : g = Top /\ FrameOK(g) /\ g.at = "stmts" /\ g.exit = Running
    BY <1>1, <1>2
  <1>5. PICK f : f = [g EXCEPT !.tbc = Append(@, x)]
    OBVIOUS
  <1>6. frames' = SetTop(f)
    <2>1. Top.seen
      BY <1>2 DEF FrameOK
    <2> QED
      BY <1>3, <1>4, <1>5, <2>1 DEF Declare
  <1>7. /\ f \in Frames /\ FrameOK(f) /\ LuaExit(f) = Running
        /\ LuaBlock(f) = [LuaBlock(g) EXCEPT !.tbc = Append(@, x)]
    BY <1>3, <1>4, <1>5, FrameDeclaring
  <1>8. Kept(frames') /\ frames' \in Seq(Frames)
    <2>1. frames'[Len(frames)] = f
      BY <1>1, <1>2, <1>6, <1>7, TopIs, ExceptSeq DEF SetTop
    <2>2. ReturnKept(frames', Len(frames)) /\ BreakKept(frames', Len(frames))
      BY <1>7, <2>1, RunningKept
    <2> QED
      BY <1>1, <1>2, <1>6, <1>7, <2>2, KeptTop DEF SetTop
  <1>9. IInv'
    BY <1>1, <1>2, <1>8 DEF IInv, TypeOK
  <1>10. View(frames') = Lua!SetTop([Lua!Top EXCEPT !.tbc = Append(@, x)])
    BY <1>1, <1>4, <1>6, <1>7, LuaTop
  <1>11. Lua!Declare(kind)
    BY <1>1, <1>3, <1>10, LuaTop DEF View, Lua!Declare
  <1> QED
    BY <1>1, <1>9, <1>11

(* What jump may start in the innermost block.                             *)
Jumpable(e) ==
    /\ e.how = "return" =>
         \A j \in Passed(frames, Len(frames), Called) :
             frames[j].tbc # <<>> => frames[j].ends /\ Len(e.vals) = 1
    /\ e.how = "break" =>
         /\ \E j \in Passed(frames, Len(frames), Called) : frames[j].kind = "loop"
         /\ \A j \in Passed(frames, Len(frames), Called \cup {"loop"}) : frames[j].tbc = <<>>

(* Leaving the block one is in.                                            *)
LEMMA StepLeaving ==
    ASSUME IInv, NEW e \in Exits, LeaveWith(e),
           Leavable(Top, e),
           Jumpable(e)
    PROVE  IInv' /\ Lua!Leave(e)
  <1>1. /\ IsRunning /\ frames # <<>> /\ Top.at = "stmts"
        /\ UNCHANGED <<closed, opened, result, loads>>
    BY DEF LeaveWith, IsRunning
  <1>2. /\ frames \in Seq(Frames) /\ Kept(frames)
        /\ Len(frames) \in Nat /\ Len(frames) \in 1..Len(frames)
    BY <1>1, TopIs DEF IInv, TypeOK
  <1>3. PICK g \in Frames : g = Top /\ FrameOK(g) /\ g.at = "stmts"
    BY <1>1, TopIs
  <1>4. PICK f : f = [g EXCEPT !.exit = e, !.at = "stmts"]
    OBVIOUS
  <1>5. /\ f \in Frames /\ FrameOK(f)
        /\ f.kind = g.kind /\ f.ends = g.ends /\ f.tbc = g.tbc
        /\ f.exit = e /\ LuaExit(f) = e
        /\ LuaBlock(f) = [LuaBlock(g) EXCEPT !.exit = e]
    <2>1. Leavable(g, e)
      BY <1>3
    <2> QED
      <3>1. f \in Frames /\ FrameOK(f)
        BY <1>3, <1>4, <2>1, FrameLeaving
      <3>2. f.kind = g.kind /\ f.tbc = g.tbc
        BY <1>4 DEF Frames
      <3>3. f.ends = g.ends
        BY <1>4 DEF Frames
      <3>4. f.exit = e /\ LuaExit(f) = e
        <4>1. f.exit = e /\ f.at = "stmts"
          BY <1>4 DEF Frames
        <4> QED
          BY <3>1, <4>1, LuaExitIs
      <3>5. LuaBlock(f) = [LuaBlock(g) EXCEPT !.exit = e]
        BY <1>3, <1>4, <2>1, FrameLeaving
      <3> QED
        BY <3>1, <3>2, <3>3, <3>4, <3>5, Zenon
  <1>6. frames' = SetTop(f)
    <2>1. f = [g EXCEPT !.exit = e]
      BY <1>3, <1>4 DEF Frames
    <2> QED
      BY <1>3, <2>1 DEF LeaveWith
  <1>7. /\ frames'[Len(frames)] = f
        /\ \A k \in 1..Len(frames) : k # Len(frames) => frames'[k] = frames[k]
    BY <1>2, <1>5, <1>6, ExceptSeq DEF SetTop
  <1>8. \A k \in 1..Len(frames) : frames'[k].kind = frames[k].kind
                               /\ frames'[k].ends = frames[k].ends
                               /\ frames'[k].tbc = frames[k].tbc
    <2> TAKE k \in 1..Len(frames)
    <2>1. CASE k = Len(frames)
      <3>1. frames'[k] = f /\ frames[k] = g
        BY <1>3, <1>7, <2>1 DEF Top
      <3> QED
        BY <1>5, <3>1, Zenon
    <2>2. CASE k # Len(frames)
      <3>1. frames'[k] = frames[k]
        BY <1>7, <2>2
      <3> QED
        BY <3>1, Zenon
    <2> QED
      BY <2>1, <2>2
  <1>9. /\ Passed(frames', Len(frames), Called) = Passed(frames, Len(frames), Called)
        /\ Passed(frames', Len(frames), Called \cup {"loop"})
             = Passed(frames, Len(frames), Called \cup {"loop"})
    BY <1>2, <1>8, PassedSame
  <1>10. \A stops : Passed(frames, Len(frames), stops) \subseteq 1..Len(frames)
    BY DEF Passed
  <1>11. ReturnKept(frames', Len(frames))
    <2> SUFFICES ASSUME LuaExit(f).how = "return",
                        NEW j \in Passed(frames, Len(frames), Called), frames'[j].tbc # <<>>
                 PROVE  frames'[j].ends /\ Len(LuaExit(f).vals) = 1
      BY <1>7, <1>9 DEF ReturnKept
    <2>1. j \in 1..Len(frames) /\ frames[j].tbc # <<>>
      BY <1>8, <1>10
    <2>2. e.how = "return"
      BY <1>5
    <2>3. frames[j].ends /\ Len(e.vals) = 1
      BY <2>1, <2>2 DEF Jumpable
    <2> QED
      BY <1>5, <1>8, <2>1, <2>3
  <1>12. BreakKept(frames', Len(frames))
    <2> SUFFICES ASSUME e.how = "break"
                 PROVE  /\ \E j \in Passed(frames, Len(frames), Called) : frames'[j].kind = "loop"
                        /\ \A j \in Passed(frames, Len(frames), Called \cup {"loop"}) :
                              frames'[j].tbc = <<>>
      BY <1>5, <1>7, <1>9 DEF BreakKept
    <2>1. /\ \E j \in Passed(frames, Len(frames), Called) : frames[j].kind = "loop"
          /\ \A j \in Passed(frames, Len(frames), Called \cup {"loop"}) : frames[j].tbc = <<>>
      BY DEF Jumpable
    <2> QED
      BY <1>8, <1>10, <2>1
  <1>13. Kept(frames') /\ frames' \in Seq(Frames)
    BY <1>1, <1>2, <1>5, <1>6, <1>11, <1>12, KeptTop DEF SetTop
  <1>14. IInv'
    BY <1>1, <1>13 DEF IInv, TypeOK
  <1>15. View(frames') = Lua!SetTop([Lua!Top EXCEPT !.exit = e])
    BY <1>1, <1>3, <1>5, <1>6, LuaTop
  <1>16. Lua!Leave(e)
    BY <1>1, <1>15, LuaTop DEF View, Lua!Leave
  <1> QED
    BY <1>14, <1>16

(* pcall returns, which Lua does not see.                                  *)
LEMMA StepPcall ==
    ASSUME IInv, PcallReturns
    PROVE  IInv' /\ View(frames') = View(frames) /\ UNCHANGED <<closed, opened, result>>
  <1>1. /\ frames # <<>> /\ Top.exit # Running /\ Top.tbc # <<>>
        /\ UNCHANGED <<closed, opened, result, loads>>
    BY DEF PcallReturns, IsLeaving
  <1>2. /\ frames \in Seq(Frames) /\ Kept(frames)
        /\ Len(frames) \in Nat /\ Len(frames) \in 1..Len(frames)
        /\ ReturnKept(frames, Len(frames)) /\ BreakKept(frames, Len(frames))
    BY <1>1, TopIs DEF IInv, TypeOK
  <1>3. PICK g \in Frames : g = Top /\ FrameOK(g) /\ g.exit # Running /\ g.tbc # <<>>
    BY <1>1, TopIs
  <1>4. g = frames[Len(frames)]
    BY <1>3 DEF Top
  <1>5. \A stops : Len(frames) \in Passed(frames, Len(frames), stops)
    BY <1>2 DEF Passed
  <1>6. g.exit.how # "break"
    BY <1>2, <1>3, <1>4, <1>5 DEF BreakKept
  <1>7. g.exit.how = "return" => g.ends = TRUE /\ Len(g.exit.vals) = 1
    <2> SUFFICES ASSUME g.exit.how = "return"
                 PROVE  g.ends = TRUE /\ Len(g.exit.vals) = 1
      OBVIOUS
    <2>1. LuaExit(g) = g.exit
      BY <1>3, LuaExitIs
    <2>2. LuaExit(frames[Len(frames)]).how = "return" /\ frames[Len(frames)].tbc # <<>>
      BY <1>3, <1>4, <2>1
    <2>3. frames[Len(frames)].ends /\ Len(LuaExit(frames[Len(frames)]).vals) = 1
      BY <1>2, <1>5, <2>2 DEF ReturnKept
    <2>4. g.ends \in BOOLEAN
      BY DEF Frames
    <2> QED
      BY <1>4, <2>1, <2>3, <2>4
  <1>8. PICK f : f = [g EXCEPT !.at     = "cleanup",
                               !.ok     = (g.exit.how # "error"),
                               !.result = First(g.exit.vals),
                               !.exit   = Running]
    OBVIOUS
  <1>9. /\ f \in Frames /\ FrameOK(f)
        /\ f.kind = g.kind /\ f.ends = g.ends /\ f.tbc = g.tbc
        /\ f.exit = Running
        /\ LuaExit(f) = LuaExit(g)
        /\ LuaBlock(f) = LuaBlock(g)
    BY <1>3, <1>6, <1>7, <1>8, FramePcall
  <1>10. frames' = SetTop(f)
    BY <1>3, <1>8 DEF PcallReturns
  <1>11. Kept(frames') /\ frames' \in Seq(Frames)
    <2>1. f.exit.how # "break"
      BY <1>9, RunningIsExit
    <2> QED
      BY <1>1, <1>2, <1>4, <1>9, <1>10, <2>1, KeptSameExit DEF SetTop
  <1>12. IInv'
    BY <1>1, <1>11 DEF IInv, TypeOK
  <1>13. View(frames') = View(frames)
    <2>1. View(frames') = [View(frames) EXCEPT ![Len(frames)] = LuaBlock(g)]
      BY <1>1, <1>2, <1>9, <1>10, ViewTop DEF SetTop
    <2>2. View(frames)[Len(frames)] = LuaBlock(g)
      BY <1>2, <1>4, ViewTyped
    <2>3. View(frames) = [k \in 1..Len(frames) |-> View(frames)[k]]
      BY DEF View
    <2> QED
      BY <1>2, <2>1, <2>2, <2>3
  <1> QED
    BY <1>1, <1>12, <1>13

(* The re-raise, which Lua does not see either.                            *)
LEMMA StepReraise ==
    ASSUME IInv, Reraise
    PROVE  IInv' /\ View(frames') = View(frames) /\ UNCHANGED <<closed, opened, result>>
  <1>1. /\ frames # <<>> /\ Top.at = "reraise"
        /\ UNCHANGED <<closed, opened, result, loads>>
    BY DEF Reraise
  <1>2. /\ frames \in Seq(Frames) /\ Kept(frames)
        /\ Len(frames) \in Nat /\ Len(frames) \in 1..Len(frames)
    BY <1>1, TopIs DEF IInv, TypeOK
  <1>3. PICK g \in Frames : g = Top /\ FrameOK(g) /\ g.at = "reraise"
    BY <1>1, TopIs
  <1>4. g = frames[Len(frames)]
    BY <1>3 DEF Top
  <1>5. PICK f : f = [g EXCEPT !.at = "stmts", !.exit = Resumed(g)]
    OBVIOUS
  <1>6. /\ f \in Frames /\ FrameOK(f)
        /\ f.kind = g.kind /\ f.ends = g.ends /\ f.tbc = g.tbc
        /\ f.exit.how # "break"
        /\ LuaExit(f) = LuaExit(g)
        /\ LuaBlock(f) = LuaBlock(g)
    BY <1>3, <1>5, FrameReraise
  <1>7. frames' = SetTop(f)
    BY <1>3, <1>5 DEF Reraise
  <1>8. Kept(frames') /\ frames' \in Seq(Frames)
    BY <1>1, <1>2, <1>4, <1>6, <1>7, KeptSameExit DEF SetTop
  <1>9. IInv'
    BY <1>1, <1>8 DEF IInv, TypeOK
  <1>10. View(frames') = View(frames)
    <2>1. View(frames') = [View(frames) EXCEPT ![Len(frames)] = LuaBlock(g)]
      BY <1>1, <1>2, <1>6, <1>7, ViewTop DEF SetTop
    <2>2. View(frames)[Len(frames)] = LuaBlock(g)
      BY <1>2, <1>4, ViewTyped
    <2>3. View(frames) = [k \in 1..Len(frames) |-> View(frames)[k]]
      BY DEF View
    <2> QED
      BY <1>2, <2>1, <2>2, <2>3
  <1> QED
    BY <1>1, <1>9, <1>10

(* The cleanup: Lua calls the closing function of the newest variable.     *)
LEMMA StepCleanup ==
    ASSUME IInv, Constructs = {}, NEW ends \in BOOLEAN, Cleanup(ends)
    PROVE  IInv' /\ Lua!Close
  <1>1. /\ frames # <<>> /\ Top.at = "cleanup"
        /\ UNCHANGED <<opened, result, loads>>
    BY DEF Cleanup, AtCleanup, CleanupOf
  <1>2. /\ frames \in Seq(Frames) /\ Kept(frames) /\ closed \in Seq(Entries)
        /\ Len(frames) \in Nat /\ Len(frames) \in 1..Len(frames)
    BY <1>1, TopIs DEF IInv, TypeOK, Entries
  <1>3. PICK g \in Frames : g = Top /\ FrameOK(g) /\ g.at = "cleanup"
    BY <1>1, TopIs
  <1>4. g = frames[Len(frames)]
    BY <1>3 DEF Top
  <1>5. PICK x \in Things : x = Last(g.tbc) /\ x.kind \in Closables
    <2>1. g.tbc \in Seq(Things) /\ g.tbc # <<>>
      BY <1>3 DEF Frames, FrameOK
    <2>2. Len(g.tbc) \in 1..Len(g.tbc)
      BY <2>1, EmptySeq, LenProperties
    <2>3. Last(g.tbc) \in Things /\ Last(g.tbc).kind \in Closables
      BY <1>3, <2>1, <2>2, ElementOfSeq DEF FrameOK, Last
    <2> QED
      BY <2>3
  <1>6. PICK f : f = [g EXCEPT !.at = "reraise", !.tbc = Front(@)]
    OBVIOUS
  <1>7. /\ f \in Frames /\ FrameOK(f)
        /\ f.kind = g.kind /\ f.ends = g.ends
        /\ f.exit = Running
        /\ LuaExit(f) = LuaExit(g)
        /\ LuaBlock(f) = [LuaBlock(g) EXCEPT !.tbc = SubSeq(@, 1, Len(@) - 1)]
    BY <1>3, <1>6, FrameCleanup
  <1>8. PICK rest : rest = SetTop(f) /\ rest = [frames EXCEPT ![Len(frames)] = f]
    BY DEF SetTop
  <1>9. Kept(rest) /\ rest \in Seq(Frames)
    <2>1. g.tbc # <<>> /\ f.exit.how # "break"
      BY <1>3, <1>7, RunningIsExit DEF FrameOK
    <2> QED
      BY <1>1, <1>2, <1>4, <1>7, <1>8, <2>1, KeptSameExit
  <1>10. View(rest) = Lua!SetTop([Lua!Top EXCEPT !.tbc = SubSeq(@, 1, Len(@) - 1)])
    BY <1>1, <1>3, <1>7, <1>8, LuaTop
  <1>11. Lua!IsLeaving
    <2>1. LuaExit(g) # Running
      BY <1>3, LuaExitIs
    <2> QED
      BY <1>1, <1>3, <2>1, LuaTop
  <1>12. Lua!Top.tbc # <<>> /\ x = Lua!Top.tbc[Len(Lua!Top.tbc)]
    <2>1. Lua!Top.tbc = g.tbc
      BY <1>1, <1>3, LuaTop, BlockTyped
    <2>2. g.tbc # <<>>
      BY <1>3 DEF FrameOK
    <2> QED
      BY <1>5, <2>1, <2>2 DEF Last
  <1>13. CASE x.kind = "nil"
    <2>1. frames' = rest /\ closed' = closed
      BY <1>3, <1>5, <1>6, <1>8, <1>13 DEF Cleanup, AtCleanup, CleanupOf, Closes
    <2>2. IInv'
      BY <1>1, <1>9, <2>1 DEF IInv, TypeOK
    <2>3. Lua!Close
      BY <1>1, <1>10, <1>11, <1>12, <1>13, <2>1 DEF View, Lua!Close
    <2> QED
      BY <2>2, <2>3
  <1>14. CASE x.kind = "meta"
    <2>1. "unvisited" \notin Constructs /\ Visited("closer") = {TRUE}
      BY DEF Visited, Called
    <2>2. PICK c : c = Frame("closer", ends, TRUE)
      OBVIOUS
    <2>3. PICK y \in Entries : y = [id |-> x.id, kind |-> x.kind, told |-> Told(g)]
      <3>1. x.id \in Nat /\ x.kind \in Closables \cup Others /\ Told(g) = "nothing"
        BY DEF Things, Told
      <3>2. [id |-> x.id, kind |-> x.kind, told |-> Told(g)] \in Entries
        BY <3>1 DEF Entries
      <3> QED
        BY <3>2
    <2>4. frames' = Append(rest, c) /\ closed' = Append(closed, y)
      BY <1>3, <1>5, <1>6, <1>8, <1>14, <2>1, <2>2, <2>3 DEF Cleanup, AtCleanup, CleanupOf, Closes
    <2>5. c \in Frames /\ FrameOK(c) /\ LuaExit(c) = Running /\ LuaBlock(c) = Lua!Block("closer")
      <3>1. "closer" \in Kinds
        BY DEF Kinds, Called
      <3> QED
        BY <2>2, <3>1, FrameEntered
    <2>6. Kept(frames') /\ frames' \in Seq(Frames)
      BY <1>9, <2>4, <2>5, KeptPush
    <2>7. View(frames') = Append(View(rest), Lua!Block("closer"))
      BY <1>9, <2>4, <2>5, ViewAppend
    <2>8. closed' \in Seq(Entries)
      BY <1>2, <2>4, AppendProperties
    <2>9. Ids(closed') = Append(Ids(closed), x.id)
      <3>1. y.id = x.id
        BY <2>3
      <3> QED
        BY <1>2, <2>4, <3>1, IdsAppend
    <2>10. IInv'
      BY <1>1, <2>6, <2>8 DEF IInv, TypeOK, Entries
    <2>11. Lua!Close
      BY <1>1, <1>10, <1>11, <1>12, <1>14, <2>7, <2>9 DEF View, Ids, Lua!Close
    <2> QED
      BY <2>10, <2>11
  <1> QED
    BY <1>5, <1>13, <1>14 DEF Closables

(* A frame with nothing left to close is left.                             *)
LEMMA StepDone ==
    ASSUME IInv, Done
    PROVE  IInv' /\ Lua!Done
  <1>1. /\ frames # <<>> /\ Top.exit # Running /\ Top.tbc = <<>>
        /\ UNCHANGED <<closed, opened, loads>>
        /\ result' = IF Top.kind \in Called THEN Top.exit ELSE result
    BY DEF Done, IsLeaving
  <1>2. /\ frames \in Seq(Frames) /\ Kept(frames) /\ result \in Exits
        /\ Len(frames) \in Nat /\ Len(frames) \in 1..Len(frames)
        /\ ReturnKept(frames, Len(frames)) /\ BreakKept(frames, Len(frames))
    BY <1>1, TopIs DEF IInv, TypeOK
  <1>3. PICK g \in Frames : /\ g = Top /\ g = frames[Len(frames)] /\ FrameOK(g)
                           /\ g.exit # Running /\ g.tbc = <<>>
    BY <1>1, TopIs DEF Top
  <1>4. PICK e \in Exits : e = g.exit /\ e = LuaExit(g) /\ e.how # "run"
    <2>1. g.exit \in Exits /\ LuaExit(g) = g.exit
      BY <1>3, LuaExitIs DEF Frames
    <2>2. g.exit.how # "run"
      BY <1>3, <2>1, ExitIs DEF FrameOK, Running
    <2> QED
      BY <2>1, <2>2
  <1>5. PICK m \in Nat : m = Len(frames) - 1 /\ m + 1 = Len(frames)
    BY <1>2
  <1>6. PICK outer \in Seq(Frames) :
          /\ outer = Outer /\ Len(outer) = m /\ \A k \in 1..m : outer[k] = frames[k]
          /\ Kept(outer) /\ View(outer) = SubSeq(View(frames), 1, Len(frames) - 1)
    <2>1. /\ Outer \in Seq(Frames) /\ Len(Outer) = m /\ \A k \in 1..m : Outer[k] = frames[k]
      BY <1>1, <1>2, <1>5, FrontIs DEF Outer
    <2>2. Kept(Outer) /\ View(Outer) = SubSeq(View(frames), 1, Len(frames) - 1)
      BY <1>1, <1>2, KeptPop, ViewFront DEF Outer
    <2> QED
      BY <2>1, <2>2
  <1>7. result' \in Exits /\ result' = IF g.kind \in Called THEN e ELSE result
    BY <1>1, <1>2, <1>3, <1>4
  <1>8. /\ Lua!IsLeaving
        /\ Lua!Top.tbc = <<>> /\ Lua!Top.kind = g.kind /\ Lua!Top.exit = e
        /\ Len(View(frames)) = Len(frames)
    <2>1. Lua!Top = LuaBlock(g) /\ LuaExit(g) # Running
      BY <1>1, <1>3, <1>4, LuaTop
    <2>2. Lua!IsLeaving
      BY <1>1, <1>3, <2>1, LuaTop
    <2>3. LuaBlock(g).tbc = g.tbc /\ LuaBlock(g).kind = g.kind /\ LuaBlock(g).exit = LuaExit(g)
      BY BlockTyped
    <2> QED
      BY <1>2, <1>3, <1>4, <2>1, <2>2, <2>3, ViewTyped
  <1>9. Lua!StopsAt(e, g.kind) <=> StopsAt(e, g.kind)
    BY DEF StopsAt, Lua!StopsAt, Called, Lua!Called
  <1>10. CASE outer = <<>> \/ StopsAt(e, g.kind)
    <2>1. frames' = outer
      BY <1>3, <1>4, <1>6, <1>10 DEF Done
    <2>2. IInv'
      BY <1>1, <1>6, <1>7, <2>1 DEF IInv, TypeOK
    <2>3. View(outer) = <<>> <=> outer = <<>>
      BY ViewTyped, EmptySeq
    <2>4. Lua!Done
      BY <1>1, <1>6, <1>7, <1>8, <1>9, <1>10, <2>1, <2>3 DEF View, Lua!Done, Lua!Called, Called
    <2> QED
      BY <2>2, <2>4
  <1>11. CASE outer # <<>> /\ ~StopsAt(e, g.kind)
    <2>1. m \in 1..m /\ m # 0
      BY <1>6, <1>11, EmptySeq
    <2>2. PICK h \in Frames : h = outer[m] /\ h = frames[m] /\ FrameOK(h)
      <3>1. outer[m] \in Frames /\ outer[m] = frames[m]
        BY <1>6, <2>1, ElementOfSeq
      <3>2. FrameOK(outer[m])
        BY <1>6, <2>1 DEF Kept
      <3> QED
        BY <3>1, <3>2
    <2>3. PICK f : f = [h EXCEPT !.exit = e, !.at = "stmts"]
      OBVIOUS
    <2>4. e.how \in {"break", "return", "error"}
      BY <1>4, <1>11 DEF StopsAt, Exits
    <2>5. Leavable(h, e)
      BY <1>3, <1>4, <2>4 DEF Leavable, FrameOK
    <2>6. /\ f \in Frames /\ FrameOK(f) /\ LuaBlock(f) = [LuaBlock(h) EXCEPT !.exit = e]
      <3>1. f \in Frames /\ FrameOK(f)
        BY <2>2, <2>3, <2>5, FrameLeaving
      <3>2. FrameOK(h)
        BY <2>2
      <3>3. LuaBlock(f) = [LuaBlock(h) EXCEPT !.exit = e]
        BY <2>3, <2>5, <3>2, FrameLeaving, ZenonT(60)
      <3> QED
        BY <3>1, <3>3
    <2>7. f.exit = e /\ LuaExit(f) = e
      <3>1. f.exit = e /\ f.at = "stmts"
        BY <2>3 DEF Frames
      <3> QED
        BY <2>6, <3>1, LuaExitIs
    <2>8. PICK t : t = [outer EXCEPT ![m] = f]
      OBVIOUS
    <2>9. frames' = t
      <3>1. frames' = [Outer EXCEPT ![Len(Outer)] = [@ EXCEPT !.exit = Top.exit, !.at = "stmts"]]
        BY <1>3, <1>4, <1>6, <1>11 DEF Done
      <3> QED
        BY <1>3, <1>4, <1>6, <2>2, <2>3, <2>8, <3>1
    <2>10. /\ t \in Seq(Frames) /\ Len(t) = m /\ t[m] = f
           /\ \A k \in 1..m : k # m => t[k] = frames[k]
      BY <1>6, <2>1, <2>6, <2>8, ExceptSeq
    <2>11. \A k \in 1..m : t[k].kind = frames[k].kind
                         /\ t[k].ends = frames[k].ends
                         /\ t[k].tbc = frames[k].tbc
      <3> TAKE k \in 1..m
      <3>1. CASE k = m
        <4>1. t[k] = f /\ frames[k] = h
          BY <2>2, <2>10, <3>1
        <4>2. f.kind = h.kind /\ f.tbc = h.tbc
          BY <2>3 DEF Frames
        <4>3. f.ends = h.ends
          BY <2>3 DEF Frames
        <4> QED
          BY <4>1, <4>2, <4>3, Zenon
      <3>2. CASE k # m
        <4>1. t[k] = frames[k]
          BY <2>10, <3>2
        <4> QED
          BY <4>1, Zenon
      <3> QED
        BY <3>1, <3>2
    <2>12. \A stops : g.kind \notin stops => Passed(t, m, stops) \subseteq Passed(frames, m + 1, stops)
      <3> SUFFICES ASSUME NEW stops, g.kind \notin stops, NEW j \in Passed(t, m, stops)
                   PROVE  j \in Passed(frames, m + 1, stops)
        OBVIOUS
      <3>1. j \in 1..m /\ \A i \in (j + 1)..m : t[i].kind \notin stops
        BY DEF Passed
      <3>2. \A i \in (j + 1)..(m + 1) : frames[i].kind \notin stops
        <4> TAKE i \in (j + 1)..(m + 1)
        <4>1. CASE i = m + 1
          BY <1>3, <1>5, <4>1
        <4>2. CASE i # m + 1
          <5>1. i \in (j + 1)..m /\ i \in 1..m
            BY <3>1, <4>2
          <5> QED
            BY <2>11, <3>1, <5>1
        <4> QED
          BY <4>1, <4>2
      <3> QED
        BY <3>1, <3>2 DEF Passed
    <2>13. \A stops : Passed(t, m, stops) \subseteq 1..m
      BY DEF Passed
    <2>14. ReturnKept(t, m)
      <3> SUFFICES ASSUME e.how = "return", NEW j \in Passed(t, m, Called), t[j].tbc # <<>>
                   PROVE  t[j].ends /\ Len(e.vals) = 1
        BY <2>7, <2>10 DEF ReturnKept
      <3>1. g.kind \notin Called
        BY <1>11 DEF StopsAt
      <3>2. j \in Passed(frames, m + 1, Called) /\ j \in 1..m
        BY <2>12, <2>13, <3>1
      <3>3. frames[j].tbc # <<>>
        BY <2>11, <3>2
      <3>4. LuaExit(frames[Len(frames)]).how = "return" /\ j \in Passed(frames, Len(frames), Called)
        BY <1>3, <1>4, <1>5, <3>2
      <3>5. frames[j].ends /\ Len(LuaExit(frames[Len(frames)]).vals) = 1
        BY <1>2, <3>3, <3>4 DEF ReturnKept
      <3> QED
        BY <1>3, <1>4, <2>11, <3>2, <3>5
    <2>15. BreakKept(t, m)
      <3> SUFFICES ASSUME e.how = "break"
                   PROVE  /\ \E j \in Passed(t, m, Called) : t[j].kind = "loop"
                          /\ \A j \in Passed(t, m, Called \cup {"loop"}) : t[j].tbc = <<>>
        BY <2>7, <2>10 DEF BreakKept
      <3>1. frames[Len(frames)].exit.how = "break"
        BY <1>3, <1>4
      <3>2. /\ \E j \in Passed(frames, Len(frames), Called) : frames[j].kind = "loop"
            /\ \A j \in Passed(frames, Len(frames), Called \cup {"loop"}) : frames[j].tbc = <<>>
        BY <1>2, <3>1 DEF BreakKept
      <3>3. g.kind # "loop"
        BY <1>11 DEF StopsAt
      <3>4. PICK j \in Passed(frames, m + 1, Called) : frames[j].kind = "loop"
        BY <1>5, <3>2
      <3>5. j \in 1..m /\ \A i \in (j + 1)..(m + 1) : frames[i].kind \notin Called
        <4>1. j \in 1..(m + 1) /\ \A i \in (j + 1)..(m + 1) : frames[i].kind \notin Called
          BY DEF Passed
        <4>2. j # m + 1
          BY <1>3, <1>5, <3>3, <3>4
        <4> QED
          BY <4>1, <4>2
      <3>6. g.kind \notin Called
        <4>1. m + 1 \in (j + 1)..(m + 1)
          BY <3>5
        <4> QED
          BY <1>3, <1>5, <3>5, <4>1
      <3>7. j \in Passed(t, m, Called) /\ t[j].kind = "loop"
        <4>1. \A i \in (j + 1)..m : i \in 1..m /\ i \in (j + 1)..(m + 1)
          BY <3>5
        <4>2. \A i \in (j + 1)..m : t[i].kind \notin Called
          BY <2>11, <3>5, <4>1
        <4> QED
          BY <2>11, <3>4, <3>5, <4>2 DEF Passed
      <3>8. \A i \in Passed(t, m, Called \cup {"loop"}) : t[i].tbc = <<>>
        <4> TAKE i \in Passed(t, m, Called \cup {"loop"})
        <4>1. g.kind \notin Called \cup {"loop"}
          BY <3>3, <3>6
        <4>2. i \in Passed(frames, Len(frames), Called \cup {"loop"}) /\ i \in 1..m
          BY <1>5, <2>12, <2>13, <4>1
        <4> QED
          BY <2>11, <3>2, <4>2
      <3> QED
        BY <3>7, <3>8
    <2>16. Kept(frames') /\ frames' \in Seq(Frames)
      BY <1>6, <2>6, <2>8, <2>9, <2>14, <2>15, <1>11, KeptTop
    <2>17. IInv'
      BY <1>1, <1>7, <2>16 DEF IInv, TypeOK
    <2>18. View(outer) # <<>> /\ Len(View(outer)) = m
           /\ View(t) = [View(outer) EXCEPT ![m] = [@ EXCEPT !.exit = e]]
      <3>1. View(outer) # <<>> /\ Len(View(outer)) = m /\ View(outer)[m] = LuaBlock(h)
        BY <1>6, <1>11, <2>1, <2>2, ViewTyped, EmptySeq
      <3>2. View(t) = [View(outer) EXCEPT ![m] = LuaBlock(f)]
        BY <1>6, <1>11, <2>6, <2>8, ViewTop
      <3> QED
        BY <2>6, <3>1, <3>2
    <2>19. Lua!Done
      <3>1. PICK V : V = SubSeq(View(frames), 1, Len(View(frames)) - 1)
        OBVIOUS
      <3>2. V = View(outer) /\ V # <<>> /\ Len(V) = m
        BY <1>6, <1>8, <2>18, <3>1
      <3>3. View(frames') = [V EXCEPT ![Len(V)] = [@ EXCEPT !.exit = e]]
        BY <2>9, <2>18, <3>2
      <3>4. View(frames') = IF V = <<>> \/ Lua!StopsAt(e, g.kind) THEN V
                            ELSE [V EXCEPT ![Len(V)] = [@ EXCEPT !.exit = e]]
        BY <1>9, <1>11, <3>2, <3>3
      <3>5. UNCHANGED <<[k \in 1..Len(closed) |-> closed[k].id], opened>>
        BY <1>1
      <3>6. result' = IF g.kind \in Lua!Called THEN e ELSE result
        BY <1>7 DEF Lua!Called, Called
      <3> QED
        BY <1>8, <3>1, <3>4, <3>5, <3>6 DEF View, Lua!Done
    <2> QED
      BY <2>17, <2>19
  <1> QED
    BY <1>10, <1>11
-----------------------------------------------------------------------------
(* The initial states satisfy the invariant and are initial states of      *)
(* ToBeClosed.                                                             *)
LEMMA InitStep ==
    ASSUME Init
    PROVE  IInv /\ Lua!Init
  <1>1. PICK ends \in BOOLEAN : frames = <<Frame("protected", ends, TRUE)>>
    BY DEF Init
  <1>2. PICK f : f = Frame("protected", ends, TRUE) /\ frames = <<f>>
    BY <1>1
  <1>3. f \in Frames /\ FrameOK(f) /\ LuaExit(f) = Running /\ LuaBlock(f) = Lua!Block("protected")
    <2>1. "protected" \in Kinds
      BY DEF Kinds, Called
    <2> QED
      BY <1>2, <2>1, FrameEntered
  <1>4. frames = Append(<<>>, f) /\ <<>> \in Seq(Frames)
    BY <1>2, <1>3
  <1>5. Kept(<<>>)
    <2>1. Len(<<>>) = 0
      OBVIOUS
    <2>2. \A k \in 1..Len(<<>>) : FALSE
      BY <2>1
    <2> QED
      BY <2>2, Zenon DEF Kept
  <1>6. Kept(frames) /\ frames \in Seq(Frames)
    BY <1>3, <1>4, <1>5, KeptPush
  <1>7. View(frames) = <<Lua!Block("protected")>>
    <2>1. View(<<>>) = <<>>
      <3>1. View(<<>>) \in Seq(Blocks) /\ Len(View(<<>>)) = Len(<<>>)
        BY <1>4, ViewTyped
      <3> QED
        BY <3>1, EmptySeq
    <2>2. View(frames) = Append(View(<<>>), LuaBlock(f))
      BY <1>3, <1>4, ViewAppend
    <2>3. PICK b : b = LuaBlock(f) /\ b = Lua!Block("protected")
      BY <1>3
    <2>4. View(frames) = Append(<<>>, b)
      BY <2>1, <2>2, <2>3
    <2>5. Append(<<>>, b) = <<b>>
      OBVIOUS
    <2> QED
      BY <2>3, <2>4, <2>5
  <1>8. closed = <<>> /\ opened = 0 /\ result = Running /\ loads = TRUE
    BY DEF Init
  <1>9. IInv
    <2>1. closed \in Seq([id : Nat, kind : Closables \cup Others, told : {"nothing"} \cup Values])
      BY <1>8
    <2>2. opened \in Nat /\ result \in Exits /\ loads \in BOOLEAN
      BY <1>8, RunningIsExit
    <2> QED
      BY <1>6, <2>1, <2>2 DEF IInv, TypeOK
  <1>10. Lua!Init
    <2>1. [k \in 1..Len(closed) |-> closed[k].id] = <<>>
      <3>1. PICK d \in Seq(Entries) : d = <<>> /\ d = closed
        <4>1. <<>> \in Seq(Entries)
          OBVIOUS
        <4> QED
          BY <1>8, <4>1
      <3>2. Len(d) = 0 /\ Ids(d) \in Seq(Nat) /\ Len(Ids(d)) = Len(d)
        BY <3>1, IdsTyped
      <3>3. Ids(d) = <<>>
        BY <3>2, EmptySeq
      <3> QED
        BY <3>1, <3>3 DEF Ids
    <2> QED
      BY <1>7, <1>8, <2>1 DEF View, Lua!Init, Lua!Running, Lua!Exit, Running, Exit
  <1> QED
    BY <1>9, <1>10

(* Each step keeps the invariant, and is a step of Lua's or none.          *)
LEMMA NextStep ==
    ASSUME Constructs = {}, IInv, [Next]_vars
    PROVE  IInv' /\ [Lua!Next]_(Lua!vars)
  <1>1. ASSUME NEW kind \in Kinds \ {"closer"}, NEW ends \in BOOLEAN, Enter(kind, ends)
        PROVE  IInv' /\ Lua!Next
    <2>1. IInv' /\ Lua!Enter(kind)
      BY <1>1, StepEnter
    <2>2. kind \in {"block", "loop", "function", "protected"}
      BY <1>1 DEF Kinds, Called
    <2> QED
      BY <2>1, <2>2 DEF Lua!Next
  <1>2. ASSUME NEW kind \in Closables \cup Others, Declare(kind)
        PROVE  IInv' /\ Lua!Next
    <2>1. IInv' /\ kind \in Closables /\ Lua!Declare(kind)
      BY <1>2, StepDeclare
    <2> QED
      BY <2>1 DEF Lua!Next, Closables
  <1>3. CASE End
    <2>1. PICK e \in Exits : e = Exit("end", <<>>) /\ e.how = "end" /\ e.vals = <<>>
      <3>1. <<>> \in Seq(Values)
        OBVIOUS
      <3>2. /\ Exit("end", <<>>) \in Exits
            /\ Exit("end", <<>>).how = "end"
            /\ Exit("end", <<>>).vals = <<>>
        BY <3>1, ExitTyped
      <3> QED
        BY <3>2
    <2>2. LeaveWith(e) /\ Jumpable(e)
      BY <1>3, <2>1 DEF End, Jumpable
    <2>3. Top.ends = FALSE
      <3>1. Top \in Frames /\ ~Top.ends
        BY <1>3, TopIs DEF End, IsRunning
      <3> QED
        BY <3>1 DEF Frames
    <2>4. Leavable(Top, e)
      BY <2>1, <2>3 DEF Leavable
    <2>5. IInv' /\ Lua!Leave(e)
      BY <2>2, <2>4, StepLeaving
    <2> QED
      BY <2>1, <2>5 DEF Lua!Next, Exit, Lua!Exit
  <1>4. CASE Break
    <2>1. PICK e \in Exits : e = Exit("break", <<>>) /\ e.how = "break" /\ e.vals = <<>>
      <3>1. <<>> \in Seq(Values)
        OBVIOUS
      <3>2. /\ Exit("break", <<>>) \in Exits
            /\ Exit("break", <<>>).how = "break"
            /\ Exit("break", <<>>).vals = <<>>
        BY <3>1, ExitTyped
      <3> QED
        BY <3>2
    <2>2. LeaveWith(e) /\ Jumpable(e)
      BY <1>4, <2>1 DEF Break, Jumpable, InLoop
    <2>3. Leavable(Top, e)
      BY <2>1 DEF Leavable
    <2>4. IInv' /\ Lua!Leave(e)
      BY <2>2, <2>3, StepLeaving
    <2> QED
      BY <2>1, <2>4 DEF Lua!Next, Exit, Lua!Exit
  <1>5. CASE BreakOut \/ VarargTail \/ GotoAcross
    BY <1>5 DEF BreakOut, VarargTail, GotoAcross, Unloadable
  <1>6. ASSUME NEW v \in Values, Raise(v)
        PROVE  IInv' /\ Lua!Next
    <2>1. PICK e \in Exits : e = Exit("error", <<v>>) /\ e.how = "error" /\ Len(e.vals) = 1
      <3>1. <<v>> \in Seq(Values) /\ Len(<<v>>) = 1
        OBVIOUS
      <3>2. Exit("error", <<v>>) \in Exits /\ Exit("error", <<v>>).how = "error"
            /\ Exit("error", <<v>>).vals = <<v>>
        BY <3>1, ExitTyped
      <3> QED
        BY <3>1, <3>2
    <2>2. LeaveWith(e) /\ Jumpable(e)
      BY <1>6, <2>1 DEF Raise, Jumpable
    <2>3. Leavable(Top, e)
      BY <2>1 DEF Leavable
    <2>4. IInv' /\ Lua!Leave(e)
      BY <2>2, <2>3, StepLeaving
    <2> QED
      BY <2>1, <2>4 DEF Lua!Next, Exit, Lua!Exit
  <1>7. ASSUME NEW vals \in Returns, Return(vals)
        PROVE  IInv' /\ Lua!Next
    <2>1. PICK e \in Exits : e = Exit("return", vals) /\ e.how = "return" /\ e.vals = vals
      <3>1. vals \in Seq(Values)
        BY ValuesAssumption
      <3>2. /\ Exit("return", vals) \in Exits
            /\ Exit("return", vals).how = "return"
            /\ Exit("return", vals).vals = vals
        BY <3>1, ExitTyped
      <3> QED
        BY <3>2
    <2>2. LeaveWith(e) /\ Jumpable(e)
      <3>1. "nested_return" \notin Constructs /\ "value_count" \notin Constructs
        OBVIOUS
      <3>2. LeaveWith(e)
        BY <1>7, <2>1 DEF Return
      <3>3. Jumpable(e)
        BY <1>7, <2>1, <3>1 DEF Return, Jumpable
      <3> QED
        BY <3>2, <3>3
    <2>3. Leavable(Top, e)
      BY <2>1 DEF Leavable
    <2>4. IInv' /\ Lua!Leave(e)
      BY <2>2, <2>3, StepLeaving
    <2> QED
      BY <2>1, <2>4 DEF Lua!Next, Exit, Lua!Exit
  <1>8. CASE PcallReturns
    BY <1>8, StepPcall DEF View, Lua!vars
  <1>9. ASSUME NEW ends \in BOOLEAN, Cleanup(ends)
        PROVE  IInv' /\ Lua!Next
    BY <1>9, StepCleanup DEF Lua!Next
  <1>10. CASE Reraise
    BY <1>10, StepReraise DEF View, Lua!vars
  <1>11. CASE Done
    BY <1>11, StepDone DEF Lua!Next
  <1>12. CASE UNCHANGED vars
    BY <1>12 DEF vars, IInv, TypeOK, Lua!vars
  <1> QED
    BY <1>1, <1>2, <1>3, <1>4, <1>5, <1>6, <1>7, <1>8, <1>9, <1>10, <1>11, <1>12 DEF Next

(* In a program without the diverging constructs, the frames are always    *)
(* typed, and a jump never has a closure to cross that would bend it.      *)
THEOREM JumpsKept ==
    ASSUME Constructs = {}
    PROVE  Spec => []IInv
  <1>1. Init => IInv
    BY InitStep
  <1>2. IInv /\ [Next]_vars => IInv'
    BY NextStep
  <1> QED
    BY <1>1, <1>2, PTL DEF Spec

(* What the transform emits for `<close>` (transform_close_block,          *)
(* process_close_at) is loaded and runs as Lua says a to-be-closed         *)
(* variable does: closed exactly when its block is left, newest first,     *)
(* whatever the block is left with, which then goes on unchanged.  This is *)
(* about programs with none of the seven constructs: no return in a nested *)
(* block or of several values, function the pass does not visit or value   *)
(* without __close, and no break, `...` or goto that crosses a closure.    *)
THEOREM PromiseKept ==
    ASSUME Constructs = {}
    PROVE  Spec => KeepsPromise
  <1>1. Init => Lua!Init
    BY InitStep
  <1>2. IInv /\ [Next]_vars => [Lua!Next]_(Lua!vars)
    BY NextStep
  <1>3. Spec => []IInv
    BY JumpsKept
  <1>4. Init => Loads
    BY DEF Init, Loads
  <1>5. Loads /\ [Next]_vars => Loads'
    BY DEF Loads, Next, vars, Enter, Declare, End, Break, LeaveWith, Raise, Return,
           BreakOut, VarargTail, GotoAcross, Unloadable, PcallReturns, Cleanup, CleanupOf,
           Reraise, Done
  <1> QED
    BY <1>1, <1>2, <1>3, <1>4, <1>5, PTL DEF Spec, KeepsPromise, Lua!Spec

-----------------------------------------------------------------------------
(* A wrapped variable is closed at most once and newest first, whatever    *)
(* the program does: with all the constructs that the close transform      *)
(* treats otherwise than Lua.                                              *)
(* What waits in the stack t waits in the stack s, in the same place.      *)
Within(t, s) ==
    \A k \in 1..Len(t) : \A i \in 1..Len(t[k].tbc) :
        k \in 1..Len(s) /\ i \in 1..Len(s[k].tbc) /\ t[k].tbc[i] = s[k].tbc[i]

PendingIn(s) == UNION {{s[k].tbc[i] : i \in 1..Len(s[k].tbc)} : k \in 1..Len(s)}

(* The step NewestFirst allows.                                            *)
Newest ==
    \A x \in Pending : x \notin Pending' =>
        /\ \A y \in Pending : y.id <= x.id
        /\ x.kind = "meta" => Len(closed') = Len(closed) + 1 /\ Last(closed').id = x.id

-----------------------------------------------------------------------------
(* A pending variable by its place.                                        *)
LEMMA PendingIs ==
    ASSUME NEW s, NEW x
    PROVE  x \in PendingIn(s) <=> \E k \in 1..Len(s) : \E i \in 1..Len(s[k].tbc) : x = s[k].tbc[i]
  BY DEF PendingIn

LEMMA PendingWithin ==
    ASSUME NEW s, NEW t, Within(t, s)
    PROVE  PendingIn(t) \subseteq PendingIn(s)
  <1> SUFFICES ASSUME NEW x \in PendingIn(t)
               PROVE  x \in PendingIn(s)
    OBVIOUS
  <1>1. PICK k \in 1..Len(t) : \E i \in 1..Len(t[k].tbc) : x = t[k].tbc[i]
    BY PendingIs
  <1>2. PICK i \in 1..Len(t[k].tbc) : x = t[k].tbc[i]
    BY <1>1
  <1>3. k \in 1..Len(s) /\ i \in 1..Len(s[k].tbc) /\ x = s[k].tbc[i]
    BY <1>2 DEF Within
  <1> QED
    BY <1>3, PendingIs

(* What is removed from a stack leaves the rest in order.                  *)
LEMMA OrderWithin ==
    ASSUME NEW s, NEW t, NEW n, Within(t, s), Ordered(s), UpTo(s, n)
    PROVE  Ordered(t) /\ UpTo(t, n)
  BY DEF Within, Ordered, UpTo

(* A variable is a thing.                                                  *)
LEMMA FrameParts ==
    ASSUME NEW f \in Frames
    PROVE  /\ f.tbc \in Seq(Things) /\ Len(f.tbc) \in Nat
           /\ \A i \in 1..Len(f.tbc) : f.tbc[i] \in Things /\ f.tbc[i].id \in Nat
           /\ f.exit \in Exits /\ f.seen \in BOOLEAN /\ f.ends \in BOOLEAN /\ f.kind \in Kinds
           /\ f.ok \in BOOLEAN /\ f.result \in Values
  <1>1. f.tbc \in Seq(Things) /\ f.exit \in Exits /\ f.seen \in BOOLEAN /\ f.ends \in BOOLEAN
        /\ f.kind \in Kinds /\ f.ok \in BOOLEAN /\ f.result \in Values
    BY DEF Frames
  <1>2. \A i \in 1..Len(f.tbc) : f.tbc[i] \in Things
    BY <1>1, ElementOfSeq
  <1>3. \A z \in Things : z.id \in Nat
    BY DEF Things
  <1> QED
    BY <1>1, <1>2, <1>3, LenProperties

LEMMA PendingTyped ==
    ASSUME NEW s \in Seq(Frames), NEW x \in PendingIn(s)
    PROVE  x \in Things /\ x.id \in Nat
  <1>1. PICK k \in 1..Len(s) : \E i \in 1..Len(s[k].tbc) : x = s[k].tbc[i]
    BY PendingIs
  <1>2. PICK i \in 1..Len(s[k].tbc) : x = s[k].tbc[i]
    BY <1>1
  <1>3. s[k] \in Frames
    BY ElementOfSeq
  <1> QED
    BY <1>2, <1>3, FrameParts

(* A frame that is entered has nothing to close.                           *)
LEMMA FrameTyped ==
    ASSUME NEW kind \in Kinds, NEW ends \in BOOLEAN, NEW seen \in BOOLEAN,
           NEW f, f = Frame(kind, ends, seen)
    PROVE  f \in Frames /\ f.tbc = <<>> /\ f.at = "stmts"
  <1>1. <<>> \in Seq(Things) /\ Nil \in Values /\ Running \in Exits
    BY RunningIsExit
  <1> QED
    BY <1>1 DEF Frame, Frames

(* Entering a frame leaves what waits as it is ...                         *)
LEMMA Pushed ==
    ASSUME NEW s \in Seq(Frames), NEW f \in Frames, f.tbc = <<>>, f.at = "stmts",
           NEW t, t = Append(s, f)
    PROVE  /\ t \in Seq(Frames) /\ Within(t, s) /\ Within(s, t)
           /\ CleanupReady(s) => CleanupReady(t)
  <1>1. /\ t \in Seq(Frames) /\ Len(t) = Len(s) + 1 /\ Len(s) \in Nat
        /\ \A k \in 1..Len(s) : t[k] = s[k]
        /\ t[Len(s) + 1] = f
    BY AppendProperties, LenProperties
  <1>2. Len(f.tbc) = 0
    OBVIOUS
  <1>3. \A k \in 1..Len(t) : k \in 1..Len(s) \/ k = Len(s) + 1
    BY <1>1
  <1>4. Within(s, t)
    BY <1>1 DEF Within
  <1>5. Within(t, s)
    <2>1. ASSUME NEW k \in 1..Len(t), NEW i \in 1..Len(t[k].tbc)
          PROVE  k \in 1..Len(s) /\ i \in 1..Len(s[k].tbc) /\ t[k].tbc[i] = s[k].tbc[i]
      <3>1. CASE k = Len(s) + 1
        BY <1>1, <1>2, <3>1
      <3>2. CASE k \in 1..Len(s)
        BY <1>1, <3>2
      <3> QED
        BY <1>3, <3>1, <3>2
    <2> QED
      BY <2>1 DEF Within
  <1>6. CleanupReady(s) => CleanupReady(t)
    BY <1>1, <1>3 DEF CleanupReady
  <1> QED
    BY <1>1, <1>4, <1>5, <1>6

(* ... and so does leaving one with nothing to close.                      *)
LEMMA Popped ==
    ASSUME NEW s \in Seq(Frames), s # <<>>, s[Len(s)].tbc = <<>>, NEW t \in Seq(Frames),
           Len(t) = Len(s) - 1,
           \A k \in 1..Len(t) : t[k].tbc = s[k].tbc /\ (t[k].at = "cleanup" => s[k].at = "cleanup")
    PROVE  /\ Within(t, s) /\ Within(s, t)
           /\ CleanupReady(s) => CleanupReady(t)
  <1>1. Len(s) \in Nat /\ Len(s) # 0
    BY EmptySeq, LenProperties
  <1>2. Within(t, s)
    BY <1>1 DEF Within
  <1>3. Within(s, t)
    <2>1. ASSUME NEW k \in 1..Len(s), NEW i \in 1..Len(s[k].tbc)
          PROVE  k \in 1..Len(t) /\ i \in 1..Len(t[k].tbc) /\ s[k].tbc[i] = t[k].tbc[i]
      <3>1. k # Len(s)
        <4>1. Len(s[Len(s)].tbc) = 0
          OBVIOUS
        <4> QED
          BY <4>1
      <3> QED
        BY <1>1, <3>1
    <2> QED
      BY <2>1 DEF Within
  <1>4. CleanupReady(s) => CleanupReady(t)
    BY <1>1 DEF CleanupReady
  <1> QED
    BY <1>2, <1>3, <1>4

(* A declaration adds a variable younger than all that wait.               *)
LEMMA Declared ==
    ASSUME NEW s \in Seq(Frames), s # <<>>, NEW n \in Nat, Ordered(s), UpTo(s, n),
           NEW x \in Things, x.id = n + 1, NEW t \in Seq(Frames), Len(t) = Len(s),
           \A k \in 1..Len(s) : k # Len(s) => t[k] = s[k],
           t[Len(s)].tbc = Append(s[Len(s)].tbc, x)
    PROVE  /\ Ordered(t) /\ UpTo(t, n + 1)
           /\ PendingIn(s) \subseteq PendingIn(t)
           /\ \A y \in PendingIn(t) : y = x \/ y \in PendingIn(s)
  <1>1. Len(s) \in Nat /\ Len(s) \in 1..Len(s)
    BY EmptySeq, LenProperties
  <1>2. PICK u \in Seq(Things) : u = s[Len(s)].tbc
    BY <1>1, ElementOfSeq, FrameParts
  <1>3. PICK v \in Seq(Things) : v = t[Len(s)].tbc
    BY <1>1, ElementOfSeq, FrameParts
  <1>4. /\ Len(u) \in Nat /\ Len(v) = Len(u) + 1 /\ v[Len(u) + 1] = x
        /\ \A i \in 1..Len(u) : v[i] = u[i]
    BY <1>2, <1>3, AppendProperties, LenProperties
  <1>5. \A i \in 1..Len(v) : i \in 1..Len(u) \/ i = Len(u) + 1
    BY <1>4
  <1>6. \A k \in 1..Len(t) : \A i \in 1..Len(t[k].tbc) :
          \/ i \in 1..Len(s[k].tbc) /\ t[k].tbc[i] = s[k].tbc[i]
          \/ k = Len(s) /\ i = Len(u) + 1 /\ t[k].tbc[i] = x
    <2> TAKE k \in 1..Len(t)
    <2> TAKE i \in 1..Len(t[k].tbc)
    <2>1. CASE k = Len(s)
      BY <1>2, <1>3, <1>4, <1>5, <2>1
    <2>2. CASE k # Len(s)
      BY <2>2
    <2> QED
      BY <2>1, <2>2
  <1>7. \A k \in 1..Len(s) : Len(s[k].tbc) \in Nat /\ \A i \in 1..Len(s[k].tbc) : s[k].tbc[i].id \in Nat
    BY ElementOfSeq, FrameParts
  <1>8. \A k \in 1..Len(s) : \A i \in 1..Len(s[k].tbc) : s[k].tbc[i].id < x.id
    BY <1>7 DEF UpTo
  <1>9. Ordered(t)
    <2> SUFFICES ASSUME NEW k \in 1..Len(t), NEW l \in 1..Len(t),
                        NEW i \in 1..Len(t[k].tbc), NEW j \in 1..Len(t[l].tbc),
                        k < l \/ (k = l /\ i < j)
                 PROVE  t[k].tbc[i].id < t[l].tbc[j].id
      BY DEF Ordered
    <2>1. i \in 1..Len(s[k].tbc) /\ t[k].tbc[i] = s[k].tbc[i]
      <3>1. CASE k = Len(s) /\ i = Len(u) + 1
        <4>1. l = k /\ i < j
          BY <1>1, <3>1
        <4>2. j \in 1..Len(v)
          BY <1>3, <3>1, <4>1
        <4> QED
          BY <1>4, <3>1, <4>1, <4>2
      <3> QED
        BY <1>6, <3>1
    <2>2. CASE j \in 1..Len(s[l].tbc) /\ t[l].tbc[j] = s[l].tbc[j]
      BY <2>1, <2>2 DEF Ordered
    <2>3. CASE t[l].tbc[j] = x
      BY <1>8, <2>1, <2>3
    <2> QED
      BY <1>6, <2>2, <2>3
  <1>10. UpTo(t, n + 1)
    <2> SUFFICES ASSUME NEW k \in 1..Len(t), NEW i \in 1..Len(t[k].tbc)
                 PROVE  t[k].tbc[i].id <= n + 1
      BY DEF UpTo
    <2>1. CASE i \in 1..Len(s[k].tbc) /\ t[k].tbc[i] = s[k].tbc[i]
      BY <1>7, <2>1 DEF UpTo
    <2>2. CASE t[k].tbc[i] = x
      BY <2>2
    <2> QED
      BY <1>6, <2>1, <2>2
  <1>11. ASSUME NEW y \in PendingIn(s)
         PROVE  y \in PendingIn(t)
    <2>1. PICK k \in 1..Len(s) : \E i \in 1..Len(s[k].tbc) : y = s[k].tbc[i]
      BY PendingIs
    <2>2. PICK i \in 1..Len(s[k].tbc) : y = s[k].tbc[i]
      BY <2>1
    <2>3. i \in 1..Len(t[k].tbc) /\ y = t[k].tbc[i]
      <3>1. CASE k = Len(s)
        BY <1>2, <1>3, <1>4, <2>2, <3>1
      <3>2. CASE k # Len(s)
        BY <2>2, <3>2
      <3> QED
        BY <3>1, <3>2
    <2> QED
      BY <2>3, PendingIs
  <1>12. ASSUME NEW y \in PendingIn(t)
         PROVE  y = x \/ y \in PendingIn(s)
    <2>1. PICK k \in 1..Len(t) : \E i \in 1..Len(t[k].tbc) : y = t[k].tbc[i]
      BY PendingIs
    <2>2. PICK i \in 1..Len(t[k].tbc) : y = t[k].tbc[i]
      BY <2>1
    <2>3. y = x \/ (i \in 1..Len(s[k].tbc) /\ y = s[k].tbc[i])
      BY <1>6, <2>2
    <2> QED
      BY <2>3, PendingIs
  <1> QED
    BY <1>9, <1>10, <1>11, <1>12

(* A cleanup takes the youngest of all that wait, and only that one.       *)
LEMMA Removed ==
    ASSUME NEW s \in Seq(Frames), s # <<>>, s[Len(s)].tbc # <<>>, Ordered(s),
           NEW t \in Seq(Frames), Len(t) = Len(s),
           \A k \in 1..Len(s) : k # Len(s) => t[k] = s[k],
           t[Len(s)].tbc = Front(s[Len(s)].tbc), NEW x, x = Last(s[Len(s)].tbc)
    PROVE  /\ x \in Things /\ x \in PendingIn(s)
           /\ Within(t, s)
           /\ \A y \in PendingIn(t) : y.id < x.id
           /\ \A y \in PendingIn(s) : y.id <= x.id /\ (y = x \/ y \in PendingIn(t))
  <1>1. Len(s) \in Nat /\ Len(s) \in 1..Len(s)
    BY EmptySeq, LenProperties
  <1>2. PICK u \in Seq(Things) : u = s[Len(s)].tbc /\ u # <<>>
    BY <1>1, ElementOfSeq, FrameParts
  <1>3. PICK v : v = t[Len(s)].tbc
    OBVIOUS
  <1>4. /\ Len(u) \in Nat /\ Len(u) \in 1..Len(u) /\ Len(v) = Len(u) - 1
        /\ \A i \in 1..(Len(u) - 1) : v[i] = u[i]
    <2>1. v = SubSeq(u, 1, Len(u) - 1)
      BY <1>2, <1>3 DEF Front
    <2>2. Len(u) \in Nat /\ Len(u) \in 1..Len(u)
      BY <1>2, EmptySeq, LenProperties
    <2> QED
      BY <1>2, <2>1, <2>2, FrontIs
  <1>5. x = u[Len(u)] /\ x \in Things /\ x.id \in Nat
    <2>1. x = u[Len(u)]
      BY <1>2 DEF Last
    <2>2. x \in Things
      BY <1>4, <2>1, ElementOfSeq
    <2> QED
      BY <2>1, <2>2 DEF Things
  <1>6. \A k \in 1..Len(s) : \A i \in 1..Len(s[k].tbc) :
          \/ k = Len(s) /\ i = Len(u)
          \/ i \in 1..Len(t[k].tbc) /\ t[k].tbc[i] = s[k].tbc[i]
    <2> TAKE k \in 1..Len(s)
    <2> TAKE i \in 1..Len(s[k].tbc)
    <2>1. CASE k = Len(s)
      BY <1>2, <1>3, <1>4, <2>1
    <2>2. CASE k # Len(s)
      BY <2>2
    <2> QED
      BY <2>1, <2>2
  <1>7. \A k \in 1..Len(s) : \A i \in 1..Len(s[k].tbc) :
          (k = Len(s) /\ i = Len(u)) \/ s[k].tbc[i].id < x.id
    <2> TAKE k \in 1..Len(s)
    <2> TAKE i \in 1..Len(s[k].tbc)
    <2>1. CASE k = Len(s) /\ i # Len(u)
      <3>1. Len(u) \in 1..Len(s[Len(s)].tbc) /\ i < Len(u)
        BY <1>2, <1>4, <2>1
      <3> QED
        BY <1>1, <1>2, <1>5, <2>1, <3>1 DEF Ordered
    <2>2. CASE k # Len(s)
      <3>1. Len(u) \in 1..Len(s[Len(s)].tbc) /\ k < Len(s)
        BY <1>1, <1>2, <1>4, <2>2
      <3> QED
        BY <1>1, <1>2, <1>5, <3>1 DEF Ordered
    <2> QED
      BY <2>1, <2>2
  <1>8. \A k \in 1..Len(t) : \A i \in 1..Len(t[k].tbc) :
          /\ i \in 1..Len(s[k].tbc) /\ t[k].tbc[i] = s[k].tbc[i]
          /\ ~(k = Len(s) /\ i = Len(u))
    <2> TAKE k \in 1..Len(t)
    <2> TAKE i \in 1..Len(t[k].tbc)
    <2>1. CASE k = Len(s)
      <3>1. i \in 1..(Len(u) - 1)
        BY <1>3, <1>4, <2>1
      <3> QED
        BY <1>2, <1>3, <1>4, <2>1, <3>1
    <2>2. CASE k # Len(s)
      BY <2>2
    <2> QED
      BY <2>1, <2>2
  <1>9. Within(t, s)
    BY <1>8 DEF Within
  <1>10. ASSUME NEW y \in PendingIn(t)
         PROVE  y.id < x.id
    <2>1. PICK k \in 1..Len(t) : \E i \in 1..Len(t[k].tbc) : y = t[k].tbc[i]
      BY PendingIs
    <2>2. PICK i \in 1..Len(t[k].tbc) : y = t[k].tbc[i]
      BY <2>1
    <2> QED
      BY <1>7, <1>8, <2>2
  <1>11. ASSUME NEW y \in PendingIn(s)
         PROVE  y = x \/ y \in PendingIn(t)
    <2>1. PICK k \in 1..Len(s) : \E i \in 1..Len(s[k].tbc) : y = s[k].tbc[i]
      BY PendingIs
    <2>2. PICK i \in 1..Len(s[k].tbc) : y = s[k].tbc[i]
      BY <2>1
    <2>3. CASE k = Len(s) /\ i = Len(u)
      BY <1>2, <1>5, <2>2, <2>3
    <2>4. CASE i \in 1..Len(t[k].tbc) /\ t[k].tbc[i] = s[k].tbc[i]
      BY <2>2, <2>4, PendingIs
    <2> QED
      BY <1>6, <2>3, <2>4
  <1>12. ASSUME NEW y \in PendingIn(s)
         PROVE  y.id <= x.id
    <2>1. CASE y = x
      BY <1>5, <2>1
    <2>2. CASE y \in PendingIn(t)
      <3>1. y.id \in Nat /\ y.id < x.id
        BY <1>10, <2>2, PendingTyped
      <3> QED
        BY <1>5, <3>1
    <2> QED
      BY <1>11, <2>1, <2>2
  <1>13. x \in PendingIn(s)
    BY <1>1, <1>2, <1>4, <1>5, PendingIs
  <1> QED
    BY <1>5, <1>9, <1>10, <1>11, <1>12, <1>13

-----------------------------------------------------------------------------
(* The innermost frame, and a stack with another one in its place.         *)
LEMMA TopTyped ==
    ASSUME OInv, frames # <<>>
    PROVE  /\ frames \in Seq(Frames) /\ Len(frames) \in Nat /\ Len(frames) \in 1..Len(frames)
           /\ Top \in Frames /\ Top = frames[Len(frames)]
           /\ closed \in Seq(Entries) /\ opened \in Nat /\ result \in Exits /\ loads \in BOOLEAN
  <1>1. /\ frames \in Seq(Frames) /\ closed \in Seq(Entries) /\ opened \in Nat
        /\ result \in Exits /\ loads \in BOOLEAN
    BY DEF OInv, TypeOK, Entries
  <1>2. Len(frames) \in Nat /\ Len(frames) \in 1..Len(frames)
    BY <1>1, EmptySeq, LenProperties
  <1> QED
    BY <1>1, <1>2, ElementOfSeq DEF Top

LEMMA SetTopIs ==
    ASSUME OInv, frames # <<>>, NEW f \in Frames, NEW t, t = SetTop(f)
    PROVE  /\ t \in Seq(Frames) /\ Len(t) = Len(frames)
           /\ \A k \in 1..Len(frames) : t[k] = IF k = Len(frames) THEN f ELSE frames[k]
  <1>1. frames \in Seq(Frames) /\ Len(frames) \in 1..Len(frames)
    BY TopTyped
  <1> QED
    BY <1>1, ExceptSeq DEF SetTop

(* A step after which the same variables wait.                             *)
LEMMA Quiet ==
    ASSUME OInv, frames' \in Seq(Frames), CleanupReady(frames'),
           Within(frames', frames), Within(frames, frames'),
           UNCHANGED <<closed, opened>>, result' \in Exits, loads' \in BOOLEAN
    PROVE  OInv' /\ Newest
  <1>1. Pending = PendingIn(frames) /\ Pending' = PendingIn(frames')
    BY DEF Pending, PendingIn
  <1>2. Pending' = Pending
    <2>1. PICK s, t : s = frames /\ t = frames'
      OBVIOUS
    <2>2. PendingIn(t) \subseteq PendingIn(s) /\ PendingIn(s) \subseteq PendingIn(t)
      BY <2>1, PendingWithin
    <2> QED
      BY <1>1, <2>1, <2>2
  <1>3. Newest
    BY <1>2 DEF Newest
  <1>4. Ordered(frames') /\ UpTo(frames', opened)
    BY OrderWithin DEF OInv
  <1>5. TypeOK'
    BY DEF OInv, TypeOK
  <1>6. ClosedOnce'
    <2>1. ClosedOnce
      BY DEF OInv
    <2> QED
      BY <1>2, <2>1 DEF ClosedOnce
  <1>7. \A i \in 1..Len(closed') : closed'[i].id <= opened'
    BY DEF OInv
  <1> QED
    BY <1>3, <1>4, <1>5, <1>6, <1>7 DEF OInv

(* The innermost frame goes on to something else.                          *)
LEMMA QuietTop ==
    ASSUME OInv, frames # <<>>, NEW f \in Frames, f.tbc = Top.tbc,
           f.at = "cleanup" => f.tbc # <<>>, frames' = SetTop(f)
    PROVE  /\ frames' \in Seq(Frames) /\ CleanupReady(frames')
           /\ Within(frames', frames) /\ Within(frames, frames')
  <1>1. PICK t : t = frames'
    OBVIOUS
  <1>2. /\ t \in Seq(Frames) /\ Len(t) = Len(frames)
        /\ \A k \in 1..Len(frames) : t[k] = IF k = Len(frames) THEN f ELSE frames[k]
    BY <1>1, SetTopIs
  <1>3. \A k \in 1..Len(frames) : t[k].tbc = frames[k].tbc
    BY <1>2, TopTyped
  <1>4. Within(t, frames) /\ Within(frames, t)
    BY <1>2, <1>3 DEF Within
  <1>5. CleanupReady(frames)
    BY DEF OInv
  <1>6. CleanupReady(t)
    BY <1>2, <1>5 DEF CleanupReady
  <1> QED
    BY <1>1, <1>2, <1>4, <1>6

-----------------------------------------------------------------------------
LEMMA OrderEnter ==
    ASSUME OInv, NEW kind \in Kinds, NEW ends \in BOOLEAN, Enter(kind, ends)
    PROVE  OInv' /\ Newest
  <1>1. frames # <<>> /\ UNCHANGED <<closed, opened, result, loads>>
    BY DEF Enter, IsRunning
  <1>2. PICK seen \in BOOLEAN : frames' = Append(frames, Frame(kind, ends, seen))
    <2>1. Top.seen \in BOOLEAN
      BY <1>1, TopTyped, FrameParts
    <2>2. Visited(kind) \subseteq BOOLEAN
      BY <2>1 DEF Visited
    <2> QED
      BY <2>2 DEF Enter
  <1>3. PICK f \in Frames : f.tbc = <<>> /\ f.at = "stmts" /\ frames' = Append(frames, f)
    BY <1>2, FrameTyped
  <1>4. PICK t : t = frames'
    OBVIOUS
  <1>5. /\ t \in Seq(Frames) /\ Len(t) = Len(frames) + 1 /\ Len(frames) \in Nat
        /\ \A k \in 1..Len(frames) : t[k] = frames[k]
        /\ t[Len(frames) + 1] = f
    BY <1>1, <1>3, <1>4, TopTyped, AppendProperties
  <1>6. Within(t, frames) /\ Within(frames, t) /\ CleanupReady(t)
    BY <1>1, <1>3, <1>4, TopTyped, Pushed DEF OInv
  <1> QED
    BY <1>1, <1>4, <1>5, <1>6, TopTyped, Quiet

LEMMA OrderLeaving ==
    ASSUME OInv, NEW e \in Exits, LeaveWith(e)
    PROVE  OInv' /\ Newest
  <1>1. frames # <<>> /\ Top.at = "stmts" /\ UNCHANGED <<closed, opened, result, loads>>
    BY DEF LeaveWith, IsRunning
  <1>2. PICK g \in Frames : g = Top /\ g.at = "stmts"
    BY <1>1, TopTyped
  <1>3. PICK f : f = [g EXCEPT !.exit = e]
    OBVIOUS
  <1>4. f \in Frames /\ f.tbc = g.tbc /\ f.at = "stmts"
    BY <1>2, <1>3 DEF Frames
  <1>5. frames' = SetTop(f)
    BY <1>2, <1>3 DEF LeaveWith
  <1>6. /\ frames' \in Seq(Frames) /\ CleanupReady(frames')
        /\ Within(frames', frames) /\ Within(frames, frames')
    BY <1>1, <1>2, <1>4, <1>5, QuietTop
  <1> QED
    BY <1>1, <1>6, TopTyped, Quiet

LEMMA OrderPcall ==
    ASSUME OInv, PcallReturns
    PROVE  OInv' /\ Newest
  <1>1. frames # <<>> /\ Top.tbc # <<>> /\ UNCHANGED <<closed, opened, result, loads>>
    BY DEF PcallReturns, IsLeaving
  <1>2. PICK g \in Frames : g = Top /\ g.tbc # <<>>
    BY <1>1, TopTyped
  <1>3. PICK f : f = [g EXCEPT !.at     = "cleanup",
                               !.ok     = (g.exit.how # "error"),
                               !.result = First(g.exit.vals),
                               !.exit   = Running]
    OBVIOUS
  <1>4. f \in Frames /\ f.tbc = g.tbc
    <2>1. g.exit.vals \in Seq(Values)
      BY FrameParts DEF Exits
    <2>2. First(g.exit.vals) \in Values
      <3>1. CASE g.exit.vals = <<>>
        BY <3>1 DEF First
      <3>2. CASE g.exit.vals # <<>>
        <4>1. 1 \in 1..Len(g.exit.vals)
          BY <2>1, <3>2, EmptySeq, LenProperties
        <4> QED
          BY <2>1, <3>2, <4>1, ElementOfSeq DEF First
      <3> QED
        BY <3>1, <3>2
    <2>3. (g.exit.how # "error") \in BOOLEAN /\ Running \in Exits
      BY RunningIsExit
    <2>4. PICK b \in BOOLEAN, r \in Values :
            f = [g EXCEPT !.at = "cleanup", !.ok = b, !.result = r, !.exit = Running]
      BY <1>3, <2>2, <2>3
    <2> QED
      BY <2>3, <2>4 DEF Frames
  <1>5. frames' = SetTop(f)
    BY <1>2, <1>3 DEF PcallReturns
  <1>6. /\ frames' \in Seq(Frames) /\ CleanupReady(frames')
        /\ Within(frames', frames) /\ Within(frames, frames')
    BY <1>1, <1>2, <1>4, <1>5, QuietTop
  <1> QED
    BY <1>1, <1>6, TopTyped, Quiet

LEMMA OrderReraise ==
    ASSUME OInv, Reraise
    PROVE  OInv' /\ Newest
  <1>1. frames # <<>> /\ UNCHANGED <<closed, opened, result, loads>>
    BY DEF Reraise
  <1>2. PICK g \in Frames : g = Top
    BY <1>1, TopTyped
  <1>3. PICK f : f = [g EXCEPT !.at = "stmts", !.exit = Resumed(g)]
    OBVIOUS
  <1>4. f \in Frames /\ f.tbc = g.tbc /\ f.at = "stmts"
    <2>1. PICK e \in Exits : e = Resumed(g)
      BY ResumedIs
    <2> QED
      BY <1>3, <2>1 DEF Frames
  <1>5. frames' = SetTop(f)
    BY <1>2, <1>3 DEF Reraise
  <1>6. /\ frames' \in Seq(Frames) /\ CleanupReady(frames')
        /\ Within(frames', frames) /\ Within(frames, frames')
    BY <1>1, <1>2, <1>4, <1>5, QuietTop
  <1> QED
    BY <1>1, <1>6, TopTyped, Quiet

LEMMA OrderDeclare ==
    ASSUME OInv, NEW kind \in Closables \cup Others, Declare(kind)
    PROVE  OInv' /\ Newest
  <1>1. /\ frames # <<>> /\ Top.at = "stmts" /\ opened' = opened + 1
        /\ UNCHANGED <<closed, result, loads>>
    BY DEF Declare, IsRunning
  <1>2. /\ frames \in Seq(Frames) /\ Len(frames) \in 1..Len(frames) /\ Top \in Frames
        /\ Top = frames[Len(frames)] /\ closed \in Seq(Entries) /\ opened \in Nat
    BY <1>1, TopTyped
  <1>3. CleanupReady(frames) /\ Ordered(frames) /\ UpTo(frames, opened) /\ ClosedOnce
        /\ \A i \in 1..Len(closed) : closed[i].id <= opened
    BY DEF OInv
  <1>4. \A i \in 1..Len(closed) : closed[i].id \in Nat
    <2>1. \A i \in 1..Len(closed) : closed[i] \in Entries
      BY <1>2, ElementOfSeq
    <2> QED
      BY <2>1 DEF Entries
  <1>5. Pending = PendingIn(frames) /\ Pending' = PendingIn(frames')
    BY DEF Pending, PendingIn
  <1>6. PICK x \in Things : x = [id |-> opened + 1, kind |-> kind] /\ x.id = opened + 1
    <2>1. [id |-> opened + 1, kind |-> kind] \in Things
      BY <1>2 DEF Things
    <2> QED
      BY <2>1
  <1>7. PICK t : t = frames'
    OBVIOUS
  <1>8. /\ t \in Seq(Frames) /\ CleanupReady(t) /\ Ordered(t) /\ UpTo(t, opened + 1)
        /\ PendingIn(frames) \subseteq PendingIn(t)
        /\ \A y \in PendingIn(t) : y = x \/ y \in PendingIn(frames)
    <2>1. CASE Top.seen
      <3>1. PICK g \in Frames : g = Top /\ g.at = "stmts" /\ g = frames[Len(frames)]
        BY <1>1, <1>2
      <3>2. PICK f : f = [g EXCEPT !.tbc = Append(@, x)]
        OBVIOUS
      <3>3. g.tbc \in Seq(Things) /\ Append(g.tbc, x) \in Seq(Things)
        BY FrameParts, AppendProperties
      <3>4. f \in Frames /\ f.tbc = Append(g.tbc, x) /\ f.at = "stmts"
        BY <3>1, <3>2, <3>3 DEF Frames
      <3>5. t = SetTop(f)
        BY <1>6, <1>7, <2>1, <3>1, <3>2 DEF Declare
      <3>6. /\ t \in Seq(Frames) /\ Len(t) = Len(frames)
            /\ \A k \in 1..Len(frames) : t[k] = IF k = Len(frames) THEN f ELSE frames[k]
        BY <1>1, <3>4, <3>5, SetTopIs
      <3>7. CleanupReady(t)
        BY <1>2, <1>3, <3>4, <3>6 DEF CleanupReady
      <3>8. t[Len(frames)] = f
        BY <1>2, <3>6
      <3>9. t[Len(frames)].tbc = Append(frames[Len(frames)].tbc, x)
        BY <3>1, <3>4, <3>8
      <3>10. \A k \in 1..Len(frames) : k # Len(frames) => t[k] = frames[k]
        BY <3>6
      <3>11. /\ Ordered(t) /\ UpTo(t, opened + 1)
             /\ PendingIn(frames) \subseteq PendingIn(t)
             /\ \A y \in PendingIn(t) : y = x \/ y \in PendingIn(frames)
        <4>1. PICK s \in Seq(Frames), n \in Nat : s = frames /\ n = opened
          BY <1>2
        <4>2. s # <<>> /\ Ordered(s) /\ UpTo(s, n) /\ x.id = n + 1
          BY <1>1, <1>3, <1>6, <4>1
        <4>3. t \in Seq(Frames) /\ Len(t) = Len(s) /\ t[Len(s)].tbc = Append(s[Len(s)].tbc, x)
              /\ \A k \in 1..Len(s) : k # Len(s) => t[k] = s[k]
          BY <3>6, <3>9, <3>10, <4>1
        <4>4. /\ Ordered(t) /\ UpTo(t, n + 1)
              /\ PendingIn(s) \subseteq PendingIn(t)
              /\ \A y \in PendingIn(t) : y = x \/ y \in PendingIn(s)
          BY <4>2, <4>3, Declared
        <4> QED
          BY <4>1, <4>4
      <3> QED
        BY <3>6, <3>7, <3>11
    <2>2. CASE ~Top.seen
      <3>1. t = frames
        BY <1>7, <2>2 DEF Declare
      <3>2. UpTo(frames, opened + 1)
        <4>1. \A k \in 1..Len(frames) : \A i \in 1..Len(frames[k].tbc) : frames[k].tbc[i].id \in Nat
          BY <1>2, ElementOfSeq, FrameParts
        <4> QED
          BY <1>2, <1>3, <4>1 DEF UpTo
      <3> QED
        BY <1>2, <1>3, <3>1, <3>2
    <2> QED
      BY <2>1, <2>2
  <1>9. Newest
    BY <1>5, <1>7, <1>8 DEF Newest
  <1>10. ClosedOnce'
    <2>1. \A y \in Pending', i \in 1..Len(closed) : closed[i].id # y.id
      <3> SUFFICES ASSUME NEW y \in PendingIn(t), NEW i \in 1..Len(closed)
                   PROVE  closed[i].id # y.id
        BY <1>5, <1>7
      <3>1. CASE y = x
        BY <1>2, <1>3, <1>4, <1>6, <3>1
      <3>2. CASE y \in PendingIn(frames)
        BY <1>3, <1>5, <3>2 DEF ClosedOnce
      <3> QED
        BY <1>8, <3>1, <3>2
    <2>2. \A i, j \in 1..Len(closed) : closed[i].id = closed[j].id => i = j
      BY <1>3 DEF ClosedOnce
    <2> QED
      BY <1>1, <2>1, <2>2 DEF ClosedOnce
  <1>11. \A i \in 1..Len(closed') : closed'[i].id <= opened'
    BY <1>1, <1>2, <1>3, <1>4
  <1>12. TypeOK'
    BY <1>1, <1>2, <1>7, <1>8 DEF OInv, TypeOK
  <1> QED
    BY <1>1, <1>7, <1>8, <1>9, <1>10, <1>11, <1>12 DEF OInv

LEMMA OrderCleanup ==
    ASSUME OInv, NEW ends \in BOOLEAN, Cleanup(ends)
    PROVE  OInv' /\ Newest
  <1>1. /\ frames # <<>> /\ Top.at = "cleanup" /\ UNCHANGED <<opened, result, loads>>
    BY DEF Cleanup, AtCleanup, CleanupOf
  <1>2. /\ frames \in Seq(Frames) /\ Len(frames) \in 1..Len(frames) /\ Top \in Frames
        /\ Top = frames[Len(frames)] /\ closed \in Seq(Entries) /\ opened \in Nat
        /\ result \in Exits /\ loads \in BOOLEAN
    BY <1>1, TopTyped
  <1>3. CleanupReady(frames) /\ Ordered(frames) /\ UpTo(frames, opened) /\ ClosedOnce
        /\ \A i \in 1..Len(closed) : closed[i].id <= opened
    BY DEF OInv
  <1>4. Pending = PendingIn(frames) /\ Pending' = PendingIn(frames')
    BY DEF Pending, PendingIn
  <1>5. PICK g \in Frames : g = Top /\ g = frames[Len(frames)] /\ g.tbc # <<>>
    BY <1>1, <1>2, <1>3 DEF CleanupReady
  <1>6. g.tbc \in Seq(Things)
    BY FrameParts
  <1>7. PICK rest \in Seq(Things) : rest = Front(g.tbc)
    BY <1>5, <1>6, FrontIs DEF Front
  <1>8. PICK f : f = [g EXCEPT !.at = "reraise", !.tbc = rest]
    OBVIOUS
  <1>9. f \in Frames /\ f.tbc = rest /\ f.at = "reraise"
    BY <1>8 DEF Frames
  <1>10. PICK t : t = SetTop(f)
    OBVIOUS
  <1>11. /\ t \in Seq(Frames) /\ Len(t) = Len(frames)
         /\ \A k \in 1..Len(frames) : t[k] = IF k = Len(frames) THEN f ELSE frames[k]
    BY <1>1, <1>9, <1>10, SetTopIs
  <1>12. CleanupReady(t)
    BY <1>2, <1>3, <1>9, <1>11 DEF CleanupReady
  <1>13. PICK x : x = Last(g.tbc)
    OBVIOUS
  <1>14. /\ x \in Things /\ x \in PendingIn(frames)
         /\ Within(t, frames)
         /\ \A y \in PendingIn(t) : y.id < x.id
         /\ \A y \in PendingIn(frames) : y.id <= x.id /\ (y = x \/ y \in PendingIn(t))
    <2>1. frames[Len(frames)].tbc # <<>> /\ x = Last(frames[Len(frames)].tbc)
      BY <1>5, <1>13
    <2>2. t[Len(frames)].tbc = Front(frames[Len(frames)].tbc)
      BY <1>2, <1>5, <1>7, <1>9, <1>11
    <2>3. \A k \in 1..Len(frames) : k # Len(frames) => t[k] = frames[k]
      BY <1>11
    <2> QED
      BY <1>1, <1>2, <1>3, <1>11, <2>1, <2>2, <2>3, Removed
  <1>15. PICK s : s = frames'
    OBVIOUS
  <1>16. \/ Closes(x.kind) /\ closed' = Append(closed, [id |-> x.id, kind |-> x.kind, told |-> Told(Top)])
              /\ \E seen \in Visited("closer") : s = Append(t, Frame("closer", ends, seen))
         \/ ~Closes(x.kind) /\ closed' = closed /\ s = t
    BY <1>5, <1>7, <1>8, <1>10, <1>13, <1>15 DEF Cleanup, CleanupOf
  <1>17. s \in Seq(Frames) /\ CleanupReady(s) /\ Within(s, t) /\ Within(t, s)
    <2>1. CASE s = t
      BY <1>11, <1>12, <2>1 DEF Within
    <2>2. CASE \E seen \in Visited("closer") : s = Append(t, Frame("closer", ends, seen))
      <3>1. Top.seen \in BOOLEAN
        BY <1>2, FrameParts
      <3>2. Visited("closer") \subseteq BOOLEAN
        BY <3>1 DEF Visited
      <3>3. PICK seen \in BOOLEAN : s = Append(t, Frame("closer", ends, seen))
        BY <2>2, <3>2
      <3>4. "closer" \in Kinds
        BY DEF Kinds, Called
      <3>5. PICK h \in Frames : h.tbc = <<>> /\ h.at = "stmts" /\ s = Append(t, h)
        BY <3>3, <3>4, FrameTyped
      <3> QED
        BY <1>11, <1>12, <3>5, Pushed
    <2> QED
      BY <1>16, <2>1, <2>2
  <1>18. PendingIn(s) = PendingIn(t)
    <2>1. PendingIn(s) \subseteq PendingIn(t)
      BY <1>17, PendingWithin
    <2>2. PendingIn(t) \subseteq PendingIn(s)
      BY <1>17, PendingWithin
    <2> QED
      BY <2>1, <2>2
  <1>19. Ordered(s) /\ UpTo(s, opened)
    <2>1. Ordered(t) /\ UpTo(t, opened)
      BY <1>3, <1>14, OrderWithin
    <2> QED
      BY <1>17, <2>1, OrderWithin
  <1>20. x.id \in Nat /\ x.id <= opened
    <2>1. PICK k \in 1..Len(frames) : \E i \in 1..Len(frames[k].tbc) : x = frames[k].tbc[i]
      BY <1>14, PendingIs
    <2> QED
      BY <1>3, <1>14, <2>1 DEF UpTo, Things
  <1>21. PICK e \in Entries : e = [id |-> x.id, kind |-> x.kind, told |-> Told(Top)]
                               /\ e.id = x.id
    <2>1. x.kind \in Closables \cup Others
      BY <1>14 DEF Things
    <2>2. [id |-> x.id, kind |-> x.kind, told |-> Told(Top)] \in Entries
      BY <1>20, <2>1 DEF Entries, Told
    <2> QED
      BY <2>2
  <1>22. PICK c : c = closed'
    OBVIOUS
  <1>23. c \in Seq(Entries) /\ Len(closed) \in Nat
         /\ \/ c = closed /\ ~Closes(x.kind)
            \/ /\ Len(c) = Len(closed) + 1 /\ c[Len(closed) + 1] = e
               /\ \A i \in 1..Len(closed) : c[i] = closed[i]
    <2>1. Len(closed) \in Nat
      BY <1>2, LenProperties
    <2>2. CASE c = closed /\ ~Closes(x.kind)
      BY <1>2, <2>1, <2>2
    <2>3. CASE c = Append(closed, e)
      <3>1. /\ Append(closed, e) \in Seq(Entries)
            /\ Len(Append(closed, e)) = Len(closed) + 1
            /\ \A i \in 1..Len(closed) : Append(closed, e)[i] = closed[i]
            /\ Append(closed, e)[Len(closed) + 1] = e
        BY <1>2, AppendProperties
      <3> QED
        BY <2>1, <2>3, <3>1
    <2>4. (c = closed /\ ~Closes(x.kind)) \/ c = Append(closed, e)
      BY <1>16, <1>21, <1>22
    <2> QED
      BY <2>2, <2>3, <2>4
  <1>24. \A i \in 1..Len(c) : (i \in 1..Len(closed) /\ c[i] = closed[i])
                             \/ (i = Len(closed) + 1 /\ c[i].id = x.id)
    BY <1>21, <1>23
  <1>25. Newest
    <2> SUFFICES ASSUME NEW y \in PendingIn(frames), y \notin PendingIn(s)
                 PROVE  /\ \A z \in PendingIn(frames) : z.id <= y.id
                        /\ y.kind = "meta" => Len(c) = Len(closed) + 1 /\ Last(c).id = y.id
      BY <1>4, <1>15, <1>22 DEF Newest
    <2>1. y = x
      BY <1>14, <1>18
    <2>2. ASSUME y.kind = "meta"
          PROVE  Len(c) = Len(closed) + 1 /\ Last(c).id = y.id
      <3>1. Closes(x.kind)
        BY <2>1, <2>2 DEF Closes
      <3> QED
        BY <1>21, <1>23, <2>1, <3>1 DEF Last
    <2> QED
      BY <1>14, <2>1, <2>2
  <1>26. \A i \in 1..Len(c) : c[i].id <= opened
    BY <1>3, <1>20, <1>24
  <1>27. \A i, j \in 1..Len(c) : c[i].id = c[j].id => i = j
    <2>1. \A i \in 1..Len(closed) : closed[i].id # x.id
      BY <1>3, <1>4, <1>14 DEF ClosedOnce
    <2>2. \A i, j \in 1..Len(closed) : closed[i].id = closed[j].id => i = j
      BY <1>3 DEF ClosedOnce
    <2> QED
      BY <1>24, <2>1, <2>2
  <1>28. \A y \in PendingIn(s), i \in 1..Len(c) : c[i].id # y.id
    <2> SUFFICES ASSUME NEW y \in PendingIn(s), NEW i \in 1..Len(c)
                 PROVE  c[i].id # y.id
      OBVIOUS
    <2>1. y \in PendingIn(frames) /\ y \in PendingIn(t)
      BY <1>14, <1>18, PendingWithin
    <2>2. y.id \in Nat /\ y.id < x.id
      BY <1>2, <1>14, <2>1, PendingTyped
    <2>3. CASE i \in 1..Len(closed) /\ c[i] = closed[i]
      BY <1>3, <1>4, <2>1, <2>3 DEF ClosedOnce
    <2>4. CASE c[i].id = x.id
      BY <1>20, <2>2, <2>4
    <2> QED
      BY <1>24, <2>3, <2>4
  <1>29. ClosedOnce'
    BY <1>4, <1>15, <1>22, <1>27, <1>28 DEF ClosedOnce
  <1>30. TypeOK'
    BY <1>1, <1>2, <1>15, <1>17, <1>22, <1>23 DEF TypeOK, Entries
  <1> QED
    BY <1>1, <1>15, <1>17, <1>19, <1>22, <1>25, <1>26, <1>29, <1>30 DEF OInv

LEMMA OrderDone ==
    ASSUME OInv, Done
    PROVE  OInv' /\ Newest
  <1>1. frames # <<>> /\ Top.tbc = <<>> /\ UNCHANGED <<closed, opened, loads>>
        /\ result' = IF Top.kind \in Called THEN Top.exit ELSE result
    BY DEF Done, IsLeaving
  <1>2. /\ frames \in Seq(Frames) /\ Top \in Frames /\ Top = frames[Len(frames)]
        /\ result \in Exits /\ loads \in BOOLEAN
    BY <1>1, TopTyped
  <1>3. PICK g \in Frames : g = Top /\ g.exit \in Exits
    BY <1>2, FrameParts
  <1>4. result' \in Exits
    BY <1>1, <1>2, <1>3
  <1>5. PICK u : u = Outer
    OBVIOUS
  <1>6. u \in Seq(Frames) /\ Len(u) = Len(frames) - 1 /\ Len(u) \in Nat
        /\ \A k \in 1..Len(u) : u[k] = frames[k]
    BY <1>1, <1>2, <1>5, FrontIs DEF Outer
  <1>7. PICK t : t = frames'
    OBVIOUS
  <1>8. t = u \/ (u # <<>> /\ t = [u EXCEPT ![Len(u)] = [@ EXCEPT !.exit = g.exit, !.at = "stmts"]])
    BY <1>3, <1>5, <1>7 DEF Done
  <1>9. /\ t \in Seq(Frames) /\ Len(t) = Len(u)
        /\ \A k \in 1..Len(u) : t[k].tbc = u[k].tbc /\ (t[k].at = "cleanup" => u[k].at = "cleanup")
    <2>1. CASE t = u
      BY <1>6, <2>1
    <2>2. CASE u # <<>> /\ t = [u EXCEPT ![Len(u)] = [@ EXCEPT !.exit = g.exit, !.at = "stmts"]]
      <3>1. Len(u) \in 1..Len(u)
        BY <1>6, <2>2, EmptySeq, LenProperties
      <3>2. PICK h \in Frames : h = u[Len(u)]
        BY <1>6, <3>1, ElementOfSeq
      <3>3. PICK f : f = [h EXCEPT !.exit = g.exit, !.at = "stmts"]
        OBVIOUS
      <3>4. f \in Frames /\ f.tbc = h.tbc /\ f.at = "stmts"
        BY <1>3, <3>3 DEF Frames
      <3>5. t = [u EXCEPT ![Len(u)] = f]
        BY <2>2, <3>2, <3>3
      <3>6. /\ t \in Seq(Frames) /\ Len(t) = Len(u)
            /\ \A k \in 1..Len(u) : t[k] = IF k = Len(u) THEN f ELSE u[k]
        BY <1>6, <3>1, <3>4, <3>5, ExceptSeq
      <3> QED
        BY <3>2, <3>4, <3>6
    <2> QED
      BY <1>8, <2>1, <2>2
  <1>10. Within(t, frames) /\ Within(frames, t) /\ CleanupReady(t)
    <2>1. frames[Len(frames)].tbc = <<>> /\ CleanupReady(frames)
      BY <1>1, <1>2 DEF OInv
    <2>2. Len(t) = Len(frames) - 1
          /\ \A k \in 1..Len(t) : t[k].tbc = frames[k].tbc
                                  /\ (t[k].at = "cleanup" => frames[k].at = "cleanup")
      BY <1>6, <1>9
    <2> QED
      BY <1>1, <1>2, <1>9, <2>1, <2>2, Popped
  <1>11. frames' \in Seq(Frames) /\ CleanupReady(frames') /\ Within(frames', frames)
         /\ Within(frames, frames') /\ UNCHANGED <<closed, opened>> /\ loads' \in BOOLEAN
    BY <1>1, <1>2, <1>7, <1>9, <1>10
  <1> QED
    BY <1>4, <1>11, Quiet

-----------------------------------------------------------------------------
(* A program starts with one call and nothing declared.                    *)
LEMMA OrderInit == Init => OInv
  <1> SUFFICES ASSUME Init PROVE OInv
    OBVIOUS
  <1>1. PICK f \in Frames : frames = <<f>> /\ f.tbc = <<>> /\ f.at = "stmts"
    <2>1. PICK ends \in BOOLEAN : frames = <<Frame("protected", ends, TRUE)>>
      BY DEF Init
    <2>2. "protected" \in Kinds /\ TRUE \in BOOLEAN
      BY DEF Kinds, Called
    <2> QED
      BY <2>1, <2>2, FrameTyped
  <1>2. closed = <<>> /\ opened = 0 /\ result = Running /\ loads = TRUE
    BY DEF Init
  <1>3. /\ frames \in Seq(Frames) /\ Len(frames) = 1 /\ frames[1] = f /\ Len(f.tbc) = 0
        /\ Len(closed) = 0 /\ closed \in Seq(Entries) /\ \A k \in 1..Len(frames) : k = 1
    BY <1>1, <1>2
  <1>4. CleanupReady(frames) /\ Ordered(frames) /\ UpTo(frames, opened)
    BY <1>1, <1>3 DEF CleanupReady, Ordered, UpTo
  <1>5. TypeOK
    BY <1>2, <1>3, RunningIsExit DEF TypeOK, Entries
  <1>6. ClosedOnce
    BY <1>3 DEF ClosedOnce
  <1> QED
    BY <1>3, <1>4, <1>5, <1>6 DEF OInv

LEMMA OrderStutter ==
    ASSUME OInv, UNCHANGED <<frames, closed, opened, result>>, loads' \in BOOLEAN
    PROVE  OInv' /\ Newest
  <1>1. TypeOK'
    BY DEF OInv, TypeOK
  <1>2. ClosedOnce' /\ Pending' = Pending
    BY DEF OInv, ClosedOnce, Pending
  <1>3. OInv'
    BY <1>1, <1>2 DEF OInv
  <1> QED
    BY <1>2, <1>3 DEF Newest

(* Every step keeps what waits in order and closes from its end.           *)
LEMMA OrderNext == OInv /\ [Next]_vars => OInv' /\ Newest
  <1> SUFFICES ASSUME OInv, [Next]_vars PROVE OInv' /\ Newest
    OBVIOUS
  <1>1. ASSUME NEW kind \in Kinds \ {"closer"}, NEW ends \in BOOLEAN, Enter(kind, ends)
        PROVE  OInv' /\ Newest
    BY <1>1, OrderEnter
  <1>2. ASSUME NEW kind \in Closables \cup Others, Declare(kind)
        PROVE  OInv' /\ Newest
    BY <1>2, OrderDeclare
  <1>3. ASSUME NEW how \in {"end", "break", "return", "error"}, NEW vals \in Seq(Values),
               LeaveWith(Exit(how, vals))
        PROVE  OInv' /\ Newest
    <2>1. Exit(how, vals) \in Exits
      BY ExitTyped
    <2> QED
      BY <1>3, <2>1, OrderLeaving
  <1>4. CASE End \/ Break
    <2>1. LeaveWith(Exit("end", <<>>)) \/ LeaveWith(Exit("break", <<>>))
      BY <1>4 DEF End, Break
    <2>2. <<>> \in Seq(Values)
      OBVIOUS
    <2> QED
      BY <1>3, <2>1, <2>2
  <1>5. ASSUME NEW e \in Values, Raise(e)
        PROVE  OInv' /\ Newest
    <2>1. <<e>> \in Seq(Values)
      OBVIOUS
    <2> QED
      BY <1>3, <1>5, <2>1 DEF Raise
  <1>6. ASSUME NEW vals \in Returns, Return(vals)
        PROVE  OInv' /\ Newest
    <2>1. vals \in Seq(Values)
      OBVIOUS
    <2> QED
      BY <1>3, <1>6, <2>1 DEF Return
  <1>7. CASE BreakOut \/ VarargTail \/ GotoAcross
    BY <1>7, OrderStutter DEF BreakOut, VarargTail, GotoAcross, Unloadable
  <1>8. CASE PcallReturns
    BY <1>8, OrderPcall
  <1>9. ASSUME NEW ends \in BOOLEAN, Cleanup(ends)
        PROVE  OInv' /\ Newest
    BY <1>9, OrderCleanup
  <1>10. CASE Reraise
    BY <1>10, OrderReraise
  <1>11. CASE Done
    BY <1>11, OrderDone
  <1>12. CASE UNCHANGED vars
    <2>1. UNCHANGED <<frames, closed, opened, result>> /\ loads' \in BOOLEAN
      BY <1>12 DEF vars, OInv, TypeOK
    <2> QED
      BY <2>1, OrderStutter
  <1> QED
    BY <1>1, <1>2, <1>4, <1>5, <1>6, <1>7, <1>8, <1>9, <1>10, <1>11, <1>12 DEF Next

-----------------------------------------------------------------------------
(* What waits to be closed is always in order of declaration, whatever the *)
(* program is and leaves its blocks with.                                  *)
THEOREM AlwaysInOrder == Spec => []OInv
  BY OrderInit, OrderNext, PTL DEF Spec

(* The variables of every state reached are of their types, whatever the   *)
(* program does (CloseExec.TypeOK).                                        *)
THEOREM CloseTypes == Spec => []TypeOK
  <1>1. OInv => TypeOK
    BY DEF OInv
  <1> QED
    BY <1>1, AlwaysInOrder, PTL

(* No closing function is called twice for a variable, and none is called  *)
(* for a variable that still waits, also when another closing function has *)
(* failed and in programs with the constructs that the transform treats    *)
(* otherwise than Lua (process_close_at).                                  *)
THEOREM ClosedAtMostOnce == Spec => []ClosedOnce
  <1>1. OInv => ClosedOnce
    BY DEF OInv
  <1> QED
    BY <1>1, AlwaysInOrder, PTL

(* A variable is closed only when none declared after it still waits,      *)
(* across blocks, calls and closing functions with variables of their own, *)
(* for any program (process_close_at: "This ordering invariant must hold   *)
(* or resource cleanup will execute in the wrong sequence").               *)
THEOREM NewestAlwaysFirst == Spec => NewestFirst
  <1>1. OInv /\ [Next]_vars => [Newest]_vars
    BY OrderNext
  <1>2. NewestFirst <=> [][Newest]_vars
    BY PTL DEF NewestFirst, Newest
  <1> QED
    BY <1>1, <1>2, AlwaysInOrder, PTL DEF Spec
=============================================================================
