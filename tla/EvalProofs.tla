----------------------------- MODULE EvalProofs -----------------------------
(***************************************************************************)
(* Theorems about the "eval" session of Sessions.tla: the lists that       *)
(* eval.c keeps in the frames of its C functions are those of the frames   *)
(* that are there, and no unwind-protect loses its forms, whatever         *)
(* catches, handlers, jumps and jumps out of the forms of other jumps      *)
(* there are, to any depth.  Both rest on the invariant EvalInv.           *)
(***************************************************************************)
EXTENDS Sessions, Induction, TLAPS

-----------------------------------------------------------------------------
(***************************************************************************)
(* Evaluation.  The frames and the lists have their types, and the first   *)
(* two frames are always those of the command loop.                        *)
(***************************************************************************)
Kinds == {"eval", "args", "catch", "condition-case", "handling",
          "unwind-protect", "let", "unbind_to"}
Catching == {"catch", "condition-case"}
Binding == {"unwind-protect", "let", "handling"}
ListsType ==
  [catch : Int, handler : Int, backtrace : Int, gcpro : Int, depth : Int]
FrameType ==
  [k : Kinds, tag : Tags \cup Conditions \cup {"top-level", "any", "none"},
   was : ListsType, pdlcount : Nat, forms : {"kept", "begun", "refused"},
   jump : Nat]

StackType ==
  /\ stack \in Seq(FrameType) /\ specpdl \in Seq(Nat) /\ lists \in ListsType
  /\ Len(stack) >= 2
  /\ stack[1] = Eval!Base[1] /\ stack[2] = Eval!Base[2]

\* What the lists were when frame n was made, or are if it is the next one.
Was(n) == IF n = Len(stack) + 1 THEN lists ELSE stack[n].was

\* What frame n, called by a frame of the kind by, makes of the lists.
Caller(n) == IF n = 1 THEN "none" ELSE stack[n - 1].k
Enters(k, by, n, was, now) ==
  /\ now.catch = IF k \in Catching THEN n ELSE was.catch
  /\ now.handler = IF k = "condition-case" THEN n ELSE was.handler
  /\ now.backtrace = IF k = "eval" THEN n ELSE was.backtrace
  /\ now.gcpro = IF k = "args" \/ (k = "unbind_to" /\ by = "unwind-protect")
                 THEN n ELSE was.gcpro
  /\ now.depth = IF k = "eval" THEN was.depth + 1 ELSE was.depth

(***************************************************************************)
(* Each frame has been made by the one before it.  The lists in it are of  *)
(* older frames, and they are what that one made of its own, unless a jump *)
(* begins in it.                                                           *)
(***************************************************************************)
Shape ==
  \A n \in 1 .. Len(stack) :
    /\ stack[n].jump # 0 => stack[n].k = "unbind_to"
    /\ stack[n].k = "unbind_to" /\ stack[n].jump = 0 =>
         /\ n > 1 /\ stack[n - 1].k \in Binding
         /\ stack[n - 1].pdlcount = stack[n].pdlcount
Older ==
  \A n \in 1 .. Len(stack) :
    stack[n].was.catch \in 0 .. n - 1 /\ stack[n].was.handler \in 0 .. n - 1
Linked ==
  \A n \in 1 .. Len(stack) :
    stack[n].jump = 0 =>
      Enters(stack[n].k, Caller(n), n, stack[n].was, Was(n + 1))

(***************************************************************************)
(* The frames that are live are those that no jump under way has left.     *)
(* The lists consist of live frames, which a jump goes to.  Only from the  *)
(* handler of the command loop to its catch does a jump leave frame 2.     *)
(***************************************************************************)
LastOf(x, L, kinds, n) ==
  /\ x = 0 \/ (x \in L /\ x < n /\ stack[x].k \in kinds)
  /\ \A d \in L : d < n /\ stack[d].k \in kinds => d <= x
Leaving == stack[Len(stack)].jump # 0 /\ lists.catch = 1 /\ specpdl = <<>>
InLists(L, n) ==
  /\ LastOf(Was(n).catch, L, Catching, n)
  /\ LastOf(Was(n).handler, L, {"condition-case"}, n)
Counts(L) ==
  /\ \A n \in L :
       /\ stack[n].pdlcount <= Len(specpdl)
       /\ \A j \in 1 .. stack[n].pdlcount : specpdl[j] < n
  /\ \A n, m \in L : n <= m => stack[n].pdlcount <= stack[m].pdlcount
JumpsTo(L, n) ==
  LET c == Was(n + 1).catch
  IN /\ stack[n].jump \in L /\ stack[n].jump < n
     /\ stack[stack[n].jump].k \in Catching
     /\ c \in L /\ c < n /\ stack[n].pdlcount = stack[c].pdlcount
     /\ \A d \in L : d < n => d <= c
Live(L) ==
  /\ L \subseteq 1 .. Len(stack) /\ {1, Len(stack)} \subseteq L
  /\ 2 \in L \/ Leaving
  /\ \A n \in L : n > 1 /\ stack[n].jump = 0 => n - 1 \in L
  /\ \A n \in L : stack[n].jump = 0 => InLists(L, n)
  /\ InLists(L, Len(stack) + 1)
  /\ Counts(L)
  /\ \A n \in L : stack[n].jump # 0 => JumpsTo(L, n)

\* specpdl has an entry for each frame that is to unbind, in their order.
BoundInOrder ==
  \A i \in 1 .. Len(specpdl) :
    /\ specpdl[i] \in 1 .. Len(stack) /\ stack[specpdl[i]].k \in Binding
    /\ stack[specpdl[i]].pdlcount = i - 1
    /\ \A j \in 1 .. i - 1 : specpdl[j] < specpdl[i]
Kept ==
  \A n \in 1 .. Len(stack) :
    stack[n].k = "unwind-protect" /\ stack[n].forms = "kept" =>
      /\ stack[n].pdlcount < Len(specpdl)
      /\ specpdl[stack[n].pdlcount + 1] = n
EvalInv ==
  /\ StackType /\ Shape /\ Older /\ Linked
  /\ \E L \in SUBSET Nat : Live(L)
  /\ BoundInOrder /\ Kept

\* The frames of the command loop, and the lists within them.
LEMMA EvalBase ==
  /\ Len(Eval!Base) = 2
  /\ Eval!Base[1].k = "catch" /\ Eval!Base[1].tag = "top-level"
  /\ Eval!Base[2].k = "condition-case" /\ Eval!Base[2].tag = "any"
  /\ \A n \in 1 .. 2 : /\ Eval!Base[n].jump = 0 /\ Eval!Base[n].pdlcount = 0
                       /\ Eval!Base[n].forms = "kept"
  /\ Eval!Base[1].was = Eval!Empty
  /\ Eval!Base[2].was = [Eval!Empty EXCEPT !.catch = 1]
  /\ Eval!Base \in Seq(FrameType)
<1> DEFINE f == [k |-> "catch", tag |-> "top-level", was |-> Eval!Empty,
                 pdlcount |-> 0, forms |-> "kept", jump |-> 0]
           g == [f EXCEPT !.k = "condition-case", !.tag = "any",
                          !.was = [Eval!Empty EXCEPT !.catch = 1]]
<1>1. Eval!Base = <<f, g>>
  BY DEF Eval!Base
<1>2. Eval!Empty \in ListsType /\ [Eval!Empty EXCEPT !.catch = 1] \in ListsType
  BY DEF Eval!Empty, ListsType
<1>3. f \in FrameType /\ g \in FrameType
  BY <1>2 DEF FrameType, Kinds
<1>4. /\ f.k = "catch" /\ f.tag = "top-level" /\ f.jump = 0 /\ f.pdlcount = 0
      /\ f.forms = "kept" /\ f.was = Eval!Empty
      /\ g.k = "condition-case" /\ g.tag = "any" /\ g.jump = 0 /\ g.pdlcount = 0
      /\ g.forms = "kept" /\ g.was = [Eval!Empty EXCEPT !.catch = 1]
  OBVIOUS
<1> HIDE DEF f, g
<1>5. Eval!Base \in Seq(FrameType) /\ Len(Eval!Base) = 2
      /\ Eval!Base[1] = f /\ Eval!Base[2] = g
  BY <1>1, <1>3
<1> QED BY <1>4, <1>5

\* The first state.
LEMMA EvalStart ==
  ASSUME Eval!EvalInit
  PROVE  EvalInv
<1>1. /\ stack = Eval!Base /\ specpdl = <<>> /\ Len(specpdl) = 0
      /\ lists = [catch |-> 2, handler |-> 2, backtrace |-> 0, gcpro |-> 0, depth |-> 0]
  BY DEF Eval!EvalInit, Eval!BaseLists, Eval!Empty
<1>2. Eval!Empty = [catch |-> 0, handler |-> 0, backtrace |-> 0, gcpro |-> 0,
                    depth |-> 0]
  BY DEF Eval!Empty
<1>3. StackType
  <2>1. lists \in ListsType
    BY <1>1 DEF ListsType
  <2> QED BY <1>1, <2>1, EvalBase DEF StackType
<1>4. Shape
  BY <1>1, EvalBase DEF Shape
<1>10. Older
  BY <1>1, <1>2, EvalBase DEF Older
<1>5. Was(1) = Eval!Empty /\ Was(2) = [Eval!Empty EXCEPT !.catch = 1] /\ Was(3) = lists
  BY <1>1, EvalBase DEF Was
<1>6. Linked
  <2> SUFFICES ASSUME NEW n \in 1 .. 2
               PROVE  Enters(stack[n].k, Caller(n), n, stack[n].was, Was(n + 1))
    BY <1>1, EvalBase DEF Linked
  <2>1. CASE n = 1
    BY <2>1, <1>1, <1>2, <1>5, EvalBase DEF Enters, Catching
  <2>2. CASE n = 2
    BY <2>2, <1>1, <1>2, <1>5, EvalBase DEF Enters, Catching
  <2> QED BY <2>1, <2>2
<1>7. Live({1, 2})
  <2>1. ASSUME NEW n \in {1, 2, 3}
        PROVE  InLists({1, 2}, n)
    <3>1. CASE n = 1
      BY <3>1, <1>2, <1>5 DEF LastOf, InLists
    <3>2. CASE n = 2
      BY <3>2, <1>1, <1>2, <1>5, EvalBase DEF LastOf, InLists, Catching
    <3>3. CASE n = 3
      BY <3>3, <1>1, <1>5, EvalBase DEF LastOf, InLists, Catching
    <3> QED BY <3>1, <3>2, <3>3
  <2>2. Counts({1, 2})
    BY <1>1, EvalBase DEF Counts
  <2> QED BY <2>1, <2>2, <1>1, EvalBase DEF Live
<1>8. BoundInOrder /\ Kept
  BY <1>1, EvalBase DEF BoundInOrder, Kept
<1>9. {1, 2} \in SUBSET Nat
  OBVIOUS
<1> QED BY <1>3, <1>4, <1>6, <1>7, <1>8, <1>9, <1>10 DEF EvalInv

-----------------------------------------------------------------------------
(***************************************************************************)
(* Steps of evaluation.  The first m frames stay as they are, but for how  *)
(* the forms of an unwind-protect fare.                                    *)
(***************************************************************************)
TypedStep ==
  /\ stack' \in Seq(FrameType) /\ specpdl' \in Seq(Nat) /\ lists' \in ListsType
  /\ Len(stack') >= 2 /\ stack'[1] = stack[1] /\ stack'[2] = stack[2]
SameFrames(m) ==
  /\ m <= Len(stack) /\ m <= Len(stack')
  /\ \A n \in 1 .. m :
       /\ stack'[n].k = stack[n].k /\ stack'[n].was = stack[n].was
       /\ stack'[n].pdlcount = stack[n].pdlcount /\ stack'[n].jump = stack[n].jump
       /\ stack'[n].forms = "kept" => stack[n].forms = "kept"

\* A frame is pushed: one that is called, or one that a jump begins in.
NewFrame == stack'[Len(stack) + 1]
Grows ==
  /\ TypedStep /\ Len(stack') = Len(stack) + 1 /\ SameFrames(Len(stack))
  /\ ~Leaving /\ NewFrame.was = lists
  /\ NewFrame.pdlcount <= Len(specpdl) /\ NewFrame.pdlcount <= Len(specpdl')
  /\ \A j \in 1 .. NewFrame.pdlcount : specpdl'[j] = specpdl[j]
Calls ==
  /\ Grows /\ NewFrame.jump = 0
  /\ stack[Len(stack)].pdlcount <= NewFrame.pdlcount
  /\ NewFrame.k = "unbind_to" =>
       /\ stack[Len(stack)].k \in Binding
       /\ stack[Len(stack)].pdlcount = NewFrame.pdlcount
  /\ Enters(NewFrame.k, stack[Len(stack)].k, Len(stack) + 1, lists, lists')
Jumps ==
  /\ Grows /\ NewFrame.k = "unbind_to" /\ NewFrame.jump # 0
  /\ NewFrame.pdlcount = stack[lists.catch].pdlcount
  /\ \A L \in SUBSET Nat :
       Live(L) => NewFrame.jump \in L /\ stack[NewFrame.jump].k \in Catching
  /\ lists'.catch = lists.catch /\ lists'.handler = lists.handler

\* Frames are popped, until one that has been called.
Pops(m) ==
  /\ TypedStep /\ m \in 2 .. Len(stack) - 1
  /\ Len(stack') = m /\ SameFrames(m)
  /\ stack[m + 1].jump = 0 /\ lists' = stack[m + 1].was /\ specpdl' = specpdl
  /\ ~Leaving /\ \A L \in SUBSET Nat : Live(L) => m + 1 \in L

\* The types of things, one by one.
LEMMA Types ==
  ASSUME StackType
  PROVE  /\ Len(stack) \in Nat /\ Len(specpdl) \in Nat /\ lists \in ListsType
         /\ \A n \in 1 .. Len(stack) :
              /\ stack[n] \in FrameType /\ stack[n].pdlcount \in Nat
              /\ stack[n].k \in Kinds /\ stack[n].was \in ListsType
         /\ \A i \in 1 .. Len(specpdl) : specpdl[i] \in Nat
<1>1. stack \in Seq(FrameType) /\ specpdl \in Seq(Nat) /\ lists \in ListsType
  BY DEF StackType
<1>2. \A n \in 1 .. Len(stack) : stack[n] \in FrameType
  BY <1>1
<1>3. \A f \in FrameType : f.pdlcount \in Nat /\ f.k \in Kinds /\ f.was \in ListsType
  BY DEF FrameType
<1> QED BY <1>1, <1>2, <1>3

\* The types after a step.
LEMMA TypesNext ==
  ASSUME TypedStep
  PROVE  Len(stack') \in Nat /\ Len(specpdl') \in Nat
BY DEF TypedStep

\* The frames that stay are called as they were.
LEMMA StaysLinked ==
  ASSUME StackType, Shape, Linked, TypedStep, NEW m \in 1 .. Len(stack),
         SameFrames(m), m = Len(stack') \/ stack'[m + 1].was = Was(m + 1),
         m = Len(stack') => lists' = Was(m + 1),
         NEW n \in 1 .. m
  PROVE  /\ Was(n)' = Was(n) /\ Was(n + 1)' = Was(n + 1)
         /\ Caller(n)' = Caller(n)
         /\ stack'[n].jump # 0 => stack'[n].k = "unbind_to"
         /\ stack'[n].k = "unbind_to" /\ stack'[n].jump = 0 =>
              /\ n > 1 /\ stack'[n - 1].k \in Binding
              /\ stack'[n - 1].pdlcount = stack'[n].pdlcount
         /\ stack'[n].jump = 0 =>
              Enters(stack'[n].k, Caller(n)', n, stack'[n].was, Was(n + 1)')
<1>1. Len(stack) \in Nat /\ Len(stack') \in Nat /\ m <= Len(stack')
  BY DEF StackType, TypedStep, SameFrames
<1>2. Was(n)' = Was(n)
  BY <1>1 DEF Was, SameFrames
<1>3. Was(n + 1)' = Was(n + 1)
  <2>1. CASE n < m
    BY <2>1, <1>1 DEF Was, SameFrames
  <2>2. CASE n = m
    BY <2>2, <1>1 DEF Was
  <2> QED BY <2>1, <2>2
<1>4. Caller(n)' = Caller(n)
  BY <1>1 DEF Caller, SameFrames
<1>5. stack'[n].k = stack[n].k /\ stack'[n].was = stack[n].was
      /\ stack'[n].jump = stack[n].jump /\ stack'[n].pdlcount = stack[n].pdlcount
  BY DEF SameFrames
<1>6. n > 1 => stack'[n - 1].k = stack[n - 1].k
               /\ stack'[n - 1].pdlcount = stack[n - 1].pdlcount
  BY <1>1 DEF SameFrames
<1>7. stack'[n].jump # 0 => stack'[n].k = "unbind_to"
  BY <1>1, <1>5 DEF Shape
<1>8. stack'[n].k = "unbind_to" /\ stack'[n].jump = 0 =>
        /\ n > 1 /\ stack'[n - 1].k \in Binding
        /\ stack'[n - 1].pdlcount = stack'[n].pdlcount
  <2>1. stack[n].k = "unbind_to" /\ stack[n].jump = 0 =>
          /\ n > 1 /\ stack[n - 1].k \in Binding
          /\ stack[n - 1].pdlcount = stack[n].pdlcount
    BY <1>1 DEF Shape
  <2> QED BY <2>1, <1>5, <1>6
<1>9. stack'[n].jump = 0 =>
        Enters(stack'[n].k, Caller(n)', n, stack'[n].was, Was(n + 1)')
  <2>1. stack[n].jump = 0 =>
          Enters(stack[n].k, Caller(n), n, stack[n].was, Was(n + 1))
    BY DEF Linked
  <2> QED BY <2>1, <1>3, <1>4, <1>5
<1> QED BY <1>2, <1>3, <1>4, <1>7, <1>8, <1>9

\* A frame that is pushed is linked, unless a jump begins in it.
LEMMA GrowsLinked ==
  ASSUME StackType, Shape, Linked, Calls \/ Jumps
  PROVE  (Shape /\ Linked)'
<1>0. PICK m \in Nat : m = Len(stack)
  BY DEF StackType
<1>1. m \in Nat /\ m >= 2 /\ Len(stack') = m + 1 /\ SameFrames(m) /\ TypedStep
      /\ NewFrame.was = lists
  BY <1>0 DEF StackType, Calls, Jumps, Grows
<1>2. stack'[m + 1].was = Was(m + 1) /\ m # Len(stack')
  BY <1>0, <1>1 DEF Was, NewFrame
<1>3. Was(m + 2)' = lists' /\ Was(m + 1)' = lists
      /\ Caller(m + 1)' = stack[m].k /\ stack'[m].k = stack[m].k
      /\ stack'[m].pdlcount = stack[m].pdlcount
  <2>1. stack'[m].k = stack[m].k /\ stack'[m].pdlcount = stack[m].pdlcount
    BY <1>1 DEF SameFrames
  <2>2. Was(m + 2)' = lists' /\ Was(m + 1)' = lists
    BY <1>0, <1>1 DEF Was, NewFrame
  <2>3. Caller(m + 1)' = stack'[m].k
    BY <1>1 DEF Caller
  <2> QED BY <2>1, <2>2, <2>3
<1>4. \A n \in 1 .. m : n \in 1 .. Len(stack)
  BY <1>0
<1>5. ASSUME NEW n \in 1 .. m + 1
      PROVE  /\ stack'[n].jump # 0 => stack'[n].k = "unbind_to"
             /\ stack'[n].k = "unbind_to" /\ stack'[n].jump = 0 =>
                  /\ n > 1 /\ stack'[n - 1].k \in Binding
                  /\ stack'[n - 1].pdlcount = stack'[n].pdlcount
             /\ stack'[n].jump = 0 =>
                  Enters(stack'[n].k, Caller(n)', n, stack'[n].was, Was(n + 1)')
  <2>1. CASE n \in 1 .. m
    BY <2>1, <1>1, <1>2, StaysLinked, <1>0
  <2>2. CASE n = m + 1
    <3>1. CASE Calls
      <4>1. /\ stack'[n].jump = 0
            /\ stack'[n].k = "unbind_to" =>
                 stack[m].k \in Binding /\ stack[m].pdlcount = stack'[n].pdlcount
            /\ Enters(stack'[n].k, stack[m].k, n, lists, lists')
        BY <3>1, <2>2, <1>0 DEF Calls, NewFrame
      <4>2. stack'[n].was = lists /\ Was(n + 1)' = lists' /\ Caller(n)' = stack[m].k
            /\ n > 1 /\ n - 1 = m
        BY <2>2, <1>0, <1>1, <1>3 DEF NewFrame
      <4> QED BY <4>1, <4>2, <1>3
    <3>2. CASE Jumps
      BY <3>2, <2>2, <1>0, <1>1, <1>3 DEF Jumps, NewFrame
    <3> QED BY <3>1, <3>2
  <2> QED BY <2>1, <2>2, <1>1
<1> QED BY <1>1, <1>5 DEF Shape, Linked

\* So are those that stay when frames are popped.
LEMMA PopsLinked ==
  ASSUME StackType, Shape, Linked, NEW m \in Nat, Pops(m)
  PROVE  (Shape /\ Linked)'
<1>1. m \in 1 .. Len(stack) /\ Len(stack') = m /\ SameFrames(m) /\ TypedStep
      /\ lists' = Was(m + 1)
  BY DEF StackType, Pops, Was
<1>2. ASSUME NEW n \in 1 .. Len(stack')
      PROVE  /\ stack'[n].jump # 0 => stack'[n].k = "unbind_to"
             /\ stack'[n].k = "unbind_to" /\ stack'[n].jump = 0 =>
                  /\ n > 1 /\ stack'[n - 1].k \in Binding
                  /\ stack'[n - 1].pdlcount = stack'[n].pdlcount
             /\ stack'[n].jump = 0 =>
                  Enters(stack'[n].k, Caller(n)', n, stack'[n].was, Was(n + 1)')
  BY <1>1, StaysLinked
<1> QED BY <1>2 DEF Shape, Linked

\* The newest live frame of some kinds before n depends on those before n alone.
LEMMA LastStays ==
  ASSUME NEW L, NEW M, NEW h \in Nat, SameFrames(h),
         L \subseteq Nat \ {0}, M \subseteq Nat \ {0},
         NEW n \in 1 .. h + 1, \A d \in 1 .. n - 1 : d \in M <=> d \in L,
         NEW x, NEW kinds, LastOf(x, L, kinds, n)
  PROVE  LastOf(x, M, kinds, n)'
<1>1. \A d \in 1 .. n - 1 : d \in 1 .. h /\ stack'[d].k = stack[d].k
  BY DEF SameFrames
<1>2. x = 0 \/ (x \in M /\ x < n /\ stack'[x].k \in kinds)
  <2> SUFFICES ASSUME x # 0
               PROVE  x \in M /\ x < n /\ stack'[x].k \in kinds
    OBVIOUS
  <2>1. x \in L /\ x < n /\ stack[x].k \in kinds
    BY DEF LastOf
  <2>2. x \in 1 .. n - 1
    BY <2>1
  <2> QED BY <1>1, <2>1, <2>2
<1>3. ASSUME NEW d \in M, d < n, stack'[d].k \in kinds
      PROVE  d <= x
  <2>1. d \in 1 .. n - 1
    BY <1>3
  <2> QED BY <2>1, <1>1, <1>3 DEF LastOf
<1> QED BY <1>2, <1>3 DEF LastOf

\* So do all the lists.
LEMMA ListsStay ==
  ASSUME NEW L, NEW M, NEW h \in Nat, SameFrames(h),
         L \subseteq Nat \ {0}, M \subseteq Nat \ {0},
         NEW n \in 1 .. h + 1, \A d \in 1 .. n - 1 : d \in M <=> d \in L,
         Was(n)' = Was(n), InLists(L, n)
  PROVE  InLists(M, n)'
<1>1. LastOf(Was(n).catch, L, Catching, n)
      /\ LastOf(Was(n).handler, L, {"condition-case"}, n)
  BY DEF InLists
<1>2. PICK x, y : x = Was(n).catch /\ y = Was(n).handler
  OBVIOUS
<1>3. x = Was(n)'.catch /\ y = Was(n)'.handler
  BY <1>2
<1>4. LastOf(x, M, Catching, n)'
  BY <1>1, <1>2, LastStays
<1>5. LastOf(y, M, {"condition-case"}, n)'
  BY <1>1, <1>2, LastStays
<1> QED BY <1>3, <1>4, <1>5 DEF InLists, LastOf

\* So do the jumps that are under way.
LEMMA JumpStays ==
  ASSUME NEW L, NEW M, NEW h \in Nat, SameFrames(h),
         L \subseteq Nat \ {0}, M \subseteq Nat \ {0},
         NEW n \in 1 .. h, \A d \in 1 .. n - 1 : d \in M <=> d \in L,
         Was(n + 1)' = Was(n + 1), JumpsTo(L, n)
  PROVE  JumpsTo(M, n)'
<1> DEFINE c == Was(n + 1).catch
           t == stack[n].jump
<1>1. \A d \in 1 .. n : /\ stack'[d].k = stack[d].k /\ stack'[d].jump = stack[d].jump
                        /\ stack'[d].pdlcount = stack[d].pdlcount
  BY DEF SameFrames
<1>2. /\ t \in L /\ t < n /\ stack[t].k \in Catching
      /\ c \in L /\ c < n /\ stack[n].pdlcount = stack[c].pdlcount
      /\ \A d \in L : d < n => d <= c
  BY DEF JumpsTo
<1>3. t \in 1 .. n - 1 /\ c \in 1 .. n - 1
  <2> HIDE DEF t, c
  <2> QED BY <1>2
<1>4. PICK e : e = c
  OBVIOUS
<1>5. PICK u : u = t
  OBVIOUS
<1>6. Was(n + 1)'.catch = e /\ stack'[n].jump = u
  BY <1>1, <1>4, <1>5
<1>7. /\ u \in M /\ u < n /\ stack'[u].k \in Catching
      /\ e \in M /\ e < n /\ stack'[n].pdlcount = stack'[e].pdlcount
  BY <1>1, <1>2, <1>3, <1>4, <1>5
<1>8. \A d \in M : d < n => d <= e
  <2> TAKE d \in M
  <2> HAVE d < n
  <2>1. d \in 1 .. n - 1
    OBVIOUS
  <2> QED BY <2>1, <1>2, <1>4
<1> QED BY <1>6, <1>7, <1>8 DEF JumpsTo

\* The frame that is called is live, as those are that were.
LEMMA CallsLive ==
  ASSUME StackType, BoundInOrder, Calls, NEW L \in SUBSET Nat, Live(L)
  PROVE  \E M \in SUBSET Nat : Live(M)'
<1>0. PICK m \in Nat : m = Len(stack)
  BY DEF StackType
<1>1. /\ m \in Nat /\ m >= 2 /\ Len(stack') = m + 1 /\ SameFrames(m) /\ TypedStep
      /\ stack'[m + 1].was = lists /\ stack'[m + 1].jump = 0 /\ ~Leaving
      /\ Enters(stack'[m + 1].k, stack[m].k, m + 1, lists, lists')
  BY <1>0 DEF StackType, Calls, Grows, NewFrame
<1>2. PICK M \in SUBSET Nat : M = L \cup {m + 1}
  <2>1. m + 1 \in Nat /\ L \subseteq Nat
    BY <1>0
  <2>2. L \cup {m + 1} \in SUBSET Nat
    BY <2>1
  <2> QED BY <2>2
<1>3. L \subseteq 1 .. m /\ 1 \in L /\ m \in L /\ 2 \in L
      /\ \A n \in L : n > 1 /\ stack[n].jump = 0 => n - 1 \in L
  BY <1>0, <1>1 DEF Live
<1>4. \A d \in 1 .. m : d \in M <=> d \in L
  BY <1>2
<1>5. L \subseteq Nat \ {0} /\ M \subseteq Nat \ {0}
  BY <1>0, <1>2, <1>3
<1>6. \A n \in 1 .. m + 1 : Was(n)' = Was(n)
  BY <1>0, <1>1 DEF Was, SameFrames
<1>7. Was(m + 2)' = lists' /\ Was(m + 1) = lists
  BY <1>0, <1>1 DEF Was
<1>8. \A n \in 1 .. m : stack'[n].jump = stack[n].jump
                        /\ stack'[n].pdlcount = stack[n].pdlcount
  BY <1>1 DEF SameFrames
<1>9. ASSUME NEW n \in L \cup {m + 1}, n = m + 1 \/ stack[n].jump = 0
      PROVE  InLists(M, n)'
  <2>1. n \in 1 .. m + 1
    <3>1. n \in L \/ n = m + 1
      BY <1>9
    <3>2. L \subseteq 1 .. m /\ m \in Nat
      BY <1>1, <1>3
    <3> QED BY <3>1, <3>2
  <2>2. InLists(L, n)
    BY <1>0, <1>9 DEF Live
  <2>3. \A d \in 1 .. n - 1 : d \in M <=> d \in L
    BY <2>1, <1>1, <1>4
  <2> QED BY <2>1, <2>2, <2>3, <1>1, <1>5, <1>6, ListsStay
<1>15. InLists(M, m + 2)'
  <2>2. LastOf(lists.catch, L, Catching, m + 1)
        /\ LastOf(lists.handler, L, {"condition-case"}, m + 1)
    BY <1>0, <1>7 DEF Live, InLists
  <2>3. \A d \in 1 .. m : stack'[d].k = stack[d].k
    BY <1>1 DEF SameFrames
  <2>4. LastOf(lists.catch, M, Catching, m + 2)'
    <3>1. CASE stack'[m + 1].k \in Catching
      <4>1. lists'.catch = m + 1
        BY <3>1, <1>1 DEF Enters
      <4> QED BY <3>1, <4>1, <1>1, <1>2, <1>3 DEF LastOf
    <3>2. CASE stack'[m + 1].k \notin Catching
      <4>1. PICK x : x = lists'.catch /\ x = lists.catch
        BY <3>2, <1>1 DEF Enters
      <4>2. x = 0 \/ (x \in M /\ x < m + 2 /\ stack'[x].k \in Catching)
        <5>1. x = 0 \/ (x \in L /\ x < m + 1 /\ stack[x].k \in Catching)
          BY <4>1, <2>2 DEF LastOf
        <5>2. x \in L => x \in 1 .. m /\ x \in M
          BY <1>2, <1>3
        <5> QED BY <5>1, <5>2, <2>3, <1>1
      <4>3. ASSUME NEW d \in M, d < m + 2, stack'[d].k \in Catching
            PROVE  d <= x
        <5>1. d \in L /\ d \in 1 .. m
          BY <4>3, <3>2, <1>2, <1>3
        <5> QED BY <5>1, <4>1, <4>3, <2>2, <2>3, <1>1 DEF LastOf
      <4> QED BY <4>1, <4>2, <4>3 DEF LastOf
    <3> QED BY <3>1, <3>2
  <2>5. LastOf(lists.handler, M, {"condition-case"}, m + 2)'
    <3>1. CASE stack'[m + 1].k = "condition-case"
      <4>1. lists'.handler = m + 1
        BY <3>1, <1>1 DEF Enters
      <4> QED BY <3>1, <4>1, <1>1, <1>2, <1>3 DEF LastOf
    <3>2. CASE stack'[m + 1].k # "condition-case"
      <4>1. PICK x : x = lists'.handler /\ x = lists.handler
        BY <3>2, <1>1 DEF Enters
      <4>2. x = 0 \/ (x \in M /\ x < m + 2 /\ stack'[x].k \in {"condition-case"})
        <5>1. x = 0 \/ (x \in L /\ x < m + 1 /\ stack[x].k \in {"condition-case"})
          BY <4>1, <2>2 DEF LastOf
        <5>2. x \in L => x \in 1 .. m /\ x \in M
          BY <1>2, <1>3
        <5> QED BY <5>1, <5>2, <2>3, <1>1
      <4>3. ASSUME NEW d \in M, d < m + 2, stack'[d].k \in {"condition-case"}
            PROVE  d <= x
        <5>1. d \in L /\ d \in 1 .. m
          BY <4>3, <3>2, <1>2, <1>3
        <5> QED BY <5>1, <4>1, <4>3, <2>2, <2>3, <1>1 DEF LastOf
      <4> QED BY <4>1, <4>2, <4>3 DEF LastOf
    <3> QED BY <3>1, <3>2
  <2> QED BY <2>4, <2>5, <1>7 DEF InLists, LastOf
<1>10. Counts(M)'
  <2>1. /\ \A n \in L : stack[n].pdlcount <= Len(specpdl)
        /\ \A n \in L : \A j \in 1 .. stack[n].pdlcount : specpdl[j] < n
        /\ \A n, k \in L : n <= k => stack[n].pdlcount <= stack[k].pdlcount
    BY DEF Live, Counts
  <2>2. \A j \in 1 .. Len(specpdl) : specpdl[j] \in 1 .. m
    BY <1>0 DEF BoundInOrder
  <2>3. PICK q : q = stack'[m + 1].pdlcount
    OBVIOUS
  <2>4. /\ q <= Len(specpdl) /\ q <= Len(specpdl') /\ stack[m].pdlcount <= q
        /\ \A j \in 1 .. q : specpdl'[j] = specpdl[j]
    BY <1>0, <2>3 DEF Calls, Grows, NewFrame
  <2>5. q \in Nat /\ \A n \in L : stack[n].pdlcount \in Nat
    <3>1. stack'[m + 1] \in FrameType /\ \A n \in L : stack[n] \in FrameType
      BY <1>0, <1>1, <1>3 DEF StackType, TypedStep
    <3> QED BY <3>1, <2>3 DEF FrameType
  <2>9. \A n \in L : stack[n].pdlcount <= q
    <3>1. ASSUME NEW n \in L
          PROVE  stack[n].pdlcount <= q
      <4>1. n <= m /\ stack[n].pdlcount <= stack[m].pdlcount
        BY <1>3, <2>1
      <4> QED BY <4>1, <1>3, <2>4, <2>5
    <3> QED BY <3>1
  <2>6. Len(specpdl) \in Nat /\ Len(specpdl') \in Nat
    BY <1>1 DEF StackType, TypedStep
  <2>7. ASSUME NEW n \in M
        PROVE  /\ stack'[n].pdlcount <= Len(specpdl')
               /\ \A j \in 1 .. stack'[n].pdlcount : specpdl'[j] < n
    <3>1. CASE n \in L
      <4>1. stack'[n].pdlcount = stack[n].pdlcount /\ stack[n].pdlcount <= q
            /\ stack[n].pdlcount \in Nat
            /\ \A j \in 1 .. stack[n].pdlcount : specpdl[j] < n
        BY <3>1, <1>3, <1>8, <2>1, <2>5, <2>9
      <4>2. \A j \in 1 .. stack[n].pdlcount : specpdl'[j] = specpdl[j]
        BY <4>1, <2>4, <2>5
      <4> QED BY <4>1, <4>2, <2>4, <2>5, <2>6
    <3>2. CASE n = m + 1
      <4>1. stack'[n].pdlcount = q /\ q <= Len(specpdl')
        BY <3>2, <2>3, <2>4
      <4>2. \A j \in 1 .. q : specpdl'[j] = specpdl[j] /\ specpdl[j] \in 1 .. m
        <5>1. \A j \in 1 .. q : j \in 1 .. Len(specpdl)
          BY <2>4, <2>5, <2>6
        <5> QED BY <5>1, <2>2, <2>4
      <4> QED BY <3>2, <4>1, <4>2, <1>0
    <3> QED BY <3>1, <3>2, <1>2
  <2>8. ASSUME NEW n \in M, NEW k \in M, n <= k
        PROVE  stack'[n].pdlcount <= stack'[k].pdlcount
    <3>1. CASE n \in L /\ k \in L
      BY <3>1, <1>3, <1>8, <2>1, <2>8
    <3>2. CASE n \in L /\ k = m + 1
      BY <3>2, <1>3, <1>8, <2>3, <2>9
    <3>3. CASE n = m + 1
      BY <3>3, <1>0, <1>2, <1>3, <2>3, <2>4, <2>5, <2>8
    <3> QED BY <3>1, <3>2, <3>3, <1>2
  <2> QED BY <2>7, <2>8 DEF Counts
<1>11. ASSUME NEW n \in M, stack'[n].jump # 0
       PROVE  JumpsTo(M, n)'
  <2>1. n \in L /\ n \in 1 .. m /\ stack[n].jump # 0
    BY <1>1, <1>2, <1>3, <1>8, <1>11
  <2>2. JumpsTo(L, n)
    BY <2>1 DEF Live
  <2>3. \A d \in 1 .. n - 1 : d \in M <=> d \in L
    BY <2>1, <1>1, <1>4
  <2>4. Was(n + 1)' = Was(n + 1)
    BY <2>1, <1>1, <1>6
  <2> QED BY <2>1, <2>2, <2>3, <2>4, <1>1, <1>5, JumpStays
<1>12. ASSUME NEW n \in M, n > 1, stack'[n].jump = 0
       PROVE  n - 1 \in M
  <2>1. CASE n = m + 1
    <3>1. n - 1 = m
      BY <2>1, <1>1
    <3> QED BY <3>1, <1>2, <1>3
  <2>2. CASE n # m + 1
    <3>1. n \in L /\ n \in 1 .. m
      BY <2>2, <1>2, <1>3
    <3>2. stack[n].jump = 0
      BY <3>1, <1>8, <1>12
    <3> QED BY <3>1, <3>2, <1>2, <1>3, <1>12
  <2> QED BY <2>1, <2>2
<1>13. M \subseteq 1 .. Len(stack') /\ {1, Len(stack')} \subseteq M /\ 2 \in M
  BY <1>1, <1>2, <1>3
<1>14. \A n \in M : stack'[n].jump = 0 => InLists(M, n)'
  BY <1>2, <1>3, <1>8, <1>9
<1>16. InLists(M, Len(stack) + 1)'
  <2>1. Len(stack') + 1 = m + 2
    BY <1>1
  <2> QED BY <2>1, <1>15 DEF InLists, LastOf
<1>17. Live(M)'
  BY <1>10, <1>11, <1>12, <1>13, <1>14, <1>16 DEF Live
<1> QED BY <1>17

\* When a jump begins, what is not within the newest catch is live no more.
LEMMA JumpsLive ==
  ASSUME StackType, BoundInOrder, Jumps, NEW L \in SUBSET Nat, Live(L)
  PROVE  \E M \in SUBSET Nat : Live(M)'
<1>0. PICK m \in Nat : m = Len(stack)
  BY DEF StackType
<1>1. /\ m \in Nat /\ m >= 2 /\ Len(stack') = m + 1 /\ SameFrames(m) /\ TypedStep
      /\ stack'[m + 1].was = lists /\ ~Leaving
      /\ stack'[m + 1].k = "unbind_to" /\ stack'[m + 1].jump # 0
      /\ stack'[m + 1].jump \in L /\ stack[stack'[m + 1].jump].k \in Catching
      /\ stack'[m + 1].pdlcount = stack[lists.catch].pdlcount
  BY <1>0 DEF StackType, Jumps, Grows, NewFrame
<1>2. L \subseteq 1 .. m /\ 1 \in L /\ m \in L /\ 2 \in L
      /\ \A n \in L : n > 1 /\ stack[n].jump = 0 => n - 1 \in L
  BY <1>0, <1>1 DEF Live
<1>3. PICK c, h, t : c = lists.catch /\ h = lists.handler /\ t = stack'[m + 1].jump
  OBVIOUS
<1>4. Was(m + 1) = lists /\ Was(m + 1)' = lists /\ Was(m + 2)' = lists'
      /\ lists'.catch = c /\ lists'.handler = h
  BY <1>0, <1>1, <1>3 DEF Was, Jumps
<1>5. LastOf(c, L, Catching, m + 1) /\ LastOf(h, L, {"condition-case"}, m + 1)
  BY <1>0, <1>3, <1>4 DEF Live, InLists
<1>6. stack[2].k = "condition-case" /\ {"condition-case"} \subseteq Catching
  BY EvalBase DEF StackType, Catching
<1>7. c \in L /\ c \in 2 .. m /\ stack[c].k \in Catching
      /\ \A d \in L : stack[d].k \in Catching => d <= c
  <2>1. 2 <= c
    BY <1>1, <1>2, <1>5, <1>6 DEF LastOf
  <2>2. c \in L /\ stack[c].k \in Catching
    BY <2>1, <1>5 DEF LastOf
  <2>3. \A d \in L : d < m + 1
    BY <1>1, <1>2
  <2> QED BY <2>1, <2>2, <2>3, <1>2, <1>5 DEF LastOf
<1>8. PICK M \in SUBSET Nat : M = {n \in L : n <= c} \cup {m + 1}
  <2>1. m + 1 \in Nat /\ L \subseteq Nat
    BY <1>0
  <2>2. {n \in L : n <= c} \cup {m + 1} \in SUBSET Nat
    BY <2>1
  <2> QED BY <2>2
<1>9. L \subseteq Nat \ {0} /\ M \subseteq Nat \ {0}
  BY <1>0, <1>2, <1>8
<1>10. \A d \in 1 .. c : d \in M <=> d \in L
  BY <1>1, <1>7, <1>8
<1>11. \A n \in 1 .. m + 1 : Was(n)' = Was(n)
  BY <1>0, <1>1 DEF Was, SameFrames
<1>12. \A n \in 1 .. m : stack'[n].jump = stack[n].jump /\ stack'[n].k = stack[n].k
                         /\ stack'[n].pdlcount = stack[n].pdlcount
  BY <1>1 DEF SameFrames
<1>13. \A n \in M : n = m + 1 \/ (n \in L /\ n \in 1 .. c /\ n \in 1 .. m)
  BY <1>2, <1>7, <1>8
<1>14. ASSUME NEW n \in M, stack'[n].jump = 0
       PROVE  InLists(M, n)'
  <2>1. n \in L /\ n \in 1 .. c /\ n \in 1 .. m /\ stack[n].jump = 0
    BY <1>1, <1>12, <1>13, <1>14
  <2>2. InLists(L, n)
    BY <2>1 DEF Live
  <2>3. \A d \in 1 .. n - 1 : d \in M <=> d \in L
    BY <2>1, <1>7, <1>10
  <2>4. n \in 1 .. m + 1 /\ Was(n)' = Was(n)
    BY <2>1, <1>1, <1>11
  <2> QED BY <2>2, <2>3, <2>4, <1>1, <1>9, ListsStay
<1>15. InLists(M, m + 2)'
  <2>1. LastOf(c, M, Catching, m + 2)'
    <3>1. c \in M /\ c < m + 2 /\ stack'[c].k \in Catching
      BY <1>1, <1>7, <1>8, <1>12
    <3>2. ASSUME NEW d \in M, d < m + 2, stack'[d].k \in Catching
          PROVE  d <= c
      BY <3>2, <1>1, <1>13 DEF Catching
    <3> QED BY <3>1, <3>2 DEF LastOf
  <2>2. LastOf(h, M, {"condition-case"}, m + 2)'
    <3>1. /\ h = 0 \/ (h \in L /\ h < m + 1 /\ stack[h].k = "condition-case")
          /\ \A d \in L : d < m + 1 /\ stack[d].k \in {"condition-case"} => d <= h
      BY <1>5 DEF LastOf
    <3>2. h = 0 \/ (h \in M /\ h < m + 2 /\ stack'[h].k = "condition-case")
      <4>1. h \in L /\ stack[h].k = "condition-case" => h <= c /\ h \in 1 .. m
        BY <1>2, <1>6, <1>7
      <4> QED BY <4>1, <3>1, <1>1, <1>8, <1>12
    <3>3. ASSUME NEW d \in M, d < m + 2, stack'[d].k \in {"condition-case"}
          PROVE  d <= h
      <4>1. d \in L /\ d \in 1 .. m
        BY <3>3, <1>1, <1>13
      <4> QED BY <4>1, <3>1, <3>3, <1>1, <1>5, <1>12 DEF LastOf
    <3> QED BY <3>2, <3>3 DEF LastOf
  <2> QED BY <2>1, <2>2, <1>4 DEF InLists, LastOf
<1>16. Counts(M)'
  <2>1. /\ \A n \in L : stack[n].pdlcount <= Len(specpdl)
        /\ \A n \in L : \A j \in 1 .. stack[n].pdlcount : specpdl[j] < n
        /\ \A n, k \in L : n <= k => stack[n].pdlcount <= stack[k].pdlcount
    BY DEF Live, Counts
  <2>2. PICK q : q = stack[c].pdlcount
    OBVIOUS
  <2>3. /\ q <= Len(specpdl') /\ stack'[m + 1].pdlcount = q
        /\ \A j \in 1 .. q : specpdl'[j] = specpdl[j]
    BY <1>0, <1>1, <1>3, <2>2 DEF Jumps, Grows, NewFrame
  <2>4. \A n \in L : stack[n].pdlcount \in Nat
    <3>1. \A n \in L : stack[n] \in FrameType
      BY <1>0, <1>2 DEF StackType
    <3> QED BY <3>1 DEF FrameType
  <2>5. Len(specpdl) \in Nat /\ Len(specpdl') \in Nat /\ q \in Nat
        /\ \A j \in 1 .. Len(specpdl) : specpdl[j] \in 1 .. m
    <3>1. specpdl \in Seq(Nat) /\ specpdl' \in Seq(Nat)
      BY <1>1 DEF StackType, TypedStep
    <3>2. Len(specpdl) \in Nat /\ Len(specpdl') \in Nat
      BY <3>1
    <3>3. q \in Nat
      BY <1>7, <2>2, <2>4
    <3>4. \A j \in 1 .. Len(specpdl) : specpdl[j] \in 1 .. m
      BY <1>0 DEF BoundInOrder
    <3> QED BY <3>2, <3>3, <3>4
  <2>6. \A n \in M : stack'[n].pdlcount \in Nat /\ stack'[n].pdlcount <= q
    <3>1. ASSUME NEW n \in M
          PROVE  stack'[n].pdlcount \in Nat /\ stack'[n].pdlcount <= q
      <4>1. CASE n = m + 1
        BY <4>1, <2>3, <2>5
      <4>2. CASE n # m + 1
        <5>1. n \in L /\ n \in 1 .. c /\ n \in 1 .. m /\ n <= c
          BY <4>2, <1>13
        <5>2. stack[n].pdlcount \in Nat /\ stack[n].pdlcount <= q
          BY <5>1, <1>7, <2>1, <2>2, <2>4
        <5> QED BY <5>1, <5>2, <1>12
      <4> QED BY <4>1, <4>2
    <3> QED BY <3>1
  <2>7. ASSUME NEW n \in M
        PROVE  /\ stack'[n].pdlcount <= Len(specpdl')
               /\ \A j \in 1 .. stack'[n].pdlcount : specpdl'[j] < n
    <3>1. stack'[n].pdlcount <= Len(specpdl')
      BY <2>3, <2>5, <2>6
    <3>2. ASSUME NEW j \in 1 .. stack'[n].pdlcount
          PROVE  specpdl'[j] < n
      <4>1. j \in 1 .. q /\ specpdl'[j] = specpdl[j]
        BY <2>3, <2>5, <2>6
      <4>2. CASE n = m + 1
        BY <4>1, <4>2, <1>0, <1>7, <2>1, <2>2, <2>5
      <4>3. CASE n # m + 1
        BY <4>1, <4>3, <1>12, <1>13, <2>1
      <4> QED BY <4>2, <4>3
    <3> QED BY <3>1, <3>2
  <2>8. ASSUME NEW n \in M, NEW k \in M, n <= k
        PROVE  stack'[n].pdlcount <= stack'[k].pdlcount
    <3>1. CASE k = m + 1
      BY <3>1, <2>3, <2>6
    <3>2. CASE k # m + 1
      BY <3>2, <2>8, <1>7, <1>12, <1>13, <2>1
    <3> QED BY <3>1, <3>2
  <2> QED BY <2>7, <2>8 DEF Counts
<1>17. ASSUME NEW n \in M, stack'[n].jump # 0
       PROVE  JumpsTo(M, n)'
  <2>1. CASE n = m + 1
    <3>1. t \in M /\ t < n /\ stack'[t].k \in Catching
      <4>1. t \in L /\ t \in 1 .. m /\ stack[t].k \in Catching
        BY <1>1, <1>2, <1>3
      <4>2. t <= c
        BY <4>1, <1>7
      <4> QED BY <4>1, <4>2, <2>1, <1>7, <1>8, <1>12
    <3>2. c \in M /\ c < n /\ stack'[n].pdlcount = stack'[c].pdlcount
      BY <2>1, <1>1, <1>3, <1>7, <1>8, <1>12
    <3>3. \A d \in M : d < n => d <= c
      BY <2>1, <1>13
    <3>4. Was(n + 1)'.catch = c /\ stack'[n].jump = t
      BY <2>1, <1>1, <1>3, <1>4
    <3> QED BY <3>1, <3>2, <3>3, <3>4 DEF JumpsTo
  <2>2. CASE n # m + 1
    <3>1. n \in L /\ n \in 1 .. c /\ n \in 1 .. m /\ stack[n].jump # 0
      BY <2>2, <1>12, <1>13, <1>17
    <3>2. JumpsTo(L, n)
      BY <3>1 DEF Live
    <3>3. \A d \in 1 .. n - 1 : d \in M <=> d \in L
      BY <3>1, <1>7, <1>10
    <3>4. Was(n + 1)' = Was(n + 1)
      BY <3>1, <1>1, <1>11
    <3> QED BY <3>1, <3>2, <3>3, <3>4, <1>1, <1>9, JumpStays
  <2> QED BY <2>1, <2>2
<1>18. \A n \in M : n > 1 /\ stack'[n].jump = 0 => n - 1 \in M
  <2> SUFFICES ASSUME NEW n \in M, n > 1, stack'[n].jump = 0
               PROVE  n - 1 \in M
    OBVIOUS
  <2>1. n \in L /\ n \in 1 .. c /\ n \in 1 .. m /\ stack[n].jump = 0
    BY <1>1, <1>12, <1>13
  <2> QED BY <2>1, <1>2, <1>7, <1>8
<1>19. M \subseteq 1 .. Len(stack') /\ {1, Len(stack')} \subseteq M /\ 2 \in M
  BY <1>1, <1>2, <1>7, <1>8
<1>20. InLists(M, Len(stack) + 1)'
  <2>1. Len(stack') + 1 = m + 2
    BY <1>1
  <2> QED BY <2>1, <1>15 DEF InLists, LastOf
<1>21. Live(M)'
  BY <1>14, <1>16, <1>17, <1>18, <1>19, <1>20 DEF Live
<1> QED BY <1>21

\* When frames are popped, those that were live among the rest are so still.
LEMMA PopsLive ==
  ASSUME StackType, NEW L \in SUBSET Nat, Live(L), NEW m \in Nat, Pops(m)
  PROVE  \E M \in SUBSET Nat : Live(M)'
<1>1. /\ m >= 2 /\ m < Len(stack) /\ Len(stack') = m /\ SameFrames(m) /\ TypedStep
      /\ stack[m + 1].jump = 0 /\ m + 1 \in L /\ ~Leaving /\ specpdl' = specpdl
      /\ Was(m + 1)' = Was(m + 1)
  BY DEF StackType, Pops, Was
<1>2. L \subseteq 1 .. Len(stack) /\ 1 \in L /\ m \in L /\ 2 \in L
      /\ \A n \in L : n > 1 /\ stack[n].jump = 0 => n - 1 \in L
  <2>1. m + 1 > 1 /\ (m + 1) - 1 = m
    BY <1>1
  <2> QED BY <2>1, <1>1 DEF Live
<1>3. PICK M \in SUBSET Nat : M = {n \in L : n <= m}
  <2>1. {n \in L : n <= m} \in SUBSET Nat
    OBVIOUS
  <2> QED BY <2>1
<1>4. L \subseteq Nat \ {0} /\ M \subseteq Nat \ {0} /\ M \subseteq 1 .. m
  BY <1>2, <1>3
<1>5. \A d \in 1 .. m : d \in M <=> d \in L
  BY <1>3
<1>6. \A n \in 1 .. m + 1 : Was(n)' = Was(n)
  BY <1>1 DEF Was, SameFrames
<1>7. \A n \in 1 .. m : stack'[n].jump = stack[n].jump
                        /\ stack'[n].pdlcount = stack[n].pdlcount
  BY <1>1 DEF SameFrames
<1>8. ASSUME NEW n \in M \cup {m + 1}, n = m + 1 \/ stack'[n].jump = 0
      PROVE  InLists(M, n)'
  <2>1. n \in 1 .. m + 1 /\ n \in L
    BY <1>1, <1>3, <1>4, <1>8
  <2>2. stack[n].jump = 0
    BY <1>1, <1>4, <1>7, <1>8
  <2>3. InLists(L, n)
    BY <2>1, <2>2 DEF Live
  <2>4. \A d \in 1 .. n - 1 : d \in M <=> d \in L
    BY <2>1, <1>5
  <2> QED BY <2>1, <2>3, <2>4, <1>1, <1>4, <1>6, ListsStay
<1>9. Counts(M)'
  BY <1>1, <1>3, <1>4, <1>7 DEF Live, Counts
<1>10. ASSUME NEW n \in M, stack'[n].jump # 0
       PROVE  JumpsTo(M, n)'
  <2>1. n \in 1 .. m /\ n \in L /\ stack[n].jump # 0
    BY <1>3, <1>4, <1>7, <1>10
  <2>2. JumpsTo(L, n)
    BY <2>1 DEF Live
  <2>3. \A d \in 1 .. n - 1 : d \in M <=> d \in L
    BY <2>1, <1>5
  <2>4. Was(n + 1)' = Was(n + 1)
    BY <2>1, <1>6
  <2> QED BY <2>1, <2>2, <2>3, <2>4, <1>1, <1>4, JumpStays
<1>11. \A n \in M : n > 1 /\ stack'[n].jump = 0 => n - 1 \in M
  BY <1>2, <1>3, <1>4, <1>7
<1>12. M \subseteq 1 .. Len(stack') /\ {1, Len(stack')} \subseteq M /\ 2 \in M
  BY <1>1, <1>2, <1>3, <1>4
<1>13. \A n \in M : stack'[n].jump = 0 => InLists(M, n)'
  BY <1>8
<1>14. InLists(M, Len(stack) + 1)'
  BY <1>1, <1>8 DEF InLists, LastOf
<1>15. Live(M)'
  BY <1>9, <1>10, <1>11, <1>12, <1>13, <1>14 DEF Live
<1> QED BY <1>15

-----------------------------------------------------------------------------
\* The newest frame that a jump under way begins in, with its bindings undone.
Unwound ==
  /\ stack[Len(stack)].k = "unbind_to" /\ stack[Len(stack)].jump # 0
  /\ Len(specpdl) = stack[Len(stack)].pdlcount

\* The catch that the jump goes to is live, the newest one or before it, and
\* what is bound within the newest one is unbound.
LEMMA TargetIsLive ==
  ASSUME StackType, Shape, Unwound, NEW L \in SUBSET Nat, Live(L)
  PROVE  LET c == lists.catch
             t == stack[Len(stack)].jump
         IN /\ c \in L /\ c \in 1 .. Len(stack) - 1
            /\ t \in L /\ t \in 1 .. c /\ stack[t].k \in Catching
            /\ stack[c].jump = 0 /\ stack[t].jump = 0
            /\ Len(specpdl) = stack[c].pdlcount
            /\ c # 1 => 2 \in L
<1> DEFINE c == lists.catch
           t == stack[Len(stack)].jump
<1>1. Len(stack) \in Nat /\ L \subseteq 1 .. Len(stack) /\ Len(stack) \in L
  BY DEF StackType, Live
<1>2. JumpsTo(L, Len(stack)) /\ Was(Len(stack) + 1) = lists
  BY <1>1 DEF Live, Unwound, Was
<1>3. /\ t \in L /\ t < Len(stack) /\ stack[t].k \in Catching
      /\ c \in L /\ c < Len(stack) /\ Len(specpdl) = stack[c].pdlcount
      /\ t <= c
  BY <1>2 DEF JumpsTo, Unwound
<1>4. t \in 1 .. c /\ c \in 1 .. Len(stack) - 1 /\ t \in 1 .. Len(stack)
  <2> HIDE DEF t, c
  <2>1. t \in 1 .. Len(stack) /\ c \in 1 .. Len(stack)
    BY <1>1, <1>3
  <2> QED BY <2>1, <1>1, <1>3
<1>5. stack[t].jump = 0
  BY <1>3, <1>4 DEF Shape, Catching
<1>6. stack[c].jump = 0
  <2>1. LastOf(c, L, Catching, Len(stack) + 1)
    BY <1>2 DEF Live, InLists
  <2>2. stack[c].k \in Catching
    BY <2>1, <1>4 DEF LastOf
  <2> QED BY <2>2, <1>4 DEF Shape, Catching
<1>7. c # 1 => 2 \in L
  BY DEF Live, Leaving
<1> QED BY <1>3, <1>4, <1>5, <1>6, <1>7

\* The newest catch is discarded.
Discards ==
  LET c == lists.catch
      next == stack[c].was.catch
  IN /\ Unwound /\ TypedStep /\ c # stack[Len(stack)].jump
     /\ Len(stack') = Len(stack) /\ SameFrames(Len(stack) - 1)
     /\ stack'[Len(stack)].k = "unbind_to"
     /\ stack'[Len(stack)].was = stack[Len(stack)].was
     /\ stack'[Len(stack)].jump = stack[Len(stack)].jump
     /\ stack'[Len(stack)].pdlcount = stack[next].pdlcount
     /\ lists'.catch = next /\ lists'.handler = stack[c].was.handler
     /\ specpdl' = specpdl

\* The frames that stay are linked as before.
LEMMA DiscardsLinked ==
  ASSUME StackType, Shape, Linked, Discards
  PROVE  (Shape /\ Linked)'
<1>0. PICK m \in Nat : m = Len(stack)
  BY DEF StackType
<1>1. /\ m >= 2 /\ Len(stack') = m /\ SameFrames(m - 1) /\ TypedStep
      /\ stack'[m].k = "unbind_to" /\ stack'[m].jump # 0
      /\ stack'[m].was = Was(m) /\ m - 1 \in 1 .. Len(stack) /\ m # m - 1
      /\ m = (m - 1) + 1
  BY <1>0 DEF StackType, Discards, Unwound, Was
<1>2. ASSUME NEW n \in 1 .. m
      PROVE  /\ stack'[n].jump # 0 => stack'[n].k = "unbind_to"
             /\ stack'[n].k = "unbind_to" /\ stack'[n].jump = 0 =>
                  /\ n > 1 /\ stack'[n - 1].k \in Binding
                  /\ stack'[n - 1].pdlcount = stack'[n].pdlcount
             /\ stack'[n].jump = 0 =>
                  Enters(stack'[n].k, Caller(n)', n, stack'[n].was, Was(n + 1)')
  <2>1. CASE n \in 1 .. m - 1
    BY <2>1, <1>1, StaysLinked
  <2>2. CASE n = m
    BY <2>2, <1>1
  <2> QED BY <2>1, <2>2, <1>1
<1> QED BY <1>1, <1>2 DEF Shape, Linked

\* What was within it only is live no more.
LEMMA DiscardsLive ==
  ASSUME StackType, Shape, Discards, NEW L \in SUBSET Nat, Live(L)
  PROVE  \E M \in SUBSET Nat : Live(M)'
<1>0. PICK m \in Nat : m = Len(stack)
  BY DEF StackType
<1>1. PICK c, t, next, h : /\ c = lists.catch /\ t = stack[m].jump
                           /\ next = stack[c].was.catch /\ h = stack[c].was.handler
  OBVIOUS
<1>2. /\ m >= 2 /\ Len(stack') = m /\ SameFrames(m - 1) /\ TypedStep /\ Unwound
      /\ stack'[m].k = "unbind_to" /\ stack'[m].jump = t /\ t # 0 /\ c # t
      /\ stack'[m].pdlcount = stack[next].pdlcount
      /\ lists'.catch = next /\ lists'.handler = h /\ specpdl' = specpdl
      /\ stack'[m].was = stack[m].was
  BY <1>0, <1>1 DEF StackType, Discards, Unwound
<1>3. L \subseteq 1 .. m /\ 1 \in L /\ m \in L
      /\ \A n \in L : n > 1 /\ stack[n].jump = 0 => n - 1 \in L
  BY <1>0 DEF Live
<1>4. /\ c \in L /\ c \in 1 .. m - 1 /\ t \in L /\ t \in 1 .. c - 1
      /\ stack[t].k \in Catching /\ stack[c].jump = 0
      /\ Len(specpdl) = stack[c].pdlcount /\ 2 \in L
  BY <1>0, <1>1, <1>2, TargetIsLive
<1>5. LastOf(next, L, Catching, c) /\ LastOf(h, L, {"condition-case"}, c)
  <2>1. InLists(L, c) /\ Was(c) = stack[c].was
    BY <1>0, <1>4 DEF Live, Was
  <2> QED BY <2>1, <1>1 DEF InLists
<1>6. next \in L /\ next \in 1 .. c - 1 /\ t <= next /\ stack[next].k \in Catching
      /\ \A d \in L : d < c /\ stack[d].k \in Catching => d <= next
  <2>1. t < c /\ t <= next
    BY <1>4, <1>5 DEF LastOf
  <2>2. next \in L /\ next < c /\ stack[next].k \in Catching
    BY <2>1, <1>4, <1>5 DEF LastOf
  <2>3. next \in 1 .. m /\ c \in 1 .. m
    BY <2>2, <1>3, <1>4
  <2> QED BY <2>1, <2>2, <2>3, <1>5 DEF LastOf
<1>7. PICK M \in SUBSET Nat : M = {n \in L : n <= next} \cup {m}
  <2>1. {n \in L : n <= next} \cup {m} \in SUBSET Nat
    OBVIOUS
  <2> QED BY <2>1
<1>8. L \subseteq Nat \ {0} /\ M \subseteq Nat \ {0}
  BY <1>0, <1>2, <1>3, <1>7
<1>9. \A d \in 1 .. next : d \in M <=> d \in L
  BY <1>4, <1>6, <1>7
<1>10. \A n \in 1 .. m : Was(n)' = Was(n)
  BY <1>0, <1>2 DEF Was, SameFrames
<1>11. \A n \in 1 .. m - 1 : /\ stack'[n].jump = stack[n].jump
                             /\ stack'[n].k = stack[n].k
                             /\ stack'[n].pdlcount = stack[n].pdlcount
  BY <1>2 DEF SameFrames
<1>12. \A n \in M : n = m \/ (n \in L /\ n \in 1 .. next /\ n \in 1 .. m - 1)
  BY <1>3, <1>4, <1>6, <1>7
<1>13. m - 1 \in Nat /\ (m - 1) + 1 = m
  BY <1>2
<1>14. ASSUME NEW n \in M, stack'[n].jump = 0
       PROVE  InLists(M, n)'
  <2>1. n \in L /\ n \in 1 .. next /\ n \in 1 .. m - 1 /\ stack[n].jump = 0
    BY <1>2, <1>11, <1>12, <1>14
  <2>2. InLists(L, n)
    BY <2>1 DEF Live
  <2>3. \A d \in 1 .. n - 1 : d \in M <=> d \in L
    BY <2>1, <1>6, <1>9
  <2>4. n \in 1 .. (m - 1) + 1 /\ Was(n)' = Was(n)
    BY <2>1, <1>10
  <2> QED BY <2>2, <2>3, <2>4, <1>2, <1>8, <1>13, ListsStay
<1>15. InLists(M, m + 1)'
  <2>1. LastOf(next, M, Catching, m + 1)'
    <3>1. next \in M /\ next < m + 1 /\ stack'[next].k \in Catching
      BY <1>4, <1>6, <1>7, <1>11
    <3>2. ASSUME NEW d \in M, d < m + 1, stack'[d].k \in Catching
          PROVE  d <= next
      BY <3>2, <1>2, <1>12 DEF Catching
    <3> QED BY <3>1, <3>2 DEF LastOf
  <2>2. LastOf(h, M, {"condition-case"}, m + 1)'
    <3>1. /\ h = 0 \/ (h \in L /\ h < c /\ stack[h].k = "condition-case")
          /\ \A d \in L : d < c /\ stack[d].k \in {"condition-case"} => d <= h
      BY <1>5 DEF LastOf
    <3>2. h = 0 \/ (h \in M /\ h < m + 1 /\ stack'[h].k = "condition-case")
      <4>1. h \in L /\ h < c /\ stack[h].k = "condition-case"
              => h <= next /\ h \in 1 .. m - 1
        <5>1. h \in L => h \in 1 .. m
          BY <1>3
        <5> QED BY <5>1, <1>2, <1>4, <1>6 DEF Catching
      <4> QED BY <4>1, <3>1, <1>2, <1>7, <1>11
    <3>3. ASSUME NEW d \in M, d < m + 1, stack'[d].k \in {"condition-case"}
          PROVE  d <= h
      <4>1. d \in L /\ d \in 1 .. m - 1 /\ d < c
        BY <3>3, <1>2, <1>4, <1>6, <1>12
      <4> QED BY <4>1, <3>3, <1>5, <1>11 DEF LastOf
    <3> QED BY <3>2, <3>3 DEF LastOf
  <2>3. Was(m + 1)'.catch = next /\ Was(m + 1)'.handler = h
    BY <1>2 DEF Was
  <2> QED BY <2>1, <2>2, <2>3 DEF InLists, LastOf
<1>16. Counts(M)'
  <2>1. /\ \A n \in L : stack[n].pdlcount <= Len(specpdl)
        /\ \A n \in L : \A j \in 1 .. stack[n].pdlcount : specpdl[j] < n
        /\ \A n, k \in L : n <= k => stack[n].pdlcount <= stack[k].pdlcount
    BY DEF Live, Counts
  <2>2. \A n \in L : stack[n].pdlcount \in Nat
    <3>1. \A n \in L : stack[n] \in FrameType
      <4>1. L \subseteq 1 .. Len(stack)
        BY <1>0, <1>3
      <4>2. stack \in Seq(FrameType)
        BY DEF StackType
      <4> QED BY <4>1, <4>2
    <3> QED BY <3>1 DEF FrameType
  <2>3. \A j \in 1 .. Len(specpdl) : specpdl[j] \in Nat
    BY DEF StackType
  <2>4. Len(specpdl) \in Nat
    BY DEF StackType
  <2>5. ASSUME NEW n \in M
        PROVE  /\ stack'[n].pdlcount <= Len(specpdl')
               /\ \A j \in 1 .. stack'[n].pdlcount : specpdl'[j] < n
    <3>1. CASE n = m
      <4>1. /\ stack[next].pdlcount <= Len(specpdl) /\ stack[next].pdlcount \in Nat
            /\ \A j \in 1 .. stack[next].pdlcount : specpdl[j] < next /\ specpdl[j] \in Nat
        BY <1>6, <2>1, <2>2, <2>3, <2>4
      <4> QED BY <3>1, <4>1, <1>2, <1>4, <1>6
    <3>2. CASE n # m
      BY <3>2, <1>2, <1>11, <1>12, <2>1
    <3> QED BY <3>1, <3>2
  <2>6. ASSUME NEW n \in M, NEW k \in M, n <= k
        PROVE  stack'[n].pdlcount <= stack'[k].pdlcount
    <3>1. CASE n = m
      BY <3>1, <2>6, <1>2, <1>6, <1>12, <2>2
    <3>2. CASE n # m /\ k = m
      BY <3>2, <1>2, <1>6, <1>11, <1>12, <2>1
    <3>3. CASE n # m /\ k # m
      BY <3>3, <2>6, <1>11, <1>12, <2>1
    <3> QED BY <3>1, <3>2, <3>3
  <2> QED BY <2>5, <2>6 DEF Counts
<1>17. ASSUME NEW n \in M, stack'[n].jump # 0
       PROVE  JumpsTo(M, n)'
  <2>1. CASE n = m
    <3>1. t \in M /\ t < n /\ stack'[t].k \in Catching
      BY <2>1, <1>4, <1>6, <1>7, <1>11
    <3>2. next \in M /\ next < n /\ stack'[n].pdlcount = stack'[next].pdlcount
      BY <2>1, <1>2, <1>4, <1>6, <1>7, <1>11
    <3>3. \A d \in M : d < n => d <= next
      BY <2>1, <1>12
    <3>4. Was(n + 1)'.catch = next /\ stack'[n].jump = t
      BY <2>1, <1>2 DEF Was
    <3> QED BY <3>1, <3>2, <3>3, <3>4 DEF JumpsTo
  <2>2. CASE n # m
    <3>1. n \in L /\ n \in 1 .. next /\ n \in 1 .. m - 1 /\ stack[n].jump # 0
      BY <2>2, <1>11, <1>12, <1>17
    <3>2. JumpsTo(L, n)
      BY <3>1 DEF Live
    <3>3. \A d \in 1 .. n - 1 : d \in M <=> d \in L
      BY <3>1, <1>6, <1>9
    <3>4. Was(n + 1)' = Was(n + 1)
      BY <3>1, <1>2, <1>10
    <3> QED BY <3>1, <3>2, <3>3, <3>4, <1>2, <1>8, <1>13, JumpStays
  <2> QED BY <2>1, <2>2
<1>18. \A n \in M : n > 1 /\ stack'[n].jump = 0 => n - 1 \in M
  <2> SUFFICES ASSUME NEW n \in M, n > 1, stack'[n].jump = 0
               PROVE  n - 1 \in M
    OBVIOUS
  <2>1. n \in L /\ n \in 1 .. next /\ n \in 1 .. m - 1 /\ stack[n].jump = 0
    BY <1>2, <1>11, <1>12
  <2> QED BY <2>1, <1>3, <1>6, <1>7
<1>19. M \subseteq 1 .. Len(stack') /\ {1, Len(stack')} \subseteq M
  BY <1>2, <1>3, <1>4, <1>6, <1>7
<1>20. 2 \in M \/ Leaving'
  <2>1. CASE next >= 2
    BY <2>1, <1>4, <1>7
  <2>2. CASE next = 1
    <3>1. c = 2
      <4>1. stack[2].k \in Catching
        BY EvalBase DEF StackType, Catching
      <4> QED BY <4>1, <2>2, <1>4, <1>6
    <3>2. Len(specpdl) = 0
      BY <3>1, <1>4, EvalBase DEF StackType
    <3>3. specpdl = <<>>
      BY <3>2 DEF StackType
    <3> QED BY <2>2, <3>3, <1>2 DEF Leaving
  <2> QED BY <2>1, <2>2, <1>6
<1>21. InLists(M, Len(stack) + 1)'
  BY <1>2, <1>15 DEF InLists, LastOf
<1>22. Live(M)'
  BY <1>14, <1>16, <1>17, <1>18, <1>19, <1>20, <1>21 DEF Live
<1> QED BY <1>22

\* A condition-case is reached: it binds its variable and handles.
Handles ==
  LET t == lists.catch
  IN /\ Unwound /\ TypedStep /\ t = stack[Len(stack)].jump /\ t > 2
     /\ Len(stack') = t /\ SameFrames(t - 1)
     /\ stack'[t].k = "handling" /\ stack'[t].jump = 0
     /\ stack'[t].was = stack[t].was /\ stack'[t].pdlcount = stack[t].pdlcount
     /\ lists' = stack[t].was /\ specpdl' = Append(specpdl, t)

\* The frames are linked, with the one that handles on top.
LEMMA HandlesLinked ==
  ASSUME StackType, Shape, Linked, NEW L \in SUBSET Nat, Live(L), Handles
  PROVE  (Shape /\ Linked)'
<1>0. PICK t \in Nat : t = lists.catch
  BY TargetIsLive DEF Handles
<1>1. /\ t > 2 /\ t - 1 \in 1 .. Len(stack) /\ t <= Len(stack) /\ TypedStep
      /\ Len(stack) \in Nat /\ Len(stack') = t /\ SameFrames(t - 1)
      /\ stack'[t].k = "handling" /\ stack'[t].jump = 0
      /\ stack'[t].was = stack[t].was /\ lists' = stack[t].was
  <2>1. /\ t > 2 /\ TypedStep /\ Len(stack') = t /\ SameFrames(t - 1)
        /\ stack'[t].k = "handling" /\ stack'[t].jump = 0
        /\ stack'[t].was = stack[t].was /\ lists' = stack[t].was
    BY <1>0 DEF Handles
  <2>2. t \in 1 .. Len(stack) - 1
    BY <1>0, TargetIsLive DEF Handles
  <2>3. Len(stack) \in Nat
    BY Types
  <2>4. t - 1 \in 1 .. Len(stack) /\ t <= Len(stack)
    BY <1>0, <2>1, <2>2, <2>3
  <2> QED BY <2>1, <2>3, <2>4
<1>2. stack'[t].was = Was(t) /\ (t - 1) + 1 = t /\ t - 1 # Len(stack')
  BY <1>1 DEF Was
<1>3. Was(t + 1)' = stack'[t].was
  BY <1>1 DEF Was
<1>4. ASSUME NEW n \in 1 .. t
      PROVE  /\ stack'[n].jump # 0 => stack'[n].k = "unbind_to"
             /\ stack'[n].k = "unbind_to" /\ stack'[n].jump = 0 =>
                  /\ n > 1 /\ stack'[n - 1].k \in Binding
                  /\ stack'[n - 1].pdlcount = stack'[n].pdlcount
             /\ stack'[n].jump = 0 =>
                  Enters(stack'[n].k, Caller(n)', n, stack'[n].was, Was(n + 1)')
  <2>1. CASE n \in 1 .. t - 1
    BY <2>1, <1>1, <1>2, StaysLinked
  <2>2. CASE n = t
    BY <2>2, <1>1, <1>3 DEF Enters, Catching
  <2> QED BY <2>1, <2>2, <1>1
<1> QED BY <1>1, <1>4 DEF Shape, Linked

\* What was live before it is so again.
LEMMA HandlesLive ==
  ASSUME StackType, Shape, NEW L \in SUBSET Nat, Live(L), Handles
  PROVE  \E M \in SUBSET Nat : Live(M)'
<1>0. PICK t \in Nat : t = lists.catch
  BY TargetIsLive DEF Handles
<1>1. /\ t \in Nat /\ t > 2 /\ t <= Len(stack) /\ TypedStep
      /\ Len(stack) \in Nat /\ Len(stack') = t /\ SameFrames(t - 1)
      /\ stack'[t].k = "handling" /\ stack'[t].jump = 0
      /\ stack'[t].was = stack[t].was /\ lists' = stack[t].was
      /\ stack'[t].pdlcount = stack[t].pdlcount /\ specpdl' = Append(specpdl, t)
      /\ t \in L /\ 2 \in L /\ stack[t].jump = 0 /\ (t - 1) + 1 = t /\ t - 1 \in Nat
  <2>1. /\ t > 2 /\ TypedStep /\ Len(stack') = t /\ SameFrames(t - 1)
        /\ stack'[t].k = "handling" /\ stack'[t].jump = 0
        /\ stack'[t].was = stack[t].was /\ lists' = stack[t].was
        /\ stack'[t].pdlcount = stack[t].pdlcount /\ specpdl' = Append(specpdl, t)
    BY <1>0 DEF Handles
  <2>2. /\ t \in 1 .. Len(stack) - 1 /\ t \in L /\ stack[t].jump = 0
        /\ t # 1 => 2 \in L
    BY <1>0, TargetIsLive DEF Handles
  <2>3. Len(stack) \in Nat
    BY Types
  <2>4. t <= Len(stack) /\ 2 \in L /\ (t - 1) + 1 = t /\ t - 1 \in Nat
    BY <1>0, <2>1, <2>2, <2>3
  <2> QED BY <1>0, <2>1, <2>2, <2>3, <2>4
<1>2. L \subseteq 1 .. Len(stack) /\ 1 \in L
      /\ \A n \in L : n > 1 /\ stack[n].jump = 0 => n - 1 \in L
  BY DEF Live
<1>3. PICK M \in SUBSET Nat : M = {n \in L : n <= t}
  <2>1. {n \in L : n <= t} \in SUBSET Nat
    OBVIOUS
  <2> QED BY <2>1
<1>4. L \subseteq Nat \ {0} /\ M \subseteq Nat \ {0} /\ M \subseteq 1 .. t
  BY <1>2, <1>3
<1>5. \A d \in 1 .. t : d \in M <=> d \in L
  BY <1>3
<1>6. \A n \in 1 .. t : Was(n)' = Was(n)
  BY <1>1 DEF Was, SameFrames
<1>7. \A n \in 1 .. t : stack'[n].jump = stack[n].jump
                        /\ stack'[n].pdlcount = stack[n].pdlcount
  BY <1>1 DEF SameFrames
<1>8. ASSUME NEW n \in M, stack'[n].jump = 0
      PROVE  InLists(M, n)'
  <2>1. n \in 1 .. t /\ n \in L
    BY <1>3, <1>4, <1>8
  <2>2. stack[n].jump = 0
    BY <2>1, <1>7, <1>8
  <2>3. InLists(L, n)
    BY <2>1, <2>2 DEF Live
  <2>4. \A d \in 1 .. n - 1 : d \in M <=> d \in L
    BY <2>1, <1>5
  <2>5. n \in 1 .. (t - 1) + 1 /\ Was(n)' = Was(n)
    BY <2>1, <1>1, <1>6
  <2> QED BY <2>3, <2>4, <2>5, <1>1, <1>4, ListsStay
<1>9. InLists(M, t + 1)'
  <2>1. PICK x, y : x = Was(t).catch /\ y = Was(t).handler
    OBVIOUS
  <2>2. t \in M
    BY <1>1, <1>3
  <2>3. LastOf(x, M, Catching, t)' /\ LastOf(y, M, {"condition-case"}, t)'
    <3>1. InLists(M, t)' /\ Was(t)' = Was(t)
      BY <2>2, <1>1, <1>6, <1>8
    <3> QED BY <3>1, <2>1 DEF InLists, LastOf
  <2>4. \A d \in M : d < t + 1 => d < t \/ d = t
    <3> TAKE d \in M
    <3>1. d \in Nat /\ t \in Nat
      BY <1>4
    <3> QED BY <3>1
  <2>5. LastOf(x, M, Catching, t + 1)'
    <3>1. /\ x = 0 \/ (x \in M /\ x < t /\ stack'[x].k \in Catching)
          /\ \A d \in M : d < t /\ stack'[d].k \in Catching => d <= x
      BY <2>3 DEF LastOf
    <3>2. stack'[t].k \notin Catching
      BY <1>1 DEF Catching
    <3>3. x \in M /\ x < t => x < t + 1
      BY <1>1, <1>4
    <3> QED BY <3>1, <3>2, <3>3, <2>4 DEF LastOf
  <2>6. LastOf(y, M, {"condition-case"}, t + 1)'
    <3>1. /\ y = 0 \/ (y \in M /\ y < t /\ stack'[y].k \in {"condition-case"})
          /\ \A d \in M : d < t /\ stack'[d].k \in {"condition-case"} => d <= y
      BY <2>3 DEF LastOf
    <3>2. stack'[t].k \notin {"condition-case"}
      BY <1>1 DEF Catching
    <3>3. y \in M /\ y < t => y < t + 1
      BY <1>1, <1>4
    <3> QED BY <3>1, <3>2, <3>3, <2>4 DEF LastOf
  <2>7. Was(t + 1)'.catch = x /\ Was(t + 1)'.handler = y
    BY <2>1, <1>1 DEF Was
  <2> QED BY <2>5, <2>6, <2>7 DEF InLists, LastOf
<1>10. Counts(M)'
  <2>1. /\ \A n \in L : stack[n].pdlcount <= Len(specpdl)
        /\ \A n \in L : \A j \in 1 .. stack[n].pdlcount : specpdl[j] < n
        /\ \A n, k \in L : n <= k => stack[n].pdlcount <= stack[k].pdlcount
    BY DEF Live, Counts
  <2>2. \A n \in L : stack[n].pdlcount \in Nat
    <3>1. \A n \in L : stack[n] \in FrameType
      <4>1. stack \in Seq(FrameType)
        BY DEF StackType
      <4> QED BY <4>1, <1>2
    <3> QED BY <3>1 DEF FrameType
  <2>3. Len(specpdl') = Len(specpdl) + 1 /\ Len(specpdl) \in Nat
        /\ \A j \in 1 .. Len(specpdl) : specpdl'[j] = specpdl[j]
    BY <1>1 DEF StackType
  <2>4. ASSUME NEW n \in M
        PROVE  /\ stack'[n].pdlcount <= Len(specpdl')
               /\ \A j \in 1 .. stack'[n].pdlcount : specpdl'[j] < n
    <3>1. n \in L /\ stack'[n].pdlcount = stack[n].pdlcount
      BY <1>3, <1>4, <1>7
    <3>2. stack[n].pdlcount \in Nat /\ stack[n].pdlcount <= Len(specpdl)
          /\ \A j \in 1 .. stack[n].pdlcount : specpdl[j] < n
      BY <3>1, <2>1, <2>2
    <3> QED BY <3>1, <3>2, <2>3
  <2>5. ASSUME NEW n \in M, NEW k \in M, n <= k
        PROVE  stack'[n].pdlcount <= stack'[k].pdlcount
    BY <2>5, <1>3, <1>4, <1>7, <2>1
  <2> QED BY <2>4, <2>5 DEF Counts
<1>11. ASSUME NEW n \in M, stack'[n].jump # 0
       PROVE  JumpsTo(M, n)'
  <2>1. n \in 1 .. t - 1 /\ n \in L /\ stack[n].jump # 0
    BY <1>1, <1>3, <1>4, <1>7, <1>11
  <2>2. JumpsTo(L, n)
    BY <2>1 DEF Live
  <2>3. \A d \in 1 .. n - 1 : d \in M <=> d \in L
    BY <2>1, <1>5
  <2>4. Was(n + 1)' = Was(n + 1)
    BY <2>1, <1>6
  <2> QED BY <2>1, <2>2, <2>3, <2>4, <1>1, <1>4, JumpStays
<1>12. \A n \in M : n > 1 /\ stack'[n].jump = 0 => n - 1 \in M
  BY <1>2, <1>3, <1>4, <1>7
<1>13. M \subseteq 1 .. Len(stack') /\ {1, Len(stack')} \subseteq M /\ 2 \in M
  BY <1>1, <1>2, <1>3, <1>4
<1>14. InLists(M, Len(stack) + 1)'
  BY <1>1, <1>9 DEF InLists, LastOf
<1>15. Live(M)'
  BY <1>8, <1>10, <1>11, <1>12, <1>13, <1>14 DEF Live
<1> QED BY <1>15

\* The oldest unbinding of specpdl is undone, or begins.
Unbinds ==
  /\ TypedStep /\ SameFrames(Len(stack)) /\ Len(specpdl) > 0
  /\ Len(specpdl') = Len(specpdl) - 1
  /\ \A i \in 1 .. Len(specpdl) - 1 : specpdl'[i] = specpdl[i]
  /\ LET owner == specpdl[Len(specpdl)]
     IN stack[owner].k = "unwind-protect" => stack'[owner].forms # "kept"

\* What is still bound has its frame, and what is not kept needs no entry.
LEMMA UnbindsEntries ==
  ASSUME StackType, BoundInOrder, Kept, Unbinds,
         \A n \in Len(stack) + 1 .. Len(stack') : stack'[n].k # "unwind-protect"
  PROVE  (BoundInOrder /\ Kept)'
<1> DEFINE top == Len(specpdl)
<1>1. Len(stack) \in Nat /\ Len(stack') \in Nat /\ Len(stack) <= Len(stack')
      /\ top \in Nat /\ top > 0 /\ Len(specpdl') = top - 1
      /\ \A i \in 1 .. top - 1 : specpdl'[i] = specpdl[i]
  BY Types, TypesNext DEF Unbinds, SameFrames
<1>2. \A n \in 1 .. Len(stack) :
        stack'[n].k = stack[n].k /\ stack'[n].pdlcount = stack[n].pdlcount
        /\ (stack'[n].forms = "kept" => stack[n].forms = "kept")
  BY DEF Unbinds, SameFrames
<1>3. \A i \in 1 .. top :
        /\ specpdl[i] \in 1 .. Len(stack) /\ stack[specpdl[i]].k \in Binding
        /\ stack[specpdl[i]].pdlcount = i - 1
        /\ \A j \in 1 .. i - 1 : specpdl[j] < specpdl[i]
  BY DEF BoundInOrder
<1>4. BoundInOrder'
  <2> SUFFICES ASSUME NEW i \in 1 .. Len(specpdl')
               PROVE  /\ specpdl'[i] \in 1 .. Len(stack')
                      /\ stack'[specpdl'[i]].k \in Binding
                      /\ stack'[specpdl'[i]].pdlcount = i - 1
                      /\ \A j \in 1 .. i - 1 : specpdl'[j] < specpdl'[i]
    BY DEF BoundInOrder
  <2>1. i \in 1 .. top - 1 /\ i \in 1 .. top
        /\ \A j \in 1 .. i - 1 : specpdl'[j] = specpdl[j]
    BY <1>1
  <2>2. PICK n : n = specpdl[i] /\ n = specpdl'[i]
    BY <2>1, <1>1
  <2>3. n \in 1 .. Len(stack) /\ stack[n].k \in Binding /\ stack[n].pdlcount = i - 1
        /\ \A j \in 1 .. i - 1 : specpdl[j] < n
    BY <2>1, <2>2, <1>3
  <2>4. n \in 1 .. Len(stack')
    BY <2>3, <1>1
  <2>5. stack'[n].k \in Binding /\ stack'[n].pdlcount = i - 1
    BY <2>3, <1>2
  <2>6. \A j \in 1 .. i - 1 : specpdl'[j] < n
    BY <2>1, <2>3
  <2> QED BY <2>2, <2>4, <2>5, <2>6
<1>5. Kept'
  <2> SUFFICES ASSUME NEW n \in 1 .. Len(stack'), stack'[n].k = "unwind-protect",
                      stack'[n].forms = "kept"
               PROVE  stack'[n].pdlcount < Len(specpdl')
                      /\ specpdl'[stack'[n].pdlcount + 1] = n
    BY DEF Kept
  <2>1. n \in 1 .. Len(stack)
    BY <1>1
  <2>2. stack[n].k = "unwind-protect" /\ stack[n].forms = "kept"
        /\ stack'[n].pdlcount = stack[n].pdlcount
    BY <2>1, <1>2
  <2>3. stack[n].pdlcount < top /\ specpdl[stack[n].pdlcount + 1] = n
        /\ stack[n].pdlcount \in Nat
    BY <2>1, <2>2, Types DEF Kept
  <2>4. n # specpdl[top]
    BY <2>2 DEF Unbinds
  <2> QED BY <2>2, <2>3, <2>4, <1>1
<1> QED BY <1>4, <1>5

\* Frames come or go, and specpdl stays.
LEMMA EntriesStay ==
  ASSUME StackType, BoundInOrder, Kept, TypedStep, NEW h \in Nat, SameFrames(h),
         \A i \in 1 .. Len(specpdl) : specpdl[i] <= h, specpdl' = specpdl,
         \A n \in h + 1 .. Len(stack') : stack'[n].k # "unwind-protect"
  PROVE  (BoundInOrder /\ Kept)'
<1>1. Len(stack) \in Nat /\ Len(stack') \in Nat /\ h <= Len(stack) /\ h <= Len(stack')
      /\ Len(specpdl) \in Nat
  BY DEF StackType, TypedStep, SameFrames
<1>2. \A n \in 1 .. h :
        stack'[n].k = stack[n].k /\ stack'[n].pdlcount = stack[n].pdlcount
        /\ (stack'[n].forms = "kept" => stack[n].forms = "kept")
  BY DEF SameFrames
<1>3. \A i \in 1 .. Len(specpdl) :
        /\ specpdl[i] \in 1 .. h /\ stack[specpdl[i]].k \in Binding
        /\ stack[specpdl[i]].pdlcount = i - 1
        /\ \A j \in 1 .. i - 1 : specpdl[j] < specpdl[i]
  BY <1>1 DEF BoundInOrder
<1>4. BoundInOrder'
  <2> SUFFICES ASSUME NEW i \in 1 .. Len(specpdl)
               PROVE  /\ specpdl[i] \in 1 .. Len(stack')
                      /\ stack'[specpdl[i]].k \in Binding
                      /\ stack'[specpdl[i]].pdlcount = i - 1
                      /\ \A j \in 1 .. i - 1 : specpdl[j] < specpdl[i]
    BY DEF BoundInOrder
  <2>1. PICK n : n = specpdl[i]
    OBVIOUS
  <2>2. n \in 1 .. h /\ stack[n].k \in Binding /\ stack[n].pdlcount = i - 1
        /\ \A j \in 1 .. i - 1 : specpdl[j] < n
    BY <2>1, <1>3
  <2> QED BY <2>1, <2>2, <1>1, <1>2
<1>5. Kept'
  <2> SUFFICES ASSUME NEW n \in 1 .. Len(stack'), stack'[n].k = "unwind-protect",
                      stack'[n].forms = "kept"
               PROVE  stack'[n].pdlcount < Len(specpdl)
                      /\ specpdl[stack'[n].pdlcount + 1] = n
    BY DEF Kept
  <2>1. n \in 1 .. h /\ n \in 1 .. Len(stack)
    BY <1>1
  <2> QED BY <2>1, <1>2 DEF Kept
<1> QED BY <1>4, <1>5

\* A frame that is to unbind is the newest one, and specpdl has its entry.
LEMMA BindsEntries ==
  ASSUME StackType, BoundInOrder, Kept, TypedStep, NEW t \in Nat, t > 1,
         Len(stack') = t, SameFrames(t - 1),
         \A i \in 1 .. Len(specpdl) : specpdl[i] < t, specpdl' = Append(specpdl, t),
         stack'[t].k \in Binding, stack'[t].pdlcount = Len(specpdl)
  PROVE  (BoundInOrder /\ Kept)'
<1> DEFINE top == Len(specpdl)
<1>1. Len(stack) \in Nat /\ t - 1 <= Len(stack)
      /\ top \in Nat /\ Len(specpdl') = top + 1 /\ specpdl'[top + 1] = t
      /\ \A i \in 1 .. top : specpdl'[i] = specpdl[i]
  BY DEF StackType, SameFrames
<1>2. \A n \in 1 .. t - 1 :
        stack'[n].k = stack[n].k /\ stack'[n].pdlcount = stack[n].pdlcount
        /\ (stack'[n].forms = "kept" => stack[n].forms = "kept")
  BY DEF SameFrames
<1>3. \A i \in 1 .. top :
        /\ specpdl[i] \in 1 .. t - 1 /\ stack[specpdl[i]].k \in Binding
        /\ stack[specpdl[i]].pdlcount = i - 1
        /\ \A j \in 1 .. i - 1 : specpdl[j] < specpdl[i]
  BY <1>1 DEF BoundInOrder
<1>4. BoundInOrder'
  <2> SUFFICES ASSUME NEW i \in 1 .. top + 1
               PROVE  /\ specpdl'[i] \in 1 .. t
                      /\ stack'[specpdl'[i]].k \in Binding
                      /\ stack'[specpdl'[i]].pdlcount = i - 1
                      /\ \A j \in 1 .. i - 1 : specpdl'[j] < specpdl'[i]
    BY <1>1 DEF BoundInOrder
  <2>1. CASE i \in 1 .. top
    <3>1. PICK n : n = specpdl[i] /\ n = specpdl'[i]
      BY <2>1, <1>1
    <3>2. n \in 1 .. t - 1 /\ stack[n].k \in Binding /\ stack[n].pdlcount = i - 1
          /\ \A j \in 1 .. i - 1 : specpdl[j] < n /\ specpdl'[j] = specpdl[j]
      BY <2>1, <3>1, <1>1, <1>3
    <3> QED BY <3>1, <3>2, <1>1, <1>2
  <2>2. CASE i = top + 1
    BY <2>2, <1>1, <1>3
  <2> QED BY <2>1, <2>2, <1>1
<1>5. Kept'
  <2> SUFFICES ASSUME NEW n \in 1 .. t, stack'[n].k = "unwind-protect",
                      stack'[n].forms = "kept"
               PROVE  stack'[n].pdlcount < top + 1
                      /\ specpdl'[stack'[n].pdlcount + 1] = n
    BY <1>1 DEF Kept
  <2>1. CASE n = t
    BY <2>1, <1>1
  <2>2. CASE n \in 1 .. t - 1
    <3>1. stack[n].k = "unwind-protect" /\ stack[n].forms = "kept"
          /\ stack'[n].pdlcount = stack[n].pdlcount /\ n \in 1 .. Len(stack)
      BY <2>2, <1>1, <1>2
    <3>2. stack[n].pdlcount < top /\ specpdl[stack[n].pdlcount + 1] = n
          /\ stack[n].pdlcount \in Nat
      BY <3>1, Types DEF Kept
    <3> QED BY <3>1, <3>2, <1>1
  <2>3. n = t \/ n \in 1 .. t - 1
    OBVIOUS
  <2> QED BY <2>1, <2>2, <2>3
<1> QED BY <1>4, <1>5

-----------------------------------------------------------------------------
\* A walk back along a list of older frames comes to an end.
LEMMA WalkExists ==
  ASSUME NEW h \in Nat, NEW before, \A n \in 1 .. h : before[n] \in 0 .. n - 1,
         NEW stop, 0 \in stop
  PROVE  \E w \in [0 .. h -> Nat] :
           \A n \in 0 .. h : w[n] = IF n \in stop THEN n ELSE w[before[n]]
<1> DEFINE Walk(w, k) ==
             /\ w \in [0 .. k -> Nat]
             /\ \A n \in 0 .. k : w[n] = IF n \in stop THEN n ELSE w[before[n]]
           T == {k \in Nat : k <= h => \E w : Walk(w, k)}
<1>1. 0 \in T
  <2>1. Walk([n \in 0 .. 0 |-> 0], 0)
    OBVIOUS
  <2> QED BY <2>1
<1>2. ASSUME NEW k \in T
      PROVE  k + 1 \in T
  <2> SUFFICES ASSUME k + 1 <= h
               PROVE  \E w : Walk(w, k + 1)
    OBVIOUS
  <2>1. PICK w : Walk(w, k)
    OBVIOUS
  <2> DEFINE v == [n \in 0 .. k + 1 |->
                     IF n <= k THEN w[n]
                     ELSE IF n \in stop THEN n ELSE w[before[n]]]
  <2>2. \A n \in 0 .. k : w[n] = IF n \in stop THEN n ELSE w[before[n]]
    BY <2>1
  <2>3. \A n \in 0 .. k + 1 : v[n] = IF n \in stop THEN n ELSE v[before[n]]
    <3> SUFFICES ASSUME NEW n \in 0 .. k + 1
                 PROVE  v[n] = IF n \in stop THEN n ELSE v[before[n]]
      OBVIOUS
    <3>1. CASE n \in stop
      BY <3>1, <2>2
    <3>2. CASE n \notin stop
      <4>1. n \in 1 .. h /\ before[n] \in 0 .. k
        BY <3>2
      <4>2. v[before[n]] = w[before[n]]
        BY <4>1
      <4> QED BY <3>2, <4>2, <2>2
    <3> QED BY <3>1, <3>2
  <2>4. v \in [0 .. k + 1 -> Nat]
    <3> SUFFICES ASSUME NEW n \in 0 .. k + 1
                 PROVE  (IF n <= k THEN w[n] ELSE IF n \in stop THEN n ELSE w[before[n]]) \in Nat
      OBVIOUS
    <3>1. n <= k => n \in 0 .. k
      OBVIOUS
    <3>2. ~(n <= k) /\ n \notin stop => before[n] \in 0 .. k
      OBVIOUS
    <3>3. CASE n <= k
      BY <2>1, <3>1, <3>3
    <3>4. CASE ~(n <= k) /\ n \in stop
      BY <3>4
    <3>5. CASE ~(n <= k) /\ n \notin stop
      <4>1. w[before[n]] \in Nat
        BY <2>1, <3>2, <3>5
      <4> QED BY <4>1, <3>5
    <3> QED BY <3>3, <3>4, <3>5
  <2>5. Walk(v, k + 1)
    <3> HIDE DEF v
    <3> QED BY <2>3, <2>4
  <2> QED BY <2>5
<1>3. T = Nat
  <2> HIDE DEF T
  <2>1. T \in SUBSET Nat
    BY DEF T
  <2> QED BY <1>1, <1>2, <2>1, NatSetInduction
<1> QED BY <1>3

\* What the walk of Fsignal and Fthrow finds from any frame on.
LEMMA FirstOfWalks ==
  ASSUME StackType, NEW suits, NEW field,
         \A n \in 1 .. Len(stack) : stack[n].was[field] \in 0 .. n - 1,
         NEW from \in 0 .. Len(stack)
  PROVE  Eval!FirstOf(suits, from, field) =
           IF from \in suits \cup {0} THEN from
           ELSE Eval!FirstOf(suits, stack[from].was[field], field)
<1> DEFINE Walk(w) == w = [n \in 0 .. Len(stack) |->
                             IF n \in suits \cup {0} THEN n ELSE w[stack[n].was[field]]]
           walk == CHOOSE w : Walk(w)
<1>1. Len(stack) \in Nat
  BY Types
<1>2. \E w : Walk(w)
  <2>1. PICK stop, h : stop = suits \cup {0} /\ h = Len(stack)
    OBVIOUS
  <2>2. PICK b : b = [n \in 1 .. h |-> stack[n].was[field]]
    OBVIOUS
  <2>3. h \in Nat /\ (\A n \in 1 .. h : b[n] \in 0 .. n - 1) /\ 0 \in stop
    BY <1>1, <2>1, <2>2
  <2>4. PICK w \in [0 .. h -> Nat] :
               \A n \in 0 .. h : w[n] = IF n \in stop THEN n ELSE w[b[n]]
    BY <2>3, WalkExists
  <2>5. \A n \in 0 .. h : w[n] = IF n \in suits \cup {0} THEN n
                                 ELSE w[stack[n].was[field]]
    <3> SUFFICES ASSUME NEW n \in 0 .. h, n \notin suits \cup {0}
                 PROVE  w[n] = w[stack[n].was[field]]
      BY <2>1, <2>4
    <3>1. n \in 1 .. h
      BY <2>3
    <3>2. b[n] = stack[n].was[field] /\ w[n] = w[b[n]]
      BY <3>1, <2>1, <2>2, <2>4
    <3> QED BY <3>2
  <2>6. [n \in 0 .. h |-> w[n]]
        = [n \in 0 .. h |-> IF n \in suits \cup {0} THEN n ELSE w[stack[n].was[field]]]
    BY <2>5
  <2>7. Walk(w)
    BY <2>1, <2>4, <2>6
  <2> QED BY <2>7
<1>3. Walk(walk)
  <2> HIDE DEF Walk
  <2> QED BY <1>2
<1>4. \A n : Eval!FirstOf(suits, n, field) = walk[n]
  BY DEF Eval!FirstOf
<1>5. walk[from] = IF from \in suits \cup {0} THEN from
                   ELSE walk[stack[from].was[field]]
  <2> HIDE DEF walk
  <2> QED BY <1>3
<1> HIDE DEF walk
<1> QED BY <1>4, <1>5

\* The walk stays among frames that the list does not lead out of.
LEMMA WalkFinds ==
  ASSUME StackType, NEW suits, NEW field,
         \A n \in 1 .. Len(stack) : stack[n].was[field] \in 0 .. n - 1,
         NEW G, G \subseteq 0 .. Len(stack),
         \A n \in G : n \notin suits \cup {0} => stack[n].was[field] \in G,
         NEW from \in G
  PROVE  Eval!FirstOf(suits, from, field) \in G \cap (suits \cup {0})
<1> DEFINE F(n) == Eval!FirstOf(suits, n, field)
           T == {k \in Nat : \A n \in G : n <= k => F(n) \in G \cap (suits \cup {0})}
<1>1. Len(stack) \in Nat
  BY Types
<1>2. \A n \in 0 .. Len(stack) :
        F(n) = IF n \in suits \cup {0} THEN n ELSE F(stack[n].was[field])
  BY FirstOfWalks
<1> HIDE DEF F
<1>3. 0 \in T
  <2> SUFFICES ASSUME NEW n \in G, n <= 0
               PROVE  F(n) \in G \cap (suits \cup {0})
    OBVIOUS
  <2>1. n = 0 /\ n \in 0 .. Len(stack)
    BY <1>1
  <2> QED BY <2>1, <1>2
<1>4. ASSUME NEW k \in T
      PROVE  k + 1 \in T
  <2> SUFFICES ASSUME NEW n \in G, n <= k + 1
               PROVE  F(n) \in G \cap (suits \cup {0})
    OBVIOUS
  <2>1. n \in 0 .. Len(stack) /\ F(n) = IF n \in suits \cup {0} THEN n
                                        ELSE F(stack[n].was[field])
    BY <1>2
  <2>2. CASE n \in suits \cup {0}
    BY <2>1, <2>2
  <2>3. CASE n \notin suits \cup {0}
    <3>1. stack[n].was[field] \in G /\ stack[n].was[field] \in 0 .. n - 1
      BY <2>1, <2>3, <1>1
    <3>2. PICK b : b = stack[n].was[field]
      OBVIOUS
    <3>3. b \in G /\ b <= k
      BY <3>1, <3>2, <2>1, <1>1
    <3> QED BY <3>2, <3>3, <2>1, <2>3
  <2> QED BY <2>2, <2>3
<1>5. T = Nat
  <2> HIDE DEF T
  <2>1. T \in SUBSET Nat
    BY DEF T
  <2> QED BY <1>3, <1>4, <2>1, NatSetInduction
<1>6. from \in Nat /\ from <= from
  BY <1>1
<1>7. from \in T
  BY <1>5, <1>6
<1>8. F(from) \in G \cap (suits \cup {0})
  BY <1>6, <1>7
<1> QED BY <1>8 DEF F

\* There is a handler for every condition, and it is live: so is the catch for a
\* tag, if there is one.
LEMMA TargetsAreLive ==
  ASSUME StackType, Older, Shape, ~Leaving, NEW L \in SUBSET Nat, Live(L)
  PROVE  /\ \A cond : /\ Eval!HandlerFor(cond) \in L
                      /\ stack[Eval!HandlerFor(cond)].k \in Catching
         /\ \A tag : Eval!CatchFor(tag) # 0 =>
                       /\ Eval!CatchFor(tag) \in L
                       /\ stack[Eval!CatchFor(tag)].k \in Catching
<1>1. Len(stack) \in Nat /\ Len(stack) >= 2 /\ L \subseteq 1 .. Len(stack) /\ 2 \in L
  BY Types DEF StackType, Live
<1>2. stack[1].k = "catch" /\ stack[2].k = "condition-case" /\ stack[2].tag = "any"
  BY EvalBase DEF StackType
<1>3. InLists(L, Len(stack) + 1) /\ Was(Len(stack) + 1) = lists
  BY <1>1 DEF Live, Was
<1>4. ASSUME NEW n \in L, stack[n].k \in Catching
      PROVE  /\ LastOf(stack[n].was.catch, L, Catching, n)
             /\ LastOf(stack[n].was.handler, L, {"condition-case"}, n)
  <2>1. n \in 1 .. Len(stack)
    BY <1>1
  <2>2. stack[n].jump = 0
    BY <1>4, <2>1 DEF Shape, Catching
  <2>3. InLists(L, n)
    BY <2>2 DEF Live
  <2>4. Was(n) = stack[n].was
    BY <2>1, <1>1 DEF Was
  <2> QED BY <2>3, <2>4 DEF InLists
<1>5. ASSUME NEW cond
      PROVE  Eval!HandlerFor(cond) \in L /\ stack[Eval!HandlerFor(cond)].k \in Catching
  <2> DEFINE suits == {n \in DOMAIN stack : stack[n].tag \in {cond, "any"}}
             G == {n \in L : stack[n].k = "condition-case"}
  <2>1. G \subseteq 0 .. Len(stack)
    <3> SUFFICES ASSUME NEW n \in G
                 PROVE  n \in 0 .. Len(stack)
      OBVIOUS
    <3>1. n = 0 \/ n \in 1 .. Len(stack)
      BY <1>1
    <3> QED BY <3>1, <1>1
  <2>2. 2 \in suits
    <3>1. DOMAIN stack = 1 .. Len(stack)
      BY DEF StackType
    <3> QED BY <3>1, <1>1, <1>2
  <2>3. ASSUME NEW n \in G, n \notin suits \cup {0}
        PROVE  stack[n].was.handler \in G
    <3>1. n \in 1 .. Len(stack) /\ n # 1 /\ n # 2
      BY <2>2, <2>3, <1>1, <1>2
    <3>2. LastOf(stack[n].was.handler, L, {"condition-case"}, n)
      BY <1>4 DEF Catching
    <3>3. 2 <= stack[n].was.handler
      BY <3>1, <3>2, <1>1, <1>2 DEF LastOf
    <3> QED BY <3>2, <3>3 DEF LastOf
  <2>4. lists.handler \in G
    <3>1. LastOf(lists.handler, L, {"condition-case"}, Len(stack) + 1)
      BY <1>3 DEF InLists
    <3>2. 2 <= lists.handler
      BY <3>1, <1>1, <1>2 DEF LastOf
    <3> QED BY <3>1, <3>2 DEF LastOf
  <2>5. \A n \in 1 .. Len(stack) : stack[n].was["handler"] \in 0 .. n - 1
    BY DEF Older
  <2>6. Eval!HandlerFor(cond) = Eval!FirstOf(suits, lists.handler, "handler")
    BY DEF Eval!HandlerFor
  <2>7. Eval!FirstOf(suits, lists.handler, "handler") \in G
    <3> HIDE DEF suits, G
    <3> QED BY <2>1, <2>3, <2>4, <2>5, WalkFinds
  <2> QED BY <2>6, <2>7 DEF Catching
<1>6. ASSUME NEW tag, Eval!CatchFor(tag) # 0
      PROVE  Eval!CatchFor(tag) \in L /\ stack[Eval!CatchFor(tag)].k \in Catching
  <2> DEFINE suits == {n \in DOMAIN stack : stack[n].k = "catch" /\ stack[n].tag = tag}
             G == {0} \cup {n \in L : stack[n].k \in Catching}
  <2>1. G \subseteq 0 .. Len(stack)
    <3> SUFFICES ASSUME NEW n \in G
                 PROVE  n \in 0 .. Len(stack)
      OBVIOUS
    <3>1. n = 0 \/ n \in 1 .. Len(stack)
      BY <1>1
    <3> QED BY <3>1, <1>1
  <2>2. ASSUME NEW n \in G, n \notin suits \cup {0}
        PROVE  stack[n].was.catch \in G
    <3>1. LastOf(stack[n].was.catch, L, Catching, n)
      BY <2>2, <1>4
    <3> QED BY <3>1 DEF LastOf
  <2>3. lists.catch \in G
    BY <1>3 DEF InLists, LastOf
  <2>4. \A n \in 1 .. Len(stack) : stack[n].was["catch"] \in 0 .. n - 1
    BY DEF Older
  <2>5. Eval!CatchFor(tag) = Eval!FirstOf(suits, lists.catch, "catch")
    BY DEF Eval!CatchFor
  <2>6. Eval!FirstOf(suits, lists.catch, "catch") \in G
    <3> HIDE DEF suits, G
    <3> QED BY <2>1, <2>2, <2>3, <2>4, WalkFinds
  <2> QED BY <2>5, <2>6, <1>6
<1> QED BY <1>5, <1>6

-----------------------------------------------------------------------------
\* A frame as a function of eval.c makes it.
TagSet == Tags \cup Conditions \cup {"top-level", "any", "none"}
UnbindFrame(k, tag, p, j) ==
  LET f == [Eval!Frame(k, tag) EXCEPT !.pdlcount = p, !.jump = j]
  IN f \in FrameType /\ f.k = k /\ f.was = lists /\ f.pdlcount = p /\ f.jump = j
\* Its fields are as they were given.
LEMMA FrameIs ==
  ASSUME StackType, NEW k \in Kinds, NEW tag \in TagSet
  PROVE  /\ Eval!Frame(k, tag) \in FrameType
         /\ Eval!Frame(k, tag).k = k /\ Eval!Frame(k, tag).was = lists
         /\ Eval!Frame(k, tag).pdlcount = Len(specpdl) /\ Eval!Frame(k, tag).jump = 0
         /\ \A p, j \in Nat : UnbindFrame(k, tag, p, j)
<1>1. lists \in ListsType /\ Len(specpdl) \in Nat
  BY Types
<1>2. Eval!Frame(k, tag) = [k |-> k, tag |-> tag, was |-> lists,
                            pdlcount |-> Len(specpdl), forms |-> "kept", jump |-> 0]
  BY DEF Eval!Frame
<1>3. Eval!Frame(k, tag) \in FrameType
  BY <1>1, <1>2 DEF FrameType, TagSet
<1>4. ASSUME NEW p \in Nat, NEW j \in Nat
      PROVE  UnbindFrame(k, tag, p, j)
  <2> DEFINE f == [Eval!Frame(k, tag) EXCEPT !.pdlcount = p, !.jump = j]
  <2>1. f \in FrameType
    BY <1>1 DEF Eval!Frame, FrameType, TagSet
  <2>2. f.k = k /\ f.was = lists /\ f.pdlcount = p /\ f.jump = j
    BY DEF Eval!Frame
  <2> HIDE DEF f
  <2> QED BY <2>1, <2>2 DEF UnbindFrame, f
<1>5. /\ Eval!Frame(k, tag).k = k /\ Eval!Frame(k, tag).was = lists
      /\ Eval!Frame(k, tag).pdlcount = Len(specpdl) /\ Eval!Frame(k, tag).jump = 0
  BY <1>2
<1> QED BY <1>3, <1>4, <1>5

\* A frame on top of those that are there.
LEMMA PushedIs ==
  ASSUME StackType, NEW f \in FrameType, stack' = Append(stack, f),
         specpdl' \in Seq(Nat), lists' \in ListsType
  PROVE  /\ TypedStep /\ Len(stack') = Len(stack) + 1 /\ SameFrames(Len(stack))
         /\ stack'[Len(stack) + 1] = f
<1>1. /\ stack' \in Seq(FrameType) /\ Len(stack') = Len(stack) + 1
      /\ stack'[Len(stack) + 1] = f
      /\ \A n \in 1 .. Len(stack) : stack'[n] = stack[n]
  BY DEF StackType
<1>2. Len(stack) \in Nat /\ Len(stack) >= 2
  BY DEF StackType
<1> QED BY <1>1, <1>2 DEF TypedStep, SameFrames

\* The frame on top, and what no jump has left.
LEMMA TopIs ==
  ASSUME StackType, Shape, NEW L \in SUBSET Nat, Live(L)
  PROVE  /\ Eval!Top = stack[Len(stack)] /\ Len(stack) \in 1 .. Len(stack)
         /\ Eval!Top \in FrameType /\ Eval!Top.pdlcount <= Len(specpdl)
         /\ Eval!Top.k # "unbind_to" => Eval!Top.jump = 0 /\ ~Leaving
<1>1. Eval!Top = stack[Len(stack)]
  BY DEF Eval!Top
<1>2. Len(stack) \in 1 .. Len(stack)
  BY DEF StackType
<1>3. stack[Len(stack)] \in FrameType
  BY <1>2, Types
<1>4. stack[Len(stack)].pdlcount <= Len(specpdl)
  BY DEF Live, Counts
<1>5. stack[Len(stack)].k # "unbind_to" => stack[Len(stack)].jump = 0 /\ ~Leaving
  BY <1>2 DEF Shape, Leaving
<1> QED BY <1>1, <1>2, <1>3, <1>4, <1>5

\* What is evaluated makes a frame that is called.
LEMMA FrameCalls ==
  ASSUME StackType, Shape, NEW L \in SUBSET Nat, Live(L),
         NEW k \in Kinds, NEW tag \in TagSet, k # "unbind_to",
         Eval!Top.k # "unbind_to", Eval!Push(Eval!Frame(k, tag)),
         specpdl' = specpdl \/ specpdl' = Append(specpdl, Eval!Me),
         lists' \in ListsType, Enters(k, Eval!Top.k, Len(stack) + 1, lists, lists')
  PROVE  /\ Calls /\ NewFrame = Eval!Frame(k, tag)
         /\ specpdl' = specpdl \/ specpdl' = Append(specpdl, Len(stack) + 1)
<1> DEFINE f == Eval!Frame(k, tag)
<1>1. f \in FrameType /\ f.k = k /\ f.was = lists /\ f.pdlcount = Len(specpdl) /\ f.jump = 0
  BY FrameIs
<1> HIDE DEF f
<1>2. stack' = Append(stack, f) /\ Eval!Me = Len(stack) + 1
  BY DEF Eval!Push, Eval!Me, f
<1>3. /\ specpdl' \in Seq(Nat) /\ Len(specpdl) \in Nat /\ Len(specpdl) <= Len(specpdl')
      /\ \A j \in 1 .. Len(specpdl) : specpdl'[j] = specpdl[j]
  <2>1. specpdl \in Seq(Nat) /\ Eval!Me \in Nat
    BY <1>2, Types DEF StackType
  <2>2. CASE specpdl' = specpdl
    BY <2>1, <2>2
  <2>3. CASE specpdl' = Append(specpdl, Eval!Me)
    BY <2>1, <2>3
  <2> QED BY <2>2, <2>3
<1>4. TypedStep /\ Len(stack') = Len(stack) + 1 /\ SameFrames(Len(stack)) /\ NewFrame = f
  BY <1>1, <1>2, <1>3, PushedIs DEF NewFrame
<1>5. Grows
  BY <1>1, <1>3, <1>4, TopIs DEF Grows
<1>6. stack[Len(stack)].pdlcount <= NewFrame.pdlcount /\ stack[Len(stack)].k = Eval!Top.k
  BY <1>1, <1>4, TopIs
<1> QED BY <1>1, <1>2, <1>4, <1>5, <1>6 DEF Calls, f

\* unbind_catch is called, to go to a live catch.
LEMMA JumpToJumps ==
  ASSUME StackType, Shape, ~Leaving, NEW c \in Nat, c # 0, NEW ls \in ListsType,
         ls.catch = lists.catch, ls.handler = lists.handler,
         lists.catch \in 1 .. Len(stack), stack[lists.catch].pdlcount <= Len(specpdl),
         \A L \in SUBSET Nat : Live(L) => c \in L /\ stack[c].k \in Catching,
         Eval!JumpTo(c, ls)
  PROVE  Jumps /\ specpdl' = specpdl
<1> DEFINE p == stack[lists.catch].pdlcount
           f == [Eval!Frame("unbind_to", "none") EXCEPT !.pdlcount = p, !.jump = c]
<1>1. p \in Nat
  BY Types
<1>2. f \in FrameType /\ f.k = "unbind_to" /\ f.was = lists /\ f.pdlcount = p /\ f.jump = c
  <2>1. "unbind_to" \in Kinds /\ "none" \in TagSet
    BY DEF Kinds, TagSet
  <2>2. UnbindFrame("unbind_to", "none", p, c)
    BY <2>1, <1>1, FrameIs
  <2> QED BY <2>2 DEF UnbindFrame
<1>3. stack' = Append(stack, f) /\ lists' = ls /\ specpdl' = specpdl
  BY DEF Eval!JumpTo
<1>4. specpdl' \in Seq(Nat) /\ lists' \in ListsType
  BY <1>3 DEF StackType
<1> HIDE DEF f
<1>5. TypedStep /\ Len(stack') = Len(stack) + 1 /\ SameFrames(Len(stack)) /\ NewFrame = f
  BY <1>2, <1>3, <1>4, PushedIs DEF NewFrame
<1>6. Grows
  BY <1>2, <1>3, <1>5 DEF Grows
<1> QED BY <1>2, <1>3, <1>5, <1>6 DEF Jumps

\* The newest catch is a live frame, and the bindings made within it are its own.
LEMMA CatchIsLive ==
  ASSUME StackType, ~Leaving, NEW L \in SUBSET Nat, Live(L)
  PROVE  lists.catch \in L /\ lists.catch \in 1 .. Len(stack)
         /\ stack[lists.catch].pdlcount <= Len(specpdl)
         /\ lists.handler \in 0 .. Len(stack)
<1>1. /\ LastOf(lists.catch, L, Catching, Len(stack) + 1)
      /\ LastOf(lists.handler, L, {"condition-case"}, Len(stack) + 1)
  BY DEF Live, InLists, Was
<1>2. 2 \in L /\ L \subseteq 1 .. Len(stack) /\ Len(stack) \in Nat /\ 2 < Len(stack) + 1
  BY Types DEF StackType, Live
<1>3. stack[2].k = "condition-case"
  BY EvalBase DEF StackType
<1>4. 2 <= lists.catch
  BY <1>1, <1>2, <1>3 DEF LastOf, Catching
<1>5. lists.catch \in L
  BY <1>1, <1>4 DEF LastOf
<1>6. stack[lists.catch].pdlcount <= Len(specpdl)
  BY <1>5 DEF Live, Counts
<1>7. lists.handler \in 0 .. Len(stack)
  <2>1. lists.handler = 0 \/ lists.handler \in L
    BY <1>1 DEF LastOf
  <2>2. CASE lists.handler = 0
    BY <2>2, <1>2
  <2>3. CASE lists.handler \in L
    <3>1. lists.handler \in 1 .. Len(stack)
      BY <2>3, <1>2
    <3> QED BY <3>1, <1>2
  <2> QED BY <2>1, <2>2, <2>3
<1> QED BY <1>2, <1>5, <1>6, <1>7

-----------------------------------------------------------------------------
\* What a step does: a frame is pushed,
PushesFrame ==
  /\ Calls \/ Jumps
  /\ \/ specpdl' = specpdl /\ NewFrame.k # "unwind-protect"
     \/ /\ specpdl' = Append(specpdl, Len(stack) + 1) /\ NewFrame.k \in Binding
        /\ NewFrame.pdlcount = Len(specpdl)
     \/ Unbinds /\ NewFrame.k # "unwind-protect"
\* or frames are popped and nothing that is bound loses its frame,
PopsFrames ==
  \E m \in Nat : Pops(m) /\ \A i \in 1 .. Len(specpdl) : specpdl[i] <= m
\* or a binding is undone,
OnlyUnbinds ==
  /\ Unbinds /\ stack' = stack /\ lists' = lists
  /\ stack[Len(stack)].pdlcount < Len(specpdl)
\* or the command loop starts anew, with nothing bound,
StartsAnew == specpdl = <<>> /\ Eval!EvalInit'
\* or another of the things that were stated.
EvalSteps ==
  \/ PushesFrame \/ PopsFrames
  \/ OnlyUnbinds
  \/ Discards \/ Handles \/ StartsAnew

\* A list is changed.
LEMMA ListsChanged ==
  ASSUME NEW ls \in ListsType, NEW n \in Int
  PROVE  /\ Enters("args", "eval", n, ls, [ls EXCEPT !.gcpro = n])
         /\ Enters("catch", "eval", n, ls, [ls EXCEPT !.catch = n])
         /\ Enters("condition-case", "eval", n, ls, [ls EXCEPT !.catch = n, !.handler = n])
         /\ [ls EXCEPT !.gcpro = n] \in ListsType
         /\ [ls EXCEPT !.catch = n] \in ListsType
         /\ [ls EXCEPT !.catch = n, !.handler = n] \in ListsType
         /\ \A k \in Binding \cup {"unbind_to"} : \A by :
              by # "unwind-protect" => Enters(k, by, n, ls, ls)
         /\ Enters("unbind_to", "unwind-protect", n, ls, [ls EXCEPT !.gcpro = n])
<1>1. /\ [ls EXCEPT !.gcpro = n] \in ListsType
      /\ [ls EXCEPT !.catch = n] \in ListsType
      /\ [ls EXCEPT !.catch = n, !.handler = n] \in ListsType
  BY DEF ListsType
<1>2. Enters("args", "eval", n, ls, [ls EXCEPT !.gcpro = n])
  BY DEF ListsType, Enters, Catching
<1>3. Enters("catch", "eval", n, ls, [ls EXCEPT !.catch = n])
  BY DEF ListsType, Enters, Catching
<1>4. Enters("condition-case", "eval", n, ls, [ls EXCEPT !.catch = n, !.handler = n])
  BY DEF ListsType, Enters, Catching
<1>5. \A k \in Binding \cup {"unbind_to"} : \A by :
        by # "unwind-protect" => Enters(k, by, n, ls, ls)
  BY DEF Enters, Catching, Binding
<1>6. Enters("unbind_to", "unwind-protect", n, ls, [ls EXCEPT !.gcpro = n])
  BY DEF ListsType, Enters, Catching
<1> QED BY <1>1, <1>2, <1>3, <1>4, <1>5, <1>6

\* A call of Feval, which may be too deep.
LEMMA Deeper ==
  ASSUME NEW ls \in ListsType, NEW n \in Int, NEW by
  PROVE  LET deeper == [ls EXCEPT !.depth = @ + 1]
         IN /\ deeper \in ListsType
            /\ deeper.catch = ls.catch /\ deeper.handler = ls.handler
            /\ [deeper EXCEPT !.backtrace = n] \in ListsType
            /\ Enters("eval", by, n, ls, [deeper EXCEPT !.backtrace = n])
<1> DEFINE deeper == [ls EXCEPT !.depth = @ + 1]
<1>1. /\ deeper \in ListsType /\ deeper.catch = ls.catch /\ deeper.handler = ls.handler
      /\ deeper.gcpro = ls.gcpro /\ deeper.depth = ls.depth + 1
  BY DEF ListsType
<1> HIDE DEF deeper
<1>2. [deeper EXCEPT !.backtrace = n] \in ListsType
  BY <1>1 DEF ListsType
<1>3. Enters("eval", by, n, ls, [deeper EXCEPT !.backtrace = n])
  BY <1>1 DEF ListsType, Enters, Catching
<1> QED BY <1>1, <1>2, <1>3 DEF deeper

\* Fsignal, Fthrow.
LEMMA SignalPushes ==
  ASSUME StackType, Shape, Older, ~Leaving, NEW L \in SUBSET Nat, Live(L),
         NEW ls \in ListsType, ls.catch = lists.catch, ls.handler = lists.handler,
         \/ \E cond : Eval!JumpTo(Eval!HandlerFor(cond), ls)
         \/ \E tag : Eval!CatchFor(tag) # 0 /\ Eval!JumpTo(Eval!CatchFor(tag), ls)
  PROVE  PushesFrame
<1>1. PICK c : /\ Eval!JumpTo(c, ls)
               /\ \/ \E cond : c = Eval!HandlerFor(cond)
                  \/ \E tag : c = Eval!CatchFor(tag) /\ c # 0
  OBVIOUS
<1>2. ASSUME NEW M \in SUBSET Nat, Live(M)
      PROVE  c \in M /\ stack[c].k \in Catching
  BY <1>1, <1>2, TargetsAreLive
<1>3. c \in L
  BY <1>2
<1>4. c \in Nat /\ c # 0
  <2>1. L \subseteq 1 .. Len(stack)
    BY DEF Live
  <2> QED BY <1>3, <2>1
<1>5. lists.catch \in 1 .. Len(stack) /\ stack[lists.catch].pdlcount <= Len(specpdl)
  BY CatchIsLive
<1>6. Jumps /\ specpdl' = specpdl
  BY <1>1, <1>2, <1>4, <1>5, JumpToJumps
<1>7. NewFrame.k # "unwind-protect"
  BY <1>6 DEF Jumps
<1> QED BY <1>6, <1>7 DEF PushesFrame

\* What is evaluated, and Feval of it.
LEMMA EvaluationPushes ==
  ASSUME StackType, Shape, Older, NEW L \in SUBSET Nat, Live(L),
         \/ Eval!Args \/ Eval!EvalBody \/ Eval!Funwind_protect \/ Eval!Flet
         \/ \E tag \in Tags : Eval!Fcatch(tag)
         \/ \E cond \in Conditions : Eval!Fcondition_case(cond)
         \/ Eval!Throws \/ Eval!Signals
  PROVE  PushesFrame
<1>1. Eval!Top.k # "unbind_to" /\ lists \in ListsType /\ Len(stack) + 1 \in Int
      /\ Eval!Me = Len(stack) + 1
  BY Types DEF Eval!Args, Eval!EvalBody, Eval!Funwind_protect, Eval!Flet, Eval!Fcatch,
       Eval!Fcondition_case, Eval!Throws, Eval!Signals, Eval!Evaluating, Eval!Me
<1>2. ~Leaving
  BY <1>1, TopIs
<1>3. ASSUME NEW k \in Kinds, NEW tag \in TagSet, k # "unbind_to",
             Eval!Push(Eval!Frame(k, tag)),
             \/ specpdl' = specpdl /\ k # "unwind-protect"
             \/ specpdl' = Append(specpdl, Eval!Me) /\ k \in Binding,
             lists' \in ListsType, Enters(k, Eval!Top.k, Len(stack) + 1, lists, lists')
      PROVE  PushesFrame
  <2>1. Calls /\ NewFrame = Eval!Frame(k, tag)
    BY <1>1, <1>3, FrameCalls
  <2>2. NewFrame.k = k /\ NewFrame.pdlcount = Len(specpdl)
    BY <2>1, FrameIs
  <2> QED BY <1>1, <1>3, <2>1, <2>2 DEF PushesFrame
<1>4. "none" \in TagSet /\ Tags \subseteq TagSet /\ Conditions \subseteq TagSet
  BY DEF TagSet
<1>5. CASE Eval!Args
  <2>1. Eval!Push(Eval!Frame("args", "none")) /\ specpdl' = specpdl
        /\ lists' = [lists EXCEPT !.gcpro = Len(stack) + 1] /\ Eval!Top.k = "eval"
    BY <1>1, <1>5 DEF Eval!Args
  <2>2. lists' \in ListsType /\ Enters("args", "eval", Len(stack) + 1, lists, lists')
    BY <1>1, <2>1, ListsChanged
  <2> QED BY <1>3, <1>4, <2>1, <2>2 DEF Kinds
<1>6. CASE \E tag \in Tags : Eval!Fcatch(tag)
  <2>1. PICK tag \in Tags : Eval!Fcatch(tag)
    BY <1>6
  <2>2. Eval!Push(Eval!Frame("catch", tag)) /\ specpdl' = specpdl
        /\ lists' = [lists EXCEPT !.catch = Len(stack) + 1] /\ Eval!Top.k = "eval"
    BY <1>1, <2>1 DEF Eval!Fcatch
  <2>3. lists' \in ListsType /\ Enters("catch", "eval", Len(stack) + 1, lists, lists')
    BY <1>1, <2>2, ListsChanged
  <2> QED BY <1>3, <1>4, <2>2, <2>3 DEF Kinds
<1>7. CASE \E cond \in Conditions : Eval!Fcondition_case(cond)
  <2>1. PICK cond \in Conditions : Eval!Fcondition_case(cond)
    BY <1>7
  <2>2. Eval!Push(Eval!Frame("condition-case", cond)) /\ specpdl' = specpdl
        /\ lists' = [lists EXCEPT !.catch = Len(stack) + 1, !.handler = Len(stack) + 1]
        /\ Eval!Top.k = "eval"
    BY <1>1, <2>1 DEF Eval!Fcondition_case
  <2>3. lists' \in ListsType
        /\ Enters("condition-case", "eval", Len(stack) + 1, lists, lists')
    BY <1>1, <2>2, ListsChanged
  <2> QED BY <1>3, <1>4, <2>2, <2>3 DEF Kinds
<1>8. CASE Eval!Funwind_protect \/ Eval!Flet
  <2>1. PICK k \in {"unwind-protect", "let"} :
          /\ Eval!Push(Eval!Frame(k, "none")) /\ specpdl' = Append(specpdl, Eval!Me)
          /\ lists' = lists /\ Eval!Top.k = "eval"
    BY <1>8 DEF Eval!Funwind_protect, Eval!Flet
  <2>2. k \in Binding /\ k \in Kinds /\ k # "unbind_to"
    BY DEF Binding, Kinds
  <2>3. Enters(k, "eval", Len(stack) + 1, lists, lists')
    BY <1>1, <2>1, <2>2, ListsChanged
  <2> QED BY <1>1, <1>3, <1>4, <2>1, <2>2, <2>3
<1>9. CASE Eval!EvalBody
  <2> DEFINE deeper == [lists EXCEPT !.depth = @ + 1]
  <2>1. \/ Eval!JumpTo(Eval!HandlerFor("error"), deeper)
        \/ /\ Eval!Push(Eval!Frame("eval", "none")) /\ specpdl' = specpdl
           /\ lists' = [deeper EXCEPT !.backtrace = Len(stack) + 1]
    BY <1>1, <1>9 DEF Eval!EvalBody, Eval!Feval
  <2>2. /\ deeper \in ListsType /\ deeper.catch = lists.catch
        /\ deeper.handler = lists.handler
        /\ [deeper EXCEPT !.backtrace = Len(stack) + 1] \in ListsType
        /\ Enters("eval", Eval!Top.k, Len(stack) + 1, lists,
                  [deeper EXCEPT !.backtrace = Len(stack) + 1])
    BY <1>1, Deeper
  <2> HIDE DEF deeper
  <2>3. CASE Eval!JumpTo(Eval!HandlerFor("error"), deeper)
    BY <1>2, <2>2, <2>3, SignalPushes
  <2>4. CASE /\ Eval!Push(Eval!Frame("eval", "none")) /\ specpdl' = specpdl
             /\ lists' = [deeper EXCEPT !.backtrace = Len(stack) + 1]
    BY <1>3, <1>4, <2>2, <2>4 DEF Kinds
  <2> QED BY <2>1, <2>3, <2>4
<1>10. CASE Eval!Throws \/ Eval!Signals
  <2>1. \/ \E cond : Eval!JumpTo(Eval!HandlerFor(cond), lists)
        \/ \E tag : Eval!CatchFor(tag) # 0 /\ Eval!JumpTo(Eval!CatchFor(tag), lists)
    BY <1>10 DEF Eval!Throws, Eval!Signals, Eval!Throw, Eval!Signal
  <2> QED BY <1>1, <1>2, <2>1, SignalPushes
<1> QED BY <1>5, <1>6, <1>7, <1>8, <1>9, <1>10

\* Lists with the same fields are the same.
LEMMA SameLists ==
  ASSUME NEW a \in ListsType, NEW b \in ListsType,
         a.catch = b.catch, a.handler = b.handler, a.backtrace = b.backtrace,
         a.gcpro = b.gcpro, a.depth = b.depth
  PROVE  a = b
BY DEF ListsType

\* The frames below the top ones.
LEMMA PoppedIs ==
  ASSUME StackType, NEW m \in 2 .. Len(stack), stack' = SubSeq(stack, 1, m),
         specpdl' = specpdl, lists' \in ListsType
  PROVE  TypedStep /\ Len(stack') = m /\ SameFrames(m)
<1>1. stack \in Seq(FrameType) /\ Len(stack) \in Nat /\ m \in Nat /\ 1 <= m /\ m <= Len(stack)
  BY DEF StackType
<1>2. stack' \in Seq(FrameType) /\ Len(stack') = m
      /\ \A n \in 1 .. m : stack'[n] = stack[n]
  BY <1>1
<1>3. stack'[1] = stack[1] /\ stack'[2] = stack[2]
  BY <1>1, <1>2
<1> QED BY <1>1, <1>2, <1>3 DEF TypedStep, SameFrames, StackType

\* Each function puts back what it has set.
LEMMA ReturnPops ==
  ASSUME StackType, Shape, Linked, BoundInOrder, NEW L \in SUBSET Nat, Live(L),
         Eval!Top.k \in {"eval", "args", "catch", "condition-case"}, Eval!Return
  PROVE  PopsFrames
<1>0. PICK m \in Nat : m + 1 = Len(stack)
  <2>1. Len(stack) - 1 \in Nat /\ (Len(stack) - 1) + 1 = Len(stack)
    BY Types DEF StackType
  <2> QED BY <2>1
<1>1. /\ Eval!Top = stack[m + 1] /\ stack[m + 1].jump = 0 /\ ~Leaving
      /\ Len(stack) > 2 /\ m \in 2 .. Len(stack) - 1
  BY <1>0, TopIs, EvalBase DEF Eval!Return
<1>2. PICK was \in ListsType : was = stack[m + 1].was
  BY <1>0, Types
<1>3. PICK k : k = stack[m + 1].k
  OBVIOUS
<1>4. Enters(k, Caller(m + 1), m + 1, was, lists)
  <2>1. Was(m + 2) = lists /\ m + 1 \in 1 .. Len(stack) /\ (m + 1) + 1 = m + 2
    BY <1>0 DEF Was
  <2> QED BY <2>1, <1>1, <1>2, <1>3 DEF Linked
<1>5. lists \in ListsType
  BY Types
<1>6. k \in {"eval", "args", "catch", "condition-case"} /\ k \notin Binding
  BY <1>1, <1>3 DEF Binding
<1>7. lists' =
       CASE k = "eval" -> [lists EXCEPT !.depth = @ - 1, !.backtrace = was.backtrace]
         [] k = "args" -> [lists EXCEPT !.gcpro = was.gcpro]
         [] k = "catch" -> [lists EXCEPT !.catch = was.catch]
         [] k = "condition-case" ->
              [lists EXCEPT !.catch = was.catch, !.handler = was.handler]
  BY <1>1, <1>2, <1>3 DEF Eval!Return
<1>8. lists' = was
  <2>1. CASE k = "eval"
    <3>1. lists' = [lists EXCEPT !.depth = @ - 1, !.backtrace = was.backtrace]
      BY <1>7, <2>1
    <3>2. lists' \in ListsType
      <4>1. PICK d \in Int : d = lists.depth - 1
        BY <1>5 DEF ListsType
      <4>2. PICK b \in Int : b = was.backtrace
        BY <1>2 DEF ListsType
      <4>3. lists' = [lists EXCEPT !.depth = d, !.backtrace = b]
        BY <3>1, <4>1, <4>2
      <4> QED BY <1>5, <4>3 DEF ListsType
    <3>3. /\ lists'.catch = lists.catch /\ lists'.handler = lists.handler
          /\ lists'.gcpro = lists.gcpro /\ lists'.depth = lists.depth - 1
          /\ lists'.backtrace = was.backtrace
      BY <1>5, <3>1 DEF ListsType
    <3>4. /\ lists.catch = was.catch /\ lists.handler = was.handler
          /\ lists.gcpro = was.gcpro /\ lists.depth = was.depth + 1
      BY <1>4, <2>1 DEF Enters, Catching
    <3>5. lists'.depth = was.depth
      BY <3>3, <3>4, <1>2 DEF ListsType
    <3> QED BY <3>2, <3>3, <3>4, <3>5, <1>2, SameLists
  <2>2. CASE k = "args"
    <3>1. lists' = [lists EXCEPT !.gcpro = was.gcpro]
      BY <1>7, <2>2
    <3>2. lists' \in ListsType
      BY <1>2, <1>5, <3>1 DEF ListsType
    <3> QED BY <3>1, <3>2, <1>2, <1>4, <1>5, <2>2, SameLists DEF Enters, Catching, ListsType
  <2>3. CASE k = "catch"
    <3>1. lists' = [lists EXCEPT !.catch = was.catch]
      BY <1>7, <2>3
    <3>2. lists' \in ListsType
      BY <1>2, <1>5, <3>1 DEF ListsType
    <3> QED BY <3>1, <3>2, <1>2, <1>4, <1>5, <2>3, SameLists DEF Enters, Catching, ListsType
  <2>4. CASE k = "condition-case"
    <3>1. lists' = [lists EXCEPT !.catch = was.catch, !.handler = was.handler]
      BY <1>7, <2>4
    <3>2. lists' \in ListsType
      BY <1>2, <1>5, <3>1 DEF ListsType
    <3> QED BY <3>1, <3>2, <1>2, <1>4, <1>5, <2>4, SameLists DEF Enters, Catching, ListsType
  <2> QED BY <1>6, <2>1, <2>2, <2>3, <2>4
<1>9. stack' = SubSeq(stack, 1, m) /\ specpdl' = specpdl
  BY <1>0 DEF Eval!Return, Eval!Up, Eval!Front
<1>10. TypedStep /\ Len(stack') = m /\ SameFrames(m)
  <2>1. m \in 2 .. Len(stack)
    BY <1>0, <1>1
  <2> QED BY <2>1, <1>2, <1>8, <1>9, PoppedIs
<1>11. \A M \in SUBSET Nat : Live(M) => m + 1 \in M
  BY <1>0 DEF Live
<1>12. Pops(m)
  BY <1>1, <1>2, <1>8, <1>9, <1>10, <1>11 DEF Pops
<1>13. ASSUME NEW i \in 1 .. Len(specpdl)
       PROVE  specpdl[i] <= m
  <2>1. PICK n : n = specpdl[i]
    OBVIOUS
  <2>2. n \in 1 .. m + 1 /\ stack[n].k \in Binding
    BY <1>0, <2>1 DEF BoundInOrder
  <2>3. n # m + 1
    BY <1>3, <1>6, <2>2
  <2> QED BY <2>1, <2>2, <2>3
<1> QED BY <1>12, <1>13 DEF PopsFrames

\* unbind_to returns, and so does what called it.
LEMMA UnboundPops ==
  ASSUME StackType, Shape, Linked, BoundInOrder, NEW L \in SUBSET Nat, Live(L), Eval!Unbound
  PROVE  PopsFrames
<1>0. PICK m \in Int : m + 2 = Len(stack)
  <2>1. Len(stack) - 2 \in Int /\ (Len(stack) - 2) + 2 = Len(stack)
    BY Types
  <2> QED BY <2>1
<1>1. /\ m + 2 >= 2 /\ m + 2 \in 1 .. Len(stack)
      /\ stack[m + 2].k = "unbind_to" /\ stack[m + 2].jump = 0
      /\ Len(specpdl) = stack[m + 2].pdlcount
  BY <1>0, TopIs DEF StackType, Eval!Unbound
<1>2. /\ stack[m + 1].k \in Binding /\ stack[m + 1].pdlcount = Len(specpdl)
  <2>1. (m + 2) - 1 = m + 1
    OBVIOUS
  <2> QED BY <2>1, <1>1 DEF Shape
<1>3. m >= 2
  <2>1. m + 1 # 2 /\ m + 1 # 1
    BY <1>2, EvalBase DEF StackType, Binding
  <2> QED BY <2>1, <1>1
<1>4. /\ m \in 2 .. Len(stack) - 1 /\ m \in 2 .. Len(stack) /\ m \in Nat
      /\ m + 1 \in 1 .. Len(stack)
      /\ stack[m + 1].jump = 0 /\ ~Leaving
  BY <1>0, <1>1, <1>2, <1>3 DEF Shape, Binding, Leaving
<1>5. \A M \in SUBSET Nat : Live(M) => m + 1 \in M
  <2> SUFFICES ASSUME NEW M \in SUBSET Nat, Live(M)
               PROVE  m + 1 \in M
    OBVIOUS
  <2>1. m + 2 \in M /\ m + 2 > 1 /\ (m + 2) - 1 = m + 1
    BY <1>0, <1>1 DEF Live
  <2> QED BY <2>1, <1>1 DEF Live
<1>6. PICK was \in ListsType : was = stack[m + 1].was
  BY <1>4, Types
<1>7. Enters(stack[m + 1].k, Caller(m + 1), m + 1, was, stack[m + 2].was)
  <2>1. Was(m + 2) = stack[m + 2].was /\ (m + 1) + 1 = m + 2
    BY <1>0 DEF Was
  <2> QED BY <2>1, <1>4, <1>6 DEF Linked
<1>8. Enters("unbind_to", Caller(m + 2), m + 2, stack[m + 2].was, lists)
  <2>1. Was((m + 2) + 1) = lists
    BY <1>0 DEF Was
  <2> QED BY <2>1, <1>1 DEF Linked
<1>9. /\ lists.catch = was.catch /\ lists.handler = was.handler
      /\ lists.backtrace = was.backtrace /\ lists.depth = was.depth
  BY <1>2, <1>7, <1>8 DEF Enters, Catching, Binding
<1>10. stack' = SubSeq(stack, 1, m) /\ specpdl' = specpdl
       /\ lists' = [lists EXCEPT !.gcpro = was.gcpro]
  <2>1. Eval!Up = SubSeq(stack, 1, m + 1) /\ stack \in Seq(FrameType)
        /\ Len(stack) \in Nat
    BY <1>0, Types DEF Eval!Up, Eval!Front, StackType
  <2>2. Len(Eval!Up) = m + 1 /\ Eval!Up[m + 1] = stack[m + 1]
        /\ SubSeq(Eval!Up, 1, m) = SubSeq(stack, 1, m)
    BY <2>1, <1>4
  <2>3. Eval!Last(Eval!Up) = stack[m + 1] /\ Eval!Front(Eval!Up) = SubSeq(stack, 1, m)
    BY <2>2, <1>4 DEF Eval!Last, Eval!Front
  <2> QED BY <2>3, <1>6 DEF Eval!Unbound
<1>11. lists' = was
  <2>1. lists \in ListsType
    BY Types
  <2>2. lists' \in ListsType
    BY <2>1, <1>6, <1>10 DEF ListsType
  <2> QED BY <2>1, <2>2, <1>6, <1>9, <1>10, SameLists DEF ListsType
<1>12. Pops(m)
  BY <1>4, <1>5, <1>6, <1>10, <1>11, PoppedIs DEF Pops
<1>13. ASSUME NEW i \in 1 .. Len(specpdl)
       PROVE  specpdl[i] <= m
  <2>1. specpdl[i] < m + 1
    BY <1>2, <1>5 DEF Live, Counts
  <2> QED BY <2>1, <1>4, Types
<1> QED BY <1>4, <1>12, <1>13 DEF PopsFrames

\* A frame made with another pdlcount.
LEMMA FrameWith ==
  ASSUME StackType, NEW k \in Kinds, NEW p \in Nat
  PROVE  LET f == [Eval!Frame(k, "none") EXCEPT !.pdlcount = p]
         IN /\ f \in FrameType /\ f.k = k /\ f.was = lists
            /\ f.pdlcount = p /\ f.jump = 0
<1> DEFINE f == [Eval!Frame(k, "none") EXCEPT !.pdlcount = p]
<1>1. lists \in ListsType
  BY Types
<1>2. f \in FrameType
  BY <1>1 DEF Eval!Frame, FrameType
<1>3. f.k = k /\ f.was = lists /\ f.pdlcount = p /\ f.jump = 0
  BY DEF Eval!Frame
<1> QED BY <1>2, <1>3

\* unbind_to is called by a function that returns.
LEMMA ReturnUnbindingPushes ==
  ASSUME StackType, Shape, NEW L \in SUBSET Nat, Live(L), Eval!ReturnUnbinding
  PROVE  PushesFrame
<1> DEFINE p == Eval!Top.pdlcount
           f == [Eval!Frame("unbind_to", "none") EXCEPT !.pdlcount = p]
<1>1. /\ Eval!Top = stack[Len(stack)] /\ Eval!Top.k \in Binding /\ ~Leaving
      /\ p \in Nat /\ p <= Len(specpdl) /\ Len(stack) + 1 \in Int
      /\ Eval!Me = Len(stack) + 1
  BY TopIs, Types DEF Eval!ReturnUnbinding, Binding, Eval!Me
<1>2. f \in FrameType /\ f.k = "unbind_to" /\ f.was = lists /\ f.pdlcount = p /\ f.jump = 0
  BY <1>1, FrameWith DEF Kinds
<1>3. stack' = Append(stack, f) /\ specpdl' = specpdl
      /\ lists' = IF Eval!Top.k = "unwind-protect" THEN [lists EXCEPT !.gcpro = Len(stack) + 1]
                  ELSE lists
  BY <1>1 DEF Eval!ReturnUnbinding
<1> HIDE DEF f
<1>4. lists' \in ListsType /\ Enters("unbind_to", Eval!Top.k, Len(stack) + 1, lists, lists')
  <2>1. lists \in ListsType
    BY Types
  <2>2. CASE Eval!Top.k = "unwind-protect"
    BY <1>1, <1>3, <2>1, <2>2, ListsChanged
  <2>3. CASE Eval!Top.k # "unwind-protect"
    BY <1>1, <1>3, <2>1, <2>3, ListsChanged
  <2> QED BY <2>2, <2>3
<1>5. specpdl' \in Seq(Nat)
  BY <1>3 DEF StackType
<1>6. TypedStep /\ Len(stack') = Len(stack) + 1 /\ SameFrames(Len(stack)) /\ NewFrame = f
  BY <1>2, <1>3, <1>4, <1>5, PushedIs DEF NewFrame
<1>7. Grows
  BY <1>1, <1>2, <1>3, <1>6 DEF Grows
<1>8. Calls
  BY <1>1, <1>2, <1>4, <1>6, <1>7 DEF Calls
<1> QED BY <1>2, <1>3, <1>6, <1>8 DEF PushesFrame

\* A sequence with one more element.
LEMMA AppendIs ==
  ASSUME NEW T, NEW s \in Seq(T), NEW x \in T, NEW u, u = Append(s, x)
  PROVE  /\ u \in Seq(T) /\ Len(u) = Len(s) + 1 /\ u[Len(s) + 1] = x
         /\ \A n \in 1 .. Len(s) : u[n] = s[n]
OBVIOUS

\* A sequence cut off at length q.
LEMMA FrontOf ==
  ASSUME NEW T, NEW s \in Seq(T), NEW q \in 0 .. Len(s)
  PROVE  LET u == SubSeq(s, 1, q)
         IN u \in Seq(T) /\ Len(u) = q /\ \A i \in 1 .. q : u[i] = s[i]
<1> DEFINE u == SubSeq(s, 1, q)
<1>1. Len(s) \in Nat /\ q \in Nat
  OBVIOUS
<1>2. u = [i \in 1 .. q |-> s[i]]
  BY <1>1
<1>3. \A i \in 1 .. q : s[i] \in T
  BY <1>1
<1>4. u \in Seq(T) /\ Len(u) = q
  BY <1>1, <1>2, <1>3
<1> QED BY <1>2, <1>4

\* How the forms of an unwind-protect fare, and a frame on top, if any.
LEMMA OwnerIs ==
  ASSUME StackType, NEW o \in 1 .. Len(stack), stack[o].k = "unwind-protect",
         NEW forms \in {"begun", "refused"}, NEW f \in FrameType,
         stack' = Append([stack EXCEPT ![o].forms = forms], f),
         specpdl' \in Seq(Nat), lists' \in ListsType
  PROVE  /\ TypedStep /\ Len(stack') = Len(stack) + 1 /\ SameFrames(Len(stack))
         /\ stack'[Len(stack) + 1] = f /\ stack'[o].forms # "kept"
<1> DEFINE w == [stack EXCEPT ![o].forms = forms]
<1>1. stack \in Seq(FrameType) /\ Len(stack) \in Nat /\ Len(stack) >= 2 /\ stack[o] \in FrameType
  BY Types DEF StackType
<1>2. w = [stack EXCEPT ![o] = [stack[o] EXCEPT !.forms = forms]]
  OBVIOUS
<1>3. PICK g : g = [stack[o] EXCEPT !.forms = forms]
  OBVIOUS
<1>4. /\ g \in FrameType /\ g.k = stack[o].k /\ g.was = stack[o].was /\ g.jump = stack[o].jump
      /\ g.pdlcount = stack[o].pdlcount /\ g.forms = forms
  BY <1>1, <1>3 DEF FrameType
<1>5. w = [stack EXCEPT ![o] = g]
  BY <1>2, <1>3
<1> HIDE DEF w
<1>6. /\ w \in Seq(FrameType) /\ Len(w) = Len(stack) /\ w[o] = g
      /\ \A n \in 1 .. Len(stack) : n # o => w[n] = stack[n]
  BY <1>1, <1>4, <1>5
<1>7. /\ stack' \in Seq(FrameType) /\ Len(stack') = Len(stack) + 1
      /\ stack'[Len(stack) + 1] = f
      /\ \A n \in 1 .. Len(stack) : stack'[n] = w[n]
  <2>1. stack' = Append(w, f)
    BY DEF w
  <2>2. f \in FrameType /\ w \in Seq(FrameType)
    BY <1>6
  <2>3. /\ stack' \in Seq(FrameType) /\ Len(stack') = Len(w) + 1
        /\ stack'[Len(w) + 1] = f /\ \A n \in 1 .. Len(w) : stack'[n] = w[n]
    <3>1. PICK u : u = stack'
      OBVIOUS
    <3>2. u = Append(w, f)
      BY <3>1, <2>1
    <3>3. /\ u \in Seq(FrameType) /\ Len(u) = Len(w) + 1 /\ u[Len(w) + 1] = f
          /\ \A n \in 1 .. Len(w) : u[n] = w[n]
      BY <3>2, <2>2, AppendIs
    <3> QED BY <3>1, <3>3
  <2> QED BY <2>3, <1>6
<1>8. SameFrames(Len(stack))
  BY <1>1, <1>4, <1>6, <1>7 DEF SameFrames
<1>9. stack'[1] = stack[1] /\ stack'[2] = stack[2]
  <2>1. o # 1 /\ o # 2
    BY EvalBase DEF StackType
  <2> QED BY <2>1, <1>1, <1>6, <1>7
<1>10. stack'[o].forms # "kept"
  BY <1>4, <1>6, <1>7
<1> QED BY <1>1, <1>7, <1>8, <1>9, <1>10 DEF TypedStep

\* unbind_to undoes one binding, or begins the forms of an unwind-protect.
LEMMA UnbindSteps ==
  ASSUME StackType, Shape, Older, BoundInOrder, NEW L \in SUBSET Nat, Live(L), Eval!Unbind
  PROVE  PushesFrame \/ OnlyUnbinds
<1> DEFINE top == Len(specpdl)
           deeper == [lists EXCEPT !.depth = @ + 1]
<1>1. /\ Eval!Top = stack[Len(stack)] /\ Eval!Top.k = "unbind_to"
      /\ top \in Nat /\ top > Eval!Top.pdlcount /\ Eval!Top.pdlcount \in Nat
      /\ Len(stack) \in 1 .. Len(stack) /\ lists \in ListsType /\ Eval!Me = Len(stack) + 1
  BY TopIs, Types DEF Eval!Unbind, Eval!Me
<1>2. top > 0 /\ ~Leaving
  <2>1. top > 0
    BY <1>1
  <2>2. specpdl # <<>>
    BY <2>1
  <2> QED BY <2>1, <2>2 DEF Leaving
<1>3. PICK o \in 1 .. Len(stack) : o = specpdl[top] /\ stack[o].k \in Binding
  BY <1>1, <1>2 DEF BoundInOrder
<1>4. /\ specpdl' \in Seq(Nat) /\ Len(specpdl') = top - 1
      /\ \A i \in 1 .. top - 1 : specpdl'[i] = specpdl[i]
  <2>1. specpdl' = SubSeq(specpdl, 1, top - 1)
    BY DEF Eval!Unbind, Eval!Front
  <2>2. specpdl \in Seq(Nat)
    BY DEF StackType
  <2>3. PICK q \in 0 .. Len(specpdl) : q = top - 1
    <3>1. top \in Nat /\ top > 0
      BY <1>1, <1>2
    <3>2. top - 1 \in 0 .. top
      BY <3>1
    <3> QED BY <3>2
  <2>4. specpdl' = SubSeq(specpdl, 1, q)
    BY <2>1, <2>3
  <2>5. /\ specpdl' \in Seq(Nat) /\ Len(specpdl') = q
        /\ \A i \in 1 .. q : specpdl'[i] = specpdl[i]
    BY <2>2, <2>4, FrontOf
  <2> QED BY <2>3, <2>5
<1>5. \/ /\ stack[o].k # "unwind-protect" /\ stack' = stack /\ lists' = lists
      \/ /\ stack[o].k = "unwind-protect"
         /\ stack' = Append([stack EXCEPT ![o].forms = "refused"],
                            [Eval!Frame("unbind_to", "none") EXCEPT
                               !.pdlcount = stack[lists.catch].pdlcount,
                               !.jump = Eval!HandlerFor("error")])
         /\ lists' = deeper
      \/ /\ stack[o].k = "unwind-protect"
         /\ stack' = Append([stack EXCEPT ![o].forms = "begun"],
                            [Eval!Frame("eval", "none") EXCEPT !.pdlcount = top - 1])
         /\ lists' = [deeper EXCEPT !.backtrace = Len(stack) + 1]
  BY <1>1, <1>3 DEF Eval!Unbind, Eval!Last
<1>6. /\ deeper \in ListsType /\ deeper.catch = lists.catch /\ deeper.handler = lists.handler
      /\ [deeper EXCEPT !.backtrace = Len(stack) + 1] \in ListsType
      /\ Enters("eval", Eval!Top.k, Len(stack) + 1, lists,
                [deeper EXCEPT !.backtrace = Len(stack) + 1])
  <2>1. Len(stack) + 1 \in Int
    BY Types
  <2> QED BY <2>1, <1>1, Deeper
<1> HIDE DEF deeper
<1>7. CASE stack[o].k # "unwind-protect" /\ stack' = stack /\ lists' = lists
  <2>1. TypedStep /\ SameFrames(Len(stack))
    BY <1>4, <1>7, Types DEF TypedStep, SameFrames, StackType
  <2>2. Unbinds
    BY <2>1, <1>2, <1>3, <1>4, <1>7 DEF Unbinds
  <2> QED BY <2>2, <1>1, <1>7 DEF OnlyUnbinds
<1>8. CASE /\ stack[o].k = "unwind-protect"
           /\ stack' = Append([stack EXCEPT ![o].forms = "refused"],
                              [Eval!Frame("unbind_to", "none") EXCEPT
                                 !.pdlcount = stack[lists.catch].pdlcount,
                                 !.jump = Eval!HandlerFor("error")])
           /\ lists' = deeper
  <2>1. PICK p : p = stack[lists.catch].pdlcount
    OBVIOUS
  <2>2. PICK c : c = Eval!HandlerFor("error")
    OBVIOUS
  <2>3. \A M \in SUBSET Nat : Live(M) => c \in M /\ stack[c].k \in Catching
    BY <1>2, <2>2, TargetsAreLive
  <2>4. c \in Nat /\ c # 0
    <3>1. c \in L /\ L \subseteq 1 .. Len(stack)
      BY <2>3 DEF Live
    <3> QED BY <3>1
  <2>5. lists.catch \in L /\ lists.catch \in 1 .. Len(stack)
    BY <1>2, CatchIsLive
  <2>6. p \in Nat /\ p <= Eval!Top.pdlcount
    <3>1. Len(stack) \in L /\ lists.catch <= Len(stack)
      BY <2>5, <1>1 DEF Live
    <3>2. stack[lists.catch].pdlcount <= stack[Len(stack)].pdlcount
      BY <2>5, <3>1 DEF Live, Counts
    <3> QED BY <3>2, <2>1, <2>5, <1>1, Types
  <2>7. PICK f : f = [Eval!Frame("unbind_to", "none") EXCEPT !.pdlcount = p, !.jump = c]
    OBVIOUS
  <2>8. f \in FrameType /\ f.k = "unbind_to" /\ f.was = lists /\ f.pdlcount = p /\ f.jump = c
    <3>1. "unbind_to" \in Kinds /\ "none" \in TagSet
      BY DEF Kinds, TagSet
    <3>2. UnbindFrame("unbind_to", "none", p, c)
      BY <3>1, <2>4, <2>6, FrameIs
    <3> QED BY <3>2, <2>7 DEF UnbindFrame
  <2>9. stack' = Append([stack EXCEPT ![o].forms = "refused"], f)
    BY <1>8, <2>1, <2>2, <2>7
  <2>10. TypedStep /\ Len(stack') = Len(stack) + 1 /\ SameFrames(Len(stack))
         /\ NewFrame = f /\ stack'[o].forms # "kept"
    BY <1>4, <1>6, <1>8, <2>8, <2>9, OwnerIs DEF NewFrame
  <2>11. Unbinds
    BY <1>2, <1>3, <1>4, <2>10 DEF Unbinds
  <2>12. Grows
    BY <1>1, <1>2, <1>4, <2>6, <2>8, <2>10 DEF Grows
  <2>13. Jumps
    BY <2>1, <2>3, <2>4, <2>8, <2>10, <2>12, <1>6, <1>8 DEF Jumps
  <2> QED BY <2>8, <2>10, <2>11, <2>13 DEF PushesFrame
<1>9. CASE /\ stack[o].k = "unwind-protect"
           /\ stack' = Append([stack EXCEPT ![o].forms = "begun"],
                              [Eval!Frame("eval", "none") EXCEPT !.pdlcount = top - 1])
           /\ lists' = [deeper EXCEPT !.backtrace = Len(stack) + 1]
  <2>1. PICK f : f = [Eval!Frame("eval", "none") EXCEPT !.pdlcount = top - 1]
    OBVIOUS
  <2>2. f \in FrameType /\ f.k = "eval" /\ f.was = lists /\ f.pdlcount = top - 1 /\ f.jump = 0
    <3>1. "eval" \in Kinds
      BY DEF Kinds
    <3>2. PICK q \in Nat : q = top - 1
      BY <1>1, <1>2
    <3>3. f = [Eval!Frame("eval", "none") EXCEPT !.pdlcount = q]
      BY <2>1, <3>2
    <3>4. f \in FrameType /\ f.k = "eval" /\ f.was = lists /\ f.pdlcount = q /\ f.jump = 0
      BY <3>1, <3>3, FrameWith
    <3> QED BY <3>2, <3>4
  <2>3. stack' = Append([stack EXCEPT ![o].forms = "begun"], f)
    BY <1>9, <2>1
  <2>4. TypedStep /\ Len(stack') = Len(stack) + 1 /\ SameFrames(Len(stack))
         /\ NewFrame = f /\ stack'[o].forms # "kept"
    BY <1>4, <1>6, <1>9, <2>2, <2>3, OwnerIs DEF NewFrame
  <2>5. Unbinds
    BY <1>2, <1>3, <1>4, <2>4 DEF Unbinds
  <2>6. Grows
    BY <1>1, <1>2, <1>4, <2>2, <2>4 DEF Grows
  <2>7. Calls
    BY <1>1, <1>6, <1>9, <2>2, <2>4, <2>6 DEF Calls
  <2> QED BY <2>2, <2>4, <2>5, <2>7 DEF PushesFrame
<1> QED BY <1>5, <1>7, <1>8, <1>9

\* A sequence with one element replaced.
LEMMA ReplacedIs ==
  ASSUME NEW T, NEW s \in Seq(T), NEW i \in 1 .. Len(s), NEW x \in T,
         NEW u, u = [s EXCEPT ![i] = x]
  PROVE  /\ u \in Seq(T) /\ Len(u) = Len(s) /\ u[i] = x
         /\ \A n \in 1 .. Len(s) : n # i => u[n] = s[n]
OBVIOUS

\* The catch around the newest one of a jump that goes further.
LEMMA NextIsLive ==
  ASSUME StackType, Shape, Unwound, lists.catch # stack[Len(stack)].jump,
         NEW L \in SUBSET Nat, Live(L)
  PROVE  stack[lists.catch].was.catch \in 1 .. lists.catch - 1
<1> DEFINE c == lists.catch
           t == stack[Len(stack)].jump
<1>1. /\ c \in L /\ c \in 1 .. Len(stack) - 1 /\ t \in L /\ t \in 1 .. c - 1
      /\ stack[t].k \in Catching /\ stack[c].jump = 0
  BY TargetIsLive
<1>2. InLists(L, c) /\ Was(c) = stack[c].was
  BY <1>1, Types DEF Live, Was
<1> HIDE DEF c, t
<1>3. LastOf(stack[c].was.catch, L, Catching, c)
  BY <1>2 DEF InLists
<1>4. t <= stack[c].was.catch /\ stack[c].was.catch < c
  BY <1>1, <1>3 DEF LastOf
<1>5. stack[c].was.catch \in Int
  BY <1>1, Types DEF ListsType
<1> QED BY <1>1, <1>4, <1>5 DEF c

\* The frame in which the jump is goes on to the next catch.
LEMMA DiscardIs ==
  ASSUME StackType, NEW m \in Nat, m = Len(stack), m > 2, NEW p \in Nat,
         stack' = [stack EXCEPT ![m].pdlcount = p],
         specpdl' = specpdl, lists' \in ListsType
  PROVE  /\ TypedStep /\ Len(stack') = m /\ SameFrames(m - 1)
         /\ stack'[m].k = stack[m].k /\ stack'[m].was = stack[m].was
         /\ stack'[m].jump = stack[m].jump /\ stack'[m].pdlcount = p
<1>1. m \in 1 .. Len(stack) /\ stack \in Seq(FrameType) /\ stack[m] \in FrameType
      /\ Len(stack) \in Nat
  BY Types DEF StackType
<1>2. PICK g : g = [stack[m] EXCEPT !.pdlcount = p]
  OBVIOUS
<1>3. /\ g \in FrameType /\ g.k = stack[m].k /\ g.was = stack[m].was
      /\ g.jump = stack[m].jump /\ g.pdlcount = p
  BY <1>1, <1>2 DEF FrameType
<1>4. stack' = [stack EXCEPT ![m] = g]
  BY <1>2
<1>5. /\ stack' \in Seq(FrameType) /\ Len(stack') = m /\ stack'[m] = g
      /\ \A n \in 1 .. Len(stack) : n # m => stack'[n] = stack[n]
  <2>1. PICK u : u = stack'
    OBVIOUS
  <2>2. u = [stack EXCEPT ![m] = g] /\ g \in FrameType
    BY <2>1, <1>3, <1>4
  <2>3. /\ u \in Seq(FrameType) /\ Len(u) = Len(stack) /\ u[m] = g
        /\ \A n \in 1 .. Len(stack) : n # m => u[n] = stack[n]
    BY <2>2, <1>1, ReplacedIs
  <2> QED BY <2>1, <2>3
<1>6. \A n \in 1 .. m - 1 : n # m /\ n \in 1 .. Len(stack)
  BY <1>1
<1>7. SameFrames(m - 1)
  <2>1. m - 1 <= Len(stack) /\ m - 1 <= Len(stack')
    BY <1>1, <1>5
  <2>2. \A n \in 1 .. m - 1 : stack'[n] = stack[n]
    BY <1>5, <1>6
  <2> QED BY <2>1, <2>2 DEF SameFrames
<1>8. stack'[1] = stack[1] /\ stack'[2] = stack[2]
  BY <1>1, <1>5
<1>9. specpdl' \in Seq(Nat)
  BY DEF StackType
<1> QED BY <1>3, <1>5, <1>7, <1>8, <1>9 DEF TypedStep

\* A condition-case that is jumped to becomes one that handles.
LEMMA HandlingIs ==
  ASSUME StackType, NEW t \in 3 .. Len(stack),
         stack' = [SubSeq(stack, 1, t) EXCEPT ![t].k = "handling"],
         specpdl' = Append(specpdl, t), lists' \in ListsType
  PROVE  /\ TypedStep /\ Len(stack') = t /\ SameFrames(t - 1)
         /\ stack'[t].k = "handling" /\ stack'[t].was = stack[t].was
         /\ stack'[t].jump = stack[t].jump /\ stack'[t].pdlcount = stack[t].pdlcount
<1>1. /\ t \in 0 .. Len(stack) /\ t \in 1 .. t /\ stack \in Seq(FrameType)
      /\ stack[t] \in FrameType /\ Len(stack) \in Nat /\ t \in Nat
  BY Types DEF StackType
<1>2. PICK u : u = SubSeq(stack, 1, t)
  OBVIOUS
<1>3. u \in Seq(FrameType) /\ Len(u) = t /\ \A n \in 1 .. t : u[n] = stack[n]
  BY <1>1, <1>2, FrontOf
<1>4. PICK g : g = [u[t] EXCEPT !.k = "handling"]
  OBVIOUS
<1>5. /\ g \in FrameType /\ g.k = "handling" /\ g.was = stack[t].was
      /\ g.jump = stack[t].jump /\ g.pdlcount = stack[t].pdlcount
  <2>1. u[t] = stack[t] /\ "handling" \in Kinds
    BY <1>1, <1>3 DEF Kinds
  <2> QED BY <2>1, <1>1, <1>4 DEF FrameType
<1>6. stack' = [u EXCEPT ![t] = g]
  BY <1>2, <1>4
<1>7. /\ stack' \in Seq(FrameType) /\ Len(stack') = t /\ stack'[t] = g
      /\ \A n \in 1 .. t : n # t => stack'[n] = u[n]
  <2>1. PICK v : v = stack'
    OBVIOUS
  <2>2. v = [u EXCEPT ![t] = g] /\ g \in FrameType /\ t \in 1 .. Len(u)
    BY <2>1, <1>1, <1>3, <1>5, <1>6
  <2>3. /\ v \in Seq(FrameType) /\ Len(v) = Len(u) /\ v[t] = g
        /\ \A n \in 1 .. Len(u) : n # t => v[n] = u[n]
    BY <2>2, <1>3, ReplacedIs
  <2> QED BY <2>1, <2>3, <1>3
<1>8. SameFrames(t - 1)
  <2>1. t - 1 <= Len(stack) /\ t - 1 <= Len(stack')
    BY <1>1, <1>7
  <2>2. \A n \in 1 .. t - 1 : n \in 1 .. t /\ n # t
    BY <1>1
  <2>3. \A n \in 1 .. t - 1 : stack'[n] = stack[n]
    BY <2>2, <1>3, <1>7
  <2> QED BY <2>1, <2>3 DEF SameFrames
<1>9. stack'[1] = stack[1] /\ stack'[2] = stack[2]
  <2>1. 1 \in 1 .. t /\ 2 \in 1 .. t /\ t # 1 /\ t # 2
    BY <1>1
  <2> QED BY <2>1, <1>3, <1>7
<1>10. specpdl' \in Seq(Nat)
  BY <1>1 DEF StackType
<1>11. TypedStep
  <2>1. Len(stack') >= 2
    BY <1>7
  <2> QED BY <2>1, <1>7, <1>9, <1>10 DEF TypedStep
<1> QED BY <1>5, <1>7, <1>8, <1>11

\* unbind_catch discards a catch, or has come to the one that is jumped to: that
\* of the command loop, which starts anew, a catch, or a condition-case.
LEMMA UnbindCatchSteps ==
  ASSUME StackType, Shape, BoundInOrder, NEW L \in SUBSET Nat, Live(L), Eval!UnbindCatch
  PROVE  Discards \/ Handles \/ PopsFrames \/ StartsAnew
<1> DEFINE c == lists.catch
           t == stack[Len(stack)].jump
<1>1. Eval!Top = stack[Len(stack)]
  BY TopIs
<1>2. Unwound
  BY <1>1 DEF Eval!UnbindCatch, Unwound
<1>3. /\ c \in L /\ c \in 1 .. Len(stack) - 1
      /\ t \in L /\ t \in 1 .. c /\ stack[t].k \in Catching
      /\ stack[c].jump = 0 /\ stack[t].jump = 0 /\ Len(specpdl) = stack[c].pdlcount
  BY <1>2, TargetIsLive
<1>4. PICK m \in Nat : m = Len(stack)
  BY Types
<1>5. CASE c # t
  <2>1. PICK next : next = stack[c].was.catch
    OBVIOUS
  <2>2. next \in 1 .. c - 1 /\ next \in 1 .. Len(stack) /\ m > 2
    <3>1. next \in 1 .. c - 1
      BY <2>1, <1>2, <1>5, NextIsLive
    <3> QED BY <3>1, <1>3, <1>4
  <2>3. PICK p \in Nat : p = stack[next].pdlcount
    BY <2>2, Types
  <2>4. PICK h \in Int : h = stack[c].was.handler
    BY <1>3, <1>4, Types DEF ListsType
  <2>5. /\ lists' = [lists EXCEPT !.catch = next, !.handler = h]
        /\ stack' = [stack EXCEPT ![m].pdlcount = p] /\ specpdl' = specpdl
    BY <1>1, <1>4, <1>5, <2>1, <2>3, <2>4 DEF Eval!UnbindCatch
  <2>6. lists' \in ListsType /\ lists'.catch = next /\ lists'.handler = h
    <3>1. lists \in ListsType /\ next \in Int
      BY <2>2, Types
    <3> QED BY <3>1, <2>5 DEF ListsType
  <2>7. /\ TypedStep /\ Len(stack') = m /\ SameFrames(m - 1)
        /\ stack'[m].k = stack[m].k /\ stack'[m].was = stack[m].was
        /\ stack'[m].jump = stack[m].jump /\ stack'[m].pdlcount = p
    BY <1>4, <2>2, <2>5, <2>6, DiscardIs
  <2>8. Discards
    BY <1>2, <1>4, <1>5, <2>1, <2>3, <2>4, <2>5, <2>6, <2>7 DEF Discards, Unwound
  <2> QED BY <2>8
<1>6. CASE c = t /\ t <= 2
  <2>1. stack' = Eval!Base /\ lists' = Eval!BaseLists /\ specpdl' = specpdl
    BY <1>1, <1>6, EvalBase DEF Eval!UnbindCatch
  <2>2. stack[c].pdlcount = 0
    <3>1. c = 1 \/ c = 2
      BY <1>3, <1>6
    <3> QED BY <3>1, EvalBase DEF StackType
  <2>3. specpdl = <<>>
    BY <2>2, <1>3 DEF StackType
  <2> QED BY <2>1, <2>3 DEF Eval!EvalInit, StartsAnew
<1>7. CASE c = t /\ t > 2
  <2>1. PICK was \in ListsType : was = stack[t].was
    BY <1>3, Types
  <2>2. t \in 3 .. m - 1 /\ t \in 3 .. Len(stack)
    BY <1>3, <1>4, <1>7
  <2>3. /\ lists' = was
        /\ \/ stack[t].k = "catch" /\ stack' = SubSeq(stack, 1, t - 1) /\ specpdl' = specpdl
           \/ /\ stack[t].k # "catch" /\ specpdl' = Append(specpdl, t)
              /\ stack' = [SubSeq(stack, 1, t) EXCEPT ![t].k = "handling"]
    <3>1. c = t /\ ~(t <= Len(Eval!Base))
      BY <1>3, <1>7, EvalBase
    <3> QED BY <3>1, <1>1, <2>1 DEF Eval!UnbindCatch
  <2>4. CASE stack[t].k = "catch" /\ stack' = SubSeq(stack, 1, t - 1) /\ specpdl' = specpdl
    <3>1. PICK q \in 2 .. Len(stack) - 1 : q + 1 = t
      <4>1. t - 1 \in 2 .. Len(stack) - 1 /\ (t - 1) + 1 = t
        BY <2>2, <1>4
      <4> QED BY <4>1
    <3>2. q \in Nat /\ q \in 2 .. Len(stack) /\ q = t - 1
      BY <3>1, <2>2, <1>4
    <3>3. TypedStep /\ Len(stack') = q /\ SameFrames(q)
      <4>1. stack' = SubSeq(stack, 1, q)
        BY <3>2, <2>4
      <4> QED BY <4>1, <3>2, <2>1, <2>3, <2>4, PoppedIs
    <3>4. ~Leaving
      BY <1>7 DEF Leaving
    <3>5. \A M \in SUBSET Nat : Live(M) => q + 1 \in M
      BY <1>2, <1>7, <3>1, TargetIsLive
    <3>6. Pops(q)
      BY <1>3, <2>1, <2>3, <2>4, <3>1, <3>3, <3>4, <3>5 DEF Pops
    <3>7. ASSUME NEW i \in 1 .. Len(specpdl)
          PROVE  specpdl[i] <= q
      <4>1. specpdl[i] < t
        BY <1>3, <1>7 DEF Live, Counts
      <4> QED BY <4>1, <3>1, <3>2, Types
    <3> QED BY <3>2, <3>6, <3>7 DEF PopsFrames
  <2>5. CASE /\ stack[t].k # "catch" /\ specpdl' = Append(specpdl, t)
             /\ stack' = [SubSeq(stack, 1, t) EXCEPT ![t].k = "handling"]
    <3>1. PICK u \in 3 .. Len(stack) : u = t
      BY <2>2
    <3>2. /\ TypedStep /\ Len(stack') = u /\ SameFrames(u - 1)
          /\ stack'[u].k = "handling" /\ stack'[u].was = stack[u].was
          /\ stack'[u].jump = stack[u].jump /\ stack'[u].pdlcount = stack[u].pdlcount
      <4>1. specpdl' = Append(specpdl, u) /\ lists' \in ListsType
            /\ stack' = [SubSeq(stack, 1, u) EXCEPT ![u].k = "handling"]
        BY <3>1, <2>1, <2>3, <2>5
      <4> QED BY <4>1, HandlingIs
    <3>3. lists.catch = u /\ stack[Len(stack)].jump = u /\ u > 2 /\ stack[u].jump = 0
          /\ lists' = stack[u].was /\ specpdl' = Append(specpdl, u)
      BY <1>3, <1>7, <2>1, <2>3, <2>5, <3>1
    <3> HIDE DEF c, t
    <3>4. Handles
      BY <1>2, <3>2, <3>3 DEF Handles
    <3> QED BY <3>4
  <2> QED BY <2>3, <2>4, <2>5
<1> QED BY <1>3, <1>5, <1>6, <1>7

\* Every step of evaluation is one of these.
LEMMA StepsAre ==
  ASSUME EvalInv, Eval!EvalNext
  PROVE  EvalSteps
<1>1. /\ StackType /\ Shape /\ Older /\ Linked /\ BoundInOrder /\ Kept
      /\ \E L \in SUBSET Nat : Live(L)
  BY DEF EvalInv
<1>2. PICK L \in SUBSET Nat : Live(L)
  BY <1>1
<1>3. CASE \/ Eval!Args \/ Eval!EvalBody \/ Eval!Funwind_protect \/ Eval!Flet
           \/ \E tag \in Tags : Eval!Fcatch(tag)
           \/ \E cond \in Conditions : Eval!Fcondition_case(cond)
           \/ Eval!Throws \/ Eval!Signals
  BY <1>1, <1>2, <1>3, EvaluationPushes DEF EvalSteps
<1>4. CASE Eval!Top.k \in {"eval", "args", "catch", "condition-case"} /\ Eval!Return
  BY <1>1, <1>2, <1>4, ReturnPops DEF EvalSteps
<1>5. CASE Eval!ReturnUnbinding
  BY <1>1, <1>2, <1>5, ReturnUnbindingPushes DEF EvalSteps
<1>6. CASE Eval!Unbind
  BY <1>1, <1>2, <1>6, UnbindSteps DEF EvalSteps
<1>7. CASE Eval!Unbound
  BY <1>1, <1>2, <1>7, UnboundPops DEF EvalSteps
<1>8. CASE Eval!UnbindCatch
  BY <1>1, <1>2, <1>8, UnbindCatchSteps DEF EvalSteps
<1> QED BY <1>3, <1>4, <1>5, <1>6, <1>7, <1>8 DEF Eval!EvalNext

\* Such a step keeps the types of things.
LEMMA StackTypeNext ==
  ASSUME StackType, TypedStep
  PROVE  StackType'
BY DEF StackType, TypedStep

\* The lists in a new frame are of frames that are older.
LEMMA OlderNext ==
  ASSUME StackType, Older, NEW L \in SUBSET Nat, Live(L),
         PushesFrame \/ PopsFrames \/ OnlyUnbinds \/ Discards \/ Handles
  PROVE  Older'
<1>1. CASE PushesFrame
  <2>1. Grows
    BY <1>1 DEF PushesFrame, Calls, Jumps
  <2>2. lists.catch \in 1 .. Len(stack) /\ lists.handler \in 0 .. Len(stack)
    BY <2>1, CatchIsLive DEF Grows
  <2>3. PICK m \in Nat : m = Len(stack)
    BY Types
  <2>4. /\ Len(stack') = m + 1 /\ stack'[m + 1].was = lists
        /\ \A n \in 1 .. m : stack'[n].was = stack[n].was
    BY <2>1, <2>3 DEF Grows, SameFrames, NewFrame
  <2>5. ASSUME NEW n \in 1 .. m + 1
        PROVE  /\ stack'[n].was.catch \in 0 .. n - 1
               /\ stack'[n].was.handler \in 0 .. n - 1
    <3>1. CASE n = m + 1
      BY <3>1, <2>2, <2>3, <2>4
    <3>2. CASE n # m + 1
      <4>1. n \in 1 .. m
        BY <3>2, <2>3
      <4> QED BY <4>1, <2>3, <2>4 DEF Older
    <3> QED BY <3>1, <3>2
  <2> QED BY <2>4, <2>5 DEF Older
<1>2. CASE PopsFrames
  <2>1. PICK m \in Nat : Pops(m)
    BY <1>2 DEF PopsFrames
  <2>2. /\ m <= Len(stack) /\ Len(stack') = m
        /\ \A n \in 1 .. m : stack'[n].was = stack[n].was
    BY <2>1 DEF Pops, SameFrames
  <2>3. \A n \in 1 .. m : n \in 1 .. Len(stack)
    BY <2>2, Types
  <2> QED BY <2>2, <2>3 DEF Older
<1>3. CASE OnlyUnbinds
  BY <1>3 DEF OnlyUnbinds, Older
<1>4. CASE Discards
  <2>1. PICK m \in Nat : m = Len(stack)
    BY Types
  <2>2. /\ Len(stack') = m /\ stack'[m].was = stack[m].was
        /\ \A n \in 1 .. m - 1 : stack'[n].was = stack[n].was
    BY <1>4, <2>1 DEF Discards, SameFrames
  <2>3. \A n \in 1 .. m : n = m \/ n \in 1 .. m - 1
    BY <2>1
  <2>4. \A n \in 1 .. m : stack'[n].was = stack[n].was
    BY <2>2, <2>3
  <2> QED BY <2>1, <2>2, <2>4 DEF Older
<1>5. CASE Handles
  <2>1. PICK t \in Nat : t = lists.catch /\ t > 2
    <3>1. lists.catch \in Int
      BY Types DEF ListsType
    <3> QED BY <3>1, <1>5 DEF Handles
  <2>2. /\ Len(stack') = t /\ stack'[t].was = stack[t].was
        /\ t - 1 <= Len(stack)
        /\ \A n \in 1 .. t - 1 : stack'[n].was = stack[n].was
    BY <1>5, <2>1 DEF Handles, SameFrames
  <2>3. t \in 1 .. Len(stack)
    <3>1. InLists(L, Len(stack) + 1) /\ L \subseteq 1 .. Len(stack)
      BY DEF Live
    <3>2. lists.catch \in L
      BY <3>1, <2>1 DEF InLists, LastOf, Was
    <3> QED BY <3>1, <3>2, <2>1
  <2>4. \A n \in 1 .. t : n \in 1 .. Len(stack) /\ (n = t \/ n \in 1 .. t - 1)
    BY <2>1, <2>3, Types
  <2>5. \A n \in 1 .. t : stack'[n].was = stack[n].was
    BY <2>2, <2>4
  <2> QED BY <2>2, <2>4, <2>5 DEF Older
<1> QED BY <1>1, <1>2, <1>3, <1>4, <1>5

\* A binding is undone: the frames are linked as before, and live.
LEMMA UnbindsOnlyLinked ==
  ASSUME Shape, Linked, OnlyUnbinds
  PROVE  (Shape /\ Linked)'
<1>1. stack' = stack /\ lists' = lists
  BY DEF OnlyUnbinds
<1>2. \A n : Was(n)' = Was(n) /\ Caller(n)' = Caller(n)
  BY <1>1 DEF Was, Caller
<1>3. Shape'
  BY <1>1 DEF Shape
<1>4. Linked'
  BY <1>1, <1>2 DEF Linked, Enters
<1> QED BY <1>3, <1>4

\* What was live is so still.
LEMMA UnbindsOnlyLive ==
  ASSUME StackType, OnlyUnbinds, NEW L \in SUBSET Nat, Live(L)
  PROVE  Live(L)'
<1>1. /\ stack' = stack /\ lists' = lists /\ Len(specpdl) > 0
      /\ stack[Len(stack)].pdlcount < Len(specpdl)
      /\ Len(specpdl') = Len(specpdl) - 1
      /\ \A i \in 1 .. Len(specpdl) - 1 : specpdl'[i] = specpdl[i]
  BY DEF OnlyUnbinds, Unbinds
<1>2. \A n : Was(n)' = Was(n)
  BY <1>1 DEF Was
<1>3. \A n : InLists(L, n)' <=> InLists(L, n)
  BY <1>1, <1>2 DEF InLists, LastOf
<1>4. \A n : JumpsTo(L, n)' <=> JumpsTo(L, n)
  BY <1>1, <1>2 DEF JumpsTo
<1>5. ~Leaving
  <2>1. specpdl # <<>>
    BY <1>1
  <2> QED BY <2>1 DEF Leaving
<1>6. PICK q \in Nat : q + 1 = Len(specpdl)
  <2>1. Len(specpdl) - 1 \in Nat /\ (Len(specpdl) - 1) + 1 = Len(specpdl)
    BY <1>1, Types
  <2> QED BY <2>1
<1>7. Len(specpdl') = q /\ \A i \in 1 .. q : specpdl'[i] = specpdl[i]
  <2>1. Len(specpdl) - 1 = q
    BY <1>6
  <2> QED BY <2>1, <1>1
<1>8. L \subseteq 1 .. Len(stack) /\ Len(stack) \in L
  BY DEF Live
<1>9. ASSUME NEW n \in L
      PROVE  /\ stack[n].pdlcount <= q
             /\ \A j \in 1 .. stack[n].pdlcount : specpdl'[j] < n
  <2>1. n <= Len(stack) /\ stack[n].pdlcount \in Nat /\ stack[Len(stack)].pdlcount \in Nat
    BY <1>8, Types
  <2>2. stack[n].pdlcount <= stack[Len(stack)].pdlcount
    BY <2>1, <1>8 DEF Live, Counts
  <2>3. stack[n].pdlcount <= q
    BY <2>1, <2>2, <1>1, <1>6
  <2>4. \A j \in 1 .. stack[n].pdlcount : specpdl[j] < n
    BY DEF Live, Counts
  <2>5. \A j \in 1 .. stack[n].pdlcount : j \in 1 .. q
    BY <2>1, <2>3
  <2> QED BY <2>3, <2>4, <2>5, <1>7
<1>10. Counts(L)'
  <2>1. \A n, m \in L : n <= m => stack[n].pdlcount <= stack[m].pdlcount
    BY DEF Live, Counts
  <2> QED BY <2>1, <1>1, <1>7, <1>9 DEF Counts
<1>11. /\ L \subseteq 1 .. Len(stack) /\ {1, Len(stack)} \subseteq L
       /\ 2 \in L
       /\ \A n \in L : n > 1 /\ stack[n].jump = 0 => n - 1 \in L
  BY <1>5 DEF Live
<1>12. /\ \A n \in L : stack[n].jump = 0 => InLists(L, n)
       /\ \A n \in L : stack[n].jump # 0 => JumpsTo(L, n)
       /\ InLists(L, Len(stack) + 1)
  BY DEF Live
<1>13. /\ \A n \in L : stack'[n].jump = 0 => InLists(L, n)'
       /\ \A n \in L : stack'[n].jump # 0 => JumpsTo(L, n)'
       /\ InLists(L, Len(stack) + 1)'
  BY <1>1, <1>3, <1>4, <1>12
<1> QED BY <1>1, <1>10, <1>11, <1>13 DEF Live

\* What is bound has its frame after such a step, and what unbinds its entry.
LEMMA EntriesNext ==
  ASSUME StackType, Shape, BoundInOrder, Kept, NEW L \in SUBSET Nat, Live(L),
         PushesFrame \/ PopsFrames \/ OnlyUnbinds \/ Discards \/ Handles
  PROVE  (BoundInOrder /\ Kept)'
<1>0. /\ Len(stack) \in Nat /\ Len(specpdl) \in Nat
      /\ \A i \in 1 .. Len(specpdl) : specpdl[i] \in 1 .. Len(stack)
  BY Types DEF BoundInOrder
<1>1. CASE PushesFrame
  <2>1. PICK h \in Nat : h = Len(stack)
    BY <1>0
  <2>2. TypedStep /\ Len(stack') = h + 1 /\ SameFrames(h) /\ NewFrame = stack'[h + 1]
    BY <1>1, <2>1 DEF PushesFrame, Calls, Jumps, Grows, NewFrame
  <2>3. \A n \in h + 1 .. Len(stack') : n = h + 1
    BY <2>2
  <2>4. CASE specpdl' = specpdl /\ NewFrame.k # "unwind-protect"
    <3>1. \A n \in h + 1 .. Len(stack') : stack'[n].k # "unwind-protect"
      BY <2>2, <2>3, <2>4
    <3>2. \A i \in 1 .. Len(specpdl) : specpdl[i] <= h
      BY <1>0, <2>1
    <3> QED BY <3>1, <3>2, <2>2, <2>4, EntriesStay
  <2>5. CASE /\ specpdl' = Append(specpdl, Len(stack) + 1) /\ NewFrame.k \in Binding
             /\ NewFrame.pdlcount = Len(specpdl)
    <3>1. PICK t \in Nat : t = h + 1
      OBVIOUS
    <3>2. /\ t > 1 /\ Len(stack') = t /\ specpdl' = Append(specpdl, t)
          /\ stack'[t].k \in Binding /\ stack'[t].pdlcount = Len(specpdl)
          /\ \A i \in 1 .. Len(specpdl) : specpdl[i] < t
      BY <3>1, <2>1, <2>2, <2>5, <1>0 DEF StackType
    <3>3. SameFrames(t - 1)
      <4>1. t - 1 = h
        BY <3>1
      <4> QED BY <4>1, <2>2
    <3> QED BY <3>2, <3>3, <2>2, BindsEntries
  <2>6. CASE Unbinds /\ NewFrame.k # "unwind-protect"
    BY <2>1, <2>2, <2>3, <2>6, UnbindsEntries
  <2> QED BY <1>1, <2>4, <2>5, <2>6 DEF PushesFrame
<1>2. CASE PopsFrames
  <2>1. PICK m \in Nat : Pops(m) /\ \A i \in 1 .. Len(specpdl) : specpdl[i] <= m
    BY <1>2 DEF PopsFrames
  <2>2. TypedStep /\ Len(stack') = m /\ SameFrames(m) /\ specpdl' = specpdl
    BY <2>1 DEF Pops
  <2>3. \A n \in m + 1 .. Len(stack') : stack'[n].k # "unwind-protect"
    BY <2>2
  <2> QED BY <2>1, <2>2, <2>3, EntriesStay
<1>3. CASE OnlyUnbinds
  <2>1. \A n \in Len(stack) + 1 .. Len(stack') : stack'[n].k # "unwind-protect"
    BY <1>0, <1>3 DEF OnlyUnbinds
  <2> QED BY <2>1, <1>3, UnbindsEntries DEF OnlyUnbinds
<1>4. CASE Discards
  <2>1. PICK h \in Nat : h = Len(stack) - 1
    <3>1. Len(stack) - 1 \in Nat
      BY <1>0 DEF StackType
    <3> QED BY <3>1
  <2>2. /\ TypedStep /\ Len(stack') = h + 1 /\ SameFrames(h) /\ specpdl' = specpdl
        /\ stack[h + 1].k = "unbind_to" /\ stack'[h + 1].k = "unbind_to"
    <3>1. Len(stack) = h + 1
      BY <2>1, <1>0
    <3> QED BY <3>1, <2>1, <1>4 DEF Discards, Unwound
  <2>3. \A n \in h + 1 .. Len(stack') : n = h + 1
    BY <2>2
  <2>4. \A n \in h + 1 .. Len(stack') : stack'[n].k # "unwind-protect"
    BY <2>2, <2>3
  <2>5. ASSUME NEW i \in 1 .. Len(specpdl)
        PROVE  specpdl[i] <= h
    <3>1. PICK n : n = specpdl[i]
      OBVIOUS
    <3>2. n \in 1 .. h + 1 /\ stack[n].k \in Binding
      BY <3>1, <2>1, <1>0 DEF BoundInOrder
    <3>3. n # h + 1
      BY <3>2, <2>2 DEF Binding
    <3> QED BY <3>1, <3>2, <3>3
  <2> QED BY <2>2, <2>4, <2>5, EntriesStay
<1>5. CASE Handles
  <2>1. /\ lists.catch \in L /\ lists.catch \in 1 .. Len(stack) - 1
        /\ Len(specpdl) = stack[lists.catch].pdlcount
    BY <1>5, TargetIsLive DEF Handles
  <2>2. PICK t \in Nat : t = lists.catch
    BY <2>1
  <2>3. /\ t > 1 /\ TypedStep /\ Len(stack') = t /\ SameFrames(t - 1)
        /\ stack'[t].k \in Binding /\ stack'[t].pdlcount = Len(specpdl)
        /\ specpdl' = Append(specpdl, t)
    BY <1>5, <2>1, <2>2 DEF Handles, Binding
  <2>4. \A i \in 1 .. Len(specpdl) : specpdl[i] < t
    BY <2>1, <2>2 DEF Live, Counts
  <2> QED BY <2>3, <2>4, BindsEntries
<1> QED BY <1>1, <1>2, <1>3, <1>4, <1>5

\* Starting anew is as good as starting.
LEMMA EvalRestart == (Eval!EvalInit => EvalInv)'
<1>1. Eval!EvalInit => EvalInv
  BY EvalStart
<1> QED BY <1>1, PTL

\* The invariant of evaluation.
LEMMA EvalStep ==
  ASSUME EvalInv, [Eval!EvalNext]_(Eval!evalVars)
  PROVE  EvalInv'
<1>1. /\ StackType /\ Shape /\ Older /\ Linked /\ BoundInOrder /\ Kept
      /\ \E L \in SUBSET Nat : Live(L)
  BY DEF EvalInv
<1>2. PICK L \in SUBSET Nat : Live(L)
  BY <1>1
<1>3. CASE PushesFrame \/ PopsFrames \/ OnlyUnbinds \/ Discards \/ Handles
  <2>1. StackType'
    <3>1. TypedStep
      BY <1>3 DEF PushesFrame, Calls, Jumps, Grows, PopsFrames, Pops,
                  OnlyUnbinds, Unbinds, Discards, Handles
    <3> QED BY <3>1, <1>1, StackTypeNext
  <2>2. (Shape /\ Linked)'
    <3>1. CASE PushesFrame
      BY <3>1, <1>1, GrowsLinked DEF PushesFrame
    <3>2. CASE PopsFrames
      BY <3>2, <1>1, PopsLinked DEF PopsFrames
    <3>3. CASE OnlyUnbinds
      BY <3>3, <1>1, UnbindsOnlyLinked
    <3>4. CASE Discards
      BY <3>4, <1>1, DiscardsLinked
    <3>5. CASE Handles
      BY <3>5, <1>1, <1>2, HandlesLinked
    <3> QED BY <1>3, <3>1, <3>2, <3>3, <3>4, <3>5
  <2>3. \E M \in SUBSET Nat : Live(M)'
    <3>1. CASE PushesFrame
      BY <3>1, <1>1, <1>2, CallsLive, JumpsLive DEF PushesFrame
    <3>2. CASE PopsFrames
      BY <3>2, <1>1, <1>2, PopsLive DEF PopsFrames
    <3>3. CASE OnlyUnbinds
      BY <3>3, <1>1, <1>2, UnbindsOnlyLive
    <3>4. CASE Discards
      BY <3>4, <1>1, <1>2, DiscardsLive
    <3>5. CASE Handles
      BY <3>5, <1>1, <1>2, HandlesLive
    <3> QED BY <1>3, <3>1, <3>2, <3>3, <3>4, <3>5
  <2>4. Older'
    BY <1>1, <1>2, <1>3, OlderNext
  <2>5. (BoundInOrder /\ Kept)'
    BY <1>1, <1>2, <1>3, EntriesNext
  <2> QED BY <2>1, <2>2, <2>3, <2>4, <2>5 DEF EvalInv
<1>4. CASE StartsAnew
  BY <1>4, EvalRestart DEF StartsAnew
<1>5. CASE UNCHANGED Eval!evalVars
  <2>1. stack' = stack /\ specpdl' = specpdl /\ lists' = lists
    BY <1>5 DEF Eval!evalVars
  <2>2. (StackType /\ Shape /\ Older /\ BoundInOrder /\ Kept)'
    BY <1>1, <2>1 DEF StackType, Shape, Older, BoundInOrder, Kept
  <2>3. \A n : Was(n)' = Was(n) /\ Caller(n)' = Caller(n)
    BY <2>1 DEF Was, Caller
  <2>4. Linked'
    BY <1>1, <2>1, <2>3 DEF Linked, Enters
  <2>5. \A n : InLists(L, n)' <=> InLists(L, n)
    BY <2>1, <2>3 DEF InLists, LastOf
  <2>6. \A n : JumpsTo(L, n)' <=> JumpsTo(L, n)
    BY <2>1, <2>3 DEF JumpsTo
  <2>7. Counts(L)' /\ (Leaving' <=> Leaving)
    BY <1>2, <2>1 DEF Live, Counts, Leaving
  <2>8. Live(L)'
    BY <1>2, <2>1, <2>5, <2>6, <2>7 DEF Live
  <2> QED BY <2>2, <2>4, <2>8 DEF EvalInv
<1> QED BY <1>3, <1>4, <1>5, StepsAre DEF EvalSteps

-----------------------------------------------------------------------------
(***************************************************************************)
(* What the lists are, when there is no jump under way: frame by frame,    *)
(* what the C stack says of the frames up to that one.                     *)
(***************************************************************************)
UpTo(n, kinds) == {d \in 1 .. n : stack[d].k \in kinds}
Protecting(n) ==
  UpTo(n, {"args"}) \cup
  {d \in UpTo(n, {"unbind_to"}) : stack[d - 1].k = "unwind-protect"}
NewestIs(x, ns) == (ns = {} /\ x = 0) \/ (x \in ns /\ \A d \in ns : d <= x)
ListsUpTo(n) ==
  /\ NewestIs(Was(n + 1).catch, UpTo(n, Catching))
  /\ NewestIs(Was(n + 1).handler, UpTo(n, {"condition-case"}))
  /\ NewestIs(Was(n + 1).backtrace, UpTo(n, {"eval"}))
  /\ NewestIs(Was(n + 1).gcpro, Protecting(n))
  /\ Was(n + 1).depth = Cardinality(UpTo(n, {"eval"}))

\* One more frame, of some kinds or not.
LEMMA UpToNext ==
  ASSUME NEW n \in Nat, NEW kinds
  PROVE  UpTo(n + 1, kinds) = IF stack[n + 1].k \in kinds THEN UpTo(n, kinds) \cup {n + 1}
                              ELSE UpTo(n, kinds)
<1>1. \A d : d \in 1 .. n + 1 <=> d \in 1 .. n \/ d = n + 1
  OBVIOUS
<1> QED BY <1>1 DEF UpTo

\* One more frame that protects something from the collector, or not.
LEMMA ProtectingNext ==
  ASSUME NEW n \in Nat, n > 0 \/ stack[n + 1].k # "unbind_to"
  PROVE  Protecting(n + 1) =
           IF \/ stack[n + 1].k = "args"
              \/ stack[n + 1].k = "unbind_to" /\ Caller(n + 1) = "unwind-protect"
           THEN Protecting(n) \cup {n + 1} ELSE Protecting(n)
<1>1. \A d : d \in 1 .. n + 1 <=> d \in 1 .. n \/ d = n + 1
  OBVIOUS
<1>2. n > 0 => Caller(n + 1) = stack[(n + 1) - 1].k
  BY DEF Caller
<1>3. \A d : d \in Protecting(n + 1) <=>
         d \in Protecting(n) \/ (/\ d = n + 1
                                 /\ \/ stack[n + 1].k = "args"
                                    \/ /\ stack[n + 1].k = "unbind_to"
                                       /\ stack[(n + 1) - 1].k = "unwind-protect")
  BY <1>1 DEF Protecting, UpTo
<1>4. CASE \/ stack[n + 1].k = "args"
           \/ stack[n + 1].k = "unbind_to" /\ Caller(n + 1) = "unwind-protect"
  <2>1. \A d : d \in Protecting(n + 1) <=> d \in Protecting(n) \/ d = n + 1
    BY <1>2, <1>3, <1>4
  <2> QED BY <2>1, <1>4
<1>5. CASE ~ (\/ stack[n + 1].k = "args"
              \/ stack[n + 1].k = "unbind_to" /\ Caller(n + 1) = "unwind-protect")
  <2>1. \A d : d \in Protecting(n + 1) <=> d \in Protecting(n)
    BY <1>2, <1>3, <1>5
  <2> QED BY <2>1, <1>5
<1> QED BY <1>4, <1>5

\* The newest of frames.
LEMMA NewestIsNewest ==
  ASSUME NEW ns \in SUBSET Nat, NEW x, NewestIs(x, ns)
  PROVE  Eval!Newest(ns) = x
<1>1. CASE ns = {} /\ x = 0
  BY <1>1 DEF Eval!Newest
<1>2. CASE x \in ns /\ \A d \in ns : d <= x
  <2>1. \A y \in ns : (\A d \in ns : d <= y) => y = x
    BY <1>2
  <2>2. ns # {}
    BY <1>2
  <2> QED BY <1>2, <2>1, <2>2 DEF Eval!Newest
<1> QED BY <1>1, <1>2 DEF NewestIs

\* A frame that is added is the newest one.
LEMMA NewestAdded ==
  ASSUME NEW n \in Nat, NEW ns, ns \subseteq 1 .. n
  PROVE  NewestIs(n + 1, ns \cup {n + 1})
BY DEF NewestIs

\* The lists are of the frames up to any frame, and so up to the last one.
LEMMA ListsOfFrames ==
  ASSUME StackType, Shape, Linked, ~Eval!Jumping
  PROVE  ListsUpTo(Len(stack))
<1> DEFINE T == {n \in Nat : n <= Len(stack) => ListsUpTo(n)}
<1>0. Len(stack) \in Nat /\ \A n \in 1 .. Len(stack) : stack[n].jump = 0
  <2>1. \A n \in 1 .. Len(stack) : n \in DOMAIN stack
    BY Types DEF StackType
  <2> QED BY <2>1, Types DEF Shape, Eval!Jumping, Eval!Frames
<1>1. 0 \in T
  <2>1. Was(0 + 1) = Eval!Empty
    <3>1. Was(1) = stack[1].was
      BY <1>0 DEF Was, StackType
    <3> QED BY <3>1, EvalBase DEF StackType
  <2>2. \A kinds : UpTo(0, kinds) = {}
    BY DEF UpTo
  <2>3. Protecting(0) = {}
    BY <2>2 DEF Protecting
  <2>4. Cardinality({}) = 0
    BY FS_EmptySet
  <2>5. /\ Eval!Empty.catch = 0 /\ Eval!Empty.handler = 0 /\ Eval!Empty.backtrace = 0
        /\ Eval!Empty.gcpro = 0 /\ Eval!Empty.depth = 0
    BY DEF Eval!Empty
  <2>6. NewestIs(0, {})
    BY DEF NewestIs
  <2>7. ListsUpTo(0)
    BY <2>1, <2>2, <2>3, <2>4, <2>5, <2>6 DEF ListsUpTo
  <2> QED BY <2>7
<1>2. ASSUME NEW n \in T
      PROVE  n + 1 \in T
  <2> SUFFICES ASSUME n + 1 <= Len(stack)
               PROVE  ListsUpTo(n + 1)
    OBVIOUS
  <2>1. n \in Nat /\ ListsUpTo(n) /\ n + 1 \in 1 .. Len(stack) /\ n + 1 # Len(stack) + 1
    BY <1>0
  <2>2. PICK was \in ListsType : was = stack[n + 1].was /\ was = Was(n + 1)
    BY <2>1, Types DEF Was
  <2>3. PICK k : k = stack[n + 1].k
    OBVIOUS
  <2>4. PICK now : now = Was((n + 1) + 1)
    OBVIOUS
  <2>5. Enters(k, Caller(n + 1), n + 1, was, now)
    BY <1>0, <2>1, <2>2, <2>3, <2>4 DEF Linked
  <2>6. \A kinds : UpTo(n, kinds) \subseteq 1 .. n
    BY DEF UpTo
  <2>7. NewestIs(now.catch, UpTo(n + 1, Catching))
    <3>1. NewestIs(was.catch, UpTo(n, Catching))
      BY <2>1, <2>2 DEF ListsUpTo
    <3>2. NewestIs(n + 1, UpTo(n, Catching) \cup {n + 1})
      BY <2>1, <2>6, NewestAdded
    <3>3. now.catch = IF k \in Catching THEN n + 1 ELSE was.catch
      BY <2>5 DEF Enters
    <3>4. UpTo(n + 1, Catching) = IF k \in Catching THEN UpTo(n, Catching) \cup {n + 1} ELSE UpTo(n, Catching)
      BY <2>1, <2>3, UpToNext
    <3> QED BY <3>1, <3>2, <3>3, <3>4
  <2>8. NewestIs(now.handler, UpTo(n + 1, {"condition-case"}))
    <3>1. NewestIs(was.handler, UpTo(n, {"condition-case"}))
      BY <2>1, <2>2 DEF ListsUpTo
    <3>2. NewestIs(n + 1, UpTo(n, {"condition-case"}) \cup {n + 1})
      BY <2>1, <2>6, NewestAdded
    <3>3. now.handler = IF k \in {"condition-case"} THEN n + 1 ELSE was.handler
      BY <2>5 DEF Enters
    <3>4. UpTo(n + 1, {"condition-case"}) = IF k \in {"condition-case"} THEN UpTo(n, {"condition-case"}) \cup {n + 1} ELSE UpTo(n, {"condition-case"})
      BY <2>1, <2>3, UpToNext
    <3> QED BY <3>1, <3>2, <3>3, <3>4
  <2>9. NewestIs(now.backtrace, UpTo(n + 1, {"eval"}))
    <3>1. NewestIs(was.backtrace, UpTo(n, {"eval"}))
      BY <2>1, <2>2 DEF ListsUpTo
    <3>2. NewestIs(n + 1, UpTo(n, {"eval"}) \cup {n + 1})
      BY <2>1, <2>6, NewestAdded
    <3>3. now.backtrace = IF k \in {"eval"} THEN n + 1 ELSE was.backtrace
      BY <2>5 DEF Enters
    <3>4. UpTo(n + 1, {"eval"}) = IF k \in {"eval"} THEN UpTo(n, {"eval"}) \cup {n + 1} ELSE UpTo(n, {"eval"})
      BY <2>1, <2>3, UpToNext
    <3> QED BY <3>1, <3>2, <3>3, <3>4
  <2>10. NewestIs(now.gcpro, Protecting(n + 1))
    <3>1. NewestIs(was.gcpro, Protecting(n)) /\ Protecting(n) \subseteq 1 .. n
      BY <2>1, <2>2, <2>6 DEF ListsUpTo, Protecting
    <3>2. n > 0 \/ k # "unbind_to"
      <4>1. n = 0 => k = "catch"
        BY <2>3, EvalBase DEF StackType
      <4> QED BY <4>1, <2>1
    <3> QED BY <3>1, <3>2, <2>1, <2>3, <2>5, ProtectingNext, NewestAdded DEF Enters
  <2>11. now.depth = Cardinality(UpTo(n + 1, {"eval"}))
    <3>1. was.depth = Cardinality(UpTo(n, {"eval"}))
      BY <2>1, <2>2 DEF ListsUpTo
    <3>2. IsFiniteSet(UpTo(n, {"eval"})) /\ n + 1 \notin UpTo(n, {"eval"})
      <4>1. IsFiniteSet(1 .. n) /\ n + 1 \notin 1 .. n
        BY <2>1, FS_Interval
      <4> QED BY <4>1, <2>6, FS_Subset
    <3>3. Cardinality(UpTo(n, {"eval"}) \cup {n + 1}) = Cardinality(UpTo(n, {"eval"})) + 1
      BY <3>2, FS_AddElement
    <3>4. CASE k = "eval"
      <4>1. UpTo(n + 1, {"eval"}) = UpTo(n, {"eval"}) \cup {n + 1}
        BY <3>4, <2>1, <2>3, UpToNext
      <4>2. now.depth = was.depth + 1
        BY <3>4, <2>5 DEF Enters
      <4> QED BY <4>1, <4>2, <3>1, <3>3
    <3>5. CASE k # "eval"
      <4>1. UpTo(n + 1, {"eval"}) = UpTo(n, {"eval"})
        BY <3>5, <2>1, <2>3, UpToNext
      <4>2. now.depth = was.depth
        BY <3>5, <2>5 DEF Enters
      <4> QED BY <4>1, <4>2, <3>1
    <3> QED BY <3>4, <3>5
  <2> QED BY <2>4, <2>7, <2>8, <2>9, <2>10, <2>11 DEF ListsUpTo
<1>3. T = Nat
  <2>1. T \in SUBSET Nat
    OBVIOUS
  <2> HIDE DEF T
  <2> QED BY <1>1, <1>2, <2>1, NatSetInduction
<1> QED BY <1>0, <1>3

\* The cardinality that evaluation speaks of is that of FiniteSets.
LEMMA SameCardinality ==
  ASSUME NEW S
  PROVE  Eval!Cardinality(S) = Cardinality(S)
BY DEF Eval!Cardinality, Cardinality

\* So the lists are of the stack.
LEMMA ListsAreOfFrames ==
  ASSUME EvalInv
  PROVE  Eval!ListsAreOfStack
<1> SUFFICES ASSUME ~Eval!Jumping
             PROVE  Eval!ListsAreOfStack
  BY DEF Eval!ListsAreOfStack
<1>1. StackType /\ Shape /\ Linked /\ BoundInOrder
  BY DEF EvalInv
<1>2. PICK m \in Nat : m = Len(stack)
  BY <1>1, Types
<1>3. ListsUpTo(m)
  BY <1>1, <1>2, ListsOfFrames
<1>4. Was(m + 1) = lists /\ DOMAIN stack = 1 .. m
  BY <1>1, <1>2 DEF Was, StackType
<1>5. \A kinds : UpTo(m, kinds) = Eval!Frames(kinds) /\ Eval!Frames(kinds) \in SUBSET Nat
  BY <1>4 DEF UpTo, Eval!Frames
<1>6. Protecting(m) = Eval!Frames({"args"}) \cup
                      {n \in Eval!Frames({"unbind_to"}) : stack[n - 1].k = "unwind-protect"}
      /\ Protecting(m) \in SUBSET Nat
  BY <1>5 DEF Protecting
<1>7. NewestIs(lists.catch, Eval!Frames({"catch", "condition-case"}))
  BY <1>3, <1>4, <1>5 DEF ListsUpTo, Catching
<1>8. /\ NewestIs(lists.handler, Eval!Frames({"condition-case"}))
      /\ NewestIs(lists.backtrace, Eval!Frames({"eval"}))
      /\ NewestIs(lists.gcpro, Protecting(m))
      /\ lists.depth = Cardinality(Eval!Frames({"eval"}))
  BY <1>3, <1>4, <1>5 DEF ListsUpTo
<1>9. ASSUME NEW n \in DOMAIN specpdl
      PROVE  /\ specpdl[n] \in Eval!Frames({"unwind-protect", "let", "handling"})
             /\ \A i \in DOMAIN specpdl : i < n => specpdl[i] < specpdl[n]
  <2>1. DOMAIN specpdl = 1 .. Len(specpdl) /\ Len(specpdl) \in Nat
    BY <1>1 DEF StackType
  <2>2. n \in 1 .. Len(specpdl) /\ \A i \in DOMAIN specpdl : i < n => i \in 1 .. n - 1
    BY <2>1
  <2> QED BY <1>1, <1>2, <1>4, <2>2 DEF BoundInOrder, Eval!Frames, Binding
<1>10. /\ lists.catch = Eval!Newest(Eval!Frames({"catch", "condition-case"}))
       /\ lists.handler = Eval!Newest(Eval!Frames({"condition-case"}))
       /\ lists.backtrace = Eval!Newest(Eval!Frames({"eval"}))
       /\ lists.gcpro = Eval!Newest(Protecting(m))
  BY <1>5, <1>6, <1>7, <1>8, NewestIsNewest
<1>11. lists.depth = Eval!Cardinality(Eval!Frames({"eval"}))
  BY <1>8, SameCardinality
<1> QED BY <1>6, <1>9, <1>10, <1>11 DEF Eval!ListsAreOfStack

\* The frame of an unwind-protect whose forms are yet to run is not lost.
LEMMA FormsRun ==
  ASSUME EvalInv, [Eval!EvalNext]_(Eval!evalVars)
  PROVE  Eval!RunsUnwindForms
<1> SUFFICES ASSUME NEW n \in DOMAIN stack, stack[n].k = "unwind-protect",
                    stack[n].forms = "kept"
             PROVE  n \in DOMAIN stack' /\ stack'[n].k = "unwind-protect"
  BY DEF Eval!RunsUnwindForms, Eval!Frames
<1>1. StackType /\ Shape /\ BoundInOrder /\ Kept /\ \E L \in SUBSET Nat : Live(L)
  BY DEF EvalInv
<1>2. PICK L \in SUBSET Nat : Live(L)
  BY <1>1
<1>3. n \in 1 .. Len(stack) /\ Len(stack) \in Nat /\ Len(specpdl) \in Nat
  BY <1>1, Types DEF StackType
<1>4. PICK i \in 1 .. Len(specpdl) : specpdl[i] = n
  <2>1. stack[n].pdlcount \in Nat /\ stack[n].pdlcount < Len(specpdl)
        /\ specpdl[stack[n].pdlcount + 1] = n
    BY <1>1, <1>3, Types DEF Kept
  <2>2. stack[n].pdlcount + 1 \in 1 .. Len(specpdl)
    BY <2>1, <1>3
  <2> QED BY <2>1, <2>2
<1>5. ASSUME NEW m \in Nat, SameFrames(m), TypedStep, n <= m
      PROVE  n \in DOMAIN stack' /\ stack'[n].k = "unwind-protect"
  <2>1. n \in 1 .. m /\ m <= Len(stack') /\ stack' \in Seq(FrameType)
    BY <1>3, <1>5 DEF SameFrames, TypedStep
  <2>2. n \in DOMAIN stack'
    BY <2>1, <1>3
  <2> QED BY <2>1, <2>2, <1>5 DEF SameFrames
<1>6. CASE PushesFrame \/ OnlyUnbinds
  <2>1. SameFrames(Len(stack)) /\ TypedStep
    BY <1>6 DEF PushesFrame, Calls, Jumps, Grows, OnlyUnbinds, Unbinds
  <2> QED BY <2>1, <1>3, <1>5
<1>7. CASE PopsFrames
  <2>1. PICK m \in Nat : Pops(m) /\ \A j \in 1 .. Len(specpdl) : specpdl[j] <= m
    BY <1>7 DEF PopsFrames
  <2> QED BY <2>1, <1>4, <1>5 DEF Pops
<1>8. CASE Discards
  <2>1. Len(stack) - 1 \in Nat /\ n <= Len(stack) - 1
    <3>1. n # Len(stack)
      BY <1>8 DEF Discards, Unwound
    <3> QED BY <3>1, <1>3
  <2> QED BY <2>1, <1>5, <1>8 DEF Discards
<1>9. CASE Handles
  <2>1. /\ lists.catch \in L /\ lists.catch \in 1 .. Len(stack) - 1
        /\ Len(specpdl) = stack[lists.catch].pdlcount
    BY <1>1, <1>2, <1>9, TargetIsLive DEF Handles
  <2>2. specpdl[i] < lists.catch
    BY <2>1, <1>2, <1>4 DEF Live, Counts
  <2>3. lists.catch - 1 \in Nat /\ n <= lists.catch - 1
    BY <2>1, <2>2, <1>3, <1>4
  <2> QED BY <2>3, <1>5, <1>9 DEF Handles
<1>10. CASE StartsAnew
  BY <1>4, <1>10 DEF StartsAnew
<1>11. CASE UNCHANGED Eval!evalVars
  BY <1>11 DEF Eval!evalVars
<1> QED BY <1>6, <1>7, <1>8, <1>9, <1>10, <1>11, StepsAre DEF EvalSteps

\* The invariant holds throughout the session.
LEMMA EvalAlways == SessionsSpec => [](session = "eval" => EvalInv)
<1> DEFINE I == session = "eval" => EvalInv
<1>1. SessionsInit => I
  BY EvalStart DEF SessionsInit
<1>2. I /\ [SessionsNext]_sessionsVars => I'
  <2> SUFFICES ASSUME I, [SessionsNext]_sessionsVars, session' = "eval"
               PROVE  EvalInv'
    OBVIOUS
  <2>1. session = "eval" /\ [Eval!EvalNext]_(Eval!evalVars)
    BY DEF SessionsNext, sessionsVars, evalVars, Eval!evalVars
  <2> QED BY <2>1, EvalStep
<1> QED BY <1>1, <1>2, PTL DEF SessionsSpec

\* But in the course of a jump, the catches, the handlers, the backtrace, what
\* the collector is shown and the depth are those of the frames on the C stack,
\* however evaluations and unwind forms were left (eval.c).
THEOREM ListsAlwaysMatch == SessionsSpec => []ListsMatchStack
<1>1. (session = "eval" => EvalInv) => ListsMatchStack
  BY ListsAreOfFrames DEF ListsMatchStack
<1> QED BY <1>1, EvalAlways, PTL

\* The forms of an unwind-protect are begun before its frame goes, or refused at
\* the limit of the depth (eval.c, unbind_to).
THEOREM UnwindFormsAlwaysRun == SessionsSpec => UnwindFormsRun
<1>1. (session = "eval" => EvalInv) /\ [SessionsNext]_sessionsVars
        => [session = "eval" => Eval!RunsUnwindForms]_sessionsVars
  <2> SUFFICES ASSUME EvalInv, session = "eval", [SessionsNext]_sessionsVars
               PROVE  Eval!RunsUnwindForms
    OBVIOUS
  <2>1. [Eval!EvalNext]_(Eval!evalVars)
    BY DEF SessionsNext, sessionsVars, evalVars, Eval!evalVars
  <2> QED BY <2>1, FormsRun
<1> QED BY <1>1, EvalAlways, PTL DEF SessionsSpec, UnwindFormsRun
=============================================================================
