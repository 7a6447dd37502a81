-------------------------------- MODULE Eval --------------------------------
(***************************************************************************)
(* Evaluation and the ways out of it (eval.c): catch and throw,            *)
(* condition-case and signal, unwind-protect, the stack of bindings, and   *)
(* the lists whose elements are in the stack frames of C functions:        *)
(* catchlist, handlerlist, backtrace_list and gcprolist.                   *)
(*                                                                         *)
(* A frame is known by its place on the C stack; 0 is the null pointer.    *)
(* What is evaluated is any program that the bounds allow.  The first two  *)
(* frames are the command loop's: its catch for top-level, and within it   *)
(* the handler that prints the message of any error.                       *)
(***************************************************************************)
EXTENDS Integers, Sequences, SequencesExt, FiniteSets

CONSTANTS
  Tags,                  \* of catches, "top-level" apart
  Conditions,            \* that a signal may have; "error" is one
  max_lisp_eval_depth,
  MaxStack               \* bound: frames on the C stack

EvalAssumption ==
  /\ max_lisp_eval_depth \in Nat /\ MaxStack \in Nat
  /\ "error" \in Conditions /\ "top-level" \notin Tags

VARIABLES
  stack,     \* the C stack, the newest frame last
  specpdl,   \* bindings and unwind-protects: the frames that made them
  lists      \* the four lists and lisp_eval_depth

evalVars == <<stack, specpdl, lists>>

(***************************************************************************)
(* A frame: the function, a catch's tag or a handler's condition, what the *)
(* lists were, how much specpdl held.  Of an unwind-protect, how its forms *)
(* fared; of unbind_to, whereto a jump follows, 0 if it only returns.      *)
(***************************************************************************)
Frame(k, tag) ==
  [k |-> k, tag |-> tag, was |-> lists, pdlcount |-> Len(specpdl),
   forms |-> "kept", jump |-> 0]

Me == Len(stack) + 1
Top == stack[Len(stack)]
Push(f) == Len(stack) < MaxStack /\ stack' = Append(stack, f)
Up == Front(stack)

Empty == [catch |-> 0, handler |-> 0, backtrace |-> 0, gcpro |-> 0, depth |-> 0]
Base ==
  LET c == [k |-> "catch", tag |-> "top-level", was |-> Empty, pdlcount |-> 0,
            forms |-> "kept", jump |-> 0]
  IN <<c, [c EXCEPT !.k = "condition-case", !.tag = "any",
                    !.was = [Empty EXCEPT !.catch = 1]]>>
BaseLists == [Empty EXCEPT !.catch = 2, !.handler = 2]

EvalInit == stack = Base /\ specpdl = <<>> /\ lists = BaseLists

-----------------------------------------------------------------------------
\* The lists go from frame to frame: the first of them that will do, or 0.
FirstOf(suits, from, field) ==
  LET walk[n \in 0 .. Len(stack)] ==
        IF n \in suits \cup {0} THEN n ELSE walk[stack[n].was[field]]
  IN walk[from]

\* Fsignal, Fthrow: the handler, the catch that is jumped to.  An applicable
\* handler there always is, the command loop's.
HandlerFor(cond) ==
  FirstOf({n \in DOMAIN stack : stack[n].tag \in {cond, "any"}},
          lists.handler, "handler")
CatchFor(tag) ==
  FirstOf({n \in DOMAIN stack : stack[n].k = "catch" /\ stack[n].tag = tag},
          lists.catch, "catch")

\* unbind_catch begins, with ls for the lists, with the innermost catch.
JumpTo(c, ls) ==
  /\ stack' = Append(stack, [Frame("unbind_to", "none") EXCEPT
                               !.pdlcount = stack[ls.catch].pdlcount, !.jump = c])
  /\ lists' = ls /\ UNCHANGED specpdl

Signal(cond) == JumpTo(HandlerFor(cond), lists)

Throw(tag) ==
  IF CatchFor(tag) = 0 THEN Signal("error") ELSE JumpTo(CatchFor(tag), lists)

\* Feval of a list.  The depth counts the call also if that is too deep.
Feval ==
  LET deeper == [lists EXCEPT !.depth = @ + 1]
  IN IF deeper.depth > max_lisp_eval_depth
     THEN JumpTo(HandlerFor("error"), deeper)
     ELSE /\ Push(Frame("eval", "none"))
          /\ lists' = [deeper EXCEPT !.backtrace = Me]
          /\ UNCHANGED specpdl

-----------------------------------------------------------------------------
Evaluating == Top.k \in {"eval", "args", "catch", "condition-case", "handling",
                         "unwind-protect", "let"}

\* What may be evaluated: something with arguments to evaluate first ...
Args ==
  /\ Top.k = "eval" /\ Push(Frame("args", "none"))
  /\ lists' = [lists EXCEPT !.gcpro = Me] /\ UNCHANGED specpdl

Fcatch(tag) ==
  /\ Top.k = "eval" /\ Push(Frame("catch", tag))
  /\ lists' = [lists EXCEPT !.catch = Me] /\ UNCHANGED specpdl

Fcondition_case(cond) ==
  /\ Top.k = "eval" /\ Push(Frame("condition-case", cond))
  /\ lists' = [lists EXCEPT !.catch = Me, !.handler = Me] /\ UNCHANGED specpdl

\* record_unwind_protect, specbind
Funwind_protect ==
  /\ Top.k = "eval" /\ Push(Frame("unwind-protect", "none"))
  /\ specpdl' = Append(specpdl, Me) /\ UNCHANGED lists
Flet ==
  /\ Top.k = "eval" /\ Push(Frame("let", "none"))
  /\ specpdl' = Append(specpdl, Me) /\ UNCHANGED lists

\* ... and the body of each of them.
EvalBody == Evaluating /\ Top.k # "eval" /\ Len(stack) < MaxStack /\ Feval

Throws == Top.k = "eval" /\ \E tag \in Tags \cup {"top-level"} : Throw(tag)
Signals == Top.k = "eval" /\ \E cond \in Conditions : Signal(cond)

\* Plausible bug: a condition-case that returns leaves its handler.
ReturnKeepingHandler ==
  /\ Len(stack) > Len(Base)
  /\ lists' =
       CASE Top.k = "eval" -> [lists EXCEPT !.depth = @ - 1,
                                            !.backtrace = Top.was.backtrace]
         [] Top.k = "args" -> [lists EXCEPT !.gcpro = Top.was.gcpro]
         [] Top.k \in {"catch", "condition-case"} ->
              [lists EXCEPT !.catch = Top.was.catch]
  /\ stack' = Up /\ UNCHANGED specpdl

\* Back to the caller; each function puts back what it has set.
Return ==
  /\ Len(stack) > Len(Base)
  /\ lists' =
       CASE Top.k = "eval" -> [lists EXCEPT !.depth = @ - 1,
                                            !.backtrace = Top.was.backtrace]
         [] Top.k = "args" -> [lists EXCEPT !.gcpro = Top.was.gcpro]
         [] Top.k = "catch" -> [lists EXCEPT !.catch = Top.was.catch]
         [] Top.k = "condition-case" ->
              [lists EXCEPT !.catch = Top.was.catch, !.handler = Top.was.handler]
  /\ stack' = Up /\ UNCHANGED specpdl

\* With bindings to undo: unwind-protect protects its value meanwhile.
ReturnUnbinding ==
  /\ Top.k \in {"unwind-protect", "let", "handling"}
  /\ stack' = Append(stack, [Frame("unbind_to", "none") EXCEPT
                               !.pdlcount = Top.pdlcount])
  /\ lists' = IF Top.k = "unwind-protect" THEN [lists EXCEPT !.gcpro = Me]
              ELSE lists
  /\ UNCHANGED specpdl

-----------------------------------------------------------------------------
\* unbind_to.  An unwind-protect's forms are evaluated at the depth of what
\* was left, which may be too deep.
Unbind ==
  /\ Top.k = "unbind_to" /\ Len(specpdl) > Top.pdlcount
  /\ Len(stack) < MaxStack
  /\ LET owner == Last(specpdl)
         deeper == [lists EXCEPT !.depth = @ + 1]
         refused == deeper.depth > max_lisp_eval_depth
         With(forms) == [stack EXCEPT ![owner].forms = forms]
     IN /\ specpdl' = Front(specpdl)
        /\ IF stack[owner].k # "unwind-protect" THEN UNCHANGED <<stack, lists>>
           ELSE IF refused
           THEN /\ stack' = Append(With("refused"),
                       [Frame("unbind_to", "none") EXCEPT
                          !.pdlcount = stack[lists.catch].pdlcount,
                          !.jump = HandlerFor("error")])
                /\ lists' = deeper
           ELSE /\ stack' = Append(With("begun"),
                              [Frame("eval", "none") EXCEPT !.pdlcount = Len(specpdl) - 1])
                /\ lists' = [deeper EXCEPT !.backtrace = Me]

\* Done, in a function that returns.
Unbound ==
  /\ Top.k = "unbind_to" /\ Top.jump = 0 /\ Len(specpdl) = Top.pdlcount
  /\ lists' = [lists EXCEPT !.gcpro = Last(Up).was.gcpro]
  /\ stack' = Front(Up) /\ UNCHANGED specpdl

\* Plausible bug: the catch that is jumped to keeps its bindings.
UnbindCatchShort ==
  /\ Top.k = "unbind_to" /\ Top.jump # 0 /\ Len(specpdl) = Top.pdlcount
  /\ LET c == lists.catch
         target == stack[Top.jump]
         next == stack[c].was.catch
     IN IF c # Top.jump /\ next # Top.jump
        THEN /\ lists' = [lists EXCEPT !.catch = next, !.handler = stack[c].was.handler]
             /\ stack' = [stack EXCEPT ![Len(stack)].pdlcount = stack[next].pdlcount]
             /\ UNCHANGED specpdl
        ELSE IF Top.jump <= Len(Base)
        THEN stack' = Base /\ lists' = BaseLists /\ UNCHANGED specpdl
        ELSE /\ lists' = target.was
             /\ IF target.k = "catch"
                THEN stack' = SubSeq(stack, 1, Top.jump - 1) /\ UNCHANGED specpdl
                ELSE /\ stack' = [SubSeq(stack, 1, Top.jump) EXCEPT ![Top.jump].k = "handling"]
                     /\ specpdl' = Append(specpdl, Top.jump)

(***************************************************************************)
(* unbind_catch: that catch is discarded, and those up to it in turn, each *)
(* when what was bound within it is unbound, with its handler.  Then the   *)
(* jump: a catch returns; a condition-case binds its variable and handles. *)
(***************************************************************************)
UnbindCatch ==
  /\ Top.k = "unbind_to" /\ Top.jump # 0 /\ Len(specpdl) = Top.pdlcount
  /\ LET c == lists.catch
         target == stack[Top.jump]
         next == stack[c].was.catch
     IN IF c # Top.jump
        THEN /\ lists' = [lists EXCEPT !.catch = next, !.handler = stack[c].was.handler]
             /\ stack' = [stack EXCEPT ![Len(stack)].pdlcount = stack[next].pdlcount]
             /\ UNCHANGED specpdl
        ELSE IF Top.jump <= Len(Base)
        THEN stack' = Base /\ lists' = BaseLists /\ UNCHANGED specpdl
        ELSE /\ lists' = target.was
             /\ IF target.k = "catch"
                THEN stack' = SubSeq(stack, 1, Top.jump - 1) /\ UNCHANGED specpdl
                ELSE /\ stack' = [SubSeq(stack, 1, Top.jump) EXCEPT ![Top.jump].k = "handling"]
                     /\ specpdl' = Append(specpdl, Top.jump)

EvalNext ==
  \/ Args \/ EvalBody \/ Funwind_protect \/ Flet
  \/ \E tag \in Tags : Fcatch(tag)
  \/ \E cond \in Conditions : Fcondition_case(cond)
  \/ Throws \/ Signals
  \/ Top.k \in {"eval", "args", "catch", "condition-case"} /\ Return
  \/ ReturnUnbinding \/ Unbind \/ Unbound \/ UnbindCatch

EvalSpec == EvalInit /\ [][EvalNext]_evalVars

-----------------------------------------------------------------------------
Frames(kinds) == {n \in DOMAIN stack : stack[n].k \in kinds}
Newest(ns) == IF ns = {} THEN 0 ELSE CHOOSE n \in ns : \A m \in ns : m <= n
Jumping == \E n \in Frames({"unbind_to"}) : stack[n].jump # 0

(***************************************************************************)
(* But in the course of a jump, the lists are what the C stack says, so    *)
(* that no way out of an evaluation, nor one out of an unwind form in the  *)
(* course of another, leaves any of them with a frame that is gone or      *)
(* without one that is there; and what is bound has a frame to unbind it.  *)
(***************************************************************************)
ListsAreOfStack ==
  ~Jumping =>
    /\ lists.catch = Newest(Frames({"catch", "condition-case"}))
    /\ lists.handler = Newest(Frames({"condition-case"}))
    /\ lists.backtrace = Newest(Frames({"eval"}))
    /\ lists.gcpro = Newest(Frames({"args"}) \cup
                            {n \in Frames({"unbind_to"}) :
                               stack[n - 1].k = "unwind-protect"})
    /\ lists.depth = Cardinality(Frames({"eval"}))
    /\ \A n \in DOMAIN specpdl :
         /\ specpdl[n] \in Frames({"unwind-protect", "let", "handling"})
         /\ \A m \in DOMAIN specpdl : m < n => specpdl[m] < specpdl[n]

(***************************************************************************)
(* "If BODYFORM exits nonlocally, the UNWINDFORMS are executed anyway"     *)
(* (eval.c:891): the frame of an unwind-protect does not go before its     *)
(* forms have been begun, or refused because the depth is at its limit.    *)
(***************************************************************************)
RunsUnwindForms ==
  \A n \in Frames({"unwind-protect"}) :
    n \notin DOMAIN stack' \/ stack'[n].k # "unwind-protect"
      => stack[n].forms # "kept"
=============================================================================
