---------------------------- MODULE BufferLocals ----------------------------
(***************************************************************************)
(* How Emacs keeps the variable that Variables describes (data.c, eval.c,  *)
(* buffer.c).  Its value cell holds the value of one buffer only, the one  *)
(* for which it was used last; the others are in the buffers' alists, and  *)
(* every access swaps them when the current buffer is another.  A variable *)
(* that forwards into C is swapped already when the buffer is selected,    *)
(* since C code reads it without asking.                                   *)
(*                                                                         *)
(* The variable is never void, and no buffer is killed.                    *)
(***************************************************************************)
EXTENDS Naturals, Sequences

CONSTANTS Buffers, Values, MaxDepth,
          NoValue   \* no element in a buffer's alist

BufferLocalsAssumption ==
  NoValue \notin Values /\ {"nil", "default", "dead"} \cap Buffers = {}

VARIABLES
  sym,        \* the value cell and all that belongs to it, see Symbol
  current,    \* current_buffer
  stack,      \* specpdl, as in Variables
  unused      \* not looked up since it was made local or killed somewhere

localVars == <<sym, current, stack, unused>>

None == "nil"
Default == "default"

(***************************************************************************)
(* (REALVALUE BUFFER CURRENT-ALIST-ELEMENT . DEFAULT): the last two are    *)
(* one cons, to which CURRENT-ALIST-ELEMENT points when BUFFER has no      *)
(* element; "dead" is an element deleted from its alist.  For a slot of    *)
(* struct buffer, alist holds the slots, default buffer_defaults, and      *)
(* flags the buffers with the bit in local_var_flags.                      *)
(***************************************************************************)
Symbol ==
  [kind : {"plain", "some", "always", "slot"}, forwarded : BOOLEAN,
   realvalue : Values, buffer : Buffers \cup {None},
   element : Buffers \cup {Default, "dead"}, default : Values,
   alist : [Buffers -> Values \cup {NoValue}], flags : SUBSET Buffers]

Swapped(s) == s.kind \in {"some", "always"}
HasOwn(s, b) == s.alist[b] # NoValue

\* "Swap out": the value goes to the element from which it came.
SwapOut(s) ==
  CASE s.element \in Buffers -> [s EXCEPT !.alist[s.element] = s.realvalue]
    [] s.element = Default -> [s EXCEPT !.default = s.realvalue]
    [] OTHER -> s

Encache(s, b, e) == [s EXCEPT !.buffer = b, !.element = e]

\* Fsymbol_value, with b current, leaves the cell like this.
Fsymbol_value(s, b) ==
  IF ~Swapped(s) \/ s.buffer = b THEN s
  ELSE LET o == SwapOut(s)
       IN IF HasOwn(o, b)
            THEN [Encache(o, b, b) EXCEPT !.realvalue = o.alist[b]]
            ELSE [Encache(o, b, Default) EXCEPT !.realvalue = o.default]

ValueIn(s, b) ==
  IF s.kind = "slot" THEN s.alist[b] ELSE Fsymbol_value(s, b).realvalue

\* The element to which Fset stores: one is made if the kind asks for it, and
\* of the other kind it is the cached one if that is the current buffer's.
ForSetting(s, b) ==
  IF s.kind = "some" /\ s.buffer = b THEN s
  ELSE LET o == SwapOut(s)
       IN IF HasOwn(o, b) THEN Encache(o, b, b)
          ELSE IF s.kind = "some" THEN Encache(o, b, Default)
          ELSE [Encache(o, b, b) EXCEPT !.alist[b] = s.realvalue]

Fset(s, b, v) ==
  CASE s.kind = "plain" -> [s EXCEPT !.realvalue = v]
    [] s.kind = "slot" -> [s EXCEPT !.alist[b] = v, !.flags = @ \cup {b}]
    [] OTHER ->
         LET t == ForSetting(s, b)
         IN [t EXCEPT !.realvalue = v,
                      !.default = IF t.element = Default THEN v ELSE @]

\* Plausible bug: the slots of buffers that see the default are left alone.
SetDefaultOnly(s, v) ==
  CASE s.kind = "plain" -> [s EXCEPT !.realvalue = v]
    [] s.kind = "slot" -> [s EXCEPT !.default = v]
    [] OTHER ->
         [s EXCEPT !.default = v,
                   !.realvalue = IF s.element = Default THEN v ELSE @]

Fset_default(s, v) ==
  CASE s.kind = "plain" -> [s EXCEPT !.realvalue = v]
    [] s.kind = "slot" ->
         [s EXCEPT !.default = v,
            !.alist = [b \in Buffers |-> IF b \in s.flags THEN @[b] ELSE v]]
    [] OTHER ->
         [s EXCEPT !.default = v,
                   !.realvalue = IF s.element = Default THEN v ELSE @]

\* The cons that make-local-variable and make-variable-buffer-local put around
\* the value of a plain variable.
Wrapped(s, kind, b) ==
  [s EXCEPT !.kind = kind, !.buffer = b, !.element = Default,
            !.default = s.realvalue]

\* The cell is to look once again for this buffer's value.
LookAgain(s, b) == [s EXCEPT !.buffer = IF @ = b THEN None ELSE @]

Fmake_local_variable(s, b) ==
  LET t == IF s.kind = "plain" THEN Wrapped(s, "some", None) ELSE s
  IN IF HasOwn(t, b) THEN t
     ELSE LookAgain([t EXCEPT !.alist[b] = t.default], b)

Fmake_variable_buffer_local(s, b) ==
  IF s.kind = "plain" THEN Wrapped(s, "always", b)
  ELSE [s EXCEPT !.kind = "always"]

\* Plausible bug: the cell goes on as if it were set up for the buffer.
KillLocalCached(s, b) ==
  CASE s.kind = "plain" -> s
    [] s.kind = "slot" ->
         [s EXCEPT !.alist[b] = s.default, !.flags = @ \ {b}]
    [] OTHER -> [s EXCEPT !.alist[b] = NoValue,
                          !.element = IF @ = b THEN "dead" ELSE @]

Fkill_local_variable(s, b) ==
  CASE s.kind = "plain" -> s
    [] s.kind = "slot" ->
         [s EXCEPT !.alist[b] = s.default, !.flags = @ \ {b}]
    [] OTHER ->
         LookAgain([s EXCEPT !.alist[b] = NoValue,
                             !.element = IF @ = b THEN "dead" ELSE @], b)

\* Plausible bug: only the alist is reset.
KillAllInAlist(s, b) ==
  CASE s.kind = "plain" -> s
    [] s.kind = "slot" ->
         [s EXCEPT !.alist[b] = s.default, !.flags = @ \ {b}]
    [] OTHER -> [s EXCEPT !.alist[b] = NoValue]

\* kill-all-local-variables
Fkill_all_local_variables(s, b) ==
  CASE s.kind = "plain" -> s
    [] s.kind = "slot" ->
         [s EXCEPT !.alist[b] = s.default, !.flags = @ \ {b}]
    [] OTHER ->
         IF ~HasOwn(s, b) THEN s
         ELSE IF s.buffer = b
           THEN [s EXCEPT !.alist[b] = NoValue, !.element = Default,
                          !.realvalue = s.default]
         ELSE [s EXCEPT !.alist[b] = NoValue]

\* Plausible bug: only the alist of the new buffer is gone through.
SelectedHalf(s, a, b) ==
  IF a # b /\ s.forwarded /\ Swapped(s) /\ HasOwn(s, b)
    THEN Fsymbol_value(s, b) ELSE s

\* set_buffer_internal, from buffer a to buffer b.
Selected(s, a, b) ==
  IF a # b /\ s.forwarded /\ Swapped(s) /\ (HasOwn(s, a) \/ HasOwn(s, b))
    THEN Fsymbol_value(s, b) ELSE s

LocalsInit ==
  /\ \E v \in Values, slot, forwarded \in BOOLEAN :
       sym = [kind |-> IF slot THEN "slot" ELSE "plain",
              forwarded |-> forwarded /\ ~slot,
              realvalue |-> v, buffer |-> None, element |-> Default,
              default |-> v,
              alist |-> [b \in Buffers |-> IF slot THEN v ELSE NoValue],
              flags |-> {}]
  /\ current \in Buffers
  /\ stack = <<>> /\ unused = FALSE

-----------------------------------------------------------------------------
\* What the cells amount to.
own == IF sym.kind = "slot" THEN sym.flags ELSE {b \in Buffers : HasOwn(sym, b)}
seen == [b \in Buffers |-> ValueIn(sym, b)]
default == IF sym.kind = "plain" THEN sym.realvalue ELSE sym.default

Abstract == INSTANCE Variables WITH kind <- sym.kind

-----------------------------------------------------------------------------
LookedUp == unused' = (unused /\ sym'.buffer # current')

UseVariable ==
  /\ sym' = Fsymbol_value(sym, current)
  /\ UNCHANGED <<current, stack>> /\ LookedUp

SetBuffer(b) ==
  /\ sym' = Selected(sym, current, b) /\ current' = b
  /\ UNCHANGED <<stack>> /\ LookedUp

SetVariable(v) ==
  /\ sym' = Fset(sym, current, v) /\ stack' = Abstract!SetHere(stack)
  /\ UNCHANGED <<current>> /\ LookedUp

SetDefault(v) ==
  /\ sym' = Fset_default(sym, v) /\ stack' = Abstract!Unsettled(stack)
  /\ UNCHANGED <<current>> /\ LookedUp

MakeLocal ==
  /\ sym.kind \in {"plain", "some"}
  /\ sym' \in {Fmake_local_variable(sym, current),
               Fmake_variable_buffer_local(sym, current)}
  /\ stack' = Abstract!Unsettled(stack) /\ unused' = TRUE
  /\ UNCHANGED <<current>>

KillLocal ==
  /\ sym' \in {Fkill_local_variable(sym, current),
               Fkill_all_local_variables(sym, current)}
  /\ stack' = Abstract!Unsettled(stack) /\ unused' = TRUE
  /\ UNCHANGED <<current>>

\* Plausible bug: let binds the default value.
SpecbindDefault(v) ==
  /\ Len(stack) < MaxDepth
  /\ stack' = Append(Abstract!SetHere(stack), Abstract!LetEntry)
  /\ LET s == Fsymbol_value(sym, current)
     IN sym' = IF s.kind = "slot" THEN [s EXCEPT !.alist[current] = v]
               ELSE Fset_default(s, v)
  /\ UNCHANGED <<current>> /\ LookedUp

\* specbind: of a slot, the value is stored and the bit in local_var_flags is not.
Specbind(v) ==
  /\ Len(stack) < MaxDepth
  /\ stack' = Append(Abstract!SetHere(stack), Abstract!LetEntry)
  /\ LET s == Fsymbol_value(sym, current)
     IN sym' = IF s.kind = "slot" THEN [s EXCEPT !.alist[current] = v]
               ELSE Fset(s, current, v)
  /\ UNCHANGED <<current>> /\ LookedUp

SaveExcursion ==
  /\ Len(stack) < MaxDepth
  /\ stack' = Append(stack, Abstract!ExcursionEntry)
  /\ UNCHANGED <<sym, current, unused>>

\* unbind_to, one entry: by Fset in whatever buffer is current.
UnbindTo ==
  /\ stack # <<>>
  /\ LET e == Abstract!Top
     IN IF e.what = "let"
          THEN /\ sym' = Fset(sym, current, e.old)
               /\ stack' = Abstract!SetHere(Abstract!Popped)
               /\ UNCHANGED current
          ELSE /\ sym' = Selected(sym, current, e.buffer)
               /\ current' = e.buffer
               /\ stack' = Abstract!Popped
  /\ LookedUp

LocalsNext ==
  \/ \E b \in Buffers : SetBuffer(b)
  \/ \E v \in Values : SetVariable(v) \/ SetDefault(v) \/ Specbind(v)
  \/ UseVariable \/ MakeLocal \/ KillLocal \/ SaveExcursion \/ UnbindTo

LocalsSpec == LocalsInit /\ [][LocalsNext]_localVars
-----------------------------------------------------------------------------
(***************************************************************************)
(* Swapping is never noticed: whatever is set, bound, made local or killed *)
(* in whatever buffer, each buffer sees what Variables says it sees.       *)
(***************************************************************************)
AbstractStep == [Abstract!VarNext]_<<own, seen, default, sym.kind, current, stack>>

(***************************************************************************)
(* C code that reads a variable finds the value of the current buffer in   *)
(* it (buffer.c:836 "find and update any that forward into C variables"),  *)
(* but for make-local-variable and kill-local-variable: until Lisp looks   *)
(* the variable up, C reads a value that was killed, or the default.       *)
(***************************************************************************)
SetUpForCurrentBuffer ==
  sym.forwarded /\ Swapped(sym) /\ ~unused
    => sym.realvalue = ValueIn(sym, current)
=============================================================================
