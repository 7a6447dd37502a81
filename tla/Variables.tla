----------------------------- MODULE Variables -----------------------------
(***************************************************************************)
(* What a Lisp program can rely on about one variable that may have its    *)
(* own value in a buffer: no caches, no value cells.  kind says which of   *)
(* the rules applies:                                                      *)
(*   "plain"   one value                                                   *)
(*   "some"    make-local-variable was done in some buffer                 *)
(*   "always"  make-variable-buffer-local was done: setting it makes it    *)
(*             local                                                       *)
(*   "slot"    it lives in struct buffer, such as case-fold-search         *)
(***************************************************************************)
EXTENDS Naturals, Sequences

CONSTANTS Buffers, Values,
          MaxDepth  \* bound: nesting of let and save-excursion

VariablesAssumption == MaxDepth \in Nat

VARIABLES
  kind, current,
  default,  \* the value seen where there is no other
  own,      \* the buffers that have their own
  seen,     \* the value that each buffer sees
  stack     \* specpdl

variables == <<kind, current, default, own, seen, stack>>

(***************************************************************************)
(* The entries of specpdl: of a let, with the old value and what each      *)
(* buffer saw when it was entered; of a save-excursion, with the buffer to *)
(* which it returns.  before is forgotten when anything but setq is used,  *)
(* or setq in another buffer: then there is nothing to go back to.         *)
(***************************************************************************)
Forgotten == <<>>
LetEntry == [what |-> "let", old |-> seen[current], buffer |-> current,
             before |-> seen]
ExcursionEntry == [what |-> "excursion", buffer |-> current,
                   before |-> Forgotten]
Unsettled(s) == [i \in DOMAIN s |-> [s[i] EXCEPT !.before = Forgotten]]
\* Something is set in the current buffer.
SetHere(s) ==
  [i \in DOMAIN s |-> IF s[i].buffer = current THEN s[i]
                      ELSE [s[i] EXCEPT !.before = Forgotten]]
Top == stack[Len(stack)]
Popped == SubSeq(stack, 1, Len(stack) - 1)

VarInit ==
  /\ kind \in {"plain", "slot"}
  /\ current \in Buffers
  /\ default \in Values /\ own = {} /\ seen = [b \in Buffers |-> default]
  /\ stack = <<>>

SeenWithout(mine, v) == [b \in Buffers |-> IF b \in mine THEN seen[b] ELSE v]

Assign(v) ==
  /\ own' = IF kind \in {"always", "slot"} THEN own \cup {current} ELSE own
  /\ IF current \in own'
       THEN seen' = [seen EXCEPT ![current] = v] /\ UNCHANGED default
       ELSE seen' = SeenWithout(own, v) /\ default' = v

SetBuffer(b) ==
  /\ current' = b /\ UNCHANGED <<kind, default, own, seen, stack>>

SetVariable(v) ==
  /\ Assign(v) /\ stack' = SetHere(stack)
  /\ UNCHANGED <<kind, current>>

SetDefault(v) ==
  /\ default' = v /\ seen' = SeenWithout(own, v)
  /\ stack' = Unsettled(stack) /\ UNCHANGED <<kind, current, own>>

MakeLocalVariable ==
  /\ kind \in {"plain", "some"}
  /\ kind' = "some" /\ own' = own \cup {current}
  /\ stack' = Unsettled(stack) /\ UNCHANGED <<current, default, seen>>

MakeVariableBufferLocal ==
  /\ kind \in {"plain", "some"}
  /\ kind' = "always"
  /\ stack' = Unsettled(stack) 
  /\ UNCHANGED <<current, default, own, seen>>

KillLocal ==
  /\ own' = own \ {current} /\ seen' = [seen EXCEPT ![current] = default]
  /\ stack' = Unsettled(stack) /\ UNCHANGED <<kind, current, default>>

Let(v) ==
  /\ Len(stack) < MaxDepth
  /\ stack' = Append(SetHere(stack), LetEntry)
  /\ IF kind = "slot"
       THEN seen' = [seen EXCEPT ![current] = v] /\ UNCHANGED <<default, own>>
       ELSE Assign(v)
  /\ UNCHANGED <<kind, current>>

SaveExcursion ==
  /\ Len(stack) < MaxDepth
  /\ stack' = Append(stack, ExcursionEntry)
  /\ UNCHANGED <<kind, current, default, own, seen>>

Unwind ==
  /\ stack # <<>>
  /\ IF Top.what = "let"
       THEN /\ Assign(Top.old)
            /\ stack' = SetHere(Popped)
            /\ UNCHANGED <<kind, current>>
       ELSE /\ current' = Top.buffer
            /\ stack' = Popped
            /\ UNCHANGED <<kind, default, own, seen>>

VarNext ==
  \/ \E b \in Buffers : SetBuffer(b)
  \/ \E v \in Values : SetVariable(v) \/ SetDefault(v) \/ Let(v)
  \/ MakeLocalVariable \/ MakeVariableBufferLocal \/ KillLocal
  \/ SaveExcursion \/ Unwind

VarSpec == VarInit /\ [][VarNext]_variables
-----------------------------------------------------------------------------
(***************************************************************************)
(* A let that ends where it began, in between nothing but setq there,      *)
(* leaves every buffer seeing what it saw.                                 *)
(***************************************************************************)
LetRestores ==
  Len(stack') < Len(stack) /\ Top.what = "let"
    => seen' = Top.before \/ Top.before = Forgotten \/ Top.buffer # current
=============================================================================
