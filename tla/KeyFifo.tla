------------------------------ MODULE KeyFifo ------------------------------
(***************************************************************************)
(* What the keyboard buffer of keyboard.c promises: characters come out in *)
(* the order they were typed, each once.  What is typed right after a C-g  *)
(* is dropped, and what finds the buffer full, and what is there when the  *)
(* program discards its input.  C-g is not buffered: it is returned out of *)
(* turn.                                                                   *)
(***************************************************************************)
EXTENDS Naturals, Sequences

CONSTANTS
  Key,        \* the characters typed, C-g apart
  CtrlG,
  NoKey,      \* no character
  Size        \* the capacity of the buffer

VARIABLES
  typed,      \* the characters still in the terminal
  pending,    \* the characters buffered
  last        \* the character being returned

fifoVars == <<typed, pending, last>>

Init == typed = << >> /\ pending = << >> /\ last = NoKey

Type ==
  /\ \E ch \in Key \cup {CtrlG} : typed' = Append(typed, ch)
  /\ UNCHANGED <<pending, last>>

\* Some of what was typed is read.  i is where its first C-g is, or its
\* length plus one; what does not fit is dropped.
Arrive ==
  /\ \E n \in 1 .. Len(typed), i \in 1 .. Len(typed) + 1 :
        /\ i <= n + 1
        /\ i <= n => typed[i] = CtrlG
        /\ \A j \in 1 .. i - 1 : typed[j] # CtrlG
        /\ LET room == Size - Len(pending)
               taken == IF i - 1 <= room THEN i - 1 ELSE room
           IN pending' = pending \o SubSeq(typed, 1, taken)
        /\ typed' = SubSeq(typed, n + 1, Len(typed))
  /\ last' = last \/ last' = CtrlG

Take ==
  /\ pending # << >>
  /\ last' = Head(pending)
  /\ pending' = Tail(pending)
  /\ typed' = typed

\* C-g, the character Lisp put in unread-command-char, or none.
OutOfTurn ==
  /\ last' \in Key \cup {CtrlG, NoKey}
  /\ UNCHANGED <<typed, pending>>

Discard == typed' = << >> /\ pending' = << >> /\ last' = last

Next == Type \/ Arrive \/ Take \/ OutOfTurn \/ Discard

Spec == Init /\ [][Next]_fifoVars
=============================================================================
