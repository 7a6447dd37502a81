------------------------------- MODULE MCUndo -------------------------------
(* Values for Undo: a letter in lower and upper case, no markers. *)
EXTENDS Undo
CONSTANTS a, A
Letters == {a, A}
OneLetter == {<<a>>}
SecondLetter == {<<2, 3>>}
NoMarkers == {}
Upper(ch) == A
=============================================================================
