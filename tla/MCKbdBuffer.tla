---------------------------- MODULE MCKbdBuffer ----------------------------
(* Values for KbdBuffer: two characters. *)
EXTENDS KbdBuffer
CONSTANTS a, b
TwoKeys == {a, b}
=============================================================================
