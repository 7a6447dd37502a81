---------------------------- MODULE MCGapBuffer ----------------------------
(* Values for the constants of GapBuffer: two characters, one marker (no   *)
(* operation relates two markers).                                         *)
EXTENDS GapBuffer
CONSTANTS m1, a, b
OneMarker == {m1}
TwoChars == {a, b}

\* What is in the gap is never looked at; its size is.
OutsideGapOnly == <<TextOf(buf), buf.gpt, buf.gap, buf.bufpos, begv, zv, pt>>
=============================================================================
