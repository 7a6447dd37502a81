---------------------------- MODULE MCProcess ----------------------------
(* Process, with two processes that come and go. *)
EXTENDS Process, FiniteSets
CONSTANTS p1, p2
OneAccident == Cardinality(excused) <= 1
OneBusy == {p1}
OneBuffered == {p2}
MCProcesses == {p1, p2}
=============================================================================
