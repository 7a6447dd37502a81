----------------------------- MODULE MCSessions -----------------------------
(***************************************************************************)
(* Eight parts that do not interact in this model: those of Sessions, and  *)
(* the windows and storage in the same manner.                             *)
(***************************************************************************)
EXTENDS Sessions, Gc, Integers, TLC

CONSTANTS
  ScreenHeight, ScreenWidth, WindowMinHeight, WindowMinWidth,
  MaxWindows, MaxSaved,
  NREGS

VARIABLES root, mini, live, saved, lost, garbled  \* Windows

Deltas == {-3, 3}
\* The two buffers of AutoSave.  The first change makes b1 shrink, the second
\* makes it large again; b2 is always small.
AutoSaved == <<"b1", "b2">>
LargeTexts == {<<"b1", 0>>, <<"b1", 3>>}

\* What patterns are compiled to, and what they should find: it does not depend
\* on what is searched for here, which is taken from it.
Regex == INSTANCE MCRegex WITH
  Program <- <<>>, Texts <- {}, Gaps <- {},
  text <- subject, code <- compiled, p <- pc, d <- dp
MCProgram == Regex!MCProgram
MCTexts == Regex!MCTexts
MCGaps == Regex!MCGaps

Windows == INSTANCE Windows WITH ShownBuffers <- Buffers

ASSUME MCSessionsAssumption == Windows!WindowsAssumption /\ Regex!RegexAssumption

windowVars == <<root, mini, live, saved, lost, garbled>>
vars == <<sessionsVars, windowVars, gcVars>>

WindowsIdle ==
  /\ root = Idle /\ mini = Idle /\ live = Idle
  /\ saved = Idle /\ lost = Idle /\ garbled = Idle

Init ==
  /\ session \in {"locals", "windows", "regex", "holo", "eval", "auto", "mail", "gc"}
  /\ SessionsInit
  /\ IF session = "windows" THEN Windows!WindowInit ELSE WindowsIdle
  /\ GcInit

Next ==
  /\ SessionsNext
  /\ IF session = "windows" THEN Windows!WindowNext ELSE UNCHANGED windowVars
  /\ IF session = "gc" THEN GcNext ELSE UNCHANGED gcVars

Spec == Init /\ [][Next]_vars

\* Where the characters of Holo were before the last change is of interest to
\* that change alone.
HoloView ==
  <<[buffer \in Buffers |-> Len(contents[buffer])],
    point, chain, place, current, outside>>
SessionView ==
  <<session,
    CASE session = "locals" -> localVars
      [] session = "windows" -> windowVars
      [] session = "regex" -> matcherVars
      [] session = "holo" -> HoloView
      [] session = "eval" -> evalVars
      [] session = "auto" -> autoVars
      [] session = "mail" -> mailVars
      [] session = "gc" -> gcVars>>

Alike == Permutations(Buffers) \cup Permutations(Values)
\* Once positions of Holo are outside the text, what is there is not modelled.
PositionsKept == session = "holo" => outside = {}

-----------------------------------------------------------------------------
\* The windows cover the screen without gap or overlap, each big enough, after
\* every command that ends in order.
ScreenCovered ==
  session = "windows" => Windows!Tiled /\ Windows!BigEnough
\* Exactly one of the windows shown is selected, except after shrink-window.
OneSelected == session = "windows" => Windows!OneIsSelected
\* Every window shows a buffer that has not been killed.
LiveBuffersShown == session = "windows" => Windows!ShowsLiveBuffers

\* The compiled search finds what the pattern means, where regex.c is right.
FindsWhatItMeans == session = "regex" => Regex!FindsMeaning
=============================================================================
