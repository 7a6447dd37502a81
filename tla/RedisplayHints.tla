--------------------------- MODULE RedisplayHints ---------------------------
(***************************************************************************)
(* What insdel.c tells redisplay about the changes since the screen was    *)
(* last right: beg_unchanged characters at the start of the buffer and     *)
(* end_unchanged at its end are as they were.  Every gap motion, deletion  *)
(* and substitution keeps the two numbers; an insertion does not, because  *)
(* redisplay also takes the place of the gap into account.  Redisplay      *)
(* (try_window_id) then draws only what lies between.                      *)
(*                                                                         *)
(* MODIFF and unchanged_modified are only ever compared: edited says that  *)
(* they differ.  Narrowing is left out: it sets clip_changed, and then the *)
(* hints are not consulted.                                                *)
(***************************************************************************)
EXTENDS GapBuffer

VARIABLES
  edited,     \* MODIFF # unchanged_modified
  hints,      \* [beg, end]: beg_unchanged and end_unchanged
  shown,      \* the text when the last redisplay finished
  overrun     \* text went in at a gap that beg_unchanged lay beyond

hintVars == <<edited, hints, shown, overrun>>

Least(i, j) == IF i < j THEN i ELSE j
AtMost(h, i, j) == [beg |-> Least(h.beg, i), end |-> Least(h.end, j)]

\* Set afresh if nothing changed since the redisplay, else only lowered.
Noted(now, i, j) ==
  IF edited THEN AtMost(hints, i, j) ELSE now

\* The gap is about to leave for pos.  C-g may stop it short of pos; the
\* hints are not looked at again.
Bound(pos) == [beg |-> pos - 1, end |-> buf.z - pos]
\* Mutant of HintLeft: the hint at the start is not lowered.
HintLeftEndOnly(pos) == Noted(Bound(pos), hints.beg, buf.z - buf.gpt)

HintLeft(pos) == Noted(Bound(pos), pos - 1, buf.z - buf.gpt)
HintRight(pos) == Noted(Bound(pos), buf.gpt - 1, buf.z - pos)
HintMove(pos) == IF pos < buf.gpt THEN HintLeft(pos)
                 ELSE IF pos > buf.gpt THEN HintRight(pos) ELSE hints

\* Mutant of HintModify: the hint at the end is not lowered.
HintModifyStartOnly(b, e) ==
  Noted([beg |-> b - 1, end |-> buf.z - e], b - 1, hints.end)

\* modify_region knows about the region only.
HintModify(b, e) ==
  Noted([beg |-> b - 1, end |-> buf.z - e], b - 1, buf.z - e)

\* What redisplay goes by: neither hint may reach past the gap.
Kept(h, b) == AtMost(h, b.gpt - 1, b.z - b.gpt)
-----------------------------------------------------------------------------
HintInit ==
  /\ Init
  /\ edited = FALSE
  /\ hints = [beg |-> 0, end |-> 0]
  /\ shown = << >> /\ overrun = FALSE

Changed == edited' = TRUE /\ shown' = shown

Grown ==
  /\ hints' = HintMove(pt)
  /\ overrun' = (overrun \/ (pt = buf.gpt /\ hints.beg > pt - 1))
  /\ Changed

InsertNoted(s) == Insert(s) /\ Grown
InsertBeforeMarkersNoted(s) == InsertBeforeMarkers(s) /\ Grown

MovedOnly(pos) ==
  /\ hints' = HintMove(pos)
  /\ UNCHANGED <<edited, shown, overrun>>

InsertGivenUpNoted == InsertGivenUp /\ MovedOnly(pt)
BufferSubstringNoted(b, e) == BufferSubstring(b, e) /\ MovedOnly(b)

\* Where del_range sends the gap first.
NearGap(b, e) ==
  CASE Lower(b) > buf.gpt -> Lower(b)
    [] Upper(e) < buf.gpt -> Upper(e)
    [] OTHER -> buf.gpt

DelRangeNoted(b, e) ==
  /\ DelRange(b, e)
  /\ hints' = AtMost(HintMove(NearGap(b, e)), buf'.gpt - 1, buf'.z - buf'.gpt)
  /\ overrun' = overrun
  /\ Changed

DelRangeGivenUpNoted(b, e) ==
  DelRangeGivenUp(b, e) /\ MovedOnly(NearGap(b, e))

SubstCharInRegionNoted(b, e, fromchar, tochar) ==
  /\ SubstCharInRegion(b, e, fromchar, tochar)
  /\ hints' = HintModify(b, e)
  /\ overrun' = overrun
  /\ Changed

GotoCharNoted(n) == GotoChar(n) /\ UNCHANGED hintVars

\* self-insert-command on a screen that is right: the command loop writes
\* the character itself and declares the screen right again.
SelfInsertShown(c) ==
  /\ ~ edited
  /\ Insert(<<c>>)
  /\ hints' = [beg |-> buf'.gpt - 1, end |-> HintMove(pt).end]
  /\ shown' = TextOf(buf')
  /\ UNCHANGED <<edited, overrun>>

RedisplayDone ==
  /\ edited' = FALSE
  /\ hints' = [beg |-> buf.gpt - 1, end |-> buf.z - buf.gpt]
  /\ shown' = TextOf(buf)
  /\ overrun' = FALSE
  /\ UNCHANGED vars

\* Input arrived: the screen is left half updated, to be finished later.
RedisplayPaused ==
  /\ edited
  /\ hints' = Kept(hints, buf)
  /\ UNCHANGED <<vars, edited, shown, overrun>>

HintNext ==
  \/ \E s \in Strings : InsertNoted(s)
  \/ \E s \in Strings : InsertBeforeMarkersNoted(s)
  \/ InsertGivenUpNoted
  \/ \E b, e \in Position : BufferSubstringNoted(b, e)
  \/ \E b, e \in Position : DelRangeNoted(b, e)
  \/ \E b, e \in Position : DelRangeGivenUpNoted(b, e)
  \/ \E b, e \in Position, c, d \in Char : SubstCharInRegionNoted(b, e, c, d)
  \/ \E n \in Position : GotoCharNoted(n)
  \/ \E c \in Char : SelfInsertShown(c)
  \/ RedisplayDone
  \/ RedisplayPaused

HintSpec == HintInit /\ [][HintNext]_<<vars, hintVars>>
-----------------------------------------------------------------------------
(***************************************************************************)
(* Properties.                                                             *)
(***************************************************************************)
\* The characters redisplay leaves alone, at either end of the buffer, are
\* the ones it has on the screen, and the two ends do not overlap there.
RegionsUnchanged ==
  edited =>
    LET kept == Kept(hints, buf)
        text == TextOf(buf)
    IN /\ kept.beg + kept.end <= Len(shown)
       /\ \A i \in 1 .. kept.beg : text[i] = shown[i]
       /\ \A i \in 0 .. kept.end - 1 :
            text[Len(text) - i] = shown[Len(shown) - i]

\* ... except after an insertion at a gap that beg_unchanged lay beyond.
RegionsUnchangedUnlessOverrun == overrun \/ RegionsUnchanged

\* end_unchanged never reaches past the gap in a way that matters: whatever
\* else happens the end of the buffer that redisplay keeps is right.
EndUnchanged ==
  edited =>
    LET kept == Kept(hints, buf)
        text == TextOf(buf)
    IN /\ kept.end <= Len(shown)
       /\ \A i \in 0 .. kept.end - 1 :
            text[Len(text) - i] = shown[Len(shown) - i]
=============================================================================
