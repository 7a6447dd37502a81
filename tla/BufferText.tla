----------------------------- MODULE BufferText -----------------------------
(***************************************************************************)
(* What a Lisp program may believe about a buffer of the C editor: a       *)
(* sequence of characters, an accessible part begv..zv (narrowing), point, *)
(* and markers that follow the text.  Positions lie between characters and *)
(* run from 1 (BEG) to Len(text)+1 (Z).  There is no gap here; GapBuffer   *)
(* holds the storage of insdel.c and marker.c and implements this module.  *)
(***************************************************************************)
EXTENDS Integers, Sequences

CONSTANTS
  Char,       \* the characters a buffer holds
  Marker,     \* the marker objects
  Nowhere,    \* the position of a marker that points nowhere
  MaxSize,    \* the largest buffer: what fits the value bits of a Lisp_Int
  MaxInsert   \* bound: the longest string one call inserts

ASSUME BufferTextAssumption ==
  /\ MaxSize \in Nat
  /\ MaxInsert \in Nat
  /\ Nowhere \notin Int

VARIABLES
  text,       \* the characters, without the gap
  begv, zv,   \* the accessible part: positions begv .. zv
  pt,         \* point
  mpos        \* the position of each marker

textVars == <<text, begv, zv, pt, mpos>>

Strings == UNION {[1..n -> Char] : n \in 1..MaxInsert}

\* Arguments of the Lisp primitives reach a little past either end.
Position == 0 .. MaxSize + 2

\* clip_to_bounds
Clip(lower, n, upper) ==
  IF n < lower THEN lower ELSE IF n > upper THEN upper ELSE n

Z == Len(text) + 1

\* s put before position p of t, and t without the positions from..to-1.
Spliced(t, p, s) ==
  [i \in 1 .. Len(t) + Len(s) |->
     IF i < p THEN t[i]
     ELSE IF i < p + Len(s) THEN s[i - p + 1] ELSE t[i - Len(s)]]
Cut(t, from, to) ==
  [i \in 1 .. Len(t) - (to - from) |->
     IF i < from THEN t[i] ELSE t[i + (to - from)]]
-----------------------------------------------------------------------------
Init ==
  /\ text = << >>
  /\ begv = 1 /\ zv = 1 /\ pt = 1
  /\ mpos = [m \in Marker |-> Nowhere]

\* Markers from position `first' on move along with the text after it.
InsertAtPoint(s, first) ==
  /\ Len(s) >= 1
  /\ Len(text) + Len(s) <= MaxSize
  /\ text' = Spliced(text, pt, s)
  /\ pt' = pt + Len(s)
  /\ zv' = zv + Len(s)
  /\ begv' = begv
  /\ mpos' = [m \in Marker |->
                IF mpos[m] # Nowhere /\ mpos[m] >= first
                THEN mpos[m] + Len(s) ELSE mpos[m]]

\* A marker at point stays before the new text ...
Insert(s) == InsertAtPoint(s, pt + 1)

\* ... or goes after it.
InsertBeforeMarkers(s) == InsertAtPoint(s, pt)

\* Where a position is once the characters from..to-1 are gone.
AfterDelete(p, from, to) ==
  IF p <= from THEN p ELSE IF p < to THEN from ELSE p - (to - from)

\* Only the accessible part can be deleted; point moves as a marker does.
DelRange(b, e) ==
  LET from == IF b < begv THEN begv ELSE b
      to   == IF e > zv THEN zv ELSE e
  IN /\ from < to
     /\ text' = Cut(text, from, to)
     /\ pt' = AfterDelete(pt, from, to)
     /\ zv' = zv - (to - from)
     /\ begv' = begv
     /\ mpos' = [m \in Marker |->
                   IF mpos[m] = Nowhere THEN Nowhere
                   ELSE AfterDelete(mpos[m], from, to)]

SubstCharInRegion(b, e, fromchar, tochar) ==
  /\ begv <= b /\ b <= e /\ e <= zv
  /\ text' = [i \in 1 .. Len(text) |->
                IF b <= i /\ i < e /\ text[i] = fromchar
                THEN tochar ELSE text[i]]
  /\ UNCHANGED <<begv, zv, pt, mpos>>

GotoChar(n) ==
  /\ pt' = Clip(begv, n, zv)
  /\ UNCHANGED <<text, begv, zv, mpos>>

NarrowToRegion(b, e) ==
  /\ 1 <= b /\ b <= e /\ e <= Z
  /\ begv' = b
  /\ zv' = e
  /\ pt' = Clip(b, pt, e)
  /\ UNCHANGED <<text, mpos>>

Widen ==
  /\ begv' = 1
  /\ zv' = Z
  /\ UNCHANGED <<text, pt, mpos>>

SetMarker(m, n) ==
  /\ mpos' = [mpos EXCEPT ![m] = Clip(1, n, Z)]
  /\ UNCHANGED <<text, begv, zv, pt>>

SetMarkerRestricted(m, n) ==
  /\ mpos' = [mpos EXCEPT ![m] = Clip(begv, n, zv)]
  /\ UNCHANGED <<text, begv, zv, pt>>

SetMarkerNowhere(m) ==
  /\ mpos' = [mpos EXCEPT ![m] = Nowhere]
  /\ UNCHANGED <<text, begv, zv, pt>>

Next ==
  \/ \E s \in Strings : Insert(s) \/ InsertBeforeMarkers(s)
  \/ \E b, e \in Position : DelRange(b, e)
  \/ \E b, e \in Position, c, d \in Char : SubstCharInRegion(b, e, c, d)
  \/ \E n \in Position : GotoChar(n)
  \/ \E b, e \in Position : NarrowToRegion(b, e)
  \/ Widen
  \/ \E m \in Marker, n \in Position :
       SetMarker(m, n) \/ SetMarkerRestricted(m, n)
  \/ \E m \in Marker : SetMarkerNowhere(m)

Spec == Init /\ [][Next]_textVars
=============================================================================
