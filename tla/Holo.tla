-------------------------------- MODULE Holo --------------------------------
(***************************************************************************)
(* Buffers of holomacs (src/holomacs): text, point and the markers each    *)
(* buffer knows, under the primitives that edit, and the errors that a     *)
(* condition-case catches half way.                                        *)
(*                                                                         *)
(* Of a character the model knows at what index it was before the last     *)
(* change to its text, 0 if it was not there.  Positions count from 1.     *)
(* insertion-type is nil in every marker, as nothing sets it.              *)
(***************************************************************************)
EXTENDS Integers, Sequences, SequencesExt, FiniteSets

CONSTANTS
  Buffers,     \* *buffers*
  Markers,     \* marker objects
  Nowhere,     \* nil
  MaxText      \* bound: characters in all buffers together

HoloAssumption ==
  MaxText \in Nat /\ Nowhere \notin Buffers /\ Buffers # {}

VARIABLES
  text, point,   \* of each buffer: contents, point
  chain,         \* of each buffer: the markers in its list
  place,         \* of each marker: buffer and position
  current,       \* *current-buffer*
  outside        \* buffers in which a position may be outside the text, since
                 \* something happened that is said at the actions below

holoVars == <<text, point, chain, place, current, outside>>

Unset == [b |-> Nowhere, pos |-> 0]
PointMax(t) == Len(t) + 1
Clamp(t, pos) == IF pos < 1 THEN 1 ELSE IF pos > PointMax(t) THEN PointMax(t) ELSE pos

HoloInit ==
  /\ text = [b \in Buffers |-> <<>>] /\ point = [b \in Buffers |-> 1]
  /\ chain = [b \in Buffers |-> {}] /\ place = [m \in Markers |-> Unset]
  /\ current \in Buffers /\ outside = {}

\* The text as it is before a change, and new characters.
Old(t) == [i \in DOMAIN t |-> i]
New(n) == [i \in 1 .. n |-> 0]
Room(n) == FoldFunction(LAMBDA t, k : k + Len(t), n, text) <= MaxText

\* Plausible bug: a marker at the place of the insertion goes along.
AfterInsertAlong(pos, at, len) == IF pos >= at THEN pos + len ELSE pos

\* adjust-markers-on-insert and adjust-markers-on-delete, one marker.
AfterInsert(pos, at, len) == IF pos > at THEN pos + len ELSE pos
AfterDelete(pos, at, len) ==
  IF pos > at + len THEN pos - len ELSE IF pos >= at THEN at ELSE pos

AdjustMarkers(b, to) ==
  place' = [m \in Markers |->
              IF m \in chain[b] THEN [place[m] EXCEPT !.pos = to[@]]
              ELSE place[m]]

-----------------------------------------------------------------------------
\* insert: at is point in every caller.
Inserted(t, at, new) == SubSeq(t, 1, at - 1) \o new \o SubSeq(t, at, Len(t))

\* delete-buffer-region.  If hi is past the end nothing is shifted, and as
\* many characters are taken off the end, which are others.
Deleted(t, lo, hi) ==
  IF hi <= PointMax(t) THEN SubSeq(t, 1, lo - 1) \o SubSeq(t, hi, Len(t))
  ELSE SubSeq(t, 1, Len(t) - (hi - lo))

\* The errors that are signalled before anything is changed.
Deletable(t, lo, hi) == 1 <= lo /\ lo < hi /\ hi - lo <= Len(t)

Insert(n) ==
  /\ Room(n) /\ current \notin outside
  /\ LET at == point[current]
     IN /\ text' = [text EXCEPT ![current] = Inserted(Old(@), at, New(n))]
        /\ point' = [point EXCEPT ![current] = @ + n]
        /\ AdjustMarkers(current, [pos \in Int |-> AfterInsert(pos, at, n)])
  /\ UNCHANGED <<chain, current, outside>>

\* insert-file-contents: point stays where it was.
InsertFileContents(n) ==
  /\ Room(n) /\ current \notin outside
  /\ LET at == point[current]
     IN /\ text' = [text EXCEPT ![current] = Inserted(Old(@), at, New(n))]
        /\ AdjustMarkers(current, [pos \in Int |-> AfterInsert(pos, at, n)])
  /\ UNCHANGED <<point, chain, current, outside>>

\* Plausible bug: point does not follow a deletion before it.
DeleteKeepingPoint(lo, hi) ==
  /\ Deletable(text[current], lo, hi) /\ current \notin outside
  /\ text' = [text EXCEPT ![current] = Deleted(Old(@), lo, hi)]
  /\ AdjustMarkers(current, [pos \in Int |-> AfterDelete(pos, lo, hi - lo)])
  /\ outside' = IF hi > PointMax(text[current])
                THEN outside \cup {current} ELSE outside
  /\ UNCHANGED <<point, chain, current>>

\* delete-region, between positions in either order.
Delete(lo, hi) ==
  /\ Deletable(text[current], lo, hi) /\ current \notin outside
  /\ text' = [text EXCEPT ![current] = Deleted(Old(@), lo, hi)]
  /\ point' = [point EXCEPT ![current] = AfterDelete(@, lo, hi - lo)]
  /\ AdjustMarkers(current, [pos \in Int |-> AfterDelete(pos, lo, hi - lo)])
  /\ outside' = IF hi > PointMax(text[current])
                THEN outside \cup {current} ELSE outside
  /\ UNCHANGED <<chain, current>>

DeleteChar(n) ==
  LET pt == point[current]
      end == IF pt + n < PointMax(text[current]) THEN pt + n
             ELSE PointMax(text[current])
      start == IF pt + n > 1 THEN pt + n ELSE 1
  IN IF n > 0 THEN Delete(pt, end) ELSE Delete(start, pt)

EraseBuffer == Delete(1, PointMax(text[current]))

(***************************************************************************)
(* Delete, goto-char, insert: upcase-region and the like, which first fail *)
(* if the region is not in the text; and replace-match of a match that may *)
(* have been found in any text, whose positions start from 0.  What comes  *)
(* in is new text to every marker.                                         *)
(***************************************************************************)
Replace(lo, hi, n) ==
  /\ Deletable(text[current], lo, hi) /\ Room(n - (hi - lo))
  /\ current \notin outside
  /\ LET t == Deleted(Old(text[current]), lo, hi)
         at == Clamp(t, lo)
     IN /\ text' = [text EXCEPT ![current] = Inserted(t, at, New(n))]
        /\ point' = [point EXCEPT ![current] = at + n]
        /\ AdjustMarkers(current, [pos \in Int |->
             AfterInsert(AfterDelete(pos, lo, hi - lo), at, n)])
  /\ outside' = IF hi > PointMax(text[current])
                THEN outside \cup {current} ELSE outside
  /\ UNCHANGED <<chain, current>>

CaseRegion(lo, hi) == hi <= PointMax(text[current]) /\ Replace(lo, hi, hi - lo)
ReplaceMatch(start, end, n) == Replace(1 + start, 1 + end, n)

\* find-file-noselect puts the file in the place of the text, if the buffer is
\* there already too, and leaves point and the markers as they are.
FindFileNoselect(b, n) ==
  /\ Room(n - Len(text[b]))
  /\ text' = [text EXCEPT ![b] = New(n)]
  /\ outside' = IF n < Len(text[b]) THEN outside \cup {b} ELSE outside
  /\ UNCHANGED <<point, chain, place, current>>

-----------------------------------------------------------------------------
\* goto-char; the motions and the searches end with it.
GotoChar(pos) ==
  /\ point' = [point EXCEPT ![current] = Clamp(text[current], pos)]
  /\ UNCHANGED <<text, chain, place, current, outside>>

SetBuffer(b) ==
  /\ current' = b /\ UNCHANGED <<text, point, chain, place, outside>>

\* Without m in the buffer where it was.
Unchained(m) ==
  [b \in Buffers |-> IF place[m].b = b THEN chain[b] \ {m} ELSE chain[b]]

SetMarker(m, b, pos) ==
  /\ place' = [place EXCEPT ![m] = [b |-> b, pos |-> Clamp(text[b], pos)]]
  /\ chain' = [Unchained(m) EXCEPT ![b] = @ \cup {m}]
  /\ UNCHANGED <<text, point, current, outside>>

SetMarkerNowhere(m) ==
  /\ place' = [place EXCEPT ![m] = Unset] /\ chain' = Unchained(m)
  /\ UNCHANGED <<text, point, current, outside>>

\* resolve-position signals wrong-type-argument when the marker has left its
\* chain: it keeps its place, and nothing adjusts it any more.
SetMarkerFails(m) ==
  /\ chain' = Unchained(m)
  /\ UNCHANGED <<text, point, place, current, outside>>

\* A marker that no variable holds is free to be made anew.
Make(m, at) ==
  /\ place[m] = Unset
  /\ place' = [place EXCEPT ![m] = at]
  /\ chain' = [b \in Buffers |->
                 IF at.b = b THEN chain[b] \cup {m} ELSE chain[b]]
  /\ outside' = outside \cup
                  {b \in Buffers : at.b = b /\ at.pos \notin 1 .. PointMax(text[b])}
  /\ UNCHANGED <<text, point, current>>

\* copy-marker takes a number as it is.
CopyMarker(m) ==
  \/ \E from \in Markers \ {m} : place[from] # Unset /\ Make(m, place[from])
  \/ \E pos \in 0 .. MaxText + 2 : Make(m, [b |-> current, pos |-> pos])
PointMarker(m) ==
  \E pos \in {1, point[current], PointMax(text[current])} :
    Make(m, [b |-> current, pos |-> pos])

Positions == 1 .. MaxText + 2
HoloNext ==
  \/ \E n \in 1 .. 2 : Insert(n) \/ InsertFileContents(n)
  \/ \E lo, hi \in Positions :
       \/ Delete(lo, hi) \/ CaseRegion(lo, hi)
       \/ \E n \in 0 .. 2 : ReplaceMatch(lo - 1, hi - 1, n)
  \/ \E n \in {-2, -1, 1, 2} : DeleteChar(n)
  \/ EraseBuffer
  \/ \E pos \in {-1} \cup Positions : GotoChar(pos)
  \/ \E b \in Buffers : SetBuffer(b) \/ \E n \in 0 .. 2 : FindFileNoselect(b, n)
  \/ \E m \in Markers :
       \/ SetMarkerNowhere(m) \/ SetMarkerFails(m)
       \/ CopyMarker(m) \/ PointMarker(m)
       \/ \E b \in Buffers, pos \in {-1} \cup Positions : SetMarker(m, b, pos)

HoloSpec == HoloInit /\ [][HoloNext]_holoVars

-----------------------------------------------------------------------------
(***************************************************************************)
(* Point and the markers a buffer knows are between the first and the last *)
(* position of its text, for primitives.lisp never looks before it uses    *)
(* them as indices, except where find-file-noselect, copy-marker or a      *)
(* region past the end has broken that.                                    *)
(***************************************************************************)
PointAndMarkersInText ==
  \A b \in Buffers \ outside :
    /\ point[b] \in 1 .. PointMax(text[b])
    /\ \A m \in chain[b] :
         place[m].b = b /\ place[m].pos \in 1 .. PointMax(text[b])

(***************************************************************************)
(* Editing leaves every marker a buffer knows between the characters it    *)
(* was between, as far as they remain, and right behind the last of those  *)
(* before it: what is inserted at a marker comes after it.  So do          *)
(* adjust-markers-on-insert and -on-delete; MarkerAdjustmentReq has a      *)
(* marker at the place of an insertion go along.  The place is not kept in *)
(* a buffer that a deletion past the end of its text, or find-file with a  *)
(* shorter one, has put among those outside, and a longer file that        *)
(* find-file puts in the place of all the text leaves markers at their     *)
(* numbers.                                                                *)
(***************************************************************************)
KeepsPlaces ==
  \A b \in Buffers : \A m \in chain[b] :
    text'[b] # text[b] /\ b \notin outside' =>
      LET was == text'[b]
          pos == place'[m].pos
      IN /\ \A i \in DOMAIN was :
              was[i] # 0 => (was[i] < place[m].pos <=> i < pos)
         /\ \/ pos = 1 \/ was[pos - 1] # 0
            \/ place'[m] = place[m] /\ \A i \in DOMAIN was : was[i] = 0
=============================================================================
