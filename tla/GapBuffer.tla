----------------------------- MODULE GapBuffer -----------------------------
(***************************************************************************)
(* The storage of a buffer: one block of memory with a gap in it           *)
(* (insdel.c), and markers that hold memory indices, gap included          *)
(* (marker.c).  Moving the gap copies text in chunks and polls for C-g     *)
(* between them, so that it can stop half way and abandon the primitive    *)
(* that asked for it; whatever happens, the text, point and the markers    *)
(* must look to Lisp as BufferText says.                                   *)
(*                                                                         *)
(* MODIFF and the redisplay hints that insdel.c also maintains are in      *)
(* RedisplayHints, which extends this module.                              *)
(***************************************************************************)
EXTENDS Integers, Sequences

CONSTANTS
  Char, Marker, Nowhere, MaxSize, MaxInsert,   \* as in BufferText
  Junk,       \* what fresh memory holds
  Chunk,      \* characters moved between two polls for C-g (32000)
  Extra,      \* what make_gap allocates beyond the request (2000)
  FirstGap    \* the gap of a new buffer (20)

ASSUME GapBufferAssumption ==
  /\ MaxSize \in Nat
  /\ MaxInsert \in Nat
  /\ Nowhere \notin Int
  /\ Junk \notin Char
  /\ Chunk \in Nat \ {0}
  /\ Extra \in Nat
  /\ FirstGap \in Nat

VARIABLES
  buf,        \* the storage: [mem, gpt, gap, z, bufpos]
  begv, zv, pt

vars == <<buf, begv, zv, pt>>

Strings == UNION {[1..n -> Char] : n \in 1..MaxInsert}
Position == 0 .. MaxSize + 2
Clip(lower, n, upper) ==
  IF n < lower THEN lower ELSE IF n > upper THEN upper ELSE n

(***************************************************************************)
(* The storage.  mem is the block, gpt the position of the gap, gap its    *)
(* size, z the position after the last character; bufpos[m] is the index   *)
(* a marker holds.                                                         *)
(***************************************************************************)
Indices(b) == 1 .. b.z - 1 + b.gap
CharIndex(b, p) == IF p >= b.gpt THEN p + b.gap ELSE p
FetchChar(b, p) == b.mem[CharIndex(b, p)]

WithMem(b, mem) ==
  [mem |-> mem, gpt |-> b.gpt, gap |-> b.gap, z |-> b.z, bufpos |-> b.bufpos]
WithMarkers(b, bufpos) ==
  [mem |-> b.mem, gpt |-> b.gpt, gap |-> b.gap, z |-> b.z, bufpos |-> bufpos]

TextOf(b) == [p \in 1 .. b.z - 1 |-> FetchChar(b, p)]

MarkerPosition(b, m) ==
  LET i == b.bufpos[m]
  IN CASE i = Nowhere       -> Nowhere
       [] i # Nowhere /\ i > b.gpt + b.gap -> i - b.gap
       [] i # Nowhere /\ i > b.gpt /\ i <= b.gpt + b.gap -> b.gpt
       [] OTHER -> i

\* Mutant of Adjusted: markers inside what is deleted are only shifted.
AdjustedUnclamped(mpos, from, to, amount) ==
  IF mpos > from /\ mpos <= to THEN mpos + amount ELSE mpos

\* One round of the loop in adjust_markers.
Adjusted(mpos, from, to, amount) ==
  LET clamped ==
        IF amount > 0
        THEN IF mpos > to /\ mpos < to + amount THEN to + amount ELSE mpos
        ELSE IF mpos > from + amount /\ mpos <= from
             THEN from + amount ELSE mpos
  IN IF clamped > from /\ clamped <= to THEN clamped + amount ELSE clamped

AdjustMarkers(bufpos, from, to, amount) ==
  [m \in Marker |-> IF bufpos[m] = Nowhere THEN Nowhere
                    ELSE Adjusted(bufpos[m], from, to, amount)]

\* Where the gap may be when a motion from gpt to pos ends: at pos, or
\* after a whole number of chunks if C-g was typed meanwhile.
Stops(b, pos) ==
  {pos} \cup {s \in pos .. b.gpt : (b.gpt - s) % Chunk = 0}
        \cup {s \in b.gpt .. pos : (s - b.gpt) % Chunk = 0}

\* Mutant of GapLeft: one character too few is copied.
GapLeftShort(b, stop) ==
  [mem |-> [a \in Indices(b) |->
              IF stop + b.gap < a /\ a < b.gpt + b.gap
              THEN b.mem[a - b.gap] ELSE b.mem[a]],
   gpt |-> stop, gap |-> b.gap, z |-> b.z,
   bufpos |-> AdjustMarkers(b.bufpos, stop, b.gpt, b.gap)]

GapLeft(b, stop) ==
  [mem |-> [a \in Indices(b) |->
              IF stop + b.gap <= a /\ a < b.gpt + b.gap
              THEN b.mem[a - b.gap] ELSE b.mem[a]],
   gpt |-> stop, gap |-> b.gap, z |-> b.z,
   bufpos |-> AdjustMarkers(b.bufpos, stop, b.gpt, b.gap)]

GapRight(b, stop) ==
  [mem |-> [a \in Indices(b) |->
              IF b.gpt <= a /\ a < stop
              THEN b.mem[a + b.gap] ELSE b.mem[a]],
   gpt |-> stop, gap |-> b.gap, z |-> b.z,
   bufpos |-> AdjustMarkers(b.bufpos, b.gpt + b.gap, stop + b.gap, - b.gap)]

MoveGap(b, stop) ==
  IF stop < b.gpt THEN GapLeft(b, stop)
  ELSE IF stop > b.gpt THEN GapRight(b, stop) ELSE b

\* The new memory is first a gap at the end of the block, the old gap
\* counting as text; it moves down to the old gap and the two become one.
MakeGap(b, request) ==
  LET increment == request + Extra
      grown == [mem |-> [a \in 1 .. b.z - 1 + b.gap + increment |->
                           IF a <= b.z - 1 + b.gap THEN b.mem[a] ELSE Junk],
                gpt |-> b.z + b.gap, gap |-> increment, z |-> b.z + b.gap,
                bufpos |-> b.bufpos]
      moved == GapLeft(grown, b.gpt + b.gap)
  IN [mem |-> moved.mem, gpt |-> b.gpt, gap |-> increment + b.gap,
      z |-> b.z, bufpos |-> moved.bufpos]

\* The gap at position p, with room for n characters.
RoomAt(b, p, n) ==
  LET moved == MoveGap(b, p)
  IN IF moved.gap < n THEN MakeGap(moved, n - moved.gap) ELSE moved

\* Mutant of FillGap: one character too few is copied.
FillGapShort(b, s) ==
  [mem |-> [a \in Indices(b) |->
              IF b.gpt <= a /\ a < b.gpt + Len(s) - 1
              THEN s[a - b.gpt + 1] ELSE b.mem[a]],
   gpt |-> b.gpt + Len(s), gap |-> b.gap - Len(s), z |-> b.z + Len(s),
   bufpos |-> b.bufpos]

\* s copied to the start of the gap.
FillGap(b, s) ==
  [mem |-> [a \in Indices(b) |->
              IF b.gpt <= a /\ a < b.gpt + Len(s)
              THEN s[a - b.gpt + 1] ELSE b.mem[a]],
   gpt |-> b.gpt + Len(s), gap |-> b.gap - Len(s), z |-> b.z + Len(s),
   bufpos |-> b.bufpos]

\* The gap is moved next to or into from..to before the deletion.
GapNear(b, from, to) ==
  LET right == IF from > b.gpt THEN GapRight(b, from) ELSE b
  IN IF to < right.gpt THEN GapLeft(right, to) ELSE right

\* Mutant of WidenGap: the size of the gap is left as it was.
WidenGapSameSize(b, from, to) ==
  [mem |-> b.mem, gpt |-> from, gap |-> b.gap, z |-> b.z - (to - from),
   bufpos |-> AdjustMarkers(b.bufpos, to + b.gap, to + b.gap,
                            - (to - from) - b.gap)]

\* The gap swallows from..to-1.
WidenGap(b, from, to) ==
  [mem |-> b.mem, gpt |-> from, gap |-> b.gap + (to - from),
   z |-> b.z - (to - from),
   bufpos |-> AdjustMarkers(b.bufpos, to + b.gap, to + b.gap,
                            - (to - from) - b.gap)]
-----------------------------------------------------------------------------
Init ==
  /\ buf = [mem |-> [a \in 1 .. FirstGap |-> Junk], gpt |-> 1, gap |-> FirstGap,
            z |-> 1, bufpos |-> [m \in Marker |-> Nowhere]]
  /\ begv = 1 /\ zv = 1 /\ pt = 1

Insertable(s) ==
  /\ Len(s) >= 1
  /\ Len(s) + buf.z - 1 <= MaxSize

Inserted(s) == FillGap(RoomAt(buf, pt, Len(s)), s)

\* Mutant of AfterInsert: the accessible part does not grow.
AfterInsertSameZV(s) ==
  /\ pt' = pt + Len(s)
  /\ UNCHANGED <<begv, zv>>

AfterInsert(s) ==
  /\ pt' = pt + Len(s)
  /\ zv' = zv + Len(s)
  /\ begv' = begv

Insert(s) ==
  /\ Insertable(s)
  /\ buf' = Inserted(s)
  /\ AfterInsert(s)

\* The markers that were at point are then taken past the new text.
InsertBeforeMarkers(s) ==
  /\ Insertable(s)
  /\ LET done == Inserted(s)
     IN buf' = WithMarkers(done, AdjustMarkers(done.bufpos, pt - 1, pt, Len(s)))
  /\ AfterInsert(s)

\* insert-buffer-substring of the buffer into itself.  It inserts what lies
\* before the gap, then what lies after it; by then the gap has moved on,
\* and the second part is taken from where the gap now ends.
Chars(bf, from, to) == [i \in 1 .. to - from |-> FetchChar(bf, from + i - 1)]
Ready(b, e) == RoomAt(buf, pt, e - b)
FirstPart(b, e) ==
  IF b < pt THEN Chars(Ready(b, e), b, IF e < pt THEN e ELSE pt) ELSE << >>
Half(b, e) == FillGap(Ready(b, e), FirstPart(b, e))
SecondPart(b, e) ==
  LET gpt  == Half(b, e).gpt
      from == IF b >= pt THEN b ELSE IF e < gpt THEN e ELSE gpt
  IN Chars(Half(b, e), from, e)

InsertBufferSubstring(b, e) ==
  /\ begv <= b /\ b < e /\ e <= zv
  /\ e - b <= MaxInsert
  /\ LET s == FirstPart(b, e)
         t == SecondPart(b, e)
     IN \/ /\ Insertable(s \o t)
           /\ buf' = FillGap(Half(b, e), t)
           /\ AfterInsert(s \o t)
        \/ /\ Insertable(s)     \* the second part is too much
           /\ ~ Insertable(s \o t)
           /\ buf' = Half(b, e)
           /\ AfterInsert(s)

\* The room is made before the positions are checked.
InsertBufferSubstringRefused(n) ==
  /\ buf' = RoomAt(buf, pt, n)
  /\ UNCHANGED <<begv, zv, pt>>

Lower(b) == IF b < begv THEN begv ELSE b
Upper(e) == IF e > zv THEN zv ELSE e

DelRange(b, e) ==
  LET from == Lower(b)
      to   == Upper(e)
  IN /\ from < to
     /\ buf' = WidenGap(GapNear(buf, from, to), from, to)
     /\ pt' = IF from < pt THEN IF pt < to THEN from ELSE pt - (to - from)
              ELSE pt
     /\ zv' = zv - (to - from)
     /\ begv' = begv

\* A primitive given up with the gap on its way to pos: C-g noticed between
\* two chunks, no memory for a larger gap, or a read-only buffer, which
\* del_range finds out only once the gap has moved.
GiveUp(pos) ==
  /\ \E stop \in Stops(buf, pos) : buf' = MoveGap(buf, stop)
  /\ UNCHANGED <<begv, zv, pt>>

InsertGivenUp == GiveUp(pt)

DelRangeGivenUp(b, e) ==
  LET from == Lower(b)
      to   == Upper(e)
  IN /\ from < to
     /\ \/ from > buf.gpt /\ GiveUp(from)
        \/ to < buf.gpt /\ GiveUp(to)

\* buffer-substring, and buffer-string with b and e the accessible part.
BufferSubstring(b, e) ==
  /\ begv <= b /\ b <= e /\ e <= zv
  /\ b < buf.gpt /\ e > buf.gpt
  /\ GiveUp(b)

SubstCharInRegion(b, e, fromchar, tochar) ==
  /\ begv <= b /\ b <= e /\ e <= zv
  /\ buf' = WithMem(buf,
                [a \in Indices(buf) |->
                   IF /\ buf.mem[a] = fromchar
                      /\ \E p \in b .. e - 1 : a = CharIndex(buf, p)
                   THEN tochar ELSE buf.mem[a]])
  /\ UNCHANGED <<begv, zv, pt>>

GotoChar(n) ==
  /\ pt' = Clip(begv, n, zv)
  /\ UNCHANGED <<buf, begv, zv>>

NarrowToRegion(b, e) ==
  /\ 1 <= b /\ b <= e /\ e <= buf.z
  /\ begv' = b
  /\ zv' = e
  /\ pt' = IF pt < b THEN b ELSE IF pt > e THEN e ELSE pt
  /\ UNCHANGED buf

Widen ==
  /\ begv' = 1
  /\ zv' = buf.z
  /\ UNCHANGED <<buf, pt>>

\* Mutant of StoreMarker: a marker at the gap is put after it.
StoreMarkerAfterGap(m, charno) ==
  /\ buf' = WithMarkers(buf,
                [buf.bufpos EXCEPT
                   ![m] = IF charno >= buf.gpt THEN charno + buf.gap
                          ELSE charno])
  /\ UNCHANGED <<begv, zv, pt>>

StoreMarker(m, charno) ==
  /\ buf' = WithMarkers(buf,
                [buf.bufpos EXCEPT
                   ![m] = IF charno > buf.gpt THEN charno + buf.gap
                          ELSE charno])
  /\ UNCHANGED <<begv, zv, pt>>

SetMarker(m, n) == StoreMarker(m, Clip(1, n, buf.z))
SetMarkerRestricted(m, n) == StoreMarker(m, Clip(begv, n, zv))

SetMarkerNowhere(m) ==
  /\ buf' = WithMarkers(buf, [buf.bufpos EXCEPT ![m] = Nowhere])
  /\ UNCHANGED <<begv, zv, pt>>

Next ==
  \/ \E s \in Strings : Insert(s)
  \/ \E s \in Strings : InsertBeforeMarkers(s)
  \/ InsertGivenUp
  \/ \E b, e \in Position : InsertBufferSubstring(b, e)
  \/ \E n \in 1 .. MaxInsert : InsertBufferSubstringRefused(n)
  \/ \E b, e \in Position : DelRange(b, e)
  \/ \E b, e \in Position : DelRangeGivenUp(b, e)
  \/ \E b, e \in Position : BufferSubstring(b, e)
  \/ \E b, e \in Position, c, d \in Char : SubstCharInRegion(b, e, c, d)
  \/ \E n \in Position : GotoChar(n)
  \/ \E b, e \in Position : NarrowToRegion(b, e)
  \/ Widen
  \/ \E m \in Marker, n \in Position : SetMarker(m, n)
  \/ \E m \in Marker, n \in Position : SetMarkerRestricted(m, n)
  \/ \E m \in Marker : SetMarkerNowhere(m)

Spec == Init /\ [][Next]_vars
-----------------------------------------------------------------------------
(***************************************************************************)
(* Properties.                                                             *)
(***************************************************************************)
\* The block is exactly as long as the text and the gap.
Block(b) ==
  /\ b = [mem |-> b.mem, gpt |-> b.gpt, gap |-> b.gap, z |-> b.z,
          bufpos |-> b.bufpos]
  /\ b.gpt \in Nat /\ b.gap \in Nat /\ b.z \in Nat
  /\ b.mem \in [1 .. b.z - 1 + b.gap -> Char \cup {Junk}]
  /\ b.bufpos \in [Marker -> Nat \cup {Nowhere}]

TypeOK ==
  /\ Block(buf)
  /\ begv \in Nat /\ zv \in Nat /\ pt \in Nat

\* The gap lies in the text and the text fits a Lisp integer; narrowing is
\* within the text and point within the narrowing.
PositionsOrdered ==
  /\ 1 <= buf.gpt /\ buf.gpt <= buf.z
  /\ buf.z - 1 <= MaxSize
  /\ 1 <= begv /\ begv <= pt /\ pt <= zv /\ zv <= buf.z

OutsideGap(b, m) ==
  b.bufpos[m] # Nowhere =>
    \/ 1 <= b.bufpos[m] /\ b.bufpos[m] <= b.gpt
    \/ b.gpt + b.gap < b.bufpos[m] /\ b.bufpos[m] <= b.z + b.gap

\* No marker holds an index inside the gap or outside the block: the abort ()
\* calls of marker-position are never reached.
MarkersOutsideGap == \A m \in Marker : OutsideGap(buf, m)

\* What the gap holds, fresh memory or old text, never becomes text again.
NoJunkInText == \A p \in 1 .. buf.z - 1 : FetchChar(buf, p) # Junk

\* Seen from Lisp the buffer is a BufferText: wherever the gap is, however
\* often it moves, grows or stops half way, text, point, narrowing and
\* markers change exactly as that module says.
Lisp == INSTANCE BufferText WITH
          text <- TextOf(buf),
          mpos <- [m \in Marker |-> MarkerPosition(buf, m)]
ImplementsBufferText == Lisp!Spec

\* What insert-buffer-substring inserts is the substring it was asked for,
\* if there is room for it ("it matters not if BUF is the current buffer").
Duplicates(b, e) ==
  Insertable(Chars(buf, b, e)) =>
    TextOf(buf') = Lisp!Spliced(TextOf(buf), pt, Chars(buf, b, e))
InsertsTheSubstring ==
  [][\A b, e \in Position :
       InsertBufferSubstring(b, e) => Duplicates(b, e)]_vars

\* It does when point is not strictly inside the substring.
InsertsSubstringBesidePoint ==
  [][\A b, e \in Position :
       InsertBufferSubstring(b, e) /\ ~ (b < pt /\ pt < e)
         => Duplicates(b, e)]_vars
=============================================================================
